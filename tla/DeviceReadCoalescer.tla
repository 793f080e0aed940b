------------------------ MODULE DeviceReadCoalescer ------------------------
(***************************************************************************)
(* Grouping of page reads in front of the flash media: readers of one page *)
(* share a media read, every bank has two page slots, and a group waits in *)
(* the FIFO of its bank until it owns a slot.                              *)
(*                                                                         *)
(* The class has one caller thread and its methods are called from inside  *)
(* the handlers of a frontend, so they are operators from a coalescer to   *)
(* a coalescer.  Statistics are left out.  The map from waiters to groups  *)
(* is the inverse of the waiter sets and is not kept a second time.        *)
(***************************************************************************)
EXTENDS Integers, FiniteSets, FiniteSetsExt, SequencesExt

CONSTANTS Keys,         \* pages, as DevicePageKey tells them apart
          BankOf,       \* the bank of a page
          MaxGroups,    \* max_groups_ and max_waiters_
          MaxToken,     \* bound on next_token_
          BufferCache,  \* buffer_cache_: completed pages stay in their slot
          Coalescing,   \* inflight_coalescing_
          EmptyWait     \* HBFSIM_UCIE_COALESCER_EMPTY_WAIT

Banks  == {BankOf[k] : k \in Keys}
Slots  == {1, 2}
Tokens == 1..MaxToken
NoKey  == "no key"

NoGroup == [phase |-> "None", key |-> NoKey, waiters |-> {}, slot |-> 0,
            success |-> FALSE]

CoInit ==
  [groups   |-> [t \in Tokens |-> NoGroup],
   next     |-> 1,
   joinable |-> [k \in Keys |-> 0],
   ready    |-> [k \in Keys |-> 0],
   slots    |-> [b \in Banks |-> [i \in Slots |-> [token |-> 0, cached |-> NoKey]]],
   waiting  |-> [b \in Banks |-> <<>>],
   count    |-> 0,                   \* waiting_group_count_
   failed   |-> FALSE]               \* a logic_error was thrown

Live(c) == {t \in Tokens : c.groups[t].phase # "None"}
GroupOf(c, w) == CHOOSE t \in Live(c) : w \in c.groups[t].waiters
HasGroup(c, w) == \E t \in Live(c) : w \in c.groups[t].waiters

Join(c, t, w) == [c EXCEPT !.groups[t].waiters = @ \cup {w}]

(* arrive: join the read under way, then a completed page, then a page     *)
(* that is cached in a slot; else a new group waits for its bank.  0 as a  *)
(* token: no room for another group.                                       *)
CachedSlots(c, key) ==
  {i \in Slots : LET s == c.slots[BankOf[key]][i]
                 IN  s.token = 0 /\ s.cached = key}

PinCached(c, w, key) ==
  LET i == Min(CachedSlots(c, key))
  IN  [c EXCEPT !.groups[c.next] = [phase |-> "Ready", key |-> key, waiters |-> {w},
                                    slot |-> i, success |-> TRUE],
                !.next = @ + 1,
                !.slots[BankOf[key]][i] = [token |-> c.next, cached |-> NoKey],
                !.ready[key] = c.next]

NewGroup(c, w, key) ==
  [c EXCEPT !.groups[c.next] = [NoGroup EXCEPT !.phase = "Waiting", !.key = key,
                                               !.waiters = {w}],
            !.next = @ + 1,
            !.joinable[key] = IF Coalescing THEN c.next ELSE @,
            !.waiting[BankOf[key]] = Append(@, c.next),
            !.count = @ + 1]

Arrival(c, token, hit) == [co |-> c, token |-> token, hit |-> hit]

arriveAlone(c, w, key) ==
  IF Cardinality(Live(c)) >= MaxGroups THEN Arrival(c, 0, FALSE)
  ELSE Arrival(NewGroup(c, w, key), c.next, FALSE)

Waiters(c) == UNION {c.groups[t].waiters : t \in Tokens}

arrive(c, w, key) ==
  LET joins == Coalescing /\ c.joinable[key] # 0
      hits  == BufferCache /\ c.ready[key] # 0
  IN  IF Cardinality(Waiters(c)) >= MaxGroups THEN Arrival(c, 0, FALSE)
      ELSE IF joins THEN Arrival(Join(c, c.joinable[key], w), c.joinable[key], FALSE)
      ELSE IF hits THEN Arrival(Join(c, c.ready[key], w), c.ready[key], TRUE)
      ELSE IF Cardinality(Live(c)) >= MaxGroups THEN Arrival(c, 0, FALSE)
      ELSE IF BufferCache /\ CachedSlots(c, key) # {}
      THEN Arrival(PinCached(c, w, key), c.next, TRUE)
      ELSE Arrival(NewGroup(c, w, key), c.next, FALSE)

(* take_submittable: the head of a bank's FIFO takes an empty slot, or the *)
(* lower one that only caches a page.                                      *)
AnySlot(c, b) == Slots
FreeSlots(c, b) == {i \in Slots : c.slots[b][i].token = 0}
SlotFor(c, b) ==
  LET empty == {i \in FreeSlots(c, b) : c.slots[b][i].cached = NoKey}
  IN  IF empty # {} THEN Min(empty) ELSE Min(FreeSlots(c, b))

TakeHead(c, b) ==
  IF c.waiting[b] = <<>> \/ FreeSlots(c, b) = {} THEN c
  ELSE LET t == Head(c.waiting[b])
           i == SlotFor(c, b)
       IN  [c EXCEPT !.waiting[b] = Tail(@),
                     !.count = @ - 1,
                     !.failed = \/ @ \/ c.count = 0
                                \/ c.groups[t].phase # "Waiting"
                                \/ c.groups[t].waiters = {},
                     !.groups[t].phase = "Submitted",
                     !.groups[t].slot = i,
                     !.slots[b][i] = [token |-> t, cached |-> NoKey]]

take_submittable(c) ==
  IF EmptyWait /\ c.count = 0 THEN c
  ELSE FoldSet(LAMBDA b, d : TakeHead(TakeHead(d, b), b), c, Banks)

(* release_if_unreferenced: the slot of a completed page without readers   *)
(* is free again, and may keep the page as a cache entry.                  *)
ReleaseUnreferenced(c, t) ==
  LET g == c.groups[t]
      b == BankOf[g.key]
  IN  IF g.phase # "Ready" \/ g.waiters # {} THEN c
      ELSE [c EXCEPT !.ready[g.key] = IF BufferCache /\ g.success /\ @ = t THEN 0 ELSE @,
                     !.slots[b][g.slot] =
                        [token |-> 0,
                         cached |-> IF BufferCache /\ g.success THEN g.key ELSE NoKey],
                     !.failed = @ \/ c.slots[b][g.slot].token # t,
                     !.groups[t] = NoGroup]

ForgetJoin(c, t) ==
  LET key == c.groups[t].key
  IN  IF c.joinable[key] = t THEN [c EXCEPT !.joinable[key] = 0] ELSE c

complete(c, t, success) ==
  ReleaseUnreferenced(
    [ForgetJoin(c, t) EXCEPT
       !.groups[t].phase = "Ready",
       !.groups[t].success = success,
       !.groups[t].waiters = IF success THEN @ ELSE {},
       !.ready[c.groups[t].key] = IF success /\ BufferCache THEN t ELSE @], t)

(* detach: the reader gives up before its response is queued.  A group     *)
(* that waits for a slot disappears with its last reader.                  *)
detach(c, w) ==
  LET t == GroupOf(c, w)
      b == BankOf[c.groups[t].key]
      d == [c EXCEPT !.groups[t].waiters = @ \ {w}]
  IN  IF d.groups[t].waiters = {} /\ d.groups[t].phase = "Waiting"
      THEN [ForgetJoin(d, t) EXCEPT !.waiting[b] = Remove(@, t),
                                    !.count = @ - 1,
                                    !.failed = @ \/ c.count = 0
                                                 \/ t \notin ToSet(c.waiting[b]),
                                    !.groups[t] = NoGroup]
      ELSE ReleaseUnreferenced(d, t)
StillAtMedia(c, w) == c.groups[GroupOf(c, w)].phase = "Submitted"

(* consume: the reader took its response.                                  *)
consume(c, w) ==
  IF ~HasGroup(c, w) \/ c.groups[GroupOf(c, w)].phase # "Ready"
  THEN [c EXCEPT !.failed = TRUE]
  ELSE LET t == GroupOf(c, w)
       IN  ReleaseUnreferenced([c EXCEPT !.groups[t].waiters = @ \ {w}], t)
=============================================================================
