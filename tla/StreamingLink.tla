--------------------------- MODULE StreamingLink ---------------------------
(***************************************************************************)
(* The AXI-over-UCIe link between a host module and an HBF stack: messages *)
(* of two directions cut into flits, receiver space reserved in granules   *)
(* when a message starts, and given back by grants that ride on the flits  *)
(* of the opposite direction.                                              *)
(*                                                                         *)
(* The link is a discrete-event simulation that its owner steps; one       *)
(* thread at a time calls it.  Times are kept relative to the link's       *)
(* clock: "in" is the time that is left until an event.  Byte counters,    *)
(* flit records and the overflow checks on 64-bit times are left out.      *)
(***************************************************************************)
EXTENDS Integers, FiniteSets, FiniteSetsExt, SequencesExt

CONSTANTS Ids,            \* request identifiers
          Traffic,        \* those the owner sends in each direction
          Initial,        \* granules of receiver space in each direction
          MaxAccepted,    \* messages the link accepts in a direction
          Serialization,  \* time a flit occupies its wire
          Propagation,    \* time a flit travels
          MaxDelay        \* how far ahead the owner announces an event

Dirs == {"Request", "Return"}
Other(d) == IF d = "Request" THEN "Return" ELSE "Request"
Size == [d \in Dirs |-> IF d = "Request" THEN 3 ELSE 14]
FlitGranules == 48

ASSUME LinkAssumption ==
  /\ \A d \in Dirs : Initial[d] \in Size[d]..65535
  /\ \A d \in Dirs : Traffic[d] \subseteq Ids
  /\ MaxAccepted \in 1..65535
  /\ Serialization \in Nat \ {0}
  /\ Propagation \in Nat /\ MaxDelay \in Nat

VARIABLES link            \* the members of StreamingLink, as one record
vars == link

Event(in, kind, d) == [in |-> in, kind |-> kind, dir |-> d, ids |-> <<>>, grant |-> 0]

LinkInit ==
  link = [events   |-> <<>>,                        \* sorted by time, stable
          queue    |-> [d \in Dirs |-> <<>>],
          cursor   |-> [d \in Dirs |-> 0],          \* time until the wire is free
          credits  |-> Initial,
          pending  |-> [d \in Dirs |-> 0],          \* released, not yet granted
          awaiting |-> [d \in Dirs |-> {}],
          active   |-> [d \in Dirs |-> {}],
          failed   |-> FALSE]                       \* step threw a logic_error

(* events_.emplace: behind every event of the same or an earlier time.     *)
Schedule(l, e) ==
  [l EXCEPT !.events = SelectSeq(@, LAMBDA x : x.in <= e.in) \o <<e>>
                       \o SelectSeq(@, LAMBDA x : x.in > e.in)]

(* A grant has 1 granule, or 4, 8, ..., 128 of them.                       *)
GrantSizes == {1} \cup {2^k : k \in 2..7}
LegalGrantCoarse(n) == IF n < 4 THEN 0 ELSE Max({g \in GrantSizes : g <= n})
LegalGrant(n) == IF n = 0 THEN 0 ELSE Max({g \in GrantSizes : g <= n})

(* The queue is packed into one flit: a message starts only if the whole   *)
(* of it fits the receiver, and may go on in the next flit.                *)
MayStartOnAny(credit, size) == credit > 0
MayStart(credit, size) == credit >= size

Blocked(d, f, m) ==
  f.full \/ f.used = FlitGranules \/ (~m.started /\ ~MayStart(f.credit, Size[d]))

Taken(f, m) == Min({FlitGranules - f.used, m.remaining})
AnyFragment(f, m) == TRUE
Delivers(f, m) == Taken(f, m) = m.remaining
Charge(d, m) == IF m.started THEN 0 ELSE Size[d]

Fragment(d, f, m) ==
  [used   |-> f.used + Taken(f, m),
   credit |-> f.credit - Charge(d, m),
   ids    |-> IF Delivers(f, m) THEN Append(f.ids, m.id) ELSE f.ids,
   rest   |-> IF Taken(f, m) = m.remaining THEN f.rest
              ELSE Append(f.rest, [m EXCEPT !.remaining = @ - Taken(f, m),
                                            !.started = TRUE]),
   full   |-> FALSE]

PackReorders(d, f, m) ==
  IF Blocked(d, f, m) THEN [f EXCEPT !.rest = <<m>> \o @, !.full = TRUE]
  ELSE Fragment(d, f, m)

Pack(d, f, m) ==
  IF Blocked(d, f, m) THEN [f EXCEPT !.rest = Append(@, m), !.full = TRUE]
  ELSE Fragment(d, f, m)

Flit(l, d) ==
  FoldLeft(LAMBDA f, m : Pack(d, f, m),
           [used |-> 0, credit |-> l.credits[d], ids |-> <<>>, rest |-> <<>>,
            full |-> FALSE],
           l.queue[d])

Retry(l, d) ==
  IF l.queue[d] # <<>> \/ l.pending[Other(d)] # 0
  THEN Schedule(l, Event(l.cursor[d], "Retry", d)) ELSE l

(* A flit of direction d carries a grant for the messages of the other     *)
(* direction that its sender has consumed.                                 *)
SendFlit(l, d, flit, grant) ==
  Schedule([l EXCEPT !.queue[d] = flit.rest,
                     !.credits[d] = flit.credit,
                     !.pending[Other(d)] = @ - grant,
                     !.cursor[d] = Serialization],
           [Event(Serialization + Propagation, "Flit", d)
              EXCEPT !.ids = flit.ids, !.grant = grant])

SendReady(l, d) ==
  LET flit  == Flit(l, d)
      grant == LegalGrant(l.pending[Other(d)])
  IN  IF l.cursor[d] > 0 THEN Retry(l, d)
      ELSE IF flit.used = 0 /\ grant = 0 THEN l
      ELSE Retry(SendFlit(l, d, flit, grant), d)

Arrive(l, e) ==
  [l EXCEPT !.queue[e.dir] =
     Append(@, [id |-> e.ids[1], remaining |-> Size[e.dir], started |-> FALSE])]

Deliver(l, e) ==
  LET back == Other(e.dir)
  IN  [l EXCEPT !.credits[back] = @ + e.grant,
                !.awaiting[e.dir] = @ \cup ToSet(e.ids),
                !.failed = \/ e.grant > Initial[back] - l.credits[back]
                           \/ l.awaiting[e.dir] \cap ToSet(e.ids) # {}]

ReleaseOnly(l, e) == [l EXCEPT !.active[e.dir] = @ \ ToSet(e.ids)]
Release(l, e) ==
  [l EXCEPT !.active[e.dir] = @ \ ToSet(e.ids),
            !.pending[e.dir] = @ + Size[e.dir],
            !.failed = \/ ~(ToSet(e.ids) \subseteq l.active[e.dir])
                       \/ l.pending[e.dir] > 65535 - Size[e.dir]]

Process(l, e) ==
  CASE l.failed           -> l
    [] e.kind = "Arrival" -> Arrive(l, e)
    [] e.kind = "Flit"    -> Deliver(l, e)
    [] e.kind = "Consume" -> Release(l, e)
    [] e.kind = "Retry"   -> l

Elapse(l, dt) ==
  [l EXCEPT !.events = [i \in DOMAIN @ |-> [@[i] EXCEPT !.in = @ - dt]],
            !.cursor = [d \in Dirs |-> Max({0, @[d] - dt})]]
-----------------------------------------------------------------------------
(* Calls of the owner.  An identifier that is zero or in the past, or that *)
(* is already active, is refused with an exception and no effect.          *)
Enqueue(d, id, delay) ==
  /\ ~link.failed
  /\ id \notin link.active[d]
  /\ Cardinality(link.active[d]) < MaxAccepted
  /\ link' = Schedule([link EXCEPT !.active[d] = @ \cup {id}],
                      [Event(delay, "Arrival", d) EXCEPT !.ids = <<id>>])

Consume(d, id, delay) ==
  /\ ~link.failed
  /\ id \in link.awaiting[d]
  /\ link' = Schedule([link EXCEPT !.awaiting[d] = @ \ {id}],
                      [Event(delay, "Consume", d) EXCEPT !.ids = <<id>>])

(* step: every event of the next time, then one flit in each direction.    *)
Step ==
  /\ ~link.failed
  /\ link.events # <<>>
  /\ LET now  == Elapse(link, link.events[1].in)
         due  == SelectSeq(now.events, LAMBDA e : e.in = 0)
         left == [now EXCEPT !.events = SelectSeq(@, LAMBDA e : e.in > 0)]
         done == FoldLeft(Process, left, due)
     IN  link' = IF done.failed THEN done
                 ELSE SendReady(SendReady(done, "Request"), "Return")

Next ==
  \/ \E d \in Dirs, delay \in 0..MaxDelay : \E id \in Traffic[d] :
       Enqueue(d, id, delay) \/ Consume(d, id, delay)
  \/ Step

Spec == LinkInit /\ [][Next]_vars

(* The owner steps the link as long as it has events, and lets go of what  *)
(* it was delivered.  Both conjuncts are weak fairness, with the condition *)
(* under which the action is enabled written out; a link that has thrown   *)
(* does nothing more.                                                      *)
Fairness ==
  /\ []<>(link.failed \/ link.events = <<>>) \/ []<><<Step>>_vars
  /\ \A d \in Dirs, id \in Ids :
       \/ []<>(link.failed \/ id \notin link.awaiting[d])
       \/ []<><<Consume(d, id, 0)>>_vars
FairSpec == Spec /\ Fairness
-----------------------------------------------------------------------------
TypeOK ==
  /\ \A d \in Dirs :
       /\ link.credits[d] \in 0..Initial[d] /\ link.pending[d] \in 0..Initial[d]
       /\ link.cursor[d] \in 0..Serialization
       /\ link.awaiting[d] \subseteq link.active[d] /\ link.active[d] \subseteq Ids
  /\ \A i \in DOMAIN link.events : link.events[i].in \in Nat

(* No exception leaves step: no grant exceeds what was released, pending   *)
(* grants stay in 16 bits, no message is delivered twice or consumed       *)
(* without owner.                                                          *)
NeverFails == ~link.failed

(* Granules of direction d that are neither with the sender nor pending.   *)
Granted(d) ==
  FoldLeft(LAMBDA n, e : IF e.dir # d THEN n + e.grant ELSE n, 0, link.events)
OnTheWire(d, kind) ==
  FlattenSeq([i \in DOMAIN link.events |->
     IF link.events[i].kind = kind /\ link.events[i].dir = d
     THEN link.events[i].ids ELSE <<>>])
Started(d) == Len(SelectSeq(link.queue[d], LAMBDA m : m.started))
HoldingSpace(d) ==
  Started(d) + Len(OnTheWire(d, "Flit")) + Cardinality(link.awaiting[d])
    + Len(OnTheWire(d, "Consume"))

(* No credit is lost or made up: in each direction the granules with the   *)
(* sender, those of messages that occupy the receiver, those waiting to be *)
(* granted and those granted in flits under way add up to the profile's    *)
(* initial credits, and none of them is ever overdrawn.                    *)
CreditsConserved ==
  /\ TypeOK
  /\ \A d \in Dirs :
       link.credits[d] + Size[d] * HoldingSpace(d) + link.pending[d] + Granted(d)
         = Initial[d]

(* The link is a pair of lines without overtaking, with as much room at    *)
(* the receiver as whole messages fit its initial credits.                 *)
Channel ==
  INSTANCE LinkChannel WITH
    Window    <- [d \in Dirs |-> Initial[d] \div Size[d]],
    coming    <- [d \in Dirs |-> ToSet(OnTheWire(d, "Arrival"))],
    line      <- [d \in Dirs |-> OnTheWire(d, "Flit") \o
                    [i \in DOMAIN link.queue[d] |-> link.queue[d][i].id]],
    delivered <- link.awaiting,
    leaving   <- [d \in Dirs |-> ToSet(OnTheWire(d, "Consume"))]
ImplementsChannel == Channel!ChanSpec

(* Every message that the link accepts is delivered and, once the owner    *)
(* consumed it, its identifier is free again.                              *)
EveryMessagePasses ==
  \A d \in Dirs, id \in Ids : id \in link.active[d] ~> id \notin link.active[d]
=============================================================================
