--------------------------- MODULE BackingRouter ---------------------------
(***************************************************************************)
(* CapacityBackingRouter (host_service/capacity_backing_router.cpp): the   *)
(* table that routes a global page to the backing file it is mapped from.  *)
(* Mappings are staged, activated and deactivated by some threads while    *)
(* others read, write and flush pages.  Every step holds the router's      *)
(* mutex once; the file operation itself runs without it, protected by the *)
(* admission count of the entry.                                           *)
(*                                                                         *)
(* Every stage brings a BackingStore of its own, so a store is named by    *)
(* the token of its entry.  admitted[c][s] is the token client c was       *)
(* admitted under at slot s, 0 if it holds no admission there; the code    *)
(* keeps only the index.                                                   *)
(***************************************************************************)
EXTENDS Integers, FiniteSets

CONSTANTS Capacity,    \* kCapacity
          RangeIds,    \* identifiers of ranges, not zero
          Spans,       \* the page sets that may be mapped
          MaxToken,    \* the largest token, UINT64_MAX in the code
          Clients,     \* threads in read_page, write_page or flush
          Admins       \* threads that map and unmap

ASSUME RouterAssumption ==
  /\ Capacity \in Nat \ {0} /\ MaxToken \in Nat \ {0}
  /\ RangeIds \subseteq Nat \ {0}
  /\ IsFiniteSet(Clients)

VARIABLES entry,      \* entries_
          nextToken,  \* next_token_, 0 when tokens_exhausted_
          admitted,   \* admissions held by each client, by slot
          io,         \* what each client does
          admin       \* what each admin does

vars == <<entry, nextToken, admitted, io, admin>>

Slots == 1..Capacity
Tokens == 1..MaxToken
Pages == UNION Spans

EmptyEntry == [state |-> "Empty", token |-> 0, range |-> 0, pages |-> {},
               writable |-> FALSE, admissions |-> 0]

Entries == [state : {"Empty", "Staged", "Active", "Deactivating"},
            token : Tokens \cup {0}, range : RangeIds \cup {0},
            pages : Spans \cup {{}}, writable : BOOLEAN, admissions : Nat]

ClientStates == [pc : {"idle", "admitted", "io", "flush", "flushing"},
                 write : BOOLEAN, store : Tokens \cup {0}]

NoSlots == [s \in Slots |-> 0]
IdleClient == [pc |-> "idle", write |-> FALSE, store |-> 0]
IdleAdmin == [pc |-> "idle", token |-> 0, slot |-> 0]

TypeOK ==
  /\ entry \in [Slots -> Entries]
  /\ nextToken \in Tokens \cup {0}
  /\ admitted \in [Clients -> [Slots -> Tokens \cup {0}]]
  /\ io \in [Clients -> ClientStates]
  /\ admin \in [Admins -> [pc : {"idle", "staged", "draining"},
                           token : Tokens \cup {0}, slot : Slots \cup {0}]]

Init ==
  /\ entry = [s \in Slots |-> EmptyEntry]
  /\ nextToken = 1
  /\ admitted = [c \in Clients |-> NoSlots]
  /\ io = [c \in Clients |-> IdleClient]
  /\ admin = [a \in Admins |-> IdleAdmin]

Held(c) == {s \in Slots : admitted[c][s] # 0}
Holders(s) == {c \in Clients : admitted[c][s] # 0}

First(S) == CHOOSE s \in S : \A t \in S : s <= t

(***************************************************************************)
(* Mapping and unmapping                                                   *)
(***************************************************************************)

(* an entry that is on its way out would be ignored *)
ConflictsActive(s, id, pages) ==
  /\ entry[s].state = "Active"
  /\ entry[s].range = id \/ entry[s].pages \cap pages # {}

Conflicts(s, id, pages) ==
  /\ entry[s].state # "Empty"
  /\ entry[s].range = id \/ entry[s].pages \cap pages # {}

NextToken == IF nextToken = MaxToken THEN 0 ELSE nextToken + 1

Stage(a, id, pages, writable) ==
  LET vacant == {s \in Slots : entry[s].state = "Empty"}
  IN /\ admin[a].pc = "idle"
     /\ \A s \in Slots : ~Conflicts(s, id, pages)
     /\ vacant # {} /\ nextToken # 0
     /\ entry' = [entry EXCEPT ![First(vacant)] =
                    [state |-> "Staged", token |-> nextToken, range |-> id,
                     pages |-> pages, writable |-> writable, admissions |-> 0]]
     /\ admin' = [admin EXCEPT ![a] = [pc |-> "staged", token |-> nextToken,
                                       slot |-> 0]]
     /\ nextToken' = NextToken
     /\ UNCHANGED <<admitted, io>>

StagedAs(a) == {s \in Slots : /\ entry[s].state = "Staged"
                              /\ entry[s].token = admin[a].token}

Activate(a) ==
  /\ admin[a].pc = "staged"
  /\ \E s \in StagedAs(a) : entry' = [entry EXCEPT ![s].state = "Active"]
  /\ admin' = [admin EXCEPT ![a] = IdleAdmin]
  /\ UNCHANGED <<nextToken, admitted, io>>

(* the launch gate has refused the range *)
Cancel(a) ==
  /\ admin[a].pc = "staged"
  /\ \E s \in StagedAs(a) : entry' = [entry EXCEPT ![s] = EmptyEntry]
  /\ admin' = [admin EXCEPT ![a] = IdleAdmin]
  /\ UNCHANGED <<nextToken, admitted, io>>

DeactivateBegin(a, id) ==
  /\ admin[a].pc = "idle"
  /\ \E s \in Slots :
       /\ entry[s].state = "Active" /\ entry[s].range = id
       /\ entry' = [entry EXCEPT ![s].state = "Deactivating"]
       /\ admin' = [admin EXCEPT ![a] = [pc |-> "draining", token |-> 0,
                                         slot |-> s]]
  /\ UNCHANGED <<nextToken, admitted, io>>

(* the wait would be left out *)
DrainedAtOnce(s) == TRUE

Drained(s) == entry[s].admissions = 0

DeactivateEnd(a) ==
  /\ admin[a].pc = "draining" /\ Drained(admin[a].slot)
  /\ entry' = [entry EXCEPT ![admin[a].slot] = EmptyEntry]
  /\ admin' = [admin EXCEPT ![a] = IdleAdmin]
  /\ UNCHANGED <<nextToken, admitted, io>>

(***************************************************************************)
(* Pages: admit, copy the entry, do the file operation, release            *)
(***************************************************************************)
(* an entry on its way out would go on admitting *)
AdmittingAny == {"Active", "Deactivating"}

Admitting == {"Active"}

Routes(p) == {s \in Slots : entry[s].state \in Admitting /\ p \in entry[s].pages}

(* a page nobody routes is an IoError, without a change of state *)
Admit(c, p, write) ==
  /\ io[c].pc = "idle" /\ Routes(p) # {}
  /\ LET s == First(Routes(p))
     IN /\ entry' = [entry EXCEPT ![s].admissions = @ + 1]
        /\ admitted' = [admitted EXCEPT ![c][s] = entry[s].token]
  /\ io' = [io EXCEPT ![c] = [pc |-> "admitted", write |-> write, store |-> 0]]
  /\ UNCHANGED <<nextToken, admin>>

(* an admission would be lost *)
ReleasedUncounted(c, s) ==
  /\ UNCHANGED <<entry, nextToken, admin>>
  /\ admitted' = [admitted EXCEPT ![c][s] = 0]

(* release, after a read, a write or an exception, at slot s *)
Released(c, s) ==
  /\ entry' = IF entry[s].admissions # 0
              THEN [entry EXCEPT ![s].admissions = @ - 1] ELSE entry
  /\ admitted' = [admitted EXCEPT ![c][s] = 0]
  /\ UNCHANGED <<nextToken, admin>>

CopyEntry(c) ==
  /\ io[c].pc = "admitted"
  /\ \E s \in Held(c) :
       /\ io[c].write => entry[s].writable
       /\ io' = [io EXCEPT ![c] = [@ EXCEPT !.pc = "io", !.store = entry[s].token]]
  /\ UNCHANGED <<entry, nextToken, admitted, admin>>

(* write_page of a range that may only be read *)
RefuseWrite(c) ==
  /\ io[c].pc = "admitted"
  /\ \E s \in Held(c) :
       /\ io[c].write /\ ~entry[s].writable
       /\ Released(c, s)
  /\ io' = [io EXCEPT ![c] = IdleClient]

FinishPage(c) ==
  /\ io[c].pc = "io"
  /\ \E s \in Held(c) : Released(c, s)
  /\ io' = [io EXCEPT ![c] = IdleClient]

(* flush admits itself to every active entry, or to the one of range id *)
FlushBegin(c, ids) ==
  LET S == {s \in Slots : entry[s].state = "Active" /\ entry[s].range \in ids}
  IN /\ io[c].pc = "idle" /\ S # {}
     /\ entry' = [s \in Slots |-> IF s \in S
                                  THEN [entry[s] EXCEPT !.admissions = @ + 1]
                                  ELSE entry[s]]
     /\ admitted' = [admitted EXCEPT ![c] =
                       [s \in Slots |-> IF s \in S THEN entry[s].token ELSE 0]]
     /\ io' = [io EXCEPT ![c] = [pc |-> "flush", write |-> FALSE, store |-> 0]]
     /\ UNCHANGED <<nextToken, admin>>

FlushStore(c) ==
  /\ io[c].pc = "flush"
  /\ io' = [io EXCEPT ![c] = [@ EXCEPT !.pc = "flushing",
                                       !.store = entry[First(Held(c))].token]]
  /\ UNCHANGED <<entry, nextToken, admitted, admin>>

FlushRelease(c) ==
  /\ io[c].pc = "flushing"
  /\ Released(c, First(Held(c)))
  /\ io' = [io EXCEPT ![c] = IF Held(c) = {First(Held(c))} THEN IdleClient
                             ELSE [io[c] EXCEPT !.pc = "flush", !.store = 0]]
----------------------------------------------------------------------------
ClientSteps(c) ==
  \/ CopyEntry(c) \/ RefuseWrite(c) \/ FinishPage(c)
  \/ FlushStore(c) \/ FlushRelease(c)

Next ==
  \/ \E a \in Admins :
       \/ \E id \in RangeIds, pages \in Spans, w \in BOOLEAN : Stage(a, id, pages, w)
       \/ Activate(a) \/ Cancel(a)
       \/ \E id \in RangeIds : DeactivateBegin(a, id)
       \/ DeactivateEnd(a)
  \/ \E c \in Clients :
       \/ \E p \in Pages, w \in BOOLEAN : Admit(c, p, w)
       \/ FlushBegin(c, RangeIds)
       \/ \E id \in RangeIds : FlushBegin(c, {id})
       \/ ClientSteps(c)

Spec == Init /\ [][Next]_vars

(* A file operation ends, and a thread that waits is woken by the release  *)
(* that brings the count to zero.                                          *)
FairSpec ==
  /\ Spec
  /\ \A c \in Clients : WF_vars(ClientSteps(c))
  /\ \A a \in Admins : WF_vars(DeactivateEnd(a))
----------------------------------------------------------------------------
(* An entry in use by a read, a write or a flush is not emptied or reused: *)
(* the client still finds the mapping it was admitted to at its index.     *)
AdmittedStays ==
  \A c \in Clients : \A s \in Held(c) :
    /\ entry[s].token = admitted[c][s]
    /\ entry[s].state \in {"Active", "Deactivating"}

(* The count of an entry is the number of clients that use it, so that     *)
(* deactivate neither waits for ever nor ends too soon.                    *)
AdmissionsExact == \A s \in Slots : entry[s].admissions = Cardinality(Holders(s))

(* The file a page operation works on is the one of the mapping it was     *)
(* admitted to, although the entry is read under a second lock.            *)
RightStore ==
  \A c \in Clients :
    io[c].store # 0 => \E s \in Held(c) : admitted[c][s] = io[c].store

(* A page has one route at a time and a range one entry, also while a      *)
(* mapping is on its way in or out.                                        *)
OneRoute ==
  \A s, t \in Slots :
    s # t /\ entry[s].state # "Empty" /\ entry[t].state # "Empty" =>
      entry[s].range # entry[t].range /\ entry[s].pages \cap entry[t].pages = {}

(* deactivate returns, whatever new operations arrive: an entry on its way *)
(* out admits nobody.                                                      *)
DeactivationEnds == \A a \in Admins : admin[a].pc = "draining" ~> admin[a].pc = "idle"
=============================================================================
