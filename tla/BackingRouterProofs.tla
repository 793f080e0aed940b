------------------------ MODULE BackingRouterProofs ------------------------
(***************************************************************************)
(* Proofs about BackingRouter, for any capacity, any finite set of clients *)
(* and any number of tokens.  RouterInv is inductive: the two parts that   *)
(* matter, AdmissionsExact and AdmittedStays, need each other (an entry    *)
(* with no admission has no holder, so that emptying it disturbs nobody)   *)
(* and what the threads know at their program counters.                    *)
(***************************************************************************)
EXTENDS BackingRouter, FiniteSetTheorems, WellFoundedInduction, TLAPS

(* an entry has a token exactly when it is in use *)
EntriesSound == \A s \in Slots : entry[s].state = "Empty" <=> entry[s].token = 0

ClientSound(c) ==
  /\ io[c].pc = "idle" => Held(c) = {} /\ io[c].store = 0
  /\ io[c].pc \in {"admitted", "flush"} => io[c].store = 0
  /\ io[c].pc \in {"admitted", "io"} => \E s \in Slots : Held(c) = {s}
  /\ io[c].pc \in {"flush", "flushing"} => Held(c) # {}
  /\ io[c].pc = "io" => \A s \in Held(c) : io[c].store = admitted[c][s]
  /\ io[c].pc = "flushing" => io[c].store = admitted[c][First(Held(c))]

ClientsSound == \A c \in Clients : ClientSound(c)

(* an entry that is drained belongs to one admin *)
AdminsSound ==
  /\ \A a \in Admins : admin[a].pc = "draining" =>
       admin[a].slot \in Slots /\ entry[admin[a].slot].state = "Deactivating"
  /\ \A a, b \in Admins :
       a # b /\ admin[a].pc = "draining" /\ admin[b].pc = "draining" =>
         admin[a].slot # admin[b].slot

RouterInv ==
  /\ TypeOK /\ EntriesSound /\ ClientsSound /\ AdminsSound
  /\ AdmittedStays /\ AdmissionsExact /\ OneRoute

(* First picks a member of any nonempty set of slots. *)
LEMMA FirstIn ==
  ASSUME NEW S, S \subseteq Slots, S # {}
  PROVE  First(S) \in S
<1>1. S \subseteq Nat
  BY RouterAssumption DEF Slots
<1>2. PICK x \in S : \A y \in S : ~(<<y, x>> \in OpToRel(<, Nat))
  BY <1>1, NatLessThanWellFounded, WFMin
<1>3. \A y \in Nat : y < x => <<y, x>> \in OpToRel(<, Nat)
  BY <1>1 DEF OpToRel
<1>4. \A y \in S : ~(y < x)
  BY <1>1, <1>2, <1>3, Zenon
<1>5. \A y \in S : x <= y
  BY <1>1, <1>4
<1> QED BY <1>5 DEF First

(* The number of holders of a slot grows by one with a new client, ... *)
LEMMA HolderAdded ==
  ASSUME NEW s \in Slots, NEW c \in Clients, c \notin Holders(s),
         Holders(s)' = Holders(s) \cup {c}
  PROVE  Cardinality(Holders(s)') = Cardinality(Holders(s)) + 1
<1>1. IsFiniteSet(Holders(s))
  BY RouterAssumption, FS_Subset DEF Holders
<1> QED BY <1>1, FS_AddElement

(* ... and shrinks by one when a client leaves. *)
LEMMA HolderRemoved ==
  ASSUME NEW s \in Slots, NEW c \in Clients, c \in Holders(s),
         Holders(s)' = Holders(s) \ {c}
  PROVE  /\ Cardinality(Holders(s)) \in Nat \ {0}
         /\ Cardinality(Holders(s)') = Cardinality(Holders(s)) - 1
<1>1. IsFiniteSet(Holders(s))
  BY RouterAssumption, FS_Subset DEF Holders
<1>2. Cardinality(Holders(s)) \in Nat /\ Cardinality(Holders(s)) # 0
  BY <1>1, FS_CardinalityType, FS_EmptySet
<1> QED BY <1>1, <1>2, FS_RemoveElement

(* A slot without admissions has no holder. *)
LEMMA NoAdmissionNoHolder ==
  ASSUME AdmissionsExact, NEW s \in Slots, entry[s].admissions = 0
  PROVE  \A c \in Clients : admitted[c][s] = 0
<1>1. IsFiniteSet(Holders(s))
  BY RouterAssumption, FS_Subset DEF Holders
<1>2. Holders(s) = {}
  BY <1>1, FS_EmptySet DEF AdmissionsExact
<1> QED BY <1>2 DEF Holders

(* The empty table and idle threads satisfy the invariant. *)
LEMMA RouterInit == Init => RouterInv
<1> SUFFICES ASSUME Init PROVE RouterInv
  OBVIOUS
<1> USE DEF Init
<1>1. TypeOK
  BY RouterAssumption DEF TypeOK, Entries, ClientStates, EmptyEntry, NoSlots,
     IdleClient, IdleAdmin, Slots, Tokens
<1>2. \A c \in Clients : Held(c) = {}
  BY DEF Held, NoSlots
<1>3. \A s \in Slots : Holders(s) = {}
  BY DEF Holders, NoSlots
<1>4. ClientsSound
  BY <1>2 DEF ClientsSound, ClientSound, IdleClient
<1>5. EntriesSound /\ OneRoute
  BY DEF EntriesSound, OneRoute, EmptyEntry
<1>6. AdminsSound
  BY DEF AdminsSound, IdleAdmin
<1>7. AdmittedStays
  BY <1>2 DEF AdmittedStays
<1>8. AdmissionsExact
  BY <1>3, FS_EmptySet DEF AdmissionsExact, EmptyEntry
<1> QED BY <1>1, <1>4, <1>5, <1>6, <1>7, <1>8 DEF RouterInv

(* A change of one entry that keeps its count disturbs no client if nobody *)
(* uses the entry, or if it keeps its token and stays usable.              *)
LEMMA EntryChange ==
  ASSUME RouterInv, NEW s \in Slots, NEW e \in Entries,
         entry' = [entry EXCEPT ![s] = e], UNCHANGED <<admitted, io>>,
         e.admissions = entry[s].admissions,
         \/ \A c \in Clients : admitted[c][s] = 0
         \/ e.token = entry[s].token /\ e.state \in {"Active", "Deactivating"}
  PROVE  ClientsSound' /\ AdmittedStays' /\ AdmissionsExact'
<1>1. \A c \in Clients : Held(c)' = Held(c)
  BY DEF Held
<1>2. \A r \in Slots : Holders(r)' = Holders(r)
  BY DEF Holders
<1>3. \A r \in Slots : entry'[r] = IF r = s THEN e ELSE entry[r]
  BY DEF RouterInv, TypeOK
<1>4. ClientsSound'
  BY <1>1 DEF RouterInv, ClientsSound, ClientSound
<1>5. AdmissionsExact'
  BY <1>2, <1>3 DEF RouterInv, AdmissionsExact
<1>6. AdmittedStays'
  <2> SUFFICES ASSUME NEW c \in Clients, NEW r \in Held(c)
               PROVE  /\ entry'[r].token = admitted[c][r]
                      /\ entry'[r].state \in {"Active", "Deactivating"}
    BY <1>1 DEF AdmittedStays
  <2>1. r \in Slots /\ admitted[c][r] # 0
    BY DEF Held
  <2>2. /\ entry[r].token = admitted[c][r]
        /\ entry[r].state \in {"Active", "Deactivating"}
    BY DEF RouterInv, AdmittedStays
  <2> QED BY <1>3, <2>1, <2>2
<1> QED BY <1>4, <1>5, <1>6

(* A change of the counts alone leaves the table as it was. *)
LEMMA CountChange ==
  ASSUME RouterInv, UNCHANGED admin,
         \A s \in Slots : /\ entry'[s].state = entry[s].state
                           /\ entry'[s].token = entry[s].token
                           /\ entry'[s].range = entry[s].range
                           /\ entry'[s].pages = entry[s].pages
  PROVE  EntriesSound' /\ AdminsSound' /\ OneRoute'
<1>1. EntriesSound' /\ OneRoute'
  BY DEF RouterInv, EntriesSound, OneRoute
<1>2. AdminsSound'
  BY DEF RouterInv, AdminsSound
<1> QED BY <1>1, <1>2

(* stage fills the first vacant entry, which nobody uses. *)
LEMMA StepStage ==
  ASSUME RouterInv, NEW a \in Admins, NEW id \in RangeIds,
         NEW pages \in Spans, NEW w \in BOOLEAN, Stage(a, id, pages, w)
  PROVE  RouterInv'
<1> DEFINE vacant == {s \in Slots : entry[s].state = "Empty"}
           v == First(vacant)
           e == [state |-> "Staged", token |-> nextToken, range |-> id,
                 pages |-> pages, writable |-> w, admissions |-> 0]
<1>1. v \in Slots /\ entry[v].state = "Empty"
  <2>1. vacant # {} /\ vacant \subseteq Slots
    BY DEF Stage
  <2> HIDE DEF vacant
  <2>2. v \in vacant
    BY <2>1, FirstIn
  <2> QED BY <2>2 DEF vacant
<1>2. /\ entry' = [entry EXCEPT ![v] = e]
      /\ admin' = [admin EXCEPT ![a] = [pc |-> "staged", token |-> nextToken, slot |-> 0]]
      /\ nextToken' = NextToken /\ nextToken # 0
      /\ UNCHANGED <<admitted, io>>
      /\ \A s \in Slots : ~Conflicts(s, id, pages)
  BY DEF Stage
<1> HIDE DEF v
<1>3. nextToken \in Tokens /\ e \in Entries
  BY <1>2 DEF RouterInv, TypeOK, Entries
<1>4. NextToken \in Tokens \cup {0}
  BY <1>3, RouterAssumption DEF NextToken, Tokens
<1>5. TypeOK'
  BY <1>1, <1>2, <1>3, <1>4 DEF RouterInv, TypeOK
<1>6. \A c \in Clients : admitted[c][v] = 0
  BY <1>1 DEF RouterInv, AdmittedStays, Held
<1>7. entry[v].admissions = 0
  <2>1. Holders(v) = {}
    BY <1>6 DEF Holders
  <2> QED BY <1>1, <2>1, FS_EmptySet DEF RouterInv, AdmissionsExact
<1>8. ClientsSound' /\ AdmittedStays' /\ AdmissionsExact'
  BY <1>1, <1>2, <1>3, <1>6, <1>7, EntryChange
<1>9. \A r \in Slots : entry'[r] = IF r = v THEN e ELSE entry[r]
  BY <1>2 DEF RouterInv, TypeOK
<1>10. EntriesSound'
  BY <1>2, <1>9 DEF RouterInv, EntriesSound
<1>11. OneRoute'
  BY <1>2, <1>9 DEF RouterInv, OneRoute, Conflicts
<1>12. AdminsSound'
  BY <1>1, <1>2, <1>9 DEF RouterInv, AdminsSound, TypeOK
<1> QED BY <1>5, <1>8, <1>10, <1>11, <1>12 DEF RouterInv

(* activate changes the state of a staged entry only. *)
LEMMA StepActivate ==
  ASSUME RouterInv, NEW a \in Admins, Activate(a)
  PROVE  RouterInv'
<1>1. PICK s \in Slots : /\ entry[s].state = "Staged"
                         /\ entry' = [entry EXCEPT ![s].state = "Active"]
  BY DEF Activate, StagedAs
<1> DEFINE e == [entry[s] EXCEPT !.state = "Active"]
<1>2. /\ entry' = [entry EXCEPT ![s] = e] /\ e \in Entries
      /\ e.token = entry[s].token /\ e.state = "Active" /\ e.range = entry[s].range
      /\ e.pages = entry[s].pages /\ e.admissions = entry[s].admissions
  <2>1. entry[s] \in Entries
    BY DEF RouterInv, TypeOK
  <2>2. entry' = [entry EXCEPT ![s] = e]
    BY <1>1
  <2> QED BY <2>1, <2>2 DEF Entries
<1>3. admin' = [admin EXCEPT ![a] = IdleAdmin] /\ UNCHANGED <<nextToken, admitted, io>>
  BY DEF Activate
<1> HIDE DEF e
<1>4. \A r \in Slots : entry'[r] = IF r = s THEN e ELSE entry[r]
  BY <1>2 DEF RouterInv, TypeOK
<1>5. TypeOK'
  BY <1>2, <1>3 DEF RouterInv, TypeOK, IdleAdmin
<1>6. ClientsSound' /\ AdmittedStays' /\ AdmissionsExact'
  BY <1>2, <1>3, EntryChange
<1>7. EntriesSound' /\ OneRoute'
  BY <1>1, <1>2, <1>4 DEF RouterInv, EntriesSound, OneRoute
<1>8. AdminsSound'
  BY <1>1, <1>3, <1>4 DEF RouterInv, AdminsSound, TypeOK, IdleAdmin
<1> QED BY <1>5, <1>6, <1>7, <1>8 DEF RouterInv

(* The empty entry is well typed and carries neither token nor admission. *)
LEMMA EmptyEntryFacts ==
  /\ EmptyEntry \in Entries /\ EmptyEntry.state = "Empty" /\ EmptyEntry.token = 0
  /\ EmptyEntry.admissions = 0
BY DEF EmptyEntry, Entries

(* A slot that nobody uses may be emptied. *)
LEMMA Emptied ==
  ASSUME RouterInv, NEW s \in Slots, entry' = [entry EXCEPT ![s] = EmptyEntry],
         NEW a \in Admins, admin' = [admin EXCEPT ![a] = IdleAdmin],
         UNCHANGED <<nextToken, admitted, io>>,
         \A c \in Clients : admitted[c][s] = 0,
         \A b \in Admins : b # a /\ admin[b].pc = "draining" => admin[b].slot # s
  PROVE  RouterInv'
<1>1. entry[s].admissions = 0
  <2>1. Holders(s) = {}
    BY DEF Holders
  <2> QED BY <2>1, FS_EmptySet DEF RouterInv, AdmissionsExact
<1>2. \A r \in Slots : entry'[r] = IF r = s THEN EmptyEntry ELSE entry[r]
  BY DEF RouterInv, TypeOK
<1>3. TypeOK'
  BY EmptyEntryFacts DEF RouterInv, TypeOK, IdleAdmin
<1>4. ClientsSound' /\ AdmittedStays' /\ AdmissionsExact'
  BY <1>1, EmptyEntryFacts, EntryChange
<1>5. EntriesSound' /\ OneRoute'
  BY <1>2, EmptyEntryFacts DEF RouterInv, EntriesSound, OneRoute
<1>6. AdminsSound'
  BY <1>2 DEF RouterInv, AdminsSound, TypeOK, IdleAdmin
<1> QED BY <1>3, <1>4, <1>5, <1>6 DEF RouterInv

(* cancel empties a staged entry, which was never admitted to. *)
LEMMA StepCancel ==
  ASSUME RouterInv, NEW a \in Admins, Cancel(a)
  PROVE  RouterInv'
<1>1. PICK s \in Slots : /\ entry[s].state = "Staged"
                         /\ entry' = [entry EXCEPT ![s] = EmptyEntry]
  BY DEF Cancel, StagedAs
<1>2. \A c \in Clients : admitted[c][s] = 0
  BY <1>1 DEF RouterInv, AdmittedStays, Held
<1>3. \A b \in Admins : admin[b].pc = "draining" => admin[b].slot # s
  BY <1>1 DEF RouterInv, AdminsSound
<1> QED BY <1>1, <1>2, <1>3, Emptied DEF Cancel

(* deactivate closes an active entry and takes it for one thread. *)
LEMMA StepDeactivateBegin ==
  ASSUME RouterInv, NEW a \in Admins, NEW id \in RangeIds, DeactivateBegin(a, id)
  PROVE  RouterInv'
<1>1. PICK s \in Slots :
        /\ entry[s].state = "Active"
        /\ entry' = [entry EXCEPT ![s].state = "Deactivating"]
        /\ admin' = [admin EXCEPT ![a] = [pc |-> "draining", token |-> 0, slot |-> s]]
  BY DEF DeactivateBegin
<1> DEFINE e == [entry[s] EXCEPT !.state = "Deactivating"]
<1>2. /\ entry' = [entry EXCEPT ![s] = e] /\ e \in Entries
      /\ e.token = entry[s].token /\ e.state = "Deactivating" /\ e.range = entry[s].range
      /\ e.pages = entry[s].pages /\ e.admissions = entry[s].admissions
  <2>1. entry[s] \in Entries
    BY DEF RouterInv, TypeOK
  <2>2. entry' = [entry EXCEPT ![s] = e]
    BY <1>1
  <2> QED BY <2>1, <2>2 DEF Entries
<1>3. admin[a].pc = "idle" /\ UNCHANGED <<nextToken, admitted, io>>
  BY DEF DeactivateBegin
<1> HIDE DEF e
<1>4. \A r \in Slots : entry'[r] = IF r = s THEN e ELSE entry[r]
  BY <1>2 DEF RouterInv, TypeOK
<1>5. TypeOK'
  BY <1>1, <1>2, <1>3 DEF RouterInv, TypeOK
<1>6. ClientsSound' /\ AdmittedStays' /\ AdmissionsExact'
  BY <1>2, <1>3, EntryChange
<1>7. EntriesSound' /\ OneRoute'
  BY <1>1, <1>2, <1>4 DEF RouterInv, EntriesSound, OneRoute
<1>8. AdminsSound'
  BY <1>1, <1>2, <1>4 DEF RouterInv, AdminsSound, TypeOK
<1> QED BY <1>5, <1>6, <1>7, <1>8 DEF RouterInv

(* deactivate empties the entry when its count is zero: it has no holder. *)
LEMMA StepDeactivateEnd ==
  ASSUME RouterInv, NEW a \in Admins, DeactivateEnd(a)
  PROVE  RouterInv'
<1> DEFINE s == admin[a].slot
<1>1. s \in Slots /\ entry[s].admissions = 0
  BY DEF DeactivateEnd, Drained, RouterInv, AdminsSound
<1>2. \A c \in Clients : admitted[c][s] = 0
  BY <1>1, NoAdmissionNoHolder DEF RouterInv
<1>3. \A b \in Admins : b # a /\ admin[b].pc = "draining" => admin[b].slot # s
  BY DEF DeactivateEnd, RouterInv, AdminsSound
<1> QED BY <1>1, <1>2, <1>3, Emptied DEF DeactivateEnd

(* Only the clients' own records change when one of them copies an entry. *)
LEMMA StepCopyEntry ==
  ASSUME RouterInv, NEW c \in Clients, CopyEntry(c)
  PROVE  RouterInv'
<1>1. PICK s \in Held(c) :
        io' = [io EXCEPT ![c] = [@ EXCEPT !.pc = "io", !.store = entry[s].token]]
  BY DEF CopyEntry
<1>2. io[c].pc = "admitted" /\ UNCHANGED <<entry, nextToken, admitted, admin>>
  BY DEF CopyEntry
<1>3. s \in Slots /\ Held(c) = {s} /\ entry[s].token = admitted[c][s]
  BY <1>2 DEF RouterInv, ClientsSound, ClientSound, AdmittedStays, Held
<1>4. TypeOK'
  <2>1. [io[c] EXCEPT !.pc = "io", !.store = entry[s].token] \in ClientStates
    <3>1. io[c] \in ClientStates /\ admitted[c][s] \in Tokens \cup {0}
      BY <1>3 DEF RouterInv, TypeOK
    <3> QED BY <1>3, <3>1 DEF ClientStates
  <2> QED BY <1>1, <1>2, <2>1 DEF RouterInv, TypeOK
<1>5. \A d \in Clients : Held(d)' = Held(d)
  BY <1>2 DEF Held
<1>6. ClientsSound'
  <2> SUFFICES ASSUME NEW d \in Clients PROVE ClientSound(d)'
    BY DEF ClientsSound
  <2>1. CASE d # c
    BY <1>1, <1>2, <1>5, <2>1 DEF RouterInv, TypeOK, ClientsSound, ClientSound
  <2>2. CASE d = c
    <3>1. io'[c].pc = "io" /\ io'[c].store = admitted'[c][s]
      BY <1>1, <1>2, <1>3 DEF RouterInv, TypeOK, ClientStates
    <3> QED BY <1>3, <1>5, <2>2, <3>1 DEF ClientSound
  <2> QED BY <2>1, <2>2
<1>7. EntriesSound' /\ AdminsSound' /\ OneRoute'
  BY <1>2, CountChange
<1>8. AdmittedStays' /\ AdmissionsExact'
  BY <1>2, <1>5 DEF RouterInv, AdmittedStays, AdmissionsExact, Holders
<1> QED BY <1>4, <1>6, <1>7, <1>8 DEF RouterInv

(* flush reads the first entry it holds under the mutex. *)
LEMMA StepFlushStore ==
  ASSUME RouterInv, NEW c \in Clients, FlushStore(c)
  PROVE  RouterInv'
<1> DEFINE s == First(Held(c))
<1>1. /\ io' = [io EXCEPT ![c] = [@ EXCEPT !.pc = "flushing", !.store = entry[s].token]]
      /\ io[c].pc = "flush" /\ UNCHANGED <<entry, nextToken, admitted, admin>>
  BY DEF FlushStore
<1>2. Held(c) # {} /\ Held(c) \subseteq Slots
  BY <1>1 DEF RouterInv, ClientsSound, ClientSound, Held
<1>3. s \in Held(c)
  BY <1>2, FirstIn
<1>4. s \in Slots /\ entry[s].token = admitted[c][s]
  BY <1>2, <1>3 DEF RouterInv, AdmittedStays
<1>5. TypeOK'
  <2>1. [io[c] EXCEPT !.pc = "flushing", !.store = entry[s].token] \in ClientStates
    <3>1. io[c] \in ClientStates /\ admitted[c][s] \in Tokens \cup {0}
      BY <1>4 DEF RouterInv, TypeOK
    <3> HIDE DEF s
    <3> QED BY <1>4, <3>1 DEF ClientStates
  <2> QED BY <1>1, <2>1 DEF RouterInv, TypeOK
<1>6. \A d \in Clients : Held(d)' = Held(d)
  BY <1>1 DEF Held
<1>7. ClientsSound'
  <2> SUFFICES ASSUME NEW d \in Clients PROVE ClientSound(d)'
    BY DEF ClientsSound
  <2>1. CASE d # c
    BY <1>1, <1>6, <2>1 DEF RouterInv, TypeOK, ClientsSound, ClientSound
  <2>2. CASE d = c
    <3>1. io'[c].pc = "flushing" /\ io'[c].store = admitted'[c][First(Held(c)')]
      BY <1>1, <1>4, <1>6 DEF RouterInv, TypeOK, ClientStates
    <3> QED BY <1>2, <1>6, <2>2, <3>1 DEF ClientSound
  <2> QED BY <2>1, <2>2
<1>8. EntriesSound' /\ AdminsSound' /\ OneRoute'
  BY <1>1, CountChange
<1>9. AdmittedStays' /\ AdmissionsExact'
  BY <1>1, <1>6 DEF RouterInv, AdmittedStays, AdmissionsExact, Holders
<1> QED BY <1>5, <1>7, <1>8, <1>9 DEF RouterInv

(* The count of one entry is changed to n. *)
LEMMA OneCount ==
  ASSUME TypeOK, NEW s \in Slots, NEW n \in Nat,
         entry' = [entry EXCEPT ![s].admissions = n]
  PROVE  /\ entry' \in [Slots -> Entries]
         /\ \A r \in Slots : /\ entry'[r].state = entry[r].state
                              /\ entry'[r].token = entry[r].token
                              /\ entry'[r].range = entry[r].range
                              /\ entry'[r].pages = entry[r].pages
         /\ \A r \in Slots :
              entry'[r].admissions = IF r = s THEN n ELSE entry[r].admissions
<1>1. \A r \in Slots : entry[r] \in Entries
  BY DEF TypeOK
<1>2. \A r \in Slots :
        entry'[r] = IF r = s THEN [entry[s] EXCEPT !.admissions = n] ELSE entry[r]
  BY DEF TypeOK
<1>3. [entry[s] EXCEPT !.admissions = n] \in Entries
  BY <1>1 DEF Entries
<1>4. entry' \in [Slots -> Entries]
  BY <1>3 DEF TypeOK
<1> QED BY <1>1, <1>2, <1>4 DEF Entries

(* admit raises the count of one active entry for one client. *)
LEMMA StepAdmit ==
  ASSUME RouterInv, NEW c \in Clients, NEW p \in Pages, NEW w \in BOOLEAN, Admit(c, p, w)
  PROVE  RouterInv'
<1>1. /\ io' = [io EXCEPT ![c] = [pc |-> "admitted", write |-> w, store |-> 0]]
      /\ io[c].pc = "idle" /\ Routes(p) # {} /\ UNCHANGED <<nextToken, admin>>
  BY DEF Admit
<1>2. PICK s \in Slots :
        /\ entry[s].state = "Active"
        /\ entry' = [entry EXCEPT ![s].admissions = entry[s].admissions + 1]
        /\ admitted' = [admitted EXCEPT ![c][s] = entry[s].token]
  <2>1. Routes(p) \subseteq Slots
    BY DEF Routes
  <2>2. First(Routes(p)) \in Routes(p)
    BY <1>1, <2>1, FirstIn
  <2> QED BY <2>2 DEF Routes, Admitting, Admit
<1>3. /\ entry[s] \in Entries /\ entry[s].admissions \in Nat
      /\ entry[s].token \in Tokens \cup {0} /\ entry[s].token # 0
  <2>1. entry[s] \in Entries
    BY <1>2 DEF RouterInv, TypeOK
  <2> QED BY <1>2, <2>1 DEF RouterInv, EntriesSound, Entries
<1>5. /\ entry' \in [Slots -> Entries]
      /\ \A r \in Slots : /\ entry'[r].state = entry[r].state
                           /\ entry'[r].token = entry[r].token
                           /\ entry'[r].range = entry[r].range
                           /\ entry'[r].pages = entry[r].pages
      /\ \A r \in Slots : entry'[r].admissions =
            IF r = s THEN entry[s].admissions + 1 ELSE entry[r].admissions
  <2>1. entry[s].admissions + 1 \in Nat
    BY <1>3
  <2> QED BY <1>2, <2>1, OneCount DEF RouterInv
<1>6. /\ admitted' \in [Clients -> [Slots -> Tokens \cup {0}]]
      /\ admitted'[c][s] = entry[s].token
      /\ \A d \in Clients, r \in Slots :
           d # c \/ r # s => admitted'[d][r] = admitted[d][r]
  <2>1. admitted \in [Clients -> [Slots -> Tokens \cup {0}]]
    BY DEF RouterInv, TypeOK
  <2> QED BY <1>2, <1>3, <2>1
<1>7. Held(c) = {} /\ \A r \in Slots : admitted[c][r] = 0
  BY <1>1 DEF RouterInv, ClientsSound, ClientSound, Held
<1>8. Held(c)' = {s} /\ \A d \in Clients : d # c => Held(d)' = Held(d)
  BY <1>2, <1>3, <1>6, <1>7 DEF Held
<1>9. TypeOK'
  <2>1. [pc |-> "admitted", write |-> w, store |-> 0] \in ClientStates
    BY DEF ClientStates
  <2> QED BY <1>1, <1>5, <1>6, <2>1 DEF RouterInv, TypeOK
<1>10. ClientsSound'
  <2> SUFFICES ASSUME NEW d \in Clients PROVE ClientSound(d)'
    BY DEF ClientsSound
  <2>1. CASE d # c
    <3>1. io'[d] = io[d] /\ Held(d)' = Held(d)
      BY <1>1, <1>8, <2>1 DEF RouterInv, TypeOK
    <3>2. \A r \in Slots : admitted'[d][r] = admitted[d][r]
      BY <1>6, <2>1
    <3>3. admitted'[d] = admitted[d]
      BY <1>6, <3>2 DEF RouterInv, TypeOK
    <3> QED BY <3>1, <3>3 DEF RouterInv, ClientsSound, ClientSound
  <2>2. CASE d = c
    BY <1>1, <1>2, <1>8, <2>2 DEF RouterInv, TypeOK, ClientSound
  <2> QED BY <2>1, <2>2
<1>11. EntriesSound' /\ AdminsSound' /\ OneRoute'
  BY <1>1, <1>5, CountChange
<1>12. AdmittedStays'
  BY <1>2, <1>5, <1>6, <1>7, <1>8 DEF RouterInv, AdmittedStays, Held
<1>13. AdmissionsExact'
  <2> SUFFICES ASSUME NEW r \in Slots
               PROVE  entry'[r].admissions = Cardinality(Holders(r)')
    BY DEF AdmissionsExact
  <2>1. CASE r # s
    <3>1. Holders(r)' = Holders(r)
      BY <1>6, <2>1 DEF Holders
    <3> QED BY <1>5, <2>1, <3>1 DEF RouterInv, AdmissionsExact
  <2>2. CASE r = s
    <3>1. \A d \in Clients :
            admitted'[d][s] = IF d = c THEN entry[s].token ELSE admitted[d][s]
      BY <1>2, <1>6
    <3>2. c \notin Holders(s)
      BY <1>2, <1>7 DEF Holders
    <3>3. Holders(s)' = Holders(s) \cup {c}
      BY <1>3, <3>1 DEF Holders
    <3>4. entry[s].admissions = Cardinality(Holders(s))
      BY <1>2 DEF RouterInv, AdmissionsExact
    <3>5. Cardinality(Holders(s)') = Cardinality(Holders(s)) + 1
      BY <1>2, <3>2, <3>3, HolderAdded
    <3>6. entry'[s].admissions = entry[s].admissions + 1
      BY <1>2, <1>5
    <3> QED BY <2>2, <3>4, <3>5, <3>6
  <2> QED BY <2>1, <2>2
<1> QED BY <1>9, <1>10, <1>11, <1>12, <1>13 DEF RouterInv

(* A release keeps every part of the invariant that is not about the       *)
(* client's own program counter.                                           *)
LEMMA ReleaseFacts ==
  ASSUME RouterInv, NEW c \in Clients, NEW s \in Held(c), Released(c, s)
  PROVE  /\ entry' \in [Slots -> Entries]
         /\ admitted' \in [Clients -> [Slots -> Tokens \cup {0}]]
         /\ UNCHANGED <<nextToken, admin>>
         /\ Held(c)' = Held(c) \ {s}
         /\ \A d \in Clients : d # c => Held(d)' = Held(d) /\ admitted'[d] = admitted[d]
         /\ EntriesSound' /\ AdminsSound' /\ OneRoute'
         /\ AdmittedStays' /\ AdmissionsExact'
<1>1. s \in Slots /\ c \in Holders(s)
  BY DEF Held, Holders
<1>2. /\ admitted' = [admitted EXCEPT ![c][s] = 0]
      /\ UNCHANGED <<nextToken, admin>>
  BY DEF Released
<1>3. /\ admitted' \in [Clients -> [Slots -> Tokens \cup {0}]]
      /\ admitted'[c][s] = 0
      /\ \A d \in Clients, r \in Slots :
           d # c \/ r # s => admitted'[d][r] = admitted[d][r]
  <2>1. admitted \in [Clients -> [Slots -> Tokens \cup {0}]]
    BY DEF RouterInv, TypeOK
  <2> QED BY <1>1, <1>2, <2>1
<1>4. \A d \in Clients : admitted'[d][s] = IF d = c THEN 0 ELSE admitted[d][s]
  BY <1>1, <1>3
<1>5. Holders(s)' = Holders(s) \ {c}
  BY <1>4 DEF Holders
<1>6. /\ Cardinality(Holders(s)) \in Nat \ {0}
      /\ Cardinality(Holders(s)') = Cardinality(Holders(s)) - 1
  BY <1>1, <1>5, HolderRemoved
<1>7. entry[s].admissions = Cardinality(Holders(s))
  BY <1>1 DEF RouterInv, AdmissionsExact
<1>8. entry' = [entry EXCEPT ![s].admissions = entry[s].admissions - 1]
  BY <1>6, <1>7 DEF Released
<1>9. /\ entry' \in [Slots -> Entries]
      /\ \A r \in Slots : /\ entry'[r].state = entry[r].state
                           /\ entry'[r].token = entry[r].token
                           /\ entry'[r].range = entry[r].range
                           /\ entry'[r].pages = entry[r].pages
      /\ \A r \in Slots : entry'[r].admissions =
            IF r = s THEN entry[s].admissions - 1 ELSE entry[r].admissions
  <2>1. entry[s].admissions - 1 \in Nat
    BY <1>6, <1>7
  <2> QED BY <1>1, <1>8, <2>1, OneCount DEF RouterInv
<1>10. Held(c)' = Held(c) \ {s}
  BY <1>1, <1>3 DEF Held
<1>11. \A d \in Clients : d # c => Held(d)' = Held(d) /\ admitted'[d] = admitted[d]
  <2> SUFFICES ASSUME NEW d \in Clients, d # c
               PROVE  Held(d)' = Held(d) /\ admitted'[d] = admitted[d]
    OBVIOUS
  <2>1. \A r \in Slots : admitted'[d][r] = admitted[d][r]
    BY <1>3
  <2>2. admitted'[d] = admitted[d]
    BY <1>3, <2>1 DEF RouterInv, TypeOK
  <2> QED BY <2>2 DEF Held
<1>12. EntriesSound' /\ AdminsSound' /\ OneRoute'
  BY <1>2, <1>9, CountChange
<1>13. AdmittedStays'
  <2> SUFFICES ASSUME NEW d \in Clients, NEW r \in Held(d)'
               PROVE  /\ entry'[r].token = admitted'[d][r]
                      /\ entry'[r].state \in {"Active", "Deactivating"}
    BY DEF AdmittedStays
  <2>1. r \in Slots /\ r \in Held(d) /\ (d # c \/ r # s)
    BY <1>10, <1>11 DEF Held
  <2> QED BY <1>3, <1>9, <2>1 DEF RouterInv, AdmittedStays
<1>14. AdmissionsExact'
  <2> SUFFICES ASSUME NEW r \in Slots
               PROVE  entry'[r].admissions = Cardinality(Holders(r)')
    BY DEF AdmissionsExact
  <2>1. CASE r # s
    <3>1. Holders(r)' = Holders(r)
      BY <1>3, <2>1 DEF Holders
    <3> QED BY <1>9, <2>1, <3>1 DEF RouterInv, AdmissionsExact
  <2>2. CASE r = s
    BY <1>1, <1>6, <1>7, <1>9, <2>2
  <2> QED BY <2>1, <2>2
<1> QED BY <1>2, <1>3, <1>9, <1>10, <1>11, <1>12, <1>13, <1>14

(* The end of a read, a write or a refused write: the one admission goes.  *)
LEMMA PageReleased ==
  ASSUME RouterInv, NEW c \in Clients, NEW s \in Held(c), Released(c, s),
         io[c].pc \in {"admitted", "io"}, io' = [io EXCEPT ![c] = IdleClient]
  PROVE  RouterInv'
<1>1. Held(c) = {s}
  BY DEF RouterInv, ClientsSound, ClientSound
<1>2. /\ entry' \in [Slots -> Entries]
      /\ admitted' \in [Clients -> [Slots -> Tokens \cup {0}]]
      /\ UNCHANGED <<nextToken, admin>>
      /\ Held(c)' = {}
      /\ \A d \in Clients : d # c => Held(d)' = Held(d) /\ admitted'[d] = admitted[d]
      /\ EntriesSound' /\ AdminsSound' /\ OneRoute'
      /\ AdmittedStays' /\ AdmissionsExact'
  BY <1>1, ReleaseFacts
<1>3. TypeOK'
  <2>1. IdleClient \in ClientStates
    BY DEF IdleClient, ClientStates
  <2> QED BY <1>2, <2>1 DEF RouterInv, TypeOK
<1>4. ClientsSound'
  <2> SUFFICES ASSUME NEW d \in Clients PROVE ClientSound(d)'
    BY DEF ClientsSound
  <2>1. CASE d # c
    <3>1. io'[d] = io[d]
      BY <2>1 DEF RouterInv, TypeOK
    <3>2. ClientSound(d)
      BY DEF RouterInv, ClientsSound
    <3>3. Held(d)' = Held(d) /\ admitted'[d] = admitted[d]
      BY <1>2, <2>1
    <3> QED BY <3>1, <3>2, <3>3 DEF ClientSound
  <2>2. CASE d = c
    BY <1>2, <2>2 DEF RouterInv, TypeOK, ClientSound, IdleClient
  <2> QED BY <2>1, <2>2
<1> QED BY <1>2, <1>3, <1>4 DEF RouterInv

(* write_page of a read-only entry gives its admission back. *)
LEMMA StepRefuseWrite ==
  ASSUME RouterInv, NEW c \in Clients, RefuseWrite(c)
  PROVE  RouterInv'
BY PageReleased DEF RefuseWrite

(* read_page and write_page end with a release. *)
LEMMA StepFinishPage ==
  ASSUME RouterInv, NEW c \in Clients, FinishPage(c)
  PROVE  RouterInv'
BY PageReleased DEF FinishPage

(* flush gives its admissions back one by one. *)
LEMMA StepFlushRelease ==
  ASSUME RouterInv, NEW c \in Clients, FlushRelease(c)
  PROVE  RouterInv'
<1>1. PICK s \in Held(c) :
        /\ Released(c, s)
        /\ io' = [io EXCEPT ![c] = IF Held(c) = {s} THEN IdleClient
                                   ELSE [io[c] EXCEPT !.pc = "flush", !.store = 0]]
  <2>1. Held(c) # {} /\ Held(c) \subseteq Slots
    BY DEF FlushRelease, RouterInv, ClientsSound, ClientSound, Held
  <2>2. First(Held(c)) \in Held(c)
    BY <2>1, FirstIn
  <2> QED BY <2>2 DEF FlushRelease
<1>2. /\ entry' \in [Slots -> Entries]
      /\ admitted' \in [Clients -> [Slots -> Tokens \cup {0}]]
      /\ UNCHANGED <<nextToken, admin>>
      /\ Held(c)' = Held(c) \ {s}
      /\ \A d \in Clients : d # c => Held(d)' = Held(d) /\ admitted'[d] = admitted[d]
      /\ EntriesSound' /\ AdminsSound' /\ OneRoute'
      /\ AdmittedStays' /\ AdmissionsExact'
  BY <1>1, ReleaseFacts
<1>3. io[c] \in ClientStates
  BY DEF RouterInv, TypeOK
<1>4. TypeOK'
  <2>1. /\ IdleClient \in ClientStates
        /\ [io[c] EXCEPT !.pc = "flush", !.store = 0] \in ClientStates
    BY <1>3 DEF IdleClient, ClientStates
  <2> QED BY <1>1, <1>2, <2>1 DEF RouterInv, TypeOK
<1>5. ClientsSound'
  <2> SUFFICES ASSUME NEW d \in Clients PROVE ClientSound(d)'
    BY DEF ClientsSound
  <2>1. CASE d # c
    <3>1. io'[d] = io[d]
      BY <1>1, <2>1 DEF RouterInv, TypeOK
    <3>2. ClientSound(d)
      BY DEF RouterInv, ClientsSound
    <3>3. Held(d)' = Held(d) /\ admitted'[d] = admitted[d]
      BY <1>2, <2>1
    <3> QED BY <3>1, <3>2, <3>3 DEF ClientSound
  <2>2. CASE d = c /\ Held(c) = {s}
    <3>1. io'[c] = IdleClient /\ Held(c)' = {}
      BY <1>1, <1>2, <2>2 DEF RouterInv, TypeOK
    <3> QED BY <2>2, <3>1 DEF ClientSound, IdleClient
  <2>3. CASE d = c /\ Held(c) # {s}
    <3>1. io'[c].pc = "flush" /\ io'[c].store = 0 /\ Held(c)' # {}
      BY <1>1, <1>2, <1>3, <2>3 DEF RouterInv, TypeOK, ClientStates
    <3> QED BY <2>3, <3>1 DEF ClientSound
  <2> QED BY <2>1, <2>2, <2>3
<1> QED BY <1>2, <1>4, <1>5 DEF RouterInv

(* A flush is admitted to several entries in one step. *)
LEMMA StepFlushBegin ==
  ASSUME RouterInv, NEW c \in Clients, NEW ids, FlushBegin(c, ids)
  PROVE  RouterInv'
<1>1. PICK S \in SUBSET Slots :
        /\ S # {} /\ \A s \in S : entry[s].state = "Active"
        /\ entry' = [s \in Slots |-> IF s \in S
                                     THEN [entry[s] EXCEPT !.admissions = @ + 1]
                                     ELSE entry[s]]
        /\ admitted' = [admitted EXCEPT ![c] =
                          [s \in Slots |-> IF s \in S THEN entry[s].token ELSE 0]]
  BY DEF FlushBegin
<1>2. /\ io[c].pc = "idle" /\ UNCHANGED <<nextToken, admin>>
      /\ io' = [io EXCEPT ![c] = [pc |-> "flush", write |-> FALSE, store |-> 0]]
  BY DEF FlushBegin
<1>3. \A s \in Slots : entry[s] \in Entries
  BY DEF RouterInv, TypeOK
<1>4. \A s \in S : entry[s].token \in Tokens \cup {0} /\ entry[s].token # 0
  BY <1>1, <1>3 DEF RouterInv, EntriesSound, Entries
<1>5. \A s \in Slots : /\ entry'[s] \in Entries
                       /\ entry'[s].state = entry[s].state
                       /\ entry'[s].token = entry[s].token
                       /\ entry'[s].range = entry[s].range
                       /\ entry'[s].pages = entry[s].pages
                       /\ entry'[s].admissions = IF s \in S THEN entry[s].admissions + 1
                                                 ELSE entry[s].admissions
  <2> SUFFICES ASSUME NEW s \in Slots
               PROVE  /\ entry'[s] \in Entries
                      /\ entry'[s].state = entry[s].state
                      /\ entry'[s].token = entry[s].token
                      /\ entry'[s].range = entry[s].range
                      /\ entry'[s].pages = entry[s].pages
                      /\ entry'[s].admissions = IF s \in S THEN entry[s].admissions + 1
                                                ELSE entry[s].admissions
    OBVIOUS
  <2>1. entry'[s] = IF s \in S THEN [entry[s] EXCEPT !.admissions = @ + 1] ELSE entry[s]
    BY <1>1
  <2>2. entry[s] \in Entries
    BY <1>3
  <2> QED BY <2>1, <2>2 DEF Entries
<1>6. /\ admitted' \in [Clients -> [Slots -> Tokens \cup {0}]]
      /\ \A s \in Slots : admitted'[c][s] = IF s \in S THEN entry[s].token ELSE 0
      /\ \A d \in Clients : d # c => admitted'[d] = admitted[d]
  BY <1>1, <1>4 DEF RouterInv, TypeOK
<1>7. \A s \in Slots : admitted[c][s] = 0
  BY <1>2 DEF RouterInv, ClientsSound, ClientSound, Held
<1>8. Held(c)' = S /\ \A d \in Clients : d # c => Held(d)' = Held(d)
  BY <1>4, <1>6 DEF Held
<1>9. TypeOK'
  <2>1. entry' \in [Slots -> Entries]
    BY <1>1, <1>5
  <2>2. [pc |-> "flush", write |-> FALSE, store |-> 0] \in ClientStates
    BY DEF ClientStates
  <2> QED BY <1>2, <1>6, <2>1, <2>2 DEF RouterInv, TypeOK
<1>10. ClientsSound'
  <2> SUFFICES ASSUME NEW d \in Clients PROVE ClientSound(d)'
    BY DEF ClientsSound
  <2>1. CASE d # c
    <3>1. io'[d] = io[d]
      BY <1>2, <2>1 DEF RouterInv, TypeOK
    <3>2. ClientSound(d)
      BY DEF RouterInv, ClientsSound
    <3>3. Held(d)' = Held(d) /\ admitted'[d] = admitted[d]
      BY <1>6, <1>8, <2>1
    <3> QED BY <3>1, <3>2, <3>3 DEF ClientSound
  <2>2. CASE d = c
    BY <1>1, <1>2, <1>8, <2>2 DEF RouterInv, TypeOK, ClientSound
  <2> QED BY <2>1, <2>2
<1>11. EntriesSound' /\ AdminsSound' /\ OneRoute'
  BY <1>2, <1>5, CountChange
<1>12. AdmittedStays'
  BY <1>1, <1>5, <1>6, <1>8 DEF RouterInv, AdmittedStays, Held
<1>13. AdmissionsExact'
  <2> SUFFICES ASSUME NEW s \in Slots
               PROVE  entry'[s].admissions = Cardinality(Holders(s)')
    BY DEF AdmissionsExact
  <2>1. entry[s].admissions = Cardinality(Holders(s)) /\ c \notin Holders(s)
    BY <1>7 DEF RouterInv, AdmissionsExact, Holders
  <2>2. \A d \in Clients : d # c => admitted'[d][s] = admitted[d][s]
    BY <1>6
  <2>3. CASE s \in S
    <3>1. Holders(s)' = Holders(s) \cup {c}
      BY <1>4, <1>6, <2>2, <2>3 DEF Holders
    <3>2. Cardinality(Holders(s)') = Cardinality(Holders(s)) + 1
      BY <2>1, <3>1, HolderAdded
    <3> QED BY <1>5, <2>1, <2>3, <3>2
  <2>4. CASE s \notin S
    <3>1. Holders(s)' = Holders(s)
      BY <1>6, <1>7, <2>2, <2>4 DEF Holders
    <3> QED BY <1>5, <2>1, <2>4, <3>1
  <2> QED BY <2>3, <2>4
<1> QED BY <1>9, <1>10, <1>11, <1>12, <1>13 DEF RouterInv

(* Every step of the router keeps the invariant. *)
LEMMA RouterStep == RouterInv /\ [Next]_vars => RouterInv'
<1> SUFFICES ASSUME RouterInv, [Next]_vars PROVE RouterInv'
  OBVIOUS
<1>1. CASE \E a \in Admins :
        \/ \E id \in RangeIds, pages \in Spans, w \in BOOLEAN : Stage(a, id, pages, w)
        \/ Activate(a) \/ Cancel(a)
        \/ \E id \in RangeIds : DeactivateBegin(a, id)
        \/ DeactivateEnd(a)
  BY <1>1, StepStage, StepActivate, StepCancel, StepDeactivateBegin, StepDeactivateEnd
<1>2. CASE \E c \in Clients :
        \/ \E p \in Pages, w \in BOOLEAN : Admit(c, p, w)
        \/ FlushBegin(c, RangeIds)
        \/ \E id \in RangeIds : FlushBegin(c, {id})
  BY <1>2, StepAdmit, StepFlushBegin
<1>3. CASE \E c \in Clients : ClientSteps(c)
  BY <1>3, StepCopyEntry, StepRefuseWrite, StepFinishPage, StepFlushStore,
     StepFlushRelease DEF ClientSteps
<1>4. CASE UNCHANGED vars
  <2>1. TypeOK' /\ EntriesSound' /\ AdminsSound' /\ OneRoute'
    BY <1>4 DEF vars, RouterInv, TypeOK, EntriesSound, AdminsSound, OneRoute
  <2>2. /\ \A c \in Clients : Held(c)' = Held(c)
        /\ \A s \in Slots : Holders(s)' = Holders(s)
    BY <1>4 DEF vars, Held, Holders
  <2>3. ClientsSound'
    BY <1>4, <2>2 DEF vars, RouterInv, ClientsSound, ClientSound
  <2>4. AdmittedStays' /\ AdmissionsExact'
    BY <1>4, <2>2 DEF vars, RouterInv, AdmittedStays, AdmissionsExact
  <2> QED BY <2>1, <2>3, <2>4 DEF RouterInv
<1> QED BY <1>1, <1>2, <1>3, <1>4 DEF Next

(* The invariant holds in every reachable state. *)
LEMMA RouterAlways == Spec => []RouterInv
BY RouterInit, RouterStep, PTL DEF Spec

(* Every field of the router's table and of its threads keeps its type: in *)
(* particular next_token_ never passes the last token.                     *)
THEOREM RouterTypes == Spec => []TypeOK
<1>1. RouterInv => TypeOK
  BY DEF RouterInv
<1> QED BY <1>1, RouterAlways, PTL

(* deactivate never empties an entry that a read_page, write_page or flush *)
(* still uses, and nobody reuses its slot meanwhile.                       *)
THEOREM RouterAdmitted == Spec => []AdmittedStays
<1>1. RouterInv => AdmittedStays
  BY DEF RouterInv
<1> QED BY <1>1, RouterAlways, PTL

(* admit, flush and release keep each entry's count equal to the number of *)
(* its users, for any number of threads.                                   *)
THEOREM RouterCounts == Spec => []AdmissionsExact
<1>1. RouterInv => AdmissionsExact
  BY DEF RouterInv
<1> QED BY <1>1, RouterAlways, PTL

(* stage keeps the mapped page sets disjoint, entries that are being       *)
(* deactivated included, so that a page has one route.                     *)
THEOREM RouterOneRoute == Spec => []OneRoute
<1>1. RouterInv => OneRoute
  BY DEF RouterInv
<1> QED BY <1>1, RouterAlways, PTL

(* A page operation or a flush works on the store it was admitted to,      *)
(* although it reads the entry under a second acquisition of the mutex.    *)
THEOREM RouterRightStore == Spec => []RightStore
<1>1. RouterInv => RightStore
  <2> SUFFICES ASSUME RouterInv, NEW c \in Clients, io[c].store # 0
               PROVE  \E s \in Held(c) : admitted[c][s] = io[c].store
    BY DEF RightStore
  <2>1. ClientSound(c) /\ Held(c) \subseteq Slots
    BY DEF RouterInv, ClientsSound, Held
  <2>2. io[c].pc \in {"io", "flushing"}
    <3>1. io[c] \in ClientStates
      BY DEF RouterInv, TypeOK
    <3> QED BY <2>1, <3>1 DEF ClientSound, ClientStates
  <2>3. CASE io[c].pc = "io"
    BY <2>1, <2>3 DEF ClientSound
  <2>4. CASE io[c].pc = "flushing"
    <3>1. First(Held(c)) \in Held(c)
      BY <2>1, <2>4, FirstIn DEF ClientSound
    <3> QED BY <2>1, <2>4, <3>1 DEF ClientSound
  <2> QED BY <2>2, <2>3, <2>4
<1> QED BY <1>1, RouterAlways, PTL
=============================================================================
