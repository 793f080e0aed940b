------------------------- MODULE ControlRingProofs -------------------------
(***************************************************************************)
(* Proofs about ControlRing for every set of clients, every ring capacity  *)
(* and every setting of the switches.                                      *)
(***************************************************************************)
EXTENDS ControlRing, FiniteSetTheorems, TLAPS

InsideClients == {c \in Clients : pc[c] \in Inside}

(* The count bits of the admission word (of the device word in             *)
(* GPU-exclusive mode) count the clients inside.                           *)
AdmissionCounts ==
  IF GpuExclusive
  THEN deviceCount = Cardinality(InsideClients) /\ admitted = 0
  ELSE admitted = Cardinality(InsideClients) /\ deviceCount = 0

(* The closed bit is set before fail_all waits, and stays set.             *)
ClosedWhileFailing ==
  daemon \in {"quiescing", "draining", "failing", "faulted"} => closed

(* The inductive invariant behind DrainIsQuiet.                            *)
QuietInv ==
  /\ TypeOK
  /\ AdmissionCounts
  /\ ~GpuExclusive => ClosedWhileFailing /\ DrainIsQuiet

(* There are finitely many threads that push: device and host clients.     *)
LEMMA ClientsFinite == IsFiniteSet(Clients)
BY ClientsAssumption, FS_Union, Zenon DEF Clients

(* The slot of a ticket (ticket & mask) is a slot of the ring.             *)
LEMMA SlotType == \A t \in Nat : Slot(t) \in 0..(Capacity - 1)
BY CapacityAssumption DEF Slot

(* The clients inside admission can be counted, and a client inside makes  *)
(* their number non-zero.                                                  *)
LEMMA InsideFinite ==
  /\ IsFiniteSet(InsideClients)
  /\ Cardinality(InsideClients) \in Nat
  /\ \A c \in InsideClients : Cardinality(InsideClients) # 0
<1>1. IsFiniteSet(InsideClients)
  BY ClientsFinite, FS_Subset, Zenon DEF InsideClients
<1> QED
  BY <1>1, FS_CardinalityType, FS_EmptySet, Zenon

(* A client that moves into, out of, or within admission changes the set   *)
(* of clients inside, and its size, accordingly.                           *)
LEMMA MoveIn ==
  ASSUME TypeOK, NEW c \in Clients, NEW where \in Inside,
         pc[c] \notin Inside, Goto(c, where)
  PROVE  /\ InsideClients' = InsideClients \cup {c}
         /\ Cardinality(InsideClients') = Cardinality(InsideClients) + 1
<1>1. InsideClients' = InsideClients \cup {c}
  BY DEF TypeOK, Goto, InsideClients
<1>2. c \notin InsideClients
  BY Zenon DEF InsideClients
<1> QED
  BY <1>1, <1>2, InsideFinite, FS_AddElement, Zenon

(* A client that leaves admission takes itself off the clients inside.     *)
LEMMA MoveOut ==
  ASSUME TypeOK, NEW c \in Clients, NEW where, where \notin Inside,
         pc[c] \in Inside, Goto(c, where)
  PROVE  /\ InsideClients' = InsideClients \ {c}
         /\ Cardinality(InsideClients') = Cardinality(InsideClients) - 1
         /\ Cardinality(InsideClients) # 0
<1>1. InsideClients' = InsideClients \ {c}
  BY Zenon DEF TypeOK, Goto, InsideClients
<1>2. c \in InsideClients
  BY Zenon DEF InsideClients
<1> QED
  BY <1>1, <1>2, InsideFinite, FS_RemoveElement, Zenon

(* A client that stays on its side of admission leaves the set alone.      *)
LEMMA MoveWithin ==
  ASSUME TypeOK, NEW c \in Clients, NEW where,
         pc[c] \in Inside <=> where \in Inside, Goto(c, where)
  PROVE  InsideClients' = InsideClients
BY Zenon DEF TypeOK, Goto, InsideClients

(* A step of ControlRing is a step of some client, or of the daemon.       *)
ClientAction(c) ==
  \/ /\ c \in DeviceClients
     /\ DeviceEnter(c) \/ DeviceRefused(c) \/ DeviceStep(c)
  \/ c \in HostClients /\ (HostBegin(c) \/ HostStep(c))
  \/ PushStep(c) \/ WaitStep(c)

DaemonAction == DispatchStep \/ EngineFails \/ FailStep \/ DaemonDies

(* Every step of the specification is a client's or the daemon's.          *)
LEMMA NextSplits == Next => DaemonAction \/ \E c \in Clients : ClientAction(c)
BY Zenon DEF Next, ClientAction, DaemonAction, Clients

(* Types are preserved.  First the updates the actions share.              *)
SlotsType == [0..(Capacity - 1) -> [sequence : Nat, client : Clients \cup {"none"}]]
GroupType == [ticket : Nat, client : Clients \cup {"none"}, left : 0..MaxActions]

(* Moving a client to a label of its code keeps the labels' type.          *)
LEMMA GotoType ==
  ASSUME TypeOK, NEW c \in Clients, Goto(c, "idle") \/
         \E where \in Inside \cup {"retry", "pushing", "waiting", "recheck", "reading"} :
           Goto(c, where)
  PROVE  pc' \in [Clients -> Inside \cup
               {"idle", "retry", "pushing", "waiting", "recheck", "reading"}]
BY Zenon DEF TypeOK, Goto

(* Returning from a call keeps the types of what the caller holds.         *)
LEMMA ReturnType ==
  ASSUME TypeOK, NEW c \in Clients, Return(c)
  PROVE  /\ ticket' \in [Clients -> Nat]
         /\ observed' \in [Clients -> {"none", "Timeout", "io", "lost"}]
BY Zenon DEF TypeOK, Return

(* Entering and leaving keep the counts natural: whoever leaves was        *)
(* counted, so the subtraction of the departure never borrows.             *)
LEMMA CountsType ==
  ASSUME TypeOK, AdmissionCounts
  PROVE  /\ Enter => admitted' \in Nat /\ deviceCount' \in Nat
         /\ \A c \in Clients :
              pc[c] \in Inside /\ Leave => admitted' \in Nat /\ deviceCount' \in Nat
<1>1. Enter => admitted' \in Nat /\ deviceCount' \in Nat
  BY DEF TypeOK, Enter
<1>2. ASSUME NEW c \in Clients, pc[c] \in Inside, Leave
      PROVE  admitted' \in Nat /\ deviceCount' \in Nat
  <2>1. c \in InsideClients
    BY <1>2, Zenon DEF InsideClients
  <2>2. IF GpuExclusive THEN deviceCount # 0 ELSE admitted # 0
    BY <2>1, InsideFinite, Zenon DEF AdmissionCounts
  <2> QED
    BY <1>2, <2>2 DEF TypeOK, Leave
<1> QED
  BY <1>1, <1>2, Zenon

(* Storing a sequence number in the slot of a ticket keeps the slots'      *)
(* type.                                                                   *)
LEMMA SequenceType ==
  ASSUME NEW slots \in SlotsType, NEW t \in Nat, NEW s \in Nat
  PROVE  [slots EXCEPT ![Slot(t)].sequence = s] \in SlotsType
BY SlotType, Zenon DEF SlotsType

(* Publishing the completion of a group keeps the slots' type.             *)
LEMMA PublishType ==
  ASSUME TypeOK, NEW g \in groups, Publish(g)
  PROVE  completion' \in SlotsType
<1>1. g \in GroupType
  BY Zenon DEF TypeOK, GroupType
<1>2. Slot(g.ticket) \in 0..(Capacity - 1) /\ g.ticket + 1 \in Nat
  BY <1>1, SlotType DEF GroupType
<1> QED
  BY <1>1, <1>2, Zenon DEF TypeOK, Publish, SlotsType, GroupType

(* One step per action of a client: types are kept.                        *)
LEMMA ClientType ==
  ASSUME TypeOK, AdmissionCounts, NEW c \in Clients, ClientAction(c)
  PROVE  TypeOK'
<1> DEFINE PcOK == pc' \in [Clients -> Inside \cup
               {"idle", "retry", "pushing", "waiting", "recheck", "reading"}]
<1>1. CASE DeviceEnter(c)
  <2>1. PcOK
    BY <1>1, GotoType, Zenon DEF DeviceEnter, Inside
  <2>2. admitted' \in Nat /\ deviceCount' \in Nat
    BY <1>1, CountsType, Zenon DEF DeviceEnter, Inside
  <2>3. issued' \in Nat
    BY <1>1 DEF DeviceEnter, TypeOK
  <2> QED
    BY <1>1, <2>1, <2>2, <2>3, Zenon
       DEF TypeOK, DeviceEnter, SlotsType, ringVars, daemonVars
<1>2. CASE DeviceRefused(c)
  <2>1. PcOK
    BY <1>2, GotoType, Zenon DEF DeviceRefused, Return, Inside
  <2>2. ticket' \in [Clients -> Nat] /\ observed' \in [Clients -> {"none", "Timeout",
     "io", "lost"}]
    BY <1>2, ReturnType, Zenon DEF DeviceRefused
  <2>3. issued' \in Nat
    BY <1>2 DEF DeviceRefused, TypeOK
  <2> QED
    BY <1>2, <2>1, <2>2, <2>3, Zenon
       DEF TypeOK, DeviceRefused, SlotsType, ringVars, daemonVars
<1>3. CASE DeviceCheckOpen(c)
  <2>1. PcOK
    BY <1>3, GotoType, Zenon DEF DeviceCheckOpen, Inside
  <2> QED
    BY <1>3, <2>1, Zenon DEF TypeOK, DeviceCheckOpen, SlotsType, ringVars, daemonVars
<1>4. CASE DeviceCheckClosed(c)
  <2>1. PcOK
    BY <1>4, GotoType, Zenon DEF DeviceCheckClosed, Return, Inside
  <2>2. ticket' \in [Clients -> Nat] /\ observed' \in [Clients -> {"none", "Timeout",
     "io", "lost"}]
    BY <1>4, ReturnType, Zenon DEF DeviceCheckClosed
  <2>3. admitted' \in Nat /\ deviceCount' \in Nat
    BY <1>4, CountsType, Zenon DEF DeviceCheckClosed, Inside
  <2> QED
    BY <1>4, <2>1, <2>2, <2>3, Zenon
    DEF TypeOK, DeviceCheckClosed, SlotsType, ringVars, daemonVars
<1>5. CASE DeviceFullRetries(c)
  <2>1. PcOK
    BY <1>5, GotoType, Zenon DEF DeviceFullRetries, Inside
  <2> QED
    BY <1>5, <2>1, Zenon DEF TypeOK, DeviceFullRetries, SlotsType, ringVars, daemonVars
<1>6. CASE DeviceFullGivesUp(c)
  <2>1. PcOK
    BY <1>6, GotoType, Zenon DEF DeviceFullGivesUp, Return, Inside
  <2>2. ticket' \in [Clients -> Nat] /\ observed' \in [Clients -> {"none", "Timeout",
     "io", "lost"}]
    BY <1>6, ReturnType, Zenon DEF DeviceFullGivesUp
  <2>3. admitted' \in Nat /\ deviceCount' \in Nat
    BY <1>6, CountsType, Zenon DEF DeviceFullGivesUp, Inside
  <2> QED
    BY <1>6, <2>1, <2>2, <2>3, Zenon
    DEF TypeOK, DeviceFullGivesUp, SlotsType, ringVars, daemonVars
<1>7. CASE HostBegin(c)
  <2>1. PcOK
    BY <1>7, GotoType, Zenon DEF HostBegin, Inside
  <2>2. issued' \in Nat
    BY <1>7 DEF HostBegin, TypeOK
  <2> QED
    BY <1>7, <2>1, <2>2, Zenon DEF TypeOK, HostBegin, SlotsType, ringVars, daemonVars
<1>8. CASE HostPollsLiveness(c)
  <2>1. PcOK
    BY <1>8, GotoType, Zenon DEF HostPollsLiveness, Return, Inside
  <2>2. ticket' \in [Clients -> Nat] /\ observed' \in [Clients -> {"none", "Timeout",
     "io", "lost"}]
    BY <1>8, ReturnType, Zenon DEF HostPollsLiveness, TypeOK
  <2> QED
    BY <1>8, <2>1, <2>2, Zenon
    DEF TypeOK, HostPollsLiveness, SlotsType, ringVars, daemonVars, NoteDaemonExit
<1>9. CASE HostEnter(c)
  <2>1. PcOK
    BY <1>9, GotoType, Zenon DEF HostEnter, Inside
  <2>2. admitted' \in Nat /\ deviceCount' \in Nat
    BY <1>9, CountsType, Zenon DEF HostEnter, Inside
  <2> QED
    BY <1>9, <2>1, <2>2, Zenon DEF TypeOK, HostEnter, SlotsType, ringVars, daemonVars
<1>10. CASE HostRefused(c)
  <2>1. PcOK
    BY <1>10, GotoType, Zenon DEF HostRefused, Inside
  <2> QED
    BY <1>10, <2>1, Zenon DEF TypeOK, HostRefused, SlotsType, ringVars, daemonVars
<1>11. CASE HostFull(c)
  <2>1. PcOK
    BY <1>11, GotoType, Zenon DEF HostFull, Inside
  <2>2. admitted' \in Nat /\ deviceCount' \in Nat
    BY <1>11, CountsType, Zenon DEF HostFull, Inside
  <2> QED
    BY <1>11, <2>1, <2>2, Zenon DEF TypeOK, HostFull, SlotsType, ringVars, daemonVars
<1>12. CASE HostTimesOut(c)
  <2>1. PcOK
    BY <1>12, GotoType, Zenon DEF HostTimesOut, Return, Inside
  <2>2. ticket' \in [Clients -> Nat] /\ observed' \in [Clients -> {"none", "Timeout",
     "io", "lost"}]
    BY <1>12, ReturnType, Zenon DEF HostTimesOut
  <2> QED
    BY <1>12, <2>1, <2>2, Zenon
       DEF TypeOK, HostTimesOut, SlotsType, ringVars, daemonVars
<1>13. CASE Claim(c)
  <2>1. PcOK
    BY <1>13, GotoType, Zenon DEF Claim, Inside
  <2>2. producer' \in Nat /\ ticket' \in [Clients -> Nat]
    BY <1>13 DEF Claim, TypeOK
  <2> QED
    BY <1>13, <2>1, <2>2, Zenon DEF TypeOK, Claim, SlotsType, ringVars, daemonVars
<1>14. CASE WriteRequest(c)
  <2>1. PcOK
    BY <1>14, GotoType, Zenon DEF WriteRequest, Inside
  <2>2. request' \in SlotsType
    BY <1>14, SlotType, Zenon DEF WriteRequest, TypeOK, SlotsType
  <2> QED
    BY <1>14, <2>1, <2>2, Zenon
       DEF TypeOK, WriteRequest, SlotsType, ringVars, daemonVars
<1>15. CASE ReleaseRequest(c)
  <2>1. PcOK
    BY <1>15, GotoType, Zenon DEF ReleaseRequest, Inside
  <2>2. ticket[c] \in Nat /\ ticket[c] + 1 \in Nat
    BY CapacityAssumption DEF TypeOK
  <2>3. request' \in SlotsType
    BY <1>15, <2>2, SequenceType, Zenon DEF ReleaseRequest, TypeOK, SlotsType
  <2> QED
    BY <1>15, <2>1, <2>3, Zenon
       DEF TypeOK, ReleaseRequest, SlotsType, ringVars, daemonVars
<1>16. CASE LeaveAdmission(c)
  <2>1. PcOK
    BY <1>16, GotoType, Zenon DEF LeaveAdmission, Inside
  <2>2. admitted' \in Nat /\ deviceCount' \in Nat
    BY <1>16, CountsType, Zenon DEF LeaveAdmission, Inside
  <2> QED
    BY <1>16, <2>1, <2>2, Zenon
       DEF TypeOK, LeaveAdmission, SlotsType, ringVars, daemonVars
<1>17. CASE SeesCompletion(c)
  <2>1. PcOK
    BY <1>17, GotoType, Zenon DEF SeesCompletion, Inside
  <2> QED
    BY <1>17, <2>1, Zenon DEF TypeOK, SeesCompletion, SlotsType, ringVars, daemonVars
<1>18. CASE ConsumeCompletion(c)
  <2>1. PcOK
    BY <1>18, GotoType, Zenon DEF ConsumeCompletion, Return, Inside
  <2>2. ticket' \in [Clients -> Nat] /\ observed' \in [Clients -> {"none", "Timeout",
     "io", "lost"}]
    BY <1>18, ReturnType, Zenon DEF ConsumeCompletion
  <2>3. ticket[c] \in Nat /\ ticket[c] + Capacity \in Nat
    BY CapacityAssumption DEF TypeOK
  <2>4. completion' \in SlotsType
    BY <1>18, <2>3, SequenceType, Zenon DEF ConsumeCompletion, TypeOK, SlotsType
  <2> QED
    BY <1>18, <2>1, <2>2, <2>4, Zenon
    DEF TypeOK, ConsumeCompletion, SlotsType, ringVars, daemonVars
<1>19. CASE WaitObservesFault(c)
  <2>1. PcOK
    BY <1>19, GotoType, Zenon DEF WaitObservesFault, Inside
  <2> QED
    BY <1>19, <2>1
    DEF TypeOK, WaitObservesFault, SlotsType, ringVars, daemonVars, NoteDaemonExit
<1>20. CASE AbandonTicket(c)
  <2>1. PcOK
    BY <1>20, GotoType, Zenon DEF AbandonTicket, Return, Inside
  <2>2. ticket' \in [Clients -> Nat] /\ observed' \in [Clients -> {"none", "Timeout",
     "io", "lost"}]
    BY <1>20, ReturnType, Zenon DEF AbandonTicket
  <2> QED
    BY <1>20, <2>1, <2>2, Zenon
       DEF TypeOK, AbandonTicket, SlotsType, ringVars, daemonVars
<1> QED
  BY Zenon, <1>1, <1>2, <1>3, <1>4, <1>5, <1>6, <1>7, <1>8, <1>9, <1>10, <1>11, <1>12,
     <1>13, <1>14, <1>15, <1>16, <1>17, <1>18, <1>19, <1>20
  DEF ClientAction, DeviceStep, HostStep, PushStep, WaitStep

(* Taking the request at the consumer's head keeps the ring's types, and   *)
(* the group that it opens is well formed.                                 *)
LEMMA TakeType ==
  ASSUME TypeOK, NEW left \in 0..MaxActions, TakeRequest(left)
  PROVE  /\ consumer' \in Nat /\ request' \in SlotsType
         /\ groups' \subseteq GroupType
<1>1. consumer + 1 \in Nat /\ consumer + Capacity \in Nat
  BY CapacityAssumption DEF TypeOK
<1>2. request' \in SlotsType
  BY <1>1, SequenceType, Zenon DEF TypeOK, TakeRequest, SlotsType
<1>3. request[Slot(consumer)].client \in Clients \cup {"none"}
  BY SlotType, Zenon DEF TypeOK
<1> QED
  BY <1>1, <1>2, <1>3 DEF TypeOK, TakeRequest, GroupType

(* One step per action of the daemon: types are kept.                      *)
LEMMA DaemonType ==
  ASSUME TypeOK, DaemonAction
  PROVE  TypeOK'
<1>1. CASE SubmitPrepared
  BY <1>1, Zenon DEF TypeOK, SubmitPrepared, ringVars, clientVars
<1>2. CASE RunEngine
  BY <1>2, Zenon DEF TypeOK, RunEngine, ringVars, clientVars
<1>3. CASE EngineFails
  BY <1>3, Zenon DEF TypeOK, EngineFails, ringVars, clientVars
<1>4. CASE CloseAdmission
  BY <1>4, Zenon DEF TypeOK, CloseAdmission, ringVars, clientVars
<1>5. CASE Quiesced
  BY <1>5, Zenon DEF TypeOK, Quiesced, ringVars, clientVars
<1>6. CASE Drained
  BY <1>6, Zenon DEF TypeOK, Drained, ringVars, clientVars
<1>7. CASE RaiseFault
  BY <1>7, Zenon DEF TypeOK, RaiseFault, ringVars, clientVars
<1>8. CASE DaemonDies
  BY <1>8, Zenon DEF TypeOK, DaemonDies, ringVars, clientVars
<1>9. CASE PopRequest
  <2>1. PICK left \in 0..MaxActions : TakeRequest(left)
    BY <1>9, Zenon DEF PopRequest
  <2>2. consumer' \in Nat /\ request' \in SlotsType /\ groups' \subseteq GroupType
    BY <2>1, TakeType, Zenon
  <2>3. UNCHANGED <<closed, admitted, deviceCount, producer, completion, fault>>
    BY <2>1, Zenon DEF TakeRequest
  <2> QED
    BY <1>9, <2>2, <2>3, Zenon DEF TypeOK, PopRequest, clientVars, SlotsType, GroupType
<1>10. CASE DrainRequest
  <2>1. TakeRequest(0) /\ 0 \in 0..MaxActions
    BY <1>10 DEF DrainRequest, MaxActions
  <2>2. consumer' \in Nat /\ request' \in SlotsType /\ groups' \subseteq GroupType
    BY <2>1, TakeType, Zenon
  <2>3. UNCHANGED <<closed, admitted, deviceCount, producer, completion, fault>>
    BY <2>1, Zenon DEF TakeRequest
  <2> QED
    BY <1>10, <2>2, <2>3, Zenon
       DEF TypeOK, DrainRequest, clientVars, SlotsType, GroupType
<1>11. CASE AnswerPrepared
  BY <1>11, PublishType, Zenon DEF TypeOK, AnswerPrepared, Newest, clientVars, SlotsType
<1>12. ASSUME NEW g \in groups, ActionCompletes(g) PROVE TypeOK'
  <2>1. g \in GroupType /\ g.left > 1
    BY <1>12, Zenon DEF TypeOK, ActionCompletes, GroupType
  <2>2. g.left - 1 \in 0..MaxActions
    BY <2>1 DEF GroupType, MaxActions
  <2>3. [g EXCEPT !.left = @ - 1] \in GroupType
    BY <2>1, <2>2, Zenon DEF GroupType
  <2> QED
    BY <1>12, <2>3, Zenon DEF TypeOK, ActionCompletes, ringVars, clientVars, GroupType
<1>13. ASSUME NEW g \in groups, GroupCompletes(g) PROVE TypeOK'
  BY <1>13, PublishType, Zenon DEF TypeOK, GroupCompletes, clientVars, SlotsType
<1>14. ASSUME NEW g \in groups, FailGroup(g) PROVE TypeOK'
  BY <1>14, PublishType, Zenon DEF TypeOK, FailGroup, clientVars, SlotsType
<1> QED
  BY Zenon, <1>1, <1>2, <1>3, <1>4, <1>5, <1>6, <1>7, <1>8, <1>9, <1>10, <1>11, <1>12,
     <1>13, <1>14
  DEF DaemonAction, DispatchStep, FailStep

(* The count follows the clients: a step of client c that enters adds one, *)
(* one that leaves takes one away, any other keeps c on its side.          *)
Entering(c) ==
  pc[c] \notin Inside /\ Enter /\ \E where \in Inside : Goto(c, where)
Leaving(c) ==
  /\ pc[c] \in Inside /\ Leave
  /\ \E where \in {"idle", "retry", "waiting"} : Goto(c, where)
Staying(c) ==
  /\ UNCHANGED <<admitted, deviceCount>>
  /\ \E where \in Inside \cup
                    {"idle", "retry", "pushing", "waiting", "recheck", "reading"} :
       Goto(c, where) /\ (pc[c] \in Inside <=> where \in Inside)

(* Every client action enters, leaves, or stays on its side of admission.  *)
LEMMA ClientMoves ==
  ASSUME NEW c \in Clients, ClientAction(c)
  PROVE  Entering(c) \/ Leaving(c) \/ Staying(c)
<1>1. CASE DeviceEnter(c) \/ HostEnter(c)
  BY <1>1, Zenon DEF Entering, Inside, DeviceEnter, HostEnter
<1>2. CASE DeviceCheckClosed(c)
  BY <1>2, Zenon DEF Leaving, Inside, DeviceCheckClosed, Return
<1>3. CASE DeviceFullGivesUp(c)
  BY <1>3, Zenon DEF Leaving, Inside, DeviceFullGivesUp, Return
<1>4. CASE HostFull(c)
  BY <1>4, Zenon DEF Leaving, Inside, HostFull
<1>5. CASE LeaveAdmission(c)
  BY <1>5, Zenon DEF Leaving, Inside, LeaveAdmission
<1>6. CASE DeviceRefused(c)
  BY <1>6, Zenon DEF Staying, Inside, ringVars, DeviceRefused, Return
<1>7. CASE DeviceCheckOpen(c)
  BY <1>7, Zenon DEF Staying, Inside, ringVars, DeviceCheckOpen
<1>8. CASE DeviceFullRetries(c)
  BY <1>8, Zenon DEF Staying, Inside, ringVars, DeviceFullRetries
<1>9. CASE HostBegin(c)
  BY <1>9 DEF Staying, Inside, ringVars, HostBegin
<1>10. CASE HostPollsLiveness(c)
  BY <1>10 DEF Staying, Inside, ringVars, HostPollsLiveness, Return
<1>11. CASE HostRefused(c)
  BY <1>11 DEF Staying, Inside, ringVars, HostRefused
<1>12. CASE HostTimesOut(c)
  BY <1>12 DEF Staying, Inside, ringVars, HostTimesOut, Return
<1>13. CASE Claim(c)
  BY <1>13, Zenon DEF Staying, Inside, ringVars, Claim
<1>14. CASE WriteRequest(c)
  BY <1>14, Zenon DEF Staying, Inside, ringVars, WriteRequest
<1>15. CASE ReleaseRequest(c)
  BY <1>15, Zenon DEF Staying, Inside, ringVars, ReleaseRequest
<1>16. CASE SeesCompletion(c)
  BY <1>16 DEF Staying, Inside, ringVars, SeesCompletion
<1>17. CASE ConsumeCompletion(c)
  BY <1>17 DEF Staying, Inside, ringVars, ConsumeCompletion, Return
<1>18. CASE WaitObservesFault(c)
  BY <1>18 DEF Staying, Inside, ringVars, WaitObservesFault
<1>19. CASE AbandonTicket(c)
  BY <1>19 DEF Staying, Inside, ringVars, AbandonTicket, Return
<1> QED
  BY Zenon, <1>1, <1>2, <1>3, <1>4, <1>5, <1>6, <1>7, <1>8, <1>9, <1>10, <1>11, <1>12,
     <1>13, <1>14, <1>15, <1>16, <1>17, <1>18, <1>19
  DEF ClientAction, DeviceStep, HostStep, PushStep, WaitStep

(* A client's step keeps the count equal to the number of clients inside.  *)
LEMMA ClientCounts ==
  ASSUME TypeOK, AdmissionCounts, NEW c \in Clients, ClientAction(c)
  PROVE  AdmissionCounts'
<1>1. CASE Entering(c)
  BY <1>1, MoveIn, Zenon DEF Entering, Enter, AdmissionCounts
<1>2. CASE Leaving(c)
  <2>1. {"idle", "retry", "waiting"} \cap Inside = {}
    BY Zenon DEF Inside
  <2>2. Cardinality(InsideClients') = Cardinality(InsideClients) - 1
    BY <1>2, <2>1, MoveOut, Zenon DEF Leaving
  <2> QED
    BY <1>2, <2>2, Zenon DEF Leaving, Leave, AdmissionCounts
<1>3. CASE Staying(c)
  BY <1>3, MoveWithin, Zenon DEF Staying, AdmissionCounts
<1> QED
  BY <1>1, <1>2, <1>3, ClientMoves, Zenon

(* The dispatcher neither admits nor releases a client.                    *)
LEMMA DaemonCounts ==
  ASSUME AdmissionCounts, DaemonAction
  PROVE  AdmissionCounts'
<1>1. UNCHANGED <<admitted, deviceCount, pc>>
  BY Zenon DEF DaemonAction, DispatchStep, FailStep, PopRequest, TakeRequest,
     SubmitPrepared, AnswerPrepared, RunEngine, ActionCompletes, GroupCompletes,
     EngineFails, CloseAdmission, Quiesced, DrainRequest, Drained, FailGroup,
     RaiseFault, DaemonDies, ringVars, clientVars
<1> QED
  BY <1>1, Zenon DEF AdmissionCounts, InsideClients

(* No client step opens admission or moves the daemon; once the daemon     *)
(* drains, admission is closed and no client is inside, so none enters.    *)
LEMMA ClientQuiet ==
  ASSUME TypeOK, ClosedWhileFailing, DrainIsQuiet, ~GpuExclusive,
         NEW c \in Clients, ClientAction(c)
  PROVE  ClosedWhileFailing' /\ DrainIsQuiet'
<1>1. UNCHANGED <<closed, daemon>>
  BY Zenon DEF ClientAction, DeviceStep, HostStep, PushStep, WaitStep, DeviceEnter,
     DeviceRefused, DeviceCheckOpen, DeviceCheckClosed, DeviceFullRetries,
     DeviceFullGivesUp, HostBegin, HostPollsLiveness, HostEnter, HostRefused,
     HostFull, HostTimesOut, Claim, WriteRequest, ReleaseRequest,
     LeaveAdmission, SeesCompletion, ConsumeCompletion, WaitObservesFault,
     AbandonTicket, ringVars, daemonVars
<1>2. CASE Entering(c)
  BY <1>1, <1>2, Zenon DEF Entering, Enter, ClosedWhileFailing, DrainIsQuiet
<1>3. CASE Leaving(c)
  BY <1>1, <1>3, Zenon DEF Leaving, ClosedWhileFailing, DrainIsQuiet
<1>4. CASE Staying(c)
  BY <1>1, <1>4, Zenon DEF Staying, Goto, TypeOK, ClosedWhileFailing, DrainIsQuiet
<1> QED
  BY <1>2, <1>3, <1>4, ClientMoves, Zenon

(* fail_all closes admission before it waits, and starts to drain only     *)
(* when the count it reads is zero, hence when no client is inside.        *)
LEMMA DaemonQuiet ==
  ASSUME TypeOK, AdmissionCounts, ClosedWhileFailing, DrainIsQuiet,
         ~GpuExclusive, DaemonAction
  PROVE  ClosedWhileFailing' /\ DrainIsQuiet'
<1>1. CASE CloseAdmission
  BY <1>1, Zenon DEF CloseAdmission, ClosedWhileFailing, DrainIsQuiet
<1>2. CASE Quiesced
  <2>1. InsideClients = {}
    BY <1>2, InsideFinite, Zenon DEF Quiesced, AdmissionCounts
  <2> QED
    BY <1>2, <2>1, Zenon DEF Quiesced, InsideClients, ClosedWhileFailing,
       DrainIsQuiet, ringVars, clientVars
<1>3. CASE DrainRequest
  BY <1>3, Zenon
     DEF DrainRequest, TakeRequest, ClosedWhileFailing, DrainIsQuiet, clientVars
<1>4. CASE Drained
  BY <1>4, Zenon DEF Drained, ClosedWhileFailing, DrainIsQuiet, ringVars, clientVars
<1>5. ASSUME NEW g \in groups, FailGroup(g)
      PROVE  ClosedWhileFailing' /\ DrainIsQuiet'
  BY <1>5, Zenon DEF FailGroup, ClosedWhileFailing, DrainIsQuiet, clientVars
<1>6. CASE RaiseFault
  BY <1>6, Zenon DEF RaiseFault, ClosedWhileFailing, DrainIsQuiet, clientVars
<1>7. CASE DispatchStep \/ EngineFails \/ DaemonDies
  <2>1. daemon' \in {"popping", "preparing", "completing", "closing", "dead"}
    BY <1>7, Zenon DEF DispatchStep, PopRequest, SubmitPrepared, AnswerPrepared,
       RunEngine, ActionCompletes, GroupCompletes, EngineFails, DaemonDies
  <2> QED
    BY <2>1, Zenon DEF ClosedWhileFailing, DrainIsQuiet
<1> QED
  BY <1>1, <1>2, <1>3, <1>4, <1>5, <1>6, <1>7, Zenon DEF DaemonAction, FailStep

(* The invariant is inductive.                                             *)
LEMMA QuietInvStep == QuietInv /\ [Next]_vars => QuietInv'
<1> SUFFICES ASSUME QuietInv, [Next]_vars PROVE QuietInv'
  BY Zenon
<1>1. ASSUME NEW c \in Clients, ClientAction(c) PROVE QuietInv'
  BY <1>1, ClientType, ClientCounts, ClientQuiet, Zenon DEF QuietInv
<1>2. CASE DaemonAction
  BY <1>2, DaemonType, DaemonCounts, DaemonQuiet, Zenon DEF QuietInv
<1>3. CASE UNCHANGED vars
  BY <1>3, Zenon DEF QuietInv, TypeOK, AdmissionCounts, InsideClients,
     ClosedWhileFailing, DrainIsQuiet, vars, ringVars, clientVars, daemonVars
<1> QED
  BY <1>1, <1>2, <1>3, NextSplits, Zenon

(* The invariant holds of a fresh control region.                          *)
LEMMA QuietInvInit == Init => QuietInv
<1> SUFFICES ASSUME Init PROVE QuietInv
  BY Zenon
<1>1. TypeOK
  <2>1. request \in SlotsType /\ completion \in SlotsType
    BY CapacityAssumption DEF Init, SlotsType
  <2>2. pc \in [Clients -> {"idle"}] /\ ticket \in [Clients -> {0}]
        /\ observed \in [Clients -> {"none"}]
    BY Zenon DEF Init
  <2> QED
    BY <2>1, <2>2, Zenon DEF Init, TypeOK, SlotsType
<1>2. InsideClients = {}
  BY Zenon DEF Init, InsideClients, Inside
<1>3. AdmissionCounts
  BY <1>2, FS_EmptySet, Zenon DEF Init, AdmissionCounts
<1> QED
  BY <1>1, <1>3, Zenon DEF Init, QuietInv, ClosedWhileFailing, DrainIsQuiet

(* The invariant always holds.                                             *)
LEMMA QuietInvAlways == Spec => []QuietInv
BY QuietInvInit, QuietInvStep, PTL DEF Spec

(* Every value the ring, the admission word, the clients and the           *)
(* dispatcher hold has its type; the count of the admission word never     *)
(* falls below zero, whichever error path a client leaves by.              *)
THEOREM TypeCorrect == Spec => []TypeOK
<1>1. QuietInv => TypeOK
  BY Zenon DEF QuietInv
<1> QED
  BY <1>1, QuietInvAlways, PTL

(* fail_all drains a quiet ring: with the shared admission word, once      *)
(* fail_all has seen the closed word without a count, no client of any     *)
(* kind is between its admission and its departure, for any number of      *)
(* clients and any capacity.                                               *)
THEOREM DrainQuiet == ASSUME ~GpuExclusive PROVE Spec => []DrainIsQuiet
<1>1. QuietInv => DrainIsQuiet
  BY Zenon DEF QuietInv
<1> QED
  BY <1>1, QuietInvAlways, PTL

---------------------------------------------------------------------------
(***************************************************************************)
(* What becomes of a ticket, for every set of clients, every ring capacity *)
(* and every number of requests: no request is lost or answered twice, no  *)
(* client reads another client's answer, and no slot of the ring has two   *)
(* owners.                                                                 *)
(***************************************************************************)

(* Division with remainder, which is what masking a cursor computes.       *)
LEMMA Division ==
  ASSUME NEW n \in Nat, n >= 2, NEW a \in Nat
  PROVE  /\ a \div n \in Int /\ a % n \in 0..(n - 1)
         /\ a = n * (a \div n) + (a % n)
BY SMT

(* The remainder is determined by any such decomposition.                  *)
LEMMA Remainder ==
  ASSUME NEW n \in Nat, n >= 2, NEW a \in Nat, NEW q \in Int, NEW r \in 0..(n - 1),
         a = n * q + r
  PROVE  a % n = r
BY SMTT(20)

(* Two numbers with the same remainder differ by a multiple of n.          *)
LEMMA Difference ==
  ASSUME NEW n \in Int, NEW p \in Int, NEW q \in Int, NEW r \in Int,
         NEW a \in Int, NEW b \in Int, a = n * p + r, b = n * q + r
  PROVE  n * (q - p) = b - a
BY SMT

(* The next multiple of n.                                                 *)
LEMMA NextMultiple == ASSUME NEW n \in Int, NEW q \in Int PROVE n * (q + 1) = n * q + n
BY SMT

(* The only multiple of n strictly between -n and n is zero.               *)
LEMMA SmallMultiple ==
  ASSUME NEW n \in Int, NEW d \in Int, n > 0, n * d > -n, n * d < n
  PROVE  d = 0
<1>1. CASE d >= 1
  <2>1. n * d >= n * 1
    BY <1>1
  <2> QED
    BY <2>1
<1>2. CASE d <= -1
  <2>1. n * d <= n * (-1)
    BY <1>2
  <2> QED
    BY <2>1
<1> QED
  BY <1>1, <1>2

(* A ticket and the one a lap later share their slot.                      *)
LEMMA SlotWraps == ASSUME NEW a \in Nat PROVE Slot(a + Capacity) = Slot(a)
<1> DEFINE q == a \div Capacity
           r == a % Capacity
<1>1. q \in Int /\ r \in 0..(Capacity - 1) /\ a = Capacity * q + r
  BY Division, CapacityAssumption, Zenon
<1> HIDE DEF q, r
<1>2. a + Capacity = Capacity * (q + 1) + r
  BY <1>1, NextMultiple, CapacityAssumption
<1>3. (a + Capacity) % Capacity = r
  BY <1>1, <1>2, Remainder, CapacityAssumption
<1> QED
  BY <1>3, Zenon DEF Slot, r

(* Tickets less than a lap apart.                                          *)
Near(a, b) == a < b + Capacity /\ b < a + Capacity

(* Different tickets less than a lap apart have different slots.           *)
LEMMA SlotsApart ==
  ASSUME NEW a \in Nat, NEW b \in Nat, Near(a, b), a # b
  PROVE  Slot(a) # Slot(b)
<1> SUFFICES ASSUME Slot(a) = Slot(b) PROVE FALSE
  BY Zenon
<1> DEFINE p == a \div Capacity
           q == b \div Capacity
           r == a % Capacity
<1>1. /\ p \in Int /\ q \in Int /\ r \in Int
      /\ a = Capacity * p + r /\ b = Capacity * q + r
  BY Division, CapacityAssumption DEF Slot
<1> HIDE DEF p, q, r
<1>2. Capacity * (q - p) = b - a
  BY <1>1, Difference, CapacityAssumption
<1>3. q - p = 0
  BY <1>1, <1>2, SmallMultiple, CapacityAssumption DEF Near
<1> QED
  BY <1>1, <1>3

(* Storing a sequence number in the slot of a ticket leaves the payload of *)
(* that slot alone, and every slot of another ticket less than a lap away. *)
LEMMA SequenceStored ==
  ASSUME NEW slots \in SlotsType, NEW t \in Nat, NEW s \in Nat, NEW new,
         new = [slots EXCEPT ![Slot(t)].sequence = s]
  PROVE  /\ new[Slot(t)].sequence = s
         /\ new[Slot(t)].client = slots[Slot(t)].client
         /\ \A u \in Nat : u # t /\ Near(t, u) => new[Slot(u)] = slots[Slot(u)]
<1>1. \A u \in Nat : u # t /\ Near(t, u) => Slot(u) # Slot(t)
  BY SlotsApart, Zenon
<1> QED
  BY <1>1, SlotType, Zenon DEF SlotsType

(***************************************************************************)
(* The inductive invariant.  A client is writing from the claim of its     *)
(* ticket to the release of the slot, and holds the ticket from the claim  *)
(* until it returns.                                                       *)
(***************************************************************************)
Writing(c) == pc[c] \in {"claimed", "written"}
Holds(c) == Writing(c) \/ pc[c] \in Holding
AnswerAt(t) == completion[Slot(t)]

(* At most a ringful of tickets is claimed and not yet popped.             *)
Window == consumer <= producer /\ producer <= consumer + Capacity

(* A slot of the coming lap is queued exactly when its ticket was claimed  *)
(* and its writer has released it.                                         *)
Pushed(t) == t < producer /\ \A c \in Clients : Writing(c) => ticket[c] # t

RequestSequences ==
  \A t \in Nat : consumer <= t /\ t < consumer + Capacity =>
    request[Slot(t)].sequence = IF Pushed(t) THEN t + 1 ELSE t

(* What is not popped is not answered.                                     *)
Unanswered ==
  \A t \in Nat : consumer <= t /\ t < producer => AnswerAt(t).sequence = t

(* A held ticket belongs to the current lap, its completion slot waits for *)
(* its answer or has it, and nobody else holds it.                         *)
Owners ==
  /\ \A c \in Clients : Writing(c) => consumer <= ticket[c]
  /\ \A c \in Clients : Holds(c) =>
       /\ ticket[c] < producer /\ producer <= ticket[c] + Capacity
       /\ AnswerAt(ticket[c]).sequence \in {ticket[c], ticket[c] + 1}
  /\ \A c, d \in Clients : Holds(c) /\ Holds(d) /\ ticket[c] = ticket[d] => c = d
  /\ \A c \in Clients : pc[c] = "reading" => Answered(c)

(* A group belongs to the current lap, is not answered, and is the only    *)
(* one of its ticket.                                                      *)
Groups ==
  /\ \A g \in groups : /\ g.ticket < consumer /\ producer <= g.ticket + Capacity
                       /\ AnswerAt(g.ticket).sequence = g.ticket
  /\ \A g, h \in groups : g.ticket = h.ticket => g = h

(* A held ticket that was popped and not answered has its group.           *)
Popped ==
  daemon # "dead" =>
    \A c \in Clients :
      pc[c] \in Holding /\ ticket[c] < consumer /\ ~Answered(c)
        => \E g \in groups : g.ticket = ticket[c]

(* The payloads carry the client from its request to its answer.           *)
Contents ==
  /\ \A c \in Clients :
       pc[c] = "written" \/ (pc[c] \in Holding /\ consumer <= ticket[c])
         => request[Slot(ticket[c])].client = c
  /\ \A c \in Clients, g \in groups :
       pc[c] \in Holding /\ g.ticket = ticket[c] => g.client = c
  /\ \A c \in Clients :
       pc[c] \in Holding /\ Answered(c) => AnswerAt(ticket[c]).client = c

TicketInv ==
  /\ Window /\ RequestSequences /\ Unanswered /\ Owners
  /\ Groups /\ Popped /\ Contents

(***************************************************************************)
(* Clients.                                                                *)
(***************************************************************************)
(* A client that is not writing moves without touching the ring: it gives  *)
(* up its ticket or keeps it, and starts to read only an answered slot.    *)
Drifts(c) ==
  /\ UNCHANGED <<producer, consumer, request, completion, daemonVars>>
  /\ ~Writing(c) /\ ~Writing(c)'
  /\ \A d \in Clients \ {c} : pc'[d] = pc[d] /\ ticket'[d] = ticket[d]
  /\ pc'[c] \in Holding =>
       /\ pc[c] \in Holding /\ ticket'[c] = ticket[c]
       /\ pc'[c] = "reading" => Answered(c)

(* Every client action but the four that touch a slot drifts.              *)
LEMMA ClientDrifts ==
  ASSUME TypeOK, NEW c \in Clients, ClientAction(c)
  PROVE  \/ Claim(c) \/ WriteRequest(c) \/ ReleaseRequest(c)
         \/ ConsumeCompletion(c) \/ Drifts(c)
<1>1. CASE DeviceEnter(c) \/ DeviceRefused(c)
  BY <1>1, Zenon DEF Drifts, Writing, Holding, TypeOK, DeviceEnter, DeviceRefused,
     Goto, Return, ringVars, daemonVars
<1>2. CASE DeviceStep(c)
  BY <1>2, Zenon DEF Drifts, Writing, Holding, TypeOK, DeviceStep, DeviceCheckOpen,
     DeviceCheckClosed, DeviceFullRetries, DeviceFullGivesUp, Goto, Return,
     ringVars, daemonVars
<1>3. CASE HostBegin(c) \/ HostStep(c)
  BY <1>3, Zenon DEF Drifts, Writing, Holding, TypeOK, HostBegin, HostStep,
     HostPollsLiveness, HostEnter, HostRefused, HostFull, HostTimesOut, Goto,
     Return, ringVars, daemonVars
<1>4. CASE LeaveAdmission(c) \/ SeesCompletion(c)
  BY <1>4, Zenon DEF Drifts, Writing, Holding, TypeOK, LeaveAdmission,
     SeesCompletion, Goto, ringVars, daemonVars
<1>5. CASE WaitObservesFault(c) \/ AbandonTicket(c)
  BY <1>5, Zenon DEF Drifts, Writing, Holding, TypeOK, WaitObservesFault,
     AbandonTicket, Goto, Return, ringVars, daemonVars
<1> QED
  BY <1>1, <1>2, <1>3, <1>4, <1>5, Zenon DEF ClientAction, PushStep, WaitStep

(* Drifting keeps the invariant.                                           *)
LEMMA DriftKeeps ==
  ASSUME TypeOK, TicketInv, NEW c \in Clients, Drifts(c)
  PROVE  TicketInv'
<1>1. /\ UNCHANGED <<producer, consumer, request, completion, daemon, groups>>
      /\ \A d \in Clients : Writing(d)' => Writing(d) /\ d # c
      /\ \A d \in Clients : Writing(d) => Writing(d)' /\ d # c
      /\ \A d \in Clients : Writing(d) \/ pc'[d] \in Holding => ticket'[d] = ticket[d]
      /\ \A d \in Clients : pc'[d] \in Holding => pc[d] \in Holding
      /\ \A d \in Clients : pc'[d] = "written" => pc[d] = "written"
      /\ \A d \in Clients : pc'[d] = "reading" => pc[d] = "reading" \/ Answered(d)
  BY Zenon DEF Drifts, Writing, Holding, daemonVars
<1>2. \A d \in Clients : Holds(d)' => Holds(d) /\ ticket'[d] = ticket[d]
  BY <1>1, Zenon DEF Holds
<1>3. \A t : AnswerAt(t)' = AnswerAt(t)
  BY <1>1, Zenon DEF AnswerAt, Slot
<1>4. \A d \in Clients : ticket'[d] = ticket[d] => (Answered(d)' <=> Answered(d))
  BY <1>1, Zenon DEF Answered, Slot
<1>5. Window' /\ Unanswered' /\ Groups'
  BY <1>1, <1>3, Zenon DEF TicketInv, Window, Unanswered, Groups
<1>6. RequestSequences'
  BY <1>1, Zenon DEF TicketInv, RequestSequences, Pushed, Slot
<1>7. Owners'
  BY <1>1, <1>2, <1>3, <1>4, Zenon DEF TicketInv, Owners, Holding
<1>8. Popped'
  BY <1>1, <1>4, Zenon DEF TicketInv, Popped
<1>9. Contents'
  BY <1>1, <1>3, <1>4 DEF TicketInv, Contents, Writing, Slot
<1> QED
  BY <1>5, <1>6, <1>7, <1>8, <1>9, Zenon DEF TicketInv

(* A client wins the cursor: the slot it found free is nobody's.           *)
LEMMA ClaimKeeps ==
  ASSUME TypeOK, TicketInv, NEW c \in Clients, Claim(c)
  PROVE  TicketInv'
<1>1. /\ producer' = producer + 1
      /\ UNCHANGED <<consumer, request, completion, daemon, groups>>
      /\ ~Holds(c) /\ pc'[c] = "claimed" /\ ticket'[c] = producer
      /\ \A d \in Clients \ {c} : pc'[d] = pc[d] /\ ticket'[d] = ticket[d]
      /\ request[Slot(producer)].sequence = producer
      /\ AnswerAt(producer).sequence = producer
  BY Zenon
     DEF Claim, Goto, TypeOK, Holds, Writing, Holding, SlotFree, AnswerAt, daemonVars
<1>2. /\ producer \in Nat /\ consumer \in Nat /\ \A d \in Clients : ticket[d] \in Nat
      /\ \A g \in groups : g.ticket \in Nat
  BY Zenon DEF TypeOK
<1>3. ASSUME NEW t \in Nat, t + Capacity = producer
      PROVE  Slot(t) = Slot(producer)
  BY <1>3, SlotWraps, Zenon
<1>4. producer < consumer + Capacity
  <2>1. CASE producer = consumer + Capacity
    <3>1. request[Slot(consumer)].sequence \in {consumer, consumer + 1}
      BY <1>2, CapacityAssumption DEF TicketInv, RequestSequences
    <3> QED
      BY <1>1, <1>2, <1>3, <2>1, <3>1, CapacityAssumption
  <2> QED
    BY <1>2, <2>1, CapacityAssumption DEF TicketInv, Window
<1>5. \A d \in Clients : Holds(d) => producer < ticket[d] + Capacity
  <2>1. ASSUME NEW d \in Clients, Holds(d), ticket[d] + Capacity = producer PROVE FALSE
    <3>1. AnswerAt(ticket[d]).sequence \in {ticket[d], ticket[d] + 1}
      BY <2>1, Zenon DEF TicketInv, Owners
    <3>2. AnswerAt(ticket[d]) = AnswerAt(producer)
      BY <1>2, <1>3, <2>1, Zenon DEF AnswerAt
    <3> QED
      BY <1>1, <1>2, <2>1, <3>1, <3>2, CapacityAssumption
  <2> QED
    BY <1>2, <2>1, CapacityAssumption DEF TicketInv, Owners
<1>6. \A g \in groups : producer < g.ticket + Capacity
  <2>1. ASSUME NEW g \in groups, g.ticket + Capacity = producer PROVE FALSE
    <3>1. AnswerAt(g.ticket).sequence = g.ticket
      BY Zenon DEF TicketInv, Groups
    <3>2. AnswerAt(g.ticket) = AnswerAt(producer)
      BY <1>2, <1>3, <2>1, Zenon DEF AnswerAt
    <3> QED
      BY <1>1, <1>2, <2>1, <3>1, <3>2, CapacityAssumption
  <2> QED
    BY <1>2, <2>1, CapacityAssumption DEF TicketInv, Groups
<1>7. /\ \A d \in Clients : Holds(d)' <=> Holds(d) \/ d = c
      /\ \A d \in Clients : Writing(d)' <=> Writing(d) \/ d = c
      /\ \A d \in Clients : pc'[d] \in Holding <=> pc[d] \in Holding
      /\ \A d \in Clients : Holds(d) => d # c /\ ticket'[d] = ticket[d]
      /\ \A d \in Clients : Writing(d) => Holds(d)
      /\ \A d \in Clients : pc[d] \in Holding => Holds(d)
  BY <1>1, Zenon DEF Holds, Writing, Holding
<1>8. \A t : AnswerAt(t)' = AnswerAt(t)
  BY <1>1, Zenon DEF AnswerAt, Slot
<1>9. \A d \in Clients : Holds(d) => (Answered(d)' <=> Answered(d))
  BY <1>1, <1>7, Zenon DEF Answered, Slot
<1>10. Window'
  BY <1>1, <1>2, <1>4, CapacityAssumption DEF TicketInv, Window
<1>11. RequestSequences'
  <2> SUFFICES ASSUME NEW t \in Nat, consumer <= t, t < consumer + Capacity
               PROVE  request[Slot(t)].sequence = IF Pushed(t)' THEN t + 1 ELSE t
    BY <1>1, Zenon DEF RequestSequences, Slot
  <2>1. request[Slot(t)].sequence = IF Pushed(t) THEN t + 1 ELSE t
    BY Zenon DEF TicketInv, RequestSequences
  <2>2. CASE t = producer
    BY <1>1, <1>2, <2>1, <2>2, <1>7, Zenon DEF Pushed
  <2>3. CASE t # producer
    BY <1>1, <1>2, <2>1, <2>3, <1>7, CapacityAssumption DEF Pushed
  <2> QED
    BY <2>2, <2>3, Zenon
<1>12. Unanswered'
  BY <1>1, <1>2, <1>8, SMTT(30) DEF TicketInv, Unanswered
<1>13. Owners'
  <2>1. \A d \in Clients : Writing(d)' => consumer' <= ticket'[d]
    BY <1>1, <1>2, <1>7, Zenon DEF TicketInv, Owners, Window
  <2>2. \A d \in Clients : Holds(d)' =>
          /\ ticket'[d] < producer' /\ producer' <= ticket'[d] + Capacity
          /\ AnswerAt(ticket[d])'.sequence \in {ticket'[d], ticket'[d] + 1}
    BY <1>1, <1>2, <1>5, <1>7, <1>8, CapacityAssumption, SMTT(30) DEF TicketInv, Owners
  <2>3. \A d, e \in Clients : Holds(d)' /\ Holds(e)' /\ ticket'[d] = ticket'[e] => d = e
    BY <1>1, <1>2, <1>7, SMTT(60) DEF TicketInv, Owners
  <2>4. \A d \in Clients : pc'[d] = "reading" => Answered(d)'
    BY <1>1, <1>7, <1>9, Zenon DEF TicketInv, Owners, Holding
  <2> QED
    BY <2>1, <2>2, <2>3, <2>4, Zenon DEF Owners
<1>14. Groups'
  BY <1>1, <1>2, <1>6, <1>8, CapacityAssumption, SMTT(30) DEF TicketInv, Groups
<1>15. Popped'
  BY <1>1, <1>7, <1>9, Zenon DEF TicketInv, Popped
<1>16. Contents'
  BY <1>1, <1>7, <1>8, <1>9, SMTT(60) DEF TicketInv, Contents, Writing, Slot
<1> QED
  BY <1>10, <1>11, <1>12, <1>13, <1>14, <1>15, <1>16, Zenon DEF TicketInv

(* The client writes its payload into the slot it owns.                    *)
LEMMA WriteKeeps ==
  ASSUME TypeOK, TicketInv, NEW c \in Clients, WriteRequest(c)
  PROVE  TicketInv'
<1> DEFINE t == ticket[c]
<1>1. /\ UNCHANGED <<producer, consumer, completion, ticket, daemon, groups>>
      /\ pc[c] = "claimed" /\ pc'[c] = "written"
      /\ \A d \in Clients \ {c} : pc'[d] = pc[d]
      /\ request' = [request EXCEPT ![Slot(t)].client = c]
  BY Zenon DEF WriteRequest, Goto, TypeOK, daemonVars
<1>2. /\ producer \in Nat /\ consumer \in Nat /\ \A d \in Clients : ticket[d] \in Nat
      /\ request \in SlotsType
  BY Zenon DEF TypeOK, SlotsType
<1> HIDE DEF t
<1>3. /\ \A u \in Nat : request'[Slot(u)].sequence = request[Slot(u)].sequence
      /\ request'[Slot(t)].client = c
      /\ \A u \in Nat : u # t /\ Near(t, u) => request'[Slot(u)] = request[Slot(u)]
  <2>1. t \in Nat /\ Slot(t) \in 0..(Capacity - 1)
    BY <1>2, SlotType, Zenon DEF t
  <2>2. \A u \in Nat : u # t /\ Near(t, u) => Slot(u) # Slot(t)
    BY <2>1, SlotsApart, Zenon
  <2> QED
    BY <1>1, <1>2, <2>1, <2>2, SlotType, Zenon DEF SlotsType
<1>4. /\ \A d \in Clients : Holds(d)' <=> Holds(d)
      /\ \A d \in Clients : Writing(d)' <=> Writing(d)
      /\ \A d \in Clients : pc'[d] \in Holding <=> pc[d] \in Holding
  BY <1>1, Zenon DEF Holds, Writing, Holding
<1>5. \A u : AnswerAt(u)' = AnswerAt(u)
  BY <1>1, Zenon DEF AnswerAt, Slot
<1>6. \A d \in Clients : Answered(d)' <=> Answered(d)
  BY <1>1, Zenon DEF Answered, Slot
<1>7. Window' /\ Unanswered' /\ Groups'
  BY <1>1, <1>5, Zenon DEF TicketInv, Window, Unanswered, Groups
<1>8. RequestSequences'
  BY <1>1, <1>3, <1>4, Zenon DEF TicketInv, RequestSequences, Pushed, Slot
<1>9. Owners'
  BY <1>1, <1>4, <1>5, <1>6, Zenon DEF TicketInv, Owners, Holding
<1>10. Popped'
  BY <1>1, <1>4, <1>6, Zenon DEF TicketInv, Popped
<1>11. Contents'
  <2>1. ASSUME NEW d \in Clients, d # c,
               pc'[d] = "written" \/ (pc'[d] \in Holding /\ consumer' <= ticket'[d])
        PROVE  request'[Slot(ticket[d])].client = d
    <3>1. Holds(d) /\ Holds(c) /\ Writing(c)
      BY <1>1, <1>4, <2>1, Zenon DEF Holds, Writing
    <3>2. ticket[d] # t /\ Near(t, ticket[d])
      BY <1>2, <2>1, <3>1, CapacityAssumption DEF TicketInv, Owners, Near, t
    <3>3. request'[Slot(ticket[d])] = request[Slot(ticket[d])]
      BY <1>2, <1>3, <3>2, Zenon
    <3> QED
      BY <1>1, <1>4, <2>1, <3>3, Zenon DEF TicketInv, Contents
  <2>2. \A d \in Clients :
          pc'[d] = "written" \/ (pc'[d] \in Holding /\ consumer' <= ticket'[d])
            => request'[Slot(ticket[d])'].client = d
    BY <1>1, <1>3, <2>1, Zenon DEF t, Slot
  <2> QED
    BY <1>1, <1>4, <1>5, <1>6, <2>2, Zenon DEF TicketInv, Contents
<1> QED
  BY <1>7, <1>8, <1>9, <1>10, <1>11, Zenon DEF TicketInv

(* The client releases its slot to the dispatcher.                         *)
LEMMA ReleaseKeeps ==
  ASSUME TypeOK, TicketInv, NEW c \in Clients, ReleaseRequest(c)
  PROVE  TicketInv'
<1> DEFINE t == ticket[c]
<1>1. /\ UNCHANGED <<producer, consumer, completion, ticket, daemon, groups>>
      /\ pc[c] = "written" /\ pc'[c] = "stored"
      /\ \A d \in Clients \ {c} : pc'[d] = pc[d]
      /\ request' = [request EXCEPT ![Slot(t)].sequence = t + 1]
  BY Zenon DEF ReleaseRequest, Goto, TypeOK, daemonVars
<1>2. /\ producer \in Nat /\ consumer \in Nat /\ \A d \in Clients : ticket[d] \in Nat
      /\ request \in SlotsType /\ t \in Nat /\ t + 1 \in Nat
  BY DEF TypeOK, SlotsType
<1>3. /\ consumer <= t /\ t < producer
      /\ \A d \in Clients : Holds(d) /\ d # c => ticket[d] # t
      /\ \A d \in Clients : Holds(d) => Near(t, ticket[d])
  BY <1>1, <1>2, CapacityAssumption DEF TicketInv, Owners, Holds, Writing, Near
<1> HIDE DEF t
<1>4. /\ request'[Slot(t)].sequence = t + 1
      /\ request'[Slot(t)].client = request[Slot(t)].client
      /\ \A u \in Nat : u # t /\ Near(t, u) => request'[Slot(u)] = request[Slot(u)]
  BY <1>1, <1>2, SequenceStored
<1>5. /\ \A d \in Clients : Holds(d)' <=> Holds(d)
      /\ \A d \in Clients : Writing(d)' <=> Writing(d) /\ d # c
      /\ \A d \in Clients : pc'[d] \in Holding <=> pc[d] \in Holding \/ d = c
      /\ \A d \in Clients : Writing(d) => Holds(d)
      /\ Writing(c) /\ Holds(c)
  BY <1>1, Zenon DEF Holds, Writing, Holding
<1>6. \A u : AnswerAt(u)' = AnswerAt(u)
  BY <1>1, Zenon DEF AnswerAt, Slot
<1>7. \A d \in Clients : Answered(d)' <=> Answered(d)
  BY <1>1, Zenon DEF Answered, Slot
<1>8. AnswerAt(t).sequence = t
  BY <1>2, <1>3, Zenon DEF TicketInv, Unanswered
<1>9. Window' /\ Unanswered' /\ Groups'
  BY <1>1, <1>6, Zenon DEF TicketInv, Window, Unanswered, Groups
<1>10. RequestSequences'
  <2> SUFFICES ASSUME NEW u \in Nat, consumer <= u, u < consumer + Capacity
               PROVE  request'[Slot(u)].sequence = IF Pushed(u)' THEN u + 1 ELSE u
    BY <1>1, Zenon DEF RequestSequences, Slot
  <2>1. request[Slot(u)].sequence = IF Pushed(u) THEN u + 1 ELSE u
    BY Zenon DEF TicketInv, RequestSequences
  <2>2. CASE u = t
    <3>1. Pushed(u)'
      BY <1>1, <1>2, <1>3, <1>5, <2>2, Zenon DEF Pushed
    <3> QED
      BY <1>4, <2>2, <3>1, Zenon
  <2>3. CASE u # t
    <3>1. Near(t, u)
      BY <1>2, <1>3, CapacityAssumption DEF TicketInv, Window, Near
    <3>2. Pushed(u)' <=> Pushed(u)
      BY <1>1, <1>5, <2>3, Zenon DEF Pushed, t
    <3> QED
      BY <1>4, <2>1, <2>3, <3>1, <3>2, Zenon
  <2> QED
    BY <2>2, <2>3, Zenon
<1>11. Owners'
  BY <1>1, <1>5, <1>6, <1>7, Zenon DEF TicketInv, Owners, Holding
<1>12. Popped'
  BY <1>1, <1>2, <1>3, <1>5, <1>7 DEF TicketInv, Popped, t
<1>13. Contents'
  <2>1. ASSUME NEW d \in Clients,
               pc'[d] = "written" \/ (pc'[d] \in Holding /\ consumer' <= ticket'[d])
        PROVE  request'[Slot(ticket[d])].client = d
    <3>1. CASE d = c
      BY <1>1, <1>4, <3>1, Zenon DEF TicketInv, Contents, t
    <3>2. CASE d # c
      <4>1. Holds(d)
        BY <1>1, <2>1, <3>2, Zenon DEF Holds, Writing
      <4>2. request'[Slot(ticket[d])] = request[Slot(ticket[d])]
        BY <1>2, <1>3, <1>4, <3>2, <4>1, Zenon
      <4> QED
        BY <1>1, <2>1, <3>2, <4>2, Zenon DEF TicketInv, Contents
    <3> QED
      BY <3>1, <3>2, Zenon
  <2>2. \A d \in Clients, g \in groups' :
          pc'[d] \in Holding /\ g.ticket = ticket'[d] => g.client = d
    <3>1. \A g \in groups : g.ticket # t
      BY <1>2, <1>3 DEF TicketInv, Groups, TypeOK
    <3> QED
      BY <1>1, <1>5, <3>1, Zenon DEF TicketInv, Contents, t
  <2>3. \A d \in Clients :
          pc'[d] \in Holding /\ Answered(d)' => AnswerAt(ticket[d])'.client = d
    <3>1. ~Answered(c)
      BY <1>2, <1>8 DEF Answered, AnswerAt, t
    <3> QED
      BY <1>1, <1>5, <1>6, <1>7, <3>1, Zenon DEF TicketInv, Contents
  <2> QED
    BY <1>1, <2>1, <2>2, <2>3, Zenon DEF Contents, Slot
<1> QED
  BY <1>9, <1>10, <1>11, <1>12, <1>13, Zenon DEF TicketInv

(* The client frees the completion slot it has read for the next lap.      *)
LEMMA ConsumeKeeps ==
  ASSUME TypeOK, TicketInv, NEW c \in Clients, ConsumeCompletion(c)
  PROVE  TicketInv'
<1> DEFINE t == ticket[c]
<1>1. /\ UNCHANGED <<producer, consumer, request, daemon, groups>>
      /\ pc[c] = "reading" /\ pc'[c] = "idle"
      /\ \A d \in Clients \ {c} : pc'[d] = pc[d] /\ ticket'[d] = ticket[d]
      /\ completion' = [completion EXCEPT ![Slot(t)].sequence = t + Capacity]
  BY Zenon DEF ConsumeCompletion, Return, Goto, TypeOK, daemonVars
<1>2. /\ producer \in Nat /\ consumer \in Nat /\ \A d \in Clients : ticket[d] \in Nat
      /\ completion \in SlotsType /\ t \in Nat /\ t + Capacity \in Nat
      /\ \A g \in groups : g.ticket \in Nat
  BY CapacityAssumption DEF TypeOK, SlotsType
<1>3. /\ t < producer /\ producer <= t + Capacity
      /\ \A d \in Clients : Holds(d) /\ d # c => ticket[d] # t
      /\ \A d \in Clients : Holds(d) => Near(t, ticket[d])
      /\ AnswerAt(t).sequence = t + 1
  BY <1>1, <1>2, CapacityAssumption, SMTT(30)
     DEF TicketInv, Owners, Holds, Holding, Near, Answered, AnswerAt
<1> HIDE DEF t
<1>4. \A u \in Nat : u # t /\ Near(t, u) => AnswerAt(u)' = AnswerAt(u)
  <2>1. \A u \in Nat : u # t /\ Near(t, u) => completion'[Slot(u)] = completion[Slot(u)]
    BY <1>1, <1>2, SequenceStored
  <2> QED
    BY <2>1, Zenon DEF AnswerAt, Slot
<1>5. \A d \in Clients : Holds(d)' =>
        /\ Holds(d) /\ d # c /\ pc'[d] = pc[d] /\ ticket'[d] = ticket[d]
        /\ AnswerAt(ticket[d])' = AnswerAt(ticket[d])
  <2>1. \A d \in Clients : Holds(d)' => Holds(d) /\ d # c
    BY <1>1, Zenon DEF Holds, Writing, Holding
  <2>2. \A d \in Clients : Holds(d)' =>
          ticket'[d] = ticket[d] /\ completion'[Slot(ticket[d])] = completion[Slot(ticket[d])]
    BY <1>1, <1>2, <1>3, <2>1, SequenceStored
  <2> QED
    BY <1>1, <2>1, <2>2, Zenon DEF AnswerAt, Slot
<1>6. \A d \in Clients : Holds(d)' => (Answered(d)' <=> Answered(d))
  BY <1>5, Zenon DEF Answered, AnswerAt
<1>7. /\ \A d \in Clients : Writing(d)' <=> Writing(d)
      /\ \A d \in Clients : Writing(d)' => Holds(d)'
      /\ \A d \in Clients : pc'[d] \in Holding => Holds(d)'
  BY <1>1, Zenon DEF Holds, Writing, Holding
<1>8. \A g \in groups : AnswerAt(g.ticket)' = AnswerAt(g.ticket)
  <2> SUFFICES ASSUME NEW g \in groups PROVE AnswerAt(g.ticket)' = AnswerAt(g.ticket)
    BY Zenon
  <2>1. g.ticket # t
    BY <1>2, <1>3 DEF TicketInv, Groups
  <2>2. Near(t, g.ticket)
    BY <1>2, <1>3, CapacityAssumption DEF TicketInv, Groups, Window, Near
  <2> QED
    BY <1>2, <1>4, <2>1, <2>2, Zenon
<1>9. Window'
  BY <1>1, Zenon DEF TicketInv, Window
<1>10. RequestSequences'
  BY <1>1, <1>5, <1>7 DEF TicketInv, RequestSequences, Pushed, Slot
<1>11. Unanswered'
  <2> SUFFICES ASSUME NEW u \in Nat, consumer <= u, u < producer
               PROVE  AnswerAt(u)'.sequence = u
    BY <1>1, Zenon DEF Unanswered
  <2>1. AnswerAt(u).sequence = u
    BY Zenon DEF TicketInv, Unanswered
  <2>2. u # t /\ Near(t, u)
    BY <1>2, <1>3, <2>1, CapacityAssumption DEF TicketInv, Window, Near
  <2> QED
    BY <1>4, <2>1, <2>2, Zenon
<1>12. Owners'
  BY <1>1, <1>5, <1>6, <1>7, Zenon DEF TicketInv, Owners, Holding
<1>13. Groups'
  BY <1>1, <1>8, Zenon DEF TicketInv, Groups
<1>14. Popped'
  BY <1>1, <1>5, <1>6, <1>7, Zenon DEF TicketInv, Popped
<1>15. Contents'
  BY <1>1, <1>5, <1>6, <1>7 DEF TicketInv, Contents, Writing, Slot
<1> QED
  BY <1>9, <1>10, <1>11, <1>12, <1>13, <1>14, <1>15, Zenon DEF TicketInv

(***************************************************************************)
(* The dispatcher.                                                         *)
(***************************************************************************)
(* The dispatcher pops the request at the consumer's head.                 *)
LEMMA TakeKeeps ==
  ASSUME TypeOK, TicketInv, NEW left \in 0..MaxActions, TakeRequest(left),
         UNCHANGED <<pc, ticket>>, daemon # "dead"
  PROVE  TicketInv'
<1> DEFINE t == consumer
           new == [ticket |-> consumer, client |-> request[Slot(consumer)].client,
                   left |-> left]
<1>1. /\ UNCHANGED <<producer, completion, pc, ticket>>
      /\ consumer' = t + 1
      /\ groups' = groups \cup {new}
      /\ request' = [request EXCEPT ![Slot(t)].sequence = t + Capacity]
      /\ request[Slot(t)].sequence = t + 1
      /\ new.ticket = t /\ new.client = request[Slot(t)].client
  BY Zenon DEF TakeRequest, Queued
<1>2. /\ producer \in Nat /\ t \in Nat /\ t + Capacity \in Nat /\ t + 1 \in Nat
      /\ \A d \in Clients : ticket[d] \in Nat
      /\ request \in SlotsType /\ \A g \in groups : g.ticket \in Nat
  BY CapacityAssumption DEF TypeOK, SlotsType
<1>3. t = consumer
  BY Zenon
<1> HIDE DEF t, new
<1>4. /\ request'[Slot(t)].sequence = t + Capacity
      /\ \A u \in Nat : u # t /\ Near(t, u) => request'[Slot(u)] = request[Slot(u)]
  BY <1>1, <1>2, SequenceStored
<1>5. Pushed(t)
  BY <1>1, <1>2, <1>3, CapacityAssumption DEF TicketInv, RequestSequences
<1>6. /\ \A d \in Clients : Holds(d)' <=> Holds(d)
      /\ \A d \in Clients : Writing(d)' <=> Writing(d)
      /\ \A d \in Clients : Answered(d)' <=> Answered(d)
      /\ \A u : AnswerAt(u)' = AnswerAt(u)
      /\ \A d \in Clients : Writing(d) => Holds(d)
      /\ \A d \in Clients : pc[d] \in Holding => Holds(d)
  BY <1>1, Zenon DEF Holds, Writing, Answered, AnswerAt, Slot
<1>7. Window'
  BY <1>1, <1>2, <1>3, <1>5, CapacityAssumption DEF TicketInv, Window, Pushed
<1>8. RequestSequences'
  <2> SUFFICES ASSUME NEW u \in Nat, t + 1 <= u, u < t + 1 + Capacity
               PROVE  request'[Slot(u)].sequence = IF Pushed(u) THEN u + 1 ELSE u
    BY <1>1, <1>6 DEF RequestSequences, Pushed, Slot
  <2>1. CASE u = t + Capacity
    <3>1. Slot(u) = Slot(t) /\ ~Pushed(u)
      BY <1>2, <1>3, <2>1, SlotWraps DEF TicketInv, Window, Pushed
    <3> QED
      BY <1>4, <2>1, <3>1, Zenon
  <2>2. CASE u # t + Capacity
    <3>1. u < t + Capacity /\ t <= u /\ u # t /\ Near(t, u)
      BY <1>2, <2>2, CapacityAssumption DEF Near
    <3> QED
      BY <1>3, <1>4, <3>1, Zenon DEF TicketInv, RequestSequences
  <2> QED
    BY <2>1, <2>2, Zenon
<1>9. Unanswered'
  BY <1>1, <1>2, <1>3, <1>6 DEF TicketInv, Unanswered
<1>10. Owners'
  <2>1. \A d \in Clients : Writing(d) => t + 1 <= ticket[d]
    BY <1>2, <1>3, <1>5 DEF TicketInv, Owners, Pushed
  <2> QED
    BY <1>1, <1>6, <2>1, Zenon DEF TicketInv, Owners
<1>11. Groups'
  <2>1. AnswerAt(t).sequence = t
    BY <1>2, <1>3, <1>5 DEF TicketInv, Unanswered, Pushed
  <2>2. \A g \in groups' :
          /\ g.ticket < t + 1 /\ producer <= g.ticket + Capacity
          /\ AnswerAt(g.ticket).sequence = g.ticket
    BY <1>1, <1>2, <1>3, <2>1 DEF TicketInv, Groups, Window
  <2>3. \A g, h \in groups' : g.ticket = h.ticket => g = h
    BY <1>1, <1>2, <1>3 DEF TicketInv, Groups
  <2> QED
    BY <1>1, <1>6, <2>2, <2>3, Zenon DEF Groups
<1>12. Popped'
  <2> SUFFICES ASSUME NEW d \in Clients, pc[d] \in Holding,
                      ticket[d] < t + 1, ~Answered(d)
               PROVE  \E g \in groups' : g.ticket = ticket[d]
    BY <1>1, <1>6, Zenon DEF Popped
  <2>1. CASE ticket[d] = t
    BY <1>1, <2>1, Zenon
  <2>2. CASE ticket[d] # t
    <3>1. ticket[d] < consumer
      BY <1>2, <1>3, <2>2, SMTT(30)
    <3> QED
      BY <1>1, <3>1, Zenon DEF TicketInv, Popped
  <2> QED
    BY <2>1, <2>2, Zenon
<1>13. Contents'
  <2>1. ASSUME NEW d \in Clients,
               pc[d] = "written" \/ (pc[d] \in Holding /\ t + 1 <= ticket[d])
        PROVE  request'[Slot(ticket[d])].client = d
    <3>1. Holds(d) /\ t <= ticket[d] /\ ticket[d] # t
      BY <1>2, <1>3, <1>5, <2>1, SMTT(30) DEF TicketInv, Owners, Pushed, Holds, Writing
    <3>2. Near(t, ticket[d])
      BY <1>2, <1>3, <3>1, CapacityAssumption DEF TicketInv, Owners, Window, Near
    <3>3. request'[Slot(ticket[d])] = request[Slot(ticket[d])]
      BY <1>2, <1>4, <3>1, <3>2, Zenon
    <3> QED
      BY <1>3, <2>1, <3>1, <3>3, Zenon DEF TicketInv, Contents
  <2>2. \A d \in Clients, g \in groups' :
          pc[d] \in Holding /\ g.ticket = ticket[d] => g.client = d
    BY <1>1, <1>2, <1>3 DEF TicketInv, Contents
  <2> QED
    BY <1>1, <1>6, <2>1, <2>2, SMTT(30) DEF TicketInv, Contents, Slot
<1> QED
  BY <1>7, <1>8, <1>9, <1>10, <1>11, <1>12, <1>13, Zenon DEF TicketInv

(* The dispatcher publishes the completion of a group and erases it.       *)
LEMMA PublishKeeps ==
  ASSUME TypeOK, TicketInv, NEW g \in groups, Publish(g), groups' = groups \ {g},
         UNCHANGED <<producer, consumer, request, pc, ticket>>,
         daemon # "dead"
  PROVE  TicketInv'
<1> DEFINE t == g.ticket
<1>1. /\ producer \in Nat /\ consumer \in Nat /\ t \in Nat
      /\ \A d \in Clients : ticket[d] \in Nat
      /\ completion \in SlotsType /\ \A h \in groups : h.ticket \in Nat
  BY Zenon DEF TypeOK, SlotsType
<1>2. /\ t < consumer /\ producer <= t + Capacity
      /\ AnswerAt(t).sequence = t
      /\ \A h \in groups : h # g => h.ticket # t
  BY Zenon DEF TicketInv, Groups
<1>3. /\ completion'[Slot(t)].sequence = t + 1
      /\ completion'[Slot(t)].client = g.client
      /\ \A u \in Nat : u # t /\ Near(t, u) => completion'[Slot(u)] = completion[Slot(u)]
  <2>1. \A u \in Nat : u # t /\ Near(t, u) => Slot(u) # Slot(t)
    BY <1>1, SlotsApart, Zenon
  <2> QED
    BY <1>1, <2>1, SlotType, Zenon DEF Publish, SlotsType
<1> HIDE DEF t
<1>4. \A u \in Nat : u # t /\ Near(t, u) => AnswerAt(u)' = AnswerAt(u)
  BY <1>3, Zenon DEF AnswerAt, Slot
<1>5. /\ \A d \in Clients : Holds(d)' <=> Holds(d)
      /\ \A d \in Clients : Writing(d)' <=> Writing(d)
      /\ \A d \in Clients : pc[d] \in Holding => Holds(d)
  BY Zenon DEF Holds, Writing
<1>6. \A d \in Clients : Holds(d) =>
        /\ Near(t, ticket[d])
        /\ ticket[d] # t => AnswerAt(ticket[d])' = AnswerAt(ticket[d])
  <2>1. \A d \in Clients : Holds(d) => Near(t, ticket[d])
    BY <1>1, <1>2, CapacityAssumption DEF TicketInv, Owners, Window, Near
  <2>2. \A d \in Clients : Holds(d) /\ ticket[d] # t =>
          completion'[Slot(ticket[d])] = completion[Slot(ticket[d])]
    BY <1>1, <1>3, <2>1, Zenon
  <2> QED
    BY <2>1, <2>2, Zenon DEF AnswerAt, Slot
<1>7. /\ \A d \in Clients : Holds(d) /\ ticket[d] # t => (Answered(d)' <=> Answered(d))
      /\ \A d \in Clients : ticket[d] = t =>
           Answered(d)' /\ ~Answered(d) /\ AnswerAt(ticket[d])'.client = g.client
  <2>1. \A d \in Clients : Holds(d) /\ ticket[d] # t => (Answered(d)' <=> Answered(d))
    BY <1>6, Zenon DEF Answered, AnswerAt
  <2>2. \A d \in Clients : ticket[d] = t =>
          Answered(d)' /\ AnswerAt(ticket[d])'.client = g.client
    BY <1>3, Zenon DEF Answered, AnswerAt, Slot
  <2>3. \A d \in Clients : ticket[d] = t => ~Answered(d)
    BY <1>1, <1>2, SMTT(30) DEF Answered, AnswerAt
  <2> QED
    BY <2>1, <2>2, <2>3, Zenon
<1>8. Window' /\ RequestSequences'
  BY <1>5, Zenon DEF TicketInv, Window, RequestSequences, Pushed, Slot
<1>9. Unanswered'
  <2> SUFFICES ASSUME NEW u \in Nat, consumer <= u, u < producer
               PROVE  AnswerAt(u)'.sequence = u
    BY Zenon DEF Unanswered
  <2>1. u # t /\ Near(t, u)
    BY <1>1, <1>2, CapacityAssumption DEF TicketInv, Window, Near
  <2> QED
    BY <1>4, <2>1, Zenon DEF TicketInv, Unanswered
<1>10. Owners'
  <2>1. \A d \in Clients : Holds(d) =>
          AnswerAt(ticket[d])'.sequence \in {ticket[d], ticket[d] + 1}
    <3>1. \A d \in Clients : Answered(d)' => AnswerAt(ticket[d])'.sequence = ticket[d] + 1
      BY Zenon DEF Answered, AnswerAt
    <3> QED
      BY <1>6, <1>7, <3>1, Zenon DEF TicketInv, Owners
  <2>2. \A d \in Clients : pc[d] = "reading" => Answered(d)'
    BY <1>5, <1>7, Zenon DEF TicketInv, Owners, Holding
  <2> QED
    BY <1>5, <2>1, <2>2, Zenon DEF TicketInv, Owners
<1>11. Groups'
  <2>1. ASSUME NEW h \in groups, h # g
        PROVE  AnswerAt(h.ticket)' = AnswerAt(h.ticket)
    <3>1. h.ticket # t
      BY <1>2, <2>1, Zenon
    <3>2. Near(t, h.ticket)
      BY <1>1, <1>2, CapacityAssumption DEF TicketInv, Groups, Window, Near
    <3> QED
      BY <1>1, <1>4, <3>1, <3>2, Zenon
  <2> QED
    BY <2>1, Zenon DEF TicketInv, Groups
<1>12. Popped'
  <2> SUFFICES ASSUME NEW d \in Clients, pc[d] \in Holding,
                      ticket[d] < consumer, ~Answered(d)'
               PROVE  \E h \in groups' : h.ticket = ticket[d]
    BY Zenon DEF Popped
  <2>1. ticket[d] # t /\ ~Answered(d)
    BY <1>5, <1>7, Zenon
  <2>2. PICK h \in groups : h.ticket = ticket[d]
    BY <2>1, Zenon DEF TicketInv, Popped
  <2> QED
    BY <2>1, <2>2, Zenon DEF t
<1>13. Contents'
  <2>1. ASSUME NEW d \in Clients, pc[d] \in Holding, Answered(d)'
        PROVE  AnswerAt(ticket[d])'.client = d
    <3>1. CASE ticket[d] = t
      BY <1>7, <2>1, <3>1, Zenon DEF TicketInv, Contents, t
    <3>2. CASE ticket[d] # t
      BY <1>5, <1>6, <1>7, <2>1, <3>2, Zenon DEF TicketInv, Contents
    <3> QED
      BY <3>1, <3>2, Zenon
  <2> QED
    BY <2>1, Zenon DEF TicketInv, Contents, Slot
<1> QED
  BY <1>8, <1>9, <1>10, <1>11, <1>12, <1>13, Zenon DEF TicketInv

(* The current action of a group completes: only its count changes.        *)
LEMMA ActionKeeps ==
  ASSUME TypeOK, TicketInv, NEW g \in groups, ActionCompletes(g)
  PROVE  TicketInv'
<1> DEFINE n == [g EXCEPT !.left = @ - 1]
<1>1. /\ UNCHANGED <<producer, consumer, request, completion, pc, ticket, daemon>>
      /\ groups' = (groups \ {g}) \cup {n}
  BY Zenon DEF ActionCompletes, ringVars, clientVars
<1>2. n.ticket = g.ticket /\ n.client = g.client
  BY Zenon DEF TypeOK
<1> HIDE DEF n
<1>3. /\ \A h \in groups' : \E k \in groups :
           h.ticket = k.ticket /\ h.client = k.client /\ (h = n <=> k = g) /\ (h # n => h = k)
      /\ \A k \in groups : \E h \in groups' : h.ticket = k.ticket
  <2>1. \A h \in groups' : h # n => h # g /\ h \in groups
    BY <1>1, Zenon
  <2> QED
    BY <1>1, <1>2, <2>1, Zenon
<1>4. Window' /\ RequestSequences' /\ Unanswered' /\ Owners'
  BY <1>1, Zenon
     DEF TicketInv, Window, RequestSequences, Pushed, Writing, Unanswered, Owners,
     Holds, AnswerAt, Answered, Slot
<1>5. Groups'
  <2>1. \A h \in groups' :
          /\ h.ticket < consumer /\ producer <= h.ticket + Capacity
          /\ AnswerAt(h.ticket).sequence = h.ticket
    BY <1>3 DEF TicketInv, Groups
  <2>2. ASSUME NEW h \in groups', NEW k \in groups', h.ticket = k.ticket
        PROVE  h = k
    BY <1>3, <2>2, SMTT(30) DEF TicketInv, Groups
  <2> QED
    BY <1>1, <2>1, <2>2, Zenon DEF Groups, AnswerAt, Slot
<1>6. Popped'
  <2>1. \A d \in Clients : Answered(d)' <=> Answered(d)
    BY <1>1, Zenon DEF Answered, Slot
  <2> QED
    BY <1>1, <1>3, <2>1 DEF TicketInv, Popped
<1>7. Contents'
  <2>1. \A d \in Clients, h \in groups' :
          pc[d] \in Holding /\ h.ticket = ticket[d] => h.client = d
    BY <1>3 DEF TicketInv, Contents
  <2>2. \A d \in Clients : Answered(d)' <=> Answered(d)
    BY <1>1, Zenon DEF Answered, Slot
  <2> QED
    BY <1>1, <2>1, <2>2, Zenon DEF TicketInv, Contents, AnswerAt, Slot
<1> QED
  BY <1>4, <1>5, <1>6, <1>7, Zenon DEF TicketInv

(* A step that leaves the ring, the groups and the clients alone, and from *)
(* which a dead daemon does not come back.                                 *)
LEMMA RestKeeps ==
  ASSUME TicketInv, UNCHANGED <<producer, consumer, request, completion, pc, ticket>>,
         \/ UNCHANGED groups /\ (daemon = "dead" => daemon' = "dead")
         \/ groups' = {} /\ daemon' = "dead"
  PROVE  TicketInv'
<1>1. Window' /\ RequestSequences' /\ Unanswered' /\ Owners'
  BY Zenon DEF TicketInv, Window, RequestSequences, Pushed, Writing, Unanswered, Owners,
     Holds, AnswerAt, Answered, Slot
<1>2. Groups'
  BY Zenon DEF TicketInv, Groups, AnswerAt, Slot
<1>3. Popped'
  BY Zenon DEF TicketInv, Popped, Answered, Slot
<1>4. Contents'
  BY Zenon DEF TicketInv, Contents, Answered, AnswerAt, Slot
<1> QED
  BY <1>1, <1>2, <1>3, <1>4, Zenon DEF TicketInv

(* A completion slot always awaits the answer of the group that publishes  *)
(* to it, so the dispatcher's publication never finds it taken.            *)
LEMMA GroupsCanPublish == ASSUME TicketInv, NEW g \in groups PROVE CanPublish(g)
BY Zenon DEF TicketInv, Groups, AnswerAt, CanPublish

(* One step per action of the daemon: tickets are kept.                    *)
LEMMA DaemonTickets ==
  ASSUME TypeOK, TicketInv, DaemonAction
  PROVE  TicketInv'
<1>1. CASE \/ SubmitPrepared \/ RunEngine \/ EngineFails \/ CloseAdmission
           \/ Quiesced \/ Drained \/ RaiseFault
  <2>1. /\ UNCHANGED <<producer, consumer, request, completion, pc, ticket, groups>>
        /\ daemon # "dead"
    BY <1>1, Zenon DEF SubmitPrepared, RunEngine, EngineFails, CloseAdmission, Quiesced,
       Drained, RaiseFault, ringVars, clientVars
  <2> QED
    BY <2>1, RestKeeps, Zenon
<1>2. CASE DaemonDies
  <2>1. /\ UNCHANGED <<producer, consumer, request, completion, pc, ticket>>
        /\ groups' = {} /\ daemon' = "dead"
    BY <1>2, Zenon DEF DaemonDies, ringVars, clientVars
  <2> QED
    BY <2>1, RestKeeps, Zenon
<1>3. CASE PopRequest
  BY <1>3, TakeKeeps, Zenon DEF PopRequest, clientVars
<1>4. CASE DrainRequest
  <2>1. TakeRequest(0) /\ 0 \in 0..MaxActions /\ UNCHANGED <<pc, ticket>> /\ daemon # "dead"
    BY <1>4 DEF DrainRequest, MaxActions, clientVars
  <2> QED
    BY <2>1, TakeKeeps, Zenon
<1>5. CASE AnswerPrepared
  <2>1. PICK g \in groups :
          /\ CanPublish(g) => Publish(g) /\ groups' = groups \ {g}
          /\ UNCHANGED <<producer, consumer, request, pc, ticket>> /\ daemon # "dead"
    BY <1>5, Zenon DEF AnswerPrepared, Newest, clientVars
  <2> QED
    BY <2>1, GroupsCanPublish, PublishKeeps, Zenon
<1>6. ASSUME NEW g \in groups, ActionCompletes(g) PROVE TicketInv'
  BY <1>6, ActionKeeps, Zenon
<1>7. ASSUME NEW g \in groups, GroupCompletes(g) \/ FailGroup(g) PROVE TicketInv'
  <2>1. /\ CanPublish(g) => Publish(g) /\ groups' = groups \ {g}
        /\ UNCHANGED <<producer, consumer, request, pc, ticket>> /\ daemon # "dead"
    BY <1>7, Zenon DEF GroupCompletes, FailGroup, clientVars
  <2> QED
    BY <2>1, GroupsCanPublish, PublishKeeps, Zenon
<1> QED
  BY <1>1, <1>2, <1>3, <1>4, <1>5, <1>6, <1>7, Zenon
     DEF DaemonAction, DispatchStep, FailStep

(* The invariant is inductive.                                             *)
LEMMA TicketInvStep == TypeOK /\ TicketInv /\ [Next]_vars => TicketInv'
<1> SUFFICES ASSUME TypeOK, TicketInv, [Next]_vars PROVE TicketInv'
  BY Zenon
<1>1. ASSUME NEW c \in Clients, ClientAction(c) PROVE TicketInv'
  BY <1>1, ClientDrifts, DriftKeeps, ClaimKeeps, WriteKeeps, ReleaseKeeps, ConsumeKeeps, Zenon
<1>2. CASE DaemonAction
  BY <1>2, DaemonTickets, Zenon
<1>3. CASE UNCHANGED vars
  <2>1. UNCHANGED <<producer, consumer, request, completion, pc, ticket, groups, daemon>>
    BY <1>3, Zenon DEF vars, ringVars, clientVars, daemonVars
  <2> QED
    BY <2>1, RestKeeps, Zenon
<1> QED
  BY <1>1, <1>2, <1>3, NextSplits, Zenon

(* The invariant holds of a fresh control region, whose slots expect the   *)
(* tickets of the first lap.                                               *)
LEMMA TicketInvInit == Init => TicketInv
<1> SUFFICES ASSUME Init PROVE TicketInv
  BY Zenon
<1>1. /\ producer = 0 /\ consumer = 0 /\ groups = {} /\ \A c \in Clients : pc[c] = "idle"
      /\ \A i \in 0..(Capacity - 1) : request[i].sequence = i
  BY Zenon DEF Init
<1>2. \A t \in Nat : t < Capacity => Slot(t) = t
  BY CapacityAssumption DEF Slot
<1>3. \A c \in Clients : ~Holds(c) /\ ~Writing(c) /\ pc[c] \notin Holding /\ pc[c] # "reading"
                         /\ pc[c] # "written"
  BY <1>1, Zenon DEF Holds, Writing, Holding
<1>4. Window /\ Unanswered /\ Owners /\ Groups /\ Popped /\ Contents
  BY <1>1, <1>3, CapacityAssumption, SMTT(30)
     DEF Window, Unanswered, Owners, Groups, Popped, Contents
<1>5. RequestSequences
  <2> SUFFICES ASSUME NEW t \in Nat, t < Capacity
               PROVE  request[Slot(t)].sequence = IF Pushed(t) THEN t + 1 ELSE t
    BY <1>1, CapacityAssumption DEF RequestSequences
  <2>1. ~Pushed(t) /\ t \in 0..(Capacity - 1)
    BY <1>1, CapacityAssumption DEF Pushed
  <2> QED
    BY <1>1, <1>2, <2>1, Zenon
<1> QED
  BY <1>4, <1>5, Zenon DEF TicketInv

(* The invariant always holds.                                             *)
LEMMA TicketInvAlways == Spec => []TicketInv
<1>1. QuietInv => TypeOK
  BY Zenon DEF QuietInv
<1> QED
  BY <1>1, QuietInvAlways, TicketInvInit, TicketInvStep, PTL DEF Spec

(***************************************************************************)
(* The properties.                                                         *)
(***************************************************************************)
(* A set that has exactly one of three elements has one element.           *)
LEMMA OneOfThree ==
  ASSUME NEW p \in BOOLEAN, NEW q \in BOOLEAN, NEW r \in BOOLEAN,
         \/ p /\ ~q /\ ~r
         \/ ~p /\ q /\ ~r
         \/ ~p /\ ~q /\ r
  PROVE  Cardinality({h \in {<<"queued", p>>, <<"grouped", q>>, <<"answered", r>>} : h[2]}) = 1
<1> DEFINE S == {h \in {<<"queued", p>>, <<"grouped", q>>, <<"answered", r>>} : h[2]}
<1>1. /\ <<"queued", p>>[2] = p /\ <<"grouped", q>>[2] = q /\ <<"answered", r>>[2] = r
  BY Zenon
<1>2. \E x : S = {x}
  <2>1. CASE p /\ ~q /\ ~r
    <3>1. S = {<<"queued", p>>}
      BY <1>1, <2>1, Zenon
    <3> QED
      BY <3>1, Zenon
  <2>2. CASE ~p /\ q /\ ~r
    <3>1. S = {<<"grouped", q>>}
      BY <1>1, <2>2, Zenon
    <3> QED
      BY <3>1, Zenon
  <2>3. CASE ~p /\ ~q /\ r
    <3>1. S = {<<"answered", r>>}
      BY <1>1, <2>3, Zenon
    <3> QED
      BY <3>1, Zenon
  <2> QED
    BY <2>1, <2>2, <2>3, Zenon
<1>3. Cardinality(S) = 1
  BY <1>2, FS_Singleton, Zenon
<1> QED
  BY <1>3, Zenon

(* While the daemon lives, a held ticket is in exactly one of the ring,    *)
(* the dispatcher's groups and the completion slot.                        *)
LEMMA OneHome ==
  ASSUME TypeOK, TicketInv, daemon # "dead", NEW c \in Clients, pc[c] \in Holding
  PROVE  LET queued  == /\ ticket[c] >= consumer
                        /\ request[Slot(ticket[c])].sequence = ticket[c] + 1
             grouped == \E g \in groups : g.ticket = ticket[c]
         IN  \/ queued /\ ~grouped /\ ~Answered(c)
             \/ ~queued /\ grouped /\ ~Answered(c)
             \/ ~queued /\ ~grouped /\ Answered(c)
<1> DEFINE t == ticket[c]
<1>1. /\ producer \in Nat /\ consumer \in Nat /\ t \in Nat
      /\ \A g \in groups : g.ticket \in Nat
  BY Zenon DEF TypeOK
<1>2. Holds(c) /\ ~Writing(c)
  BY Zenon DEF Holds, Writing, Holding
<1>3. CASE consumer <= t
  <2>1. Pushed(t) /\ t < consumer + Capacity /\ t < producer
    BY <1>1, <1>2, CapacityAssumption, SMTT(30)
       DEF TicketInv, Owners, Holds, Pushed, Window
  <2>2. request[Slot(t)].sequence = t + 1
    BY <1>1, <1>3, <2>1, Zenon DEF TicketInv, RequestSequences
  <2>3. ~Answered(c)
    BY <1>1, <1>3, <2>1 DEF TicketInv, Unanswered, AnswerAt, Answered
  <2>4. \A g \in groups : g.ticket # t
    BY <1>1, <1>3, SMTT(30) DEF TicketInv, Groups
  <2> QED
    BY <1>1, <1>3, <2>2, <2>3, <2>4, Zenon
<1>4. CASE t < consumer
  <2>1. Answered(c) => \A g \in groups : g.ticket # t
    BY <1>1, SMTT(30) DEF TicketInv, Groups, Answered, AnswerAt
  <2>2. ~Answered(c) => \E g \in groups : g.ticket = t
    BY <1>4, Zenon DEF TicketInv, Popped
  <2> QED
    BY <1>1, <1>4, <2>1, <2>2, SMTT(30)
<1> QED
  BY <1>1, <1>3, <1>4

(* No request is lost or answered twice: while the daemon lives, the       *)
(* ticket a client holds is in exactly one of the ring, the dispatcher and *)
(* the completion slot, for any number of clients, any capacity, any       *)
(* number of laps, and with clients that give up and daemons that die.     *)
THEOREM TicketsKept == Spec => []TicketHasOneHome
<1>1. TypeOK /\ TicketInv => TicketHasOneHome
  <2> SUFFICES ASSUME TypeOK, TicketInv PROVE TicketHasOneHome
    BY Zenon
  <2>1. TicketHasOneHome
    <3> SUFFICES ASSUME daemon # "dead", NEW c \in Clients, pc[c] \in Holding
                 PROVE  LET queued  == /\ ticket[c] >= consumer
                                       /\ request[Slot(ticket[c])].sequence = ticket[c] + 1
                            grouped == \E g \in groups : g.ticket = ticket[c]
                        IN  Cardinality({h \in {<<"queued", queued>>, <<"grouped", grouped>>,
                                                <<"answered", Answered(c)>>} : h[2]}) = 1
      BY Zenon DEF TicketHasOneHome
    <3> DEFINE queued  == /\ ticket[c] >= consumer
                          /\ request[Slot(ticket[c])].sequence = ticket[c] + 1
               grouped == \E g \in groups : g.ticket = ticket[c]
               answered == Answered(c)
    <3>1. \/ queued /\ ~grouped /\ ~answered
          \/ ~queued /\ grouped /\ ~answered
          \/ ~queued /\ ~grouped /\ answered
      BY OneHome, Zenon
    <3>2. queued \in BOOLEAN /\ grouped \in BOOLEAN /\ answered \in BOOLEAN
      BY Zenon DEF Answered
    <3>3. ASSUME NEW p \in BOOLEAN, NEW q \in BOOLEAN, NEW r \in BOOLEAN,
                 p = queued, q = grouped, r = answered
          PROVE  Cardinality({h \in {<<"queued", p>>, <<"grouped", q>>, <<"answered", r>>} : h[2]}) = 1
      <4> HIDE DEF queued, grouped, answered
      <4> QED
        BY <3>1, <3>3, OneOfThree, Zenon
    <3> QED
      BY <3>2, <3>3, Zenon
  <2> QED
    BY <2>1, Zenon
<1>2. QuietInv => TypeOK
  BY Zenon DEF QuietInv
<1> QED
  BY <1>1, <1>2, QuietInvAlways, TicketInvAlways, PTL

(* No request is answered to another client: an answer found under a       *)
(* client's ticket is the answer to the request the client made.           *)
THEOREM AnswersKept == Spec => []AnswerIsMine
<1>1. TypeOK /\ TicketInv => AnswerIsMine
  BY Zenon DEF TicketInv, Contents, AnswerIsMine, AnswerAt
<1>2. QuietInv => TypeOK
  BY Zenon DEF QuietInv
<1> QED
  BY <1>1, <1>2, QuietInvAlways, TicketInvAlways, PTL

(* The plain slot payloads have one owner at a time: two clients never     *)
(* write one request slot, the dispatcher never pops a slot that is being  *)
(* written, and never publishes over a completion that is being read.      *)
THEOREM SlotsOwned == Spec => []SlotsHaveOneOwner
<1>1. TypeOK /\ TicketInv => SlotsHaveOneOwner
  <2> SUFFICES ASSUME TypeOK, TicketInv PROVE SlotsHaveOneOwner
    BY Zenon
  <2>1. /\ producer \in Nat /\ consumer \in Nat /\ \A c \in Clients : ticket[c] \in Nat
        /\ \A g \in groups : g.ticket \in Nat
    BY Zenon DEF TypeOK
  <2>2. ASSUME NEW c \in Clients, Writing(c), NEW d \in Clients \ {c}, Writing(d)
        PROVE  Slot(ticket[c]) # Slot(ticket[d])
    <3>1. Near(ticket[c], ticket[d]) /\ ticket[c] # ticket[d]
      BY <2>1, <2>2, CapacityAssumption, SMTT(30) DEF TicketInv, Owners, Holds, Near
    <3> QED
      BY <2>1, <3>1, SlotsApart, Zenon
  <2>3. ASSUME NEW c \in Clients, Writing(c), Slot(consumer) = Slot(ticket[c])
        PROVE  ~Queued
    <3>1. consumer <= ticket[c] /\ ticket[c] < consumer + Capacity
      BY <2>1, <2>3, CapacityAssumption DEF TicketInv, Owners, Holds, Window
    <3>2. ticket[c] = consumer
      BY <2>1, <2>3, <3>1, SlotsApart, CapacityAssumption DEF Near
    <3>3. ~Pushed(consumer)
      BY <2>3, <3>2, Zenon DEF Pushed
    <3> QED
      BY <2>1, <3>3, CapacityAssumption, SMTT(30)
         DEF TicketInv, RequestSequences, Queued
  <2>4. ASSUME NEW c \in Clients, NEW g \in groups, pc[c] = "reading",
               Slot(g.ticket) = Slot(ticket[c])
        PROVE  ~CanPublish(g)
    <3>1. Holds(c) /\ Answered(c)
      BY <2>4, Zenon DEF TicketInv, Owners, Holds, Holding
    <3>2. Near(g.ticket, ticket[c])
      BY <2>1, <3>1, CapacityAssumption DEF TicketInv, Owners, Groups, Window, Near
    <3>3. g.ticket = ticket[c]
      BY <2>1, <2>4, <3>2, SlotsApart, Zenon
    <3> QED
      BY <2>1, <3>1, <3>3, SMTT(30) DEF Answered, CanPublish
  <2> QED
    BY <2>2, <2>3, <2>4, Zenon DEF SlotsHaveOneOwner, Writing
<1>2. QuietInv => TypeOK
  BY Zenon DEF QuietInv
<1> QED
  BY <1>1, <1>2, QuietInvAlways, TicketInvAlways, PTL

(* What fail_all establishes before it raises the fault word: the ring is  *)
(* drained and every group answered; and nobody has seen the word before.  *)
FaultInv ==
  /\ fault = "io" <=> daemon = "faulted"
  /\ daemon = "faulted" => groups = {}
  /\ daemon \in {"failing", "faulted"} => consumer = producer
  /\ \A c \in Clients : observed[c] = "io" => fault = "io"

(* The drain of a quiet ring ends with nothing queued.                     *)
LEMMA DrainedIsEmpty ==
  ASSUME TypeOK, TicketInv, DrainIsQuiet, Drained PROVE consumer = producer
<1>1. producer \in Nat /\ consumer \in Nat
  BY Zenon DEF TypeOK
<1>2. \A c \in Clients : ~Writing(c)
  BY Zenon DEF Drained, DrainIsQuiet, Inside, Writing
<1>3. ~Pushed(consumer)
  BY <1>1, CapacityAssumption DEF TicketInv, RequestSequences, Drained, Queued
<1> QED
  BY <1>1, <1>2, <1>3 DEF TicketInv, Window, Pushed

(* A client's step keeps it: nobody enters a ring that is being failed,    *)
(* and a waiter records the fault word it read.                            *)
LEMMA ClientFault ==
  ASSUME TypeOK, DrainIsQuiet, FaultInv, NEW c \in Clients, ClientAction(c)
  PROVE  FaultInv'
<1>1. UNCHANGED <<daemon, groups, consumer>>
  BY Zenon DEF ClientAction, DeviceStep, HostStep, PushStep, WaitStep, DeviceEnter,
     DeviceRefused, DeviceCheckOpen, DeviceCheckClosed, DeviceFullRetries,
     DeviceFullGivesUp, HostBegin, HostPollsLiveness, HostEnter, HostRefused,
     HostFull, HostTimesOut, Claim, WriteRequest, ReleaseRequest,
     LeaveAdmission, SeesCompletion, ConsumeCompletion, WaitObservesFault,
     AbandonTicket, ringVars, daemonVars
<1>2. daemon \in {"failing", "faulted"} => producer' = producer
  <2>1. CASE Claim(c)
    BY <2>1, Zenon DEF Claim, DrainIsQuiet, Inside
  <2>2. CASE ~Claim(c)
    BY <2>2, Zenon
       DEF ClientAction, DeviceStep, HostStep, PushStep, WaitStep, DeviceEnter,
       DeviceRefused, DeviceCheckOpen, DeviceCheckClosed, DeviceFullRetries,
       DeviceFullGivesUp, HostBegin, HostPollsLiveness, HostEnter, HostRefused,
       HostFull, HostTimesOut, WriteRequest, ReleaseRequest,
       LeaveAdmission, SeesCompletion, ConsumeCompletion, WaitObservesFault,
       AbandonTicket, ringVars, daemonVars
  <2> QED
    BY <2>1, <2>2, Zenon
<1>3. fault' = fault \/ NoteDaemonExit
  BY Zenon DEF ClientAction, DeviceStep, HostStep, PushStep, WaitStep, DeviceEnter,
     DeviceRefused, DeviceCheckOpen, DeviceCheckClosed, DeviceFullRetries,
     DeviceFullGivesUp, HostBegin, HostPollsLiveness, HostEnter, HostRefused,
     HostFull, HostTimesOut, Claim, WriteRequest, ReleaseRequest,
     LeaveAdmission, SeesCompletion, ConsumeCompletion, WaitObservesFault,
     AbandonTicket, ringVars, daemonVars
<1>4. fault' = "io" <=> fault = "io"
  BY <1>3, Zenon DEF NoteDaemonExit
<1>5. \A d \in Clients : observed'[d] = "io" => observed[d] = "io" \/ fault' = "io"
  <2>1. CASE WaitObservesFault(c)
    BY <2>1, Zenon DEF WaitObservesFault, TypeOK
  <2>2. CASE ~WaitObservesFault(c)
    <3>1. observed' = observed \/ observed' = [observed EXCEPT ![c] = "none"]
      BY <2>2, Zenon
         DEF ClientAction, DeviceStep, HostStep, PushStep, WaitStep, DeviceEnter,
         DeviceRefused, DeviceCheckOpen, DeviceCheckClosed, DeviceFullRetries,
         DeviceFullGivesUp, HostBegin, HostPollsLiveness, HostEnter, HostRefused,
         HostFull, HostTimesOut, Claim, WriteRequest, ReleaseRequest,
         LeaveAdmission, SeesCompletion, ConsumeCompletion,
         AbandonTicket, Return
    <3> QED
      BY <3>1, Zenon DEF TypeOK
  <2> QED
    BY <2>1, <2>2, Zenon
<1> QED
  BY <1>1, <1>2, <1>4, <1>5, Zenon DEF FaultInv

(* The daemon raises the fault word only after the drain and the last      *)
(* answer.                                                                 *)
LEMMA DaemonFault ==
  ASSUME TypeOK, TicketInv, DrainIsQuiet, FaultInv, DaemonAction
  PROVE  FaultInv'
<1>1. CASE Drained
  BY <1>1, DrainedIsEmpty, Zenon DEF Drained, FaultInv, ringVars, clientVars
<1>2. CASE RaiseFault
  BY <1>2, Zenon DEF RaiseFault, FaultInv, clientVars
<1>3. ASSUME NEW g \in groups, FailGroup(g) PROVE FaultInv'
  BY <1>3, Zenon DEF FailGroup, FaultInv, clientVars
<1>4. CASE \/ DispatchStep \/ EngineFails \/ CloseAdmission \/ Quiesced
           \/ DrainRequest \/ DaemonDies
  <2>1. /\ daemon # "faulted" /\ daemon' \notin {"failing", "faulted"}
        /\ UNCHANGED <<fault, observed>>
    BY <1>4, Zenon
       DEF DispatchStep, PopRequest, SubmitPrepared, AnswerPrepared, RunEngine,
       ActionCompletes, GroupCompletes, EngineFails, CloseAdmission, Quiesced,
       DrainRequest, TakeRequest, DaemonDies, ringVars, clientVars
  <2> QED
    BY <2>1, Zenon DEF FaultInv
<1> QED
  BY <1>1, <1>2, <1>3, <1>4, Zenon DEF DaemonAction, FailStep

(* The re-check in wait_for_completion is decisive with the shared         *)
(* admission word: a waiter that saw the fault word of fail_all finds its  *)
(* own terminal answer when it looks again.  In GPU-exclusive mode it does *)
(* not hold, since nothing closes the device's word.                       *)
THEOREM RecheckDecides == ASSUME ~GpuExclusive PROVE Spec => []FaultObserverFindsAnswer
<1> DEFINE Inv == QuietInv /\ TicketInv
<1>1. Init => FaultInv
  BY Zenon DEF Init, FaultInv
<1>2. Inv /\ FaultInv /\ [Next]_vars => FaultInv'
  <2> SUFFICES ASSUME Inv, FaultInv, [Next]_vars PROVE FaultInv'
    BY Zenon
  <2>1. TypeOK /\ TicketInv /\ DrainIsQuiet
    BY Zenon DEF QuietInv
  <2>2. ASSUME NEW c \in Clients, ClientAction(c) PROVE FaultInv'
    BY <2>1, <2>2, ClientFault, Zenon
  <2>3. CASE DaemonAction
    BY <2>1, <2>3, DaemonFault, Zenon
  <2>4. CASE UNCHANGED vars
    BY <2>4, Zenon DEF FaultInv, vars, ringVars, clientVars, daemonVars
  <2> QED
    BY <2>2, <2>3, <2>4, NextSplits, Zenon
<1>3. Inv /\ FaultInv => FaultObserverFindsAnswer
  <2> SUFFICES ASSUME Inv, FaultInv, NEW c \in Clients,
                      pc[c] = "recheck", observed[c] = "io"
               PROVE  Answered(c)
    BY Zenon DEF FaultObserverFindsAnswer
  <2>1. daemon = "faulted" /\ groups = {} /\ consumer = producer
    BY Zenon DEF FaultInv
  <2>2. pc[c] \in Holding /\ ticket[c] < consumer
    BY <2>1, Zenon DEF TicketInv, Owners, Holds, Holding
  <2> QED
    BY <2>1, <2>2, Zenon DEF TicketInv, Popped
<1> QED
  BY <1>1, <1>2, <1>3, QuietInvAlways, TicketInvAlways, PTL DEF Spec
=============================================================================
