----------------------- MODULE CapacityHandoffProofs -----------------------
(***************************************************************************)
(* The hand-off is exact for every number of slots and tickets, however    *)
(* often slots are reused: proofs of AnswerIsExact, CopyIsConsistent and   *)
(* OneCompleter of CapacityHandoff.                                        *)
(*                                                                         *)
(* None of the three is inductive.  HandoffInv adds what the code relies   *)
(* on silently: a slot's token always speaks of the slot's owner, the      *)
(* Claimed token belongs to exactly one side, and a slot that is being     *)
(* read cannot be taken back.                                              *)
(***************************************************************************)
EXTENDS CapacityHandoff, TLAPS

Serving == {"waiting", "expired", "claimed", "lost", "releasing", "scrubbing"}
Copied == {"resolving", "resolved", "matched", "claimed", "storing"}
Completing == {"claimed", "storing"}

(* a slot and its token belong to one request *)
SlotInv ==
  \A s \in Slots :
    /\ slot[s].state = "Empty" => slot[s] = EmptySlot
    /\ slot[s].state # "Empty" => /\ slot[s].owner \in Tickets
                                  /\ slot[s].owner < next
                                  /\ Slot(slot[s].owner) = s
                                  /\ slot[s].page = slot[s].owner
    /\ slot[s].token # NoAnswer => slot[s].state # "Empty"
    /\ \A t \in Tickets : slot[s].token \in {Pending(t), Ready(t)} =>
                            slot[s].owner = t

DaemonInv ==
  /\ daemon.pc \in Serving =>
       /\ daemon.ticket \in Tickets
       /\ slot[Mine].state # "Empty" /\ slot[Mine].owner = daemon.ticket
  /\ daemon.pc = "claimed" => slot[Mine].token = Claimed
  /\ daemon.pc = "scrubbing" =>
       slot[Mine].state = "Reclaiming" /\ slot[Mine].token \in Answers
  /\ daemon.answer.status = "Ready" => daemon.answer = Ready(daemon.ticket)

WorkerInv ==
  /\ worker.pc # "scanning" => worker.slot \in Slots
  /\ worker.pc \in {"reading", "copying"} => slot[worker.slot].state = "Reading"
  /\ worker.pc = "copying" => slot[worker.slot].owner = worker.ticket
  /\ worker.pc \in Copied =>
       /\ worker.ticket \in Tickets /\ worker.page = worker.ticket
       /\ worker.slot = Slot(worker.ticket)
  /\ IF worker.pc \in Copied \ {"resolving"}
     THEN worker.answer \in {Failed, Ready(worker.ticket)}
     ELSE worker.answer = NoAnswer
  /\ worker.pc \in Completing =>
       slot[worker.slot].token = Claimed /\ slot[worker.slot].owner = worker.ticket
  /\ worker.pc \in Completing /\ daemon.pc = "claimed" => worker.slot # Mine

HandoffInv == TypeOK /\ SlotInv /\ DaemonInv /\ WorkerInv

(***************************************************************************)
(* Facts about tokens and slots, so that the steps need not look inside.   *)
(***************************************************************************)
(* The words that reserved0 can hold are told apart by the code's tests.   *)
LEMMA TokenFacts ==
  /\ Claimed \notin Answers /\ NoAnswer \notin Answers /\ Claimed # NoAnswer
  /\ Failed \in Answers /\ Failed.status # "Ready" /\ NoAnswer.status # "Ready"
  /\ \A t \in Tickets :
       /\ Pending(t) \notin Answers /\ Pending(t) # NoAnswer /\ Pending(t) # Claimed
       /\ Ready(t) \in Answers /\ Ready(t) # Failed /\ Ready(t).status = "Ready"
       /\ Pending(t) \in Tokens
       /\ \A u \in Tickets : /\ Pending(t) = Pending(u) => t = u
                             /\ Ready(t) = Ready(u) => t = u
                             /\ Pending(t) # Ready(u)
  /\ \A a \in Answers : a.status = "Ready" => \E t \in Tickets : a = Ready(t)
  /\ Answers \subseteq Tokens /\ NoAnswer \in Tokens /\ Claimed \in Tokens
<1>1. \A a \in Answers : a.status \in {"Failed", "Ready"}
  BY DEF Answers, Failed, Ready
<1>2. Claimed \notin Answers /\ NoAnswer \notin Answers /\ Claimed # NoAnswer
  <2>1. Claimed.status = "Claimed" /\ NoAnswer.status = "None"
    BY DEF Claimed, NoAnswer
  <2> QED BY <1>1, <2>1
<1>3. Failed \in Answers /\ Failed.status # "Ready" /\ NoAnswer.status # "Ready"
  BY DEF Answers, Failed, NoAnswer
<1>4. ASSUME NEW t \in Tickets
      PROVE  /\ Pending(t) \notin Answers /\ Pending(t) # NoAnswer
             /\ Pending(t) # Claimed
             /\ Ready(t) \in Answers /\ Ready(t) # Failed
             /\ Ready(t).status = "Ready" /\ Pending(t) \in Tokens
  <2>1. Pending(t).status = "Pending" /\ Ready(t).status = "Ready"
    BY DEF Pending, Ready
  <2>2. /\ NoAnswer.status = "None" /\ Claimed.status = "Claimed"
        /\ Failed.status = "Failed"
    BY DEF NoAnswer, Claimed, Failed
  <2>3. Ready(t) \in Answers
    BY DEF Answers
  <2>4. Pending(t) \in Tokens
    BY DEF Tokens
  <2> QED BY <1>1, <2>1, <2>2, <2>3, <2>4
<1>5. ASSUME NEW t \in Tickets, NEW u \in Tickets
      PROVE  /\ Pending(t) = Pending(u) => t = u
             /\ Ready(t) = Ready(u) => t = u
             /\ Pending(t) # Ready(u)
  <2>1. /\ Pending(t).frame = t /\ Pending(u).frame = u
        /\ Ready(t).frame = t /\ Ready(u).frame = u
        /\ Pending(t).status = "Pending" /\ Ready(u).status = "Ready"
    BY DEF Pending, Ready
  <2> QED BY <2>1
<1>6. ASSUME NEW a \in Answers, a.status = "Ready"
      PROVE  \E t \in Tickets : a = Ready(t)
  BY <1>6, <1>3 DEF Answers
<1>7. Answers \subseteq Tokens /\ NoAnswer \in Tokens /\ Claimed \in Tokens
  BY DEF Tokens
<1> QED BY <1>2, <1>3, <1>4, <1>5, <1>6, <1>7

(* Every ticket has a slot, and Nobody is no ticket. *)
LEMMA SlotFacts ==
  /\ \A t \in Tickets : Slot(t) \in Slots
  /\ Nobody \notin Tickets
  /\ \A t \in Tickets : t \in Nat
BY CapacityAssumption, BoundsAssumption DEF Slot, Slots, Tickets, Nobody

(* The three ways in which a step writes a slot keep its type. *)
LEMMA SlotUpdates ==
  ASSUME slot \in [Slots -> SlotType], NEW s \in Slots
  PROVE  /\ \A v \in SlotStates : [slot EXCEPT ![s].state = v] \in [Slots -> SlotType]
         /\ \A v \in Tokens : [slot EXCEPT ![s].token = v] \in [Slots -> SlotType]
         /\ \A v \in SlotType : [slot EXCEPT ![s] = v] \in [Slots -> SlotType]
<1>1. slot[s] \in SlotType
  OBVIOUS
<1>2. ASSUME NEW v \in SlotStates
      PROVE  [slot EXCEPT ![s].state = v] \in [Slots -> SlotType]
  <2>1. [slot[s] EXCEPT !.state = v] \in SlotType
    BY <1>1 DEF SlotType
  <2> QED BY <2>1
<1>3. ASSUME NEW v \in Tokens
      PROVE  [slot EXCEPT ![s].token = v] \in [Slots -> SlotType]
  <2>1. [slot[s] EXCEPT !.token = v] \in SlotType
    BY <1>1 DEF SlotType
  <2> QED BY <2>1
<1> QED BY <1>2, <1>3

(* Every step of the host, of the daemon's dispatcher and of the capacity  *)
(* worker keeps the inductive invariant: one case per action, and in it    *)
(* one step per conjunct that the action can disturb.                      *)
LEMMA HandoffStep == HandoffInv /\ [Next]_vars => HandoffInv'
<1> SUFFICES ASSUME HandoffInv, [Next]_vars PROVE HandoffInv'
  OBVIOUS
<1> USE DEF HandoffInv
<1>1. ASSUME OtherRequest PROVE HandoffInv'
  <2>1. TypeOK'
    BY <1>1, BoundsAssumption DEF OtherRequest, TypeOK
  <2>2. SlotInv'
    BY <1>1, SlotFacts DEF OtherRequest, TypeOK, SlotInv
  <2>3. DaemonInv'
    BY <1>1 DEF OtherRequest, DaemonInv, Serving
  <2>4. WorkerInv'
    BY <1>1 DEF OtherRequest, WorkerInv
  <2> QED BY <2>1, <2>2, <2>3, <2>4 DEF HandoffInv
<1>2. ASSUME BeginHandoff PROVE HandoffInv'
  <2>1. TypeOK'
    <3>1. slot' \in [Slots -> SlotType]
      <4>1. next \in Tickets
        BY <1>2, BoundsAssumption DEF BeginHandoff, TypeOK, Tickets
      <4>2. [state |-> "Available", owner |-> next, page |-> next,
             token |-> Pending(next)] \in SlotType
        BY <4>1, TokenFacts DEF SlotType, SlotStates
      <4> QED BY <1>2, <4>1, <4>2, SlotFacts DEF BeginHandoff, TypeOK
    <3>2. daemon' \in DaemonType
      <4>1. next \in Tickets
        BY <1>2, BoundsAssumption DEF BeginHandoff, TypeOK, Tickets
      <4> QED BY <1>2, <4>1, TokenFacts DEF BeginHandoff, IdleDaemon, DaemonType
    <3>3. worker' \in WorkerType
      BY <1>2 DEF BeginHandoff, TypeOK
    <3>4. next' \in 0..MaxTicket
      BY <1>2, BoundsAssumption DEF BeginHandoff, TypeOK
    <3> QED BY <3>1, <3>2, <3>3, <3>4 DEF TypeOK
  <2>2. SlotInv'
    <3>1. next \in Tickets /\ Slot(next) \in Slots
      BY <1>2, BoundsAssumption, SlotFacts DEF BeginHandoff, TypeOK, Tickets
    <3>2. /\ slot'[Slot(next)] = [state |-> "Available", owner |-> next,
                                page |-> next, token |-> Pending(next)]
          /\ \A s \in Slots \ {Slot(next)} : slot'[s] = slot[s]
          /\ next' = next + 1
      BY <1>2, <3>1 DEF BeginHandoff, TypeOK
    <3>3. \A t \in Tickets : t < next => t < next'
      BY <3>1, <3>2, SlotFacts
    <3>4. next < next'
      BY <3>1, <3>2, SlotFacts
    <3> QED BY <3>1, <3>2, <3>3, <3>4, TokenFacts DEF SlotInv
  <2>3. DaemonInv'
    <3>1. next \in Tickets /\ Slot(next) \in Slots
      BY <1>2, BoundsAssumption, SlotFacts DEF BeginHandoff, TypeOK, Tickets
    <3>2. /\ slot'[Slot(next)] = [state |-> "Available", owner |-> next,
                                page |-> next, token |-> Pending(next)]
          /\ daemon'.pc = "waiting" /\ daemon'.ticket = next
          /\ daemon'.answer = NoAnswer
      BY <1>2, <3>1 DEF BeginHandoff, TypeOK, IdleDaemon
    <3> QED BY <3>1, <3>2, TokenFacts DEF DaemonInv, Mine
  <2>4. WorkerInv'
    BY <1>2, TokenFacts DEF BeginHandoff, TypeOK, SlotInv, WorkerInv
  <2> QED BY <2>1, <2>2, <2>3, <2>4 DEF HandoffInv
<1>3. ASSUME BeginRefused PROVE HandoffInv'
  <2>1. TypeOK'
    BY <1>3, BoundsAssumption DEF BeginRefused, TypeOK
  <2>2. SlotInv'
    BY <1>3, SlotFacts DEF BeginRefused, TypeOK, SlotInv
  <2>3. DaemonInv'
    BY <1>3 DEF BeginRefused, DaemonInv, Serving
  <2>4. WorkerInv'
    BY <1>3 DEF BeginRefused, WorkerInv
  <2> QED BY <2>1, <2>2, <2>3, <2>4 DEF HandoffInv
<1>4. ASSUME SeeResult PROVE HandoffInv'
  <2>1. TypeOK'
    BY <1>4, TokenFacts, SlotFacts, BoundsAssumption
    DEF SeeResult, HasResult, TypeOK, SlotType, DaemonType, WorkerType, SlotStates,
       SlotInv, DaemonInv, WorkerInv, EmptySlot, Mine, Serving, Copied, Completing
  <2>2. SlotInv'
    BY <1>4 DEF SeeResult, SlotInv
  <2>3. DaemonInv'
    BY <1>4, TokenFacts, SlotFacts
    DEF SeeResult, HasResult, SlotInv, DaemonInv, Mine, Serving
  <2>4. WorkerInv'
    BY <1>4 DEF SeeResult, WorkerInv
  <2> QED BY <2>1, <2>2, <2>3, <2>4 DEF HandoffInv
<1>5. ASSUME WaitExpires PROVE HandoffInv'
  <2>1. TypeOK'
    BY <1>5, TokenFacts, SlotFacts, BoundsAssumption
    DEF WaitExpires, HasResult, TypeOK, SlotType, DaemonType, WorkerType, SlotStates,
       SlotInv, DaemonInv, WorkerInv, EmptySlot, Mine, Serving, Copied, Completing
  <2>2. SlotInv'
    BY <1>5 DEF WaitExpires, SlotInv
  <2>3. DaemonInv'
    BY <1>5 DEF WaitExpires, DaemonInv, Mine, Serving
  <2>4. WorkerInv'
    BY <1>5 DEF WaitExpires, WorkerInv
  <2> QED BY <2>1, <2>2, <2>3, <2>4 DEF HandoffInv
<1>6. ASSUME ExpireClaims PROVE HandoffInv'
  <2>1. TypeOK'
    <3>1. slot' \in [Slots -> SlotType]
      <4>1. Mine \in Slots
        BY <1>6, SlotFacts DEF ExpireClaims, DaemonInv, Serving, Mine
      <4> QED BY <1>6, <4>1, SlotUpdates, TokenFacts DEF ExpireClaims, TypeOK
    <3>2. daemon' \in DaemonType
      BY <1>6, TokenFacts DEF ExpireClaims, TypeOK, DaemonType
    <3>3. worker' \in WorkerType
      BY <1>6 DEF ExpireClaims, TypeOK
    <3>4. next' \in 0..MaxTicket
      BY <1>6, BoundsAssumption DEF ExpireClaims, TypeOK
    <3> QED BY <3>1, <3>2, <3>3, <3>4 DEF TypeOK
  <2>2. SlotInv'
    BY <1>6, TokenFacts DEF ExpireClaims, TypeOK, SlotType, SlotInv, DaemonInv, Serving
  <2>3. DaemonInv'
    BY <1>6, SlotFacts
    DEF ExpireClaims, TypeOK, SlotType, DaemonType, DaemonInv, Mine, Serving
  <2>4. WorkerInv'
    BY <1>6, TokenFacts
    DEF ExpireClaims, TypeOK, SlotType, DaemonType, DaemonInv, WorkerInv, Mine,
       Serving, Completing
  <2> QED BY <2>1, <2>2, <2>3, <2>4 DEF HandoffInv
<1>7. ASSUME ExpireStores PROVE HandoffInv'
  <2>1. TypeOK'
    <3>1. slot' \in [Slots -> SlotType]
      <4>1. Mine \in Slots
        BY <1>7, SlotFacts DEF ExpireStores, DaemonInv, Serving, Mine
      <4> QED BY <1>7, <4>1, SlotUpdates, TokenFacts DEF ExpireStores, TypeOK
    <3>2. daemon' \in DaemonType
      BY <1>7, TokenFacts DEF ExpireStores, TypeOK, DaemonType
    <3>3. worker' \in WorkerType
      BY <1>7 DEF ExpireStores, TypeOK
    <3>4. next' \in 0..MaxTicket
      BY <1>7, BoundsAssumption DEF ExpireStores, TypeOK
    <3> QED BY <3>1, <3>2, <3>3, <3>4 DEF TypeOK
  <2>2. SlotInv'
    BY <1>7, TokenFacts DEF ExpireStores, SlotInv, DaemonInv
  <2>3. DaemonInv'
    BY <1>7, TokenFacts DEF ExpireStores, DaemonInv, Mine, Serving
  <2>4. WorkerInv'
    BY <1>7 DEF ExpireStores, WorkerInv
  <2> QED BY <2>1, <2>2, <2>3, <2>4 DEF HandoffInv
<1>8. ASSUME ExpireLosesAnswer PROVE HandoffInv'
  <2>1. TypeOK'
    BY <1>8, TokenFacts, SlotFacts, BoundsAssumption
    DEF ExpireLosesAnswer, HasResult, TypeOK, SlotType, DaemonType, WorkerType,
       SlotStates, SlotInv, DaemonInv, WorkerInv, EmptySlot, Mine, Serving, Copied,
       Completing
  <2>2. SlotInv'
    BY <1>8 DEF ExpireLosesAnswer, SlotInv
  <2>3. DaemonInv'
    BY <1>8, TokenFacts DEF ExpireLosesAnswer, DaemonInv, Mine, Serving
  <2>4. WorkerInv'
    BY <1>8 DEF ExpireLosesAnswer, WorkerInv
  <2> QED BY <2>1, <2>2, <2>3, <2>4 DEF HandoffInv
<1>9. ASSUME ReleaseClaims PROVE HandoffInv'
  <2>1. TypeOK'
    <3>1. slot' \in [Slots -> SlotType]
      <4>1. Mine \in Slots
        BY <1>9, SlotFacts DEF ReleaseClaims, DaemonInv, Serving, Mine
      <4> QED BY <1>9, <4>1, SlotUpdates DEF ReleaseClaims, TypeOK, SlotStates
    <3>2. daemon' \in DaemonType
      BY <1>9 DEF ReleaseClaims, TypeOK, DaemonType
    <3>3. worker' \in WorkerType
      BY <1>9 DEF ReleaseClaims, TypeOK
    <3>4. next' \in 0..MaxTicket
      BY <1>9, BoundsAssumption DEF ReleaseClaims, TypeOK
    <3> QED BY <3>1, <3>2, <3>3, <3>4 DEF TypeOK
  <2>2. SlotInv'
    BY <1>9 DEF ReleaseClaims, SlotInv, DaemonInv, Serving
  <2>3. DaemonInv'
    BY <1>9, SlotFacts DEF ReleaseClaims, Releasable, TypeOK, DaemonInv, Mine, Serving
  <2>4. WorkerInv'
    BY <1>9 DEF ReleaseClaims, MayScrub, WorkerInv
  <2> QED BY <2>1, <2>2, <2>3, <2>4 DEF HandoffInv
<1>10. ASSUME ReleaseEmpties PROVE HandoffInv'
  <2>1. TypeOK'
    <3>1. EmptySlot \in SlotType
      BY TokenFacts DEF EmptySlot, SlotType, SlotStates
    <3>2. slot' \in [Slots -> SlotType]
      BY <1>10, <3>1 DEF ReleaseEmpties, TypeOK
    <3>3. daemon' \in DaemonType
      BY <1>10 DEF ReleaseEmpties, Dispatched, TypeOK, DaemonType
    <3> QED BY <1>10, <3>2, <3>3 DEF ReleaseEmpties, TypeOK
  <2>2. SlotInv'
    BY <1>10, TokenFacts DEF ReleaseEmpties, SlotInv, EmptySlot
  <2>3. DaemonInv'
    BY <1>10 DEF ReleaseEmpties, Dispatched, DaemonInv, Serving
  <2>4. WorkerInv'
    BY <1>10, TokenFacts DEF ReleaseEmpties, Dispatched, DaemonInv, WorkerInv
  <2> QED BY <2>1, <2>2, <2>3, <2>4 DEF HandoffInv
<1>11. ASSUME ReleaseRefused PROVE HandoffInv'
  <2>1. TypeOK'
    BY <1>11, TokenFacts, SlotFacts, BoundsAssumption
    DEF ReleaseRefused, Releasable, Dispatched, TypeOK, SlotType, DaemonType,
       WorkerType, SlotStates, SlotInv, DaemonInv, WorkerInv, EmptySlot, Mine,
       Serving, Copied, Completing
  <2>2. SlotInv'
    BY <1>11 DEF ReleaseRefused, SlotInv
  <2>3. DaemonInv'
    BY <1>11, TokenFacts DEF ReleaseRefused, Dispatched, DaemonInv, Serving
  <2>4. WorkerInv'
    BY <1>11 DEF ReleaseRefused, Dispatched, WorkerInv
  <2> QED BY <2>1, <2>2, <2>3, <2>4 DEF HandoffInv
<1>12. ASSUME EnterReading PROVE HandoffInv'
  <2>1. TypeOK'
    BY <1>12 DEF EnterReading, IdleWorker, TypeOK, SlotType, WorkerType, SlotStates
  <2>2. SlotInv'
    BY <1>12 DEF EnterReading, TypeOK, SlotType, SlotInv
  <2>3. DaemonInv'
    BY <1>12, SlotFacts DEF EnterReading, TypeOK, SlotType, DaemonInv, Mine, Serving
  <2>4. WorkerInv'
    BY <1>12
    DEF EnterReading, IdleWorker, TypeOK, SlotType, WorkerType, WorkerInv, Copied,
       Completing
  <2> QED BY <2>1, <2>2, <2>3, <2>4 DEF HandoffInv
<1>13. ASSUME Validate PROVE HandoffInv'
  <2>1. TypeOK'
    <3>1. worker.slot \in Slots
      BY <1>13 DEF Validate, WorkerInv
    <3>2. slot' \in [Slots -> SlotType]
      <4>1. slot' = slot \/ slot' = [slot EXCEPT ![worker.slot].state = "Copied"]
        BY <1>13 DEF Validate, LeaveReading
      <4>2. [slot EXCEPT ![worker.slot].state = "Copied"] \in [Slots -> SlotType]
        BY <3>1, SlotUpdates DEF TypeOK, SlotStates
      <4> QED BY <4>1, <4>2 DEF TypeOK
    <3>3. slot[worker.slot].owner \in Tickets \cup {Nobody}
      BY <3>1 DEF TypeOK, SlotType
    <3>4. worker' \in WorkerType
      <4>1. CASE worker' = IdleWorker
        BY <4>1 DEF IdleWorker, WorkerType
      <4>2. CASE worker' = [worker EXCEPT !.pc = "copying",
                                          !.ticket = slot[worker.slot].owner]
        BY <4>2, <3>3 DEF TypeOK, WorkerType
      <4> QED BY <1>13, <4>1, <4>2 DEF Validate
    <3> QED BY <1>13, <3>2, <3>4 DEF Validate, TypeOK
  <2>2. SlotInv'
    BY <1>13 DEF Validate, LeaveReading, TypeOK, SlotType, SlotInv, WorkerInv
  <2>3. DaemonInv'
    <3>1. worker.slot \in Slots /\ slot[worker.slot].state = "Reading"
      BY <1>13 DEF Validate, WorkerInv
    <3>2. \A s \in Slots :
            /\ slot'[s].owner = slot[s].owner /\ slot'[s].token = slot[s].token
            /\ slot'[s].state \in {slot[s].state, "Copied"}
            /\ slot[s].state # "Reading" => slot'[s].state = slot[s].state
      BY <1>13, <3>1 DEF Validate, LeaveReading, TypeOK, SlotType
    <3>3. daemon' = daemon /\ (daemon.pc \in Serving => Mine \in Slots)
      BY <1>13, SlotFacts DEF Validate, DaemonInv, Mine
    <3> QED BY <3>2, <3>3 DEF DaemonInv, Mine, Serving
  <2>4. WorkerInv'
    <3>1. /\ worker.slot \in Slots /\ slot[worker.slot].state = "Reading"
          /\ worker.answer = NoAnswer
      BY <1>13 DEF Validate, WorkerInv, Copied
    <3>2. CASE worker' = IdleWorker
      BY <3>2 DEF WorkerInv, IdleWorker, Copied, Completing
    <3>3. CASE worker' = [worker EXCEPT !.pc = "copying",
                                        !.ticket = slot[worker.slot].owner]
               /\ slot' = slot
      BY <3>1, <3>3 DEF WorkerInv, Copied, Completing
    <3> QED BY <1>13, <3>2, <3>3 DEF Validate
  <2> QED BY <2>1, <2>2, <2>3, <2>4 DEF HandoffInv
<1>14. ASSUME CopyHandoff PROVE HandoffInv'
  <2>1. TypeOK'
    <3>1. slot' \in [Slots -> SlotType]
      <4>1. worker.slot \in Slots
        BY <1>14 DEF CopyHandoff, WorkerInv
      <4> QED
        BY <1>14, <4>1, SlotUpdates DEF CopyHandoff, LeaveReading, TypeOK, SlotStates
    <3>2. daemon' \in DaemonType
      BY <1>14 DEF CopyHandoff, TypeOK
    <3>3. worker' \in WorkerType
      <4>1. worker.slot \in Slots
        BY <1>14 DEF CopyHandoff, WorkerInv
      <4>2. slot[worker.slot] \in SlotType
        BY <4>1 DEF TypeOK
      <4> QED BY <1>14, <4>2 DEF CopyHandoff, TypeOK, WorkerType, SlotType, IdleWorker
    <3>4. next' \in 0..MaxTicket
      BY <1>14, BoundsAssumption DEF CopyHandoff, TypeOK
    <3> QED BY <3>1, <3>2, <3>3, <3>4 DEF TypeOK
  <2>2. SlotInv'
    BY <1>14 DEF CopyHandoff, LeaveReading, SlotInv, WorkerInv
  <2>3. DaemonInv'
    BY <1>14 DEF CopyHandoff, LeaveReading, DaemonInv, WorkerInv, Mine
  <2>4. WorkerInv'
    <3>1. /\ worker.slot \in Slots /\ slot[worker.slot].state = "Reading"
          /\ slot[worker.slot].owner = worker.ticket /\ worker.answer = NoAnswer
      BY <1>14 DEF CopyHandoff, WorkerInv, Copied
    <3>2. /\ worker.ticket \in Tickets /\ Slot(worker.ticket) = worker.slot
          /\ slot[worker.slot].page = worker.ticket
      BY <3>1 DEF SlotInv
    <3>3. worker' = [worker EXCEPT !.pc = "resolving", !.page = worker.ticket]
      BY <1>14, <3>2 DEF CopyHandoff
    <3> QED BY <3>1, <3>2, <3>3 DEF WorkerInv, Completing
  <2> QED BY <2>1, <2>2, <2>3, <2>4 DEF HandoffInv
<1>15. ASSUME ResolvePage PROVE HandoffInv'
  <2>1. TypeOK'
    <3>1. slot' \in [Slots -> SlotType]
      BY <1>15 DEF ResolvePage, TypeOK
    <3>2. daemon' \in DaemonType
      BY <1>15 DEF ResolvePage, TypeOK
    <3>3. worker' \in WorkerType
      <4>1. worker.page \in Tickets
        BY <1>15 DEF ResolvePage, WorkerInv, Copied
      <4>2. Ready(worker.page) \in Answers /\ Failed \in Answers
        BY <4>1, TokenFacts
      <4> QED BY <1>15, <4>2 DEF ResolvePage, TypeOK, WorkerType
    <3>4. next' \in 0..MaxTicket
      BY <1>15, BoundsAssumption DEF ResolvePage, TypeOK
    <3> QED BY <3>1, <3>2, <3>3, <3>4 DEF TypeOK
  <2>2. SlotInv'
    BY <1>15 DEF ResolvePage, SlotInv
  <2>3. DaemonInv'
    BY <1>15 DEF ResolvePage, DaemonInv, Mine
  <2>4. WorkerInv'
    <3>1. PICK a \in {Failed, Ready(worker.page)} :
            worker' = [worker EXCEPT !.pc = "resolved", !.answer = a]
      BY <1>15 DEF ResolvePage
    <3>2. worker.pc = "resolving" /\ worker.page = worker.ticket
      BY <1>15 DEF ResolvePage, WorkerInv, Copied
    <3> QED BY <3>1, <3>2 DEF WorkerInv, Copied, Completing
  <2> QED BY <2>1, <2>2, <2>3, <2>4 DEF HandoffInv
<1>16. ASSUME MatchOwner PROVE HandoffInv'
  <2>1. TypeOK'
    BY <1>16 DEF MatchOwner, IdleWorker, TypeOK, WorkerType
  <2>2. SlotInv'
    BY <1>16 DEF MatchOwner, SlotInv
  <2>3. DaemonInv'
    BY <1>16 DEF MatchOwner, DaemonInv, Mine
  <2>4. WorkerInv'
    BY <1>16 DEF MatchOwner, IdleWorker, WorkerInv, Copied, Completing
  <2> QED BY <2>1, <2>2, <2>3, <2>4 DEF HandoffInv
<1>17. ASSUME ClaimToken PROVE HandoffInv'
  <2>1. TypeOK'
    BY <1>17, TokenFacts DEF ClaimToken, IdleWorker, TypeOK, SlotType, WorkerType
  <2>2. SlotInv'
    BY <1>17, TokenFacts
    DEF ClaimToken, WinsToken, TypeOK, SlotType, SlotInv, WorkerInv, Copied
  <2>3. DaemonInv'
    BY <1>17, TokenFacts, SlotFacts
    DEF ClaimToken, WinsToken, TypeOK, SlotType, DaemonInv, WorkerInv, Mine, Serving,
       Copied
  <2>4. WorkerInv'
    BY <1>17, TokenFacts
    DEF ClaimToken, WinsToken, IdleWorker, TypeOK, SlotType, WorkerType, SlotInv,
       DaemonInv, WorkerInv, Mine, Copied, Completing
  <2> QED BY <2>1, <2>2, <2>3, <2>4 DEF HandoffInv
<1>18. ASSUME RecheckOwner PROVE HandoffInv'
  <2>1. TypeOK'
    BY <1>18 DEF RecheckOwner, Owned, TypeOK, WorkerType, WorkerInv, Copied, Completing
  <2>2. SlotInv'
    BY <1>18 DEF RecheckOwner, Owned, SlotInv, WorkerInv, Copied, Completing
  <2>3. DaemonInv'
    BY <1>18 DEF RecheckOwner, Owned, DaemonInv, WorkerInv, Mine, Copied, Completing
  <2>4. WorkerInv'
    BY <1>18
    DEF RecheckOwner, IdleWorker, TypeOK, WorkerType, WorkerInv, Mine, Copied,
       Completing
  <2> QED BY <2>1, <2>2, <2>3, <2>4 DEF HandoffInv
<1>19. ASSUME StoreAnswer PROVE HandoffInv'
  <2>1. TypeOK'
    BY <1>19, TokenFacts
    DEF StoreAnswer, IdleWorker, TypeOK, SlotType, WorkerType, WorkerInv, Copied
  <2>2. SlotInv'
    BY <1>19, TokenFacts DEF StoreAnswer, SlotInv, WorkerInv, Completing
  <2>3. DaemonInv'
    BY <1>19, TokenFacts DEF StoreAnswer, DaemonInv, WorkerInv, Mine, Copied, Completing
  <2>4. WorkerInv'
    BY <1>19 DEF StoreAnswer, IdleWorker, WorkerInv, Copied, Completing
  <2> QED BY <2>1, <2>2, <2>3, <2>4 DEF HandoffInv
<1>20. ASSUME NEW s \in Slots, ClaimSlot(s) PROVE HandoffInv'
  <2>1. TypeOK'
    <3>1. slot' \in [Slots -> SlotType]
      BY <1>20, SlotUpdates DEF ClaimSlot, TypeOK, SlotStates
    <3>2. daemon' \in DaemonType
      BY <1>20 DEF ClaimSlot, TypeOK
    <3>3. worker' \in WorkerType
      BY <1>20 DEF ClaimSlot, TypeOK, WorkerType
    <3>4. next' \in 0..MaxTicket
      BY <1>20, BoundsAssumption DEF ClaimSlot, TypeOK
    <3> QED BY <3>1, <3>2, <3>3, <3>4 DEF TypeOK
  <2>2. SlotInv'
    BY <1>20 DEF ClaimSlot, SlotInv
  <2>3. DaemonInv'
    BY <1>20 DEF ClaimSlot, DaemonInv, Mine
  <2>4. WorkerInv'
    BY <1>20 DEF ClaimSlot, WorkerInv, Copied, Completing
  <2> QED BY <2>1, <2>2, <2>3, <2>4 DEF HandoffInv
<1>21. ASSUME UNCHANGED vars PROVE HandoffInv'
  BY <1>21 DEF vars, TypeOK, SlotInv, DaemonInv, WorkerInv, Mine
<1> QED
  BY <1>1, <1>2, <1>3, <1>4, <1>5, <1>6, <1>7, <1>8, <1>9, <1>10, <1>11, <1>12,
     <1>13, <1>14, <1>15, <1>16, <1>17, <1>18, <1>19, <1>20, <1>21
  DEF Next, DaemonStep, WorkerStep

(* The segment starts with empty slots, nobody waiting and the worker      *)
(* scanning.                                                               *)
LEMMA HandoffInit == Init => HandoffInv
<1> SUFFICES ASSUME Init PROVE HandoffInv
  OBVIOUS
<1>1. \A s \in Slots : slot[s] = EmptySlot
  BY DEF Init
<1>2. EmptySlot \in SlotType
  BY TokenFacts DEF EmptySlot, SlotType, SlotStates
<1>3. TypeOK
  BY <1>2, BoundsAssumption
  DEF Init, TypeOK, IdleDaemon, DaemonType, IdleWorker, WorkerType
<1>4. SlotInv
  BY <1>1, TokenFacts DEF SlotInv, EmptySlot
<1>5. DaemonInv
  BY TokenFacts DEF Init, DaemonInv, IdleDaemon, Serving
<1>6. WorkerInv
  BY DEF Init, WorkerInv, IdleWorker, Copied, Completing
<1> QED BY <1>3, <1>4, <1>5, <1>6 DEF HandoffInv

(* The inductive invariant holds throughout.                               *)
LEMMA HandoffAlways == Spec => []HandoffInv
BY HandoffInit, HandoffStep, PTL DEF Spec

(* Types are kept: in particular the worker only ever resolves the page of *)
(* a real request, although it reads the slot without a lock.              *)
THEOREM HandoffTypes == Spec => []TypeOK
<1>1. HandoffInv => TypeOK
  BY DEF HandoffInv
<1> QED BY <1>1, HandoffAlways, PTL

(* prepare_host_dispatch never answers a request with a frame that was     *)
(* resolved for another one, for any number of slots and any reuse of them.*)
THEOREM HandoffExact == Spec => []AnswerIsExact
<1>1. HandoffInv => AnswerIsExact
  BY DEF HandoffInv, DaemonInv, AnswerIsExact
<1> QED BY <1>1, HandoffAlways, PTL

(* try_capacity_handoff never returns a torn hand-off.                     *)
THEOREM HandoffConsistent == Spec => []CopyIsConsistent
<1>1. HandoffInv => CopyIsConsistent
  BY DEF HandoffInv, WorkerInv, Copied, CopyIsConsistent
<1> QED BY <1>1, HandoffAlways, PTL

(* The slot's plain fields are never written by both sides, nor scrubbed   *)
(* under the worker's hands.                                               *)
THEOREM HandoffOneCompleter == Spec => []OneCompleter
<1>1. HandoffInv => OneCompleter
  BY TokenFacts DEF HandoffInv, WorkerInv, DaemonInv, Completing, OneCompleter
<1> QED BY <1>1, HandoffAlways, PTL
=============================================================================
