-------------------------- MODULE CapacityHandoff --------------------------
(***************************************************************************)
(* The page slots of the control region, through which the daemon asks the *)
(* capacity worker (a thread of the application process) to bring a page   *)
(* into HBM: begin, try, complete, result and release_capacity_handoff of  *)
(* host_service/control_layout.hpp, called by prepare_host_dispatch        *)
(* (request_dispatcher.cpp) and by CapacityWorker::run                     *)
(* (capacity_worker.cpp).  The daemon serves one request at a time; when   *)
(* its deadline passes it tries to complete the slot itself and takes the  *)
(* slot back.  The dispatcher then fails for good (fail_all); the page     *)
(* slots themselves are made, and tested, for a caller that goes on and    *)
(* reuses them, so FailsForGood is a parameter.                            *)
(*                                                                         *)
(* A request is identified by its ticket t: request_id, the page it wants  *)
(* and the pending token of reserved0 are all functions of t.  Frame t is  *)
(* the frame the worker resolves for request t.  Every access to a word    *)
(* the other process may change is a step of its own; what a thread does   *)
(* alone before it releases the slot is part of the releasing step.        *)
(***************************************************************************)
EXTENDS Integers

CONSTANTS PageCapacity,   \* page_capacity
          MaxTicket,      \* bound on the tickets of a behaviour
          MayTimeOut,     \* whether the daemon's deadline may pass
          FailsForGood    \* whether a failed hand-off ends the dispatcher

ASSUME CapacityAssumption == PageCapacity \in Nat \ {0}
ASSUME BoundsAssumption == 
  MaxTicket \in Nat /\ MayTimeOut \in BOOLEAN /\ FailsForGood \in BOOLEAN

VARIABLES
  slot,      \* pages(): [state, owner, page, token, frame] of each slot
  daemon,    \* prepare_host_dispatch: [pc, ticket, answer]
  worker,    \* CapacityWorker::run: [pc, slot, owner, ticket, answer]
  next       \* ticket of the next request the daemon pops

vars == <<slot, daemon, worker, next>>

Nobody == -1
Tickets == 0..(MaxTicket - 1)
Slots == 0..(PageCapacity - 1)
Slot(t) == t % PageCapacity

(***************************************************************************)
(* reserved0: zero, the pending token of a ticket, kCapacityCompletion-    *)
(* Claimed, or a terminal status.  An answer is a status with its frame;   *)
(* all failures are alike.                                                 *)
(***************************************************************************)
NoAnswer == [status |-> "None", frame |-> Nobody]
Failed == [status |-> "Failed", frame |-> Nobody]
Ready(t) == [status |-> "Ready", frame |-> t]
Pending(t) == [status |-> "Pending", frame |-> t]
Claimed == [status |-> "Claimed", frame |-> Nobody]
Answers == {Failed} \cup {Ready(t) : t \in Tickets}
Tokens == Answers \cup {NoAnswer, Claimed} \cup {Pending(t) : t \in Tickets}

EmptySlot == [state |-> "Empty", owner |-> Nobody, page |-> Nobody,
              token |-> NoAnswer]

SlotStates == {"Empty", "Available", "Claiming", "Reading", "Copied",
               "Reclaiming"}

SlotType == [state : SlotStates, owner : Tickets \cup {Nobody},
             page : Tickets \cup {Nobody}, token : Tokens]

DaemonType ==
  [pc : {"idle", "waiting", "expired", "claimed", "lost", "releasing",
         "scrubbing", "failed"},
   ticket : Tickets \cup {Nobody}, answer : Answers \cup {NoAnswer},
   expired : BOOLEAN]

WorkerType ==
  [pc : {"scanning", "claiming", "reading", "copying", "resolving",
         "resolved", "matched", "claimed", "storing"},
   slot : Slots \cup {Nobody}, ticket : Tickets \cup {Nobody},
   page : Tickets \cup {Nobody}, answer : Answers \cup {NoAnswer}]

TypeOK ==
  /\ slot \in [Slots -> SlotType]
  /\ daemon \in DaemonType /\ worker \in WorkerType
  /\ next \in 0..MaxTicket

IdleDaemon == [pc |-> "idle", ticket |-> Nobody, answer |-> NoAnswer,
               expired |-> FALSE]
IdleWorker == [pc |-> "scanning", slot |-> Nobody, ticket |-> Nobody,
               page |-> Nobody, answer |-> NoAnswer]

Init ==
  /\ slot = [s \in Slots |-> EmptySlot]
  /\ daemon = IdleDaemon /\ worker = IdleWorker /\ next = 0

(***************************************************************************)
(* The daemon                                                              *)
(***************************************************************************)
Mine == Slot(daemon.ticket)

(* a popped request that is not for a capacity range needs no slot *)
OtherRequest ==
  /\ daemon.pc = "idle" /\ next < MaxTicket
  /\ next' = next + 1
  /\ UNCHANGED <<slot, daemon, worker>>

BeginHandoff ==
  /\ daemon.pc = "idle" /\ next < MaxTicket
  /\ slot[Slot(next)].state = "Empty"
  /\ slot' = [slot EXCEPT ![Slot(next)] =
                [state |-> "Available", owner |-> next, page |-> next,
                 token |-> Pending(next)]]
  /\ daemon' = [IdleDaemon EXCEPT !.pc = "waiting", !.ticket = next]
  /\ next' = next + 1
  /\ UNCHANGED worker

(* the slot is still in use: the request fails *)
BeginRefused ==
  /\ daemon.pc = "idle" /\ next < MaxTicket
  /\ slot[Slot(next)].state # "Empty"
  /\ next' = next + 1
  /\ UNCHANGED <<slot, daemon, worker>>

(* capacity_handoff_result: a terminal status in the daemon's own slot *)
HasResult == slot[Mine].owner = daemon.ticket /\ slot[Mine].token \in Answers

SeeResult ==
  /\ daemon.pc \in {"waiting", "lost"} /\ HasResult
  /\ daemon' = [daemon EXCEPT !.pc = "releasing", !.answer = slot[Mine].token]
  /\ UNCHANGED <<slot, worker, next>>

(* the deadline, the shutdown flag or the fault word end the wait *)
WaitExpires ==
  /\ daemon.pc = "waiting" /\ ~HasResult /\ MayTimeOut
  /\ daemon' = [daemon EXCEPT !.pc = "expired", !.expired = TRUE]
  /\ UNCHANGED <<slot, worker, next>>

(* complete_capacity_handoff by the daemon: the compare-exchange of the    *)
(* pending token decides between it and the worker                         *)
ExpireClaims ==
  /\ daemon.pc = "expired"
  /\ IF slot[Mine].token = Pending(daemon.ticket)
     THEN /\ slot' = [slot EXCEPT ![Mine].token = Claimed]
          /\ daemon' = [daemon EXCEPT !.pc = "claimed"]
     ELSE /\ daemon' = [daemon EXCEPT !.pc = "lost"]
          /\ UNCHANGED slot
  /\ UNCHANGED <<worker, next>>

ExpireStores ==
  /\ daemon.pc = "claimed"
  /\ slot' = [slot EXCEPT ![Mine].token = Failed]
  /\ daemon' = [daemon EXCEPT !.pc = "releasing", !.answer = Failed]
  /\ UNCHANGED <<worker, next>>

(* the worker won, but has not stored its status yet: IoError *)
ExpireLosesAnswer ==
  /\ daemon.pc = "lost" /\ ~HasResult
  /\ daemon' = [daemon EXCEPT !.pc = "releasing", !.answer = Failed]
  /\ UNCHANGED <<slot, worker, next>>

ScrubWhileReading(state) == state # "Empty"

(* release_capacity_handoff yields while the worker is Reading *)
MayScrub(state) == state \in {"Available", "Claiming", "Copied"}

ReleasableUndecided == slot[Mine].owner = daemon.ticket

(* only a slot with a terminal status is taken back *)
Releasable == slot[Mine].owner = daemon.ticket /\ slot[Mine].token \in Answers

ReleaseClaims ==
  /\ daemon.pc = "releasing" /\ Releasable /\ MayScrub(slot[Mine].state)
  /\ slot' = [slot EXCEPT ![Mine].state = "Reclaiming"]
  /\ daemon' = [daemon EXCEPT !.pc = "scrubbing"]
  /\ UNCHANGED <<worker, next>>

(* the request ends, and an expired one ends the dispatcher *)
Dispatched(answer, failing) ==
  daemon' = [daemon EXCEPT
               !.pc = IF failing /\ FailsForGood THEN "failed" ELSE "idle",
               !.answer = answer]

ReleaseEmpties ==
  /\ daemon.pc = "scrubbing"
  /\ slot' = [slot EXCEPT ![Mine] = EmptySlot]
  /\ Dispatched(daemon.answer, daemon.expired)
  /\ UNCHANGED <<worker, next>>

(* the slot still has no terminal status: it is given up, with IoError *)
ReleaseRefused ==
  /\ daemon.pc = "releasing" /\ ~Releasable
  /\ Dispatched(Failed, TRUE)
  /\ UNCHANGED <<slot, worker, next>>

(***************************************************************************)
(* The worker                                                              *)
(***************************************************************************)
ClaimSlot(s) ==
  /\ worker.pc = "scanning" /\ slot[s].state = "Available"
  /\ slot' = [slot EXCEPT ![s].state = "Claiming"]
  /\ worker' = [worker EXCEPT !.pc = "claiming", !.slot = s]
  /\ UNCHANGED <<daemon, next>>

(* the second compare-exchange fails if the daemon took the slot back *)
EnterReading ==
  /\ worker.pc = "claiming"
  /\ IF slot[worker.slot].state = "Claiming"
     THEN /\ slot' = [slot EXCEPT ![worker.slot].state = "Reading"]
          /\ worker' = [worker EXCEPT !.pc = "reading"]
     ELSE worker' = IdleWorker /\ UNCHANGED slot
  /\ UNCHANGED <<daemon, next>>

StayReading(s) == UNCHANGED slot

LeaveReading(s) == slot' = [slot EXCEPT ![s].state = "Copied"]

(* owner, generation and token are read and must belong together *)
Validate ==
  LET c == slot[worker.slot] IN
  /\ worker.pc = "reading"
  /\ IF c.owner # Nobody /\ c.token = Pending(c.owner)
     THEN /\ worker' = [worker EXCEPT !.pc = "copying", !.ticket = c.owner]
          /\ UNCHANGED slot
     ELSE worker' = IdleWorker /\ LeaveReading(worker.slot)
  /\ UNCHANGED <<daemon, next>>

CopyHandoff ==
  /\ worker.pc = "copying"
  /\ worker' = [worker EXCEPT !.pc = "resolving",
                              !.page = slot[worker.slot].page]
  /\ LeaveReading(worker.slot)
  /\ UNCHANGED <<daemon, next>>

(* CapacityPageService::resolve, its answer checked: the frame of the page *)
ResolvePage ==
  /\ worker.pc = "resolving"
  /\ worker' \in {[worker EXCEPT !.pc = "resolved", !.answer = a] :
                    a \in {Failed, Ready(worker.page)}}
  /\ UNCHANGED <<slot, daemon, next>>

(* complete_capacity_handoff by the worker: owner and generation are       *)
(* compared, the token is exchanged, both are compared again, and the      *)
(* frame is stored before the status                                       *)
Owned == slot[Slot(worker.ticket)].owner = worker.ticket

MatchOwner ==
  /\ worker.pc = "resolved"
  /\ worker' = IF Owned THEN [worker EXCEPT !.pc = "matched"] ELSE IdleWorker
  /\ UNCHANGED <<slot, daemon, next>>

WinsToken(t) == slot[Slot(t)].token = Pending(t)

ClaimToken ==
  /\ worker.pc = "matched"
  /\ IF WinsToken(worker.ticket)
     THEN /\ slot' = [slot EXCEPT ![Slot(worker.ticket)].token = Claimed]
          /\ worker' = [worker EXCEPT !.pc = "claimed"]
     ELSE worker' = IdleWorker /\ UNCHANGED slot
  /\ UNCHANGED <<daemon, next>>

RecheckOwner ==
  /\ worker.pc = "claimed"
  /\ IF Owned
     THEN worker' = [worker EXCEPT !.pc = "storing"] /\ UNCHANGED slot
     ELSE /\ slot' = [slot EXCEPT ![Slot(worker.ticket)].token =
                         Pending(worker.ticket)]
          /\ worker' = IdleWorker
  /\ UNCHANGED <<daemon, next>>

StoreAnswer ==
  /\ worker.pc = "storing"
  /\ slot' = [slot EXCEPT ![Slot(worker.ticket)].token = worker.answer]
  /\ worker' = IdleWorker
  /\ UNCHANGED <<daemon, next>>

DaemonStep ==
  \/ SeeResult \/ WaitExpires \/ ExpireClaims \/ ExpireStores
  \/ ExpireLosesAnswer \/ ReleaseClaims \/ ReleaseEmpties \/ ReleaseRefused

WorkerStep ==
  \/ \E s \in Slots : ClaimSlot(s)
  \/ EnterReading \/ Validate \/ CopyHandoff \/ ResolvePage \/ MatchOwner
  \/ ClaimToken \/ RecheckOwner \/ StoreAnswer

Next == OtherRequest \/ BeginHandoff \/ BeginRefused \/ DaemonStep \/ WorkerStep

Spec == Init /\ [][Next]_vars

(* The daemon polls until its deadline and the worker thread keeps running. *)
FairSpec == Spec /\ WF_vars(DaemonStep) /\ WF_vars(WorkerStep)

(***************************************************************************)
(* Properties                                                              *)
(***************************************************************************)
(* The daemon never dispatches another request's frame: a Ready answer is  *)
(* the frame resolved for the very page the request asked for, whatever    *)
(* timeouts, late completions and slot reuse came in between               *)
(* (complete_capacity_handoff, capacity_handoff_result).                   *)
AnswerIsExact ==
  daemon.answer.status = "Ready" => daemon.answer = Ready(daemon.ticket)

(* The worker never acts on a torn hand-off: the page it resolves belongs  *)
(* to the ticket it will complete (try_capacity_handoff against            *)
(* release_capacity_handoff).                                              *)
CopyIsConsistent ==
  worker.pc \in {"resolving", "resolved", "matched", "claimed", "storing"} =>
    worker.page = worker.ticket

(* The plain fields of a slot have one writer: daemon and worker are never *)
(* both past their claim of the token, and the slot is not scrubbed while  *)
(* the worker reads it or stores into it.                                  *)
OneCompleter ==
  worker.slot = Mine =>
    /\ daemon.pc = "claimed" => worker.pc \notin {"claimed", "storing"}
    /\ daemon.pc = "scrubbing" =>
         worker.pc \notin {"reading", "copying", "claimed", "storing"}

(* Every hand-off ends: the daemon's spin on a slot being read and the     *)
(* race for the token cannot keep it in prepare_host_dispatch.             *)
HandoffEnds == daemon.pc = "waiting" ~> daemon.pc \in {"idle", "failed"}
=============================================================================
