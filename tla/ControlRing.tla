---------------------------- MODULE ControlRing ----------------------------
(***************************************************************************)
(* The shared control region between the clients (GPU warp leaders and     *)
(* host threads of the application process) and the daemon's dispatcher:   *)
(* the request ring, the completion slot paired with every ticket, the     *)
(* admission word that fail_all closes, and the dispatcher's poll_once and *)
(* fail_all.  Sources: host_service/control_layout.hpp (the ring),         *)
(* cuda_runtime/device/hbf_device.cu (device clients),                     *)
(* cuda_runtime/context.cpp (host clients),                                *)
(* host_service/request_dispatcher.cpp (the dispatcher).                   *)
(*                                                                         *)
(* A request's payload is abstracted to the client that issued it.  A load *)
(* of a cursor followed by a compare-exchange that re-validates it is one  *)
(* step; every other pair of shared accesses is two.                       *)
(***************************************************************************)
EXTENDS Integers, FiniteSets

CONSTANTS DeviceClients,  \* warp leaders that call resolve_leader
          HostClients,    \* host threads that call enqueue_with_deadline
          Capacity,       \* ring_capacity
          GpuExclusive,   \* producer_mode = kProducerModeGpuExclusive
          MaxRequests,    \* bound on the requests issued in a behaviour
          MayTimeOut,     \* whether a client's deadline may pass
          MayCrash        \* whether the daemon process may die

Clients == DeviceClients \cup HostClients
MaxActions == 2           \* size of PreparedDispatch::media_actions

ASSUME ClientsAssumption ==
  /\ IsFiniteSet(DeviceClients) /\ IsFiniteSet(HostClients)
  /\ DeviceClients \cap HostClients = {}
ASSUME CapacityAssumption == Capacity \in Nat /\ Capacity >= 2
ASSUME SwitchesAssumption ==
  /\ GpuExclusive \in BOOLEAN /\ MayTimeOut \in BOOLEAN /\ MayCrash \in BOOLEAN
  /\ MaxRequests \in Nat
  /\ GpuExclusive => HostClients = {}

VARIABLES
  closed,       \* the closed bit of header->admission_state
  admitted,     \* the count bits of header->admission_state
  deviceCount,  \* DeviceTimingState::admission_count (GPU-exclusive mode)
  producer,     \* request_producer
  consumer,     \* request_consumer
  request,      \* request slots:    [sequence, client]
  completion,   \* completion slots: [sequence, client]
  fault,        \* header->fault: "none", "io" (fail_all), "lost" (the parent)
  pc,           \* where each client is
  ticket,       \* the ticket each client holds
  observed,     \* what the liveness poll of a waiting client saw
  daemon,       \* where the dispatcher is
  groups,       \* groups_by_ticket_: [ticket, client, left]
  issued        \* requests issued so far (bounds the model)

ringVars   == <<closed, admitted, deviceCount, producer, consumer, request,
                completion, fault>>
clientVars == <<pc, ticket, observed, issued>>
daemonVars == <<daemon, groups>>
vars       == <<ringVars, clientVars, daemonVars>>

Slot(t) == t % Capacity

(***************************************************************************)
(* Client states.  A client Inside holds one count of the admission word.  *)
(***************************************************************************)
Inside == {"reserving", "checked", "claimed", "written", "stored"}

TypeOK ==
  /\ closed \in BOOLEAN
  /\ admitted \in Nat /\ deviceCount \in Nat
  /\ producer \in Nat /\ consumer \in Nat /\ issued \in Nat
  /\ request \in [0..(Capacity - 1) ->
                    [sequence : Nat, client : Clients \cup {"none"}]]
  /\ completion \in [0..(Capacity - 1) ->
                       [sequence : Nat, client : Clients \cup {"none"}]]
  /\ fault \in {"none", "io", "lost"}
  /\ pc \in [Clients -> Inside \cup
               {"idle", "retry", "pushing", "waiting", "recheck", "reading"}]
  /\ ticket \in [Clients -> Nat]
  /\ observed \in [Clients -> {"none", "Timeout", "io", "lost"}]
  /\ daemon \in {"popping", "preparing", "completing", "closing", "quiescing",
                 "draining", "failing", "faulted", "dead"}
  /\ groups \subseteq [ticket : Nat, client : Clients \cup {"none"},
                       left : 0..MaxActions]

Init ==
  /\ closed = FALSE /\ admitted = 0 /\ deviceCount = 0
  /\ producer = 0 /\ consumer = 0 /\ issued = 0
  /\ request = [i \in 0..(Capacity - 1) |-> [sequence |-> i, client |-> "none"]]
  /\ completion = [i \in 0..(Capacity - 1) |->
                     [sequence |-> i, client |-> "none"]]
  /\ fault = "none"
  /\ pc = [c \in Clients |-> "idle"]
  /\ ticket = [c \in Clients |-> 0]
  /\ observed = [c \in Clients |-> "none"]
  /\ daemon = "popping" /\ groups = {}

(***************************************************************************)
(* Admission.  In GPU-exclusive mode the count lives in device memory,     *)
(* where no one ever sets the closed bit.                                  *)
(***************************************************************************)
(* Mutants, used only to show that the properties can fail, are named for   *)
(* the mistake they make and stand before the definition they change.       *)
EnterWhenClosed ==
  IF GpuExclusive
  THEN deviceCount' = deviceCount + 1 /\ UNCHANGED admitted
  ELSE admitted' = admitted + 1 /\ UNCHANGED deviceCount

Enter ==
  IF GpuExclusive
  THEN deviceCount' = deviceCount + 1 /\ UNCHANGED admitted
  ELSE ~closed /\ admitted' = admitted + 1 /\ UNCHANGED deviceCount

Leave ==
  IF GpuExclusive
  THEN deviceCount' = deviceCount - 1 /\ UNCHANGED admitted
  ELSE admitted' = admitted - 1 /\ UNCHANGED deviceCount

Goto(c, where) == pc' = [pc EXCEPT ![c] = where]

(* the call returns and its locals die; which status it returns is data *)
Return(c) ==
  /\ Goto(c, "idle")
  /\ ticket' = [ticket EXCEPT ![c] = 0]
  /\ observed' = [observed EXCEPT ![c] = "none"]

SlotFree(t) ==
  request[Slot(t)].sequence = t /\ completion[Slot(t)].sequence = t

(* reserve_request: the gate of a device client *)
DeviceEnter(c) ==
  /\ pc[c] = "idle" /\ issued < MaxRequests
  /\ issued' = issued + 1
  /\ Enter /\ Goto(c, "reserving")
  /\ UNCHANGED <<closed, producer, consumer, request, completion, fault,
                 ticket, observed, daemonVars>>

DeviceRefused(c) ==
  /\ pc[c] = "idle" /\ issued < MaxRequests
  /\ closed /\ ~GpuExclusive
  /\ issued' = issued + 1
  /\ Return(c)
  /\ UNCHANGED <<ringVars, daemonVars>>

(* the closed bit of the header is re-read before every look at the slots *)
DeviceCheckOpen(c) ==
  /\ pc[c] = "reserving" /\ ~closed
  /\ Goto(c, "checked")
  /\ UNCHANGED <<ringVars, ticket, observed, issued, daemonVars>>

DeviceCheckClosedStaysIn(c) ==
  /\ pc[c] = "reserving" /\ closed
  /\ Return(c)
  /\ UNCHANGED <<ringVars, issued, daemonVars>>

DeviceCheckClosed(c) ==
  /\ pc[c] = "reserving" /\ closed
  /\ Leave /\ Return(c)
  /\ UNCHANGED <<closed, producer, consumer, request, completion, fault,
                 issued, daemonVars>>

(* poll_liveness: a deadline, the fault word, or a heartbeat that stopped.  *)
(* Polls of a dead daemon before its heartbeat is stale change nothing.     *)
LivenessFails == MayTimeOut \/ fault # "none" \/ daemon = "dead"

DeviceFullRetries(c) ==
  /\ pc[c] = "checked" /\ c \in DeviceClients /\ ~SlotFree(producer)
  /\ fault = "none" /\ daemon # "dead"
  /\ Goto(c, "reserving")
  /\ UNCHANGED <<ringVars, ticket, observed, issued, daemonVars>>

DeviceFullGivesUp(c) ==
  /\ pc[c] = "checked" /\ c \in DeviceClients /\ ~SlotFree(producer)
  /\ LivenessFails
  /\ Leave /\ Return(c)
  /\ UNCHANGED <<closed, producer, consumer, request, completion, fault,
                 issued, daemonVars>>

(***************************************************************************)
(* enqueue_with_deadline: a host client polls the daemon, tries to push,   *)
(* and backs off.  process_status records the death of the daemon.         *)
(***************************************************************************)
NoteDaemonExit ==
  fault' = IF fault = "none" /\ daemon = "dead" THEN "lost" ELSE fault

HostBegin(c) ==
  /\ pc[c] = "idle" /\ issued < MaxRequests
  /\ issued' = issued + 1
  /\ Goto(c, "retry")
  /\ UNCHANGED <<ringVars, ticket, observed, daemonVars>>

HostPollsLiveness(c) ==
  /\ pc[c] = "retry"
  /\ NoteDaemonExit
  /\ IF fault' = "none"
     THEN Goto(c, "pushing") /\ UNCHANGED <<ticket, observed>>
     ELSE Return(c)
  /\ UNCHANGED <<closed, admitted, deviceCount, producer, consumer, request,
                 completion, issued, daemonVars>>

HostEnter(c) ==
  /\ pc[c] = "pushing"
  /\ Enter /\ Goto(c, "checked")
  /\ UNCHANGED <<closed, producer, consumer, request, completion, fault,
                 ticket, observed, issued, daemonVars>>

HostRefused(c) ==
  /\ pc[c] = "pushing" /\ closed
  /\ Goto(c, "retry")
  /\ UNCHANGED <<ringVars, ticket, observed, issued, daemonVars>>

HostFull(c) ==
  /\ pc[c] = "checked" /\ c \in HostClients /\ ~SlotFree(producer)
  /\ Leave /\ Goto(c, "retry")
  /\ UNCHANGED <<closed, producer, consumer, request, completion, fault,
                 ticket, observed, issued, daemonVars>>

HostTimesOut(c) ==
  /\ MayTimeOut
  /\ \/ pc[c] = "retry"
     \/ /\ pc[c] = "waiting" /\ c \in HostClients
        /\ completion[Slot(ticket[c])].sequence # ticket[c] + 1
  /\ Return(c)
  /\ UNCHANGED <<ringVars, issued, daemonVars>>

(***************************************************************************)
(* The push itself, the same for both kinds of client: win the cursor,     *)
(* write the slot, release its sequence, leave admission.                  *)
(***************************************************************************)
Claim(c) ==
  /\ pc[c] = "checked" /\ SlotFree(producer)
  /\ producer' = producer + 1
  /\ ticket' = [ticket EXCEPT ![c] = producer]
  /\ Goto(c, "claimed")
  /\ UNCHANGED <<closed, admitted, deviceCount, consumer, request, completion,
                 fault, observed, issued, daemonVars>>

WriteAfterRelease(c) ==
  /\ pc[c] = "claimed"
  /\ request' = [request EXCEPT ![Slot(ticket[c])].sequence = ticket[c] + 1]
  /\ Goto(c, "written")
  /\ UNCHANGED <<closed, admitted, deviceCount, producer, consumer, completion,
                 fault, ticket, observed, issued, daemonVars>>

WriteRequest(c) ==
  /\ pc[c] = "claimed"
  /\ request' = [request EXCEPT ![Slot(ticket[c])].client = c]
  /\ Goto(c, "written")
  /\ UNCHANGED <<closed, admitted, deviceCount, producer, consumer, completion,
                 fault, ticket, observed, issued, daemonVars>>

ReleaseRequest(c) ==
  /\ pc[c] = "written"
  /\ request' = [request EXCEPT ![Slot(ticket[c])].sequence = ticket[c] + 1]
  /\ Goto(c, "stored")
  /\ UNCHANGED <<closed, admitted, deviceCount, producer, consumer, completion,
                 fault, ticket, observed, issued, daemonVars>>

LeaveAdmission(c) ==
  /\ pc[c] = "stored"
  /\ Leave /\ Goto(c, "waiting")
  /\ UNCHANGED <<closed, producer, consumer, request, completion, fault,
                 ticket, observed, issued, daemonVars>>

(***************************************************************************)
(* wait_for_completion.  A failed liveness poll is followed by one more    *)
(* look at the slot before the client gives its ticket up.                 *)
(***************************************************************************)
Answered(c) == completion[Slot(ticket[c])].sequence = ticket[c] + 1

SeesCompletion(c) ==
  /\ pc[c] \in {"waiting", "recheck"} /\ Answered(c)
  /\ Goto(c, "reading")
  /\ UNCHANGED <<ringVars, ticket, observed, issued, daemonVars>>

ConsumeCompletion(c) ==
  /\ pc[c] = "reading"
  /\ Return(c)
  /\ completion' = [completion EXCEPT
                      ![Slot(ticket[c])].sequence = ticket[c] + Capacity]
  /\ UNCHANGED <<closed, admitted, deviceCount, producer, consumer, request,
                 fault, issued, daemonVars>>

WaitIgnoresHeartbeat(c) ==
  /\ pc[c] = "waiting" /\ ~Answered(c)
  /\ IF c \in HostClients THEN NoteDaemonExit ELSE UNCHANGED fault
  /\ fault' # "none" /\ observed' = [observed EXCEPT ![c] = fault']
  /\ Goto(c, "recheck")
  /\ UNCHANGED <<closed, admitted, deviceCount, producer, consumer, request,
                 completion, ticket, issued, daemonVars>>

WaitObservesFault(c) ==
  /\ pc[c] = "waiting" /\ ~Answered(c)
  /\ IF c \in HostClients THEN NoteDaemonExit ELSE UNCHANGED fault
  /\ \/ fault' # "none" /\ observed' = [observed EXCEPT ![c] = fault']
     \/ /\ fault' = "none" /\ daemon = "dead"
        /\ observed' = [observed EXCEPT ![c] = "lost"]
     \/ /\ c \in DeviceClients /\ MayTimeOut
        /\ observed' = [observed EXCEPT ![c] = "Timeout"]
  /\ Goto(c, "recheck")
  /\ UNCHANGED <<closed, admitted, deviceCount, producer, consumer, request,
                 completion, ticket, issued, daemonVars>>

AbandonTicket(c) ==
  /\ pc[c] = "recheck" /\ ~Answered(c)
  /\ Return(c)
  /\ UNCHANGED <<ringVars, issued, daemonVars>>

(***************************************************************************)
(* RequestDispatcher::poll_once.  Every queued request is popped, prepared *)
(* into at most MaxActions media actions and submitted (or answered at     *)
(* once when it needs none); then the engine is run until every group is   *)
(* answered.  left is the number of media actions not yet completed.       *)
(***************************************************************************)
PublishSequenceOnly(g) ==
  completion' = [completion EXCEPT ![Slot(g.ticket)].sequence = g.ticket + 1]

Publish(g) ==
  completion' = [completion EXCEPT
                   ![Slot(g.ticket)] = [sequence |-> g.ticket + 1,
                                        client |-> g.client]]

CanPublish(g) == completion[Slot(g.ticket)].sequence = g.ticket

Queued == request[Slot(consumer)].sequence = consumer + 1

(* try_pop_request, and the group emplaced for the popped request *)
TakeRequest(left) ==
  /\ Queued
  /\ groups' = groups \cup {[ticket |-> consumer,
                             client |-> request[Slot(consumer)].client,
                             left   |-> left]}
  /\ request' = [request EXCEPT ![Slot(consumer)].sequence = consumer + Capacity]
  /\ consumer' = consumer + 1
  /\ UNCHANGED <<closed, admitted, deviceCount, producer, completion, fault>>

PopRequest ==
  /\ daemon = "popping"
  /\ \E left \in 0..MaxActions : TakeRequest(left)
  /\ daemon' = "preparing"
  /\ UNCHANGED clientVars

Newest == {g \in groups : g.ticket = consumer - 1}

SubmitPrepared ==
  /\ daemon = "preparing"
  /\ \E g \in Newest : g.left # 0
  /\ daemon' = "popping"
  /\ UNCHANGED <<ringVars, clientVars, groups>>

AnswerPrepared ==
  /\ daemon = "preparing"
  /\ \E g \in Newest :
       /\ g.left = 0
       /\ IF CanPublish(g)
          THEN /\ Publish(g)
               /\ groups' = groups \ {g} /\ daemon' = "popping"
          ELSE daemon' = "closing" /\ UNCHANGED <<completion, groups>>
  /\ UNCHANGED <<closed, admitted, deviceCount, producer, consumer, request,
                 fault, clientVars>>

RunEngine ==
  /\ daemon = "popping" /\ ~Queued /\ groups # {}
  /\ daemon' = "completing"
  /\ UNCHANGED <<ringVars, clientVars, groups>>

(* run_next_completion returned the current action of g *)
ActionCompletes(g) ==
  /\ daemon = "completing" /\ g.left > 1
  /\ groups' = (groups \ {g}) \cup {[g EXCEPT !.left = @ - 1]}
  /\ UNCHANGED <<ringVars, clientVars, daemon>>

GroupCompletes(g) ==
  /\ daemon = "completing" /\ g.left = 1
  /\ IF CanPublish(g)
     THEN /\ Publish(g)
          /\ groups' = groups \ {g}
          /\ daemon' = IF groups' = {} THEN "popping" ELSE "completing"
     ELSE daemon' = "closing" /\ UNCHANGED <<completion, groups>>
  /\ UNCHANGED <<closed, admitted, deviceCount, producer, consumer, request,
                 fault, clientVars>>

(* prepare asks for fail_all, submit throws, the engine throws, runs dry or *)
(* answers with a status other than Ready                                   *)
EngineFails ==
  /\ daemon \in {"preparing", "completing"}
  /\ daemon' = "closing"
  /\ UNCHANGED <<ringVars, clientVars, groups>>

(***************************************************************************)
(* RequestDispatcher::fail_all                                             *)
(***************************************************************************)
CloseAdmission ==
  /\ daemon = "closing"
  /\ closed' = TRUE /\ daemon' = "quiescing"
  /\ UNCHANGED <<admitted, deviceCount, producer, consumer, request,
                 completion, fault, clientVars, groups>>

Quiesced ==
  /\ daemon = "quiescing" /\ admitted = 0
  /\ daemon' = "draining"
  /\ UNCHANGED <<ringVars, clientVars, groups>>

DrainRequest ==
  /\ daemon = "draining"
  /\ TakeRequest(0)
  /\ UNCHANGED <<daemon, clientVars>>

Drained ==
  /\ daemon = "draining" /\ ~Queued
  /\ daemon' = "failing"
  /\ UNCHANGED <<ringVars, clientVars, groups>>

FailGroupSilently(g) ==
  /\ daemon = "failing"
  /\ groups' = groups \ {g}
  /\ UNCHANGED <<ringVars, clientVars, daemon>>

FailGroup(g) ==
  /\ daemon = "failing"
  /\ IF CanPublish(g) THEN Publish(g) ELSE UNCHANGED completion
  /\ groups' = groups \ {g}
  /\ UNCHANGED <<closed, admitted, deviceCount, producer, consumer, request,
                 fault, clientVars, daemon>>

RaiseFaultFirst ==
  /\ daemon = "failing" /\ fault = "none"
  /\ fault' = "io"
  /\ daemon' = IF groups = {} THEN "faulted" ELSE "failing"
  /\ UNCHANGED <<closed, admitted, deviceCount, producer, consumer, request,
                 completion, clientVars, groups>>

RaiseFault ==
  /\ daemon = "failing" /\ groups = {}
  /\ fault' = "io" /\ daemon' = "faulted"
  /\ UNCHANGED <<closed, admitted, deviceCount, producer, consumer, request,
                 completion, clientVars, groups>>

(* the daemon process dies; its memory (groups) dies with it *)
DaemonDies ==
  /\ MayCrash /\ daemon \notin {"dead", "faulted"}
  /\ daemon' = "dead" /\ groups' = {}
  /\ UNCHANGED <<ringVars, clientVars>>

DeviceStep(c) ==
  \/ DeviceCheckOpen(c) \/ DeviceCheckClosed(c)
  \/ DeviceFullRetries(c) \/ DeviceFullGivesUp(c)

HostStep(c) ==
  \/ HostPollsLiveness(c) \/ HostEnter(c) \/ HostRefused(c) \/ HostFull(c)
  \/ HostTimesOut(c)

PushStep(c) ==
  \/ Claim(c) \/ WriteRequest(c) \/ ReleaseRequest(c) \/ LeaveAdmission(c)

WaitStep(c) ==
  \/ SeesCompletion(c) \/ ConsumeCompletion(c)
  \/ WaitObservesFault(c) \/ AbandonTicket(c)

DispatchStep ==
  \/ PopRequest \/ SubmitPrepared \/ AnswerPrepared \/ RunEngine
  \/ \E g \in groups : ActionCompletes(g) \/ GroupCompletes(g)

FailStep ==
  \/ CloseAdmission \/ Quiesced \/ DrainRequest \/ Drained
  \/ \E g \in groups : FailGroup(g)
  \/ RaiseFault

Next ==
  \/ \E c \in DeviceClients : DeviceEnter(c) \/ DeviceRefused(c) \/ DeviceStep(c)
  \/ \E c \in HostClients : HostBegin(c) \/ HostStep(c)
  \/ \E c \in Clients : PushStep(c) \/ WaitStep(c)
  \/ DispatchStep \/ EngineFails \/ FailStep \/ DaemonDies

(***************************************************************************)
(* Fairness: a thread inside a library call keeps running (a resident warp *)
(* and a host thread are both scheduled), and so does the daemon while it  *)
(* lives.  Nothing forces a client to issue, a deadline to pass, the       *)
(* engine to fail or the daemon to die.                                    *)
(***************************************************************************)
Fairness ==
  /\ \A c \in DeviceClients : WF_vars(DeviceStep(c))
  /\ \A c \in HostClients : WF_vars(HostStep(c))
  /\ \A c \in Clients : WF_vars(PushStep(c)) /\ WF_vars(WaitStep(c))
  /\ WF_vars(DispatchStep) /\ WF_vars(FailStep)

Spec == Init /\ [][Next]_vars
FairSpec == Spec /\ Fairness

(***************************************************************************)
(* Properties                                                              *)
(***************************************************************************)
Holding == {"stored", "waiting", "recheck", "reading"}

(* The re-check in wait_for_completion is decisive: a waiter whose poll saw *)
(* the fault word of fail_all finds its own terminal completion, and never  *)
(* reports a DaemonLost that it made up.                                    *)
FaultObserverFindsAnswer ==
  \A c \in Clients : pc[c] = "recheck" /\ observed[c] = "io" => Answered(c)

(* A request is never lost or duplicated between the ring, the dispatcher   *)
(* and the completion slot: while the daemon lives, the ticket a client     *)
(* holds is in exactly one of the three.                                    *)
TicketHasOneHome ==
  daemon # "dead" =>
    \A c \in Clients : pc[c] \in Holding =>
      LET queued  == /\ ticket[c] >= consumer
                     /\ request[Slot(ticket[c])].sequence = ticket[c] + 1
          grouped == \E g \in groups : g.ticket = ticket[c]
      IN  Cardinality({h \in {<<"queued", queued>>, <<"grouped", grouped>>,
                              <<"answered", Answered(c)>>} : h[2]}) = 1

(* A client that finds its slot answered reads the answer to its own        *)
(* request: neither an abandoned ticket nor a wrapped ring hands it another *)
(* client's completion.                                                     *)
AnswerIsMine ==
  \A c \in Clients :
    pc[c] \in Holding /\ Answered(c) => completion[Slot(ticket[c])].client = c

(* The plain (non-atomic) slot payloads have one owner at a time: two       *)
(* clients never write one request slot, the dispatcher cannot pop a slot   *)
(* that is being written, and it cannot publish over a completion that is   *)
(* being read.                                                              *)
SlotsHaveOneOwner ==
  /\ \A c \in Clients : pc[c] \in {"claimed", "written"} =>
       /\ \A d \in Clients \ {c} : pc[d] \in {"claimed", "written"} =>
                                     Slot(ticket[c]) # Slot(ticket[d])
       /\ Slot(consumer) = Slot(ticket[c]) => ~Queued
  /\ \A c \in Clients, g \in groups :
       pc[c] = "reading" /\ Slot(g.ticket) = Slot(ticket[c]) => ~CanPublish(g)

(* fail_all drains a quiet ring: from the moment it starts popping, no      *)
(* client is inside admission, so nothing can be queued behind its back.    *)
DrainIsQuiet ==
  daemon \in {"draining", "failing", "faulted"} =>
    \A c \in Clients : pc[c] \notin Inside

(* fail_all finishes: the clients it waits for notice the closed bit and    *)
(* leave, even those that were spinning on a full ring.                     *)
FailAllFinishes == daemon = "closing" ~> daemon \in {"faulted", "dead"}

(* No request hangs: without any deadline passing, every call returns, be   *)
(* it with an answer, with a fault or because the daemon died.              *)
EveryRequestReturns ==
  \A c \in Clients : pc[c] # "idle" ~> pc[c] = "idle"
=============================================================================
