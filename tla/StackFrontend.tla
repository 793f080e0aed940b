--------------------------- MODULE StackFrontend ---------------------------
(***************************************************************************)
(* The frontend of one HBF stack: it accepts 64-byte reads, sends them     *)
(* over the link of their host module, groups them with the coalescer in   *)
(* front of the media, returns the responses in AXI order and lets the     *)
(* caller cancel a read or give it a deadline at any time.                 *)
(*                                                                         *)
(* One thread owns a frontend.  A call is one action, and so is one        *)
(* iteration of advance_until: which of media, deadlines and links has the *)
(* next event is left open, as the profile's timing is.  A link is what    *)
(* LinkChannel promises, reduced to this caller: reads are sent in order   *)
(* of arrival.  Address resolution and the proof of the native flash       *)
(* command are left out; every read is of a registered page.               *)
(***************************************************************************)
EXTENDS DeviceReadCoalescer

CONSTANTS Reads,        \* 1..n: the caller numbers its reads
          ModuleOf,     \* the host module of a read
          AxiOf,        \* its AXI identifier
          PageOf,       \* its page
          MaxAccepted,  \* per module
          Window,       \* responses the host side of a link has room for
          MayCancel,    \* reads the caller may cancel
          HasDeadline,  \* reads with a deadline
          MediaFails    \* can a media read fail

ASSUME FrontendAssumption ==
  /\ Reads = 1..Cardinality(Reads)
  /\ \A r \in Reads : PageOf[r] \in Keys
  /\ MayCancel \subseteq Reads /\ HasDeadline \subseteq Reads
  /\ MediaFails \in BOOLEAN
  /\ MaxGroups = MaxAccepted * Cardinality({ModuleOf[r] : r \in Reads})

Modules == {ModuleOf[r] : r \in Reads}
Axis    == {AxiOf[r] : r \in Reads}
Dirs    == {"Request", "Return"}
Results == {"Ready", "BackendError", "Cancelled", "TimedOut"}

VARIABLES front         \* the members of StackFrontend, as one record
vars == front

Unused == [active |-> FALSE, group |-> 0, result |-> "Ready", ar_delivered |-> FALSE,
           media_done |-> FALSE, r_enqueued |-> FALSE, r_delivered |-> FALSE,
           r_consumed |-> FALSE, caller_delivered |-> FALSE,
           caller_consumed |-> FALSE, detached |-> FALSE]

Init ==
  front =
    [co        |-> CoInit,
     state     |-> [r \in Reads |-> Unused],
     submitted |-> 0,                         \* reads that were accepted
     same_id   |-> [m \in Modules |-> [a \in Axis |-> <<>>]],
     r_order   |-> [m \in Modules |-> [a \in Axis |-> <<>>]],
     line      |-> [m \in Modules |-> [d \in Dirs |-> <<>>]],
     arrived   |-> [m \in Modules |-> {}],    \* responses not yet consumed
     leaving   |-> [m \in Modules |-> [d \in Dirs |-> {}]],
     ready     |-> <<>>,
     deadlines |-> {},
     consumed_pending |-> {},
     outstanding |-> [m \in Modules |-> 0],
     failed    |-> FALSE]                     \* a logic_error was thrown

(* The links.                                                              *)
EnqueueOn(f, d, r) == [f EXCEPT !.line[ModuleOf[r]][d] = Append(@, r)]
ConsumeRequest(f, r) == [f EXCEPT !.leaving[ModuleOf[r]]["Request"] = @ \cup {r}]
ConsumeReturn(f, r) ==
  [f EXCEPT !.arrived[ModuleOf[r]] = @ \ {r},
            !.leaving[ModuleOf[r]]["Return"] = @ \cup {r}]
MessageActive(f, d, r) ==
  LET m == ModuleOf[r]
  IN  \/ r \in ToSet(f.line[m][d]) \cup f.leaving[m][d]
      \/ d = "Return" /\ r \in f.arrived[m]

start_nothing(f) == f
start_media(f) == [f EXCEPT !.co = take_submittable(@)]

present(f, r) ==
  IF f.state[r].caller_delivered THEN f
  ELSE [f EXCEPT !.state[r].caller_delivered = TRUE, !.ready = Append(@, r)]

MustWaitForMedia(f, r) ==
  f.state[r].result = "Ready" /\ (~f.state[r].ar_delivered \/ ~f.state[r].media_done)

(* release_same_id: reads of one AXI identifier answer in the order of     *)
(* their submission; the loop stops at the first that has to wait.         *)
MustWait(f, r) ==
  IF f.state[r].result = "Ready"
  THEN ~f.state[r].ar_delivered \/ ~f.state[r].media_done
  ELSE f.r_order[ModuleOf[r]][AxiOf[r]] # <<>>

ReleaseOne(f, r) ==
  LET m == ModuleOf[r]
      a == AxiOf[r]
      q == [f EXCEPT !.same_id[m][a] = Tail(@)]
  IN  IF f.state[r].result = "Ready"
      THEN [EnqueueOn(q, "Return", r) EXCEPT !.state[r].r_enqueued = TRUE,
                                             !.r_order[m][a] = Append(@, r)]
      ELSE present(q, r)

release_same_id(f, m, a) ==
  FoldLeft(LAMBDA g, r : IF g.same_id[m][a] = <<>> \/ Head(g.same_id[m][a]) # r
                            \/ MustWait(g, r)
                         THEN g ELSE ReleaseOne(g, r),
           f, f.same_id[m][a])

RetiredBeforeReturn(f, r) ==
  LET s == f.state[r]
  IN  /\ s.active /\ s.caller_consumed /\ s.ar_delivered
      /\ s.group = 0 \/ s.media_done
      /\ ~MessageActive(f, "Request", r)
RetiredOnLink(f, r) ==
  LET s == f.state[r]
  IN  /\ s.active /\ s.caller_consumed /\ s.ar_delivered
      /\ s.group = 0 \/ s.media_done
      /\ ~s.r_enqueued \/ s.r_consumed

(* maybe_erase and sweep_retired.                                          *)
Retired(f, r) ==
  LET s == f.state[r]
  IN  /\ s.active /\ s.caller_consumed /\ s.ar_delivered
      /\ s.group = 0 \/ s.media_done
      /\ ~s.r_enqueued \/ s.r_consumed
      /\ ~MessageActive(f, "Request", r) /\ ~MessageActive(f, "Return", r)

maybe_erase_leaks(f, r) ==
  IF ~Retired(f, r) THEN f
  ELSE [f EXCEPT !.consumed_pending = @ \ {r}, !.state[r].active = FALSE]

maybe_erase(f, r) ==
  IF ~Retired(f, r) THEN f
  ELSE [f EXCEPT !.outstanding[ModuleOf[r]] = @ - 1,
                 !.consumed_pending = @ \ {r},
                 !.state[r].active = FALSE]

sweep_retired(f) == FoldSet(LAMBDA r, g : maybe_erase(g, r), f, f.consumed_pending)
-----------------------------------------------------------------------------
(* Handlers.                                                               *)
RequestDelivered(f, r) ==
  LET m == ModuleOf[r]
      a == AxiOf[r]
      g == ConsumeRequest([f EXCEPT !.state[r].ar_delivered = TRUE,
                                    !.failed = ~f.state[r].active], r)
      arrival == arrive(g.co, r, PageOf[r])
      h == [g EXCEPT !.co = arrival.co,
                     !.state[r].group = arrival.token,
                     !.state[r].media_done = @ \/ arrival.hit,
                     !.failed = @ \/ arrival.token = 0]
  IN  IF g.state[r].result # "Ready"
      THEN maybe_erase(release_same_id(g, m, a), r)
      ELSE IF arrival.hit THEN release_same_id(h, m, a) ELSE start_media(h)

(* A response for a caller that has given up is consumed at once.          *)
ConsumeForCaller(f, r) ==
  [ConsumeReturn(f, r) EXCEPT !.co = consume(@, r), !.state[r].r_consumed = TRUE]

ReturnDelivered(f, r) ==
  LET m == ModuleOf[r]
      a == AxiOf[r]
      g == [f EXCEPT !.failed = \/ ~f.state[r].active
                                 \/ f.r_order[m][a] = <<>>
                                 \/ Head(f.r_order[m][a]) # r,
                     !.r_order[m][a] = Tail(@),
                     !.arrived[m] = @ \cup {r},
                     !.state[r].r_delivered = TRUE]
      h == present(IF g.state[r].result # "Ready" THEN ConsumeForCaller(g, r) ELSE g, r)
      next == IF h.r_order[m][a] = <<>> THEN {} ELSE {Head(h.r_order[m][a])}
      i == FoldSet(LAMBDA n, k : IF k.state[n].result # "Ready" THEN present(k, n) ELSE k,
                   h, next)
  IN  maybe_erase(release_same_id(i, m, a), r)

mark_terminal(f, r, reason) ==
  LET s  == f.state[r]
      m  == ModuleOf[r]
      a  == AxiOf[r]
      g  == [f EXCEPT !.state[r].result = reason]
      h  == IF s.group = 0 \/ s.r_enqueued \/ s.detached THEN g
            ELSE start_media([g EXCEPT
                    !.co = detach(@, r),
                    !.state[r].detached = TRUE,
                    !.state[r].media_done = @ \/ ~StillAtMedia(g.co, r)])
      i  == IF s.r_delivered /\ ~s.r_consumed THEN ConsumeForCaller(h, r) ELSE h
  IN  IF s.caller_consumed \/ s.result # "Ready" THEN f
      ELSE IF ~s.r_enqueued THEN release_same_id(i, m, a)
      ELSE IF s.r_delivered \/ (i.r_order[m][a] # <<>> /\ Head(i.r_order[m][a]) = r)
      THEN present(i, r) ELSE i

handle_media(f, t, success) ==
  LET done == [f EXCEPT !.co = complete(@, t, success)]
      One(g, r) ==
        IF ~g.state[r].active \/ g.state[r].group # t THEN g
        ELSE release_same_id(
               [g EXCEPT !.state[r].media_done = TRUE,
                         !.state[r].result = IF ~success /\ @ = "Ready"
                                             THEN "BackendError" ELSE @],
               ModuleOf[r], AxiOf[r])
  IN  start_media(sweep_retired(FoldLeft(One, done, [r \in Reads |-> r])))
-----------------------------------------------------------------------------
(* Calls and iterations.                                                   *)
try_submit(r) ==
  LET m == ModuleOf[r]
  IN  /\ r = front.submitted + 1
      /\ front.outstanding[m] < MaxAccepted
      /\ front' = [EnqueueOn(front, "Request", r) EXCEPT
                     !.state[r].active = TRUE,
                     !.submitted = r,
                     !.same_id[m][AxiOf[r]] = Append(@, r),
                     !.deadlines = IF r \in HasDeadline THEN @ \cup {r} ELSE @,
                     !.outstanding[m] = @ + 1]

cancel(r) ==
  /\ r \in MayCancel /\ front.state[r].active
  /\ front' = mark_terminal(front, r, "Cancelled")

consume_completion(r) ==
  LET s == front.state[r]
      f == [front EXCEPT !.ready = Remove(@, r)]
      g == IF ~s.r_consumed /\ s.r_delivered THEN start_media(ConsumeForCaller(f, r)) ELSE f
      h == maybe_erase([g EXCEPT !.state[r].caller_consumed = TRUE,
                                 !.deadlines = @ \ {r}], r)
  IN  /\ r \in ToSet(front.ready)
      /\ front' = [h EXCEPT !.consumed_pending = IF h.state[r].active THEN @ \cup {r} ELSE @]

AtMedia(t) == front.co.groups[t].phase = "Submitted"

MediaCompletes(t, success) ==
  /\ AtMedia(t)
  /\ front' = handle_media(front, t, success)

DeadlineExpires(r) ==
  /\ r \in front.deadlines
  /\ front' = LET f == [front EXCEPT !.deadlines = @ \ {r}]
              IN  sweep_retired(IF f.state[r].active THEN mark_terminal(f, r, "TimedOut")
                                ELSE f)

CanDeliver(m, d) ==
  /\ front.line[m][d] # <<>>
  /\ d = "Return" => Cardinality(front.arrived[m]) < Window

LinkDelivers(m, d) ==
  /\ CanDeliver(m, d)
  /\ LET r == Head(front.line[m][d])
         f == [front EXCEPT !.line[m][d] = Tail(@)]
     IN  front' = sweep_retired(IF d = "Request" THEN RequestDelivered(f, r)
                                ELSE ReturnDelivered(f, r))

(* A consumed message leaves the link at a later step of it.               *)
LinkReleases(m, d) ==
  /\ front.leaving[m][d] # {}
  /\ front' = sweep_retired([front EXCEPT !.leaving[m][d] = {}])

Advance ==
  \/ \E t \in Tokens : MediaCompletes(t, TRUE)
  \/ MediaFails /\ \E t \in Tokens : MediaCompletes(t, FALSE)
  \/ \E r \in Reads : DeadlineExpires(r)
  \/ \E m \in Modules, d \in Dirs : LinkDelivers(m, d) \/ LinkReleases(m, d)

Working == ~front.failed /\ ~front.co.failed

Next ==
  /\ Working
  /\ \/ \E r \in Reads : try_submit(r) \/ cancel(r) \/ consume_completion(r)
     \/ Advance

Spec == Init /\ [][Next]_vars

(* advance_until runs every event up to its horizon, and the caller takes  *)
(* the answers it is shown.  Each conjunct is weak fairness, with the      *)
(* enabling condition of its action written out; after a logic_error       *)
(* nothing is enabled, and whatever was to happen never does.              *)
CanAdvance ==
  \/ \E t \in Tokens : AtMedia(t)
  \/ front.deadlines # {}
  \/ \E m \in Modules, d \in Dirs : CanDeliver(m, d) \/ front.leaving[m][d] # {}

Fairness ==
  /\ []<>(~Working \/ ~CanAdvance) \/ []<><<Advance>>_vars
  /\ \/ []<>(~Working \/ front.ready = <<>>)
     \/ []<><<\E r \in Reads : consume_completion(r)>>_vars
FairSpec == Spec /\ Fairness
-----------------------------------------------------------------------------
TypeOK ==
  /\ front.submitted \in 0..Cardinality(Reads)
  /\ \A r \in Reads : /\ front.state[r].group \in Tokens \cup {0}
                       /\ front.state[r].result \in Results
  /\ \A m \in Modules :
       front.outstanding[m] =
         Cardinality({r \in Reads : front.state[r].active /\ ModuleOf[r] = m})
  /\ \A m \in Modules : front.outstanding[m] <= MaxAccepted

(* None of the logic_errors of the frontend and of the coalescer is        *)
(* thrown, nor active_.at: a message always finds the state of its read,   *)
(* the R of an AXI identifier come back in the order of r_order, an        *)
(* accepted read always finds room in the coalescer, a response that is    *)
(* consumed has a completed page, a released slot is its group's.          *)
NeverFails == Working

(* With coalescing a page is read once at a time, and never while a slot   *)
(* of its bank still caches it.                                            *)
OneReadPerPage ==
  LET c == front.co
  IN  Coalescing =>
        /\ \A s, t \in Live(c) : c.groups[s].key = c.groups[t].key =>
             s = t \/ (~BufferCache /\ "Ready" \in {c.groups[s].phase, c.groups[t].phase})
        /\ \A t \in Live(c) : CachedSlots(c, c.groups[t].key) = {}

(* From the moment its response is queued until it is consumed, a read     *)
(* keeps its page in the slot, whatever becomes of its caller: the slot is *)
(* not handed to the next miss of the bank.                                *)
PagePinned ==
  \A r \in Reads :
    LET s == front.state[r]
        g == front.co.groups[s.group]
    IN  s.r_enqueued /\ ~s.r_consumed =>
          /\ g.phase = "Ready" /\ g.success /\ g.key = PageOf[r] /\ r \in g.waiters
          /\ front.co.slots[BankOf[g.key]][g.slot].token = s.group

(* Reads with the same module and AXI identifier are answered in the order *)
(* of their submission, errors, cancellations and timeouts included.       *)
AnswersInOrder ==
  \A r \in Reads : \A q \in 1..(r - 1) :
    ModuleOf[q] = ModuleOf[r] /\ AxiOf[q] = AxiOf[r]
      /\ front.state[r].caller_delivered => front.state[q].caller_delivered

(* When no read is active the links are empty and no group is left: there  *)
(* is nothing that drain_until_idle would have to wait for.                *)
NothingLeftBehind ==
  (\A r \in Reads : ~front.state[r].active) =>
    /\ Live(front.co) = {}
    /\ \A m \in Modules :
         /\ front.arrived[m] = {}
         /\ \A d \in Dirs : front.line[m][d] = <<>> /\ front.leaving[m][d] = {}
         /\ \A a \in Axis : front.same_id[m][a] = <<>> /\ front.r_order[m][a] = <<>>

(* A miss waits in the FIFO of its bank only until a slot is released: it  *)
(* is not left there when the media, the links and the caller are done, in *)
(* which state drain_until_idle throws.                                    *)
NoMissStranded ==
  ~CanAdvance /\ front.ready = <<>> =>
    \A t \in Tokens : front.co.groups[t].phase # "Waiting"

(* Every accepted read is answered, and retires once its caller took the   *)
(* answer, if no more than one read is given up.  The bound is the code's: *)
(* when two reads are given up a miss can be left in its FIFO for good, as *)
(* NoMissStranded shows.                                                   *)
EveryReadRetires ==
  \A r \in Reads : front.state[r].active ~> ~front.state[r].active
=============================================================================
