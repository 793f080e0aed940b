------------------------ MODULE CapacityPageService ------------------------
(***************************************************************************)
(* The capacity page service (host_service/capacity_page_service.cpp) with *)
(* the threads that use it: the capacity worker, which resolves pages for  *)
(* the daemon; the thread inside hbfsim_flush, hbfsim_unregister or        *)
(* hbfsim_context_destroy (one at a time: they hold capacity_mutex), which *)
(* flushes; the daemon, which waits for the worker and models the flusher's*)
(* programs; and the GPU, which stores through the frame addresses it was  *)
(* given.  The service's mutex is held from the first to the last step of  *)
(* a resolve, and by flush except while a program is modelled; GPU stores  *)
(* take no lock.                                                           *)
(*                                                                         *)
(* The bytes of a page are its version, the number of GPU stores in it.    *)
(***************************************************************************)
EXTENDS HbmCache

CONSTANTS MaxRequests,   \* bound on the page requests of a behaviour
          MaxFlushes,    \* bound on the flushes of a behaviour
          MayFail,       \* whether copies, I/O and modelled programs may fail
          StoreStale     \* whether a GPU may store through a frame address
                         \* whose page has left the frame

VARIABLES
  mutex,     \* CapacityPageService::mutex_: "free", "worker" or "flusher"
  worker,    \* the resolve call: [pc, page, write, frame, victim, program]
  flusher,   \* the flush call: [pc, scope, todo, ticket, synchronized]
  daemon,    \* "idle", or "waiting" for the worker's answer
  ranged,    \* the pages in resident_range_ids_
  bytes,     \* contents of each frame: [page, version]
  file,      \* version of each page written to its backing file
  disk,      \* version of each page made durable by fdatasync
  newest,    \* version of each page last stored by the GPU
  leases,    \* stores the GPU may still do: [page, frame, generation]
  owed,      \* pages written back whose program is not modelled yet
  promised,  \* newest when the current flush began
  requests, flushes

fileVars == <<bytes, file, disk, newest>>
serviceVars == <<mutex, worker, flusher, daemon, ranged, leases, owed,
                 promised, requests, flushes>>
vars == <<cacheVars, fileVars, serviceVars>>

IdleWorker == [pc |-> "idle", page |-> NoPage, write |-> FALSE,
               frame |-> NoFrame, victim |-> NoTicket, program |-> NoPage]
IdleFlusher == [pc |-> "idle", scope |-> {}, todo |-> {},
                ticket |-> NoTicket, synchronized |-> FALSE]

TypeOK ==
  /\ CacheTypeOK
  /\ mutex \in {"free", "worker", "flusher"}
  /\ worker \in [pc : {"idle", "called", "writeback", "read"},
                 page : Pages \cup {NoPage}, write : BOOLEAN,
                 frame : Frames \cup {NoFrame},
                 victim : CacheEviction \cup {NoTicket},
                 program : Pages \cup {NoPage}]
  /\ flusher \in [pc : {"idle", "scanning", "modelling", "modelled",
                        "Ready", "failed"},
                  scope : SUBSET Pages, todo : SUBSET Pages,
                  ticket : CacheEviction \cup {NoTicket},
                  synchronized : BOOLEAN]
  /\ daemon \in {"idle", "waiting"}
  /\ ranged \subseteq Pages /\ owed \subseteq Pages
  /\ bytes \in [Frames -> [page : Pages \cup {NoPage}, version : Nat]]
  /\ file \in [Pages -> Nat] /\ disk \in [Pages -> Nat]
  /\ newest \in [Pages -> Nat] /\ promised \in [Pages -> Nat]
  /\ leases \subseteq [page : Pages, frame : Frames, generation : Nat]
  /\ requests \in Nat /\ flushes \in Nat

Init ==
  /\ CacheInit
  /\ mutex = "free" /\ worker = IdleWorker /\ flusher = IdleFlusher
  /\ daemon = "idle"
  /\ ranged = {} /\ leases = {} /\ owed = {}
  /\ bytes = [f \in Frames |-> [page |-> NoPage, version |-> 0]]
  /\ file = [p \in Pages |-> 0] /\ disk = [p \in Pages |-> 0]
  /\ newest = [p \in Pages |-> 0] /\ promised = [p \in Pages |-> 0]
  /\ requests = 0 /\ flushes = 0

(***************************************************************************)
(* The daemon hands a page request to the worker and waits for the answer. *)
(***************************************************************************)
HandOff(p, isWrite) ==
  /\ daemon = "idle" /\ worker.pc = "idle" /\ requests < MaxRequests
  /\ daemon' = "waiting" /\ requests' = requests + 1
  /\ worker' = [IdleWorker EXCEPT !.pc = "called", !.page = p,
                                  !.write = isWrite]
  /\ UNCHANGED <<cacheVars, fileVars, mutex, flusher, ranged, leases,
                 owed, promised, flushes>>

(* resolve returns: the daemon publishes the answer, with the media plan *)
Return == worker' = IdleWorker /\ mutex' = "free" /\ daemon' = "idle"

Answer(p, f, isWrite) ==
  /\ Return
  /\ leases' = IF isWrite
               THEN leases \cup {[page |-> p, frame |-> f,
                                 generation |-> generation[f]]}
               ELSE leases

(* the lock is taken and the page found resident, or still evicting *)
ResolveHit ==
  LET p == worker.page IN
  /\ worker.pc = "called" /\ mutex = "free"
  /\ \/ Resolve(p, worker.write) /\ Answer(p, pageToFrame[p], worker.write)
     \/ ~Resident(p) /\ Reclaim(p, worker.write)
        /\ Answer(p, evictingPages[p], worker.write)
  /\ UNCHANGED <<fileVars, flusher, ranged, owed, promised, requests,
                 flushes>>

Missing == ~Resident(worker.page) /\ evictingPages[worker.page] = NoFrame

ResolveUsesFreeFrame ==
  /\ worker.pc = "called" /\ mutex = "free" /\ Missing
  /\ \E f \in FreeFrames :
       /\ \A g \in FreeFrames : f <= g
       /\ worker' = [worker EXCEPT !.pc = "read", !.frame = f]
  /\ mutex' = "worker"
  /\ UNCHANGED <<cacheVars, fileVars, flusher, daemon, ranged, leases,
                 owed, promised, requests, flushes>>

(* every frame is being evicted by the flusher: IoError *)
ResolveFindsNoVictim ==
  /\ worker.pc = "called" /\ mutex = "free" /\ Missing
  /\ FreeFrames = {} /\ Eligible(Pages, FALSE) = {}
  /\ Return
  /\ UNCHANGED <<cacheVars, fileVars, flusher, ranged, leases, owed,
                 promised, requests, flushes>>

ResolveBeginsEviction ==
  LET v == Victim(Eligible(Pages, FALSE)) IN
  /\ worker.pc = "called" /\ mutex = "free" /\ Missing
  /\ FreeFrames = {} /\ BeginEviction(Pages, FALSE)
  /\ worker' = [worker EXCEPT !.pc = "writeback", !.frame = v,
                              !.victim = TicketFor(v)]
  /\ mutex' = "worker"
  /\ UNCHANGED <<fileVars, flusher, daemon, ranged, leases, owed,
                 promised, requests, flushes>>

WritebackOnlyPlanned(e) ==
  owed' = owed \cup {e.page} /\ UNCHANGED fileVars

(* writeback: frame to host, then host to backing file *)
Writeback(e) ==
  /\ file' = [file EXCEPT ![e.page] = bytes[e.frame].version]
  /\ owed' = owed \cup {e.page}
  /\ UNCHANGED <<bytes, disk, newest>>

ResolveEvicts ==
  LET e == worker.victim IN
  /\ worker.pc = "writeback"
  /\ IF e.dirty THEN e.page \in ranged /\ Writeback(e)
     ELSE UNCHANGED <<fileVars, owed>>
  /\ CompleteEviction(e)
  /\ ranged' = ranged \ {e.page}
  /\ worker' = [worker EXCEPT !.pc = "read",
                              !.program = IF e.dirty THEN e.page ELSE NoPage]
  /\ UNCHANGED <<mutex, flusher, daemon, leases, promised, requests,
                 flushes>>

(* the victim has no range, the copy or the write fails: cancel_eviction *)
ResolveWritebackFails ==
  /\ worker.pc = "writeback" /\ worker.victim.dirty
  /\ MayFail \/ worker.victim.page \notin ranged
  /\ CancelEviction(worker.victim)
  /\ Return
  /\ UNCHANGED <<fileVars, flusher, ranged, leases, owed, promised,
                 requests, flushes>>

(* the backing read or the copy into the frame fails; the frame stays free *)
ResolveReadFails ==
  /\ worker.pc = "read"
  /\ MayFail \/ worker.page \in ranged \/ ~CanPublish(worker.page, worker.frame)
  /\ Return
  /\ UNCHANGED <<cacheVars, fileVars, flusher, ranged, leases, owed,
                 promised, requests, flushes>>

FillNothing(p, f) == UNCHANGED bytes

Fill(p, f) == bytes' = [bytes EXCEPT ![f] = [page |-> p, version |-> file[p]]]

(* the page is read, copied into the frame and published; the answer       *)
(* carries the media plan, so the victim's program is modelled             *)
ResolveFills ==
  LET p == worker.page
      f == worker.frame
  IN
  /\ worker.pc = "read" /\ p \notin ranged
  /\ Fill(p, f)
  /\ ranged' = ranged \cup {p}
  /\ Publish(p, f, worker.write)
  /\ owed' = owed \ {worker.program}
  /\ Answer(p, f, worker.write)
  /\ UNCHANGED <<file, disk, newest, flusher, promised, requests, flushes>>

(***************************************************************************)
(* flush(model_program, range_id), for the pages of one range or for all.  *)
(***************************************************************************)
FlushBegins(scope) ==
  /\ flusher.pc \in {"idle", "Ready", "failed"} /\ mutex = "free"
  /\ flushes < MaxFlushes
  /\ flusher' = [IdleFlusher EXCEPT !.pc = "scanning", !.scope = scope,
                                    !.todo = ranged \cap scope]
  /\ mutex' = "flusher" /\ promised' = newest /\ flushes' = flushes + 1
  /\ UNCHANGED <<cacheVars, fileVars, worker, daemon, ranged, leases,
                 owed, requests>>

FlushReturns(status) ==
  /\ flusher' = [flusher EXCEPT !.pc = status, !.todo = {}, !.ticket = NoTicket]
  /\ mutex' = "free"

FlushSkips(p) ==
  /\ flusher.pc = "scanning" /\ p \in flusher.todo
  /\ Eligible({p}, TRUE) = {}
  /\ flusher' = [flusher EXCEPT !.todo = @ \ {p}]
  /\ UNCHANGED <<cacheVars, fileVars, mutex, worker, daemon, ranged,
                 leases, owed, promised, requests, flushes>>

KeepMutex == UNCHANGED mutex

ReleaseMutex == mutex' = "free"

(* the dirty page is taken out of the cache and written back, and the lock *)
(* released for model_program                                              *)
FlushWritesBack(p) ==
  LET v == Victim(Eligible({p}, TRUE)) IN
  /\ flusher.pc = "scanning" /\ p \in flusher.todo
  /\ BeginEviction({p}, TRUE) /\ p \in ranged
  /\ Writeback(TicketFor(v))
  /\ flusher' = [flusher EXCEPT !.pc = "modelling", !.todo = @ \ {p},
                                !.ticket = TicketFor(v)]
  /\ ReleaseMutex
  /\ UNCHANGED <<worker, daemon, ranged, leases, promised, requests,
                 flushes>>

(* the page has no range, the copy or the write fails: begin_eviction and  *)
(* cancel_eviction leave only the referenced bit and the hand changed      *)
FlushWritebackFails(p) ==
  LET v == Victim(Eligible({p}, TRUE)) IN
  /\ flusher.pc = "scanning" /\ p \in flusher.todo
  /\ Eligible({p}, TRUE) # {} /\ (MayFail \/ p \notin ranged)
  /\ referenced' = [referenced EXCEPT ![v] = TRUE] /\ hand' = Advance(v)
  /\ FlushReturns("failed")
  /\ UNCHANGED <<page, dirty, evicting, generation, pageToFrame,
                 evictingPages, dirtyPages, fileVars, worker, daemon,
                 ranged, leases, owed, promised, requests, flushes>>

(* model_program: the daemon must be free to take the request *)
FlushModels ==
  /\ flusher.pc = "modelling" /\ daemon = "idle"
  /\ flusher' = [flusher EXCEPT !.pc = "modelled"]
  /\ owed' = owed \ {flusher.ticket.page}
  /\ UNCHANGED <<cacheVars, fileVars, mutex, worker, daemon, ranged,
                 leases, promised, requests, flushes>>

(* the program, or the fdatasync after it, fails: cancel_eviction, which   *)
(* does nothing if the page was reclaimed meanwhile                        *)
FlushProgramFails ==
  /\ flusher.pc \in {"modelling", "modelled"} /\ mutex = "free" /\ MayFail
  /\ IF Accepts(flusher.ticket) THEN CancelEviction(flusher.ticket)
     ELSE UNCHANGED cacheVars
  /\ FlushReturns("failed")
  /\ UNCHANGED <<fileVars, worker, daemon, ranged, leases, owed,
                 promised, requests, flushes>>

SynchronizeLater == UNCHANGED disk

Synchronize == disk' = file   \* the router's flush: fdatasync of every file

EraseRange(p, completed) == ranged' = IF completed THEN ranged \ {p} ELSE ranged

(* relocked: fdatasync, then complete_eviction unless the page was         *)
(* reclaimed (or its range went) while the program was modelled            *)
FlushCommits ==
  LET e == flusher.ticket
      completed == e.page \in ranged /\ Accepts(e)
  IN
  /\ flusher.pc = "modelled" /\ mutex = "free"
  /\ Synchronize
  /\ EraseRange(e.page, completed)
  /\ IF completed
     THEN /\ CompleteEviction(e)
          /\ flusher' = [flusher EXCEPT !.pc = "scanning", !.ticket = NoTicket,
                                        !.synchronized = TRUE]
          /\ mutex' = "flusher"
     ELSE UNCHANGED cacheVars /\ FlushReturns("failed")
  /\ UNCHANGED <<bytes, file, newest, worker, daemon, leases, owed, promised,
                 requests, flushes>>

(* every candidate was looked at: one fdatasync if none was flushed *)
FlushEnds ==
  /\ flusher.pc = "scanning" /\ flusher.todo = {}
  /\ \/ /\ flusher.synchronized /\ UNCHANGED disk /\ FlushReturns("Ready")
     \/ /\ ~flusher.synchronized /\ Synchronize /\ FlushReturns("Ready")
     \/ /\ ~flusher.synchronized /\ MayFail
        /\ UNCHANGED disk /\ FlushReturns("failed")
  /\ UNCHANGED <<cacheVars, bytes, file, newest, worker, daemon, ranged,
                 leases, owed, promised, requests, flushes>>

(***************************************************************************)
(* The GPU stores through a frame address it was given, at any later time. *)
(***************************************************************************)
Intact(l) ==
  pageToFrame[l.page] = l.frame /\ generation[l.frame] = l.generation

GpuStores(l) ==
  /\ Intact(l) \/ StoreStale
  /\ newest' = [newest EXCEPT ![l.page] = @ + 1]
  /\ bytes' = [bytes EXCEPT ![l.frame] =
                 [page |-> l.page, version |-> newest[l.page] + 1]]
  /\ leases' = leases \ {l}
  /\ UNCHANGED <<cacheVars, file, disk, mutex, worker, flusher, daemon,
                 ranged, owed, promised, requests, flushes>>

WorkerStep ==
  \/ ResolveHit \/ ResolveUsesFreeFrame \/ ResolveFindsNoVictim
  \/ ResolveBeginsEviction \/ ResolveEvicts \/ ResolveWritebackFails
  \/ ResolveReadFails \/ ResolveFills

FlushStep ==
  \/ \E p \in Pages :
       FlushSkips(p) \/ FlushWritesBack(p) \/ FlushWritebackFails(p)
  \/ FlushModels \/ FlushProgramFails \/ FlushCommits \/ FlushEnds

Next ==
  \/ \E p \in Pages, isWrite \in BOOLEAN : HandOff(p, isWrite)
  \/ \E scope \in {Pages} \cup {{p} : p \in Pages} : FlushBegins(scope)
  \/ WorkerStep \/ FlushStep
  \/ \E l \in leases : GpuStores(l)

Spec == Init /\ [][Next]_vars

(***************************************************************************)
(* Properties                                                              *)
(***************************************************************************)
(* A resident frame holds its own page's newest bytes: no interleaving of  *)
(* resolves, evictions, reclaims and flushes leaves a page mapped to old   *)
(* bytes or to another page's (CapacityPageService::resolve, flush).       *)
ResidentBytesAreNewest ==
  \A p \in Pages : Resident(p) =>
    bytes[pageToFrame[p]] = [page |-> p, version |-> newest[p]]

(* Dirty bytes are never dropped: what the GPU last stored in a page is in *)
(* the page's file or in a dirty frame that still belongs to the page,     *)
(* also after a failed copy, write, program or fdatasync.                  *)
NewestBytesKept ==
  \A p \in Pages :
    \/ file[p] = newest[p]
    \/ \E f \in Frames : /\ page[f] = p /\ dirty[f]
                         /\ bytes[f] = [page |-> p, version |-> newest[p]]

(* hbfsim_flush that returns Ready made durable every store done before it *)
(* began, whether the flush or a concurrent eviction wrote the page back.  *)
FlushIsDurable ==
  flusher.pc = "Ready" => \A p \in flusher.scope : disk[p] >= promised[p]

(* Every page written back has its program modelled, unless it is still    *)
(* dirty and will be written back again.                                   *)
WritebacksAreProgrammed ==
  worker.pc = "idle" /\ flusher.pc \in {"idle", "Ready", "failed"} =>
    \A p \in owed : \E f \in Frames : page[f] = p /\ dirty[f]

(* Nobody waits in a circle: flush waits for the daemon to model a program *)
(* while the daemon may be waiting for the worker and the worker for the   *)
(* mutex of the service, and still one of them can go on.                  *)
NoWaitingCycle ==
  daemon = "waiting" \/ flusher.pc \in {"scanning", "modelling", "modelled"} =>
    ENABLED (WorkerStep \/ FlushStep)
=============================================================================
