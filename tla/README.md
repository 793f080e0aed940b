# HBFSim: TLA+ models and proofs

HBFSim simulates high-bandwidth flash (HBF) behind a GPU. An application process
holds a CUDA context whose kernels are instrumented; memory accesses to
registered ranges become requests in a shared control region. A daemon,
`hbfsimd`, takes the requests, lets a timing engine model them and publishes
completions. For *capacity* ranges, which have addresses but no memory, the
daemon asks a worker thread of the application to bring the page into an HBM
frame first. Beside this host path there is a UCIe path: reads travel over a
streaming link to a stack frontend that coalesces them in front of flash banks.

All paths below are relative to the repository, with `src/` as its root.

## Inventory

| component | state | operations | what is hard |
|---|---|---|---|
| shared ring, completion slots, admission word (`host_service/control_layout.hpp`) | two cursors, a sequence number per slot, closed bit and count | push, pop, publish, consume, enter/leave | many producers, wrap-around, plain payloads between atomics |
| request dispatcher (`host_service/request_dispatcher.cpp`) | groups under way | `poll_once`, `fail_all` | failing while clients are inside admission |
| clients (`cuda_runtime/device/hbf_device.cu`, `cuda_runtime/context.cpp`) | a ticket each | submit, wait, give up | deadlines, faults, daemon death |
| HBM page cache (`cuda_runtime/hbm_cache.cpp`) | frames, two page maps, clock hand | resolve, publish, reclaim, begin/cancel/complete eviction | two-phase evictions with tickets |
| capacity page service and worker (`host_service/capacity_page_service.cpp`, `capacity_worker.cpp`) | resident ranges, mutex | `resolve`, `flush` | `flush` gives its mutex up inside an eviction; each I/O can fail |
| capacity hand-off slots (`control_layout.hpp`) | state word, owner, token per slot | begin, try, complete, result, release | timeout against late completion, slot reuse |
| capacity backing router (`host_service/capacity_backing_router.cpp`) | entries with admission counts | stage, activate, cancel, deactivate, read, write, flush | draining while operations run |
| timing binding registry (`cuda_runtime/timing_binding.cpp`) | owner, generation, module words | activate, retire, register, quarantine | device words that cannot be written |
| launch gate (`cuda_runtime/launch_gate.cpp`) | two locks, ranges | launch, load, unload, register, unregister, activate, retire | asynchronous kernels against retirement |
| UCIe streaming link (`ucie/link.cpp`) | queues, credits, events | enqueue, step, consume | credits that ride on opposite flits, fragments |
| stack frontend, read coalescer (`ucie/stack_frontend.cpp`, `ucie/device_coalescer.cpp`) | reads, groups, slots, FIFO per bank | submit, cancel, consume, advance | cancellation and deadlines against responses |
| single-module and cold-read frontends, engine guard | as above for one module | as above | as above |
| worker mailbox, worker process, worker client (`ucie/shm_rpc.hpp`, `worker_protocol.cpp`, `worker_handler.cpp`) | two slots, sequence, poison flag | send, receive, exchange, gather, shutdown | death and deadline of either process |
| multistack frontend (`ucie/multistack_frontend.cpp`) | parents and children | submit, advance, consume | failure of one stack of several |
| backing registries, stack router (`ucie/backing_registry.cpp`, `stack_router.cpp`) | spans, generation floors | register, disable, retire | revival of a retired generation |
| UCIe backend adapter, daemon main loop (`host_service/ucie_backend_adapter.cpp`, `main.cpp`) | staged requests | poll, register, shut down | partial registration |
| shadow futures, page directory, range table, durable append | tables under a mutex or a file | see the sources | deadlines, generations, lock-free readers, crash |
| PTX pass, profiles, prefetch, calibration, thermal model, loaders, reporting | none shared | pure computation or I/O | not a protocol |

The correctness properties of each part are those of the runs below; for parts
without a module they are named in the plan.

## Modules

| module | models | state and actions |
|---|---|---|
| `ControlRing` | ring, completion slots, admission word, dispatcher, device and host clients | one action per shared access of a client (a load that a compare-exchange re-validates is one step with it); one per step of `poll_once` and `fail_all`; `DaemonDies` |
| `HbmCache` | the page cache | one action per member function; `Victim` is a closed form of the clock scan and `Scan` the two-turn loop |
| `CapacityPageService` | `resolve` (worker), `flush`, the daemon between them, GPU stores | extends `HbmCache`; a step per stretch under the mutex or per I/O that may fail; the bytes of a page are a version number |
| `CapacityHandoff` | the page slots between daemon and worker | one action per access to a word the other process may change |
| `BackingRouter` | the whole router | one action per acquisition of its mutex; file operations run between two |
| `TimingBinding` | the registry and the device words | operations as actions that `LaunchGate` conjoins with its own |
| `LaunchGate` | the gate, its locks, kernels, the life of a context | extends `TimingBinding`; a step per CUDA call, which may fail |
| `LinkChannel` | what a link promises: lines without overtaking and a window | abstract specification |
| `StreamingLink` | the link | the link is one record; `Step` processes all events of the next time, then sends a flit each way |
| `DeviceReadCoalescer` | the coalescer | operators from a coalescer to a coalescer, as its caller is one thread |
| `StackFrontend` | the frontend over the coalescer | a call or one iteration of `advance_until` is one action; links are reduced to `LinkChannel`'s promise |
| `ControlRingProofs`, `CapacityPageProofs`, `CapacityHandoffProofs`, `LaunchGateProofs`, `BackingRouterProofs` | theorems | |
| `MC...` | instances for TLC | |

An operator whose name ends in a deviation (`RaiseFaultFirst`, `StayReading`,
`ReleaseOnly`, ...) and that no action uses is a wrong variant of the definition
after it. Putting it in that definition's place must break a property; this
shows that the property depends on the code.

## Runs

| run | properties | instance |
|---|---|---|
| `ring_safety` | `FaultObserverFindsAnswer`, `TicketHasOneHome`, `AnswerIsMine`, `SlotsHaveOneOwner`, `DrainIsQuiet` | 2 device clients, 1 host client, 2 slots, 5 requests; deadlines, engine failure and daemon death |
| `ring_liveness` | `FailAllFinishes`, `EveryRequestReturns` | the same with 3 requests and no deadlines |
| `pages` | `TypeOK`, `MapsAgree`, `ClockScanAgrees`, `ResidentBytesAreNewest`, `NewestBytesKept`, `FlushIsDurable`, `NoWaitingCycle` | 3 pages, 1 to 3 frames, 3 requests, 2 flushes, every I/O may fail |
| `handoff` | `AnswerIsExact`, `CopyIsConsistent`, `OneCompleter`, `HandoffEnds` | 2 slots, 6 tickets, any hand-off may time out |
| `gate` | `GenerationsAreFresh`, `ControlOutlivesKernels`, `NoStaleAlias`, `CapacityNeverNative`, `RemovedWhenQuiet`, `LifecycleReleased` | 1 context address used twice, 2 domains with a module each, 1 launcher, a timing and a capacity range |
| `router` | `AdmittedStays`, `AdmissionsExact`, `OneRoute`, `DeactivationEnds` | 2 entries, 3 tokens, overlapping spans, 2 clients, 2 admins |
| `link` | `CreditsConserved`, `ImplementsChannel`, `EveryMessagePasses` | 2 messages each way, room for one and a few granules |
| `link_fragments` | `NeverFails`, `ImplementsChannel` | 4 returns, of which a flit takes three and a part of the fourth |
| `frontend` | `TypeOK`, `NeverFails`, `OneReadPerPage`, `PagePinned`, `AnswersInOrder`, `NothingLeftBehind` | 4 reads of 3 pages on a bank of 2 slots, 3 cancellable, 1 with a deadline, media errors |
| `frontend_liveness` | `EveryReadRetires` | 2 modules, a miss that waits for a slot, one cancellation, no buffer cache |
| `ring_gpu_exclusive` | `FaultObserverFindsAnswer` is violated | 2 device clients in GPU-exclusive mode |
| `frontend_waiting_miss` | `NoMissStranded` is violated | 3 reads, 2 cancellable |

**Bounds.** Each instance is the smallest in which its hazards happen. The ring
wraps twice, so that a slot's old and new tickets meet, also an abandoned one.
Three pages in two frames force evictions, one frame leaves no victim while a flush
holds it, and two flushes meet a reclaim and a
second eviction of the page they write. With these bounds an unreferenced frame is
always the first one the clock hand meets: that the scan prefers it to a referenced
one ahead of it takes four pages and five requests, and is not reached. Two hand-off slots are each used three
times while the worker keeps an old ticket. The router's spans collide while one
is draining. The narrow link stalls after one message and needs grants that the
encoding cannot express at once; there the window of the abstract channel binds,
in both directions. The wide one lets a flit cut a message; its window of four is
never full with four identifiers, so only the order is at stake in it. Three pages on two slots put a miss into the
FIFO. `EveryReadRetires` is checked with one read that may be cancelled, and does
not hold with two: `frontend_waiting_miss` shows the miss that is then left
behind. Requests, tokens, generations and tickets are bounded by constants named
`Max...`; `MaxToken` and `MaxGeneration` stand for `UINT64_MAX`, so exhaustion is
reached: `GenerationsAreFresh` speaks of the activations up to the last generation
and of the refusals after it. `GenerationsAreFresh` and, for the link,
`CreditsConserved` include the type invariant of their module.

**Fairness.** Threads inside a call, resident warps, the daemon while it lives
and the worker are scheduled: weak fairness of their steps. Nothing forces a
client to issue, a deadline to pass, an engine to fail or a process to die.
`std::shared_mutex` promises nothing to a writer while readers overlap, so
`LifecycleReleased` assumes that they do not overlap for ever and the lock steps
are strongly fair. The link and the frontend are stepped by their owner as long
as they have events, and the owner takes what it is given. Their fairness is
written out with its enabling condition, to which belongs that no exception was
thrown: a behaviour that reaches one is not excluded, it would violate the
liveness property. `NoWaitingCycle` is an invariant: every
resolve and every flush is a finite sequence of steps, so they end if one can
always go on.

## Proofs

The theorems hold for every number of clients, slots, tickets, pages, frames,
contexts, modules and tokens.

- `ControlRingProofs`: `TypeCorrect`, and `DrainQuiet` (`DrainIsQuiet` with the
  shared admission word). `DrainIsQuiet` is not inductive. `QuietInv` adds that
  the count is the number of clients inside (a cardinality argument over the
  finite set of clients) and that the closed bit is set from the moment
  `fail_all` waits. A zero count then means that nobody is inside, and the closed
  bit lets nobody in.
  `TicketsKept`, `AnswersKept` and `SlotsOwned` (`TicketHasOneHome`,
  `AnswerIsMine`, `SlotsHaveOneOwner`) rest on `TicketInv`: the sequence number of
  a slot says which ticket of which lap it serves, the tickets out are a window
  no longer than the ring, and tickets of one window differ in their slots.
  `RecheckDecides` (`FaultObserverFindsAnswer` with the shared word) joins both
  invariants: the drain is quiet, so the ring it empties holds every ticket.
- `CapacityPageProofs`: `FramesAreNewest`, `NoStoreIsLost`, `ReadyIsDurable`,
  `MapsAlwaysAgree`, `ScanIsSecondChance`. `PageInv` adds that every occupied
  frame has its page's newest bytes, that a lease of the current generation keeps
  its frame dirty, that a frame is evicting only for the worker under the mutex or
  for the flusher that has already written it, and that a page the flusher has
  passed is in the file as far as promised. The dirty counter needs a cardinality
  argument. The scan loop is shown to follow a closed form, by taking the least
  visit at which it would not.
- `CapacityHandoffProofs`: `HandoffTypes`, `HandoffExact`, `HandoffConsistent`,
  `HandoffOneCompleter`. `HandoffInv` adds what the code relies on silently: the
  token of a slot speaks of the owner of the slot, the `Claimed` token belongs to
  one side, and a slot that is being read cannot be taken back.
- `LaunchGateProofs`: `NoWordDangles`, `KernelsKeepControl`, `CapacityIsBound`,
  `RangesLeaveQuietly` and `GenerationsStayFresh`. `GateInv` relates the locks,
  the registry, the words and the kernels: a word that is not zero has the
  generation of the registry, whose owner is mapped, and a context unmaps only
  when no word and no kernel of it is left. It covers every CUDA call that fails,
  an unload the driver refuses after the word was cleared included. `Fresh`
  bounds what is recorded by the next generation, until the counter is exhausted.
- `BackingRouterProofs`: `RouterTypes`, `RouterAdmitted`, `RouterCounts`,
  `RouterOneRoute`, `RouterRightStore`. In `RouterInv` exact counts and admitted
  entries need each other: an entry without an admission has no holder, so
  emptying it disturbs nobody.

They use the named assumptions of the modules: finitely many clients, a ring of
at least two slots, at least one hand-off slot and router entry, disjoint client
sets, and no host clients in GPU-exclusive mode. The theorems of
`CapacityPageProofs` assume `~StoreStale`, as the run `pages` does; `DrainQuiet`
and `RecheckDecides` assume `~GpuExclusive`, without which the run
`ring_gpu_exclusive` refutes the latter.

Only model-checked: all liveness (fairness and `ENABLED` are outside the
prover), `NoWaitingCycle`, the refinement `ImplementsChannel` and
`CreditsConserved` (sums over sequences need induction over data), and the
safety of the frontend, whose proof is still to come.

## Disagreements with the documentation

Two are runs.

- `ring_gpu_exclusive`: in GPU-exclusive mode clients count themselves in device
  memory, where `fail_all` does not look. A client can see the fault word while
  its slot is unanswered; the design document and a comment in
  `wait_for_completion` exclude that.
- `frontend_waiting_miss`: two paths of the stack frontend release a bank slot
  without calling `start_media`. A miss in the FIFO of the bank then waits for an
  unrelated event, although `docs/ucie/STAGE2_DEVICE_COALESCING.md` says that it
  waits until a slot is released. `device_frontend.cpp` has the same paths.

Three more were seen with TLC and are stated in the modules.

- `CapacityPageService` with `StoreStale = TRUE` violates `NewestBytesKept`:
  `hbfsim_flush` does not retire running kernels, and a store through an address
  handed out before the flush is lost. `docs/skills/07-capacity-address-translation.md`
  wants launches retired first. The run `pages` assumes that stores go through
  addresses that are still the page's.
- `WritebacksAreProgrammed` fails with `MayFail = TRUE`: when the read after a
  dirty eviction fails, the program of the victim is never modelled, against
  `docs/skills/06-mqsim-online-service.md`.
- `ReservationOutlivesRange` in `LaunchGate` fails: `hbfsim_unregister` releases
  the address reservation before it removes the range, against
  `docs/skills/07-capacity-address-translation.md`.

## Left out of the modules

- Modelled time, statistics, traces, payload bytes and message texts.
- Memory orders: each atomic access is one step, and release/acquire pairs are
  taken to work as written. Plain fields are covered by ownership properties.
- `ControlRing`: the computation of modelled latency and engine identifiers.
- `LaunchGate`: functions whose module cannot be named, and the test hooks.
- `StackFrontend`: address resolution; every read is of a registered page.
- The components marked as not modelled in `PROJECT.json`, with reasons.

## Plan

1. Worker mailbox and client: two processes, parking, deadlines, death. A late
   reply must not answer a later request, and a receiver must not sleep through a
   publication.
2. Multistack frontend over the worker: each accepted parent ends exactly once,
   also when a worker dies. Refinement of an abstract session.
3. Backing registries and stack router: no generation is revived.
4. Range table and page directory (lock-free readers, generations), shadow
   futures (deadline against completion), durable append (crash).
5. UCIe backend adapter and daemon loop; context admission.
6. Proofs: the frontend (`PagePinned`, `AnswersInOrder`), the mailbox, and the
   refinement of the multistack session.
