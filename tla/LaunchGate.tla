---------------------------- MODULE LaunchGate ----------------------------
(***************************************************************************)
(* The CUDA launch gate (cuda_runtime/launch_gate.cpp) around the registry *)
(* of TimingBinding, together with the life of a context that uses it      *)
(* (create_context, hbfsim_register_device, hbfsim_map_file,               *)
(* hbfsim_unregister and release_context in cuda_runtime/context.cpp).     *)
(*                                                                         *)
(* Threads launch kernels, load and unload modules, destroy CUDA contexts  *)
(* and drive contexts.  Two locks order them: the lifecycle mutex, and the *)
(* range lock, a shared mutex that a launch holds shared from inspection   *)
(* until the driver has enqueued the kernel, and that every change of the  *)
(* ranges or of the owner holds exclusively.  Kernels run asynchronously   *)
(* and read the control word of their module at any time.                  *)
(***************************************************************************)
EXTENDS TimingBinding

CONSTANTS Launchers,       \* host threads that launch, one kernel at a time
          TimingRanges,    \* device memory registered for timing
          CapacityRanges,  \* reserved addresses without memory behind them
          StrictTiming     \* the strict timing policy is switched on

ASSUME GateAssumption ==
  /\ TimingRanges \cap CapacityRanges = {} /\ StrictTiming \in BOOLEAN
  /\ Launchers \cap Owners = {} /\ Owners \cap Modules = {}
  /\ None \notin Launchers \cup TimingRanges \cup CapacityRanges

VARIABLES lifecycle,   \* who holds lifecycle_transition_mutex
          writer,      \* who holds the range lock exclusively
          readers,     \* the launchers that hold it shared
          launchSeen,  \* launch_seen_
          gate,        \* ranges_ of the CoverageGate
          loaded,      \* modules the driver holds
          launch,      \* what each launcher is doing
          kernel,      \* the kernel each launcher has enqueued
          ctx          \* the contexts

lockVars == <<lifecycle, writer, readers>>
gateVars == <<launchSeen, gate>>
gpuVars == <<launch, kernel>>
vars == <<reg, entry, alias, budget, lifecycle, writer, readers, launchSeen,
          gate, loaded, launch, kernel, ctx>>

Ranges == TimingRanges \cup CapacityRanges

\* A kernel of no instrumented module has module None.
Kernels == [module : Modules \cup {None}, domain : Domains,
            range : Ranges \cup {None}, bound : BOOLEAN,
            gen : Generations \cup {0}, seen : Generations \cup {0}]

Launches == [pc : {"inspecting", "approved"}, module : Modules \cup {None},
             domain : Domains, range : Ranges \cup {None}, bound : BOOLEAN]

Idle == [pc |-> "idle"]

ContextSteps ==
  {"absent", "mapped", "activating", "active", "unmapping",
   "removing", "synced", "flushed", "released",
   "quiesced", "live", "retireSynced", "retireFlushed",
   "invalidated", "freed", "unregistered", "leaked"}

\* domain: the CUDA context; mapped: the control mapping is registered with
\* CUDA; table: the published ranges; held: reserved capacity addresses;
\* range: the range being unregistered.
Absent == [pc |-> "absent", domain |-> None, gen |-> 0, mapped |-> FALSE,
           table |-> {}, held |-> {}, range |-> None]

TypeOK ==
  /\ RegistryType
  /\ lifecycle \in {None} \cup Owners \cup Modules
  /\ writer \in {None} \cup Owners
  /\ readers \subseteq Launchers
  /\ launchSeen \in BOOLEAN
  /\ gate \subseteq Ranges
  /\ loaded \subseteq Modules
  /\ launch \in [Launchers -> Launches \cup {Idle}]
  /\ kernel \in [Launchers -> Kernels \cup {None}]
  /\ ctx \in [Owners -> [pc : ContextSteps, domain : Domains \cup {None},
                         gen : Generations \cup {0}, mapped : BOOLEAN,
                         table : SUBSET Ranges, held : SUBSET CapacityRanges,
                         range : Ranges \cup {None}]]

GateInit ==
  /\ RegistryInit
  /\ lifecycle = None /\ writer = None /\ readers = {}
  /\ launchSeen = FALSE /\ gate = {}
  /\ loaded = {}
  /\ launch = [l \in Launchers |-> Idle]
  /\ kernel = [l \in Launchers |-> None]
  /\ ctx = [o \in Owners |-> Absent]

Running == {l \in Launchers : kernel[l] # None}

Exclusive == writer = None /\ readers = {}

(* cudaDeviceSynchronize in domain d returns *)
Drained(d) == \A l \in Running : kernel[l].domain # d

(***************************************************************************)
(* Launches                                                                *)
(***************************************************************************)

(* the shared guard is taken first; a capacity address is only known while *)
(* it is reserved                                                          *)
LaunchBegin(l, m, d, r) ==
  /\ launch[l] = Idle /\ kernel[l] = None
  /\ writer = None
  /\ m # None => m \in loaded /\ Home[m] = d
  /\ r \in CapacityRanges => \E o \in Owners : r \in ctx[o].held
  /\ readers' = readers \cup {l}
  /\ launch' = [launch EXCEPT ![l] =
                  [pc |-> "inspecting", module |-> m, domain |-> d,
                   range |-> r, bound |-> FALSE]]
  /\ UNCHANGED <<regVars, lifecycle, writer, gateVars, loaded, kernel, ctx>>

Strict == StrictTiming /\ gate \cap TimingRanges # {}

(* check_launch followed by require_timing_binding *)
Allowed(m, r) ==
  CASE m = None -> /\ r \in gate => r \in TimingRanges
                   /\ ~Strict
    [] m \in Future -> ReadyForActive(m) /\ m \in budget
    [] OTHER -> r \in gate \/ Strict => ReadyForActive(m)

MarkLaunch == launchSeen' = TRUE

(* approve fails also when the decision cannot be recorded *)
LaunchApproved(l) ==
  /\ launch[l].pc = "inspecting"
  /\ Allowed(launch[l].module, launch[l].range)
  /\ MarkLaunch
  /\ launch' = [launch EXCEPT ![l].pc = "approved",
                  ![l].bound = launch[l].module # None
                                 /\ ReadyForActive(launch[l].module)]
  /\ UNCHANGED <<regVars, lockVars, gate, loaded, kernel, ctx>>

LaunchDenied(l) ==
  /\ launch[l].pc = "inspecting"
  /\ launch' = [launch EXCEPT ![l] = Idle]
  /\ readers' = readers \ {l}
  /\ UNCHANGED <<regVars, lifecycle, writer, gateVars, loaded, kernel, ctx>>

(* the driver's own launch; the guard is released once it returns *)
LaunchEnqueue(l) ==
  /\ launch[l].pc = "approved"
  /\ \/ UNCHANGED kernel
     \/ kernel' = [kernel EXCEPT ![l] =
                     [module |-> launch[l].module, domain |-> launch[l].domain,
                      range |-> launch[l].range, bound |-> launch[l].bound,
                      gen |-> reg.gen, seen |-> 0]]
  /\ launch' = [launch EXCEPT ![l] = Idle]
  /\ readers' = readers \ {l}
  /\ UNCHANGED <<regVars, lifecycle, writer, gateVars, loaded, ctx>>

(* the instrumented code loads the control word before it uses it *)
KernelReads(l) ==
  /\ kernel[l] # None /\ kernel[l].module # None
  /\ kernel' = [kernel EXCEPT ![l].seen = alias[kernel[l].module]]
  /\ UNCHANGED <<regVars, lockVars, gateVars, loaded, launch, ctx>>

KernelEnds(l) ==
  /\ kernel[l] # None
  /\ kernel' = [kernel EXCEPT ![l] = None]
  /\ UNCHANGED <<regVars, lockVars, gateVars, loaded, launch, ctx>>

(***************************************************************************)
(* Modules and CUDA contexts                                               *)
(***************************************************************************)

(* cuModuleLoadDataEx; a rejected module may be impossible to unload *)
LoadModule(m) ==
  /\ m \notin loaded /\ lifecycle = None
  /\ loaded' = loaded \cup {m}
  /\ AddModule(m) \/ RejectModule(m)
  /\ UNCHANGED <<lockVars, gateVars, gpuVars, ctx>>

(* cuModuleUnload takes the lifecycle mutex, then waits for the launches *)
UnloadBegin(m) ==
  /\ m \in loaded /\ lifecycle = None
  /\ lifecycle' = m
  /\ UNCHANGED <<regVars, writer, readers, gateVars, loaded, gpuVars, ctx>>

Unloadable(m) == \A l \in Running : kernel[l].module # m

(* the control of a future module is cleared before the driver is asked to *)
(* unload it; when the driver refuses, the module stays with its entry     *)
(* and without its control                                                 *)
UnloadEnd(m) ==
  /\ lifecycle = m /\ Exclusive
  /\ lifecycle' = None
  /\ \/ UNCHANGED <<regVars, loaded>>
     \/ /\ m \notin budget /\ Unloadable(m)
        /\ EraseModules({m}, {}) /\ loaded' = loaded \ {m}
     \/ /\ m \in budget /\ ActiveDomain(Home[m]) /\ Drained(Home[m])
        /\ \E f \in Chosen({m}, 0, FALSE) :
             IF Quarantines(f, {m})
             THEN QuarantineModule(m, f[m].word) /\ UNCHANGED loaded
             ELSE \/ EraseModules({m}, {m}) /\ loaded' = loaded \ {m}
                  \/ Write({m}, f) /\ UNCHANGED <<reg, entry, loaded>>
  /\ UNCHANGED <<writer, readers, gateVars, gpuVars, ctx>>

(* cuCtxDestroy and the other calls that end a CUDA context *)
DestroyCudaContext(d) ==
  /\ lifecycle = None /\ ~ActiveDomain(d) /\ Drained(d)
  /\ {m \in loaded : Home[m] = d} # {}
  /\ EraseModules({m \in Modules : Home[m] = d}, {})
  /\ loaded' = {m \in loaded : Home[m] # d}
  /\ UNCHANGED <<lockVars, gateVars, gpuVars, ctx>>

(***************************************************************************)
(* Contexts: creation and ranges                                           *)
(***************************************************************************)
Goto(o, pc) == ctx' = [ctx EXCEPT ![o].pc = pc]

(* create_context up to the registration of the control mapping with CUDA *)
CreateContext(o, d) ==
  /\ ctx[o].pc = "absent"
  /\ ctx' = [ctx EXCEPT ![o].pc = "mapped", ![o].domain = d,
                        ![o].mapped = TRUE]
  /\ UNCHANGED <<regVars, lockVars, gateVars, loaded, gpuVars>>

(* activate holds the lifecycle mutex while it waits for the launches *)
ActivateBegin(o) ==
  /\ ctx[o].pc = "mapped" /\ lifecycle = None
  /\ \/ /\ CanActivate
        /\ lifecycle' = o /\ Goto(o, "activating")
     \/ /\ ~CanActivate
        /\ UNCHANGED lifecycle /\ Goto(o, "unmapping")
  /\ UNCHANGED <<regVars, writer, readers, gateVars, loaded, gpuVars>>

ResetLaunches == launchSeen' = FALSE

(* an owner that cannot be retired again keeps its mapping for good *)
ActivateEnd(o) ==
  /\ ctx[o].pc = "activating" /\ Exclusive
  /\ \E futures \in BOOLEAN : Activate(o, ctx[o].domain, futures)
  /\ lifecycle' = None
  /\ ctx' = [ctx EXCEPT ![o].gen = reg.next,
              ![o].pc = IF reg'.quarantined THEN "leaked" ELSE "active"]
  /\ IF reg'.quarantined THEN UNCHANGED launchSeen ELSE ResetLaunches
  /\ UNCHANGED <<writer, readers, gate, loaded, gpuVars>>

(* release_context of a context that never became the owner *)
ReleaseUnbound(o) ==
  /\ ctx[o].pc = "unmapping"
  /\ \/ ctx' = [ctx EXCEPT ![o] = Absent]
     \/ Goto(o, "leaked")
  /\ UNCHANGED <<regVars, lockVars, gateVars, loaded, gpuVars>>

RegistrationOpen == ~launchSeen

(* hbfsim_register_device and hbfsim_map_file, whose publish callback runs *)
(* under the exclusive lock                                                *)
RegisterRange(o, r) ==
  /\ ctx[o].pc = "active" /\ Exclusive
  /\ \A p \in Owners : r \notin ctx[p].table \cup ctx[p].held
  /\ RegistrationOpen /\ Owns(o, ctx[o].gen)
  /\ gate' = gate \cup {r}
  /\ ctx' = [ctx EXCEPT ![o].table = @ \cup {r},
                        ![o].held = @ \cup ({r} \cap CapacityRanges)]
  /\ UNCHANGED <<regVars, lockVars, launchSeen, loaded, gpuVars>>

(* hbfsim_unregister: the exclusive lock is held until the range is gone *)
UnregisterBegin(o, r) ==
  /\ ctx[o].pc = "active" /\ Exclusive
  /\ r \in ctx[o].table /\ Owns(o, ctx[o].gen)
  /\ writer' = o
  /\ ctx' = [ctx EXCEPT ![o].pc = "removing", ![o].range = r]
  /\ UNCHANGED <<regVars, lifecycle, readers, gateVars, loaded, gpuVars>>

(* a step that fails leaves the range in place and lets launches go on *)
UnregisterFails(o) ==
  /\ ctx[o].pc \in {"removing", "synced", "flushed"}
  /\ writer' = None
  /\ ctx' = [ctx EXCEPT ![o].pc = "active", ![o].range = None]
  /\ UNCHANGED <<regVars, lifecycle, readers, gateVars, loaded, gpuVars>>

(* the range would go while kernels run *)
UnregisterUnsynced(o) ==
  /\ ctx[o].pc = "removing"
  /\ Goto(o, "synced")
  /\ UNCHANGED <<regVars, lockVars, gateVars, loaded, gpuVars>>

UnregisterSync(o) ==
  /\ ctx[o].pc = "removing" /\ Drained(ctx[o].domain)
  /\ Goto(o, "synced")
  /\ UNCHANGED <<regVars, lockVars, gateVars, loaded, gpuVars>>

(* a capacity range is flushed and its addresses are given back *)
UnregisterFlush(o) ==
  /\ ctx[o].pc = "synced" /\ ctx[o].range \in CapacityRanges
  /\ Goto(o, "flushed")
  /\ UNCHANGED <<regVars, lockVars, gateVars, loaded, gpuVars>>

UnregisterRelease(o) ==
  /\ ctx[o].pc = "flushed"
  /\ ctx' = [ctx EXCEPT ![o].pc = "released",
                        ![o].held = @ \ {ctx[o].range}]
  /\ UNCHANGED <<regVars, lockVars, gateVars, loaded, gpuVars>>

(* the routing entry, the published range and the gate's range go *)
UnregisterEnd(o) ==
  /\ \/ ctx[o].pc = "released"
     \/ ctx[o].pc = "synced" /\ ctx[o].range \in TimingRanges
  /\ gate' = gate \ {ctx[o].range}
  /\ writer' = None
  /\ ctx' = [ctx EXCEPT ![o].pc = "active", ![o].range = None,
                        ![o].table = @ \ {ctx[o].range}]
  /\ UNCHANGED <<regVars, lifecycle, readers, launchSeen, loaded, gpuVars>>

(***************************************************************************)
(* Contexts: retirement, release_context step by step                      *)
(***************************************************************************)

(* begin_retire; a registry that refuses leaves the context as it is *)
RetireBegin(o) ==
  /\ ctx[o].pc = "active" /\ Exclusive
  /\ \/ Quiesce(o, ctx[o].gen) /\ writer' = o /\ Goto(o, "quiesced")
     \/ ~Owns(o, ctx[o].gen) /\ Goto(o, "leaked") /\ UNCHANGED <<regVars, writer>>
  /\ UNCHANGED <<lifecycle, readers, gateVars, loaded, gpuVars>>

RetireSteps == {"quiesced", "live", "retireSynced", "retireFlushed",
                "invalidated", "freed", "unregistered"}

(* a quarantine would clear the gate as a retirement does *)
ForgetRanges == gate' = {} /\ ResetLaunches

KeepRanges == UNCHANGED gateVars

(* quarantine_retire: the daemon is lost, CUDA or the flush fails, ...;    *)
(* part of the reserved addresses may have been given back                 *)
RetireFails(o) ==
  /\ ctx[o].pc \in RetireSteps \ {"unregistered"}
  /\ \E kept \in SUBSET ctx[o].held :
       /\ ctx[o].pc # "invalidated" => kept = ctx[o].held
       /\ ctx' = [ctx EXCEPT ![o].pc = "leaked", ![o].held = kept]
  /\ writer' = None
  /\ KeepRanges
  /\ UNCHANGED <<regVars, lifecycle, readers, loaded, gpuVars>>

RetireStep(o, from, to) ==
  /\ ctx[o].pc = from
  /\ Goto(o, to)
  /\ UNCHANGED <<regVars, lockVars, gateVars, loaded, gpuVars>>

RetireAlive(o) == RetireStep(o, "quiesced", "live")

(* kernels could still run when the words are cleared *)
RetireUnsynced(o) == RetireStep(o, "live", "retireSynced")

RetireSync(o) ==
  Drained(ctx[o].domain) /\ RetireStep(o, "live", "retireSynced")

(* a flush would be tried again and again *)
RetireRetry(o) == RetireStep(o, "retireSynced", "live")

RetireFlush(o) == RetireStep(o, "retireSynced", "retireFlushed")

RetireInvalidate(o) ==
  /\ ctx[o].pc = "retireFlushed"
  /\ \E cleared \in BOOLEAN :
       /\ Invalidate(o, ctx[o].gen, cleared)
       /\ Goto(o, IF cleared THEN "invalidated" ELSE "leaked")
       /\ writer' = IF cleared THEN o ELSE None
  /\ UNCHANGED <<lifecycle, readers, gateVars, loaded, gpuVars>>

RetireFree(o) ==
  /\ ctx[o].pc = "invalidated"
  /\ ctx' = [ctx EXCEPT ![o].pc = "freed", ![o].held = {}]
  /\ UNCHANGED <<regVars, lockVars, gateVars, loaded, gpuVars>>

(* cudaHostUnregister, after the daemon has ended *)
RetireUnmap(o) ==
  /\ ctx[o].pc = "freed"
  /\ ctx' = [ctx EXCEPT ![o].pc = "unregistered", ![o].mapped = FALSE]
  /\ UNCHANGED <<regVars, lockVars, gateVars, loaded, gpuVars>>

RetireEnd(o) ==
  /\ ctx[o].pc = "unregistered"
  /\ writer' = None
  /\ \/ /\ FinishRetire(o, ctx[o].gen)
        /\ gate' = {} /\ ResetLaunches
        /\ ctx' = [ctx EXCEPT ![o] = Absent]
     \/ /\ ~Retires(o, ctx[o].gen)
        /\ Goto(o, "leaked")
        /\ UNCHANGED <<regVars, gateVars>>
  /\ UNCHANGED <<lifecycle, readers, loaded, gpuVars>>
----------------------------------------------------------------------------
LauncherNext(l) ==
  \/ \E m \in Modules \cup {None}, d \in Domains, r \in Ranges \cup {None} :
       LaunchBegin(l, m, d, r)
  \/ LaunchApproved(l) \/ LaunchDenied(l) \/ LaunchEnqueue(l)
  \/ KernelReads(l) \/ KernelEnds(l)

ModuleNext(m) == LoadModule(m) \/ UnloadBegin(m) \/ UnloadEnd(m)

UnregisterSteps(o) ==
  \/ UnregisterSync(o) \/ UnregisterFlush(o) \/ UnregisterRelease(o)
  \/ UnregisterEnd(o) \/ UnregisterFails(o)

RetireNext(o) ==
  \/ RetireAlive(o) \/ RetireSync(o) \/ RetireFlush(o) \/ RetireInvalidate(o)
  \/ RetireFree(o) \/ RetireUnmap(o) \/ RetireEnd(o) \/ RetireFails(o)

ContextNext(o) ==
  \/ \E d \in Domains : CreateContext(o, d)
  \/ ActivateBegin(o) \/ ActivateEnd(o) \/ ReleaseUnbound(o)
  \/ \E r \in Ranges : RegisterRange(o, r) \/ UnregisterBegin(o, r)
  \/ UnregisterSteps(o) \/ RetireBegin(o) \/ RetireNext(o)

Next ==
  \/ \E l \in Launchers : LauncherNext(l)
  \/ \E m \in Modules : ModuleNext(m)
  \/ \E d \in Domains : DestroyCudaContext(d)
  \/ \E o \in Owners : ContextNext(o)

Spec == GateInit /\ [][Next]_vars

(***************************************************************************)
(* Fairness: a thread in a call goes on, a kernel that runs ends, and the  *)
(* exclusive lock is handed to a writer that waits whenever the last       *)
(* reader has left again and again (std::shared_mutex promises no more).   *)
(***************************************************************************)
Fairness ==
  /\ \A l \in Launchers :
       /\ WF_vars(LaunchApproved(l) \/ LaunchDenied(l)) /\ WF_vars(LaunchEnqueue(l))
       /\ WF_vars(KernelEnds(l))
  /\ \A m \in Modules : SF_vars(UnloadEnd(m))
  /\ \A o \in Owners :
       /\ SF_vars(ActivateEnd(o)) /\ WF_vars(ReleaseUnbound(o))
       /\ WF_vars(UnregisterSteps(o)) /\ WF_vars(RetireNext(o))

FairSpec == Spec /\ Fairness
----------------------------------------------------------------------------
(* the generations that something still refers to *)
Recorded ==
  {reg.gen} \cup {entry[m].gen : m \in Modules} \cup {alias[m] : m \in Modules}
    \cup {ctx[o].gen : o \in Owners} \cup {kernel[l].seen : l \in Running}

(* A generation stands for one ownership of the registry, to the end of    *)
(* the 64-bit counter: an owner never has generation zero, which means     *)
(* that nobody owns the registry, and a generation that is still to be     *)
(* given out is newer than every one that a module, a control word, a      *)
(* context or a kernel has kept.                                           *)
GenerationsAreFresh ==
  /\ TypeOK
  /\ reg.owner = None <=> reg.gen = 0
  /\ reg.next # 0 => \A g \in Recorded : g < reg.next

Live == {ctx[o].gen : o \in {p \in Owners : ctx[p].mapped}}

(* A kernel that has loaded a control address never outlives the control   *)
(* mapping behind it: release_context unregisters the mapping only after   *)
(* launches were excluded, the device was synchronized and every module's  *)
(* word was cleared.                                                       *)
ControlOutlivesKernels ==
  \A l \in Running : kernel[l].seen # 0 => kernel[l].seen \in Live

(* No loaded module's control word points to a mapping that is gone, also  *)
(* when a word could not be written, a module was loaded during the        *)
(* retirement, or the owner changed.                                       *)
NoStaleAlias == \A m \in loaded : alias[m] # 0 => alias[m] \in Live

(* A kernel on a reserved capacity address, which has no memory behind it, *)
(* is instrumented and bound, also after a quarantined retirement.         *)
CapacityNeverNative ==
  \A l \in Running : (\E o \in Owners : kernel[l].range \in ctx[o].held)
                        => kernel[l].bound

(* A registered range is taken away only while no kernel that was admitted *)
(* to it with a live binding runs.                                         *)
RemovedWhenQuiet ==
  [][\A r \in gate \ gate' : \A l \in Running :
       kernel[l].range = r => ~kernel[l].bound]_vars

(* An activation or an unload that holds the lifecycle mutex while it      *)
(* waits for the range lock gets through, also against a retirement that   *)
(* holds the range lock, if launches do not overlap for ever.              *)
LifecycleReleased ==
  []<>(readers = {}) => (lifecycle # None ~> lifecycle = None)

(* The order docs/skills/07-capacity-address-translation.md gives: a range *)
(* leaves the published table before its addresses are released.           *)
ReservationOutlivesRange ==
  \A o \in Owners : ctx[o].table \cap CapacityRanges \subseteq ctx[o].held
=============================================================================
