-------------------------- MODULE LaunchGateProofs --------------------------
(***************************************************************************)
(* The launch gate keeps kernels and control mappings together, for any    *)
(* number of launchers, modules, contexts, domains and ranges.             *)
(*                                                                         *)
(* The properties speak of words, kernels and mappings; what they rest on  *)
(* is who holds which lock.  The invariant adds that a launch in progress  *)
(* is a reader and a removal or retirement the writer (Locks), that the    *)
(* registry and the context that owns it agree (Ownership), that a word or *)
(* a kernel's copy of it is the owner's current generation (Words,         *)
(* Executing), that the words are cleared before the mapping goes          *)
(* (Cleared), and that nothing runs in the domain between the              *)
(* synchronization and the end of the removal (Quiet).                     *)
(***************************************************************************)
EXTENDS LaunchGate, TLAPS

-----------------------------------------------------------------------------

\* The steps of hbfsim_unregister that hold the range lock.
Removing == {"removing", "synced", "flushed", "released"}

\* The steps of an unregistration or a retirement after the device was
\* synchronized.
Quieted == {"synced", "flushed", "released", "retireSynced", "retireFlushed",
            "invalidated", "freed", "unregistered"}

\* The steps at which a context does not own the registry.
Unbound == {"absent", "mapped", "activating", "unmapping"}

\* The steps of a retirement after every control word was cleared.
Dismantled == {"invalidated", "freed", "unregistered"}

\* The record types of TypeOK, by name.
ContextStates ==
  [pc : ContextSteps, domain : Domains \cup {None}, gen : Generations \cup {0},
   mapped : BOOLEAN, table : SUBSET Ranges, held : SUBSET CapacityRanges,
   range : Ranges \cup {None}]

RegistryStates ==
  [owner : Owners \cup {None}, domain : Domains \cup {None},
   gen : Generations \cup {0}, next : Generations \cup {0},
   futures : BOOLEAN, retiring : BOOLEAN, quarantined : BOOLEAN]

EntryStates == [known : BOOLEAN, gen : Generations \cup {0}, initializer : BOOLEAN]

\* The range lock: a writer excludes readers, a launch that is not idle is a
\* reader, and whoever removes a range or retires is the writer.
Locks ==
  /\ writer # None => readers = {}
  /\ \A l \in Launchers : launch[l].pc # "idle" <=> l \in readers
  /\ \A o \in Owners : ctx[o].pc \in Removing \cup RetireSteps => writer = o

\* The registry and the context agree on who owns it: owner, domain and
\* generation, and from which step to which.
Ownership ==
  /\ reg.owner = None => reg.gen = 0
  /\ \A o \in Owners :
       /\ ctx[o].gen # 0 <=> reg.owner = o
       /\ reg.owner = o => reg.gen = ctx[o].gen /\ reg.domain = ctx[o].domain
       /\ ctx[o].gen = 0 => ctx[o].held = {}
       /\ ctx[o].pc \in Unbound => ctx[o].gen = 0
       /\ ctx[o].pc \in {"active"} \cup Removing \cup RetireSteps => ctx[o].gen # 0
       /\ ~ctx[o].mapped => ctx[o].pc \in {"absent", "unregistered", "leaked"}
       /\ ctx[o].pc \in RetireSteps => reg.retiring

\* A context still owns the registry whose mapping is gone, or about to go.
Gone(o) == ctx[o].gen # 0 /\ (~ctx[o].mapped \/ ctx[o].pc \in Dismantled)

\* By then the retirement has excluded new words and cleared all of them.
Cleared == \A o \in Owners : Gone(o) => reg.retiring /\ \A m \in Modules : alias[m] = 0

\* A reserved capacity address stays in the table of the gate.
Reserved ==
  \A o \in Owners : /\ ctx[o].held \subseteq gate
                    /\ ctx[o].pc = "released" => ctx[o].range \notin ctx[o].held

\* The registry only knows modules that are loaded.
Known == \A m \in Modules : entry[m].known => m \in loaded

\* A control word that is not null points to the mapping of the owner, in
\* its domain, and the registry knows it did.
Words ==
  \A m \in Modules : alias[m] # 0 =>
    /\ ActiveDomain(Home[m]) /\ alias[m] = reg.gen /\ ctx[reg.owner].mapped
    /\ entry[m].known /\ entry[m].initializer
    /\ m \in Future \/ entry[m].gen = reg.gen

\* What a launch that holds the range lock was admitted with still holds.
Admitted ==
  \A l \in readers :
    /\ launch[l].module # None => launch[l].domain = Home[launch[l].module]
    /\ launch[l].bound => ActiveDomain(launch[l].domain)
    /\ launch[l].range \in CapacityRanges =>
         IF launch[l].pc = "inspecting" THEN launch[l].range \in gate ELSE launch[l].bound

\* What a running kernel was enqueued with, and the word it has read, still
\* hold.
Executing ==
  \A l \in Running :
    /\ kernel[l].module # None => kernel[l].domain = Home[kernel[l].module]
    /\ kernel[l].bound => ActiveDomain(kernel[l].domain)
    /\ kernel[l].seen # 0 => /\ ActiveDomain(kernel[l].domain)
                             /\ kernel[l].seen = reg.gen /\ ctx[reg.owner].mapped
    /\ kernel[l].range \in CapacityRanges => kernel[l].bound

\* After the device was synchronized no kernel runs in the domain.
Quiet == \A o \in Owners : ctx[o].pc \in Quieted => Drained(ctx[o].domain)

\* The inductive invariant.
GateInv == /\ TypeOK /\ Locks /\ Ownership /\ Cleared /\ Reserved
           /\ Known /\ Words /\ Admitted /\ Executing /\ Quiet

\* A step of one context keeps the types.
LEMMA ContextTypes ==
  ASSUME ctx \in [Owners -> ContextStates], NEW o \in Owners,
         NEW s \in ContextStates, ctx' = [ctx EXCEPT ![o] = s]
  PROVE  ctx' \in [Owners -> ContextStates]
  BY Zenon

\* Goto keeps the types.
LEMMA GotoTypes ==
  ASSUME ctx \in [Owners -> ContextStates], NEW o \in Owners,
         NEW s \in ContextSteps, Goto(o, s)
  PROVE  ctx' \in [Owners -> ContextStates]
<1>1. [ctx[o] EXCEPT !.pc = s] \in ContextStates
  BY Zenon DEF ContextStates
<1>2. ctx' = [ctx EXCEPT ![o] = [ctx[o] EXCEPT !.pc = s]]
  BY Zenon DEF Goto
<1> QED
  BY <1>1, <1>2, ContextTypes, Zenon

\* LaunchBegin: the range lock is taken shared and the launch inspected.
LEMMA LaunchBeginStep ==
  ASSUME GateInv, NEW l \in Launchers, NEW m \in Modules \cup {None},
         NEW d \in Domains, NEW r \in Ranges \cup {None}, LaunchBegin(l, m, d, r)
  PROVE  GateInv'
<1>1. TypeOK'
  BY RegistryAssumption, GateAssumption, SMTT(30) DEF GateInv, TypeOK, RegistryType,
      Launches, Idle, Kernels, Generations, LaunchBegin, regVars, gateVars
<1>2. Ownership' /\ Cleared' /\ Reserved' /\ Known' /\ Words' /\ Executing' /\ Quiet'
  BY DEF GateInv, Ownership, Cleared, Reserved, Known, Words, Executing, Quiet,
      Gone, ActiveDomain, Running, Drained, LaunchBegin, regVars, gateVars
<1>3. Locks'
  BY Zenon DEF GateInv, TypeOK, Locks, Removing, RetireSteps, Idle, LaunchBegin
<1>4. Admitted'
  BY RegistryAssumption, GateAssumption DEF GateInv, TypeOK, Admitted,
      ActiveDomain, Locks, Idle, Launches, Reserved, Ownership, Removing,
      RetireSteps, RegistryType, Allowed, ReadyForActive, LaunchBegin, regVars,
      gateVars
<1> QED
  BY <1>1, <1>2, <1>3, <1>4, Zenon DEF GateInv

\* LaunchApproved: the module is bound when it is ready for the owner.
LEMMA LaunchApprovedStep ==
  ASSUME GateInv, NEW l \in Launchers, LaunchApproved(l)
  PROVE  GateInv'
<1>1. TypeOK'
  <2> DEFINE ready == launch[l].module # None /\ ReadyForActive(launch[l].module)
  <2>1. launch[l] \in Launches
    BY DEF GateInv, TypeOK, LaunchApproved, Idle
  <2>2. ready \in BOOLEAN
    BY Zenon DEF ReadyForActive
  <2> HIDE DEF ready
  <2>3. [launch[l] EXCEPT !.pc = "approved", !.bound = ready] \in Launches
    BY <2>1, <2>2, Zenon DEF Launches
  <2>4. launch' = [launch EXCEPT ![l] = [launch[l] EXCEPT !.pc = "approved",
                                                        !.bound = ready]]
    BY Zenon DEF LaunchApproved, ready
  <2>5. launch' \in [Launchers -> Launches \cup {Idle}]
    BY <2>3, <2>4, Zenon DEF GateInv, TypeOK
  <2> QED
    BY <2>5 DEF GateInv, TypeOK, RegistryType, LaunchApproved, MarkLaunch,
        regVars, lockVars
<1>2. Ownership' /\ Cleared' /\ Reserved' /\ Known' /\ Words' /\ Executing' /\ Quiet'
  BY DEF GateInv, Ownership, Cleared, Reserved, Known, Words, Executing, Quiet,
      Gone, ActiveDomain, Running, Drained, LaunchApproved, regVars
<1>3. Locks'
  BY SMTT(30) DEF GateInv, TypeOK, Locks, Removing, RetireSteps, Idle, LaunchApproved,
      lockVars
<1>4. Admitted'
  BY RegistryAssumption, GateAssumption DEF GateInv, TypeOK, Admitted,
      ActiveDomain, Locks, Idle, Launches, Reserved, Ownership, Removing,
      RetireSteps, RegistryType, Allowed, ReadyForActive, LaunchApproved,
      regVars, lockVars
<1> QED
  BY <1>1, <1>2, <1>3, <1>4, Zenon DEF GateInv

\* LaunchDenied: the lock is given back.
LEMMA LaunchDeniedStep ==
  ASSUME GateInv, NEW l \in Launchers, LaunchDenied(l)
  PROVE  GateInv'
<1>1. TypeOK'
  BY RegistryAssumption, GateAssumption, SMTT(30) DEF GateInv, TypeOK, RegistryType,
      Launches, Idle, Kernels, Generations, LaunchDenied, regVars, gateVars
<1>2. Ownership' /\ Cleared' /\ Reserved' /\ Known' /\ Words' /\ Executing' /\ Quiet'
  BY DEF GateInv, Ownership, Cleared, Reserved, Known, Words, Executing, Quiet,
      Gone, ActiveDomain, Running, Drained, LaunchDenied, regVars, gateVars
<1>3. Locks'
  BY Zenon DEF GateInv, TypeOK, Locks, Removing, RetireSteps, Idle, LaunchDenied
<1>4. Admitted'
  BY Zenon DEF GateInv, TypeOK, Admitted, ActiveDomain, LaunchDenied, regVars,
      gateVars
<1> QED
  BY <1>1, <1>2, <1>3, <1>4, Zenon DEF GateInv

\* LaunchEnqueue: the kernel runs, with what the launch was approved for.
LEMMA LaunchEnqueueStep ==
  ASSUME GateInv, NEW l \in Launchers, LaunchEnqueue(l)
  PROVE  GateInv'
<1>1. TypeOK'
  BY RegistryAssumption, GateAssumption DEF GateInv, TypeOK, RegistryType,
      Launches, Idle, Kernels, Generations, LaunchEnqueue, regVars, gateVars
<1>2. Ownership' /\ Cleared' /\ Reserved' /\ Known' /\ Words'
  BY Zenon DEF GateInv, Ownership, Cleared, Reserved, Known, Words, Gone,
      ActiveDomain, LaunchEnqueue, regVars, gateVars
<1>3. Locks'
  BY Zenon DEF GateInv, TypeOK, Locks, Removing, RetireSteps, Idle, LaunchEnqueue
<1>4. Admitted'
  BY Zenon DEF GateInv, TypeOK, Admitted, ActiveDomain, LaunchEnqueue, regVars,
      gateVars
<1>5. Executing'
  BY RegistryAssumption, GateAssumption, SMTT(30) DEF GateInv, TypeOK, Executing,
      Running, ActiveDomain, Ownership, RegistryType, Kernels, Admitted, Locks,
      Words, Quiet, Drained, Quieted, Launches, Idle, RetireSteps,
      LaunchEnqueue, regVars
<1>6. Quiet'
  BY RegistryAssumption, GateAssumption DEF GateInv, TypeOK, Quiet, Drained,
      Running, Quieted, Locks, Ownership, Removing, RetireSteps, Idle,
      Launches, LaunchEnqueue
<1> QED
  BY <1>1, <1>2, <1>3, <1>4, <1>5, <1>6, Zenon DEF GateInv

\* KernelReads: the kernel loads the control word of its module.
LEMMA KernelReadsStep ==
  ASSUME GateInv, NEW l \in Launchers, KernelReads(l)
  PROVE  GateInv'
<1>1. TypeOK'
  <2> DEFINE word == alias[kernel[l].module]
  <2>1. kernel[l] \in Kernels /\ word \in Generations \cup {0}
    BY Zenon DEF GateInv, TypeOK, RegistryType, KernelReads, Kernels
  <2>2. [kernel[l] EXCEPT !.seen = word] \in Kernels
    BY <2>1, Zenon DEF Kernels
  <2>3. kernel' = [kernel EXCEPT ![l] = [kernel[l] EXCEPT !.seen = word]]
    BY Zenon DEF KernelReads
  <2>4. kernel' \in [Launchers -> Kernels \cup {None}]
    BY <2>2, <2>3, Zenon DEF GateInv, TypeOK
  <2> QED
    BY <2>4 DEF GateInv, TypeOK, RegistryType, KernelReads, regVars, lockVars,
        gateVars
<1>2. Locks' /\ Ownership' /\ Cleared' /\ Reserved' /\ Known' /\ Words' /\ Admitted'
  BY Zenon DEF GateInv, Locks, Ownership, Cleared, Reserved, Known, Words, Admitted,
      Gone, ActiveDomain, KernelReads, regVars, lockVars, gateVars
<1>3. Executing'
  BY RegistryAssumption, GateAssumption, SMTT(30) DEF GateInv, TypeOK, Executing,
      Running, ActiveDomain, Ownership, RegistryType, Kernels, Admitted, Locks,
      Words, Quiet, Drained, Quieted, Launches, Idle, RetireSteps, KernelReads,
      regVars
<1>4. Quiet'
  BY DEF GateInv, TypeOK, Quiet, Drained, Running, Quieted, KernelReads
<1> QED
  BY <1>1, <1>2, <1>3, <1>4, Zenon DEF GateInv

\* KernelEnds: one kernel less runs.
LEMMA KernelEndsStep ==
  ASSUME GateInv, NEW l \in Launchers, KernelEnds(l)
  PROVE  GateInv'
<1>1. TypeOK'
  BY RegistryAssumption, GateAssumption, SMTT(30) DEF GateInv, TypeOK, RegistryType,
      Launches, Idle, Kernels, Generations, KernelEnds, regVars, lockVars,
      gateVars
<1>2. Locks' /\ Ownership' /\ Cleared' /\ Reserved' /\ Known' /\ Words' /\ Admitted'
  BY DEF GateInv, Locks, Ownership, Cleared, Reserved, Known, Words, Admitted,
      Gone, ActiveDomain, KernelEnds, regVars, lockVars, gateVars
<1>3. Executing'
  BY Zenon DEF GateInv, TypeOK, Executing, Running, ActiveDomain, KernelEnds, regVars
<1>4. Quiet'
  BY Zenon DEF GateInv, TypeOK, Quiet, Drained, Running, Quieted, KernelEnds
<1> QED
  BY <1>1, <1>2, <1>3, <1>4, Zenon DEF GateInv

\* UnloadBegin: only the lifecycle mutex.
LEMMA UnloadBeginStep ==
  ASSUME GateInv, NEW m \in Modules, UnloadBegin(m)
  PROVE  GateInv'
<1>1. TypeOK'
  BY RegistryAssumption, GateAssumption, SMTT(30) DEF GateInv, TypeOK, RegistryType,
      Launches, Idle, Kernels, Generations, UnloadBegin, regVars, gateVars,
      gpuVars
<1>2. /\ Locks' /\ Ownership' /\ Cleared' /\ Reserved' /\ Known' /\ Words'
      /\ Admitted' /\ Executing' /\ Quiet'
  BY DEF GateInv, Locks, Ownership, Cleared, Reserved, Known, Words, Admitted,
      Executing, Quiet, Gone, ActiveDomain, Running, Drained, UnloadBegin,
      regVars, gateVars, gpuVars
<1> QED
  BY <1>1, <1>2, Zenon DEF GateInv

\* CreateContext: a context without a binding.
LEMMA CreateContextStep ==
  ASSUME GateInv, NEW o \in Owners, NEW d \in Domains, CreateContext(o, d)
  PROVE  GateInv'
<1>1. TypeOK'
  <2>1. ctx \in [Owners -> ContextStates]
    BY Zenon DEF GateInv, TypeOK, ContextStates
  <2>2. ctx' \in [Owners -> ContextStates]
    <3> DEFINE s == [ctx[o] EXCEPT !.pc = "mapped", !.domain = d,
                                   !.mapped = TRUE]
    <3>1. s \in ContextStates
      BY <2>1, Zenon DEF ContextStates, ContextSteps, Ranges
    <3>2. ctx' = [ctx EXCEPT ![o] = s]
      BY Zenon DEF CreateContext
    <3> QED
      BY <2>1, <3>1, <3>2, ContextTypes, Zenon
  <2> QED
    BY <2>2 DEF GateInv, TypeOK, RegistryType, ContextStates, CreateContext,
        regVars, lockVars, gateVars, gpuVars
<1>2. Known' /\ Admitted'
  BY Zenon DEF GateInv, Known, Admitted, ActiveDomain, CreateContext, regVars,
      lockVars, gateVars, gpuVars
<1>3. Locks'
  BY DEF GateInv, TypeOK, Locks, Removing, RetireSteps, Idle, CreateContext,
      lockVars, gpuVars
<1>4. Ownership'
  BY SMTT(30) DEF GateInv, TypeOK, Ownership, Unbound, Removing, RetireSteps,
      CreateContext, regVars
<1>5. Cleared'
  BY DEF GateInv, TypeOK, Cleared, Gone, Dismantled, CreateContext, regVars
<1>6. Reserved'
  BY DEF GateInv, TypeOK, Reserved, CreateContext, gateVars
<1>7. Words'
  BY RegistryAssumption, GateAssumption, SMTT(30) DEF GateInv, TypeOK, Words,
      ActiveDomain, Ownership, RegistryType, CreateContext, regVars
<1>8. Executing'
  BY RegistryAssumption, GateAssumption, SMTT(30) DEF GateInv, TypeOK, Executing,
      Running, ActiveDomain, Ownership, RegistryType, Kernels, CreateContext,
      regVars, gpuVars
<1>9. Quiet'
  BY DEF GateInv, TypeOK, Quiet, Drained, Running, Quieted, CreateContext,
      gpuVars
<1> QED
  BY <1>1, <1>2, <1>3, <1>4, <1>5, <1>6, <1>7, <1>8, <1>9, Zenon DEF GateInv

\* RegisterRange: a range enters the table, and the reservation behind it.
LEMMA RegisterRangeStep ==
  ASSUME GateInv, NEW o \in Owners, NEW r \in Ranges, RegisterRange(o, r)
  PROVE  GateInv'
<1>1. TypeOK'
  <2>1. ctx \in [Owners -> ContextStates]
    BY Zenon DEF GateInv, TypeOK, ContextStates
  <2>2. ctx' \in [Owners -> ContextStates]
    <3> DEFINE s == [ctx[o] EXCEPT !.table = @ \cup {r},
                                   !.held = @ \cup ({r} \cap CapacityRanges)]
    <3>1. s \in ContextStates
      BY <2>1, Zenon DEF ContextStates, ContextSteps, Ranges
    <3>2. ctx' = [ctx EXCEPT ![o] = s]
      BY Zenon DEF RegisterRange
    <3> QED
      BY <2>1, <3>1, <3>2, ContextTypes, Zenon
  <2> QED
    BY <2>2, SMTT(30) DEF GateInv, TypeOK, RegistryType, ContextStates, RegisterRange,
        regVars, lockVars, gpuVars
<1>2. Known'
  BY Zenon DEF GateInv, Known, RegisterRange, regVars
<1>3. Locks'
  BY SMTT(30) DEF GateInv, TypeOK, Locks, Removing, RetireSteps, Idle, RegisterRange,
      lockVars, gpuVars
<1>4. Ownership'
  BY DEF GateInv, TypeOK, Ownership, Unbound, Removing, RetireSteps,
      RegisterRange, regVars
<1>5. Cleared'
  BY DEF GateInv, TypeOK, Cleared, Gone, Dismantled, RegisterRange, regVars
<1>6. Reserved'
  BY DEF GateInv, TypeOK, Reserved, RegisterRange
<1>7. Words'
  BY RegistryAssumption, GateAssumption, SMTT(30) DEF GateInv, TypeOK, Words,
      ActiveDomain, Ownership, RegistryType, RegisterRange, Exclusive, Owns,
      regVars
<1>8. Admitted'
  BY Zenon DEF GateInv, TypeOK, Admitted, ActiveDomain, RegisterRange, regVars,
      lockVars, gpuVars
<1>9. Executing'
  BY RegistryAssumption, GateAssumption DEF GateInv, TypeOK, Executing,
      Running, ActiveDomain, Ownership, RegistryType, Kernels, RegisterRange,
      Exclusive, Owns, regVars, gpuVars
<1>10. Quiet'
  BY DEF GateInv, TypeOK, Quiet, Drained, Running, Quieted, RegisterRange,
      gpuVars
<1> QED
  BY <1>1, <1>2, <1>3, <1>4, <1>5, <1>6, <1>7, <1>8, <1>9, <1>10, Zenon DEF GateInv

\* UnregisterBegin: the range lock is taken exclusively.
LEMMA UnregisterBeginStep ==
  ASSUME GateInv, NEW o \in Owners, NEW r \in Ranges, UnregisterBegin(o, r)
  PROVE  GateInv'
<1>1. TypeOK'
  <2>1. ctx \in [Owners -> ContextStates]
    BY Zenon DEF GateInv, TypeOK, ContextStates
  <2>2. ctx' \in [Owners -> ContextStates]
    <3> DEFINE s == [ctx[o] EXCEPT !.pc = "removing", !.range = r]
    <3>1. s \in ContextStates
      BY <2>1, Zenon DEF ContextStates, ContextSteps, Ranges
    <3>2. ctx' = [ctx EXCEPT ![o] = s]
      BY Zenon DEF UnregisterBegin
    <3> QED
      BY <2>1, <3>1, <3>2, ContextTypes, Zenon
  <2> QED
    BY <2>2 DEF GateInv, TypeOK, RegistryType, ContextStates, UnregisterBegin,
        regVars, gateVars, gpuVars
<1>2. Known' /\ Admitted'
  BY Zenon DEF GateInv, Known, Admitted, ActiveDomain, UnregisterBegin, regVars,
      gateVars, gpuVars
<1>3. Locks'
  BY RegistryAssumption, GateAssumption, Zenon DEF GateInv, TypeOK, Locks, Removing,
      RetireSteps, Idle, Launches, UnregisterBegin, Exclusive, Owns, gpuVars
<1>4. Ownership'
  BY SMTT(30) DEF GateInv, TypeOK, Ownership, Unbound, Removing, RetireSteps,
      UnregisterBegin, regVars
<1>5. Cleared'
  BY DEF GateInv, TypeOK, Cleared, Gone, Dismantled, UnregisterBegin, regVars
<1>6. Reserved'
  BY DEF GateInv, TypeOK, Reserved, UnregisterBegin, gateVars
<1>7. Words'
  BY RegistryAssumption, GateAssumption, SMTT(30) DEF GateInv, TypeOK, Words,
      ActiveDomain, Ownership, RegistryType, UnregisterBegin, Exclusive, Owns,
      regVars
<1>8. Executing'
  BY RegistryAssumption, GateAssumption DEF GateInv, TypeOK, Executing,
      Running, ActiveDomain, Ownership, RegistryType, Kernels, UnregisterBegin,
      Exclusive, Owns, regVars, gpuVars
<1>9. Quiet'
  BY DEF GateInv, TypeOK, Quiet, Drained, Running, Quieted, UnregisterBegin,
      gpuVars
<1> QED
  BY <1>1, <1>2, <1>3, <1>4, <1>5, <1>6, <1>7, <1>8, <1>9, Zenon DEF GateInv

\* UnregisterFails: the range stays and the lock is given back.
LEMMA UnregisterFailsStep ==
  ASSUME GateInv, NEW o \in Owners, UnregisterFails(o)
  PROVE  GateInv'
<1>1. TypeOK'
  <2>1. ctx \in [Owners -> ContextStates]
    BY Zenon DEF GateInv, TypeOK, ContextStates
  <2>2. ctx' \in [Owners -> ContextStates]
    <3> DEFINE s == [ctx[o] EXCEPT !.pc = "active", !.range = None]
    <3>1. s \in ContextStates
      BY <2>1, Zenon DEF ContextStates, ContextSteps, Ranges
    <3>2. ctx' = [ctx EXCEPT ![o] = s]
      BY Zenon DEF UnregisterFails
    <3> QED
      BY <2>1, <3>1, <3>2, ContextTypes, Zenon
  <2> QED
    BY <2>2 DEF GateInv, TypeOK, RegistryType, ContextStates, UnregisterFails,
        regVars, gateVars, gpuVars
<1>2. Known' /\ Admitted'
  BY Zenon DEF GateInv, Known, Admitted, ActiveDomain, UnregisterFails, regVars,
      gateVars, gpuVars
<1>3. Locks'
  BY DEF GateInv, TypeOK, Locks, Removing, RetireSteps, Idle, UnregisterFails,
      gpuVars
<1>4. Ownership'
  BY SMTT(30) DEF GateInv, TypeOK, Ownership, Unbound, Removing, RetireSteps,
      UnregisterFails, regVars
<1>5. Cleared'
  BY DEF GateInv, TypeOK, Cleared, Gone, Dismantled, UnregisterFails, regVars
<1>6. Reserved'
  BY DEF GateInv, TypeOK, Reserved, UnregisterFails, gateVars
<1>7. Words'
  BY RegistryAssumption, GateAssumption, SMTT(30) DEF GateInv, TypeOK, Words,
      ActiveDomain, Ownership, RegistryType, UnregisterFails, regVars
<1>8. Executing'
  BY RegistryAssumption, GateAssumption, SMTT(30) DEF GateInv, TypeOK, Executing,
      Running, ActiveDomain, Ownership, RegistryType, Kernels, UnregisterFails,
      regVars, gpuVars
<1>9. Quiet'
  BY DEF GateInv, TypeOK, Quiet, Drained, Running, Quieted, UnregisterFails,
      gpuVars
<1> QED
  BY <1>1, <1>2, <1>3, <1>4, <1>5, <1>6, <1>7, <1>8, <1>9, Zenon DEF GateInv

\* UnregisterSync: no kernel of the domain runs any more, and none can start
\* while the lock is held.
LEMMA UnregisterSyncStep ==
  ASSUME GateInv, NEW o \in Owners, UnregisterSync(o)
  PROVE  GateInv'
<1>1. TypeOK'
  <2>1. ctx \in [Owners -> ContextStates]
    BY Zenon DEF GateInv, TypeOK, ContextStates
  <2>2. ctx' \in [Owners -> ContextStates]
    <3>1. "synced" \in ContextSteps /\ Goto(o, "synced")
      BY Zenon DEF ContextSteps, UnregisterSync
    <3> QED
      BY <2>1, <3>1, GotoTypes, Zenon
  <2> QED
    BY <2>2 DEF GateInv, TypeOK, RegistryType, ContextStates, UnregisterSync,
        regVars, lockVars, gateVars, gpuVars
<1>2. Known' /\ Admitted'
  BY Zenon DEF GateInv, Known, Admitted, ActiveDomain, UnregisterSync, regVars,
      lockVars, gateVars, gpuVars
<1>3. Locks'
  BY Zenon DEF GateInv, TypeOK, Locks, Removing, RetireSteps, Idle, UnregisterSync,
      Goto, lockVars, gpuVars
<1>4. Ownership'
  BY DEF GateInv, TypeOK, Ownership, Unbound, Removing, RetireSteps,
      UnregisterSync, Goto, regVars
<1>5. Cleared'
  BY Zenon DEF GateInv, TypeOK, Cleared, Gone, Dismantled, UnregisterSync, Goto,
      regVars
<1>6. Reserved'
  BY DEF GateInv, TypeOK, Reserved, UnregisterSync, Goto, gateVars
<1>7. Words'
  BY DEF GateInv, TypeOK, Words, ActiveDomain, UnregisterSync, Goto, regVars
<1>8. Executing'
  BY DEF GateInv, TypeOK, Executing, Running, ActiveDomain, UnregisterSync,
      Goto, regVars, gpuVars
<1>9. Quiet'
  BY Zenon DEF GateInv, TypeOK, Quiet, Drained, Running, Quieted, UnregisterSync,
      Goto, gpuVars
<1> QED
  BY <1>1, <1>2, <1>3, <1>4, <1>5, <1>6, <1>7, <1>8, <1>9, Zenon DEF GateInv

\* UnregisterFlush: only the step changes.
LEMMA UnregisterFlushStep ==
  ASSUME GateInv, NEW o \in Owners, UnregisterFlush(o)
  PROVE  GateInv'
<1>1. TypeOK'
  <2>1. ctx \in [Owners -> ContextStates]
    BY Zenon DEF GateInv, TypeOK, ContextStates
  <2>2. ctx' \in [Owners -> ContextStates]
    <3>1. "flushed" \in ContextSteps /\ Goto(o, "flushed")
      BY Zenon DEF ContextSteps, UnregisterFlush
    <3> QED
      BY <2>1, <3>1, GotoTypes, Zenon
  <2> QED
    BY <2>2 DEF GateInv, TypeOK, RegistryType, ContextStates, UnregisterFlush,
        regVars, lockVars, gateVars, gpuVars
<1>2. Known' /\ Admitted'
  BY Zenon DEF GateInv, Known, Admitted, ActiveDomain, UnregisterFlush, regVars,
      lockVars, gateVars, gpuVars
<1>3. Locks'
  BY Zenon DEF GateInv, TypeOK, Locks, Removing, RetireSteps, Idle, UnregisterFlush,
      Goto, lockVars, gpuVars
<1>4. Ownership'
  BY DEF GateInv, TypeOK, Ownership, Unbound, Removing, RetireSteps,
      UnregisterFlush, Goto, regVars
<1>5. Cleared'
  BY Zenon DEF GateInv, TypeOK, Cleared, Gone, Dismantled, UnregisterFlush, Goto,
      regVars
<1>6. Reserved'
  BY DEF GateInv, TypeOK, Reserved, UnregisterFlush, Goto, gateVars
<1>7. Words'
  BY SMTT(30) DEF GateInv, TypeOK, Words, ActiveDomain, UnregisterFlush, Goto, regVars
<1>8. Executing'
  BY SMTT(30) DEF GateInv, TypeOK, Executing, Running, ActiveDomain, UnregisterFlush,
      Goto, regVars, gpuVars
<1>9. Quiet'
  BY Zenon DEF GateInv, TypeOK, Quiet, Drained, Running, Quieted, UnregisterFlush,
      Goto, gpuVars
<1> QED
  BY <1>1, <1>2, <1>3, <1>4, <1>5, <1>6, <1>7, <1>8, <1>9, Zenon DEF GateInv

\* UnregisterRelease: the reservation is given back before the range leaves
\* the table.
LEMMA UnregisterReleaseStep ==
  ASSUME GateInv, NEW o \in Owners, UnregisterRelease(o)
  PROVE  GateInv'
<1>1. TypeOK'
  <2>1. ctx \in [Owners -> ContextStates]
    BY Zenon DEF GateInv, TypeOK, ContextStates
  <2>2. ctx' \in [Owners -> ContextStates]
    <3> DEFINE s == [ctx[o] EXCEPT !.pc = "released",
                                   !.held = @ \ {ctx[o].range}]
    <3>1. s \in ContextStates
      BY <2>1, Zenon DEF ContextStates, ContextSteps, Ranges
    <3>2. ctx' = [ctx EXCEPT ![o] = s]
      BY Zenon DEF UnregisterRelease
    <3> QED
      BY <2>1, <3>1, <3>2, ContextTypes, Zenon
  <2> QED
    BY <2>2, SMTT(30) DEF GateInv, TypeOK, RegistryType, ContextStates,
        UnregisterRelease, regVars, lockVars, gateVars, gpuVars
<1>2. Known' /\ Admitted'
  BY Zenon DEF GateInv, Known, Admitted, ActiveDomain, UnregisterRelease, regVars,
      lockVars, gateVars, gpuVars
<1>3. Locks'
  BY Zenon DEF GateInv, TypeOK, Locks, Removing, RetireSteps, Idle,
      UnregisterRelease, lockVars, gpuVars
<1>4. Ownership'
  BY DEF GateInv, TypeOK, Ownership, Unbound, Removing, RetireSteps,
      UnregisterRelease, regVars
<1>5. Cleared'
  BY SMTT(30) DEF GateInv, TypeOK, Cleared, Gone, Dismantled, UnregisterRelease, regVars
<1>6. Reserved'
  BY DEF GateInv, TypeOK, Reserved, UnregisterRelease, gateVars
<1>7. Words'
  BY RegistryAssumption, GateAssumption, SMTT(30) DEF GateInv, TypeOK, Words,
      ActiveDomain, Ownership, RegistryType, UnregisterRelease, regVars
<1>8. Executing'
  BY RegistryAssumption, GateAssumption, SMTT(30) DEF GateInv, TypeOK, Executing,
      Running, ActiveDomain, Ownership, RegistryType, Kernels,
      UnregisterRelease, regVars, gpuVars
<1>9. Quiet'
  BY DEF GateInv, TypeOK, Quiet, Drained, Running, Quieted, UnregisterRelease,
      gpuVars
<1> QED
  BY <1>1, <1>2, <1>3, <1>4, <1>5, <1>6, <1>7, <1>8, <1>9, Zenon DEF GateInv

\* UnregisterEnd: the range leaves the table.
LEMMA UnregisterEndStep ==
  ASSUME GateInv, NEW o \in Owners, UnregisterEnd(o)
  PROVE  GateInv'
<1>1. TypeOK'
  <2>1. ctx \in [Owners -> ContextStates]
    BY Zenon DEF GateInv, TypeOK, ContextStates
  <2>2. ctx' \in [Owners -> ContextStates]
    <3> DEFINE s == [ctx[o] EXCEPT !.pc = "active", !.range = None,
                                   !.table = @ \ {ctx[o].range}]
    <3>1. s \in ContextStates
      BY <2>1, Zenon DEF ContextStates, ContextSteps, Ranges
    <3>2. ctx' = [ctx EXCEPT ![o] = s]
      BY Zenon DEF UnregisterEnd
    <3> QED
      BY <2>1, <3>1, <3>2, ContextTypes, Zenon
  <2> QED
    BY <2>2, SMTT(30) DEF GateInv, TypeOK, RegistryType, ContextStates, UnregisterEnd,
        regVars, gpuVars
<1>2. Known'
  BY Zenon DEF GateInv, Known, UnregisterEnd, regVars
<1>3. Locks'
  BY SMTT(30) DEF GateInv, TypeOK, Locks, Removing, RetireSteps, Idle, UnregisterEnd,
      gpuVars
<1>4. Ownership'
  BY DEF GateInv, TypeOK, Ownership, Unbound, Removing, RetireSteps,
      UnregisterEnd, regVars
<1>5. Cleared'
  BY DEF GateInv, TypeOK, Cleared, Gone, Dismantled, UnregisterEnd, regVars
<1>6. Reserved'
  BY RegistryAssumption, GateAssumption, SMTT(30) DEF GateInv, TypeOK, Reserved,
      Ownership, Unbound, Locks, Removing, RetireSteps, UnregisterEnd
<1>7. Words'
  BY RegistryAssumption, GateAssumption, SMTT(30) DEF GateInv, TypeOK, Words,
      ActiveDomain, Ownership, RegistryType, UnregisterEnd, regVars
<1>8. Admitted'
  BY RegistryAssumption, GateAssumption, SMTT(30) DEF GateInv, TypeOK, Admitted,
      ActiveDomain, Locks, Idle, Launches, UnregisterEnd, regVars, gpuVars
<1>9. Executing'
  BY RegistryAssumption, GateAssumption DEF GateInv, TypeOK, Executing,
      Running, ActiveDomain, Ownership, RegistryType, Kernels, UnregisterEnd,
      regVars, gpuVars
<1>10. Quiet'
  BY DEF GateInv, TypeOK, Quiet, Drained, Running, Quieted, UnregisterEnd,
      gpuVars
<1> QED
  BY <1>1, <1>2, <1>3, <1>4, <1>5, <1>6, <1>7, <1>8, <1>9, <1>10, Zenon DEF GateInv

\* RetireFails: the context is leaked; the ranges and its mapping stay.
LEMMA RetireFailsStep ==
  ASSUME GateInv, NEW o \in Owners, RetireFails(o)
  PROVE  GateInv'
<1>1. TypeOK'
  <2>1. ctx \in [Owners -> ContextStates]
    BY Zenon DEF GateInv, TypeOK, ContextStates
  <2>2. ctx' \in [Owners -> ContextStates]
    <3>1. PICK kept \in SUBSET ctx[o].held :
             ctx' = [ctx EXCEPT ![o].pc = "leaked", ![o].held = kept]
      BY Zenon DEF RetireFails
    <3> DEFINE s == [ctx[o] EXCEPT !.pc = "leaked", !.held = kept]
    <3>2. s \in ContextStates
      BY <2>1, Zenon DEF ContextStates, ContextSteps
    <3>3. ctx' = [ctx EXCEPT ![o] = s]
      BY <3>1, Zenon
    <3> QED
      BY <2>1, <3>2, <3>3, ContextTypes, Zenon
  <2> QED
    BY <2>2 DEF GateInv, TypeOK, RegistryType, ContextStates, RetireFails,
        KeepRanges, regVars, gpuVars, gateVars
<1>2. Known' /\ Admitted'
  BY Zenon DEF GateInv, Known, Admitted, ActiveDomain, RetireFails, KeepRanges,
      regVars, gpuVars, gateVars
<1>3. Locks'
  BY SMTT(30) DEF GateInv, TypeOK, Locks, Removing, RetireSteps, Idle, RetireFails,
      KeepRanges, gpuVars
<1>4. Ownership'
  BY SMTT(30) DEF GateInv, TypeOK, Ownership, Unbound, Removing, RetireSteps,
      RetireFails, KeepRanges, regVars
<1>5. Cleared'
  BY SMTT(30) DEF GateInv, TypeOK, Cleared, Gone, Dismantled, RetireFails, KeepRanges,
      regVars
<1>6. Reserved'
  BY DEF GateInv, TypeOK, Reserved, RetireFails, KeepRanges, gateVars
<1>7. Words'
  BY RegistryAssumption, GateAssumption, SMTT(30) DEF GateInv, TypeOK, Words,
      ActiveDomain, Ownership, RegistryType, RetireFails, KeepRanges, regVars
<1>8. Executing'
  BY RegistryAssumption, GateAssumption, SMTT(30) DEF GateInv, TypeOK, Executing,
      Running, ActiveDomain, Ownership, RegistryType, Kernels, RetireFails,
      KeepRanges, regVars, gpuVars
<1>9. Quiet'
  BY DEF GateInv, TypeOK, Quiet, Drained, Running, Quieted, RetireFails,
      KeepRanges, gpuVars
<1> QED
  BY <1>1, <1>2, <1>3, <1>4, <1>5, <1>6, <1>7, <1>8, <1>9, Zenon DEF GateInv

\* RetireAlive: only the step changes.
LEMMA RetireAliveStep ==
  ASSUME GateInv, NEW o \in Owners, RetireAlive(o)
  PROVE  GateInv'
<1>1. TypeOK'
  <2>1. ctx \in [Owners -> ContextStates]
    BY Zenon DEF GateInv, TypeOK, ContextStates
  <2>2. ctx' \in [Owners -> ContextStates]
    <3>1. "live" \in ContextSteps /\ Goto(o, "live")
      BY Zenon DEF ContextSteps, RetireAlive, RetireStep
    <3> QED
      BY <2>1, <3>1, GotoTypes, Zenon
  <2> QED
    BY <2>2 DEF GateInv, TypeOK, RegistryType, ContextStates, RetireAlive,
        RetireStep, regVars, lockVars, gateVars, gpuVars
<1>2. Known' /\ Admitted'
  BY Zenon DEF GateInv, Known, Admitted, ActiveDomain, RetireAlive, RetireStep,
      regVars, lockVars, gateVars, gpuVars
<1>3. Locks'
  BY Zenon DEF GateInv, TypeOK, Locks, Removing, RetireSteps, Idle, RetireAlive,
      RetireStep, Goto, lockVars, gpuVars
<1>4. Ownership'
  BY SMTT(30) DEF GateInv, TypeOK, Ownership, Unbound, Removing, RetireSteps,
      RetireAlive, RetireStep, Goto, regVars
<1>5. Cleared'
  BY Zenon DEF GateInv, TypeOK, Cleared, Gone, Dismantled, RetireAlive, RetireStep,
      Goto, regVars
<1>6. Reserved'
  BY DEF GateInv, TypeOK, Reserved, RetireAlive, RetireStep, Goto, gateVars
<1>7. Words'
  BY DEF GateInv, TypeOK, Words, ActiveDomain, RetireAlive, RetireStep, Goto,
      regVars
<1>8. Executing'
  BY DEF GateInv, TypeOK, Executing, Running, ActiveDomain, RetireAlive,
      RetireStep, Goto, regVars, gpuVars
<1>9. Quiet'
  BY Zenon DEF GateInv, TypeOK, Quiet, Drained, Running, Quieted, RetireAlive,
      RetireStep, Goto, gpuVars
<1> QED
  BY <1>1, <1>2, <1>3, <1>4, <1>5, <1>6, <1>7, <1>8, <1>9, Zenon DEF GateInv

\* RetireSync: no kernel of the domain runs any more.
LEMMA RetireSyncStep ==
  ASSUME GateInv, NEW o \in Owners, RetireSync(o)
  PROVE  GateInv'
<1>1. TypeOK'
  <2>1. ctx \in [Owners -> ContextStates]
    BY Zenon DEF GateInv, TypeOK, ContextStates
  <2>2. ctx' \in [Owners -> ContextStates]
    <3>1. "retireSynced" \in ContextSteps /\ Goto(o, "retireSynced")
      BY Zenon DEF ContextSteps, RetireSync, RetireStep
    <3> QED
      BY <2>1, <3>1, GotoTypes, Zenon
  <2> QED
    BY <2>2, SMTT(30) DEF GateInv, TypeOK, RegistryType, ContextStates, RetireSync,
        RetireStep, regVars, lockVars, gateVars, gpuVars
<1>2. Known' /\ Admitted'
  BY Zenon DEF GateInv, Known, Admitted, ActiveDomain, RetireSync, RetireStep,
      regVars, lockVars, gateVars, gpuVars
<1>3. Locks'
  BY Zenon DEF GateInv, TypeOK, Locks, Removing, RetireSteps, Idle, RetireSync,
      RetireStep, Goto, lockVars, gpuVars
<1>4. Ownership'
  BY DEF GateInv, TypeOK, Ownership, Unbound, Removing, RetireSteps,
      RetireSync, RetireStep, Goto, regVars
<1>5. Cleared'
  BY Zenon DEF GateInv, TypeOK, Cleared, Gone, Dismantled, RetireSync, RetireStep,
      Goto, regVars
<1>6. Reserved'
  BY DEF GateInv, TypeOK, Reserved, RetireSync, RetireStep, Goto, gateVars
<1>7. Words'
  BY DEF GateInv, TypeOK, Words, ActiveDomain, RetireSync, RetireStep, Goto,
      regVars
<1>8. Executing'
  BY DEF GateInv, TypeOK, Executing, Running, ActiveDomain, RetireSync,
      RetireStep, Goto, regVars, gpuVars
<1>9. Quiet'
  BY Zenon DEF GateInv, TypeOK, Quiet, Drained, Running, Quieted, RetireSync,
      RetireStep, Goto, gpuVars
<1> QED
  BY <1>1, <1>2, <1>3, <1>4, <1>5, <1>6, <1>7, <1>8, <1>9, Zenon DEF GateInv

\* RetireFlush: only the step changes.
LEMMA RetireFlushStep ==
  ASSUME GateInv, NEW o \in Owners, RetireFlush(o)
  PROVE  GateInv'
<1>1. TypeOK'
  <2>1. ctx \in [Owners -> ContextStates]
    BY Zenon DEF GateInv, TypeOK, ContextStates
  <2>2. ctx' \in [Owners -> ContextStates]
    <3>1. "retireFlushed" \in ContextSteps /\ Goto(o, "retireFlushed")
      BY Zenon DEF ContextSteps, RetireFlush, RetireStep
    <3> QED
      BY <2>1, <3>1, GotoTypes, Zenon
  <2> QED
    BY <2>2, SMTT(30) DEF GateInv, TypeOK, RegistryType, ContextStates, RetireFlush,
        RetireStep, regVars, lockVars, gateVars, gpuVars
<1>2. Known' /\ Admitted'
  BY Zenon DEF GateInv, Known, Admitted, ActiveDomain, RetireFlush, RetireStep,
      regVars, lockVars, gateVars, gpuVars
<1>3. Locks'
  BY Zenon DEF GateInv, TypeOK, Locks, Removing, RetireSteps, Idle, RetireFlush,
      RetireStep, Goto, lockVars, gpuVars
<1>4. Ownership'
  BY DEF GateInv, TypeOK, Ownership, Unbound, Removing, RetireSteps,
      RetireFlush, RetireStep, Goto, regVars
<1>5. Cleared'
  BY Zenon DEF GateInv, TypeOK, Cleared, Gone, Dismantled, RetireFlush, RetireStep,
      Goto, regVars
<1>6. Reserved'
  BY DEF GateInv, TypeOK, Reserved, RetireFlush, RetireStep, Goto, gateVars
<1>7. Words'
  BY DEF GateInv, TypeOK, Words, ActiveDomain, RetireFlush, RetireStep, Goto,
      regVars
<1>8. Executing'
  BY DEF GateInv, TypeOK, Executing, Running, ActiveDomain, RetireFlush,
      RetireStep, Goto, regVars, gpuVars
<1>9. Quiet'
  BY Zenon DEF GateInv, TypeOK, Quiet, Drained, Running, Quieted, RetireFlush,
      RetireStep, Goto, gpuVars
<1> QED
  BY <1>1, <1>2, <1>3, <1>4, <1>5, <1>6, <1>7, <1>8, <1>9, Zenon DEF GateInv

\* RetireFree: the reservations are given back.
LEMMA RetireFreeStep ==
  ASSUME GateInv, NEW o \in Owners, RetireFree(o)
  PROVE  GateInv'
<1>1. TypeOK'
  <2>1. ctx \in [Owners -> ContextStates]
    BY Zenon DEF GateInv, TypeOK, ContextStates
  <2>2. ctx' \in [Owners -> ContextStates]
    <3> DEFINE s == [ctx[o] EXCEPT !.pc = "freed", !.held = {}]
    <3>1. s \in ContextStates
      BY <2>1, Zenon DEF ContextStates, ContextSteps, Ranges
    <3>2. ctx' = [ctx EXCEPT ![o] = s]
      BY Zenon DEF RetireFree
    <3> QED
      BY <2>1, <3>1, <3>2, ContextTypes, Zenon
  <2> QED
    BY <2>2, SMTT(30) DEF GateInv, TypeOK, RegistryType, ContextStates, RetireFree,
        regVars, lockVars, gateVars, gpuVars
<1>2. Known' /\ Admitted'
  BY Zenon DEF GateInv, Known, Admitted, ActiveDomain, RetireFree, regVars, lockVars,
      gateVars, gpuVars
<1>3. Locks'
  BY Zenon DEF GateInv, TypeOK, Locks, Removing, RetireSteps, Idle, RetireFree,
      lockVars, gpuVars
<1>4. Ownership'
  BY SMTT(30) DEF GateInv, TypeOK, Ownership, Unbound, Removing, RetireSteps,
      RetireFree, regVars
<1>5. Cleared'
  BY SMTT(30) DEF GateInv, TypeOK, Cleared, Gone, Dismantled, RetireFree, regVars
<1>6. Reserved'
  BY DEF GateInv, TypeOK, Reserved, RetireFree, gateVars
<1>7. Words'
  BY RegistryAssumption, GateAssumption, SMTT(30) DEF GateInv, TypeOK, Words,
      ActiveDomain, Ownership, RegistryType, RetireFree, regVars
<1>8. Executing'
  BY RegistryAssumption, GateAssumption, SMTT(30) DEF GateInv, TypeOK, Executing,
      Running, ActiveDomain, Ownership, RegistryType, Kernels, RetireFree,
      regVars, gpuVars
<1>9. Quiet'
  BY DEF GateInv, TypeOK, Quiet, Drained, Running, Quieted, RetireFree, gpuVars
<1> QED
  BY <1>1, <1>2, <1>3, <1>4, <1>5, <1>6, <1>7, <1>8, <1>9, Zenon DEF GateInv

\* RetireUnmap: the mapping goes, after every word was cleared.
LEMMA RetireUnmapStep ==
  ASSUME GateInv, NEW o \in Owners, RetireUnmap(o)
  PROVE  GateInv'
<1>1. TypeOK'
  <2>1. ctx \in [Owners -> ContextStates]
    BY Zenon DEF GateInv, TypeOK, ContextStates
  <2>2. ctx' \in [Owners -> ContextStates]
    <3> DEFINE s == [ctx[o] EXCEPT !.pc = "unregistered", !.mapped = FALSE]
    <3>1. s \in ContextStates
      BY <2>1, Zenon DEF ContextStates, ContextSteps, Ranges
    <3>2. ctx' = [ctx EXCEPT ![o] = s]
      BY Zenon DEF RetireUnmap
    <3> QED
      BY <2>1, <3>1, <3>2, ContextTypes, Zenon
  <2> QED
    BY <2>2, SMTT(30) DEF GateInv, TypeOK, RegistryType, ContextStates, RetireUnmap,
        regVars, lockVars, gateVars, gpuVars
<1>2. Known' /\ Admitted'
  BY Zenon DEF GateInv, Known, Admitted, ActiveDomain, RetireUnmap, regVars,
      lockVars, gateVars, gpuVars
<1>3. Locks'
  BY Zenon DEF GateInv, TypeOK, Locks, Removing, RetireSteps, Idle, RetireUnmap,
      lockVars, gpuVars
<1>4. Ownership'
  BY SMTT(30) DEF GateInv, TypeOK, Ownership, Unbound, Removing, RetireSteps,
      RetireUnmap, regVars
<1>5. Cleared'
  BY DEF GateInv, TypeOK, Cleared, Gone, Dismantled, RetireUnmap, regVars
<1>6. Reserved'
  BY DEF GateInv, TypeOK, Reserved, RetireUnmap, gateVars
<1>7. Words'
  BY RegistryAssumption, GateAssumption, SMTT(30) DEF GateInv, TypeOK, Words,
      ActiveDomain, Ownership, RegistryType, RetireUnmap, regVars
<1>8. Executing'
  BY RegistryAssumption, GateAssumption, SMTT(30) DEF GateInv, TypeOK, Executing,
      Running, ActiveDomain, Ownership, RegistryType, Kernels, RetireUnmap,
      regVars, gpuVars
<1>9. Quiet'
  BY DEF GateInv, TypeOK, Quiet, Drained, Running, Quieted, RetireUnmap,
      gpuVars
<1> QED
  BY <1>1, <1>2, <1>3, <1>4, <1>5, <1>6, <1>7, <1>8, <1>9, Zenon DEF GateInv

\* What Goto changes.
LEMMA GotoFields ==
  ASSUME ctx \in [Owners -> ContextStates], NEW o \in Owners, NEW pc, Goto(o, pc)
  PROVE  /\ ctx'[o].pc = pc
         /\ \A q \in Owners : q # o => ctx'[q].pc = ctx[q].pc
         /\ \A q \in Owners :
              /\ ctx'[q].gen = ctx[q].gen /\ ctx'[q].domain = ctx[q].domain
              /\ ctx'[q].mapped = ctx[q].mapped
              /\ ctx'[q].held = ctx[q].held /\ ctx'[q].range = ctx[q].range
  BY Zenon DEF Goto, ContextStates

\* ActivateBegin: the lifecycle mutex, or an activation that is refused.
LEMMA ActivateBeginStep ==
  ASSUME GateInv, NEW o \in Owners, ActivateBegin(o)
  PROVE  GateInv'
<1>1. PICK pc \in {"activating", "unmapping"} : Goto(o, pc)
  BY Zenon DEF ActivateBegin
<1>2. ctx \in [Owners -> ContextStates]
  BY Zenon DEF GateInv, TypeOK, ContextStates
<1>3. ctx[o].pc = "mapped"
  BY Zenon DEF ActivateBegin
<1>4. UNCHANGED <<reg, entry, alias, budget, writer, readers, launchSeen, gate,
                  loaded, launch, kernel>>
  BY Zenon DEF ActivateBegin, regVars, gateVars, gpuVars
<1>5. TypeOK'
  <2>1. ctx' \in [Owners -> ContextStates]
    BY <1>1, <1>2, GotoTypes, Zenon DEF ContextSteps
  <2>2. lifecycle' \in {None} \cup Owners \cup Modules
    BY Zenon DEF ActivateBegin, GateInv, TypeOK
  <2> QED
    BY <1>4, <2>1, <2>2, Zenon DEF GateInv, TypeOK, RegistryType, ContextStates
<1> DEFINE Same(q) == /\ ctx'[q].gen = ctx[q].gen /\ ctx'[q].domain = ctx[q].domain
                      /\ ctx'[q].mapped = ctx[q].mapped
                      /\ ctx'[q].held = ctx[q].held /\ ctx'[q].range = ctx[q].range
<1>6. /\ \A q \in Owners : Same(q) /\ (q # o => ctx'[q].pc = ctx[q].pc)
      /\ ctx'[o].pc \in {"activating", "unmapping"}
  BY <1>1, <1>2, GotoFields, Zenon
<1>7. Locks'
  BY <1>3, <1>4, <1>6, Zenon DEF GateInv, Locks, Removing, RetireSteps
<1>8. Ownership'
  BY <1>3, <1>4, <1>6 DEF GateInv, Ownership, Unbound, Removing, RetireSteps
<1>9. Cleared'
  BY <1>3, <1>4, <1>6, Zenon DEF GateInv, Cleared, Gone, Dismantled
<1>10. Reserved' /\ Quiet'
  BY <1>3, <1>4, <1>6, SMTT(30) DEF GateInv, Reserved, Quiet, Quieted, Drained, Running
<1>11. Words' /\ Executing'
  BY <1>4, <1>6 DEF GateInv, TypeOK, RegistryType, Words, Executing, Running,
      ActiveDomain
<1>12. Known' /\ Admitted'
  BY <1>4, Zenon DEF GateInv, Known, Admitted, ActiveDomain
<1> QED
  BY <1>5, <1>7, <1>8, <1>9, <1>10, <1>11, <1>12, Zenon DEF GateInv

\* A context that cannot be released safely is leaked with its mapping.
LEMMA LeakStep ==
  ASSUME GateInv, NEW o \in Owners, Goto(o, "leaked"), ctx[o].pc # "absent",
         UNCHANGED <<reg, entry, alias, budget, lifecycle, readers, launchSeen,
                     gate, loaded, launch, kernel>>,
         writer' \in {writer, None},
         \A q \in Owners : ctx[q].pc \in Removing \cup RetireSteps /\ q # o
                             => writer' = writer
  PROVE  GateInv'
<1>2. ctx \in [Owners -> ContextStates]
  BY Zenon DEF GateInv, TypeOK, ContextStates
<1>5. TypeOK'
  <2>1. ctx' \in [Owners -> ContextStates]
    BY <1>2, GotoTypes, Zenon DEF ContextSteps
  <2>2. writer' \in {None} \cup Owners
    BY Zenon DEF GateInv, TypeOK
  <2> QED
    BY <2>1, <2>2 DEF GateInv, TypeOK, RegistryType, ContextStates
<1> DEFINE Same(q) == /\ ctx'[q].gen = ctx[q].gen /\ ctx'[q].domain = ctx[q].domain
                      /\ ctx'[q].mapped = ctx[q].mapped
                      /\ ctx'[q].held = ctx[q].held /\ ctx'[q].range = ctx[q].range
<1>6. /\ \A q \in Owners : Same(q) /\ (q # o => ctx'[q].pc = ctx[q].pc)
      /\ ctx'[o].pc = "leaked"
  BY <1>2, GotoFields, Zenon
<1>7. Locks'
  BY <1>6, Zenon DEF GateInv, Locks, Removing, RetireSteps
<1>8. Ownership'
  BY <1>6 DEF GateInv, Ownership, Unbound, Removing, RetireSteps
<1>9. Cleared'
  BY <1>6, Zenon DEF GateInv, Cleared, Gone, Dismantled
<1>10. Reserved' /\ Quiet'
  BY <1>6, SMTT(30) DEF GateInv, Reserved, Quiet, Quieted, Drained, Running
<1>11. Words' /\ Executing'
  BY <1>6 DEF GateInv, TypeOK, RegistryType, Words, Executing, Running,
      ActiveDomain
<1>12. Known' /\ Admitted'
  BY Zenon DEF GateInv, Known, Admitted, ActiveDomain
<1> QED
  BY <1>5, <1>7, <1>8, <1>9, <1>10, <1>11, <1>12, Zenon DEF GateInv

\* The state of a context that does not exist.
LEMMA AbsentFields ==
  ASSUME ctx \in [Owners -> ContextStates], NEW o \in Owners,
         ctx' = [ctx EXCEPT ![o] = Absent]
  PROVE  /\ ctx' \in [Owners -> ContextStates]
         /\ \A q \in Owners : q # o => ctx'[q] = ctx[q]
         /\ ctx'[o].pc = "absent" /\ ctx'[o].gen = 0 /\ ctx'[o].held = {}
<1>1. Absent \in ContextStates
  BY Zenon DEF Absent, ContextStates, ContextSteps, Generations
<1> QED
  BY <1>1, Zenon DEF Absent

\* ReleaseUnbound: a context that owns nothing goes.
LEMMA ReleaseUnboundStep ==
  ASSUME GateInv, NEW o \in Owners, ReleaseUnbound(o)
  PROVE  GateInv'
<1>1. /\ ctx[o].pc = "unmapping"
      /\ UNCHANGED <<reg, entry, alias, budget, lifecycle, writer, readers,
                     launchSeen, gate, loaded, launch, kernel>>
  BY Zenon DEF ReleaseUnbound, regVars, lockVars, gateVars, gpuVars
<1>2. ctx \in [Owners -> ContextStates]
  BY Zenon DEF GateInv, TypeOK, ContextStates
<1>3. CASE Goto(o, "leaked")
  BY <1>1, <1>3, LeakStep, Zenon
<1>4. CASE ctx' = [ctx EXCEPT ![o] = Absent]
  <2>1. /\ ctx' \in [Owners -> ContextStates]
        /\ \A q \in Owners : q # o => ctx'[q] = ctx[q]
        /\ ctx'[o].pc = "absent" /\ ctx'[o].gen = 0 /\ ctx'[o].held = {}
    BY <1>2, <1>4, AbsentFields, Zenon
  <2>2. ctx[o].gen = 0 /\ reg.owner # o
    BY <1>1, Zenon DEF GateInv, Ownership, Unbound
  <2>3. TypeOK'
    BY <1>1, <2>1 DEF GateInv, TypeOK, RegistryType, ContextStates
  <2>4. Locks'
    BY <1>1, <2>1, Zenon DEF GateInv, Locks, Removing, RetireSteps
  <2>5. Ownership'
    BY <1>1, <2>1, <2>2 DEF GateInv, Ownership, Unbound, Removing, RetireSteps
  <2>6. Cleared'
    BY <1>1, <2>1, Zenon DEF GateInv, Cleared, Gone
  <2>7. Reserved' /\ Quiet'
    BY <1>1, <2>1, Zenon DEF GateInv, Reserved, Quiet, Quieted, Drained, Running
  <2>8. Words' /\ Executing'
    BY <1>1, <2>1, <2>2, Zenon DEF GateInv, TypeOK, RegistryType, Words, Executing,
        Running, ActiveDomain
  <2>9. Known' /\ Admitted'
    BY <1>1, Zenon DEF GateInv, Known, Admitted, ActiveDomain
  <2> QED
    BY <2>3, <2>4, <2>5, <2>6, <2>7, <2>8, <2>9, Zenon DEF GateInv
<1> QED
  BY <1>3, <1>4, Zenon DEF ReleaseUnbound

\* RetireBegin: quiesce closes the registry to new modules.
LEMMA RetireBeginStep ==
  ASSUME GateInv, NEW o \in Owners, RetireBegin(o)
  PROVE  GateInv'
<1>1. /\ ctx[o].pc = "active" /\ writer = None /\ readers = {}
      /\ UNCHANGED <<lifecycle, readers, launchSeen, gate, loaded, launch, kernel>>
  BY Zenon DEF RetireBegin, Exclusive, gateVars, gpuVars
<1>2. ctx \in [Owners -> ContextStates]
  BY Zenon DEF GateInv, TypeOK, ContextStates
<1>3. CASE ~Owns(o, ctx[o].gen) /\ Goto(o, "leaked") /\ UNCHANGED <<regVars, writer>>
  BY <1>1, <1>3, LeakStep, Zenon DEF regVars
<1>4. CASE Quiesce(o, ctx[o].gen) /\ writer' = o /\ Goto(o, "quiesced")
  <2>1. ctx' \in [Owners -> ContextStates]
    BY <1>2, <1>4, GotoTypes, Zenon DEF ContextSteps
  <2> DEFINE Same(q) ==
               /\ ctx'[q].gen = ctx[q].gen /\ ctx'[q].domain = ctx[q].domain
               /\ ctx'[q].mapped = ctx[q].mapped
               /\ ctx'[q].held = ctx[q].held /\ ctx'[q].range = ctx[q].range
  <2>2. /\ \A q \in Owners : Same(q) /\ (q # o => ctx'[q].pc = ctx[q].pc)
        /\ ctx'[o].pc = "quiesced"
    BY <1>2, <1>4, GotoFields, Zenon
  <2>3. /\ reg' \in RegistryStates /\ reg'.retiring
        /\ reg'.owner = reg.owner /\ reg'.gen = reg.gen /\ reg'.domain = reg.domain
        /\ UNCHANGED <<entry, alias, budget>>
    BY <1>4, Zenon DEF Quiesce, GateInv, TypeOK, RegistryType, RegistryStates
  <2>4. TypeOK'
    BY <1>1, <1>4, <2>1, <2>3, Zenon DEF GateInv, TypeOK, RegistryType,
        ContextStates, RegistryStates
  <2>5. Locks'
    BY <1>1, <1>4, <2>2, RegistryAssumption, Zenon DEF GateInv, Locks, Removing,
        RetireSteps
  <2>6. Ownership'
    BY <1>1, <2>2, <2>3, SMTT(30) DEF GateInv, Ownership, Unbound, Removing, RetireSteps
  <2>7. Cleared'
    BY <1>1, <2>2, <2>3, SMTT(30) DEF GateInv, Cleared, Gone, Dismantled
  <2>8. Reserved' /\ Quiet'
    BY <1>1, <2>2, SMTT(30) DEF GateInv, Reserved, Quiet, Quieted, Drained, Running
  <2>9. Words' /\ Executing'
    BY <1>1, <2>2, <2>3 DEF GateInv, TypeOK, RegistryType, Words, Executing,
        Running, ActiveDomain
  <2>10. Known' /\ Admitted'
    BY <1>1, <2>3, Zenon DEF GateInv, Known, Admitted, ActiveDomain
  <2> QED
    BY <2>4, <2>5, <2>6, <2>7, <2>8, <2>9, <2>10, Zenon DEF GateInv
<1> QED
  BY <1>3, <1>4, Zenon DEF RetireBegin

\* RetireEnd: the ranges and the ownership go.
LEMMA RetireEndStep ==
  ASSUME GateInv, NEW o \in Owners, RetireEnd(o)
  PROVE  GateInv'
<1>1. /\ ctx[o].pc = "unregistered" /\ writer' = None
      /\ UNCHANGED <<lifecycle, readers, loaded, launch, kernel>>
  BY Zenon DEF RetireEnd, gpuVars
<1>2. ctx \in [Owners -> ContextStates]
  BY Zenon DEF GateInv, TypeOK, ContextStates
<1>3. /\ writer = o /\ readers = {} /\ reg.owner = o /\ ctx[o].gen # 0
      /\ reg.domain = ctx[o].domain
      /\ \A q \in Owners \ {o} : ctx[q].pc \notin Removing \cup RetireSteps
  BY <1>1, RegistryAssumption DEF GateInv, Locks, Ownership, RetireSteps
<1>4. CASE /\ ~Retires(o, ctx[o].gen) /\ Goto(o, "leaked")
           /\ UNCHANGED <<regVars, gateVars>>
  BY <1>1, <1>3, <1>4, LeakStep, Zenon DEF regVars, gateVars
<1>5. CASE /\ FinishRetire(o, ctx[o].gen) /\ gate' = {} /\ ResetLaunches
           /\ ctx' = [ctx EXCEPT ![o] = Absent]
  <2>1. /\ ctx' \in [Owners -> ContextStates]
        /\ \A q \in Owners : q # o => ctx'[q] = ctx[q]
        /\ ctx'[o].pc = "absent" /\ ctx'[o].gen = 0 /\ ctx'[o].held = {}
    BY <1>2, <1>5, AbsentFields, Zenon
  <2>2. /\ reg' \in RegistryStates /\ reg'.owner = None /\ reg'.gen = 0
        /\ UNCHANGED <<entry, alias, budget>>
    BY <1>5, Zenon DEF FinishRetire, Unowned, GateInv, TypeOK, RegistryType,
        RegistryStates, Generations
  <2>3. TypeOK'
    BY <1>1, <1>5, <2>1, <2>2, Zenon DEF GateInv, TypeOK, RegistryType,
        ContextStates, RegistryStates, ResetLaunches
  <2>4. Locks'
    BY <1>1, <1>3, <2>1, Zenon DEF GateInv, Locks, Removing, RetireSteps
  <2>5. \A q \in Owners : q # o => ctx[q].gen = 0
    BY <1>3, Zenon DEF GateInv, Ownership
  <2>6. Ownership'
    <3>1. \A q \in Owners : q # o =>
            /\ ctx[q].pc \notin {"active"} \cup Removing \cup RetireSteps
            /\ ctx[q].held = {}
            /\ ~ctx[q].mapped => ctx[q].pc \in {"absent", "unregistered", "leaked"}
      BY <2>5, Zenon DEF GateInv, Ownership
    <3>2. None \notin Owners
      BY RegistryAssumption, Zenon
    <3> QED
      BY <2>1, <2>2, <2>5, <3>1, <3>2, Zenon DEF Ownership, Removing, RetireSteps
  <2>7. Cleared'
    BY <2>1, <2>5, Zenon DEF Cleared, Gone
  <2>8. Reserved' /\ Quiet'
    <3>1. \A q \in Owners : ctx'[q].held = {}
      BY <2>1, <2>5, Zenon DEF GateInv, Ownership
    <3> QED
      BY <1>1, <2>1, <3>1 DEF GateInv, Reserved, Quiet, Quieted, Drained, Running
  <2>9. Words'
    BY <1>1, <1>3, <2>2, Zenon DEF GateInv, Cleared, Gone, Dismantled, Words
  <2>10. Executing'
    <3>1. \A l \in Running : kernel[l].domain # reg.domain
      BY <1>1, <1>3, Zenon DEF GateInv, Quiet, Quieted, Drained
    <3> QED
      BY <1>1, <3>1, Zenon DEF GateInv, Executing, ActiveDomain, Running
  <2>11. Known' /\ Admitted'
    BY <1>1, <1>3, <2>2, Zenon DEF GateInv, Known, Admitted
  <2> QED
    BY <2>3, <2>4, <2>6, <2>7, <2>8, <2>9, <2>10, <2>11, Zenon DEF GateInv
<1> QED
  BY <1>4, <1>5, Zenon DEF RetireEnd

\* A change of the registry that keeps the owner leaves launches, kernels
\* and contexts as they were.
LEMMA RegistryStep ==
  ASSUME GateInv, TypeOK', Known', Words', Cleared',
         UNCHANGED <<writer, readers, gate, launch, kernel, ctx>>,
         reg'.owner = reg.owner, reg'.gen = reg.gen, reg'.domain = reg.domain,
         reg.retiring => reg'.retiring
  PROVE  GateInv'
<1>1. Locks' /\ Reserved' /\ Quiet'
  BY Zenon DEF GateInv, Locks, Reserved, Quiet, Drained, Running
<1>2. Ownership'
  BY Zenon DEF GateInv, Ownership
<1>3. Admitted' /\ Executing'
  BY Zenon DEF GateInv, Admitted, Executing, Running, ActiveDomain
<1> QED
  BY <1>1, <1>2, <1>3, Zenon DEF GateInv

\* Erasing modules takes their words with them.
LEMMA EraseStep ==
  ASSUME GateInv, NEW ms \in SUBSET Modules, NEW dropped,
         EraseModules(ms, dropped), loaded' = loaded \ ms,
         lifecycle' \in {None, lifecycle},
         UNCHANGED <<writer, readers, launchSeen, gate, launch, kernel, ctx>>
  PROVE  GateInv'
<1>1. /\ reg' = reg /\ budget' = budget \ dropped
      /\ entry' = [m \in Modules |-> IF m \in ms THEN NoEntry ELSE entry[m]]
      /\ alias' = [m \in Modules |-> IF m \in ms THEN 0 ELSE alias[m]]
  BY Zenon DEF EraseModules
<1>2. TypeOK'
  <2>1. NoEntry \in EntryStates
    BY Zenon DEF NoEntry, EntryStates
  <2>2. entry' \in [Modules -> EntryStates]
    BY <1>1, <2>1, Zenon DEF GateInv, TypeOK, RegistryType, EntryStates
  <2> QED
    BY <1>1, <2>2 DEF GateInv, TypeOK, RegistryType, EntryStates
<1>3. Known'
  BY <1>1, Zenon DEF GateInv, Known, NoEntry
<1>4. Words'
  BY <1>1, Zenon DEF GateInv, Words, ActiveDomain
<1>5. Cleared'
  BY <1>1, Zenon DEF GateInv, Cleared, Gone
<1> QED
  BY <1>1, <1>2, <1>3, <1>4, <1>5, RegistryStep, Zenon

\* DestroyCudaContext: all modules of the domain are erased.
LEMMA DestroyCudaContextStep ==
  ASSUME GateInv, NEW d \in Domains, DestroyCudaContext(d)
  PROVE  GateInv'
<1> DEFINE ms == {m \in Modules : Home[m] = d}
<1>1. loaded' = loaded \ ms
  BY Zenon DEF DestroyCudaContext, GateInv, TypeOK
<1>2. /\ EraseModules(ms, {}) /\ ms \in SUBSET Modules
      /\ UNCHANGED <<lifecycle, writer, readers, launchSeen, gate, launch,
                     kernel, ctx>>
  BY Zenon DEF DestroyCudaContext, lockVars, gateVars, gpuVars
<1> HIDE DEF ms
<1> QED
  BY <1>1, <1>2, EraseStep, Zenon

\* What a batch of writes to device words leaves behind, whichever fail.
LEMMA WriteTypes ==
  ASSUME TypeOK, NEW ms \in SUBSET Modules, NEW a, NEW supported,
         NEW f \in Chosen(ms, a, supported), Write(ms, f)
  PROVE  /\ alias' \in [Modules -> Generations \cup {0}]
         /\ budget' \subseteq Future
         /\ \A m \in Modules : alias'[m] = IF m \in ms THEN f[m].word ELSE alias[m]
         /\ \A m \in ms : f[m] \in Results(m, a, supported)
  BY Zenon DEF TypeOK, RegistryType, Chosen, Write, With

\* UnloadEnd: the module is erased, and no kernel of it runs, or it stays,
\* with its control word cleared.
LEMMA UnloadEndStep ==
  ASSUME GateInv, NEW m \in Modules, UnloadEnd(m)
  PROVE  GateInv'
<1>1. /\ lifecycle' = None
      /\ UNCHANGED <<writer, readers, launchSeen, gate, launch, kernel, ctx>>
  BY Zenon DEF UnloadEnd, gateVars, gpuVars
<1>2. CASE UNCHANGED <<regVars, loaded>>
  <2>1. TypeOK'
    BY <1>1, <1>2, Zenon DEF GateInv, TypeOK, RegistryType, regVars
  <2>2. Known' /\ Words' /\ Cleared'
    BY <1>1, <1>2, Zenon DEF GateInv, Known, Words, Cleared, Gone, ActiveDomain, regVars
  <2> QED
    BY <1>1, <1>2, <2>1, <2>2, RegistryStep, Zenon DEF regVars
<1>3. ASSUME NEW dropped, EraseModules({m}, dropped), loaded' = loaded \ {m}
      PROVE  GateInv'
  <2> DEFINE ms == {m}
  <2>1. ms \in SUBSET Modules /\ EraseModules(ms, dropped) /\ loaded' = loaded \ ms
    BY <1>3, Zenon
  <2> HIDE DEF ms
  <2> QED
    BY <1>1, <2>1, EraseStep, Zenon
<1>4. ASSUME NEW w \in {0, alias[m]}, QuarantineModule(m, w), m \in Future,
             UNCHANGED loaded
      PROVE  GateInv'
  <2>1. /\ reg' \in RegistryStates /\ reg'.retiring
        /\ reg'.owner = reg.owner /\ reg'.gen = reg.gen /\ reg'.domain = reg.domain
    BY <1>4, Zenon DEF QuarantineModule, GateInv, TypeOK, RegistryType, RegistryStates
  <2>2. /\ entry' \in [Modules -> EntryStates]
        /\ \A n \in Modules : /\ entry'[n].known = entry[n].known
                              /\ entry'[n].initializer = entry[n].initializer
                              /\ n # m => entry'[n].gen = entry[n].gen
    BY <1>4 DEF QuarantineModule, GateInv, TypeOK, RegistryType, EntryStates,
        Generations
  <2>3. /\ alias' \in [Modules -> Generations \cup {0}]
        /\ \A n \in Modules : alias'[n] \in {0, alias[n]}
    BY <1>4, Zenon DEF QuarantineModule, GateInv, TypeOK, RegistryType
  <2>4. TypeOK'
    BY <1>1, <1>4, <2>1, <2>2, <2>3, Zenon DEF GateInv, TypeOK, RegistryType,
        RegistryStates, EntryStates, QuarantineModule
  <2>5. Known'
    BY <1>4, <2>2, Zenon DEF GateInv, Known
  <2>6. Words'
    BY <1>1, <1>4, <2>1, <2>2, <2>3 DEF GateInv, Words, ActiveDomain
  <2>7. Cleared'
    BY <1>1, <2>1, <2>3, Zenon DEF GateInv, Cleared, Gone
  <2> QED
    BY <1>1, <2>1, <2>4, <2>5, <2>6, <2>7, RegistryStep, Zenon
<1>5. ASSUME NEW f \in Chosen({m}, 0, FALSE), Write({m}, f),
             f[m].word \in {0, alias[m]}, UNCHANGED <<reg, entry, loaded>>
      PROVE  GateInv'
  <2>1. /\ alias' \in [Modules -> Generations \cup {0}] /\ budget' \subseteq Future
        /\ \A n \in Modules : alias'[n] \in {0, alias[n]}
    <3> DEFINE ms == {m}
    <3>1. ms \in SUBSET Modules /\ f \in Chosen(ms, 0, FALSE) /\ Write(ms, f)
      BY <1>5, Zenon
    <3>2. \A n \in ms : n = m
      BY Zenon
    <3> HIDE DEF ms
    <3>3. /\ alias' \in [Modules -> Generations \cup {0}] /\ budget' \subseteq Future
          /\ \A n \in Modules : alias'[n] = IF n \in ms THEN f[n].word ELSE alias[n]
      BY <3>1, WriteTypes, Zenon DEF GateInv
    <3> QED
      BY <1>5, <3>2, <3>3, Zenon
  <2>2. TypeOK'
    BY <1>1, <1>5, <2>1, Zenon DEF GateInv, TypeOK, RegistryType
  <2>3. Known' /\ Words' /\ Cleared'
    BY <1>1, <1>5, <2>1, Zenon DEF GateInv, Known, Words, Cleared, Gone, ActiveDomain
  <2> QED
    BY <1>1, <1>5, <2>2, <2>3, RegistryStep, Zenon
<1>6. CASE /\ m \in budget
           /\ \E f \in Chosen({m}, 0, FALSE) :
                IF Quarantines(f, {m})
                THEN QuarantineModule(m, f[m].word) /\ UNCHANGED loaded
                ELSE \/ EraseModules({m}, {m}) /\ loaded' = loaded \ {m}
                     \/ Write({m}, f) /\ UNCHANGED <<reg, entry, loaded>>
  <2>1. PICK f \in Chosen({m}, 0, FALSE) :
          IF Quarantines(f, {m})
          THEN QuarantineModule(m, f[m].word) /\ UNCHANGED loaded
          ELSE \/ EraseModules({m}, {m}) /\ loaded' = loaded \ {m}
               \/ Write({m}, f) /\ UNCHANGED <<reg, entry, loaded>>
    BY <1>6, Zenon
  <2>2. m \in Future
    BY <1>6, Zenon DEF GateInv, TypeOK, RegistryType
  <2>3. f[m].word \in {0, alias[m]}
    BY <2>2 DEF Chosen, Results, FutureResults, Result
  <2> QED
    BY <1>3, <1>4, <1>5, <2>1, <2>2, <2>3, Zenon
<1> QED
  BY <1>2, <1>3, <1>6, Zenon DEF UnloadEnd

\* LoadModule: the word of a new module is written only while the owner is
\* live.
LEMMA LoadModuleStep ==
  ASSUME GateInv, NEW m \in Modules, LoadModule(m)
  PROVE  GateInv'
<1>1. /\ m \notin loaded /\ loaded' = loaded \cup {m}
      /\ UNCHANGED <<lifecycle, writer, readers, launchSeen, gate, launch,
                     kernel, ctx>>
  BY Zenon DEF LoadModule, lockVars, gateVars, gpuVars
<1>2. ~entry[m].known /\ alias[m] = 0
  BY <1>1, Zenon DEF GateInv, Known, Words
<1>3. CASE Accepts /\ AddModule(m)
  <2> DEFINE bound == ActiveDomain(Home[m])
             a == IF bound THEN reg.gen ELSE 0
             e == [known |-> TRUE, gen |-> 0, initializer |-> TRUE]
  <2>1. PICK f \in Chosen({m}, a, reg.futures) :
          /\ Write({m}, f)
          /\ entry' = [entry EXCEPT ![m] =
                         IF f[m].outcome = "Ready" /\ bound
                         THEN [e EXCEPT !.gen = reg.gen] ELSE e]
          /\ reg' = IF Quarantines(f, {m})
                    THEN [reg EXCEPT !.quarantined = TRUE] ELSE reg
    BY <1>3, Zenon DEF AddModule
  <2>2. /\ reg' \in RegistryStates /\ reg'.retiring = reg.retiring
        /\ reg'.owner = reg.owner /\ reg'.gen = reg.gen /\ reg'.domain = reg.domain
    BY <2>1, Zenon DEF GateInv, TypeOK, RegistryType, RegistryStates
  <2>3. /\ entry' \in [Modules -> EntryStates]
        /\ \A n \in Modules : n # m => entry'[n] = entry[n]
        /\ entry'[m].known /\ entry'[m].initializer
        /\ f[m].outcome = "Ready" /\ bound => entry'[m].gen = reg.gen
    BY <2>1, Zenon DEF GateInv, TypeOK, RegistryType, EntryStates
  <2>4. /\ alias' \in [Modules -> Generations \cup {0}] /\ budget' \subseteq Future
        /\ \A n \in Modules : n # m => alias'[n] = alias[n]
        /\ alias'[m] = f[m].word /\ f[m] \in Results(m, a, reg.futures)
    <3> DEFINE ms == {m}
    <3>1. ms \in SUBSET Modules /\ f \in Chosen(ms, a, reg.futures) /\ Write(ms, f)
      BY <2>1, Zenon
    <3>2. m \in ms /\ \A n \in Modules : n # m => n \notin ms
      BY Zenon
    <3> HIDE DEF ms, a
    <3>3. /\ alias' \in [Modules -> Generations \cup {0}] /\ budget' \subseteq Future
          /\ \A n \in Modules :
               alias'[n] = IF n \in ms THEN f[n].word ELSE alias[n]
          /\ \A n \in ms : f[n] \in Results(n, a, reg.futures)
      BY <3>1, WriteTypes, Zenon DEF GateInv
    <3> QED
      BY <3>2, <3>3, Zenon
  <2>5. alias'[m] # 0 =>
          /\ bound /\ alias'[m] = reg.gen
          /\ m \in Future \/ f[m].outcome = "Ready"
    BY <1>2, <2>4, SMTT(30) DEF Results, FutureResults, PlainResults, Result
  <2>6. TypeOK'
    BY <1>1, <2>2, <2>3, <2>4, Zenon DEF GateInv, TypeOK, RegistryType,
        RegistryStates, EntryStates
  <2>7. Known'
    BY <1>1, <2>3, Zenon DEF GateInv, Known
  <2>8. ~reg.retiring
    BY <1>3, Zenon DEF Accepts
  <2>9. bound => ctx[reg.owner].mapped
    BY <2>8, Zenon DEF ActiveDomain, GateInv, TypeOK, RegistryType, Cleared, Gone,
        Ownership
  <2>10. Words'
    <3> SUFFICES ASSUME NEW n \in Modules, alias'[n] # 0
                 PROVE  /\ ActiveDomain(Home[n])' /\ alias'[n] = reg'.gen
                        /\ ctx'[reg'.owner].mapped
                        /\ entry'[n].known /\ entry'[n].initializer
                        /\ n \in Future \/ entry'[n].gen = reg'.gen
      BY Zenon DEF Words
    <3>1. CASE n = m
      BY <1>1, <2>2, <2>3, <2>5, <2>9, <3>1, Zenon DEF ActiveDomain
    <3>2. CASE n # m
      BY <1>1, <2>2, <2>3, <2>4, <3>2, Zenon DEF GateInv, Words, ActiveDomain
    <3> QED
      BY <3>1, <3>2, Zenon
  <2>11. Cleared'
    BY <1>1, <2>2, <2>8, Zenon DEF GateInv, Cleared, Gone
  <2> QED
    BY <1>1, <2>2, <2>6, <2>7, <2>10, <2>11, RegistryStep, Zenon
<1>4. ASSUME NEW e \in EntryStates, entry' = [entry EXCEPT ![m] = e],
             UNCHANGED <<reg, alias, budget>>
      PROVE  GateInv'
  <2>1. TypeOK'
    BY <1>1, <1>4 DEF GateInv, TypeOK, RegistryType, EntryStates
  <2>2. Known' /\ Cleared'
    BY <1>1, <1>4, Zenon DEF GateInv, TypeOK, RegistryType, Known, Cleared, Gone
  <2>3. Words'
    BY <1>1, <1>2, <1>4 DEF GateInv, TypeOK, RegistryType, Words, ActiveDomain
  <2> QED
    BY <1>1, <1>4, <2>1, <2>2, <2>3, RegistryStep, Zenon
<1>5. CASE ~Accepts /\ AddModule(m)
  <2> DEFINE e == IF m \in Future
                  THEN [known |-> TRUE, gen |-> 0, initializer |-> TRUE]
                  ELSE NoEntry
  <2>1. e \in EntryStates
    BY Zenon DEF EntryStates, NoEntry
  <2>2. entry' = [entry EXCEPT ![m] = e] /\ UNCHANGED <<reg, alias, budget>>
    BY <1>5, Zenon DEF AddModule
  <2> QED
    BY <1>4, <2>1, <2>2, Zenon
<1>6. CASE RejectModule(m)
  <2>1. [NoEntry EXCEPT !.known = TRUE] \in EntryStates
    BY Zenon DEF EntryStates, NoEntry
  <2> QED
    BY <1>4, <1>6, <2>1, Zenon DEF RejectModule
<1> QED
  BY <1>3, <1>5, <1>6, Zenon DEF LoadModule

\* RetireInvalidate: every word is cleared, or the registry is quarantined.
LEMMA RetireInvalidateStep ==
  ASSUME GateInv, NEW o \in Owners, RetireInvalidate(o)
  PROVE  GateInv'
<1>1. PICK cleared \in BOOLEAN :
        /\ Invalidate(o, ctx[o].gen, cleared)
        /\ Goto(o, IF cleared THEN "invalidated" ELSE "leaked")
        /\ writer' = IF cleared THEN o ELSE None
  BY Zenon DEF RetireInvalidate
<1>2. /\ ctx[o].pc = "retireFlushed"
      /\ UNCHANGED <<lifecycle, readers, launchSeen, gate, loaded, launch, kernel>>
  BY Zenon DEF RetireInvalidate, gateVars, gpuVars
<1>3. PICK f \in Chosen(Invalidated, 0, FALSE) :
        /\ cleared = \A m \in Invalidated : ~Uncleared(m, f[m].outcome)
        /\ Write(Invalidated, f)
        /\ entry' = [m \in Modules |->
                       IF m \in Invalidated /\ ~Uncleared(m, f[m].outcome)
                       THEN [entry[m] EXCEPT !.gen = 0] ELSE entry[m]]
        /\ reg' = [reg EXCEPT !.quarantined = ~cleared]
  BY <1>1, Zenon DEF Invalidate
<1>4. /\ reg' \in RegistryStates /\ reg'.retiring = reg.retiring
      /\ reg'.owner = reg.owner /\ reg'.gen = reg.gen /\ reg'.domain = reg.domain
  BY <1>3, Zenon DEF GateInv, TypeOK, RegistryType, RegistryStates
<1>5. /\ writer = o /\ readers = {} /\ reg.owner = o /\ ctx[o].gen # 0
      /\ ctx[o].mapped /\ reg.retiring
      /\ \A q \in Owners \ {o} : ctx[q].pc \notin Removing \cup RetireSteps
  BY <1>2, RegistryAssumption DEF GateInv, Locks, Ownership, RetireSteps
<1>6. /\ alias' \in [Modules -> Generations \cup {0}] /\ budget' \subseteq Future
      /\ \A m \in Modules :
           alias'[m] = IF m \in Invalidated THEN f[m].word ELSE alias[m]
      /\ \A m \in Invalidated : f[m] \in Results(m, 0, FALSE)
  <2>1. Invalidated \in SUBSET Modules
    BY Zenon DEF Invalidated, Publishes
  <2> QED
    BY <1>3, <2>1, WriteTypes, Zenon DEF GateInv
<1>7. /\ entry' \in [Modules -> EntryStates]
      /\ \A m \in Modules : /\ entry'[m].known = entry[m].known
                            /\ entry'[m].initializer = entry[m].initializer
                            /\ ~(m \in Invalidated /\ ~Uncleared(m, f[m].outcome))
                                 => entry'[m].gen = entry[m].gen
  <2> DEFINE Reset(m) == m \in Invalidated /\ ~Uncleared(m, f[m].outcome)
  <2>1. entry' = [m \in Modules |-> IF Reset(m) THEN [entry[m] EXCEPT !.gen = 0]
                                               ELSE entry[m]]
    BY <1>3, Zenon
  <2> HIDE DEF Reset
  <2>2. /\ entry' \in [Modules -> EntryStates]
        /\ \A m \in Modules : /\ entry'[m].known = entry[m].known
                              /\ entry'[m].initializer = entry[m].initializer
                              /\ ~Reset(m) => entry'[m].gen = entry[m].gen
    BY <2>1 DEF GateInv, TypeOK, RegistryType, EntryStates, Generations
  <2> QED
    BY <2>2, Zenon DEF Reset
<1>8. \A m \in Modules \ Invalidated : alias[m] = 0
  BY Zenon DEF GateInv, Words, Invalidated, Publishes, ActiveDomain
<1>9. \A m \in Modules :
        /\ alias'[m] \in {0, alias[m]}
        /\ alias'[m] # 0 => m \in Invalidated /\ Uncleared(m, f[m].outcome)
  <2> SUFFICES ASSUME NEW m \in Modules
               PROVE  /\ alias'[m] \in {0, alias[m]}
                      /\ alias'[m] # 0 =>
                           m \in Invalidated /\ Uncleared(m, f[m].outcome)
    BY Zenon
  <2>1. CASE m \notin Invalidated
    BY <1>6, <1>8, <2>1, Zenon
  <2>2. CASE m \in Invalidated
    <3>1. f[m] \in Results(m, 0, FALSE) /\ alias'[m] = f[m].word
      BY <1>6, <2>2, Zenon
    <3>2. CASE m \in Future
      <4>1. f[m] \in {Result(0, "Unavailable"), Result(0, "Quarantine"),
                      Result(alias[m], "Quarantine")}
        BY <3>1, <3>2, Zenon DEF Results, FutureResults
      <4> QED
        BY <2>2, <3>1, <4>1 DEF Result, Uncleared
    <3>3. CASE m \notin Future
      <4>1. f[m] \in {Result(0, "Ready"), Result(alias[m], "Unavailable"),
                      Result(0, "Unavailable")}
        BY <3>1, <3>3, Zenon DEF Results, PlainResults
      <4> QED
        BY <2>2, <3>1, <3>3, <4>1 DEF Result, Uncleared
    <3> QED
      BY <3>2, <3>3, Zenon
  <2> QED
    BY <2>1, <2>2, Zenon
<1>10. cleared => \A m \in Modules : alias'[m] = 0
  BY <1>3, <1>9, Zenon
<1>11. ctx \in [Owners -> ContextStates]
  BY Zenon DEF GateInv, TypeOK, ContextStates
<1> DEFINE pc == IF cleared THEN "invalidated" ELSE "leaked"
           Same(q) == /\ ctx'[q].gen = ctx[q].gen /\ ctx'[q].domain = ctx[q].domain
                      /\ ctx'[q].mapped = ctx[q].mapped
                      /\ ctx'[q].held = ctx[q].held /\ ctx'[q].range = ctx[q].range
<1>12. pc \in ContextSteps /\ Goto(o, pc)
  BY <1>1, Zenon DEF ContextSteps
<1>13. /\ \A q \in Owners : Same(q) /\ (q # o => ctx'[q].pc = ctx[q].pc)
       /\ ctx'[o].pc = pc
  <2> HIDE DEF pc
  <2> QED
    BY <1>11, <1>12, GotoFields, Zenon
<1>14. TypeOK'
  <2>1. ctx' \in [Owners -> ContextStates]
    <3> HIDE DEF pc
    <3> QED
      BY <1>11, <1>12, GotoTypes, Zenon
  <2>2. writer' \in {None} \cup Owners
    BY <1>1, Zenon
  <2> QED
    BY <1>2, <1>4, <1>6, <1>7, <2>1, <2>2, Zenon DEF GateInv, TypeOK, RegistryType,
        RegistryStates, EntryStates, ContextStates
<1>15. Locks'
  BY <1>1, <1>2, <1>5, <1>13, SMTT(30) DEF GateInv, Locks, Removing, RetireSteps
<1>16. Ownership'
  BY <1>2, <1>4, <1>5, <1>13 DEF GateInv, Ownership, Unbound, Removing, RetireSteps
<1>17. Cleared'
  <2>1. \A q \in Owners : q # o => ctx[q].gen = 0
    BY <1>5, Zenon DEF GateInv, Ownership
  <2> QED
    BY <1>4, <1>5, <1>10, <1>13, <2>1, Zenon DEF Cleared, Gone, Dismantled
<1>18. Reserved' /\ Quiet'
  BY <1>2, <1>13 DEF GateInv, Reserved, Quiet, Quieted, Drained, Running
<1>19. Words'
  <2> SUFFICES ASSUME NEW m \in Modules, alias'[m] # 0
               PROVE  /\ ActiveDomain(Home[m])' /\ alias'[m] = reg'.gen
                      /\ ctx'[reg'.owner].mapped
                      /\ entry'[m].known /\ entry'[m].initializer
                      /\ m \in Future \/ entry'[m].gen = reg'.gen
    BY Zenon DEF Words
  <2>1. alias'[m] = alias[m] /\ alias[m] # 0 /\ Uncleared(m, f[m].outcome)
    BY <1>9, Zenon
  <2>2. /\ ActiveDomain(Home[m]) /\ alias[m] = reg.gen /\ ctx[reg.owner].mapped
        /\ entry[m].known /\ entry[m].initializer
        /\ m \in Future \/ entry[m].gen = reg.gen
    BY <2>1, Zenon DEF GateInv, Words
  <2>3. ActiveDomain(Home[m])' /\ ctx'[reg'.owner].mapped
    BY <1>4, <1>5, <1>13, <2>2, Zenon DEF ActiveDomain
  <2>4. entry'[m].known /\ entry'[m].initializer /\ entry'[m].gen = entry[m].gen
    BY <1>7, <2>1, <2>2, Zenon
  <2> QED
    BY <1>4, <2>1, <2>2, <2>3, <2>4, Zenon
<1>20. Executing'
  BY <1>2, <1>4, <1>5, <1>13 DEF GateInv, Executing, Running, ActiveDomain
<1>21. Known' /\ Admitted'
  BY <1>2, <1>4, <1>7, Zenon DEF GateInv, Known, Admitted, ActiveDomain
<1> QED
  BY <1>14, <1>15, <1>16, <1>17, <1>18, <1>19, <1>20, <1>21, Zenon DEF GateInv

\* ActivateEnd: the words of the domain are published to the new owner, or
\* the registry stays without one.
LEMMA ActivateEndStep ==
  ASSUME GateInv, NEW o \in Owners, ActivateEnd(o)
  PROVE  GateInv'
<1> DEFINE d == ctx[o].domain
           g == reg.next
           ms == Publishes(d)
<1>1. PICK futures \in BOOLEAN : Activate(o, d, futures)
  BY Zenon DEF ActivateEnd
<1>2. /\ ctx[o].pc = "activating" /\ writer = None /\ readers = {}
      /\ lifecycle' = None
      /\ UNCHANGED <<writer, readers, gate, loaded, launch, kernel>>
  BY Zenon DEF ActivateEnd, Exclusive, gpuVars
<1>3. /\ reg.owner = None /\ ~reg.retiring /\ ~reg.quarantined /\ g # 0
      /\ g \in Generations
  BY <1>1, Zenon DEF Activate, CanActivate, GateInv, TypeOK, RegistryType
<1>4. PICK f \in Chosen(ms, g, futures) :
        /\ Write(ms, f)
        /\ entry' = [m \in Modules |->
                       IF m \in ms
                       THEN [entry[m] EXCEPT !.gen =
                               IF f[m].outcome = "Ready" THEN g ELSE 0]
                       ELSE entry[m]]
        /\ reg' = [reg EXCEPT !.owner = o, !.domain = d, !.gen = g,
                              !.next = Following(g), !.futures = futures,
                              !.quarantined = Quarantines(f, ms)]
  BY <1>1, Zenon DEF Activate
<1>5. /\ ms \in SUBSET Modules
      /\ \A m \in ms : entry[m].known /\ entry[m].initializer /\ Home[m] = d
  BY Zenon DEF Publishes
<1>6. ctx[o].gen = 0 /\ ctx[o].mapped /\ ctx[o].held = {}
      /\ \A q \in Owners : ctx[q].gen = 0
  BY <1>2, <1>3, RegistryAssumption, Zenon DEF GateInv, Ownership, Unbound
<1>7. \A m \in Modules : alias[m] = 0
  BY <1>3, Zenon DEF GateInv, Words, ActiveDomain
<1>8. \A l \in Running : kernel[l].seen = 0 /\ ~kernel[l].bound
  BY <1>3, Zenon DEF GateInv, Executing, ActiveDomain
<1> HIDE DEF ms
<1>9. /\ reg' \in RegistryStates /\ ~reg'.retiring
      /\ reg'.owner = o /\ reg'.gen = g /\ reg'.domain = d
  <2>1. Following(g) \in Generations \cup {0} /\ Quarantines(f, ms) \in BOOLEAN
    BY <1>3, RegistryAssumption DEF Following, Generations, Quarantines
  <2>2. d \in Domains \cup {None}
    BY Zenon DEF GateInv, TypeOK
  <2> QED
    BY <1>3, <1>4, <2>1, <2>2, Zenon DEF GateInv, TypeOK, RegistryType, RegistryStates
<1>10. /\ alias' \in [Modules -> Generations \cup {0}] /\ budget' \subseteq Future
       /\ \A m \in Modules : alias'[m] = IF m \in ms THEN f[m].word ELSE alias[m]
       /\ \A m \in ms : f[m] \in Results(m, g, futures)
  BY <1>4, <1>5, WriteTypes, Zenon DEF GateInv
<1>11. /\ entry' \in [Modules -> EntryStates]
       /\ \A m \in Modules : /\ entry'[m].known = entry[m].known
                             /\ entry'[m].initializer = entry[m].initializer
                             /\ m \in ms /\ f[m].outcome = "Ready"
                                  => entry'[m].gen = g
  BY <1>3, <1>4, SMTT(30) DEF GateInv, TypeOK, RegistryType, EntryStates
<1>12. \A m \in Modules : alias'[m] # 0 =>
         /\ m \in ms /\ alias'[m] = g
         /\ m \in Future \/ f[m].outcome = "Ready"
  <2> SUFFICES ASSUME NEW m \in Modules, alias'[m] # 0
               PROVE  /\ m \in ms /\ alias'[m] = g
                      /\ m \in Future \/ f[m].outcome = "Ready"
    BY Zenon
  <2>1. m \in ms /\ f[m] \in Results(m, g, futures) /\ alias'[m] = f[m].word
    BY <1>7, <1>10, Zenon
  <2> QED
    BY <1>7, <2>1 DEF Results, FutureResults, PlainResults, Result
<1> DEFINE pc == IF reg'.quarantined THEN "leaked" ELSE "active"
           s == [ctx[o] EXCEPT !.gen = g, !.pc = pc]
<1>13. ctx \in [Owners -> ContextStates]
  BY Zenon DEF GateInv, TypeOK, ContextStates
<1>14. s \in ContextStates
  <2>1. pc \in ContextSteps /\ g \in Generations \cup {0}
    BY <1>3, Zenon DEF ContextSteps
  <2> HIDE DEF pc, g
  <2> QED
    BY <1>13, <2>1, Zenon DEF ContextStates
<1>15. ctx' = [ctx EXCEPT ![o] = s]
  BY Zenon DEF ActivateEnd
<1>16. ctx' \in [Owners -> ContextStates]
  BY <1>13, <1>14, <1>15, ContextTypes, Zenon
<1>17. /\ \A q \in Owners : q # o => ctx'[q] = ctx[q]
       /\ ctx'[o].gen = g /\ ctx'[o].domain = d /\ ctx'[o].mapped = ctx[o].mapped
       /\ ctx'[o].held = ctx[o].held /\ ctx'[o].pc \in {"leaked", "active"}
  BY <1>13, <1>15, Zenon DEF ContextStates
<1> HIDE DEF g, d, s, pc
<1>18. TypeOK'
  <2>1. launchSeen' \in BOOLEAN
    BY Zenon DEF ActivateEnd, ResetLaunches, GateInv, TypeOK
  <2> QED
    BY <1>2, <1>9, <1>10, <1>11, <1>16, <2>1, Zenon DEF GateInv, TypeOK, RegistryType,
        RegistryStates, EntryStates, ContextStates
<1>19. Locks'
  BY <1>2, <1>17, Zenon DEF GateInv, Locks, Removing, RetireSteps
<1>20. Ownership'
  <2>1. \A q \in Owners :
          /\ ctx[q].pc \notin {"active"} \cup Removing \cup RetireSteps
          /\ ctx[q].held = {}
          /\ ~ctx[q].mapped => ctx[q].pc \in {"absent", "unregistered", "leaked"}
    BY <1>6, Zenon DEF GateInv, Ownership
  <2> DEFINE Owned(q) ==
               /\ ctx[q].gen # 0 <=> reg.owner = q
               /\ reg.owner = q => reg.gen = ctx[q].gen /\ reg.domain = ctx[q].domain
               /\ ctx[q].gen = 0 => ctx[q].held = {}
               /\ ctx[q].pc \in Unbound => ctx[q].gen = 0
               /\ ctx[q].pc \in {"active"} \cup Removing \cup RetireSteps
                    => ctx[q].gen # 0
               /\ ~ctx[q].mapped => ctx[q].pc \in {"absent", "unregistered", "leaked"}
               /\ ctx[q].pc \in RetireSteps => reg.retiring
  <2>2. \A q \in Owners : q # o => Owned(q)'
    BY <1>6, <1>9, <1>17, <2>1
  <2>3. Owned(o)'
    BY <1>3, <1>6, <1>9, <1>17, Zenon DEF Unbound, Removing, RetireSteps
  <2>4. reg'.owner # None
    BY <1>9, RegistryAssumption, Zenon
  <2> QED
    BY <2>2, <2>3, <2>4, Zenon DEF Ownership
<1>21. Cleared'
  BY <1>6, <1>17, Zenon DEF Cleared, Gone, Dismantled
<1>22. Reserved' /\ Quiet'
  BY <1>2, <1>6, <1>17 DEF GateInv, Reserved, Quiet, Quieted, Drained, Running
<1>23. Words'
  BY <1>5, <1>6, <1>9, <1>11, <1>12, <1>17, RegistryAssumption, Zenon
     DEF Words, ActiveDomain
<1>24. Executing'
  BY <1>2, <1>8, Zenon DEF GateInv, Executing, Running
<1>25. Known' /\ Admitted'
  BY <1>2, <1>11, Zenon DEF GateInv, Known, Admitted
<1> QED
  BY <1>18, <1>19, <1>20, <1>21, <1>22, <1>23, <1>24, <1>25, Zenon DEF GateInv

\* Nothing is loaded, owned or running.
LEMMA GateInitInv == GateInit => GateInv
<1> SUFFICES ASSUME GateInit PROVE GateInv
  BY Zenon
<1>1. TypeOK
  <2>1. Absent \in ContextStates
    BY Zenon DEF Absent, ContextStates, ContextSteps, Generations
  <2>2. /\ ctx \in [Owners -> ContextStates]
        /\ launch \in [Launchers -> Launches \cup {Idle}]
        /\ kernel \in [Launchers -> Kernels \cup {None}]
    BY <2>1, Zenon DEF GateInit
  <2>3. RegistryType
    BY RegistryAssumption DEF GateInit, RegistryInit, RegistryType, NoEntry, Generations
  <2> QED
    BY <2>2, <2>3, Zenon DEF GateInit, TypeOK, ContextStates
<1>2. /\ writer = None /\ readers = {} /\ reg.owner = None /\ reg.gen = 0
      /\ \A l \in Launchers : launch[l].pc = "idle" /\ kernel[l] = None
      /\ \A m \in Modules : alias[m] = 0 /\ ~entry[m].known
      /\ \A o \in Owners : ctx[o].pc = "absent" /\ ctx[o].gen = 0 /\ ctx[o].held = {}
  BY Zenon DEF GateInit, RegistryInit, NoEntry, Idle, Absent
<1>3. Locks /\ Ownership
  BY <1>2, RegistryAssumption, Zenon DEF Locks, Ownership, Removing, RetireSteps
<1>4. Cleared /\ Reserved /\ Known /\ Words
  BY <1>2, Zenon DEF Cleared, Gone, Reserved, Known, Words
<1>5. Admitted /\ Executing /\ Quiet
  BY <1>2, Zenon DEF Admitted, Executing, Quiet, Drained, Running, Quieted
<1> QED
  BY <1>1, <1>3, <1>4, <1>5, Zenon DEF GateInv

\* Every step keeps the invariant, one lemma per action.
LEMMA GateNextInv == GateInv /\ [Next]_vars => GateInv'
<1> SUFFICES ASSUME GateInv, [Next]_vars PROVE GateInv'
  BY Zenon
<1>1. CASE UNCHANGED vars
  <2>1. TypeOK'
    BY <1>1 DEF vars, GateInv, TypeOK, RegistryType
  <2>2. (Locks /\ Ownership /\ Cleared /\ Reserved /\ Known)'
    BY <1>1, Zenon DEF vars, GateInv, Locks, Ownership, Cleared, Gone, Reserved, Known
  <2>3. (Words /\ Admitted /\ Executing /\ Quiet)'
    BY <1>1, Zenon DEF vars, GateInv, Words, Admitted, Executing, Running, Quiet,
        Drained, ActiveDomain
  <2> QED
    BY <2>1, <2>2, <2>3, Zenon DEF GateInv
<1>2. ASSUME NEW l \in Launchers, LauncherNext(l) PROVE GateInv'
  BY Zenon, <1>2, LaunchBeginStep, LaunchApprovedStep, LaunchDeniedStep,
      LaunchEnqueueStep, KernelReadsStep, KernelEndsStep DEF LauncherNext
<1>3. ASSUME NEW m \in Modules, ModuleNext(m) PROVE GateInv'
  BY <1>3, LoadModuleStep, UnloadBeginStep, UnloadEndStep, Zenon DEF ModuleNext
<1>4. ASSUME NEW d \in Domains, DestroyCudaContext(d) PROVE GateInv'
  BY <1>4, DestroyCudaContextStep, Zenon
<1>5. ASSUME NEW o \in Owners, ContextNext(o) PROVE GateInv'
  <2>1. CASE UnregisterSteps(o)
    BY Zenon, <2>1, UnregisterSyncStep, UnregisterFlushStep, UnregisterReleaseStep,
        UnregisterEndStep, UnregisterFailsStep DEF UnregisterSteps
  <2>2. CASE RetireNext(o)
    BY Zenon, <2>2, RetireAliveStep, RetireSyncStep, RetireFlushStep,
        RetireInvalidateStep, RetireFreeStep, RetireUnmapStep, RetireEndStep,
        RetireFailsStep DEF RetireNext
  <2> QED
    BY Zenon, <1>5, <2>1, <2>2, CreateContextStep, ActivateBeginStep, ActivateEndStep,
        ReleaseUnboundStep, RegisterRangeStep, UnregisterBeginStep,
        RetireBeginStep DEF ContextNext
<1> QED
  BY <1>1, <1>2, <1>3, <1>4, <1>5, Zenon DEF Next

\* The inductive invariant holds throughout.
LEMMA GateAlways == Spec => []GateInv
  BY GateInitInv, GateNextInv, PTL DEF Spec

\* The generation of an owner that is mapped is live.
LEMMA OwnerIsLive ==
  ASSUME GateInv, reg.owner # None, ctx[reg.owner].mapped
  PROVE  reg.gen \in Live
  BY Zenon DEF GateInv, TypeOK, RegistryType, Ownership, Live

\* No control word of a loaded module points to a mapping that is gone,
\* whatever writes fail and whichever module is loaded or context retired
\* when.
THEOREM NoWordDangles == Spec => []NoStaleAlias
<1>1. GateInv => NoStaleAlias
  BY OwnerIsLive, Zenon DEF GateInv, TypeOK, NoStaleAlias, Words, ActiveDomain
<1> QED
  BY <1>1, GateAlways, PTL

\* A kernel that has read a control address never outlives the mapping
\* behind it: release_context unmaps only after every word was cleared and
\* the device synchronized.
THEOREM KernelsKeepControl == Spec => []ControlOutlivesKernels
<1>1. GateInv => ControlOutlivesKernels
  BY OwnerIsLive, Zenon DEF GateInv, ControlOutlivesKernels, Executing, ActiveDomain
<1> QED
  BY <1>1, GateAlways, PTL

\* A kernel on a reserved capacity address is instrumented and bound, also
\* after a retirement that was quarantined.
THEOREM CapacityIsBound == Spec => []CapacityNeverNative
<1>1. GateInv => CapacityNeverNative
  BY Zenon DEF GateInv, TypeOK, CapacityNeverNative, Executing
<1> QED
  BY <1>1, GateAlways, PTL

\* Only the ends of hbfsim_unregister and release_context take a range from
\* the table.
LEMMA GateShrinks ==
  ASSUME GateInv, Next, NEW r \in gate, r \notin gate'
  PROVE  \E o \in Owners : UnregisterEnd(o) \/ RetireEnd(o)
<1>1. \A l \in Launchers : LauncherNext(l) => gate' = gate
  BY Zenon DEF LauncherNext, LaunchBegin, LaunchApproved, LaunchDenied,
      LaunchEnqueue, KernelReads, KernelEnds, gateVars
<1>2. \A m \in Modules : ModuleNext(m) => gate' = gate
  BY Zenon DEF ModuleNext, LoadModule, UnloadBegin, UnloadEnd, gateVars
<1>3. \A d \in Domains : DestroyCudaContext(d) => gate' = gate
  BY Zenon DEF DestroyCudaContext, gateVars
<1>4. ASSUME NEW o \in Owners, ContextNext(o)
      PROVE  UnregisterEnd(o) \/ RetireEnd(o)
  <2>1. CASE UnregisterSteps(o)
    BY <2>1, Zenon DEF UnregisterSteps, UnregisterSync, UnregisterFlush,
        UnregisterRelease, UnregisterFails, gateVars
  <2>2. CASE RetireNext(o)
    BY <2>2, Zenon DEF RetireNext, RetireAlive, RetireSync, RetireFlush, RetireStep,
        RetireInvalidate, RetireFree, RetireUnmap, RetireFails, KeepRanges, gateVars
  <2>3. CASE \E d \in Domains : CreateContext(o, d)
    BY <2>3, Zenon DEF CreateContext, gateVars
  <2>4. CASE ActivateBegin(o) \/ ActivateEnd(o) \/ ReleaseUnbound(o) \/ RetireBegin(o)
    BY <2>4, Zenon DEF ActivateBegin, ActivateEnd, ReleaseUnbound, RetireBegin, gateVars
  <2>5. CASE \E s \in Ranges : RegisterRange(o, s) \/ UnregisterBegin(o, s)
    BY <2>5, Zenon DEF RegisterRange, UnregisterBegin, gateVars
  <2> QED
    BY <1>4, <2>1, <2>2, <2>3, <2>4, <2>5, Zenon DEF ContextNext
<1> QED
  BY <1>1, <1>2, <1>3, <1>4, Zenon DEF Next

\* A range is taken from the table of the gate only while no kernel runs
\* that was admitted to it with a live binding.
THEOREM RangesLeaveQuietly == Spec => RemovedWhenQuiet
<1> DEFINE Step == \A r \in gate \ gate' : \A l \in Running :
                     kernel[l].range = r => ~kernel[l].bound
<1>1. GateInv /\ [Next]_vars => [Step]_vars
  <2> SUFFICES ASSUME GateInv, Next, NEW r \in gate \ gate', NEW l \in Running
               PROVE  ~kernel[l].bound
    BY Zenon
  <2>1. PICK o \in Owners : UnregisterEnd(o) \/ RetireEnd(o)
    BY GateShrinks, Zenon
  <2>2. ctx[o].pc \in {"released", "synced", "unregistered"}
    BY <2>1, Zenon DEF UnregisterEnd, RetireEnd
  <2>3. reg.owner = o /\ reg.domain = ctx[o].domain
    BY <2>2, Zenon DEF GateInv, Ownership, Removing, RetireSteps
  <2>4. kernel[l].domain # reg.domain
    BY <2>2, <2>3, Zenon DEF GateInv, Quiet, Quieted, Drained
  <2> QED
    BY <2>4, Zenon DEF GateInv, Executing, ActiveDomain
<1> QED
  BY <1>1, GateAlways, PTL DEF Spec, RemovedWhenQuiet

\* The next generation is newer than those that the registry keeps.
Fresh ==
  reg.next # 0 => reg.gen < reg.next /\ \A m \in Modules : entry[m].gen < reg.next

\* The registry records no new generation, but copies its own into entries,
\* or forgets.
Copies ==
  /\ reg'.next = reg.next /\ reg'.gen \in {0, reg.gen}
  /\ \A m \in Modules : entry'[m].gen \in {0, reg.gen, entry[m].gen}

\* The generations are numbers.
LEMMA GenerationTypes ==
  ASSUME TypeOK
  PROVE  /\ reg.next \in Nat /\ reg.gen \in Nat
         /\ \A m \in Modules : entry[m].gen \in Nat
<1>1. /\ reg.next \in Generations \cup {0} /\ reg.gen \in Generations \cup {0}
      /\ \A m \in Modules : entry[m].gen \in Generations \cup {0}
  BY Zenon DEF TypeOK, RegistryType
<1>2. Generations \cup {0} \subseteq Nat
  BY RegistryAssumption DEF Generations
<1> QED
  BY <1>1, <1>2, Zenon

\* Copying generations keeps the next one fresh.
LEMMA CopiesFresh ==
  ASSUME GateInv, Fresh, Copies
  PROVE  Fresh'
<1>1. reg.next \in Nat
  BY GenerationTypes, Zenon DEF GateInv
<1> SUFFICES ASSUME reg.next # 0
             PROVE  reg'.gen < reg'.next /\ \A m \in Modules : entry'[m].gen < reg'.next
  BY Zenon DEF Fresh, Copies
<1>2. 0 < reg.next /\ reg.gen < reg.next
  BY <1>1, SMTT(30) DEF Fresh
<1> QED
  BY <1>2 DEF Fresh, Copies

\* An activation takes the next generation, and the one after it is newer.
LEMMA ActivateFresh ==
  ASSUME GateInv, Fresh, NEW o \in Owners, ActivateEnd(o)
  PROVE  Fresh'
<1> DEFINE g == reg.next
<1>1. /\ g # 0 /\ g \in Nat
      /\ reg'.gen = g /\ reg'.next = Following(g)
      /\ \A m \in Modules : entry'[m].gen \in {0, g, entry[m].gen}
  <2>1. PICK futures \in BOOLEAN : Activate(o, ctx[o].domain, futures)
    BY Zenon DEF ActivateEnd
  <2>2. g # 0 /\ g \in Nat
    BY <2>1, GenerationTypes, Zenon DEF Activate, CanActivate, GateInv
  <2>3. reg'.gen = g /\ reg'.next = Following(g)
    BY <2>1, Zenon DEF Activate, GateInv, TypeOK, RegistryType
  <2>4. \A m \in Modules : entry'[m].gen \in {0, g, entry[m].gen}
    <3> DEFINE ms == Publishes(ctx[o].domain)
    <3>1. PICK f \in Chosen(ms, g, futures) :
            entry' = [m \in Modules |->
                        IF m \in ms
                        THEN [entry[m] EXCEPT !.gen =
                                IF f[m].outcome = "Ready" THEN g ELSE 0]
                        ELSE entry[m]]
      BY <2>1, Zenon DEF Activate
    <3>2. entry \in [Modules -> EntryStates]
      BY Zenon DEF GateInv, TypeOK, RegistryType, EntryStates
    <3> HIDE DEF g, ms
    <3> QED
      BY <3>1, <3>2, SMTT(30) DEF EntryStates
  <2> QED
    BY <2>2, <2>3, <2>4, Zenon
<1>2. \A m \in Modules : entry[m].gen < g
  BY <1>1, Zenon DEF Fresh
<1>3. \A m \in Modules : entry[m].gen \in Nat
  BY GenerationTypes, Zenon DEF GateInv
<1> HIDE DEF g
<1> QED
  BY <1>1, <1>2, <1>3 DEF Fresh, Following

\* Every other step copies generations or leaves them alone.
LEMMA OthersCopy ==
  ASSUME GateInv, [Next]_vars, \A o \in Owners : ~ActivateEnd(o)
  PROVE  Copies
<1>1. UNCHANGED regVars => Copies
  BY Zenon DEF Copies, regVars
<1>2. CASE UNCHANGED vars
  BY <1>1, <1>2, Zenon DEF vars, regVars
<1>3. ASSUME NEW l \in Launchers, LauncherNext(l) PROVE Copies
  BY <1>1, <1>3, Zenon DEF LauncherNext, LaunchBegin, LaunchApproved, LaunchDenied,
      LaunchEnqueue, KernelReads, KernelEnds
<1>4. ASSUME NEW m \in Modules, LoadModule(m) PROVE Copies
  <2>1. CASE AddModule(m)
    <3> DEFINE e == [known |-> TRUE, gen |-> 0, initializer |-> TRUE]
               es == {e, [e EXCEPT !.gen = reg.gen], NoEntry}
    <3>1. PICK x \in es : entry' = [entry EXCEPT ![m] = x]
      <4>1. CASE Accepts
        <5>1. PICK b \in BOOLEAN :
                entry' = [entry EXCEPT ![m] =
                            IF b THEN [e EXCEPT !.gen = reg.gen] ELSE e]
          BY <2>1, <4>1, Zenon DEF AddModule
        <5> QED
          BY <5>1, Zenon
      <4>2. CASE entry' = [entry EXCEPT ![m] = IF m \in Future THEN e ELSE NoEntry]
        BY <4>2, Zenon
      <4> QED
        BY <2>1, <4>1, <4>2, Zenon DEF AddModule
    <3>2. \A y \in es : y.gen \in {0, reg.gen}
      BY DEF NoEntry
    <3>3. reg' = reg \/ reg' = [reg EXCEPT !.quarantined = TRUE]
      BY <2>1, Zenon DEF AddModule
    <3>4. reg'.next = reg.next /\ reg'.gen = reg.gen
      BY <3>3, Zenon DEF GateInv, TypeOK, RegistryType
    <3>5. entry \in [Modules -> EntryStates]
      BY Zenon DEF GateInv, TypeOK, RegistryType, EntryStates
    <3> HIDE DEF es
    <3> QED
      BY <3>1, <3>2, <3>4, <3>5, Zenon DEF Copies
  <2>2. CASE RejectModule(m)
    BY <2>2, Zenon DEF RejectModule, NoEntry, Copies, GateInv, TypeOK, RegistryType
  <2> QED
    BY <1>4, <2>1, <2>2, Zenon DEF LoadModule
<1>5. ASSUME NEW ms, NEW dropped, EraseModules(ms, dropped) PROVE Copies
  BY <1>5, Zenon DEF EraseModules, NoEntry, Copies
<1>6. ASSUME NEW m \in Modules, UnloadBegin(m) \/ UnloadEnd(m) PROVE Copies
  <2>1. ASSUME NEW w, QuarantineModule(m, w) PROVE Copies
    BY <2>1, Zenon DEF QuarantineModule, Copies, GateInv, TypeOK, RegistryType
  <2>2. UNCHANGED <<reg, entry>> => Copies
    BY Zenon DEF Copies
  <2> QED
    BY <1>1, <1>5, <1>6, <2>1, <2>2, Zenon DEF UnloadBegin, UnloadEnd
<1>7. ASSUME NEW d \in Domains, DestroyCudaContext(d) PROVE Copies
  BY <1>5, <1>7, Zenon DEF DestroyCudaContext
<1>8. ASSUME NEW o \in Owners, ContextNext(o) PROVE Copies
  <2>1. CASE UnregisterSteps(o)
    BY <1>1, <2>1, Zenon DEF UnregisterSteps, UnregisterSync, UnregisterFlush,
        UnregisterRelease, UnregisterEnd, UnregisterFails
  <2>2. CASE RetireNext(o)
    <3>1. CASE RetireInvalidate(o)
      <4>1. PICK cleared \in BOOLEAN : Invalidate(o, ctx[o].gen, cleared)
        BY <3>1, Zenon DEF RetireInvalidate
      <4>2. PICK f \in Chosen(Invalidated, 0, FALSE) :
              /\ entry' = [m \in Modules |->
                             IF m \in Invalidated /\ ~Uncleared(m, f[m].outcome)
                             THEN [entry[m] EXCEPT !.gen = 0] ELSE entry[m]]
              /\ reg' = [reg EXCEPT !.quarantined = ~cleared]
        BY <4>1, Zenon DEF Invalidate
      <4>3. reg'.next = reg.next /\ reg'.gen = reg.gen
        BY <4>2, Zenon DEF GateInv, TypeOK, RegistryType
      <4>4. entry \in [Modules -> EntryStates]
        BY Zenon DEF GateInv, TypeOK, RegistryType, EntryStates
      <4>5. \A m \in Modules : entry'[m].gen \in {0, entry[m].gen}
        BY <4>2, <4>4, SMTT(30) DEF EntryStates
      <4> QED
        BY <4>3, <4>5, Zenon DEF Copies
    <3>2. CASE RetireEnd(o)
      BY <1>1, <3>2, Zenon DEF RetireEnd, FinishRetire, Unowned, Copies, GateInv,
          TypeOK, RegistryType
    <3> QED
      BY <1>1, <2>2, <3>1, <3>2, Zenon DEF RetireNext, RetireAlive, RetireSync,
          RetireFlush, RetireStep, RetireFree, RetireUnmap, RetireFails
  <2>3. CASE RetireBegin(o)
    BY <1>1, <2>3, Zenon DEF RetireBegin, Quiesce, Copies, GateInv, TypeOK, RegistryType
  <2>4. CASE \/ \E d \in Domains : CreateContext(o, d)
             \/ ActivateBegin(o) \/ ReleaseUnbound(o)
             \/ \E r \in Ranges : RegisterRange(o, r) \/ UnregisterBegin(o, r)
    BY <1>1, <2>4, Zenon DEF CreateContext, ActivateBegin, ReleaseUnbound,
        RegisterRange, UnregisterBegin
  <2> QED
    BY <1>8, <2>1, <2>2, <2>3, <2>4, Zenon DEF ContextNext
<1> QED
  BY <1>2, <1>3, <1>4, <1>6, <1>7, <1>8, Zenon DEF Next, ModuleNext

\* A generation stands for one ownership of the registry: no owner has
\* generation zero, and the generation still to be given out is newer than
\* every one that a module, a control word, a context or a kernel has kept.
THEOREM GenerationsStayFresh == Spec => []GenerationsAreFresh
<1>1. GateInit => Fresh
  BY DEF GateInit, RegistryInit, Fresh, NoEntry
<1>2. GateInv /\ Fresh /\ [Next]_vars => Fresh'
  BY ActivateFresh, OthersCopy, CopiesFresh, Zenon
<1>3. GateInv /\ Fresh => GenerationsAreFresh
  <2> SUFFICES ASSUME GateInv, Fresh PROVE GenerationsAreFresh
    BY Zenon
  <2>1. reg.owner = None <=> reg.gen = 0
    BY Zenon DEF GateInv, TypeOK, RegistryType, Ownership
  <2>2. ASSUME reg.next # 0, NEW g \in Recorded PROVE g < reg.next
    <3>1. reg.next \in Nat /\ reg.gen < reg.next
      BY <2>2, GenerationTypes, Zenon DEF Fresh, GateInv
    <3>2. g \in {0, reg.gen} \/ \E m \in Modules : g = entry[m].gen
      <4>1. \A m \in Modules : alias[m] \in {0, reg.gen}
        BY Zenon DEF GateInv, Words
      <4>2. \A o \in Owners : ctx[o].gen \in {0, reg.gen}
        BY Zenon DEF GateInv, Ownership
      <4>3. \A l \in Running : kernel[l].seen \in {0, reg.gen}
        BY Zenon DEF GateInv, Executing
      <4> QED
        BY <2>2, <4>1, <4>2, <4>3, Zenon DEF Recorded
    <3> QED
      BY <2>2, <3>1, <3>2 DEF Fresh
  <2> QED
    BY <2>1, <2>2, Zenon DEF GenerationsAreFresh, GateInv
<1> QED
  BY <1>1, <1>2, <1>3, GateAlways, PTL DEF Spec

=============================================================================
