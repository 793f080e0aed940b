--------------------------- MODULE TimingBinding ---------------------------
(***************************************************************************)
(* TimingBindingRegistry (cuda_runtime/timing_binding.cpp) and the device  *)
(* words it governs.  At most one context owns the registry; its control   *)
(* mapping is published to the instrumented modules of its CUDA domain by  *)
(* writing the mapping's device address into their __hbfsim_control word,  *)
(* and taken back when the context retires.  Every write to a device word  *)
(* may fail.  A state that can no longer be proved safe is quarantined     *)
(* and stays so.                                                           *)
(*                                                                         *)
(* alias[m] is the generation whose mapping the word of module m points    *)
(* to, 0 if it is null.  The registry's mutex makes each operation one     *)
(* step, so the operations are actions on its variables that the module    *)
(* LaunchGate conjoins with what its callers do.                           *)
(***************************************************************************)
EXTENDS Integers

CONSTANTS Owners,          \* addresses of contexts
          Domains,         \* CUDA context and device pairs
          Modules,         \* instrumented modules with a trusted identity
          Future,          \* the modules of a timing-future unit
          Home,            \* the domain a module is loaded into
          MaxGeneration,   \* UINT64_MAX, or less
          None             \* a null owner, domain or handle

ASSUME RegistryAssumption ==
  /\ Future \subseteq Modules /\ Home \in [Modules -> Domains]
  /\ MaxGeneration \in Nat \ {0}
  /\ None \notin Owners \cup Domains \cup Modules

VARIABLES reg,     \* owner_, cuda_context_, generation_, retiring_, ...
          entry,   \* modules_: what is recorded of every module
          alias,   \* the control word in the module's device memory
          budget   \* future_budgets: modules with live future control

regVars == <<reg, entry, alias, budget>>

Generations == 1..MaxGeneration

NoEntry == [known |-> FALSE, gen |-> 0, initializer |-> FALSE]

(* next_generation_ is 0 once the generations are used up *)
RegistryType ==
  /\ reg \in [owner : Owners \cup {None}, domain : Domains \cup {None},
              gen : Generations \cup {0}, next : Generations \cup {0},
              futures : BOOLEAN, retiring : BOOLEAN, quarantined : BOOLEAN]
  /\ entry \in [Modules -> [known : BOOLEAN, gen : Generations \cup {0},
                            initializer : BOOLEAN]]
  /\ alias \in [Modules -> Generations \cup {0}]
  /\ budget \subseteq Future

Unowned(r) == [r EXCEPT !.owner = None, !.domain = None, !.gen = 0,
                        !.futures = FALSE, !.retiring = FALSE]

RegistryInit ==
  /\ reg = [owner |-> None, domain |-> None, gen |-> 0, next |-> 1,
            futures |-> FALSE, retiring |-> FALSE, quarantined |-> FALSE]
  /\ entry = [m \in Modules |-> NoEntry]
  /\ alias = [m \in Modules |-> 0]
  /\ budget = {}

(***************************************************************************)
(* initialize_module_control and initialize_future_control: writing the    *)
(* alias a over the word w, as the set of results.  A failed write leaves  *)
(* the word alone; clearing fails too when the generation word behind the  *)
(* cleared alias cannot be written.                                        *)
(***************************************************************************)
Result(w, outcome) == [word |-> w, outcome |-> outcome]

PlainResults(w, a) ==
  {Result(a, "Ready"), Result(w, "Unavailable")}
    \cup (IF a = 0 THEN {Result(0, "Unavailable")} ELSE {})

FutureResults(w, a, supported) ==
  {Result(0, "Unavailable"), Result(0, "Quarantine"), Result(w, "Quarantine")}
    \cup (IF a # 0 /\ supported
          THEN {Result(a, "Ready"), Result(a, "Quarantine")} ELSE {})

Results(m, a, supported) ==
  IF m \in Future THEN FutureResults(alias[m], a, supported)
                  ELSE PlainResults(alias[m], a)

Outcomes == {"Ready", "Unavailable", "Quarantine"}
Chosen(ms, a, supported) ==
  {f \in [ms -> [word : Generations \cup {0}, outcome : Outcomes]] :
     \A m \in ms : f[m] \in Results(m, a, supported)}

Quarantines(f, ms) == \E m \in ms : f[m].outcome = "Quarantine"

With(ms, f, outcome) == {m \in ms \cap Future : f[m].outcome = outcome}

Write(ms, f) ==
  /\ alias' = [m \in Modules |-> IF m \in ms THEN f[m].word ELSE alias[m]]
  /\ budget' = (budget \ With(ms, f, "Unavailable")) \cup With(ms, f, "Ready")

(***************************************************************************)
(* Queries                                                                 *)
(***************************************************************************)
(* the end of the generations would go unnoticed *)
CanActivateAlways == ~reg.quarantined /\ ~reg.retiring /\ reg.owner = None

CanActivate ==
  ~reg.quarantined /\ ~reg.retiring /\ reg.owner = None /\ reg.next # 0

Owns(o, g) ==
  /\ ~reg.quarantined /\ ~reg.retiring
  /\ g # 0 /\ reg.owner = o /\ reg.gen = g

ReadyForActive(m) ==
  /\ ~reg.quarantined /\ ~reg.retiring
  /\ reg.owner # None /\ reg.domain = Home[m]
  /\ entry[m].known /\ entry[m].gen = reg.gen
  /\ m \in Future => reg.futures

ActiveDomain(d) == reg.owner # None /\ reg.domain = d

(***************************************************************************)
(* Operations                                                              *)
(***************************************************************************)
(* what the registry would do if it bound modules at any time *)
AcceptsAlways == TRUE

(* a module is bound only while nobody retires and nothing is quarantined *)
Accepts == ~reg.quarantined /\ ~reg.retiring

(* add_module and add_future_module of a module the driver has just loaded *)
AddModule(m) ==
  LET bound == ActiveDomain(Home[m])
      a == IF bound THEN reg.gen ELSE 0
      e == [known |-> TRUE, gen |-> 0, initializer |-> TRUE]
  IN \/ /\ Accepts
        /\ \E f \in Chosen({m}, a, reg.futures) :
             /\ Write({m}, f)
             /\ entry' = [entry EXCEPT ![m] =
                            IF f[m].outcome = "Ready" /\ bound
                            THEN [e EXCEPT !.gen = reg.gen] ELSE e]
             /\ reg' = IF Quarantines(f, {m})
                       THEN [reg EXCEPT !.quarantined = TRUE] ELSE reg
     \/ /\ ~Accepts
        /\ entry' = [entry EXCEPT ![m] = IF m \in Future THEN e ELSE NoEntry]
        /\ UNCHANGED <<reg, alias, budget>>

(* reject_future_module of a module that the driver would not unload *)
RejectModule(m) ==
  /\ m \in Future
  /\ entry' = [entry EXCEPT ![m] = [NoEntry EXCEPT !.known = TRUE]]
  /\ UNCHANGED <<reg, alias, budget>>

(* erase, erase_context and erase_unbound_device; the words are gone too;  *)
(* dropped is what the caller has taken out of future_budgets              *)
EraseModules(ms, dropped) ==
  /\ budget' = budget \ dropped
  /\ entry' = [m \in Modules |-> IF m \in ms THEN NoEntry ELSE entry[m]]
  /\ alias' = [m \in Modules |-> IF m \in ms THEN 0 ELSE alias[m]]
  /\ UNCHANGED reg

(* quarantine_future_module after a clear that failed with word w *)
QuarantineModule(m, w) ==
  /\ reg' = [reg EXCEPT !.quarantined = TRUE, !.retiring = TRUE]
  /\ entry' = [entry EXCEPT ![m].gen = 0]
  /\ alias' = [alias EXCEPT ![m] = w]
  /\ UNCHANGED budget

Following(g) == IF g = MaxGeneration THEN 0 ELSE g + 1

(* modules that the owner of domain d publishes to *)
Publishes(d) ==
  {m \in Modules : entry[m].known /\ entry[m].initializer /\ Home[m] = d}

(* the owner is recorded before its alias is exposed to any module *)
Activate(o, d, futures) ==
  LET g == reg.next
      ms == Publishes(d)
  IN /\ CanActivate
     /\ \E f \in Chosen(ms, g, futures) :
          /\ Write(ms, f)
          /\ entry' = [m \in Modules |->
                         IF m \in ms
                         THEN [entry[m] EXCEPT !.gen =
                                 IF f[m].outcome = "Ready" THEN g ELSE 0]
                         ELSE entry[m]]
          /\ reg' = [reg EXCEPT !.owner = o, !.domain = d, !.gen = g,
                                !.next = Following(g), !.futures = futures,
                                !.quarantined = Quarantines(f, ms)]

Quiesce(o, g) ==
  /\ Owns(o, g)
  /\ reg' = [reg EXCEPT !.retiring = TRUE]
  /\ UNCHANGED <<entry, alias, budget>>

Retires(o, g) == ~reg.quarantined /\ reg.retiring /\ reg.owner = o /\ reg.gen = g

(* a future module may hold the alias although its generation is zero *)
Invalidated ==
  {m \in Publishes(reg.domain) : m \in Future \/ entry[m].gen = reg.gen}

Uncleared(m, outcome) ==
  outcome = "Quarantine" \/ (m \notin Future /\ outcome = "Unavailable")

(* cleared tells whether every word was; if not, the registry is           *)
(* quarantined                                                             *)
Invalidate(o, g, cleared) ==
  /\ Retires(o, g)
  /\ \E f \in Chosen(Invalidated, 0, FALSE) :
       /\ cleared = \A m \in Invalidated : ~Uncleared(m, f[m].outcome)
       /\ Write(Invalidated, f)
       /\ entry' = [m \in Modules |->
                      IF m \in Invalidated /\ ~Uncleared(m, f[m].outcome)
                      THEN [entry[m] EXCEPT !.gen = 0] ELSE entry[m]]
       /\ reg' = [reg EXCEPT !.quarantined = ~cleared]

FinishRetire(o, g) ==
  /\ Retires(o, g)
  /\ reg' = Unowned(reg)
  /\ UNCHANGED <<entry, alias, budget>>
=============================================================================
