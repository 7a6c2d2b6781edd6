------------------------------ MODULE Readiness ------------------------------
(***************************************************************************)
(* apps/api/src/composition-factory.ts: the probes behind the readiness of *)
(* the API. The database is probed periodically; when it is healthy, each  *)
(* capability is probed. A probe that takes too long counts as unhealthy   *)
(* but runs on, and a probe of an earlier generation, of an aborted start  *)
(* or of a closed API must publish nothing.                                *)
(***************************************************************************)
EXTENDS Naturals

CONSTANTS Capabilities,    \* the dependent probes
          KeptWhenDown,    \* those whose state a database that is down leaves alone
          MaxGeneration    \* bound: probeGeneration

ASSUME ReadinessAssumption == MaxGeneration \in Nat \ {0} /\ KeptWhenDown \subseteq Capabilities

VARIABLES
  apiClosed,      \* state.closed
  compatible,     \* state.databaseCompatible
  databaseHealthy,
  capable,        \* capabilities whose state is ready
  generation,     \* probeGeneration; 0 before the first start
  startup,        \* assertCompatible: what it awaits, and for which generation
  databaseProbe,  \* per generation: its loop, where the database's probe is
  dependentProbe,          \* per capability: the generation of the probe waited for, 0: none
  hanging,        \* capabilities with a probe that has not completed
  answeredIn      \* history, per capability: the generation of its last answer

readyVars == <<apiClosed, compatible, databaseHealthy, capable, generation, startup, databaseProbe,
               dependentProbe, hanging, answeredIn>>

Generations == 1 .. MaxGeneration
NotStarting == [stage |-> "none", gen |-> 0]

ReadinessTypeOK ==
  /\ {apiClosed, compatible, databaseHealthy} \subseteq BOOLEAN
  /\ capable \subseteq Capabilities /\ hanging \subseteq Capabilities
  /\ generation \in 0 .. MaxGeneration
  /\ startup \in [stage : {"none", "compatibility", "database", "capabilities"}, gen : 0 .. MaxGeneration]
  /\ databaseProbe \in [Generations -> {"none", "scheduled", "asked"}]
  /\ dependentProbe \in [Capabilities -> 0 .. MaxGeneration]
  /\ answeredIn \in [Capabilities -> 0 .. MaxGeneration]

ReadinessInit ==
  /\ apiClosed = FALSE /\ compatible = FALSE /\ databaseHealthy = FALSE
  /\ capable = {} /\ hanging = {}
  /\ generation = 0
  /\ startup = NotStarting
  /\ databaseProbe = [g \in Generations |-> "none"]
  /\ dependentProbe = [c \in Capabilities |-> 0]
  /\ answeredIn = [c \in Capabilities |-> 0]

(* stopDatabaseProbes: the timer is cleared and the controller aborted.    *)
StopProbes ==
  /\ generation' = generation + 1
  /\ databaseHealthy' = FALSE /\ capable' = {}
  /\ databaseProbe' = [g \in Generations |->
       IF databaseProbe[g] = "scheduled" THEN "none" ELSE databaseProbe[g]]

(* probeIsObsolete: stopping the probes also aborts their controller.      *)
Obsolete(g) == apiClosed \/ g # generation

-----------------------------------------------------------------------------
(* Starting: assertCompatible.                                             *)

CheckCompatibility ==
  /\ startup.stage = "none" /\ ~apiClosed
  /\ startup' = [stage |-> "compatibility", gen |-> 0]
  /\ compatible' = FALSE
  /\ UNCHANGED <<apiClosed, databaseHealthy, capable, generation, databaseProbe, dependentProbe, hanging, answeredIn>>

Compatible ==
  /\ startup.stage = "compatibility" /\ ~apiClosed
  /\ generation + 1 < MaxGeneration
  /\ compatible' = TRUE
  /\ StopProbes
  /\ startup' = [stage |-> "database", gen |-> generation + 1]
  /\ UNCHANGED <<apiClosed, dependentProbe, hanging, answeredIn>>

(* The migrations do not match, or the start was cancelled meanwhile.      *)
Incompatible ==
  /\ startup.stage = "compatibility"
  /\ startup' = NotStarting
  /\ UNCHANGED <<apiClosed, compatible, databaseHealthy, capable, generation, databaseProbe, dependentProbe,
                 hanging, answeredIn>>

(* What an unhealthy database says of the capabilities.                    *)
Down == databaseHealthy' = FALSE /\ capable' = capable \cap KeptWhenDown

(* runDependentProbes: a capability whose last probe hangs is passed over. *)
AskCapabilities(g) ==
  /\ dependentProbe' = [c \in Capabilities |-> IF c \in hanging THEN dependentProbe[c] ELSE g]
  /\ hanging' = Capabilities

Schedule(g) == databaseProbe' = [databaseProbe EXCEPT ![g] = "scheduled"]

DatabaseFound(healthy) ==
  /\ startup.stage = "database" /\ ~Obsolete(startup.gen)
  /\ IF healthy
     THEN /\ databaseHealthy' = TRUE /\ UNCHANGED <<capable, databaseProbe>>
          /\ AskCapabilities(startup.gen)
          /\ startup' = [startup EXCEPT !.stage = "capabilities"]
     ELSE /\ Down /\ Schedule(startup.gen)
          /\ startup' = NotStarting
          /\ UNCHANGED <<dependentProbe, hanging>>
  /\ UNCHANGED <<apiClosed, compatible, generation, answeredIn>>

CapabilitiesFound ==
  /\ startup.stage = "capabilities" /\ ~Obsolete(startup.gen)
  /\ \A c \in Capabilities : dependentProbe[c] # startup.gen
  /\ Schedule(startup.gen)
  /\ startup' = NotStarting
  /\ UNCHANGED <<apiClosed, compatible, databaseHealthy, capable, generation, dependentProbe, hanging, answeredIn>>

(* The start was cancelled, or a check was rejected: the probes are stopped*)
(* unless that was done meanwhile.                                         *)
StartFailed ==
  /\ startup.stage \in {"database", "capabilities"}
  /\ IF startup.gen = generation THEN compatible' = FALSE /\ StopProbes
     ELSE UNCHANGED <<compatible, generation, databaseHealthy, capable, databaseProbe>>
  /\ startup' = NotStarting
  /\ UNCHANGED <<apiClosed, dependentProbe, hanging, answeredIn>>

-----------------------------------------------------------------------------
(* Probing.                                                                *)

ProbeDatabase(g) ==
  /\ databaseProbe[g] = "scheduled"
  /\ databaseProbe' = [databaseProbe EXCEPT ![g] = "asked"]
  /\ UNCHANGED <<apiClosed, compatible, databaseHealthy, capable, generation, startup, dependentProbe,
                 hanging, answeredIn>>

(* The next probe is scheduled when this one has completed.                *)
PublishHealth(g, healthy) ==
  IF Obsolete(g)
  THEN /\ databaseProbe' = [databaseProbe EXCEPT ![g] = "none"]
       /\ UNCHANGED <<databaseHealthy, capable, dependentProbe, hanging>>
  ELSE /\ Schedule(g)
       /\ IF healthy THEN databaseHealthy' = TRUE /\ AskCapabilities(g) /\ UNCHANGED capable
          ELSE Down /\ UNCHANGED <<dependentProbe, hanging>>

(* The answer, or the timeout, which counts as unhealthy.                  *)
DatabaseAnswers(g, healthy) ==
  /\ databaseProbe[g] = "asked"
  /\ PublishHealth(g, healthy)
  /\ UNCHANGED <<apiClosed, compatible, generation, startup, answeredIn>>

(* A check that was cut off by its timeout or an abort counts as unhealthy *)
(* and runs on.                                                            *)
BoundedCheck(c, healthy) == hanging' = IF healthy THEN hanging \ {c} ELSE hanging

(* What is obsolete publishes nothing.                                     *)
CapabilityAnswers(c, healthy) ==
  /\ dependentProbe[c] # 0
  /\ dependentProbe' = [dependentProbe EXCEPT ![c] = 0]
  /\ IF Obsolete(dependentProbe[c]) THEN UNCHANGED <<capable, answeredIn>>
     ELSE /\ capable' = IF healthy THEN capable \cup {c} ELSE capable \ {c}
          /\ answeredIn' = [answeredIn EXCEPT ![c] = dependentProbe[c]]
  /\ BoundedCheck(c, healthy)
  /\ UNCHANGED <<apiClosed, compatible, databaseHealthy, generation, startup, databaseProbe>>

(* A probe that nobody waits for any more completes.                       *)
ProbeCompletes(c) ==
  /\ c \in hanging /\ dependentProbe[c] = 0
  /\ hanging' = hanging \ {c}
  /\ UNCHANGED <<apiClosed, compatible, databaseHealthy, capable, generation, startup,
                 databaseProbe, dependentProbe, answeredIn>>

(* close: it is the end of these bindings.                                 *)
CloseBindings ==
  /\ ~apiClosed
  /\ apiClosed' = TRUE /\ compatible' = FALSE
  /\ StopProbes
  /\ UNCHANGED <<startup, dependentProbe, hanging, answeredIn>>

StartupNext ==
  \/ CheckCompatibility \/ Compatible \/ Incompatible \/ CapabilitiesFound
  \/ generation < MaxGeneration /\ StartFailed
  \/ \E healthy \in BOOLEAN : DatabaseFound(healthy)

ReadinessNext ==
  \/ StartupNext
  \/ generation < MaxGeneration /\ CloseBindings
  \/ \E g \in Generations : ProbeDatabase(g)
  \/ \E g \in Generations, healthy \in BOOLEAN : DatabaseAnswers(g, healthy)
  \/ \E c \in Capabilities : ProbeCompletes(c) \/ \E healthy \in BOOLEAN : CapabilityAnswers(c, healthy)

ReadinessSpec == ReadinessInit /\ [][ReadinessNext]_readyVars

-----------------------------------------------------------------------------
(* Properties.                                                             *)

(* What makes a capability ready was answered to a probe of the generation *)
(* that runs: an answer that comes after the probes were stopped, or after *)
(* they were started again, is not taken for a new one, and only the loop  *)
(* of that generation goes on. A closed API is ready for nothing.          *)
ReadyIsCurrent ==
  /\ \A c \in capable : answeredIn[c] = generation
  /\ \A g \in Generations : databaseProbe[g] = "scheduled" => g = generation
  /\ apiClosed => ~databaseHealthy /\ capable = {}
=============================================================================
