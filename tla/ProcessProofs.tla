--------------------------- MODULE ProcessProofs ----------------------------
(***************************************************************************)
(* Proofs about the processes and the database they use: the worker's life *)
(* and its resources, the consumer adapter, the API's life, its bindings   *)
(* and its readiness, the scripts that install and test them; transactions,*)
(* the pool they run on and the migrations. For any number of starts,      *)
(* deliveries, probes, shells, transactions, connections and versions.     *)
(***************************************************************************)
EXTENDS Readiness, WorkerLifecycle, ConsumerAdapter, ApiLifecycle, LocalBootstrap,
        IntegrationHarness, Transactions, Migrations, FiniteSetTheorems, WellFoundedInduction, TLAPS

-----------------------------------------------------------------------------
(* The worker's life: one generation of handlers.                          *)

(* The attempt that counts is the last one. Another has no handlers, and   *)
(* the last has some only while somebody waits for them to end, or the     *)
(* worker is never started again.                                          *)
OneAttemptCounts ==
  /\ activeStart # 0 => activeStart = attempts /\ (starting = "initialize" \/ running)
  /\ \A a \in Attempts :
       /\ execs[a] # {} => a = attempts
       /\ init[a] = "launched" => execs[a] = Handlers
       /\ a > attempts => init[a] = "none"
  /\ starting # "none" \/ running \/ stopping = "drain" => attempts # 0
  /\ attempts # 0 /\ starting = "none" /\ ~running /\ stopping # "drain" /\ ~terminal
       => execs[attempts] = {}
  /\ running => init[attempts] = "done" /\ activeStart = attempts /\ starting = "none" /\ stopping = "none"
  /\ stopping = "drain" => starting = "none"
  /\ stopping = "start" => attempts \in abortedStarts
  /\ draining => starting = "cleanup" \/ stopping = "drain"

WorkerFlags == {running, draining, terminal, failed, dependencies} \subseteq BOOLEAN
WorkerTyped ==
  /\ attempts \in 0 .. MaxStarts /\ activeStart \in 0 .. MaxStarts
  /\ application \in 0 .. MaxStarts
  /\ starting \in {"none", "initialize", "cleanup"}
  /\ init \in [Attempts -> {"none", "create", "onStart", "ready", "launched", "done", "failed"}]
  /\ abortedStarts \subseteq Attempts
  /\ execs \in [Attempts -> SUBSET Handlers]
  /\ stopping \in {"none", "start", "drain"}
  /\ cause \in {"none", "signal", "fatal"} /\ exit \in {"none", "0", "1"}
  /\ reported \in {"ok", "unavailable"}

WorkerInv == WorkerFlags /\ WorkerTyped /\ OneAttemptCounts /\ RunningMeansAll /\ ContextIsOwned

LEMMA WorkerStarts == WorkerInit => WorkerInv
<1> SUFFICES ASSUME WorkerInit PROVE WorkerInv
  OBVIOUS
<1>1. WorkerFlags
  BY Zenon DEF WorkerInit, WorkerFlags
<1>2. WorkerTyped
  BY WorkerAssumption DEF WorkerInit, WorkerTyped, Attempts
<1>3. OneAttemptCounts /\ RunningMeansAll /\ ContextIsOwned
  BY WorkerAssumption DEF WorkerInit, OneAttemptCounts, RunningMeansAll, ContextIsOwned, Attempts
<1> QED
  BY <1>1, <1>2, <1>3 DEF WorkerInv

LEMMA WorkerGoesOn == WorkerInv /\ [WorkerNext]_workerVars => WorkerInv'
<1> SUFFICES ASSUME WorkerInv, [WorkerNext]_workerVars PROVE WorkerInv'
  OBVIOUS
<1>0. WorkerFlags /\ WorkerTyped /\ OneAttemptCounts /\ RunningMeansAll /\ ContextIsOwned
  BY DEF WorkerInv
<1> USE WorkerAssumption DEF Attempts, flags, outcome
<1>1. CASE UNCHANGED workerVars
  BY <1>1, <1>0 DEF workerVars, WorkerInv, WorkerFlags, WorkerTyped, OneAttemptCounts,
     RunningMeansAll,
     ContextIsOwned
<1>2. CASE Dependencies
  <2>1. WorkerFlags'
    BY <1>2, <1>0, Zenon DEF WorkerFlags, Dependencies
  <2>2. WorkerTyped'
    BY <1>2, <1>0 DEF WorkerTyped, OneAttemptCounts, Dependencies
  <2>3. OneAttemptCounts'
    BY <1>2, <1>0 DEF WorkerTyped, OneAttemptCounts, RunningMeansAll, Dependencies
  <2>4. RunningMeansAll' /\ ContextIsOwned'
    BY <1>2, <1>0 DEF WorkerTyped, OneAttemptCounts, RunningMeansAll, ContextIsOwned, Dependencies
  <2> QED
    BY <2>1, <2>2, <2>3, <2>4 DEF WorkerInv
<1>3. CASE Signal
  <2>1. WorkerFlags'
    BY <1>3, <1>0, Zenon DEF WorkerFlags, Signal, StopBegins, Drain
  <2>2. WorkerTyped'
    <3>1. /\ abortedStarts' \in {abortedStarts, abortedStarts \cup {attempts}}
          /\ attempts \in Attempts
      BY <1>3, <1>0 DEF WorkerTyped, OneAttemptCounts, Signal, StopBegins, Drain
    <3>2. abortedStarts' \subseteq Attempts
      BY <3>1, <1>0 DEF WorkerTyped
    <3>3. /\ UNCHANGED <<attempts, starting, init, execs>> /\ activeStart' = 0
          /\ application' \in {0, application}
          /\ stopping' \in {"none", "start", "drain"}
          /\ cause' \in {cause, "signal"} /\ exit' \in {exit, "0"}
          /\ reported' \in {reported, "unavailable"}
      BY <1>3, <1>0 DEF WorkerTyped, Signal, StopBegins, Drain
    <3> QED
      BY <3>2, <3>3, <1>0 DEF WorkerTyped
  <2>3. OneAttemptCounts'
    BY <1>3, <1>0 DEF WorkerTyped, OneAttemptCounts, RunningMeansAll, Signal, StopBegins, Drain
  <2>4. RunningMeansAll' /\ ContextIsOwned'
    BY <1>3, <1>0 DEF WorkerTyped, OneAttemptCounts, RunningMeansAll, ContextIsOwned, Signal,
       StopBegins, Drain
  <2> QED
    BY <2>1, <2>2, <2>3, <2>4 DEF WorkerInv
<1>4. CASE StopAsked
  <2>1. WorkerFlags'
    BY <1>4, <1>0, Zenon DEF WorkerFlags, StopAsked, StopBegins, Drain
  <2>2. WorkerTyped'
    <3>1. /\ abortedStarts' \in {abortedStarts, abortedStarts \cup {attempts}}
          /\ attempts \in Attempts
      BY <1>4, <1>0 DEF WorkerTyped, OneAttemptCounts, StopAsked, StopBegins, Drain
    <3>2. abortedStarts' \subseteq Attempts
      BY <3>1, <1>0 DEF WorkerTyped
    <3>3. /\ UNCHANGED <<attempts, starting, init, execs>> /\ activeStart' = 0
          /\ application' \in {0, application}
          /\ stopping' \in {"none", "start", "drain"}
          /\ cause' \in {cause, "signal"} /\ exit' \in {exit, "0"}
          /\ reported' \in {reported, "unavailable"}
      BY <1>4, <1>0 DEF WorkerTyped, StopAsked, StopBegins, Drain
    <3> QED
      BY <3>2, <3>3, <1>0 DEF WorkerTyped
  <2>3. OneAttemptCounts'
    BY <1>4, <1>0 DEF WorkerTyped, OneAttemptCounts, RunningMeansAll, StopAsked, StopBegins, Drain
  <2>4. RunningMeansAll' /\ ContextIsOwned'
    BY <1>4, <1>0 DEF WorkerTyped, OneAttemptCounts, RunningMeansAll, ContextIsOwned, StopAsked,
       StopBegins, Drain
  <2> QED
    BY <2>1, <2>2, <2>3, <2>4 DEF WorkerInv
<1>5. CASE StartAsked
  <2>1. WorkerFlags'
    BY <1>5, <1>0, Zenon DEF WorkerFlags, StartAsked
  <2>2. WorkerTyped'
    BY <1>5, <1>0 DEF WorkerTyped, OneAttemptCounts, StartAsked
  <2>3. OneAttemptCounts'
    BY <1>5, <1>0 DEF WorkerTyped, OneAttemptCounts, RunningMeansAll, StartAsked
  <2>4. RunningMeansAll' /\ ContextIsOwned'
    BY <1>5, <1>0 DEF WorkerTyped, OneAttemptCounts, RunningMeansAll, ContextIsOwned, StartAsked
  <2> QED
    BY <2>1, <2>2, <2>3, <2>4 DEF WorkerInv
<1>6. CASE StartFails
  <2>1. WorkerFlags'
    BY <1>6, <1>0, Zenon DEF WorkerFlags, StartFails
  <2>2. WorkerTyped'
    BY <1>6, <1>0 DEF WorkerTyped, OneAttemptCounts, StartFails
  <2>3. OneAttemptCounts'
    BY <1>6, <1>0 DEF WorkerTyped, OneAttemptCounts, RunningMeansAll, StartFails
  <2>4. RunningMeansAll' /\ ContextIsOwned'
    BY <1>6, <1>0 DEF WorkerTyped, OneAttemptCounts, RunningMeansAll, ContextIsOwned, StartFails
  <2> QED
    BY <2>1, <2>2, <2>3, <2>4 DEF WorkerInv
<1>7. CASE HealthFails
  <2>1. WorkerFlags'
    BY <1>7, <1>0, Zenon DEF WorkerFlags, HealthFails, Fatal, Drain
  <2>2. WorkerTyped'
    BY <1>7, <1>0 DEF WorkerTyped, OneAttemptCounts, HealthFails, Fatal, Drain
  <2>3. OneAttemptCounts'
    BY <1>7, <1>0 DEF WorkerTyped, OneAttemptCounts, RunningMeansAll, HealthFails, Fatal, Drain
  <2>4. RunningMeansAll' /\ ContextIsOwned'
    BY <1>7, <1>0 DEF WorkerTyped, OneAttemptCounts, RunningMeansAll, ContextIsOwned, HealthFails,
       Fatal, Drain
  <2> QED
    BY <2>1, <2>2, <2>3, <2>4 DEF WorkerInv
<1>8. CASE StopGoesOn
  <2>1. WorkerFlags'
    BY <1>8, <1>0, Zenon DEF WorkerFlags, StopGoesOn, Drain, SettledBy
  <2>2. WorkerTyped'
    BY <1>8, <1>0 DEF WorkerTyped, OneAttemptCounts, StopGoesOn, Drain, SettledBy
  <2>3. OneAttemptCounts'
    BY <1>8, <1>0 DEF WorkerTyped, OneAttemptCounts, RunningMeansAll, StopGoesOn, Drain, SettledBy
  <2>4. RunningMeansAll' /\ ContextIsOwned'
    BY <1>8, <1>0 DEF WorkerTyped, OneAttemptCounts, RunningMeansAll, ContextIsOwned, StopGoesOn,
       Drain, SettledBy
  <2> QED
    BY <2>1, <2>2, <2>3, <2>4 DEF WorkerInv
<1>9. CASE StopGivesUp
  <2>1. WorkerFlags'
    BY <1>9, <1>0, Zenon DEF WorkerFlags, StopGivesUp, SettledBy
  <2>2. WorkerTyped'
    BY <1>9, <1>0 DEF WorkerTyped, OneAttemptCounts, StopGivesUp, SettledBy
  <2>3. OneAttemptCounts'
    BY <1>9, <1>0 DEF WorkerTyped, OneAttemptCounts, RunningMeansAll, StopGivesUp, SettledBy
  <2>4. RunningMeansAll' /\ ContextIsOwned'
    BY <1>9, <1>0 DEF WorkerTyped, OneAttemptCounts, RunningMeansAll, ContextIsOwned, StopGivesUp,
       SettledBy
  <2> QED
    BY <2>1, <2>2, <2>3, <2>4 DEF WorkerInv
<1>10. CASE Drained
  <2>1. WorkerFlags'
    BY <1>10, <1>0, Zenon DEF WorkerFlags, Drained, StopEnds, SettledBy
  <2>2. WorkerTyped'
    BY <1>10, <1>0 DEF WorkerTyped, OneAttemptCounts, Drained, StopEnds, SettledBy
  <2>3. OneAttemptCounts'
    BY <1>10, <1>0 DEF WorkerTyped, OneAttemptCounts, RunningMeansAll, Drained, StopEnds, SettledBy
  <2>4. RunningMeansAll' /\ ContextIsOwned'
    BY <1>10, <1>0 DEF WorkerTyped, OneAttemptCounts, RunningMeansAll, ContextIsOwned, Drained,
       StopEnds, SettledBy
  <2> QED
    BY <2>1, <2>2, <2>3, <2>4 DEF WorkerInv
<1>11. CASE DrainFails
  <2>1. WorkerFlags'
    BY <1>11, <1>0, Zenon DEF WorkerFlags, DrainFails, StopEnds, SettledBy
  <2>2. WorkerTyped'
    BY <1>11, <1>0 DEF WorkerTyped, OneAttemptCounts, DrainFails, StopEnds, SettledBy
  <2>3. OneAttemptCounts'
    BY <1>11, <1>0 DEF WorkerTyped, OneAttemptCounts, RunningMeansAll, DrainFails, StopEnds,
       SettledBy
  <2>4. RunningMeansAll' /\ ContextIsOwned'
    BY <1>11, <1>0 DEF WorkerTyped, OneAttemptCounts, RunningMeansAll, ContextIsOwned, DrainFails,
       StopEnds, SettledBy
  <2> QED
    BY <2>1, <2>2, <2>3, <2>4 DEF WorkerInv
<1>12. CASE CleanedUp
  <2>1. WorkerFlags'
    BY <1>12, <1>0, Zenon DEF WorkerFlags, CleanedUp, Cleaned
  <2>2. WorkerTyped'
    BY <1>12, <1>0 DEF WorkerTyped, OneAttemptCounts, CleanedUp, Cleaned
  <2>3. OneAttemptCounts'
    BY <1>12, <1>0 DEF WorkerTyped, OneAttemptCounts, RunningMeansAll, CleanedUp, Cleaned
  <2>4. RunningMeansAll' /\ ContextIsOwned'
    BY <1>12, <1>0 DEF WorkerTyped, OneAttemptCounts, RunningMeansAll, ContextIsOwned, CleanedUp,
       Cleaned
  <2> QED
    BY <2>1, <2>2, <2>3, <2>4 DEF WorkerInv
<1>13. CASE CleanupFails
  <2>1. WorkerFlags'
    BY <1>13, <1>0, Zenon DEF WorkerFlags, CleanupFails, Cleaned
  <2>2. WorkerTyped'
    BY <1>13, <1>0 DEF WorkerTyped, OneAttemptCounts, CleanupFails, Cleaned
  <2>3. OneAttemptCounts'
    BY <1>13, <1>0 DEF WorkerTyped, OneAttemptCounts, RunningMeansAll, CleanupFails, Cleaned
  <2>4. RunningMeansAll' /\ ContextIsOwned'
    BY <1>13, <1>0 DEF WorkerTyped, OneAttemptCounts, RunningMeansAll, ContextIsOwned, CleanupFails,
       Cleaned
  <2> QED
    BY <2>1, <2>2, <2>3, <2>4 DEF WorkerInv
<1>14. ASSUME NEW a \in Attempts, Created(a) PROVE WorkerInv'
  <2>1. WorkerFlags'
    BY <1>14, <1>0, Zenon DEF WorkerFlags, Created, Cancelled, Initialised
  <2>2. WorkerTyped'
    BY <1>14, <1>0 DEF WorkerTyped, OneAttemptCounts, Created, Cancelled, Initialised
  <2>3. OneAttemptCounts'
    BY <1>14, <1>0 DEF WorkerTyped, OneAttemptCounts, RunningMeansAll, Created, Cancelled,
       Initialised
  <2>4. RunningMeansAll' /\ ContextIsOwned'
    BY <1>14, <1>0 DEF WorkerTyped, OneAttemptCounts, RunningMeansAll, ContextIsOwned, Created,
       Cancelled, Initialised
  <2> QED
    BY <2>1, <2>2, <2>3, <2>4 DEF WorkerInv
<1>15. ASSUME NEW a \in Attempts, OnStarted(a) PROVE WorkerInv'
  <2>1. WorkerFlags'
    BY <1>15, <1>0, Zenon DEF WorkerFlags, OnStarted, Cancelled, Initialised
  <2>2. WorkerTyped'
    BY <1>15, <1>0 DEF WorkerTyped, OneAttemptCounts, OnStarted, Cancelled, Initialised
  <2>3. OneAttemptCounts'
    BY <1>15, <1>0 DEF WorkerTyped, OneAttemptCounts, RunningMeansAll, OnStarted, Cancelled,
       Initialised
  <2>4. RunningMeansAll' /\ ContextIsOwned'
    BY <1>15, <1>0 DEF WorkerTyped, OneAttemptCounts, RunningMeansAll, ContextIsOwned, OnStarted,
       Cancelled, Initialised
  <2> QED
    BY <2>1, <2>2, <2>3, <2>4 DEF WorkerInv
<1>16. ASSUME NEW a \in Attempts, Launch(a) PROVE WorkerInv'
  <2>1. WorkerFlags'
    BY <1>16, <1>0, Zenon DEF WorkerFlags, Launch, Cancelled, Initialised
  <2>2. WorkerTyped'
    BY <1>16, <1>0 DEF WorkerTyped, OneAttemptCounts, Launch, Cancelled, Initialised
  <2>3. OneAttemptCounts'
    BY <1>16, <1>0 DEF WorkerTyped, OneAttemptCounts, RunningMeansAll, Launch, Cancelled,
       Initialised
  <2>4. RunningMeansAll' /\ ContextIsOwned'
    BY <1>16, <1>0 DEF WorkerTyped, OneAttemptCounts, RunningMeansAll, ContextIsOwned, Launch,
       Cancelled, Initialised
  <2> QED
    BY <2>1, <2>2, <2>3, <2>4 DEF WorkerInv
<1>17. ASSUME NEW a \in Attempts, InitialiseFails(a) PROVE WorkerInv'
  <2>1. WorkerFlags'
    BY <1>17, <1>0, Zenon DEF WorkerFlags, InitialiseFails, Initialised
  <2>2. WorkerTyped'
    BY <1>17, <1>0 DEF WorkerTyped, OneAttemptCounts, InitialiseFails, Initialised
  <2>3. OneAttemptCounts'
    BY <1>17, <1>0 DEF WorkerTyped, OneAttemptCounts, RunningMeansAll, InitialiseFails, Initialised
  <2>4. RunningMeansAll' /\ ContextIsOwned'
    BY <1>17, <1>0 DEF WorkerTyped, OneAttemptCounts, RunningMeansAll, ContextIsOwned,
       InitialiseFails, Initialised
  <2> QED
    BY <2>1, <2>2, <2>3, <2>4 DEF WorkerInv
<1>18. ASSUME NEW a \in Attempts, Running(a) PROVE WorkerInv'
  <2>1. WorkerFlags'
    BY <1>18, <1>0, Zenon DEF WorkerFlags, Running, Cancelled, Initialised
  <2>2. WorkerTyped'
    BY <1>18, <1>0 DEF WorkerTyped, OneAttemptCounts, Running, Cancelled, Initialised
  <2>3. OneAttemptCounts'
    BY <1>18, <1>0 DEF WorkerTyped, OneAttemptCounts, RunningMeansAll, Running, Cancelled,
       Initialised
  <2>4. RunningMeansAll' /\ ContextIsOwned'
    BY <1>18, <1>0 DEF WorkerTyped, OneAttemptCounts, RunningMeansAll, ContextIsOwned, Running,
       Cancelled, Initialised
  <2> QED
    BY <2>1, <2>2, <2>3, <2>4 DEF WorkerInv
<1>19. ASSUME NEW a \in Attempts, NotRunning(a) PROVE WorkerInv'
  <2>1. WorkerFlags'
    BY <1>19, <1>0, Zenon DEF WorkerFlags, NotRunning, Initialised
  <2>2. WorkerTyped'
    BY <1>19, <1>0 DEF WorkerTyped, OneAttemptCounts, NotRunning, Initialised
  <2>3. OneAttemptCounts'
    BY <1>19, <1>0 DEF WorkerTyped, OneAttemptCounts, RunningMeansAll, NotRunning, Initialised
  <2>4. RunningMeansAll' /\ ContextIsOwned'
    BY <1>19, <1>0 DEF WorkerTyped, OneAttemptCounts, RunningMeansAll, ContextIsOwned, NotRunning,
       Initialised
  <2> QED
    BY <2>1, <2>2, <2>3, <2>4 DEF WorkerInv
<1>20. ASSUME NEW a \in Attempts, NEW h \in Handlers, HandlerEnds(a, h) PROVE WorkerInv'
  <2>0. /\ h \in execs[a] /\ a = attempts
        /\ execs' = [execs EXCEPT ![a] = @ \ {h}]
        /\ UNCHANGED <<attempts, starting, exit>>
    BY <1>20, <1>0 DEF HandlerEnds, WorkerTyped, OneAttemptCounts
  <2>1. WorkerFlags'
    BY <1>20, <1>0, Zenon DEF WorkerFlags, HandlerEnds, Fatal, Drain
  <2>2. CASE init[a] = "launched"
    <3>1. /\ init' = [init EXCEPT ![a] = "failed"]
          /\ UNCHANGED <<running, draining, terminal, activeStart, abortedStarts, application, stopping,
                         cause, reported>>
      BY <1>20, <2>2 DEF HandlerEnds, Initialised
    <3>2. WorkerTyped' /\ OneAttemptCounts'
      BY <2>0, <2>2, <3>1, <1>0 DEF WorkerTyped, OneAttemptCounts
    <3>3. RunningMeansAll' /\ ContextIsOwned'
      BY <2>0, <2>2, <3>1, <1>0 DEF OneAttemptCounts, RunningMeansAll, ContextIsOwned
    <3> QED
      BY <2>1, <3>2, <3>3 DEF WorkerInv
  <2>3. CASE init[a] # "launched" /\ a = activeStart /\ running
    <3>1. UNCHANGED init /\ Fatal
      BY <1>20, <2>3, Zenon DEF HandlerEnds
    <3>2. WorkerTyped'
      BY <2>0, <3>1, <1>0 DEF WorkerTyped, Fatal, Drain
    <3>3. OneAttemptCounts'
      BY <2>0, <2>3, <3>1, <1>0 DEF WorkerTyped, OneAttemptCounts, Fatal, Drain
    <3>4. RunningMeansAll' /\ ContextIsOwned'
      BY <2>0, <3>1, <1>0 DEF RunningMeansAll, ContextIsOwned, Fatal, Drain
    <3> QED
      BY <2>1, <3>2, <3>3, <3>4 DEF WorkerInv
  <2>4. CASE init[a] # "launched" /\ ~(a = activeStart /\ running)
    <3>1. UNCHANGED <<init, running, draining, terminal, activeStart, abortedStarts, application,
                      stopping, cause, reported>>
      BY <1>20, <2>4 DEF HandlerEnds
    <3>2. WorkerTyped' /\ OneAttemptCounts'
      BY <2>0, <2>4, <3>1, <1>0 DEF WorkerTyped, OneAttemptCounts
    <3>3. ~running
      BY <2>0, <2>4, <1>0 DEF OneAttemptCounts
    <3>4. RunningMeansAll' /\ ContextIsOwned'
      BY <2>0, <3>1, <3>3, <1>0 DEF RunningMeansAll, ContextIsOwned
    <3> QED
      BY <2>1, <3>2, <3>4 DEF WorkerInv
  <2> QED
    BY <2>2, <2>3, <2>4
<1> QED
  BY <1>1, <1>2, <1>3, <1>4, <1>5, <1>6, <1>7, <1>8, <1>9, <1>10, <1>11, <1>12, <1>13, <1>14,
     <1>15, <1>16, <1>17, <1>18, <1>19, <1>20
     DEF WorkerNext, StopNext, CleanupNext, AttemptNext

LEMMA WorkerMeans ==
  WorkerInv => WorkerTypeOK /\ OneGeneration /\ RunningMeansAll /\ ContextIsOwned
BY DEF WorkerInv, OneAttemptCounts, OneGeneration, WorkerTypeOK, WorkerFlags, WorkerTyped

(* One generation of handlers runs, all of it while the worker runs, and   *)
(* no context outlives its attempt.                                        *)
THEOREM GenerationsAreApart ==
  WorkerSpec => [](OneGeneration /\ RunningMeansAll /\ ContextIsOwned)
<1> QED
  BY WorkerStarts, WorkerGoesOn, WorkerMeans, PTL DEF WorkerSpec

-----------------------------------------------------------------------------
(* The worker's resources: whoever opened a connection closes it once.     *)

ResourceFlags == {interrupted, resourcesClosed, closeConfirmed, healthy} \subseteq BOOLEAN
LinksTyped ==
  /\ boot \in Startup \cup {"cleanup", "starting", "running", "stopping", "stopped", "failing",
                            "closing", "returned"}
  /\ link \in [Targets -> {"none", "connecting", "setup", "usable", "closing", "gone"}]
  /\ abandoned \subseteq Rabbit
  /\ drain \in [state : {"none", "waiting", "closing", "closed", "failed"}, deadline : BOOLEAN]
CloseTyped ==
  /\ closeTargets \subseteq Targets /\ ended \subseteq Targets /\ closers \subseteq Closers
  /\ closing \in [Targets -> {"idle", "pending", "closed", "failed"}]
  /\ healthProbe \in {"none", "timer", "asking", "late"}

(* What has happened where bootstrap stands: nothing is given up before it *)
(* cleans up, and nothing closed before it or the application calls close. *)
BootInOrder ==
  /\ boot \in Startup => abandoned = {}
  /\ boot \in Startup \cup {"cleanup", "starting", "running", "stopping"} => ~resourcesClosed
  /\ boot \in {"stopped", "failing", "closing"} => resourcesClosed
  /\ boot \in Startup \cup {"cleanup", "starting", "running"} => drain.state = "none"

(* Who looks after a connection that is open, or may still be opened.      *)
LinksInOrder ==
  /\ \A r \in Rabbit :
       /\ link[r] = "setup" => boot = r
       /\ link[r] = "connecting" => boot = r \/ r \in abandoned
       /\ r \in abandoned => link[r] \notin {"setup", "usable"}
       /\ boot = "cleanup" => link[r] \notin {"setup", "usable"}
       /\ boot = "returned" => resourcesClosed \/ link[r] \notin {"setup", "usable"}
  /\ resourcesClosed => link["publisher"] \notin {"setup", "usable"} /\ drain.state # "none"
  /\ drain.state \in {"closing", "closed", "failed"} => link["consumer"] \notin {"setup", "usable"}

(* What the close operation knows is what has happened: its targets are    *)
(* those that were not closed before.                                      *)
CloseInOrder ==
  /\ ~resourcesClosed => /\ closeTargets = Targets /\ closers = {}
                         /\ \A t \in Targets : closing[t] = "idle"
  /\ closeConfirmed <=> closeTargets = {}
  /\ \/ \A t \in Targets : closing[t] = "idle"
     \/ \A t \in Targets : closing[t] = "idle" <=> t \notin closeTargets
  /\ \A t \in Targets : closing[t] = "closed" => t \in ended
  /\ \A t \in Targets : t \notin closeTargets => t \in ended
  /\ \A t \in ended \ {"consumer"} :
       closing[t] \in {"idle", "closed"} /\ (closing[t] = "idle" => t \notin closeTargets)
  /\ drain.state = "closed" => "consumer" \in ended

ResourcesInv ==
  ResourceFlags /\ LinksTyped /\ CloseTyped /\ BootInOrder /\ LinksInOrder /\ CloseInOrder /\ ClosedIsQuiet

LEMMA NothingIsClosing ==
  ASSUME CloseTyped
  PROVE  closing = NothingClosing <=> \A t \in Targets : closing[t] = "idle"
BY DEF CloseTyped, NothingClosing

(* What a call of close does to the connections and to the drain.          *)
CallOfClose ==
  /\ link' \in [Targets -> {"none", "connecting", "setup", "usable", "closing", "gone"}]
  /\ drain' \in [state : {"none", "waiting", "closing", "closed", "failed"}, deadline : BOOLEAN]
  /\ \A r \in Rabbit : link'[r] = link[r] \/ (link[r] = "usable" /\ link'[r] = "closing")
  /\ drain' = drain \/ (drain.state = "none" /\ drain'.state = "waiting")
  /\ resourcesClosed'
  /\ ~resourcesClosed => link'["publisher"] # "usable" /\ drain'.state # "none"

LEMMA ClosesInOrder ==
  ASSUME LinksTyped, CloseTyped, CloseInOrder, ClosedIsQuiet, NEW c \in Closers, CloseResources(c)
  PROVE  CallOfClose /\ CloseTyped' /\ CloseInOrder' /\ ClosedIsQuiet'
<1> USE DEF Targets, Rabbit, Closers, closeVars, probeVars
<1>n. closing = NothingClosing <=> \A t \in Targets : closing[t] = "idle"
  BY NothingIsClosing
<1>1. CASE closeConfirmed
  <2>1. UNCHANGED <<link, drain, resourcesClosed, closeConfirmed, closeTargets, closing, closers, ended, healthy,
                    healthProbe>>
    BY <1>1 DEF CloseResources
  <2>2. resourcesClosed
    BY <1>1 DEF CloseInOrder
  <2>3. CallOfClose
    BY <2>1, <2>2 DEF CallOfClose, LinksTyped
  <2>4. CloseTyped' /\ CloseInOrder' /\ ClosedIsQuiet'
    BY <2>1 DEF CloseTyped, CloseInOrder, ClosedIsQuiet
  <2> QED
    BY <2>3, <2>4
<1>2. CASE ~closeConfirmed
  <2>1. /\ resourcesClosed' /\ closers' = closers \cup {c}
        /\ UNCHANGED <<closeConfirmed, closeTargets, ended>>
        /\ \/ resourcesClosed /\ UNCHANGED <<healthy, healthProbe>>
           \/ ~resourcesClosed /\ StopDatabaseProbes
    BY <1>2, Zenon DEF CloseResources
  <2>2. ClosedIsQuiet'
    BY <2>1 DEF ClosedIsQuiet, StopDatabaseProbes, CloseTyped
  <2>3. healthProbe' \in {"none", "timer", "asking", "late"}
    BY <2>1 DEF StopDatabaseProbes, CloseTyped
  <2>4. CASE closing = NothingClosing
    <3>1. Begins
      BY <1>2, <2>4, Zenon DEF CloseResources
    <3>2. \A t \in Targets : closing[t] = "idle"
      BY <2>4, <1>n
    <3>3. closing' \in [Targets -> {"idle", "pending", "closed", "failed"}]
      BY <3>1 DEF Begins, CloseTyped
    <3>4. \A t \in Targets : /\ closing'[t] = "idle" <=> t \notin closeTargets
                             /\ closing'[t] = "closed" => t = "consumer" /\ drain.state = "closed"
      <4> SUFFICES ASSUME NEW t \in Targets
                   PROVE  /\ closing'[t] = "idle" <=> t \notin closeTargets
                          /\ closing'[t] = "closed" => t = "consumer" /\ drain.state = "closed"
        BY Zenon
      <4>1. closing'[t] = IF t \notin closeTargets THEN "idle"
                       ELSE IF t = "consumer" /\ drain.state \in {"closed", "failed"} THEN drain.state
                       ELSE "pending"
        BY <3>1 DEF Begins
      <4>2. CASE t \notin closeTargets
        BY <4>1, <4>2
      <4>3. CASE t \in closeTargets /\ t = "consumer" /\ drain.state \in {"closed", "failed"}
        BY <4>1, <4>3
      <4>4. CASE t \in closeTargets /\ ~(t = "consumer" /\ drain.state \in {"closed", "failed"})
        BY <4>1, <4>4
      <4> QED
        BY <4>2, <4>3, <4>4
    <3>5. link' = [t \in Targets |-> IF t \in closeTargets \ {"consumer"} /\ link[t] = "usable"
                                      THEN "closing" ELSE link[t]]
      BY <3>1 DEF Begins, Shut
    <3>6. \/ drain' = drain /\ (drain.state = "none" => "consumer" \notin closeTargets)
          \/ drain.state = "none" /\ drain' = [state |-> "waiting", deadline |-> TRUE]
      BY <3>1 DEF Begins, Drains
    <3>7. CloseTyped'
      BY <2>1, <2>3, <3>3 DEF CloseTyped
    <3>8. CloseInOrder'
      <4>1. drain'.state = "closed" => drain.state = "closed"
        BY <3>6
      <4>2. closeConfirmed' <=> closeTargets' = {}
        BY <2>1 DEF CloseInOrder
      <4>0. closeTargets' = closeTargets /\ ended' = ended
        BY <2>1
      <4>3. \A t \in Targets : closing'[t] = "idle" <=> t \notin closeTargets'
        <5>1. \A t \in Targets : closing'[t] = "idle" <=> t \notin closeTargets
          BY <3>4
        <5> QED
          BY <4>0, <5>1, Zenon
      <4>4. \A t \in Targets : closing'[t] = "closed" => t \in ended'
        BY <2>1, <3>4 DEF CloseInOrder
      <4>5. \A t \in Targets : t \notin closeTargets' => t \in ended'
        BY <2>1 DEF CloseInOrder
      <4>6. \A t \in ended' \ {"consumer"} : t \notin closeTargets' /\ closing'[t] = "idle"
        <5>1. \A t \in ended \ {"consumer"} : t \in Targets /\ t \notin closeTargets
          BY <3>2 DEF CloseTyped, CloseInOrder
        <5>2. \A t \in Targets : t \notin closeTargets => closing'[t] = "idle"
          BY <3>4
        <5> HIDE DEF Targets
        <5> QED
          BY <4>0, <5>1, <5>2
      <4>7. drain'.state = "closed" => "consumer" \in ended'
        BY <2>1, <4>1 DEF CloseInOrder
      <4> QED
        BY <2>1, <4>2, <4>3, <4>4, <4>5, <4>6, <4>7 DEF CloseInOrder
    <3>9. CallOfClose
      <4>1. link' \in [Targets -> {"none", "connecting", "setup", "usable", "closing", "gone"}]
        BY <3>5 DEF LinksTyped
      <4>2. drain' \in [state : {"none", "waiting", "closing", "closed", "failed"}, deadline : BOOLEAN]
        <5>1. [state |-> "waiting", deadline |-> TRUE]
                \in [state : {"none", "waiting", "closing", "closed", "failed"}, deadline : BOOLEAN]
          OBVIOUS
        <5>2. drain' = drain \/ drain' = [state |-> "waiting", deadline |-> TRUE]
          BY <3>6
        <5> QED
          BY <5>1, <5>2, Zenon DEF LinksTyped
      <4>3. \A r \in Rabbit : link'[r] = link[r] \/ (link[r] = "usable" /\ link'[r] = "closing")
        BY <3>5
      <4>4. drain' = drain \/ (drain.state = "none" /\ drain'.state = "waiting")
        BY <3>6
      <4>5. ~resourcesClosed => link'["publisher"] # "usable" /\ drain'.state # "none"
        BY <3>5, <3>6 DEF CloseInOrder
      <4> QED
        BY <2>1, <4>1, <4>2, <4>3, <4>4, <4>5 DEF CallOfClose
    <3> QED
      BY <2>2, <3>7, <3>8, <3>9
  <2>5. CASE closing # NothingClosing
    <3>1. UNCHANGED <<closing, link, drain>>
      BY <1>2, <2>5 DEF CloseResources
    <3>2. resourcesClosed
      BY <2>5, <1>n DEF CloseInOrder
    <3>3. CloseTyped'
      BY <2>1, <2>3, <3>1 DEF CloseTyped
    <3>4. CloseInOrder'
      BY <2>1, <3>1, <3>2 DEF CloseInOrder
    <3>5. CallOfClose
      BY <2>1, <3>1, <3>2 DEF CallOfClose, LinksTyped
    <3> QED
      BY <2>2, <3>3, <3>4, <3>5
  <2> QED
    BY <2>4, <2>5
<1> QED
  BY <1>1, <1>2

LEMMA ResourcesStart == ResourcesInit => ResourcesInv
<1> SUFFICES ASSUME ResourcesInit PROVE ResourcesInv
  OBVIOUS
<1>1. ResourceFlags
  BY Zenon DEF ResourcesInit, ResourceFlags
<1>2. LinksTyped /\ CloseTyped
  BY DEF ResourcesInit, LinksTyped, CloseTyped, Targets, Rabbit, Startup, Undrained, NothingClosing
<1>3. BootInOrder /\ LinksInOrder /\ CloseInOrder /\ ClosedIsQuiet
  BY DEF ResourcesInit, BootInOrder, LinksInOrder, CloseInOrder, ClosedIsQuiet, Targets, Rabbit,
     Startup,
     Undrained, NothingClosing
<1> QED
  BY <1>1, <1>2, <1>3 DEF ResourcesInv

LEMMA ResourcesGoOn == ResourcesInv /\ [ResourcesNext]_resourceVars => ResourcesInv'
<1> SUFFICES ASSUME ResourcesInv, [ResourcesNext]_resourceVars PROVE ResourcesInv'
  OBVIOUS
<1>0. ResourceFlags /\ LinksTyped /\ CloseTyped /\ BootInOrder /\ LinksInOrder /\ CloseInOrder /\ ClosedIsQuiet
  BY DEF ResourcesInv
<1>n. closing = NothingClosing <=> \A t \in Targets : closing[t] = "idle"
  BY <1>0, NothingIsClosing
<1>m. NothingClosing \in [Targets -> {"idle"}]
  BY DEF NothingClosing
<1> USE DEF Targets, Rabbit, Closers, Startup, closeVars, probeVars, resourceVars
<1>1. CASE UNCHANGED resourceVars
  <2>1. ResourceFlags'
    BY <1>1, <1>0, Zenon DEF ResourceFlags
  <2>2. LinksTyped' /\ CloseTyped'
    BY <1>1, <1>0 DEF LinksTyped, CloseTyped
  <2>3. BootInOrder' /\ LinksInOrder' /\ CloseInOrder' /\ ClosedIsQuiet'
    BY <1>1, <1>0 DEF BootInOrder, LinksInOrder, CloseInOrder, ClosedIsQuiet
  <2> QED
    BY <2>1, <2>2, <2>3 DEF ResourcesInv
<1>2. ASSUME NEW r \in Rabbit, ConnectorReplies(r) PROVE ResourcesInv'
  <2>1. ResourceFlags'
    BY <1>2, <1>0, Zenon DEF ConnectorReplies, Shut, ResourceFlags
  <2>2. LinksTyped'
    BY <1>2, <1>0 DEF ConnectorReplies, Shut, LinksTyped
  <2>3. CloseTyped'
    BY <1>2, <1>0 DEF ConnectorReplies, Shut, LinksTyped, CloseTyped
  <2>4. BootInOrder'
    BY <1>2, <1>0 DEF ConnectorReplies, Shut, LinksTyped, CloseTyped, BootInOrder, CloseInOrder
  <2>5. LinksInOrder'
    BY <1>2, <1>0 DEF ConnectorReplies, Shut, LinksTyped, CloseTyped, BootInOrder, LinksInOrder,
       CloseInOrder
  <2>6. CloseInOrder'
    BY <1>2, <1>0 DEF ConnectorReplies, Shut, LinksTyped, CloseTyped, BootInOrder, CloseInOrder
  <2>7. ClosedIsQuiet'
    BY <1>2, <1>0 DEF ConnectorReplies, Shut, BootInOrder, ClosedIsQuiet, CloseTyped
  <2> QED
    BY <2>1, <2>2, <2>3, <2>4, <2>5, <2>6, <2>7 DEF ResourcesInv
<1>3. ASSUME NEW r \in Rabbit, ConnectorFails(r) PROVE ResourcesInv'
  <2>1. ResourceFlags'
    BY <1>3, <1>0, Zenon DEF ConnectorFails, ResourceFlags
  <2>2. LinksTyped'
    BY <1>3, <1>0 DEF ConnectorFails, LinksTyped
  <2>3. CloseTyped'
    BY <1>3, <1>0 DEF ConnectorFails, LinksTyped, CloseTyped
  <2>4. BootInOrder'
    BY <1>3, <1>0 DEF ConnectorFails, LinksTyped, CloseTyped, BootInOrder, CloseInOrder
  <2>5. LinksInOrder'
    BY <1>3, <1>0 DEF ConnectorFails, LinksTyped, CloseTyped, BootInOrder, LinksInOrder,
       CloseInOrder
  <2>6. CloseInOrder'
    BY <1>3, <1>0 DEF ConnectorFails, LinksTyped, CloseTyped, BootInOrder, CloseInOrder
  <2>7. ClosedIsQuiet'
    BY <1>3, <1>0 DEF ConnectorFails, BootInOrder, ClosedIsQuiet, CloseTyped
  <2> QED
    BY <2>1, <2>2, <2>3, <2>4, <2>5, <2>6, <2>7 DEF ResourcesInv
<1>4. ASSUME NEW r \in Rabbit, SetUp(r) PROVE ResourcesInv'
  <2>1. ResourceFlags'
    BY <1>4, <1>0, Zenon DEF SetUp, ResourceFlags
  <2>2. LinksTyped'
    BY <1>4, <1>0 DEF SetUp, LinksTyped
  <2>3. CloseTyped'
    BY <1>4, <1>0 DEF SetUp, LinksTyped, CloseTyped
  <2>4. BootInOrder'
    BY <1>4, <1>0 DEF SetUp, LinksTyped, CloseTyped, BootInOrder, CloseInOrder
  <2>5. LinksInOrder'
    BY <1>4, <1>0 DEF SetUp, LinksTyped, CloseTyped, BootInOrder, LinksInOrder, CloseInOrder
  <2>6. CloseInOrder'
    BY <1>4, <1>0 DEF SetUp, LinksTyped, CloseTyped, BootInOrder, CloseInOrder
  <2>7. ClosedIsQuiet'
    BY <1>4, <1>0 DEF SetUp, BootInOrder, ClosedIsQuiet, CloseTyped
  <2> QED
    BY <2>1, <2>2, <2>3, <2>4, <2>5, <2>6, <2>7 DEF ResourcesInv
<1>5. ASSUME NEW r \in Rabbit, SetUpFails(r) PROVE ResourcesInv'
  <2>1. ResourceFlags'
    BY <1>5, <1>0, Zenon DEF SetUpFails, ResourceFlags
  <2>2. LinksTyped'
    BY <1>5, <1>0 DEF SetUpFails, LinksTyped
  <2>3. CloseTyped'
    BY <1>5, <1>0 DEF SetUpFails, LinksTyped, CloseTyped
  <2>4. BootInOrder'
    BY <1>5, <1>0 DEF SetUpFails, LinksTyped, CloseTyped, BootInOrder, CloseInOrder
  <2>5. LinksInOrder'
    BY <1>5, <1>0 DEF SetUpFails, LinksTyped, CloseTyped, BootInOrder, LinksInOrder, CloseInOrder
  <2>6. CloseInOrder'
    BY <1>5, <1>0 DEF SetUpFails, LinksTyped, CloseTyped, BootInOrder, CloseInOrder
  <2>7. ClosedIsQuiet'
    BY <1>5, <1>0 DEF SetUpFails, BootInOrder, ClosedIsQuiet, CloseTyped
  <2> QED
    BY <2>1, <2>2, <2>3, <2>4, <2>5, <2>6, <2>7 DEF ResourcesInv
<1>6. ASSUME NEW r \in Rabbit, AcquisitionFails(r) PROVE ResourcesInv'
  <2>1. ResourceFlags'
    BY <1>6, <1>0, Zenon DEF AcquisitionFails, Shut, ResourceFlags
  <2>2. LinksTyped'
    BY <1>6, <1>0 DEF AcquisitionFails, Shut, LinksTyped
  <2>3. CloseTyped'
    BY <1>6, <1>0 DEF AcquisitionFails, Shut, LinksTyped, CloseTyped
  <2>4. BootInOrder'
    BY <1>6, <1>0 DEF AcquisitionFails, Shut, LinksTyped, CloseTyped, BootInOrder, CloseInOrder
  <2>5. LinksInOrder'
    BY <1>6, <1>0 DEF AcquisitionFails, Shut, LinksTyped, CloseTyped, BootInOrder, LinksInOrder,
       CloseInOrder
  <2>6. CloseInOrder'
    BY <1>6, <1>0 DEF AcquisitionFails, Shut, LinksTyped, CloseTyped, BootInOrder, CloseInOrder
  <2>7. ClosedIsQuiet'
    BY <1>6, <1>0 DEF AcquisitionFails, Shut, BootInOrder, ClosedIsQuiet, CloseTyped
  <2> QED
    BY <2>1, <2>2, <2>3, <2>4, <2>5, <2>6, <2>7 DEF ResourcesInv
<1>7. ASSUME NEW r \in Rabbit, AcquisitionTimesOut(r) PROVE ResourcesInv'
  <2>1. ResourceFlags'
    BY <1>7, <1>0, Zenon DEF AcquisitionTimesOut, Abandon, Shut, ResourceFlags
  <2>2. LinksTyped'
    BY <1>7, <1>0 DEF AcquisitionTimesOut, Abandon, Shut, LinksTyped
  <2>3. CloseTyped'
    BY <1>7, <1>0 DEF AcquisitionTimesOut, Abandon, Shut, LinksTyped, CloseTyped
  <2>4. BootInOrder'
    BY <1>7, <1>0 DEF AcquisitionTimesOut, Abandon, Shut, LinksTyped, CloseTyped, BootInOrder,
       CloseInOrder
  <2>5. LinksInOrder'
    BY <1>7, <1>0 DEF AcquisitionTimesOut, Abandon, Shut, LinksTyped, CloseTyped, BootInOrder,
       LinksInOrder, CloseInOrder
  <2>6. CloseInOrder'
    BY <1>7, <1>0 DEF AcquisitionTimesOut, Abandon, Shut, LinksTyped, CloseTyped, BootInOrder,
       CloseInOrder
  <2>7. ClosedIsQuiet'
    BY <1>7, <1>0 DEF AcquisitionTimesOut, Abandon, Shut, BootInOrder, ClosedIsQuiet, CloseTyped
  <2> QED
    BY <2>1, <2>2, <2>3, <2>4, <2>5, <2>6, <2>7 DEF ResourcesInv
<1>8. CASE TransportFails
  <2>1. ResourceFlags'
    BY <1>8, <1>0, Zenon DEF TransportFails, Shut, ResourceFlags
  <2>2. LinksTyped'
    BY <1>8, <1>0 DEF TransportFails, Shut, LinksTyped
  <2>3. CloseTyped'
    BY <1>8, <1>0 DEF TransportFails, Shut, LinksTyped, CloseTyped
  <2>4. BootInOrder'
    BY <1>8, <1>0 DEF TransportFails, Shut, LinksTyped, CloseTyped, BootInOrder, CloseInOrder
  <2>5. LinksInOrder'
    BY <1>8, <1>0 DEF TransportFails, Shut, LinksTyped, CloseTyped, BootInOrder, LinksInOrder,
       CloseInOrder
  <2>6. CloseInOrder'
    BY <1>8, <1>0 DEF TransportFails, Shut, LinksTyped, CloseTyped, BootInOrder, CloseInOrder
  <2>7. ClosedIsQuiet'
    BY <1>8, <1>0 DEF TransportFails, Shut, BootInOrder, ClosedIsQuiet, CloseTyped
  <2> QED
    BY <2>1, <2>2, <2>3, <2>4, <2>5, <2>6, <2>7 DEF ResourcesInv
<1>9. CASE CleanupEnds
  <2>1. ResourceFlags'
    BY <1>9, <1>0, Zenon DEF CleanupEnds, ResourceFlags
  <2>2. LinksTyped'
    BY <1>9, <1>0 DEF CleanupEnds, LinksTyped
  <2>3. CloseTyped'
    BY <1>9, <1>0 DEF CleanupEnds, LinksTyped, CloseTyped
  <2>4. BootInOrder'
    BY <1>9, <1>0 DEF CleanupEnds, LinksTyped, CloseTyped, BootInOrder, CloseInOrder
  <2>5. LinksInOrder'
    BY <1>9, <1>0 DEF CleanupEnds, LinksTyped, CloseTyped, BootInOrder, LinksInOrder, CloseInOrder
  <2>6. CloseInOrder'
    BY <1>9, <1>0 DEF CleanupEnds, LinksTyped, CloseTyped, BootInOrder, CloseInOrder
  <2>7. ClosedIsQuiet'
    BY <1>9, <1>0 DEF CleanupEnds, BootInOrder, ClosedIsQuiet, CloseTyped
  <2> QED
    BY <2>1, <2>2, <2>3, <2>4, <2>5, <2>6, <2>7 DEF ResourcesInv
<1>10. ASSUME NEW r \in Rabbit, LinkLost(r) PROVE ResourcesInv'
  <2>1. ResourceFlags'
    BY <1>10, <1>0, Zenon DEF LinkLost, ResourceFlags
  <2>2. LinksTyped'
    BY <1>10, <1>0 DEF LinkLost, LinksTyped
  <2>3. CloseTyped'
    BY <1>10, <1>0 DEF LinkLost, LinksTyped, CloseTyped
  <2>4. BootInOrder'
    BY <1>10, <1>0 DEF LinkLost, LinksTyped, CloseTyped, BootInOrder, CloseInOrder
  <2>5. LinksInOrder'
    BY <1>10, <1>0 DEF LinkLost, LinksTyped, CloseTyped, BootInOrder, LinksInOrder, CloseInOrder
  <2>6. CloseInOrder'
    BY <1>10, <1>0 DEF LinkLost, LinksTyped, CloseTyped, BootInOrder, CloseInOrder
  <2>7. ClosedIsQuiet'
    BY <1>10, <1>0 DEF LinkLost, BootInOrder, ClosedIsQuiet, CloseTyped
  <2> QED
    BY <2>1, <2>2, <2>3, <2>4, <2>5, <2>6, <2>7 DEF ResourcesInv
<1>11. ASSUME NEW t \in Targets, CloseAnswers(t) PROVE ResourcesInv'
  <2>1. ResourceFlags'
    BY <1>11, <1>0, Zenon DEF CloseAnswers, CloseOutcomes, LinkAfterClose, Knows, ResourceFlags
  <2>2. LinksTyped'
    BY <1>11, <1>0 DEF CloseAnswers, CloseOutcomes, LinkAfterClose, Knows, LinksTyped
  <2>3. CloseTyped'
    BY <1>11, <1>0 DEF CloseAnswers, CloseOutcomes, LinkAfterClose, Knows, LinksTyped, CloseTyped
  <2>4. BootInOrder'
    BY <1>11, <1>0 DEF CloseAnswers, CloseOutcomes, LinkAfterClose, Knows, LinksTyped, CloseTyped,
       BootInOrder, CloseInOrder
  <2>5. LinksInOrder'
    BY <1>11, <1>0 DEF CloseAnswers, CloseOutcomes, LinkAfterClose, Knows, LinksTyped, CloseTyped,
       BootInOrder, LinksInOrder, CloseInOrder
  <2>6. CloseInOrder'
    BY <1>11, <1>0 DEF CloseAnswers, CloseOutcomes, LinkAfterClose, Knows, LinksTyped, CloseTyped,
       BootInOrder, CloseInOrder
  <2>7. ClosedIsQuiet'
    BY <1>11, <1>0 DEF CloseAnswers, CloseOutcomes, LinkAfterClose, Knows, BootInOrder,
       ClosedIsQuiet, CloseTyped
  <2> QED
    BY <2>1, <2>2, <2>3, <2>4, <2>5, <2>6, <2>7 DEF ResourcesInv
<1>12. ASSUME NEW r \in Rabbit, Gone(r) PROVE ResourcesInv'
  <2>1. ResourceFlags'
    BY <1>12, <1>0, Zenon DEF Gone, ResourceFlags
  <2>2. LinksTyped'
    BY <1>12, <1>0 DEF Gone, LinksTyped
  <2>3. CloseTyped'
    BY <1>12, <1>0 DEF Gone, LinksTyped, CloseTyped
  <2>4. BootInOrder'
    BY <1>12, <1>0 DEF Gone, LinksTyped, CloseTyped, BootInOrder, CloseInOrder
  <2>5. LinksInOrder'
    BY <1>12, <1>0 DEF Gone, LinksTyped, CloseTyped, BootInOrder, LinksInOrder, CloseInOrder
  <2>6. CloseInOrder'
    BY <1>12, <1>0 DEF Gone, LinksTyped, CloseTyped, BootInOrder, CloseInOrder
  <2>7. ClosedIsQuiet'
    BY <1>12, <1>0 DEF Gone, BootInOrder, ClosedIsQuiet, CloseTyped
  <2> QED
    BY <2>1, <2>2, <2>3, <2>4, <2>5, <2>6, <2>7 DEF ResourcesInv
<1>13. CASE DeliveriesEnd
  <2>1. ResourceFlags'
    BY <1>13, <1>0, Zenon DEF DeliveriesEnd, Shut, ResourceFlags
  <2>2. LinksTyped'
    BY <1>13, <1>0 DEF DeliveriesEnd, Shut, LinksTyped
  <2>3. CloseTyped'
    BY <1>13, <1>0 DEF DeliveriesEnd, Shut, LinksTyped, CloseTyped
  <2>4. BootInOrder'
    BY <1>13, <1>0 DEF DeliveriesEnd, Shut, LinksTyped, CloseTyped, BootInOrder, CloseInOrder
  <2>5. LinksInOrder'
    BY <1>13, <1>0 DEF DeliveriesEnd, Shut, LinksTyped, CloseTyped, BootInOrder, LinksInOrder,
       CloseInOrder
  <2>6. CloseInOrder'
    BY <1>13, <1>0 DEF DeliveriesEnd, Shut, LinksTyped, CloseTyped, BootInOrder, CloseInOrder
  <2>7. ClosedIsQuiet'
    BY <1>13, <1>0 DEF DeliveriesEnd, Shut, BootInOrder, ClosedIsQuiet, CloseTyped
  <2> QED
    BY <2>1, <2>2, <2>3, <2>4, <2>5, <2>6, <2>7 DEF ResourcesInv
<1>14. CASE DrainEnds
  <2>1. ResourceFlags'
    BY <1>14, <1>0, Zenon DEF DrainEnds, CloseOutcomes, LinkAfterClose, Knows, ResourceFlags
  <2>2. LinksTyped'
    BY <1>14, <1>0 DEF DrainEnds, CloseOutcomes, LinkAfterClose, Knows, LinksTyped
  <2>3. CloseTyped'
    BY <1>14, <1>0 DEF DrainEnds, CloseOutcomes, LinkAfterClose, Knows, LinksTyped, CloseTyped
  <2>4. BootInOrder'
    BY <1>14, <1>0 DEF DrainEnds, CloseOutcomes, LinkAfterClose, Knows, LinksTyped, CloseTyped,
       BootInOrder, CloseInOrder
  <2>5. LinksInOrder'
    BY <1>14, <1>0 DEF DrainEnds, CloseOutcomes, LinkAfterClose, Knows, LinksTyped, CloseTyped,
       BootInOrder, LinksInOrder, CloseInOrder
  <2>6. CloseInOrder'
    BY <1>14, <1>0 DEF DrainEnds, CloseOutcomes, LinkAfterClose, Knows, LinksTyped, CloseTyped,
       BootInOrder, CloseInOrder
  <2>7. ClosedIsQuiet'
    BY <1>14, <1>0 DEF DrainEnds, CloseOutcomes, LinkAfterClose, Knows, BootInOrder, ClosedIsQuiet,
       CloseTyped
  <2> QED
    BY <2>1, <2>2, <2>3, <2>4, <2>5, <2>6, <2>7 DEF ResourcesInv
<1>15. ASSUME NEW c \in Closers, CloseTimesOut(c) PROVE ResourcesInv'
  <2>1. ResourceFlags'
    BY <1>15, <1>0, Zenon DEF CloseTimesOut, Shut, Pending, ResourceFlags
  <2>2. LinksTyped'
    BY <1>15, <1>0 DEF CloseTimesOut, Shut, Pending, LinksTyped
  <2>3. CloseTyped'
    BY <1>15, <1>0 DEF CloseTimesOut, Shut, Pending, LinksTyped, CloseTyped
  <2>4. BootInOrder'
    BY <1>15, <1>0 DEF CloseTimesOut, Shut, Pending, LinksTyped, CloseTyped, BootInOrder,
       CloseInOrder
  <2>5. LinksInOrder'
    BY <1>15, <1>0 DEF CloseTimesOut, Shut, Pending, LinksTyped, CloseTyped, BootInOrder,
       LinksInOrder, CloseInOrder
  <2>6. CloseInOrder'
    BY <1>15, <1>0 DEF CloseTimesOut, Shut, Pending, LinksTyped, CloseTyped, BootInOrder,
       CloseInOrder
  <2>7. ClosedIsQuiet'
    BY <1>15, <1>0 DEF CloseTimesOut, Shut, Pending, BootInOrder, ClosedIsQuiet, CloseTyped
  <2> QED
    BY <2>1, <2>2, <2>3, <2>4, <2>5, <2>6, <2>7 DEF ResourcesInv
<1>16. CASE CloseSettles
  <2>1. ResourceFlags'
    BY <1>16, <1>0, <1>n, <1>m, Zenon DEF CloseSettles, Pending, ResourceFlags
  <2>2. LinksTyped'
    BY <1>16, <1>0, <1>n, <1>m DEF CloseSettles, Pending, LinksTyped
  <2>3. CloseTyped'
    BY <1>16, <1>0, <1>n, <1>m DEF CloseSettles, Pending, LinksTyped, CloseTyped
  <2>4. BootInOrder'
    BY <1>16, <1>0, <1>n, <1>m DEF CloseSettles, Pending, LinksTyped, CloseTyped, BootInOrder,
       CloseInOrder
  <2>5. LinksInOrder'
    BY <1>16, <1>0, <1>n, <1>m DEF CloseSettles, Pending, LinksTyped, CloseTyped, BootInOrder,
       LinksInOrder, CloseInOrder
  <2>6. CloseInOrder'
    <3>1. /\ closers' = {} /\ closing' = NothingClosing
          /\ closeTargets' = {t \in Targets : closing[t] = "failed"}
          /\ closeConfirmed' = (closeTargets' = {})
          /\ UNCHANGED <<drain, resourcesClosed, ended>>
      BY <1>16 DEF CloseSettles
    <3>2. /\ \A t \in Targets : closing[t] # "pending"
          /\ ~\A t \in Targets : closing[t] = "idle"
      BY <1>16, <1>n DEF CloseSettles, Pending
    <3>3. resourcesClosed' /\ \A t \in Targets : closing'[t] = "idle"
      BY <3>1, <3>2, <1>0 DEF CloseInOrder, NothingClosing
    <3>4. \A t \in Targets : t \notin closeTargets' => t \in ended'
      BY <3>1, <3>2, <1>0 DEF CloseInOrder, CloseTyped
    <3>5. \A t \in ended' \ {"consumer"} : t \notin closeTargets'
      BY <3>1, <1>0 DEF CloseInOrder, CloseTyped
    <3> QED
      BY <3>1, <3>3, <3>4, <3>5, <1>0 DEF CloseInOrder, CloseTyped
  <2>7. ClosedIsQuiet'
    BY <1>16, <1>0, <1>n, <1>m DEF CloseSettles, Pending, BootInOrder, ClosedIsQuiet, CloseTyped
  <2> QED
    BY <2>1, <2>2, <2>3, <2>4, <2>5, <2>6, <2>7 DEF ResourcesInv
<1>17. CASE CheckFails
  <2>1. ResourceFlags'
    BY <1>17, <1>0, Zenon DEF ResourceFlags, CheckFails, CloseResources, Begins, Drains,
       StopDatabaseProbes
  <2>2. CASE /\ boot \in {"role", "schema", "health"} /\ boot' = "closing"
          /\ CloseResources("bootstrap") /\ UNCHANGED abandoned
    <3>1. CallOfClose /\ CloseTyped' /\ CloseInOrder' /\ ClosedIsQuiet'
      BY <2>2, <1>0, ClosesInOrder
    <3>2. LinksTyped'
      BY <2>2, <3>1, <1>0 DEF LinksTyped, CallOfClose
    <3>3. BootInOrder'
      BY <2>2, <3>1, <1>0 DEF BootInOrder, CallOfClose
    <3>4. LinksInOrder'
      BY <2>2, <3>1, <1>0 DEF LinksTyped, LinksInOrder, BootInOrder, CallOfClose
    <3> QED
      BY <2>1, <3>1, <3>2, <3>3, <3>4 DEF ResourcesInv
  <2> QED
    BY <1>17, <2>2 DEF CheckFails
<1>18. CASE TransportReady
  <2>1. ResourceFlags'
    BY <1>18, <1>0, Zenon DEF ResourceFlags, TransportReady, CloseResources, Begins, Drains,
       StopDatabaseProbes
  <2>2. CASE /\ boot = "transport" /\ boot' = "closing"
          /\ CloseResources("bootstrap") /\ UNCHANGED abandoned
    <3>1. CallOfClose /\ CloseTyped' /\ CloseInOrder' /\ ClosedIsQuiet'
      BY <2>2, <1>0, ClosesInOrder
    <3>2. LinksTyped'
      BY <2>2, <3>1, <1>0 DEF LinksTyped, CallOfClose
    <3>3. BootInOrder'
      BY <2>2, <3>1, <1>0 DEF BootInOrder, CallOfClose
    <3>4. LinksInOrder'
      BY <2>2, <3>1, <1>0 DEF LinksTyped, LinksInOrder, BootInOrder, CallOfClose
    <3> QED
      BY <2>1, <3>1, <3>2, <3>3, <3>4 DEF ResourcesInv
  <2>3. CASE boot = "transport" /\ boot' = "role" /\ UNCHANGED <<link, drain, closeVars, probeVars, abandoned>>
    <3>1. LinksTyped'
      BY <2>3, <1>0 DEF LinksTyped, Abandon, Shut
    <3>2. CloseTyped'
      BY <2>3, <1>0 DEF LinksTyped, CloseTyped, Abandon, Shut
    <3>3. BootInOrder'
      BY <2>3, <1>0 DEF LinksTyped, CloseTyped, BootInOrder, CloseInOrder, Abandon, Shut
    <3>4. LinksInOrder'
      BY <2>3, <1>0 DEF LinksTyped, CloseTyped, BootInOrder, LinksInOrder, CloseInOrder, Abandon,
         Shut
    <3>5. CloseInOrder'
      BY <2>3, <1>0 DEF LinksTyped, CloseTyped, BootInOrder, CloseInOrder, Abandon, Shut
    <3>6. ClosedIsQuiet'
      BY <2>3, <1>0 DEF BootInOrder, ClosedIsQuiet, CloseTyped, Abandon, Shut
    <3> QED
      BY <2>1, <3>1, <3>2, <3>3, <3>4, <3>5, <3>6 DEF ResourcesInv
  <2> QED
    BY <1>18, <2>2, <2>3 DEF TransportReady
<1>19. CASE CheckPasses
  <2>1. ResourceFlags'
    BY <1>19, <1>0, Zenon DEF CheckPasses, ResourceFlags
  <2>2. LinksTyped'
    BY <1>19, <1>0 DEF CheckPasses, LinksTyped
  <2>3. CloseTyped'
    BY <1>19, <1>0 DEF CheckPasses, LinksTyped, CloseTyped
  <2>4. BootInOrder'
    BY <1>19, <1>0 DEF CheckPasses, LinksTyped, CloseTyped, BootInOrder, CloseInOrder
  <2>5. LinksInOrder'
    BY <1>19, <1>0 DEF CheckPasses, LinksTyped, CloseTyped, BootInOrder, LinksInOrder, CloseInOrder
  <2>6. CloseInOrder'
    BY <1>19, <1>0 DEF CheckPasses, LinksTyped, CloseTyped, BootInOrder, CloseInOrder
  <2>7. ClosedIsQuiet'
    BY <1>19, <1>0 DEF CheckPasses, BootInOrder, ClosedIsQuiet, CloseTyped
  <2> QED
    BY <2>1, <2>2, <2>3, <2>4, <2>5, <2>6, <2>7 DEF ResourcesInv
<1>20. CASE Interrupt
  <2>1. ResourceFlags'
    BY <1>20, <1>0, Zenon DEF ResourceFlags, Interrupt, CloseResources, Begins, Drains,
       StopDatabaseProbes, Abandon
  <2>2. CASE /\ boot \in {"role", "schema", "health"} /\ boot' = "closing"
          /\ CloseResources("bootstrap") /\ UNCHANGED abandoned
    <3>1. CallOfClose /\ CloseTyped' /\ CloseInOrder' /\ ClosedIsQuiet'
      BY <2>2, <1>0, ClosesInOrder
    <3>2. LinksTyped'
      BY <2>2, <3>1, <1>0 DEF LinksTyped, CallOfClose
    <3>3. BootInOrder'
      BY <2>2, <3>1, <1>0 DEF BootInOrder, CallOfClose
    <3>4. LinksInOrder'
      BY <2>2, <3>1, <1>0 DEF LinksTyped, LinksInOrder, BootInOrder, CallOfClose
    <3> QED
      BY <2>1, <3>1, <3>2, <3>3, <3>4 DEF ResourcesInv
  <2>3. CASE boot \in Rabbit /\ Abandon(boot)
    <3>1. LinksTyped'
      BY <2>3, <1>0 DEF LinksTyped, Abandon, Shut
    <3>2. CloseTyped'
      BY <2>3, <1>0 DEF LinksTyped, CloseTyped, Abandon, Shut
    <3>3. BootInOrder'
      BY <2>3, <1>0 DEF LinksTyped, CloseTyped, BootInOrder, CloseInOrder, Abandon, Shut
    <3>4. LinksInOrder'
      BY <2>3, <1>0 DEF LinksTyped, CloseTyped, BootInOrder, LinksInOrder, CloseInOrder, Abandon,
         Shut
    <3>5. CloseInOrder'
      BY <2>3, <1>0 DEF LinksTyped, CloseTyped, BootInOrder, CloseInOrder, Abandon, Shut
    <3>6. ClosedIsQuiet'
      BY <2>3, <1>0 DEF BootInOrder, ClosedIsQuiet, CloseTyped, Abandon, Shut
    <3> QED
      BY <2>1, <3>1, <3>2, <3>3, <3>4, <3>5, <3>6 DEF ResourcesInv
  <2>4. CASE boot = "transport" /\ UNCHANGED boot /\ UNCHANGED <<link, drain, closeVars, probeVars, abandoned>>
    <3>1. LinksTyped'
      BY <2>4, <1>0 DEF LinksTyped, Abandon, Shut
    <3>2. CloseTyped'
      BY <2>4, <1>0 DEF LinksTyped, CloseTyped, Abandon, Shut
    <3>3. BootInOrder'
      BY <2>4, <1>0 DEF LinksTyped, CloseTyped, BootInOrder, CloseInOrder, Abandon, Shut
    <3>4. LinksInOrder'
      BY <2>4, <1>0 DEF LinksTyped, CloseTyped, BootInOrder, LinksInOrder, CloseInOrder, Abandon,
         Shut
    <3>5. CloseInOrder'
      BY <2>4, <1>0 DEF LinksTyped, CloseTyped, BootInOrder, CloseInOrder, Abandon, Shut
    <3>6. ClosedIsQuiet'
      BY <2>4, <1>0 DEF BootInOrder, ClosedIsQuiet, CloseTyped, Abandon, Shut
    <3> QED
      BY <2>1, <3>1, <3>2, <3>3, <3>4, <3>5, <3>6 DEF ResourcesInv
  <2> QED
    BY <1>20, <2>2, <2>3, <2>4 DEF Interrupt
<1>21. CASE ProbeDue
  <2>1. ResourceFlags'
    BY <1>21, <1>0, Zenon DEF ProbeDue, ResourceFlags
  <2>2. LinksTyped'
    BY <1>21, <1>0 DEF ProbeDue, LinksTyped
  <2>3. CloseTyped'
    BY <1>21, <1>0 DEF ProbeDue, LinksTyped, CloseTyped
  <2>4. BootInOrder'
    BY <1>21, <1>0 DEF ProbeDue, LinksTyped, CloseTyped, BootInOrder, CloseInOrder
  <2>5. LinksInOrder'
    BY <1>21, <1>0 DEF ProbeDue, LinksTyped, CloseTyped, BootInOrder, LinksInOrder, CloseInOrder
  <2>6. CloseInOrder'
    BY <1>21, <1>0 DEF ProbeDue, LinksTyped, CloseTyped, BootInOrder, CloseInOrder
  <2>7. ClosedIsQuiet'
    BY <1>21, <1>0 DEF ProbeDue, BootInOrder, ClosedIsQuiet, CloseTyped
  <2> QED
    BY <2>1, <2>2, <2>3, <2>4, <2>5, <2>6, <2>7 DEF ResourcesInv
<1>22. CASE ProbeAnswers
  <2>1. ResourceFlags'
    BY <1>22, <1>0, Zenon DEF ProbeAnswers, ResourceFlags
  <2>2. LinksTyped'
    BY <1>22, <1>0 DEF ProbeAnswers, LinksTyped
  <2>3. CloseTyped'
    BY <1>22, <1>0 DEF ProbeAnswers, LinksTyped, CloseTyped
  <2>4. BootInOrder'
    BY <1>22, <1>0 DEF ProbeAnswers, LinksTyped, CloseTyped, BootInOrder, CloseInOrder
  <2>5. LinksInOrder'
    BY <1>22, <1>0 DEF ProbeAnswers, LinksTyped, CloseTyped, BootInOrder, LinksInOrder, CloseInOrder
  <2>6. CloseInOrder'
    BY <1>22, <1>0 DEF ProbeAnswers, LinksTyped, CloseTyped, BootInOrder, CloseInOrder
  <2>7. ClosedIsQuiet'
    BY <1>22, <1>0 DEF ProbeAnswers, BootInOrder, ClosedIsQuiet, CloseTyped
  <2> QED
    BY <2>1, <2>2, <2>3, <2>4, <2>5, <2>6, <2>7 DEF ResourcesInv
<1>23. CASE ProbeTimesOut
  <2>1. ResourceFlags'
    BY <1>23, <1>0, Zenon DEF ProbeTimesOut, ResourceFlags
  <2>2. LinksTyped'
    BY <1>23, <1>0 DEF ProbeTimesOut, LinksTyped
  <2>3. CloseTyped'
    BY <1>23, <1>0 DEF ProbeTimesOut, LinksTyped, CloseTyped
  <2>4. BootInOrder'
    BY <1>23, <1>0 DEF ProbeTimesOut, LinksTyped, CloseTyped, BootInOrder, CloseInOrder
  <2>5. LinksInOrder'
    BY <1>23, <1>0 DEF ProbeTimesOut, LinksTyped, CloseTyped, BootInOrder, LinksInOrder,
       CloseInOrder
  <2>6. CloseInOrder'
    BY <1>23, <1>0 DEF ProbeTimesOut, LinksTyped, CloseTyped, BootInOrder, CloseInOrder
  <2>7. ClosedIsQuiet'
    BY <1>23, <1>0 DEF ProbeTimesOut, BootInOrder, ClosedIsQuiet, CloseTyped
  <2> QED
    BY <2>1, <2>2, <2>3, <2>4, <2>5, <2>6, <2>7 DEF ResourcesInv
<1>24. CASE LateAnswer
  <2>1. ResourceFlags'
    BY <1>24, <1>0, Zenon DEF LateAnswer, ResourceFlags
  <2>2. LinksTyped'
    BY <1>24, <1>0 DEF LateAnswer, LinksTyped
  <2>3. CloseTyped'
    BY <1>24, <1>0 DEF LateAnswer, LinksTyped, CloseTyped
  <2>4. BootInOrder'
    BY <1>24, <1>0 DEF LateAnswer, LinksTyped, CloseTyped, BootInOrder, CloseInOrder
  <2>5. LinksInOrder'
    BY <1>24, <1>0 DEF LateAnswer, LinksTyped, CloseTyped, BootInOrder, LinksInOrder, CloseInOrder
  <2>6. CloseInOrder'
    BY <1>24, <1>0 DEF LateAnswer, LinksTyped, CloseTyped, BootInOrder, CloseInOrder
  <2>7. ClosedIsQuiet'
    BY <1>24, <1>0 DEF LateAnswer, BootInOrder, ClosedIsQuiet, CloseTyped
  <2> QED
    BY <2>1, <2>2, <2>3, <2>4, <2>5, <2>6, <2>7 DEF ResourcesInv
<1>25. CASE Started
  <2>1. ResourceFlags'
    BY <1>25, <1>0, Zenon DEF Started, ResourceFlags
  <2>2. LinksTyped'
    BY <1>25, <1>0 DEF Started, LinksTyped
  <2>3. CloseTyped'
    BY <1>25, <1>0 DEF Started, LinksTyped, CloseTyped
  <2>4. BootInOrder'
    BY <1>25, <1>0 DEF Started, LinksTyped, CloseTyped, BootInOrder, CloseInOrder
  <2>5. LinksInOrder'
    BY <1>25, <1>0 DEF Started, LinksTyped, CloseTyped, BootInOrder, LinksInOrder, CloseInOrder
  <2>6. CloseInOrder'
    BY <1>25, <1>0 DEF Started, LinksTyped, CloseTyped, BootInOrder, CloseInOrder
  <2>7. ClosedIsQuiet'
    BY <1>25, <1>0 DEF Started, BootInOrder, ClosedIsQuiet, CloseTyped
  <2> QED
    BY <2>1, <2>2, <2>3, <2>4, <2>5, <2>6, <2>7 DEF ResourcesInv
<1>26. CASE ApplicationStartFails
  <2>1. ResourceFlags'
    BY <1>26, <1>0, Zenon DEF ResourceFlags, ApplicationStartFails, CloseResources, Begins, Drains,
       StopDatabaseProbes
  <2>2. CASE /\ boot = "starting" /\ boot' = "failing"
          /\ CloseResources("app") /\ UNCHANGED abandoned
    <3>1. CallOfClose /\ CloseTyped' /\ CloseInOrder' /\ ClosedIsQuiet'
      BY <2>2, <1>0, ClosesInOrder
    <3>2. LinksTyped'
      BY <2>2, <3>1, <1>0 DEF LinksTyped, CallOfClose
    <3>3. BootInOrder'
      BY <2>2, <3>1, <1>0 DEF BootInOrder, CallOfClose
    <3>4. LinksInOrder'
      BY <2>2, <3>1, <1>0 DEF LinksTyped, LinksInOrder, BootInOrder, CallOfClose
    <3> QED
      BY <2>1, <3>1, <3>2, <3>3, <3>4 DEF ResourcesInv
  <2> QED
    BY <1>26, <2>2 DEF ApplicationStartFails
<1>27. CASE StopBegun
  <2>1. ResourceFlags'
    BY <1>27, <1>0, Zenon DEF StopBegun, Drains, ResourceFlags
  <2>2. LinksTyped'
    BY <1>27, <1>0 DEF StopBegun, Drains, LinksTyped
  <2>3. CloseTyped'
    BY <1>27, <1>0 DEF StopBegun, Drains, LinksTyped, CloseTyped
  <2>4. BootInOrder'
    BY <1>27, <1>0 DEF StopBegun, Drains, LinksTyped, CloseTyped, BootInOrder, CloseInOrder
  <2>5. LinksInOrder'
    BY <1>27, <1>0 DEF StopBegun, Drains, LinksTyped, CloseTyped, BootInOrder, LinksInOrder,
       CloseInOrder
  <2>6. CloseInOrder'
    BY <1>27, <1>0 DEF StopBegun, Drains, LinksTyped, CloseTyped, BootInOrder, CloseInOrder
  <2>7. ClosedIsQuiet'
    BY <1>27, <1>0 DEF StopBegun, Drains, BootInOrder, ClosedIsQuiet, CloseTyped
  <2> QED
    BY <2>1, <2>2, <2>3, <2>4, <2>5, <2>6, <2>7 DEF ResourcesInv
<1>28. CASE WorkloadEnds
  <2>1. ResourceFlags'
    BY <1>28, <1>0, Zenon DEF ResourceFlags, WorkloadEnds, CloseResources, Begins, Drains,
       StopDatabaseProbes
  <2>2. CASE /\ boot = "stopping" /\ boot' = "stopped"
          /\ CloseResources("app") /\ UNCHANGED abandoned
    <3>1. CallOfClose /\ CloseTyped' /\ CloseInOrder' /\ ClosedIsQuiet'
      BY <2>2, <1>0, ClosesInOrder
    <3>2. LinksTyped'
      BY <2>2, <3>1, <1>0 DEF LinksTyped, CallOfClose
    <3>3. BootInOrder'
      BY <2>2, <3>1, <1>0 DEF BootInOrder, CallOfClose
    <3>4. LinksInOrder'
      BY <2>2, <3>1, <1>0 DEF LinksTyped, LinksInOrder, BootInOrder, CallOfClose
    <3> QED
      BY <2>1, <3>1, <3>2, <3>3, <3>4 DEF ResourcesInv
  <2> QED
    BY <1>28, <2>2 DEF WorkloadEnds
<1>29. CASE AppEnds
  <2>1. ResourceFlags'
    BY <1>29, <1>0, Zenon DEF ResourceFlags, AppEnds, CloseResources, Begins, Drains,
       StopDatabaseProbes
  <2>2. CASE /\ boot = "failing" /\ boot' = "closing"
          /\ CloseResources("bootstrap") /\ UNCHANGED abandoned
    <3>1. CallOfClose /\ CloseTyped' /\ CloseInOrder' /\ ClosedIsQuiet'
      BY <2>2, <1>0, ClosesInOrder
    <3>2. LinksTyped'
      BY <2>2, <3>1, <1>0 DEF LinksTyped, CallOfClose
    <3>3. BootInOrder'
      BY <2>2, <3>1, <1>0 DEF BootInOrder, CallOfClose
    <3>4. LinksInOrder'
      BY <2>2, <3>1, <1>0 DEF LinksTyped, LinksInOrder, BootInOrder, CallOfClose
    <3> QED
      BY <2>1, <3>1, <3>2, <3>3, <3>4 DEF ResourcesInv
  <2>3. CASE boot \in {"stopped", "failing"} /\ boot' = "returned" /\ UNCHANGED <<link, drain, closeVars, probeVars, abandoned>>
    <3>1. LinksTyped'
      BY <2>3, <1>0 DEF LinksTyped, Abandon, Shut
    <3>2. CloseTyped'
      BY <2>3, <1>0 DEF LinksTyped, CloseTyped, Abandon, Shut
    <3>3. BootInOrder'
      BY <2>3, <1>0 DEF LinksTyped, CloseTyped, BootInOrder, CloseInOrder, Abandon, Shut
    <3>4. LinksInOrder'
      BY <2>3, <1>0 DEF LinksTyped, CloseTyped, BootInOrder, LinksInOrder, CloseInOrder, Abandon,
         Shut
    <3>5. CloseInOrder'
      BY <2>3, <1>0 DEF LinksTyped, CloseTyped, BootInOrder, CloseInOrder, Abandon, Shut
    <3>6. ClosedIsQuiet'
      BY <2>3, <1>0 DEF BootInOrder, ClosedIsQuiet, CloseTyped, Abandon, Shut
    <3> QED
      BY <2>1, <3>1, <3>2, <3>3, <3>4, <3>5, <3>6 DEF ResourcesInv
  <2> QED
    BY <1>29, <2>2, <2>3 DEF AppEnds
<1>30. CASE BootstrapReturns
  <2>1. ResourceFlags'
    BY <1>30, <1>0, Zenon DEF BootstrapReturns, ResourceFlags
  <2>2. LinksTyped'
    BY <1>30, <1>0 DEF BootstrapReturns, LinksTyped
  <2>3. CloseTyped'
    BY <1>30, <1>0 DEF BootstrapReturns, LinksTyped, CloseTyped
  <2>4. BootInOrder'
    BY <1>30, <1>0 DEF BootstrapReturns, LinksTyped, CloseTyped, BootInOrder, CloseInOrder
  <2>5. LinksInOrder'
    BY <1>30, <1>0 DEF BootstrapReturns, LinksTyped, CloseTyped, BootInOrder, LinksInOrder,
       CloseInOrder
  <2>6. CloseInOrder'
    BY <1>30, <1>0 DEF BootstrapReturns, LinksTyped, CloseTyped, BootInOrder, CloseInOrder
  <2>7. ClosedIsQuiet'
    BY <1>30, <1>0 DEF BootstrapReturns, BootInOrder, ClosedIsQuiet, CloseTyped
  <2> QED
    BY <2>1, <2>2, <2>3, <2>4, <2>5, <2>6, <2>7 DEF ResourcesInv
<1> QED
  BY <1>1, <1>2, <1>3, <1>4, <1>5, <1>6, <1>7, <1>8, <1>9, <1>10, <1>11, <1>12, <1>13, <1>14, <1>15,
     <1>16, <1>17, <1>18, <1>19, <1>20, <1>21, <1>22, <1>23, <1>24, <1>25, <1>26, <1>27, <1>28,
     <1>29, <1>30
     DEF ResourcesNext, BootstrapGoesOn, CloseGoesOn, ResourceAnswers

LEMMA ResourcesMean ==
  ResourcesInv => ResourcesTypeOK /\ NoConnectionIsOrphaned /\ ClosedIsClosedOnce /\ ClosedIsQuiet
<1> SUFFICES ASSUME ResourcesInv PROVE ResourcesTypeOK /\ NoConnectionIsOrphaned /\ ClosedIsClosedOnce
  BY DEF ResourcesInv
<1>1. ResourcesTypeOK
  BY DEF ResourcesInv, ResourcesTypeOK, ResourceFlags, LinksTyped, CloseTyped
<1>2. NoConnectionIsOrphaned
  BY DEF ResourcesInv, LinksTyped, LinksInOrder, NoConnectionIsOrphaned, Rabbit
<1>3. ClosedIsClosedOnce
  BY DEF ResourcesInv, CloseTyped, CloseInOrder, ClosedIsClosedOnce
<1> QED
  BY <1>1, <1>2, <1>3

(* No connection to RabbitMQ is left without one who closes it, none is    *)
(* closed a second time, and what is closed asks nothing any more.         *)
THEOREM ConnectionsAreClosed ==
  ResourcesSpec => [](NoConnectionIsOrphaned /\ ClosedIsClosedOnce /\ ClosedIsQuiet)
<1> QED
  BY ResourcesStart, ResourcesGoOn, ResourcesMean, PTL DEF ResourcesSpec

-----------------------------------------------------------------------------
(* The consumer adapter: what it registered it takes back.                 *)

AcquisitionTyped == acquisition \in [stopping : BOOLEAN, aborted : BOOLEAN] /\ channelOpen \in BOOLEAN
ConsumersTyped ==
  /\ run \in {"idle", "register", "completion", "ended"}
  /\ todo \subseteq Bindings /\ registering \in Bindings \cup {"none"}
  /\ consumers \subseteq Bindings /\ cancelling \subseteq Bindings /\ atBroker \subseteq Bindings
DeliveriesTyped ==
  /\ delivery \in [Deliveries ->
       {"none", "waiting", "woken", "rejected", "active", "done", "failed"}]
  /\ snapshot \in [Deliveries -> SUBSET Deliveries]
  /\ inFlight \subseteq Deliveries

(* A consumer at the broker is known, or its tag or the answer to its      *)
(* cancel is still to come.                                                *)
ConsumersAreKnown ==
  /\ atBroker \subseteq consumers \cup cancelling \cup {registering}
  /\ run # "register" => registering = "none"
  /\ ~channelOpen => atBroker = {}
  /\ stop.stage # "none" => Stopping /\ consumers = {}

(* In flight is what has been delivered and has not settled, and a stop    *)
(* knows all of it.                                                        *)
Accepted(d) == delivery[d] \in {"waiting", "woken", "rejected", "active"}
DeliveriesAreInFlight ==
  /\ \A d \in Deliveries : Accepted(d) <=> d \in inFlight
  /\ stop.stage = "drain" => inFlight \subseteq stop.on
  /\ stop.stage = "closed" => inFlight = {}
StopTyped ==
  /\ stop = [stage |-> stop.stage, on |-> stop.on]
  /\ stop.stage \in {"none", "cancel", "drain", "closed", "failed"}

AdapterInv ==
  /\ AcquisitionTyped /\ ConsumersTyped /\ DeliveriesTyped /\ StopTyped
  /\ ConsumersAreKnown /\ DeliveriesAreInFlight /\ WaitersAreWoken

LEMMA ActiveIsFinite == IsFiniteSet(Active) /\ Cardinality(Active) \in Nat
<1>1. Active \subseteq Deliveries
  BY DEF Active
<1> QED
  BY <1>1, AdapterAssumption, FS_Subset, FS_CardinalityType

LEMMA AdapterStarts == AdapterInit => AdapterInv
<1> SUFFICES ASSUME AdapterInit PROVE AdapterInv
  OBVIOUS
<1>1. AcquisitionTyped
  BY DEF AdapterInit, AcquisitionTyped
<1>2. ConsumersTyped /\ DeliveriesTyped /\ StopTyped
  BY DEF AdapterInit, ConsumersTyped, DeliveriesTyped, StopTyped, NotStopping
<1>3. ConsumersAreKnown /\ DeliveriesAreInFlight
  BY DEF AdapterInit, ConsumersAreKnown, DeliveriesAreInFlight, Accepted, NotStopping
<1>4. Active = {}
  BY DEF AdapterInit, Active
<1>5. WaitersAreWoken
  BY <1>4, FS_EmptySet, AdapterAssumption DEF AdapterInit, WaitersAreWoken
<1> QED
  BY <1>1, <1>2, <1>3, <1>5 DEF AdapterInv

(* Who was handed a delivery is waiting only for one that is active.       *)
LEMMA RacesAreWon ==
  ASSUME DeliveriesTyped, DeliveriesAreInFlight, WaitersAreWoken,
         NEW d \in Deliveries, delivery[d] \in {"none", "woken"}, Race(d)
  PROVE  /\ DeliveriesTyped' /\ WaitersAreWoken'
         /\ \A e \in Deliveries : Accepted(e)' <=> e \in inFlight'
         /\ inFlight' \subseteq inFlight \cup {d}
         /\ Stopping => d \notin inFlight'
<1>1. Slot(d) \in {"done", "waiting", "active"}
  BY DEF Slot
<1>2. d \notin Active
  BY DEF Active
<1>3. \A e \in Deliveries : delivery'[e] = IF e = d THEN Slot(d)
                              ELSE IF Slot(d) = "done" /\ e \in Waiters(d) THEN "woken" ELSE delivery[e]
  BY DEF Race
<1>4. DeliveriesTyped'
  <2>1. delivery' \in [Deliveries -> {"none", "waiting", "woken", "rejected", "active", "done", "failed"}]
    BY <1>1 DEF Race, DeliveriesTyped
  <2> QED
    BY <2>1 DEF Race, DeliveriesTyped
<1>5. \A e \in Deliveries : Accepted(e)' <=> e \in inFlight'
  BY <1>1, <1>3 DEF Race, DeliveriesAreInFlight, Accepted, Waiters
<1>6. inFlight' \subseteq inFlight \cup {d} /\ (Stopping => d \notin inFlight')
  BY DEF Race, Slot
<1>7. Active' = IF Slot(d) = "active" THEN Active \cup {d} ELSE Active
  BY <1>1, <1>2, <1>3 DEF Active, Waiters
<1>8. Cardinality(Active') <= Concurrency
  <2>1. CASE Slot(d) = "active"
    <3>1. Cardinality(Active) < Concurrency
      BY <2>1, ActiveIsFinite, AdapterAssumption DEF Slot
    <3>2. Cardinality(Active \cup {d}) = Cardinality(Active) + 1
      BY <1>2, ActiveIsFinite, FS_AddElement
    <3> QED
      BY <2>1, <1>7, <3>1, <3>2, ActiveIsFinite, AdapterAssumption
  <2>2. CASE Slot(d) # "active"
    BY <2>2, <1>7 DEF WaitersAreWoken
  <2> QED
    BY <2>1, <2>2
<1>9. ASSUME NEW e \in Deliveries, delivery'[e] = "waiting" PROVE snapshot'[e] \cap Active' # {}
  <2>1. Active \subseteq Active'
    BY <1>7
  <2>2. CASE e = d
    <3>1. Slot(d) = "waiting"
      BY <2>2, <1>3, <1>9
    <3>2. Cardinality(Active) >= Concurrency
      BY <3>1 DEF Slot
    <3>3. Active # {}
      BY <3>2, FS_EmptySet, AdapterAssumption
    <3>4. Active \subseteq inFlight
      BY DEF Active, DeliveriesAreInFlight, Accepted
    <3>5. snapshot'[e] = inFlight
      BY <2>2 DEF Race, DeliveriesTyped
    <3> QED
      BY <2>1, <3>3, <3>4, <3>5
  <2>3. CASE e # d
    <3>1. delivery[e] = "waiting" /\ snapshot'[e] = snapshot[e]
      BY <2>3, <1>3, <1>9 DEF Race, DeliveriesTyped
    <3> QED
      BY <2>1, <3>1 DEF WaitersAreWoken
  <2> QED
    BY <2>2, <2>3
<1> QED
  BY <1>4, <1>5, <1>6, <1>8, <1>9 DEF WaitersAreWoken

(* Whoever raced for a delivery that ends is told.                         *)
LEMMA EndsAreHeard ==
  ASSUME DeliveriesTyped, DeliveriesAreInFlight, WaitersAreWoken,
         NEW d \in Deliveries, Accepted(d), NEW to \in {"done", "failed"},
         NEW told \in {"woken", "rejected"},
         delivery' = [e \in Deliveries |-> IF e = d THEN to
                                           ELSE IF e \in Waiters(d) THEN told ELSE delivery[e]],
         inFlight' = inFlight \ {d}, UNCHANGED snapshot
  PROVE  /\ DeliveriesTyped' /\ WaitersAreWoken'
         /\ \A e \in Deliveries : Accepted(e)' <=> e \in inFlight'
<1>1. DeliveriesTyped'
  BY DEF DeliveriesTyped
<1>2. \A e \in Deliveries : Accepted(e)' <=> e \in inFlight'
  BY DEF DeliveriesAreInFlight, Accepted, Waiters
<1>3. Active' = Active \ {d}
  BY DEF Active, Waiters
<1>4. Cardinality(Active') <= Concurrency
  <2>1. IsFiniteSet(Active') /\ Cardinality(Active') <= Cardinality(Active)
    BY <1>3, ActiveIsFinite, FS_Subset
  <2>2. Cardinality(Active') \in Nat
    BY <2>1, FS_CardinalityType
  <2> QED
    BY <2>1, <2>2, ActiveIsFinite, AdapterAssumption DEF WaitersAreWoken
<1>5. ASSUME NEW e \in Deliveries, delivery'[e] = "waiting" PROVE snapshot'[e] \cap Active' # {}
  <2>1. e # d /\ delivery[e] = "waiting" /\ d \notin snapshot[e]
    BY <1>5 DEF Waiters
  <2> QED
    BY <2>1, <1>3 DEF WaitersAreWoken
<1> QED
  BY <1>1, <1>2, <1>4, <1>5 DEF WaitersAreWoken

(* What a step leaves alone.                                               *)
LEMMA DeliveriesRest ==
  ASSUME DeliveriesTyped, WaitersAreWoken, \A d \in Deliveries : Accepted(d) <=> d \in inFlight,
         UNCHANGED deliveryVars
  PROVE  DeliveriesTyped' /\ WaitersAreWoken' /\ \A d \in Deliveries : Accepted(d)' <=> d \in inFlight'
BY DEF DeliveriesTyped, WaitersAreWoken, Active, Accepted, deliveryVars

LEMMA AdapterGoesOn == AdapterInv /\ [AdapterNext]_adapterVars => AdapterInv'
<1> SUFFICES ASSUME AdapterInv, [AdapterNext]_adapterVars PROVE AdapterInv'
  OBVIOUS
<1>0. /\ AcquisitionTyped /\ ConsumersTyped /\ DeliveriesTyped /\ StopTyped
      /\ ConsumersAreKnown /\ DeliveriesAreInFlight /\ WaitersAreWoken
  BY DEF AdapterInv
<1>a. (\A d \in Deliveries : Accepted(d) <=> d \in inFlight)
  BY <1>0 DEF DeliveriesAreInFlight
(* The deliveries and the stop rest.                                       *)
<1>b. ASSUME UNCHANGED <<deliveryVars, stop>>, AcquisitionTyped', ConsumersTyped', ConsumersAreKnown'
      PROVE  AdapterInv'
  <2>1. DeliveriesTyped' /\ WaitersAreWoken' /\ \A d \in Deliveries : Accepted(d)' <=> d \in inFlight'
    BY <1>b, <1>0, <1>a, DeliveriesRest
  <2>2. StopTyped'
    BY <1>b, <1>0 DEF StopTyped
  <2>3. DeliveriesAreInFlight'
    BY <1>b, <1>0, <2>1 DEF DeliveriesAreInFlight, deliveryVars
  <2> QED
    BY <1>b, <2>1, <2>2, <2>3 DEF AdapterInv
<1>1. CASE UNCHANGED adapterVars
  BY <1>1, <1>0, <1>b DEF adapterVars, deliveryVars, AcquisitionTyped, ConsumersTyped,
     ConsumersAreKnown, Stopping
<1>2. CASE StartAcquisition
  BY <1>2, <1>0, <1>b DEF StartAcquisition, AcquisitionTyped, ConsumersTyped, ConsumersAreKnown,
     Stopping
<1>3. CASE AwaitCompletion
  <2>1. AcquisitionTyped' /\ (Stopping => Stopping')
    BY <1>3, <1>0 DEF AwaitCompletion, StopAcquisition, AcquisitionTyped, Stopping
  <2>2. ConsumersTyped'
    BY <1>3, <1>0 DEF AwaitCompletion, StopAcquisition, ConsumersTyped
  <2>3. ConsumersAreKnown'
    BY <1>3, <1>0, <2>1 DEF AwaitCompletion, StopAcquisition, ConsumersAreKnown
  <2> QED
    BY <1>3, <1>b, <2>1, <2>2, <2>3 DEF AwaitCompletion
<1>4. CASE RunEnds
  <2>1. ConsumersAreKnown'
    BY <1>4, <1>0 DEF RunEnds, ConsumersTyped, ConsumersAreKnown, Stopping
  <2> QED
    BY <1>4, <1>0, <1>b, <2>1 DEF RunEnds, AcquisitionTyped, ConsumersTyped
<1>5. CASE AbortRun
  <2>1. AcquisitionTyped' /\ Stopping'
    BY <1>5, <1>0 DEF AbortRun, AcquisitionTyped, Stopping
  <2>2. ConsumersTyped' /\ ConsumersAreKnown'
    BY <1>5, <1>0, <2>1 DEF AbortRun, registration, ConsumersTyped, ConsumersAreKnown
  <2> QED
    BY <1>5, <1>b, <2>1, <2>2 DEF AbortRun
<1>6. CASE ChannelLost
  <2>1. AcquisitionTyped' /\ Stopping'
    BY <1>6, <1>0 DEF ChannelLost, AcquisitionTyped, Stopping
  <2>2. ConsumersTyped' /\ ConsumersAreKnown'
    BY <1>6, <1>0, <2>1 DEF ChannelLost, registration, ConsumersTyped, ConsumersAreKnown
  <2> QED
    BY <1>6, <1>b, <2>1, <2>2 DEF ChannelLost
<1>7. ASSUME NEW b \in Bindings, Consume(b) PROVE AdapterInv'
  <2>1. AcquisitionTyped' /\ ConsumersTyped'
    BY <1>7, <1>0 DEF Consume, AcquisitionTyped, ConsumersTyped
  <2>2. ConsumersAreKnown'
    BY <1>7, <1>0, AdapterAssumption DEF Consume, ConsumersTyped, ConsumersAreKnown, Stopping
  <2> QED
    BY <1>7, <1>b, <2>1, <2>2 DEF Consume
<1>8. ASSUME NEW b \in Bindings, ConsumeReplies(b) PROVE AdapterInv'
  <2>1. AcquisitionTyped' /\ ConsumersTyped'
    BY <1>8, <1>0 DEF ConsumeReplies, AcquisitionTyped, ConsumersTyped
  <2>2. ConsumersAreKnown'
    BY <1>8, <1>0 DEF ConsumeReplies, Registered, ConsumersTyped, ConsumersAreKnown, Stopping
  <2> QED
    BY <1>8, <1>b, <2>1, <2>2 DEF ConsumeReplies
<1>9. ASSUME NEW b \in Bindings, CancelReplies(b) PROVE AdapterInv'
  <2>1. AcquisitionTyped' /\ ConsumersTyped'
    BY <1>9, <1>0 DEF CancelReplies, AcquisitionTyped, ConsumersTyped
  <2>2. ConsumersAreKnown'
    BY <1>9, <1>0 DEF CancelReplies, ConsumersTyped, ConsumersAreKnown, Stopping
  <2> QED
    BY <1>9, <1>b, <2>1, <2>2 DEF CancelReplies
<1>10. ASSUME NEW b \in Bindings, ConsumerCancelled(b) PROVE AdapterInv'
  <2>1. AcquisitionTyped' /\ Stopping'
    BY <1>10, <1>0 DEF ConsumerCancelled, AcquisitionTyped, Stopping
  <2>2. ConsumersTyped' /\ ConsumersAreKnown'
    BY <1>10, <1>0, <2>1 DEF ConsumerCancelled, registration, ConsumersTyped, ConsumersAreKnown
  <2> QED
    BY <1>10, <1>b, <2>1, <2>2 DEF ConsumerCancelled
(* Deliveries: only what was there when the stop began drains.             *)
<1>c. ASSUME UNCHANGED <<registration, consumers, cancelling, atBroker, stop, channelOpen>>,
             AcquisitionTyped', Stopping => Stopping',
             DeliveriesTyped', WaitersAreWoken', \A e \in Deliveries : Accepted(e)' <=> e \in inFlight',
             Stopping => inFlight' \subseteq inFlight
      PROVE  AdapterInv'
  <2>1. ConsumersTyped' /\ StopTyped'
    BY <1>c, <1>0 DEF ConsumersTyped, StopTyped, registration
  <2>2. ConsumersAreKnown'
    BY <1>c, <1>0 DEF ConsumersAreKnown, registration
  <2>3. DeliveriesAreInFlight'
    BY <1>c, <1>0 DEF DeliveriesAreInFlight, ConsumersAreKnown
  <2> QED
    BY <1>c, <2>1, <2>2, <2>3 DEF AdapterInv
<1>11. ASSUME NEW d \in Deliveries, Deliver(d) PROVE AdapterInv'
  <2>1. /\ DeliveriesTyped' /\ WaitersAreWoken' /\ \A e \in Deliveries : Accepted(e)' <=> e \in inFlight'
        /\ ~Stopping
    BY <1>11, <1>0, RacesAreWon DEF Deliver
  <2>2. AcquisitionTyped' /\ (Stopping => Stopping')
    BY <1>11, <1>0 DEF Deliver, AcquisitionTyped, Stopping
  <2> QED
    BY <1>11, <1>c, <2>1, <2>2 DEF Deliver
<1>12. ASSUME NEW d \in Deliveries, Wake(d) PROVE AdapterInv'
  <2>1. /\ DeliveriesTyped' /\ WaitersAreWoken' /\ \A e \in Deliveries : Accepted(e)' <=> e \in inFlight'
        /\ inFlight' \subseteq inFlight \cup {d} /\ (Stopping => d \notin inFlight')
    BY <1>12, <1>0, RacesAreWon DEF Wake
  <2>2. AcquisitionTyped' /\ (Stopping => Stopping')
    BY <1>12, <1>0 DEF Wake, AcquisitionTyped, Stopping
  <2> QED
    BY <1>12, <1>c, <2>1, <2>2 DEF Wake
<1>13. ASSUME NEW d \in Deliveries, SettleDelivery(d) PROVE AdapterInv'
  <2>1. /\ DeliveriesTyped' /\ WaitersAreWoken' /\ \A e \in Deliveries : Accepted(e)' <=> e \in inFlight'
        /\ inFlight' \subseteq inFlight
    BY <1>13, <1>0, EndsAreHeard DEF SettleDelivery, Accepted
  <2>2. AcquisitionTyped' /\ (Stopping => Stopping')
    BY <1>13, <1>0 DEF SettleDelivery, AcquisitionTyped, Stopping
  <2> QED
    BY <1>13, <1>c, <2>1, <2>2 DEF SettleDelivery
<1>14. ASSUME NEW d \in Deliveries, DeliveryFails(d) PROVE AdapterInv'
  <2>1. /\ DeliveriesTyped' /\ WaitersAreWoken' /\ \A e \in Deliveries : Accepted(e)' <=> e \in inFlight'
        /\ inFlight' \subseteq inFlight
    BY <1>14, <1>0, EndsAreHeard DEF DeliveryFails, Accepted
  <2>2. AcquisitionTyped' /\ Stopping'
    BY <1>14, <1>0 DEF DeliveryFails, AcquisitionTyped, Stopping
  <2> QED
    BY <1>14, <1>c, <2>1, <2>2 DEF DeliveryFails
(* Stopping: the deliveries rest.                                          *)
<1>d. ASSUME UNCHANGED deliveryVars, AcquisitionTyped', ConsumersTyped', ConsumersAreKnown', StopTyped',
             stop'.stage = "drain" => inFlight \subseteq stop'.on, stop'.stage = "closed" => inFlight = {}
      PROVE  AdapterInv'
  <2>1. DeliveriesTyped' /\ WaitersAreWoken' /\ \A d \in Deliveries : Accepted(d)' <=> d \in inFlight'
    BY <1>d, <1>0, <1>a, DeliveriesRest
  <2>2. DeliveriesAreInFlight'
    BY <1>d, <2>1 DEF DeliveriesAreInFlight, deliveryVars
  <2> QED
    BY <1>d, <2>1, <2>2 DEF AdapterInv
<1>15. CASE Stop
  <2>1. AcquisitionTyped' /\ Stopping'
    BY <1>15, <1>0 DEF Stop, StopAcquisition, AcquisitionTyped, Stopping
  <2>2. ConsumersTyped' /\ StopTyped' /\ stop'.stage = "cancel"
    BY <1>15, <1>0 DEF Stop, StopAcquisition, registration, ConsumersTyped, StopTyped
  <2>3. ConsumersAreKnown'
    BY <1>15, <1>0, <2>1 DEF Stop, StopAcquisition, registration, ConsumersAreKnown
  <2> QED
    BY <1>15, <1>d, <2>1, <2>2, <2>3 DEF Stop
<1>16. CASE DrainAdapter
  <2>1. stop' = [stage |-> "drain", on |-> inFlight] /\ stop.stage = "cancel"
    BY <1>16 DEF DrainAdapter
  <2>2. AcquisitionTyped' /\ ConsumersTyped' /\ StopTyped'
    BY <1>16, <1>0, <2>1 DEF DrainAdapter, registration, AcquisitionTyped, ConsumersTyped, StopTyped
  <2>3. ConsumersAreKnown'
    BY <1>16, <1>0, <2>1 DEF DrainAdapter, registration, ConsumersAreKnown, Stopping
  <2> QED
    BY <1>16, <1>d, <2>1, <2>2, <2>3 DEF DrainAdapter
<1>e. ASSUME NEW s \in {"closed", "failed"}, Close(s), s = "closed" => inFlight = {}
      PROVE  AdapterInv'
  <2>1. stop'.stage = s /\ StopTyped' /\ stop.stage = "drain"
    BY <1>e, <1>0 DEF Close, StopTyped
  <2>2. AcquisitionTyped' /\ ConsumersTyped'
    BY <1>e, <1>0 DEF Close, registration, AcquisitionTyped, ConsumersTyped
  <2>3. ConsumersAreKnown'
    BY <1>e, <1>0, <2>1 DEF Close, registration, ConsumersAreKnown, Stopping
  <2> QED
    BY <1>e, <1>d, <2>1, <2>2, <2>3 DEF Close
<1>17. CASE AdapterDrained
  <2>1. inFlight = {}
    BY <1>17, <1>0 DEF AdapterDrained, Close, DeliveriesAreInFlight
  <2> QED
    BY <1>17, <1>e, <2>1 DEF AdapterDrained
<1>18. CASE AdapterDrainFails
  BY <1>18, <1>e DEF AdapterDrainFails
<1> QED
  BY <1>1, <1>2, <1>3, <1>4, <1>5, <1>6, <1>7, <1>8, <1>9, <1>10, <1>11, <1>12, <1>13, <1>14,
     <1>15, <1>16, <1>17, <1>18
     DEF AdapterNext, AcquisitionNext

LEMMA AdapterMeans ==
  AdapterInv => AdapterTypeOK /\ WaitersAreWoken /\ NoConsumerIsLeft /\ ClosedWhenSettled
<1> SUFFICES ASSUME AdapterInv
             PROVE  AdapterTypeOK /\ WaitersAreWoken /\ NoConsumerIsLeft /\ ClosedWhenSettled
  OBVIOUS
<1>1. AdapterTypeOK
  BY DEF AdapterInv, AdapterTypeOK, AcquisitionTyped, ConsumersTyped, DeliveriesTyped, StopTyped
<1>2. NoConsumerIsLeft
  BY AdapterAssumption DEF AdapterInv, ConsumersTyped, ConsumersAreKnown, NoConsumerIsLeft
<1>3. ClosedWhenSettled
  BY DEF AdapterInv, DeliveriesTyped, DeliveriesAreInFlight, Accepted, ClosedWhenSettled
<1> QED
  BY <1>1, <1>2, <1>3 DEF AdapterInv

(* No consumer is left at the broker, whoever waits is woken, and a drain  *)
(* that succeeds has settled what it accepted.                             *)
THEOREM AdaptersLeaveNothing ==
  AdapterSpec => [](WaitersAreWoken /\ NoConsumerIsLeft /\ ClosedWhenSettled)
<1> QED
  BY AdapterStarts, AdapterGoesOn, AdapterMeans, PTL DEF AdapterSpec

-----------------------------------------------------------------------------
(* The API's life: who is ready serves.                                    *)

ApiFlags == {ready, apiTerminal, signalled} \subseteq BOOLEAN
ApiTyped ==
  /\ process \in {"bindings", "serving", "0", "1"}
  /\ apiStarts \in 0 .. MaxApiStarts /\ apiActive \in 0 .. MaxApiStarts /\ served \in 0 .. MaxApiStarts
  /\ apiStarting \in {"none", "initialize", "cleanup"}
  /\ initialize \in [Starts -> {"none", "onStart", "create", "listen", "done", "failed"}]
  /\ apiAborted \subseteq Starts /\ candidateClosed \subseteq Starts /\ listening \subseteq Starts
  /\ apiStopping \in {"none", "start", "close"}

(* Only the last attempt is under way or listens, and an application in    *)
(* which one may still be under way after its start has ended is terminal. *)
ApiStartsAreApart ==
  /\ listening \subseteq {apiStarts}
  /\ apiStarting = "initialize" => listening = {}
  /\ apiStarting # "none" => apiStarts # 0 /\ served = 0
  /\ \A a \in Starts : initialize[a] \in {"onStart", "create", "listen"} =>
       a = apiStarts /\ (apiStarting # "none" \/ apiTerminal)
  /\ \A a \in Starts : initialize[a] = "listen" /\ a \in candidateClosed =>
       a # apiActive /\ apiStarting # "initialize"
  /\ \A a \in Starts : a > apiStarts => initialize[a] = "none"
  /\ \A a \in candidateClosed : initialize[a] \in {"listen", "failed"}
  /\ apiActive # 0 => /\ apiActive = apiStarts
                      /\ apiStarting = "initialize" \/ initialize[apiActive] = "done"
  /\ apiStarting = "cleanup" => apiActive = 0
  /\ apiStopping = "start" => apiActive = 0 /\ (apiStarting = "none" => apiTerminal)
  /\ apiStopping = "close" => apiStarting = "none"

ApiInv == ApiFlags /\ ApiTyped /\ ApiStartsAreApart /\ ReadyServes /\ ServersAreOwned

LEMMA ApiStartsSoundly == ApiInit => ApiInv
<1> SUFFICES ASSUME ApiInit PROVE ApiInv
  OBVIOUS
<1>1. ApiFlags
  BY Zenon DEF ApiInit, ApiFlags
<1>2. ApiTyped
  BY ApiLifecycleAssumption DEF ApiInit, ApiTyped, Starts
<1>3. ApiStartsAreApart /\ ReadyServes /\ ServersAreOwned
  BY ApiLifecycleAssumption DEF ApiInit, ApiStartsAreApart, ReadyServes, ServersAreOwned, Starts
<1> QED
  BY <1>1, <1>2, <1>3 DEF ApiInv

LEMMA ApiGoesOn == ApiInv /\ [ApiNext]_apiVars => ApiInv'
<1> SUFFICES ASSUME ApiInv, [ApiNext]_apiVars PROVE ApiInv'
  OBVIOUS
<1>0. ApiFlags /\ ApiTyped /\ ApiStartsAreApart /\ ReadyServes /\ ServersAreOwned
  BY DEF ApiInv
<1> USE ApiLifecycleAssumption DEF Starts, apiAttempt
<1>1. CASE UNCHANGED apiVars
  BY <1>1, <1>0 DEF apiVars, ApiInv, ApiFlags, ApiTyped, ApiStartsAreApart, ReadyServes,
     ServersAreOwned
<1>2. CASE BindingsCreated
  <2>1. ApiFlags'
    BY <1>2, <1>0, Zenon DEF BindingsCreated, ApiFlags
  <2>2. ApiTyped'
    BY <1>2, <1>0 DEF BindingsCreated, ApiTyped, ApiStartsAreApart
  <2>3. ApiStartsAreApart'
    BY <1>2, <1>0 DEF BindingsCreated, ApiTyped, ApiStartsAreApart, ReadyServes, ServersAreOwned
  <2>4. ReadyServes' /\ ServersAreOwned'
    BY <1>2, <1>0 DEF BindingsCreated, ApiTyped, ApiStartsAreApart, ReadyServes, ServersAreOwned
  <2> QED
    BY <2>1, <2>2, <2>3, <2>4 DEF ApiInv
<1>3. CASE BindingsFail
  <2>1. ApiFlags'
    BY <1>3, <1>0, Zenon DEF BindingsFail, ApiFlags
  <2>2. ApiTyped'
    BY <1>3, <1>0 DEF BindingsFail, ApiTyped, ApiStartsAreApart
  <2>3. ApiStartsAreApart'
    BY <1>3, <1>0 DEF BindingsFail, ApiTyped, ApiStartsAreApart, ReadyServes, ServersAreOwned
  <2>4. ReadyServes' /\ ServersAreOwned'
    BY <1>3, <1>0 DEF BindingsFail, ApiTyped, ApiStartsAreApart, ReadyServes, ServersAreOwned
  <2> QED
    BY <2>1, <2>2, <2>3, <2>4 DEF ApiInv
<1>4. CASE ApiStart
  <2>1. ApiFlags'
    BY <1>4, <1>0, Zenon DEF ApiStart, ApiFlags
  <2>2. ApiTyped'
    BY <1>4, <1>0 DEF ApiStart, ApiTyped, ApiStartsAreApart
  <2>3. ApiStartsAreApart'
    BY <1>4, <1>0 DEF ApiStart, ApiTyped, ApiStartsAreApart, ReadyServes, ServersAreOwned
  <2>4. ReadyServes' /\ ServersAreOwned'
    BY <1>4, <1>0 DEF ApiStart, ApiTyped, ApiStartsAreApart, ReadyServes, ServersAreOwned
  <2> QED
    BY <2>1, <2>2, <2>3, <2>4 DEF ApiInv
<1>5. CASE ApiStartFails
  <2>1. ApiFlags'
    BY <1>5, <1>0, Zenon DEF ApiStartFails, ApiFlags
  <2>2. ApiTyped'
    BY <1>5, <1>0 DEF ApiStartFails, ApiTyped, ApiStartsAreApart
  <2>3. ApiStartsAreApart'
    BY <1>5, <1>0 DEF ApiStartFails, ApiTyped, ApiStartsAreApart, ReadyServes, ServersAreOwned
  <2>4. ReadyServes' /\ ServersAreOwned'
    BY <1>5, <1>0 DEF ApiStartFails, ApiTyped, ApiStartsAreApart, ReadyServes, ServersAreOwned
  <2> QED
    BY <2>1, <2>2, <2>3, <2>4 DEF ApiInv
<1>6. CASE ApiCleanedUp
  <2>1. ApiFlags'
    BY <1>6, <1>0, Zenon DEF ApiCleanedUp, ApiFlags
  <2>2. ApiTyped'
    BY <1>6, <1>0 DEF ApiCleanedUp, ApiTyped, ApiStartsAreApart
  <2>3. ApiStartsAreApart'
    BY <1>6, <1>0 DEF ApiCleanedUp, ApiTyped, ApiStartsAreApart, ReadyServes, ServersAreOwned
  <2>4. ReadyServes' /\ ServersAreOwned'
    BY <1>6, <1>0 DEF ApiCleanedUp, ApiTyped, ApiStartsAreApart, ReadyServes, ServersAreOwned
  <2> QED
    BY <2>1, <2>2, <2>3, <2>4 DEF ApiInv
<1>7. CASE ApiSignal
  <2>1. ApiFlags'
    BY <1>7, <1>0, Zenon DEF ApiSignal, ApiStop, CloseApplication, Exit, ApiFlags
  <2>2. ApiTyped'
    <3>1. /\ process' \in {process, "0"} /\ UNCHANGED <<apiStarts, apiStarting, initialize>>
          /\ UNCHANGED <<candidateClosed, listening>>
          /\ apiActive' \in {apiActive, 0} /\ served' \in {served, 0}
          /\ apiStopping' \in {"none", "start", "close"}
      BY <1>7, <1>0 DEF ApiSignal, ApiStop, CloseApplication, Exit, ApiTyped
    <3>2. \/ apiAborted' = apiAborted
          \/ apiAborted' = apiAborted \cup {apiStarts} /\ apiStarting # "none"
      BY <1>7, <1>0 DEF ApiSignal, ApiStop
    <3>a. apiStarting # "none" => apiStarts \in Starts
      BY <1>0 DEF ApiTyped, ApiStartsAreApart
    <3>b. apiAborted \subseteq Starts
      BY <1>0 DEF ApiTyped
    <3>3. apiAborted' \subseteq Starts
      BY <3>2, <3>a, <3>b, Zenon
    <3> QED
      BY <3>1, <3>3, <1>0 DEF ApiTyped
  <2>3. ApiStartsAreApart'
    BY <1>7, <1>0 DEF ApiSignal, ApiStop, CloseApplication, Exit, ApiTyped, ApiStartsAreApart,
       ReadyServes, ServersAreOwned
  <2>4. ReadyServes'
    <3>1. CASE process = "serving" /\ apiStopping = "none"
      <4>1. ~ready'
        BY <1>7, <3>1 DEF ApiSignal, ApiStop
      <4> QED
        BY <4>1 DEF ReadyServes
    <3>2. CASE ~(process = "serving" /\ apiStopping = "none")
      <4>1. UNCHANGED <<ready, served, listening, apiStopping, apiStarting>>
        BY <1>7, <3>2, Zenon DEF ApiSignal
      <4> QED
        BY <4>1, <1>0, Zenon DEF ReadyServes
    <3> QED
      BY <3>1, <3>2
  <2>6. ServersAreOwned'
    <3>1. CASE process = "serving" /\ apiStopping = "none"
      BY <1>7, <3>1, <1>0 DEF ApiSignal, ApiStop, CloseApplication, ApiTyped, ServersAreOwned
    <3>2. CASE ~(process = "serving" /\ apiStopping = "none")
      BY <1>7, <3>2, <1>0 DEF ApiSignal, ServersAreOwned
    <3> QED
      BY <3>1, <3>2
  <2> QED
    BY <2>1, <2>2, <2>3, <2>4, <2>6 DEF ApiInv
<1>8. CASE ApiStopAsked
  <2>1. ApiFlags'
    BY <1>8, <1>0, Zenon DEF ApiStopAsked, ApiStop, CloseApplication, Exit, ApiFlags
  <2>2. ApiTyped'
    <3>1. /\ process' \in {process, "0"} /\ UNCHANGED <<apiStarts, apiStarting, initialize>>
          /\ UNCHANGED <<candidateClosed, listening>>
          /\ apiActive' \in {apiActive, 0} /\ served' \in {served, 0}
          /\ apiStopping' \in {"none", "start", "close"}
      BY <1>8, <1>0 DEF ApiStopAsked, ApiStop, CloseApplication, Exit, ApiTyped
    <3>2. \/ apiAborted' = apiAborted
          \/ apiAborted' = apiAborted \cup {apiStarts} /\ apiStarting # "none"
      BY <1>8, <1>0 DEF ApiStopAsked, ApiStop
    <3>a. apiStarting # "none" => apiStarts \in Starts
      BY <1>0 DEF ApiTyped, ApiStartsAreApart
    <3>b. apiAborted \subseteq Starts
      BY <1>0 DEF ApiTyped
    <3>3. apiAborted' \subseteq Starts
      BY <3>2, <3>a, <3>b, Zenon
    <3> QED
      BY <3>1, <3>3, <1>0 DEF ApiTyped
  <2>3. ApiStartsAreApart'
    BY <1>8, <1>0 DEF ApiStopAsked, ApiStop, CloseApplication, Exit, ApiTyped, ApiStartsAreApart,
       ReadyServes, ServersAreOwned
  <2>4. ReadyServes' /\ ServersAreOwned'
    BY <1>8, <1>0 DEF ApiStopAsked, ApiStop, CloseApplication, Exit, ApiTyped, ApiStartsAreApart,
       ReadyServes, ServersAreOwned
  <2> QED
    BY <2>1, <2>2, <2>3, <2>4 DEF ApiInv
<1>9. CASE ApiStopGoesOn
  <2>1. ApiFlags'
    BY <1>9, <1>0, Zenon DEF ApiStopGoesOn, CloseApplication, Exit, ApiFlags
  <2>2. ApiTyped'
    BY <1>9, <1>0 DEF ApiStopGoesOn, CloseApplication, Exit, ApiTyped, ApiStartsAreApart
  <2>3. ApiStartsAreApart'
    BY <1>9, <1>0 DEF ApiStopGoesOn, CloseApplication, Exit, ApiTyped, ApiStartsAreApart,
       ReadyServes, ServersAreOwned
  <2>4. ReadyServes' /\ ServersAreOwned'
    BY <1>9, <1>0 DEF ApiStopGoesOn, CloseApplication, Exit, ApiTyped, ApiStartsAreApart,
       ReadyServes, ServersAreOwned
  <2> QED
    BY <2>1, <2>2, <2>3, <2>4 DEF ApiInv
<1>10. CASE ApiClosed
  <2>1. ApiFlags'
    BY <1>10, <1>0, Zenon DEF ApiClosed, Exit, ApiFlags
  <2>2. ApiTyped'
    BY <1>10, <1>0 DEF ApiClosed, Exit, ApiTyped, ApiStartsAreApart
  <2>3. ApiStartsAreApart'
    BY <1>10, <1>0 DEF ApiClosed, Exit, ApiTyped, ApiStartsAreApart, ReadyServes, ServersAreOwned
  <2>4. ReadyServes' /\ ServersAreOwned'
    BY <1>10, <1>0 DEF ApiClosed, Exit, ApiTyped, ApiStartsAreApart, ReadyServes, ServersAreOwned
  <2> QED
    BY <2>1, <2>2, <2>3, <2>4 DEF ApiInv
<1>11. CASE ApiStopFails
  <2>1. ApiFlags'
    BY <1>11, <1>0, Zenon DEF ApiStopFails, Exit, ApiFlags
  <2>2. ApiTyped'
    BY <1>11, <1>0 DEF ApiStopFails, Exit, ApiTyped, ApiStartsAreApart
  <2>3. ApiStartsAreApart'
    BY <1>11, <1>0 DEF ApiStopFails, Exit, ApiTyped, ApiStartsAreApart, ReadyServes, ServersAreOwned
  <2>4. ReadyServes' /\ ServersAreOwned'
    BY <1>11, <1>0 DEF ApiStopFails, Exit, ApiTyped, ApiStartsAreApart, ReadyServes, ServersAreOwned
  <2> QED
    BY <2>1, <2>2, <2>3, <2>4 DEF ApiInv
<1>12. ASSUME NEW a \in Starts, ApiOnStarted(a) PROVE ApiInv'
  <2>1. ApiFlags'
    BY <1>12, <1>0, Zenon DEF ApiOnStarted, GivenUp, To, ApiFlags
  <2>2. ApiTyped'
    BY <1>12, <1>0 DEF ApiOnStarted, GivenUp, To, ApiTyped, ApiStartsAreApart
  <2>3. ApiStartsAreApart'
    BY <1>12, <1>0 DEF ApiOnStarted, GivenUp, To, ApiTyped, ApiStartsAreApart, ReadyServes,
       ServersAreOwned
  <2>4. ReadyServes' /\ ServersAreOwned'
    BY <1>12, <1>0 DEF ApiOnStarted, GivenUp, To, ApiTyped, ApiStartsAreApart, ReadyServes,
       ServersAreOwned
  <2> QED
    BY <2>1, <2>2, <2>3, <2>4 DEF ApiInv
<1>13. ASSUME NEW a \in Starts, CandidateCreated(a) PROVE ApiInv'
  <2>1. ApiFlags'
    BY <1>13, <1>0, Zenon DEF CandidateCreated, GivenUp, To, ApiFlags
  <2>2. ApiTyped'
    BY <1>13, <1>0 DEF CandidateCreated, GivenUp, To, ApiTyped, ApiStartsAreApart
  <2>3. ApiStartsAreApart'
    <3>1. CASE GivenUp(a)
      BY <1>13, <1>0, <3>1 DEF CandidateCreated, To, ApiTyped, ApiStartsAreApart
    <3>2. CASE ~GivenUp(a)
      <4>1. apiStarting = "initialize" /\ a = apiActive
        BY <1>13, <1>0, <3>2 DEF CandidateCreated, GivenUp, ApiStartsAreApart
      <4>2. a \notin candidateClosed
        BY <4>1, <1>0, <1>13 DEF ApiStartsAreApart, CandidateCreated
      <4> QED
        BY <1>13, <1>0, <3>2, <4>1, <4>2 DEF CandidateCreated, To, ApiTyped, ApiStartsAreApart
    <3> QED
      BY <3>1, <3>2
  <2>4. ReadyServes' /\ ServersAreOwned'
    BY <1>13, <1>0 DEF CandidateCreated, GivenUp, To, ApiTyped, ApiStartsAreApart, ReadyServes,
       ServersAreOwned
  <2> QED
    BY <2>1, <2>2, <2>3, <2>4 DEF ApiInv
<1>14. ASSUME NEW a \in Starts, CreateFails(a) PROVE ApiInv'
  <2>1. ApiFlags'
    BY <1>14, <1>0, Zenon DEF CreateFails, To, ApiFlags
  <2>2. ApiTyped'
    BY <1>14, <1>0 DEF CreateFails, To, ApiTyped, ApiStartsAreApart
  <2>3. ApiStartsAreApart'
    BY <1>14, <1>0 DEF CreateFails, To, ApiTyped, ApiStartsAreApart, ReadyServes, ServersAreOwned
  <2>4. ReadyServes' /\ ServersAreOwned'
    BY <1>14, <1>0 DEF CreateFails, To, ApiTyped, ApiStartsAreApart, ReadyServes, ServersAreOwned
  <2> QED
    BY <2>1, <2>2, <2>3, <2>4 DEF ApiInv
<1>15. ASSUME NEW a \in Starts, Listens(a) PROVE ApiInv'
  <2>1. ApiFlags'
    BY <1>15, <1>0, Zenon DEF Listens, GivenUp, To, ApiFlags
  <2>2. ApiTyped'
    BY <1>15, <1>0 DEF Listens, GivenUp, To, ApiTyped, ApiStartsAreApart
  <2>3. ApiStartsAreApart'
    BY <1>15, <1>0 DEF Listens, GivenUp, To, ApiTyped, ApiStartsAreApart, ReadyServes,
       ServersAreOwned
  <2>4. ReadyServes' /\ ServersAreOwned'
    BY <1>15, <1>0 DEF Listens, GivenUp, To, ApiTyped, ApiStartsAreApart, ReadyServes,
       ServersAreOwned
  <2> QED
    BY <2>1, <2>2, <2>3, <2>4 DEF ApiInv
<1>16. ASSUME NEW a \in Starts, ListensTooLate(a) PROVE ApiInv'
  <2>1. ApiFlags'
    BY <1>16, <1>0, Zenon DEF ListensTooLate, GivenUp, To, ApiFlags
  <2>2. ApiTyped'
    BY <1>16, <1>0 DEF ListensTooLate, GivenUp, To, ApiTyped, ApiStartsAreApart
  <2>3. ApiStartsAreApart'
    BY <1>16, <1>0 DEF ListensTooLate, GivenUp, To, ApiTyped, ApiStartsAreApart, ReadyServes,
       ServersAreOwned
  <2>4. ReadyServes' /\ ServersAreOwned'
    BY <1>16, <1>0 DEF ListensTooLate, GivenUp, To, ApiTyped, ApiStartsAreApart, ReadyServes,
       ServersAreOwned
  <2> QED
    BY <2>1, <2>2, <2>3, <2>4 DEF ApiInv
<1> QED
  BY <1>1, <1>2, <1>3, <1>4, <1>5, <1>6, <1>7, <1>8, <1>9, <1>10, <1>11, <1>12, <1>13, <1>14,
     <1>15, <1>16
     DEF ApiNext, Bind, ApiStops

LEMMA ApiMeans == ApiInv => ApiTypeOK /\ ReadyServes /\ ServersAreOwned
BY DEF ApiInv, ApiTypeOK, ApiFlags, ApiTyped

(* An API that is ready serves, and no server listens that nobody owns.    *)
THEOREM ReadinessIsTrue == ApiSpec => [](ReadyServes /\ ServersAreOwned)
<1> QED
  BY ApiStartsSoundly, ApiGoesOn, ApiMeans, PTL DEF ApiSpec

-----------------------------------------------------------------------------
(* The bindings of the API: served or released.                            *)

BindingsFlags == {startAborted, bindingsClosed, unresponsive} \subseteq BOOLEAN
BindingsTyped ==
  /\ creating \in {"load", "connect", "compose", "broker", "created", "cleaning", "closing",
                   "serving", "failed", "uncleaned"}
  /\ used \in [Resources -> {"none", "opening", "open", "closing", "closed", "broken"}]
  /\ closeCalls \in [CloseCalls -> {"none", "source", "stored", "closed", "rejected"}]

(* What is used, by how far the creation is.                               *)
UsedByStage ==
  /\ creating = "load" => \A r \in Resources : used[r] = "none"
  /\ creating = "connect" =>
       used["database"] = "open" /\ used["sessions"] = "opening" /\ used["source"] = "none"
  /\ creating \in {"compose", "broker"} => used["database"] = "open" /\ used["sessions"] = "open"
  /\ creating \in {"compose", "cleaning"} => used["source"] = "none"
  /\ creating \in {"created", "serving"} /\ ~bindingsClosed =>
       /\ used["database"] = "open" /\ used["sessions"] = "open"
       /\ used["source"] \in {"none", "open"}
  /\ creating = "cleaning" =>
       used["database"] \in {"closing", "closed", "broken"} /\ used["sessions"] \in {"closing", "closed", "broken"}
  /\ creating = "failed" => Released
  /\ creating = "serving" => ~startAborted

(* The first call of close does all that is done, and the others nothing.  *)
UnderWay(k) == closeCalls[k] \in {"source", "stored"}
ClosedByStage ==
  /\ creating \notin {"serving", "closing", "failed", "uncleaned"} => ~bindingsClosed
  /\ ~bindingsClosed => \A k \in CloseCalls : closeCalls[k] = "none"
  /\ creating = "closing" => bindingsClosed /\ \E k \in CloseCalls : UnderWay(k)
  /\ \A k, l \in CloseCalls : UnderWay(k) /\ UnderWay(l) => k = l
  /\ \A k \in CloseCalls : UnderWay(k) => creating \in {"serving", "closing"}
  /\ \A k \in CloseCalls : closeCalls[k] = "source" =>
       /\ used["database"] = "open" /\ used["sessions"] = "open"
       /\ used["source"] \in {"none", "closing", "closed"}
  /\ \A k \in CloseCalls : closeCalls[k] = "stored" =>
       /\ used["database"] \in {"closing", "closed", "broken"}
       /\ used["sessions"] \in {"closing", "closed", "broken"}
       /\ used["source"] \in {"none", "closed"}
  /\ creating = "serving" /\ bindingsClosed /\ ~unresponsive =>
       Released \/ \E k \in CloseCalls : UnderWay(k)

BindingsInv == BindingsFlags /\ BindingsTyped /\ UsedByStage /\ ClosedByStage

LEMMA BindingsStart == BindingsInit => BindingsInv
<1> SUFFICES ASSUME BindingsInit PROVE BindingsInv
  OBVIOUS
<1>1. BindingsFlags
  BY Zenon DEF BindingsInit, BindingsFlags
<1>2. BindingsTyped
  BY DEF BindingsInit, BindingsTyped
<1>3. UsedByStage /\ ClosedByStage
  BY DEF BindingsInit, UsedByStage, ClosedByStage, UnderWay
<1> QED
  BY <1>1, <1>2, <1>3 DEF BindingsInv

LEMMA BindingsGoOn == BindingsInv /\ [BindingsNext]_bindingVars => BindingsInv'
<1> SUFFICES ASSUME BindingsInv, [BindingsNext]_bindingVars PROVE BindingsInv'
  OBVIOUS
<1>0. BindingsFlags /\ BindingsTyped /\ UsedByStage /\ ClosedByStage
  BY DEF BindingsInv
<1>1. CASE UNCHANGED bindingVars
  BY <1>1, <1>0 DEF bindingVars, BindingsInv, BindingsFlags, BindingsTyped, UsedByStage,
     ClosedByStage,
     UnderWay, Released
<1>2. CASE AbortStart
  <2>1. BindingsFlags'
    BY <1>2, <1>0, Zenon DEF AbortStart, BindingsFlags
  <2>2. BindingsTyped'
    BY <1>2, <1>0 DEF AbortStart, BindingsTyped
  <2>3. UsedByStage'
    BY <1>2, <1>0 DEF AbortStart, BindingsTyped, UsedByStage, ClosedByStage, Released, Resources
  <2>4. ClosedByStage'
    BY <1>2, <1>0 DEF AbortStart, BindingsTyped, UsedByStage, ClosedByStage, Released, Resources,
       UnderWay
  <2> QED
    BY <2>1, <2>2, <2>3, <2>4 DEF BindingsInv
<1>3. CASE NotLoaded
  <2>1. BindingsFlags'
    BY <1>3, <1>0, Zenon DEF NotLoaded, Creating, BindingsFlags
  <2>2. BindingsTyped'
    BY <1>3, <1>0 DEF NotLoaded, Creating, BindingsTyped
  <2>3. UsedByStage'
    BY <1>3, <1>0 DEF NotLoaded, Creating, BindingsTyped, UsedByStage, ClosedByStage, Released,
       Resources
  <2>4. ClosedByStage'
    BY <1>3, <1>0 DEF NotLoaded, Creating, BindingsTyped, UsedByStage, ClosedByStage, Released,
       Resources, UnderWay
  <2> QED
    BY <2>1, <2>2, <2>3, <2>4 DEF BindingsInv
<1>4. CASE Loaded
  <2>1. BindingsFlags'
    BY <1>4, <1>0, Zenon DEF Loaded, Creating, BindingsFlags
  <2>2. BindingsTyped'
    BY <1>4, <1>0 DEF Loaded, Creating, BindingsTyped
  <2>3. UsedByStage'
    BY <1>4, <1>0 DEF Loaded, Creating, BindingsTyped, UsedByStage, ClosedByStage, Released,
       Resources
  <2>4. ClosedByStage'
    BY <1>4, <1>0 DEF Loaded, Creating, BindingsTyped, UsedByStage, ClosedByStage, Released,
       Resources, UnderWay
  <2> QED
    BY <2>1, <2>2, <2>3, <2>4 DEF BindingsInv
<1>5. CASE SessionsConnect
  <2>1. BindingsFlags'
    BY <1>5, <1>0, Zenon DEF SessionsConnect, Creating, BindingsFlags
  <2>2. BindingsTyped'
    BY <1>5, <1>0 DEF SessionsConnect, Creating, BindingsTyped
  <2>3. UsedByStage'
    BY <1>5, <1>0 DEF SessionsConnect, Creating, BindingsTyped, UsedByStage, ClosedByStage,
       Released, Resources
  <2>4. ClosedByStage'
    BY <1>5, <1>0 DEF SessionsConnect, Creating, BindingsTyped, UsedByStage, ClosedByStage,
       Released, Resources, UnderWay
  <2> QED
    BY <2>1, <2>2, <2>3, <2>4 DEF BindingsInv
<1>6. CASE SessionsFail
  <2>1. BindingsFlags'
    BY <1>6, <1>0, Zenon DEF SessionsFail, Creating, CloseStored, Stored, BindingsFlags
  <2>2. BindingsTyped'
    BY <1>6, <1>0 DEF SessionsFail, Creating, CloseStored, Stored, BindingsTyped
  <2>3. UsedByStage'
    BY <1>6, <1>0 DEF SessionsFail, Creating, CloseStored, Stored, BindingsTyped, UsedByStage,
       ClosedByStage, Released, Resources
  <2>4. ClosedByStage'
    BY <1>6, <1>0 DEF SessionsFail, Creating, CloseStored, Stored, BindingsTyped, UsedByStage,
       ClosedByStage, Released, Resources, UnderWay
  <2> QED
    BY <2>1, <2>2, <2>3, <2>4 DEF BindingsInv
<1>7. CASE CompositionFails
  <2>1. BindingsFlags'
    BY <1>7, <1>0, Zenon DEF CompositionFails, Creating, CloseStored, Stored, BindingsFlags
  <2>2. BindingsTyped'
    BY <1>7, <1>0 DEF CompositionFails, Creating, CloseStored, Stored, BindingsTyped
  <2>3. UsedByStage'
    BY <1>7, <1>0 DEF CompositionFails, Creating, CloseStored, Stored, BindingsTyped, UsedByStage,
       ClosedByStage, Released, Resources
  <2>4. ClosedByStage'
    BY <1>7, <1>0 DEF CompositionFails, Creating, CloseStored, Stored, BindingsTyped, UsedByStage,
       ClosedByStage, Released, Resources, UnderWay
  <2> QED
    BY <2>1, <2>2, <2>3, <2>4 DEF BindingsInv
<1>8. CASE OpenSource
  <2>1. BindingsFlags'
    BY <1>8, <1>0, Zenon DEF OpenSource, Creating, BindingsFlags
  <2>2. BindingsTyped'
    BY <1>8, <1>0 DEF OpenSource, Creating, BindingsTyped
  <2>3. UsedByStage'
    BY <1>8, <1>0 DEF OpenSource, Creating, BindingsTyped, UsedByStage, ClosedByStage, Released,
       Resources
  <2>4. ClosedByStage'
    BY <1>8, <1>0 DEF OpenSource, Creating, BindingsTyped, UsedByStage, ClosedByStage, Released,
       Resources, UnderWay
  <2> QED
    BY <2>1, <2>2, <2>3, <2>4 DEF BindingsInv
<1>9. CASE SourceStarted
  <2>1. BindingsFlags'
    BY <1>9, <1>0, Zenon DEF SourceStarted, Creating, BindingsFlags
  <2>2. BindingsTyped'
    BY <1>9, <1>0 DEF SourceStarted, Creating, BindingsTyped
  <2>3. UsedByStage'
    BY <1>9, <1>0 DEF SourceStarted, Creating, BindingsTyped, UsedByStage, ClosedByStage, Released,
       Resources
  <2>4. ClosedByStage'
    BY <1>9, <1>0 DEF SourceStarted, Creating, BindingsTyped, UsedByStage, ClosedByStage, Released,
       Resources, UnderWay
  <2> QED
    BY <2>1, <2>2, <2>3, <2>4 DEF BindingsInv
<1>10. CASE NoSource
  <2>1. BindingsFlags'
    BY <1>10, <1>0, Zenon DEF NoSource, Creating, BindingsFlags
  <2>2. BindingsTyped'
    BY <1>10, <1>0 DEF NoSource, Creating, BindingsTyped
  <2>3. UsedByStage'
    BY <1>10, <1>0 DEF NoSource, Creating, BindingsTyped, UsedByStage, ClosedByStage, Released,
       Resources
  <2>4. ClosedByStage'
    BY <1>10, <1>0 DEF NoSource, Creating, BindingsTyped, UsedByStage, ClosedByStage, Released,
       Resources, UnderWay
  <2> QED
    BY <2>1, <2>2, <2>3, <2>4 DEF BindingsInv
<1>11. CASE CreationCleaned
  <2>1. BindingsFlags'
    BY <1>11, <1>0, Zenon DEF CreationCleaned, StoredSettled, NothingRefused, Stored, BindingsFlags
  <2>2. BindingsTyped'
    BY <1>11, <1>0 DEF CreationCleaned, StoredSettled, NothingRefused, Stored, BindingsTyped
  <2>3. UsedByStage'
    BY <1>11, <1>0 DEF CreationCleaned, StoredSettled, NothingRefused, Stored, BindingsTyped,
       UsedByStage, ClosedByStage, Released, Resources
  <2>4. ClosedByStage'
    BY <1>11, <1>0 DEF CreationCleaned, StoredSettled, NothingRefused, Stored, BindingsTyped,
       UsedByStage, ClosedByStage, Released, Resources, UnderWay
  <2> QED
    BY <2>1, <2>2, <2>3, <2>4 DEF BindingsInv
<1>12. CASE CleaningTimesOut
  <2>1. BindingsFlags'
    BY <1>12, <1>0, Zenon DEF CleaningTimesOut, BindingsFlags
  <2>2. BindingsTyped'
    BY <1>12, <1>0 DEF CleaningTimesOut, BindingsTyped
  <2>3. UsedByStage'
    BY <1>12, <1>0 DEF CleaningTimesOut, BindingsTyped, UsedByStage, ClosedByStage, Released,
       Resources
  <2>4. ClosedByStage'
    BY <1>12, <1>0 DEF CleaningTimesOut, BindingsTyped, UsedByStage, ClosedByStage, Released,
       Resources, UnderWay
  <2> QED
    BY <2>1, <2>2, <2>3, <2>4 DEF BindingsInv
<1>13. CASE Serve
  <2>1. BindingsFlags'
    BY <1>13, <1>0, Zenon DEF Serve, Creating, BindingsFlags
  <2>2. BindingsTyped'
    BY <1>13, <1>0 DEF Serve, Creating, BindingsTyped
  <2>3. UsedByStage'
    BY <1>13, <1>0 DEF Serve, Creating, BindingsTyped, UsedByStage, ClosedByStage, Released,
       Resources
  <2>4. ClosedByStage'
    BY <1>13, <1>0 DEF Serve, Creating, BindingsTyped, UsedByStage, ClosedByStage, Released,
       Resources, UnderWay
  <2> QED
    BY <2>1, <2>2, <2>3, <2>4 DEF BindingsInv
<1>14. ASSUME NEW r \in Resources, ResourceCloses(r) PROVE BindingsInv'
  <2>1. BindingsFlags'
    BY <1>14, <1>0, Zenon DEF ResourceCloses, BindingsFlags
  <2>2. BindingsTyped'
    BY <1>14, <1>0 DEF ResourceCloses, BindingsTyped
  <2>3. UsedByStage'
    BY <1>14, <1>0 DEF ResourceCloses, BindingsTyped, UsedByStage, ClosedByStage, Released,
       Resources
  <2>4. ClosedByStage'
    BY <1>14, <1>0 DEF ResourceCloses, BindingsTyped, UsedByStage, ClosedByStage, Released,
       Resources, UnderWay
  <2> QED
    BY <2>1, <2>2, <2>3, <2>4 DEF BindingsInv
<1>15. ASSUME NEW r \in Resources, ResourceBreaks(r) PROVE BindingsInv'
  <2>1. BindingsFlags'
    BY <1>15, <1>0, Zenon DEF ResourceBreaks, Stored, BindingsFlags
  <2>2. BindingsTyped'
    BY <1>15, <1>0 DEF ResourceBreaks, Stored, BindingsTyped
  <2>3. UsedByStage'
    BY <1>15, <1>0 DEF ResourceBreaks, Stored, BindingsTyped, UsedByStage, ClosedByStage, Released,
       Resources
  <2>4. ClosedByStage'
    BY <1>15, <1>0 DEF ResourceBreaks, Stored, BindingsTyped, UsedByStage, ClosedByStage, Released,
       Resources, UnderWay
  <2> QED
    BY <2>1, <2>2, <2>3, <2>4 DEF BindingsInv
<1>16. ASSUME NEW k \in CloseCalls, BeginClose(k) PROVE BindingsInv'
  <2>1. BindingsFlags'
    BY <1>16, <1>0, Zenon DEF BeginClose, EndSource, BindingsFlags
  <2>2. BindingsTyped'
    BY <1>16, <1>0 DEF BeginClose, EndSource, BindingsTyped
  <2>3. UsedByStage'
    BY <1>16, <1>0 DEF BeginClose, EndSource, BindingsTyped, UsedByStage, ClosedByStage, Released,
       Resources
  <2>4. ClosedByStage'
    BY <1>16, <1>0 DEF BeginClose, EndSource, BindingsTyped, UsedByStage, ClosedByStage, Released,
       Resources, UnderWay
  <2> QED
    BY <2>1, <2>2, <2>3, <2>4 DEF BindingsInv
<1>17. ASSUME NEW k \in CloseCalls, SourceClosed(k) PROVE BindingsInv'
  <2>1. BindingsFlags'
    BY <1>17, <1>0, Zenon DEF SourceClosed, CloseStored, Stored, BindingsFlags
  <2>2. BindingsTyped'
    BY <1>17, <1>0 DEF SourceClosed, CloseStored, Stored, BindingsTyped
  <2>3. UsedByStage'
    BY <1>17, <1>0 DEF SourceClosed, CloseStored, Stored, BindingsTyped, UsedByStage, ClosedByStage,
       Released, Resources
  <2>4. ClosedByStage'
    BY <1>17, <1>0 DEF SourceClosed, CloseStored, Stored, BindingsTyped, UsedByStage, ClosedByStage,
       Released, Resources, UnderWay
  <2> QED
    BY <2>1, <2>2, <2>3, <2>4 DEF BindingsInv
<1>18. ASSUME NEW k \in CloseCalls, StoredAreClosed(k) PROVE BindingsInv'
  <2>1. BindingsFlags'
    BY <1>18, <1>0, Zenon DEF StoredAreClosed, CloseEnds, StoredSettled, NothingRefused, Stored,
       BindingsFlags
  <2>2. BindingsTyped'
    BY <1>18, <1>0 DEF StoredAreClosed, CloseEnds, StoredSettled, NothingRefused, Stored,
       BindingsTyped
  <2>3. UsedByStage'
    BY <1>18, <1>0 DEF StoredAreClosed, CloseEnds, StoredSettled, NothingRefused, Stored,
       BindingsTyped, UsedByStage, ClosedByStage, Released, Resources
  <2>4. ClosedByStage'
    BY <1>18, <1>0 DEF StoredAreClosed, CloseEnds, StoredSettled, NothingRefused, Stored,
       BindingsTyped, UsedByStage, ClosedByStage, Released, Resources, UnderWay
  <2> QED
    BY <2>1, <2>2, <2>3, <2>4 DEF BindingsInv
<1>19. ASSUME NEW k \in CloseCalls, BindingsTimeOut(k) PROVE BindingsInv'
  <2>1. BindingsFlags'
    BY <1>19, <1>0, Zenon DEF BindingsTimeOut, CloseEnds, BindingsFlags
  <2>2. BindingsTyped'
    BY <1>19, <1>0 DEF BindingsTimeOut, CloseEnds, BindingsTyped
  <2>3. UsedByStage'
    BY <1>19, <1>0 DEF BindingsTimeOut, CloseEnds, BindingsTyped, UsedByStage, ClosedByStage,
       Released, Resources
  <2>4. ClosedByStage'
    BY <1>19, <1>0 DEF BindingsTimeOut, CloseEnds, BindingsTyped, UsedByStage, ClosedByStage,
       Released, Resources, UnderWay
  <2> QED
    BY <2>1, <2>2, <2>3, <2>4 DEF BindingsInv
<1> QED
  BY <1>1, <1>2, <1>3, <1>4, <1>5, <1>6, <1>7, <1>8, <1>9, <1>10, <1>11, <1>12, <1>13, <1>14,
     <1>15, <1>16, <1>17, <1>18, <1>19
     DEF BindingsNext

LEMMA BindingsMean ==
  BindingsInv => BindingsTypeOK /\ FailedStartIsReleased /\ ServesOrIsReleased
<1> SUFFICES ASSUME BindingsInv
             PROVE  BindingsTypeOK /\ FailedStartIsReleased /\ ServesOrIsReleased
  OBVIOUS
<1>1. BindingsTypeOK
  BY DEF BindingsInv, BindingsTypeOK, BindingsFlags, BindingsTyped
<1>2. FailedStartIsReleased
  BY DEF BindingsInv, UsedByStage, FailedStartIsReleased
<1>3. ServesOrIsReleased
  BY DEF BindingsInv, UsedByStage, ClosedByStage, UnderWay, ServesOrIsReleased
<1> QED
  BY <1>1, <1>2, <1>3

(* A start that ends in its own error, and a close that was not rejected,  *)
(* have left nothing open.                                                 *)
THEOREM BindingsAreReleased == BindingsSpec => [](FailedStartIsReleased /\ ServesOrIsReleased)
<1> QED
  BY BindingsStart, BindingsGoOn, BindingsMean, PTL DEF BindingsSpec

-----------------------------------------------------------------------------
(* Readiness: what an API is ready for was answered by what runs.          *)

FlagsTyped == {apiClosed, compatible, databaseHealthy} \subseteq BOOLEAN
ProbesTyped ==
  /\ capable \subseteq Capabilities /\ hanging \subseteq Capabilities
  /\ generation \in 0 .. MaxGeneration
  /\ startup \in [stage : {"none", "compatibility", "database", "capabilities"}, gen : 0 .. MaxGeneration]
  /\ databaseProbe \in [Generations -> {"none", "scheduled", "asked"}]
  /\ dependentProbe \in [Capabilities -> 0 .. MaxGeneration]
  /\ answeredIn \in [Capabilities -> 0 .. MaxGeneration]

ReadinessInv == FlagsTyped /\ ProbesTyped /\ ReadyIsCurrent

LEMMA ReadinessStarts == ReadinessInit => ReadinessInv
<1> SUFFICES ASSUME ReadinessInit PROVE ReadinessInv
  OBVIOUS
<1>1. FlagsTyped
  BY Zenon DEF ReadinessInit, FlagsTyped
<1>2. ProbesTyped
  BY ReadinessAssumption DEF ReadinessInit, ProbesTyped, Generations, NotStarting
<1>3. ReadyIsCurrent
  BY DEF ReadinessInit, ReadyIsCurrent
<1> QED
  BY <1>1, <1>2, <1>3 DEF ReadinessInv

LEMMA ReadinessGoesOn == ReadinessInv /\ [ReadinessNext]_readyVars => ReadinessInv'
<1> SUFFICES ASSUME ReadinessInv, [ReadinessNext]_readyVars PROVE ReadinessInv'
  OBVIOUS
<1>0. FlagsTyped /\ ProbesTyped /\ ReadyIsCurrent
  BY DEF ReadinessInv
<1>1. CASE UNCHANGED readyVars
  BY <1>1, <1>0 DEF readyVars, ReadinessInv, FlagsTyped, ProbesTyped, ReadyIsCurrent
<1>2. CASE CheckCompatibility
  <2>1. FlagsTyped'
    BY <1>2, <1>0, Zenon DEF CheckCompatibility, FlagsTyped
  <2>2. ProbesTyped'
    BY <1>2, <1>0, ReadinessAssumption DEF CheckCompatibility, ProbesTyped
  <2>3. ReadyIsCurrent'
    BY <1>2, <1>0 DEF CheckCompatibility, ReadyIsCurrent
  <2> QED
    BY <2>1, <2>2, <2>3 DEF ReadinessInv
<1>3. CASE Compatible
  <2>1. FlagsTyped'
    BY <1>3, <1>0, Zenon DEF Compatible, StopProbes, FlagsTyped
  <2>2. ProbesTyped'
    BY <1>3, <1>0, ReadinessAssumption DEF Compatible, StopProbes, ProbesTyped, Generations
  <2>3. ReadyIsCurrent'
    BY <1>3, <1>0 DEF Compatible, StopProbes, ReadyIsCurrent
  <2> QED
    BY <2>1, <2>2, <2>3 DEF ReadinessInv
<1>4. CASE Incompatible
  <2>1. FlagsTyped'
    BY <1>4, <1>0, Zenon DEF Incompatible, FlagsTyped
  <2>2. ProbesTyped' /\ ReadyIsCurrent'
    BY <1>4, <1>0, ReadinessAssumption DEF Incompatible, NotStarting, ProbesTyped, ReadyIsCurrent
  <2> QED
    BY <2>1, <2>2 DEF ReadinessInv
<1>5. ASSUME NEW well \in BOOLEAN, DatabaseFound(well) PROVE ReadinessInv'
  <2>1. FlagsTyped'
    BY <1>5, <1>0, Zenon DEF DatabaseFound, Down, FlagsTyped
  <2>2. ProbesTyped'
    <3>1. startup.gen \in 0 .. MaxGeneration /\ startup.gen = generation
      BY <1>5, <1>0, Zenon DEF DatabaseFound, Obsolete, ProbesTyped
    <3>2. \/ UNCHANGED databaseProbe \/ Schedule(startup.gen)
      BY <1>5, Zenon DEF DatabaseFound
    <3>3. databaseProbe' \in [Generations -> {"none", "scheduled", "asked"}]
      BY <3>2, <1>0 DEF Schedule, ProbesTyped
    <3>4. UNCHANGED <<dependentProbe, hanging>> \/ AskCapabilities(startup.gen)
      BY <1>5, Zenon DEF DatabaseFound
    <3>5. dependentProbe' \in [Capabilities -> 0 .. MaxGeneration] /\ hanging' \subseteq Capabilities
      BY <3>1, <3>4, <1>0 DEF AskCapabilities, ProbesTyped
    <3>6. startup' = NotStarting \/ startup' = [startup EXCEPT !.stage = "capabilities"]
      BY <1>5, Zenon DEF DatabaseFound
    <3>7. startup' \in [stage : {"none", "compatibility", "database", "capabilities"},
                        gen : 0 .. MaxGeneration]
      BY <3>6, <1>0, ReadinessAssumption DEF NotStarting, ProbesTyped
    <3>8. capable' \subseteq capable /\ UNCHANGED <<generation, answeredIn>>
      BY <1>5 DEF DatabaseFound, Down
    <3> QED
      BY <3>3, <3>5, <3>7, <3>8, <1>0 DEF ProbesTyped
  <2>3. ReadyIsCurrent'
    BY <1>5, <1>0 DEF DatabaseFound, Down, Schedule, AskCapabilities, Obsolete, ReadyIsCurrent,
       ProbesTyped, Generations
  <2> QED
    BY <2>1, <2>2, <2>3 DEF ReadinessInv
<1>6. CASE CapabilitiesFound
  <2>1. FlagsTyped'
    BY <1>6, <1>0, Zenon DEF CapabilitiesFound, FlagsTyped
  <2>2. ProbesTyped'
    <3>1. startup' = NotStarting /\ databaseProbe' = [databaseProbe EXCEPT ![startup.gen] = "scheduled"]
      BY <1>6, Zenon DEF CapabilitiesFound, Schedule
    <3>2. UNCHANGED <<capable, generation, dependentProbe, hanging, answeredIn>>
      BY <1>6 DEF CapabilitiesFound
    <3>3. databaseProbe' \in [Generations -> {"none", "scheduled", "asked"}]
      BY <3>1, <1>0 DEF ProbesTyped
    <3>4. startup' \in [stage : {"none", "compatibility", "database", "capabilities"},
                        gen : 0 .. MaxGeneration]
      BY <3>1, ReadinessAssumption DEF NotStarting
    <3> QED
      BY <3>2, <3>3, <3>4, <1>0 DEF ProbesTyped
  <2>3. ReadyIsCurrent'
    BY <1>6, <1>0 DEF CapabilitiesFound, Schedule, Obsolete, ProbesTyped, ReadyIsCurrent,
       Generations
  <2> QED
    BY <2>1, <2>2, <2>3 DEF ReadinessInv
<1>7. CASE generation < MaxGeneration /\ StartFailed
  <2>1. FlagsTyped'
    BY <1>7, <1>0, Zenon DEF StartFailed, StopProbes, FlagsTyped
  <2>2. ProbesTyped'
    BY <1>7, <1>0, ReadinessAssumption DEF StartFailed, StopProbes, NotStarting, ProbesTyped,
       Generations
  <2>3. ReadyIsCurrent'
    BY <1>7, <1>0 DEF StartFailed, StopProbes, ReadyIsCurrent
  <2> QED
    BY <2>1, <2>2, <2>3 DEF ReadinessInv
<1>8. CASE generation < MaxGeneration /\ CloseBindings
  <2>1. FlagsTyped'
    BY <1>8, <1>0, Zenon DEF CloseBindings, StopProbes, FlagsTyped
  <2>2. ProbesTyped'
    BY <1>8, <1>0, ReadinessAssumption DEF CloseBindings, StopProbes, ProbesTyped, Generations
  <2>3. ReadyIsCurrent'
    BY <1>8, <1>0 DEF CloseBindings, StopProbes, ReadyIsCurrent
  <2> QED
    BY <2>1, <2>2, <2>3 DEF ReadinessInv
<1>9. ASSUME NEW g \in Generations, ProbeDatabase(g) PROVE ReadinessInv'
  <2>1. FlagsTyped'
    BY <1>9, <1>0, Zenon DEF ProbeDatabase, FlagsTyped
  <2>2. ProbesTyped' /\ ReadyIsCurrent'
    BY <1>9, <1>0 DEF ProbeDatabase, ProbesTyped, ReadyIsCurrent
  <2> QED
    BY <2>1, <2>2 DEF ReadinessInv
<1>10. ASSUME NEW g \in Generations, NEW well \in BOOLEAN, DatabaseAnswers(g, well)
       PROVE ReadinessInv'
  <2>1. FlagsTyped'
    BY <1>10, <1>0, Zenon DEF DatabaseAnswers, PublishHealth, Down, FlagsTyped
  <2>2. ProbesTyped'
    <3>1. Schedule(g) \/ databaseProbe' = [databaseProbe EXCEPT ![g] = "none"]
      BY <1>10, Zenon DEF DatabaseAnswers, PublishHealth
    <3>2. databaseProbe' \in [Generations -> {"none", "scheduled", "asked"}]
      BY <3>1, <1>0 DEF Schedule, ProbesTyped
    <3>3. UNCHANGED <<dependentProbe, hanging>> \/ AskCapabilities(g)
      BY <1>10, Zenon DEF DatabaseAnswers, PublishHealth
    <3>4. dependentProbe' \in [Capabilities -> 0 .. MaxGeneration] /\ hanging' \subseteq Capabilities
      BY <3>3, <1>0, ReadinessAssumption DEF AskCapabilities, ProbesTyped, Generations
    <3>5. capable' \subseteq capable /\ UNCHANGED <<generation, startup, answeredIn>>
      BY <1>10 DEF DatabaseAnswers, PublishHealth, Down
    <3> QED
      BY <3>2, <3>4, <3>5, <1>0 DEF ProbesTyped
  <2>3. ReadyIsCurrent'
    BY <1>10, <1>0 DEF DatabaseAnswers, PublishHealth, Obsolete, Schedule, AskCapabilities, Down,
       ReadyIsCurrent, ProbesTyped
  <2> QED
    BY <2>1, <2>2, <2>3 DEF ReadinessInv
<1>11. ASSUME NEW c \in Capabilities, ProbeCompletes(c) PROVE ReadinessInv'
  <2>1. FlagsTyped'
    BY <1>11, <1>0, Zenon DEF ProbeCompletes, FlagsTyped
  <2>2. ProbesTyped' /\ ReadyIsCurrent'
    BY <1>11, <1>0 DEF ProbeCompletes, ProbesTyped, ReadyIsCurrent
  <2> QED
    BY <2>1, <2>2 DEF ReadinessInv
<1>12. ASSUME NEW c \in Capabilities, NEW well \in BOOLEAN, CapabilityAnswers(c, well)
       PROVE ReadinessInv'
  <2>1. FlagsTyped'
    BY <1>12, <1>0, Zenon DEF CapabilityAnswers, FlagsTyped
  <2>2. ProbesTyped'
    BY <1>12, <1>0, ReadinessAssumption DEF CapabilityAnswers, BoundedCheck, ProbesTyped
  <2>3. ReadyIsCurrent'
    BY <1>12, <1>0 DEF CapabilityAnswers, Obsolete, ReadyIsCurrent, ProbesTyped
  <2> QED
    BY <2>1, <2>2, <2>3 DEF ReadinessInv
<1> QED
  BY <1>1, <1>2, <1>3, <1>4, <1>5, <1>6, <1>7, <1>8, <1>9, <1>10, <1>11, <1>12
     DEF ReadinessNext, StartupNext

LEMMA ReadinessMeans == ReadinessInv => ReadinessTypeOK /\ ReadyIsCurrent
BY DEF ReadinessInv, FlagsTyped, ProbesTyped, ReadinessTypeOK

(* Readiness is never the answer to a probe of another generation.         *)
THEOREM ReadinessIsCurrent == ReadinessSpec => []ReadyIsCurrent
<1> QED
  BY ReadinessMeans, ReadinessStarts, ReadinessGoesOn, PTL DEF ReadinessSpec

-----------------------------------------------------------------------------
(* The scripts that set an installation up.                                *)

FilesTyped ==
  /\ drawn \in 0 .. MaxDrawn
  /\ secretFile \in [LocalSecrets -> 0 .. NoFile]
  /\ urlFile \in [UrlFiles -> [state : {"absent", "empty", "url"}, password : 0 .. MaxDrawn]]
  /\ cluster \in [up : BOOLEAN, migrated : BOOLEAN, migration : 0 .. MaxDrawn, app : 0 .. MaxDrawn]
  /\ installed \in [state : {"none", "created", "changed"}, password : 0 .. MaxDrawn]
  /\ lockedBy \in Shells \cup {NoShell}
ShellSteps ==
  {"rest", "create", "fill", "url", "fillUrl", "work", "start", "serving", "lock", "examine", "insert",
   "collided"}
ShellStates ==
  [command : SetUpCommands \cup {"none"}, step : ShellSteps,
   name : LocalSecrets, held : 0 .. MaxDrawn]

ShellsTyped == shellRun \in [Shells -> ShellStates]

(* The files exist that a command has been past.                           *)
FilesInOrder ==
  \A p \in Shells :
    /\ shellRun[p].step \in {"create", "fill"} =>
         /\ shellRun[p].name # "migration" => secretFile["migration"] # NoFile
         /\ shellRun[p].name = "admin" => secretFile["app"] # NoFile
    /\ shellRun[p].step \notin {"rest", "create", "fill", "collided"} =>
         \A s \in LocalSecrets : secretFile[s] # NoFile

(* A file that a command is about to fill is empty, and no other command   *)
(* is about to fill it.                                                    *)
OneFills ==
  \A p \in Shells : shellRun[p].step = "fill" =>
    /\ secretFile[shellRun[p].name] = 0
    /\ \A q \in Shells :
         shellRun[q].step = "fill" /\ shellRun[q].name = shellRun[p].name => q = p

LockIsHeld == \A p \in Shells : shellRun[p].step \in {"examine", "insert"} <=> lockedBy = p

(* What the holder of the lock has found is still there.                   *)
InsertsAlone ==
  \A p \in Shells :
    /\ shellRun[p].step = "insert" =>
         installed.state = "none" /\ shellRun[p].held # 0 /\ shellRun[p].held = secretFile["admin"]
    /\ shellRun[p].step # "collided"

LocalInv ==
  FilesTyped /\ ShellsTyped /\ FilesInOrder /\ OneFills /\ LockIsHeld /\ InsertsAlone /\ SecretsOpenTheInstallation

LEMMA LocalStarts == LocalInit => LocalInv
BY LocalBootstrapAssumption DEF LocalInit, LocalInv, FilesTyped, ShellsTyped, FilesInOrder,
   OneFills, LockIsHeld, InsertsAlone,
   SecretsOpenTheInstallation, ShellAtRest, NoUrl, NoFile, LocalSecrets, UrlFiles, ShellStates, ShellSteps

(* What becomes of the state of a command is one.                          *)
LEMMA ShellStatesAreKept ==
  ASSUME NEW r \in ShellStates, NEW c \in SetUpCommands, NEW s \in ShellSteps, NEW h \in 0 .. MaxDrawn
  PROVE  /\ [r EXCEPT !.command = c, !.step = s] \in ShellStates
         /\ [r EXCEPT !.step = s, !.held = h] \in ShellStates
BY DEF ShellStates

LEMMA LocalGoesOn == LocalInv /\ [LocalNext]_localVars => LocalInv'
<1> SUFFICES ASSUME LocalInv, [LocalNext]_localVars PROVE LocalInv'
  OBVIOUS
<1>0. FilesTyped /\ ShellsTyped /\ FilesInOrder /\ OneFills /\ LockIsHeld /\ InsertsAlone /\ SecretsOpenTheInstallation
  BY DEF LocalInv
<1> USE LocalBootstrapAssumption DEF NoFile, LocalSecrets, UrlFiles, NoUrl, EmptyUrl, UrlWith, ShellStates, ShellSteps, StandsAt, StepsTo, CommandEnds,
        NextName, NameAfter, PreparedAll, ShellAtRest, LocalConnects, BootstrapUnlocks
<1>1. CASE UNCHANGED localVars
  BY <1>1, <1>0 DEF localVars, LocalInv, FilesTyped, ShellsTyped, FilesInOrder, OneFills,
     LockIsHeld, InsertsAlone,
     SecretsOpenTheInstallation
<1>2. CASE AdministratorChanges
  <2>1. FilesTyped'
    BY <1>2, <1>0 DEF AdministratorChanges, FilesTyped, ShellsTyped, FilesInOrder, InsertsAlone
  <2>2. ShellsTyped'
    BY <1>2, <1>0 DEF AdministratorChanges, FilesTyped, ShellsTyped, FilesInOrder, InsertsAlone
  <2>3. FilesInOrder'
    BY <1>2, <1>0 DEF AdministratorChanges, FilesTyped, ShellsTyped, FilesInOrder
  <2>4. OneFills'
    BY <1>2, <1>0 DEF AdministratorChanges, FilesTyped, ShellsTyped, OneFills
  <2>5. LockIsHeld'
    BY <1>2, <1>0 DEF AdministratorChanges, FilesTyped, ShellsTyped, LockIsHeld
  <2>6. InsertsAlone'
    BY <1>2, <1>0 DEF AdministratorChanges, FilesTyped, ShellsTyped, LockIsHeld, InsertsAlone,
       OneFills
  <2>7. SecretsOpenTheInstallation'
    BY <1>2, <1>0 DEF AdministratorChanges, FilesTyped, ShellsTyped, FilesInOrder, OneFills,
       InsertsAlone, SecretsOpenTheInstallation
  <2> QED
    BY <2>1, <2>2, <2>3, <2>4, <2>5, <2>6, <2>7 DEF LocalInv
<1>3. ASSUME NEW p \in Shells, NEW c \in SetUpCommands, RunCommand(p, c) PROVE LocalInv'
  <2>1. FilesTyped'
    BY <1>3, <1>0 DEF RunCommand, FilesTyped, ShellsTyped, FilesInOrder, InsertsAlone
  <2>2. ShellsTyped'
    <3>1. ShellAtRest \in ShellStates /\ "create" \in ShellSteps /\ 0 \in 0 .. MaxDrawn
      OBVIOUS
    <3> HIDE DEF ShellAtRest, ShellStates, ShellSteps
    <3>2. [ShellAtRest EXCEPT !.command = c, !.step = "create"] \in ShellStates
      BY <3>1, ShellStatesAreKept
    <3>3. shellRun' = [shellRun EXCEPT ![p] = [ShellAtRest EXCEPT !.command = c, !.step = "create"]]
      BY <1>3 DEF RunCommand
    <3> QED
      BY <3>2, <3>3, <1>0 DEF ShellsTyped
  <2>3. FilesInOrder'
    BY <1>3, <1>0 DEF RunCommand, FilesTyped, ShellsTyped, FilesInOrder
  <2>4. OneFills'
    BY <1>3, <1>0 DEF RunCommand, FilesTyped, ShellsTyped, OneFills
  <2>5. LockIsHeld'
    BY <1>3, <1>0 DEF RunCommand, FilesTyped, ShellsTyped, LockIsHeld
  <2>6. InsertsAlone'
    BY <1>3, <1>0 DEF RunCommand, FilesTyped, ShellsTyped, LockIsHeld, InsertsAlone, OneFills
  <2>7. SecretsOpenTheInstallation'
    BY <1>3, <1>0 DEF RunCommand, FilesTyped, ShellsTyped, FilesInOrder, OneFills, InsertsAlone,
       SecretsOpenTheInstallation
  <2> QED
    BY <2>1, <2>2, <2>3, <2>4, <2>5, <2>6, <2>7 DEF LocalInv
<1>4. ASSUME NEW p \in Shells, CreateSecret(p) PROVE LocalInv'
  <2>1. FilesTyped'
    BY <1>4, <1>0 DEF CreateSecret, FilesTyped, ShellsTyped, FilesInOrder, InsertsAlone
  <2>2. ShellsTyped'
    BY <1>4, <1>0 DEF CreateSecret, FilesTyped, ShellsTyped, FilesInOrder, InsertsAlone
  <2>3. FilesInOrder'
    BY <1>4, <1>0 DEF CreateSecret, FilesTyped, ShellsTyped, FilesInOrder
  <2>4. OneFills'
    BY <1>4, <1>0 DEF CreateSecret, FilesTyped, ShellsTyped, OneFills
  <2>5. LockIsHeld'
    BY <1>4, <1>0 DEF CreateSecret, FilesTyped, ShellsTyped, LockIsHeld
  <2>6. InsertsAlone'
    BY <1>4, <1>0 DEF CreateSecret, FilesTyped, ShellsTyped, LockIsHeld, InsertsAlone, OneFills
  <2>7. SecretsOpenTheInstallation'
    BY <1>4, <1>0 DEF CreateSecret, FilesTyped, ShellsTyped, FilesInOrder, OneFills, InsertsAlone,
       SecretsOpenTheInstallation
  <2> QED
    BY <2>1, <2>2, <2>3, <2>4, <2>5, <2>6, <2>7 DEF LocalInv
<1>5. ASSUME NEW p \in Shells, FillSecret(p) PROVE LocalInv'
  <2>1. FilesTyped'
    BY <1>5, <1>0 DEF FillSecret, FilesTyped, ShellsTyped, FilesInOrder, InsertsAlone
  <2>2. ShellsTyped'
    BY <1>5, <1>0 DEF FillSecret, FilesTyped, ShellsTyped, FilesInOrder, InsertsAlone
  <2>3. FilesInOrder'
    BY <1>5, <1>0 DEF FillSecret, FilesTyped, ShellsTyped, FilesInOrder
  <2>4. OneFills'
    BY <1>5, <1>0 DEF FillSecret, FilesTyped, ShellsTyped, OneFills
  <2>5. LockIsHeld'
    BY <1>5, <1>0 DEF FillSecret, FilesTyped, ShellsTyped, LockIsHeld
  <2>6. InsertsAlone'
    BY <1>5, <1>0 DEF FillSecret, FilesTyped, ShellsTyped, LockIsHeld, InsertsAlone, OneFills
  <2>7. SecretsOpenTheInstallation'
    BY <1>5, <1>0 DEF FillSecret, FilesTyped, ShellsTyped, FilesInOrder, OneFills, InsertsAlone,
       SecretsOpenTheInstallation
  <2> QED
    BY <2>1, <2>2, <2>3, <2>4, <2>5, <2>6, <2>7 DEF LocalInv
<1>6. ASSUME NEW p \in Shells, CreateUrl(p) PROVE LocalInv'
  <2>1. FilesTyped'
    BY <1>6, <1>0 DEF CreateUrl, FilesTyped, ShellsTyped, FilesInOrder, InsertsAlone
  <2>2. ShellsTyped'
    BY <1>6, <1>0 DEF CreateUrl, FilesTyped, ShellsTyped, FilesInOrder, InsertsAlone
  <2>3. FilesInOrder'
    BY <1>6, <1>0 DEF CreateUrl, FilesTyped, ShellsTyped, FilesInOrder
  <2>4. OneFills'
    BY <1>6, <1>0 DEF CreateUrl, FilesTyped, ShellsTyped, OneFills
  <2>5. LockIsHeld'
    BY <1>6, <1>0 DEF CreateUrl, FilesTyped, ShellsTyped, LockIsHeld
  <2>6. InsertsAlone'
    BY <1>6, <1>0 DEF CreateUrl, FilesTyped, ShellsTyped, LockIsHeld, InsertsAlone, OneFills
  <2>7. SecretsOpenTheInstallation'
    BY <1>6, <1>0 DEF CreateUrl, FilesTyped, ShellsTyped, FilesInOrder, OneFills, InsertsAlone,
       SecretsOpenTheInstallation
  <2> QED
    BY <2>1, <2>2, <2>3, <2>4, <2>5, <2>6, <2>7 DEF LocalInv
<1>7. ASSUME NEW p \in Shells, FillUrl(p) PROVE LocalInv'
  <2>1. FilesTyped'
    BY <1>7, <1>0 DEF FillUrl, FilesTyped, ShellsTyped, FilesInOrder, InsertsAlone
  <2>2. ShellsTyped'
    <3>1. "work" \in ShellSteps /\ 0 \in 0 .. MaxDrawn /\ "infra" \in SetUpCommands
      BY DEF SetUpCommands
    <3> HIDE DEF ShellStates, ShellSteps
    <3>2. shellRun' = [shellRun EXCEPT ![p] = [shellRun[p] EXCEPT !.step = "work", !.held = 0]]
      BY <1>7, Zenon DEF FillUrl
    <3>3. [shellRun[p] EXCEPT !.step = "work", !.held = 0] \in ShellStates
      BY <3>1, <1>0, ShellStatesAreKept DEF ShellsTyped
    <3> QED
      BY <3>2, <3>3, <1>0 DEF ShellsTyped
  <2>3. FilesInOrder'
    BY <1>7, <1>0 DEF FillUrl, FilesTyped, ShellsTyped, FilesInOrder
  <2>4. OneFills'
    BY <1>7, <1>0 DEF FillUrl, FilesTyped, ShellsTyped, OneFills
  <2>5. LockIsHeld'
    BY <1>7, <1>0 DEF FillUrl, FilesTyped, ShellsTyped, LockIsHeld
  <2>6. InsertsAlone'
    BY <1>7, <1>0 DEF FillUrl, FilesTyped, ShellsTyped, LockIsHeld, InsertsAlone, OneFills
  <2>7. SecretsOpenTheInstallation'
    BY <1>7, <1>0 DEF FillUrl, FilesTyped, ShellsTyped, FilesInOrder, OneFills, InsertsAlone,
       SecretsOpenTheInstallation
  <2> QED
    BY <2>1, <2>2, <2>3, <2>4, <2>5, <2>6, <2>7 DEF LocalInv
<1>8. ASSUME NEW p \in Shells, Infra(p) PROVE LocalInv'
  <2>1. FilesTyped'
    <3>1. /\ UNCHANGED <<drawn, secretFile, urlFile, installed, lockedBy>>
          /\ \/ cluster' = cluster
             \/ cluster' = [cluster EXCEPT !.up = TRUE, !.migration = secretFile["migration"],
                                          !.app = secretFile["app"]]
      BY <1>8, Zenon DEF Infra
    <3>2. secretFile["migration"] \in 0 .. MaxDrawn /\ secretFile["app"] \in 0 .. MaxDrawn
      BY <1>8, <1>0 DEF Infra, FilesTyped, FilesInOrder
    <3>3. cluster' \in [up : BOOLEAN, migrated : BOOLEAN, migration : 0 .. MaxDrawn, app : 0 .. MaxDrawn]
      BY <3>1, <3>2, <1>0 DEF FilesTyped
    <3>4. UNCHANGED <<drawn, secretFile, urlFile, installed, lockedBy>>
      BY <3>1
    <3> QED
      BY <3>3, <3>4, <1>0 DEF FilesTyped
  <2>2. ShellsTyped'
    BY <1>8, <1>0 DEF Infra, FilesTyped, ShellsTyped, FilesInOrder, InsertsAlone
  <2>3. FilesInOrder'
    BY <1>8, <1>0 DEF Infra, FilesTyped, ShellsTyped, FilesInOrder
  <2>4. OneFills'
    BY <1>8, <1>0 DEF Infra, FilesTyped, ShellsTyped, OneFills
  <2>5. LockIsHeld'
    BY <1>8, <1>0 DEF Infra, FilesTyped, ShellsTyped, LockIsHeld
  <2>6. InsertsAlone'
    BY <1>8, <1>0 DEF Infra, FilesTyped, ShellsTyped, LockIsHeld, InsertsAlone, OneFills
  <2>7. SecretsOpenTheInstallation'
    BY <1>8, <1>0 DEF Infra, FilesTyped, ShellsTyped, FilesInOrder, OneFills, InsertsAlone,
       SecretsOpenTheInstallation
  <2> QED
    BY <2>1, <2>2, <2>3, <2>4, <2>5, <2>6, <2>7 DEF LocalInv
<1>9. ASSUME NEW p \in Shells, MigrateLocal(p) PROVE LocalInv'
  <2>1. FilesTyped'
    BY <1>9, <1>0 DEF MigrateLocal, FilesTyped, ShellsTyped, FilesInOrder, InsertsAlone
  <2>2. ShellsTyped'
    BY <1>9, <1>0 DEF MigrateLocal, FilesTyped, ShellsTyped, FilesInOrder, InsertsAlone
  <2>3. FilesInOrder'
    BY <1>9, <1>0 DEF MigrateLocal, FilesTyped, ShellsTyped, FilesInOrder
  <2>4. OneFills'
    BY <1>9, <1>0 DEF MigrateLocal, FilesTyped, ShellsTyped, OneFills
  <2>5. LockIsHeld'
    BY <1>9, <1>0 DEF MigrateLocal, FilesTyped, ShellsTyped, LockIsHeld
  <2>6. InsertsAlone'
    BY <1>9, <1>0 DEF MigrateLocal, FilesTyped, ShellsTyped, LockIsHeld, InsertsAlone, OneFills
  <2>7. SecretsOpenTheInstallation'
    BY <1>9, <1>0 DEF MigrateLocal, FilesTyped, ShellsTyped, FilesInOrder, OneFills, InsertsAlone,
       SecretsOpenTheInstallation
  <2> QED
    BY <2>1, <2>2, <2>3, <2>4, <2>5, <2>6, <2>7 DEF LocalInv
<1>10. ASSUME NEW p \in Shells, ConnectToBootstrap(p) PROVE LocalInv'
  <2>1. FilesTyped'
    BY <1>10, <1>0 DEF ConnectToBootstrap, FilesTyped, ShellsTyped, FilesInOrder, InsertsAlone
  <2>2. ShellsTyped'
    BY <1>10, <1>0 DEF ConnectToBootstrap, FilesTyped, ShellsTyped, FilesInOrder, InsertsAlone
  <2>3. FilesInOrder'
    BY <1>10, <1>0 DEF ConnectToBootstrap, FilesTyped, ShellsTyped, FilesInOrder
  <2>4. OneFills'
    BY <1>10, <1>0 DEF ConnectToBootstrap, FilesTyped, ShellsTyped, OneFills
  <2>5. LockIsHeld'
    BY <1>10, <1>0 DEF ConnectToBootstrap, FilesTyped, ShellsTyped, LockIsHeld
  <2>6. InsertsAlone'
    BY <1>10, <1>0 DEF ConnectToBootstrap, FilesTyped, ShellsTyped, LockIsHeld, InsertsAlone,
       OneFills
  <2>7. SecretsOpenTheInstallation'
    BY <1>10, <1>0 DEF ConnectToBootstrap, FilesTyped, ShellsTyped, FilesInOrder, OneFills,
       InsertsAlone, SecretsOpenTheInstallation
  <2> QED
    BY <2>1, <2>2, <2>3, <2>4, <2>5, <2>6, <2>7 DEF LocalInv
<1>11. ASSUME NEW p \in Shells, LockBootstrap(p) PROVE LocalInv'
  <2>1. FilesTyped'
    BY <1>11, <1>0 DEF LockBootstrap, FilesTyped, ShellsTyped, FilesInOrder, InsertsAlone
  <2>2. ShellsTyped'
    BY <1>11, <1>0 DEF LockBootstrap, FilesTyped, ShellsTyped, FilesInOrder, InsertsAlone
  <2>3. FilesInOrder'
    BY <1>11, <1>0 DEF LockBootstrap, FilesTyped, ShellsTyped, FilesInOrder
  <2>4. OneFills'
    BY <1>11, <1>0 DEF LockBootstrap, FilesTyped, ShellsTyped, OneFills
  <2>5. LockIsHeld'
    BY <1>11, <1>0 DEF LockBootstrap, FilesTyped, ShellsTyped, LockIsHeld
  <2>6. InsertsAlone'
    BY <1>11, <1>0 DEF LockBootstrap, FilesTyped, ShellsTyped, LockIsHeld, InsertsAlone, OneFills
  <2>7. SecretsOpenTheInstallation'
    BY <1>11, <1>0 DEF LockBootstrap, FilesTyped, ShellsTyped, FilesInOrder, OneFills, InsertsAlone,
       SecretsOpenTheInstallation
  <2> QED
    BY <2>1, <2>2, <2>3, <2>4, <2>5, <2>6, <2>7 DEF LocalInv
<1>12. ASSUME NEW p \in Shells, ExamineInstallation(p) PROVE LocalInv'
  <2>1. FilesTyped'
    BY <1>12, <1>0 DEF ExamineInstallation, FilesTyped, ShellsTyped, FilesInOrder, InsertsAlone
  <2>2. ShellsTyped'
    BY <1>12, <1>0 DEF ExamineInstallation, FilesTyped, ShellsTyped, FilesInOrder, InsertsAlone
  <2>3. FilesInOrder'
    BY <1>12, <1>0 DEF ExamineInstallation, FilesTyped, ShellsTyped, FilesInOrder
  <2>4. OneFills'
    BY <1>12, <1>0 DEF ExamineInstallation, FilesTyped, ShellsTyped, OneFills
  <2>5. LockIsHeld'
    BY <1>12, <1>0 DEF ExamineInstallation, FilesTyped, ShellsTyped, LockIsHeld
  <2>6. InsertsAlone'
    BY <1>12, <1>0 DEF ExamineInstallation, FilesTyped, ShellsTyped, LockIsHeld, InsertsAlone,
       OneFills
  <2>7. SecretsOpenTheInstallation'
    BY <1>12, <1>0 DEF ExamineInstallation, FilesTyped, ShellsTyped, FilesInOrder, OneFills,
       InsertsAlone, SecretsOpenTheInstallation
  <2> QED
    BY <2>1, <2>2, <2>3, <2>4, <2>5, <2>6, <2>7 DEF LocalInv
<1>13. ASSUME NEW p \in Shells, InsertAdministrator(p) PROVE LocalInv'
  <2>1. FilesTyped'
    BY <1>13, <1>0 DEF InsertAdministrator, FilesTyped, ShellsTyped, FilesInOrder, InsertsAlone
  <2>2. ShellsTyped'
    BY <1>13, <1>0 DEF InsertAdministrator, FilesTyped, ShellsTyped, FilesInOrder, InsertsAlone
  <2>3. FilesInOrder'
    BY <1>13, <1>0 DEF InsertAdministrator, FilesTyped, ShellsTyped, FilesInOrder
  <2>4. OneFills'
    BY <1>13, <1>0 DEF InsertAdministrator, FilesTyped, ShellsTyped, OneFills
  <2>5. LockIsHeld'
    BY <1>13, <1>0 DEF InsertAdministrator, FilesTyped, ShellsTyped, LockIsHeld
  <2>6. InsertsAlone'
    BY <1>13, <1>0 DEF InsertAdministrator, FilesTyped, ShellsTyped, LockIsHeld, InsertsAlone,
       OneFills
  <2>7. SecretsOpenTheInstallation'
    BY <1>13, <1>0 DEF InsertAdministrator, FilesTyped, ShellsTyped, FilesInOrder, OneFills,
       InsertsAlone, SecretsOpenTheInstallation
  <2> QED
    BY <2>1, <2>2, <2>3, <2>4, <2>5, <2>6, <2>7 DEF LocalInv
<1>14. ASSUME NEW p \in Shells, WriteApiFiles(p) PROVE LocalInv'
  <2>1. FilesTyped'
    BY <1>14, <1>0 DEF WriteApiFiles, FilesTyped, ShellsTyped, FilesInOrder, InsertsAlone
  <2>2. ShellsTyped'
    BY <1>14, <1>0 DEF WriteApiFiles, FilesTyped, ShellsTyped, FilesInOrder, InsertsAlone
  <2>3. FilesInOrder'
    BY <1>14, <1>0 DEF WriteApiFiles, FilesTyped, ShellsTyped, FilesInOrder
  <2>4. OneFills'
    BY <1>14, <1>0 DEF WriteApiFiles, FilesTyped, ShellsTyped, OneFills
  <2>5. LockIsHeld'
    BY <1>14, <1>0 DEF WriteApiFiles, FilesTyped, ShellsTyped, LockIsHeld
  <2>6. InsertsAlone'
    BY <1>14, <1>0 DEF WriteApiFiles, FilesTyped, ShellsTyped, LockIsHeld, InsertsAlone, OneFills
  <2>7. SecretsOpenTheInstallation'
    BY <1>14, <1>0 DEF WriteApiFiles, FilesTyped, ShellsTyped, FilesInOrder, OneFills, InsertsAlone,
       SecretsOpenTheInstallation
  <2> QED
    BY <2>1, <2>2, <2>3, <2>4, <2>5, <2>6, <2>7 DEF LocalInv
<1>15. ASSUME NEW p \in Shells, StartApi(p) PROVE LocalInv'
  <2>1. FilesTyped'
    BY <1>15, <1>0 DEF StartApi, FilesTyped, ShellsTyped, FilesInOrder, InsertsAlone
  <2>2. ShellsTyped'
    BY <1>15, <1>0 DEF StartApi, FilesTyped, ShellsTyped, FilesInOrder, InsertsAlone
  <2>3. FilesInOrder'
    BY <1>15, <1>0 DEF StartApi, FilesTyped, ShellsTyped, FilesInOrder
  <2>4. OneFills'
    BY <1>15, <1>0 DEF StartApi, FilesTyped, ShellsTyped, OneFills
  <2>5. LockIsHeld'
    BY <1>15, <1>0 DEF StartApi, FilesTyped, ShellsTyped, LockIsHeld
  <2>6. InsertsAlone'
    BY <1>15, <1>0 DEF StartApi, FilesTyped, ShellsTyped, LockIsHeld, InsertsAlone, OneFills
  <2>7. SecretsOpenTheInstallation'
    BY <1>15, <1>0 DEF StartApi, FilesTyped, ShellsTyped, FilesInOrder, OneFills, InsertsAlone,
       SecretsOpenTheInstallation
  <2> QED
    BY <2>1, <2>2, <2>3, <2>4, <2>5, <2>6, <2>7 DEF LocalInv
<1>16. ASSUME NEW p \in Shells, CommandKilled(p) PROVE LocalInv'
  <2>1. FilesTyped'
    BY <1>16, <1>0 DEF CommandKilled, FilesTyped, ShellsTyped, FilesInOrder, InsertsAlone
  <2>2. ShellsTyped'
    BY <1>16, <1>0 DEF CommandKilled, FilesTyped, ShellsTyped, FilesInOrder, InsertsAlone
  <2>3. FilesInOrder'
    BY <1>16, <1>0 DEF CommandKilled, FilesTyped, ShellsTyped, FilesInOrder
  <2>4. OneFills'
    BY <1>16, <1>0 DEF CommandKilled, FilesTyped, ShellsTyped, OneFills
  <2>5. LockIsHeld'
    BY <1>16, <1>0 DEF CommandKilled, FilesTyped, ShellsTyped, LockIsHeld
  <2>6. InsertsAlone'
    BY <1>16, <1>0 DEF CommandKilled, FilesTyped, ShellsTyped, LockIsHeld, InsertsAlone, OneFills
  <2>7. SecretsOpenTheInstallation'
    BY <1>16, <1>0 DEF CommandKilled, FilesTyped, ShellsTyped, FilesInOrder, OneFills, InsertsAlone,
       SecretsOpenTheInstallation
  <2> QED
    BY <2>1, <2>2, <2>3, <2>4, <2>5, <2>6, <2>7 DEF LocalInv
<1> QED
  BY <1>1, <1>2, <1>3, <1>4, <1>5, <1>6, <1>7, <1>8, <1>9, <1>10, <1>11, <1>12, <1>13, <1>14, <1>15,
     <1>16 DEF LocalNext

LEMMA LocalMeans ==
  LocalInv => LocalTypeOK /\ SecretsOpenTheInstallation /\ BootstrapsDoNotCollide
BY DEF LocalInv, LocalTypeOK, FilesTyped, ShellsTyped, InsertsAlone, BootstrapsDoNotCollide,
   StandsAt,
   ShellStates, ShellSteps

(* The secrets stay those of the database and of the administrator, and no *)
(* two bootstraps fail on one another.                                     *)
THEOREM InstallationsOpen ==
  LocalSpec => [](SecretsOpenTheInstallation /\ BootstrapsDoNotCollide)
<1> QED
  BY LocalStarts, LocalGoesOn, LocalMeans, PTL DEF LocalSpec

-----------------------------------------------------------------------------
(* The integration scripts: what they put up they take down.               *)

Runs(s) == harness.step # "idle" /\ harness.script = s
HasEnded(s) == \E o \in {"passed", "failed", "killed"} : <<s, o>> \in endedRuns
Combined == {CombinedScripts[i] : i \in 1 .. Len(CombinedScripts)}
AllUnits == UNION {UnitsOf(s) : s \in DOMAIN Scripts}

HarnessSteps == {"idle", "taking", "waiting", "testing", "removing", "directory"}
HarnessStates ==
  [script : DOMAIN Scripts \cup {"none"}, step : HarnessSteps, at : Nat,
   failures : SUBSET {"primary", "removal"}, noted : SUBSET AllUnits]

ScriptTyped ==
  /\ harness \in HarnessStates
  /\ harness.step # "idle" => harness.script \in DOMAIN Scripts
  /\ harness.step \in {"taking", "removing"} => harness.at \in 1 .. Len(PlanNow.units)
  /\ harness.step = "directory" => harness.at = 0
RemainsTyped ==
  /\ taken \subseteq [script : DOMAIN Scripts, unit : AllUnits, state : {"made", "initial", "serving"}]
  /\ \A t \in taken : t.unit \in UnitsOf(t.script)
  /\ materials \subseteq DOMAIN Scripts
  /\ endedRuns \subseteq (DOMAIN Scripts) \X {"passed", "failed", "killed"}
  /\ combined \in {"no", "running", "passed", "failed"}

(* What is there is of the script that runs, which has its directory, or of*)
(* one that has ended; none runs twice.                                    *)
OfAScript ==
  /\ \A t \in taken : Runs(t.script) \/ HasEnded(t.script)
  /\ \A s \in materials : Runs(s) \/ HasEnded(s)
  /\ harness.step # "idle" => ~HasEnded(harness.script)
  /\ harness.step # "idle" /\ "directory" \in PlanNow.traits => harness.script \in materials

(* A unit is noted, or the script has failed; one that the removal is past *)
(* is gone, or a failure says so.                                          *)
FailuresAreNoted ==
  /\ \A t \in taken : Runs(t.script) => t.unit \in harness.noted \/ "primary" \in harness.failures
  /\ harness.step \in {"removing", "directory"} /\ "counts" \in PlanNow.traits =>
       \A i \in harness.at + 1 .. Len(PlanNow.units) :
         \/ \A t \in taken : t.script = harness.script => t.unit # PlanNow.units[i]
         \/ "removal" \in harness.failures
         \/ "notes" \in PlanNow.traits /\ "primary" \in harness.failures

(* The combined evidence runs nothing but its own scripts.                 *)
CombinedOnly ==
  /\ combined # "no" => /\ \A t \in taken : t.script \in Combined
                        /\ materials \subseteq Combined
                        /\ harness.step # "idle" => harness.script \in Combined
  /\ combined \in {"passed", "failed"} => harness.step = "idle"

CountedLeavesNothing ==
  \A s \in DOMAIN Scripts :
    "counts" \in Scripts[s].traits /\ <<s, "passed">> \in endedRuns
      => Kept(s) = {} /\ s \notin materials
PassedAreEmpty == combined = "passed" => taken = {} /\ materials = {}

HarnessInv ==
  /\ ScriptTyped /\ RemainsTyped /\ OfAScript /\ FailuresAreNoted /\ CombinedOnly
  /\ CountedLeavesNothing /\ PassedAreEmpty /\ SecretsAreRetained /\ TestedOnFinalServer

ScriptSound(p) ==
  /\ Len(p.units) \in Nat \ {0}
  /\ "retains" \in p.traits => {"directory", "counts"} \subseteq p.traits /\ "notes" \notin p.traits

(* What the scripts have in common.                                        *)
LEMMA ScriptsAreSound ==
  /\ \A s \in DOMAIN Scripts : ScriptSound(Scripts[s])
  /\ "none" \notin DOMAIN Scripts
<1> USE DEF ScriptSound, Plan, OneContainer, OneProject
<1>1. ScriptSound(OneContainer) /\ ScriptSound(OneProject)
  OBVIOUS
<1>2. ScriptSound(DatabaseScript) /\ ScriptSound(MainChainScript) /\ ScriptSound(ClamAvScript)
  BY DEF DatabaseScript, MainChainScript, ClamAvScript
<1>3. ScriptSound(EdgeScript) /\ ScriptSound(ComposeE2EScript) /\ ScriptSound(ComposeScript)
  BY DEF EdgeScript, ComposeE2EScript, ComposeScript
<1>4. ScriptSound(FlowableScript) /\ ScriptSound(RabbitScript) /\ ScriptSound(RabbitJobsScript)
  BY DEF FlowableScript, RabbitScript, RabbitJobsScript
<1>5. ScriptSound(BrowserScript) /\ ScriptSound(WorkforceScript)
  BY DEF BrowserScript, WorkforceScript
<1> HIDE DEF ScriptSound, Plan, OneContainer, OneProject
<1> QED
  BY <1>1, <1>2, <1>3, <1>4, <1>5
     DEF Scripts, EventingScript, TaskCenterScript, NotificationsScript, OrganizationScript, AuthorizationScript,
         AuditScript, ConfigurationScript, FormSchemaScript, FilesScript, WorkflowScript

LEMMA CombinedAreCounted ==
  Combined \subseteq DOMAIN Scripts /\ \A s \in Combined : "counts" \in Scripts[s].traits
<1>1. Combined = {"clamAv", "browser", "mainChain"}
  BY DEF Combined, CombinedScripts
<1>2. Combined \subseteq DOMAIN Scripts
  BY <1>1 DEF Scripts
<1>3. /\ Scripts["clamAv"] = ClamAvScript /\ Scripts["browser"] = BrowserScript
      /\ Scripts["mainChain"] = MainChainScript
  BY DEF Scripts
<1>4. \A s \in Combined : "counts" \in Scripts[s].traits
  BY <1>1, <1>3 DEF ClamAvScript, BrowserScript, MainChainScript, Plan
<1> QED
  BY <1>2, <1>4

(* What becomes of the state of a script is one.                           *)
LEMMA ScriptStarted ==
  ASSUME NEW r \in HarnessStates, NEW s \in DOMAIN Scripts, NEW x \in HarnessSteps, NEW n \in Nat
  PROVE  [r EXCEPT !.script = s, !.step = x, !.at = n] \in HarnessStates
BY DEF HarnessStates

LEMMA ScriptStepped ==
  ASSUME NEW r \in HarnessStates, NEW x \in HarnessSteps, NEW n \in Nat
  PROVE  [r EXCEPT !.step = x, !.at = n] \in HarnessStates
BY DEF HarnessStates

LEMMA ScriptFailed ==
  ASSUME NEW r \in HarnessStates, NEW x \in HarnessSteps, NEW n \in Nat, NEW f \in SUBSET {"primary", "removal"}
  PROVE  [r EXCEPT !.step = x, !.at = n, !.failures = f] \in HarnessStates
BY DEF HarnessStates

LEMMA ScriptRemoved ==
  ASSUME NEW r \in HarnessStates, NEW x \in HarnessSteps, NEW n \in Nat, NEW f \in SUBSET {"primary", "removal"}
  PROVE  [r EXCEPT !.at = n, !.step = x, !.failures = f] \in HarnessStates
BY DEF HarnessStates

LEMMA ScriptTook ==
  ASSUME NEW r \in HarnessStates, NEW x \in HarnessSteps, NEW n \in Nat, NEW f \in SUBSET {"primary", "removal"},
         NEW m \in SUBSET AllUnits
  PROVE  [r EXCEPT !.failures = f, !.noted = m, !.step = x, !.at = n] \in HarnessStates
BY DEF HarnessStates

LEMMA HarnessStarts == HarnessInit => HarnessInv
<1> SUFFICES ASSUME HarnessInit PROVE HarnessInv
  OBVIOUS
<1>1. ScriptTyped /\ RemainsTyped
  BY DEF HarnessInit, HarnessIdle, ScriptTyped, RemainsTyped, HarnessStates, HarnessSteps
<1>2. OfAScript /\ FailuresAreNoted /\ CombinedOnly /\ CountedLeavesNothing /\ PassedAreEmpty
  BY DEF HarnessInit, HarnessIdle, OfAScript, FailuresAreNoted, CombinedOnly, CountedLeavesNothing,
     PassedAreEmpty
<1>3. SecretsAreRetained /\ TestedOnFinalServer
  BY DEF HarnessInit, HarnessIdle, SecretsAreRetained, TestedOnFinalServer, Kept
<1> QED
  BY <1>1, <1>2, <1>3 DEF HarnessInv

LEMMA HarnessGoesOn == HarnessInv /\ [HarnessNext]_harnessVars => HarnessInv'
<1> SUFFICES ASSUME HarnessInv, [HarnessNext]_harnessVars PROVE HarnessInv'
  OBVIOUS
<1>0. /\ ScriptTyped /\ RemainsTyped /\ OfAScript /\ FailuresAreNoted /\ CombinedOnly
      /\ CountedLeavesNothing /\ PassedAreEmpty /\ SecretsAreRetained /\ TestedOnFinalServer
  BY DEF HarnessInv
<1>n. /\ \A s \in DOMAIN Scripts : /\ Len(Scripts[s].units) \in Nat \ {0}
                                   /\ "retains" \in Scripts[s].traits
                                        => /\ "directory" \in Scripts[s].traits /\ "counts" \in Scripts[s].traits
                                           /\ "notes" \notin Scripts[s].traits
      /\ "none" \notin DOMAIN Scripts
  BY ScriptsAreSound DEF ScriptSound
<1>m. Combined \subseteq DOMAIN Scripts /\ \A s \in Combined : "counts" \in Scripts[s].traits
  BY CombinedAreCounted
<1> USE DEF PlanNow, HarnessStates, HarnessSteps, ActiveSteps, HarnessIdle
<1>1. CASE UNCHANGED harnessVars
  <2>1. ScriptTyped'
    BY <1>1, <1>0 DEF harnessVars, ScriptTyped
  <2>2. RemainsTyped'
    BY <1>1, <1>0 DEF harnessVars, ScriptTyped, RemainsTyped
  <2>3. OfAScript'
    BY <1>1, <1>0 DEF harnessVars, ScriptTyped, RemainsTyped, OfAScript, Runs, HasEnded
  <2>4. FailuresAreNoted'
    BY <1>1, <1>0 DEF harnessVars, ScriptTyped, RemainsTyped, OfAScript, FailuresAreNoted, Runs,
       HasEnded
  <2>5. CombinedOnly'
    BY <1>1, <1>0 DEF harnessVars, ScriptTyped, RemainsTyped, OfAScript, CombinedOnly, Runs,
       HasEnded, Combined
  <2>6. CountedLeavesNothing'
    BY <1>1, <1>0 DEF harnessVars, ScriptTyped, RemainsTyped, OfAScript, FailuresAreNoted,
       CountedLeavesNothing, Kept, UnitsOf, Runs, HasEnded
  <2>7. PassedAreEmpty'
    BY <1>1, <1>0 DEF harnessVars, ScriptTyped, RemainsTyped, CombinedOnly, CountedLeavesNothing,
       PassedAreEmpty, Kept, Combined
  <2>8. SecretsAreRetained'
    BY <1>1, <1>0 DEF harnessVars, ScriptTyped, RemainsTyped, OfAScript, FailuresAreNoted,
       SecretsAreRetained, Kept, UnitsOf, Runs, HasEnded
  <2>9. TestedOnFinalServer'
    BY <1>1, <1>0 DEF harnessVars, ScriptTyped, RemainsTyped, TestedOnFinalServer, Taken
  <2> QED
    BY <2>1, <2>2, <2>3, <2>4, <2>5, <2>6, <2>7, <2>8, <2>9 DEF HarnessInv
<1>2. ASSUME NEW s \in DOMAIN Scripts, StartScript(s), combined = "no" \/ (combined = "running" /\ s \in Combined)
        PROVE HarnessInv'
  <2>1. ScriptTyped'
    <3>1. CASE harness' = harness
      BY <3>1, <1>0 DEF ScriptTyped
    <3>2. CASE harness' = [HarnessIdle EXCEPT !.script = s, !.step = "taking", !.at = 1]
      <4>1. /\ HarnessIdle \in HarnessStates /\ "taking" \in HarnessSteps /\ 1 \in Nat
            /\ {} \in SUBSET {"primary", "removal"} /\ {} \in SUBSET AllUnits
            /\ s \in DOMAIN Scripts \cup {"none"}
        OBVIOUS
      <4>2. harness' \in HarnessStates /\ harness'.script = s /\ harness'.step = "taking" /\ harness'.at = 1
        <5> DEFINE e == [HarnessIdle EXCEPT !.script = s, !.step = "taking", !.at = 1]
        <5> HIDE DEF HarnessSteps, HarnessStates, HarnessIdle
        <5>1. e \in HarnessStates
          BY <4>1, ScriptStarted
        <5>3. e.script = s /\ e.step = "taking" /\ e.at = 1
          BY <4>1 DEF HarnessStates
        <5>2. harness' = e
          BY <3>2
        <5> HIDE DEF e
        <5> QED
          BY <5>1, <5>2, <5>3
      <4>3. 1 \in 1 .. Len(Scripts[s].units)
        BY <1>n
      <4> HIDE DEF HarnessStates
      <4> QED
        BY <4>2, <4>3 DEF ScriptTyped
    <3> QED
      BY <1>2, <3>1, <3>2, Zenon DEF StartScript
  <2>2. RemainsTyped'
    BY <1>2, <1>0, <1>n DEF StartScript, ScriptTyped, RemainsTyped
  <2>3. OfAScript'
    BY <1>2, <1>0, <1>n DEF StartScript, ScriptTyped, RemainsTyped, OfAScript, Runs, HasEnded
  <2>4. FailuresAreNoted'
    BY <1>2, <1>0, <1>n DEF StartScript, ScriptTyped, RemainsTyped, OfAScript, FailuresAreNoted,
       Runs, HasEnded
  <2>5. CombinedOnly'
    BY <1>2, <1>0, <1>n DEF StartScript, ScriptTyped, RemainsTyped, OfAScript, CombinedOnly, Runs,
       HasEnded, Combined
  <2>6. CountedLeavesNothing'
    BY <1>2, <1>0, <1>n DEF StartScript, ScriptTyped, RemainsTyped, OfAScript, FailuresAreNoted,
       CountedLeavesNothing, Kept, UnitsOf, Runs, HasEnded
  <2>7. PassedAreEmpty'
    BY <1>2, <1>0, <1>n DEF StartScript, ScriptTyped, RemainsTyped, CombinedOnly,
       CountedLeavesNothing, PassedAreEmpty, Kept, Combined
  <2>8. SecretsAreRetained'
    BY <1>2, <1>0, <1>n DEF StartScript, ScriptTyped, RemainsTyped, OfAScript, FailuresAreNoted,
       SecretsAreRetained, Kept, UnitsOf, Runs, HasEnded
  <2>9. TestedOnFinalServer'
    BY <1>2, <1>0, <1>n DEF StartScript, ScriptTyped, RemainsTyped, TestedOnFinalServer
  <2> QED
    BY <2>1, <2>2, <2>3, <2>4, <2>5, <2>6, <2>7, <2>8, <2>9 DEF HarnessInv
<1>3. ASSUME NEW left \in {"absent", "made", "initial", "serving"}, NEW works \in BOOLEAN, TakeUnit(works, left)
        PROVE HarnessInv'
  <2> DEFINE u == PlanNow.units[harness.at]
             last == harness.at = Len(PlanNow.units)
             f == harness.failures \cup IF works THEN {} ELSE {"primary"}
             m == IF works THEN harness.noted \cup {u} ELSE harness.noted
             stops == f # {} /\ (last \/ "all" \notin PlanNow.traits)
             y == IF stops THEN "removing" ELSE IF last THEN "waiting" ELSE "taking"
             n == IF stops THEN Len(PlanNow.units) ELSE harness.at + 1
  <2>0. /\ harness' = [harness EXCEPT !.failures = f, !.noted = m, !.step = y, !.at = n]
        /\ harness.step = "taking"
        /\ (works => left = IF u \in PlanNow.postgres THEN "initial" ELSE "serving")
        /\ taken' = IF left = "absent" THEN taken
                    ELSE taken \cup {[script |-> harness.script, unit |-> u, state |-> left]}
        /\ UNCHANGED <<materials, endedRuns, combined>>
    BY <1>3, Zenon DEF TakeUnit
  <2>u. /\ harness.script \in DOMAIN Scripts /\ harness.at \in 1 .. Len(PlanNow.units)
        /\ u \in UnitsOf(harness.script) /\ u \in AllUnits
    <3>1. harness.script \in DOMAIN Scripts /\ harness.at \in 1 .. Len(PlanNow.units)
      BY <2>0, <1>0 DEF ScriptTyped
    <3>2. u \in UnitsOf(harness.script)
      BY <3>1 DEF UnitsOf
    <3> QED
      BY <3>1, <3>2 DEF AllUnits
  <2>1. ScriptTyped'
    <3>1. /\ harness \in HarnessStates /\ harness.script \in DOMAIN Scripts \cup {"none"}
          /\ y \in HarnessSteps /\ f \in SUBSET {"primary", "removal"}
      BY <1>0 DEF ScriptTyped
    <3>2. n \in Nat /\ (y \in {"taking", "removing"} => n \in 1 .. Len(PlanNow.units)) /\ y # "directory"
      BY <2>u, <1>n
    <3>3. m \in SUBSET AllUnits
      BY <2>u, <1>0 DEF ScriptTyped
    <3>4. harness' \in HarnessStates /\ harness'.script = harness.script /\ harness'.step = y /\ harness'.at = n
      <4> DEFINE e == [harness EXCEPT !.failures = f, !.noted = m, !.step = y, !.at = n]
      <4> HIDE DEF HarnessSteps, HarnessStates, f, m, y, n
      <4>1. e \in HarnessStates
        BY <3>1, <3>2, <3>3, ScriptTook
      <4>3. e.script = harness.script /\ e.step = y /\ e.at = n
        BY <3>1, <3>2, <3>3 DEF HarnessStates
      <4>2. harness' = e
        BY <2>0
      <4> HIDE DEF e
      <4> QED
        BY <4>1, <4>2, <4>3
    <3> HIDE DEF HarnessStates, y, n
    <3> QED
      BY <2>u, <3>2, <3>4 DEF ScriptTyped
  <2>2. RemainsTyped'
    <3> DEFINE new == [script |-> harness.script, unit |-> u, state |-> left]
    <3>1. left # "absent" => new \in [script : DOMAIN Scripts, unit : AllUnits, state : {"made", "initial", "serving"}]
      BY <2>u, <1>3
    <3>2. \A t \in taken' : t \in taken \/ (left # "absent" /\ t = new)
      BY <2>0
    <3>3. new.unit = u /\ new.script = harness.script
      OBVIOUS
    <3> HIDE DEF new, u
    <3>4. /\ taken' \subseteq [script : DOMAIN Scripts, unit : AllUnits, state : {"made", "initial", "serving"}]
          /\ \A t \in taken' : t.unit \in UnitsOf(t.script)
      BY <3>1, <3>2, <3>3, <2>u, <1>0 DEF RemainsTyped
    <3> QED
      BY <3>4, <2>0, <1>0 DEF RemainsTyped
  <2>3. OfAScript'
    BY <1>3, <1>0, <1>n DEF TakeUnit, ScriptTyped, RemainsTyped, OfAScript, Runs, HasEnded
  <2>4. FailuresAreNoted'
    BY <1>3, <1>0, <1>n DEF TakeUnit, ScriptTyped, RemainsTyped, OfAScript, FailuresAreNoted, Runs,
       HasEnded
  <2>5. CombinedOnly'
    BY <1>3, <1>0, <1>n DEF TakeUnit, ScriptTyped, RemainsTyped, OfAScript, CombinedOnly, Runs,
       HasEnded, Combined
  <2>6. CountedLeavesNothing'
    BY <1>3, <1>0, <1>n DEF TakeUnit, ScriptTyped, RemainsTyped, OfAScript, FailuresAreNoted,
       CountedLeavesNothing, Kept, UnitsOf, Runs, HasEnded
  <2>7. PassedAreEmpty'
    BY <1>3, <1>0, <1>n DEF TakeUnit, ScriptTyped, RemainsTyped, CombinedOnly, CountedLeavesNothing,
       PassedAreEmpty, Kept, Combined
  <2>8. SecretsAreRetained'
    BY <1>3, <1>0, <1>n DEF TakeUnit, ScriptTyped, RemainsTyped, OfAScript, FailuresAreNoted,
       SecretsAreRetained, Kept, UnitsOf, Runs, HasEnded
  <2>9. TestedOnFinalServer'
    BY <1>3, <1>0, <1>n DEF TakeUnit, ScriptTyped, RemainsTyped, TestedOnFinalServer
  <2> QED
    BY <2>1, <2>2, <2>3, <2>4, <2>5, <2>6, <2>7, <2>8, <2>9 DEF HarnessInv
<1>4. ASSUME NEW t \in taken, ServerSettles(t) PROVE HarnessInv'
  <2>1. ScriptTyped'
    BY <1>4, <1>0, <1>n DEF ServerSettles, ScriptTyped
  <2>2. RemainsTyped'
    BY <1>4, <1>0, <1>n DEF ServerSettles, ScriptTyped, RemainsTyped
  <2>3. OfAScript'
    BY <1>4, <1>0, <1>n DEF ServerSettles, ScriptTyped, RemainsTyped, OfAScript, Runs, HasEnded
  <2>4. FailuresAreNoted'
    BY <1>4, <1>0, <1>n DEF ServerSettles, ScriptTyped, RemainsTyped, OfAScript, FailuresAreNoted,
       Runs, HasEnded
  <2>5. CombinedOnly'
    BY <1>4, <1>0, <1>n DEF ServerSettles, ScriptTyped, RemainsTyped, OfAScript, CombinedOnly, Runs,
       HasEnded, Combined
  <2>6. CountedLeavesNothing'
    BY <1>4, <1>0, <1>n DEF ServerSettles, ScriptTyped, RemainsTyped, OfAScript, FailuresAreNoted,
       CountedLeavesNothing, Kept, UnitsOf, Runs, HasEnded
  <2>7. PassedAreEmpty'
    BY <1>4, <1>0, <1>n DEF ServerSettles, ScriptTyped, RemainsTyped, CombinedOnly,
       CountedLeavesNothing, PassedAreEmpty, Kept, Combined
  <2>8. SecretsAreRetained'
    BY <1>4, <1>0, <1>n DEF ServerSettles, ScriptTyped, RemainsTyped, OfAScript, FailuresAreNoted,
       SecretsAreRetained, Kept, UnitsOf, Runs, HasEnded
  <2>9. TestedOnFinalServer'
    <3> SUFFICES ASSUME harness'.step = "testing", NEW u \in (PlanNow.probed)'
                 PROVE  Taken(u, {"serving"})'
      BY DEF TestedOnFinalServer
    <3>1. UNCHANGED harness
      BY <1>4 DEF ServerSettles
    <3>2. [script |-> harness.script, unit |-> u, state |-> "serving"] \in taken
      BY <3>1, <1>0 DEF TestedOnFinalServer, Taken
    <3>3. [script |-> harness.script, unit |-> u, state |-> "serving"] # t
      BY <1>4 DEF ServerSettles
    <3>4. [script |-> harness.script, unit |-> u, state |-> "serving"] \in taken'
      BY <3>2, <3>3, <1>4 DEF ServerSettles
    <3> QED
      BY <3>1, <3>4 DEF Taken
  <2> QED
    BY <2>1, <2>2, <2>3, <2>4, <2>5, <2>6, <2>7, <2>8, <2>9 DEF HarnessInv
<1>5. CASE WaitUntilReady
  <2>1. ScriptTyped'
    <3>1. /\ harness' = [harness EXCEPT !.step = "testing", !.at = Len(PlanNow.units)]
          /\ harness.script \in DOMAIN Scripts
      BY <1>5, <1>0, <1>n DEF WaitUntilReady, StepTo, ScriptTyped
    <3>2. /\ "testing" \in HarnessSteps /\ Len(PlanNow.units) \in Nat /\ harness.script \in DOMAIN Scripts \cup {"none"}
          /\ {} \in SUBSET {"primary", "removal"} /\ {} \in SUBSET AllUnits
          /\ harness.failures \cup {"primary"} \in SUBSET {"primary", "removal"}
      BY <3>1, <1>0, <1>n DEF ScriptTyped
    <3>3. harness \in HarnessStates
      BY <1>0 DEF ScriptTyped
    <3>4. /\ harness' \in HarnessStates
          /\ harness'.step = "testing" /\ harness'.script = harness.script /\ harness'.at = Len(PlanNow.units)
      <4> HIDE DEF HarnessSteps, HarnessStates
      <4> DEFINE e == [harness EXCEPT !.step = "testing", !.at = Len(PlanNow.units)]
      <4>1. e \in HarnessStates
        BY <3>2, <3>3, ScriptStepped
      <4>3. e.step = "testing" /\ e.script = harness.script /\ e.at = Len(PlanNow.units)
        BY <3>2, <3>3 DEF HarnessStates
      <4>2. harness' = e
        BY <3>1
      <4> HIDE DEF e
      <4> QED
        BY <4>1, <4>2, <4>3
    <3>5. Len(PlanNow.units) \in 1 .. Len(PlanNow.units)
      BY <3>1, <1>0, <1>n DEF ScriptTyped
    <3> HIDE DEF HarnessStates
    <3> QED
      BY <3>1, <3>4, <3>5, <1>0, <1>n DEF ScriptTyped
  <2>2. RemainsTyped'
    BY <1>5, <1>0, <1>n DEF WaitUntilReady, StepTo, ScriptTyped, RemainsTyped
  <2>3. OfAScript'
    BY <1>5, <1>0, <1>n DEF WaitUntilReady, StepTo, ScriptTyped, RemainsTyped, OfAScript, Runs,
       HasEnded
  <2>4. FailuresAreNoted'
    BY <1>5, <1>0, <1>n DEF WaitUntilReady, StepTo, ScriptTyped, RemainsTyped, OfAScript,
       FailuresAreNoted, Runs, HasEnded
  <2>5. CombinedOnly'
    BY <1>5, <1>0, <1>n DEF WaitUntilReady, StepTo, ScriptTyped, RemainsTyped, OfAScript,
       CombinedOnly, Runs, HasEnded, Combined
  <2>6. CountedLeavesNothing'
    BY <1>5, <1>0, <1>n DEF WaitUntilReady, StepTo, ScriptTyped, RemainsTyped, OfAScript,
       FailuresAreNoted, CountedLeavesNothing, Kept, UnitsOf, Runs, HasEnded
  <2>7. PassedAreEmpty'
    BY <1>5, <1>0, <1>n DEF WaitUntilReady, StepTo, ScriptTyped, RemainsTyped, CombinedOnly,
       CountedLeavesNothing, PassedAreEmpty, Kept, Combined
  <2>8. SecretsAreRetained'
    BY <1>5, <1>0, <1>n DEF WaitUntilReady, StepTo, ScriptTyped, RemainsTyped, OfAScript,
       FailuresAreNoted, SecretsAreRetained, Kept, UnitsOf, Runs, HasEnded
  <2>9. TestedOnFinalServer'
    <3> SUFFICES ASSUME NEW u \in (PlanNow.probed)' PROVE Taken(u, {"serving"})'
      BY DEF TestedOnFinalServer
    <3>1. harness'.script = harness.script /\ taken' = taken
      BY <1>5, <1>0 DEF WaitUntilReady, StepTo, ScriptTyped
    <3>2. u \in PlanNow.probed
      BY <3>1
    <3>3. Taken(u, {"serving"})
      BY <1>5, <3>2 DEF WaitUntilReady
    <3> QED
      BY <3>1, <3>3 DEF Taken
  <2> QED
    BY <2>1, <2>2, <2>3, <2>4, <2>5, <2>6, <2>7, <2>8, <2>9 DEF HarnessInv
<1>6. CASE RunTests
  <2>1. ScriptTyped'
    <3>1. /\ harness' = [harness EXCEPT !.step = "removing", !.at = Len(PlanNow.units)]
          /\ harness.script \in DOMAIN Scripts
      BY <1>6, <1>0, <1>n DEF RunTests, StepTo, ScriptTyped
    <3>2. /\ "removing" \in HarnessSteps /\ Len(PlanNow.units) \in Nat /\ harness.script \in DOMAIN Scripts \cup {"none"}
          /\ {} \in SUBSET {"primary", "removal"} /\ {} \in SUBSET AllUnits
          /\ harness.failures \cup {"primary"} \in SUBSET {"primary", "removal"}
      BY <3>1, <1>0, <1>n DEF ScriptTyped
    <3>3. harness \in HarnessStates
      BY <1>0 DEF ScriptTyped
    <3>4. /\ harness' \in HarnessStates
          /\ harness'.step = "removing" /\ harness'.script = harness.script /\ harness'.at = Len(PlanNow.units)
      <4> HIDE DEF HarnessSteps, HarnessStates
      <4> DEFINE e == [harness EXCEPT !.step = "removing", !.at = Len(PlanNow.units)]
      <4>1. e \in HarnessStates
        BY <3>2, <3>3, ScriptStepped
      <4>3. e.step = "removing" /\ e.script = harness.script /\ e.at = Len(PlanNow.units)
        BY <3>2, <3>3 DEF HarnessStates
      <4>2. harness' = e
        BY <3>1
      <4> HIDE DEF e
      <4> QED
        BY <4>1, <4>2, <4>3
    <3>5. Len(PlanNow.units) \in 1 .. Len(PlanNow.units)
      BY <3>1, <1>0, <1>n DEF ScriptTyped
    <3> HIDE DEF HarnessStates
    <3> QED
      BY <3>1, <3>4, <3>5, <1>0, <1>n DEF ScriptTyped
  <2>2. RemainsTyped'
    BY <1>6, <1>0, <1>n DEF RunTests, StepTo, ScriptTyped, RemainsTyped
  <2>3. OfAScript'
    BY <1>6, <1>0, <1>n DEF RunTests, StepTo, ScriptTyped, RemainsTyped, OfAScript, Runs, HasEnded
  <2>4. FailuresAreNoted'
    BY <1>6, <1>0, <1>n DEF RunTests, StepTo, ScriptTyped, RemainsTyped, OfAScript,
       FailuresAreNoted, Runs, HasEnded
  <2>5. CombinedOnly'
    BY <1>6, <1>0, <1>n DEF RunTests, StepTo, ScriptTyped, RemainsTyped, OfAScript, CombinedOnly,
       Runs, HasEnded, Combined
  <2>6. CountedLeavesNothing'
    BY <1>6, <1>0, <1>n DEF RunTests, StepTo, ScriptTyped, RemainsTyped, OfAScript,
       FailuresAreNoted, CountedLeavesNothing, Kept, UnitsOf, Runs, HasEnded
  <2>7. PassedAreEmpty'
    BY <1>6, <1>0, <1>n DEF RunTests, StepTo, ScriptTyped, RemainsTyped, CombinedOnly,
       CountedLeavesNothing, PassedAreEmpty, Kept, Combined
  <2>8. SecretsAreRetained'
    BY <1>6, <1>0, <1>n DEF RunTests, StepTo, ScriptTyped, RemainsTyped, OfAScript,
       FailuresAreNoted, SecretsAreRetained, Kept, UnitsOf, Runs, HasEnded
  <2>9. TestedOnFinalServer'
    BY <1>6, <1>0, <1>n DEF RunTests, StepTo, ScriptTyped, RemainsTyped, TestedOnFinalServer
  <2> QED
    BY <2>1, <2>2, <2>3, <2>4, <2>5, <2>6, <2>7, <2>8, <2>9 DEF HarnessInv
<1>7. CASE StepFails
  <2>1. ScriptTyped'
    <3>1. /\ harness' = [harness EXCEPT !.step = "removing", !.at = Len(PlanNow.units),
                                             !.failures = harness.failures \cup {"primary"}]
          /\ harness.script \in DOMAIN Scripts
      BY <1>7, <1>0, <1>n DEF StepFails, ScriptTyped
    <3>2. /\ "removing" \in HarnessSteps /\ Len(PlanNow.units) \in Nat /\ harness.script \in DOMAIN Scripts \cup {"none"}
          /\ {} \in SUBSET {"primary", "removal"} /\ {} \in SUBSET AllUnits
          /\ harness.failures \cup {"primary"} \in SUBSET {"primary", "removal"}
      BY <3>1, <1>0, <1>n DEF ScriptTyped
    <3>3. harness \in HarnessStates
      BY <1>0 DEF ScriptTyped
    <3>4. /\ harness' \in HarnessStates
          /\ harness'.step = "removing" /\ harness'.script = harness.script /\ harness'.at = Len(PlanNow.units)
      <4> HIDE DEF HarnessSteps, HarnessStates
      <4> DEFINE e == [harness EXCEPT !.step = "removing", !.at = Len(PlanNow.units),
                                             !.failures = harness.failures \cup {"primary"}]
      <4>1. e \in HarnessStates
        BY <3>2, <3>3, ScriptFailed
      <4>3. e.step = "removing" /\ e.script = harness.script /\ e.at = Len(PlanNow.units)
        BY <3>2, <3>3 DEF HarnessStates
      <4>2. harness' = e
        BY <3>1
      <4> HIDE DEF e
      <4> QED
        BY <4>1, <4>2, <4>3
    <3>5. Len(PlanNow.units) \in 1 .. Len(PlanNow.units)
      BY <3>1, <1>0, <1>n DEF ScriptTyped
    <3> HIDE DEF HarnessStates
    <3> QED
      BY <3>1, <3>4, <3>5, <1>0, <1>n DEF ScriptTyped
  <2>2. RemainsTyped'
    BY <1>7, <1>0, <1>n DEF StepFails, ScriptTyped, RemainsTyped
  <2>3. OfAScript'
    BY <1>7, <1>0, <1>n DEF StepFails, ScriptTyped, RemainsTyped, OfAScript, Runs, HasEnded
  <2>4. FailuresAreNoted'
    BY <1>7, <1>0, <1>n DEF StepFails, ScriptTyped, RemainsTyped, OfAScript, FailuresAreNoted, Runs,
       HasEnded
  <2>5. CombinedOnly'
    BY <1>7, <1>0, <1>n DEF StepFails, ScriptTyped, RemainsTyped, OfAScript, CombinedOnly, Runs,
       HasEnded, Combined
  <2>6. CountedLeavesNothing'
    BY <1>7, <1>0, <1>n DEF StepFails, ScriptTyped, RemainsTyped, OfAScript, FailuresAreNoted,
       CountedLeavesNothing, Kept, UnitsOf, Runs, HasEnded
  <2>7. PassedAreEmpty'
    BY <1>7, <1>0, <1>n DEF StepFails, ScriptTyped, RemainsTyped, CombinedOnly,
       CountedLeavesNothing, PassedAreEmpty, Kept, Combined
  <2>8. SecretsAreRetained'
    BY <1>7, <1>0, <1>n DEF StepFails, ScriptTyped, RemainsTyped, OfAScript, FailuresAreNoted,
       SecretsAreRetained, Kept, UnitsOf, Runs, HasEnded
  <2>9. TestedOnFinalServer'
    BY <1>7, <1>0, <1>n DEF StepFails, ScriptTyped, RemainsTyped, TestedOnFinalServer
  <2> QED
    BY <2>1, <2>2, <2>3, <2>4, <2>5, <2>6, <2>7, <2>8, <2>9 DEF HarnessInv
<1>8. CASE InterruptScript
  <2>1. ScriptTyped'
    BY <1>8, <1>0, <1>n DEF InterruptScript, ScriptTyped
  <2>2. RemainsTyped'
    BY <1>8, <1>0, <1>n DEF InterruptScript, ScriptTyped, RemainsTyped
  <2>3. OfAScript'
    BY <1>8, <1>0, <1>n DEF InterruptScript, ScriptTyped, RemainsTyped, OfAScript, Runs, HasEnded
  <2>4. FailuresAreNoted'
    BY <1>8, <1>0, <1>n DEF InterruptScript, ScriptTyped, RemainsTyped, OfAScript, FailuresAreNoted,
       Runs, HasEnded
  <2>5. CombinedOnly'
    BY <1>8, <1>0, <1>n DEF InterruptScript, ScriptTyped, RemainsTyped, OfAScript, CombinedOnly,
       Runs, HasEnded, Combined
  <2>6. CountedLeavesNothing'
    BY <1>8, <1>0, <1>n DEF InterruptScript, ScriptTyped, RemainsTyped, OfAScript, FailuresAreNoted,
       CountedLeavesNothing, Kept, UnitsOf, Runs, HasEnded
  <2>7. PassedAreEmpty'
    BY <1>8, <1>0, <1>n DEF InterruptScript, ScriptTyped, RemainsTyped, CombinedOnly,
       CountedLeavesNothing, PassedAreEmpty, Kept, Combined
  <2>8. SecretsAreRetained'
    BY <1>8, <1>0, <1>n DEF InterruptScript, ScriptTyped, RemainsTyped, OfAScript, FailuresAreNoted,
       SecretsAreRetained, Kept, UnitsOf, Runs, HasEnded
  <2>9. TestedOnFinalServer'
    BY <1>8, <1>0, <1>n DEF InterruptScript, ScriptTyped, RemainsTyped, TestedOnFinalServer
  <2> QED
    BY <2>1, <2>2, <2>3, <2>4, <2>5, <2>6, <2>7, <2>8, <2>9 DEF HarnessInv
<1>9. ASSUME NEW works \in BOOLEAN, RemoveUnit(works) PROVE HarnessInv'
  <2>1. ScriptTyped'
    <3> DEFINE n == harness.at - 1
               y == IF harness.at = 1 THEN "directory" ELSE harness.step
    <3>1. /\ harness \in HarnessStates /\ harness.script \in DOMAIN Scripts
          /\ harness.step = "removing" /\ harness.at \in 1 .. Len(PlanNow.units)
      BY <1>9, <1>0 DEF RemoveUnit, ScriptTyped
    <3>2. /\ n \in Nat /\ y \in HarnessSteps /\ (y = "removing" => n \in 1 .. Len(PlanNow.units))
          /\ y \in {"removing", "directory"} /\ (y = "directory" => n = 0)
      BY <3>1, <1>n
    <3>3. PICK g \in SUBSET {"primary", "removal"} :
            harness' = [harness EXCEPT !.at = n, !.step = y, !.failures = g]
      <4>1. harness.failures \in SUBSET {"primary", "removal"}
        BY <3>1
      <4>2. harness.failures \cup {"removal"} \in SUBSET {"primary", "removal"}
        BY <3>1
      <4>3. \/ harness' = [harness EXCEPT !.at = n, !.step = y, !.failures = harness.failures]
            \/ harness' = [harness EXCEPT !.at = n, !.step = y, !.failures = harness.failures \cup {"removal"}]
        BY <1>9, Zenon DEF RemoveUnit
      <4> HIDE DEF n, y
      <4> QED
        BY <4>1, <4>2, <4>3
    <3>4. harness' \in HarnessStates /\ harness'.script = harness.script /\ harness'.step = y /\ harness'.at = n
      <4> DEFINE e == [harness EXCEPT !.at = n, !.step = y, !.failures = g]
      <4> HIDE DEF HarnessSteps, HarnessStates, n, y
      <4>1. e \in HarnessStates
        BY <3>1, <3>2, ScriptRemoved
      <4>2. e.script = harness.script /\ e.step = y /\ e.at = n
        BY <3>1, <3>2 DEF HarnessStates
      <4>3. harness' = e
        BY <3>3
      <4> HIDE DEF e
      <4> QED
        BY <4>1, <4>2, <4>3
    <3> HIDE DEF HarnessStates, n, y
    <3> QED
      BY <3>1, <3>2, <3>4 DEF ScriptTyped
  <2>2. RemainsTyped'
    BY <1>9, <1>0, <1>n DEF RemoveUnit, Untaken, ScriptTyped, RemainsTyped
  <2>3. OfAScript'
    BY <1>9, <1>0, <1>n DEF RemoveUnit, Untaken, ScriptTyped, RemainsTyped, OfAScript, Runs,
       HasEnded
  <2>4. FailuresAreNoted'
    BY <1>9, <1>0, <1>n DEF RemoveUnit, Untaken, ScriptTyped, RemainsTyped, OfAScript,
       FailuresAreNoted, Runs, HasEnded
  <2>5. CombinedOnly'
    BY <1>9, <1>0, <1>n DEF RemoveUnit, Untaken, ScriptTyped, RemainsTyped, OfAScript, CombinedOnly,
       Runs, HasEnded, Combined
  <2>6. CountedLeavesNothing'
    BY <1>9, <1>0, <1>n DEF RemoveUnit, Untaken, ScriptTyped, RemainsTyped, OfAScript,
       FailuresAreNoted, CountedLeavesNothing, Kept, UnitsOf, Runs, HasEnded
  <2>7. PassedAreEmpty'
    BY <1>9, <1>0, <1>n DEF RemoveUnit, Untaken, ScriptTyped, RemainsTyped, CombinedOnly,
       CountedLeavesNothing, PassedAreEmpty, Kept, Combined
  <2>8. SecretsAreRetained'
    BY <1>9, <1>0, <1>n DEF RemoveUnit, Untaken, ScriptTyped, RemainsTyped, OfAScript,
       FailuresAreNoted, SecretsAreRetained, Kept, UnitsOf, Runs, HasEnded
  <2>9. TestedOnFinalServer'
    BY <1>9, <1>0, <1>n DEF RemoveUnit, Untaken, ScriptTyped, RemainsTyped, TestedOnFinalServer
  <2> QED
    BY <2>1, <2>2, <2>3, <2>4, <2>5, <2>6, <2>7, <2>8, <2>9 DEF HarnessInv
<1>10. ASSUME NEW works \in BOOLEAN, RemoveDirectory(works) PROVE HarnessInv'
  <2>1. ScriptTyped'
    BY <1>10, <1>0, <1>n DEF RemoveDirectory, ScriptTyped
  <2>2. RemainsTyped'
    BY <1>10, <1>0, <1>n DEF RemoveDirectory, ScriptTyped, RemainsTyped
  <2>3. OfAScript'
    BY <1>10, <1>0, <1>n DEF RemoveDirectory, ScriptTyped, RemainsTyped, OfAScript, Runs, HasEnded
  <2>4. FailuresAreNoted'
    BY <1>10, <1>0, <1>n DEF RemoveDirectory, ScriptTyped, RemainsTyped, OfAScript,
       FailuresAreNoted, Runs, HasEnded
  <2>5. CombinedOnly'
    BY <1>10, <1>0, <1>n DEF RemoveDirectory, ScriptTyped, RemainsTyped, OfAScript, CombinedOnly,
       Runs, HasEnded, Combined
  <2>6. CountedLeavesNothing'
    BY <1>10, <1>0, <1>n DEF RemoveDirectory, ScriptTyped, RemainsTyped, OfAScript,
       FailuresAreNoted, CountedLeavesNothing, Kept, UnitsOf, Runs, HasEnded
  <2>7. PassedAreEmpty'
    BY <1>10, <1>0, <1>n DEF RemoveDirectory, ScriptTyped, RemainsTyped, CombinedOnly,
       CountedLeavesNothing, PassedAreEmpty, Kept, Combined
  <2>8. SecretsAreRetained'
    BY <1>10, <1>0, <1>n DEF RemoveDirectory, ScriptTyped, RemainsTyped, OfAScript,
       FailuresAreNoted, SecretsAreRetained, Kept, UnitsOf, Runs, HasEnded
  <2>9. TestedOnFinalServer'
    BY <1>10, <1>0, <1>n DEF RemoveDirectory, ScriptTyped, RemainsTyped, TestedOnFinalServer
  <2> QED
    BY <2>1, <2>2, <2>3, <2>4, <2>5, <2>6, <2>7, <2>8, <2>9 DEF HarnessInv
<1>11. CASE StartCombined
  <2>1. ScriptTyped'
    BY <1>11, <1>0, <1>n DEF StartCombined, ScriptTyped
  <2>2. RemainsTyped'
    BY <1>11, <1>0, <1>n DEF StartCombined, ScriptTyped, RemainsTyped
  <2>3. OfAScript'
    BY <1>11, <1>0, <1>n DEF StartCombined, ScriptTyped, RemainsTyped, OfAScript, Runs, HasEnded
  <2>4. FailuresAreNoted'
    BY <1>11, <1>0, <1>n DEF StartCombined, ScriptTyped, RemainsTyped, OfAScript, FailuresAreNoted,
       Runs, HasEnded
  <2>5. CombinedOnly'
    BY <1>11, <1>0, <1>n DEF StartCombined, ScriptTyped, RemainsTyped, OfAScript, CombinedOnly,
       Runs, HasEnded, Combined
  <2>6. CountedLeavesNothing'
    BY <1>11, <1>0, <1>n DEF StartCombined, ScriptTyped, RemainsTyped, OfAScript, FailuresAreNoted,
       CountedLeavesNothing, Kept, UnitsOf, Runs, HasEnded
  <2>7. PassedAreEmpty'
    BY <1>11, <1>0, <1>n DEF StartCombined, ScriptTyped, RemainsTyped, CombinedOnly,
       CountedLeavesNothing, PassedAreEmpty, Kept, Combined
  <2>8. SecretsAreRetained'
    BY <1>11, <1>0, <1>n DEF StartCombined, ScriptTyped, RemainsTyped, OfAScript, FailuresAreNoted,
       SecretsAreRetained, Kept, UnitsOf, Runs, HasEnded
  <2>9. TestedOnFinalServer'
    BY <1>11, <1>0, <1>n DEF StartCombined, ScriptTyped, RemainsTyped, TestedOnFinalServer
  <2> QED
    BY <2>1, <2>2, <2>3, <2>4, <2>5, <2>6, <2>7, <2>8, <2>9 DEF HarnessInv
<1>12. CASE NextScenario
  <2>1. PICK i \in 1 .. Len(CombinedScripts) : StartScript(CombinedScripts[i])
    BY <1>12 DEF NextScenario
  <2>2. CombinedScripts[i] \in Combined
    BY <2>1 DEF Combined
  <2> QED
    BY <1>2, <1>12, <1>m, <2>1, <2>2 DEF NextScenario
<1>13. CASE CombineEvidence
  <2>1. ScriptTyped'
    BY <1>13, <1>0, <1>n DEF CombineEvidence, ScriptTyped
  <2>2. RemainsTyped'
    BY <1>13, <1>0, <1>n DEF CombineEvidence, ScriptTyped, RemainsTyped
  <2>3. OfAScript'
    BY <1>13, <1>0, <1>n DEF CombineEvidence, ScriptTyped, RemainsTyped, OfAScript, Runs, HasEnded
  <2>4. FailuresAreNoted'
    BY <1>13, <1>0, <1>n DEF CombineEvidence, ScriptTyped, RemainsTyped, OfAScript,
       FailuresAreNoted, Runs, HasEnded
  <2>5. CombinedOnly'
    BY <1>13, <1>0, <1>n DEF CombineEvidence, ScriptTyped, RemainsTyped, OfAScript, CombinedOnly,
       Runs, HasEnded, Combined
  <2>6. CountedLeavesNothing'
    BY <1>13, <1>0, <1>n DEF CombineEvidence, ScriptTyped, RemainsTyped, OfAScript,
       FailuresAreNoted, CountedLeavesNothing, Kept, UnitsOf, Runs, HasEnded
  <2>7. PassedAreEmpty'
    <3>1. CASE combined' # "passed"
      BY <3>1 DEF PassedAreEmpty
    <3>2. CASE combined' = "passed"
      <4>1. /\ UNCHANGED <<taken, materials>> /\ combined = "running"
            /\ \A i \in 1 .. Len(CombinedScripts) : <<CombinedScripts[i], "passed">> \in endedRuns
        BY <1>13, <3>2 DEF CombineEvidence
      <4>2. \A s \in Combined : <<s, "passed">> \in endedRuns
        BY <4>1 DEF Combined
      <4>3. \A s \in Combined : Kept(s) = {} /\ s \notin materials
        BY <4>2, <1>m, <1>0 DEF CountedLeavesNothing
      <4>4. \A t \in taken : t.script \in Combined /\ t \in Kept(t.script)
        BY <4>1, <1>0 DEF CombinedOnly, Kept
      <4>5. taken = {} /\ materials = {}
        BY <4>1, <4>3, <4>4, <1>0 DEF CombinedOnly
      <4> QED
        BY <4>1, <4>5 DEF PassedAreEmpty
    <3> QED
      BY <3>1, <3>2
  <2>8. SecretsAreRetained'
    BY <1>13, <1>0, <1>n DEF CombineEvidence, ScriptTyped, RemainsTyped, OfAScript,
       FailuresAreNoted, SecretsAreRetained, Kept, UnitsOf, Runs, HasEnded
  <2>9. TestedOnFinalServer'
    BY <1>13, <1>0, <1>n DEF CombineEvidence, ScriptTyped, RemainsTyped, TestedOnFinalServer
  <2> QED
    BY <2>1, <2>2, <2>3, <2>4, <2>5, <2>6, <2>7, <2>8, <2>9 DEF HarnessInv
<1> QED
  BY <1>1, <1>2, <1>3, <1>4, <1>5, <1>6, <1>7, <1>8, <1>9, <1>10, <1>11, <1>12, <1>13
     DEF HarnessNext, StartAlone

LEMMA HarnessMeans ==
  HarnessInv => HarnessTypeOK /\ TestedOnFinalServer /\ PassedLeavesNothing /\ SecretsAreRetained
<1> SUFFICES ASSUME HarnessInv PROVE HarnessTypeOK /\ PassedLeavesNothing
  BY DEF HarnessInv
<1>1. HarnessTypeOK
  BY DEF HarnessInv, ScriptTyped, RemainsTyped, HarnessTypeOK, HarnessStates, HarnessSteps,
     ActiveSteps
<1>2. PassedLeavesNothing
  BY DEF HarnessInv, CountedLeavesNothing, PassedAreEmpty, PassedLeavesNothing
<1> QED
  BY <1>1, <1>2

(* The tests meet the server that stays, a script that counts its removals *)
(* leaves nothing where it passes, and secrets are kept with what is left. *)
THEOREM ScriptsGiveBack ==
  HarnessSpec => [](TestedOnFinalServer /\ PassedLeavesNothing /\ SecretsAreRetained)
<1> QED
  BY HarnessStarts, HarnessGoesOn, HarnessMeans, PTL DEF HarnessSpec

-----------------------------------------------------------------------------
(* Transactions: the caller is told how they ended.                        *)

(* What is stored was committed; a commit that is sent is of a transaction *)
(* nobody aborted and nothing of which has failed.                         *)
StoredIsCommitted ==
  \A t \in Transactions :
    /\ phase[t] \notin {"resolved", "unknown"} => \A w \in stored : w[1] # t
    /\ phase[t] = "resolved" => {t} \X (1 .. queries[t]) \subseteq stored /\ t \notin heeded

CommitIsClean ==
  \A t \in Transactions :
    /\ phase[t] = "commit" => backend[t] \in {"open", "gone"} /\ t \notin heeded
    /\ CallbackRuns(t) /\ ~state[t].failure => backend[t] \in {"open", "gone"}
    /\ ~CallbackRuns(t) => state[t].nested = {}
    /\ t \in heeded => state[t].aborted \/ "outer" \in fired[t]

TransactionsInv == TransactionsTypeOK /\ StoredIsCommitted /\ CommitIsClean

TransactionStates == [aborted : BOOLEAN, failure : BOOLEAN, nested : SUBSET {"plain", "signalled"}]

LEMMA TransactionStatesAreKept ==
  ASSUME NEW s \in TransactionStates
  PROVE  /\ s.aborted \in BOOLEAN /\ s.failure \in BOOLEAN /\ s.nested \in SUBSET {"plain", "signalled"}
         /\ \A n \in SUBSET {"plain", "signalled"} :
              /\ [s EXCEPT !.nested = n] \in TransactionStates
              /\ [s EXCEPT !.nested = n].nested = n
              /\ [s EXCEPT !.nested = n].aborted = s.aborted
              /\ [s EXCEPT !.nested = n].failure = s.failure
         /\ [s EXCEPT !.failure = TRUE] \in TransactionStates
         /\ [s EXCEPT !.failure = TRUE].failure = TRUE
         /\ [s EXCEPT !.failure = TRUE].nested = s.nested
         /\ [s EXCEPT !.failure = TRUE].aborted = s.aborted
         /\ \A b \in BOOLEAN :
              /\ [s EXCEPT !.aborted = b] \in TransactionStates
              /\ [s EXCEPT !.aborted = b].aborted = b
              /\ [s EXCEPT !.aborted = b].nested = s.nested
              /\ [s EXCEPT !.aborted = b].failure = s.failure
  BY DEF TransactionStates

TransactionsTyped ==
  /\ phase \in [Transactions -> Phases]
  /\ fired \in [Transactions -> SUBSET Signals]
  /\ backend \in [Transactions -> {"none", "open", "failed", "gone"}]
  /\ queries \in [Transactions -> 0 .. MaxStatements]
  /\ heeded \subseteq Transactions

StatesTyped == state \in [Transactions -> TransactionStates]
StoredTyped == stored \subseteq (Transactions \X (1 .. MaxStatements))

LEMMA TransactionsStart == TransactionsInit => TransactionsInv
  <1> SUFFICES ASSUME TransactionsInit PROVE TransactionsInv
    OBVIOUS
  <1>1. TransactionsTypeOK
    BY TransactionsAssumption DEF TransactionsInit, TransactionsTypeOK, Phases, Fresh
  <1>2. StoredIsCommitted
    BY DEF TransactionsInit, StoredIsCommitted
  <1>3. CommitIsClean
    BY DEF TransactionsInit, CommitIsClean, CallbackRuns, Fresh
  <1> QED
    BY <1>1, <1>2, <1>3 DEF TransactionsInv

(* What a transaction does to itself, it does to no other.                 *)
LEMMA TransactionMoves ==
  ASSUME TransactionsInv, NEW t \in Transactions,
         NEW p \in Phases, phase' = [phase EXCEPT ![t] = p],
         NEW s \in TransactionStates, state' = [state EXCEPT ![t] = s],
         NEW f \in SUBSET Signals, fired' = [fired EXCEPT ![t] = f],
         NEW b \in {"none", "open", "failed", "gone"}, backend' = [backend EXCEPT ![t] = b],
         NEW n \in 0 .. MaxStatements, queries' = [queries EXCEPT ![t] = n],
         heeded' \subseteq heeded \cup {t}, heeded \subseteq heeded',
         stored' \subseteq stored \cup ({t} \X (1 .. queries[t])), stored \subseteq stored',
         p \notin {"resolved", "unknown"} => phase[t] \notin {"resolved", "unknown"} /\ stored' = stored,
         p = "resolved" => {t} \X (1 .. n) \subseteq stored' /\ t \notin heeded',
         p = "commit" => b \in {"open", "gone"} /\ t \notin heeded',
         p \in {"work", "query", "signalledQuery"} /\ ~s.failure => b \in {"open", "gone"},
         p \notin {"work", "query", "signalledQuery"} => s.nested = {},
         t \in heeded' => s.aborted \/ "outer" \in f
  PROVE  TransactionsInv'
  <1>1. TransactionsTyped /\ StatesTyped /\ StoredTyped
    BY DEF TransactionsInv, TransactionsTypeOK, TransactionsTyped, StatesTyped, StoredTyped,
       TransactionStates
  <1>2. /\ phase'[t] = p /\ \A u \in Transactions \ {t} : phase'[u] = phase[u]
        /\ state'[t] = s /\ \A u \in Transactions \ {t} : state'[u] = state[u]
        /\ fired'[t] = f /\ \A u \in Transactions \ {t} : fired'[u] = fired[u]
        /\ backend'[t] = b /\ \A u \in Transactions \ {t} : backend'[u] = backend[u]
        /\ queries'[t] = n /\ \A u \in Transactions \ {t} : queries'[u] = queries[u]
    BY <1>1 DEF TransactionsTyped, StatesTyped
  <1>3. TransactionsTyped' /\ StatesTyped'
    BY <1>1 DEF TransactionsTyped, StatesTyped
  <1>4. StoredTyped'
    <2>1. queries[t] \in 0 .. MaxStatements
      BY <1>1 DEF TransactionsTyped
    <2>2. {t} \X (1 .. queries[t]) \subseteq Transactions \X (1 .. MaxStatements)
      BY <2>1, TransactionsAssumption
    <2> QED
      BY <1>1, <2>2 DEF StoredTyped
  <1>5. \A w \in stored' : w[1] # t => w \in stored
    OBVIOUS
  <1>6. StoredIsCommitted'
    <2>1. ASSUME NEW u \in Transactions, u # t
          PROVE  /\ phase'[u] \notin {"resolved", "unknown"} => \A w \in stored' : w[1] # u
                 /\ phase'[u] = "resolved" => {u} \X (1 .. queries'[u]) \subseteq stored' /\ u \notin heeded'
      <3>1. /\ phase[u] \notin {"resolved", "unknown"} => \A w \in stored : w[1] # u
            /\ phase[u] = "resolved" => {u} \X (1 .. queries[u]) \subseteq stored /\ u \notin heeded
        BY DEF TransactionsInv, StoredIsCommitted
      <3> QED
        BY <1>2, <1>5, <2>1, <3>1
    <2>2. p \notin {"resolved", "unknown"} => \A w \in stored' : w[1] # t
      BY DEF TransactionsInv, StoredIsCommitted
    <2> QED
      BY <1>2, <2>1, <2>2 DEF StoredIsCommitted
  <1>7. CommitIsClean'
    <2>1. ASSUME NEW u \in Transactions, u # t
          PROVE  /\ phase'[u] = "commit" => backend'[u] \in {"open", "gone"} /\ u \notin heeded'
                 /\ CallbackRuns(u)' /\ ~state'[u].failure => backend'[u] \in {"open", "gone"}
                 /\ ~(CallbackRuns(u)') => state'[u].nested = {}
                 /\ u \in heeded' => state'[u].aborted \/ "outer" \in fired'[u]
      <3>1. /\ phase[u] = "commit" => backend[u] \in {"open", "gone"} /\ u \notin heeded
            /\ CallbackRuns(u) /\ ~state[u].failure => backend[u] \in {"open", "gone"}
            /\ ~CallbackRuns(u) => state[u].nested = {}
            /\ u \in heeded => state[u].aborted \/ "outer" \in fired[u]
        BY Zenon DEF TransactionsInv, CommitIsClean
      <3>2. CallbackRuns(u)' <=> CallbackRuns(u)
        BY <1>2, <2>1 DEF CallbackRuns
      <3>3. u \in heeded' => u \in heeded
        BY <2>1
      <3>4. phase'[u] = phase[u] /\ state'[u] = state[u] /\ fired'[u] = fired[u] /\ backend'[u] = backend[u]
        BY <1>2, <2>1
      <3> QED
        BY <3>1, <3>2, <3>3, <3>4, Zenon
    <2>2. /\ phase'[t] = "commit" => backend'[t] \in {"open", "gone"} /\ t \notin heeded'
          /\ CallbackRuns(t)' /\ ~state'[t].failure => backend'[t] \in {"open", "gone"}
          /\ ~(CallbackRuns(t)') => state'[t].nested = {}
          /\ t \in heeded' => state'[t].aborted \/ "outer" \in fired'[t]
      BY <1>2 DEF CallbackRuns
    <2> QED
      BY <2>1, <2>2, Zenon DEF CommitIsClean
  <1> QED
    BY <1>3, <1>4, <1>6, <1>7
    DEF TransactionsInv, TransactionsTypeOK, TransactionsTyped, StatesTyped, StoredTyped, TransactionStates

(* What a transaction does to itself, it does to no other.                 *)
OnlyItMoves(t) ==
  /\ phase' = [phase EXCEPT ![t] = phase'[t]] /\ phase'[t] \in Phases
  /\ state' = [state EXCEPT ![t] = state'[t]] /\ state'[t] \in TransactionStates
  /\ fired' = [fired EXCEPT ![t] = fired'[t]] /\ fired'[t] \in SUBSET Signals
  /\ backend' = [backend EXCEPT ![t] = backend'[t]]
  /\ backend'[t] \in {"none", "open", "failed", "gone"}
  /\ queries' = [queries EXCEPT ![t] = queries'[t]] /\ queries'[t] \in 0 .. MaxStatements

MovesSoundly(t) ==
  /\ heeded' \subseteq heeded \cup {t} /\ heeded \subseteq heeded'
  /\ stored' \subseteq stored \cup ({t} \X (1 .. queries[t])) /\ stored \subseteq stored'
  /\ phase'[t] \notin {"resolved", "unknown"} => phase[t] \notin {"resolved", "unknown"} /\ stored' = stored
  /\ phase'[t] = "resolved" => {t} \X (1 .. queries'[t]) \subseteq stored' /\ t \notin heeded'
  /\ phase'[t] = "commit" => backend'[t] \in {"open", "gone"} /\ t \notin heeded'
  /\ phase'[t] \in {"work", "query", "signalledQuery"} /\ ~state'[t].failure => backend'[t] \in {"open", "gone"}
  /\ phase'[t] \notin {"work", "query", "signalledQuery"} => state'[t].nested = {}
  /\ t \in heeded' => state'[t].aborted \/ "outer" \in fired'[t]

LEMMA OneTransactionMoves ==
  ASSUME TransactionsInv, NEW t \in Transactions, OnlyItMoves(t), MovesSoundly(t)
  PROVE  TransactionsInv'
  <1>0. PICK p \in Phases, s \in TransactionStates, f \in SUBSET Signals,
             b \in {"none", "open", "failed", "gone"}, n \in 0 .. MaxStatements :
             /\ p = phase'[t] /\ s = state'[t] /\ f = fired'[t] /\ b = backend'[t] /\ n = queries'[t]
    BY DEF OnlyItMoves
  <1>1. /\ phase' = [phase EXCEPT ![t] = p] /\ state' = [state EXCEPT ![t] = s]
        /\ fired' = [fired EXCEPT ![t] = f] /\ backend' = [backend EXCEPT ![t] = b]
        /\ queries' = [queries EXCEPT ![t] = n]
    BY <1>0 DEF OnlyItMoves
  <1>2. /\ heeded' \subseteq heeded \cup {t} /\ heeded \subseteq heeded'
        /\ stored' \subseteq stored \cup ({t} \X (1 .. queries[t])) /\ stored \subseteq stored'
        /\ p \notin {"resolved", "unknown"} => phase[t] \notin {"resolved", "unknown"} /\ stored' = stored
        /\ p = "resolved" => {t} \X (1 .. n) \subseteq stored' /\ t \notin heeded'
        /\ p = "commit" => b \in {"open", "gone"} /\ t \notin heeded'
        /\ p \in {"work", "query", "signalledQuery"} /\ ~s.failure => b \in {"open", "gone"}
        /\ p \notin {"work", "query", "signalledQuery"} => s.nested = {}
        /\ t \in heeded' => s.aborted \/ "outer" \in f
    BY <1>0, Zenon DEF MovesSoundly
  <1> QED
    BY <1>1, <1>2, TransactionMoves

LEMMA TransactionIsItself ==
  ASSUME TransactionsInv, NEW t \in Transactions
  PROVE  /\ phase = [phase EXCEPT ![t] = phase[t]] /\ phase[t] \in Phases
         /\ state = [state EXCEPT ![t] = state[t]] /\ state[t] \in TransactionStates
         /\ fired = [fired EXCEPT ![t] = fired[t]] /\ fired[t] \in SUBSET Signals
         /\ backend = [backend EXCEPT ![t] = backend[t]] /\ backend[t] \in {"none", "open", "failed", "gone"}
         /\ queries = [queries EXCEPT ![t] = queries[t]] /\ queries[t] \in 0 .. MaxStatements
  BY DEF TransactionsInv, TransactionsTypeOK, TransactionStates

LEMMA OfATransaction ==
  ASSUME TransactionsInv, NEW t \in Transactions
  PROVE  /\ phase[t] = "resolved" => {t} \X (1 .. queries[t]) \subseteq stored /\ t \notin heeded
         /\ phase[t] = "commit" => backend[t] \in {"open", "gone"} /\ t \notin heeded
         /\ phase[t] \in {"work", "query", "signalledQuery"} /\ ~state[t].failure => backend[t] \in {"open", "gone"}
         /\ phase[t] \notin {"work", "query", "signalledQuery"} => state[t].nested = {}
         /\ t \in heeded => state[t].aborted \/ "outer" \in fired[t]
         /\ state[t].aborted \in BOOLEAN /\ state[t].failure \in BOOLEAN
  <1>1. state[t].aborted \in BOOLEAN /\ state[t].failure \in BOOLEAN
    BY TransactionIsItself, TransactionStatesAreKept
  <1>2. phase[t] = "resolved" => {t} \X (1 .. queries[t]) \subseteq stored /\ t \notin heeded
    BY Zenon DEF TransactionsInv, StoredIsCommitted
  <1>3. /\ phase[t] = "commit" => backend[t] \in {"open", "gone"} /\ t \notin heeded
        /\ CallbackRuns(t) /\ ~state[t].failure => backend[t] \in {"open", "gone"}
        /\ ~CallbackRuns(t) => state[t].nested = {}
        /\ t \in heeded => state[t].aborted \/ "outer" \in fired[t]
    BY Zenon DEF TransactionsInv, CommitIsClean
  <1>4. CallbackRuns(t) <=> phase[t] \in {"work", "query", "signalledQuery"}
    BY DEF CallbackRuns
  <1> QED
    BY <1>1, <1>2, <1>3, <1>4, Zenon

LEMMA TransactionsGoOn == TransactionsInv /\ [TransactionsNext]_transactionVars => TransactionsInv'
  <1> SUFFICES ASSUME TransactionsInv, [TransactionsNext]_transactionVars PROVE TransactionsInv'
    OBVIOUS
  <1>1. ASSUME NEW t \in Transactions, WithTransaction(t) PROVE TransactionsInv'
    <2>1. /\ phase \in [Transactions -> Phases] /\ fired \in [Transactions -> SUBSET Signals]
          /\ backend \in [Transactions -> {"none", "open", "failed", "gone"}]
          /\ queries \in [Transactions -> 0 .. MaxStatements]
          /\ state \in [Transactions -> TransactionStates]
          /\ phase[t] \in Phases /\ state[t] \in TransactionStates /\ fired[t] \in SUBSET Signals
          /\ backend[t] \in {"none", "open", "failed", "gone"} /\ queries[t] \in 0 .. MaxStatements
      BY DEF TransactionsInv, TransactionsTypeOK, TransactionStates
    <2>2. /\ phase[t] = "resolved" => {t} \X (1 .. queries[t]) \subseteq stored /\ t \notin heeded
          /\ phase[t] = "commit" => backend[t] \in {"open", "gone"} /\ t \notin heeded
          /\ phase[t] \in {"work", "query", "signalledQuery"} /\ ~state[t].failure => backend[t] \in {"open", "gone"}
          /\ phase[t] \notin {"work", "query", "signalledQuery"} => state[t].nested = {}
          /\ t \in heeded => state[t].aborted \/ "outer" \in fired[t]
          /\ state[t].aborted \in BOOLEAN /\ state[t].failure \in BOOLEAN
      BY OfATransaction
    <2>6. OnlyItMoves(t)
      BY <1>1, <2>1, TransactionsAssumption DEF WithTransaction, Phases, Moves, OnlyItMoves
    <2>7. MovesSoundly(t)
      BY <1>1, <2>1, <2>2 DEF WithTransaction, Phases, Moves, MovesSoundly
    <2> QED
      BY <2>6, <2>7, OneTransactionMoves
  <1>2. ASSUME NEW t \in Transactions, BeginTransaction(t) PROVE TransactionsInv'
    <2>1. /\ phase \in [Transactions -> Phases] /\ fired \in [Transactions -> SUBSET Signals]
          /\ backend \in [Transactions -> {"none", "open", "failed", "gone"}]
          /\ queries \in [Transactions -> 0 .. MaxStatements]
          /\ state \in [Transactions -> TransactionStates]
          /\ phase[t] \in Phases /\ state[t] \in TransactionStates /\ fired[t] \in SUBSET Signals
          /\ backend[t] \in {"none", "open", "failed", "gone"} /\ queries[t] \in 0 .. MaxStatements
      BY DEF TransactionsInv, TransactionsTypeOK, TransactionStates
    <2>2. /\ phase[t] = "resolved" => {t} \X (1 .. queries[t]) \subseteq stored /\ t \notin heeded
          /\ phase[t] = "commit" => backend[t] \in {"open", "gone"} /\ t \notin heeded
          /\ phase[t] \in {"work", "query", "signalledQuery"} /\ ~state[t].failure => backend[t] \in {"open", "gone"}
          /\ phase[t] \notin {"work", "query", "signalledQuery"} => state[t].nested = {}
          /\ t \in heeded => state[t].aborted \/ "outer" \in fired[t]
          /\ state[t].aborted \in BOOLEAN /\ state[t].failure \in BOOLEAN
      BY OfATransaction
    <2>6. OnlyItMoves(t)
      BY <1>2, <2>1, TransactionsAssumption DEF BeginTransaction, Phases, Moves, OnlyItMoves
    <2>7. MovesSoundly(t)
      BY <1>2, <2>1, <2>2 DEF BeginTransaction, Phases, Moves, MovesSoundly
    <2> QED
      BY <2>6, <2>7, OneTransactionMoves
  <1>3. ASSUME NEW t \in Transactions, BeginFails(t) PROVE TransactionsInv'
    <2>1. /\ phase \in [Transactions -> Phases] /\ fired \in [Transactions -> SUBSET Signals]
          /\ backend \in [Transactions -> {"none", "open", "failed", "gone"}]
          /\ queries \in [Transactions -> 0 .. MaxStatements]
          /\ state \in [Transactions -> TransactionStates]
          /\ phase[t] \in Phases /\ state[t] \in TransactionStates /\ fired[t] \in SUBSET Signals
          /\ backend[t] \in {"none", "open", "failed", "gone"} /\ queries[t] \in 0 .. MaxStatements
      BY DEF TransactionsInv, TransactionsTypeOK, TransactionStates
    <2>2. /\ phase[t] = "resolved" => {t} \X (1 .. queries[t]) \subseteq stored /\ t \notin heeded
          /\ phase[t] = "commit" => backend[t] \in {"open", "gone"} /\ t \notin heeded
          /\ phase[t] \in {"work", "query", "signalledQuery"} /\ ~state[t].failure => backend[t] \in {"open", "gone"}
          /\ phase[t] \notin {"work", "query", "signalledQuery"} => state[t].nested = {}
          /\ t \in heeded => state[t].aborted \/ "outer" \in fired[t]
          /\ state[t].aborted \in BOOLEAN /\ state[t].failure \in BOOLEAN
      BY OfATransaction
    <2>6. OnlyItMoves(t)
      BY <1>3, <2>1, TransactionsAssumption DEF BeginFails, Phases, Moves, OnlyItMoves
    <2>7. MovesSoundly(t)
      BY <1>3, <2>1, <2>2 DEF BeginFails, Phases, Moves, MovesSoundly
    <2> QED
      BY <2>6, <2>7, OneTransactionMoves
  <1>4. ASSUME NEW t \in Transactions, Return(t) PROVE TransactionsInv'
    <2>1. /\ phase \in [Transactions -> Phases] /\ fired \in [Transactions -> SUBSET Signals]
          /\ backend \in [Transactions -> {"none", "open", "failed", "gone"}]
          /\ queries \in [Transactions -> 0 .. MaxStatements]
          /\ state \in [Transactions -> TransactionStates]
          /\ phase[t] \in Phases /\ state[t] \in TransactionStates /\ fired[t] \in SUBSET Signals
          /\ backend[t] \in {"none", "open", "failed", "gone"} /\ queries[t] \in 0 .. MaxStatements
      BY DEF TransactionsInv, TransactionsTypeOK, TransactionStates
    <2>2. /\ phase[t] = "resolved" => {t} \X (1 .. queries[t]) \subseteq stored /\ t \notin heeded
          /\ phase[t] = "commit" => backend[t] \in {"open", "gone"} /\ t \notin heeded
          /\ phase[t] \in {"work", "query", "signalledQuery"} /\ ~state[t].failure => backend[t] \in {"open", "gone"}
          /\ phase[t] \notin {"work", "query", "signalledQuery"} => state[t].nested = {}
          /\ t \in heeded => state[t].aborted \/ "outer" \in fired[t]
          /\ state[t].aborted \in BOOLEAN /\ state[t].failure \in BOOLEAN
      BY OfATransaction
    <2>6. OnlyItMoves(t)
      BY <1>4, <2>1 DEF Return, Phases, Moves, OnlyItMoves
    <2>7. MovesSoundly(t)
      BY <1>4, <2>1, <2>2 DEF Return, Commits, Phases, Moves, MovesSoundly
    <2> QED
      BY <2>6, <2>7, OneTransactionMoves
  <1>5. ASSUME NEW t \in Transactions, Throw(t) PROVE TransactionsInv'
    <2>1. /\ phase \in [Transactions -> Phases] /\ fired \in [Transactions -> SUBSET Signals]
          /\ backend \in [Transactions -> {"none", "open", "failed", "gone"}]
          /\ queries \in [Transactions -> 0 .. MaxStatements]
          /\ state \in [Transactions -> TransactionStates]
          /\ phase[t] \in Phases /\ state[t] \in TransactionStates /\ fired[t] \in SUBSET Signals
          /\ backend[t] \in {"none", "open", "failed", "gone"} /\ queries[t] \in 0 .. MaxStatements
      BY DEF TransactionsInv, TransactionsTypeOK, TransactionStates
    <2>2. /\ phase[t] = "resolved" => {t} \X (1 .. queries[t]) \subseteq stored /\ t \notin heeded
          /\ phase[t] = "commit" => backend[t] \in {"open", "gone"} /\ t \notin heeded
          /\ phase[t] \in {"work", "query", "signalledQuery"} /\ ~state[t].failure => backend[t] \in {"open", "gone"}
          /\ phase[t] \notin {"work", "query", "signalledQuery"} => state[t].nested = {}
          /\ t \in heeded => state[t].aborted \/ "outer" \in fired[t]
          /\ state[t].aborted \in BOOLEAN /\ state[t].failure \in BOOLEAN
      BY OfATransaction
    <2>3. PICK r \in TransactionStates : r = state[t]
      BY <2>1
    <2>4. [r EXCEPT !.nested = {}] \in TransactionStates /\ [r EXCEPT !.nested = {}].nested = {} /\ [r EXCEPT !.nested = {}].aborted = r.aborted
      BY DEF TransactionStates
    <2>5. /\ phase[t] = "work" /\ phase' = [phase EXCEPT ![t] = "rejected"] /\ backend' = [backend EXCEPT ![t] = "none"]
          /\ state' = [state EXCEPT ![t] = [r EXCEPT !.nested = {}]] /\ UNCHANGED <<fired, queries, stored, heeded>>
      BY <1>5, <2>1, <2>3 DEF Throw, Moves
    <2>6. OnlyItMoves(t)
      BY <1>5, <2>1, <2>3, <2>4, <2>5 DEF Phases, Moves, OnlyItMoves
    <2>7. MovesSoundly(t)
      BY <2>1, <2>2, <2>3, <2>4, <2>5 DEF Phases, Moves, MovesSoundly
    <2> QED
      BY <2>6, <2>7, OneTransactionMoves
  <1>6. ASSUME NEW t \in Transactions, CommitAnswers(t) PROVE TransactionsInv'
    <2>1. /\ phase \in [Transactions -> Phases] /\ fired \in [Transactions -> SUBSET Signals]
          /\ backend \in [Transactions -> {"none", "open", "failed", "gone"}]
          /\ queries \in [Transactions -> 0 .. MaxStatements]
          /\ state \in [Transactions -> TransactionStates]
          /\ phase[t] \in Phases /\ state[t] \in TransactionStates /\ fired[t] \in SUBSET Signals
          /\ backend[t] \in {"none", "open", "failed", "gone"} /\ queries[t] \in 0 .. MaxStatements
      BY DEF TransactionsInv, TransactionsTypeOK, TransactionStates
    <2>2. /\ phase[t] = "resolved" => {t} \X (1 .. queries[t]) \subseteq stored /\ t \notin heeded
          /\ phase[t] = "commit" => backend[t] \in {"open", "gone"} /\ t \notin heeded
          /\ phase[t] \in {"work", "query", "signalledQuery"} /\ ~state[t].failure => backend[t] \in {"open", "gone"}
          /\ phase[t] \notin {"work", "query", "signalledQuery"} => state[t].nested = {}
          /\ t \in heeded => state[t].aborted \/ "outer" \in fired[t]
          /\ state[t].aborted \in BOOLEAN /\ state[t].failure \in BOOLEAN
      BY OfATransaction
    <2>3. /\ phase[t] = "commit" /\ backend[t] # "gone" /\ backend' = [backend EXCEPT ![t] = "none"]
          /\ phase'[t] \in {"resolved", "unknown"}
          /\ stored' = IF backend[t] = "open" THEN stored \cup ({t} \X (1 .. queries[t])) ELSE stored
          /\ UNCHANGED <<state, fired, queries, heeded>>
      BY <1>6, <2>1 DEF CommitAnswers, Moves
    <2>4. stored' = stored \cup ({t} \X (1 .. queries[t])) /\ t \notin heeded /\ state[t].nested = {}
      BY <2>2, <2>3
    <2>6. OnlyItMoves(t)
      BY <1>6, <2>1 DEF CommitAnswers, Phases, Moves, OnlyItMoves
    <2>7. MovesSoundly(t)
      BY <2>1, <2>2, <2>3, <2>4 DEF Phases, Moves, MovesSoundly
    <2> QED
      BY <2>6, <2>7, OneTransactionMoves
  <1>7. ASSUME NEW t \in Transactions, CommitFails(t) PROVE TransactionsInv'
    <2>1. /\ phase \in [Transactions -> Phases] /\ fired \in [Transactions -> SUBSET Signals]
          /\ backend \in [Transactions -> {"none", "open", "failed", "gone"}]
          /\ queries \in [Transactions -> 0 .. MaxStatements]
          /\ state \in [Transactions -> TransactionStates]
          /\ phase[t] \in Phases /\ state[t] \in TransactionStates /\ fired[t] \in SUBSET Signals
          /\ backend[t] \in {"none", "open", "failed", "gone"} /\ queries[t] \in 0 .. MaxStatements
      BY DEF TransactionsInv, TransactionsTypeOK, TransactionStates
    <2>2. /\ phase[t] = "resolved" => {t} \X (1 .. queries[t]) \subseteq stored /\ t \notin heeded
          /\ phase[t] = "commit" => backend[t] \in {"open", "gone"} /\ t \notin heeded
          /\ phase[t] \in {"work", "query", "signalledQuery"} /\ ~state[t].failure => backend[t] \in {"open", "gone"}
          /\ phase[t] \notin {"work", "query", "signalledQuery"} => state[t].nested = {}
          /\ t \in heeded => state[t].aborted \/ "outer" \in fired[t]
          /\ state[t].aborted \in BOOLEAN /\ state[t].failure \in BOOLEAN
      BY OfATransaction
    <2>6. OnlyItMoves(t)
      BY <1>7, <2>1, TransactionsAssumption DEF CommitFails, Phases, Moves, OnlyItMoves
    <2>7. MovesSoundly(t)
      BY <1>7, <2>1, <2>2 DEF CommitFails, Phases, Moves, MovesSoundly
    <2> QED
      BY <2>6, <2>7, OneTransactionMoves
  <1>8. ASSUME NEW t \in Transactions, Query(t) PROVE TransactionsInv'
    <2>1. /\ phase \in [Transactions -> Phases] /\ fired \in [Transactions -> SUBSET Signals]
          /\ backend \in [Transactions -> {"none", "open", "failed", "gone"}]
          /\ queries \in [Transactions -> 0 .. MaxStatements]
          /\ state \in [Transactions -> TransactionStates]
          /\ phase[t] \in Phases /\ state[t] \in TransactionStates /\ fired[t] \in SUBSET Signals
          /\ backend[t] \in {"none", "open", "failed", "gone"} /\ queries[t] \in 0 .. MaxStatements
      BY DEF TransactionsInv, TransactionsTypeOK, TransactionStates
    <2>2. /\ phase[t] = "resolved" => {t} \X (1 .. queries[t]) \subseteq stored /\ t \notin heeded
          /\ phase[t] = "commit" => backend[t] \in {"open", "gone"} /\ t \notin heeded
          /\ phase[t] \in {"work", "query", "signalledQuery"} /\ ~state[t].failure => backend[t] \in {"open", "gone"}
          /\ phase[t] \notin {"work", "query", "signalledQuery"} => state[t].nested = {}
          /\ t \in heeded => state[t].aborted \/ "outer" \in fired[t]
          /\ state[t].aborted \in BOOLEAN /\ state[t].failure \in BOOLEAN
      BY OfATransaction
    <2>6. OnlyItMoves(t)
      BY <1>8, <2>1, TransactionsAssumption DEF Query, Phases, Moves, OnlyItMoves
    <2>7. MovesSoundly(t)
      BY <1>8, <2>1, <2>2 DEF Query, Phases, Moves, MovesSoundly
    <2> QED
      BY <2>6, <2>7, OneTransactionMoves
  <1>9. ASSUME NEW t \in Transactions, QueryFails(t) PROVE TransactionsInv'
    <2>1. /\ phase \in [Transactions -> Phases] /\ fired \in [Transactions -> SUBSET Signals]
          /\ backend \in [Transactions -> {"none", "open", "failed", "gone"}]
          /\ queries \in [Transactions -> 0 .. MaxStatements]
          /\ state \in [Transactions -> TransactionStates]
          /\ phase[t] \in Phases /\ state[t] \in TransactionStates /\ fired[t] \in SUBSET Signals
          /\ backend[t] \in {"none", "open", "failed", "gone"} /\ queries[t] \in 0 .. MaxStatements
      BY DEF TransactionsInv, TransactionsTypeOK, TransactionStates
    <2>2. /\ phase[t] = "resolved" => {t} \X (1 .. queries[t]) \subseteq stored /\ t \notin heeded
          /\ phase[t] = "commit" => backend[t] \in {"open", "gone"} /\ t \notin heeded
          /\ phase[t] \in {"work", "query", "signalledQuery"} /\ ~state[t].failure => backend[t] \in {"open", "gone"}
          /\ phase[t] \notin {"work", "query", "signalledQuery"} => state[t].nested = {}
          /\ t \in heeded => state[t].aborted \/ "outer" \in fired[t]
          /\ state[t].aborted \in BOOLEAN /\ state[t].failure \in BOOLEAN
      BY OfATransaction
    <2>3. PICK r \in TransactionStates : r = state[t]
      BY <2>1
    <2>4. [r EXCEPT !.failure = TRUE] \in TransactionStates /\ [r EXCEPT !.failure = TRUE].failure = TRUE /\ [r EXCEPT !.failure = TRUE].nested = r.nested /\ [r EXCEPT !.failure = TRUE].aborted = r.aborted
      BY DEF TransactionStates
    <2>5. /\ phase[t] \in {"query", "signalledQuery"} /\ phase' = [phase EXCEPT ![t] = "work"]
          /\ state' = [state EXCEPT ![t] = [r EXCEPT !.failure = TRUE]]
          /\ backend' = [backend EXCEPT ![t] = IF backend[t] = "gone" THEN "gone" ELSE "failed"]
          /\ UNCHANGED <<fired, queries, stored, heeded>>
      BY <1>9, <2>1, <2>3 DEF QueryFails, Moves
    <2>6. OnlyItMoves(t)
      BY <2>1, <2>3, <2>4, <2>5 DEF Phases, Moves, OnlyItMoves
    <2>7. MovesSoundly(t)
      BY <2>1, <2>2, <2>3, <2>4, <2>5 DEF Phases, Moves, MovesSoundly
    <2> QED
      BY <2>6, <2>7, OneTransactionMoves
  <1>10. ASSUME NEW t \in Transactions, QuerySucceeds(t) PROVE TransactionsInv'
    <2>1. /\ phase \in [Transactions -> Phases] /\ fired \in [Transactions -> SUBSET Signals]
          /\ backend \in [Transactions -> {"none", "open", "failed", "gone"}]
          /\ queries \in [Transactions -> 0 .. MaxStatements]
          /\ state \in [Transactions -> TransactionStates]
          /\ phase[t] \in Phases /\ state[t] \in TransactionStates /\ fired[t] \in SUBSET Signals
          /\ backend[t] \in {"none", "open", "failed", "gone"} /\ queries[t] \in 0 .. MaxStatements
      BY DEF TransactionsInv, TransactionsTypeOK, TransactionStates
    <2>2. /\ phase[t] = "resolved" => {t} \X (1 .. queries[t]) \subseteq stored /\ t \notin heeded
          /\ phase[t] = "commit" => backend[t] \in {"open", "gone"} /\ t \notin heeded
          /\ phase[t] \in {"work", "query", "signalledQuery"} /\ ~state[t].failure => backend[t] \in {"open", "gone"}
          /\ phase[t] \notin {"work", "query", "signalledQuery"} => state[t].nested = {}
          /\ t \in heeded => state[t].aborted \/ "outer" \in fired[t]
          /\ state[t].aborted \in BOOLEAN /\ state[t].failure \in BOOLEAN
      BY OfATransaction
    <2>6. OnlyItMoves(t)
      BY <1>10, <2>1, TransactionsAssumption DEF QuerySucceeds, Phases, Moves, OnlyItMoves
    <2>7. MovesSoundly(t)
      BY <1>10, <2>1, <2>2 DEF QuerySucceeds, Phases, Moves, MovesSoundly
    <2> QED
      BY <2>6, <2>7, OneTransactionMoves
  <1>11. ASSUME NEW t \in Transactions, Nest(t) PROVE TransactionsInv'
    <2>1. /\ phase \in [Transactions -> Phases] /\ fired \in [Transactions -> SUBSET Signals]
          /\ backend \in [Transactions -> {"none", "open", "failed", "gone"}]
          /\ queries \in [Transactions -> 0 .. MaxStatements]
          /\ state \in [Transactions -> TransactionStates]
          /\ phase[t] \in Phases /\ state[t] \in TransactionStates /\ fired[t] \in SUBSET Signals
          /\ backend[t] \in {"none", "open", "failed", "gone"} /\ queries[t] \in 0 .. MaxStatements
      BY DEF TransactionsInv, TransactionsTypeOK, TransactionStates
    <2>2. /\ phase[t] = "resolved" => {t} \X (1 .. queries[t]) \subseteq stored /\ t \notin heeded
          /\ phase[t] = "commit" => backend[t] \in {"open", "gone"} /\ t \notin heeded
          /\ phase[t] \in {"work", "query", "signalledQuery"} /\ ~state[t].failure => backend[t] \in {"open", "gone"}
          /\ phase[t] \notin {"work", "query", "signalledQuery"} => state[t].nested = {}
          /\ t \in heeded => state[t].aborted \/ "outer" \in fired[t]
          /\ state[t].aborted \in BOOLEAN /\ state[t].failure \in BOOLEAN
      BY OfATransaction
    <2>8. PICK n \in SUBSET {"plain", "signalled"} : state' = [state EXCEPT ![t].nested = n]
      BY <1>11 DEF Nest
    <2>3. PICK r \in TransactionStates : r = state[t]
      BY <2>1
    <2>4. [r EXCEPT !.nested = n] \in TransactionStates /\ [r EXCEPT !.nested = n].aborted = r.aborted /\ [r EXCEPT !.nested = n].failure = r.failure
      BY DEF TransactionStates
    <2>5. /\ phase[t] = "work" /\ state' = [state EXCEPT ![t] = [r EXCEPT !.nested = n]]
          /\ UNCHANGED <<phase, fired, backend, queries, stored, heeded>>
      BY <1>11, <2>1, <2>3, <2>8 DEF Nest
    <2>6. OnlyItMoves(t)
      BY <2>1, <2>3, <2>4, <2>5, <2>8 DEF Phases, Moves, OnlyItMoves
    <2>7. MovesSoundly(t)
      BY <2>1, <2>2, <2>3, <2>4, <2>5, <2>8 DEF Phases, Moves, MovesSoundly
    <2> QED
      BY <2>6, <2>7, OneTransactionMoves
  <1>12. ASSUME NEW t \in Transactions, NestedEnds(t) PROVE TransactionsInv'
    <2>1. /\ phase \in [Transactions -> Phases] /\ fired \in [Transactions -> SUBSET Signals]
          /\ backend \in [Transactions -> {"none", "open", "failed", "gone"}]
          /\ queries \in [Transactions -> 0 .. MaxStatements]
          /\ state \in [Transactions -> TransactionStates]
          /\ phase[t] \in Phases /\ state[t] \in TransactionStates /\ fired[t] \in SUBSET Signals
          /\ backend[t] \in {"none", "open", "failed", "gone"} /\ queries[t] \in 0 .. MaxStatements
      BY DEF TransactionsInv, TransactionsTypeOK, TransactionStates
    <2>2. /\ phase[t] = "resolved" => {t} \X (1 .. queries[t]) \subseteq stored /\ t \notin heeded
          /\ phase[t] = "commit" => backend[t] \in {"open", "gone"} /\ t \notin heeded
          /\ phase[t] \in {"work", "query", "signalledQuery"} /\ ~state[t].failure => backend[t] \in {"open", "gone"}
          /\ phase[t] \notin {"work", "query", "signalledQuery"} => state[t].nested = {}
          /\ t \in heeded => state[t].aborted \/ "outer" \in fired[t]
          /\ state[t].aborted \in BOOLEAN /\ state[t].failure \in BOOLEAN
      BY OfATransaction
    <2>3. PICK r \in TransactionStates : r = state[t]
      BY <2>1
    <2>4. [r EXCEPT !.nested = {}] \in TransactionStates /\ [r EXCEPT !.nested = {}].nested = {} /\ [r EXCEPT !.nested = {}].aborted = r.aborted /\ [r EXCEPT !.nested = {}].failure = r.failure
      BY DEF TransactionStates
    <2>5. /\ phase[t] = "work" /\ state' = [state EXCEPT ![t] = [r EXCEPT !.nested = {}]]
          /\ UNCHANGED <<phase, fired, backend, queries, stored, heeded>>
      BY <1>12, <2>1, <2>3 DEF NestedEnds
    <2>6. OnlyItMoves(t)
      BY <2>1, <2>3, <2>4, <2>5 DEF Phases, Moves, OnlyItMoves
    <2>7. MovesSoundly(t)
      BY <2>1, <2>2, <2>3, <2>4, <2>5 DEF Phases, Moves, MovesSoundly
    <2> QED
      BY <2>6, <2>7, OneTransactionMoves
  <1>13. ASSUME NEW t \in Transactions, NEW k \in Signals, AbortSignal(t, k) PROVE TransactionsInv'
    <2>1. /\ phase \in [Transactions -> Phases] /\ fired \in [Transactions -> SUBSET Signals]
          /\ backend \in [Transactions -> {"none", "open", "failed", "gone"}]
          /\ queries \in [Transactions -> 0 .. MaxStatements]
          /\ state \in [Transactions -> TransactionStates]
          /\ phase[t] \in Phases /\ state[t] \in TransactionStates /\ fired[t] \in SUBSET Signals
          /\ backend[t] \in {"none", "open", "failed", "gone"} /\ queries[t] \in 0 .. MaxStatements
      BY DEF TransactionsInv, TransactionsTypeOK, TransactionStates
    <2>2. /\ phase[t] = "resolved" => {t} \X (1 .. queries[t]) \subseteq stored /\ t \notin heeded
          /\ phase[t] = "commit" => backend[t] \in {"open", "gone"} /\ t \notin heeded
          /\ phase[t] \in {"work", "query", "signalledQuery"} /\ ~state[t].failure => backend[t] \in {"open", "gone"}
          /\ phase[t] \notin {"work", "query", "signalledQuery"} => state[t].nested = {}
          /\ t \in heeded => state[t].aborted \/ "outer" \in fired[t]
          /\ state[t].aborted \in BOOLEAN /\ state[t].failure \in BOOLEAN
      BY OfATransaction
    <2>8. PICK b \in BOOLEAN : b = (state[t].aborted \/ Heard(t, k))
      OBVIOUS
    <2>3. PICK r \in TransactionStates : r = state[t]
      BY <2>1
    <2>4. [r EXCEPT !.aborted = b] \in TransactionStates /\ [r EXCEPT !.aborted = b].aborted = b /\ [r EXCEPT !.aborted = b].nested = r.nested /\ [r EXCEPT !.aborted = b].failure = r.failure
      BY DEF TransactionStates
    <2>5. /\ state' = [state EXCEPT ![t] = [r EXCEPT !.aborted = b]]
          /\ fired' = [fired EXCEPT ![t] = fired[t] \cup {k}]
          /\ UNCHANGED <<phase, backend, queries, stored>>
      BY <1>13, <2>1, <2>3, <2>8 DEF AbortSignal
    <2>9. heeded' = heeded \cup IF Heard(t, k) \/ (k = "outer" /\ phase[t] \in {"idle", "begin"})
                           THEN {t} ELSE {}
      BY <1>13 DEF AbortSignal
    <2>10. t \in heeded' => b \/ "outer" \in fired[t] \cup {k}
      BY <2>2, <2>8, <2>9
    <2>11. phase[t] \in {"commit", "resolved"} => t \notin heeded'
      BY <2>2, <2>9 DEF Heard, CallbackRuns
    <2>6. OnlyItMoves(t)
      BY <2>1, <2>3, <2>4, <2>5 DEF Phases, Moves, OnlyItMoves
    <2>7. MovesSoundly(t)
      BY <2>1, <2>2, <2>3, <2>4, <2>5, <2>8, <2>9, <2>10, <2>11 DEF Phases, Moves, MovesSoundly
    <2> QED
      BY <2>6, <2>7, OneTransactionMoves
  <1>14. ASSUME NEW t \in Transactions, BackendEnds(t) PROVE TransactionsInv'
    <2>1. /\ phase \in [Transactions -> Phases] /\ fired \in [Transactions -> SUBSET Signals]
          /\ backend \in [Transactions -> {"none", "open", "failed", "gone"}]
          /\ queries \in [Transactions -> 0 .. MaxStatements]
          /\ state \in [Transactions -> TransactionStates]
          /\ phase[t] \in Phases /\ state[t] \in TransactionStates /\ fired[t] \in SUBSET Signals
          /\ backend[t] \in {"none", "open", "failed", "gone"} /\ queries[t] \in 0 .. MaxStatements
      BY DEF TransactionsInv, TransactionsTypeOK, TransactionStates
    <2>2. /\ phase[t] = "resolved" => {t} \X (1 .. queries[t]) \subseteq stored /\ t \notin heeded
          /\ phase[t] = "commit" => backend[t] \in {"open", "gone"} /\ t \notin heeded
          /\ phase[t] \in {"work", "query", "signalledQuery"} /\ ~state[t].failure => backend[t] \in {"open", "gone"}
          /\ phase[t] \notin {"work", "query", "signalledQuery"} => state[t].nested = {}
          /\ t \in heeded => state[t].aborted \/ "outer" \in fired[t]
          /\ state[t].aborted \in BOOLEAN /\ state[t].failure \in BOOLEAN
      BY OfATransaction
    <2>6. OnlyItMoves(t)
      BY <1>14, <2>1 DEF BackendEnds, Phases, Moves, OnlyItMoves
    <2>7. MovesSoundly(t)
      BY <1>14, <2>1, <2>2 DEF BackendEnds, CallbackRuns, Phases, Moves, MovesSoundly
    <2> QED
      BY <2>6, <2>7, OneTransactionMoves
  <1>15. CASE UNCHANGED transactionVars
    <2>1. TransactionsTypeOK' /\ StoredIsCommitted'
      BY <1>15 DEF transactionVars, TransactionsInv, TransactionsTypeOK, StoredIsCommitted
    <2>2. CommitIsClean'
      BY <1>15, Zenon DEF transactionVars, TransactionsInv, CommitIsClean, CallbackRuns
    <2> QED
      BY <2>1, <2>2 DEF TransactionsInv
  <1> QED
    BY <1>1, <1>2, <1>3, <1>4, <1>5, <1>6, <1>7, <1>8, <1>9, <1>10, <1>11, <1>12, <1>13, <1>14,
       <1>15
    DEF TransactionsNext

LEMMA TransactionsMean == TransactionsInv => TransactionsTypeOK /\ OutcomeIsTrue
  BY DEF TransactionsInv, StoredIsCommitted, OutcomeIsTrue

(* A transaction that resolves has stored all it was asked to, and nobody  *)
(* had aborted it; one that is rejected has stored nothing.                *)
THEOREM OutcomesAreTrue == TransactionsSpec => [](TransactionsTypeOK /\ OutcomeIsTrue)
  <1>1. TransactionsInit => TransactionsInv
    BY TransactionsStart
  <1>2. TransactionsInv /\ [TransactionsNext]_transactionVars => TransactionsInv'
    BY TransactionsGoOn
  <1>3. TransactionsInv => TransactionsTypeOK /\ OutcomeIsTrue
    BY TransactionsMean
  <1> QED
    BY <1>1, <1>2, <1>3, PTL DEF TransactionsSpec

-----------------------------------------------------------------------------
(* The pool: a connection that is lent again carries nothing over.         *)

UseRecords == [kind : {"none", "transaction", "statement"}, step : UseSteps \cup {"none"},
               connection : PoolConnections \cup {NoConnection}, destroyed : BOOLEAN,
               cancelling : BOOLEAN, failure : BOOLEAN, answer : {"none", "ok", "failed"}]

PoolTyped ==
  /\ useOf \in [PoolUsers -> UseRecords]
  /\ unaborted \subseteq PoolUsers /\ committed \subseteq PoolUsers /\ condemned \subseteq PoolUsers
  /\ handedOut \subseteq PoolConnections /\ openOn \subseteq handedOut
  /\ givenBack \in [PoolUsers -> {0, 1}]

HasConnection(u) == useOf[u].connection # NoConnection /\ givenBack[u] = 0

(* What a call is at each of its steps: whose connection it has, what is   *)
(* open on it, and what the server did for it.                             *)
CallIsSound(u) ==
  /\ useOf[u].step = "none" => useOf[u] = Unused
  /\ useOf[u].step # "none" => useOf[u].kind # "none"
  /\ useOf[u].cancelling => useOf[u].destroyed /\ useOf[u].step # "done"
  /\ useOf[u].step \in {"none", "connect"} => useOf[u].connection = NoConnection
  /\ useOf[u].step \notin {"none", "connect", "done"} => useOf[u].connection # NoConnection
  /\ useOf[u].connection = NoConnection => ~useOf[u].destroyed
  /\ givenBack[u] = IF useOf[u].step = "done" /\ useOf[u].connection # NoConnection THEN 1
                    ELSE IF useOf[u].destroyed /\ ~useOf[u].cancelling THEN 1 ELSE 0
  /\ HasConnection(u) => useOf[u].connection \in handedOut
  /\ useOf[u].kind = "statement" =>
       /\ useOf[u].step \in {"connect", "query", "settle", "done"} /\ u \notin condemned
       /\ ~useOf[u].failure /\ (HasConnection(u) => useOf[u].connection \notin openOn)
  /\ u \notin unaborted /\ useOf[u].step \in {"begin", "work", "query", "commit", "rollback"} =>
       useOf[u].destroyed
  /\ useOf[u].step = "settle" \/ (useOf[u].step = "commit" /\ u \in committed) =>
       useOf[u].destroyed \/ useOf[u].connection \notin openOn
  /\ u \in condemned => u \notin unaborted \/ useOf[u].destroyed
  /\ useOf[u].step = "commit" => u \notin condemned /\ ~useOf[u].failure
  /\ u \in committed => /\ useOf[u].step \in {"commit", "rollback", "settle", "done"}
                       /\ u \notin condemned /\ ~useOf[u].failure
  /\ useOf[u].answer = "ok" => u \in committed

CallsAreWhole == \A u \in PoolUsers : CallIsSound(u)

(* A connection is out for one call.                                       *)
OneHolder ==
  \A u, v \in PoolUsers : u # v /\ HasConnection(u) /\ HasConnection(v) => useOf[u].connection # useOf[v].connection

PoolInv == PoolTyped /\ CallsAreWhole /\ OneHolder

LEMMA PoolStarts == PoolInit => PoolInv
  <1> SUFFICES ASSUME PoolInit PROVE PoolInv
    OBVIOUS
  <1>1. Unused \in UseRecords
    BY DEF Unused, UseRecords
  <1>2. PoolTyped
    BY <1>1 DEF PoolInit, PoolTyped
  <1>3. CallsAreWhole
    <2> SUFFICES ASSUME NEW u \in PoolUsers PROVE CallIsSound(u)
      BY DEF CallsAreWhole
    <2>1. useOf[u] = Unused /\ givenBack[u] = 0 /\ u \notin committed /\ u \notin condemned
      BY DEF PoolInit
    <2> QED
      BY <2>1 DEF CallIsSound, Unused, HasConnection
  <1>4. OneHolder
    BY DEF PoolInit, OneHolder, HasConnection, Unused
  <1> QED
    BY <1>2, <1>3, <1>4 DEF PoolInv

(* What one call does with its connection, it does to no other call.       *)
OnlyItUses(u) ==
  /\ useOf' = [useOf EXCEPT ![u] = useOf'[u]] /\ useOf'[u] \in UseRecords
  /\ givenBack' = [givenBack EXCEPT ![u] = givenBack'[u]] /\ givenBack'[u] \in {0, 1}
  /\ unaborted' \subseteq unaborted /\ unaborted \ {u} \subseteq unaborted'
  /\ committed \subseteq committed' /\ committed' \subseteq committed \cup {u}
  /\ condemned \subseteq condemned' /\ condemned' \subseteq condemned \cup {u}

OnlyItsConnection(u) ==
  \/ handedOut' = handedOut /\ openOn' = openOn
     /\ (HasConnection(u)' => HasConnection(u) /\ useOf'[u].connection = useOf[u].connection)
  \/ /\ useOf'[u].connection \in PoolConnections
     /\ \A c \in PoolConnections \ {useOf'[u].connection} :
          (c \in handedOut' <=> c \in handedOut) /\ (c \in openOn' <=> c \in openOn)
     /\ handedOut' \subseteq PoolConnections /\ openOn' \subseteq handedOut'
     /\ \/ HasConnection(u) /\ useOf'[u].connection = useOf[u].connection
        \/ useOf'[u].connection \notin handedOut

LEMMA OneCallMoves ==
  ASSUME PoolInv, NEW u \in PoolUsers, OnlyItUses(u), OnlyItsConnection(u), CallIsSound(u)'
  PROVE  PoolInv'
  <1>1. PoolTyped
    BY DEF PoolInv
  <1>2. /\ useOf' \in [PoolUsers -> UseRecords] /\ givenBack' \in [PoolUsers -> {0, 1}]
        /\ \A v \in PoolUsers \ {u} : useOf'[v] = useOf[v] /\ givenBack'[v] = givenBack[v]
    <2>1. PICK x \in UseRecords : useOf' = [useOf EXCEPT ![u] = x]
      BY DEF OnlyItUses
    <2>2. PICK g \in {0, 1} : givenBack' = [givenBack EXCEPT ![u] = g]
      BY DEF OnlyItUses
    <2> QED
      BY <1>1, <2>1, <2>2 DEF PoolTyped
  <1>3. PoolTyped'
    BY <1>1, <1>2 DEF PoolTyped, OnlyItUses, OnlyItsConnection
  <1>4. \A v \in PoolUsers \ {u} : HasConnection(v)' <=> HasConnection(v)
    BY <1>2 DEF HasConnection
  <1>5. ASSUME NEW v \in PoolUsers, v # u, HasConnection(v)
        PROVE  /\ useOf[v].connection \in handedOut' <=> useOf[v].connection \in handedOut
               /\ useOf[v].connection \in openOn' <=> useOf[v].connection \in openOn
               /\ HasConnection(u)' => useOf'[u].connection # useOf[v].connection
    <2>1. useOf[v].connection \in handedOut /\ useOf[v].connection \in PoolConnections
      BY <1>1, <1>5 DEF PoolInv, CallsAreWhole, CallIsSound, PoolTyped
    <2>2. HasConnection(u) => useOf[u].connection # useOf[v].connection
      BY <1>5 DEF PoolInv, OneHolder
    <2> QED
      BY <2>1, <2>2 DEF OnlyItsConnection
  <1>6. CallsAreWhole'
    <2>1. ASSUME NEW v \in PoolUsers, v # u PROVE CallIsSound(v)'
      <3>1. CallIsSound(v)
        BY DEF PoolInv, CallsAreWhole
      <3>2. useOf'[v] = useOf[v] /\ givenBack'[v] = givenBack[v] /\ (HasConnection(v)' <=> HasConnection(v))
        BY <1>2, <1>4, <2>1
      <3>3. /\ v \in unaborted' <=> v \in unaborted
            /\ v \in committed' <=> v \in committed
            /\ v \in condemned' <=> v \in condemned
        BY <2>1 DEF OnlyItUses
      <3>4. HasConnection(v) =>
              /\ useOf[v].connection \in handedOut' <=> useOf[v].connection \in handedOut
              /\ useOf[v].connection \in openOn' <=> useOf[v].connection \in openOn
        BY <1>5, <2>1
      <3>5. useOf[v].step \in {"settle", "commit"} /\ ~useOf[v].destroyed => HasConnection(v)
        BY <3>1 DEF CallIsSound, HasConnection
      <3> DEFINE r == useOf[v]
                 g == givenBack[v]
      <3>6. HasConnection(v)' => r.connection \in handedOut'
        BY <3>1, <3>2, <3>4 DEF CallIsSound
      <3>7. r.kind = "statement" =>
              /\ r.step \in {"connect", "query", "settle", "done"} /\ v \notin condemned'
              /\ ~r.failure /\ (HasConnection(v)' => r.connection \notin openOn')
        BY <3>1, <3>2, <3>3, <3>4 DEF CallIsSound
      <3>8. r.step = "settle" \/ (r.step = "commit" /\ v \in committed') => r.destroyed \/ r.connection \notin openOn'
        <4>1. r.step = "settle" \/ (r.step = "commit" /\ v \in committed) => r.destroyed \/ r.connection \notin openOn
          BY <3>1, Zenon DEF CallIsSound
        <4>2. r.step \in {"settle", "commit"} /\ ~r.destroyed => (r.connection \in openOn' <=> r.connection \in openOn)
          BY <3>4, <3>5
        <4> QED
          BY <3>3, <4>1, <4>2
      <3>9. /\ v \notin unaborted' /\ r.step \in {"begin", "work", "query", "commit", "rollback"} => r.destroyed
            /\ v \in condemned' => v \notin unaborted' \/ r.destroyed
            /\ r.step = "commit" => v \notin condemned' /\ ~r.failure
            /\ v \in committed' => /\ r.step \in {"commit", "rollback", "settle", "done"}
                                 /\ v \notin condemned' /\ ~r.failure
            /\ r.answer = "ok" => v \in committed'
        BY <3>1, <3>3, Zenon DEF CallIsSound
      <3>10. /\ r.step = "none" => r = Unused
             /\ r.step # "none" => r.kind # "none"
             /\ r.cancelling => r.destroyed /\ r.step # "done"
             /\ r.step \in {"none", "connect"} => r.connection = NoConnection
             /\ r.step \notin {"none", "connect", "done"} => r.connection # NoConnection
             /\ r.connection = NoConnection => ~r.destroyed
             /\ g = IF r.step = "done" /\ r.connection # NoConnection THEN 1
                   ELSE IF r.destroyed /\ ~r.cancelling THEN 1 ELSE 0
        BY <3>1, Zenon DEF CallIsSound
      <3>11. useOf'[v] = r /\ givenBack'[v] = g
        BY <3>2
      <3>12. UNCHANGED Unused
        BY DEF Unused
      <3> HIDE DEF r, g
      <3> QED
        BY <3>6, <3>7, <3>8, <3>9, <3>10, <3>11, <3>12, Zenon DEF CallIsSound
    <2> QED
      BY <2>1 DEF CallsAreWhole
  <1>7. OneHolder'
    BY <1>2, <1>4, <1>5 DEF PoolInv, OneHolder
  <1> QED
    BY <1>3, <1>6, <1>7 DEF PoolInv

LEMMA OfACall ==
  ASSUME PoolInv, NEW u \in PoolUsers
  PROVE  /\ CallIsSound(u) /\ useOf[u] \in UseRecords /\ givenBack[u] \in {0, 1}
         /\ useOf \in [PoolUsers -> UseRecords] /\ givenBack \in [PoolUsers -> {0, 1}]
         /\ handedOut \subseteq PoolConnections /\ openOn \subseteq handedOut
  BY DEF PoolInv, CallsAreWhole, PoolTyped

LEMMA PoolGoesOn == PoolInv /\ [PoolNext]_poolVars => PoolInv'
  <1> SUFFICES ASSUME PoolInv, [PoolNext]_poolVars PROVE PoolInv'
    OBVIOUS
  <1>1. ASSUME NEW u \in PoolUsers, NEW k \in {"transaction", "statement"}, AskConnection(u, k) PROVE PoolInv'
    <2>1. /\ CallIsSound(u) /\ useOf[u] \in UseRecords /\ givenBack[u] \in {0, 1}
          /\ useOf \in [PoolUsers -> UseRecords] /\ givenBack \in [PoolUsers -> {0, 1}]
          /\ handedOut \subseteq PoolConnections /\ openOn \subseteq handedOut
      BY OfACall
    <2>2. PICK r \in UseRecords : r = useOf[u]
      BY <2>1
    <2>3. r.step = "none" /\ u \in unaborted
      BY <1>1, <2>1, <2>2, PoolAssumption DEF AskConnection, UseStep, MoveOn, AnswerUse
    <2>4. PoolInv'
      <3> DEFINE x == [r EXCEPT !.kind = k, !.step = "connect"]
      <3>1. x \in UseRecords
        BY <1>1, <2>2 DEF UseRecords, UseSteps
      <3>2. x.kind = k /\ x.step = "connect" /\ x.connection = r.connection /\ x.destroyed = r.destroyed /\ x.cancelling = r.cancelling /\ x.failure = r.failure /\ x.answer = r.answer
        BY <2>2 DEF UseRecords
      <3>3. /\ useOf' = [useOf EXCEPT ![u] = x]
            /\ UNCHANGED <<unaborted, handedOut, openOn, committed, condemned, givenBack>>
        BY <1>1, <2>1, <2>2, <2>3 DEF AskConnection, UseStep, MoveOn, AnswerUse
      <3>4. useOf'[u] = x /\ givenBack'[u] \in {0, 1}
        BY <2>1, <3>3
      <3> HIDE DEF x
      <3>5. CallIsSound(u)'
        BY <1>1, <2>1, <2>2, <2>3, <3>2, <3>3, <3>4, PoolAssumption DEF CallIsSound, HasConnection,
           Unused
      <3>6. OnlyItUses(u)
        BY <2>1, <2>2, <3>1, <3>3, <3>4 DEF OnlyItUses
      <3>7. OnlyItsConnection(u)
        BY <1>1, <2>1, <2>2, <2>3, <3>2, <3>3, <3>4, PoolAssumption DEF OnlyItsConnection,
           CallIsSound, HasConnection, UseRecords
      <3> QED
        BY <3>5, <3>6, <3>7, OneCallMoves
    <2> QED
      BY <2>4
  <1>2. ASSUME NEW u \in PoolUsers, NEW c \in PoolConnections, TakeConnection(u, c) PROVE PoolInv'
    <2>1. /\ CallIsSound(u) /\ useOf[u] \in UseRecords /\ givenBack[u] \in {0, 1}
          /\ useOf \in [PoolUsers -> UseRecords] /\ givenBack \in [PoolUsers -> {0, 1}]
          /\ handedOut \subseteq PoolConnections /\ openOn \subseteq handedOut
      BY OfACall
    <2>2. PICK r \in UseRecords : r = useOf[u]
      BY <2>1
    <2>3. r.step = "connect" /\ c \notin handedOut /\ c # NoConnection
      BY <1>2, <2>1, <2>2, PoolAssumption DEF TakeConnection, CallIsSound, UseStep, MoveOn,
         AnswerUse
    <2>4. CASE u \in unaborted /\ r.kind = "statement"
      <3> DEFINE x == [r EXCEPT !.connection = c, !.step = "query"]
      <3>1. x \in UseRecords
        BY <1>2, <2>2 DEF UseRecords, UseSteps
      <3>2. x.kind = r.kind /\ x.step = "query" /\ x.connection = c /\ x.destroyed = r.destroyed /\ x.cancelling = r.cancelling /\ x.failure = r.failure /\ x.answer = r.answer
        BY <2>2 DEF UseRecords
      <3>3. /\ useOf' = [useOf EXCEPT ![u] = x]
            /\ handedOut' = handedOut \cup {c} /\ UNCHANGED <<unaborted, openOn, committed, condemned, givenBack>>
        BY <1>2, <2>1, <2>2, <2>3, <2>4 DEF TakeConnection, CallIsSound, UseStep, MoveOn, AnswerUse
      <3>4. useOf'[u] = x /\ givenBack'[u] \in {0, 1}
        BY <2>1, <3>3
      <3> HIDE DEF x
      <3>5. CallIsSound(u)'
        BY <1>2, <2>1, <2>2, <2>3, <3>2, <3>3, <3>4, <2>4, PoolAssumption DEF CallIsSound,
           HasConnection, Unused
      <3>6. OnlyItUses(u)
        BY <2>1, <2>2, <3>1, <3>3, <3>4 DEF OnlyItUses
      <3>7. OnlyItsConnection(u)
        BY <1>2, <2>1, <2>2, <2>3, <3>2, <3>3, <3>4, <2>4, PoolAssumption DEF OnlyItsConnection,
           CallIsSound, HasConnection, UseRecords
      <3> QED
        BY <3>5, <3>6, <3>7, OneCallMoves
    <2>5. CASE u \in unaborted /\ r.kind # "statement"
      <3> DEFINE x == [r EXCEPT !.connection = c, !.step = "begin"]
      <3>1. x \in UseRecords
        BY <1>2, <2>2 DEF UseRecords, UseSteps
      <3>2. x.kind = r.kind /\ x.step = "begin" /\ x.connection = c /\ x.destroyed = r.destroyed /\ x.cancelling = r.cancelling /\ x.failure = r.failure /\ x.answer = r.answer
        BY <2>2 DEF UseRecords
      <3>3. /\ useOf' = [useOf EXCEPT ![u] = x]
            /\ handedOut' = handedOut \cup {c} /\ UNCHANGED <<unaborted, openOn, committed, condemned, givenBack>>
        BY <1>2, <2>1, <2>2, <2>3, <2>5 DEF TakeConnection, CallIsSound, UseStep, MoveOn, AnswerUse
      <3>4. useOf'[u] = x /\ givenBack'[u] \in {0, 1}
        BY <2>1, <3>3
      <3> HIDE DEF x
      <3>5. CallIsSound(u)'
        BY <1>2, <2>1, <2>2, <2>3, <3>2, <3>3, <3>4, <2>5, PoolAssumption DEF CallIsSound,
           HasConnection, Unused
      <3>6. OnlyItUses(u)
        BY <2>1, <2>2, <3>1, <3>3, <3>4 DEF OnlyItUses
      <3>7. OnlyItsConnection(u)
        BY <1>2, <2>1, <2>2, <2>3, <3>2, <3>3, <3>4, <2>5, PoolAssumption DEF OnlyItsConnection,
           CallIsSound, HasConnection, UseRecords
      <3> QED
        BY <3>5, <3>6, <3>7, OneCallMoves
    <2>6. CASE u \notin unaborted
      <3> DEFINE x == [r EXCEPT !.connection = c, !.step = "done", !.destroyed = TRUE, !.answer = "failed"]
      <3>1. x \in UseRecords
        BY <1>2, <2>2 DEF UseRecords, UseSteps
      <3>2. x.kind = r.kind /\ x.step = "done" /\ x.connection = c /\ x.destroyed = TRUE /\ x.cancelling = r.cancelling /\ x.failure = r.failure /\ x.answer = "failed"
        BY <2>2 DEF UseRecords
      <3>3. /\ useOf' = [useOf EXCEPT ![u] = x]
            /\ givenBack' = [givenBack EXCEPT ![u] = givenBack[u] + 1] /\ givenBack[u] = 0 /\ UNCHANGED <<unaborted, handedOut, openOn, committed, condemned>>
        BY <1>2, <2>1, <2>2, <2>3, <2>6 DEF TakeConnection, CallIsSound, UseStep, MoveOn, AnswerUse
      <3>4. useOf'[u] = x /\ givenBack'[u] \in {0, 1}
        BY <2>1, <3>3
      <3> HIDE DEF x
      <3>5. CallIsSound(u)'
        BY <1>2, <2>1, <2>2, <2>3, <3>2, <3>3, <3>4, <2>6, PoolAssumption DEF CallIsSound,
           HasConnection, Unused
      <3>6. OnlyItUses(u)
        BY <2>1, <2>2, <3>1, <3>3, <3>4 DEF OnlyItUses
      <3>7. OnlyItsConnection(u)
        BY <1>2, <2>1, <2>2, <2>3, <3>2, <3>3, <3>4, <2>6, PoolAssumption DEF OnlyItsConnection,
           CallIsSound, HasConnection, UseRecords
      <3> QED
        BY <3>5, <3>6, <3>7, OneCallMoves
    <2> QED
      BY <2>4, <2>5, <2>6
  <1>3. ASSUME NEW u \in PoolUsers, NoConnectionCame(u) PROVE PoolInv'
    <2>1. /\ CallIsSound(u) /\ useOf[u] \in UseRecords /\ givenBack[u] \in {0, 1}
          /\ useOf \in [PoolUsers -> UseRecords] /\ givenBack \in [PoolUsers -> {0, 1}]
          /\ handedOut \subseteq PoolConnections /\ openOn \subseteq handedOut
      BY OfACall
    <2>2. PICK r \in UseRecords : r = useOf[u]
      BY <2>1
    <2>3. r.step = "connect"
      BY <1>3, <2>1, <2>2, PoolAssumption DEF NoConnectionCame, UseStep, MoveOn, AnswerUse
    <2>4. PoolInv'
      <3> DEFINE x == [r EXCEPT !.step = "done", !.answer = "failed"]
      <3>1. x \in UseRecords
        BY <1>3, <2>2 DEF UseRecords, UseSteps
      <3>2. x.kind = r.kind /\ x.step = "done" /\ x.connection = r.connection /\ x.destroyed = r.destroyed /\ x.cancelling = r.cancelling /\ x.failure = r.failure /\ x.answer = "failed"
        BY <2>2 DEF UseRecords
      <3>3. /\ useOf' = [useOf EXCEPT ![u] = x]
            /\ UNCHANGED <<unaborted, handedOut, openOn, committed, condemned, givenBack>>
        BY <1>3, <2>1, <2>2, <2>3 DEF NoConnectionCame, UseStep, MoveOn, AnswerUse
      <3>4. useOf'[u] = x /\ givenBack'[u] \in {0, 1}
        BY <2>1, <3>3
      <3> HIDE DEF x
      <3>5. CallIsSound(u)'
        BY <1>3, <2>1, <2>2, <2>3, <3>2, <3>3, <3>4, PoolAssumption DEF CallIsSound, HasConnection,
           Unused
      <3>6. OnlyItUses(u)
        BY <2>1, <2>2, <3>1, <3>3, <3>4 DEF OnlyItUses
      <3>7. OnlyItsConnection(u)
        BY <1>3, <2>1, <2>2, <2>3, <3>2, <3>3, <3>4, PoolAssumption DEF OnlyItsConnection,
           CallIsSound, HasConnection, UseRecords
      <3> QED
        BY <3>5, <3>6, <3>7, OneCallMoves
    <2> QED
      BY <2>4
  <1>4. ASSUME NEW u \in PoolUsers, AbortUse(u) PROVE PoolInv'
    <2>1. /\ CallIsSound(u) /\ useOf[u] \in UseRecords /\ givenBack[u] \in {0, 1}
          /\ useOf \in [PoolUsers -> UseRecords] /\ givenBack \in [PoolUsers -> {0, 1}]
          /\ handedOut \subseteq PoolConnections /\ openOn \subseteq handedOut
      BY OfACall
    <2>2. PICK r \in UseRecords : r = useOf[u]
      BY <2>1
    <2>3. r.step # "none" /\ u \in unaborted
      BY <1>4, <2>1, <2>2, PoolAssumption DEF AbortUse, Destroyed, UseStep, MoveOn, AnswerUse
    <2>4. CASE r.step \in {"connect", "settle", "done"}
      <3> DEFINE x == r
      <3>1. x \in UseRecords
        BY <1>4, <2>2 DEF UseRecords, UseSteps
      <3>2. x.kind = r.kind /\ x.step = r.step /\ x.connection = r.connection /\ x.destroyed = r.destroyed /\ x.cancelling = r.cancelling /\ x.failure = r.failure /\ x.answer = r.answer
        BY <2>2 DEF UseRecords
      <3>3. /\ useOf' = [useOf EXCEPT ![u] = x]
            /\ unaborted' = unaborted \ {u} /\ condemned \subseteq condemned' /\ condemned' \subseteq condemned \cup {u} /\ (condemned' # condemned => r.kind = "transaction" /\ r.step = "connect") /\ UNCHANGED <<handedOut, openOn, committed, givenBack>>
        BY <1>4, <2>1, <2>2, <2>3, <2>4 DEF AbortUse, Destroyed, UseStep, MoveOn, AnswerUse
      <3>4. useOf'[u] = x /\ givenBack'[u] \in {0, 1}
        BY <2>1, <3>3
      <3> HIDE DEF x
      <3>5. CallIsSound(u)'
        BY <1>4, <2>1, <2>2, <2>3, <3>2, <3>3, <3>4, <2>4, PoolAssumption DEF CallIsSound,
           HasConnection, Unused
      <3>6. OnlyItUses(u)
        BY <2>1, <2>2, <3>1, <3>3, <3>4 DEF OnlyItUses
      <3>7. OnlyItsConnection(u)
        BY <1>4, <2>1, <2>2, <2>3, <3>2, <3>3, <3>4, <2>4, PoolAssumption DEF OnlyItsConnection,
           CallIsSound, HasConnection, UseRecords
      <3> QED
        BY <3>5, <3>6, <3>7, OneCallMoves
    <2>5. CASE r.step \notin {"connect", "settle", "done"}
      <3> DEFINE x == [r EXCEPT !.destroyed = TRUE, !.cancelling = (r.cancelling \/ ~r.destroyed)]
      <3>1. x \in UseRecords
        BY <1>4, <2>2 DEF UseRecords, UseSteps
      <3>2. x.kind = r.kind /\ x.step = r.step /\ x.connection = r.connection /\ x.destroyed = TRUE /\ x.cancelling = (r.cancelling \/ ~r.destroyed) /\ x.failure = r.failure /\ x.answer = r.answer
        BY <2>2 DEF UseRecords
      <3>3. /\ useOf' = [useOf EXCEPT ![u] = x]
            /\ unaborted' = unaborted \ {u} /\ condemned \subseteq condemned' /\ condemned' \subseteq condemned \cup {u} /\ (condemned' # condemned => r.kind = "transaction" /\ r.step \in {"begin", "work", "query"}) /\ UNCHANGED <<handedOut, openOn, committed, givenBack>>
        BY <1>4, <2>1, <2>2, <2>3, <2>5 DEF AbortUse, Destroyed, UseStep, MoveOn, AnswerUse
      <3>4. useOf'[u] = x /\ givenBack'[u] \in {0, 1}
        BY <2>1, <3>3
      <3> HIDE DEF x
      <3>5. CallIsSound(u)'
        BY <1>4, <2>1, <2>2, <2>3, <3>2, <3>3, <3>4, <2>5, PoolAssumption DEF CallIsSound,
           HasConnection, Unused
      <3>6. OnlyItUses(u)
        BY <2>1, <2>2, <3>1, <3>3, <3>4 DEF OnlyItUses
      <3>7. OnlyItsConnection(u)
        BY <1>4, <2>1, <2>2, <2>3, <3>2, <3>3, <3>4, <2>5, PoolAssumption DEF OnlyItsConnection,
           CallIsSound, HasConnection, UseRecords
      <3> QED
        BY <3>5, <3>6, <3>7, OneCallMoves
    <2> QED
      BY <2>4, <2>5
  <1>5. ASSUME NEW u \in PoolUsers, AbortInner(u) PROVE PoolInv'
    <2>1. /\ CallIsSound(u) /\ useOf[u] \in UseRecords /\ givenBack[u] \in {0, 1}
          /\ useOf \in [PoolUsers -> UseRecords] /\ givenBack \in [PoolUsers -> {0, 1}]
          /\ handedOut \subseteq PoolConnections /\ openOn \subseteq handedOut
      BY OfACall
    <2>2. PICK r \in UseRecords : r = useOf[u]
      BY <2>1
    <2>3. r.kind = "transaction" /\ r.step \in {"work", "query"} /\ ~r.destroyed
      BY <1>5, <2>1, <2>2, PoolAssumption DEF AbortInner, Destroyed, UseStep, MoveOn, AnswerUse
    <2>4. PoolInv'
      <3> DEFINE x == [r EXCEPT !.destroyed = TRUE, !.cancelling = (r.cancelling \/ ~r.destroyed)]
      <3>1. x \in UseRecords
        BY <1>5, <2>2 DEF UseRecords, UseSteps
      <3>2. x.kind = r.kind /\ x.step = r.step /\ x.connection = r.connection /\ x.destroyed = TRUE /\ x.cancelling = (r.cancelling \/ ~r.destroyed) /\ x.failure = r.failure /\ x.answer = r.answer
        BY <2>2 DEF UseRecords
      <3>3. /\ useOf' = [useOf EXCEPT ![u] = x]
            /\ condemned' = condemned \cup {u} /\ UNCHANGED <<unaborted, handedOut, openOn, committed, givenBack>>
        BY <1>5, <2>1, <2>2, <2>3 DEF AbortInner, Destroyed, UseStep, MoveOn, AnswerUse
      <3>4. useOf'[u] = x /\ givenBack'[u] \in {0, 1}
        BY <2>1, <3>3
      <3> HIDE DEF x
      <3>5. CallIsSound(u)'
        BY <1>5, <2>1, <2>2, <2>3, <3>2, <3>3, <3>4, PoolAssumption DEF CallIsSound, HasConnection,
           Unused
      <3>6. OnlyItUses(u)
        BY <2>1, <2>2, <3>1, <3>3, <3>4 DEF OnlyItUses
      <3>7. OnlyItsConnection(u)
        BY <1>5, <2>1, <2>2, <2>3, <3>2, <3>3, <3>4, PoolAssumption DEF OnlyItsConnection,
           CallIsSound, HasConnection, UseRecords
      <3> QED
        BY <3>5, <3>6, <3>7, OneCallMoves
    <2> QED
      BY <2>4
  <1>6. ASSUME NEW u \in PoolUsers, Terminate(u) PROVE PoolInv'
    <2>1. /\ CallIsSound(u) /\ useOf[u] \in UseRecords /\ givenBack[u] \in {0, 1}
          /\ useOf \in [PoolUsers -> UseRecords] /\ givenBack \in [PoolUsers -> {0, 1}]
          /\ handedOut \subseteq PoolConnections /\ openOn \subseteq handedOut
      BY OfACall
    <2>2. PICK r \in UseRecords : r = useOf[u]
      BY <2>1
    <2>3. r.cancelling
      BY <1>6, <2>1, <2>2, PoolAssumption DEF Terminate, HandBack, CallIsSound, UseStep, MoveOn,
         AnswerUse
    <2>4. PoolInv'
      <3> DEFINE x == [r EXCEPT !.cancelling = FALSE]
      <3>1. x \in UseRecords
        BY <1>6, <2>2 DEF UseRecords, UseSteps
      <3>2. x.kind = r.kind /\ x.step = r.step /\ x.connection = r.connection /\ x.destroyed = r.destroyed /\ x.cancelling = FALSE /\ x.failure = r.failure /\ x.answer = r.answer
        BY <2>2 DEF UseRecords
      <3>3. /\ useOf' = [useOf EXCEPT ![u] = x]
            /\ openOn' = openOn \ {r.connection} /\ handedOut' = handedOut \ {r.connection} /\ givenBack' = [givenBack EXCEPT ![u] = givenBack[u] + 1] /\ givenBack[u] = 0 /\ UNCHANGED <<unaborted, committed, condemned>>
        BY <1>6, <2>1, <2>2, <2>3 DEF Terminate, HandBack, CallIsSound, UseStep, MoveOn, AnswerUse
      <3>4. useOf'[u] = x /\ givenBack'[u] \in {0, 1}
        BY <2>1, <3>3
      <3> HIDE DEF x
      <3>5. CallIsSound(u)'
        BY <1>6, <2>1, <2>2, <2>3, <3>2, <3>3, <3>4, PoolAssumption DEF CallIsSound, HasConnection,
           Unused
      <3>6. OnlyItUses(u)
        BY <2>1, <2>2, <3>1, <3>3, <3>4 DEF OnlyItUses
      <3>7. OnlyItsConnection(u)
        BY <1>6, <2>1, <2>2, <2>3, <3>2, <3>3, <3>4, PoolAssumption DEF OnlyItsConnection,
           CallIsSound, HasConnection, UseRecords
      <3> QED
        BY <3>5, <3>6, <3>7, OneCallMoves
    <2> QED
      BY <2>4
  <1>7. ASSUME NEW u \in PoolUsers, StatementAnswers(u) PROVE PoolInv'
    <2>1. /\ CallIsSound(u) /\ useOf[u] \in UseRecords /\ givenBack[u] \in {0, 1}
          /\ useOf \in [PoolUsers -> UseRecords] /\ givenBack \in [PoolUsers -> {0, 1}]
          /\ handedOut \subseteq PoolConnections /\ openOn \subseteq handedOut
      BY OfACall
    <2>2. PICK r \in UseRecords : r = useOf[u]
      BY <2>1
    <2>3. r.step = "query" /\ (r.destroyed => r.cancelling)
      BY <1>7, <2>1, <2>2, PoolAssumption DEF StatementAnswers, Connected, UseStep, MoveOn,
         AnswerUse
    <2>4. CASE r.kind = "statement" /\ u \in unaborted
      <3> DEFINE x == [r EXCEPT !.step = "settle", !.answer = "ok"]
      <3>1. x \in UseRecords
        BY <1>7, <2>2 DEF UseRecords, UseSteps
      <3>2. x.kind = r.kind /\ x.step = "settle" /\ x.connection = r.connection /\ x.destroyed = r.destroyed /\ x.cancelling = r.cancelling /\ x.failure = r.failure /\ x.answer = "ok"
        BY <2>2 DEF UseRecords
      <3>3. /\ useOf' = [useOf EXCEPT ![u] = x]
            /\ committed' = committed \cup {u} /\ UNCHANGED <<unaborted, handedOut, openOn, condemned, givenBack>>
        BY <1>7, <2>1, <2>2, <2>3, <2>4 DEF StatementAnswers, Connected, UseStep, MoveOn, AnswerUse
      <3>4. useOf'[u] = x /\ givenBack'[u] \in {0, 1}
        BY <2>1, <3>3
      <3> HIDE DEF x
      <3>5. CallIsSound(u)'
        BY <1>7, <2>1, <2>2, <2>3, <3>2, <3>3, <3>4, <2>4, PoolAssumption DEF CallIsSound,
           HasConnection, Unused
      <3>6. OnlyItUses(u)
        BY <2>1, <2>2, <3>1, <3>3, <3>4 DEF OnlyItUses
      <3>7. OnlyItsConnection(u)
        BY <1>7, <2>1, <2>2, <2>3, <3>2, <3>3, <3>4, <2>4, PoolAssumption DEF OnlyItsConnection,
           CallIsSound, HasConnection, UseRecords
      <3> QED
        BY <3>5, <3>6, <3>7, OneCallMoves
    <2>5. CASE r.kind = "statement" /\ u \notin unaborted
      <3> DEFINE x == [r EXCEPT !.step = "settle", !.answer = "failed"]
      <3>1. x \in UseRecords
        BY <1>7, <2>2 DEF UseRecords, UseSteps
      <3>2. x.kind = r.kind /\ x.step = "settle" /\ x.connection = r.connection /\ x.destroyed = r.destroyed /\ x.cancelling = r.cancelling /\ x.failure = r.failure /\ x.answer = "failed"
        BY <2>2 DEF UseRecords
      <3>3. /\ useOf' = [useOf EXCEPT ![u] = x]
            /\ committed' = committed \cup {u} /\ UNCHANGED <<unaborted, handedOut, openOn, condemned, givenBack>>
        BY <1>7, <2>1, <2>2, <2>3, <2>5 DEF StatementAnswers, Connected, UseStep, MoveOn, AnswerUse
      <3>4. useOf'[u] = x /\ givenBack'[u] \in {0, 1}
        BY <2>1, <3>3
      <3> HIDE DEF x
      <3>5. CallIsSound(u)'
        BY <1>7, <2>1, <2>2, <2>3, <3>2, <3>3, <3>4, <2>5, PoolAssumption DEF CallIsSound,
           HasConnection, Unused
      <3>6. OnlyItUses(u)
        BY <2>1, <2>2, <3>1, <3>3, <3>4 DEF OnlyItUses
      <3>7. OnlyItsConnection(u)
        BY <1>7, <2>1, <2>2, <2>3, <3>2, <3>3, <3>4, <2>5, PoolAssumption DEF OnlyItsConnection,
           CallIsSound, HasConnection, UseRecords
      <3> QED
        BY <3>5, <3>6, <3>7, OneCallMoves
    <2>6. CASE r.kind # "statement"
      <3> DEFINE x == [r EXCEPT !.step = "work"]
      <3>1. x \in UseRecords
        BY <1>7, <2>2 DEF UseRecords, UseSteps
      <3>2. x.kind = r.kind /\ x.step = "work" /\ x.connection = r.connection /\ x.destroyed = r.destroyed /\ x.cancelling = r.cancelling /\ x.failure = r.failure /\ x.answer = r.answer
        BY <2>2 DEF UseRecords
      <3>3. /\ useOf' = [useOf EXCEPT ![u] = x]
            /\ UNCHANGED <<unaborted, handedOut, openOn, committed, condemned, givenBack>>
        BY <1>7, <2>1, <2>2, <2>3, <2>6 DEF StatementAnswers, Connected, UseStep, MoveOn, AnswerUse
      <3>4. useOf'[u] = x /\ givenBack'[u] \in {0, 1}
        BY <2>1, <3>3
      <3> HIDE DEF x
      <3>5. CallIsSound(u)'
        BY <1>7, <2>1, <2>2, <2>3, <3>2, <3>3, <3>4, <2>6, PoolAssumption DEF CallIsSound,
           HasConnection, Unused
      <3>6. OnlyItUses(u)
        BY <2>1, <2>2, <3>1, <3>3, <3>4 DEF OnlyItUses
      <3>7. OnlyItsConnection(u)
        BY <1>7, <2>1, <2>2, <2>3, <3>2, <3>3, <3>4, <2>6, PoolAssumption DEF OnlyItsConnection,
           CallIsSound, HasConnection, UseRecords
      <3> QED
        BY <3>5, <3>6, <3>7, OneCallMoves
    <2> QED
      BY <2>4, <2>5, <2>6
  <1>8. ASSUME NEW u \in PoolUsers, StatementFails(u) PROVE PoolInv'
    <2>1. /\ CallIsSound(u) /\ useOf[u] \in UseRecords /\ givenBack[u] \in {0, 1}
          /\ useOf \in [PoolUsers -> UseRecords] /\ givenBack \in [PoolUsers -> {0, 1}]
          /\ handedOut \subseteq PoolConnections /\ openOn \subseteq handedOut
      BY OfACall
    <2>2. PICK r \in UseRecords : r = useOf[u]
      BY <2>1
    <2>3. r.step = "query"
      BY <1>8, <2>1, <2>2, PoolAssumption DEF StatementFails, UseStep, MoveOn, AnswerUse
    <2>4. CASE r.kind = "statement"
      <3> DEFINE x == [r EXCEPT !.step = "settle", !.answer = "failed"]
      <3>1. x \in UseRecords
        BY <1>8, <2>2 DEF UseRecords, UseSteps
      <3>2. x.kind = r.kind /\ x.step = "settle" /\ x.connection = r.connection /\ x.destroyed = r.destroyed /\ x.cancelling = r.cancelling /\ x.failure = r.failure /\ x.answer = "failed"
        BY <2>2 DEF UseRecords
      <3>3. /\ useOf' = [useOf EXCEPT ![u] = x]
            /\ UNCHANGED <<unaborted, handedOut, openOn, committed, condemned, givenBack>>
        BY <1>8, <2>1, <2>2, <2>3, <2>4 DEF StatementFails, UseStep, MoveOn, AnswerUse
      <3>4. useOf'[u] = x /\ givenBack'[u] \in {0, 1}
        BY <2>1, <3>3
      <3> HIDE DEF x
      <3>5. CallIsSound(u)'
        BY <1>8, <2>1, <2>2, <2>3, <3>2, <3>3, <3>4, <2>4, PoolAssumption DEF CallIsSound,
           HasConnection, Unused
      <3>6. OnlyItUses(u)
        BY <2>1, <2>2, <3>1, <3>3, <3>4 DEF OnlyItUses
      <3>7. OnlyItsConnection(u)
        BY <1>8, <2>1, <2>2, <2>3, <3>2, <3>3, <3>4, <2>4, PoolAssumption DEF OnlyItsConnection,
           CallIsSound, HasConnection, UseRecords
      <3> QED
        BY <3>5, <3>6, <3>7, OneCallMoves
    <2>5. CASE r.kind # "statement"
      <3> DEFINE x == [r EXCEPT !.step = "work", !.failure = TRUE]
      <3>1. x \in UseRecords
        BY <1>8, <2>2 DEF UseRecords, UseSteps
      <3>2. x.kind = r.kind /\ x.step = "work" /\ x.connection = r.connection /\ x.destroyed = r.destroyed /\ x.cancelling = r.cancelling /\ x.failure = TRUE /\ x.answer = r.answer
        BY <2>2 DEF UseRecords
      <3>3. /\ useOf' = [useOf EXCEPT ![u] = x]
            /\ UNCHANGED <<unaborted, handedOut, openOn, committed, condemned, givenBack>>
        BY <1>8, <2>1, <2>2, <2>3, <2>5 DEF StatementFails, UseStep, MoveOn, AnswerUse
      <3>4. useOf'[u] = x /\ givenBack'[u] \in {0, 1}
        BY <2>1, <3>3
      <3> HIDE DEF x
      <3>5. CallIsSound(u)'
        BY <1>8, <2>1, <2>2, <2>3, <3>2, <3>3, <3>4, <2>5, PoolAssumption DEF CallIsSound,
           HasConnection, Unused
      <3>6. OnlyItUses(u)
        BY <2>1, <2>2, <3>1, <3>3, <3>4 DEF OnlyItUses
      <3>7. OnlyItsConnection(u)
        BY <1>8, <2>1, <2>2, <2>3, <3>2, <3>3, <3>4, <2>5, PoolAssumption DEF OnlyItsConnection,
           CallIsSound, HasConnection, UseRecords
      <3> QED
        BY <3>5, <3>6, <3>7, OneCallMoves
    <2> QED
      BY <2>4, <2>5
  <1>9. ASSUME NEW u \in PoolUsers, BeginAnswers(u) PROVE PoolInv'
    <2>1. /\ CallIsSound(u) /\ useOf[u] \in UseRecords /\ givenBack[u] \in {0, 1}
          /\ useOf \in [PoolUsers -> UseRecords] /\ givenBack \in [PoolUsers -> {0, 1}]
          /\ handedOut \subseteq PoolConnections /\ openOn \subseteq handedOut
      BY OfACall
    <2>2. PICK r \in UseRecords : r = useOf[u]
      BY <2>1
    <2>3. r.step = "begin" /\ (r.destroyed => r.cancelling)
      BY <1>9, <2>1, <2>2, PoolAssumption DEF BeginAnswers, Connected, UseStep, MoveOn, AnswerUse
    <2>4. CASE u \in unaborted
      <3> DEFINE x == [r EXCEPT !.step = "work"]
      <3>1. x \in UseRecords
        BY <1>9, <2>2 DEF UseRecords, UseSteps
      <3>2. x.kind = r.kind /\ x.step = "work" /\ x.connection = r.connection /\ x.destroyed = r.destroyed /\ x.cancelling = r.cancelling /\ x.failure = r.failure /\ x.answer = r.answer
        BY <2>2 DEF UseRecords
      <3>3. /\ useOf' = [useOf EXCEPT ![u] = x]
            /\ openOn' = openOn \cup {r.connection} /\ UNCHANGED <<unaborted, handedOut, committed, condemned, givenBack>>
        BY <1>9, <2>1, <2>2, <2>3, <2>4 DEF BeginAnswers, Connected, UseStep, MoveOn, AnswerUse
      <3>4. useOf'[u] = x /\ givenBack'[u] \in {0, 1}
        BY <2>1, <3>3
      <3> HIDE DEF x
      <3>5. CallIsSound(u)'
        BY <1>9, <2>1, <2>2, <2>3, <3>2, <3>3, <3>4, <2>4, PoolAssumption DEF CallIsSound,
           HasConnection, Unused
      <3>6. OnlyItUses(u)
        BY <2>1, <2>2, <3>1, <3>3, <3>4 DEF OnlyItUses
      <3>7. OnlyItsConnection(u)
        BY <1>9, <2>1, <2>2, <2>3, <3>2, <3>3, <3>4, <2>4, PoolAssumption DEF OnlyItsConnection,
           CallIsSound, HasConnection, UseRecords
      <3> QED
        BY <3>5, <3>6, <3>7, OneCallMoves
    <2>5. CASE u \notin unaborted
      <3> DEFINE x == [r EXCEPT !.step = "settle", !.answer = "failed"]
      <3>1. x \in UseRecords
        BY <1>9, <2>2 DEF UseRecords, UseSteps
      <3>2. x.kind = r.kind /\ x.step = "settle" /\ x.connection = r.connection /\ x.destroyed = r.destroyed /\ x.cancelling = r.cancelling /\ x.failure = r.failure /\ x.answer = "failed"
        BY <2>2 DEF UseRecords
      <3>3. /\ useOf' = [useOf EXCEPT ![u] = x]
            /\ openOn' = openOn \cup {r.connection} /\ UNCHANGED <<unaborted, handedOut, committed, condemned, givenBack>>
        BY <1>9, <2>1, <2>2, <2>3, <2>5 DEF BeginAnswers, Connected, UseStep, MoveOn, AnswerUse
      <3>4. useOf'[u] = x /\ givenBack'[u] \in {0, 1}
        BY <2>1, <3>3
      <3> HIDE DEF x
      <3>5. CallIsSound(u)'
        BY <1>9, <2>1, <2>2, <2>3, <3>2, <3>3, <3>4, <2>5, PoolAssumption DEF CallIsSound,
           HasConnection, Unused
      <3>6. OnlyItUses(u)
        BY <2>1, <2>2, <3>1, <3>3, <3>4 DEF OnlyItUses
      <3>7. OnlyItsConnection(u)
        BY <1>9, <2>1, <2>2, <2>3, <3>2, <3>3, <3>4, <2>5, PoolAssumption DEF OnlyItsConnection,
           CallIsSound, HasConnection, UseRecords
      <3> QED
        BY <3>5, <3>6, <3>7, OneCallMoves
    <2> QED
      BY <2>4, <2>5
  <1>10. ASSUME NEW u \in PoolUsers, WorkQueries(u) PROVE PoolInv'
    <2>1. /\ CallIsSound(u) /\ useOf[u] \in UseRecords /\ givenBack[u] \in {0, 1}
          /\ useOf \in [PoolUsers -> UseRecords] /\ givenBack \in [PoolUsers -> {0, 1}]
          /\ handedOut \subseteq PoolConnections /\ openOn \subseteq handedOut
      BY OfACall
    <2>2. PICK r \in UseRecords : r = useOf[u]
      BY <2>1
    <2>3. r.step = "work" /\ ~r.destroyed
      BY <1>10, <2>1, <2>2, PoolAssumption DEF WorkQueries, UseStep, MoveOn, AnswerUse
    <2>4. PoolInv'
      <3> DEFINE x == [r EXCEPT !.step = "query"]
      <3>1. x \in UseRecords
        BY <1>10, <2>2 DEF UseRecords, UseSteps
      <3>2. x.kind = r.kind /\ x.step = "query" /\ x.connection = r.connection /\ x.destroyed = r.destroyed /\ x.cancelling = r.cancelling /\ x.failure = r.failure /\ x.answer = r.answer
        BY <2>2 DEF UseRecords
      <3>3. /\ useOf' = [useOf EXCEPT ![u] = x]
            /\ UNCHANGED <<unaborted, handedOut, openOn, committed, condemned, givenBack>>
        BY <1>10, <2>1, <2>2, <2>3 DEF WorkQueries, UseStep, MoveOn, AnswerUse
      <3>4. useOf'[u] = x /\ givenBack'[u] \in {0, 1}
        BY <2>1, <3>3
      <3> HIDE DEF x
      <3>5. CallIsSound(u)'
        BY <1>10, <2>1, <2>2, <2>3, <3>2, <3>3, <3>4, PoolAssumption DEF CallIsSound, HasConnection,
           Unused
      <3>6. OnlyItUses(u)
        BY <2>1, <2>2, <3>1, <3>3, <3>4 DEF OnlyItUses
      <3>7. OnlyItsConnection(u)
        BY <1>10, <2>1, <2>2, <2>3, <3>2, <3>3, <3>4, PoolAssumption DEF OnlyItsConnection,
           CallIsSound, HasConnection, UseRecords
      <3> QED
        BY <3>5, <3>6, <3>7, OneCallMoves
    <2> QED
      BY <2>4
  <1>11. ASSUME NEW u \in PoolUsers, WorkResolves(u) PROVE PoolInv'
    <2>1. /\ CallIsSound(u) /\ useOf[u] \in UseRecords /\ givenBack[u] \in {0, 1}
          /\ useOf \in [PoolUsers -> UseRecords] /\ givenBack \in [PoolUsers -> {0, 1}]
          /\ handedOut \subseteq PoolConnections /\ openOn \subseteq handedOut
      BY OfACall
    <2>2. PICK r \in UseRecords : r = useOf[u]
      BY <2>1
    <2>3. r.step = "work"
      BY <1>11, <2>1, <2>2, PoolAssumption DEF WorkResolves, MayCommit, CatchError, UseStep, MoveOn,
         AnswerUse
    <2>4. CASE u \in unaborted /\ ~r.destroyed /\ ~r.failure
      <3> DEFINE x == [r EXCEPT !.step = "commit"]
      <3>1. x \in UseRecords
        BY <1>11, <2>2 DEF UseRecords, UseSteps
      <3>2. x.kind = r.kind /\ x.step = "commit" /\ x.connection = r.connection /\ x.destroyed = r.destroyed /\ x.cancelling = r.cancelling /\ x.failure = r.failure /\ x.answer = r.answer
        BY <2>2 DEF UseRecords
      <3>3. /\ useOf' = [useOf EXCEPT ![u] = x]
            /\ UNCHANGED <<unaborted, handedOut, openOn, committed, condemned, givenBack>>
        BY <1>11, <2>1, <2>2, <2>3, <2>4 DEF WorkResolves, MayCommit, CatchError, UseStep, MoveOn,
           AnswerUse
      <3>4. useOf'[u] = x /\ givenBack'[u] \in {0, 1}
        BY <2>1, <3>3
      <3> HIDE DEF x
      <3>5. CallIsSound(u)'
        BY <1>11, <2>1, <2>2, <2>3, <3>2, <3>3, <3>4, <2>4, PoolAssumption DEF CallIsSound,
           HasConnection, Unused
      <3>6. OnlyItUses(u)
        BY <2>1, <2>2, <3>1, <3>3, <3>4 DEF OnlyItUses
      <3>7. OnlyItsConnection(u)
        BY <1>11, <2>1, <2>2, <2>3, <3>2, <3>3, <3>4, <2>4, PoolAssumption DEF OnlyItsConnection,
           CallIsSound, HasConnection, UseRecords
      <3> QED
        BY <3>5, <3>6, <3>7, OneCallMoves
    <2>5. CASE ~(u \in unaborted /\ ~r.destroyed /\ ~r.failure) /\ r.destroyed
      <3> DEFINE x == [r EXCEPT !.step = "settle", !.answer = "failed"]
      <3>1. x \in UseRecords
        BY <1>11, <2>2 DEF UseRecords, UseSteps
      <3>2. x.kind = r.kind /\ x.step = "settle" /\ x.connection = r.connection /\ x.destroyed = r.destroyed /\ x.cancelling = r.cancelling /\ x.failure = r.failure /\ x.answer = "failed"
        BY <2>2 DEF UseRecords
      <3>3. /\ useOf' = [useOf EXCEPT ![u] = x]
            /\ UNCHANGED <<unaborted, handedOut, openOn, committed, condemned, givenBack>>
        BY <1>11, <2>1, <2>2, <2>3, <2>5 DEF WorkResolves, MayCommit, CatchError, UseStep, MoveOn,
           AnswerUse
      <3>4. useOf'[u] = x /\ givenBack'[u] \in {0, 1}
        BY <2>1, <3>3
      <3> HIDE DEF x
      <3>5. CallIsSound(u)'
        BY <1>11, <2>1, <2>2, <2>3, <3>2, <3>3, <3>4, <2>5, PoolAssumption DEF CallIsSound,
           HasConnection, Unused
      <3>6. OnlyItUses(u)
        BY <2>1, <2>2, <3>1, <3>3, <3>4 DEF OnlyItUses
      <3>7. OnlyItsConnection(u)
        BY <1>11, <2>1, <2>2, <2>3, <3>2, <3>3, <3>4, <2>5, PoolAssumption DEF OnlyItsConnection,
           CallIsSound, HasConnection, UseRecords
      <3> QED
        BY <3>5, <3>6, <3>7, OneCallMoves
    <2>6. CASE ~(u \in unaborted /\ ~r.destroyed /\ ~r.failure) /\ ~r.destroyed
      <3> DEFINE x == [r EXCEPT !.step = "rollback"]
      <3>1. x \in UseRecords
        BY <1>11, <2>2 DEF UseRecords, UseSteps
      <3>2. x.kind = r.kind /\ x.step = "rollback" /\ x.connection = r.connection /\ x.destroyed = r.destroyed /\ x.cancelling = r.cancelling /\ x.failure = r.failure /\ x.answer = r.answer
        BY <2>2 DEF UseRecords
      <3>3. /\ useOf' = [useOf EXCEPT ![u] = x]
            /\ UNCHANGED <<unaborted, handedOut, openOn, committed, condemned, givenBack>>
        BY <1>11, <2>1, <2>2, <2>3, <2>6 DEF WorkResolves, MayCommit, CatchError, UseStep, MoveOn,
           AnswerUse
      <3>4. useOf'[u] = x /\ givenBack'[u] \in {0, 1}
        BY <2>1, <3>3
      <3> HIDE DEF x
      <3>5. CallIsSound(u)'
        BY <1>11, <2>1, <2>2, <2>3, <3>2, <3>3, <3>4, <2>6, PoolAssumption DEF CallIsSound,
           HasConnection, Unused
      <3>6. OnlyItUses(u)
        BY <2>1, <2>2, <3>1, <3>3, <3>4 DEF OnlyItUses
      <3>7. OnlyItsConnection(u)
        BY <1>11, <2>1, <2>2, <2>3, <3>2, <3>3, <3>4, <2>6, PoolAssumption DEF OnlyItsConnection,
           CallIsSound, HasConnection, UseRecords
      <3> QED
        BY <3>5, <3>6, <3>7, OneCallMoves
    <2> QED
      BY <2>4, <2>5, <2>6
  <1>12. ASSUME NEW u \in PoolUsers, UseRejects(u) PROVE PoolInv'
    <2>1. /\ CallIsSound(u) /\ useOf[u] \in UseRecords /\ givenBack[u] \in {0, 1}
          /\ useOf \in [PoolUsers -> UseRecords] /\ givenBack \in [PoolUsers -> {0, 1}]
          /\ handedOut \subseteq PoolConnections /\ openOn \subseteq handedOut
      BY OfACall
    <2>2. PICK r \in UseRecords : r = useOf[u]
      BY <2>1
    <2>3. r.step \in {"begin", "work", "commit"}
      BY <1>12, <2>1, <2>2, PoolAssumption DEF UseRejects, CatchError, UseStep, MoveOn, AnswerUse
    <2>4. CASE r.destroyed
      <3> DEFINE x == [r EXCEPT !.step = "settle", !.answer = "failed"]
      <3>1. x \in UseRecords
        BY <1>12, <2>2 DEF UseRecords, UseSteps
      <3>2. x.kind = r.kind /\ x.step = "settle" /\ x.connection = r.connection /\ x.destroyed = r.destroyed /\ x.cancelling = r.cancelling /\ x.failure = r.failure /\ x.answer = "failed"
        BY <2>2 DEF UseRecords
      <3>3. /\ useOf' = [useOf EXCEPT ![u] = x]
            /\ UNCHANGED <<unaborted, handedOut, openOn, committed, condemned, givenBack>>
        BY <1>12, <2>1, <2>2, <2>3, <2>4 DEF UseRejects, CatchError, UseStep, MoveOn, AnswerUse
      <3>4. useOf'[u] = x /\ givenBack'[u] \in {0, 1}
        BY <2>1, <3>3
      <3> HIDE DEF x
      <3>5. CallIsSound(u)'
        BY <1>12, <2>1, <2>2, <2>3, <3>2, <3>3, <3>4, <2>4, PoolAssumption DEF CallIsSound,
           HasConnection, Unused
      <3>6. OnlyItUses(u)
        BY <2>1, <2>2, <3>1, <3>3, <3>4 DEF OnlyItUses
      <3>7. OnlyItsConnection(u)
        BY <1>12, <2>1, <2>2, <2>3, <3>2, <3>3, <3>4, <2>4, PoolAssumption DEF OnlyItsConnection,
           CallIsSound, HasConnection, UseRecords
      <3> QED
        BY <3>5, <3>6, <3>7, OneCallMoves
    <2>5. CASE ~r.destroyed
      <3> DEFINE x == [r EXCEPT !.step = "rollback"]
      <3>1. x \in UseRecords
        BY <1>12, <2>2 DEF UseRecords, UseSteps
      <3>2. x.kind = r.kind /\ x.step = "rollback" /\ x.connection = r.connection /\ x.destroyed = r.destroyed /\ x.cancelling = r.cancelling /\ x.failure = r.failure /\ x.answer = r.answer
        BY <2>2 DEF UseRecords
      <3>3. /\ useOf' = [useOf EXCEPT ![u] = x]
            /\ UNCHANGED <<unaborted, handedOut, openOn, committed, condemned, givenBack>>
        BY <1>12, <2>1, <2>2, <2>3, <2>5 DEF UseRejects, CatchError, UseStep, MoveOn, AnswerUse
      <3>4. useOf'[u] = x /\ givenBack'[u] \in {0, 1}
        BY <2>1, <3>3
      <3> HIDE DEF x
      <3>5. CallIsSound(u)'
        BY <1>12, <2>1, <2>2, <2>3, <3>2, <3>3, <3>4, <2>5, PoolAssumption DEF CallIsSound,
           HasConnection, Unused
      <3>6. OnlyItUses(u)
        BY <2>1, <2>2, <3>1, <3>3, <3>4 DEF OnlyItUses
      <3>7. OnlyItsConnection(u)
        BY <1>12, <2>1, <2>2, <2>3, <3>2, <3>3, <3>4, <2>5, PoolAssumption DEF OnlyItsConnection,
           CallIsSound, HasConnection, UseRecords
      <3> QED
        BY <3>5, <3>6, <3>7, OneCallMoves
    <2> QED
      BY <2>4, <2>5
  <1>13. ASSUME NEW u \in PoolUsers, ServerCommits(u) PROVE PoolInv'
    <2>1. /\ CallIsSound(u) /\ useOf[u] \in UseRecords /\ givenBack[u] \in {0, 1}
          /\ useOf \in [PoolUsers -> UseRecords] /\ givenBack \in [PoolUsers -> {0, 1}]
          /\ handedOut \subseteq PoolConnections /\ openOn \subseteq handedOut
      BY OfACall
    <2>2. PICK r \in UseRecords : r = useOf[u]
      BY <2>1
    <2>3. r.step = "commit" /\ u \notin committed
      BY <1>13, <2>1, <2>2, PoolAssumption DEF ServerCommits, Connected, UseStep, MoveOn, AnswerUse
    <2>4. PoolInv'
      <3> DEFINE x == r
      <3>1. x \in UseRecords
        BY <1>13, <2>2 DEF UseRecords, UseSteps
      <3>2. x.kind = r.kind /\ x.step = r.step /\ x.connection = r.connection /\ x.destroyed = r.destroyed /\ x.cancelling = r.cancelling /\ x.failure = r.failure /\ x.answer = r.answer
        BY <2>2 DEF UseRecords
      <3>3. /\ useOf' = [useOf EXCEPT ![u] = x]
            /\ committed' = committed \cup {u} /\ openOn' \subseteq openOn /\ openOn \ {r.connection} \subseteq openOn' /\ (r.destroyed \/ r.connection \notin openOn') /\ (openOn' = openOn \/ (r.destroyed => r.cancelling)) /\ UNCHANGED <<unaborted, handedOut, condemned, givenBack>>
        BY <1>13, <2>1, <2>2, <2>3 DEF ServerCommits, Connected, UseStep, MoveOn, AnswerUse
      <3>4. useOf'[u] = x /\ givenBack'[u] \in {0, 1}
        BY <2>1, <3>3
      <3> HIDE DEF x
      <3>5. CallIsSound(u)'
        BY <1>13, <2>1, <2>2, <2>3, <3>2, <3>3, <3>4, PoolAssumption DEF CallIsSound, HasConnection,
           Unused
      <3>6. OnlyItUses(u)
        BY <2>1, <2>2, <3>1, <3>3, <3>4 DEF OnlyItUses
      <3>7. OnlyItsConnection(u)
        BY <1>13, <2>1, <2>2, <2>3, <3>2, <3>3, <3>4, PoolAssumption DEF OnlyItsConnection,
           CallIsSound, HasConnection, UseRecords
      <3> QED
        BY <3>5, <3>6, <3>7, OneCallMoves
    <2> QED
      BY <2>4
  <1>14. ASSUME NEW u \in PoolUsers, CommitReturns(u) PROVE PoolInv'
    <2>1. /\ CallIsSound(u) /\ useOf[u] \in UseRecords /\ givenBack[u] \in {0, 1}
          /\ useOf \in [PoolUsers -> UseRecords] /\ givenBack \in [PoolUsers -> {0, 1}]
          /\ handedOut \subseteq PoolConnections /\ openOn \subseteq handedOut
      BY OfACall
    <2>2. PICK r \in UseRecords : r = useOf[u]
      BY <2>1
    <2>3. r.step = "commit" /\ u \in committed
      BY <1>14, <2>1, <2>2, PoolAssumption DEF CommitReturns, Connected, UseStep, MoveOn, AnswerUse
    <2>4. PoolInv'
      <3> DEFINE x == [r EXCEPT !.step = "settle", !.answer = "ok"]
      <3>1. x \in UseRecords
        BY <1>14, <2>2 DEF UseRecords, UseSteps
      <3>2. x.kind = r.kind /\ x.step = "settle" /\ x.connection = r.connection /\ x.destroyed = r.destroyed /\ x.cancelling = r.cancelling /\ x.failure = r.failure /\ x.answer = "ok"
        BY <2>2 DEF UseRecords
      <3>3. /\ useOf' = [useOf EXCEPT ![u] = x]
            /\ UNCHANGED <<unaborted, handedOut, openOn, committed, condemned, givenBack>>
        BY <1>14, <2>1, <2>2, <2>3 DEF CommitReturns, Connected, UseStep, MoveOn, AnswerUse
      <3>4. useOf'[u] = x /\ givenBack'[u] \in {0, 1}
        BY <2>1, <3>3
      <3> HIDE DEF x
      <3>5. CallIsSound(u)'
        BY <1>14, <2>1, <2>2, <2>3, <3>2, <3>3, <3>4, PoolAssumption DEF CallIsSound, HasConnection,
           Unused
      <3>6. OnlyItUses(u)
        BY <2>1, <2>2, <3>1, <3>3, <3>4 DEF OnlyItUses
      <3>7. OnlyItsConnection(u)
        BY <1>14, <2>1, <2>2, <2>3, <3>2, <3>3, <3>4, PoolAssumption DEF OnlyItsConnection,
           CallIsSound, HasConnection, UseRecords
      <3> QED
        BY <3>5, <3>6, <3>7, OneCallMoves
    <2> QED
      BY <2>4
  <1>15. ASSUME NEW u \in PoolUsers, RollbackReturns(u) PROVE PoolInv'
    <2>1. /\ CallIsSound(u) /\ useOf[u] \in UseRecords /\ givenBack[u] \in {0, 1}
          /\ useOf \in [PoolUsers -> UseRecords] /\ givenBack \in [PoolUsers -> {0, 1}]
          /\ handedOut \subseteq PoolConnections /\ openOn \subseteq handedOut
      BY OfACall
    <2>2. PICK r \in UseRecords : r = useOf[u]
      BY <2>1
    <2>3. r.step = "rollback" /\ (r.destroyed => r.cancelling)
      BY <1>15, <2>1, <2>2, PoolAssumption DEF RollbackReturns, Connected, UseStep, MoveOn,
         AnswerUse
    <2>4. PoolInv'
      <3> DEFINE x == [r EXCEPT !.step = "settle", !.answer = "failed"]
      <3>1. x \in UseRecords
        BY <1>15, <2>2 DEF UseRecords, UseSteps
      <3>2. x.kind = r.kind /\ x.step = "settle" /\ x.connection = r.connection /\ x.destroyed = r.destroyed /\ x.cancelling = r.cancelling /\ x.failure = r.failure /\ x.answer = "failed"
        BY <2>2 DEF UseRecords
      <3>3. /\ useOf' = [useOf EXCEPT ![u] = x]
            /\ openOn' = openOn \ {r.connection} /\ UNCHANGED <<unaborted, handedOut, committed, condemned, givenBack>>
        BY <1>15, <2>1, <2>2, <2>3 DEF RollbackReturns, Connected, UseStep, MoveOn, AnswerUse
      <3>4. useOf'[u] = x /\ givenBack'[u] \in {0, 1}
        BY <2>1, <3>3
      <3> HIDE DEF x
      <3>5. CallIsSound(u)'
        BY <1>15, <2>1, <2>2, <2>3, <3>2, <3>3, <3>4, PoolAssumption DEF CallIsSound, HasConnection,
           Unused
      <3>6. OnlyItUses(u)
        BY <2>1, <2>2, <3>1, <3>3, <3>4 DEF OnlyItUses
      <3>7. OnlyItsConnection(u)
        BY <1>15, <2>1, <2>2, <2>3, <3>2, <3>3, <3>4, PoolAssumption DEF OnlyItsConnection,
           CallIsSound, HasConnection, UseRecords
      <3> QED
        BY <3>5, <3>6, <3>7, OneCallMoves
    <2> QED
      BY <2>4
  <1>16. ASSUME NEW u \in PoolUsers, RollbackFails(u) PROVE PoolInv'
    <2>1. /\ CallIsSound(u) /\ useOf[u] \in UseRecords /\ givenBack[u] \in {0, 1}
          /\ useOf \in [PoolUsers -> UseRecords] /\ givenBack \in [PoolUsers -> {0, 1}]
          /\ handedOut \subseteq PoolConnections /\ openOn \subseteq handedOut
      BY OfACall
    <2>2. PICK r \in UseRecords : r = useOf[u]
      BY <2>1
    <2>3. r.step = "rollback"
      BY <1>16, <2>1, <2>2, PoolAssumption DEF RollbackFails, Destroyed, UseStep, MoveOn, AnswerUse
    <2>4. PoolInv'
      <3> DEFINE x == [r EXCEPT !.step = "settle", !.answer = "failed", !.destroyed = TRUE, !.cancelling = (r.cancelling \/ ~r.destroyed)]
      <3>1. x \in UseRecords
        BY <1>16, <2>2 DEF UseRecords, UseSteps
      <3>2. x.kind = r.kind /\ x.step = "settle" /\ x.connection = r.connection /\ x.destroyed = TRUE /\ x.cancelling = (r.cancelling \/ ~r.destroyed) /\ x.failure = r.failure /\ x.answer = "failed"
        BY <2>2 DEF UseRecords
      <3>3. /\ useOf' = [useOf EXCEPT ![u] = x]
            /\ UNCHANGED <<unaborted, handedOut, openOn, committed, condemned, givenBack>>
        BY <1>16, <2>1, <2>2, <2>3 DEF RollbackFails, Destroyed, UseStep, MoveOn, AnswerUse
      <3>4. useOf'[u] = x /\ givenBack'[u] \in {0, 1}
        BY <2>1, <3>3
      <3> HIDE DEF x
      <3>5. CallIsSound(u)'
        BY <1>16, <2>1, <2>2, <2>3, <3>2, <3>3, <3>4, PoolAssumption DEF CallIsSound, HasConnection,
           Unused
      <3>6. OnlyItUses(u)
        BY <2>1, <2>2, <3>1, <3>3, <3>4 DEF OnlyItUses
      <3>7. OnlyItsConnection(u)
        BY <1>16, <2>1, <2>2, <2>3, <3>2, <3>3, <3>4, PoolAssumption DEF OnlyItsConnection,
           CallIsSound, HasConnection, UseRecords
      <3> QED
        BY <3>5, <3>6, <3>7, OneCallMoves
    <2> QED
      BY <2>4
  <1>17. ASSUME NEW u \in PoolUsers, EndUse(u) PROVE PoolInv'
    <2>1. /\ CallIsSound(u) /\ useOf[u] \in UseRecords /\ givenBack[u] \in {0, 1}
          /\ useOf \in [PoolUsers -> UseRecords] /\ givenBack \in [PoolUsers -> {0, 1}]
          /\ handedOut \subseteq PoolConnections /\ openOn \subseteq handedOut
      BY OfACall
    <2>2. PICK r \in UseRecords : r = useOf[u]
      BY <2>1
    <2>3. r.step = "settle" /\ ~r.cancelling
      BY <1>17, <2>1, <2>2, PoolAssumption DEF EndUse, HandBack, CallIsSound, UseStep, MoveOn,
         AnswerUse
    <2>4. CASE r.destroyed
      <3> DEFINE x == [r EXCEPT !.step = "done"]
      <3>1. x \in UseRecords
        BY <1>17, <2>2 DEF UseRecords, UseSteps
      <3>2. x.kind = r.kind /\ x.step = "done" /\ x.connection = r.connection /\ x.destroyed = r.destroyed /\ x.cancelling = r.cancelling /\ x.failure = r.failure /\ x.answer = r.answer
        BY <2>2 DEF UseRecords
      <3>3. /\ useOf' = [useOf EXCEPT ![u] = x]
            /\ UNCHANGED <<unaborted, handedOut, openOn, committed, condemned, givenBack>>
        BY <1>17, <2>1, <2>2, <2>3, <2>4 DEF EndUse, HandBack, CallIsSound, UseStep, MoveOn,
           AnswerUse
      <3>4. useOf'[u] = x /\ givenBack'[u] \in {0, 1}
        BY <2>1, <3>3
      <3> HIDE DEF x
      <3>5. CallIsSound(u)'
        BY <1>17, <2>1, <2>2, <2>3, <3>2, <3>3, <3>4, <2>4, PoolAssumption DEF CallIsSound,
           HasConnection, Unused
      <3>6. OnlyItUses(u)
        BY <2>1, <2>2, <3>1, <3>3, <3>4 DEF OnlyItUses
      <3>7. OnlyItsConnection(u)
        BY <1>17, <2>1, <2>2, <2>3, <3>2, <3>3, <3>4, <2>4, PoolAssumption DEF OnlyItsConnection,
           CallIsSound, HasConnection, UseRecords
      <3> QED
        BY <3>5, <3>6, <3>7, OneCallMoves
    <2>5. CASE ~r.destroyed
      <3> DEFINE x == [r EXCEPT !.step = "done"]
      <3>1. x \in UseRecords
        BY <1>17, <2>2 DEF UseRecords, UseSteps
      <3>2. x.kind = r.kind /\ x.step = "done" /\ x.connection = r.connection /\ x.destroyed = r.destroyed /\ x.cancelling = r.cancelling /\ x.failure = r.failure /\ x.answer = r.answer
        BY <2>2 DEF UseRecords
      <3>3. /\ useOf' = [useOf EXCEPT ![u] = x]
            /\ handedOut' = handedOut \ {r.connection} /\ givenBack' = [givenBack EXCEPT ![u] = givenBack[u] + 1] /\ givenBack[u] = 0 /\ UNCHANGED <<unaborted, openOn, committed, condemned>>
        BY <1>17, <2>1, <2>2, <2>3, <2>5 DEF EndUse, HandBack, CallIsSound, UseStep, MoveOn,
           AnswerUse
      <3>4. useOf'[u] = x /\ givenBack'[u] \in {0, 1}
        BY <2>1, <3>3
      <3> HIDE DEF x
      <3>5. CallIsSound(u)'
        BY <1>17, <2>1, <2>2, <2>3, <3>2, <3>3, <3>4, <2>5, PoolAssumption DEF CallIsSound,
           HasConnection, Unused
      <3>6. OnlyItUses(u)
        BY <2>1, <2>2, <3>1, <3>3, <3>4 DEF OnlyItUses
      <3>7. OnlyItsConnection(u)
        BY <1>17, <2>1, <2>2, <2>3, <3>2, <3>3, <3>4, <2>5, PoolAssumption DEF OnlyItsConnection,
           CallIsSound, HasConnection, UseRecords
      <3> QED
        BY <3>5, <3>6, <3>7, OneCallMoves
    <2> QED
      BY <2>4, <2>5
  <1>18. CASE UNCHANGED poolVars
    BY <1>18 DEF poolVars, PoolInv, PoolTyped, CallsAreWhole, CallIsSound, HasConnection, OneHolder
  <1> QED
    BY <1>1, <1>2, <1>3, <1>4, <1>5, <1>6, <1>7, <1>8, <1>9, <1>10, <1>11, <1>12, <1>13, <1>14,
       <1>15, <1>16, <1>17, <1>18 DEF PoolNext

LEMMA PoolMeans == PoolInv => PoolTypeOK /\ PooledIsClean /\ GivenBackOnce /\ AbortedIsNotCommitted
  <1> SUFFICES ASSUME PoolInv PROVE PoolTypeOK /\ PooledIsClean /\ GivenBackOnce /\ AbortedIsNotCommitted
    OBVIOUS
  <1>1. PoolTypeOK
    <2>1. ASSUME NEW u \in PoolUsers, useOf[u] # Unused
          PROVE  useOf[u] \in [kind : {"transaction", "statement"}, step : UseSteps,
        connection : PoolConnections \cup {NoConnection}, destroyed : BOOLEAN,
        cancelling : BOOLEAN, failure : BOOLEAN, answer : {"none", "ok", "failed"}]
      <3>1. useOf[u] \in UseRecords /\ useOf[u].step # "none" /\ useOf[u].kind # "none"
        BY <2>1, OfACall DEF CallIsSound
      <3> QED
        BY <3>1 DEF UseRecords
    <2> QED
      BY <2>1 DEF PoolTypeOK, PoolInv, PoolTyped
  <1>2. PooledIsClean
    <2>1. ASSUME NEW c \in PoolConnections, c \notin handedOut, NEW u \in PoolUsers, useOf[u].connection = c
          PROVE  ~useOf[u].cancelling
      BY <2>1, OfACall, PoolAssumption DEF CallIsSound, HasConnection
    <2>2. openOn \subseteq handedOut
      BY DEF PoolInv, PoolTyped
    <2> QED
      BY <2>1, <2>2 DEF PooledIsClean
  <1>3. GivenBackOnce
    <2>1. ASSUME NEW u \in PoolUsers
          PROVE  givenBack[u] = IF UseStep(u) = "done" /\ useOf[u].connection # NoConnection THEN 1
                                ELSE IF Connected(u) THEN 0 ELSE 1
      BY OfACall DEF CallIsSound, Connected, UseStep
    <2> QED
      BY <2>1 DEF GivenBackOnce
  <1>4. AbortedIsNotCommitted
    <2>1. \A u \in PoolUsers : CallIsSound(u)
      BY DEF PoolInv, CallsAreWhole
    <2>2. committed \subseteq PoolUsers
      BY DEF PoolInv, PoolTyped
    <2> QED
      BY <2>1, <2>2 DEF AbortedIsNotCommitted, CallIsSound
  <1> QED
    BY <1>1, <1>2, <1>3, <1>4

(* Connections: what is in the pool is clean, each call gives its one back *)
(* once, and nothing that was aborted before its commit is committed.      *)
THEOREM ConnectionsComeBackClean ==
  PoolSpec => [](PoolTypeOK /\ PooledIsClean /\ GivenBackOnce /\ AbortedIsNotCommitted)
  <1>1. PoolInit => PoolInv
    BY PoolStarts
  <1>2. PoolInv /\ [PoolNext]_poolVars => PoolInv'
    BY PoolGoesOn
  <1>3. PoolInv => PoolTypeOK /\ PooledIsClean /\ GivenBackOnce /\ AbortedIsNotCommitted
    BY PoolMeans
  <1> QED
    BY <1>1, <1>2, <1>3, PTL DEF PoolSpec

-----------------------------------------------------------------------------
(* Migrations: each is executed once, as it was reviewed, in order.        *)

SeenVersions == UNION {[D -> Checksums] : D \in SUBSET MigrationVersions}
RunnerStates ==
  [at : {"idle", "lock", "read", "next", "begun", "done", "failed", "refused"},
   seen : SeenVersions, next : MigrationVersions \cup {0}]

MigrationsTyped ==
  /\ holder \in Runners \cup {NoRunner}
  /\ DOMAIN registry \subseteq MigrationVersions
  /\ \A v \in DOMAIN registry : registry[v] \in MigrationRows
  /\ executed \in [MigrationVersions -> Nat]
  /\ runner \in [Runners -> RunnerStates]

IsApplied(v, sum) == v \in DOMAIN registry /\ registry[v].checksum = sum

(* A row is of a migration that some release brings, with its text, its    *)
(* name and, once there are columns for it, its range.                     *)
RowIsBrought(v) ==
  \E r \in Runners : \E m \in Catalogue[r] :
    /\ m.version = v /\ m.checksum = registry[v].checksum /\ m.name = registry[v].name
    /\ m.drops => m.approved
    /\ v >= EvidenceFrom => registry[v].range = m.range
RowIsFilled(v) ==
  v < EvidenceFrom =>
    \/ registry[v].range = NoRange
    \/ registry[v].range = AnyApplication /\ registry[v].checksum = ReviewedChecksums[v]
RowsAreBrought == \A v \in DOMAIN registry : RowIsBrought(v) /\ RowIsFilled(v)

(* Who added the columns had applied what it brings before them, which is  *)
(* filled in.                                                              *)
EvidenceIsFilled ==
  EvidenceFrom \in DOMAIN registry =>
    \E o \in Runners :
      /\ EvidenceFrom \in Known(o)
      /\ \A u \in Known(o) : u < EvidenceFrom =>
           u \in DOMAIN registry /\ registry[u].range = AnyApplication

(* A runner has loaded what it runs, and has applied it as far as it is.   *)
RunnerIsSound(r) ==
  /\ runner[r].at \in {"lock", "read", "next", "begun", "done"} => Loads(r)
  /\ runner[r].at \in {"next", "begun"} =>
       \A v \in DOMAIN runner[r].seen : IsApplied(v, runner[r].seen[v])
  /\ runner[r].at = "begun" => runner[r].next \in Known(r)
  /\ runner[r].at = "begun" =>
       \A u \in Known(r) : u < runner[r].next => IsApplied(u, Checksum(r, u))
  /\ runner[r].at = "next" =>
       \A u \in Known(r) : u <= runner[r].next => IsApplied(u, Checksum(r, u))
  /\ runner[r].at = "done" => \A u \in Known(r) : IsApplied(u, Checksum(r, u))
RunnersAreSound == \A r \in Runners : RunnerIsSound(r)

MigrationsInv ==
  MigrationsTyped /\ ExecutedOnce /\ RowsAreBrought /\ EvidenceIsFilled /\ RunnersAreSound

(* The catalogue names a migration by its version.                         *)
LEMMA EntryIs ==
  ASSUME NEW r \in Runners, NEW v \in Known(r)
  PROVE  /\ Entry(r, v) \in Catalogue[r] /\ Entry(r, v).version = v /\ v \in MigrationVersions
         /\ Entry(r, v).checksum \in Checksums /\ Entry(r, v).name \in FileNames
         /\ Entry(r, v).range \in Ranges /\ Entry(r, v).range.minimum # Open
         /\ Checksum(r, v) = Entry(r, v).checksum
  <1>1. \E m \in Catalogue[r] : m.version = v
    BY DEF Known
  <1>2. Entry(r, v) \in Catalogue[r] /\ Entry(r, v).version = v
    BY <1>1 DEF Entry
  <1>3. /\ Entry(r, v) \in [version : MigrationVersions, checksum : Checksums, name : FileNames,
                 range : Ranges, complete : BOOLEAN, destructive : BOOLEAN,
                 approved : BOOLEAN, drops : BOOLEAN]
        /\ Entry(r, v).range.minimum # Open
    BY <1>2, MigrationsAssumption
  <1> QED
    BY <1>2, <1>3 DEF Checksum

LEMMA OneEntry ==
  ASSUME NEW r \in Runners, Loads(r), NEW m \in Catalogue[r]
  PROVE  m.version \in Known(r) /\ Entry(r, m.version) = m
  <1>1. m.version \in Known(r)
    BY DEF Known
  <1>2. Entry(r, m.version) \in Catalogue[r] /\ Entry(r, m.version).version = m.version
    BY <1>1, EntryIs
  <1> QED
    BY <1>1, <1>2 DEF Loads, UniqueVersions

LEMMA ReviewedEntry ==
  ASSUME NEW r \in Runners, Loads(r), NEW v \in Known(r)
  PROVE  Entry(r, v).drops => Entry(r, v).approved
  <1>1. Entry(r, v) \in Catalogue[r]
    BY EntryIs
  <1> QED
    BY <1>1, Zenon DEF Loads, IsReviewed

(* There is a first one of some versions.                                  *)
LEMMA FirstVersion ==
  ASSUME NEW S \in SUBSET Nat, S # {}
  PROVE  First(S) \in S /\ \A u \in S : First(S) <= u
  <1> DEFINE R == OpToRel(<, Nat)
  <1>1. IsWellFoundedOn(R, Nat)
    BY NatLessThanWellFounded, Zenon
  <1>2. PICK i \in S : TRUE
    OBVIOUS
  <1> HIDE DEF R
  <1>3. PICK x \in S : \A y \in S : ~ (<<y, x>> \in R)
    BY <1>1, <1>2, WFMin, Zenon
  <1>4. \A y \in S : ~ (y < x)
    BY <1>3 DEF R, OpToRel
  <1>5. \A y \in S : x <= y
    BY <1>4
  <1> QED
    BY <1>5 DEF First

LEMMA MigrationsStart == MigrationsInit => MigrationsInv
  <1> SUFFICES ASSUME MigrationsInit PROVE MigrationsInv
    OBVIOUS
  <1>1. Empty \in SeenVersions /\ DOMAIN Empty = {}
    <2>1. Empty \in [{} -> Checksums]
      BY DEF Empty
    <2> QED
      BY <2>1 DEF SeenVersions
  <1>2. Ready \in RunnerStates /\ Ready.at = "idle"
    BY <1>1 DEF Ready, RunnerStates
  <1>3. MigrationsTyped
    BY <1>1, <1>2 DEF MigrationsInit, MigrationsTyped
  <1>4. ExecutedOnce /\ RowsAreBrought /\ EvidenceIsFilled
    BY <1>1 DEF MigrationsInit, ExecutedOnce, RowsAreBrought, EvidenceIsFilled
  <1>5. RunnersAreSound
    BY <1>2 DEF MigrationsInit, RunnersAreSound, RunnerIsSound
  <1> QED
    BY <1>3, <1>4, <1>5 DEF MigrationsInv

(* What was applied stays applied, with its text.                          *)
RegistryGrows ==
  \A v \in DOMAIN registry : v \in DOMAIN registry' /\ registry'[v].checksum = registry[v].checksum

LEMMA OtherRunners ==
  ASSUME RegistryGrows, NEW r \in Runners, RunnerIsSound(r), runner'[r] = runner[r]
  PROVE  RunnerIsSound(r)'
  <1>1. \A v, sum : IsApplied(v, sum) => IsApplied(v, sum)'
    BY DEF RegistryGrows, IsApplied
  <1>0. PICK x : x = runner[r]
    OBVIOUS
  <1>2. /\ x.at \in {"lock", "read", "next", "begun", "done"} => Loads(r)
        /\ x.at \in {"next", "begun"} => \A v \in DOMAIN x.seen : IsApplied(v, x.seen[v])'
        /\ x.at = "begun" => x.next \in Known(r)
        /\ x.at = "begun" => \A u \in Known(r) : u < x.next => IsApplied(u, Checksum(r, u))'
        /\ x.at = "next" => \A u \in Known(r) : u <= x.next => IsApplied(u, Checksum(r, u))'
        /\ x.at = "done" => \A u \in Known(r) : IsApplied(u, Checksum(r, u))'
    BY <1>0, <1>1, Zenon DEF RunnerIsSound
  <1>3. runner'[r] = x
    BY <1>0
  <1> QED
    BY <1>2, <1>3, Zenon DEF RunnerIsSound

(* A runner that moves and writes nothing.                                 *)
LEMMA RunnerMoves ==
  ASSUME MigrationsInv, NEW r \in Runners, runner' = [runner EXCEPT ![r] = runner'[r]],
         runner'[r] \in RunnerStates, holder' \in Runners \cup {NoRunner},
         UNCHANGED <<registry, executed>>, RunnerIsSound(r)'
  PROVE  MigrationsInv'
  <1>1. PICK x \in RunnerStates : runner' = [runner EXCEPT ![r] = x]
    OBVIOUS
  <1>2. runner \in [Runners -> RunnerStates]
    BY DEF MigrationsInv, MigrationsTyped
  <1>3. runner' \in [Runners -> RunnerStates] /\ \A q \in Runners \ {r} : runner'[q] = runner[q]
    BY <1>1, <1>2
  <1>4. MigrationsTyped'
    BY <1>3 DEF MigrationsInv, MigrationsTyped
  <1>5. ExecutedOnce' /\ EvidenceIsFilled'
    BY DEF MigrationsInv, ExecutedOnce, EvidenceIsFilled, Known
  <1>6. RowsAreBrought'
    BY DEF MigrationsInv, RowsAreBrought, RowIsBrought, RowIsFilled
  <1>7. RegistryGrows
    BY DEF RegistryGrows
  <1>8. ASSUME NEW q \in Runners PROVE RunnerIsSound(q)'
    BY <1>3, <1>7, OtherRunners DEF MigrationsInv, RunnersAreSound
  <1> QED
    BY <1>4, <1>5, <1>6, <1>8 DEF MigrationsInv, RunnersAreSound

LEMMA OfARunner ==
  ASSUME MigrationsInv, NEW r \in Runners
  PROVE  /\ runner[r] \in RunnerStates /\ runner \in [Runners -> RunnerStates]
         /\ RunnerIsSound(r)
         /\ holder \in Runners \cup {NoRunner}
         /\ (IF holder = r THEN NoRunner ELSE holder) \in Runners \cup {NoRunner}
  BY DEF MigrationsInv, MigrationsTyped, RunnersAreSound

(* Where a runner goes without a change of what it knows.                  *)
LEMMA RunnerStateIs ==
  ASSUME NEW x \in RunnerStates
  PROVE  /\ \A s \in {"idle", "lock", "read", "next", "begun", "done", "failed", "refused"} :
              /\ [x EXCEPT !.at = s] \in RunnerStates /\ [x EXCEPT !.at = s].at = s
              /\ [x EXCEPT !.at = s].seen = x.seen /\ [x EXCEPT !.at = s].next = x.next
         /\ x.seen \in SeenVersions /\ x.next \in MigrationVersions \cup {0}
  BY DEF RunnerStates

LEMMA RunnerIsAt ==
  ASSUME MigrationsInv, NEW r \in Runners, UNCHANGED <<registry, executed>>,
         NEW s \in {"idle", "lock", "read", "next", "begun", "done", "failed", "refused"},
         RunnerGoes(r, s), holder' \in Runners \cup {NoRunner},
         s \in {"lock", "read", "done"} => Loads(r),
         s \notin {"next", "begun"},
         s = "done" => \A u \in Known(r) : IsApplied(u, Checksum(r, u))
  PROVE  MigrationsInv'
  <1>1. PICK x \in RunnerStates : x = runner[r]
    BY OfARunner
  <1> DEFINE y == [x EXCEPT !.at = s]
  <1>2. y \in RunnerStates /\ y.at = s
    BY RunnerStateIs
  <1>3. runner' = [runner EXCEPT ![r] = y] /\ runner'[r] = y
    BY <1>1, OfARunner DEF RunnerGoes
  <1> HIDE DEF y
  <1>4. s = "done" => \A u \in Known(r) : IsApplied(u, Checksum(r, u))'
    BY DEF IsApplied
  <1>5. RunnerIsSound(r)'
    BY <1>2, <1>3, <1>4 DEF RunnerIsSound, IsApplied
  <1> QED
    BY <1>2, <1>3, <1>5, RunnerMoves

LEMMA VersionsAreNumbers ==
  /\ MigrationVersions \subseteq Nat /\ EvidenceFrom \in Nat
  /\ \A v \in MigrationVersions : v \in Nat /\ ~(v <= 0)
  <1>1. MigrationVersions \subseteq Nat \ {0} /\ EvidenceFrom \in MigrationVersions
    BY MigrationsAssumption
  <1>2. MigrationVersions \subseteq Nat /\ EvidenceFrom \in Nat
    BY <1>1
  <1>3. ASSUME NEW v \in MigrationVersions PROVE v \in Nat /\ ~(v <= 0)
    <2>1. v \in Nat /\ v # 0
      BY <1>1
    <2> QED
      BY <2>1
  <1> QED
    BY <1>2, <1>3

LEMMA KnownVersions ==
  ASSUME NEW r \in Runners
  PROVE  Known(r) \subseteq MigrationVersions /\ \A v \in Known(r) : v \in Nat /\ ~(v <= 0)
  <1>1. Known(r) \subseteq MigrationVersions
    BY MigrationsAssumption DEF Known
  <1> QED
    BY <1>1, VersionsAreNumbers

LEMMA ReadKeepsOrder ==
  ASSUME MigrationsInv, NEW r \in Runners, ReadApplied(r)
  PROVE  MigrationsInv'
  <1> DEFINE s == [v \in DOMAIN registry |-> registry[v].checksum]
             y == [at |-> "next", next |-> 0, seen |-> s]
  <1>1. /\ runner[r].at = "read" /\ runner' = [runner EXCEPT ![r] = y]
        /\ UNCHANGED <<holder, registry, executed>>
    BY DEF ReadApplied, RunnerAt
  <1>2. s \in SeenVersions
    <2>1. DOMAIN registry \in SUBSET MigrationVersions /\ \A v \in DOMAIN registry : registry[v].checksum \in Checksums
      BY DEF MigrationsInv, MigrationsTyped, MigrationRows
    <2>2. s \in [DOMAIN registry -> Checksums]
      BY <2>1
    <2> HIDE DEF s
    <2> QED
      BY <2>1, <2>2 DEF SeenVersions
  <1>3. DOMAIN s = DOMAIN registry /\ \A v \in DOMAIN registry : s[v] = registry[v].checksum
    OBVIOUS
  <1> HIDE DEF s
  <1>4. y \in RunnerStates /\ y.at = "next" /\ y.next = 0 /\ y.seen = s
    BY <1>2 DEF RunnerStates
  <1> HIDE DEF y
  <1>5. runner'[r] = y
    BY <1>1, OfARunner
  <1>6. PICK t : t = s
    OBVIOUS
  <1>7. \A v \in DOMAIN t : IsApplied(v, t[v])'
    BY <1>1, <1>3, <1>6 DEF IsApplied
  <1>8. Loads(r)
    BY <1>1, OfARunner DEF RunnerIsSound
  <1>9. \A u \in Known(r) : ~(u <= 0)
    BY KnownVersions
  <1>10. runner'[r].seen = t /\ runner'[r].at = "next" /\ runner'[r].next = 0
    BY <1>4, <1>5, <1>6
  <1>11. RunnerIsSound(r)'
    BY <1>7, <1>8, <1>9, <1>10 DEF RunnerIsSound
  <1> QED
    BY <1>1, <1>4, <1>5, <1>11, OfARunner, RunnerMoves

(* What comes before the next migration is applied as it is brought.       *)
LEMMA BeginKeepsOrder ==
  ASSUME MigrationsInv, NEW r \in Runners, BeginMigration(r)
  PROVE  MigrationsInv'
  <1> DEFINE rest == {v \in Remaining(r) : v \notin DOMAIN runner[r].seen}
  <1>0. PICK x \in RunnerStates : x = runner[r]
    BY OfARunner
  <1>1. /\ x.at = "next" /\ rest # {}
        /\ \A v \in Remaining(r) : v < First(rest) => ~Modified(r, v)
        /\ UNCHANGED <<holder, registry, executed>>
        /\ runner' = [runner EXCEPT ![r] = [x EXCEPT !.at = "begun", !.next = First(rest)]]
    BY <1>0, OfARunner DEF BeginMigration, RunnerAt
  <1>2. rest \in SUBSET Nat /\ rest \subseteq Remaining(r) /\ Remaining(r) \subseteq Known(r)
    BY KnownVersions DEF Remaining
  <1>3. \A v \in Remaining(r) : v \notin rest => v \in DOMAIN x.seen
    BY <1>0
  <1> HIDE DEF rest
  <1>4. PICK n \in rest : n = First(rest) /\ \A u \in rest : n <= u
    BY <1>1, <1>2, FirstVersion
  <1>5. n \in Known(r) /\ n \in MigrationVersions
    BY <1>2, <1>4, EntryIs
  <1> DEFINE y == [x EXCEPT !.at = "begun", !.next = n]
  <1>6. y \in RunnerStates /\ y.at = "begun" /\ y.next = n /\ y.seen = x.seen
    BY <1>5 DEF RunnerStates
  <1>7. runner' = [runner EXCEPT ![r] = y] /\ runner'[r] = y
    BY <1>1, <1>4, OfARunner
  <1> HIDE DEF y
  <1>8. /\ Loads(r) /\ \A v \in DOMAIN x.seen : IsApplied(v, x.seen[v])
        /\ \A u \in Known(r) : u <= x.next => IsApplied(u, Checksum(r, u))
    BY <1>0, <1>1, OfARunner DEF RunnerIsSound
  <1>9. ASSUME NEW u \in Known(r), u < n PROVE IsApplied(u, Checksum(r, u))
    <2>0. x.next \in MigrationVersions \cup {0}
      BY DEF RunnerStates
    <2>4. u \in Nat
      BY KnownVersions
    <2>5. n \in Nat
      BY <1>5, VersionsAreNumbers
    <2>6. MigrationVersions \cup {0} \subseteq Nat
      BY VersionsAreNumbers
    <2>7. x.next \in Nat
      BY <2>0, <2>6, Zenon
    <2>1. u \in Nat /\ n \in Nat /\ x.next \in Nat
      BY <2>5, <2>7, <2>4
    <2>2. CASE u <= x.next
      BY <1>8, <2>2
    <2>3. CASE ~(u <= x.next)
      <3>1. u \in Remaining(r)
        BY <1>0, <2>1, <2>3 DEF Remaining
      <3>2. u \notin rest
        BY <1>2, <1>4, <1>9, <2>1
      <3>3. u \in DOMAIN x.seen /\ x.seen[u] = Checksum(r, u)
        BY <1>0, <1>1, <1>3, <1>4, <1>9, <3>1, <3>2 DEF Modified
      <3> QED
        BY <1>8, <3>3
    <2> QED
      BY <2>2, <2>3
  <1>10. /\ \A v \in DOMAIN x.seen : IsApplied(v, x.seen[v])'
         /\ \A u \in Known(r) : u < n => IsApplied(u, Checksum(r, u))'
    BY <1>1, <1>8, <1>9 DEF IsApplied
  <1>11. runner'[r].seen = x.seen /\ runner'[r].at = "begun" /\ runner'[r].next = n
    BY <1>6, <1>7
  <1>12. RunnerIsSound(r)'
    BY <1>5, <1>8, <1>10, <1>11 DEF RunnerIsSound
  <1> QED
    BY <1>1, <1>6, <1>7, <1>12, OfARunner, RunnerMoves

LEMMA FinishKeepsOrder ==
  ASSUME MigrationsInv, NEW r \in Runners, FinishMigrations(r)
  PROVE  MigrationsInv'
  <1>1. /\ runner[r].at = "next" /\ UNCHANGED <<registry, executed>> /\ RunnerGoes(r, "done")
        /\ holder' \in Runners \cup {NoRunner}
        /\ \A v \in Remaining(r) : v \in DOMAIN runner[r].seen /\ ~Modified(r, v)
    BY OfARunner DEF FinishMigrations, RunnerAt, Frees
  <1>2. /\ Loads(r) /\ \A v \in DOMAIN runner[r].seen : IsApplied(v, runner[r].seen[v])
        /\ \A u \in Known(r) : u <= runner[r].next => IsApplied(u, Checksum(r, u))
    BY <1>1, OfARunner DEF RunnerIsSound
  <1>3. ASSUME NEW u \in Known(r) PROVE IsApplied(u, Checksum(r, u))
    <2>0. runner[r].next \in MigrationVersions \cup {0}
      BY OfARunner DEF RunnerStates
    <2>4. u \in Nat
      BY KnownVersions
    <2>6. MigrationVersions \cup {0} \subseteq Nat
      BY VersionsAreNumbers
    <2>1. u \in Nat /\ runner[r].next \in Nat
      BY <2>0, <2>4, <2>6, Zenon
    <2>2. CASE u <= runner[r].next
      BY <1>2, <2>2
    <2>3. CASE ~(u <= runner[r].next)
      <3>1. u \in Remaining(r)
        BY <2>1, <2>3 DEF Remaining
      <3> QED
        BY <1>1, <1>2, <3>1 DEF Modified
    <2> QED
      BY <2>2, <2>3
  <1> QED
    BY <1>1, <1>2, <1>3, RunnerIsAt

(* A migration and its row.                                                *)
LEMMA CommitKeepsOrder ==
  ASSUME MigrationsInv, NEW r \in Runners, CommitMigration(r)
  PROVE  MigrationsInv'
  <1>0. PICK x \in RunnerStates : x = runner[r]
    BY OfARunner
  <1>1. PICK v \in Known(r) : v = x.next
    BY <1>0, OfARunner DEF CommitMigration, RunnerAt, RunnerIsSound
  <1>2. /\ x.at = "begun" /\ v \notin DOMAIN registry /\ ColumnsAreThere(v)
        /\ registry' = [u \in DOMAIN registry \cup {v} |->
                          IF u = v THEN RowOf(r, v) ELSE Filled(v, u)]
        /\ executed' = [executed EXCEPT ![v] = @ + 1]
    BY <1>0, <1>1 DEF CommitMigration, RunnerAt
  <1>3. PICK s \in {"next", "failed"} : RunnerGoes(r, s) /\ holder' \in Runners \cup {NoRunner}
    BY OfARunner DEF CommitMigration, Frees
  <1> DEFINE y == [x EXCEPT !.at = s]
  <1>4. y \in RunnerStates /\ y.at = s /\ y.next = v /\ y.seen = x.seen
    BY <1>1 DEF RunnerStates
  <1>5. runner' = [runner EXCEPT ![r] = y]
    BY <1>0, <1>3, OfARunner DEF RunnerGoes
  <1> HIDE DEF y
  <1>6. /\ runner' \in [Runners -> RunnerStates] /\ runner'[r] = y
        /\ \A q \in Runners \ {r} : runner'[q] = runner[q]
    BY <1>4, <1>5, OfARunner
  <1>7. /\ Entry(r, v) \in Catalogue[r] /\ Entry(r, v).version = v /\ v \in MigrationVersions
        /\ Entry(r, v).checksum \in Checksums /\ Entry(r, v).name \in FileNames
        /\ Entry(r, v).range \in Ranges /\ Entry(r, v).range.minimum # Open
        /\ Checksum(r, v) = Entry(r, v).checksum
    BY EntryIs
  <1>8. /\ Loads(r) /\ \A u \in Known(r) : u < v => IsApplied(u, Checksum(r, u))
        /\ \A u \in DOMAIN x.seen : IsApplied(u, x.seen[u])
    BY <1>0, <1>1, <1>2, OfARunner DEF RunnerIsSound
  <1>9. Entry(r, v).drops => Entry(r, v).approved
    BY <1>8, ReviewedEntry
  <1>10. /\ DOMAIN registry \subseteq MigrationVersions
         /\ \A u \in DOMAIN registry : registry[u] \in MigrationRows
         /\ executed \in [MigrationVersions -> Nat]
    BY DEF MigrationsInv, MigrationsTyped
  <1>11. NoRange \in Ranges /\ AnyApplication \in Ranges
    BY DEF NoRange, AnyApplication, Ranges, SemanticVersions
  <1>12. /\ RowOf(r, v) \in MigrationRows /\ RowOf(r, v).checksum = Checksum(r, v)
         /\ RowOf(r, v).name = Entry(r, v).name
         /\ RowOf(r, v).range = IF v >= EvidenceFrom THEN Entry(r, v).range ELSE NoRange
    BY <1>7, <1>11 DEF RowOf, MigrationRows
  <1>13. ASSUME NEW u \in DOMAIN registry
         PROVE  /\ Filled(v, u) \in MigrationRows /\ Filled(v, u).checksum = registry[u].checksum
                /\ Filled(v, u).name = registry[u].name
                /\ Filled(v, u).range = IF v = EvidenceFrom /\ u < EvidenceFrom THEN AnyApplication
                                        ELSE registry[u].range
    BY <1>10, <1>11 DEF Filled, Earlier, MigrationRows
  <1>14. /\ DOMAIN registry' = DOMAIN registry \cup {v}
         /\ registry'[v].checksum = Checksum(r, v) /\ registry'[v].name = Entry(r, v).name
         /\ registry'[v].range = IF v >= EvidenceFrom THEN Entry(r, v).range ELSE NoRange
         /\ registry'[v] \in MigrationRows
    BY <1>2, <1>12
  <1>15. ASSUME NEW u \in DOMAIN registry
         PROVE  /\ registry'[u] \in MigrationRows /\ registry'[u].checksum = registry[u].checksum
                /\ registry'[u].name = registry[u].name
                /\ registry'[u].range = IF v = EvidenceFrom /\ u < EvidenceFrom THEN AnyApplication
                                        ELSE registry[u].range
    <2>1. registry'[u] = Filled(v, u)
      BY <1>2
    <2> QED
      BY <1>13, <2>1
  <1>16. MigrationsTyped'
    <2>1. executed' \in [MigrationVersions -> Nat]
      BY <1>2, <1>7, <1>10
    <2> QED
      BY <1>3, <1>6, <1>7, <1>10, <1>14, <1>15, <2>1 DEF MigrationsTyped
  <1>17. ExecutedOnce'
    <2>1. ASSUME NEW u \in MigrationVersions
          PROVE  executed'[u] = IF u \in DOMAIN registry' THEN 1 ELSE 0
      <3>1. executed[u] = IF u \in DOMAIN registry THEN 1 ELSE 0
        BY DEF MigrationsInv, ExecutedOnce
      <3>2. executed'[u] = IF u = v THEN executed[u] + 1 ELSE executed[u]
        BY <1>2, <1>7, <1>10
      <3> QED
        BY <1>2, <1>14, <3>1, <3>2
    <2> QED
      BY <2>1 DEF ExecutedOnce
  <1>18. RowsAreBrought'
    <2>1. RowIsBrought(v)'
      <3>1. /\ Entry(r, v).version = v /\ Entry(r, v).checksum = registry'[v].checksum
            /\ Entry(r, v).name = registry'[v].name
            /\ v >= EvidenceFrom => registry'[v].range = Entry(r, v).range
        BY <1>7, <1>14
      <3>2. PICK m \in Catalogue[r] : m = Entry(r, v)
        BY <1>7
      <3> QED
        BY <1>9, <3>1, <3>2 DEF RowIsBrought
    <2>2. v \in Nat /\ EvidenceFrom \in Nat
      BY <1>7, MigrationsAssumption
    <2>3. RowIsFilled(v)'
      BY <1>14, <2>2 DEF RowIsFilled
    <2>4. ASSUME NEW u \in DOMAIN registry PROVE RowIsBrought(u)' /\ RowIsFilled(u)'
      <3>1. RowIsBrought(u) /\ RowIsFilled(u)
        BY DEF MigrationsInv, RowsAreBrought
      <3>2. u \in Nat
        BY <1>10, MigrationsAssumption
      <3>7. PICK o \in Runners : \E m \in Catalogue[o] :
              /\ m.version = u /\ m.checksum = registry[u].checksum /\ m.name = registry[u].name
              /\ m.drops => m.approved
              /\ u >= EvidenceFrom => registry[u].range = m.range
        BY <3>1 DEF RowIsBrought
      <3>3. PICK m \in Catalogue[o] :
              /\ m.version = u /\ m.checksum = registry[u].checksum /\ m.name = registry[u].name
              /\ m.drops => m.approved
              /\ u >= EvidenceFrom => registry[u].range = m.range
        BY <3>7
      <3>4. u >= EvidenceFrom => registry'[u].range = m.range
        BY <1>15, <2>2, <3>2, <3>3
      <3>5. RowIsBrought(u)'
        BY <1>15, <3>3, <3>4 DEF RowIsBrought
      <3>6. RowIsFilled(u)'
        <4>1. CASE v = EvidenceFrom /\ u < EvidenceFrom
          <5>1. registry[u].checksum = ReviewedChecksums[u]
            BY <1>2, <4>1 DEF ColumnsAreThere, Earlier
          <5> QED
            BY <1>15, <4>1, <5>1 DEF RowIsFilled
        <4>2. CASE ~(v = EvidenceFrom /\ u < EvidenceFrom)
          BY <1>15, <3>1, <4>2 DEF RowIsFilled
        <4> QED
          BY <4>1, <4>2
      <3> QED
        BY <3>5, <3>6
    <2> QED
      BY <1>14, <2>1, <2>3, <2>4 DEF RowsAreBrought
  <1>19. EvidenceIsFilled'
    <2> SUFFICES ASSUME EvidenceFrom \in DOMAIN registry' PROVE EvidenceIsFilled'
      BY DEF EvidenceIsFilled
    <2>1. CASE v = EvidenceFrom
      <3>1. \A u \in Known(r) : u < EvidenceFrom => u \in DOMAIN registry
        BY <1>8, <2>1 DEF IsApplied
      <3>2. \A u \in Known(r) : u < EvidenceFrom => u \in DOMAIN registry' /\ registry'[u].range = AnyApplication
        BY <1>14, <1>15, <2>1, <3>1
      <3> QED
        BY <2>1, <3>2 DEF EvidenceIsFilled, Known, AnyApplication, Open
    <2>2. CASE v # EvidenceFrom
      <3>1. EvidenceFrom \in DOMAIN registry
        BY <1>14, <2>2
      <3>2. PICK o \in Runners :
              /\ EvidenceFrom \in Known(o)
              /\ \A u \in Known(o) : u < EvidenceFrom =>
                   u \in DOMAIN registry /\ registry[u].range = AnyApplication
        BY <3>1 DEF MigrationsInv, EvidenceIsFilled
      <3>3. \A u \in Known(o) : u < EvidenceFrom => u \in DOMAIN registry' /\ registry'[u].range = AnyApplication
        BY <1>14, <1>15, <2>2, <3>2
      <3> QED
        BY <3>2, <3>3 DEF EvidenceIsFilled, Known, AnyApplication, Open
    <2> QED
      BY <2>1, <2>2
  <1>20. RegistryGrows
    BY <1>14, <1>15 DEF RegistryGrows
  <1>21. RunnerIsSound(r)'
    <2>1. runner'[r].at = s /\ runner'[r].seen = x.seen /\ runner'[r].next = v
      BY <1>4, <1>6
    <2>2. \A u, sum : IsApplied(u, sum) => IsApplied(u, sum)'
      BY <1>20 DEF RegistryGrows, IsApplied
    <2>3. IsApplied(v, Checksum(r, v))'
      BY <1>14 DEF IsApplied
    <2>4. \A u \in Known(r) : u <= v => IsApplied(u, Checksum(r, u))'
      <3>1. ASSUME NEW u \in Known(r), u <= v PROVE u < v \/ u = v
        BY <3>1, KnownVersions
      <3> QED
        BY <1>8, <2>2, <2>3, <3>1
    <2>5. \A u \in DOMAIN x.seen : IsApplied(u, x.seen[u])'
      BY <1>8, <2>2
    <2> QED
      BY <1>8, <2>1, <2>4, <2>5 DEF RunnerIsSound
  <1>22. ASSUME NEW q \in Runners PROVE RunnerIsSound(q)'
    BY <1>6, <1>20, <1>21, OtherRunners DEF MigrationsInv, RunnersAreSound
  <1> QED
    BY <1>16, <1>17, <1>18, <1>19, <1>22 DEF MigrationsInv, RunnersAreSound

LEMMA MigrationsGoOn == MigrationsInv /\ [MigrationsNext]_migrationVars => MigrationsInv'
  <1> SUFFICES ASSUME MigrationsInv, [MigrationsNext]_migrationVars PROVE MigrationsInv'
    OBVIOUS
  <1>1. ASSUME NEW r \in Runners, LoadMigrations(r) PROVE MigrationsInv'
    <2>1. /\ UNCHANGED <<holder, registry, executed>>
          /\ RunnerGoes(r, IF Loads(r) THEN "lock" ELSE "refused")
      BY <1>1 DEF LoadMigrations
    <2>2. PICK s \in {"lock", "refused"} : s = IF Loads(r) THEN "lock" ELSE "refused"
      OBVIOUS
    <2>3. RunnerGoes(r, s) /\ (s = "lock" => Loads(r))
      BY <2>1, <2>2
    <2> QED
      BY <2>1, <2>3, OfARunner, RunnerIsAt
  <1>2. ASSUME NEW r \in Runners, TakeLock(r) PROVE MigrationsInv'
    <2>1. UNCHANGED <<registry, executed>> /\ RunnerGoes(r, "read") /\ holder' \in Runners \cup {NoRunner} /\ Loads(r)
      BY <1>2, OfARunner DEF TakeLock, RunnerAt, RunnerIsSound
    <2> QED
      BY <2>1, RunnerIsAt
  <1>3. ASSUME NEW r \in Runners, ReadApplied(r) PROVE MigrationsInv'
    BY <1>3, ReadKeepsOrder
  <1>4. ASSUME NEW r \in Runners, BeginMigration(r) PROVE MigrationsInv'
    BY <1>4, BeginKeepsOrder
  <1>5. ASSUME NEW r \in Runners, FindModified(r) \/ RunnerFails(r) PROVE MigrationsInv'
    <2>1. UNCHANGED <<registry, executed>> /\ RunnerGoes(r, "failed") /\ holder' \in Runners \cup {NoRunner}
      BY <1>5, OfARunner DEF FindModified, RunnerFails, Frees
    <2> QED
      BY <2>1, RunnerIsAt
  <1>6. ASSUME NEW r \in Runners, CommitMigration(r) PROVE MigrationsInv'
    BY <1>6, CommitKeepsOrder
  <1>7. ASSUME NEW r \in Runners, FinishMigrations(r) PROVE MigrationsInv'
    BY <1>7, FinishKeepsOrder
  <1>8. ASSUME NEW r \in Runners, RunAgain(r) PROVE MigrationsInv'
    <2>1. Ready \in RunnerStates /\ Ready.at = "idle"
      <3>1. Empty \in [{} -> Checksums]
        BY DEF Empty
      <3>2. Empty \in SeenVersions
        BY <3>1 DEF SeenVersions
      <3> QED
        BY <3>2 DEF Ready, RunnerStates
    <2>2. runner' = [runner EXCEPT ![r] = Ready] /\ UNCHANGED <<holder, registry, executed>>
      BY <1>8 DEF RunAgain
    <2>3. runner'[r] = Ready
      BY <2>2, OfARunner
    <2>4. RunnerIsSound(r)'
      BY <2>1, <2>3 DEF RunnerIsSound
    <2> QED
      BY <2>1, <2>2, <2>3, <2>4, OfARunner, RunnerMoves
  <1>9. CASE UNCHANGED migrationVars
    <2>1. MigrationsTyped' /\ ExecutedOnce' /\ EvidenceIsFilled'
      BY <1>9 DEF migrationVars, MigrationsInv, MigrationsTyped, ExecutedOnce, EvidenceIsFilled,
         Known
    <2>2. RowsAreBrought'
      BY <1>9 DEF migrationVars, MigrationsInv, RowsAreBrought, RowIsBrought, RowIsFilled
    <2>3. RegistryGrows /\ runner' = runner
      BY <1>9 DEF migrationVars, RegistryGrows
    <2>4. ASSUME NEW q \in Runners PROVE RunnerIsSound(q)'
      BY <2>3, OtherRunners DEF MigrationsInv, RunnersAreSound
    <2> QED
      BY <2>1, <2>2, <2>4 DEF MigrationsInv, RunnersAreSound
  <1> QED
    BY <1>1, <1>2, <1>3, <1>4, <1>5, <1>6, <1>7, <1>8, <1>9 DEF MigrationsNext

LEMMA BeforeIsPrecedes ==
  ASSUME NEW a \in SemanticVersions, NEW b \in SemanticVersions
  PROVE  Before(a, b) <=> Precedes(a, b)
  <1>1. a[1] \in Nat /\ a[2] \in Nat /\ a[3] \in Nat /\ b[1] \in Nat /\ b[2] \in Nat /\ b[3] \in Nat
    BY DEF SemanticVersions
  <1> DEFINE P(i) == a[i] < b[i] /\ \A j \in 1 .. (i - 1) : a[j] = b[j]
  <1>2. Before(a, b) <=> \E i \in 1 .. 3 : P(i)
    BY DEF Before
  <1>3. (\E i \in 1 .. 3 : P(i)) <=> P(1) \/ P(2) \/ P(3)
    <2> HIDE DEF P
    <2>1. 1 .. 3 = {1, 2, 3}
      OBVIOUS
    <2> QED
      BY <2>1
  <1>4. P(1) <=> a[1] < b[1]
    <2>1. 1 .. (1 - 1) = {}
      OBVIOUS
    <2> QED
      BY <2>1
  <1>5. P(2) <=> a[2] < b[2] /\ a[1] = b[1]
    <2>1. 1 .. (2 - 1) = {1}
      OBVIOUS
    <2> QED
      BY <2>1
  <1>6. P(3) <=> a[3] < b[3] /\ a[1] = b[1] /\ a[2] = b[2]
    <2>1. 1 .. (3 - 1) = {1, 2}
      OBVIOUS
    <2> QED
      BY <2>1
  <1> HIDE DEF P
  <1> QED
    BY <1>2, <1>3, <1>4, <1>5, <1>6, Zenon DEF Precedes

LEMMA SupportsIsMeant ==
  ASSUME NEW r \in Runners, NEW m \in Catalogue[r], NEW a \in ApplicationVersions
  PROVE  Supports(m.range, a) <=> IsMeantFor(m, a)
  <1>1. m.range \in Ranges /\ m.range.minimum # Open
    BY MigrationsAssumption
  <1>2. a \in SemanticVersions
    BY MigrationsAssumption
  <1>3. /\ m.range.minimum \in SemanticVersions
        /\ m.range.maximum # Open => m.range.maximum \in SemanticVersions
    BY <1>1 DEF Ranges
  <1>4. Before(a, m.range.minimum) <=> Precedes(a, m.range.minimum)
    BY <1>2, <1>3, BeforeIsPrecedes
  <1>5. m.range.maximum # Open => (Before(a, m.range.maximum) <=> Precedes(a, m.range.maximum))
    BY <1>2, <1>3, BeforeIsPrecedes
  <1> QED
    BY <1>4, <1>5, Zenon DEF Supports, IsMeantFor

(* The range of a row is the one it was brought with, the filled in one or *)
(* none, and which issue there is of it.                                   *)
LEMMA RowRange ==
  ASSUME MigrationsInv, NEW v \in DOMAIN registry
  PROVE  registry[v].range = NoRange \/ registry[v].range.minimum # Open
  <1>1. RowIsBrought(v) /\ RowIsFilled(v) /\ v \in Nat
    BY VersionsAreNumbers DEF MigrationsInv, RowsAreBrought, MigrationsTyped
  <1>2. CASE v < EvidenceFrom
    <2>1. AnyApplication.minimum # Open
      BY DEF AnyApplication, Open
    <2> QED
      BY <1>1, <1>2, <2>1 DEF RowIsFilled
  <1>3. CASE v >= EvidenceFrom
    <2>1. PICK r \in Runners : \E m \in Catalogue[r] : registry[v].range = m.range
      BY <1>1, <1>3 DEF RowIsBrought
    <2>2. \A m \in Catalogue[r] : m.range.minimum # Open
      BY MigrationsAssumption
    <2> QED
      BY <2>1, <2>2
  <1> QED
    BY <1>1, <1>2, <1>3, VersionsAreNumbers

LEMMA EvidenceIssueIs ==
  ASSUME MigrationsInv, NEW r, NEW a, NEW v \in DOMAIN registry
  PROVE  /\ registry[v].range.minimum = Open =>
              EvidenceIssue(r, a, v) = {"compatibility-evidence-unavailable"}
         /\ registry[v].range.minimum # Open /\ registry[v].range # Entry(r, v).range =>
              EvidenceIssue(r, a, v) = {"compatibility-evidence-mismatch"}
         /\ registry[v].range.minimum # Open /\ registry[v].range = Entry(r, v).range =>
              EvidenceIssue(r, a, v) =
                {k \in {"application-schema-version-unsupported"} : ~Supports(registry[v].range, a)}
  <1>1. NoRange.minimum = Open
    BY DEF NoRange
  <1>2. registry[v].range = NoRange \/ registry[v].range.minimum # Open
    BY RowRange
  <1>3. CASE registry[v].range.minimum = Open
    BY <1>1, <1>2, <1>3 DEF EvidenceIssue
  <1>4. CASE registry[v].range.minimum # Open /\ registry[v].range # Entry(r, v).range
    BY <1>1, <1>4 DEF EvidenceIssue
  <1>5. CASE registry[v].range.minimum # Open /\ registry[v].range = Entry(r, v).range
    BY <1>1, <1>5 DEF EvidenceIssue
  <1> QED
    BY <1>3, <1>4, <1>5

LEMMA IssuesAre ==
  ASSUME NEW r, NEW a, NEW v \in Known(r) \cup DOMAIN registry
  PROVE  /\ v \notin DOMAIN registry => IssuesOf(r, a, v) = {"missing-migration"}
         /\ v \in DOMAIN registry /\ v \notin Known(r) => IssuesOf(r, a, v) = {"unknown-applied-migration"}
         /\ v \in DOMAIN registry /\ v \in Known(r) =>
              IssuesOf(r, a, v) = EvidenceIssue(r, a, v)
                \cup {k \in {"checksum-mismatch"} : registry[v].checksum # Checksum(r, v)}
                \cup {k \in {"record-mismatch"} : registry[v].name # Entry(r, v).name}
  <1>1. CASE v \notin DOMAIN registry
    BY <1>1 DEF IssuesOf
  <1>2. CASE v \in DOMAIN registry /\ v \notin Known(r)
    BY <1>2 DEF IssuesOf
  <1>3. CASE v \in DOMAIN registry /\ v \in Known(r)
    BY <1>3 DEF IssuesOf
  <1> QED
    BY <1>1, <1>2, <1>3

(* What is found of a migration whose release has run.                     *)
LEMMA FoundIsExplained ==
  ASSUME MigrationsInv, NEW r \in Runners, NEW a \in ApplicationVersions, RunnerAt(r, "done"),
         NEW v \in Known(r) \cup DOMAIN registry, NEW k \in IssuesOf(r, a, v)
  PROVE  \/ k = "unknown-applied-migration"
         \/ k = "application-schema-version-unsupported" /\ ~IsMeantFor(Entry(r, v), a)
         \/ /\ k = "compatibility-evidence-unavailable"
            /\ \/ EvidenceFrom \notin Known(r)
               \/ \E o \in Runners : EvidenceFrom \in Known(o) /\ v \notin Known(o)
         \/ /\ k \in {"compatibility-evidence-mismatch", "record-mismatch"}
            /\ \/ \E o \in Runners : \E m \in Catalogue[o] :
                    /\ m.version = v /\ m.checksum = Checksum(r, v)
                    /\ m # Entry(r, v)
               \/ v < EvidenceFrom /\ Entry(r, v).range # AnyApplication
  <1>1. Loads(r) /\ \A u \in Known(r) : IsApplied(u, Checksum(r, u))
    BY OfARunner DEF RunnerAt, RunnerIsSound
  <1>2. v \in DOMAIN registry
    BY <1>1 DEF IsApplied
  <1>3. CASE v \notin Known(r)
    BY <1>2, <1>3, IssuesAre
  <1>4. CASE v \in Known(r)
    <2>1. registry[v].checksum = Checksum(r, v)
      BY <1>1, <1>4 DEF IsApplied
    <2>2. \/ k \in EvidenceIssue(r, a, v)
          \/ k = "record-mismatch" /\ registry[v].name # Entry(r, v).name
      BY <1>2, <1>4, <2>1, IssuesAre
    <2>3. RowIsBrought(v) /\ RowIsFilled(v) /\ v \in Nat /\ EvidenceFrom \in Nat
      BY <1>2, VersionsAreNumbers DEF MigrationsInv, RowsAreBrought, MigrationsTyped
    <2>4. PICK o \in Runners : \E m \in Catalogue[o] :
            /\ m.version = v /\ m.checksum = registry[v].checksum /\ m.name = registry[v].name
            /\ v >= EvidenceFrom => registry[v].range = m.range
      BY <2>3 DEF RowIsBrought
    <2>5. PICK m \in Catalogue[o] :
            /\ m.version = v /\ m.checksum = registry[v].checksum /\ m.name = registry[v].name
            /\ v >= EvidenceFrom => registry[v].range = m.range
      BY <2>4
    <2>6. CASE k = "record-mismatch" /\ registry[v].name # Entry(r, v).name
      <3>1. m # Entry(r, v) /\ m.checksum = Checksum(r, v)
        BY <2>1, <2>5, <2>6
      <3> QED
        BY <2>5, <2>6, <3>1
    <2>7. CASE k \in EvidenceIssue(r, a, v)
      <3>1. CASE registry[v].range.minimum = Open
        <4>1. k = "compatibility-evidence-unavailable"
          BY <1>2, <2>7, <3>1, EvidenceIssueIs
        <4>2. SUFFICES ASSUME EvidenceFrom \in Known(r)
                       PROVE  \E p \in Runners : EvidenceFrom \in Known(p) /\ v \notin Known(p)
          BY <4>1
        <4>3. EvidenceFrom \in DOMAIN registry
          BY <1>1, <4>2 DEF IsApplied
        <4>4. PICK p \in Runners :
                /\ EvidenceFrom \in Known(p)
                /\ \A u \in Known(p) : u < EvidenceFrom =>
                     u \in DOMAIN registry /\ registry[u].range = AnyApplication
          BY <4>3 DEF MigrationsInv, EvidenceIsFilled
        <4>5. AnyApplication.minimum # Open
          BY DEF AnyApplication, Open
        <4>6. v < EvidenceFrom
          <5>1. m.range.minimum # Open
            BY MigrationsAssumption
          <5>2. ~(v >= EvidenceFrom)
            BY <2>5, <3>1, <5>1
          <5> QED
            BY <2>3, <5>2
        <4> QED
          BY <3>1, <4>4, <4>5, <4>6
      <3>2. CASE registry[v].range.minimum # Open /\ registry[v].range # Entry(r, v).range
        <4>1. k = "compatibility-evidence-mismatch"
          BY <1>2, <2>7, <3>2, EvidenceIssueIs
        <4>2. CASE v >= EvidenceFrom
          <5>1. m # Entry(r, v) /\ m.checksum = Checksum(r, v)
            BY <2>1, <2>5, <3>2, <4>2
          <5> QED
            BY <2>5, <4>1, <5>1
        <4>3. CASE v < EvidenceFrom
          <5>1. NoRange.minimum = Open
            BY DEF NoRange
          <5>2. registry[v].range = AnyApplication
            BY <2>3, <3>2, <4>3, <5>1 DEF RowIsFilled
          <5> QED
            BY <3>2, <4>1, <4>3, <5>2
        <4> QED
          BY <2>3, <4>2, <4>3
      <3>3. CASE registry[v].range.minimum # Open /\ registry[v].range = Entry(r, v).range
        <4>1. k = "application-schema-version-unsupported" /\ ~Supports(Entry(r, v).range, a)
          BY <1>2, <2>7, <3>3, EvidenceIssueIs
        <4>2. PICK n \in Catalogue[r] : n = Entry(r, v)
          BY <1>4, EntryIs
        <4> QED
          BY <4>1, <4>2, SupportsIsMeant
      <3> QED
        BY <3>1, <3>2, <3>3
    <2> QED
      BY <2>2, <2>6, <2>7
  <1> QED
    BY <1>3, <1>4

LEMMA MigrationsMean ==
  MigrationsInv => /\ MigrationsTypeOK /\ ExecutedOnce /\ ExecutedIsReviewed
                   /\ MigratedIsFound /\ CompatibleIsMigrated
  <1> SUFFICES ASSUME MigrationsInv
               PROVE  /\ MigrationsTypeOK /\ ExecutedOnce /\ ExecutedIsReviewed
                      /\ MigratedIsFound /\ CompatibleIsMigrated
    OBVIOUS
  <1>1. MigrationsTypeOK
    <2>1. ASSUME NEW r \in Runners
          PROVE  /\ runner[r].at \in {"idle", "lock", "read", "next", "begun", "done", "failed", "refused"}
                 /\ \A v \in DOMAIN runner[r].seen : runner[r].seen[v] \in Checksums
                 /\ runner[r].next \in MigrationVersions \cup {0}
      BY OfARunner DEF RunnerStates, SeenVersions
    <2> QED
      BY <2>1 DEF MigrationsInv, MigrationsTyped, MigrationsTypeOK
  <1>2. ExecutedOnce
    BY DEF MigrationsInv
  <1>3. ExecutedIsReviewed
    <2>1. ASSUME NEW v \in DOMAIN registry
          PROVE  /\ \E r \in Runners : \E m \in Catalogue[r] :
                      /\ m.version = v /\ m.checksum = registry[v].checksum
                      /\ m.drops => m.approved
                 /\ v < EvidenceFrom /\ registry[v].range # NoRange =>
                      registry[v].checksum = ReviewedChecksums[v]
      <3>1. RowIsBrought(v) /\ RowIsFilled(v)
        BY DEF MigrationsInv, RowsAreBrought
      <3>2. PICK r \in Runners : \E m \in Catalogue[r] :
                      /\ m.version = v /\ m.checksum = registry[v].checksum
                      /\ m.drops => m.approved
        BY <3>1 DEF RowIsBrought
      <3>3. v < EvidenceFrom /\ registry[v].range # NoRange =>
                      registry[v].checksum = ReviewedChecksums[v]
        BY <3>1 DEF RowIsFilled
      <3> QED
        BY <3>2, <3>3
    <2> QED
      BY <2>1 DEF ExecutedIsReviewed
  <1>4. MigratedIsFound
    <2> SUFFICES ASSUME NEW r \in Runners, NEW a \in ApplicationVersions, RunnerAt(r, "done"),
                        NEW i \in Issues(r, a)
                 PROVE  \/ i[1] = "unknown-applied-migration"
                        \/ i[1] = "application-schema-version-unsupported"
                             /\ ~IsMeantFor(Entry(r, i[2]), a)
                        \/ /\ i[1] = "compatibility-evidence-unavailable"
                           /\ \/ EvidenceFrom \notin Known(r)
                              \/ \E o \in Runners : EvidenceFrom \in Known(o) /\ i[2] \notin Known(o)
                        \/ /\ i[1] \in {"compatibility-evidence-mismatch", "record-mismatch"}
                           /\ \/ \E o \in Runners : \E m \in Catalogue[o] :
                                   /\ m.version = i[2] /\ m.checksum = Checksum(r, i[2])
                                   /\ m # Entry(r, i[2])
                              \/ i[2] < EvidenceFrom /\ Entry(r, i[2]).range # AnyApplication
      BY Zenon DEF MigratedIsFound
    <2>1. PICK v \in Known(r) \cup DOMAIN registry : i \in {<<k, v>> : k \in IssuesOf(r, a, v)}
      BY DEF Issues
    <2>2. PICK k \in IssuesOf(r, a, v) : i = <<k, v>>
      BY <2>1
    <2>3. i[1] = k /\ i[2] = v
      BY <2>2
    <2> QED
      BY <2>3, FoundIsExplained, Zenon
  <1>5. CompatibleIsMigrated
    <2> SUFFICES ASSUME NEW r \in Runners, NEW a \in ApplicationVersions, Loads(r), Issues(r, a) = {}
                 PROVE  /\ \A v \in MigrationVersions : executed[v] = IF v \in Known(r) THEN 1 ELSE 0
                        /\ \A m \in Catalogue[r] : IsMeantFor(m, a)
      BY DEF CompatibleIsMigrated, IsCompatible
    <2>1. ASSUME NEW v \in Known(r) \cup DOMAIN registry PROVE IssuesOf(r, a, v) = {}
      <3>1. ASSUME NEW k \in IssuesOf(r, a, v) PROVE FALSE
        <4>1. <<k, v>> \in Issues(r, a)
          BY DEF Issues
        <4> QED
          BY <4>1
      <3> QED
        BY <3>1
    <2>2. \A v \in Known(r) : v \in DOMAIN registry
      BY <2>1, IssuesAre
    <2>3. \A v \in DOMAIN registry : v \in Known(r)
      BY <2>1, IssuesAre
    <2>4. \A v \in MigrationVersions : executed[v] = IF v \in Known(r) THEN 1 ELSE 0
      BY <2>2, <2>3 DEF MigrationsInv, ExecutedOnce
    <2>5. ASSUME NEW m \in Catalogue[r] PROVE IsMeantFor(m, a)
      <3> DEFINE v == m.version
      <3>1. v \in Known(r) /\ Entry(r, v) = m
        BY OneEntry
      <3> HIDE DEF v
      <3>2. v \in DOMAIN registry /\ IssuesOf(r, a, v) = {}
        BY <2>1, <2>2, <3>1
      <3>3. EvidenceIssue(r, a, v) = {}
        BY <3>1, <3>2, IssuesAre
      <3>4. registry[v].range = m.range /\ Supports(m.range, a)
        BY <3>1, <3>2, <3>3, EvidenceIssueIs
      <3> QED
        BY <3>4, SupportsIsMeant
    <2> QED
      BY <2>4, <2>5
  <1> QED
    BY <1>1, <1>2, <1>3, <1>4, <1>5

(* Releases that migrate one database at the same time, crash and run      *)
(* again: each migration is executed once, what is executed was reviewed,  *)
(* and what the compatibility check answers is true.                       *)
THEOREM MigrationsAreSound ==
  MigrationsSpec => [](/\ MigrationsTypeOK /\ ExecutedOnce /\ ExecutedIsReviewed
                       /\ MigratedIsFound /\ CompatibleIsMigrated)
  <1>1. MigrationsInit => MigrationsInv
    BY MigrationsStart
  <1>2. MigrationsInv /\ [MigrationsNext]_migrationVars => MigrationsInv'
    BY MigrationsGoOn
  <1>3. MigrationsInv => /\ MigrationsTypeOK /\ ExecutedOnce /\ ExecutedIsReviewed
                         /\ MigratedIsFound /\ CompatibleIsMigrated
    BY MigrationsMean
  <1> QED
    BY <1>1, <1>2, <1>3, PTL DEF MigrationsSpec
=============================================================================
