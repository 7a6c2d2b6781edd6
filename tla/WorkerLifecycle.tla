--------------------------- MODULE WorkerLifecycle ---------------------------
(***************************************************************************)
(* apps/worker/src/index.ts: the start and the stop of the worker process. *)
(* An attempt to start runs on after it has timed out, handlers end at any *)
(* moment, signals come at any moment, and a stop may be asked for while a *)
(* start or another stop is under way. What happens between two awaits is  *)
(* one step: a chain of microtasks is not interrupted by a timer.          *)
(***************************************************************************)
EXTENDS Naturals

CONSTANTS Handlers,    \* the handlers of the composition
          MaxStarts  \* bound: calls of start that get as far as an attempt

ASSUME WorkerAssumption == MaxStarts \in Nat \ {0} /\ Handlers # {}

VARIABLES
  running, draining, terminal, failed,
  attempts,    \* attempts so far; an attempt is known by its number
  activeStart, \* the attempt whose id is activeStart, 0 when none is
  starting,    \* what startPromise is in: initialising or cleaning up
  init,        \* per attempt: how far its initialisation is
  abortedStarts,\* attempts whose controller is aborted
  execs,       \* per attempt: the handlers in flight
  application, \* the attempt whose application context is held, 0 when none is
  stopping,    \* what stopPromise is in
  cause,       \* who waits for stop to settle the exit first
  exit,        \* waitForExit
  dependencies,\* every required dependency is healthy
  reported     \* what the health reporter was told last

workerVars == <<running, draining, terminal, failed, attempts, activeStart, starting, init, abortedStarts,
                execs, application, stopping, cause, exit, dependencies, reported>>
flags == <<terminal, failed, dependencies>>
outcome == <<cause, exit>>

Attempts == 1 .. MaxStarts

WorkerTypeOK ==
  /\ {running, draining, terminal, failed, dependencies} \subseteq BOOLEAN
  /\ attempts \in 0 .. MaxStarts /\ activeStart \in 0 .. MaxStarts
  /\ application \in 0 .. MaxStarts
  /\ starting \in {"none", "initialize", "cleanup"}
  /\ init \in [Attempts -> {"none", "create", "onStart", "ready", "launched", "done", "failed"}]
  /\ abortedStarts \subseteq Attempts
  /\ execs \in [Attempts -> SUBSET Handlers]
  /\ stopping \in {"none", "start", "drain"}
  /\ cause \in {"none", "signal", "fatal"} /\ exit \in {"none", "0", "1"}
  /\ reported \in {"ok", "unavailable"}

WorkerInit ==
  /\ running = FALSE /\ draining = FALSE /\ terminal = FALSE /\ failed = FALSE
  /\ attempts = 0 /\ activeStart = 0 /\ application = 0
  /\ starting = "none" /\ stopping = "none"
  /\ init = [a \in Attempts |-> "none"]
  /\ abortedStarts = {} /\ execs = [a \in Attempts |-> {}]
  /\ cause = "none" /\ exit = "none"
  /\ dependencies = TRUE /\ reported = "unavailable"

Dependencies ==
  /\ dependencies' = ~dependencies
  /\ UNCHANGED <<running, draining, terminal, failed, attempts, activeStart, starting, init, abortedStarts,
                 execs, application, stopping, outcome, reported>>

-----------------------------------------------------------------------------
(* Stopping. stop() drains a running worker, after the start under way has *)
(* ended; draining by a failed start is not its own.                       *)

SettledBy(code) == exit' = IF cause = "none" \/ exit # "none" THEN exit ELSE code

Drain ==
  /\ draining' = TRUE /\ running' = FALSE
  /\ abortedStarts' = abortedStarts \cup {attempts}
  /\ reported' = "unavailable"
  /\ application' = 0
  /\ stopping' = "drain"

(* Everything stop() does up to its first await.                           *)
StopBegins ==
  IF starting # "none"
  THEN /\ abortedStarts' = abortedStarts \cup {attempts} /\ stopping' = "start"
       /\ UNCHANGED <<running, draining, application, reported, exit>>
  ELSE IF running THEN Drain /\ UNCHANGED exit
  ELSE /\ stopping' = "none" /\ exit' = IF exit = "none" THEN "0" ELSE exit
       /\ UNCHANGED <<running, draining, abortedStarts, application, reported>>

(* The listeners for signals stand from an attempt to the end of a stop.   *)
Signal ==
  /\ attempts > 0 /\ cause = "none"
  /\ starting # "none" \/ running \/ stopping = "drain"
  /\ cause' = "signal"
  /\ activeStart' = 0
  /\ IF stopping # "none" THEN UNCHANGED <<running, draining, abortedStarts, application, reported, stopping, exit>>
     ELSE StopBegins
  /\ UNCHANGED <<flags, attempts, starting, init, execs>>

(* stop() called by the owner of the application.                          *)
StopAsked ==
  /\ stopping = "none" /\ (starting # "none" \/ running)
  /\ activeStart' = 0
  /\ StopBegins
  /\ UNCHANGED <<flags, attempts, starting, init, execs, cause>>

(* triggerFatal, when the worker runs.                                     *)
Fatal ==
  /\ failed' = TRUE /\ terminal' = TRUE
  /\ cause' = IF cause = "none" THEN "fatal" ELSE cause
  /\ activeStart' = 0
  /\ Drain

StopGoesOn ==
  /\ stopping = "start" /\ starting = "none"
  /\ IF running THEN Drain /\ UNCHANGED exit
     ELSE /\ stopping' = "none" /\ SettledBy("0")
          /\ UNCHANGED <<running, draining, abortedStarts, application, reported>>
  /\ UNCHANGED <<flags, attempts, activeStart, starting, init, execs, cause>>

(* The start that is cleaning up takes longer than stop waits.             *)
StopGivesUp ==
  /\ stopping = "start" /\ starting # "none"
  /\ stopping' = "none" /\ SettledBy("1")
  /\ UNCHANGED <<running, draining, flags, attempts, activeStart, starting, init, abortedStarts, execs,
                 application, cause, reported>>

StopEnds(code) ==
  /\ stopping = "drain"
  /\ draining' = FALSE /\ stopping' = "none"
  /\ SettledBy(code)
  /\ UNCHANGED <<running, failed, dependencies, attempts, activeStart, starting, init, abortedStarts, execs,
                 application, cause, reported>>

(* Every handler in flight has ended and the resources are closed.         *)
Drained ==
  /\ stopping = "drain" /\ execs[attempts] = {}
  /\ StopEnds("0")
  /\ UNCHANGED terminal

(* The drain timed out, or a stop hook was rejected.                       *)
DrainFails ==
  /\ StopEnds("1")
  /\ terminal' = TRUE

-----------------------------------------------------------------------------
(* Starting.                                                               *)

StartAsked ==
  /\ stopping = "none" /\ ~running /\ starting = "none"
  /\ ~terminal /\ dependencies
  /\ attempts < MaxStarts
  /\ attempts' = attempts + 1 /\ activeStart' = attempts + 1
  /\ init' = [init EXCEPT ![attempts + 1] = "create"]
  /\ starting' = "initialize"
  /\ failed' = FALSE /\ reported' = "unavailable"
  /\ UNCHANGED <<running, draining, terminal, dependencies, abortedStarts, execs, application, stopping,
                 outcome>>

Cancelled(a) == a \in abortedStarts \/ a # activeStart

Initialised(a, s) == init' = [init EXCEPT ![a] = s]

(* The context of a cancelled attempt is closed again.                     *)
Created(a) ==
  /\ init[a] = "create"
  /\ IF Cancelled(a) THEN Initialised(a, "failed") /\ UNCHANGED application
     ELSE Initialised(a, "onStart") /\ application' = a
  /\ UNCHANGED <<running, draining, flags, attempts, activeStart, starting, abortedStarts, execs, stopping,
                 outcome, reported>>

OnStarted(a) ==
  /\ init[a] = "onStart"
  /\ Initialised(a, IF Cancelled(a) THEN "failed" ELSE "ready")
  /\ UNCHANGED <<running, draining, flags, attempts, activeStart, starting, abortedStarts, execs, application,
                 stopping, outcome, reported>>

(* Broken: whether the attempt still counts is not looked at again.        *)
LaunchAnyway(a) ==
  /\ init[a] = "ready" /\ dependencies
  /\ Initialised(a, "launched") /\ execs' = [execs EXCEPT ![a] = Handlers]
  /\ UNCHANGED <<running, draining, flags, attempts, activeStart, starting, abortedStarts, application,
                 stopping, outcome, reported>>

(* Every handler is ready; they are run when the attempt still counts.     *)
Launch(a) ==
  /\ init[a] = "ready" /\ dependencies /\ ~Cancelled(a)
  /\ Initialised(a, "launched") /\ execs' = [execs EXCEPT ![a] = Handlers]
  /\ UNCHANGED <<running, draining, flags, attempts, activeStart, starting, abortedStarts, application,
                 stopping, outcome, reported>>

(* A step is rejected, or the attempt is found cancelled.                  *)
InitialiseFails(a) ==
  /\ init[a] \in {"create", "onStart", "ready"}
  /\ Initialised(a, "failed")
  /\ UNCHANGED <<running, draining, flags, attempts, activeStart, starting, abortedStarts, execs, application,
                 stopping, outcome, reported>>

(* setImmediate: no handler has ended at once. The health is not ok when a *)
(* dependency has been lost meanwhile, or the report fails.                *)
Running(a) ==
  /\ init[a] = "launched" /\ a = attempts /\ starting = "initialize"
  /\ dependencies /\ ~Cancelled(a)
  /\ Initialised(a, "done")
  /\ running' = TRUE /\ reported' = "ok"
  /\ starting' = "none"
  /\ UNCHANGED <<draining, flags, attempts, activeStart, abortedStarts, execs, application, stopping, outcome>>

NotRunning(a) ==
  /\ init[a] = "launched"
  /\ Initialised(a, "failed")
  /\ UNCHANGED <<running, draining, flags, attempts, activeStart, starting, abortedStarts, execs, application,
                 stopping, outcome, reported>>

(* The initialisation failed, or has not ended in time and runs on.        *)
StartFails ==
  /\ starting = "initialize"
  /\ starting' = "cleanup"
  /\ activeStart' = 0
  /\ draining' = TRUE
  /\ abortedStarts' = abortedStarts \cup {attempts}
  /\ application' = 0
  /\ reported' = "unavailable"
  /\ UNCHANGED <<running, flags, attempts, init, execs, stopping, outcome>>

Cleaned ==
  /\ starting = "cleanup"
  /\ draining' = FALSE /\ starting' = "none"
  /\ UNCHANGED <<running, failed, dependencies, attempts, activeStart, init, abortedStarts, execs, application,
                 stopping, outcome, reported>>

CleanedUp == starting = "cleanup" /\ execs[attempts] = {} /\ Cleaned /\ UNCHANGED terminal

CleanupFails == Cleaned /\ terminal' = TRUE

-----------------------------------------------------------------------------
(* A handler ends. In a worker that runs that is fatal; in one that starts *)
(* the attempt fails.                                                      *)
HandlerEnds(a, h) ==
  /\ h \in execs[a]
  /\ execs' = [execs EXCEPT ![a] = @ \ {h}]
  /\ IF init[a] = "launched"
     THEN /\ Initialised(a, "failed")
          /\ UNCHANGED <<running, draining, terminal, failed, activeStart, abortedStarts, application, stopping,
                         cause, reported>>
     ELSE /\ UNCHANGED init
          /\ IF a = activeStart /\ running THEN Fatal
             ELSE UNCHANGED <<running, draining, terminal, failed, activeStart, abortedStarts, application,
                              stopping, cause, reported>>
  /\ UNCHANGED <<dependencies, attempts, starting, exit>>

(* The health timer: a dependency is lost, or the report fails.            *)
HealthFails ==
  /\ running
  /\ Fatal
  /\ UNCHANGED <<dependencies, attempts, starting, init, execs, exit>>

StopNext == StopGoesOn \/ StopGivesUp \/ Drained \/ DrainFails
CleanupNext == CleanedUp \/ CleanupFails

AttemptNext(a) ==
  \/ Created(a) \/ OnStarted(a) \/ Launch(a) \/ InitialiseFails(a) \/ Running(a) \/ NotRunning(a)
  \/ \E h \in Handlers : HandlerEnds(a, h)

WorkerNext ==
  \/ Dependencies \/ Signal \/ StopAsked \/ StartAsked \/ StartFails \/ HealthFails
  \/ StopNext \/ CleanupNext
  \/ \E a \in Attempts : AttemptNext(a)

(* Every wait of a stop and of a failed start is bounded by a timer.       *)
WorkerFairness == WF_workerVars(StopNext) /\ WF_workerVars(CleanupNext)

WorkerSpec == WorkerInit /\ [][WorkerNext]_workerVars /\ WorkerFairness

-----------------------------------------------------------------------------
(* Properties.                                                             *)

(* Two attempts never have handlers in flight at the same time, although a *)
(* start that timed out goes on and a drain may time out.                  *)
OneGeneration == \A a, b \in Attempts : execs[a] # {} /\ execs[b] # {} => a = b

(* A worker that runs, and so reports that it is healthy, has every handler*)
(* of its attempt in flight: the end of one is never missed.               *)
RunningMeansAll ==
  /\ running => execs[attempts] = Handlers /\ attempts \notin abortedStarts /\ ~draining
  /\ reported = "ok" => running

(* No application context is kept by an attempt that was given up.         *)
ContextIsOwned == application # 0 => application = attempts /\ (running \/ starting = "initialize")

(* A signal or a fatal failure, which is never forgotten, settles the exit *)
(* of the process.                                                         *)
ExitSettles == []<>(cause = "none" \/ exit # "none")

-----------------------------------------------------------------------------
(***************************************************************************)
(* apps/worker: the connections of a production worker, from the bootstrap *)
(* that opens them to the process that can only end when they are closed   *)
(* (main.ts sets an exit code and waits for the event loop to run empty).  *)
(* bootstrap.ts is the caller, production-composition.ts acquires, probes  *)
(* and closes, rabbit-adapter.ts connects. A connector answers when it     *)
(* likes, whether or not somebody still waits for it. The application      *)
(* between start and stop is above; here it only calls close.              *)
(***************************************************************************)

Rabbit == {"publisher", "consumer"}
Targets == Rabbit \cup {"database"}
Closers == {"app", "bootstrap"}

VARIABLES
  boot,        \* what bootstrapWorker awaits
  interrupted, \* a signal came while it acquired and checked
  link,        \* per resource: how far its connection is
  abandoned,   \* acquisitions that were given up, their signal aborted
  drain,       \* the consumer's only drain, and whether a deadline can abort it
  resourcesClosed, closeConfirmed, closeTargets,
  closing,     \* closeOperation: what it knows of its targets
  closers,     \* who awaits it
  ended,       \* history: targets whose close succeeded
  healthy,     \* databaseHealthy
  healthProbe        \* the one probe of the database

closeVars == <<resourcesClosed, closeConfirmed, closeTargets, closing, closers, ended>>
probeVars == <<healthy, healthProbe>>
resourceVars == <<boot, interrupted, link, abandoned, drain, closeVars, probeVars>>

Startup == {"publisher", "consumer", "transport", "role", "schema", "health"}
NothingClosing == [t \in Targets |-> "idle"]
Undrained == [state |-> "none", deadline |-> FALSE]

ResourcesTypeOK ==
  /\ boot \in Startup \cup {"cleanup", "starting", "running", "stopping", "stopped", "failing",
                            "closing", "returned"}
  /\ {interrupted, resourcesClosed, closeConfirmed, healthy} \subseteq BOOLEAN
  /\ link \in [Targets -> {"none", "connecting", "setup", "usable", "closing", "gone"}]
  /\ abandoned \subseteq Rabbit
  /\ drain \in [state : {"none", "waiting", "closing", "closed", "failed"}, deadline : BOOLEAN]
  /\ closeTargets \subseteq Targets /\ ended \subseteq Targets /\ closers \subseteq Closers
  /\ closing \in [Targets -> {"idle", "pending", "closed", "failed"}]
  /\ healthProbe \in {"none", "timer", "asking", "late"}

(* The configuration is loaded, the database client made, and the publisher*)
(* being connected.                                                        *)
ResourcesInit ==
  /\ boot = "publisher" /\ interrupted = FALSE
  /\ link = [t \in Targets |-> CASE t = "publisher" -> "connecting" [] t = "consumer" -> "none"
                                 [] OTHER -> "usable"]
  /\ abandoned = {} /\ drain = Undrained
  /\ resourcesClosed = FALSE /\ closeConfirmed = FALSE
  /\ closeTargets = Targets /\ closing = NothingClosing /\ closers = {} /\ ended = {}
  /\ healthy = FALSE /\ healthProbe = "none"

-----------------------------------------------------------------------------
(* Acquisition. acquireRabbit waits for a connection until its deadline.   *)

Shut(ts) == [t \in Targets |-> IF t \in ts /\ link[t] = "usable" THEN "closing" ELSE link[t]]

(* The initialisation failed: what was acquired is closed, and no longer   *)
(* waited for than cleanupTimeoutMs.                                       *)
Abandon(r) ==
  /\ abandoned' = abandoned \cup {r}
  /\ boot' = "cleanup"
  /\ link' = [Shut(Targets) EXCEPT ![r] = IF @ = "setup" THEN "closing" ELSE @]
  /\ UNCHANGED <<drain, closeVars, probeVars>>

(* acquireModel: a model that arrives after the deadline is closed.        *)
ConnectorReplies(r) ==
  /\ link[r] = "connecting"
  /\ link' = [link EXCEPT ![r] = IF r \in abandoned THEN "closing" ELSE "setup"]
  /\ UNCHANGED <<boot, interrupted, abandoned, drain, closeVars, probeVars>>

ConnectorFails(r) ==
  /\ link[r] = "connecting"
  /\ link' = [link EXCEPT ![r] = "gone"]
  /\ UNCHANGED <<boot, interrupted, abandoned, drain, closeVars, probeVars>>

(* Channels and topology are there; the next connection is asked for.      *)
SetUp(r) ==
  /\ boot = r /\ link[r] = "setup"
  /\ boot' = IF r = "publisher" THEN "consumer" ELSE "transport"
  /\ link' = [t \in Targets |-> CASE t = r -> "usable"
                                 [] r = "publisher" /\ t = "consumer" -> "connecting"
                                 [] OTHER -> link[t]]
  /\ UNCHANGED <<interrupted, abandoned, drain, closeVars, probeVars>>

(* cleanupFailedAcquisition, which is waited for.                          *)
SetUpFails(r) ==
  /\ boot = r /\ link[r] = "setup"
  /\ link' = [link EXCEPT ![r] = "closing"]
  /\ UNCHANGED <<boot, interrupted, abandoned, drain, closeVars, probeVars>>

AcquisitionFails(r) ==
  /\ boot = r /\ link[r] = "gone"
  /\ boot' = "cleanup" /\ link' = Shut(Targets)
  /\ UNCHANGED <<interrupted, abandoned, drain, closeVars, probeVars>>

AcquisitionTimesOut(r) == boot = r /\ Abandon(r) /\ UNCHANGED interrupted

(* createRabbitConfirmTransport declares the exchange, without a deadline. *)
TransportFails ==
  /\ boot = "transport"
  /\ boot' = "cleanup" /\ link' = Shut(Targets)
  /\ UNCHANGED <<interrupted, abandoned, drain, closeVars, probeVars>>

CleanupEnds ==
  /\ boot = "cleanup"
  /\ boot' = "returned"
  /\ UNCHANGED <<interrupted, link, abandoned, drain, closeVars, probeVars>>

(* The broker ends a connection, or the heartbeat misses it.               *)
LinkLost(r) ==
  /\ link[r] \in {"setup", "usable"}
  /\ link' = [link EXCEPT ![r] = "gone"]
  /\ UNCHANGED <<boot, interrupted, abandoned, drain, closeVars, probeVars>>

-----------------------------------------------------------------------------
(* close().                                                                *)

Pending == \E t \in Targets : closing[t] = "pending"

(* drain() of the consumer is one operation: later calls await the first,  *)
(* whatever signal they bring.                                             *)
Drains(deadline) ==
  drain' = IF drain.state = "none" THEN [state |-> "waiting", deadline |-> deadline] ELSE drain

StopDatabaseProbes ==
  /\ healthy' = FALSE
  /\ healthProbe' = CASE healthProbe = "timer" -> "none"
                         [] healthProbe = "asking" -> "late"
                         [] OTHER -> healthProbe

(* The close of each target that has not been closed yet.                  *)
Begins ==
  /\ closing' = [t \in Targets |->
       IF t \notin closeTargets THEN "idle"
       ELSE IF t = "consumer" /\ drain.state \in {"closed", "failed"} THEN drain.state
       ELSE "pending"]
  /\ link' = Shut(closeTargets \ {"consumer"})
  /\ IF "consumer" \in closeTargets THEN Drains(TRUE) ELSE UNCHANGED drain

CloseResources(c) ==
  IF closeConfirmed THEN UNCHANGED <<link, drain, closeVars, probeVars>>
  ELSE /\ resourcesClosed' = TRUE
       /\ IF resourcesClosed THEN UNCHANGED probeVars ELSE StopDatabaseProbes
       /\ closers' = closers \cup {c}
       /\ IF closing = NothingClosing THEN Begins ELSE UNCHANGED <<closing, link, drain>>
       /\ UNCHANGED <<closeConfirmed, closeTargets, ended>>

(* What a close came to. A Rabbit connection that was lost, or has been    *)
(* closed before, refuses; a database client that failed to disconnect is  *)
(* still connected.                                                        *)
CloseOutcomes(t) == IF link[t] = "gone" THEN {"failed"} ELSE {"closed", "failed"}
LinkAfterClose(t, verdict) ==
  link' = [link EXCEPT ![t] = IF t = "database" /\ verdict = "failed" THEN "usable" ELSE "gone"]
Knows(t, verdict) ==
  /\ closing' = [closing EXCEPT ![t] = IF @ = "pending" THEN verdict ELSE @]
  /\ ended' = IF verdict = "closed" THEN ended \cup {t} ELSE ended

CloseAnswers(t) ==
  /\ t # "consumer" /\ closing[t] = "pending"
  /\ \E verdict \in CloseOutcomes(t) : LinkAfterClose(t, verdict) /\ Knows(t, verdict)
  /\ UNCHANGED <<boot, interrupted, abandoned, drain, resourcesClosed, closeConfirmed, closeTargets,
                 closers, probeVars>>

(* A connection that nobody waits for any more has been closed.            *)
Gone(r) ==
  /\ link[r] = "closing"
  /\ closing[r] # "pending" /\ (r = "consumer" => drain.state # "closing")
  /\ link' = [link EXCEPT ![r] = "gone"]
  /\ UNCHANGED <<boot, interrupted, abandoned, drain, closeVars, probeVars>>

(* The deliveries in flight have settled; the adapter closes its resources.*)
DeliveriesEnd ==
  /\ drain.state = "waiting"
  /\ drain' = [drain EXCEPT !.state = "closing"]
  /\ link' = Shut({"consumer"})
  /\ UNCHANGED <<boot, interrupted, abandoned, closeVars, probeVars>>

DrainEnds ==
  /\ drain.state = "closing"
  /\ \E verdict \in CloseOutcomes("consumer") :
       /\ drain' = [drain EXCEPT !.state = verdict]
       /\ LinkAfterClose("consumer", verdict)
       /\ Knows("consumer", verdict)
  /\ UNCHANGED <<boot, interrupted, abandoned, resourcesClosed, closeConfirmed, closeTargets, closers,
                 probeVars>>

(* waitForCloseOperation: one who waits has waited long enough. Every      *)
(* controller is aborted, which ends a wait for RabbitMQ, but for a drain  *)
(* that was begun without a signal.                                        *)
CloseTimesOut(c) ==
  /\ c \in closers /\ Pending
  /\ closers' = closers \ {c}
  /\ LET forced == closing["consumer"] = "pending" /\ drain.deadline
         cut == {t \in Targets : /\ closing[t] = "pending"
                                 /\ t = "publisher" \/ (t = "consumer" /\ forced)}
     IN /\ closing' = [t \in Targets |-> IF t \in cut THEN "failed" ELSE closing[t]]
        /\ link' = Shut(cut)
        /\ drain' = IF forced THEN [drain EXCEPT !.state = "failed"] ELSE drain
  /\ UNCHANGED <<boot, interrupted, abandoned, resourcesClosed, closeConfirmed, closeTargets, ended,
                 probeVars>>

(* Whoever waits learns the verdict; the next call retries what failed.    *)
CloseSettles ==
  /\ closing # NothingClosing /\ ~Pending /\ closers # {}
  /\ closers' = {} /\ closing' = NothingClosing
  /\ closeTargets' = {t \in Targets : closing[t] = "failed"}
  /\ closeConfirmed' = (closeTargets' = {})
  /\ UNCHANGED <<boot, interrupted, link, abandoned, drain, resourcesClosed, ended, probeVars>>

-----------------------------------------------------------------------------
(* assertDatabaseCompatible, and the probes that go on after it.           *)

(* A check fails, is too late or is interrupted: bootstrap closes all.     *)
CheckFails ==
  /\ boot \in {"role", "schema", "health"}
  /\ boot' = "closing" /\ CloseResources("bootstrap")
  /\ UNCHANGED <<interrupted, abandoned>>

TransportReady ==
  /\ boot = "transport" /\ link["publisher"] = "usable"
  /\ IF interrupted THEN boot' = "closing" /\ CloseResources("bootstrap")
     ELSE boot' = "role" /\ UNCHANGED <<link, drain, closeVars, probeVars>>
  /\ UNCHANGED <<interrupted, abandoned>>

CheckPasses ==
  /\ \/ boot = "role" /\ boot' = "schema" /\ UNCHANGED probeVars
     \/ boot = "schema" /\ boot' = "health" /\ healthProbe' = "asking" /\ UNCHANGED healthy
     \/ boot = "health" /\ boot' = "starting" /\ healthProbe' = "timer" /\ healthy' = TRUE
  /\ UNCHANGED <<interrupted, link, abandoned, drain, closeVars>>

Interrupt ==
  /\ boot \in Startup /\ ~interrupted
  /\ interrupted' = TRUE
  /\ \/ boot \in Rabbit /\ Abandon(boot)
     \/ boot = "transport" /\ UNCHANGED <<boot, link, abandoned, drain, closeVars, probeVars>>
     \/ boot \in {"role", "schema", "health"} /\ boot' = "closing" /\ CloseResources("bootstrap")
        /\ UNCHANGED abandoned

ProbeDue ==
  /\ healthProbe = "timer"
  /\ healthProbe' = "asking"
  /\ UNCHANGED <<boot, interrupted, link, abandoned, drain, closeVars, healthy>>

(* An answer in time, and the next probe.                                  *)
ProbeAnswers ==
  /\ healthProbe = "asking" /\ boot # "health"
  /\ healthy' \in BOOLEAN /\ healthProbe' = "timer"
  /\ UNCHANGED <<boot, interrupted, link, abandoned, drain, closeVars>>

ProbeTimesOut ==
  /\ healthProbe = "asking" /\ boot # "health"
  /\ healthy' = FALSE /\ healthProbe' = "late"
  /\ UNCHANGED <<boot, interrupted, link, abandoned, drain, closeVars>>

(* The next probe waits for the answer to the last one, and for obsolete() *)
(* to say no.                                                              *)
LateAnswer ==
  /\ healthProbe = "late"
  /\ healthProbe' = IF resourcesClosed THEN "none" ELSE "timer"
  /\ UNCHANGED <<boot, interrupted, link, abandoned, drain, closeVars, healthy>>

-----------------------------------------------------------------------------
(* The application and bootstrap's end.                                    *)

Started ==
  /\ boot = "starting"
  /\ boot' = "running"
  /\ UNCHANGED <<interrupted, link, abandoned, drain, closeVars, probeVars>>

(* cleanupFailedStart stops handlers and resources at the same time.       *)
ApplicationStartFails ==
  /\ boot = "starting"
  /\ boot' = "failing" /\ CloseResources("app")
  /\ UNCHANGED <<interrupted, abandoned>>

(* stop() waits for the handlers first; the handler of the consumer drains *)
(* it without a deadline.                                                  *)
StopBegun ==
  /\ boot = "running"
  /\ boot' = "stopping" /\ Drains(FALSE)
  /\ UNCHANGED <<interrupted, link, abandoned, closeVars, probeVars>>

WorkloadEnds ==
  /\ boot = "stopping"
  /\ boot' = "stopped" /\ CloseResources("app")
  /\ UNCHANGED <<interrupted, abandoned>>

(* The application ends, with its close or without waiting for it.         *)
AppEnds ==
  /\ boot \in {"stopped", "failing"}
  /\ \/ boot' = "returned" /\ UNCHANGED <<link, drain, closeVars, probeVars>>
     \/ boot = "failing" /\ boot' = "closing" /\ CloseResources("bootstrap")
  /\ UNCHANGED <<interrupted, abandoned>>

BootstrapReturns ==
  /\ boot = "closing" /\ "bootstrap" \notin closers
  /\ boot' = "returned"
  /\ UNCHANGED <<interrupted, link, abandoned, drain, closeVars, probeVars>>

ResourceAnswers(t) ==
  \/ t \in Rabbit /\ (ConnectorReplies(t) \/ ConnectorFails(t) \/ Gone(t))
  \/ CloseAnswers(t)
  \/ t = "consumer" /\ (DeliveriesEnd \/ DrainEnds)

BootstrapGoesOn ==
  \/ \E r \in Rabbit : SetUp(r) \/ SetUpFails(r) \/ AcquisitionFails(r) \/ AcquisitionTimesOut(r)
  \/ TransportReady \/ TransportFails \/ CleanupEnds \/ CheckPasses \/ CheckFails
  \/ AppEnds \/ WorkloadEnds \/ BootstrapReturns

CloseGoesOn == CloseSettles \/ \E c \in Closers : CloseTimesOut(c)

ResourcesNext ==
  \/ BootstrapGoesOn
  \/ CloseGoesOn
  \/ \E t \in Targets : ResourceAnswers(t)
  \/ \E r \in Rabbit : LinkLost(r)
  \/ Interrupt \/ ProbeDue \/ ProbeAnswers \/ ProbeTimesOut \/ LateAnswer
  \/ Started \/ ApplicationStartFails \/ StopBegun

(* Timers fire, a broker and a database answer, deliveries settle.         *)
ResourcesSpec ==
  /\ ResourcesInit /\ [][ResourcesNext]_resourceVars
  /\ WF_resourceVars(BootstrapGoesOn) /\ WF_resourceVars(CloseGoesOn)
  /\ \A t \in Targets : WF_resourceVars(ResourceAnswers(t))

-----------------------------------------------------------------------------
(* Properties.                                                             *)

(* A connection whose acquisition was given up is never used, and when     *)
(* bootstrap has returned none is open but a consumer that still waits for *)
(* its deliveries: whatever came late, was lost or timed out, somebody     *)
(* closes it.                                                              *)
NoConnectionIsOrphaned ==
  \A r \in Rabbit :
    link[r] \in {"setup", "usable"} =>
      /\ r \notin abandoned
      /\ boot = "returned" => r = "consumer" /\ drain.state = "waiting"

(* A target that was closed is not closed again, when close is repeated    *)
(* after a failure or called by the application and by bootstrap at once,  *)
(* and close is only confirmed when all are.                               *)
ClosedIsClosedOnce ==
  /\ \A t \in ended : t # "consumer" => closing[t] # "pending"
  /\ closeConfirmed => ended = Targets

(* Closed resources ask nothing of the database, whatever answer was still *)
(* outstanding, and are not reported healthy.                              *)
ClosedIsQuiet == resourcesClosed => healthProbe \in {"none", "late"} /\ ~healthy

(* A signal during the start ends bootstrap, and after it has returned no  *)
(* connection to RabbitMQ keeps the process alive.                         *)
ProcessIsReleased ==
  /\ []<>(interrupted => boot = "returned")
  /\ []<>(boot = "returned" => \A r \in Rabbit : link[r] \in {"none", "gone"})
=============================================================================
