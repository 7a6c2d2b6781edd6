---------------------------- MODULE ApiLifecycle ----------------------------
(***************************************************************************)
(* apps/api/src/index.ts (createApiApplication) and main.ts: the start and *)
(* the stop of the API process. An attempt to start goes on after it has   *)
(* timed out or was cancelled; the framework may open the listening socket *)
(* of a candidate that was closed before. What happens between two awaits  *)
(* is one step.                                                            *)
(***************************************************************************)
EXTENDS Naturals

CONSTANT MaxApiStarts  \* bound: attempts of start

ASSUME ApiLifecycleAssumption == MaxApiStarts \in Nat \ {0}

VARIABLES
  process,      \* where main.ts is, and its exit code
  ready,        \* ApiRuntimeState
  apiTerminal,
  apiStarts,    \* attempts so far; an attempt is known by its number
  apiActive,    \* the attempt whose id is activeStart, 0 when none is
  apiStarting,  \* what startPromise is in
  initialize,   \* per attempt: how far it is
  apiAborted,   \* attempts whose controller is aborted
  candidateClosed, \* attempts whose candidate was closed: that is done once
  listening,    \* attempts whose server accepts requests
  served,       \* the attempt that "application" belongs to, 0 when none
  apiStopping,  \* what "stopping" is in
  signalled     \* a signal was received

apiVars == <<process, ready, apiTerminal, apiStarts, apiActive, apiStarting, initialize, apiAborted,
             candidateClosed, listening, served, apiStopping, signalled>>
apiAttempt == <<apiStarts, apiStarting, initialize, candidateClosed>>

Starts == 1 .. MaxApiStarts

ApiTypeOK ==
  /\ process \in {"bindings", "serving", "0", "1"}
  /\ {ready, apiTerminal, signalled} \subseteq BOOLEAN
  /\ {apiStarts, apiActive, served} \subseteq 0 .. MaxApiStarts
  /\ apiStarting \in {"none", "initialize", "cleanup"}
  /\ initialize \in [Starts -> {"none", "onStart", "create", "listen", "done", "failed"}]
  /\ {apiAborted, candidateClosed, listening} \subseteq SUBSET Starts
  /\ apiStopping \in {"none", "start", "close"}

ApiInit ==
  /\ process = "bindings"
  /\ ready = FALSE /\ apiTerminal = FALSE /\ signalled = FALSE
  /\ apiStarts = 0 /\ apiActive = 0 /\ served = 0
  /\ apiStarting = "none" /\ apiStopping = "none"
  /\ initialize = [a \in Starts |-> "none"]
  /\ apiAborted = {} /\ candidateClosed = {} /\ listening = {}

-----------------------------------------------------------------------------
(* runApiMain: the bindings are created under a timeout and under signals. *)

BindingsCreated ==
  /\ process = "bindings" /\ ~signalled
  /\ process' = "serving"
  /\ UNCHANGED <<ready, apiTerminal, apiActive, apiAttempt, apiAborted, listening, served, apiStopping,
                 signalled>>

(* An interrupted acquisition that ends as cancelled exits with 0.         *)
BindingsFail ==
  /\ process = "bindings"
  /\ \/ signalled /\ process' = "0"
     \/ process' = "1"
  /\ UNCHANGED <<ready, apiTerminal, apiActive, apiAttempt, apiAborted, listening, served, apiStopping,
                 signalled>>

-----------------------------------------------------------------------------
(* Starting.                                                               *)

ApiStart ==
  /\ process = "serving" /\ apiStopping = "none"
  /\ served = 0 /\ apiStarting = "none" /\ ~apiTerminal
  /\ apiStarts < MaxApiStarts
  /\ apiStarts' = apiStarts + 1 /\ apiActive' = apiStarts + 1
  /\ apiStarting' = "initialize"
  /\ initialize' = [initialize EXCEPT ![apiStarts + 1] = "onStart"]
  /\ UNCHANGED <<process, ready, apiTerminal, apiAborted, candidateClosed, listening, served,
                 apiStopping, signalled>>

GivenUp(a) == a \in apiAborted \/ a # apiActive

To(a, s) == initialize' = [initialize EXCEPT ![a] = s]

(* onStart has settled, or it was rejected.                                *)
ApiOnStarted(a) ==
  /\ initialize[a] = "onStart"
  /\ \/ ~GivenUp(a) /\ To(a, "create")
     \/ To(a, "failed")
  /\ UNCHANGED <<process, ready, apiTerminal, apiStarts, apiActive, apiStarting, apiAborted,
                 candidateClosed, listening, served, apiStopping, signalled>>

(* The candidate of an attempt that was given up is closed.                *)
CandidateCreated(a) ==
  /\ initialize[a] = "create"
  /\ IF GivenUp(a) THEN To(a, "failed") /\ candidateClosed' = candidateClosed \cup {a}
     ELSE To(a, "listen") /\ UNCHANGED candidateClosed
  /\ UNCHANGED <<process, ready, apiTerminal, apiStarts, apiActive, apiStarting, apiAborted,
                 listening, served, apiStopping, signalled>>

CreateFails(a) ==
  /\ initialize[a] \in {"create", "listen"}
  /\ To(a, "failed")
  /\ UNCHANGED <<process, ready, apiTerminal, apiStarts, apiActive, apiStarting, apiAborted,
                 candidateClosed, listening, served, apiStopping, signalled>>

Listens(a) ==
  /\ initialize[a] = "listen" /\ ~GivenUp(a)
  /\ listening' = listening \cup {a}
  /\ To(a, "done") /\ served' = a /\ ready' = TRUE
  /\ apiStarting' = "none"
  /\ UNCHANGED <<process, apiTerminal, apiStarts, apiActive, apiAborted, candidateClosed,
                 apiStopping, signalled>>

(* The candidate is closed, unless that was done before it listened.       *)
ListensTooLate(a) ==
  /\ initialize[a] = "listen" /\ GivenUp(a)
  /\ listening' = IF a \in candidateClosed THEN listening \cup {a} ELSE listening
  /\ candidateClosed' = candidateClosed \cup {a}
  /\ To(a, "failed")
  /\ UNCHANGED <<process, ready, apiTerminal, apiStarts, apiActive, apiStarting, apiAborted, served,
                 apiStopping, signalled>>

(* The attempt has failed, or it has not ended in time.                    *)
ApiStartFails ==
  /\ apiStarting = "initialize"
  /\ apiStarting' = "cleanup"
  /\ apiAborted' = apiAborted \cup {apiStarts} /\ apiActive' = 0
  /\ ready' = FALSE
  /\ candidateClosed' = IF initialize[apiStarts] = "listen" THEN candidateClosed \cup {apiStarts}
                                                            ELSE candidateClosed
  /\ UNCHANGED <<process, apiTerminal, apiStarts, initialize, listening, served, apiStopping, signalled>>

(* What is cleaned up includes the initialisation, which was rejected or   *)
(* has not ended: either makes the application terminal. A process that did*)
(* not start ends with 1, unless the signal that stopped it says otherwise.*)
ApiCleanedUp ==
  /\ apiStarting = "cleanup"
  /\ apiStarting' = "none"
  /\ apiTerminal' = TRUE /\ served' = 0
  /\ process' = IF signalled \/ apiStopping # "none" THEN process ELSE "1"
  /\ UNCHANGED <<ready, apiStarts, apiActive, initialize, apiAborted, candidateClosed,
                 listening, apiStopping, signalled>>

-----------------------------------------------------------------------------
(* Stopping.                                                               *)

Exit(code) == process' = IF signalled' THEN code ELSE process

CloseApplication ==
  /\ apiStopping' = IF served = 0 THEN "none" ELSE "close"
  /\ served' = 0
  /\ IF served = 0 THEN Exit("0") ELSE UNCHANGED process

ApiStop(signal) ==
  /\ process = "serving" /\ apiStopping = "none"
  /\ signalled' = (signalled \/ signal)
  /\ ready' = FALSE
  /\ IF apiStarting # "none"
     THEN /\ apiActive' = 0 /\ apiAborted' = apiAborted \cup {apiStarts}
          /\ apiStopping' = "start"
          /\ UNCHANGED <<process, served>>
     ELSE CloseApplication /\ UNCHANGED <<apiActive, apiAborted>>
  /\ UNCHANGED <<apiTerminal, apiAttempt, listening>>

(* shutdown() is called once, by the first signal.                         *)
ApiSignal ==
  /\ ~signalled
  /\ IF process = "serving" /\ apiStopping = "none" THEN ApiStop(TRUE)
     ELSE /\ process \in {"bindings", "serving"}
          /\ signalled' = TRUE
          /\ UNCHANGED <<process, ready, apiTerminal, apiActive, apiAttempt, apiAborted, listening,
                         served, apiStopping>>

(* stop() called by who runs the application.                              *)
ApiStopAsked == (served # 0 \/ apiStarting # "none") /\ ~signalled /\ ApiStop(FALSE)

ApiStopGoesOn ==
  /\ apiStopping = "start" /\ apiStarting = "none"
  /\ UNCHANGED signalled
  /\ CloseApplication
  /\ UNCHANGED <<ready, apiTerminal, apiActive, apiAttempt, apiAborted, listening>>

ApiClosed ==
  /\ apiStopping = "close"
  /\ listening' = {} /\ apiStopping' = "none"
  /\ UNCHANGED signalled /\ Exit("0")
  /\ UNCHANGED <<ready, apiTerminal, apiActive, apiAttempt, apiAborted, served>>

(* The start or the close takes too long, or the close is rejected.        *)
ApiStopFails ==
  /\ \/ apiStopping = "start" /\ apiStarting # "none"
     \/ apiStopping = "close"
  /\ apiTerminal' = TRUE /\ served' = 0 /\ apiStopping' = "none"
  /\ UNCHANGED signalled /\ Exit("1")
  /\ UNCHANGED <<ready, apiActive, apiAttempt, apiAborted, listening>>

Bind == BindingsCreated \/ BindingsFail
ApiStops == ApiStopGoesOn \/ ApiClosed \/ ApiStopFails

ApiNext ==
  \/ Bind \/ ApiStart \/ ApiStartFails \/ ApiCleanedUp \/ ApiSignal \/ ApiStopAsked \/ ApiStops
  \/ \E a \in Starts : \/ ApiOnStarted(a) \/ CandidateCreated(a) \/ CreateFails(a)
                       \/ Listens(a) \/ ListensTooLate(a)

(* Every wait of a stop is bounded by a timer. Creating the bindings is not*)
(* while it connects to the broker: the connection is assumed to be made or*)
(* refused.                                                                *)
ApiFairness == WF_apiVars(Bind) /\ WF_apiVars(ApiStops)

ApiSpec == ApiInit /\ [][ApiNext]_apiVars /\ ApiFairness

-----------------------------------------------------------------------------
(* Properties.                                                             *)

(* An API that says it is ready serves, and no stop is under way: however a*)
(* start that timed out or was cancelled goes on.                          *)
ReadyServes ==
  ready => served # 0 /\ served \in listening /\ apiStopping = "none" /\ apiStarting = "none"

(* A server that nobody owns any more listens only in an application that  *)
(* can never be started again; so two never listen at the same time.       *)
ServersAreOwned ==
  /\ \A a, b \in listening : a = b
  /\ ~apiTerminal /\ apiStarting = "none" /\ apiStopping = "none" => listening \subseteq {served}

(* A signal, which is never forgotten, ends the process with an exit code. *)
SignalEnds == []<>(signalled => process \in {"0", "1"})

-----------------------------------------------------------------------------
(***************************************************************************)
(* apps/api/src/composition-factory.ts and main.ts: how the bindings of a  *)
(* production API open the database, the session store and the realtime    *)
(* source, and how they are released when the creation fails or is aborted,*)
(* and when the API closes. What the bindings do in between is in Readiness*)
(* and ApiLifecycle, the connection of the source in Realtime.             *)
(***************************************************************************)

CONSTANT CloseCalls    \* calls of close() on the bindings

Resources == {"database", "sessions", "source"}
Stored == {"database", "sessions"}    \* what closeResources is given

VARIABLES
  creating,       \* where createProductionApiPlatformBindings and its caller are
  startAborted,   \* the signal: a start that takes too long, or is interrupted
  used,           \* per resource: what it is
  bindingsClosed, \* state.closed
  closeCalls,     \* per call of close(): where it is
  unresponsive    \* history: a cleanup that gave up or was refused

bindingVars == <<creating, startAborted, used, bindingsClosed, closeCalls, unresponsive>>

BindingsTypeOK ==
  /\ creating \in {"load", "connect", "compose", "broker", "created", "cleaning", "closing",
                   "serving", "failed", "uncleaned"}
  /\ {startAborted, bindingsClosed, unresponsive} \subseteq BOOLEAN
  /\ used \in [Resources -> {"none", "opening", "open", "closing", "closed", "broken"}]
  /\ closeCalls \in [CloseCalls -> {"none", "source", "stored", "closed", "rejected"}]

BindingsInit ==
  /\ creating = "load" /\ startAborted = FALSE
  /\ used = [r \in Resources |-> "none"]
  /\ bindingsClosed = FALSE /\ unresponsive = FALSE
  /\ closeCalls = [k \in CloseCalls |-> "none"]

Creating(stage) == creating' = stage /\ UNCHANGED <<bindingsClosed, closeCalls, unresponsive>>

(* closeResources starts with what is there.                               *)
CloseStored(from) ==
  [r \in Resources |-> IF r \in Stored /\ from[r] = "open" THEN "closing" ELSE from[r]]

-----------------------------------------------------------------------------
(* Creation.                                                               *)

AbortStart ==
  /\ ~startAborted /\ creating \in {"load", "connect", "broker", "cleaning"}
  /\ startAborted' = TRUE
  /\ UNCHANGED <<creating, used, bindingsClosed, closeCalls, unresponsive>>

(* A creation that ends before it has opened anything.                     *)
NotLoaded ==
  /\ creating = "load"
  /\ Creating("failed")
  /\ UNCHANGED <<startAborted, used>>

Loaded ==
  /\ creating = "load" /\ ~startAborted
  /\ Creating("connect")
  /\ used' = [used EXCEPT !["database"] = "open", !["sessions"] = "opening"]
  /\ UNCHANGED startAborted

SessionsConnect ==
  /\ creating = "connect" /\ ~startAborted
  /\ Creating("compose")
  /\ used' = [used EXCEPT !["sessions"] = "open"]
  /\ UNCHANGED startAborted

(* An aborted connection is destroyed, also one that had just come about.  *)
SessionsFail ==
  /\ creating = "connect"
  /\ Creating("cleaning")
  /\ used' = CloseStored([used EXCEPT !["sessions"] = "closed"])
  /\ UNCHANGED startAborted

CompositionFails ==
  /\ creating = "compose"
  /\ Creating("cleaning")
  /\ used' = CloseStored(used)
  /\ UNCHANGED startAborted

(* The source is optional: its start may fail, and it goes on trying.      *)
OpenSource ==
  /\ creating = "compose"
  /\ Creating("broker")
  /\ used' = [used EXCEPT !["source"] = "opening"]
  /\ UNCHANGED startAborted

SourceStarted ==
  /\ creating = "broker"
  /\ Creating("created")
  /\ used' = [used EXCEPT !["source"] = "open"]
  /\ UNCHANGED startAborted

NoSource ==
  /\ creating = "compose"
  /\ Creating("created")
  /\ UNCHANGED <<startAborted, used>>

-----------------------------------------------------------------------------
(* Cleaning up.                                                            *)

ResourceCloses(r) ==
  /\ used[r] = "closing"
  /\ used' = [used EXCEPT ![r] = "closed"]
  /\ UNCHANGED <<creating, startAborted, bindingsClosed, closeCalls, unresponsive>>

(* Only the database and the session store can refuse: the source ignores  *)
(* the errors of its channel and connection.                               *)
ResourceBreaks(r) ==
  /\ r \in Stored /\ used[r] = "closing"
  /\ used' = [used EXCEPT ![r] = "broken"]
  /\ UNCHANGED <<creating, startAborted, bindingsClosed, closeCalls, unresponsive>>

StoredSettled == \A r \in Stored : used[r] # "closing"
NothingRefused == \A r \in Stored : used[r] # "broken"

CreationCleaned ==
  /\ creating = "cleaning" /\ StoredSettled
  /\ creating' = IF NothingRefused THEN "failed" ELSE "uncleaned"
  /\ UNCHANGED <<startAborted, used, bindingsClosed, closeCalls, unresponsive>>

CleaningTimesOut ==
  /\ creating = "cleaning" /\ ~StoredSettled
  /\ creating' = "uncleaned"
  /\ UNCHANGED <<startAborted, used, bindingsClosed, closeCalls, unresponsive>>

-----------------------------------------------------------------------------
(* The caller: bindings that came too late are closed, and that is awaited.*)

Serve ==
  /\ creating = "created" /\ ~startAborted
  /\ Creating("serving")
  /\ UNCHANGED <<startAborted, used>>

EndSource == used' = [used EXCEPT !["source"] = IF @ = "open" THEN "closing" ELSE @]

(* close(): only its first call does anything.                             *)
BeginClose(k) ==
  /\ closeCalls[k] = "none"
  /\ \/ creating = "serving" /\ UNCHANGED creating
     \/ creating = "created" /\ startAborted /\ creating' = "closing"
  /\ bindingsClosed' = TRUE
  /\ IF bindingsClosed THEN closeCalls' = [closeCalls EXCEPT ![k] = "closed"] /\ UNCHANGED used
     ELSE closeCalls' = [closeCalls EXCEPT ![k] = "source"] /\ EndSource
  /\ UNCHANGED <<startAborted, unresponsive>>

SourceClosed(k) ==
  /\ closeCalls[k] = "source" /\ used["source"] # "closing"
  /\ closeCalls' = [closeCalls EXCEPT ![k] = "stored"]
  /\ used' = CloseStored(used)
  /\ UNCHANGED <<creating, startAborted, bindingsClosed, unresponsive>>

CloseEnds(k, result) ==
  /\ closeCalls' = [closeCalls EXCEPT ![k] = result]
  /\ unresponsive' = (unresponsive \/ result = "rejected")
  /\ creating' = IF creating # "closing" THEN creating
                 ELSE IF result = "closed" THEN "failed" ELSE "uncleaned"
  /\ UNCHANGED <<startAborted, used, bindingsClosed>>

StoredAreClosed(k) ==
  /\ closeCalls[k] = "stored" /\ StoredSettled
  /\ CloseEnds(k, IF NothingRefused THEN "closed" ELSE "rejected")

BindingsTimeOut(k) ==
  /\ closeCalls[k] = "stored" /\ ~StoredSettled
  /\ CloseEnds(k, "rejected")

BindingsNext ==
  \/ AbortStart \/ NotLoaded \/ Loaded \/ SessionsConnect \/ SessionsFail
  \/ CompositionFails \/ OpenSource \/ SourceStarted \/ NoSource
  \/ CreationCleaned \/ CleaningTimesOut \/ Serve
  \/ \E r \in Resources : ResourceCloses(r) \/ ResourceBreaks(r)
  \/ \E k \in CloseCalls :
       BeginClose(k) \/ SourceClosed(k) \/ StoredAreClosed(k) \/ BindingsTimeOut(k)

BindingsSpec == BindingsInit /\ [][BindingsNext]_bindingVars

-----------------------------------------------------------------------------
(* Properties.                                                             *)

Released == \A r \in Resources : used[r] \in {"none", "closed"}

(* A start that ends in its own error, also one that was aborted at        *)
(* whatever point, has left nothing open; what could not be closed is told *)
(* by another error. So an interrupted start exits with 0 only when        *)
(* everything is released, and one that was aborted does not serve.        *)
FailedStartIsReleased ==
  /\ creating = "failed" => Released
  /\ creating = "serving" => ~startAborted

(* While the API serves and nobody closes it, all it uses is open; when no *)
(* call of close() is under way and none was rejected, nothing is left.    *)
ServesOrIsReleased ==
  creating = "serving" =>
    IF ~bindingsClosed THEN used["database"] = "open" /\ used["sessions"] = "open"
    ELSE (/\ ~unresponsive
          /\ \A k \in CloseCalls : closeCalls[k] \notin {"source", "stored"}) => Released
=============================================================================
