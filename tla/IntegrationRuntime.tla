------------------------- MODULE IntegrationRuntime -------------------------
(***************************************************************************)
(* packages/crm-modules/integration-runtime: calls to one provider through *)
(* one executor. Each attempt takes a slot of the concurrency limiter, or  *)
(* waits for one in its queue, and then passes the circuit breaker; the    *)
(* budget of the whole call and its caller may abort it at any time.       *)
(* A step is the code between two awaits. The provider is external.        *)
(***************************************************************************)
EXTENDS Integers, Sequences, FiniteSets

CONSTANTS Calls,             \* calls that may be under way at the same time
          Limit,             \* createConcurrencyLimiter: limit
          MaxQueue,          \* createConcurrencyLimiter: maxQueue
          FailureThreshold,  \* createCircuitBreaker: failureThreshold
          HalfOpenMaxCalls,  \* createCircuitBreaker: halfOpenMaxCalls
          MaxAttempts        \* the retry policy: maxAttempts

ASSUME IntegrationAssumption ==
  /\ Limit \in Nat \ {0} /\ FailureThreshold \in Nat \ {0}
  /\ HalfOpenMaxCalls \in Nat \ {0} /\ MaxAttempts \in Nat \ {0}
  /\ MaxQueue \in Nat

VARIABLES
  active,    \* the limiter: slots taken
  queue,     \* the limiter: calls that wait for a slot
  breaker,   \* the circuit breaker; cooled: openMs have passed since it opened
  at,        \* per call: where execute is
  attempt,   \* per call: the number of the attempt
  aborted,   \* per call: the signal of its budget, and why it was aborted
  probe      \* per call: whether it entered a half-open circuit

limiter == <<active, queue>>
callVars == <<active, queue, breaker, at, attempt, aborted, probe>>

Circuit == [state : {"closed", "open", "half_open"}, failures : 0 .. FailureThreshold,
            halfOpenActive : Int, cooled : BOOLEAN]

IntegrationTypeOK ==
  /\ active \in Nat
  /\ queue \in Seq(Calls)
  /\ breaker \in Circuit
  /\ at \in [Calls -> {"idle", "attempt", "waiting", "entering", "calling", "backoff"}]
  /\ attempt \in [Calls -> 1 .. MaxAttempts]
  /\ aborted \in [Calls -> {"no", "expired", "cancelled"}]
  /\ probe \in [Calls -> BOOLEAN]

IntegrationInit ==
  /\ active = 0
  /\ queue = <<>>
  /\ breaker = [state |-> "closed", failures |-> 0, halfOpenActive |-> 0, cooled |-> FALSE]
  /\ at = [c \in Calls |-> "idle"]
  /\ attempt = [c \in Calls |-> 1]
  /\ aborted = [c \in Calls |-> "no"]
  /\ probe = [c \in Calls |-> FALSE]

At(c, place) == at' = [at EXCEPT ![c] = place]

(* execute settles: the budget is disposed of with the call.               *)
Settle(c) ==
  /\ At(c, "idle")
  /\ attempt' = [attempt EXCEPT ![c] = 1]
  /\ aborted' = [aborted EXCEPT ![c] = "no"]
  /\ probe' = [probe EXCEPT ![c] = FALSE]

-----------------------------------------------------------------------------
(* The limiter.                                                            *)

(* The queue without c, if c waits in it.                                  *)
Without(c) ==
  IF \E i \in DOMAIN queue : queue[i] = c
  THEN LET i == CHOOSE i \in DOMAIN queue : queue[i] = c
       IN  SubSeq(queue, 1, i - 1) \o SubSeq(queue, i + 1, Len(queue))
  ELSE queue

(* Broken: a released slot is given to nobody.                             *)
ReleaseOnly(c, end) ==
  /\ active' = active - 1
  /\ at' = [at EXCEPT ![c] = end]
  /\ UNCHANGED queue

(* A released slot goes to the call that has waited longest. c itself ends *)
(* in the place end.                                                       *)
Release(c, end) ==
  IF queue = <<>>
  THEN active' = active - 1 /\ at' = [at EXCEPT ![c] = end] /\ UNCHANGED queue
  ELSE /\ at' = [at EXCEPT ![c] = end, ![Head(queue)] = "entering"]
       /\ queue' = Tail(queue)
       /\ UNCHANGED active

Settled(c) ==
  /\ attempt' = [attempt EXCEPT ![c] = 1]
  /\ aborted' = [aborted EXCEPT ![c] = "no"]
  /\ probe' = [probe EXCEPT ![c] = FALSE]

Execute(c) ==
  /\ at[c] = "idle"
  /\ At(c, "attempt")
  /\ UNCHANGED <<limiter, breaker, attempt, aborted, probe>>

Acquire(c) ==
  /\ at[c] = "attempt" /\ aborted[c] = "no"
  /\ active < Limit
  /\ active' = active + 1
  /\ At(c, "entering")
  /\ UNCHANGED <<queue, breaker, attempt, aborted, probe>>

Enqueue(c) ==
  /\ at[c] = "attempt" /\ aborted[c] = "no"
  /\ active >= Limit /\ Len(queue) < MaxQueue
  /\ queue' = Append(queue, c)
  /\ At(c, "waiting")
  /\ UNCHANGED <<active, breaker, attempt, aborted, probe>>

(* Aborted, over the rate limit, or the queue is full: none is retried.    *)
Refuse(c) ==
  /\ at[c] = "attempt"
  /\ Settle(c)
  /\ UNCHANGED <<limiter, breaker>>

-----------------------------------------------------------------------------
(* The circuit breaker.                                                    *)

Refreshed == IF breaker.state = "open" /\ breaker.cooled
             THEN [breaker EXCEPT !.state = "half_open", !.halfOpenActive = 0]
             ELSE breaker

Opened(b) == [b EXCEPT !.state = "open", !.halfOpenActive = 0, !.cooled = FALSE]

Admits(b) == \/ b.state = "closed"
             \/ b.state = "half_open" /\ b.halfOpenActive < HalfOpenMaxCalls

CoolsDown ==
  /\ breaker.state = "open" /\ ~breaker.cooled
  /\ breaker' = [breaker EXCEPT !.cooled = TRUE]
  /\ UNCHANGED <<limiter, at, attempt, aborted, probe>>

Snapshot ==
  /\ breaker' = Refreshed
  /\ UNCHANGED <<limiter, at, attempt, aborted, probe>>

Enter(c) ==
  /\ at[c] = "entering" /\ aborted[c] = "no"
  /\ Admits(Refreshed)
  /\ LET isProbe == Refreshed.state = "half_open" IN
     /\ probe' = [probe EXCEPT ![c] = isProbe]
     /\ breaker' = IF isProbe THEN [Refreshed EXCEPT !.halfOpenActive = @ + 1] ELSE Refreshed
  /\ At(c, "calling")
  /\ UNCHANGED <<limiter, attempt, aborted>>

EnterRefused(c) ==
  /\ at[c] = "entering" /\ aborted[c] = "no"
  /\ ~Admits(Refreshed)
  /\ breaker' = Refreshed
  /\ Release(c, "idle") /\ Settled(c)

(* Aborted after the slot was granted.                                     *)
EnterAborted(c) ==
  /\ at[c] = "entering" /\ aborted[c] # "no"
  /\ Release(c, "idle") /\ Settled(c)
  /\ UNCHANGED breaker

Succeed(c) ==
  /\ at[c] = "calling" /\ aborted[c] = "no"
  /\ breaker' = IF probe[c]
                THEN [state |-> "closed", failures |-> 0, halfOpenActive |-> 0, cooled |-> FALSE]
                ELSE [breaker EXCEPT !.failures = 0]
  /\ Release(c, "idle") /\ Settled(c)

Opens(c, failures) == probe[c] \/ failures >= FailureThreshold

(* failures is counted up to the threshold, all that the code compares.    *)
CountedFailure(c) ==
  LET failures == IF breaker.failures < FailureThreshold
                  THEN breaker.failures + 1 ELSE FailureThreshold
      counted == [breaker EXCEPT !.failures = failures]
  IN breaker' = IF Opens(c, failures) THEN Opened(counted) ELSE counted

(* The finally block, when the failure did not open the circuit: the probe *)
(* may have entered in an earlier half-open period than the present one.   *)
UncountedFailure(c) ==
  breaker' = IF probe[c] /\ breaker.state = "half_open"
             THEN [breaker EXCEPT !.halfOpenActive = @ - 1] ELSE breaker

(* The provider fails, or the budget expires; the attempts are used up, or *)
(* the policy does not retry the failure.                                  *)
Fail(c) ==
  /\ at[c] = "calling" /\ aborted[c] # "cancelled"
  /\ CountedFailure(c)
  /\ Release(c, "idle") /\ Settled(c)

FailAndRetry(c) ==
  /\ at[c] = "calling" /\ aborted[c] = "no"
  /\ attempt[c] < MaxAttempts
  /\ CountedFailure(c)
  /\ Release(c, "backoff")
  /\ probe' = [probe EXCEPT ![c] = FALSE]
  /\ UNCHANGED <<attempt, aborted>>

(* Cancelled by the caller, or refused by the provider for its input.      *)
FailUncounted(c) ==
  /\ at[c] = "calling" /\ aborted[c] # "expired"
  /\ UncountedFailure(c)
  /\ Release(c, "idle") /\ Settled(c)

Retry(c) ==
  /\ at[c] = "backoff" /\ aborted[c] = "no"
  /\ At(c, "attempt")
  /\ attempt' = [attempt EXCEPT ![c] = @ + 1]
  /\ UNCHANGED <<limiter, breaker, aborted, probe>>

-----------------------------------------------------------------------------
(* The signal of the budget. Who waits, for a slot or between two attempts,*)
(* is told at once; the others look at the signal when they go on.         *)

Abort(c, why) ==
  /\ at[c] # "idle"
  /\ aborted[c] = "no" \/ (aborted[c] = "expired" /\ why = "cancelled")
  /\ IF at[c] \in {"waiting", "backoff"}
     THEN queue' = Without(c) /\ Settle(c)
     ELSE aborted' = [aborted EXCEPT ![c] = why] /\ UNCHANGED <<queue, at, attempt, probe>>
  /\ UNCHANGED <<active, breaker>>

Expire(c) == Abort(c, "expired")
Cancel(c) == Abort(c, "cancelled")

CallGoesOn(c) ==
  \/ Acquire(c) \/ Enqueue(c) \/ Refuse(c)
  \/ Enter(c) \/ EnterRefused(c) \/ EnterAborted(c)
  \/ Succeed(c) \/ Fail(c) \/ FailAndRetry(c) \/ FailUncounted(c)
  \/ Retry(c)

IntegrationNext ==
  \/ CoolsDown \/ Snapshot
  \/ \E c \in Calls : Execute(c) \/ CallGoesOn(c) \/ Expire(c) \/ Cancel(c)

(* Promise continuations run, and timers fire.                             *)
IntegrationFairness == \A c \in Calls : WF_callVars(CallGoesOn(c)) /\ WF_callVars(Expire(c))

IntegrationSpec == IntegrationInit /\ [][IntegrationNext]_callVars /\ IntegrationFairness

-----------------------------------------------------------------------------
(* Properties.                                                             *)

(* A slot of the limiter is taken exactly by the calls that were granted   *)
(* one and have not settled or gone into backoff, and there are never more *)
(* of them than the limit: no abort at any moment leaks or doubles a slot. *)
SlotsAreExact ==
  /\ active = Cardinality({c \in Calls : at[c] \in {"entering", "calling"}})
  /\ active <= Limit

(* A call waits only while every slot is taken, and the queue holds the    *)
(* calls that wait, once each, within its bound: no wake-up is lost.       *)
WaitOnlyWhenFull ==
  /\ queue # <<>> => active = Limit
  /\ Len(queue) <= MaxQueue
  /\ \A i, j \in DOMAIN queue : queue[i] = queue[j] => i = j
  /\ {queue[i] : i \in DOMAIN queue} = {c \in Calls : at[c] = "waiting"}

(* A closed circuit has seen fewer consecutive failures than the threshold,*)
(* whatever calls of earlier periods settle late, and counts no probes; and*)
(* it never counts more probes than halfOpenMaxCalls.                      *)
ClosedBelowThreshold ==
  /\ breaker.state = "closed" => breaker.failures < FailureThreshold
  /\ breaker.state # "half_open" => breaker.halfOpenActive = 0
  /\ breaker.halfOpenActive <= HalfOpenMaxCalls

(* Every call settles: by its result, or at the latest by its budget.      *)
CallsSettle == \A c \in Calls : []<>(at[c] = "idle")

-----------------------------------------------------------------------------
(***************************************************************************)
(* packages/crm-modules/integration-runtime/src/webhook.ts: a signed       *)
(* message is accepted once, though it may be sent again and again: its    *)
(* time must be near the present, and its event id and nonce are reserved  *)
(* for a while. Verifier and replay store are ports; the store reserves    *)
(* when none of the fingerprints has a reservation that has not run out.   *)
(***************************************************************************)

CONSTANTS WebhookMessages,   \* signed messages: event id, nonce, time
          WebhookIds,        \* event ids and nonces, as fingerprints
          Acceptances,       \* deliveries being handled at the same time
          Skew,              \* allowedClockSkewMs
          Retention,         \* replayRetentionMs
          MaxDelay,          \* from the look at the clock to the reservation
          WebhookHorizon     \* bound: the clock

(* What acceptVerifiedWebhook asks of its options.                         *)
ASSUME WebhookAssumption ==
  /\ Skew \in Nat /\ Retention \in Nat /\ MaxDelay \in Nat /\ WebhookHorizon \in Nat
  /\ WebhookMessages \subseteq [event : WebhookIds, nonce : WebhookIds, signedAt : Nat]
  /\ Retention >= 2 * Skew

VARIABLES
  clock,        \* the present
  reservedTill, \* per fingerprint: when its reservation runs out
  acceptances,  \* per delivery: its message, and when the clock was looked at
  acceptedTimes      \* per message: how often it was acceptedTimes

webhookVars == <<clock, reservedTill, acceptances, acceptedTimes>>

NoDelivery == [at |-> -1]
DeliveriesOfWebhook == [at : Nat, message : WebhookMessages]

WebhookTypeOK ==
  /\ clock \in Nat
  /\ reservedTill \in [WebhookIds -> Nat]
  /\ acceptances \in [Acceptances -> DeliveriesOfWebhook \cup {NoDelivery}]
  /\ acceptedTimes \in [WebhookMessages -> Nat]

WebhookInit ==
  /\ clock = 0
  /\ reservedTill = [i \in WebhookIds |-> 0]
  /\ acceptances = [d \in Acceptances |-> NoDelivery]
  /\ acceptedTimes = [m \in WebhookMessages |-> 0]

(* The message is of the present, give or take the skew of the clocks.     *)
IsRecent(m) == clock - m.signedAt <= Skew /\ m.signedAt - clock <= Skew

ReceiveWebhook(d, m) ==
  /\ acceptances[d] = NoDelivery
  /\ IsRecent(m)
  /\ acceptances' = [acceptances EXCEPT ![d] = [at |-> clock, message |-> m]]
  /\ UNCHANGED <<clock, reservedTill, acceptedTimes>>

(* The signature does not verify, or the store does not answer.            *)
RejectWebhook(d) ==
  /\ acceptances[d] # NoDelivery
  /\ acceptances' = [acceptances EXCEPT ![d] = NoDelivery]
  /\ UNCHANGED <<clock, reservedTill, acceptedTimes>>

Reserved(m) == {i \in {m.event, m.nonce} : reservedTill[i] > clock}

(* The reservation runs out Retention after the clock was looked at.       *)
AcceptWebhook(d) ==
  /\ acceptances[d] # NoDelivery
  /\ LET m == acceptances[d].message
     IN  /\ Reserved(m) = {}
         /\ reservedTill' = [i \in WebhookIds |->
              IF i \in {m.event, m.nonce} THEN acceptances[d].at + Retention ELSE reservedTill[i]]
         /\ acceptedTimes' = [acceptedTimes EXCEPT ![m] = @ + 1]
  /\ acceptances' = [acceptances EXCEPT ![d] = NoDelivery]
  /\ UNCHANGED clock

(* A delivery is not held up for longer than MaxDelay.                     *)
ClockAdvances ==
  /\ clock < WebhookHorizon
  /\ \A d \in Acceptances : acceptances[d] # NoDelivery => clock < acceptances[d].at + MaxDelay
  /\ clock' = clock + 1
  /\ UNCHANGED <<reservedTill, acceptances, acceptedTimes>>

WebhookNext ==
  \/ ClockAdvances
  \/ \E d \in Acceptances :
       \/ RejectWebhook(d) \/ AcceptWebhook(d)
       \/ \E m \in WebhookMessages : ReceiveWebhook(d, m)

WebhookSpec == WebhookInit /\ [][WebhookNext]_webhookVars

-----------------------------------------------------------------------------
(* Properties.                                                             *)

(* What AcceptedOnce takes, and more than the code asks for: the time      *)
(* between the look at the clock and the reservation comes on top of the   *)
(* window.                                                                 *)
RetentionCoversDelay == Retention > 2 * Skew + MaxDelay

(* A signed message is accepted at most once, whenever and however often   *)
(* it is delivered: when its reservation has run out, its time has passed. *)
AcceptedOnce == \A m \in WebhookMessages : acceptedTimes[m] <= 1
=============================================================================
