------------------------------- MODULE Inbox --------------------------------
(***************************************************************************)
(* The consuming side of packages/crm-modules/eventing-outbox: workers take*)
(* deliveries from one RabbitMQ queue (handleRabbitDelivery in rabbit.ts), *)
(* run the handler inside the inbox transaction (consume in service.ts),   *)
(* and settle each delivery by ack, by a retry copy followed by the ack, or*)
(* by dead-lettering. A job also has a row of its own, which may be        *)
(* cancelled meanwhile. The database runs READ COMMITTED: nobody sees what *)
(* a transaction wrote before its commit, and a second update of a row     *)
(* waits for the transaction that wrote it.                                *)
(***************************************************************************)
EXTENDS Integers, FiniteSets, Functions

CONSTANTS Messages,     \* message ids that may be published
          Jobs,         \* those that are jobs; the others are events
          Prints,       \* payload fingerprints; one id may come with several
          Unsupported,  \* those of a type or version the handler does not match
          TruePrint,    \* the fingerprint stored with a submitted job
          Workers,      \* deliveries handled at the same time
          NoCopy,       \* a worker has no delivery
          MaxAttempts,  \* the retry policy's maxAttempts
          MaxCopies     \* bound: copies alive at the broker

(* What the broker transports. x-ai-crm-delivery-attempt starts at 1, and a*)
(* deployment that lowered maxAttempts finds older copies above it.        *)
Copies == [id : Messages, print : Prints, attempt : 1 .. MaxAttempts + 1]

ASSUME BoundsAssumption == MaxAttempts \in Nat \ {0} /\ MaxCopies \in Nat \ {0}
ASSUME JobsAssumption == Jobs \subseteq Messages
ASSUME PrintAssumption == TruePrint \in Prints /\ Unsupported \subseteq Prints
ASSUME NoCopyAssumption == NoCopy \notin Copies

VARIABLES
  queue,      \* the broker: how many of each copy are ready or delayed
  copy,       \* per worker: the unacknowledged delivery
  pc,         \* per worker: what handleRabbitDelivery does next
  cause,      \* per worker: why the delivery is being given up
  receipts,   \* crm_eventing.inbox_receipts: <<message, fingerprint>>
  job,        \* crm_eventing.job_requests: the committed status
  isolations, \* crm_eventing.isolations: <<message, reason>>
  effects,    \* history: committed handler effects per message, up to two
  published,  \* history: messages of which a copy was ever published
  dlq         \* messages of which the dead letter queue has a copy

delivery == <<queue, published, dlq>>
tables == <<receipts, job, isolations, effects>>
worker == <<copy, pc, cause>>
vars == <<queue, copy, pc, cause, receipts, job, isolations, effects, published, dlq>>

JobStatuses == {"absent", "queued", "completed", "cancelled", "isolated"}
Causes == {"none", "retryable", "terminal", "storage", "budget"}
Locations == {"idle", "lookup", "enter", "handling", "failed", "isolate", "isolating",
              "dead", "retried", "ack"}
Reasons == {"payload_conflict", "unsupported_message", "authoritative_state_rejected"}

TypeOK == /\ queue \in [Copies -> Nat]
          /\ copy \in [Workers -> Copies \cup {NoCopy}]
          /\ pc \in [Workers -> Locations]
          /\ cause \in [Workers -> Causes]
          /\ receipts \subseteq Messages \X Prints
          /\ job \in [Jobs -> JobStatuses]
          /\ isolations \subseteq Messages \X Reasons
          /\ effects \in [Messages -> 0 .. 2]
          /\ published \subseteq Messages
          /\ dlq \subseteq Messages
          /\ \A w \in Workers : pc[w] = "idle" <=> copy[w] = NoCopy

Init == /\ queue = [c \in Copies |-> 0]
        /\ copy = [w \in Workers |-> NoCopy]
        /\ pc = [w \in Workers |-> "idle"]
        /\ cause = [w \in Workers |-> "none"]
        /\ receipts = {}
        /\ job = [m \in Jobs |-> "absent"]
        /\ isolations = {}
        /\ effects = [m \in Messages |-> 0]
        /\ published = {}
        /\ dlq = {}

-----------------------------------------------------------------------------
(* The owners and the outbox.                                              *)

(* submitJob: the job and its outbox row commit together.                  *)
SubmitJob(m) ==
  /\ job[m] = "absent"
  /\ job' = [job EXCEPT ![m] = "queued"]
  /\ UNCHANGED <<delivery, worker, receipts, isolations, effects>>

(* A worker in the handler of a job has updated its row and not committed. *)
RowLocked(m) == \E w \in Workers : pc[w] = "handling" /\ copy[w].id = m

(* Broken: the update does not look at the status.                         *)
CancelAnyJob(m) ==
  /\ job[m] # "absent"
  /\ job' = [job EXCEPT ![m] = "cancelled"]
  /\ UNCHANGED <<delivery, worker, receipts, isolations, effects>>

(* cancelJob: an update of a queued job; anything else is left alone.      *)
CancelJob(m) ==
  /\ job[m] = "queued"
  /\ ~RowLocked(m)
  /\ job' = [job EXCEPT ![m] = "cancelled"]
  /\ UNCHANGED <<delivery, worker, receipts, isolations, effects>>

Alive == FoldFunction(+, 0, queue) + Cardinality({w \in Workers : pc[w] # "idle"})

(* The outbox publishes at least once, and a job only after its submission;*)
(* another payload under the same id comes from a faulty producer.         *)
Publish(m, f, n) ==
  /\ Alive < MaxCopies
  /\ n = 1 \/ (n = MaxAttempts + 1 /\ m \notin Jobs)
  /\ (m \in Jobs /\ f = TruePrint) => job[m] # "absent"
  /\ queue' = [queue EXCEPT ![[id |-> m, print |-> f, attempt |-> n]] = @ + 1]
  /\ published' = published \cup {m}
  /\ UNCHANGED <<worker, tables, dlq>>

-----------------------------------------------------------------------------
(* handleRabbitDelivery and consume.                                       *)

Go(w, l) == pc' = [pc EXCEPT ![w] = l]
Fail(w, l, why) == Go(w, l) /\ cause' = [cause EXCEPT ![w] = why]

(* Broken: a job is rejected like an event; what is given up is acked.     *)
GivingUpSilently(w) == "dead"
GivingUpByAck(w) == "ack"

(* Giving a delivery up marks a job isolated first; an event has no row.   *)
GivingUp(w) == IF copy[w].id \in Jobs THEN "isolate" ELSE "dead"

Received(m) == \E f \in Prints : <<m, f>> \in receipts
Duplicate(w) == <<copy[w].id, copy[w].print>> \in receipts
Isolated(w, reason) == isolations \cup {<<copy[w].id, reason>>}
Receipted(w) == receipts \cup {<<copy[w].id, copy[w].print>>}

Receive(w, c) ==
  /\ pc[w] = "idle"
  /\ queue[c] > 0
  /\ queue' = [queue EXCEPT ![c] = @ - 1]
  /\ copy' = [copy EXCEPT ![w] = c]
  /\ IF c.attempt > MaxAttempts
     THEN Fail(w, IF c.id \in Jobs THEN "isolate" ELSE "dead", "budget")
     ELSE Fail(w, "lookup", "none")
  /\ UNCHANGED <<tables, published, dlq>>

(* The checks made before the transaction: the handler's type, then the    *)
(* receipt, read without the lock.                                         *)
Lookup(w) ==
  /\ pc[w] = "lookup"
  /\ \/ /\ copy[w].print \in Unsupported
        /\ isolations' = Isolated(w, "unsupported_message")
        /\ Go(w, "ack")
     \/ /\ copy[w].print \notin Unsupported
        /\ Duplicate(w)
        /\ Go(w, "ack")
        /\ UNCHANGED isolations
     \/ /\ copy[w].print \notin Unsupported
        /\ Received(copy[w].id) /\ ~Duplicate(w)
        /\ isolations' = Isolated(w, "payload_conflict")
        /\ Go(w, "ack")
     \/ /\ copy[w].print \notin Unsupported
        /\ ~Received(copy[w].id)
        /\ Go(w, "enter")
        /\ UNCHANGED isolations
  /\ UNCHANGED <<delivery, copy, cause, receipts, job, effects>>

(* pg_advisory_xact_lock on message and consumer.                          *)
Unlocked(w) == \A v \in Workers : pc[v] = "handling" => copy[v].id # copy[w].id

(* The transaction finds a receipt that was not there a moment ago.        *)
EnterRaced(w) ==
  /\ pc[w] = "enter" /\ Unlocked(w)
  /\ Received(copy[w].id)
  /\ isolations' = IF Duplicate(w) THEN isolations ELSE Isolated(w, "payload_conflict")
  /\ Go(w, "ack")
  /\ UNCHANGED <<delivery, copy, cause, receipts, job, effects>>

JobMatches(w) == job[copy[w].id] # "absent" /\ copy[w].print = TruePrint

(* The job is unknown or was submitted with another payload.               *)
EnterMismatch(w) ==
  /\ pc[w] = "enter" /\ Unlocked(w)
  /\ ~Received(copy[w].id)
  /\ copy[w].id \in Jobs
  /\ ~JobMatches(w)
  /\ isolations' = Isolated(w, "payload_conflict")
  /\ Go(w, "ack")
  /\ UNCHANGED <<delivery, copy, cause, receipts, job, effects>>

(* claimJob finds no queued job: the delivery is over, without an effect.  *)
EnterFinished(w) ==
  /\ pc[w] = "enter" /\ Unlocked(w)
  /\ ~Received(copy[w].id)
  /\ copy[w].id \in Jobs
  /\ JobMatches(w)
  /\ job[copy[w].id] \in {"cancelled", "completed", "isolated"}
  /\ receipts' = Receipted(w)
  /\ Go(w, "ack")
  /\ UNCHANGED <<delivery, copy, cause, job, isolations, effects>>

(* An event, or a queued job that claimJob sets to processing.             *)
EnterHandler(w) ==
  /\ pc[w] = "enter" /\ Unlocked(w)
  /\ ~Received(copy[w].id)
  /\ copy[w].id \in Jobs => JobMatches(w) /\ job[copy[w].id] = "queued"
  /\ Go(w, "handling")
  /\ UNCHANGED <<delivery, copy, cause, tables>>

(* Broken: the receipt is forgotten; the job is not completed.             *)
CommitWithoutReceipt(w) ==
  /\ effects' = [effects EXCEPT ![copy[w].id] = IF @ < 2 THEN @ + 1 ELSE @]
  /\ job' = IF copy[w].id \in Jobs THEN [job EXCEPT ![copy[w].id] = "completed"] ELSE job
  /\ UNCHANGED receipts

CommitWithoutCompletion(w) ==
  /\ effects' = [effects EXCEPT ![copy[w].id] = IF @ < 2 THEN @ + 1 ELSE @]
  /\ receipts' = Receipted(w)
  /\ UNCHANGED job

(* What the commit of a handled delivery makes visible: the effect, the    *)
(* completed job and the receipt.                                          *)
CommitHandled(w) ==
  /\ effects' = [effects EXCEPT ![copy[w].id] = IF @ < 2 THEN @ + 1 ELSE @]
  /\ job' = IF copy[w].id \in Jobs THEN [job EXCEPT ![copy[w].id] = "completed"] ELSE job
  /\ receipts' = Receipted(w)

Handle(w) ==
  /\ pc[w] = "handling"
  /\ CommitHandled(w)
  /\ Go(w, "ack")
  /\ UNCHANGED <<delivery, copy, cause, isolations>>

(* recheckAuthoritativeState says the job must not run any more.           *)
HandleRejected(w) ==
  /\ pc[w] = "handling"
  /\ copy[w].id \in Jobs
  /\ job' = [job EXCEPT ![copy[w].id] = "isolated"]
  /\ isolations' = Isolated(w, "authoritative_state_rejected")
  /\ receipts' = Receipted(w)
  /\ Go(w, "ack")
  /\ UNCHANGED <<delivery, copy, cause, effects>>

(* consume throws and its transaction rolls back: the handler timed out or *)
(* failed with an error classified retryable, failed for good, or the      *)
(* database failed.                                                        *)
ConsumeFails(w, why) ==
  /\ \/ pc[w] = "handling" /\ why \in {"retryable", "terminal", "storage"}
     \/ pc[w] \in {"lookup", "enter"} /\ why = "storage"
  /\ Fail(w, "failed", why)
  /\ UNCHANGED <<delivery, copy, tables>>

(* The commit is applied, and the connection is lost before its reply.     *)
CommitReplyLost(w) ==
  /\ pc[w] = "handling"
  /\ CommitHandled(w)
  /\ Fail(w, "failed", "storage")
  /\ UNCHANGED <<delivery, copy, isolations>>

-----------------------------------------------------------------------------
(* Settling a delivery whose consumption failed.                           *)

(* classifyTaskProjectionError: a DatabasePersistenceError is neither a    *)
(* TaskCenterError nor an EventingError, so it is terminal.                *)
Classify(why) == IF why = "retryable" THEN "retryable" ELSE "terminal"

MayRetry(w) == Classify(cause[w]) = "retryable" /\ copy[w].attempt < MaxAttempts

(* Broken: the retry copy carries the same attempt.                        *)
RetryUncounted(w) ==
  /\ pc[w] = "failed"
  /\ MayRetry(w)
  /\ queue' = [queue EXCEPT ![copy[w]] = @ + 1]
  /\ Go(w, "retried")
  /\ UNCHANGED <<copy, cause, tables, published, dlq>>

(* The copy of the next attempt is confirmed by the broker; the ack of this*)
(* one comes after it. The delay layer is part of the queue.               *)
Retry(w) ==
  /\ pc[w] = "failed"
  /\ MayRetry(w)
  /\ queue' = [queue EXCEPT ![[copy[w] EXCEPT !.attempt = @ + 1]] = @ + 1]
  /\ Go(w, "retried")
  /\ UNCHANGED <<copy, cause, tables, published, dlq>>

GiveUp(w) ==
  /\ pc[w] = "failed"
  /\ ~MayRetry(w)
  /\ Go(w, GivingUp(w))
  /\ UNCHANGED <<delivery, copy, cause, tables>>

(* isolateJobForDeliveryFailure reads the job, then updates it.            *)
FindJobToIsolate(w) ==
  /\ pc[w] = "isolate"
  /\ job[copy[w].id] # "absent"
  /\ Go(w, IF job[copy[w].id] = "queued" THEN "isolating" ELSE "dead")
  /\ UNCHANGED <<delivery, copy, cause, tables>>

IsolateJob(w) ==
  /\ pc[w] = "isolating"
  /\ ~RowLocked(copy[w].id)
  /\ job[copy[w].id] = "queued"
  /\ job' = [job EXCEPT ![copy[w].id] = "isolated"]
  /\ Go(w, "dead")
  /\ UNCHANGED <<delivery, copy, cause, receipts, isolations, effects>>

(* Broken: the delivery is let go and settled once more.                   *)
ReleaseTwice(w) == /\ copy' = [copy EXCEPT ![w] = NoCopy]
                   /\ Fail(w, "ack", "none")

Release(w) == /\ copy' = [copy EXCEPT ![w] = NoCopy]
              /\ Fail(w, "idle", "none")

DeadLetter(w) ==
  /\ pc[w] = "dead"
  /\ dlq' = dlq \cup {copy[w].id}
  /\ Release(w)
  /\ UNCHANGED <<queue, published, tables>>

Ack(w) ==
  /\ pc[w] \in {"ack", "retried"}
  /\ Release(w)
  /\ UNCHANGED <<delivery, tables>>

Requeue(w) == /\ queue' = [queue EXCEPT ![copy[w]] = @ + 1]
              /\ Release(w)
              /\ UNCHANGED <<published, tables, dlq>>

(* handleRabbitDelivery throws: the job is missing, or was finished between*)
(* the read and the update (eventing_conflict). Nothing is acked and the   *)
(* worker goes down, so the broker delivers the same copy again.           *)
IsolationThrows(w) ==
  /\ \/ pc[w] = "isolate" /\ job[copy[w].id] = "absent"
     \/ pc[w] = "isolating" /\ ~RowLocked(copy[w].id) /\ job[copy[w].id] # "queued"
  /\ Requeue(w)

(* The process dies, the retry is not confirmed, or the ack is lost with   *)
(* the channel: the transaction rolls back and the copy is redelivered. A  *)
(* retry copy that is already out stays; MaxCopies bounds how many such    *)
(* duplicates a run may see.                                               *)
Crash(w) ==
  /\ pc[w] # "idle"
  /\ pc[w] = "retried" => Alive <= MaxCopies
  /\ Requeue(w)

Settle(w) == Retry(w) \/ GiveUp(w) \/ FindJobToIsolate(w) \/ IsolateJob(w)
               \/ DeadLetter(w) \/ Ack(w) \/ IsolationThrows(w)
Enter(w) == EnterRaced(w) \/ EnterMismatch(w) \/ EnterFinished(w) \/ EnterHandler(w)
Finish(w) == \/ Handle(w) \/ HandleRejected(w) \/ CommitReplyLost(w)
             \/ \E why \in Causes : pc[w] = "handling" /\ ConsumeFails(w, why)
Work(w) == Lookup(w) \/ Enter(w) \/ Finish(w) \/ Settle(w)

Next ==
  \/ \E m \in Jobs : SubmitJob(m) \/ CancelJob(m)
  \/ \E m \in Messages, f \in Prints, n \in 1 .. MaxAttempts + 1 : Publish(m, f, n)
  \/ \E w \in Workers :
       \/ \E c \in Copies : Receive(w, c)
       \/ Lookup(w) \/ EnterRaced(w) \/ EnterMismatch(w) \/ EnterFinished(w)
       \/ EnterHandler(w) \/ Handle(w) \/ HandleRejected(w) \/ CommitReplyLost(w)
       \/ \E why \in Causes : ConsumeFails(w, why)
       \/ Retry(w) \/ GiveUp(w) \/ FindJobToIsolate(w) \/ IsolateJob(w)
       \/ DeadLetter(w) \/ Ack(w) \/ IsolationThrows(w) \/ Crash(w)

(***************************************************************************)
(* Fairness. A worker that holds a delivery goes on with it: handlers      *)
(* settle (consume waits for them and the timeout aborts them), and a lock *)
(* is granted in turn. The broker does not pass a queued copy over for ever*)
(* while workers take deliveries. Crashes are not fair, and not limited.   *)
(***************************************************************************)
Fairness ==
  /\ \A w \in Workers : SF_vars(Enter(w)) /\ WF_vars(Work(w))
  /\ \A c \in Copies : SF_vars(\E w \in Workers : Receive(w, c))

SafeSpec == Init /\ [][Next]_vars
Spec == SafeSpec /\ Fairness

-----------------------------------------------------------------------------
(* However often a message is published, retried and redelivered, and by   *)
(* however many workers at once, its effect is committed at most once.     *)
AtMostOneEffect == \A m \in Messages : effects[m] <= 1

(* An effect and the receipt that stops the next delivery are one commit,  *)
(* for a job together with its completion: neither is there alone.         *)
EffectIsRecorded ==
  \A m \in Messages :
    /\ effects[m] > 0 => Received(m)
    /\ m \in Jobs => (effects[m] > 0 <=> job[m] = "completed")

(* A job that was cancelled or isolated has done nothing and never will,   *)
(* also when its delivery was under way at that moment.                    *)
StoppedJobHasNoEffect ==
  \A m \in Jobs : job[m] \in {"cancelled", "isolated"} => effects[m] = 0

Settled(m) == \/ Received(m)
              \/ m \in dlq
              \/ \E r \in Reasons : <<m, r>> \in isolations

Travelling(m) == \/ \E c \in Copies : c.id = m /\ queue[c] > 0
                 \/ \E w \in Workers : pc[w] # "idle" /\ copy[w].id = m

(* No message disappears: until something durable says what became of it,  *)
(* a copy is queued or unacknowledged. Nothing is acked too early.         *)
NothingLost == \A m \in published : Settled(m) \/ Travelling(m)

(* A dead-lettered job is not left queued, as if it were still to run: its *)
(* row was finished or isolated before the broker got the rejection.       *)
DeadJobIsNotQueued ==
  \A m \in Jobs \cap dlq : job[m] # "queued"

(* Unless workers go on dying for ever, every published message is settled *)
(* in the end: handled, skipped, isolated or dead-lettered.                *)
PublishedIsSettled ==
  <>[][\A w \in Workers : ~Crash(w)]_vars
    => \A m \in Messages : m \in published ~> Settled(m)

(* ADR-0027: an infrastructure failure that a later attempt may survive    *)
(* does not send the message to the dead letter queue.                     *)
StorageFailureIsRetried ==
  [][\A w \in Workers : cause[w] = "storage" /\ DeadLetter(w)
       => copy[w].attempt >= MaxAttempts]_vars
=============================================================================
