----------------------------- MODULE InboxProofs -----------------------------
(***************************************************************************)
(* Proofs about the inbox for any number of messages, fingerprints, workers*)
(* and attempts. The argument has three parts: the message lock, the job's *)
(* row and the receipt make the handling of a message exclusive and its    *)
(* commit the only one; a delivery comes to be acked only once something   *)
(* durable tells the message's end; and whatever is not acked is queued.   *)
(***************************************************************************)
EXTENDS Inbox, TLAPS

(* pg_advisory_xact_lock: one worker at a time is inside the transaction of*)
(* a message.                                                              *)
OneHandler ==
  \A v, w \in Workers :
    pc[v] = "handling" /\ pc[w] = "handling" /\ copy[v].id = copy[w].id => v = w

(* While it is there the message has no receipt, and its job, whose row it *)
(* has locked, is still queued for everybody else.                         *)
HandlingIsFresh ==
  \A w \in Workers :
    pc[w] = "handling" => /\ ~Received(copy[w].id)
                          /\ copy[w].id \in Jobs => job[copy[w].id] = "queued"

(* The ack comes after something durable.                                  *)
AckIsSettled == \A w \in Workers : pc[w] = "ack" => Settled(copy[w].id)

(* A message that nothing durable tells of is queued, or held by a worker  *)
(* that has not passed it on as a retry.                                   *)
Queued(m) == \E c \in Copies : c.id = m /\ queue[c] > 0
Held(m) == \E w \in Workers : pc[w] \notin {"idle", "retried"} /\ copy[w].id = m
Kept == \A m \in published : Settled(m) \/ Queued(m) \/ Held(m)

(* A delivery that is about to be rejected, or was, has no open job.       *)
DeadJobIsOver ==
  /\ \A m \in Jobs \cap dlq : job[m] \notin {"absent", "queued"}
  /\ \A w \in Workers : pc[w] = "dead" /\ copy[w].id \in Jobs
                          => job[copy[w].id] \notin {"absent", "queued"}

(* A job is given up only by way of its row.                               *)
IsolatesJobs == \A w \in Workers : pc[w] \in {"isolate", "isolating"} => copy[w].id \in Jobs

EffectInv == AtMostOneEffect /\ EffectIsRecorded /\ OneHandler /\ HandlingIsFresh
DeliveryInv == AckIsSettled /\ Kept
DeadInv == DeadJobIsOver /\ IsolatesJobs

IInv == TypeOK /\ EffectInv /\ DeliveryInv /\ DeadInv

-----------------------------------------------------------------------------
USE DEF delivery, tables, worker

(* What a copy is, and that no worker's lack of one is a copy.             *)
LEMMA CopyFields ==
  ASSUME NEW c \in Copies
  PROVE  /\ c.id \in Messages /\ c.print \in Prints
         /\ c.attempt \in 1 .. MaxAttempts + 1
         /\ c # NoCopy
  BY NoCopyAssumption DEF Copies

(* The copy that a retry or a publication adds is one, of the same message.*)
LEMMA RetryCopy ==
  ASSUME NEW w \in Workers, copy[w] \in Copies, copy[w].attempt < MaxAttempts
  PROVE  /\ [copy[w] EXCEPT !.attempt = @ + 1] \in Copies
         /\ [copy[w] EXCEPT !.attempt = @ + 1].id = copy[w].id
  BY BoundsAssumption DEF Copies

(* One more of a copy leaves the queue well-typed, holds that copy, and    *)
(* takes nothing away.                                                     *)
LEMMA OneMore ==
  ASSUME NEW c \in Copies, queue \in [Copies -> Nat], queue' = [queue EXCEPT ![c] = @ + 1]
  PROVE  /\ queue' \in [Copies -> Nat]
         /\ queue'[c] > 0
         /\ \A d \in Copies : queue[d] > 0 => queue'[d] > 0
  OBVIOUS

(* Every step keeps the state well-typed.                                  *)
LEMMA TypeStep ==
  ASSUME TypeOK, IsolatesJobs, Next
  PROVE  TypeOK'
<1> USE DEF TypeOK, Locations, Causes, JobStatuses, Reasons
<1>1. ASSUME NEW m \in Jobs, SubmitJob(m) PROVE TypeOK'
  BY <1>1 DEF SubmitJob
<1>2. ASSUME NEW m \in Jobs, CancelJob(m) PROVE TypeOK'
  BY <1>2 DEF CancelJob
<1>3. ASSUME NEW m \in Messages, NEW f \in Prints,
             NEW n \in 1 .. MaxAttempts + 1, Publish(m, f, n) PROVE TypeOK'
  <2>1. [id |-> m, print |-> f, attempt |-> n] \in Copies
    BY DEF Copies
  <2>2. queue' \in [Copies -> Nat]
    BY <1>3, <2>1, OneMore DEF Publish
  <2>3. QED
    BY <1>3, <2>2 DEF Publish
<1>4. ASSUME NEW w \in Workers, NEW c \in Copies, Receive(w, c) PROVE TypeOK'
  BY <1>4, CopyFields DEF Receive, Fail, Go
<1>5. ASSUME NEW w \in Workers, Lookup(w) PROVE TypeOK'
  BY <1>5, CopyFields DEF Lookup, Go, Isolated
<1>6. ASSUME NEW w \in Workers, EnterRaced(w) PROVE TypeOK'
  BY <1>6, CopyFields DEF EnterRaced, Go, Isolated
<1>7. ASSUME NEW w \in Workers, EnterMismatch(w) PROVE TypeOK'
  BY <1>7, CopyFields DEF EnterMismatch, Go, Isolated
<1>8. ASSUME NEW w \in Workers, EnterFinished(w) PROVE TypeOK'
  BY <1>8, CopyFields DEF EnterFinished, Go, Receipted
<1>9. ASSUME NEW w \in Workers, EnterHandler(w) PROVE TypeOK'
  BY <1>9 DEF EnterHandler, Go
<1>10. ASSUME NEW w \in Workers, Handle(w) PROVE TypeOK'
  BY <1>10, CopyFields DEF Handle, CommitHandled, Go, Receipted
<1>11. ASSUME NEW w \in Workers, HandleRejected(w) PROVE TypeOK'
  BY <1>11, CopyFields DEF HandleRejected, Go, Isolated, Receipted
<1>12. ASSUME NEW w \in Workers, CommitReplyLost(w) PROVE TypeOK'
  BY <1>12, CopyFields DEF CommitReplyLost, CommitHandled, Fail, Go, Receipted
<1>13. ASSUME NEW w \in Workers, NEW why \in Causes, ConsumeFails(w, why) PROVE TypeOK'
  BY <1>13 DEF ConsumeFails, Fail, Go
<1>14. ASSUME NEW w \in Workers, Retry(w) PROVE TypeOK'
  <2>1. [copy[w] EXCEPT !.attempt = @ + 1] \in Copies
    BY <1>14, RetryCopy DEF Retry, MayRetry
  <2>2. queue' \in [Copies -> Nat]
    BY <1>14, <2>1, OneMore DEF Retry
  <2>3. QED
    BY <1>14, <2>2 DEF Retry, Go
<1>15. ASSUME NEW w \in Workers, GiveUp(w) PROVE TypeOK'
  BY <1>15 DEF GiveUp, GivingUp, Go
<1>16. ASSUME NEW w \in Workers, FindJobToIsolate(w) PROVE TypeOK'
  BY <1>16 DEF FindJobToIsolate, Go
<1>17. ASSUME NEW w \in Workers, IsolateJob(w) PROVE TypeOK'
  BY <1>17 DEF IsolateJob, Go
<1>18. ASSUME NEW w \in Workers, DeadLetter(w) PROVE TypeOK'
  BY <1>18, CopyFields DEF DeadLetter, Release, Fail, Go
<1>19. ASSUME NEW w \in Workers, Ack(w) PROVE TypeOK'
  BY <1>19 DEF Ack, Release, Fail, Go
<1>20. ASSUME NEW w \in Workers, IsolationThrows(w) PROVE TypeOK'
  BY <1>20 DEF IsolationThrows, Requeue, Release, Fail, Go
<1>21. ASSUME NEW w \in Workers, Crash(w) PROVE TypeOK'
  BY <1>21 DEF Crash, Requeue, Release, Fail, Go
<1>22. QED
  BY <1>1, <1>2, <1>3, <1>4, <1>5, <1>6, <1>7, <1>8, <1>9, <1>10, <1>11, <1>12, <1>13, <1>14, <1>15, <1>16, <1>17, <1>18, <1>19, <1>20, <1>21 DEF Next

(* The lock keeps the handlers of a message apart.                         *)
LEMMA OneHandlerStep ==
  ASSUME TypeOK, OneHandler, Next
  PROVE  OneHandler'
<1> USE DEF TypeOK, Locations, OneHandler
<1>1. ASSUME NEW m \in Jobs, SubmitJob(m) PROVE OneHandler'
  BY <1>1 DEF SubmitJob
<1>2. ASSUME NEW m \in Jobs, CancelJob(m) PROVE OneHandler'
  BY <1>2 DEF CancelJob
<1>3. ASSUME NEW m \in Messages, NEW f \in Prints,
             NEW n \in 1 .. MaxAttempts + 1, Publish(m, f, n) PROVE OneHandler'
  BY <1>3 DEF Publish
<1>4. ASSUME NEW w \in Workers, NEW c \in Copies, Receive(w, c) PROVE OneHandler'
  BY <1>4 DEF Receive, Fail, Go
<1>5. ASSUME NEW w \in Workers, Lookup(w) PROVE OneHandler'
  BY <1>5 DEF Lookup, Go, Isolated
<1>6. ASSUME NEW w \in Workers, EnterRaced(w) PROVE OneHandler'
  BY <1>6 DEF EnterRaced, Go, Isolated
<1>7. ASSUME NEW w \in Workers, EnterMismatch(w) PROVE OneHandler'
  BY <1>7 DEF EnterMismatch, Go, Isolated
<1>8. ASSUME NEW w \in Workers, EnterFinished(w) PROVE OneHandler'
  BY <1>8 DEF EnterFinished, Go, Receipted
<1>9. ASSUME NEW w \in Workers, EnterHandler(w) PROVE OneHandler'
  BY <1>9 DEF EnterHandler, Go, Unlocked
<1>10. ASSUME NEW w \in Workers, Handle(w) PROVE OneHandler'
  BY <1>10 DEF Handle, CommitHandled, Go, Receipted
<1>11. ASSUME NEW w \in Workers, HandleRejected(w) PROVE OneHandler'
  BY <1>11 DEF HandleRejected, Go, Isolated, Receipted
<1>12. ASSUME NEW w \in Workers, CommitReplyLost(w) PROVE OneHandler'
  BY <1>12 DEF CommitReplyLost, CommitHandled, Fail, Go, Receipted
<1>13. ASSUME NEW w \in Workers, NEW why \in Causes, ConsumeFails(w, why) PROVE OneHandler'
  BY <1>13 DEF ConsumeFails, Fail, Go
<1>14. ASSUME NEW w \in Workers, Retry(w) PROVE OneHandler'
  BY <1>14 DEF Retry, MayRetry, Go
<1>15. ASSUME NEW w \in Workers, GiveUp(w) PROVE OneHandler'
  BY <1>15 DEF GiveUp, GivingUp, Go
<1>16. ASSUME NEW w \in Workers, FindJobToIsolate(w) PROVE OneHandler'
  BY <1>16 DEF FindJobToIsolate, Go
<1>17. ASSUME NEW w \in Workers, IsolateJob(w) PROVE OneHandler'
  BY <1>17 DEF IsolateJob, Go
<1>18. ASSUME NEW w \in Workers, DeadLetter(w) PROVE OneHandler'
  BY <1>18 DEF DeadLetter, Release, Fail, Go
<1>19. ASSUME NEW w \in Workers, Ack(w) PROVE OneHandler'
  BY <1>19 DEF Ack, Release, Fail, Go
<1>20. ASSUME NEW w \in Workers, IsolationThrows(w) PROVE OneHandler'
  BY <1>20 DEF IsolationThrows, Requeue, Release, Fail, Go
<1>21. ASSUME NEW w \in Workers, Crash(w) PROVE OneHandler'
  BY <1>21 DEF Crash, Requeue, Release, Fail, Go
<1>22. QED
  BY <1>1, <1>2, <1>3, <1>4, <1>5, <1>6, <1>7, <1>8, <1>9, <1>10, <1>11, <1>12, <1>13, <1>14, <1>15, <1>16, <1>17, <1>18, <1>19, <1>20, <1>21 DEF Next

(* Nobody else touches the row or the receipts of a message being handled. *)
LEMMA FreshStep ==
  ASSUME TypeOK, OneHandler, HandlingIsFresh, Next
  PROVE  HandlingIsFresh'
<1> USE DEF TypeOK, HandlingIsFresh, Received
<1>1. ASSUME NEW m \in Jobs, SubmitJob(m) PROVE HandlingIsFresh'
  BY <1>1 DEF SubmitJob
<1>2. ASSUME NEW m \in Jobs, CancelJob(m) PROVE HandlingIsFresh'
  BY <1>2 DEF CancelJob, RowLocked
<1>3. ASSUME NEW m \in Messages, NEW f \in Prints,
             NEW n \in 1 .. MaxAttempts + 1, Publish(m, f, n) PROVE HandlingIsFresh'
  BY <1>3 DEF Publish
<1>4. ASSUME NEW w \in Workers, NEW c \in Copies, Receive(w, c) PROVE HandlingIsFresh'
  BY <1>4 DEF Receive, Fail, Go
<1>5. ASSUME NEW w \in Workers, Lookup(w) PROVE HandlingIsFresh'
  BY <1>5 DEF Lookup, Go, Isolated
<1>6. ASSUME NEW w \in Workers, EnterRaced(w) PROVE HandlingIsFresh'
  BY <1>6 DEF EnterRaced, Go, Isolated
<1>7. ASSUME NEW w \in Workers, EnterMismatch(w) PROVE HandlingIsFresh'
  BY <1>7 DEF EnterMismatch, Go, Isolated
<1>8. ASSUME NEW w \in Workers, EnterFinished(w) PROVE HandlingIsFresh'
  BY <1>8 DEF EnterFinished, Go, Receipted
<1>9. ASSUME NEW w \in Workers, EnterHandler(w) PROVE HandlingIsFresh'
  BY <1>9 DEF EnterHandler, Go
<1>10. ASSUME NEW w \in Workers, Handle(w) PROVE HandlingIsFresh'
  <2>1. \A v \in Workers : pc'[v] = "handling" => pc[v] = "handling" /\ copy[v].id # copy[w].id
    BY <1>10 DEF OneHandler, Handle, Go
  <2>2. \A v \in Workers : pc'[v] = "handling" => ~Received(copy[v].id)'
    BY <1>10, <2>1 DEF Handle, CommitHandled, Receipted
  <2>3. QED
    BY <1>10, <2>1, <2>2 DEF Handle, CommitHandled
<1>11. ASSUME NEW w \in Workers, HandleRejected(w) PROVE HandlingIsFresh'
  <2>1. \A v \in Workers : pc'[v] = "handling" => pc[v] = "handling" /\ copy[v].id # copy[w].id
    BY <1>11 DEF OneHandler, HandleRejected, Go
  <2>2. \A v \in Workers : pc'[v] = "handling" => ~Received(copy[v].id)'
    BY <1>11, <2>1 DEF HandleRejected, Receipted
  <2>3. QED
    BY <1>11, <2>1, <2>2 DEF HandleRejected
<1>12. ASSUME NEW w \in Workers, CommitReplyLost(w) PROVE HandlingIsFresh'
  <2>1. \A v \in Workers : pc'[v] = "handling" => pc[v] = "handling" /\ copy[v].id # copy[w].id
    BY <1>12 DEF OneHandler, CommitReplyLost, Fail, Go
  <2>2. \A v \in Workers : pc'[v] = "handling" => ~Received(copy[v].id)'
    BY <1>12, <2>1 DEF CommitReplyLost, CommitHandled, Receipted
  <2>3. QED
    BY <1>12, <2>1, <2>2 DEF CommitReplyLost, CommitHandled
<1>13. ASSUME NEW w \in Workers, NEW why \in Causes, ConsumeFails(w, why) PROVE HandlingIsFresh'
  BY <1>13 DEF ConsumeFails, Fail, Go
<1>14. ASSUME NEW w \in Workers, Retry(w) PROVE HandlingIsFresh'
  BY <1>14 DEF Retry, MayRetry, Go
<1>15. ASSUME NEW w \in Workers, GiveUp(w) PROVE HandlingIsFresh'
  BY <1>15 DEF GiveUp, GivingUp, Go
<1>16. ASSUME NEW w \in Workers, FindJobToIsolate(w) PROVE HandlingIsFresh'
  BY <1>16 DEF FindJobToIsolate, Go
<1>17. ASSUME NEW w \in Workers, IsolateJob(w) PROVE HandlingIsFresh'
  BY <1>17 DEF IsolateJob, Go, RowLocked
<1>18. ASSUME NEW w \in Workers, DeadLetter(w) PROVE HandlingIsFresh'
  BY <1>18 DEF DeadLetter, Release, Fail, Go
<1>19. ASSUME NEW w \in Workers, Ack(w) PROVE HandlingIsFresh'
  BY <1>19 DEF Ack, Release, Fail, Go
<1>20. ASSUME NEW w \in Workers, IsolationThrows(w) PROVE HandlingIsFresh'
  BY <1>20 DEF IsolationThrows, Requeue, Release, Fail, Go
<1>21. ASSUME NEW w \in Workers, Crash(w) PROVE HandlingIsFresh'
  BY <1>21 DEF Crash, Requeue, Release, Fail, Go
<1>22. QED
  BY <1>1, <1>2, <1>3, <1>4, <1>5, <1>6, <1>7, <1>8, <1>9, <1>10, <1>11, <1>12, <1>13, <1>14, <1>15, <1>16, <1>17, <1>18, <1>19, <1>20, <1>21 DEF Next

(* An effect commits only from the handling of a message without one.      *)
LEMMA OnceStep ==
  ASSUME TypeOK, EffectInv, Next
  PROVE  (AtMostOneEffect /\ EffectIsRecorded)'
<1> USE DEF TypeOK, JobStatuses, AtMostOneEffect, EffectIsRecorded, EffectInv, Received
<1>1. ASSUME NEW m \in Jobs, SubmitJob(m) PROVE (AtMostOneEffect /\ EffectIsRecorded)'
  BY <1>1 DEF SubmitJob
<1>2. ASSUME NEW m \in Jobs, CancelJob(m) PROVE (AtMostOneEffect /\ EffectIsRecorded)'
  BY <1>2 DEF CancelJob
<1>3. ASSUME NEW m \in Messages, NEW f \in Prints,
             NEW n \in 1 .. MaxAttempts + 1, Publish(m, f, n) PROVE (AtMostOneEffect /\ EffectIsRecorded)'
  BY <1>3 DEF Publish
<1>4. ASSUME NEW w \in Workers, NEW c \in Copies, Receive(w, c) PROVE (AtMostOneEffect /\ EffectIsRecorded)'
  BY <1>4 DEF Receive, Fail, Go
<1>5. ASSUME NEW w \in Workers, Lookup(w) PROVE (AtMostOneEffect /\ EffectIsRecorded)'
  BY <1>5 DEF Lookup, Go, Isolated
<1>6. ASSUME NEW w \in Workers, EnterRaced(w) PROVE (AtMostOneEffect /\ EffectIsRecorded)'
  BY <1>6 DEF EnterRaced, Go, Isolated
<1>7. ASSUME NEW w \in Workers, EnterMismatch(w) PROVE (AtMostOneEffect /\ EffectIsRecorded)'
  BY <1>7 DEF EnterMismatch, Go, Isolated
<1>8. ASSUME NEW w \in Workers, EnterFinished(w) PROVE (AtMostOneEffect /\ EffectIsRecorded)'
  BY <1>8 DEF EnterFinished, Go, Receipted
<1>9. ASSUME NEW w \in Workers, EnterHandler(w) PROVE (AtMostOneEffect /\ EffectIsRecorded)'
  BY <1>9 DEF EnterHandler, Go
<1>10. ASSUME NEW w \in Workers, Handle(w) PROVE (AtMostOneEffect /\ EffectIsRecorded)'
  <2>1. copy[w].id \in Messages /\ copy[w].print \in Prints
    BY <1>10, CopyFields DEF Handle
  <2>2. effects[copy[w].id] = 0
    <3>1. ~(effects[copy[w].id] > 0)
      BY <1>10, <2>1 DEF Handle, HandlingIsFresh
    <3>2. QED
      BY <2>1, <3>1
  <2>3. effects' = [effects EXCEPT ![copy[w].id] = 1]
    BY <1>10, <2>1, <2>2 DEF Handle, CommitHandled
  <2>4. \A m \in Messages : Received(m)' <=> Received(m) \/ m = copy[w].id
    BY <1>10, <2>1 DEF Handle, CommitHandled, Receipted
  <2>5. \A m \in Jobs : job'[m] = IF m = copy[w].id THEN "completed" ELSE job[m]
    BY <1>10 DEF Handle, CommitHandled
  <2>6. \A m \in Messages : effects'[m] = IF m = copy[w].id THEN 1 ELSE effects[m]
    BY <2>3
  <2>7. \A m \in Messages : effects'[m] > 0 => Received(m)'
    BY <2>4, <2>6
  <2>8. \A m \in Jobs : effects'[m] > 0 <=> job'[m] = "completed"
    BY <2>5, <2>6, JobsAssumption
  <2>9. QED
    BY <2>6, <2>7, <2>8
<1>11. ASSUME NEW w \in Workers, HandleRejected(w) PROVE (AtMostOneEffect /\ EffectIsRecorded)'
  <2>1. job[copy[w].id] = "queued"
    BY <1>11 DEF HandleRejected, HandlingIsFresh
  <2>2. \A m \in Jobs : job'[m] = IF m = copy[w].id THEN "isolated" ELSE job[m]
    BY <1>11 DEF HandleRejected
  <2>3. \A m \in Messages : Received(m) => Received(m)'
    BY <1>11 DEF HandleRejected, Receipted
  <2>4. QED
    BY <1>11, <2>1, <2>2, <2>3, JobsAssumption DEF HandleRejected
<1>12. ASSUME NEW w \in Workers, CommitReplyLost(w) PROVE (AtMostOneEffect /\ EffectIsRecorded)'
  <2>1. copy[w].id \in Messages /\ copy[w].print \in Prints
    BY <1>12, CopyFields DEF CommitReplyLost
  <2>2. effects[copy[w].id] = 0
    <3>1. ~(effects[copy[w].id] > 0)
      BY <1>12, <2>1 DEF CommitReplyLost, HandlingIsFresh
    <3>2. QED
      BY <2>1, <3>1
  <2>3. effects' = [effects EXCEPT ![copy[w].id] = 1]
    BY <1>12, <2>1, <2>2 DEF CommitReplyLost, CommitHandled
  <2>4. \A m \in Messages : Received(m)' <=> Received(m) \/ m = copy[w].id
    BY <1>12, <2>1 DEF CommitReplyLost, CommitHandled, Receipted
  <2>5. \A m \in Jobs : job'[m] = IF m = copy[w].id THEN "completed" ELSE job[m]
    BY <1>12 DEF CommitReplyLost, CommitHandled
  <2>6. \A m \in Messages : effects'[m] = IF m = copy[w].id THEN 1 ELSE effects[m]
    BY <2>3
  <2>7. \A m \in Messages : effects'[m] > 0 => Received(m)'
    BY <2>4, <2>6
  <2>8. \A m \in Jobs : effects'[m] > 0 <=> job'[m] = "completed"
    BY <2>5, <2>6, JobsAssumption
  <2>9. QED
    BY <2>6, <2>7, <2>8
<1>13. ASSUME NEW w \in Workers, NEW why \in Causes, ConsumeFails(w, why) PROVE (AtMostOneEffect /\ EffectIsRecorded)'
  BY <1>13 DEF ConsumeFails, Fail, Go
<1>14. ASSUME NEW w \in Workers, Retry(w) PROVE (AtMostOneEffect /\ EffectIsRecorded)'
  BY <1>14 DEF Retry, MayRetry, Go
<1>15. ASSUME NEW w \in Workers, GiveUp(w) PROVE (AtMostOneEffect /\ EffectIsRecorded)'
  BY <1>15 DEF GiveUp, GivingUp, Go
<1>16. ASSUME NEW w \in Workers, FindJobToIsolate(w) PROVE (AtMostOneEffect /\ EffectIsRecorded)'
  BY <1>16 DEF FindJobToIsolate, Go
<1>17. ASSUME NEW w \in Workers, IsolateJob(w) PROVE (AtMostOneEffect /\ EffectIsRecorded)'
  BY <1>17 DEF IsolateJob, Go
<1>18. ASSUME NEW w \in Workers, DeadLetter(w) PROVE (AtMostOneEffect /\ EffectIsRecorded)'
  BY <1>18 DEF DeadLetter, Release, Fail, Go
<1>19. ASSUME NEW w \in Workers, Ack(w) PROVE (AtMostOneEffect /\ EffectIsRecorded)'
  BY <1>19 DEF Ack, Release, Fail, Go
<1>20. ASSUME NEW w \in Workers, IsolationThrows(w) PROVE (AtMostOneEffect /\ EffectIsRecorded)'
  BY <1>20 DEF IsolationThrows, Requeue, Release, Fail, Go
<1>21. ASSUME NEW w \in Workers, Crash(w) PROVE (AtMostOneEffect /\ EffectIsRecorded)'
  BY <1>21 DEF Crash, Requeue, Release, Fail, Go
<1>22. QED
  BY <1>1, <1>2, <1>3, <1>4, <1>5, <1>6, <1>7, <1>8, <1>9, <1>10, <1>11, <1>12, <1>13, <1>14, <1>15, <1>16, <1>17, <1>18, <1>19, <1>20, <1>21 DEF Next

(* What is durably recorded of messages is never taken back.               *)
LEMMA RecordsStayStep ==
  ASSUME Next
  PROVE  receipts \subseteq receipts' /\ isolations \subseteq isolations' /\ dlq \subseteq dlq'
<1>1. ASSUME NEW m \in Jobs, SubmitJob(m) PROVE receipts \subseteq receipts' /\ isolations \subseteq isolations' /\ dlq \subseteq dlq'
  BY <1>1 DEF SubmitJob
<1>2. ASSUME NEW m \in Jobs, CancelJob(m) PROVE receipts \subseteq receipts' /\ isolations \subseteq isolations' /\ dlq \subseteq dlq'
  BY <1>2 DEF CancelJob
<1>3. ASSUME NEW m \in Messages, NEW f \in Prints,
             NEW n \in 1 .. MaxAttempts + 1, Publish(m, f, n) PROVE receipts \subseteq receipts' /\ isolations \subseteq isolations' /\ dlq \subseteq dlq'
  BY <1>3 DEF Publish
<1>4. ASSUME NEW w \in Workers, NEW c \in Copies, Receive(w, c) PROVE receipts \subseteq receipts' /\ isolations \subseteq isolations' /\ dlq \subseteq dlq'
  BY <1>4 DEF Receive, Fail, Go
<1>5. ASSUME NEW w \in Workers, Lookup(w) PROVE receipts \subseteq receipts' /\ isolations \subseteq isolations' /\ dlq \subseteq dlq'
  BY <1>5 DEF Lookup, Go, Isolated
<1>6. ASSUME NEW w \in Workers, EnterRaced(w) PROVE receipts \subseteq receipts' /\ isolations \subseteq isolations' /\ dlq \subseteq dlq'
  BY <1>6 DEF EnterRaced, Go, Isolated
<1>7. ASSUME NEW w \in Workers, EnterMismatch(w) PROVE receipts \subseteq receipts' /\ isolations \subseteq isolations' /\ dlq \subseteq dlq'
  BY <1>7 DEF EnterMismatch, Go, Isolated
<1>8. ASSUME NEW w \in Workers, EnterFinished(w) PROVE receipts \subseteq receipts' /\ isolations \subseteq isolations' /\ dlq \subseteq dlq'
  BY <1>8 DEF EnterFinished, Go, Receipted
<1>9. ASSUME NEW w \in Workers, EnterHandler(w) PROVE receipts \subseteq receipts' /\ isolations \subseteq isolations' /\ dlq \subseteq dlq'
  BY <1>9 DEF EnterHandler, Go
<1>10. ASSUME NEW w \in Workers, Handle(w) PROVE receipts \subseteq receipts' /\ isolations \subseteq isolations' /\ dlq \subseteq dlq'
  BY <1>10 DEF Handle, CommitHandled, Go, Receipted
<1>11. ASSUME NEW w \in Workers, HandleRejected(w) PROVE receipts \subseteq receipts' /\ isolations \subseteq isolations' /\ dlq \subseteq dlq'
  BY <1>11 DEF HandleRejected, Go, Isolated, Receipted
<1>12. ASSUME NEW w \in Workers, CommitReplyLost(w) PROVE receipts \subseteq receipts' /\ isolations \subseteq isolations' /\ dlq \subseteq dlq'
  BY <1>12 DEF CommitReplyLost, CommitHandled, Fail, Go, Receipted
<1>13. ASSUME NEW w \in Workers, NEW why \in Causes, ConsumeFails(w, why) PROVE receipts \subseteq receipts' /\ isolations \subseteq isolations' /\ dlq \subseteq dlq'
  BY <1>13 DEF ConsumeFails, Fail, Go
<1>14. ASSUME NEW w \in Workers, Retry(w) PROVE receipts \subseteq receipts' /\ isolations \subseteq isolations' /\ dlq \subseteq dlq'
  BY <1>14 DEF Retry, MayRetry, Go
<1>15. ASSUME NEW w \in Workers, GiveUp(w) PROVE receipts \subseteq receipts' /\ isolations \subseteq isolations' /\ dlq \subseteq dlq'
  BY <1>15 DEF GiveUp, GivingUp, Go
<1>16. ASSUME NEW w \in Workers, FindJobToIsolate(w) PROVE receipts \subseteq receipts' /\ isolations \subseteq isolations' /\ dlq \subseteq dlq'
  BY <1>16 DEF FindJobToIsolate, Go
<1>17. ASSUME NEW w \in Workers, IsolateJob(w) PROVE receipts \subseteq receipts' /\ isolations \subseteq isolations' /\ dlq \subseteq dlq'
  BY <1>17 DEF IsolateJob, Go
<1>18. ASSUME NEW w \in Workers, DeadLetter(w) PROVE receipts \subseteq receipts' /\ isolations \subseteq isolations' /\ dlq \subseteq dlq'
  BY <1>18 DEF DeadLetter, Release, Fail, Go
<1>19. ASSUME NEW w \in Workers, Ack(w) PROVE receipts \subseteq receipts' /\ isolations \subseteq isolations' /\ dlq \subseteq dlq'
  BY <1>19 DEF Ack, Release, Fail, Go
<1>20. ASSUME NEW w \in Workers, IsolationThrows(w) PROVE receipts \subseteq receipts' /\ isolations \subseteq isolations' /\ dlq \subseteq dlq'
  BY <1>20 DEF IsolationThrows, Requeue, Release, Fail, Go
<1>21. ASSUME NEW w \in Workers, Crash(w) PROVE receipts \subseteq receipts' /\ isolations \subseteq isolations' /\ dlq \subseteq dlq'
  BY <1>21 DEF Crash, Requeue, Release, Fail, Go
<1>22. QED
  BY <1>1, <1>2, <1>3, <1>4, <1>5, <1>6, <1>7, <1>8, <1>9, <1>10, <1>11, <1>12, <1>13, <1>14, <1>15, <1>16, <1>17, <1>18, <1>19, <1>20, <1>21 DEF Next

(* A settled message stays settled.                                        *)
LEMMA SettledStays ==
  ASSUME Next, NEW m, Settled(m)
  PROVE  Settled(m)'
  BY RecordsStayStep DEF Settled, Received

(* A worker comes to ack after it has recorded or found the message's end. *)
LEMMA AckStep ==
  ASSUME TypeOK, AckIsSettled, Next
  PROVE  AckIsSettled'
<1> USE DEF TypeOK, Locations, AckIsSettled
<1>1. ASSUME NEW m \in Jobs, SubmitJob(m) PROVE AckIsSettled'
  BY <1>1, SettledStays DEF SubmitJob
<1>2. ASSUME NEW m \in Jobs, CancelJob(m) PROVE AckIsSettled'
  BY <1>2, SettledStays DEF CancelJob
<1>3. ASSUME NEW m \in Messages, NEW f \in Prints,
             NEW n \in 1 .. MaxAttempts + 1, Publish(m, f, n) PROVE AckIsSettled'
  BY <1>3, SettledStays DEF Publish
<1>4. ASSUME NEW w \in Workers, NEW c \in Copies, Receive(w, c) PROVE AckIsSettled'
  BY <1>4, SettledStays DEF Receive, Fail, Go
<1>5. ASSUME NEW w \in Workers, Lookup(w) PROVE AckIsSettled'
  <2>1. copy[w].id \in Messages /\ copy[w].print \in Prints
    BY <1>5, CopyFields DEF Lookup
  <2>2. pc'[w] = "ack" => Settled(copy[w].id)'
    BY <1>5, <2>1 DEF Lookup, Go, Isolated, Settled, Received, Reasons, Duplicate
  <2>3. QED
    BY <1>5, <2>2, SettledStays DEF Lookup, Go
<1>6. ASSUME NEW w \in Workers, EnterRaced(w) PROVE AckIsSettled'
  <2>1. copy[w].id \in Messages /\ copy[w].print \in Prints
    BY <1>6, CopyFields DEF EnterRaced
  <2>2. Settled(copy[w].id)'
    BY <1>6, <2>1 DEF EnterRaced, Isolated, Settled, Received, Reasons, Duplicate
  <2>3. QED
    BY <1>6, <2>2, SettledStays DEF EnterRaced, Go
<1>7. ASSUME NEW w \in Workers, EnterMismatch(w) PROVE AckIsSettled'
  <2>1. copy[w].id \in Messages /\ copy[w].print \in Prints
    BY <1>7, CopyFields DEF EnterMismatch
  <2>2. Settled(copy[w].id)'
    BY <1>7, <2>1 DEF EnterMismatch, Isolated, Settled, Received, Reasons
  <2>3. QED
    BY <1>7, <2>2, SettledStays DEF EnterMismatch, Go
<1>8. ASSUME NEW w \in Workers, EnterFinished(w) PROVE AckIsSettled'
  <2>1. copy[w].id \in Messages /\ copy[w].print \in Prints
    BY <1>8, CopyFields DEF EnterFinished
  <2>2. Settled(copy[w].id)'
    BY <1>8, <2>1 DEF EnterFinished, Receipted, Settled, Received, Reasons
  <2>3. QED
    BY <1>8, <2>2, SettledStays DEF EnterFinished, Go
<1>9. ASSUME NEW w \in Workers, EnterHandler(w) PROVE AckIsSettled'
  BY <1>9, SettledStays DEF EnterHandler, Go
<1>10. ASSUME NEW w \in Workers, Handle(w) PROVE AckIsSettled'
  <2>1. copy[w].id \in Messages /\ copy[w].print \in Prints
    BY <1>10, CopyFields DEF Handle
  <2>2. Settled(copy[w].id)'
    BY <1>10, <2>1 DEF Handle, CommitHandled, Receipted, Settled, Received, Reasons
  <2>3. QED
    BY <1>10, <2>2, SettledStays DEF Handle, Go
<1>11. ASSUME NEW w \in Workers, HandleRejected(w) PROVE AckIsSettled'
  <2>1. copy[w].id \in Messages /\ copy[w].print \in Prints
    BY <1>11, CopyFields DEF HandleRejected
  <2>2. Settled(copy[w].id)'
    BY <1>11, <2>1 DEF HandleRejected, Isolated, Receipted, Settled, Received, Reasons
  <2>3. QED
    BY <1>11, <2>2, SettledStays DEF HandleRejected, Go
<1>12. ASSUME NEW w \in Workers, CommitReplyLost(w) PROVE AckIsSettled'
  BY <1>12, SettledStays DEF CommitReplyLost, CommitHandled, Fail, Go, Receipted
<1>13. ASSUME NEW w \in Workers, NEW why \in Causes, ConsumeFails(w, why) PROVE AckIsSettled'
  BY <1>13, SettledStays DEF ConsumeFails, Fail, Go
<1>14. ASSUME NEW w \in Workers, Retry(w) PROVE AckIsSettled'
  BY <1>14, SettledStays DEF Retry, MayRetry, Go
<1>15. ASSUME NEW w \in Workers, GiveUp(w) PROVE AckIsSettled'
  BY <1>15, SettledStays DEF GiveUp, GivingUp, Go
<1>16. ASSUME NEW w \in Workers, FindJobToIsolate(w) PROVE AckIsSettled'
  BY <1>16, SettledStays DEF FindJobToIsolate, Go
<1>17. ASSUME NEW w \in Workers, IsolateJob(w) PROVE AckIsSettled'
  BY <1>17, SettledStays DEF IsolateJob, Go
<1>18. ASSUME NEW w \in Workers, DeadLetter(w) PROVE AckIsSettled'
  BY <1>18, SettledStays DEF DeadLetter, Release, Fail, Go
<1>19. ASSUME NEW w \in Workers, Ack(w) PROVE AckIsSettled'
  BY <1>19, SettledStays DEF Ack, Release, Fail, Go
<1>20. ASSUME NEW w \in Workers, IsolationThrows(w) PROVE AckIsSettled'
  BY <1>20, SettledStays DEF IsolationThrows, Requeue, Release, Fail, Go
<1>21. ASSUME NEW w \in Workers, Crash(w) PROVE AckIsSettled'
  BY <1>21, SettledStays DEF Crash, Requeue, Release, Fail, Go
<1>22. QED
  BY <1>1, <1>2, <1>3, <1>4, <1>5, <1>6, <1>7, <1>8, <1>9, <1>10, <1>11, <1>12, <1>13, <1>14, <1>15, <1>16, <1>17, <1>18, <1>19, <1>20, <1>21 DEF Next

(* What leaves the queue is held, what is let go is queued or settled.     *)
LEMMA KeptStep ==
  ASSUME TypeOK, AckIsSettled, Kept, Next
  PROVE  Kept'
<1> USE DEF TypeOK, Kept, Queued, Held
<1>1. ASSUME NEW m \in Jobs, SubmitJob(m) PROVE Kept'
  BY <1>1, SettledStays DEF SubmitJob
<1>2. ASSUME NEW m \in Jobs, CancelJob(m) PROVE Kept'
  BY <1>2, SettledStays DEF CancelJob
<1>3. ASSUME NEW m \in Messages, NEW f \in Prints,
             NEW n \in 1 .. MaxAttempts + 1, Publish(m, f, n) PROVE Kept'
  <2> DEFINE c == [id |-> m, print |-> f, attempt |-> n]
  <2>1. c \in Copies /\ c.id = m
    BY DEF Copies
  <2>2. Queued(m)'
    BY <1>3, <2>1, OneMore DEF Publish
  <2>3. QED
    BY <1>3, <2>1, <2>2, OneMore, SettledStays DEF Publish
<1>4. ASSUME NEW w \in Workers, NEW c \in Copies, Receive(w, c) PROVE Kept'
  BY <1>4, SettledStays DEF Receive, Fail, Go
<1>5. ASSUME NEW w \in Workers, Lookup(w) PROVE Kept'
  BY <1>5, SettledStays DEF Lookup, Go, Isolated
<1>6. ASSUME NEW w \in Workers, EnterRaced(w) PROVE Kept'
  BY <1>6, SettledStays DEF EnterRaced, Go, Isolated
<1>7. ASSUME NEW w \in Workers, EnterMismatch(w) PROVE Kept'
  BY <1>7, SettledStays DEF EnterMismatch, Go, Isolated
<1>8. ASSUME NEW w \in Workers, EnterFinished(w) PROVE Kept'
  BY <1>8, SettledStays DEF EnterFinished, Go, Receipted
<1>9. ASSUME NEW w \in Workers, EnterHandler(w) PROVE Kept'
  BY <1>9, SettledStays DEF EnterHandler, Go
<1>10. ASSUME NEW w \in Workers, Handle(w) PROVE Kept'
  BY <1>10, SettledStays DEF Handle, CommitHandled, Go, Receipted
<1>11. ASSUME NEW w \in Workers, HandleRejected(w) PROVE Kept'
  BY <1>11, SettledStays DEF HandleRejected, Go, Isolated, Receipted
<1>12. ASSUME NEW w \in Workers, CommitReplyLost(w) PROVE Kept'
  BY <1>12, SettledStays DEF CommitReplyLost, CommitHandled, Fail, Go, Receipted
<1>13. ASSUME NEW w \in Workers, NEW why \in Causes, ConsumeFails(w, why) PROVE Kept'
  BY <1>13, SettledStays DEF ConsumeFails, Fail, Go
<1>14. ASSUME NEW w \in Workers, Retry(w) PROVE Kept'
  <2> DEFINE c == [copy[w] EXCEPT !.attempt = @ + 1]
  <2>1. c \in Copies /\ c.id = copy[w].id
    BY <1>14, RetryCopy DEF Retry, MayRetry
  <2>2. Queued(copy[w].id)'
    BY <1>14, <2>1, OneMore DEF Retry
  <2>3. QED
    BY <1>14, <2>1, <2>2, OneMore, SettledStays DEF Retry, Go
<1>15. ASSUME NEW w \in Workers, GiveUp(w) PROVE Kept'
  BY <1>15, SettledStays DEF GiveUp, GivingUp, Go
<1>16. ASSUME NEW w \in Workers, FindJobToIsolate(w) PROVE Kept'
  BY <1>16, SettledStays DEF FindJobToIsolate, Go
<1>17. ASSUME NEW w \in Workers, IsolateJob(w) PROVE Kept'
  BY <1>17, SettledStays DEF IsolateJob, Go
<1>18. ASSUME NEW w \in Workers, DeadLetter(w) PROVE Kept'
  <2>1. ASSUME NEW m, m = copy[w].id PROVE Settled(m)'
    BY <1>18, <2>1 DEF DeadLetter, Settled
  <2>2. QED
    BY <1>18, <2>1, SettledStays DEF DeadLetter, Release, Fail, Go
<1>19. ASSUME NEW w \in Workers, Ack(w) PROVE Kept'
  <2>1. ASSUME NEW m, m = copy[w].id, pc[w] = "ack" PROVE Settled(m)'
    BY <2>1, SettledStays DEF AckIsSettled
  <2>2. QED
    BY <1>19, <2>1, SettledStays DEF Ack, Release, Fail, Go
<1>20. ASSUME NEW w \in Workers, IsolationThrows(w) PROVE Kept'
  BY <1>20, SettledStays DEF IsolationThrows, Requeue, Release, Fail, Go
<1>21. ASSUME NEW w \in Workers, Crash(w) PROVE Kept'
  BY <1>21, SettledStays DEF Crash, Requeue, Release, Fail, Go
<1>22. QED
  BY <1>1, <1>2, <1>3, <1>4, <1>5, <1>6, <1>7, <1>8, <1>9, <1>10, <1>11, <1>12, <1>13, <1>14, <1>15, <1>16, <1>17, <1>18, <1>19, <1>20, <1>21 DEF Next

(* The row is closed before the delivery is rejected.                      *)
LEMMA DeadStep ==
  ASSUME TypeOK, DeadInv, HandlingIsFresh, Next
  PROVE  DeadInv'
<1> USE DEF TypeOK, Locations, DeadInv, DeadJobIsOver, IsolatesJobs
<1>1. ASSUME NEW m \in Jobs, SubmitJob(m) PROVE DeadInv'
  BY <1>1 DEF SubmitJob
<1>2. ASSUME NEW m \in Jobs, CancelJob(m) PROVE DeadInv'
  BY <1>2 DEF CancelJob
<1>3. ASSUME NEW m \in Messages, NEW f \in Prints,
             NEW n \in 1 .. MaxAttempts + 1, Publish(m, f, n) PROVE DeadInv'
  BY <1>3 DEF Publish
<1>4. ASSUME NEW w \in Workers, NEW c \in Copies, Receive(w, c) PROVE DeadInv'
  BY <1>4 DEF Receive, Fail, Go
<1>5. ASSUME NEW w \in Workers, Lookup(w) PROVE DeadInv'
  BY <1>5 DEF Lookup, Go, Isolated
<1>6. ASSUME NEW w \in Workers, EnterRaced(w) PROVE DeadInv'
  BY <1>6 DEF EnterRaced, Go, Isolated
<1>7. ASSUME NEW w \in Workers, EnterMismatch(w) PROVE DeadInv'
  BY <1>7 DEF EnterMismatch, Go, Isolated
<1>8. ASSUME NEW w \in Workers, EnterFinished(w) PROVE DeadInv'
  BY <1>8 DEF EnterFinished, Go, Receipted
<1>9. ASSUME NEW w \in Workers, EnterHandler(w) PROVE DeadInv'
  BY <1>9 DEF EnterHandler, Go
<1>10. ASSUME NEW w \in Workers, Handle(w) PROVE DeadInv'
  BY <1>10 DEF Handle, CommitHandled, Go, Receipted
<1>11. ASSUME NEW w \in Workers, HandleRejected(w) PROVE DeadInv'
  BY <1>11 DEF HandleRejected, Go, Isolated, Receipted
<1>12. ASSUME NEW w \in Workers, CommitReplyLost(w) PROVE DeadInv'
  BY <1>12 DEF CommitReplyLost, CommitHandled, Fail, Go, Receipted
<1>13. ASSUME NEW w \in Workers, NEW why \in Causes, ConsumeFails(w, why) PROVE DeadInv'
  BY <1>13 DEF ConsumeFails, Fail, Go
<1>14. ASSUME NEW w \in Workers, Retry(w) PROVE DeadInv'
  BY <1>14 DEF Retry, MayRetry, Go
<1>15. ASSUME NEW w \in Workers, GiveUp(w) PROVE DeadInv'
  BY <1>15 DEF GiveUp, GivingUp, Go
<1>16. ASSUME NEW w \in Workers, FindJobToIsolate(w) PROVE DeadInv'
  BY <1>16 DEF FindJobToIsolate, Go
<1>17. ASSUME NEW w \in Workers, IsolateJob(w) PROVE DeadInv'
  BY <1>17 DEF IsolateJob, Go
<1>18. ASSUME NEW w \in Workers, DeadLetter(w) PROVE DeadInv'
  BY <1>18 DEF DeadLetter, Release, Fail, Go
<1>19. ASSUME NEW w \in Workers, Ack(w) PROVE DeadInv'
  BY <1>19 DEF Ack, Release, Fail, Go
<1>20. ASSUME NEW w \in Workers, IsolationThrows(w) PROVE DeadInv'
  BY <1>20 DEF IsolationThrows, Requeue, Release, Fail, Go
<1>21. ASSUME NEW w \in Workers, Crash(w) PROVE DeadInv'
  BY <1>21 DEF Crash, Requeue, Release, Fail, Go
<1>22. QED
  BY <1>1, <1>2, <1>3, <1>4, <1>5, <1>6, <1>7, <1>8, <1>9, <1>10, <1>11, <1>12, <1>13, <1>14, <1>15, <1>16, <1>17, <1>18, <1>19, <1>20, <1>21 DEF Next

-----------------------------------------------------------------------------
(* Nothing is published yet, and nobody works.                             *)
LEMMA InitInv == Init => IInv
  BY DEF Init, IInv, TypeOK, Locations, Causes, JobStatuses, EffectInv, DeliveryInv, DeadInv,
         AtMostOneEffect, EffectIsRecorded, Received, OneHandler, HandlingIsFresh,
         AckIsSettled, Kept, DeadJobIsOver, IsolatesJobs

(* The invariant speaks of the variables only.                             *)
LEMMA Stutter == IInv /\ UNCHANGED vars => IInv'
<1>1. SUFFICES ASSUME IInv, UNCHANGED vars PROVE IInv'
  OBVIOUS
<1>2. TypeOK'
  BY <1>1 DEF IInv, TypeOK, vars
<1>3. EffectInv'
  BY <1>1 DEF IInv, EffectInv, AtMostOneEffect, EffectIsRecorded, Received, OneHandler,
              HandlingIsFresh, vars
<1>4. DeliveryInv'
  BY <1>1 DEF IInv, DeliveryInv, AckIsSettled, Settled, Received, Kept, Queued, Held, vars
<1>5. DeadInv'
  BY <1>1 DEF IInv, DeadInv, DeadJobIsOver, IsolatesJobs, vars
<1>6. QED
  BY <1>2, <1>3, <1>4, <1>5 DEF IInv

(* The invariant holds whatever the broker, the producers and the crashes  *)
(* of workers do.                                                          *)
THEOREM Invariance == SafeSpec => []IInv
<1>1. IInv /\ [Next]_vars => IInv'
  <2>1. SUFFICES ASSUME IInv, [Next]_vars PROVE IInv'
    OBVIOUS
  <2>2. CASE Next
    <3>1. TypeOK' /\ DeadInv'
      BY <2>1, <2>2, TypeStep, DeadStep DEF IInv, EffectInv, DeadInv
    <3>2. EffectInv'
      BY <2>1, <2>2, OneHandlerStep, FreshStep, OnceStep DEF IInv, EffectInv
    <3>3. DeliveryInv'
      BY <2>1, <2>2, AckStep, KeptStep DEF IInv, DeliveryInv
    <3>4. QED
      BY <3>1, <3>2, <3>3 DEF IInv
  <2>3. CASE UNCHANGED vars
    BY <2>1, <2>3, Stutter
  <2>4. QED
    BY <2>1, <2>2, <2>3
<1>2. QED
  BY <1>1, InitInv, PTL DEF SafeSpec

(* Every variable keeps its type, and a worker has a delivery exactly while*)
(* it is not idle.                                                         *)
THEOREM TypeCorrect == SafeSpec => []TypeOK
  BY Invariance, PTL DEF IInv

(* However often a message is delivered, and to however many workers at    *)
(* once, its handler's effect commits at most once.                        *)
THEOREM EffectsAreOnce == SafeSpec => []AtMostOneEffect
<1>1. IInv => AtMostOneEffect
  BY DEF IInv, EffectInv
<1>2. QED
  BY <1>1, Invariance, PTL

(* An effect has its receipt, and a job is completed exactly if it had its *)
(* effect.                                                                 *)
THEOREM EffectsAreRecorded == SafeSpec => []EffectIsRecorded
<1>1. IInv => EffectIsRecorded
  BY DEF IInv, EffectInv
<1>2. QED
  BY <1>1, Invariance, PTL

(* A job that was cancelled or isolated did nothing, and as long as it is, *)
(* nothing is done for it.                                                 *)
THEOREM StoppedJobsAreIdle == SafeSpec => []StoppedJobHasNoEffect
<1>1. IInv => StoppedJobHasNoEffect
  <2>1. SUFFICES ASSUME IInv, NEW m \in Jobs, job[m] \in {"cancelled", "isolated"}
                 PROVE  effects[m] = 0
    BY DEF StoppedJobHasNoEffect
  <2>2. m \in Messages
    BY JobsAssumption
  <2>3. ~(effects[m] > 0)
    BY <2>1, <2>2 DEF IInv, EffectInv, EffectIsRecorded
  <2>4. QED
    BY <2>1, <2>2, <2>3 DEF IInv, TypeOK
<1>2. QED
  BY <1>1, Invariance, PTL

(* No crash, retry, rejection or lost reply makes a message disappear that *)
(* nothing durable tells of.                                               *)
THEOREM MessagesAreKept == SafeSpec => []NothingLost
<1>1. IInv => NothingLost
  BY DEF IInv, DeliveryInv, Kept, Queued, Held, NothingLost, Travelling
<1>2. QED
  BY <1>1, Invariance, PTL

(* A job whose delivery was rejected is not left queued.                   *)
THEOREM DeadJobsAreClosed == SafeSpec => []DeadJobIsNotQueued
<1>1. IInv => DeadJobIsNotQueued
  BY DEF IInv, DeadInv, DeadJobIsOver, DeadJobIsNotQueued
<1>2. QED
  BY <1>1, Invariance, PTL

(* Receipts, isolations and dead letters are never taken back: what became *)
(* of a message once can always be told.                                   *)
RecordsAreFinal ==
  [][receipts \subseteq receipts' /\ isolations \subseteq isolations' /\ dlq \subseteq dlq']_vars

(* Every handler step and every crash leaves the records of the others.    *)
THEOREM RecordsStay == SafeSpec => RecordsAreFinal
  BY RecordsStayStep, PTL DEF SafeSpec, RecordsAreFinal, vars
=============================================================================
