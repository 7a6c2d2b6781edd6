------------------------------ MODULE Delivery ------------------------------
(***************************************************************************)
(* The outbox and the inbox together: what a publisher's transport stores  *)
(* at the broker is what a worker's consumer receives. An owner commits a  *)
(* message with its outbox row, and a job's row with both; from there on   *)
(* the two sides share nothing but the broker's queue and fail on their    *)
(* own. Replays, which the Outbox has, are left out here.                  *)
(***************************************************************************)
EXTENDS Integers

CONSTANTS Messages, Jobs, Senders, Tokens, NoToken, NoMessage, BatchSize, Lease, Backoff,
          PublishAttempts,            \* the publisher's maxAttempts
          Prints, Unsupported, TruePrint, Workers, NoCopy, MaxCopies,
          DeliveryAttempts            \* the consumer's maxAttempts

VARIABLES row, claim, sending, publisherAt, broker, confirmed, intent,
          queued, copy, workerAt, whyFailed, inboxReceipts, job, isolations, handlerEffects,
          published, dlq

outboxVars == <<row, claim, sending, publisherAt, broker, confirmed, intent>>
inboxVars == <<queued, copy, workerAt, whyFailed, inboxReceipts, job, isolations, handlerEffects,
               published, dlq>>
deliveringVars == <<outboxVars, inboxVars>>

Outbox == INSTANCE Outbox WITH Publishers <- Senders, MaxAttempts <- PublishAttempts,
                               current <- sending, pc <- publisherAt
Inbox == INSTANCE Inbox WITH MaxAttempts <- DeliveryAttempts, queue <- queued, pc <- workerAt,
                             cause <- whyFailed, receipts <- inboxReceipts,
                             effects <- handlerEffects

ASSUME DeliveryAssumption ==
  /\ PublishAttempts \in Nat \ {0} /\ BatchSize \in Nat \ {0} /\ Lease \in Nat \ {0}
  /\ Backoff \in [1 .. PublishAttempts - 1 -> Nat \ {0}]
  /\ NoToken \notin Tokens /\ NoMessage \notin Messages
  /\ DeliveryAttempts \in Nat \ {0} /\ MaxCopies \in Nat \ {0} /\ Jobs \subseteq Messages
  /\ TruePrint \in Prints /\ Unsupported \subseteq Prints /\ NoCopy \notin Inbox!Copies

DeliveringInit == Outbox!Init /\ Inbox!Init

-----------------------------------------------------------------------------
(* Steps of both.                                                          *)

(* The owner's transaction.                                                *)
Commit(m) ==
  /\ Outbox!AppendEvent(m)
  /\ IF m \in Jobs THEN Inbox!SubmitJob(m) ELSE UNCHANGED inboxVars

(* The broker stores a copy of the row's message and routes it to a queue. *)
Stores(m) == Inbox!Publish(m, TruePrint, 1)

(* The transport resolves only after the broker has stored the copy; when  *)
(* it rejects, the broker may have stored it as well.                      *)
Transports(p, m) ==
  \/ Outbox!PublishConfirmed(p, m) /\ Stores(m)
  \/ Outbox!PublishFailed(p, m) /\ m \in broker' /\ Stores(m)
  \/ Outbox!PublishFailed(p, m) /\ broker' = broker /\ UNCHANGED inboxVars

PublisherDies(p) ==
  /\ Outbox!Crash(p)
  /\ \/ broker' = broker /\ UNCHANGED inboxVars
     \/ \E m \in Outbox!Held(p) : publisherAt[p] = "publish" /\ broker' = broker \cup {m} /\ Stores(m)

-----------------------------------------------------------------------------
(* Steps of one.                                                           *)

Claims(p, m) == \E batch \in SUBSET Messages : m \in batch /\ Outbox!ClaimOutbox(p, batch)

OutboxNext ==
  /\ \/ \E p \in Senders, m \in Messages :
          \/ Claims(p, m)
          \/ Outbox!MarkPublished(p, m) \/ Outbox!MarkFailure(p, m)
          \/ Outbox!MarkRefused(p, m) \/ Outbox!MarkReplyLost(p, m)
     \/ Outbox!Tick
  /\ UNCHANGED inboxVars

InboxNext ==
  /\ \/ \E m \in Jobs : Inbox!CancelJob(m)
     \/ \E w \in Workers : \/ \E c \in Inbox!Copies : Inbox!Receive(w, c)
                           \/ Inbox!Work(w)
                           \/ \E why \in Inbox!Causes : Inbox!ConsumeFails(w, why)
                           \/ Inbox!Crash(w)
  /\ UNCHANGED outboxVars

DeliveringNext ==
  \/ \E m \in Messages : Commit(m)
  \/ \E p \in Senders, m \in Messages : Transports(p, m)
  \/ \E p \in Senders : PublisherDies(p)
  \/ OutboxNext
  \/ InboxNext

DeliveringSpec == DeliveringInit /\ [][DeliveringNext]_deliveringVars

-----------------------------------------------------------------------------
(* Properties.                                                             *)

(* From the owner's commit to the handler's: what the outbox has marked as *)
(* published is settled, or a copy of it is on its way, whoever has died   *)
(* since.                                                                  *)
PublishedIsNotLost ==
  \A m \in Messages : row[m].status = "published" => Inbox!Settled(m) \/ Inbox!Travelling(m)

(* However often a row is published, by whichever publishers, and its      *)
(* copies delivered: one effect, and none before the owner's commit.       *)
OneEffectOfACommit ==
  \A m \in Messages : handlerEffects[m] <= IF row[m].status = "absent" THEN 0 ELSE 1
=============================================================================
