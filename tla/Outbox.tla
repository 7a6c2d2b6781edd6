------------------------------- MODULE Outbox -------------------------------
(***************************************************************************)
(* The transactional outbox of packages/crm-modules/eventing-outbox: the   *)
(* table crm_eventing.outbox_messages (postgres-store.ts), the publisher   *)
(* loop that claims rows under a lease and publishes them with a broker    *)
(* confirm (publisher.ts), and the audited operator replay (operations.ts).*)
(* Several worker processes run a publisher each against one table; any of *)
(* them may stop between two of its steps.                                 *)
(***************************************************************************)
EXTENDS Integers, FiniteSets

CONSTANTS Messages,     \* message ids
          Publishers,   \* worker processes running the publisher loop
          Tokens,       \* claim tokens (randomUUID), told apart within a row
          NoToken,      \* claim_token is null
          NoMessage,    \* no record is being recorded
          MaxAttempts,  \* options.maxAttempts
          BatchSize,    \* options.batchSize
          Lease,        \* options.claimLeaseSeconds, in ticks
          Backoff       \* options.backoffSeconds, in ticks, per attempt

ASSUME AttemptsAssumption == MaxAttempts \in Nat \ {0}
ASSUME BatchAssumption == BatchSize \in Nat \ {0}
ASSUME LeaseAssumption == Lease \in Nat \ {0}
ASSUME BackoffAssumption == Backoff \in [1 .. MaxAttempts - 1 -> Nat \ {0}]

ASSUME NoneAssumption == NoToken \notin Tokens /\ NoMessage \notin Messages

VARIABLES
  row,      \* the table: per message status, attempt, token, dueIn, staleIn
  claim,    \* per publisher and message: the claimed record it has in memory
  current,  \* per publisher: the message whose outcome it is recording
  pc,       \* per publisher: what publishBatch does next
  broker,   \* history: messages of which the broker has stored a copy
  confirmed,\* history: messages whose confirm has reached a publisher
  intent    \* replays that are authorized and recorded in the audit log

vars == <<row, claim, current, pc, broker, confirmed, intent>>

Statuses == {"absent", "pending", "publishing", "published", "isolated"}
Steps == {"publish", "markPublished", "markFailure"}

(* attempt_count is only ever compared with maxAttempts, so it saturates   *)
(* there; available_at and claimed_at are the ticks left until the row is  *)
(* due and until its claim is stale, and stop at zero.                     *)
Rows == [status : Statuses, attempt : 0 .. MaxAttempts,
         token : Tokens \cup {NoToken}, dueIn : Nat, staleIn : Nat]
Claims == [token : Tokens \cup {NoToken}, attempt : 0 .. MaxAttempts]
NoClaim == [token |-> NoToken, attempt |-> 0]

TypeOK == /\ row \in [Messages -> Rows]
          /\ claim \in [Publishers -> [Messages -> Claims]]
          /\ current \in [Publishers -> Messages \cup {NoMessage}]
          /\ pc \in [Publishers -> Steps]
          /\ broker \subseteq Messages
          /\ confirmed \subseteq Messages
          /\ intent \subseteq Messages

Init == /\ row = [m \in Messages |-> [status |-> "absent", attempt |-> 0,
                    token |-> NoToken, dueIn |-> 0, staleIn |-> 0]]
        /\ claim = [p \in Publishers |-> [m \in Messages |-> NoClaim]]
        /\ current = [p \in Publishers |-> NoMessage]
        /\ pc = [p \in Publishers |-> "publish"]
        /\ broker = {}
        /\ confirmed = {}
        /\ intent = {}

-----------------------------------------------------------------------------
(* appendEvent / submitJob inside the owner's transaction: the row becomes *)
(* visible at the commit. A second append of the message id leaves the row *)
(* alone, so only the first is a step. A job may carry a later availableAt.*)
AppendEvent(m) ==
  /\ row[m].status = "absent"
  /\ \E delay \in 0 .. 1 :
       row' = [row EXCEPT ![m] = [@ EXCEPT !.status = "pending", !.dueIn = delay]]
  /\ UNCHANGED <<claim, current, pc, broker, confirmed, intent>>

(* Broken: only pending rows are selected, so a claim left behind by a dead*)
(* process is never taken over.                                            *)
ClaimablePending(m) == row[m].status = "pending" /\ row[m].dueIn = 0

(* Broken: whatever is due and not under a lease is selected.              *)
ClaimableByTime(m) ==
  row[m].status # "absent" /\ row[m].dueIn = 0 /\ row[m].staleIn = 0

Claimable(m) == \/ row[m].status = "pending" /\ row[m].dueIn = 0
                \/ row[m].status = "publishing" /\ row[m].staleIn = 0

Held(p) == {m \in Messages : claim[p][m].token # NoToken}

(* Broken: a claim token that is not fresh, such as a fixed worker name.   *)
NoUsedTokens(m) == {}

(* Tokens of m the store could still be shown, so not a fresh one.         *)
UsedTokens(m) == {row[m].token} \cup {claim[p][m].token : p \in Publishers}

NextAttempt(m) == IF row[m].attempt < MaxAttempts THEN row[m].attempt + 1
                                                  ELSE MaxAttempts

(* claimOutbox: one transaction takes at most BatchSize claimable rows and *)
(* gives each a fresh token. Which rows depends on the other claimers'     *)
(* locks (for update skip locked), and publishBatch then walks the records *)
(* in an order that no property is about: any set, any order.              *)
ClaimOutbox(p, batch) ==
  /\ pc[p] = "publish"
  /\ Held(p) = {}
  /\ Cardinality(batch) \in 1 .. BatchSize
  /\ \A m \in batch : Claimable(m)
  /\ \E token \in [batch -> Tokens] :
       /\ \A m \in batch : token[m] \notin UsedTokens(m)
       /\ row' = [m \in Messages |-> IF m \in batch
            THEN [row[m] EXCEPT !.status = "publishing", !.token = token[m],
                                !.attempt = NextAttempt(m), !.staleIn = Lease]
            ELSE row[m]]
       /\ claim' = [claim EXCEPT ![p] = [m \in Messages |-> IF m \in batch
            THEN [token |-> token[m], attempt |-> NextAttempt(m)]
            ELSE NoClaim]]
  /\ UNCHANGED <<current, pc, broker, confirmed, intent>>

(* Broken: an update that matches the status and forgets the token.        *)
LiveByStatus(p, m) == row[m].status = "publishing" /\ claim[p][m].token # NoToken

(* The claim a publisher has in memory is still the one in the table.      *)
Live(p, m) == /\ row[m].status = "publishing"
              /\ claim[p][m].token # NoToken
              /\ row[m].token = claim[p][m].token

(* transport.publish resolves: the broker has stored and routed the copy.  *)
PublishConfirmed(p, m) ==
  /\ pc[p] = "publish"
  /\ m \in Held(p)
  /\ broker' = broker \cup {m}
  /\ confirmed' = confirmed \cup {m}
  /\ current' = [current EXCEPT ![p] = m]
  /\ pc' = [pc EXCEPT ![p] = "markPublished"]
  /\ UNCHANGED <<row, claim, intent>>

(* Broken: a rejected publication is taken for a confirmed one.            *)
PublishFailureIgnored(p, m) ==
  /\ pc[p] = "publish"
  /\ m \in Held(p)
  /\ current' = [current EXCEPT ![p] = m]
  /\ pc' = [pc EXCEPT ![p] = "markPublished"]
  /\ UNCHANGED <<row, claim, broker, confirmed, intent>>

(* transport.publish rejects: a nack, a returned message, a lost channel. A*)
(* confirm lost on the way back leaves a copy with the broker all the same.*)
PublishFailed(p, m) ==
  /\ pc[p] = "publish"
  /\ m \in Held(p)
  /\ broker' \in {broker, broker \cup {m}}
  /\ current' = [current EXCEPT ![p] = m]
  /\ pc' = [pc EXCEPT ![p] = "markFailure"]
  /\ UNCHANGED <<row, claim, confirmed, intent>>

(* The batch's record of m is dealt with; publishBatch goes on to the next.*)
NextRecord(p, m) ==
  /\ claim' = [claim EXCEPT ![p][m] = NoClaim]
  /\ current' = [current EXCEPT ![p] = NoMessage]
  /\ pc' = [pc EXCEPT ![p] = "publish"]

(* Broken: a status the table's check constraint does not know.            *)
UnknownStatusRow(m) ==
  [row[m] EXCEPT !.status = "confirmed", !.token = NoToken, !.staleIn = 0]

(* What markOutboxPublished writes.                                        *)
PublishedRow(m) ==
  [row[m] EXCEPT !.status = "published", !.token = NoToken, !.staleIn = 0]

(* markOutboxPublished updates the one row whose status and token match.   *)
MarkPublished(p, m) ==
  /\ pc[p] = "markPublished"
  /\ current[p] = m
  /\ Live(p, m)
  /\ row' = [row EXCEPT ![m] = PublishedRow(m)]
  /\ NextRecord(p, m)
  /\ UNCHANGED <<broker, confirmed, intent>>

(* Broken: gives up before the last attempt.                               *)
ExhaustedEarly(p, m) == claim[p][m].attempt + 1 >= MaxAttempts

Exhausted(p, m) == claim[p][m].attempt >= MaxAttempts

(* What markOutboxFailure writes: back to pending after the attempt's      *)
(* backoff, or out of the queue when the attempts are used up.             *)
FailedRow(p, m) ==
  IF Exhausted(p, m)
  THEN [row[m] EXCEPT !.status = "isolated", !.token = NoToken,
                      !.dueIn = 0, !.staleIn = 0]
  ELSE [row[m] EXCEPT !.status = "pending", !.token = NoToken,
                      !.dueIn = Backoff[claim[p][m].attempt], !.staleIn = 0]

MarkFailure(p, m) ==
  /\ pc[p] = "markFailure"
  /\ current[p] = m
  /\ Live(p, m)
  /\ row' = [row EXCEPT ![m] = FailedRow(p, m)]
  /\ NextRecord(p, m)
  /\ UNCHANGED <<broker, confirmed, intent>>

(* publishBatch throws, which ends the worker process, or the process dies *)
(* on its own. The claims it held stay in the table until they are stale:  *)
(* the records not reached yet have spent an attempt without being sent. A *)
(* copy that was on the wire may have been stored, and an update whose     *)
(* reply was lost may have been applied.                                   *)
Abandon(p) ==
  /\ claim' = [claim EXCEPT ![p] = [m \in Messages |-> NoClaim]]
  /\ current' = [current EXCEPT ![p] = NoMessage]
  /\ pc' = [pc EXCEPT ![p] = "publish"]

Crash(p) ==
  /\ Held(p) # {}
  /\ \/ broker' = broker
     \/ pc[p] = "publish" /\ \E m \in Held(p) : broker' = broker \cup {m}
  /\ Abandon(p)
  /\ UNCHANGED <<row, confirmed, intent>>

(* The store answers false: another publisher has taken the row over.      *)
MarkRefused(p, m) ==
  /\ pc[p] \in {"markPublished", "markFailure"}
  /\ current[p] = m
  /\ ~Live(p, m)
  /\ Abandon(p)
  /\ UNCHANGED <<row, broker, confirmed, intent>>

(* The update is applied but its reply is lost, so publishBatch throws.    *)
MarkReplyLost(p, m) ==
  /\ pc[p] \in {"markPublished", "markFailure"}
  /\ current[p] = m
  /\ Live(p, m)
  /\ row' = [row EXCEPT ![m] = IF pc[p] = "markPublished" THEN PublishedRow(m)
                                                           ELSE FailedRow(p, m)]
  /\ Abandon(p)
  /\ UNCHANGED <<broker, confirmed, intent>>

(* replayOutbox (operations.ts): authorize, then record, whatever the row  *)
(* says. A denial or a failed record changes nothing and is not a step.    *)
AuthorizeReplay(m) ==
  /\ m \notin intent
  /\ intent' = intent \cup {m}
  /\ UNCHANGED <<row, claim, current, pc, broker, confirmed>>

(* Broken: the update does not look at the status.                         *)
ReplayAnyStatus(m) ==
  /\ m \in intent
  /\ intent' = intent \ {m}
  /\ row' = [row EXCEPT ![m] = [@ EXCEPT !.status = "pending", !.attempt = 0,
                                        !.dueIn = 0]]
  /\ UNCHANGED <<claim, current, pc, broker, confirmed>>

(* Only then the row, and only if it is still isolated; eventing_not_found *)
(* otherwise.                                                              *)
ReplayOutbox(m) ==
  /\ m \in intent
  /\ intent' = intent \ {m}
  /\ row' = IF row[m].status = "isolated"
            THEN [row EXCEPT ![m] = [@ EXCEPT !.status = "pending", !.attempt = 0,
                                              !.dueIn = 0]]
            ELSE row
  /\ UNCHANGED <<claim, current, pc, broker, confirmed>>

Down(n) == IF n > 0 THEN n - 1 ELSE 0

(* Time passes for every row at once.                                      *)
Tick ==
  /\ row' = [m \in Messages |-> [row[m] EXCEPT !.dueIn = Down(@), !.staleIn = Down(@)]]
  /\ row' # row
  /\ UNCHANGED <<claim, current, pc, broker, confirmed, intent>>

Mark(p, m) == MarkPublished(p, m) \/ MarkFailure(p, m)
Transport(p, m) == PublishConfirmed(p, m) \/ PublishFailed(p, m)
Claim(p) == \E batch \in SUBSET Messages : ClaimOutbox(p, batch)

Next ==
  \/ \E m \in Messages : AppendEvent(m) \/ AuthorizeReplay(m) \/ ReplayOutbox(m)
  \/ \E p \in Publishers : Claim(p) \/ Crash(p)
  \/ \E p \in Publishers, m \in Messages :
       \/ PublishConfirmed(p, m) \/ PublishFailed(p, m)
       \/ MarkPublished(p, m) \/ MarkFailure(p, m)
       \/ MarkRefused(p, m) \/ MarkReplyLost(p, m)
  \/ Tick

(***************************************************************************)
(* Fairness. The loop runs as long as a worker does, and a dead worker is  *)
(* restarted: a row that is claimable again and again is claimed (rows are *)
(* taken oldest available_at first, so no row is passed over for ever). The*)
(* lease is longer than a publication, so publishing within the lease is   *)
(* not prevented for ever, and storage does not refuse every update. No    *)
(* assumption is made on what the broker answers.                          *)
(***************************************************************************)
Fairness ==
  /\ WF_vars(Tick)
  /\ \A m \in Messages :
       /\ SF_vars(\E p \in Publishers, batch \in SUBSET Messages :
                    m \in batch /\ ClaimOutbox(p, batch))
       /\ SF_vars(\E p \in Publishers : Live(p, m) /\ Transport(p, m))
       /\ SF_vars(\E p \in Publishers : Mark(p, m))
  /\ \A p \in Publishers, m \in Messages :
       WF_vars(Transport(p, m) \/ Mark(p, m) \/ MarkRefused(p, m))

SafeSpec == Init /\ [][Next]_vars
Spec == SafeSpec /\ Fairness

-----------------------------------------------------------------------------
(* A row is recorded as published only if a publisher has the broker's     *)
(* confirm of it: across lost replies, crashes, failed publications, and   *)
(* claims taken over after the lease.                                      *)
PublishedIsConfirmed ==
  \A m \in Messages : row[m].status = "published" => m \in confirmed

(* However late a publisher wakes up, at most one can still record an      *)
(* outcome for a row: claim tokens fence off everyone whose lease ran out. *)
OneLiveClaim ==
  \A m \in Messages : \A p, q \in Publishers : Live(p, m) /\ Live(q, m) => p = q

(* A row is given up only with every attempt spent, also when the attempts *)
(* were spent by different publishers and the last one was a takeover.     *)
IsolatedIsExhausted ==
  \A m \in Messages : row[m].status = "isolated" => row[m].attempt = MaxAttempts

(* While the publisher that has the broker's confirm still owns the row,   *)
(* nothing puts it back in the queue or gives it up (publisher.ts: the     *)
(* claim is kept for stale-lease recovery).                                *)
ConfirmedIsNotFailed ==
  [][\A p \in Publishers, m \in Messages :
       Live(p, m) /\ current[p] = m /\ pc[p] = "markPublished"
         => row'[m].status \in {"publishing", "published"}]_vars

(* A finished row is touched by no late publisher: published is final and  *)
(* isolated is left only by a replay that was authorized and recorded.     *)
FinishedIsFinal ==
  [][\A m \in Messages :
       /\ row[m].status = "published" => row'[m].status = "published"
       /\ row[m].status = "isolated" /\ row'[m].status # "isolated"
            => row'[m].status = "pending" /\ m \in intent /\ m \notin intent']_vars

(* The abstract outbox: what the rows promise the module that appended.    *)
Fate(m) == CASE row[m].status = "absent" -> "absent"
             [] row[m].status \in {"pending", "publishing"} -> "owed"
             [] row[m].status = "published" -> "done"
             [] row[m].status = "isolated" -> "parked"

Contract == INSTANCE OutboxContract
              WITH fate <- [m \in Messages |-> Fate(m)], delivered <- broker

(* Every step of the table and its publishers is a step of the contract.   *)
ImplementsContract == Contract!SafeSpec

(* A committed message does not stay owed: whatever the broker answers and *)
(* however often publishers die, it is published or isolated in the end.   *)
CommittedIsSettled ==
  \A m \in Messages : row[m].status \in {"pending", "publishing"}
                        ~> row[m].status \in {"published", "isolated"}

(* What publisher.ts says of a confirmed message: the transport failure    *)
(* policy no longer applies to it; isolating it would falsely describe its *)
(* delivery.                                                               *)
ConfirmedIsNotIsolated ==
  \A m \in Messages : row[m].status = "isolated" => m \notin confirmed
=============================================================================
