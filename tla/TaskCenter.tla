----------------------------- MODULE TaskCenter -----------------------------
(***************************************************************************)
(* packages/crm-modules/task-center for one task of a source system. The   *)
(* projection of the task is written by lifecycle events (apply) and by    *)
(* reconciliation; completing the task is a command under an idempotency   *)
(* key, routed to the source by whoever holds the lease of the key's row.  *)
(* The source system is external: it owns the facts, emits an event with   *)
(* each new version and honours the idempotency key.                       *)
(***************************************************************************)
EXTENDS Naturals, Sequences

CONSTANTS Completers,     \* requests that complete the task at the same time
          Principals,  \* who asks; the fingerprint of a command tells them apart
          Nobody,      \* no caller, and no principal
          MaxVersion,  \* bound: the versions of the source's facts
          Unassigned   \* the versions in which nobody is assigned

ASSUME VersionsAssumption == MaxVersion \in Nat \ {0, 1}
ASSUME NobodyAssumption == Nobody \notin Completers \cup Principals

VARIABLES
  source,      \* the source's facts: the status in each version
  executed,    \* the principal for whom the source executed the key's command
  projection,  \* task_projections; version 0 is no row
  processed,    \* projection_events: versions whose event was processed
  announced,   \* versions with a projection-changed event in the outbox
  reading,     \* the version a reconciliation has read from the source, or 0
  command,     \* task_commands: the row of the idempotency key
  pc,          \* per caller: what complete does next
  principal,   \* per caller: on whose behalf
  answers      \* principals who were told that their command was accepted

facts == <<source, executed>>
task == <<projection, processed, announced>>
completion == <<pc, principal>>
taskVars == <<source, executed, projection, processed, announced, reading,
          command, pc, principal, answers>>

Versions == 1 .. MaxVersion
Statuses == {"open", "completed", "cancelled"}
Locations == {"idle", "claim", "existing", "route", "accept", "release"}
NoCommand == [status |-> "absent", principal |-> Nobody, owner |-> Nobody, expired |-> FALSE]

TaskTypeOK ==
  /\ source \in Seq(Statuses) /\ Len(source) \in Versions
  /\ executed \in Principals \cup {Nobody}
  /\ projection \in [version : 0 .. MaxVersion, status : Statuses, title : {"default", "display"}]
  /\ processed \subseteq Versions
  /\ announced \subseteq Versions
  /\ reading \in 0 .. MaxVersion
  /\ command \in [status : {"absent", "running", "accepted"}, principal : Principals \cup {Nobody},
                  owner : Completers \cup {Nobody}, expired : BOOLEAN]
  /\ pc \in [Completers -> Locations]
  /\ principal \in [Completers -> Principals \cup {Nobody}]
  /\ answers \subseteq Principals
  /\ command.status # "running" => command.owner = Nobody /\ ~command.expired

TaskInit ==
  /\ source = <<"open">>
  /\ executed = Nobody
  /\ projection = [version |-> 0, status |-> "open", title |-> "default"]
  /\ processed = {}
  /\ announced = {}
  /\ reading = 0
  /\ command = NoCommand
  /\ pc = [c \in Completers |-> "idle"]
  /\ principal = [c \in Completers |-> Nobody]
  /\ answers = {}

Current == Len(source)
Open == source[Current] = "open"

-----------------------------------------------------------------------------
(* The source system.                                                      *)

(* The last version is kept for the end of the task.                       *)
SourceMoves(s) ==
  /\ Open
  /\ Current < (IF s = "open" THEN MaxVersion - 1 ELSE MaxVersion)
  /\ source' = Append(source, s)
  /\ UNCHANGED <<executed, task, reading, command, completion, answers>>

-----------------------------------------------------------------------------
(* The projection. The advisory lock on the task makes each of the store's *)
(* transactions one step.                                                  *)

Facts(v, title) == [version |-> v, status |-> source[v], title |-> title]

(* Broken: the message id is derived from the task alone.                  *)
AnnounceableOnce(v) == v \in Unassigned \/ announced = {}

(* The outbox message id is derived from the task and the version. Once a  *)
(* statement has failed, the transaction cannot commit.                    *)
Announceable(v) == v \in Unassigned \/ v \notin announced

(* Broken: a version is shown and not announced.                           *)
NothingAnnounced(v) == announced

Announced(v) == announced \cup ({v} \ Unassigned)

(* The event of a version may arrive at any time after it, more than once, *)
(* or never; it changes nothing when it has a receipt.                     *)
Arrives(v) == v \in 1 .. Current /\ v \notin processed

(* The events that the worker consumes carry no display texts.             *)
ApplyEvent(v) ==
  /\ Arrives(v)
  /\ v > projection.version
  /\ Announceable(v)
  /\ projection' = Facts(v, "default")
  /\ processed' = processed \cup {v}
  /\ announced' = Announced(v)
  /\ UNCHANGED <<facts, reading, command, completion, answers>>

ApplyStale(v) ==
  /\ Arrives(v)
  /\ v <= projection.version
  /\ processed' = processed \cup {v}
  /\ UNCHANGED <<facts, projection, announced, reading, command, completion, answers>>

(* reconcile, first half: the service reads the source.                    *)
ReadSource ==
  /\ reading = 0
  /\ reading' = Current
  /\ UNCHANGED <<facts, task, command, completion, answers>>

(* Broken: what was read is stored without looking at the version.         *)
NeverOutdated == FALSE

Outdated == reading < projection.version
Unchanged == projection = Facts(reading, "display")

(* Second half: the store compares what was read with the projection.      *)
Reconcile ==
  /\ reading # 0
  /\ ~Outdated /\ ~Unchanged
  /\ Announceable(reading)
  /\ projection' = Facts(reading, "display")
  /\ announced' = Announced(reading)
  /\ reading' = 0
  /\ UNCHANGED <<facts, processed, command, completion, answers>>

(* Nothing to repair, or the reconciliation failed at any of its steps: the*)
(* transaction rolls back and the worker that ran it goes down.            *)
ReconcileEnds ==
  /\ reading # 0
  /\ reading' = 0
  /\ UNCHANGED <<facts, task, command, completion, answers>>

-----------------------------------------------------------------------------
(* complete.                                                               *)

GoesTo(c, l) == pc' = [pc EXCEPT ![c] = l]
Idle(c) == GoesTo(c, "idle") /\ principal' = [principal EXCEPT ![c] = Nobody]
Owns(c) == command.status = "running" /\ command.owner = c

Call(c, p) ==
  /\ pc[c] = "idle"
  /\ GoesTo(c, "claim")
  /\ principal' = [principal EXCEPT ![c] = p]
  /\ UNCHANGED <<facts, task, reading, command, answers>>

(* Broken: an expired lease of another principal is taken; none ever is.   *)
MayTakeOverAny(c) == command.status = "running" /\ command.expired
NoTakeOver(c) == FALSE

(* The conflict clause of claimCommand.                                    *)
MayTakeOver(c) == /\ command.status = "running"
                  /\ command.principal = principal[c]
                  /\ command.expired

Claim(c) ==
  /\ pc[c] = "claim"
  /\ command.status = "absent"
  /\ command' = [status |-> "running", principal |-> principal[c],
                 owner |-> c, expired |-> FALSE]
  /\ GoesTo(c, "route")
  /\ UNCHANGED <<facts, task, reading, principal, answers>>

(* A row that is taken over keeps the fingerprint it was inserted with.    *)
TakeOver(c) ==
  /\ pc[c] = "claim"
  /\ MayTakeOver(c)
  /\ command' = [command EXCEPT !.owner = c, !.expired = FALSE]
  /\ GoesTo(c, "route")
  /\ UNCHANGED <<facts, task, reading, principal, answers>>

ClaimRefused(c) ==
  /\ pc[c] = "claim"
  /\ command.status # "absent" /\ ~MayTakeOver(c)
  /\ GoesTo(c, "existing")
  /\ UNCHANGED <<facts, task, reading, command, principal, answers>>

(* The caller is answered, unless writing the audit record fails.          *)
Answer(c) == answers' \in {answers, answers \cup {principal[c]}}

(* The second statement of claimCommand, which may see another row by now. *)
ReadAccepted(c) ==
  /\ pc[c] = "existing"
  /\ command.status = "accepted" /\ command.principal = principal[c]
  /\ Answer(c)
  /\ Idle(c)
  /\ UNCHANGED <<facts, task, reading, command>>

(* Conflict, still running, or the row is gone: an error for the caller.   *)
ReadOther(c) ==
  /\ pc[c] = "existing"
  /\ ~(command.status = "accepted" /\ command.principal = principal[c])
  /\ Idle(c)
  /\ UNCHANGED <<facts, task, reading, command, answers>>

(* The source executes the first call for the key on an open task, and     *)
(* gives later calls for the key the same answer.                          *)
SourceExecutes(c) ==
  \/ /\ executed = Nobody /\ Open
     /\ executed' = principal[c]
     /\ source' = Append(source, "completed")
  \/ executed # Nobody /\ UNCHANGED facts

RouteAccepted(c) ==
  /\ pc[c] = "route"
  /\ SourceExecutes(c)
  /\ GoesTo(c, "accept")
  /\ UNCHANGED <<task, reading, command, principal, answers>>

(* The source refuses, cannot be reached, or its answer is lost.           *)
RouteFails(c) ==
  /\ pc[c] = "route"
  /\ SourceExecutes(c) \/ UNCHANGED facts
  /\ GoesTo(c, "release")
  /\ UNCHANGED <<task, reading, command, principal, answers>>

(* Broken: the lease stays on the accepted row; the task is closed as well.*)
AcceptKeepsLease(c) ==
  /\ pc[c] = "accept"
  /\ Owns(c)
  /\ command' = [command EXCEPT !.status = "accepted"]
  /\ Answer(c)
  /\ Idle(c)
  /\ UNCHANGED <<facts, task, reading>>

AcceptAndClose(c) ==
  /\ pc[c] = "accept"
  /\ Owns(c)
  /\ command' = [command EXCEPT !.status = "accepted", !.owner = Nobody, !.expired = FALSE]
  /\ projection' = [projection EXCEPT !.status = "completed"]
  /\ Answer(c)
  /\ Idle(c)
  /\ UNCHANGED <<facts, processed, announced, reading>>

Accept(c) ==
  /\ pc[c] = "accept"
  /\ Owns(c)
  /\ command' = [command EXCEPT !.status = "accepted", !.owner = Nobody, !.expired = FALSE]
  /\ Answer(c)
  /\ Idle(c)
  /\ UNCHANGED <<facts, task, reading>>

AcceptRefused(c) ==
  /\ pc[c] = "accept"
  /\ ~Owns(c)
  /\ Idle(c)
  /\ UNCHANGED <<facts, task, reading, command, answers>>

Release(c) ==
  /\ pc[c] = "release"
  /\ command' = IF Owns(c) THEN NoCommand ELSE command
  /\ Idle(c)
  /\ UNCHANGED <<facts, task, reading, answers>>

(* The caller dies, or the database fails it. Its token is never used      *)
(* again, and its row stays until the lease expires.                       *)
CompleterDies(c) ==
  /\ pc[c] # "idle"
  /\ command' = [command EXCEPT !.owner = IF @ = c THEN Nobody ELSE @]
  /\ Idle(c)
  /\ UNCHANGED <<facts, task, reading, answers>>

(* By the clock of whoever looks next; the owner need not have noticed.    *)
LeaseExpires ==
  /\ command.status = "running" /\ ~command.expired
  /\ command' = [command EXCEPT !.expired = TRUE]
  /\ UNCHANGED <<facts, task, reading, completion, answers>>

TaskNext ==
  \/ \E s \in Statuses : SourceMoves(s)
  \/ \E v \in Versions : ApplyEvent(v) \/ ApplyStale(v)
  \/ ReadSource \/ Reconcile \/ ReconcileEnds
  \/ \E c \in Completers :
       \/ \E p \in Principals : Call(c, p)
       \/ Claim(c) \/ TakeOver(c) \/ ClaimRefused(c) \/ ReadAccepted(c) \/ ReadOther(c)
       \/ RouteAccepted(c) \/ RouteFails(c) \/ Accept(c) \/ AcceptRefused(c)
       \/ Release(c) \/ CompleterDies(c)
  \/ LeaseExpires

TaskSafeSpec == TaskInit /\ [][TaskNext]_taskVars

(***************************************************************************)
(* Fairness. The reconciliation loop goes on, and neither the source nor   *)
(* the database fails it for ever. Requests end; some request for a command*)
(* that was left running is made again, with the same key, and is not for  *)
(* ever killed before its claim. A lease that is not renewed expires, and  *)
(* the code never renews one. Events have no fairness: each may be lost.   *)
(***************************************************************************)
Completes(c) == \/ Claim(c) \/ TakeOver(c) \/ ClaimRefused(c) \/ ReadAccepted(c) \/ ReadOther(c)
                \/ RouteAccepted(c) \/ RouteFails(c)
                \/ Accept(c) \/ AcceptRefused(c) \/ Release(c)
Again(c) == command.principal \in Principals /\ Call(c, command.principal)

TaskFairness ==
  /\ WF_taskVars(ReadSource) /\ WF_taskVars(ReconcileEnds) /\ SF_taskVars(Reconcile)
  /\ WF_taskVars(LeaseExpires)
  /\ WF_taskVars(\E c \in Completers : Completes(c))
  /\ SF_taskVars(\E c \in Completers : Again(c)) /\ SF_taskVars(\E c \in Completers : TakeOver(c))

TaskSpec == TaskSafeSpec /\ TaskFairness

-----------------------------------------------------------------------------
(* The projection shows what the source said in some version: a command    *)
(* that was accepted does not close the task, only the source's facts do.  *)
ProjectionIsPastFact ==
  projection.version > 0 =>
    /\ projection.version <= Current
    /\ projection.status = source[projection.version]

(* Duplicated, reordered and repeated events, and a reconciliation that    *)
(* stores what it read before they came, never show an older version, nor  *)
(* take the display texts back from the version they belong to.            *)
NeverBackwards ==
  [][/\ projection'.version >= projection.version
     /\ projection'.version = projection.version /\ projection.title = "display"
          => projection' = projection]_projection

(* The outbox has a change event for the version that is shown, if that is *)
(* assigned to somebody, and none for a version that was not reached.      *)
ShownIsAnnounced ==
  /\ projection.version \notin Unassigned \cup {0} => projection.version \in announced
  /\ \A v \in announced : v <= projection.version

(* Whoever was told that the command is accepted is the principal of the   *)
(* recorded command, and the source did execute the key's command: takeover*)
(* and late answers of former owners do not lead to another answer.        *)
AnswersAreRecorded ==
  answers # {} => /\ command.status = "accepted"
                  /\ answers = {command.principal}
                  /\ executed # Nobody

(* A version that the source has reached is shown in the end, it or a later*)
(* one, whichever events are lost.                                         *)
CatchesUp == \A v \in Versions : Current >= v ~> projection.version >= v

(* A command whose owner has died does not block its key for ever.         *)
Orphaned == command.status = "running" /\ command.owner = Nobody
DeadOwnerIsReplaced == Orphaned ~> ~Orphaned
=============================================================================
