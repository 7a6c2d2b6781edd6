-------------------------- MODULE AuditedOperations --------------------------
(***************************************************************************)
(* An operation of the notification centre or the task centre as the API   *)
(* composes it: the grants of the person are listed, the decision is       *)
(* recorded, the attempt is audited, the work is done and its outcome      *)
(* audited under the trace that was kept for the decision. Any statement   *)
(* may fail, or succeed and its answer be lost; a role is granted and      *)
(* revoked meanwhile, in transactions that hold the account.               *)
(***************************************************************************)
EXTENDS Naturals

CONSTANTS OperationIds,     \* operations that are asked for
          OperationKinds,   \* bound: which of AuditedKinds together
          MaxOperationTime  \* bound: ticks of the clock

(* A detail, another query, a change, a task by its key, and the list of   *)
(* tasks with the tasks that it contains: all of those are of one list.    *)
AuditedKinds == {"detail", "query", "change", "task", "list", "item"}

ASSUME AuditedOperationsAssumption ==
  /\ MaxOperationTime \in Nat
  /\ OperationKinds \subseteq [OperationIds -> AuditedKinds]
  /\ \A kinds \in OperationKinds, r, q \in OperationIds :
       kinds[r] = "list" /\ kinds[q] = "list" => r = q

VARIABLES
  operationTime,   \* the clock
  roleRows,        \* fixed_role_grants of the role that covers the operations
  granting,        \* the transaction that grants or revokes, and when it began
  kindOf,          \* which operation each one is
  progress,        \* per operation: where it is
  evaluatedAt,     \* the time its grants are listed for
  decidedAllowed,  \* operations that were allowed
  decisionRows,    \* decision_records
  auditRows,       \* audit.records: operation and phase
  decisionTraces,  \* queryDecisionTraces
  worked,          \* history: operations whose change was made
  heldRole,        \* history: operations during which the role was held
  lookupLost       \* history: operations whose task could not be looked up

operationVars == <<operationTime, roleRows, granting, kindOf, progress, evaluatedAt,
                   decidedAllowed, decisionRows, auditRows, decisionTraces, worked, heldRole,
                   lookupLost>>

RoleTimes == 0 .. MaxOperationTime
NotRevoked == MaxOperationTime + 1
NoGranting == [kind |-> "none", at |-> 0]
Answered == {"ok", "denied", "failed"}

OperationsTypeOK ==
  /\ operationTime \in RoleTimes
  /\ roleRows \subseteq [from : RoleTimes, until : 0 .. NotRevoked]
  /\ granting \in [kind : {"none", "grant", "revoke"}, at : RoleTimes]
  /\ kindOf \in OperationKinds
  /\ progress \in [OperationIds ->
                     {"waits", "asked", "lists", "records", "looks", "audits", "works", "items",
                      "finishes", "fails"} \cup Answered]
  /\ evaluatedAt \in [OperationIds -> RoleTimes]
  /\ decisionRows \in [OperationIds -> {"none", "allowed", "denied"}]
  /\ auditRows \subseteq OperationIds \X {"attempted", "succeeded", "failed"}
  /\ decisionTraces \cup decidedAllowed \cup worked \cup heldRole \cup lookupLost
       \subseteq OperationIds

OperationsInit ==
  /\ operationTime = 0 /\ roleRows = {[from |-> 0, until |-> NotRevoked]} /\ granting = NoGranting
  /\ kindOf \in OperationKinds
  /\ progress = [r \in OperationIds |-> "waits"]
  /\ evaluatedAt = [r \in OperationIds |-> 0]
  /\ decisionRows = [r \in OperationIds |-> "none"]
  /\ auditRows = {} /\ decidedAllowed = {} /\ decisionTraces = {}
  /\ worked = {} /\ heldRole = {} /\ lookupLost = {}

Stands(r, step) == progress[r] = step
Proceeds(r, step) == progress' = [progress EXCEPT ![r] = step]

roleVars == <<operationTime, roleRows, granting>>
recordVars == <<decisionRows, auditRows, decisionTraces>>
historyVars == <<worked, heldRole, lookupLost>>

-----------------------------------------------------------------------------
(* The role and the clock.                                                 *)

ClockTicks ==
  /\ operationTime < MaxOperationTime
  /\ operationTime' = operationTime + 1
  /\ UNCHANGED <<roleRows, granting, kindOf, progress, evaluatedAt, decidedAllowed, recordVars,
                 historyVars>>

ActiveRows == {row \in roleRows : row.until = NotRevoked}

(* The transaction reads the clock, and does nothing if nothing is to do.  *)
BeginGranting(kind) ==
  /\ granting = NoGranting
  /\ (kind = "grant") = (ActiveRows = {})
  /\ granting' = [kind |-> kind, at |-> operationTime]
  /\ UNCHANGED <<operationTime, roleRows, kindOf, progress, evaluatedAt, decidedAllowed, recordVars,
                 historyVars>>

CommitGranting ==
  /\ granting # NoGranting
  /\ granting' = NoGranting
  /\ IF granting.kind = "grant"
       THEN /\ roleRows' = roleRows \cup {[from |-> granting.at, until |-> NotRevoked]}
            /\ heldRole' = heldRole \cup {r \in OperationIds : progress[r] # "waits"}
       ELSE /\ roleRows' = (roleRows \ ActiveRows)
                             \cup {[row EXCEPT !.until = granting.at] : row \in ActiveRows}
            /\ UNCHANGED heldRole
  /\ UNCHANGED <<operationTime, kindOf, progress, evaluatedAt, decidedAllowed, recordVars, worked,
                 lookupLost>>

-----------------------------------------------------------------------------
(* The decision.                                                           *)

SetsOut(rs) ==
  /\ progress' = [r \in OperationIds |-> IF r \in rs THEN "asked" ELSE progress[r]]
  /\ heldRole' = IF ActiveRows = {} THEN heldRole ELSE heldRole \cup rs

AskOperation(r) ==
  /\ Stands(r, "waits") /\ kindOf[r] # "item"
  /\ SetsOut({r})
  /\ UNCHANGED <<roleVars, kindOf, evaluatedAt, decidedAllowed, recordVars, worked, lookupLost>>

ReadClock(r) ==
  /\ Stands(r, "asked")
  /\ Proceeds(r, "lists")
  /\ evaluatedAt' = [evaluatedAt EXCEPT ![r] = operationTime]
  /\ UNCHANGED <<roleVars, kindOf, decidedAllowed, recordVars, historyVars>>

(* Until it is revoked, and not in that instant any more.                  *)
Covers(row, at) == row.from <= at /\ at < row.until

ListActive(r) ==
  /\ Stands(r, "lists")
  /\ Proceeds(r, "records")
  /\ decidedAllowed' = IF \E row \in roleRows : Covers(row, evaluatedAt[r])
                         THEN decidedAllowed \cup {r} ELSE decidedAllowed
  /\ UNCHANGED <<roleVars, kindOf, evaluatedAt, recordVars, historyVars>>

Decision(r) == IF r \in decidedAllowed THEN "allowed" ELSE "denied"
LooksUp(r) == kindOf[r] \in {"task", "item"} /\ r \in decidedAllowed

(* The record is inserted before anything is allowed.                      *)
RecordDecision(r) ==
  /\ Stands(r, "records")
  /\ decisionRows' = [decisionRows EXCEPT ![r] = Decision(r)]
  /\ decisionTraces' = decisionTraces \cup {r}
  /\ Proceeds(r, IF LooksUp(r) THEN "looks" ELSE "audits")
  /\ UNCHANGED <<roleVars, kindOf, evaluatedAt, decidedAllowed, auditRows, historyVars>>

(* The grants are not read, or the record not written as far as one knows. *)
DecisionFails(r) ==
  /\ progress[r] \in {"lists", "records"}
  /\ Proceeds(r, "failed")
  /\ \/ UNCHANGED decisionRows
     \/ /\ Stands(r, "records")
        /\ decisionRows' = [decisionRows EXCEPT ![r] = Decision(r)]
  /\ UNCHANGED <<roleVars, kindOf, evaluatedAt, decidedAllowed, auditRows, decisionTraces,
                 historyVars>>

(* A task is allowed only to whom it is assigned.                          *)
LookUpTask(r) ==
  /\ Stands(r, "looks")
  /\ Proceeds(r, "audits")
  /\ decidedAllowed' \in {decidedAllowed, decidedAllowed \ {r}}
  /\ UNCHANGED <<roleVars, kindOf, evaluatedAt, recordVars, historyVars>>

(* The trace that was kept for the decision stays where it is.             *)
LookUpFails(r) ==
  /\ Stands(r, "looks")
  /\ Proceeds(r, "failed")
  /\ lookupLost' = lookupLost \cup {r}
  /\ UNCHANGED <<roleVars, kindOf, evaluatedAt, decidedAllowed, recordVars, worked, heldRole>>

-----------------------------------------------------------------------------
(* The audit and the work.                                                 *)

(* The trace is dropped by the record that ends the operation, and by one  *)
(* that fails, whether or not it was written. Without it none is written.  *)
Audit(r, phase, next, otherwise) ==
  IF r \notin decisionTraces
    THEN Proceeds(r, otherwise) /\ UNCHANGED <<auditRows, decisionTraces>>
    ELSE \E written, told \in BOOLEAN :
           /\ told => written
           /\ auditRows' = IF written THEN auditRows \cup {<<r, phase>>} ELSE auditRows
           /\ decisionTraces' = IF told /\ phase = "attempted" THEN decisionTraces
                                                               ELSE decisionTraces \ {r}
           /\ Proceeds(r, IF told THEN next ELSE otherwise)

AuditDecision(r) ==
  /\ Stands(r, "audits")
  /\ IF r \in decidedAllowed
       THEN Audit(r, "attempted", IF kindOf[r] = "item" THEN "finishes" ELSE "works", "failed")
       ELSE Audit(r, "failed", "denied", "failed")
  /\ UNCHANGED <<roleVars, kindOf, evaluatedAt, decidedAllowed, decisionRows, historyVars>>

(* What is asked for is read.                                              *)
ReadIt(r) ==
  /\ Stands(r, "works") /\ kindOf[r] \in {"detail", "query", "task"}
  /\ Proceeds(r, "finishes")
  /\ UNCHANGED <<roleVars, kindOf, evaluatedAt, decidedAllowed, recordVars, historyVars>>

(* Or changed, in a transaction of the owner.                              *)
ChangeIt(r) ==
  /\ Stands(r, "works") /\ kindOf[r] = "change"
  /\ Proceeds(r, "finishes")
  /\ worked' = worked \cup {r}
  /\ UNCHANGED <<roleVars, kindOf, evaluatedAt, decidedAllowed, recordVars, heldRole, lookupLost>>

(* It is refused, not found or fails; a change may have been made.         *)
WorkFails(r) ==
  /\ Stands(r, "works")
  /\ Proceeds(r, "fails")
  /\ worked' \in {worked, IF kindOf[r] = "change" THEN worked \cup {r} ELSE worked}
  /\ UNCHANGED <<roleVars, kindOf, evaluatedAt, decidedAllowed, recordVars, heldRole, lookupLost>>

(* The tasks of the page are operations of their own.                      *)
ItemsOf(r) == {i \in OperationIds : kindOf[r] = "list" /\ kindOf[i] = "item"}

ListPage(r) ==
  /\ Stands(r, "works") /\ kindOf[r] = "list"
  /\ progress' = [i \in OperationIds |-> CASE i = r -> "items"
                                           [] i \in ItemsOf(r) -> "asked"
                                           [] OTHER -> progress[i]]
  /\ heldRole' = IF ActiveRows = {} THEN heldRole ELSE heldRole \cup ItemsOf(r)
  /\ UNCHANGED <<roleVars, kindOf, evaluatedAt, decidedAllowed, recordVars, worked, lookupLost>>

(* Those that are denied are left out, and any other failure ends the list.*)
PageIsChecked(r) ==
  /\ Stands(r, "items")
  /\ \A i \in ItemsOf(r) : progress[i] \in Answered
  /\ Proceeds(r, IF \E i \in ItemsOf(r) : progress[i] = "failed" THEN "fails" ELSE "finishes")
  /\ UNCHANGED <<roleVars, kindOf, evaluatedAt, decidedAllowed, recordVars, historyVars>>

FinishAudited(r) ==
  /\ Stands(r, "finishes")
  /\ Audit(r, "succeeded", "ok", IF kindOf[r] \in {"detail", "item"} THEN "failed" ELSE "fails")
  /\ UNCHANGED <<roleVars, kindOf, evaluatedAt, decidedAllowed, decisionRows, historyVars>>

FinishFailing(r) ==
  /\ Stands(r, "fails")
  /\ Audit(r, "failed", "failed", "failed")
  /\ UNCHANGED <<roleVars, kindOf, evaluatedAt, decidedAllowed, decisionRows, historyVars>>

(* The platform is closed under the operations that are still under way.   *)
ForgetTraces ==
  /\ decisionTraces # {}
  /\ decisionTraces' = {}
  /\ UNCHANGED <<roleVars, kindOf, progress, evaluatedAt, decidedAllowed, decisionRows, auditRows,
                 historyVars>>

OperationsNext ==
  \/ ClockTicks \/ CommitGranting \/ ForgetTraces
  \/ \E kind \in {"grant", "revoke"} : BeginGranting(kind)
  \/ \E r \in OperationIds :
       \/ AskOperation(r) \/ ReadClock(r) \/ ListActive(r) \/ RecordDecision(r) \/ DecisionFails(r)
       \/ LookUpTask(r) \/ LookUpFails(r)
       \/ AuditDecision(r) \/ ReadIt(r) \/ ChangeIt(r) \/ WorkFails(r)
       \/ ListPage(r) \/ PageIsChecked(r)
       \/ FinishAudited(r) \/ FinishFailing(r)

OperationsSpec == OperationsInit /\ [][OperationsNext]_operationVars

-----------------------------------------------------------------------------
(* Properties.                                                             *)

(* What is answered or changed is on record: nothing is changed or shown   *)
(* that was not decided and audited before, and a denial is told only when *)
(* it was recorded.                                                        *)
AnswersAreOnRecord ==
  \A r \in OperationIds :
    /\ progress[r] = "ok" => {<<r, "attempted">>, <<r, "succeeded">>} \subseteq auditRows
    /\ progress[r] = "ok" \/ r \in worked =>
         decisionRows[r] = "allowed" /\ <<r, "attempted">> \in auditRows
    /\ progress[r] = "denied" => decisionRows[r] # "none" /\ <<r, "failed">> \in auditRows

(* The audit never says of an operation both that it succeeded and failed, *)
(* although a failing record is followed by an attempt to record a failure.*)
OneOutcome == \A r \in OperationIds : ~({<<r, "succeeded">>, <<r, "failed">>} \subseteq auditRows)

(* Who is allowed something held the role at some time since he asked: a   *)
(* revocation that was committed before counts, even in the same instant.  *)
RevokedIsDenied == \A r \in OperationIds : decisionRows[r] = "allowed" => r \in heldRole

(* A trace is kept for as long as its operation, unless the task could not *)
(* be looked up.                                                           *)
TracesAreOwned == \A r \in decisionTraces : progress[r] \notin Answered \/ r \in lookupLost
=============================================================================
