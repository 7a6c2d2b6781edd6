--------------------------- MODULE Administration ---------------------------
(***************************************************************************)
(* apps/api/src/workforce-administration: commands on accounts, each under *)
(* an operation id, in one transaction with the row of the operation. The  *)
(* transactions are read committed; an uncommitted row or an advisory lock *)
(* makes who needs it wait. The module follows the commands that write the *)
(* account's row: deactivate, reactivate and reset_password.               *)
(***************************************************************************)
EXTENDS Naturals, FiniteSets

CONSTANTS Accounts,
          Administrators,  \* the accounts of the system administrators
          Administering,   \* requests being handled at the same time
          Operations,      \* operation ids
          Commands,        \* commands: kind, actor and target
          MaxAccountRev    \* bound: the revisions an account goes through

ASSUME AdministrationAssumption ==
  /\ MaxAccountRev \in Nat \ {0}
  /\ Commands \subseteq [kind : {"deactivate", "reactivate", "reset"},
                          actor : Accounts, target : Accounts]
  /\ Administrators \subseteq Accounts /\ Administrators # {}
  /\ IsFiniteSet(Administrators)

VARIABLES
  accounts,    \* workforce_access.accounts: status and revision
  operations,  \* workforce_access.operations, committed: status and fingerprint
  claimed,     \* operation ids inserted by transactions that have not committed
  locked,      \* the requests that hold the lock of the administrator set
  stage,       \* per request: what it does next
  work,        \* per request: its operation id, command and what it has read
  applied,     \* per operation: how often its effect was committed
  told         \* operations and commands whose caller was told they succeeded

adminVars == <<accounts, operations, claimed, locked, stage, work, applied, told>>

Absent == [status |-> "absent"]
Rows == [status : {"succeeded", "failed"}, command : Commands]
Work == [op : Operations, command : Commands, seen : 0 .. MaxAccountRev]
NoWork == [op |-> "none"]
Stages == {"idle", "claim", "read", "lock", "count", "apply", "record"}

AdministrationTypeOK ==
  /\ accounts \in [Accounts -> [status : {"active", "disabled"}, revision : 1 .. MaxAccountRev]]
  /\ operations \in [Operations -> Rows \cup {Absent}]
  /\ claimed \subseteq Operations
  /\ locked \subseteq Administering
  /\ stage \in [Administering -> Stages]
  /\ work \in [Administering -> Work \cup {NoWork}]
  /\ applied \in [Operations -> Nat]
  /\ told \subseteq (Operations \X Commands)

AdministrationInit ==
  /\ accounts = [a \in Accounts |-> [status |-> "active", revision |-> 1]]
  /\ operations = [o \in Operations |-> Absent]
  /\ claimed = {} /\ locked = {}
  /\ stage = [r \in Administering |-> "idle"]
  /\ work = [r \in Administering |-> NoWork]
  /\ applied = [o \in Operations |-> 0]
  /\ told = {}

Becomes(r, s) == stage' = [stage EXCEPT ![r] = s]
Finish(r) == Becomes(r, "idle") /\ work' = [work EXCEPT ![r] = NoWork]
Op(r) == work[r].op
Command(r) == work[r].command
Target(r) == accounts[Command(r).target]
Row(r) == operations[Op(r)]

-----------------------------------------------------------------------------
(* The durable operation.                                                  *)

(* The principal of a request is an active account.                        *)
Submit(r, o, c) ==
  /\ stage[r] = "idle"
  /\ accounts[c.actor].status = "active"
  /\ work' = [work EXCEPT ![r] = [op |-> o, command |-> c, seen |-> 0]]
  /\ Becomes(r, "claim")
  /\ UNCHANGED <<accounts, operations, claimed, locked, applied, told>>

Claimable(r) == Row(r) = Absent

(* The insert waits for a transaction that has inserted the same id.       *)
Claim(r) ==
  /\ stage[r] = "claim"
  /\ Op(r) \notin claimed
  /\ Claimable(r)
  /\ claimed' = claimed \cup {Op(r)}
  /\ Becomes(r, "read")
  /\ UNCHANGED <<accounts, operations, locked, work, applied, told>>

(* Replayed when it succeeded for the same command, refused otherwise.     *)
Replay(r) ==
  /\ stage[r] = "claim"
  /\ Op(r) \notin claimed
  /\ Row(r) # Absent
  /\ told' = told \cup IF Row(r) = [status |-> "succeeded", command |-> Command(r)]
                       THEN {<<Op(r), Command(r)>>} ELSE {}
  /\ Finish(r)
  /\ UNCHANGED <<accounts, operations, claimed, locked, applied>>

(* The work, the update of the row and the audit records are rolled back.  *)
FailCommand(r) ==
  /\ stage[r] \in {"read", "lock", "count", "apply"}
  /\ claimed' = claimed \ {Op(r)}
  /\ locked' = locked \ {r}
  /\ Becomes(r, "record")
  /\ UNCHANGED <<accounts, operations, work, applied, told>>

(* The second transaction, unless a retry of the operation was faster, or  *)
(* the process ends between the two.                                       *)
RecordFailure(r) ==
  /\ stage[r] = "record"
  /\ Op(r) \notin claimed
  /\ \/ operations' = [operations EXCEPT ![Op(r)] =
            IF @ = Absent THEN [status |-> "failed", command |-> Command(r)] ELSE @]
     \/ UNCHANGED operations
  /\ Finish(r)
  /\ UNCHANGED <<accounts, claimed, locked, applied, told>>

-----------------------------------------------------------------------------
(* The commands.                                                           *)

Forbidden(c) ==
  \/ c.kind = "deactivate" /\ c.target = c.actor
  \/ c.target \in Administrators /\ c.actor \notin Administrators

(* A forbidden command, or a revision that is not the expected one, fails. *)
Read(r) ==
  /\ stage[r] = "read"
  /\ ~Forbidden(Command(r))
  /\ work' = [work EXCEPT ![r].seen = Target(r).revision]
  /\ Becomes(r, IF Command(r).kind = "deactivate" /\ Command(r).target \in Administrators
                THEN "lock" ELSE "apply")
  /\ UNCHANGED <<accounts, operations, claimed, locked, applied, told>>

(* Broken: the lock is not exclusive.                                      *)
AnyoneLocks == TRUE

LockFree == locked = {}

Lock(r) ==
  /\ stage[r] = "lock"
  /\ LockFree
  /\ locked' = locked \cup {r}
  /\ Becomes(r, "count")
  /\ UNCHANGED <<accounts, operations, claimed, work, applied, told>>

ActiveAdministrators == {a \in Administrators : accounts[a].status = "active"}

Count(r) ==
  /\ stage[r] = "count"
  /\ Cardinality(ActiveAdministrators) > 1
  /\ Becomes(r, "apply")
  /\ UNCHANGED <<accounts, operations, claimed, locked, work, applied, told>>

After(account, kind) ==
  [account EXCEPT !.status = CASE kind = "deactivate" -> "disabled"
                               [] kind = "reactivate" -> "active"
                               [] kind = "reset" -> @,
                  !.revision = @ + 1]

(* The update, which requires the revision that was read, and the commit.  *)
CommitCommand(r) ==
  /\ stage[r] = "apply"
  /\ Target(r).revision = work[r].seen
  /\ Target(r).revision < MaxAccountRev
  /\ accounts' = [accounts EXCEPT ![Command(r).target] = After(@, Command(r).kind)]
  /\ operations' = [operations EXCEPT ![Op(r)] = [status |-> "succeeded", command |-> Command(r)]]
  /\ claimed' = claimed \ {Op(r)}
  /\ locked' = locked \ {r}
  /\ applied' = [applied EXCEPT ![Op(r)] = @ + 1]
  /\ told' = told \cup {<<Op(r), Command(r)>>}
  /\ Finish(r)

AdministrationNext ==
  \E r \in Administering :
    \/ \E o \in Operations, c \in Commands : Submit(r, o, c)
    \/ Claim(r) \/ Replay(r) \/ FailCommand(r) \/ RecordFailure(r)
    \/ Read(r) \/ Lock(r) \/ Count(r) \/ CommitCommand(r)

AdministrationSpec == AdministrationInit /\ [][AdministrationNext]_adminVars

-----------------------------------------------------------------------------
(* Properties.                                                             *)

(* However commands interleave, a system administrator with an active      *)
(* account remains: two of them cannot deactivate each other.              *)
AnAdministratorRemains == ActiveAdministrators # {}

(* The effect of an operation is committed once, together with its row,    *)
(* however often it is retried and whichever of its failures is recorded   *)
(* when; and who is told that a command succeeded can rely on that.        *)
OperationOnce ==
  /\ \A o \in Operations : applied[o] = IF operations[o].status = "succeeded" THEN 1 ELSE 0
  /\ \A t \in told : operations[t[1]] = [status |-> "succeeded", command |-> t[2]]
=============================================================================
