------------------------------ MODULE Sessions ------------------------------
(***************************************************************************)
(* Sign-in of one account on one surface: apps/api/src/auth over the Redis *)
(* session store (each Lua script is one step) and the account's row in    *)
(* packages/crm-modules/workforce-access. Requests run concurrently; each  *)
(* reads the session first and the account afterwards.                     *)
(***************************************************************************)
EXTENDS Naturals

CONSTANTS Requests,     \* requests being handled at the same time
          Credentials,  \* bound: opaque credentials that are ever issued
          Passwords,    \* passwords the account may have
          MaxRevision,  \* bound: security changes of the account
          Missing       \* no credential

ASSUME SessionsAssumption == MaxRevision \in Nat \ {0} /\ Missing \notin Credentials

VARIABLES
  account,   \* the account: status, security revision, password
  sessions,  \* Redis, session keys: what the session was opened with
  index,     \* Redis, the account's key: the credential of its session
  issued,    \* credentials generated so far, live or not
  doing,     \* per request: what it awaits
  held       \* per request: its credential, and the record it has read

redis == <<sessions, index, issued>>
request == <<doing, held>>
sessionVars == <<account, sessions, index, issued, doing, held>>

Record == [revision : 1 .. MaxRevision, password : Passwords]
NoRecord == [revision |-> 0, password |-> Missing]
Nothing == [credential |-> Missing, record |-> NoRecord]
Live(c) == sessions[c] # NoRecord

SessionsTypeOK ==
  /\ account \in [status : {"active", "disabled"}, revision : 1 .. MaxRevision, password : Passwords]
  /\ sessions \in [Credentials -> Record \cup {NoRecord}]
  /\ index \in Credentials \cup {Missing}
  /\ issued \subseteq Credentials
  /\ doing \in [Requests -> {"nothing", "create", "account", "rotate", "audit"}]
  /\ held \in [Requests -> [credential : Credentials \cup {Missing},
                            record : Record \cup {NoRecord}]]

SessionsInit ==
  /\ account \in [status : {"active"}, revision : {1}, password : Passwords]
  /\ sessions = [c \in Credentials |-> NoRecord]
  /\ index = Missing
  /\ issued = {}
  /\ doing = [r \in Requests |-> "nothing"]
  /\ held = [r \in Requests |-> Nothing]

-----------------------------------------------------------------------------
(* The account.                                                            *)

SetStatus ==
  /\ account.revision < MaxRevision
  /\ account' = [account EXCEPT !.status = IF @ = "active" THEN "disabled" ELSE "active",
                                !.revision = @ + 1]
  /\ UNCHANGED <<redis, request>>

ReplacePassword(p) ==
  /\ account.revision < MaxRevision
  /\ account' = [account EXCEPT !.password = p, !.revision = @ + 1]
  /\ UNCHANGED <<redis, request>>

-----------------------------------------------------------------------------
(* The scripts of the session store.                                       *)

(* createScript deletes the session that the account's key names.          *)
WithSession(c, record) ==
  [d \in Credentials |-> IF d = c THEN record
                         ELSE IF d = index THEN NoRecord ELSE sessions[d]]

(* deleteScript, peekScript and touchScript: the key of c goes, and the    *)
(* account's key when it names c.                                          *)
Delete(c) ==
  /\ sessions' = [sessions EXCEPT ![c] = NoRecord]
  /\ index' = IF Live(c) /\ index = c THEN Missing ELSE index

-----------------------------------------------------------------------------
(* Requests.                                                               *)

Awaits(r, what) == doing' = [doing EXCEPT ![r] = what]
Holds(r, c, record) == held' = [held EXCEPT ![r] = [credential |-> c, record |-> record]]
Answers(r) == Awaits(r, "nothing") /\ held' = [held EXCEPT ![r] = Nothing]

(* login reads the account by its identifier and verifies the password.    *)
Verify(r) ==
  /\ doing[r] = "nothing"
  /\ account.status = "active"
  /\ Awaits(r, "create")
  /\ Holds(r, Missing, [revision |-> account.revision, password |-> account.password])
  /\ UNCHANGED <<account, redis>>

(* Broken: the session gets the revision the account has by now.           *)
CreateWithCurrent(r, c) ==
  /\ doing[r] = "create"
  /\ c \notin issued
  /\ LET record == [held[r].record EXCEPT !.revision = account.revision] IN
     sessions' = WithSession(c, record) /\ Holds(r, c, record)
  /\ index' = c
  /\ issued' = issued \cup {c}
  /\ Awaits(r, "audit")
  /\ UNCHANGED account

(* The session gets the security revision of the account that was verified.*)
Create(r, c) ==
  /\ doing[r] = "create"
  /\ c \notin issued
  /\ sessions' = WithSession(c, held[r].record)
  /\ Holds(r, c, held[r].record)
  /\ index' = c
  /\ issued' = issued \cup {c}
  /\ Awaits(r, "audit")
  /\ UNCHANGED account

(* #resolve: the session, then the account.                                *)
ReadSession(r, c) ==
  /\ doing[r] = "nothing"
  /\ Live(c)
  /\ Awaits(r, "account")
  /\ Holds(r, c, sessions[c])
  /\ UNCHANGED <<account, redis>>

Matches(record) == account.status = "active" /\ account.revision = record.revision

(* The request is served, or goes on to replace its credential.            *)
Admit(r) ==
  /\ doing[r] = "account"
  /\ Matches(held[r].record)
  /\ Answers(r) \/ (Awaits(r, "rotate") /\ UNCHANGED held)
  /\ UNCHANGED <<account, redis>>

Deny(r) ==
  /\ doing[r] = "account"
  /\ ~Matches(held[r].record)
  /\ Answers(r)
  /\ UNCHANGED <<account, redis>>

(* rotateScript: the session exists, and the account's key names it.       *)
Rotates(c) == Live(c) /\ index = c

(* reauthenticate and selectAssignment, with a record of the same revision.*)
Rotate(r, c) ==
  /\ doing[r] = "rotate"
  /\ c \notin issued
  /\ Rotates(held[r].credential)
  /\ sessions' = [sessions EXCEPT ![held[r].credential] = NoRecord, ![c] = held[r].record]
  /\ index' = c
  /\ issued' = issued \cup {c}
  /\ Holds(r, c, held[r].record)
  /\ Awaits(r, "audit")
  /\ UNCHANGED account

(* A refused rotation, a wrong password, a limit, a dependency that fails. *)
GiveUp(r) ==
  /\ doing[r] \in {"create", "rotate"}
  /\ Answers(r)
  /\ UNCHANGED <<account, redis>>

Audited(r) ==
  /\ doing[r] = "audit"
  /\ Answers(r)
  /\ UNCHANGED <<account, redis>>

(* The change cannot be audited: the new session is deleted, if it can be. *)
AuditFails(r) ==
  /\ doing[r] = "audit"
  /\ Delete(held[r].credential)
  /\ Answers(r)
  /\ UNCHANGED <<account, issued>>

Logout(c) ==
  /\ Live(c)
  /\ Delete(c)
  /\ UNCHANGED <<account, issued, request>>

(* The idle or the absolute lifetime of a session is over.                 *)
SessionExpires(c) ==
  /\ Live(c)
  /\ sessions' = [sessions EXCEPT ![c] = NoRecord]
  /\ UNCHANGED <<account, index, issued, request>>

(* The account's key is kept at least as long as the session it names.     *)
IndexExpires ==
  /\ index # Missing /\ ~Live(index)
  /\ index' = Missing
  /\ UNCHANGED <<account, sessions, issued, request>>

SessionsNext ==
  \/ SetStatus
  \/ \E p \in Passwords : ReplacePassword(p)
  \/ \E c \in Credentials : Logout(c) \/ SessionExpires(c)
  \/ IndexExpires
  \/ \E r \in Requests : Verify(r) \/ Admit(r) \/ Deny(r) \/ GiveUp(r) \/ Audited(r) \/ AuditFails(r)
  \/ \E r \in Requests, c \in Credentials : Create(r, c) \/ ReadSession(r, c) \/ Rotate(r, c)

SessionsSpec == SessionsInit /\ [][SessionsNext]_sessionVars

-----------------------------------------------------------------------------
(* Properties.                                                             *)

(* The account has at most one live session on the surface, the one its    *)
(* key in Redis names: whatever logins, rotations, logouts and expiries    *)
(* interleave, no session is left behind that the next login would miss.   *)
OneSession == \A c \in Credentials : Live(c) => index = c

(* A record that carries the account's present security revision, live or  *)
(* in the hands of a request, was opened with the present password of an   *)
(* active account: what a disabled account, or one with a new password,    *)
(* was given before is worth nothing, even when login or rotate raced with *)
(* the change.                                                             *)
RevisionVouches ==
  LET vouches(record) == record.revision = account.revision =>
                           account.status = "active" /\ record.password = account.password
  IN /\ \A c \in Credentials : vouches(sessions[c])
     /\ \A r \in Requests : vouches(held[r].record)
=============================================================================
