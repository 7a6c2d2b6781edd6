----------------------------- MODULE Workforce ------------------------------
(***************************************************************************)
(* What administration commands do to an account and what hangs on it      *)
(* (facade.ts): its row and login identifiers in workforce-access, its     *)
(* assignments in organization, its role grants in authorization. One      *)
(* transaction joins the three owners. Administration has the durable      *)
(* operation around it; here a request reads, later commits, or fails.     *)
(***************************************************************************)
EXTENDS Naturals, FiniteSets

CONSTANTS Staff,            \* accounts, created or not
          Editors,          \* requests being handled at the same time
          EditCommands,     \* the commands they carry
          Usernames, Phones,\* what identifies an account; a value may be both
          NoValue, Nobody,
          MaxStaffRevision, \* bound: the revisions of an account
          MaxAssignments    \* bound: the assignments of an account

ASSUME WorkforceAssumption ==
  /\ NoValue \notin Usernames \cup Phones /\ Nobody \notin Staff
  /\ MaxStaffRevision \in Nat /\ MaxAssignments \in Nat \ {0}

VARIABLES
  staff,       \* workforce_access.accounts
  userHolder,  \* login_identifier_history: who got a username, for ever
  phoneHolder, \* login_identifier_history: who holds a phone that is not released
  opened,      \* per account: assignments that were opened, numbered
  open,        \* per account: those that are open
  grants,      \* per account: open grants, as role and assignment
  edits        \* per request: the command and what was read for it

workforceVars == <<staff, userHolder, phoneHolder, opened, open, grants, edits>>

Kinds == {"create", "update", "move", "deactivate", "reactivate", "release_phone", "grant_crm",
          "revoke_crm"}
CommandsOfWorkforce == [kind : Kinds, account : Staff, username : Usernames \cup {NoValue},
                        phone : Phones \cup {NoValue}]

ASSUME EditCommandsAssumption == EditCommands \subseteq CommandsOfWorkforce

Roles == {"application_user", "crm_administrator"}
AssignmentNumbers == 1 .. MaxAssignments
StaffRecords == [status : {"active", "disabled", "none"}, revision : 0 .. MaxStaffRevision,
                 username : Usernames \cup {NoValue}, phone : Phones \cup {NoValue}]
NotCreated == [status |-> "none", revision |-> 0, username |-> NoValue, phone |-> NoValue]
NoEdit == [kind |-> "none"]
Edits == [kind : Kinds, account : Staff, username : Usernames \cup {NoValue},
          phone : Phones \cup {NoValue}, row : StaffRecords, open : SUBSET AssignmentNumbers,
          crm : BOOLEAN]

WorkforceTypeOK ==
  /\ staff \in [Staff -> StaffRecords]
  /\ userHolder \in [Usernames -> Staff \cup {Nobody}]
  /\ phoneHolder \in [Phones -> Staff \cup {Nobody}]
  /\ opened \in [Staff -> 0 .. MaxAssignments]
  /\ open \in [Staff -> SUBSET AssignmentNumbers]
  /\ grants \in [Staff -> SUBSET (Roles \X AssignmentNumbers)]
  /\ edits \in [Editors -> Edits \cup {NoEdit}]

WorkforceInit ==
  /\ staff = [a \in Staff |-> NotCreated]
  /\ userHolder = [u \in Usernames |-> Nobody]
  /\ phoneHolder = [p \in Phones |-> Nobody]
  /\ opened = [a \in Staff |-> 0]
  /\ open = [a \in Staff |-> {}]
  /\ grants = [a \in Staff |-> {}]
  /\ edits = [e \in Editors |-> NoEdit]

-----------------------------------------------------------------------------
(* Asking. The client names the revision it was shown, and a command that  *)
(* was offered there; what the facade reads is of that revision.           *)

Offered(a) ==
  CASE staff[a].status = "none" -> {"create"}
    [] staff[a].status = "active" -> {"update", "move", "deactivate", "release_phone",
                                      "grant_crm", "revoke_crm"}
    [] staff[a].status = "disabled" -> {"reactivate", "release_phone"}

(* Commands on the assignment need exactly one.                            *)
Exact(kind, a) == kind \in {"update", "move", "grant_crm", "revoke_crm"} => Cardinality(open[a]) = 1

(* A move keeps the identifiers that the client was shown.                 *)
AskEdit(e, c) ==
  LET a == c.account
      Says(field) == IF c.kind = "move" THEN staff[a][field] ELSE c[field]
  IN  /\ edits[e] = NoEdit
      /\ c.kind \in Offered(a) /\ Exact(c.kind, a)
      /\ edits' = [edits EXCEPT ![e] =
           [kind |-> c.kind, account |-> a, username |-> Says("username"), phone |-> Says("phone"),
            row |-> staff[a], open |-> open[a],
            crm |-> \E n \in open[a] : <<"crm_administrator", n>> \in grants[a]]]
  /\ UNCHANGED <<staff, userHolder, phoneHolder, opened, open, grants>>

(* A conflict, a denial, a failing statement: the transaction rolls back.  *)
EditFails(e) ==
  /\ edits[e] # NoEdit
  /\ edits' = [edits EXCEPT ![e] = NoEdit]
  /\ UNCHANGED <<staff, userHolder, phoneHolder, opened, open, grants>>

-----------------------------------------------------------------------------
(* Committing.                                                             *)

(* update ... where revision = the revision that was read.                 *)
UpdatesRow(c, row) ==
  /\ staff[c.account].revision = c.row.revision
  /\ staff' = [staff EXCEPT ![c.account] = row]

(* An identifier the account does not have is inserted, and is in nobody's *)
(* history: not even in its own.                                           *)
TakesIdentifiers(c) ==
  /\ \/ c.username = c.row.username /\ UNCHANGED userHolder
     \/ /\ c.username # c.row.username /\ userHolder[c.username] = Nobody
        /\ userHolder' = [userHolder EXCEPT ![c.username] = c.account]
  /\ \/ c.phone \in {c.row.phone, NoValue} /\ UNCHANGED phoneHolder
     \/ /\ c.phone \notin {c.row.phone, NoValue} /\ phoneHolder[c.phone] = Nobody
        /\ phoneHolder' = [phoneHolder EXCEPT ![c.phone] = c.account]

(* Assignments that were read are closed, if they still are open; the new  *)
(* one gets the application_user role, the closed ones lose it when moved. *)
Reassigns(c, closed, opens, moved) ==
  /\ closed \subseteq open[c.account]
  /\ opens => opened[c.account] < MaxAssignments
  /\ LET n == opened[c.account] + 1
         a == c.account
         kept == grants[a] \ {g \in grants[a] : moved /\ g[1] = "application_user" /\ g[2] \in closed}
     IN  /\ opened' = [opened EXCEPT ![a] = IF opens THEN n ELSE @]
         /\ open' = [open EXCEPT ![a] = (@ \ closed) \cup (IF opens THEN {n} ELSE {})]
         /\ grants' = [grants EXCEPT ![a] = kept \cup
                         (IF opens THEN {<<"application_user", n>>} ELSE {})]

EditIsOver(e) == edits' = [edits EXCEPT ![e] = NoEdit]

CreateAccount(e) ==
  LET c == edits[e]
  IN  /\ c.kind = "create" /\ EditIsOver(e)
      /\ staff[c.account] = NotCreated
      /\ staff' = [staff EXCEPT ![c.account] = [status |-> "active", revision |-> 0,
                                                username |-> c.username, phone |-> c.phone]]
      /\ TakesIdentifiers(c)
      /\ Reassigns(c, {}, TRUE, FALSE)

(* Name and identifiers are written with it, and the assignment is moved   *)
(* when the command names another department or position.                  *)
UpdateAccount(e) ==
  LET c == edits[e]
  IN  /\ c.kind \in {"update", "move"} /\ EditIsOver(e)
      /\ c.row.revision < MaxStaffRevision
      /\ UpdatesRow(c, [c.row EXCEPT !.revision = @ + 1, !.username = c.username,
                                     !.phone = c.phone])
      /\ TakesIdentifiers(c)
      /\ IF c.kind = "move" THEN Reassigns(c, c.open, TRUE, TRUE)
                            ELSE UNCHANGED <<opened, open, grants>>

Deactivate(e) ==
  LET c == edits[e]
  IN  /\ c.kind = "deactivate" /\ EditIsOver(e)
      /\ c.row.revision < MaxStaffRevision
      /\ UpdatesRow(c, [c.row EXCEPT !.revision = @ + 1, !.status = "disabled"])
      /\ Reassigns(c, c.open, FALSE, FALSE)
      /\ UNCHANGED <<userHolder, phoneHolder>>

Reactivate(e) ==
  LET c == edits[e]
  IN  /\ c.kind = "reactivate" /\ EditIsOver(e)
      /\ c.row.revision < MaxStaffRevision
      /\ UpdatesRow(c, [c.row EXCEPT !.revision = @ + 1, !.status = "active"])
      /\ Reassigns(c, {}, TRUE, FALSE)
      /\ UNCHANGED <<userHolder, phoneHolder>>

(* A phone the account holds and does not use. The revision stays.         *)
ReleasePhone(e) ==
  LET c == edits[e]
  IN  /\ c.kind = "release_phone" /\ EditIsOver(e)
      /\ staff[c.account].revision = c.row.revision
      /\ staff[c.account].phone # c.phone
      /\ phoneHolder[c.phone] = c.account
      /\ phoneHolder' = [phoneHolder EXCEPT ![c.phone] = Nobody]
      /\ UNCHANGED <<staff, userHolder, opened, open, grants>>

(* No transaction and no revision: the grant is of the assignment that was *)
(* read, whatever has become of it. One that is there already will do; one *)
(* that another request revoked is an error.                               *)
SetCrmAdministrator(e) ==
  LET c == edits[e]
      g == {<<"crm_administrator", n>> : n \in c.open}
  IN  /\ c.kind \in {"grant_crm", "revoke_crm"} /\ EditIsOver(e)
      /\ grants' = [grants EXCEPT ![c.account] =
           CASE c.kind = "grant_crm" /\ ~c.crm -> @ \cup g
             [] c.kind = "revoke_crm" /\ c.crm -> @ \ g
             [] OTHER -> @]
      /\ c.kind = "revoke_crm" /\ c.crm => g \subseteq grants[c.account]
      /\ UNCHANGED <<staff, userHolder, phoneHolder, opened, open>>

WorkforceNext == \E e \in Editors :
  \/ \E c \in EditCommands : AskEdit(e, c)
  \/ EditFails(e)
  \/ CreateAccount(e) \/ UpdateAccount(e) \/ Deactivate(e) \/ Reactivate(e)
  \/ ReleasePhone(e) \/ SetCrmAdministrator(e)

WorkforceSpec == WorkforceInit /\ [][WorkforceNext]_workforceVars

-----------------------------------------------------------------------------
(* Properties.                                                             *)

(* An active account has one open assignment, which carries the role of an *)
(* application user; one that is not active has none, whatever moves,      *)
(* deactivations and reactivations race.                                   *)
OneAssignment == \A a \in Staff :
  IF staff[a].status = "active"
  THEN \E n \in AssignmentNumbers :
         open[a] = {n} /\ {g[2] : g \in {h \in grants[a] : h[1] = "application_user"}}
                            \cap open[a] = {n}
  ELSE open[a] = {}

(* findByIdentifier: who a login with a value may be.                      *)
LoginFinds(v) ==
  {a \in Staff : \/ v \in Usernames /\ userHolder[v] = a
                 \/ v \in Phones /\ phoneHolder[v] = a}

(* Whoever logs in with the username or phone an account has now gets that *)
(* account, or is refused because the value is another's phone or username.*)
IdentifiersLeadHome == \A a \in Staff : \A v \in {staff[a].username, staff[a].phone} \ {NoValue} :
  /\ a \in LoginFinds(v)
  /\ \A b \in Staff : b # a => staff[b].username # v \/ staff[a].username # v
=============================================================================
