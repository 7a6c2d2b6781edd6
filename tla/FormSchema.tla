----------------------------- MODULE FormSchema -----------------------------
(***************************************************************************)
(* packages/crm-modules/form-schema: one form definition, its draft, what  *)
(* was released of it and the receipts of the operations. A request is     *)
(* authorised and reads outside the transaction that has its effect, and   *)
(* the audit records are written outside it too.                           *)
(***************************************************************************)
EXTENDS Naturals, FiniteSets

CONSTANTS FormRequests, FormOperations,
          FormReaders,        \* queries of releases
          FormCommands,       \* the commands clients send
          Contents,           \* schemas, told apart by their digests
          NoContent,
          MaxFormRevision,    \* bound: revisions of the draft
          MaxFormReleases     \* bound: releases

ASSUME FormSchemaAssumption ==
  /\ NoContent \notin Contents
  /\ MaxFormRevision \in Nat \ {0} /\ MaxFormReleases \in Nat \ {0}

VARIABLES
  revisions,   \* per revision of the draft that was stored: its content and who stored it
  formReleases,\* per release: content, digest, whether it is active, and of which revision
  formReceipts,\* per operation: its command, once it is committed
  audited,     \* operations whose attempt is on record
  formTasks,   \* per request: where it is
  formQueries  \* per query: where it is, and what it was answered

formVars == <<revisions, formReleases, formReceipts, audited, formTasks, formQueries>>

Revisions == 1 .. MaxFormRevision
FormReleases == 1 .. MaxFormReleases

CommandsOfForms ==
  [op : FormOperations, kind : {"save"}, expected : 0 .. MaxFormRevision, content : Contents]
    \cup [op : FormOperations, kind : {"publish"}, expected : Revisions]
    \cup [op : FormOperations, kind : {"switch"}, release : FormReleases, active : BOOLEAN]

ASSUME FormCommandsAssumption == FormCommands \subseteq CommandsOfForms

NoFormCommand == [kind |-> "none"]
NoTask == [step |-> "idle", command |-> NoFormCommand, read |-> NoContent]
NoRevision == [content |-> NoContent, by |-> NoFormCommand]
NotAsked == [step |-> "idle", kind |-> "read", release |-> 0,
             content |-> NoContent, digest |-> NoContent]
NoFormRelease == [content |-> NoContent, digest |-> NoContent, active |-> FALSE,
                  of |-> 0, by |-> NoFormCommand]

FormSchemaTypeOK ==
  /\ revisions \in [Revisions -> [content : Contents \cup {NoContent},
                                  by : FormCommands \cup {NoFormCommand}]]
  /\ formReleases \in [FormReleases -> [content : Contents \cup {NoContent},
       digest : Contents \cup {NoContent}, active : BOOLEAN, of : 0 .. MaxFormRevision,
       by : FormCommands \cup {NoFormCommand}]]
  /\ formReceipts \in [FormOperations -> FormCommands \cup {NoFormCommand}]
  /\ audited \subseteq FormOperations
  /\ formTasks \in [FormRequests -> [step : {"idle", "begun", "attempted"},
       command : FormCommands \cup {NoFormCommand}, read : Contents \cup {NoContent}]]
  /\ formQueries \in [FormReaders -> [step : {"idle", "asked", "allowed", "answered"},
       kind : {"read", "validate"}, release : 0 .. MaxFormReleases,
       content : Contents \cup {NoContent}, digest : Contents \cup {NoContent}]]

FormSchemaInit ==
  /\ revisions = [n \in Revisions |-> NoRevision]
  /\ formReleases = [n \in FormReleases |-> NoFormRelease]
  /\ formReceipts = [o \in FormOperations |-> NoFormCommand]
  /\ audited = {}
  /\ formTasks = [r \in FormRequests |-> NoTask]
  /\ formQueries = [q \in FormReaders |-> NotAsked]

-----------------------------------------------------------------------------
(* The draft and the releases.                                             *)

DraftRevision == Cardinality({n \in Revisions : revisions[n] # NoRevision})
ReleasesMade == Cardinality({n \in FormReleases : formReleases[n] # NoFormRelease})

(* Clients learn revisions and releases from answers: they name none that  *)
(* does not exist yet.                                                     *)
MayAsk(c) ==
  CASE c.kind = "switch" -> c.release <= ReleasesMade
    [] OTHER -> c.expected <= DraftRevision

DraftContent == IF DraftRevision = 0 THEN NoContent ELSE revisions[DraftRevision].content

-----------------------------------------------------------------------------
(* Requests.                                                               *)

(* Authorisation and the read of what the command is about. A digest will  *)
(* be taken from the draft that is read here.                              *)
BeginForm(r, c) ==
  /\ formTasks[r] = NoTask
  /\ MayAsk(c)
  /\ formTasks' = [formTasks EXCEPT ![r] = [step |-> "begun", command |-> c, read |-> DraftContent]]
  /\ UNCHANGED <<revisions, formReleases, formReceipts, audited, formQueries>>

(* No effect unless the attempt is on record.                              *)
RecordAttempt(r) ==
  /\ formTasks[r].step = "begun"
  /\ audited' = audited \cup {formTasks[r].command.op}
  /\ formTasks' = [formTasks EXCEPT ![r].step = "attempted"]
  /\ UNCHANGED <<revisions, formReleases, formReceipts, formQueries>>

(* Denied, nothing found, an audit or a database that fails, the end of the*)
(* process: the request ends without an effect, and may be repeated.       *)
FormFails(r) ==
  /\ formTasks[r] # NoTask
  /\ formTasks' = [formTasks EXCEPT ![r] = NoTask]
  /\ UNCHANGED <<revisions, formReleases, formReceipts, audited, formQueries>>

(* Under the lock of the operation: it was not committed before. Otherwise *)
(* the stored answer is replayed, or the operation id is in conflict.      *)
FirstTime(c) == formReceipts[c.op] = NoFormCommand

(* The revision the client has seen is the draft's, under the lock of the  *)
(* definition.                                                             *)
RevisionIs(c) == c.expected = DraftRevision

(* The transaction commits, with the receipt, and the request is over.     *)
CommitForm(r, c) ==
  /\ formTasks[r].step = "attempted" /\ formTasks[r].command = c
  /\ FirstTime(c)
  /\ formReceipts' = [formReceipts EXCEPT ![c.op] = c]
  /\ formTasks' = [formTasks EXCEPT ![r] = NoTask]
  /\ UNCHANGED <<audited, formQueries>>

SaveFormDraft(r, c) ==
  /\ c.kind = "save"
  /\ CommitForm(r, c)
  /\ DraftRevision < MaxFormRevision /\ RevisionIs(c)
  /\ revisions' = [revisions EXCEPT ![DraftRevision + 1] = [content |-> c.content, by |-> c]]
  /\ UNCHANGED formReleases

(* The content is the one of the draft now, the digest that of the draft   *)
(* that was read before.                                                   *)
PublishForm(r, c) ==
  /\ c.kind = "publish"
  /\ CommitForm(r, c)
  /\ ReleasesMade < MaxFormReleases /\ RevisionIs(c)
  /\ formReleases' = [formReleases EXCEPT ![ReleasesMade + 1] =
       [content |-> DraftContent, digest |-> formTasks[r].read, active |-> TRUE,
        of |-> c.expected, by |-> c]]
  /\ UNCHANGED revisions

SetReleaseActive(r, c) ==
  /\ c.kind = "switch"
  /\ CommitForm(r, c)
  /\ formReleases' = [formReleases EXCEPT ![c.release].active = c.active]
  /\ UNCHANGED revisions

-----------------------------------------------------------------------------
(* Queries of a release, beside the commands.                              *)

FormDraft == <<revisions, formReleases, formReceipts, audited, formTasks>>

AskRelease(q, kind, n) ==
  /\ formQueries[q].step = "idle"
  /\ formQueries' = [formQueries EXCEPT ![q].step = "asked", ![q].kind = kind, ![q].release = n]
  /\ UNCHANGED FormDraft

AllowQuery(q) ==
  /\ formQueries[q].step = "asked"
  /\ formQueries' = [formQueries EXCEPT ![q].step = "allowed"]
  /\ UNCHANGED FormDraft

FindRelease(q) == formReleases[formQueries[q].release]

AnswerQuery(q) ==
  /\ formQueries[q].step = "allowed" /\ FindRelease(q) # NoFormRelease
  /\ formQueries' = [formQueries EXCEPT ![q].step = "answered",
       ![q].content = FindRelease(q).content, ![q].digest = FindRelease(q).digest]
  /\ UNCHANGED FormDraft

ReadRelease(q) == formQueries[q].kind = "read" /\ AnswerQuery(q)

(* A submission is judged by the schema and told the digest it belongs to. *)
ValidateSubmission(q) ==
  formQueries[q].kind = "validate" /\ FindRelease(q).active /\ AnswerQuery(q)

(* Denied, not found, not active, or a dependency that fails.              *)
RefuseQuery(q) ==
  /\ formQueries[q].step \in {"asked", "allowed"}
  /\ formQueries' = [formQueries EXCEPT ![q] = NotAsked]
  /\ UNCHANGED FormDraft

QueriesNext == \E q \in FormReaders :
  \/ AllowQuery(q) \/ ReadRelease(q) \/ ValidateSubmission(q) \/ RefuseQuery(q)
  \/ \E kind \in {"read", "validate"}, n \in FormReleases : AskRelease(q, kind, n)

FormSchemaNext ==
  \/ QueriesNext
  \/ \E r \in FormRequests :
       \/ RecordAttempt(r) \/ FormFails(r)
       \/ \E c \in FormCommands :
            BeginForm(r, c) \/ SaveFormDraft(r, c) \/ PublishForm(r, c) \/ SetReleaseActive(r, c)

FormSchemaSpec == FormSchemaInit /\ [][FormSchemaNext]_formVars

-----------------------------------------------------------------------------
(* Properties.                                                             *)

(* A release says what it contains: its digest, taken from a draft read    *)
(* before the transaction, is that of the content, which is what the named *)
(* revision of the draft held when its editor looked at it.                *)
DigestIsOfContent == \A n \in FormReleases :
  LET release == formReleases[n]
  IN  release # NoFormRelease =>
        /\ release.digest = release.content
        /\ release.content = revisions[release.of].content

(* Every revision replaces the one its editor has seen, so no edit is lost *)
(* to another; an operation has one effect, however often it is sent, and  *)
(* that is the one of the command it was first sent with.                  *)
NoEditIsLost ==
  /\ \A n \in Revisions : revisions[n] # NoRevision =>
       /\ revisions[n].by.expected = n - 1
       /\ formReceipts[revisions[n].by.op] = revisions[n].by
       /\ \A m \in Revisions : revisions[m].by = revisions[n].by => m = n
  /\ \A n \in FormReleases : formReleases[n] # NoFormRelease =>
       /\ formReceipts[formReleases[n].by.op] = formReleases[n].by
       /\ \A m \in FormReleases : formReleases[m].by = formReleases[n].by => m = n

(* What has an effect was recorded as attempted before.                    *)
EffectsAreAudited == \A o \in FormOperations : formReceipts[o] # NoFormCommand => o \in audited

(* What a query was told of a release stays true, whatever becomes of the  *)
(* draft and of the release: a submission was judged by the content that   *)
(* the reference it was given stands for.                                  *)
AnswersStayTrue == \A q \in FormReaders :
  LET query == formQueries[q]
  IN  query.step = "answered" =>
        /\ query.digest = query.content
        /\ FindRelease(q).content = query.content
=============================================================================
