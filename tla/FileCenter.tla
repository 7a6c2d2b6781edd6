----------------------------- MODULE FileCenter -----------------------------
(***************************************************************************)
(* packages/crm-modules/file-center for one content version: its upload    *)
(* session, its row, its object in the storage (Tencent COS) and its link  *)
(* to a resource. Every command reads first, then touches the storage, then*)
(* changes the rows in one transaction of the store, which looks at them   *)
(* again. Users and maintenance workers run commands at the same time, and *)
(* repeat them under the operation id they were first given. What the      *)
(* content is, sizes and media types included, is not modelled.            *)
(***************************************************************************)
EXTENDS Naturals

CONSTANTS Callers,     \* requests and workers that run commands
          Operations,  \* operation ids of the scans and cleanups
          NoOperation  \* for the commands whose operation id does not matter

ASSUME NoOperationAssumption == NoOperation \notin Operations

VARIABLES
  session,   \* upload_sessions.status
  version,   \* content_versions.status
  verdict,   \* what recordScan stored of the scanner's answer
  receipts,  \* operation_receipts of scans and cleanups: <<command, operation id>>
  link,      \* the one resource_links row
  events,    \* outbox_events: how many of each type
  object,    \* where the storage holds a copy: the original place, quarantine
  lost,      \* the storage has lost the original
  expired,   \* expires_at has passed
  offered,   \* a download grant was given
  call       \* per caller: what its command does next, and what it has read

rows == <<session, version, verdict, receipts, link, events>>
storage == <<object, lost>>
fileVars == <<session, version, verdict, receipts, link, events, object, lost,
          expired, offered, call>>

(* A repeated command finds its receipt. That of a completion or of a      *)
(* reconciliation ends there and changes nothing, so only the receipts     *)
(* after which a repetition goes on are kept.                              *)
Commands == {"scan", "cleanup"}
EventTypes == {"completed", "available", "quarantined", "linked", "unlinked"}
Steps == {"idle", "complete", "record", "isolate", "copy", "remove", "mark",
          "cleanup", "delete", "clean", "reconcile", "offer"}
SessionStatuses == {"absent", "created", "pending_scan", "cleanup_pending", "cleaned"}
VersionStatuses == {"absent", "awaiting_upload", "pending_scan", "available", "quarantine_pending",
                    "quarantined", "object_missing", "cleanup_pending", "deleted"}
Calls == [at : Steps, op : Operations \cup {NoOperation},
          saw : {"clean", "infected", "present", "missing", "nothing"}]
NoCall == [at |-> "idle", op |-> NoOperation, saw |-> "nothing"]

(* The status of the session and the status of its version move together.  *)
Together ==
  /\ (session = "created") = (version = "awaiting_upload")
  /\ (session = "cleanup_pending") = (version = "cleanup_pending")
  /\ (session = "cleaned") = (version = "deleted")

FileTypeOK ==
  /\ session \in SessionStatuses
  /\ version \in VersionStatuses
  /\ verdict \in {"none", "clean", "infected"}
  /\ receipts \subseteq Commands \X Operations
  /\ link \in {"none", "active", "ended"}
  /\ events \in [EventTypes -> Nat]
  /\ object \subseteq {"original", "isolated"}
  /\ lost \in BOOLEAN /\ expired \in BOOLEAN /\ offered \in BOOLEAN
  /\ call \in [Callers -> Calls]
  /\ Together

FileInit ==
  /\ session = "absent" /\ version = "absent"
  /\ verdict = "none"
  /\ receipts = {}
  /\ link = "none"
  /\ events = [t \in EventTypes |-> 0]
  /\ object = {}
  /\ lost = FALSE /\ expired = FALSE /\ offered = FALSE
  /\ call = [c \in Callers |-> NoCall]

At(c, step) == call[c].at = step
Begin(c, step, o, saw) ==
  /\ At(c, "idle")
  /\ call' = [call EXCEPT ![c] = [at |-> step, op |-> o, saw |-> saw]]
Go(c, step) == call' = [call EXCEPT ![c] = [at |-> step, op |-> NoOperation, saw |-> "nothing"]]
Done(c) == call' = [call EXCEPT ![c] = NoCall]

Receipted(c, command) == <<command, call[c].op>> \in receipts
Receipt(c, command) == receipts' = receipts \cup {<<command, call[c].op>>}
Emit(t) == events' = [events EXCEPT ![t] = @ + 1]

-----------------------------------------------------------------------------
(* createUploadSession and createContentVersionUpload; a repetition finds  *)
(* the receipt and gives the grant again.                                  *)
CreateUpload ==
  /\ session = "absent"
  /\ session' = "created" /\ version' = "awaiting_upload"
  /\ UNCHANGED <<verdict, receipts, link, events, storage, expired, offered, call>>

(* The client, with a grant that ends with the session. It may do so again,*)
(* and after the upload was completed.                                     *)
Upload ==
  /\ session # "absent" /\ ~expired
  /\ object' = object \cup {"original"}
  /\ UNCHANGED <<rows, lost, expired, offered, call>>

(* The storage loses the object.                                           *)
Lose ==
  /\ ~lost /\ "original" \in object
  /\ object' = object \ {"original"}
  /\ lost' = TRUE
  /\ UNCHANGED <<rows, expired, offered, call>>

Expire ==
  /\ session # "absent" /\ ~expired
  /\ expired' = TRUE
  /\ UNCHANGED <<rows, storage, offered, call>>

-----------------------------------------------------------------------------
(* completeUpload: the object is inspected and completedAt taken, before   *)
(* the session expires; the transaction may come later.                    *)
InspectUpload(c) ==
  /\ session # "absent"
  /\ ~expired /\ "original" \in object
  /\ Begin(c, "complete", NoOperation, "nothing")
  /\ UNCHANGED <<rows, storage, expired, offered>>

MayComplete(c) == At(c, "complete") /\ session = "created"

CompleteUpload(c) ==
  /\ MayComplete(c)
  /\ session' = "pending_scan" /\ version' = "pending_scan"
  /\ Emit("completed")
  /\ Done(c)
  /\ UNCHANGED <<verdict, receipts, link, storage, expired, offered>>

-----------------------------------------------------------------------------
(* scanContentVersion. The scanner's answer need not be the same twice;    *)
(* an object it cannot scan is treated as an infected one.                 *)
ReadForScan(c, o) ==
  /\ version = "pending_scan" /\ <<"scan", o>> \notin receipts
  /\ "original" \in object
  /\ \E answer \in {"clean", "infected"} : Begin(c, "record", o, answer)
  /\ UNCHANGED <<rows, storage, expired, offered>>

(* Broken: a scan whose storage step failed is not taken up again.         *)
NeverResumed(o) == FALSE

(* A scan by another operation, or the repetition of the one recorded, goes*)
(* on where the storage step was left.                                     *)
Resumes(o) == \/ version = "quarantine_pending"
              \/ <<"scan", o>> \in receipts /\ verdict = "infected"

ResumeQuarantine(c, o) ==
  /\ Resumes(o)
  /\ Begin(c, "isolate", NoOperation, "nothing")
  /\ UNCHANGED <<rows, storage, expired, offered>>

(* Broken: the store does not look at the status again.                    *)
MayRecordAny(c) == At(c, "record") /\ ~Receipted(c, "scan")

MayRecord(c) == At(c, "record") /\ ~Receipted(c, "scan") /\ version = "pending_scan"

RecordScan(c) ==
  /\ MayRecord(c)
  /\ verdict' = call[c].saw
  /\ Receipt(c, "scan")
  /\ \/ /\ call[c].saw = "clean"
        /\ version' = "available" /\ Emit("available")
        /\ Done(c)
     \/ /\ call[c].saw = "infected"
        /\ version' = "quarantine_pending" /\ UNCHANGED events
        /\ Go(c, "isolate")
  /\ UNCHANGED <<session, link, storage, expired, offered>>

(* The same operation was recorded by another caller, with its answer.     *)
RecordReplayed(c) ==
  /\ At(c, "record") /\ Receipted(c, "scan")
  /\ IF verdict = "infected" THEN Go(c, "isolate") ELSE Done(c)
  /\ UNCHANGED <<rows, storage, expired, offered>>

(* Broken: an object that is not in its place counts as isolated.          *)
MissingIsIsolated(c) ==
  /\ At(c, "isolate")
  /\ Go(c, IF "original" \in object THEN "copy" ELSE "mark")
  /\ UNCHANGED <<rows, storage, expired, offered>>

(* quarantineObject: look, copy, remove. Nothing to copy is an error,      *)
(* unless the copy is there.                                               *)
InspectForQuarantine(c) ==
  /\ At(c, "isolate") /\ object # {}
  /\ Go(c, IF "original" \in object THEN "copy" ELSE "mark")
  /\ UNCHANGED <<rows, storage, expired, offered>>

CopyObject(c) ==
  /\ At(c, "copy") /\ "original" \in object
  /\ object' = object \cup {"isolated"}
  /\ Go(c, "remove")
  /\ UNCHANGED <<rows, lost, expired, offered>>

RemoveOriginal(c) ==
  /\ At(c, "remove")
  /\ object' = object \ {"original"}
  /\ Go(c, "mark")
  /\ UNCHANGED <<rows, lost, expired, offered>>

(* Broken: a version that is quarantined already is quarantined again.     *)
MarkAgain(c) == At(c, "mark") /\ version \in {"quarantine_pending", "quarantined"}

MayMark(c) == At(c, "mark") /\ version = "quarantine_pending"

CompleteQuarantine(c) ==
  /\ MayMark(c)
  /\ version' = "quarantined" /\ Emit("quarantined")
  /\ Done(c)
  /\ UNCHANGED <<session, verdict, receipts, link, storage, expired, offered>>

-----------------------------------------------------------------------------
(* cleanupUploadSession.                                                   *)
ReadForCleanup(c, o) ==
  /\ session \notin {"absent", "cleaned"}
  /\ session = "created" => expired
  /\ Begin(c, "cleanup", o, "nothing")
  /\ UNCHANGED <<rows, storage, expired, offered>>

(* Broken: the store trusts the status that the service has read.          *)
MayCleanAny(c) == At(c, "cleanup") /\ ~Receipted(c, "cleanup")

MayClean(c) == /\ At(c, "cleanup") /\ ~Receipted(c, "cleanup")
               /\ session \in {"created", "cleanup_pending"}

CleanupSession(c) ==
  /\ MayClean(c)
  /\ session' = "cleanup_pending"
  /\ version' = IF version = "awaiting_upload" THEN "cleanup_pending" ELSE version
  /\ Receipt(c, "cleanup")
  /\ Go(c, "delete")
  /\ UNCHANGED <<verdict, link, events, storage, expired, offered>>

CleanupReplayed(c) ==
  /\ At(c, "cleanup") /\ Receipted(c, "cleanup")
  /\ Go(c, "delete")
  /\ UNCHANGED <<rows, storage, expired, offered>>

DeleteObject(c) ==
  /\ At(c, "delete")
  /\ object' = object \ {"original"}
  /\ Go(c, "clean")
  /\ UNCHANGED <<rows, lost, expired, offered>>

MayFinishCleanup(c) == At(c, "clean") /\ session = "cleanup_pending" /\ version = "cleanup_pending"

(* Broken: the version keeps its status.                                   *)
CleanSessionOnly(c) ==
  /\ MayFinishCleanup(c)
  /\ session' = "cleaned"
  /\ Done(c)
  /\ UNCHANGED <<version, verdict, receipts, link, events, storage, expired, offered>>

CompleteCleanup(c) ==
  /\ MayFinishCleanup(c)
  /\ session' = "cleaned" /\ version' = "deleted"
  /\ Done(c)
  /\ UNCHANGED <<verdict, receipts, link, events, storage, expired, offered>>

-----------------------------------------------------------------------------
(* reconcileContentVersion: what was inspected is stored later.            *)
ReadForReconcile(c) ==
  /\ session # "absent"
  /\ Begin(c, "reconcile", NoOperation, IF "original" \in object THEN "present" ELSE "missing")
  /\ UNCHANGED <<rows, storage, expired, offered>>

Stable == version \in {"pending_scan", "available"}

MarkReconciled(c) ==
  /\ At(c, "reconcile")
  /\ version' = IF call[c].saw = "missing" /\ Stable THEN "object_missing" ELSE version
  /\ Done(c)
  /\ UNCHANGED <<session, verdict, receipts, link, events, storage, expired, offered>>

-----------------------------------------------------------------------------
(* linkResource, unlinkResource and authorizeDownload; the last has read   *)
(* the version before it looks for the link.                               *)
LinkResource ==
  /\ version = "available" /\ link = "none"
  /\ link' = "active" /\ Emit("linked")
  /\ UNCHANGED <<session, version, verdict, receipts, storage, expired, offered, call>>

UnlinkResource ==
  /\ link = "active"
  /\ link' = "ended" /\ Emit("unlinked")
  /\ UNCHANGED <<session, version, verdict, receipts, storage, expired, offered, call>>

ReadForDownload(c) ==
  /\ version = "available"
  /\ Begin(c, "offer", NoOperation, "nothing")
  /\ UNCHANGED <<rows, storage, expired, offered>>

OfferDownload(c) ==
  /\ At(c, "offer") /\ link = "active" /\ "original" \in object
  /\ offered' = TRUE
  /\ Done(c)
  /\ UNCHANGED <<rows, storage, expired>>

-----------------------------------------------------------------------------
(* The store or the storage finds nothing to do, or refuses.               *)
Ends(c) ==
  /\ \/ At(c, "complete") /\ ~MayComplete(c)
     \/ At(c, "record") /\ ~Receipted(c, "scan") /\ ~MayRecord(c)
     \/ At(c, "isolate") /\ object = {}
     \/ At(c, "copy") /\ "original" \notin object
     \/ At(c, "mark") /\ ~MayMark(c)
     \/ At(c, "cleanup") /\ ~Receipted(c, "cleanup") /\ ~MayClean(c)
     \/ At(c, "clean") /\ ~MayFinishCleanup(c)
     \/ At(c, "offer") /\ ~(link = "active" /\ "original" \in object)
  /\ Done(c)
  /\ UNCHANGED <<rows, storage, expired, offered>>

(* The caller dies, or the database, the storage or the audit fails it.    *)
Abandon(c) ==
  /\ ~At(c, "idle")
  /\ Done(c)
  /\ UNCHANGED <<rows, storage, expired, offered>>

Work(c) == \/ CompleteUpload(c) \/ RecordScan(c) \/ RecordReplayed(c)
           \/ InspectForQuarantine(c) \/ CopyObject(c) \/ RemoveOriginal(c) \/ CompleteQuarantine(c)
           \/ CleanupSession(c) \/ CleanupReplayed(c) \/ DeleteObject(c) \/ CompleteCleanup(c)
           \/ MarkReconciled(c) \/ OfferDownload(c) \/ Ends(c)

FileNext ==
  \/ CreateUpload \/ Upload \/ Lose \/ Expire \/ LinkResource \/ UnlinkResource
  \/ \E c \in Callers :
       \/ InspectUpload(c) \/ ReadForReconcile(c) \/ ReadForDownload(c)
       \/ \E o \in Operations :
            ReadForScan(c, o) \/ ResumeQuarantine(c, o) \/ ReadForCleanup(c, o)
       \/ Work(c) \/ Abandon(c)

FileSafeSpec == FileInit /\ [][FileNext]_fileVars

(***************************************************************************)
(* Fairness. Time passes, commands end, and maintenance offers the scans   *)
(* and cleanups that are due again (under old or new operation ids); each  *)
(* of their steps may fail many times, but not for ever. A version is never*)
(* both scanned and cleaned up, so like steps of the two share a condition.*)
(***************************************************************************)
Scan(c, o) == ReadForScan(c, o) \/ ResumeQuarantine(c, o)
Intend(c) == RecordScan(c) \/ CleanupSession(c) \/ CleanupReplayed(c)
Touch(c) == InspectForQuarantine(c) \/ DeleteObject(c)
Finish(c) == CompleteQuarantine(c) \/ CompleteCleanup(c)

FileFairness ==
  /\ WF_fileVars(Expire)
  /\ WF_fileVars(\E c \in Callers : Work(c))
  /\ SF_fileVars(\E c \in Callers, o \in Operations : Scan(c, o))
  /\ SF_fileVars(\E c \in Callers, o \in Operations : ReadForCleanup(c, o))
  /\ SF_fileVars(\E c \in Callers : Intend(c))
  /\ SF_fileVars(\E c \in Callers : Touch(c))
  /\ SF_fileVars(\E c \in Callers : CopyObject(c))
  /\ SF_fileVars(\E c \in Callers : RemoveOriginal(c))
  /\ SF_fileVars(\E c \in Callers : Finish(c))

FileSpec == FileSafeSpec /\ FileFairness

-----------------------------------------------------------------------------
(* A cleanup, or a quarantine, that races the completion of the upload and *)
(* its scan never takes the object of a version that is to be scanned or   *)
(* that is available.                                                      *)
CompletedIsKept == Stable => ("original" \in object \/ lost)

(* A version is quarantined only when its content is in quarantine, however*)
(* often the storage step was interrupted and repeated, and a cleaned      *)
(* session leaves no object behind.                                        *)
ObjectFollowsStatus ==
  /\ version = "quarantined" => "isolated" \in object
  /\ session = "cleaned" => object = {}

(* The first answer of the scanner that is recorded is final: what it let  *)
(* pass is never taken into quarantine, nor is anything else linked or     *)
(* offered for download.                                                   *)
VerdictIsObeyed ==
  /\ "isolated" \in object => verdict = "infected"
  /\ (link # "none" \/ offered) => verdict = "clean"

(* The outbox tells of every lifecycle change exactly once, although scans *)
(* and quarantines are repeated by several callers.                        *)
Once(b) == IF b THEN 1 ELSE 0
EventsTellStatus ==
  /\ events["completed"] = Once(session = "pending_scan")
  /\ events["available"] = Once(verdict = "clean")
  /\ events["quarantined"] = Once(version = "quarantined")

(* A completed upload gets a verdict that is carried out, and any other    *)
(* session is cleaned up in the end, unless the storage loses the object.  *)
Settled == version \in {"available", "quarantined", "object_missing", "deleted"}
UploadSettles == session # "absent" ~> (Settled \/ lost)
=============================================================================
