---------------------------- MODULE CenterProofs ----------------------------
(***************************************************************************)
(* Proofs about the two modules that keep their own rows in step with      *)
(* somebody else: the file center with the object storage, the task center *)
(* with the source of the tasks.                                           *)
(***************************************************************************)
EXTENDS FileCenter, TaskCenter, TLAPS

-----------------------------------------------------------------------------
(* Proofs about the file center for any number of callers and operations.  *)
(* The inductive invariant relates the rows to each other, the rows to the *)
(* storage, and what a caller is about to do to the rows that allowed it:  *)
(* those may have moved on, but only so that the step is still harmless.   *)

Completed == {"pending_scan", "available", "quarantine_pending", "quarantined", "object_missing"}
CleaningUp == {"cleanup_pending", "cleaned"}

(* What the rows say of each other: the version of a completed session has *)
(* a status of its own, which the verdict decides.                         *)
RowsAgree ==
  /\ (session = "pending_scan") = (version \in Completed)
  /\ (session = "absent") = (version = "absent")
  /\ (verdict = "infected") = (version \in {"quarantine_pending", "quarantined"})
  /\ version = "available" => verdict = "clean"
  /\ version = "pending_scan" => verdict = "none"
  /\ verdict # "none" => session = "pending_scan"
  /\ session \in CleaningUp => expired

(* A receipt is evidence that its command had its effect.                  *)
ReceiptsAreEvidence ==
  \A o \in Operations :
    /\ <<"scan", o>> \in receipts => verdict # "none"
    /\ <<"cleanup", o>> \in receipts => session \in CleaningUp

(* A caller that works on the quarantine does so on a recorded verdict, and*)
(* once it removes the original, or marks the row, the copy is there.      *)
QuarantineSteps ==
  \A c \in Callers :
    /\ call[c].at \in {"isolate", "copy", "remove", "mark"} => verdict = "infected"
    /\ call[c].at \in {"remove", "mark"} => "isolated" \in object

(* A caller deletes only for a session that is being cleaned up and has    *)
(* expired, so that no upload follows.                                     *)
CleanupSteps ==
  \A c \in Callers :
    /\ At(c, "cleanup") => session # "absent" /\ (expired \/ session = "pending_scan")
    /\ call[c].at \in {"delete", "clean"} => session \in CleaningUp
    /\ At(c, "clean") => "original" \notin object

(* The upload that a caller is about to complete is in the storage until   *)
(* the session leaves its first status.                                    *)
CompletionSteps ==
  \A c \in Callers :
    /\ At(c, "complete") => session # "absent"
    /\ At(c, "complete") /\ session = "created" => "original" \in object \/ lost

(* A caller that records a scan or a cleanup works under an operation id,  *)
(* and a scan has an answer.                                               *)
CallsAreNamed ==
  \A c \in Callers :
    /\ call[c].at \in {"record", "cleanup"} => call[c].op \in Operations
    /\ At(c, "record") => call[c].saw \in {"clean", "infected"}

RowsInv == RowsAgree /\ ReceiptsAreEvidence /\ EventsTellStatus
StorageInv == CompletedIsKept /\ ObjectFollowsStatus /\ VerdictIsObeyed
CallersInv == QuarantineSteps /\ CleanupSteps /\ CompletionSteps /\ CallsAreNamed

FileInv == FileTypeOK /\ RowsInv /\ StorageInv /\ CallersInv

(* The steps in which a caller only reads, goes on or gives up.            *)
OnlyReads(c) ==
  \/ InspectUpload(c) \/ ReadForReconcile(c) \/ ReadForDownload(c)
  \/ \E o \in Operations : ReadForScan(c, o) \/ ResumeQuarantine(c, o) \/ ReadForCleanup(c, o)
  \/ RecordReplayed(c) \/ CleanupReplayed(c) \/ InspectForQuarantine(c)
  \/ Ends(c) \/ Abandon(c)

-----------------------------------------------------------------------------
USE DEF rows, storage, At

(* Such a step changes nothing but what the callers do next.               *)
LEMMA OnlyReadsKeepsRows ==
  ASSUME NEW c \in Callers, OnlyReads(c)
  PROVE  UNCHANGED <<rows, storage, expired, offered>>
  BY DEF OnlyReads, InspectUpload, ReadForReconcile, ReadForDownload,
     RecordReplayed, CleanupReplayed, InspectForQuarantine, Ends, Abandon,
     ReadForScan, ResumeQuarantine, ReadForCleanup

(* Every step keeps the state well-typed: a caller records what it has     *)
(* read, under the operation id it has read it for.                        *)
LEMMA FileTypeStep ==
  ASSUME FileInv, FileNext
  PROVE  FileTypeOK'
<1>1. CASE CreateUpload
  BY <1>1
     DEF FileInv, CreateUpload, FileTypeOK, SessionStatuses, VersionStatuses,
        Together
<1>2. CASE Upload
  BY <1>2 DEF FileInv, Upload, FileTypeOK, Together
<1>3. CASE Lose
  BY <1>3 DEF FileInv, Lose, FileTypeOK, Together
<1>4. CASE Expire
  BY <1>4 DEF FileInv, Expire, FileTypeOK, Together
<1>5. CASE LinkResource
  BY <1>5 DEF FileInv, LinkResource, Emit, FileTypeOK, EventTypes, Together
<1>6. CASE UnlinkResource
  BY <1>6 DEF FileInv, UnlinkResource, Emit, FileTypeOK, EventTypes, Together
<1>7. ASSUME NEW c \in Callers, CompleteUpload(c) PROVE FileTypeOK'
  BY <1>7
     DEF FileInv, CompleteUpload, Emit, Done, NoCall, FileTypeOK, SessionStatuses,
        VersionStatuses, EventTypes, Calls, Together, Steps
<1>8. ASSUME NEW c \in Callers, RecordScan(c) PROVE FileTypeOK'
  BY <1>8
     DEF FileInv, RecordScan, MayRecord, Receipt, Emit, Done, Go, NoCall, FileTypeOK,
        VersionStatuses, Commands, Calls, Together, Steps, CallersInv,
        CallsAreNamed
<1>9. ASSUME NEW c \in Callers, CopyObject(c) PROVE FileTypeOK'
  BY <1>9 DEF FileInv, CopyObject, Go, FileTypeOK, Calls, Together, Steps
<1>10. ASSUME NEW c \in Callers, RemoveOriginal(c) PROVE FileTypeOK'
  BY <1>10 DEF FileInv, RemoveOriginal, Go, FileTypeOK, Calls, Together, Steps
<1>11. ASSUME NEW c \in Callers, CompleteQuarantine(c) PROVE FileTypeOK'
  BY <1>11
     DEF FileInv, CompleteQuarantine, MayMark, Emit, Done, NoCall, FileTypeOK,
        VersionStatuses, EventTypes, Calls, Together, Steps
<1>12. ASSUME NEW c \in Callers, CleanupSession(c) PROVE FileTypeOK'
  BY <1>12
     DEF FileInv, CleanupSession, MayClean, Receipt, Go, FileTypeOK, SessionStatuses,
        VersionStatuses, Commands, Calls, Together, Steps, CallersInv,
        CallsAreNamed
<1>13. ASSUME NEW c \in Callers, DeleteObject(c) PROVE FileTypeOK'
  BY <1>13 DEF FileInv, DeleteObject, Go, FileTypeOK, Calls, Together, Steps
<1>14. ASSUME NEW c \in Callers, CompleteCleanup(c) PROVE FileTypeOK'
  BY <1>14
     DEF FileInv, CompleteCleanup, Done, NoCall, FileTypeOK, SessionStatuses,
        VersionStatuses, Calls, Together, Steps
<1>15. ASSUME NEW c \in Callers, MarkReconciled(c) PROVE FileTypeOK'
  BY <1>15
     DEF FileInv, MarkReconciled, Stable, Done, NoCall, FileTypeOK, VersionStatuses,
        Calls, Together, Steps
<1>16. ASSUME NEW c \in Callers, OfferDownload(c) PROVE FileTypeOK'
  BY <1>16
     DEF FileInv, OfferDownload, Done, NoCall, FileTypeOK, Calls, Together, Steps
<1>17. ASSUME NEW c \in Callers, OnlyReads(c) PROVE FileTypeOK'
  <2>1. ASSUME NEW o \in Operations, ReadForScan(c, o) PROVE FileTypeOK'
    BY <2>1 DEF FileInv, ReadForScan, Begin, FileTypeOK, Calls, Together, Steps
  <2>2. ASSUME NEW o \in Operations, ResumeQuarantine(c, o) PROVE FileTypeOK'
    BY <2>2 DEF FileInv, ResumeQuarantine, Begin, FileTypeOK, Calls, Together, Steps
  <2>3. ASSUME NEW o \in Operations, ReadForCleanup(c, o) PROVE FileTypeOK'
    BY <2>3 DEF FileInv, ReadForCleanup, Begin, FileTypeOK, Calls, Together, Steps
  <2>4. CASE InspectUpload(c)
    BY <2>4 DEF FileInv, InspectUpload, Begin, FileTypeOK, Calls, Together, Steps
  <2>5. CASE ReadForReconcile(c)
    BY <2>5 DEF FileInv, ReadForReconcile, Begin, FileTypeOK, Calls, Together, Steps
  <2>6. CASE ReadForDownload(c)
    BY <2>6 DEF FileInv, ReadForDownload, Begin, FileTypeOK, Calls, Together, Steps
  <2>7. CASE RecordReplayed(c)
    BY <2>7
       DEF FileInv, RecordReplayed, Go, Done, NoCall, FileTypeOK, Calls, Together,
          Steps
  <2>8. CASE CleanupReplayed(c)
    BY <2>8 DEF FileInv, CleanupReplayed, Go, FileTypeOK, Calls, Together, Steps
  <2>9. CASE InspectForQuarantine(c)
    BY <2>9 DEF FileInv, InspectForQuarantine, Go, FileTypeOK, Calls, Together, Steps
  <2>10. CASE Ends(c)
    BY <2>10 DEF FileInv, Ends, Done, NoCall, FileTypeOK, Calls, Together, Steps
  <2>11. CASE Abandon(c)
    BY <2>11 DEF FileInv, Abandon, Done, NoCall, FileTypeOK, Calls, Together, Steps
  <2>12. QED
    BY <1>17, <2>1, <2>2, <2>3, <2>4, <2>5, <2>6, <2>7, <2>8, <2>9, <2>10,
       <2>11
       DEF OnlyReads
<1>18. QED
  BY <1>1, <1>2, <1>3, <1>4, <1>5, <1>6, <1>7, <1>8, <1>9, <1>10, <1>11,
     <1>12, <1>13, <1>14, <1>15, <1>16, <1>17
     DEF FileNext, Work, OnlyReads

(* Every step keeps the rows and the events in agreement: the transactions *)
(* look at the rows again, and a cleanup was only begun for a session that *)
(* had expired or that can no longer be cleaned up.                        *)
LEMMA RowsStep ==
  ASSUME FileInv, FileNext
  PROVE  RowsInv'
<1>1. CASE CreateUpload
  BY <1>1
     DEF FileInv, CreateUpload, RowsInv, RowsAgree, ReceiptsAreEvidence,
        EventsTellStatus, Completed, CleaningUp
<1>2. CASE Upload
  BY <1>2
     DEF FileInv, Upload, RowsInv, RowsAgree, ReceiptsAreEvidence,
        EventsTellStatus
<1>3. CASE Lose
  BY <1>3
     DEF FileInv, Lose, RowsInv, RowsAgree, ReceiptsAreEvidence, EventsTellStatus
<1>4. CASE Expire
  BY <1>4
     DEF FileInv, Expire, RowsInv, RowsAgree, ReceiptsAreEvidence,
        EventsTellStatus
<1>5. CASE LinkResource
  BY <1>5
     DEF FileInv, LinkResource, Emit, RowsInv, RowsAgree, ReceiptsAreEvidence,
        EventsTellStatus
<1>6. CASE UnlinkResource
  BY <1>6
     DEF FileInv, UnlinkResource, Emit, RowsInv, RowsAgree, ReceiptsAreEvidence,
        EventsTellStatus
<1>7. ASSUME NEW c \in Callers, CompleteUpload(c) PROVE RowsInv'
  BY <1>7
     DEF FileInv, CompleteUpload, MayComplete, Emit, RowsInv, RowsAgree,
        ReceiptsAreEvidence, EventsTellStatus, Completed, CleaningUp, Once,
        FileTypeOK, EventTypes
<1>8. ASSUME NEW c \in Callers, RecordScan(c) PROVE RowsInv'
  BY <1>8
     DEF FileInv, RecordScan, MayRecord, Receipt, Emit, RowsInv, RowsAgree,
        ReceiptsAreEvidence, EventsTellStatus, Completed, Once, FileTypeOK,
        EventTypes
<1>9. ASSUME NEW c \in Callers, CopyObject(c) PROVE RowsInv'
  BY <1>9
     DEF FileInv, CopyObject, RowsInv, RowsAgree, ReceiptsAreEvidence,
        EventsTellStatus
<1>10. ASSUME NEW c \in Callers, RemoveOriginal(c) PROVE RowsInv'
  BY <1>10
     DEF FileInv, RemoveOriginal, RowsInv, RowsAgree, ReceiptsAreEvidence,
        EventsTellStatus
<1>11. ASSUME NEW c \in Callers, CompleteQuarantine(c) PROVE RowsInv'
  BY <1>11
     DEF FileInv, CompleteQuarantine, MayMark, Emit, RowsInv, RowsAgree,
        ReceiptsAreEvidence, EventsTellStatus, Completed, Once, FileTypeOK,
        EventTypes
<1>12. ASSUME NEW c \in Callers, CleanupSession(c) PROVE RowsInv'
  <2>1. expired /\ verdict' = verdict /\ session' = "cleanup_pending"
    BY <1>12 DEF FileInv, CleanupSession, MayClean, CallersInv, CleanupSteps
  <2>2. ASSUME NEW d \in Operations, <<"scan", d>> \in receipts'
        PROVE  <<"scan", d>> \in receipts
    BY <1>12, <2>2 DEF CleanupSession, Receipt
  <2>3. RowsAgree'
    BY <1>12, <2>1
       DEF FileInv, CleanupSession, MayClean, RowsAgree, Completed, RowsInv
  <2>4. ReceiptsAreEvidence'
    BY <2>1, <2>2 DEF FileInv, RowsInv, ReceiptsAreEvidence, CleaningUp
  <2>5. EventsTellStatus'
    BY <1>12 DEF FileInv, CleanupSession, MayClean, EventsTellStatus, RowsInv
  <2>6. QED
    BY <2>3, <2>4, <2>5 DEF RowsInv
<1>13. ASSUME NEW c \in Callers, DeleteObject(c) PROVE RowsInv'
  BY <1>13
     DEF FileInv, DeleteObject, RowsInv, RowsAgree, ReceiptsAreEvidence,
        EventsTellStatus
<1>14. ASSUME NEW c \in Callers, CompleteCleanup(c) PROVE RowsInv'
  BY <1>14
     DEF FileInv, CompleteCleanup, MayFinishCleanup, RowsInv, RowsAgree,
        ReceiptsAreEvidence, EventsTellStatus, Completed, CleaningUp
<1>15. ASSUME NEW c \in Callers, MarkReconciled(c) PROVE RowsInv'
  BY <1>15
     DEF FileInv, MarkReconciled, Stable, RowsInv, RowsAgree,
        ReceiptsAreEvidence, EventsTellStatus, Completed
<1>16. ASSUME NEW c \in Callers, OfferDownload(c) PROVE RowsInv'
  BY <1>16
     DEF FileInv, OfferDownload, RowsInv, RowsAgree, ReceiptsAreEvidence,
        EventsTellStatus
<1>17. ASSUME NEW c \in Callers, OnlyReads(c) PROVE RowsInv'
  BY <1>17, OnlyReadsKeepsRows
     DEF FileInv, RowsInv, RowsAgree, ReceiptsAreEvidence, EventsTellStatus
<1>18. QED
  BY <1>1, <1>2, <1>3, <1>4, <1>5, <1>6, <1>7, <1>8, <1>9, <1>10, <1>11,
     <1>12, <1>13, <1>14, <1>15, <1>16, <1>17
     DEF FileNext, Work, OnlyReads

(* Every step keeps the objects and the rows in agreement: a caller that   *)
(* removes an original has a verdict or a session that no step takes back. *)
LEMMA StorageStep ==
  ASSUME FileInv, FileNext
  PROVE  StorageInv'
<1>1. CASE CreateUpload
  BY <1>1
     DEF FileInv, CreateUpload, StorageInv, CompletedIsKept, ObjectFollowsStatus,
        VerdictIsObeyed, Stable
<1>2. CASE Upload
  BY <1>2
     DEF FileInv, Upload, StorageInv, CompletedIsKept, ObjectFollowsStatus,
        VerdictIsObeyed, RowsInv, RowsAgree, CleaningUp
<1>3. CASE Lose
  BY <1>3
     DEF FileInv, Lose, StorageInv, CompletedIsKept, ObjectFollowsStatus,
        VerdictIsObeyed
<1>4. CASE Expire
  BY <1>4
     DEF FileInv, Expire, StorageInv, CompletedIsKept, ObjectFollowsStatus,
        VerdictIsObeyed, Stable
<1>5. CASE LinkResource
  BY <1>5
     DEF FileInv, LinkResource, StorageInv, CompletedIsKept, ObjectFollowsStatus,
        VerdictIsObeyed, Stable, RowsInv, RowsAgree
<1>6. CASE UnlinkResource
  BY <1>6
     DEF FileInv, UnlinkResource, StorageInv, CompletedIsKept,
        ObjectFollowsStatus, VerdictIsObeyed, Stable
<1>7. ASSUME NEW c \in Callers, CompleteUpload(c) PROVE StorageInv'
  BY <1>7
     DEF FileInv, CompleteUpload, MayComplete, StorageInv, CompletedIsKept,
        ObjectFollowsStatus, VerdictIsObeyed, CallersInv, CompletionSteps
<1>8. ASSUME NEW c \in Callers, RecordScan(c) PROVE StorageInv'
  BY <1>8
     DEF FileInv, RecordScan, MayRecord, StorageInv, CompletedIsKept,
        ObjectFollowsStatus, VerdictIsObeyed, Stable, RowsInv, RowsAgree
<1>9. ASSUME NEW c \in Callers, CopyObject(c) PROVE StorageInv'
  BY <1>9
     DEF FileInv, CopyObject, StorageInv, CompletedIsKept, ObjectFollowsStatus,
        VerdictIsObeyed, CallersInv, QuarantineSteps
<1>10. ASSUME NEW c \in Callers, RemoveOriginal(c) PROVE StorageInv'
  BY <1>10
     DEF FileInv, RemoveOriginal, StorageInv, CompletedIsKept,
        ObjectFollowsStatus, VerdictIsObeyed, Stable, RowsInv, RowsAgree,
        CallersInv, QuarantineSteps
<1>11. ASSUME NEW c \in Callers, CompleteQuarantine(c) PROVE StorageInv'
  BY <1>11
     DEF FileInv, CompleteQuarantine, MayMark, StorageInv, CompletedIsKept,
        ObjectFollowsStatus, VerdictIsObeyed, Stable, CallersInv,
        QuarantineSteps
<1>12. ASSUME NEW c \in Callers, CleanupSession(c) PROVE StorageInv'
  BY <1>12
     DEF FileInv, CleanupSession, StorageInv, CompletedIsKept,
        ObjectFollowsStatus, VerdictIsObeyed, Stable
<1>13. ASSUME NEW c \in Callers, DeleteObject(c) PROVE StorageInv'
  BY <1>13
     DEF FileInv, DeleteObject, StorageInv, CompletedIsKept, ObjectFollowsStatus,
        VerdictIsObeyed, Stable, FileTypeOK, Together, CleaningUp, CallersInv,
        CleanupSteps
<1>14. ASSUME NEW c \in Callers, CompleteCleanup(c) PROVE StorageInv'
  BY <1>14
     DEF FileInv, CompleteCleanup, MayFinishCleanup, StorageInv, CompletedIsKept,
        ObjectFollowsStatus, VerdictIsObeyed, Stable, FileTypeOK, RowsInv,
        RowsAgree, CallersInv, CleanupSteps
<1>15. ASSUME NEW c \in Callers, MarkReconciled(c) PROVE StorageInv'
  BY <1>15
     DEF FileInv, MarkReconciled, Stable, StorageInv, CompletedIsKept,
        ObjectFollowsStatus, VerdictIsObeyed
<1>16. ASSUME NEW c \in Callers, OfferDownload(c) PROVE StorageInv'
  BY <1>16
     DEF FileInv, OfferDownload, StorageInv, CompletedIsKept,
        ObjectFollowsStatus, VerdictIsObeyed
<1>17. ASSUME NEW c \in Callers, OnlyReads(c) PROVE StorageInv'
  BY <1>17, OnlyReadsKeepsRows
     DEF FileInv, StorageInv, CompletedIsKept, ObjectFollowsStatus,
        VerdictIsObeyed, Stable
<1>18. QED
  BY <1>1, <1>2, <1>3, <1>4, <1>5, <1>6, <1>7, <1>8, <1>9, <1>10, <1>11,
     <1>12, <1>13, <1>14, <1>15, <1>16, <1>17
     DEF FileNext, Work, OnlyReads

(* Every step keeps what callers are about to do harmless, also the steps  *)
(* of the others.                                                          *)
LEMMA CallersStep ==
  ASSUME FileInv, FileNext
  PROVE  CallersInv'
<1>1. CASE CreateUpload
  BY <1>1
     DEF FileInv, CreateUpload, CallersInv, QuarantineSteps, CleanupSteps,
        CompletionSteps, CallsAreNamed, CleaningUp
<1>2. CASE Upload
  BY <1>2
     DEF FileInv, Upload, CallersInv, QuarantineSteps, CleanupSteps,
        CompletionSteps, CallsAreNamed, RowsInv, RowsAgree
<1>3. CASE Lose
  BY <1>3
     DEF FileInv, Lose, CallersInv, QuarantineSteps, CleanupSteps,
        CompletionSteps, CallsAreNamed
<1>4. CASE Expire
  BY <1>4
     DEF FileInv, Expire, CallersInv, QuarantineSteps, CleanupSteps,
        CompletionSteps, CallsAreNamed
<1>5. CASE LinkResource
  BY <1>5
     DEF FileInv, LinkResource, CallersInv, QuarantineSteps, CleanupSteps,
        CompletionSteps, CallsAreNamed
<1>6. CASE UnlinkResource
  BY <1>6
     DEF FileInv, UnlinkResource, CallersInv, QuarantineSteps, CleanupSteps,
        CompletionSteps, CallsAreNamed
<1>7. ASSUME NEW c \in Callers, CompleteUpload(c) PROVE CallersInv'
  BY <1>7
     DEF FileInv, CompleteUpload, MayComplete, Done, NoCall, CallersInv,
        QuarantineSteps, CleanupSteps, CompletionSteps, CallsAreNamed,
        CleaningUp
<1>8. ASSUME NEW c \in Callers, RecordScan(c) PROVE CallersInv'
  BY <1>8
     DEF FileInv, RecordScan, MayRecord, Done, Go, NoCall, CallersInv,
        QuarantineSteps, CleanupSteps, CompletionSteps, CallsAreNamed, FileTypeOK,
        RowsInv, RowsAgree
<1>9. ASSUME NEW c \in Callers, CopyObject(c) PROVE CallersInv'
  BY <1>9
     DEF FileInv, CopyObject, Go, CallersInv, QuarantineSteps, CleanupSteps,
        CompletionSteps, CallsAreNamed
<1>10. ASSUME NEW c \in Callers, RemoveOriginal(c) PROVE CallersInv'
  BY <1>10
     DEF FileInv, RemoveOriginal, Go, CallersInv, QuarantineSteps, CleanupSteps,
        CompletionSteps, CallsAreNamed, RowsInv, RowsAgree
<1>11. ASSUME NEW c \in Callers, CompleteQuarantine(c) PROVE CallersInv'
  BY <1>11
     DEF FileInv, CompleteQuarantine, Done, NoCall, CallersInv, QuarantineSteps,
        CleanupSteps, CompletionSteps, CallsAreNamed
<1>12. ASSUME NEW c \in Callers, CleanupSession(c) PROVE CallersInv'
  BY <1>12
     DEF FileInv, CleanupSession, MayClean, Go, CallersInv, QuarantineSteps,
        CleanupSteps, CompletionSteps, CallsAreNamed, CleaningUp
<1>13. ASSUME NEW c \in Callers, DeleteObject(c) PROVE CallersInv'
  BY <1>13
     DEF FileInv, DeleteObject, Go, CallersInv, QuarantineSteps, CleanupSteps,
        CompletionSteps, CallsAreNamed, CleaningUp
<1>14. ASSUME NEW c \in Callers, CompleteCleanup(c) PROVE CallersInv'
  BY <1>14
     DEF FileInv, CompleteCleanup, MayFinishCleanup, Done, NoCall, CallersInv,
        QuarantineSteps, CleanupSteps, CompletionSteps, CallsAreNamed,
        CleaningUp
<1>15. ASSUME NEW c \in Callers, MarkReconciled(c) PROVE CallersInv'
  BY <1>15
     DEF FileInv, MarkReconciled, Done, NoCall, CallersInv, QuarantineSteps,
        CleanupSteps, CompletionSteps, CallsAreNamed
<1>16. ASSUME NEW c \in Callers, OfferDownload(c) PROVE CallersInv'
  BY <1>16
     DEF FileInv, OfferDownload, Done, NoCall, CallersInv, QuarantineSteps,
        CleanupSteps, CompletionSteps, CallsAreNamed
<1>17. ASSUME NEW c \in Callers, OnlyReads(c) PROVE CallersInv'
  <2>1. ASSUME NEW o \in Operations, ReadForScan(c, o) PROVE CallersInv'
    BY <2>1
       DEF FileInv, ReadForScan, Begin, CallersInv, QuarantineSteps,
          CleanupSteps, CompletionSteps, CallsAreNamed
  <2>2. ASSUME NEW o \in Operations, ResumeQuarantine(c, o) PROVE CallersInv'
    BY <2>2
       DEF FileInv, ResumeQuarantine, Resumes, Begin, CallersInv,
          QuarantineSteps, CleanupSteps, CompletionSteps, CallsAreNamed,
          RowsInv, RowsAgree
  <2>3. ASSUME NEW o \in Operations, ReadForCleanup(c, o) PROVE CallersInv'
    BY <2>3
       DEF FileInv, ReadForCleanup, Begin, CallersInv, QuarantineSteps,
          CleanupSteps, CompletionSteps, CallsAreNamed, CleaningUp, FileTypeOK,
          SessionStatuses, RowsInv, RowsAgree
  <2>4. CASE InspectUpload(c)
    BY <2>4
       DEF FileInv, InspectUpload, Begin, CallersInv, QuarantineSteps,
          CleanupSteps, CompletionSteps, CallsAreNamed
  <2>5. CASE ReadForReconcile(c)
    BY <2>5
       DEF FileInv, ReadForReconcile, Begin, CallersInv, QuarantineSteps,
          CleanupSteps, CompletionSteps, CallsAreNamed
  <2>6. CASE ReadForDownload(c)
    BY <2>6
       DEF FileInv, ReadForDownload, Begin, CallersInv, QuarantineSteps,
          CleanupSteps, CompletionSteps, CallsAreNamed
  <2>7. CASE RecordReplayed(c)
    BY <2>7
       DEF FileInv, RecordReplayed, Go, Done, NoCall, CallersInv,
          QuarantineSteps, CleanupSteps, CompletionSteps, CallsAreNamed,
          FileTypeOK
  <2>8. CASE CleanupReplayed(c)
    BY <2>8
       DEF FileInv, CleanupReplayed, Receipted, Go, CallersInv, QuarantineSteps,
          CleanupSteps, CompletionSteps, CallsAreNamed, CleaningUp, FileTypeOK,
          SessionStatuses, VersionStatuses, Commands, EventTypes, Calls,
          Together, Steps, RowsInv, RowsAgree, ReceiptsAreEvidence,
          EventsTellStatus, Completed, Once, StorageInv, CompletedIsKept,
          ObjectFollowsStatus, VerdictIsObeyed, Stable
  <2>9. CASE InspectForQuarantine(c)
    <3>1. "original" \in object \/ "isolated" \in object
      BY <2>9 DEF FileInv, InspectForQuarantine, FileTypeOK
    <3>2. QED
      BY <2>9, <3>1
         DEF FileInv, InspectForQuarantine, Go, CallersInv, QuarantineSteps,
            CleanupSteps, CompletionSteps, CallsAreNamed
  <2>10. CASE Ends(c)
    BY <2>10
       DEF FileInv, Ends, Done, NoCall, CallersInv, QuarantineSteps,
          CleanupSteps, CompletionSteps, CallsAreNamed
  <2>11. CASE Abandon(c)
    BY <2>11
       DEF FileInv, Abandon, Done, NoCall, CallersInv, QuarantineSteps,
          CleanupSteps, CompletionSteps, CallsAreNamed
  <2>12. QED
    BY <1>17, <2>1, <2>2, <2>3, <2>4, <2>5, <2>6, <2>7, <2>8, <2>9, <2>10,
       <2>11
       DEF OnlyReads
<1>18. QED
  BY <1>1, <1>2, <1>3, <1>4, <1>5, <1>6, <1>7, <1>8, <1>9, <1>10, <1>11,
     <1>12, <1>13, <1>14, <1>15, <1>16, <1>17
     DEF FileNext, Work, OnlyReads

(* Nothing is created and nobody is at work.                               *)
LEMMA FileStarts == FileInit => FileInv
<1>1. SUFFICES ASSUME FileInit PROVE FileInv
  OBVIOUS
<1>2. FileTypeOK
  BY <1>1 DEF FileInit, FileTypeOK, SessionStatuses, VersionStatuses, EventTypes, Calls, Steps, NoCall,
              Together
<1>3. RowsInv
  BY <1>1 DEF FileInit, RowsInv, RowsAgree, ReceiptsAreEvidence, EventsTellStatus, Completed,
              CleaningUp, EventTypes, Once
<1>4. StorageInv
  BY <1>1 DEF FileInit, StorageInv, CompletedIsKept, ObjectFollowsStatus, VerdictIsObeyed, Stable
<1>5. CallersInv
  BY <1>1 DEF FileInit, CallersInv, QuarantineSteps, CleanupSteps, CompletionSteps, CallsAreNamed,
              NoCall
<1>6. QED
  BY <1>2, <1>3, <1>4, <1>5 DEF FileInv

(* Nothing in it is disturbed by a step of something else.                 *)
LEMMA FileRests == FileInv /\ UNCHANGED fileVars => FileInv'
  BY DEF fileVars, FileInv, FileTypeOK, Together, RowsInv, RowsAgree, ReceiptsAreEvidence, EventsTellStatus,
         Once, StorageInv, CompletedIsKept, ObjectFollowsStatus, VerdictIsObeyed, Stable,
         CallersInv, QuarantineSteps, CleanupSteps, CompletionSteps, CallsAreNamed

(* The invariant holds whatever callers, storage and clock do.             *)
THEOREM FileInvariance == FileSafeSpec => []FileInv
<1>1. FileInv /\ [FileNext]_fileVars => FileInv'
  <2>1. SUFFICES ASSUME FileInv, [FileNext]_fileVars PROVE FileInv'
    OBVIOUS
  <2>2. CASE FileNext
    BY <2>1, <2>2, FileTypeStep, RowsStep, StorageStep, CallersStep DEF FileInv
  <2>3. CASE UNCHANGED fileVars
    BY <2>1, <2>3, FileRests
  <2>4. QED
    BY <2>1, <2>2, <2>3
<1>2. QED
  BY <1>1, FileStarts, PTL DEF FileSafeSpec

(* Every variable keeps its type, and the statuses of the session and its  *)
(* version their correspondence.                                           *)
THEOREM FileTypeCorrect == FileSafeSpec => []FileTypeOK
  BY FileInvariance, PTL DEF FileInv

(* No race of a cleanup or a quarantine with the completion of the upload  *)
(* takes the object of a version to be scanned or available.               *)
THEOREM ContentIsKept == FileSafeSpec => []CompletedIsKept
<1>1. FileInv => CompletedIsKept
  BY DEF FileInv, StorageInv
<1>2. QED
  BY <1>1, FileInvariance, PTL

(* Quarantined content is in quarantine, and nothing is left of a cleaned  *)
(* session, however often the storage steps were repeated.                 *)
THEOREM StatusTellsStorage == FileSafeSpec => []ObjectFollowsStatus
<1>1. FileInv => ObjectFollowsStatus
  BY DEF FileInv, StorageInv
<1>2. QED
  BY <1>1, FileInvariance, PTL

(* What was not found clean is never linked or offered, and what was is    *)
(* never put in quarantine.                                                *)
THEOREM VerdictRules == FileSafeSpec => []VerdictIsObeyed
<1>1. FileInv => VerdictIsObeyed
  BY DEF FileInv, StorageInv
<1>2. QED
  BY <1>1, FileInvariance, PTL

(* Every lifecycle event is in the outbox exactly once.                    *)
THEOREM EventsAreExact == FileSafeSpec => []EventsTellStatus
<1>1. FileInv => EventsTellStatus
  BY DEF FileInv, RowsInv
<1>2. QED
  BY <1>1, FileInvariance, PTL

(* The first verdict that is recorded is never replaced, though scans are  *)
(* repeated and the scanner may change its mind.                           *)
VerdictIsFinal == [][verdict # "none" => verdict' = verdict]_fileVars

(* Only the transaction of RecordScan writes a verdict, for a version that *)
(* still waits for its first.                                              *)
THEOREM FirstVerdictStands == FileSafeSpec => VerdictIsFinal
<1>1. FileInv /\ [FileNext]_fileVars => [verdict # "none" => verdict' = verdict]_fileVars
  <2>1. SUFFICES ASSUME FileInv, FileNext, verdict # "none" PROVE verdict' = verdict
    BY DEF fileVars
  <2>2. ASSUME NEW c \in Callers, RecordScan(c) PROVE FALSE
    BY <2>1, <2>2 DEF RecordScan, MayRecord, FileInv, RowsInv, RowsAgree
  <2>3. ASSUME NEW c \in Callers, OnlyReads(c) PROVE verdict' = verdict
    BY <2>3, OnlyReadsKeepsRows
  <2>4. QED
    BY <2>1, <2>2, <2>3
       DEF FileNext, Work, OnlyReads, CreateUpload, Upload, Lose, Expire, LinkResource, UnlinkResource,
           CompleteUpload, CopyObject, RemoveOriginal, CompleteQuarantine, CleanupSession,
           DeleteObject, CompleteCleanup, MarkReconciled, OfferDownload
<1>2. QED
  BY <1>1, FileInvariance, PTL DEF FileSafeSpec, VerdictIsFinal

-----------------------------------------------------------------------------
(* Proofs about the task center for any number of callers, principals and  *)
(* versions. The projection needs no more than the source's history and the*)
(* version a reconciliation has in hand; the command needs, for each caller*)
(* that goes on with it, what its lease and its step vouch for.            *)

HIDE DEF rows, storage, At

(* The source has room for the version that ends an open task, and what a  *)
(* reconciliation read was there to be read.                               *)
SourceIsAhead ==
  /\ Open => Current < MaxVersion
  /\ reading <= Current

(* Whoever holds the lease is on its way from the claim to the answer, and *)
(* asks on behalf of the principal the row was inserted with.              *)
OwnerIsEntitled ==
  \A c \in Completers :
    Owns(c) => /\ pc[c] \in {"route", "accept", "release"}
               /\ command.principal = principal[c]

(* A call has a principal.                                                 *)
CallsHavePrincipals == \A c \in Completers : pc[c] # "idle" => principal[c] \in Principals

(* A caller that has the source's answer, and a row that records it, tell  *)
(* of something the source did.                                            *)
AcceptanceIsTrue ==
  /\ \A c \in Completers : pc[c] = "accept" => executed # Nobody
  /\ command.status = "accepted" => executed # Nobody

ProjectionInv == SourceIsAhead /\ ProjectionIsPastFact /\ ShownIsAnnounced
CommandInv == OwnerIsEntitled /\ CallsHavePrincipals /\ AcceptanceIsTrue /\ AnswersAreRecorded

TaskInv == TaskTypeOK /\ ProjectionInv /\ CommandInv

-----------------------------------------------------------------------------
USE DEF facts, task, completion

(* A new version leaves the old ones as they were.                         *)
LEMMA HistoryGrows ==
  ASSUME NEW s \in Statuses, source \in Seq(Statuses), source' = Append(source, s)
  PROVE  /\ source' \in Seq(Statuses) /\ Len(source') = Len(source) + 1
         /\ source'[Len(source')] = s
         /\ \A v \in 1 .. Len(source) : source'[v] = source[v]
  OBVIOUS

(* The source has room for the completion that a caller asks for.          *)
LEMMA CompletionFits ==
  ASSUME TaskTypeOK, SourceIsAhead, NEW c \in Completers, SourceExecutes(c) \/ UNCHANGED facts
  PROVE  source' \in Seq(Statuses) /\ Len(source') \in Versions
<1>1. CASE Open /\ source' = Append(source, "completed")
  <2>1. source' \in Seq(Statuses) /\ Len(source') = Len(source) + 1
    BY <1>1, HistoryGrows DEF TaskTypeOK, Statuses
  <2>2. QED
    BY <1>1, <2>1, VersionsAssumption DEF TaskTypeOK, Versions, SourceIsAhead, Current
<1>2. QED
  BY <1>1 DEF SourceExecutes, TaskTypeOK

(* Every step keeps the state well-typed: the source has room for an end.  *)
LEMMA TaskTypeStep ==
  ASSUME TaskTypeOK, SourceIsAhead, CallsHavePrincipals, TaskNext
  PROVE  TaskTypeOK'
<1> USE DEF TaskTypeOK, Versions, Statuses, Locations
<1>1. ASSUME NEW s \in Statuses, SourceMoves(s) PROVE TaskTypeOK'
  <2>1. source' \in Seq(Statuses) /\ Len(source') \in Versions
    BY <1>1, HistoryGrows, VersionsAssumption DEF SourceMoves, SourceIsAhead, Open, Current
  <2>2. QED
    BY <1>1, <2>1 DEF SourceMoves
<1>2. ASSUME NEW v \in Versions, ApplyEvent(v) PROVE TaskTypeOK'
  <2>1. projection' \in [version : 0 .. MaxVersion, status : Statuses, title : {"default", "display"}]
    BY <1>2, VersionsAssumption DEF ApplyEvent, Arrives, Facts, Current
  <2>2. QED
    BY <1>2, <2>1 DEF ApplyEvent, Announced
<1>3. ASSUME NEW v \in Versions, ApplyStale(v) PROVE TaskTypeOK'
  BY <1>3 DEF ApplyStale
<1>4. CASE ReadSource
  BY <1>4, VersionsAssumption DEF ReadSource, Current
<1>5. CASE Reconcile
  <2>1. reading \in Versions /\ reading <= Len(source)
    BY <1>5 DEF Reconcile, SourceIsAhead, Current
  <2>2. projection' \in [version : 0 .. MaxVersion, status : Statuses, title : {"default", "display"}]
    BY <1>5, <2>1, VersionsAssumption DEF Reconcile, Facts
  <2>3. announced' \subseteq Versions
    BY <1>5, <2>1 DEF Reconcile, Announced
  <2>4. QED
    BY <1>5, <2>2, <2>3, VersionsAssumption DEF Reconcile
<1>6. CASE ReconcileEnds
  BY <1>6, VersionsAssumption DEF ReconcileEnds
<1>7. ASSUME NEW c \in Completers, NEW p \in Principals, Call(c, p) PROVE TaskTypeOK'
  BY <1>7 DEF Call, GoesTo
<1>8. ASSUME NEW c \in Completers, Claim(c) PROVE TaskTypeOK'
  BY <1>8 DEF Claim, GoesTo
<1>9. ASSUME NEW c \in Completers, TakeOver(c) PROVE TaskTypeOK'
  BY <1>9 DEF TakeOver, MayTakeOver, GoesTo
<1>10. ASSUME NEW c \in Completers, ClaimRefused(c) PROVE TaskTypeOK'
  BY <1>10 DEF ClaimRefused, GoesTo
<1>11. ASSUME NEW c \in Completers, ReadAccepted(c) PROVE TaskTypeOK'
  BY <1>11, VersionsAssumption DEF ReadAccepted, CallsHavePrincipals, Answer, Idle, GoesTo
<1>12. ASSUME NEW c \in Completers, ReadOther(c) PROVE TaskTypeOK'
  BY <1>12 DEF ReadOther, Idle, GoesTo
<1>13. ASSUME NEW c \in Completers, RouteAccepted(c) PROVE TaskTypeOK'
  <2>1. executed' \in Principals \cup {Nobody}
    BY <1>13 DEF RouteAccepted, SourceExecutes, CallsHavePrincipals
  <2>2. source' \in Seq(Statuses) /\ Len(source') \in Versions
    BY <1>13, CompletionFits DEF RouteAccepted
  <2>3. QED
    BY <1>13, <2>1, <2>2 DEF RouteAccepted, GoesTo
<1>14. ASSUME NEW c \in Completers, RouteFails(c) PROVE TaskTypeOK'
  <2>1. executed' \in Principals \cup {Nobody}
    BY <1>14 DEF RouteFails, SourceExecutes, CallsHavePrincipals
  <2>2. source' \in Seq(Statuses) /\ Len(source') \in Versions
    BY <1>14, CompletionFits DEF RouteFails
  <2>3. QED
    BY <1>14, <2>1, <2>2 DEF RouteFails, GoesTo
<1>15. ASSUME NEW c \in Completers, Accept(c) PROVE TaskTypeOK'
  <2>1. answers' \subseteq Principals
    BY <1>15 DEF Accept, CallsHavePrincipals, Answer
  <2>2. command' \in [status : {"absent", "running", "accepted"}, principal : Principals \cup {Nobody},
                     owner : Completers \cup {Nobody}, expired : BOOLEAN]
    BY <1>15 DEF Accept
  <2>3. QED
    BY <1>15, <2>1, <2>2 DEF Accept, Idle, GoesTo
<1>16. ASSUME NEW c \in Completers, AcceptRefused(c) PROVE TaskTypeOK'
  BY <1>16 DEF AcceptRefused, Idle, GoesTo
<1>17. ASSUME NEW c \in Completers, Release(c) PROVE TaskTypeOK'
  BY <1>17 DEF Release, NoCommand, Idle, GoesTo
<1>18. ASSUME NEW c \in Completers, CompleterDies(c) PROVE TaskTypeOK'
  BY <1>18 DEF CompleterDies, Idle, GoesTo
<1>19. CASE LeaseExpires
  BY <1>19 DEF LeaseExpires
<1>20. QED
  BY <1>1, <1>2, <1>3, <1>4, <1>5, <1>6, <1>7, <1>8, <1>9, <1>10, <1>11, <1>12, <1>13, <1>14, <1>15, <1>16, <1>17, <1>18, <1>19 DEF TaskNext

(* A version is read only when it is there.                                *)
LEMMA SourceStep ==
  ASSUME TaskTypeOK, SourceIsAhead, TaskNext
  PROVE  SourceIsAhead'
<1> USE DEF TaskTypeOK, Versions, SourceIsAhead, Open, Current
<1>1. ASSUME NEW s \in Statuses, SourceMoves(s) PROVE SourceIsAhead'
  BY <1>1, HistoryGrows, VersionsAssumption DEF SourceMoves
<1>2. ASSUME NEW v \in Versions, ApplyEvent(v) PROVE SourceIsAhead'
  BY <1>2 DEF ApplyEvent, Arrives, Announced, Facts
<1>3. ASSUME NEW v \in Versions, ApplyStale(v) PROVE SourceIsAhead'
  BY <1>3 DEF ApplyStale
<1>4. CASE ReadSource
  BY <1>4 DEF ReadSource
<1>5. CASE Reconcile
  BY <1>5 DEF Reconcile, Outdated, Announced, Facts
<1>6. CASE ReconcileEnds
  BY <1>6 DEF ReconcileEnds
<1>7. ASSUME NEW c \in Completers, NEW p \in Principals, Call(c, p) PROVE SourceIsAhead'
  BY <1>7 DEF Call, GoesTo
<1>8. ASSUME NEW c \in Completers, Claim(c) PROVE SourceIsAhead'
  BY <1>8 DEF Claim, GoesTo
<1>9. ASSUME NEW c \in Completers, TakeOver(c) PROVE SourceIsAhead'
  BY <1>9 DEF TakeOver, MayTakeOver, GoesTo
<1>10. ASSUME NEW c \in Completers, ClaimRefused(c) PROVE SourceIsAhead'
  BY <1>10 DEF ClaimRefused, GoesTo
<1>11. ASSUME NEW c \in Completers, ReadAccepted(c) PROVE SourceIsAhead'
  BY <1>11 DEF ReadAccepted, Answer, Idle, GoesTo
<1>12. ASSUME NEW c \in Completers, ReadOther(c) PROVE SourceIsAhead'
  BY <1>12 DEF ReadOther, Idle, GoesTo
<1>13. ASSUME NEW c \in Completers, RouteAccepted(c) PROVE SourceIsAhead'
  BY <1>13 DEF RouteAccepted, SourceExecutes, GoesTo
<1>14. ASSUME NEW c \in Completers, RouteFails(c) PROVE SourceIsAhead'
  BY <1>14 DEF RouteFails, SourceExecutes, GoesTo
<1>15. ASSUME NEW c \in Completers, Accept(c) PROVE SourceIsAhead'
  BY <1>15 DEF Accept, Answer, Idle, GoesTo
<1>16. ASSUME NEW c \in Completers, AcceptRefused(c) PROVE SourceIsAhead'
  BY <1>16 DEF AcceptRefused, Idle, GoesTo
<1>17. ASSUME NEW c \in Completers, Release(c) PROVE SourceIsAhead'
  BY <1>17 DEF Release, NoCommand, Idle, GoesTo
<1>18. ASSUME NEW c \in Completers, CompleterDies(c) PROVE SourceIsAhead'
  BY <1>18 DEF CompleterDies, Idle, GoesTo
<1>19. CASE LeaseExpires
  BY <1>19 DEF LeaseExpires
<1>20. QED
  BY <1>1, <1>2, <1>3, <1>4, <1>5, <1>6, <1>7, <1>8, <1>9, <1>10, <1>11, <1>12, <1>13, <1>14, <1>15, <1>16, <1>17, <1>18, <1>19 DEF TaskNext

(* The projection takes over what the source said.                         *)
LEMMA ProjectionStep ==
  ASSUME TaskTypeOK, ProjectionInv, TaskNext
  PROVE  (ProjectionIsPastFact /\ ShownIsAnnounced)'
<1> USE DEF TaskTypeOK, Versions, ProjectionInv, SourceIsAhead, ProjectionIsPastFact, ShownIsAnnounced, Current
<1>1. ASSUME NEW s \in Statuses, SourceMoves(s) PROVE (ProjectionIsPastFact /\ ShownIsAnnounced)'
  BY <1>1, HistoryGrows DEF SourceMoves
<1>2. ASSUME NEW v \in Versions, ApplyEvent(v) PROVE (ProjectionIsPastFact /\ ShownIsAnnounced)'
  BY <1>2 DEF ApplyEvent, Arrives, Announced, Facts
<1>3. ASSUME NEW v \in Versions, ApplyStale(v) PROVE (ProjectionIsPastFact /\ ShownIsAnnounced)'
  BY <1>3 DEF ApplyStale
<1>4. CASE ReadSource
  BY <1>4 DEF ReadSource
<1>5. CASE Reconcile
  BY <1>5 DEF Reconcile, Outdated, Announced, Facts
<1>6. CASE ReconcileEnds
  BY <1>6 DEF ReconcileEnds
<1>7. ASSUME NEW c \in Completers, NEW p \in Principals, Call(c, p) PROVE (ProjectionIsPastFact /\ ShownIsAnnounced)'
  BY <1>7 DEF Call, GoesTo
<1>8. ASSUME NEW c \in Completers, Claim(c) PROVE (ProjectionIsPastFact /\ ShownIsAnnounced)'
  BY <1>8 DEF Claim, GoesTo
<1>9. ASSUME NEW c \in Completers, TakeOver(c) PROVE (ProjectionIsPastFact /\ ShownIsAnnounced)'
  BY <1>9 DEF TakeOver, MayTakeOver, GoesTo
<1>10. ASSUME NEW c \in Completers, ClaimRefused(c) PROVE (ProjectionIsPastFact /\ ShownIsAnnounced)'
  BY <1>10 DEF ClaimRefused, GoesTo
<1>11. ASSUME NEW c \in Completers, ReadAccepted(c) PROVE (ProjectionIsPastFact /\ ShownIsAnnounced)'
  BY <1>11 DEF ReadAccepted, Answer, Idle, GoesTo
<1>12. ASSUME NEW c \in Completers, ReadOther(c) PROVE (ProjectionIsPastFact /\ ShownIsAnnounced)'
  BY <1>12 DEF ReadOther, Idle, GoesTo
<1>13. ASSUME NEW c \in Completers, RouteAccepted(c) PROVE (ProjectionIsPastFact /\ ShownIsAnnounced)'
  BY <1>13 DEF RouteAccepted, SourceExecutes, GoesTo
<1>14. ASSUME NEW c \in Completers, RouteFails(c) PROVE (ProjectionIsPastFact /\ ShownIsAnnounced)'
  BY <1>14 DEF RouteFails, SourceExecutes, GoesTo
<1>15. ASSUME NEW c \in Completers, Accept(c) PROVE (ProjectionIsPastFact /\ ShownIsAnnounced)'
  BY <1>15 DEF Accept, Answer, Idle, GoesTo
<1>16. ASSUME NEW c \in Completers, AcceptRefused(c) PROVE (ProjectionIsPastFact /\ ShownIsAnnounced)'
  BY <1>16 DEF AcceptRefused, Idle, GoesTo
<1>17. ASSUME NEW c \in Completers, Release(c) PROVE (ProjectionIsPastFact /\ ShownIsAnnounced)'
  BY <1>17 DEF Release, NoCommand, Idle, GoesTo
<1>18. ASSUME NEW c \in Completers, CompleterDies(c) PROVE (ProjectionIsPastFact /\ ShownIsAnnounced)'
  BY <1>18 DEF CompleterDies, Idle, GoesTo
<1>19. CASE LeaseExpires
  BY <1>19 DEF LeaseExpires
<1>20. QED
  BY <1>1, <1>2, <1>3, <1>4, <1>5, <1>6, <1>7, <1>8, <1>9, <1>10, <1>11, <1>12, <1>13, <1>14, <1>15, <1>16, <1>17, <1>18, <1>19 DEF TaskNext

(* A lease is taken for the row's principal, and let go with the call.     *)
LEMMA OwnerStep ==
  ASSUME TaskTypeOK, OwnerIsEntitled, CallsHavePrincipals, TaskNext
  PROVE  (OwnerIsEntitled /\ CallsHavePrincipals)'
<1> USE DEF TaskTypeOK, Locations, OwnerIsEntitled, CallsHavePrincipals, Owns
<1>1. ASSUME NEW s \in Statuses, SourceMoves(s) PROVE (OwnerIsEntitled /\ CallsHavePrincipals)'
  BY <1>1, NobodyAssumption DEF SourceMoves
<1>2. ASSUME NEW v \in Versions, ApplyEvent(v) PROVE (OwnerIsEntitled /\ CallsHavePrincipals)'
  BY <1>2, NobodyAssumption DEF ApplyEvent, Arrives, Announced, Facts
<1>3. ASSUME NEW v \in Versions, ApplyStale(v) PROVE (OwnerIsEntitled /\ CallsHavePrincipals)'
  BY <1>3, NobodyAssumption DEF ApplyStale
<1>4. CASE ReadSource
  BY <1>4, NobodyAssumption DEF ReadSource
<1>5. CASE Reconcile
  BY <1>5, NobodyAssumption DEF Reconcile, Outdated, Announced, Facts
<1>6. CASE ReconcileEnds
  BY <1>6, NobodyAssumption DEF ReconcileEnds
<1>7. ASSUME NEW c \in Completers, NEW p \in Principals, Call(c, p) PROVE (OwnerIsEntitled /\ CallsHavePrincipals)'
  BY <1>7, NobodyAssumption DEF Call, GoesTo
<1>8. ASSUME NEW c \in Completers, Claim(c) PROVE (OwnerIsEntitled /\ CallsHavePrincipals)'
  BY <1>8, NobodyAssumption DEF Claim, GoesTo
<1>9. ASSUME NEW c \in Completers, TakeOver(c) PROVE (OwnerIsEntitled /\ CallsHavePrincipals)'
  BY <1>9, NobodyAssumption DEF TakeOver, MayTakeOver, GoesTo
<1>10. ASSUME NEW c \in Completers, ClaimRefused(c) PROVE (OwnerIsEntitled /\ CallsHavePrincipals)'
  BY <1>10, NobodyAssumption DEF ClaimRefused, GoesTo
<1>11. ASSUME NEW c \in Completers, ReadAccepted(c) PROVE (OwnerIsEntitled /\ CallsHavePrincipals)'
  BY <1>11, NobodyAssumption DEF ReadAccepted, Answer, Idle, GoesTo
<1>12. ASSUME NEW c \in Completers, ReadOther(c) PROVE (OwnerIsEntitled /\ CallsHavePrincipals)'
  BY <1>12, NobodyAssumption DEF ReadOther, Idle, GoesTo
<1>13. ASSUME NEW c \in Completers, RouteAccepted(c) PROVE (OwnerIsEntitled /\ CallsHavePrincipals)'
  BY <1>13, NobodyAssumption DEF RouteAccepted, SourceExecutes, GoesTo
<1>14. ASSUME NEW c \in Completers, RouteFails(c) PROVE (OwnerIsEntitled /\ CallsHavePrincipals)'
  BY <1>14, NobodyAssumption DEF RouteFails, SourceExecutes, GoesTo
<1>15. ASSUME NEW c \in Completers, Accept(c) PROVE (OwnerIsEntitled /\ CallsHavePrincipals)'
  BY <1>15, NobodyAssumption DEF Accept, Answer, Idle, GoesTo
<1>16. ASSUME NEW c \in Completers, AcceptRefused(c) PROVE (OwnerIsEntitled /\ CallsHavePrincipals)'
  BY <1>16, NobodyAssumption DEF AcceptRefused, Idle, GoesTo
<1>17. ASSUME NEW c \in Completers, Release(c) PROVE (OwnerIsEntitled /\ CallsHavePrincipals)'
  BY <1>17, NobodyAssumption DEF Release, NoCommand, Idle, GoesTo
<1>18. ASSUME NEW c \in Completers, CompleterDies(c) PROVE (OwnerIsEntitled /\ CallsHavePrincipals)'
  BY <1>18, NobodyAssumption DEF CompleterDies, Idle, GoesTo
<1>19. CASE LeaseExpires
  BY <1>19, NobodyAssumption DEF LeaseExpires
<1>20. QED
  BY <1>1, <1>2, <1>3, <1>4, <1>5, <1>6, <1>7, <1>8, <1>9, <1>10, <1>11, <1>12, <1>13, <1>14, <1>15, <1>16, <1>17, <1>18, <1>19 DEF TaskNext

(* The source's answer comes after its execution.                          *)
LEMMA AcceptanceStep ==
  ASSUME TaskTypeOK, CallsHavePrincipals, AcceptanceIsTrue, TaskNext
  PROVE  AcceptanceIsTrue'
<1> USE DEF TaskTypeOK, Locations, CallsHavePrincipals, AcceptanceIsTrue, Owns
<1>1. ASSUME NEW s \in Statuses, SourceMoves(s) PROVE AcceptanceIsTrue'
  BY <1>1, NobodyAssumption DEF SourceMoves
<1>2. ASSUME NEW v \in Versions, ApplyEvent(v) PROVE AcceptanceIsTrue'
  BY <1>2, NobodyAssumption DEF ApplyEvent, Arrives, Announced, Facts
<1>3. ASSUME NEW v \in Versions, ApplyStale(v) PROVE AcceptanceIsTrue'
  BY <1>3, NobodyAssumption DEF ApplyStale
<1>4. CASE ReadSource
  BY <1>4, NobodyAssumption DEF ReadSource
<1>5. CASE Reconcile
  BY <1>5, NobodyAssumption DEF Reconcile, Outdated, Announced, Facts
<1>6. CASE ReconcileEnds
  BY <1>6, NobodyAssumption DEF ReconcileEnds
<1>7. ASSUME NEW c \in Completers, NEW p \in Principals, Call(c, p) PROVE AcceptanceIsTrue'
  BY <1>7, NobodyAssumption DEF Call, GoesTo
<1>8. ASSUME NEW c \in Completers, Claim(c) PROVE AcceptanceIsTrue'
  BY <1>8, NobodyAssumption DEF Claim, GoesTo
<1>9. ASSUME NEW c \in Completers, TakeOver(c) PROVE AcceptanceIsTrue'
  BY <1>9, NobodyAssumption DEF TakeOver, MayTakeOver, GoesTo
<1>10. ASSUME NEW c \in Completers, ClaimRefused(c) PROVE AcceptanceIsTrue'
  BY <1>10, NobodyAssumption DEF ClaimRefused, GoesTo
<1>11. ASSUME NEW c \in Completers, ReadAccepted(c) PROVE AcceptanceIsTrue'
  BY <1>11, NobodyAssumption DEF ReadAccepted, Answer, Idle, GoesTo
<1>12. ASSUME NEW c \in Completers, ReadOther(c) PROVE AcceptanceIsTrue'
  BY <1>12, NobodyAssumption DEF ReadOther, Idle, GoesTo
<1>13. ASSUME NEW c \in Completers, RouteAccepted(c) PROVE AcceptanceIsTrue'
  BY <1>13, NobodyAssumption DEF RouteAccepted, SourceExecutes, GoesTo
<1>14. ASSUME NEW c \in Completers, RouteFails(c) PROVE AcceptanceIsTrue'
  BY <1>14, NobodyAssumption DEF RouteFails, SourceExecutes, GoesTo
<1>15. ASSUME NEW c \in Completers, Accept(c) PROVE AcceptanceIsTrue'
  BY <1>15, NobodyAssumption DEF Accept, Answer, Idle, GoesTo
<1>16. ASSUME NEW c \in Completers, AcceptRefused(c) PROVE AcceptanceIsTrue'
  BY <1>16, NobodyAssumption DEF AcceptRefused, Idle, GoesTo
<1>17. ASSUME NEW c \in Completers, Release(c) PROVE AcceptanceIsTrue'
  BY <1>17, NobodyAssumption DEF Release, NoCommand, Idle, GoesTo
<1>18. ASSUME NEW c \in Completers, CompleterDies(c) PROVE AcceptanceIsTrue'
  BY <1>18, NobodyAssumption DEF CompleterDies, Idle, GoesTo
<1>19. CASE LeaseExpires
  BY <1>19, NobodyAssumption DEF LeaseExpires
<1>20. QED
  BY <1>1, <1>2, <1>3, <1>4, <1>5, <1>6, <1>7, <1>8, <1>9, <1>10, <1>11, <1>12, <1>13, <1>14, <1>15, <1>16, <1>17, <1>18, <1>19 DEF TaskNext

(* Only the holder of the lease records, and only what is recorded is said.*)
LEMMA AnswersStep ==
  ASSUME TaskTypeOK, CommandInv, TaskNext
  PROVE  AnswersAreRecorded'
<1> USE DEF TaskTypeOK, CommandInv, OwnerIsEntitled, CallsHavePrincipals, AcceptanceIsTrue, AnswersAreRecorded, Owns
<1>1. ASSUME NEW s \in Statuses, SourceMoves(s) PROVE AnswersAreRecorded'
  BY <1>1, NobodyAssumption DEF SourceMoves
<1>2. ASSUME NEW v \in Versions, ApplyEvent(v) PROVE AnswersAreRecorded'
  BY <1>2, NobodyAssumption DEF ApplyEvent, Arrives, Announced, Facts
<1>3. ASSUME NEW v \in Versions, ApplyStale(v) PROVE AnswersAreRecorded'
  BY <1>3, NobodyAssumption DEF ApplyStale
<1>4. CASE ReadSource
  BY <1>4, NobodyAssumption DEF ReadSource
<1>5. CASE Reconcile
  BY <1>5, NobodyAssumption DEF Reconcile, Outdated, Announced, Facts
<1>6. CASE ReconcileEnds
  BY <1>6, NobodyAssumption DEF ReconcileEnds
<1>7. ASSUME NEW c \in Completers, NEW p \in Principals, Call(c, p) PROVE AnswersAreRecorded'
  BY <1>7, NobodyAssumption DEF Call, GoesTo
<1>8. ASSUME NEW c \in Completers, Claim(c) PROVE AnswersAreRecorded'
  BY <1>8, NobodyAssumption DEF Claim, GoesTo
<1>9. ASSUME NEW c \in Completers, TakeOver(c) PROVE AnswersAreRecorded'
  BY <1>9, NobodyAssumption DEF TakeOver, MayTakeOver, GoesTo
<1>10. ASSUME NEW c \in Completers, ClaimRefused(c) PROVE AnswersAreRecorded'
  BY <1>10, NobodyAssumption DEF ClaimRefused, GoesTo
<1>11. ASSUME NEW c \in Completers, ReadAccepted(c) PROVE AnswersAreRecorded'
  BY <1>11, NobodyAssumption DEF ReadAccepted, Answer, Idle, GoesTo
<1>12. ASSUME NEW c \in Completers, ReadOther(c) PROVE AnswersAreRecorded'
  BY <1>12, NobodyAssumption DEF ReadOther, Idle, GoesTo
<1>13. ASSUME NEW c \in Completers, RouteAccepted(c) PROVE AnswersAreRecorded'
  BY <1>13, NobodyAssumption DEF RouteAccepted, SourceExecutes, GoesTo
<1>14. ASSUME NEW c \in Completers, RouteFails(c) PROVE AnswersAreRecorded'
  BY <1>14, NobodyAssumption DEF RouteFails, SourceExecutes, GoesTo
<1>15. ASSUME NEW c \in Completers, Accept(c) PROVE AnswersAreRecorded'
  BY <1>15, NobodyAssumption DEF Accept, Answer, Idle, GoesTo
<1>16. ASSUME NEW c \in Completers, AcceptRefused(c) PROVE AnswersAreRecorded'
  BY <1>16, NobodyAssumption DEF AcceptRefused, Idle, GoesTo
<1>17. ASSUME NEW c \in Completers, Release(c) PROVE AnswersAreRecorded'
  BY <1>17, NobodyAssumption DEF Release, NoCommand, Idle, GoesTo
<1>18. ASSUME NEW c \in Completers, CompleterDies(c) PROVE AnswersAreRecorded'
  BY <1>18, NobodyAssumption DEF CompleterDies, Idle, GoesTo
<1>19. CASE LeaseExpires
  BY <1>19, NobodyAssumption DEF LeaseExpires
<1>20. QED
  BY <1>1, <1>2, <1>3, <1>4, <1>5, <1>6, <1>7, <1>8, <1>9, <1>10, <1>11, <1>12, <1>13, <1>14, <1>15, <1>16, <1>17, <1>18, <1>19 DEF TaskNext

-----------------------------------------------------------------------------
(* The source has one version, and nobody has asked for anything.          *)
LEMMA TaskStarts == TaskInit => TaskInv
<1>1. TaskInit => TaskTypeOK
  BY VersionsAssumption DEF TaskInit, TaskTypeOK, Versions, Statuses, Locations, NoCommand
<1>2. TaskInit => ProjectionInv
  BY VersionsAssumption DEF TaskInit, ProjectionInv, SourceIsAhead, ProjectionIsPastFact,
                            ShownIsAnnounced, Open, Current
<1>3. TaskInit => CommandInv
  BY NobodyAssumption
     DEF TaskInit, CommandInv, OwnerIsEntitled, CallsHavePrincipals, AcceptanceIsTrue,
         AnswersAreRecorded, Owns, NoCommand
<1>4. QED
  BY <1>1, <1>2, <1>3 DEF TaskInv

(* The invariant speaks of the variables only.                             *)
LEMMA TaskRests == TaskInv /\ UNCHANGED taskVars => TaskInv'
<1>1. SUFFICES ASSUME TaskInv, UNCHANGED taskVars PROVE TaskInv'
  OBVIOUS
<1>2. TaskTypeOK'
  BY <1>1 DEF TaskInv, TaskTypeOK, taskVars
<1>3. ProjectionInv'
  BY <1>1 DEF TaskInv, ProjectionInv, SourceIsAhead, ProjectionIsPastFact, ShownIsAnnounced,
              Open, Current, taskVars
<1>4. CommandInv'
  BY <1>1 DEF TaskInv, CommandInv, OwnerIsEntitled, CallsHavePrincipals, AcceptanceIsTrue,
              AnswersAreRecorded, Owns, taskVars
<1>5. QED
  BY <1>2, <1>3, <1>4 DEF TaskInv

(* The invariant holds whatever events, reconciliations and callers do.    *)
THEOREM TaskInvariance == TaskSafeSpec => []TaskInv
<1>1. TaskInv /\ [TaskNext]_taskVars => TaskInv'
  <2>1. SUFFICES ASSUME TaskInv, [TaskNext]_taskVars PROVE TaskInv'
    OBVIOUS
  <2>2. CASE TaskNext
    <3>1. TaskTypeOK'
      BY <2>1, <2>2, TaskTypeStep DEF TaskInv, ProjectionInv, CommandInv
    <3>2. ProjectionInv'
      BY <2>1, <2>2, SourceStep, ProjectionStep DEF TaskInv, ProjectionInv
    <3>3. CommandInv'
      BY <2>1, <2>2, OwnerStep, AcceptanceStep, AnswersStep DEF TaskInv, CommandInv
    <3>4. QED
      BY <3>1, <3>2, <3>3 DEF TaskInv
  <2>3. CASE UNCHANGED taskVars
    BY <2>1, <2>3, TaskRests
  <2>4. QED
    BY <2>1, <2>2, <2>3
<1>2. QED
  BY <1>1, TaskStarts, PTL DEF TaskSafeSpec

(* Every variable keeps its type; only a running command has a lease.      *)
THEOREM TaskTypeCorrect == TaskSafeSpec => []TaskTypeOK
  BY TaskInvariance, PTL DEF TaskInv

(* What is shown of the task is what its source said in the shown version. *)
THEOREM ProjectionIsTrue == TaskSafeSpec => []ProjectionIsPastFact
<1>1. TaskInv => ProjectionIsPastFact
  BY DEF TaskInv, ProjectionInv
<1>2. QED
  BY <1>1, TaskInvariance, PTL

(* The shown version is announced if it is assigned, and no later one is.  *)
THEOREM AnnouncementsMatch == TaskSafeSpec => []ShownIsAnnounced
<1>1. TaskInv => ShownIsAnnounced
  BY DEF TaskInv, ProjectionInv
<1>2. QED
  BY <1>1, TaskInvariance, PTL

(* Expired leases, takeovers and late answers of former owners never tell  *)
(* two principals that the same command was accepted.                      *)
THEOREM AnswersAreTrue == TaskSafeSpec => []AnswersAreRecorded
<1>1. TaskInv => AnswersAreRecorded
  BY DEF TaskInv, CommandInv
<1>2. QED
  BY <1>1, TaskInvariance, PTL

(* In whatever order events and reconciliations reach the store, the shown *)
(* version never falls back and keeps the display texts it was given.      *)
THEOREM ProjectionMovesForward == TaskSafeSpec => NeverBackwards
<1> DEFINE Forward == /\ projection'.version >= projection.version
                      /\ projection'.version = projection.version /\ projection.title = "display"
                           => projection' = projection
<1>1. TaskInv /\ [TaskNext]_taskVars => [Forward]_projection
  <2>1. SUFFICES ASSUME TaskInv, TaskNext, projection' # projection PROVE Forward
    BY DEF taskVars
  <2>2. ASSUME NEW v \in Versions, ApplyEvent(v) PROVE Forward
    BY <2>1, <2>2 DEF ApplyEvent, Facts, TaskInv, TaskTypeOK, Versions
  <2>3. CASE Reconcile
    <3>1. reading \in Nat /\ projection.version \in Nat /\ reading >= projection.version
      BY <2>1, <2>3, VersionsAssumption DEF Reconcile, Outdated, TaskInv, TaskTypeOK
    <3>2. ~(reading = projection.version /\ projection.title = "display")
      BY <2>1, <2>3, <3>1
         DEF Reconcile, Unchanged, Facts, TaskInv, TaskTypeOK, ProjectionInv, ProjectionIsPastFact
    <3>3. QED
      BY <2>3, <3>1, <3>2 DEF Reconcile, Facts
  <2>4. QED
    BY <2>1, <2>2, <2>3
       DEF TaskNext, SourceMoves, ApplyStale, ReadSource, ReconcileEnds, Call, Claim, TakeOver,
           ClaimRefused, ReadAccepted, ReadOther, RouteAccepted, RouteFails, Accept,
           AcceptRefused, Release, CompleterDies, LeaseExpires
<1>2. QED
  BY <1>1, TaskInvariance, PTL DEF TaskSafeSpec, NeverBackwards

(* Once the key's row says accepted, it stays as it is: the same request,  *)
(* made again, is given the same answer.                                   *)
AcceptedIsFinal == [][command.status = "accepted" => command' = command]_taskVars

(* No late release, lease or death of a former owner touches the row.      *)
THEOREM AcceptedRowStays == TaskSafeSpec => AcceptedIsFinal
<1>1. TaskInv /\ [TaskNext]_taskVars => [command.status = "accepted" => command' = command]_taskVars
  <2>1. SUFFICES ASSUME TaskInv, TaskNext, command.status = "accepted" PROVE command' = command
    BY DEF taskVars
  <2>2. ASSUME NEW c \in Completers, Accept(c) \/ Release(c) \/ TakeOver(c) PROVE command' = command
    BY <2>1, <2>2 DEF Accept, Release, TakeOver, MayTakeOver, Owns
  <2>3. ASSUME NEW c \in Completers, CompleterDies(c) PROVE command' = command
    BY <2>1, <2>3, NobodyAssumption DEF CompleterDies, TaskInv, TaskTypeOK
  <2>4. QED
    BY <2>1, <2>2, <2>3
       DEF TaskNext, SourceMoves, ApplyEvent, ApplyStale, ReadSource, Reconcile, ReconcileEnds,
           Call, Claim, ClaimRefused, ReadAccepted, ReadOther, RouteAccepted, RouteFails,
           AcceptRefused, LeaseExpires
<1>2. QED
  BY <1>1, TaskInvariance, PTL DEF TaskSafeSpec, AcceptedIsFinal
=============================================================================
