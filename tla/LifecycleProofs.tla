-------------------------- MODULE LifecycleProofs --------------------------
(***************************************************************************)
(* Theorems about Lifecycle, for every set of uploads, files, deletion     *)
(* requests and workers and every number of faults and redeliveries.       *)
(*                                                                         *)
(* The argument goes through one notion, a RowStep: a step of the service  *)
(* writes the rows of one document, never clears a tombstone, and sets the *)
(* two tombstones together.  Every commit of the catalogue is shown to be  *)
(* one, every action to make at most one commit, and the properties follow *)
(* from RowStep alone.                                                     *)
(***************************************************************************)
EXTENDS Lifecycle, TLAPS

CatalogRows ==
  /\ registered \subseteq Rows
  /\ document \in [Rows -> DocumentRow]
  /\ version \in [Rows -> VersionRow]
  /\ job \in [Rows -> JobStatus]
  /\ chunks \in [Rows -> ChunkState]

KeepsRow(q) ==
  /\ q \in registered' <=> q \in registered
  /\ document'[q] = document[q]
  /\ version'[q] = version[q]
  /\ chunks'[q] = chunks[q]

RowStep(r) ==
  /\ \A q \in Rows \ {r} : KeepsRow(q)
  /\ r \in registered => r \in registered'
  /\ \/ /\ document'[r].deleted = document[r].deleted
        /\ version'[r].deleted = version[r].deleted
     \/ r \in registered /\ document'[r].deleted /\ version'[r].deleted
  /\ r \in registered' \ registered => version'[r].status = "QUEUED"

CatalogStep == UNCHANGED catalogVars \/ \E r \in Rows : RowStep(r)

(***************************************************************************)
(* The commits of the catalogue.                                           *)
(***************************************************************************)

\* What a session loads of a row is typed like the row.
LEMMA ViewTyped ==
  ASSUME CatalogRows, NEW r \in Rows
  PROVE  View(r) \in RowView
  BY DEF CatalogRows, View, RowView

LEMMA NoViewTyped == NoView \in RowView
  BY DEF NoView, RowView, DocumentRow, VersionRow, DocumentStatus, VersionStatus

\* register_upload for new content.
LEMMA InsertStep ==
  ASSUME CatalogRows, NEW r \in Rows, InsertRows(r)
  PROVE  CatalogRows' /\ RowStep(r)
  BY DEF CatalogRows, InsertRows, RowStep, KeepsRow, DocumentRow, VersionRow,
         DocumentStatus, VersionStatus, JobStatus

\* The upload handler and _record_queue_failure: statuses only.
LEMMA StatusesStep ==
  ASSUME CatalogRows, NEW r \in Rows, NEW seen,
         NEW v \in VersionStatus, NEW d \in DocumentStatus,
         WriteStatuses(r, seen, v, d), job' \in [Rows -> JobStatus]
  PROVE  CatalogRows' /\ RowStep(r)
<1>1. document[r] \in DocumentRow /\ version[r] \in VersionRow
  BY DEF CatalogRows
<1> DEFINE dStatus == Delta(document[r].status, seen.document.status, d)
           vStatus == Delta(version[r].status, seen.version.status, v)
<1>2. dStatus \in DocumentStatus /\ vStatus \in VersionStatus
  BY <1>1 DEF Delta, DocumentRow, VersionRow
<1>3. /\ document' = [document EXCEPT ![r].status = dStatus]
      /\ version' = [version EXCEPT ![r].status = vStatus]
      /\ registered' = registered /\ chunks' = chunks
  BY DEF WriteStatuses, CatalogRows
<1> HIDE DEF dStatus, vStatus
<1>4. document' \in [Rows -> DocumentRow] /\ document'[r].deleted = document[r].deleted
  BY <1>1, <1>2, <1>3 DEF CatalogRows, DocumentRow
<1>5. version' \in [Rows -> VersionRow] /\ version'[r].deleted = version[r].deleted
  BY <1>1, <1>2, <1>3 DEF CatalogRows, VersionRow
<1>6. \A q \in Rows \ {r} : KeepsRow(q)
  BY <1>3 DEF CatalogRows, KeepsRow
<1>7. CatalogRows'
  BY <1>3, <1>4, <1>5 DEF CatalogRows
<1> QED BY <1>3, <1>4, <1>5, <1>6, <1>7 DEF RowStep

\* IngestionRepository.set_status, for the statuses the worker passes.
LEMMA SetStatusStep ==
  ASSUME CatalogRows, NEW r \in Rows, NEW seen,
         NEW next \in Stages \cup Failures, SetStatus(r, seen, next)
  PROVE  CatalogRows' /\ RowStep(r)
<1>1. next \in VersionStatus
  BY DEF VersionStatus
<1>2. DocumentStatusOf(next) \in DocumentStatus
  BY DEF DocumentStatusOf, DocumentStatus, Stages, Failures
<1>3. job' \in [Rows -> JobStatus]
  BY DEF SetStatus, CatalogRows, JobStatusOf, JobStatus
<1>4. QED
  BY <1>1, <1>2, <1>3, StatusesStep DEF SetStatus

\* replace_chunks and save_embeddings: chunks only.
LEMMA ChunksStep ==
  ASSUME CatalogRows, NEW r \in Rows, ReplaceChunks(r) \/ SaveEmbeddings(r)
  PROVE  CatalogRows' /\ RowStep(r)
  BY DEF CatalogRows, ReplaceChunks, SaveEmbeddings, RowStep, KeepsRow, ChunkState

\* publish_version: it never touches a tombstone.
LEMMA PublishStep ==
  ASSUME CatalogRows, NEW r \in Rows, NEW seen, PublishVersion(r, seen)
  PROVE  CatalogRows' /\ RowStep(r)
<1>1. document[r] \in DocumentRow /\ version[r] \in VersionRow
  BY DEF CatalogRows
<1>2. document' = [document EXCEPT ![r] = document'[r]]
  BY DEF CatalogRows, PublishVersion
<1>3. /\ document'[r] \in DocumentRow
      /\ document'[r].deleted = document[r].deleted
  BY <1>1 DEF PublishVersion, CatalogRows, Delta, DocumentRow, DocumentStatus
<1>4. version' = [version EXCEPT ![r] = version'[r]]
  BY DEF CatalogRows, PublishVersion
<1>5. /\ version'[r] \in VersionRow
      /\ version'[r].deleted = version[r].deleted
  BY <1>1 DEF PublishVersion, CatalogRows, Delta, VersionRow, VersionStatus
<1>6. CatalogRows'
  BY <1>2, <1>3, <1>4, <1>5 DEF CatalogRows, PublishVersion, JobStatus
<1>7. registered' = registered /\ chunks' = chunks
  BY DEF PublishVersion
<1>8. \A q \in Rows \ {r} : KeepsRow(q)
  BY <1>2, <1>4, <1>7 DEF CatalogRows, KeepsRow
<1>9. QED
  BY <1>3, <1>5, <1>6, <1>7, <1>8 DEF RowStep

\* mark_deleting and mark_deleted: both tombstones.
LEMMA MarkStep ==
  ASSUME CatalogRows, NEW r \in registered, NEW seen,
         MarkDeleting(r, seen) \/ MarkDeleted(r, seen)
  PROVE  CatalogRows' /\ RowStep(r)
<1>1. PICK status \in {"DELETING", "DELETED"} : MarkDocument(r, seen, status)
  BY DEF MarkDeleting, MarkDeleted
<1>2. r \in Rows /\ document[r] \in DocumentRow
  BY DEF CatalogRows
<1>3. /\ version' = [version EXCEPT ![r] = version'[r]]
      /\ version'[r] \in VersionRow
      /\ version'[r].deleted
      /\ registered' = registered
      /\ job' = job
  BY <1>1, <1>2 DEF MarkDocument, CatalogRows, VersionRow, VersionStatus
<1>4. /\ document' = [document EXCEPT ![r] = document'[r]]
      /\ document'[r] \in DocumentRow
      /\ document'[r].deleted
  BY <1>1, <1>2 DEF MarkDocument, CatalogRows, Delta, DocumentRow, DocumentStatus
<1>5. /\ chunks' \in [Rows -> ChunkState]
      /\ \A q \in Rows \ {r} : chunks'[q] = chunks[q]
  BY <1>2 DEF MarkDeleting, MarkDeleted, CatalogRows, ChunkState
<1>6. CatalogRows'
  BY <1>2, <1>3, <1>4, <1>5 DEF CatalogRows
<1>7. \A q \in Rows \ {r} : KeepsRow(q)
  BY <1>2, <1>3, <1>4, <1>5 DEF CatalogRows, KeepsRow
<1>8. QED
  BY <1>3, <1>4, <1>6, <1>7 DEF RowStep

(***************************************************************************)
(* Every action keeps the types and makes at most one RowStep.             *)
(***************************************************************************)
CatalogKept == CatalogRows' /\ CatalogStep

FaultsTyped == faults \in 0..MaxFaults /\ abandoned \subseteq Contents

StoresTyped ==
  /\ blobs \subseteq Contents
  /\ queue \in [Rows -> Nat]
  /\ FaultsTyped

\* What a request carries from one session step to the next is typed.
LEMMA UploadGotoTyped ==
  ASSUME UploadTypeOK, NEW u \in Rows, NEW pc \in UploadPC, Goto(u, pc)
  PROVE  UploadTypeOK'
  BY NoViewTyped DEF UploadTypeOK, UploadState, Goto

LEMMA UploadLoadTyped ==
  ASSUME UploadTypeOK, CatalogRows, NEW u \in Rows, NEW r \in Rows,
         NEW pc \in UploadPC, Load(u, pc, r)
  PROVE  UploadTypeOK'
  BY ViewTyped DEF UploadTypeOK, UploadState, Load

LEMMA FaultTyped ==
  ASSUME FaultsTyped, NEW kind, NoFault \/ Fault(kind)
  PROVE  FaultsTyped'
  BY CatalogAssumption DEF NoFault, Fault, Happens, FaultsTyped

LEMMA LeavingTyped ==
  ASSUME FaultsTyped, NEW kind, NEW c \in Contents, FaultLeaving(kind, c)
  PROVE  FaultsTyped'
  BY CatalogAssumption DEF FaultLeaving, Happens, FaultsTyped

LEMMA BlobTyped ==
  ASSUME FaultsTyped, blobs \subseteq Contents, NEW c \in Contents, StoreBlob(c) \/ RemoveBlob(c)
  PROVE  FaultsTyped' /\ blobs' \subseteq Contents
  BY DEF StoreBlob, RemoveBlob, FaultsTyped

\* A step that commits nothing.
LEMMA NoCommit ==
  ASSUME CatalogRows, UNCHANGED catalogVars
  PROVE  CatalogKept
  BY DEF CatalogRows, CatalogKept, CatalogStep, catalogVars

\* A step that commits to one row.
LEMMA OneCommit ==
  ASSUME NEW r \in Rows, CatalogRows', RowStep(r)
  PROVE  CatalogKept
  BY DEF CatalogKept, CatalogStep

\* The statuses and rows the commit of register_upload writes.
LEMMA RegistrationStep ==
  ASSUME CatalogRows, UploadTypeOK, NEW u \in Rows, Registration(u)
  PROVE  CatalogRows' /\ \E r \in Rows : RowStep(r)
<1>1. upload[u] \in UploadState
  BY DEF UploadTypeOK
<1>2. CASE Creates(u)
  BY <1>2, InsertStep DEF Registration
<1>3. CASE ~Creates(u)
  <2>1. /\ upload[u].target \in Rows
        /\ WriteStatuses(upload[u].target, upload[u].seen, "QUEUED", "PROCESSING")
        /\ job' \in [Rows -> JobStatus]
    BY <1>1, <1>3 DEF Registration, UploadState, CatalogRows
  <2>2. "QUEUED" \in VersionStatus /\ "PROCESSING" \in DocumentStatus
    BY DEF VersionStatus, DocumentStatus
  <2>3. CatalogRows' /\ RowStep(upload[u].target)
    BY <2>1, <2>2, StatusesStep
  <2>4. QED
    BY <2>1, <2>3
<1>4. QED
  BY <1>2, <1>3

\* The upload request.
LEMMA UploadKept ==
  ASSUME CatalogRows, StoresTyped, UploadTypeOK, NEW u \in Rows, UploadNext(u)
  PROVE  CatalogKept /\ StoresTyped' /\ UploadTypeOK'
<1> USE DEF UploadPC, StoresTyped
<1>1. ContentOf[u] \in Contents
  BY CatalogAssumption
<1>2. \A r \in LiveFor(ContentOf[u]) : r \in Rows
  BY DEF LiveFor, CatalogRows
<1>3. ASSUME UNCHANGED catalogVars, NEW pc \in UploadPC, Goto(u, pc),
             FaultsTyped', blobs' \subseteq Contents, queue' \in [Rows -> Nat]
      PROVE  CatalogKept /\ StoresTyped' /\ UploadTypeOK'
  BY <1>3, NoCommit, UploadGotoTyped
<1>4. CASE AnswerDuplicate(u)
  BY <1>3, <1>4, FaultTyped DEF AnswerDuplicate
<1>5. CASE AcceptContent(u)
  BY <1>3, <1>5, FaultTyped DEF AcceptContent
<1>6. CASE PutBlob(u)
  BY <1>1, <1>3, <1>6, BlobTyped DEF PutBlob
<1>7. CASE PutBlobFails(u)
  BY <1>3, <1>7, FaultTyped DEF PutBlobFails
<1>8. CASE LoadRegistration(u)
  BY <1>2, <1>8, NoCommit, UploadLoadTyped, FaultTyped DEF LoadRegistration
<1>9. CASE CommitRegistration(u)
  BY <1>9, RegistrationStep, UploadGotoTyped, FaultTyped
     DEF CommitRegistration, CatalogKept, CatalogStep
<1>10. CASE RegistrationFails(u)
  <2>1. UploadTypeOK' /\ StoresTyped'
    BY <1>10, UploadGotoTyped, FaultTyped DEF RegistrationFails
  <2>2. CASE Registration(u)
    BY <2>1, <2>2, RegistrationStep DEF CatalogKept, CatalogStep
  <2>3. CASE UNCHANGED catalogVars
    BY <2>1, <2>3, NoCommit
  <2>4. QED
    BY <1>10, <2>2, <2>3 DEF RegistrationFails
<1>11. CASE FindSharing(u)
  BY <1>3, <1>11, FaultTyped DEF FindSharing
<1>12. CASE PurgeBlob(u)
  BY <1>1, <1>3, <1>12, BlobTyped DEF PurgeBlob
<1>13. CASE FindSharingFails(u) \/ PurgeBlobFails(u)
  BY <1>1, <1>3, <1>13, LeavingTyped DEF FindSharingFails, PurgeBlobFails
<1>14. CASE Enqueue(u)
  <2>1. queue' \in [Rows -> Nat]
    BY <1>14 DEF Enqueue
  <2>2. QED
    BY <2>1, <1>3, <1>14, FaultTyped DEF Enqueue
<1>15. CASE EnqueueFails(u)
  BY <1>3, <1>15, FaultTyped DEF EnqueueFails
<1>16. CASE LoadQueueFailure(u)
  BY <1>16, NoCommit, UploadLoadTyped, FaultTyped DEF LoadQueueFailure
<1>17. CASE CommitQueueFailure(u)
  <2>1. "FAILED_INDEX" \in VersionStatus /\ "FAILED" \in DocumentStatus
    BY DEF VersionStatus, DocumentStatus, Failures
  <2>2. job' \in [Rows -> JobStatus]
    BY <1>17 DEF CommitQueueFailure, CatalogRows
  <2>3. CatalogRows' /\ RowStep(u)
    BY <1>17, <2>1, <2>2, StatusesStep DEF CommitQueueFailure
  <2>4. QED
    BY <1>17, <2>3, OneCommit, UploadGotoTyped, FaultTyped DEF CommitQueueFailure
<1>18. CASE QueueFailureLost(u)
  BY <1>3, <1>18, FaultTyped DEF QueueFailureLost
<1>19. CASE ApiCrash(u)
  BY <1>1, <1>3, <1>19, FaultTyped, LeavingTyped DEF ApiCrash
<1>20. QED
  BY <1>4, <1>5, <1>6, <1>7, <1>8, <1>9, <1>10, <1>11, <1>12, <1>13, <1>14, <1>15,
     <1>16, <1>17, <1>18, <1>19 DEF UploadNext, UploadStep

\* A row that exists goes on existing.
LEMMA RowsRemain ==
  ASSUME CatalogRows, CatalogKept, NEW r \in registered
  PROVE  r \in registered'
<1>1. r \in Rows
  BY DEF CatalogRows
<1>2. CASE UNCHANGED catalogVars
  BY <1>2 DEF catalogVars
<1>3. CASE \E q \in Rows : RowStep(q)
  BY <1>1, <1>3 DEF RowStep, KeepsRow
<1>4. QED
  BY <1>2, <1>3 DEF CatalogKept, CatalogStep

\* The deletion request.
LEMMA DeletionKept ==
  ASSUME CatalogRows, StoresTyped, DeletionTypeOK, NEW x \in Deletions, DeletionNext(x)
  PROVE  CatalogKept /\ StoresTyped' /\ DeletionTypeOK'
<1> USE DEF DeletionPC, StoresTyped
<1> DEFINE d == deletion[x]
<1>1. d \in DeletionState
  BY DEF DeletionTypeOK
<1>2. ASSUME CatalogKept, NEW new \in DeletionState,
             deletion' = [deletion EXCEPT ![x] = new],
             new.pc # "idle" => new.row \in registered
      PROVE  DeletionTypeOK'
  BY <1>2, RowsRemain DEF DeletionTypeOK, Deleting
<1>3. ASSUME CatalogKept, NEW pc \in DeletionPC, ForgetAt(x, pc), d.pc # "idle"
      PROVE  DeletionTypeOK'
  <2> DEFINE new == [d EXCEPT !.pc = pc, !.seen = NoView]
  <2>1. deletion' = [deletion EXCEPT ![x] = new]
    BY <1>3 DEF ForgetAt
  <2>2. new \in DeletionState /\ new.row = d.row
    BY <1>1, NoViewTyped DEF DeletionState
  <2>3. d.row \in registered
    BY <1>3 DEF DeletionTypeOK, Deleting
  <2>4. QED
    BY <1>2, <1>3, <2>1, <2>2, <2>3
<1>4. ASSUME CatalogKept, EndDeletion(x)
      PROVE  DeletionTypeOK'
  BY <1>2, <1>4, NoViewTyped DEF EndDeletion, IdleDeletion, DeletionState
<1>5. d.pc # "idle" => ContentOf[d.row] \in Contents
  BY CatalogAssumption DEF DeletionTypeOK, Deleting, CatalogRows
<1>6. ASSUME NEW r \in Rows, LoadDeletion(x, r)
      PROVE  CatalogKept /\ StoresTyped' /\ DeletionTypeOK'
  <2>1. CatalogKept /\ StoresTyped'
    BY <1>6, NoCommit, FaultTyped DEF LoadDeletion
  <2>2. [pc |-> "marking", row |-> r, seen |-> View(r)] \in DeletionState
    BY ViewTyped DEF DeletionState
  <2>3. QED
    BY <1>2, <1>6, <2>1, <2>2 DEF LoadDeletion
<1>7. CASE CommitMarkDeleting(x)
  <2>1. d.pc # "idle" /\ d.row \in registered /\ MarkDeleting(d.row, d.seen)
    BY <1>7 DEF CommitMarkDeleting, DeletionTypeOK, Deleting
  <2>2. CatalogKept
    BY <2>1, MarkStep, OneCommit DEF CatalogRows
  <2>3. QED
    BY <1>3, <1>7, <2>1, <2>2, FaultTyped DEF CommitMarkDeleting
<1>8. CASE DeleteBlob(x)
  <2>1. CatalogKept /\ StoresTyped'
    BY <1>8, <1>5, NoCommit, BlobTyped DEF DeleteBlob
  <2>2. QED
    BY <1>3, <1>8, <2>1 DEF DeleteBlob
<1>9. CASE DeleteBlobFails(x)
  BY <1>4, <1>9, <1>5, NoCommit, LeavingTyped DEF DeleteBlobFails
<1>10. CASE LoadPurge(x)
  <2>1. CatalogKept /\ StoresTyped'
    BY <1>10, NoCommit, FaultTyped DEF LoadPurge
  <2>2. d.row \in registered /\ d.row \in Rows
    BY <1>10 DEF LoadPurge, DeletionTypeOK, Deleting, CatalogRows
  <2> DEFINE new == [d EXCEPT !.pc = "purging", !.seen = View(d.row)]
  <2>3. deletion' = [deletion EXCEPT ![x] = new]
    BY <1>10 DEF LoadPurge
  <2>4. new \in DeletionState /\ new.row = d.row
    BY <1>1, <2>2, ViewTyped DEF DeletionState
  <2>5. QED
    BY <1>2, <2>1, <2>2, <2>3, <2>4
<1>11. CASE CommitPurge(x)
  <2>1. d.row \in registered /\ MarkDeleted(d.row, d.seen)
    BY <1>11 DEF CommitPurge, DeletionTypeOK, Deleting
  <2>2. CatalogKept
    BY <2>1, MarkStep, OneCommit DEF CatalogRows
  <2>3. QED
    BY <1>4, <1>11, <2>2, FaultTyped DEF CommitPurge
<1>12. CASE DeletionAborted(x)
  BY <1>4, <1>12, <1>5, NoCommit, FaultTyped, LeavingTyped DEF DeletionAborted
<1>13. QED
  BY <1>6, <1>7, <1>8, <1>9, <1>10, <1>11, <1>12 DEF DeletionNext, DeletionStep

\* How a task goes on.
GoesOn(w) ==
  \/ \E pc \in WorkerPC : ProceedTo(w, pc) \/ ProceedWith(w, pc)
  \/ \E stage \in Stages : EnterStage(w, stage)
  \/ \E failure \in Failures, expected \in BOOLEAN : Raise(w, failure, expected)
  \/ Release(w)
  \/ UNCHANGED worker

\* The worker, first its own record: every way a task goes on keeps its row.
LEMMA WorkerRecordTyped ==
  ASSUME WorkerTypeOK, NEW w \in Workers, Busy(w), CatalogRows,
         GoesOn(w), redeliveries' \in 0..MaxRedeliveries
  PROVE  WorkerTypeOK'
<1> DEFINE t == worker[w]
<1>1. t \in WorkerState /\ t.row \in Rows
  BY DEF WorkerTypeOK, Busy
<1>2. ASSUME NEW new \in WorkerState, worker' = [worker EXCEPT ![w] = new],
             new.pc # "idle" => new.row \in Rows
      PROVE  WorkerTypeOK'
  BY <1>2 DEF WorkerTypeOK, Busy
<1>3. ASSUME NEW pc \in WorkerPC, NEW seen \in RowView,
             worker' = [worker EXCEPT ![w] = [t EXCEPT !.pc = pc, !.seen = seen]]
      PROVE  WorkerTypeOK'
  <2>1. /\ [t EXCEPT !.pc = pc, !.seen = seen] \in WorkerState
        /\ [t EXCEPT !.pc = pc, !.seen = seen].row = t.row
    BY <1>1 DEF WorkerState
  <2>2. QED
    BY <1>1, <1>2, <1>3, <2>1
<1>4. CASE \E pc \in WorkerPC : ProceedTo(w, pc) \/ ProceedWith(w, pc)
  BY <1>1, <1>3, <1>4, ViewTyped, NoViewTyped DEF ProceedTo, ProceedWith
<1>5. ASSUME NEW stage \in Stages, EnterStage(w, stage)
      PROVE  WorkerTypeOK'
  <2>1. /\ [t EXCEPT !.pc = "load", !.stage = stage] \in WorkerState
        /\ [t EXCEPT !.pc = "load", !.stage = stage].row = t.row
    BY <1>1 DEF WorkerState, WorkerPC
  <2>2. QED
    BY <1>1, <1>2, <1>5, <2>1 DEF EnterStage
<1>6. ASSUME NEW failure \in Failures, NEW expected \in BOOLEAN,
             Raise(w, failure, expected)
      PROVE  WorkerTypeOK'
  <2> DEFINE new == [t EXCEPT !.pc = "raised", !.seen = NoView,
                              !.failure = failure, !.expected = expected]
  <2>1. new \in WorkerState /\ new.row = t.row
    BY <1>1, NoViewTyped DEF WorkerState, WorkerPC
  <2>2. QED
    BY <1>1, <1>2, <1>6, <2>1 DEF Raise
<1>7. CASE Release(w)
  <2>1. IdleWorker \in WorkerState /\ IdleWorker.pc = "idle"
    BY NoViewTyped DEF IdleWorker, WorkerState, WorkerPC, Stages, Failures
  <2>2. QED
    BY <1>2, <1>7, <2>1 DEF Release
<1>8. CASE UNCHANGED worker
  BY <1>8 DEF WorkerTypeOK, Busy
<1>9. QED
  BY <1>4, <1>5, <1>6, <1>7, <1>8 DEF GoesOn

\* StartTask is the one action of an idle worker.
LEMMA StartTyped ==
  ASSUME CatalogRows, StoresTyped, WorkerTypeOK, NEW w \in Workers, NEW r \in Rows,
         StartTask(w, r)
  PROVE  CatalogKept /\ StoresTyped' /\ WorkerTypeOK'
<1>1. CatalogKept
  BY NoCommit DEF StartTask
<1>2. StoresTyped'
  <2>1. queue[r] \in Nat /\ queue[r] > 0
    BY DEF StartTask, StoresTyped
  <2>2. queue' \in [Rows -> Nat]
    BY <2>1 DEF StartTask, StoresTyped
  <2>3. QED
    BY <2>2, FaultTyped DEF StartTask, StoresTyped
<1>3. PICK pc \in {"ack", "commit"}, seen \in RowView :
        worker' = [worker EXCEPT ![w] = [@ EXCEPT !.pc = pc, !.row = r, !.seen = seen]]
           \/ worker' = [worker EXCEPT ![w] = [@ EXCEPT !.pc = pc, !.row = r]]
  BY ViewTyped, NoViewTyped DEF StartTask
<1>4. worker[w] \in WorkerState
  BY DEF WorkerTypeOK
<1>5. CASE worker' = [worker EXCEPT ![w] = [@ EXCEPT !.pc = pc, !.row = r, !.seen = seen]]
  <2> DEFINE new == [worker[w] EXCEPT !.pc = pc, !.row = r, !.seen = seen]
  <2>1. new \in WorkerState /\ new.row = r
    BY <1>4 DEF WorkerState, WorkerPC
  <2>2. QED
    BY <1>1, <1>2, <1>5, <2>1 DEF WorkerTypeOK, Busy, StartTask
<1>6. CASE worker' = [worker EXCEPT ![w] = [@ EXCEPT !.pc = pc, !.row = r]]
  <2> DEFINE new == [worker[w] EXCEPT !.pc = pc, !.row = r]
  <2>1. new \in WorkerState /\ new.row = r
    BY <1>4 DEF WorkerState, WorkerPC
  <2>2. QED
    BY <1>1, <1>2, <1>6, <2>1 DEF WorkerTypeOK, Busy, StartTask
<1>7. QED
  BY <1>3, <1>5, <1>6

\* Every action of the worker.
LEMMA WorkerKept ==
  ASSUME CatalogRows, StoresTyped, WorkerTypeOK, NEW w \in Workers, WorkerNext(w)
  PROVE  CatalogKept /\ StoresTyped' /\ WorkerTypeOK'
<1> DEFINE t == worker[w]
<1> USE DEF WorkerPC
<1>1. t \in WorkerState
  BY DEF WorkerTypeOK
<1>2. ASSUME Busy(w), GoesOn(w), CatalogKept, NEW kind, NoFault \/ Fault(kind),
             blobs' = blobs, queue' \in [Rows -> Nat],
             redeliveries' \in 0..MaxRedeliveries
      PROVE  CatalogKept /\ StoresTyped' /\ WorkerTypeOK'
  BY <1>2, WorkerRecordTyped, FaultTyped DEF StoresTyped, GoesOn
<1>3. ASSUME Busy(w), GoesOn(w), CatalogKept, NEW kind, NoFault \/ Fault(kind), Unchanged
      PROVE  CatalogKept /\ StoresTyped' /\ WorkerTypeOK'
  BY <1>2, <1>3 DEF Unchanged, StoresTyped, WorkerTypeOK
<1>4. ASSUME Busy(w), GoesOn(w), UNCHANGED catalogVars,
             NEW kind, NoFault \/ Fault(kind), Unchanged
      PROVE  CatalogKept /\ StoresTyped' /\ WorkerTypeOK'
  BY <1>3, <1>4, NoCommit
<1>5. Busy(w) => t.row \in Rows
  BY DEF WorkerTypeOK
<1>6. PassOn(w) \in {"ack", "rescue"}
  BY DEF PassOn
<1>7. ASSUME NEW r \in Rows, StartTask(w, r)
      PROVE  CatalogKept /\ StoresTyped' /\ WorkerTypeOK'
  BY <1>7, StartTyped
<1>8. CASE LoadStage(w)
  BY <1>4, <1>8 DEF LoadStage, Busy, GoesOn
<1>9. CASE CommitStage(w)
  <2>1. CatalogKept
    BY <1>1, <1>5, <1>9, SetStatusStep, OneCommit DEF CommitStage, Busy, WorkerState
  <2>2. QED
    BY <1>3, <1>9, <2>1 DEF CommitStage, Busy, GoesOn
<1>10. CASE Parse(w)
  <2>1. GoesOn(w)
    BY <1>10 DEF Parse, GoesOn, Stages, Failures
  <2>2. QED
    BY <1>4, <1>10, <2>1 DEF Parse, Busy
<1>11. CASE BlobMissing(w)
  <2>1. GoesOn(w)
    BY <1>11 DEF BlobMissing, GoesOn, Failures
  <2>2. QED
    BY <1>4, <1>11, <2>1 DEF BlobMissing, Busy
<1>12. CASE ChunkBlocks(w)
  <2>1. GoesOn(w)
    BY <1>12 DEF ChunkBlocks, GoesOn, Stages, Failures
  <2>2. QED
    BY <1>4, <1>12, <2>1 DEF ChunkBlocks, Busy
<1>13. CASE EmbedChunks(w)
  <2>1. GoesOn(w)
    BY <1>13 DEF EmbedChunks, GoesOn, Stages, Failures
  <2>2. QED
    BY <1>4, <1>13, <2>1 DEF EmbedChunks, Busy
<1>14. CASE WriteChunks(w)
  <2>1. CatalogKept
    BY <1>5, <1>14, ChunksStep, OneCommit DEF WriteChunks, Busy
  <2>2. QED
    BY <1>3, <1>14, <2>1 DEF WriteChunks, Busy, GoesOn
<1>15. CASE WriteVectors(w)
  <2>1. CatalogKept
    BY <1>5, <1>15, ChunksStep, OneCommit DEF WriteVectors, Busy
  <2>2. QED
    BY <1>3, <1>15, <2>1 DEF WriteVectors, Busy, GoesOn
<1>16. CASE ChunksGone(w)
  <2>1. GoesOn(w)
    BY <1>16 DEF ChunksGone, GoesOn, Failures
  <2>2. QED
    BY <1>4, <1>16, <2>1 DEF ChunksGone, Busy
<1>17. CASE IndexClash(w)
  <2>1. GoesOn(w)
    BY <1>17 DEF IndexClash, GoesOn, Failures
  <2>2. QED
    BY <1>4, <1>17, <2>1 DEF IndexClash, Busy
<1>18. CASE Validate(w)
  <2>1. GoesOn(w)
    BY <1>18 DEF Validate, GoesOn, Failures
  <2>2. QED
    BY <1>4, <1>18, <2>1 DEF Validate, Busy
<1>19. CASE Publish(w)
  <2>1. CatalogKept
    BY <1>5, <1>19, PublishStep, OneCommit DEF Publish, Busy
  <2>2. QED
    BY <1>3, <1>19, <2>1 DEF Publish, Busy, GoesOn
<1>20. CASE LoadFailure(w)
  BY <1>4, <1>6, <1>20 DEF LoadFailure, Busy, GoesOn
<1>21. CASE RecordFailure(w)
  <2>1. CatalogKept
    BY <1>1, <1>5, <1>21, SetStatusStep, OneCommit DEF RecordFailure, Busy, WorkerState
  <2>2. QED
    BY <1>3, <1>6, <1>21, <2>1 DEF RecordFailure, Busy, GoesOn
<1>22. CASE LoadRescue(w)
  BY <1>4, <1>22 DEF LoadRescue, Busy, GoesOn
<1>23. CASE Rescue(w)
  <2>1. CatalogKept
    BY <1>5, <1>23, SetStatusStep, OneCommit DEF Rescue, Busy, Failures
  <2>2. QED
    BY <1>3, <1>23, <2>1 DEF Rescue, Busy, GoesOn
<1>24. CASE Acknowledge(w)
  BY <1>4, <1>24 DEF Acknowledge, Busy, GoesOn
<1>25. CASE StageFails(w)
  <2>1. GoesOn(w)
    BY <1>25 DEF StageFails, FailureFor, GoesOn, Failures
  <2>2. QED
    BY <1>4, <1>25, <2>1 DEF StageFails, Busy
<1>26. CASE IndexFails(w)
  <2>1. GoesOn(w)
    BY <1>26 DEF IndexFails, GoesOn, Failures
  <2>2. QED
    BY <1>4, <1>26, <2>1 DEF IndexFails, Busy
<1>27. CASE RecordFails(w)
  BY <1>4, <1>6, <1>27 DEF RecordFails, Busy, GoesOn
<1>28. CASE WorkerRestart(w)
  <2>1. queue' \in [Rows -> Nat]
    BY <1>5, <1>28 DEF WorkerRestart, StoresTyped
  <2>2. QED
    BY <1>2, <1>28, <2>1, NoCommit DEF WorkerRestart, GoesOn, WorkerTypeOK
<1>29. CASE TaskLost(w)
  BY <1>4, <1>29 DEF TaskLost, GoesOn
<1>30. CASE Redeliver(w)
  <2>1. queue' \in [Rows -> Nat] /\ redeliveries' \in 0..MaxRedeliveries
    BY <1>30, WorkerAssumption DEF Redeliver, StoresTyped, WorkerTypeOK
  <2>2. QED
    BY <1>2, <1>30, <2>1, NoCommit DEF Redeliver, GoesOn
<1>31. QED
  BY <1>7, <1>8, <1>9, <1>10, <1>11, <1>12, <1>13, <1>14, <1>15, <1>16, <1>17, <1>18,
     <1>19, <1>20, <1>21, <1>22, <1>23, <1>24, <1>25, <1>26, <1>27, <1>28, <1>29, <1>30
     DEF WorkerNext, WorkerStep

(***************************************************************************)
(* The theorems.                                                           *)
(***************************************************************************)

\* TypeOK is what the three lemmas above are about.
LEMMA TypeParts ==
  TypeOK <=> CatalogRows /\ StoresTyped /\ UploadTypeOK /\ DeletionTypeOK /\ WorkerTypeOK
  BY DEF TypeOK, CatalogTypeOK, CatalogRows, StoresTyped, FaultsTyped

\* One process moves, the others keep their records.
LEMMA NextKept ==
  ASSUME TypeOK, Next
  PROVE  TypeOK' /\ CatalogKept
<1>1. CatalogRows /\ StoresTyped /\ UploadTypeOK /\ DeletionTypeOK /\ WorkerTypeOK
  BY TypeParts
<1>2. ASSUME CatalogKept, StoresTyped', UploadTypeOK', DeletionTypeOK', WorkerTypeOK'
      PROVE  TypeOK' /\ CatalogKept
  BY <1>2 DEF TypeOK, CatalogTypeOK, CatalogRows, StoresTyped, FaultsTyped, CatalogKept
<1>3. ASSUME CatalogKept, UNCHANGED deletion
      PROVE  DeletionTypeOK'
  BY <1>1, <1>3, RowsRemain DEF DeletionTypeOK, Deleting
<1>4. CASE UploadMoves
  BY <1>1, <1>2, <1>3, <1>4, UploadKept DEF UploadMoves, WorkerTypeOK, Busy
<1>5. CASE DeletionMoves
  BY <1>1, <1>2, <1>5, DeletionKept DEF DeletionMoves, UploadTypeOK, WorkerTypeOK, Busy
<1>6. CASE WorkerMoves
  BY <1>1, <1>2, <1>3, <1>6, WorkerKept DEF WorkerMoves, UploadTypeOK
<1>7. QED
  BY <1>4, <1>5, <1>6 DEF Next

LEMMA StutterKept ==
  ASSUME TypeOK, UNCHANGED vars
  PROVE  TypeOK' /\ CatalogKept
  BY DEF vars, storeVars, catalogVars, TypeOK, CatalogTypeOK, UploadTypeOK, DeletionTypeOK,
         Deleting, WorkerTypeOK, Busy, CatalogKept, CatalogRows, CatalogStep

LEMMA InitTyped == Init => TypeOK
<1> SUFFICES ASSUME Init PROVE TypeOK
  OBVIOUS
<1> USE NoViewTyped DEF Init
<1>1. CatalogTypeOK
  BY CatalogAssumption DEF CatalogInit, CatalogTypeOK, RowView, JobStatus, ChunkState
<1>2. UploadTypeOK
  BY DEF UploadInit, UploadTypeOK, UploadState, UploadPC
<1>3. DeletionTypeOK
  BY DEF DeletionInit, DeletionTypeOK, IdleDeletion, DeletionState, DeletionPC, Deleting
<1>4. WorkerTypeOK
  BY WorkerAssumption DEF WorkerInit, WorkerTypeOK, IdleWorker, WorkerState, WorkerPC,
     Stages, Failures, Busy
<1>5. QED
  BY <1>1, <1>2, <1>3, <1>4 DEF TypeOK

\* The types hold in every behaviour.
THEOREM TypesHold == Spec => []TypeOK
<1>1. TypeOK /\ [Next]_vars => TypeOK'
  BY NextKept, StutterKept
<1>2. QED
  BY InitTyped, <1>1, PTL DEF Spec

LEMMA TombstonesKept ==
  ASSUME TypeOK, TombstonesAgree, [Next]_vars
  PROVE  TombstonesAgree'
<1>1. CatalogKept
  BY NextKept, StutterKept
<1>2. CASE UNCHANGED catalogVars
  BY <1>2 DEF catalogVars, TombstonesAgree
<1>3. ASSUME NEW r \in Rows, RowStep(r)
      PROVE  TombstonesAgree'
  <2>1. ASSUME NEW q \in Rows \ {r}
        PROVE  /\ document'[q].deleted <=> version'[q].deleted
               /\ document'[q].deleted => q \in registered'
    BY <1>3, <2>1 DEF RowStep, KeepsRow, TombstonesAgree
  <2>2. /\ document'[r].deleted <=> version'[r].deleted
        /\ document'[r].deleted => r \in registered'
    BY <1>3 DEF RowStep, TombstonesAgree
  <2>3. QED
    BY <2>1, <2>2 DEF TombstonesAgree
<1>4. QED
  BY <1>1, <1>2, <1>3 DEF CatalogKept, CatalogStep

\* The two tombstones of a document agree in every behaviour.
THEOREM TombstonesHold == Spec => []TombstonesAgree
<1>1. Init => TombstonesAgree
  <2>1. ASSUME Init, NEW r \in Rows
        PROVE  document[r].deleted = FALSE /\ version[r].deleted = FALSE
    BY <2>1 DEF Init, CatalogInit, NoView
  <2>2. QED
    BY <2>1 DEF TombstonesAgree
<1>2. TypeOK /\ TombstonesAgree /\ [Next]_vars => TombstonesAgree'
  BY TombstonesKept
<1>3. QED
  BY <1>1, <1>2, TypesHold, PTL DEF Spec

\* A deleted document is never searched or counted again.
THEOREM DeletionHolds == Spec => DeletionIsFinal
<1>1. ASSUME TypeOK, [Next]_vars, NEW r \in Rows, document[r].deleted
      PROVE  document'[r].deleted
  <2>1. CatalogKept
    BY <1>1, NextKept, StutterKept
  <2>2. CASE UNCHANGED catalogVars
    BY <1>1, <2>2 DEF catalogVars
  <2>3. CASE \E q \in Rows : RowStep(q)
    BY <1>1, <2>3 DEF RowStep, KeepsRow
  <2>4. QED
    BY <2>1, <2>2, <2>3 DEF CatalogKept, CatalogStep
<1>2. ASSUME TypeOK, [Next]_vars
      PROVE  [\A r \in Rows : document[r].deleted =>
                document'[r].deleted /\ ~Searchable(r)' /\ ~Countable(r)']_vars
  BY <1>1, <1>2 DEF Searchable, Countable
<1>3. QED
  BY <1>2, TypesHold, PTL DEF Spec, DeletionIsFinal

(***************************************************************************)
(* Refinement: every step of the service is a step of the search index or  *)
(* leaves the appearance of every document as it was.                      *)
(***************************************************************************)

\* A row no commit touched appears as before.
LEMMA KeepsAppearance ==
  ASSUME NEW q \in Rows, KeepsRow(q)
  PROVE  shownRows'[q] = shownRows[q]
  BY DEF KeepsRow, shownRows, Searchable

\* A step on one row is one action of the search index, or none.
LEMMA ShownStep ==
  ASSUME TombstonesAgree, NEW r \in Rows, RowStep(r)
  PROVE  [Index!Next]_shownRows
<1> DEFINE old == shownRows[r]
           new == shownRows'[r]
<1>1. \A q \in Rows \ {r} : shownRows'[q] = shownRows[q]
  BY KeepsAppearance DEF RowStep
<1>2. /\ shownRows = [q \in Rows |-> shownRows[q]]
      /\ shownRows' = [q \in Rows |-> shownRows'[q]]
  BY DEF shownRows
<1>3. shownRows' = [shownRows EXCEPT ![r] = new]
  BY <1>1, <1>2
<1>4. CASE new = old
  BY <1>1, <1>2, <1>4
<1>5. CASE new # old
  <2>1. CASE r \notin registered
    <3>1. old = "absent" /\ ~document[r].deleted
      BY <2>1 DEF shownRows, TombstonesAgree
    <3>2. new = "hidden"
      BY <1>5, <2>1, <3>1 DEF RowStep, shownRows, Searchable
    <3>3. Index!Accept(r)
      BY <1>3, <3>1, <3>2 DEF Index!Accept, Index!Change
    <3>4. QED
      BY <3>3 DEF Index!Next
  <2>2. CASE r \in registered /\ document[r].deleted
    <3>1. old = "gone" /\ new = "gone"
      BY <2>2 DEF RowStep, shownRows
    <3>2. QED
      BY <1>5, <3>1
  <2>3. CASE r \in registered /\ ~document[r].deleted
    <3>1. old \in {"hidden", "visible"}
      BY <2>3 DEF shownRows
    <3>2. new \in {"hidden", "visible", "gone"}
      BY <2>3 DEF RowStep, shownRows
    <3>3. Index!Show(r) \/ Index!Hide(r) \/ Index!Remove(r)
      BY <1>3, <1>5, <3>1, <3>2
         DEF Index!Show, Index!Hide, Index!Remove, Index!Change
    <3>4. QED
      BY <3>3 DEF Index!Next
  <2>4. QED
    BY <2>1, <2>2, <2>3
<1>6. QED
  BY <1>4, <1>5

\* The service implements the search index.
THEOREM IndexImplemented == Spec => ImplementsIndex
<1>1. Init => Index!Init
  BY DEF Init, CatalogInit, Index!Init, shownRows
<1>2. ASSUME TypeOK, TombstonesAgree, [Next]_vars
      PROVE  [Index!Next]_shownRows
  <2>1. CatalogKept
    BY <1>2, NextKept, StutterKept
  <2>2. CASE UNCHANGED catalogVars
    BY <2>2 DEF catalogVars, shownRows, Searchable
  <2>3. CASE \E r \in Rows : RowStep(r)
    BY <1>2, <2>3, ShownStep
  <2>4. QED
    BY <2>1, <2>2, <2>3 DEF CatalogKept, CatalogStep
<1>3. QED
  BY <1>1, <1>2, TypesHold, TombstonesHold, PTL DEF Spec, ImplementsIndex, Index!Spec
(***************************************************************************)
(* Every request and every task advances.  Each step of one lowers a       *)
(* number that is bounded, so the layers that handle one another's errors  *)
(* (a task records what failed, and rescues what it could not record)      *)
(* never come back to where they were.                                     *)
(***************************************************************************)

\* The stages that follow a stage.
StagesAfter(stage) ==
  CASE stage = "PARSING" -> 3
    [] stage = "CHUNKING" -> 2
    [] stage = "EMBEDDING" -> 1
    [] stage = "INDEXING" -> 0

\* How many steps a task, an upload and a deletion may still take.
TaskStepsFrom(pc, stage) ==
  CASE pc = "idle" -> 0
    [] pc = "ack" -> 1
    [] pc = "rescuing" -> 2
    [] pc = "rescue" -> 3
    [] pc = "record" -> 4
    [] pc = "raised" -> 5
    [] pc = "publish" -> 6
    [] pc = "validate" -> 7
    [] pc = "embed" -> 8
    [] pc = "run" -> 9 + 3 * StagesAfter(stage)
    [] pc = "commit" -> 10 + 3 * StagesAfter(stage)
    [] pc = "load" -> 11 + 3 * StagesAfter(stage)

UploadStepsFrom(pc) ==
  CASE pc = "done" -> 0
    [] pc = "failing" -> 1
    [] pc \in {"purge", "unqueued"} -> 2
    [] pc \in {"cleanup", "enqueue"} -> 3
    [] pc = "registering" -> 4
    [] pc = "register" -> 5
    [] pc = "put" -> 6
    [] pc = "start" -> 7

DeletionStepsFrom(pc) ==
  CASE pc = "idle" -> 0
    [] pc = "purging" -> 1
    [] pc = "purge" -> 2
    [] pc = "blobs" -> 3
    [] pc = "marking" -> 4

TaskLeft(w) == TaskStepsFrom(worker[w].pc, worker[w].stage)
UploadLeft(u) == UploadStepsFrom(upload[u].pc)
DeletionLeft(x) == DeletionStepsFrom(deletion[x].pc)

FewLeft ==
  /\ \A u \in Rows : UploadLeft(u) \in 0..7
  /\ \A x \in Deletions : DeletionLeft(x) \in 0..4
  /\ \A w \in Workers : TaskLeft(w) \in 0..20

UploadsAdvance ==
  \A u \in Rows : upload'[u] # upload[u] => UploadLeft(u)' < UploadLeft(u)

DeletionsAdvance ==
  \A x \in Deletions :
    Deleting(x) /\ deletion'[x] # deletion[x] => DeletionLeft(x)' < DeletionLeft(x)

TasksAdvance ==
  \A w \in Workers :
    Busy(w) /\ worker'[w] # worker[w] => TaskLeft(w)' < TaskLeft(w)

LEMMA StepsAreFew == TypeOK => FewLeft
<1> SUFFICES ASSUME TypeOK PROVE FewLeft
  OBVIOUS
<1>1. ASSUME NEW u \in Rows
      PROVE  UploadLeft(u) \in 0..7
  <2>1. upload[u].pc \in UploadPC
    BY <1>1 DEF TypeOK, UploadTypeOK, UploadState
  <2>2. QED
    BY <2>1 DEF UploadLeft, UploadStepsFrom, UploadPC
<1>2. ASSUME NEW x \in Deletions
      PROVE  DeletionLeft(x) \in 0..4
  <2>1. deletion[x].pc \in DeletionPC
    BY <1>2 DEF TypeOK, DeletionTypeOK, DeletionState
  <2>2. QED
    BY <2>1 DEF DeletionLeft, DeletionStepsFrom, DeletionPC
<1>3. ASSUME NEW w \in Workers
      PROVE  TaskLeft(w) \in 0..20
  <2>1. worker[w].pc \in WorkerPC /\ worker[w].stage \in Stages
    BY <1>3 DEF TypeOK, WorkerTypeOK, WorkerState
  <2>2. StagesAfter(worker[w].stage) \in 0..3
    BY <2>1 DEF StagesAfter, Stages
  <2>3. QED
    BY <2>1, <2>2 DEF TaskLeft, TaskStepsFrom, WorkerPC
<1>4. QED
  BY <1>1, <1>2, <1>3 DEF FewLeft

\* A record that moves on has a smaller number; the other records stay.
LEMMA UploadAdvances ==
  ASSUME UploadTypeOK, NEW u \in Rows, UploadNext(u)
  PROVE  UploadsAdvance
<1> DEFINE at == upload[u].pc
<1>1. ASSUME NEW pc \in UploadPC, Goto(u, pc) \/ \E r : Load(u, pc, r)
      PROVE  upload'[u].pc = pc /\ \A v \in Rows \ {u} : upload'[v] = upload[v]
  BY <1>1 DEF Goto, Load, UploadTypeOK
<1>2. ASSUME NEW pc \in UploadPC, Goto(u, pc) \/ \E r : Load(u, pc, r),
             UploadStepsFrom(pc) < UploadStepsFrom(at)
      PROVE  UploadsAdvance
  BY <1>1, <1>2 DEF UploadsAdvance, UploadLeft
<1>3. at \in UploadPC
  BY DEF UploadTypeOK, UploadState
<1>4. CASE at # "done" /\ Goto(u, "done")
  <2>1. UploadStepsFrom("done") < UploadStepsFrom(at)
    BY <1>3, <1>4 DEF UploadStepsFrom, UploadPC
  <2>2. QED
    BY <1>2, <1>4, <2>1 DEF UploadPC
<1>5. CASE \/ AcceptContent(u) \/ PutBlob(u) \/ EnqueueFails(u)
           \/ RegistrationFails(u)
  <2>1. PICK pc \in UploadPC :
          Goto(u, pc) /\ <<at, pc>> \in {<<"start", "put">>, <<"put", "register">>,
                           <<"enqueue", "unqueued">>, <<"registering", "cleanup">>}
    BY <1>5 DEF AcceptContent, PutBlob, EnqueueFails, RegistrationFails, UploadPC
  <2>2. UploadStepsFrom(pc) < UploadStepsFrom(at)
    BY <2>1 DEF UploadStepsFrom
  <2>3. QED
    BY <1>2, <2>1, <2>2
<1>6. CASE LoadRegistration(u) \/ LoadQueueFailure(u)
  <2>1. PICK pc \in UploadPC :
          /\ \E r : Load(u, pc, r)
          /\ <<at, pc>> \in {<<"register", "registering">>, <<"unqueued", "failing">>}
    BY <1>6 DEF LoadRegistration, LoadQueueFailure, UploadPC
  <2>2. UploadStepsFrom(pc) < UploadStepsFrom(at)
    BY <2>1 DEF UploadStepsFrom
  <2>3. QED
    BY <1>2, <2>1, <2>2
<1>7. CASE CommitRegistration(u)
  <2>1. at = "registering" /\ (Goto(u, "enqueue") \/ Goto(u, "done"))
    BY <1>7 DEF CommitRegistration
  <2>2. UploadStepsFrom("enqueue") < UploadStepsFrom("registering")
    BY DEF UploadStepsFrom
  <2>3. QED
    BY <1>2, <1>4, <2>1, <2>2 DEF UploadPC
<1>8. CASE FindSharing(u)
  <2>1. at = "cleanup" /\ (Goto(u, "purge") \/ Goto(u, "done"))
    BY <1>8 DEF FindSharing
  <2>2. UploadStepsFrom("purge") < UploadStepsFrom("cleanup")
    BY DEF UploadStepsFrom
  <2>3. QED
    BY <1>2, <1>4, <2>1, <2>2 DEF UploadPC
<1>9. CASE \/ AnswerDuplicate(u) \/ PurgeBlob(u) \/ Enqueue(u) \/ CommitQueueFailure(u)
           \/ PutBlobFails(u) \/ FindSharingFails(u) \/ PurgeBlobFails(u)
           \/ QueueFailureLost(u) \/ ApiCrash(u)
  BY <1>4, <1>9 DEF AnswerDuplicate, PurgeBlob, Enqueue, CommitQueueFailure,
     PutBlobFails, FindSharingFails, PurgeBlobFails, QueueFailureLost, ApiCrash
<1>10. QED
  BY <1>5, <1>6, <1>7, <1>8, <1>9 DEF UploadNext, UploadStep

LEMMA DeletionAdvances ==
  ASSUME DeletionTypeOK, NEW x \in Deletions, DeletionNext(x)
  PROVE  DeletionsAdvance
<1> DEFINE d == deletion[x]
<1>1. d \in DeletionState /\ d.pc \in DeletionPC
  BY DEF DeletionTypeOK, DeletionState
<1>2. ASSUME NEW new, deletion' = [deletion EXCEPT ![x] = new],
             DeletionStepsFrom(new.pc) < DeletionStepsFrom(d.pc)
      PROVE  DeletionsAdvance
  BY <1>2 DEF DeletionsAdvance, DeletionLeft, DeletionTypeOK
<1>3. CASE Deleting(x) /\ EndDeletion(x)
  <2>1. DeletionStepsFrom(IdleDeletion.pc) < DeletionStepsFrom(d.pc)
    BY <1>1, <1>3 DEF Deleting, IdleDeletion, DeletionStepsFrom, DeletionPC
  <2>2. QED
    BY <1>2, <1>3, <2>1 DEF EndDeletion
<1>4. CASE \E r \in Rows : LoadDeletion(x, r)
  BY <1>4 DEF LoadDeletion, DeletionsAdvance, Deleting, DeletionTypeOK
<1>5. CASE CommitMarkDeleting(x) \/ DeleteBlob(x) \/ LoadPurge(x)
  <2>1. PICK pc, seen :
          /\ deletion' = [deletion EXCEPT ![x] = [d EXCEPT !.pc = pc, !.seen = seen]]
          /\ <<d.pc, pc>> \in {<<"marking", "blobs">>, <<"blobs", "purge">>,
                               <<"purge", "purging">>}
    BY <1>5 DEF CommitMarkDeleting, DeleteBlob, LoadPurge, ForgetAt
  <2>2. [d EXCEPT !.pc = pc, !.seen = seen].pc = pc
    BY <1>1 DEF DeletionState
  <2>3. DeletionStepsFrom(pc) < DeletionStepsFrom(d.pc)
    BY <2>1 DEF DeletionStepsFrom
  <2>4. QED
    BY <1>2, <2>1, <2>2, <2>3
<1>6. CASE CommitPurge(x) \/ DeleteBlobFails(x) \/ DeletionAborted(x)
  BY <1>3, <1>6 DEF CommitPurge, DeleteBlobFails, DeletionAborted, Deleting
<1>7. QED
  BY <1>4, <1>5, <1>6 DEF DeletionNext, DeletionStep

LEMMA TaskAdvances ==
  ASSUME WorkerTypeOK, NEW w \in Workers, WorkerNext(w)
  PROVE  TasksAdvance
<1> DEFINE t == worker[w]
           From(pc) == TaskStepsFrom(pc, t.stage)
<1>1. t \in WorkerState /\ t.pc \in WorkerPC /\ t.stage \in Stages
  BY DEF WorkerTypeOK, WorkerState
<1>2. ASSUME NEW new, worker' = [worker EXCEPT ![w] = new],
             TaskStepsFrom(new.pc, new.stage) < From(t.pc)
      PROVE  TasksAdvance
  BY <1>2 DEF TasksAdvance, TaskLeft, WorkerTypeOK
<1>3. StagesAfter(t.stage) \in 0..3
  BY <1>1 DEF StagesAfter, Stages
<1>4. ASSUME NEW pc \in WorkerPC, ProceedTo(w, pc) \/ ProceedWith(w, pc),
             From(pc) < From(t.pc)
      PROVE  TasksAdvance
  <2>1. PICK seen : worker' = [worker EXCEPT ![w] = [t EXCEPT !.pc = pc, !.seen = seen]]
    BY <1>4 DEF ProceedTo, ProceedWith
  <2> DEFINE new == [t EXCEPT !.pc = pc, !.seen = seen]
  <2>2. new.pc = pc /\ new.stage = t.stage
    BY <1>1 DEF WorkerState
  <2>3. QED
    BY <1>2, <1>4, <2>1, <2>2
<1>5. ASSUME NEW failure, NEW expected, Raise(w, failure, expected), From("raised") < From(t.pc)
      PROVE  TasksAdvance
  <2> DEFINE new == [t EXCEPT !.pc = "raised", !.seen = NoView,
                              !.failure = failure, !.expected = expected]
  <2>1. new.pc = "raised" /\ new.stage = t.stage
    BY <1>1 DEF WorkerState
  <2>2. QED
    BY <1>2, <1>5, <2>1 DEF Raise
<1>6. ASSUME NEW stage \in Stages, EnterStage(w, stage), t.pc = "run",
             StagesAfter(stage) + 1 = StagesAfter(t.stage)
      PROVE  TasksAdvance
  <2> DEFINE new == [t EXCEPT !.pc = "load", !.stage = stage]
  <2>1. new.pc = "load" /\ new.stage = stage
    BY <1>1 DEF WorkerState
  <2>2. TaskStepsFrom("load", stage) < From("run")
    <3>1. StagesAfter(stage) \in 0..3
      BY DEF StagesAfter, Stages
    <3>2. QED
      BY <1>3, <1>6, <3>1 DEF TaskStepsFrom
  <2>3. QED
    BY <1>2, <1>6, <2>1, <2>2 DEF EnterStage
<1>7. CASE Busy(w) /\ Release(w)
  <2>1. TaskStepsFrom(IdleWorker.pc, IdleWorker.stage) = 0
    BY DEF IdleWorker, TaskStepsFrom
  <2>2. From(t.pc) > 0
    BY <1>1, <1>3, <1>7 DEF Busy, TaskStepsFrom, WorkerPC
  <2>3. QED
    BY <1>2, <1>7, <2>1, <2>2 DEF Release
<1>8. PassOn(w) \in {"ack", "rescue"}
  BY DEF PassOn
\* The order of the control points within a stage.
<1>9. /\ From("ack") = 1 /\ From("rescuing") = 2 /\ From("rescue") = 3
      /\ From("record") = 4 /\ From("raised") = 5 /\ From("publish") = 6
      /\ From("validate") = 7 /\ From("embed") = 8 /\ From("run") >= 9
      /\ From("run") < From("commit") /\ From("commit") < From("load")
  BY <1>3 DEF TaskStepsFrom
<1> HIDE DEF From
<1>10. From("run") \in Nat /\ From("commit") \in Nat /\ From("load") \in Nat
  BY <1>3 DEF From, TaskStepsFrom
<1>11. CASE \E r \in Rows : StartTask(w, r)
  BY <1>11, Zenon DEF StartTask, TasksAdvance, Busy, WorkerTypeOK
<1>12. CASE LoadStage(w) \/ CommitStage(w)
  BY <1>4, <1>9, <1>10, <1>12 DEF LoadStage, CommitStage, WorkerPC
<1>13. CASE \/ Parse(w) \/ BlobMissing(w) \/ ChunkBlocks(w) \/ EmbedChunks(w)
            \/ ChunksGone(w) \/ IndexClash(w) \/ StageFails(w) \/ IndexFails(w)
  <2>1. t.pc \in {"run", "embed", "publish", "commit"}
    BY <1>13 DEF Parse, BlobMissing, ChunkBlocks, EmbedChunks, ChunksGone, IndexClash,
       StageFails, IndexFails
  <2>2. From("raised") < From(t.pc)
    BY <1>9, <1>10, <2>1
  <2>3. CASE \E failure, expected : Raise(w, failure, expected)
    BY <1>5, <2>2, <2>3
  <2>4. ASSUME NEW stage \in Stages, t.pc = "run", EnterStage(w, stage),
               <<t.stage, stage>> \in {<<"PARSING", "CHUNKING">>,
                  <<"CHUNKING", "EMBEDDING">>, <<"EMBEDDING", "INDEXING">>}
        PROVE  TasksAdvance
    <3>1. StagesAfter(stage) + 1 = StagesAfter(t.stage)
      BY <2>4 DEF StagesAfter
    <3>2. QED
      BY <1>6, <2>4, <3>1
  <2>5. QED
    BY <1>13, <2>3, <2>4 DEF Stages, Parse, BlobMissing, ChunkBlocks, EmbedChunks, ChunksGone,
       IndexClash, StageFails, IndexFails
<1>14. CASE WriteChunks(w) \/ WriteVectors(w) \/ Publish(w)
  <2>1. PICK pc \in WorkerPC :
          /\ ProceedTo(w, pc)
          /\ <<t.pc, pc>> \in {<<"run", "embed">>, <<"embed", "validate">>, <<"publish", "ack">>}
    BY <1>14 DEF WriteChunks, WriteVectors, Publish, WorkerPC
  <2>2. From(pc) < From(t.pc)
    BY <1>9, <1>10, <2>1
  <2>3. QED
    BY <1>4, <2>1, <2>2
<1>15. CASE Validate(w)
  <2>1. From("publish") < From(t.pc) /\ From("raised") < From(t.pc)
    BY <1>9, <1>15 DEF Validate
  <2>2. QED
    BY <1>4, <1>5, <1>15, <2>1 DEF Validate, WorkerPC
<1>16. CASE \/ LoadFailure(w) \/ RecordFailure(w) \/ LoadRescue(w) \/ Rescue(w)
            \/ RecordFails(w)
  <2>1. PICK pc \in WorkerPC :
          /\ ProceedTo(w, pc) \/ ProceedWith(w, pc)
          /\ \/ t.pc \in {"raised", "record"} /\ pc \in {"ack", "rescue"}
             \/ <<t.pc, pc>> \in {<<"raised", "record">>, <<"rescue", "ack">>,
                                  <<"rescue", "rescuing">>, <<"rescuing", "ack">>}
    BY <1>8, <1>16 DEF LoadFailure, RecordFailure, LoadRescue, Rescue, RecordFails, WorkerPC
  <2>2. From(pc) < From(t.pc)
    BY <1>9, <2>1
  <2>3. QED
    BY <1>4, <2>1, <2>2
<1>17. CASE Acknowledge(w) \/ WorkerRestart(w) \/ TaskLost(w)
  BY <1>7, <1>17 DEF Acknowledge, WorkerRestart, TaskLost, Busy
<1>18. CASE Redeliver(w)
  BY <1>18 DEF Redeliver, TasksAdvance
<1>19. QED
  BY <1>11, <1>12, <1>13, <1>14, <1>15, <1>16, <1>17, <1>18 DEF WorkerNext, WorkerStep

\* Every step of an upload, a deletion or a task brings it nearer to its end,
\* whatever fails and whatever the others do: an upload is answered after at
\* most 7 steps, a deletion after 4, and a task after 20 gives its worker
\* back, even when recording its failure fails too.  That a step is possible,
\* and is taken, is the other half of UploadSettles and DeletionCompletes.
THEOREM ProcessesAdvance ==
  Spec => []FewLeft /\ [][UploadsAdvance /\ DeletionsAdvance /\ TasksAdvance]_vars
<1>1. ASSUME TypeOK, Next
      PROVE  UploadsAdvance /\ DeletionsAdvance /\ TasksAdvance
  <2>1. UploadTypeOK /\ DeletionTypeOK /\ WorkerTypeOK
    BY <1>1 DEF TypeOK
  <2>2. CASE UploadMoves
    BY <2>1, <2>2, UploadAdvances DEF UploadMoves, DeletionsAdvance, TasksAdvance
  <2>3. CASE DeletionMoves
    BY <2>1, <2>3, DeletionAdvances DEF DeletionMoves, UploadsAdvance, TasksAdvance
  <2>4. CASE WorkerMoves
    BY <2>1, <2>4, TaskAdvances DEF WorkerMoves, UploadsAdvance, DeletionsAdvance
  <2>5. QED
    BY <1>1, <2>2, <2>3, <2>4 DEF Next
<1>2. TypeOK /\ [Next]_vars => [UploadsAdvance /\ DeletionsAdvance /\ TasksAdvance]_vars
  BY <1>1
<1>3. QED
  BY <1>2, StepsAreFew, TypesHold, PTL DEF Spec
=============================================================================
