-------------------------- MODULE OwnershipProofs --------------------------
(***************************************************************************)
(* Theorems about who answers for a file and for a row: every blob has a   *)
(* reason, a live document keeps its file, and a document that is neither  *)
(* published nor failed is some process's business.  Then, of messages     *)
(* that are delivered once: what is published has its vectors and stays,   *)
(* and the job tells the version's state.  Each names the faults that it   *)
(* excludes; every other constant is arbitrary.                            *)
(***************************************************************************)
EXTENDS LifecycleProofs

\* No two uploads carry equal files.
DifferentFiles == \A u, r \in Rows : ContentOf[u] = ContentOf[r] => u = r

\* The faults after which nobody comes back to a row.
NoLostRow == FaultKinds \cap {"api_crash", "task_lost", "database"} = {}

(***************************************************************************)
(* What requests know of the rows they are about, whatever the faults.     *)
(***************************************************************************)
BeforeCommit == {"start", "put", "register", "registering"}

Order ==
  /\ \A u \in Rows : upload[u].pc \in BeforeCommit => u \notin registered
  /\ \A x \in Deletions :
       deletion[x].pc \in {"blobs", "purge", "purging"} => document[deletion[x].row].deleted
  /\ \A r \in Rows : version[r].status \in {"DELETING", "DELETED"} => version[r].deleted

\* A commit that leaves the tombstones alone.
Quiet ==
  /\ registered' = registered
  /\ \A q \in Rows : /\ document'[q].deleted = document[q].deleted
                     /\ version'[q].deleted = version[q].deleted
                     /\ version'[q].status \in {"DELETING", "DELETED"} =>
                          version'[q].status = version[q].status

LEMMA NothingIsQuiet ==
  ASSUME UNCHANGED catalogVars
  PROVE  Quiet
BY DEF catalogVars, Quiet

LEMMA StatusesAreQuiet ==
  ASSUME CatalogRows, NEW r \in Rows, NEW seen, NEW v, NEW d, WriteStatuses(r, seen, v, d),
         v \notin {"DELETING", "DELETED"}
  PROVE  Quiet
BY DEF CatalogRows, WriteStatuses, Delta, Quiet, DocumentRow, VersionRow

LEMMA SetStatusIsQuiet ==
  ASSUME CatalogRows, NEW r \in Rows, NEW seen, NEW next \in Stages \cup Failures,
         SetStatus(r, seen, next)
  PROVE  Quiet
BY StatusesAreQuiet DEF SetStatus, Stages, Failures

LEMMA ChunksAreQuiet ==
  ASSUME NEW r \in Rows, ReplaceChunks(r) \/ SaveEmbeddings(r)
  PROVE  Quiet
BY DEF ReplaceChunks, SaveEmbeddings, Quiet

LEMMA PublicationIsQuiet ==
  ASSUME CatalogRows, NEW r \in Rows, NEW seen, PublishVersion(r, seen)
  PROVE  Quiet
BY DEF CatalogRows, PublishVersion, Delta, Quiet, DocumentRow, VersionRow

\* What mark_deleting and mark_deleted do to the tombstones.
LEMMA MarksOne ==
  ASSUME CatalogRows, NEW r \in Rows, NEW seen, NEW status \in {"DELETING", "DELETED"},
         MarkDocument(r, seen, status)
  PROVE  /\ registered' = registered
         /\ document'[r].deleted /\ version'[r].deleted
         /\ \A q \in Rows \ {r} : document'[q] = document[q] /\ version'[q] = version[q]
<1>1. document[r] \in DocumentRow
  BY DEF CatalogRows
<1> QED
  BY <1>1 DEF CatalogRows, MarkDocument, DocumentRow

\* A worker never touches a tombstone, and no worker writes or removes a file.
LEMMA WorkersAreQuiet ==
  ASSUME CatalogRows, WorkerTypeOK, NEW w \in Workers, WorkerNext(w)
  PROVE  Quiet /\ blobs' = blobs /\ abandoned' = abandoned
<1>1. worker[w] \in WorkerState /\ (Busy(w) => worker[w].row \in Rows)
  BY DEF WorkerTypeOK
<1>2. worker[w].stage \in Stages /\ worker[w].failure \in Failures
  BY <1>1 DEF WorkerState
<1>3. blobs' = blobs /\ abandoned' = abandoned
  BY DEF WorkerNext, NoFault, Fault, StartTask, WorkerStep, LoadStage, CommitStage, Parse, BlobMissing,
     ChunkBlocks, EmbedChunks, WriteChunks, WriteVectors, ChunksGone, IndexClash, Validate,
     Publish, LoadFailure, RecordFailure, LoadRescue, Rescue, Acknowledge, StageFails,
     IndexFails, RecordFails, WorkerRestart, TaskLost, Redeliver, Unchanged
<1>4. CASE UNCHANGED catalogVars
  BY <1>3, <1>4, NothingIsQuiet
<1>5. CASE CommitStage(w)
  BY <1>1, <1>2, <1>3, <1>5, SetStatusIsQuiet DEF CommitStage, Busy
<1>6. CASE WriteChunks(w) \/ WriteVectors(w)
  BY <1>1, <1>3, <1>6, ChunksAreQuiet DEF WriteChunks, WriteVectors, Busy
<1>7. CASE Publish(w)
  BY <1>1, <1>3, <1>7, PublicationIsQuiet DEF Publish, Busy
<1>8. CASE RecordFailure(w)
  BY <1>1, <1>2, <1>3, <1>8, SetStatusIsQuiet DEF RecordFailure, Busy
<1>9. CASE Rescue(w)
  BY <1>1, <1>3, <1>9, SetStatusIsQuiet DEF Rescue, Busy, Failures
<1> QED
  BY <1>4, <1>5, <1>6, <1>7, <1>8, <1>9
     DEF WorkerNext, StartTask, WorkerStep, LoadStage, Parse, BlobMissing, ChunkBlocks,
     EmbedChunks, ChunksGone, IndexClash, Validate, LoadFailure, LoadRescue, Acknowledge,
     StageFails, IndexFails, RecordFails, WorkerRestart, TaskLost, Redeliver

(***************************************************************************)
(* The upload's record.                                                    *)
(***************************************************************************)
\* A step outside the part of the handler that minds its blob.
MindsBlob == {"register", "registering", "cleanup", "purge"}

Outside(u) ==
  /\ Quiet
  /\ blobs' = blobs /\ abandoned' = abandoned
  /\ upload[u].pc \notin MindsBlob /\ upload'[u].pc \notin MindsBlob
  /\ upload'[u].pc \in BeforeCommit => upload[u].pc \in BeforeCommit
  /\ \A v \in Rows \ {u} : upload'[v] = upload[v]

LEMMA UploadOutside ==
  ASSUME CatalogRows, UploadTypeOK, NEW u \in Rows,
         \/ AnswerDuplicate(u) \/ AcceptContent(u) \/ PutBlobFails(u) \/ Enqueue(u)
         \/ EnqueueFails(u) \/ LoadQueueFailure(u) \/ CommitQueueFailure(u)
         \/ QueueFailureLost(u)
  PROVE  Outside(u)
<1> USE DEF MindsBlob, BeforeCommit, UploadPC, NoFault, Fault
<1>1. ASSUME NEW pc \in {"put", "unqueued", "done"}, Goto(u, pc), UNCHANGED catalogVars,
             blobs' = blobs, abandoned' = abandoned, upload[u].pc \notin MindsBlob,
             pc = "put" => upload[u].pc = "start"
      PROVE  Outside(u)
  <2>1. upload'[u].pc = pc /\ \A v \in Rows \ {u} : upload'[v] = upload[v]
    BY <1>1 DEF Goto, UploadTypeOK
  <2>2. Quiet
    BY <1>1, NothingIsQuiet
  <2> QED
    BY <1>1, <2>1, <2>2 DEF Outside
<1>2. CASE AnswerDuplicate(u) \/ AcceptContent(u)
  BY <1>1, <1>2 DEF AnswerDuplicate, AcceptContent
<1>3. CASE PutBlobFails(u) \/ Enqueue(u) \/ EnqueueFails(u) \/ QueueFailureLost(u)
  BY <1>1, <1>3 DEF PutBlobFails, Enqueue, EnqueueFails, QueueFailureLost
<1>4. CASE LoadQueueFailure(u)
  BY <1>4, NothingIsQuiet DEF LoadQueueFailure, Load, UploadTypeOK, Outside
<1>5. CASE CommitQueueFailure(u)
  <2>1. Quiet
    BY <1>5, StatusesAreQuiet DEF CommitQueueFailure
  <2> QED
    BY <1>5, <2>1 DEF CommitQueueFailure, Goto, UploadTypeOK, Outside
<1> QED
  BY <1>2, <1>3, <1>4, <1>5

\* A commit of register_upload registers the row of its own upload or is quiet.
LEMMA RegistrationEffect ==
  ASSUME CatalogRows, UploadTypeOK, NEW u \in Rows, Registration(u)
  PROVE  \/ Creates(u) /\ InsertRows(u)
         \/ ~Creates(u) /\ Quiet
<1>1. upload[u].target \in Rows
  BY DEF UploadTypeOK, UploadState
<1> QED
  BY <1>1, StatusesAreQuiet DEF Registration

LEMMA InsertEffect ==
  ASSUME CatalogRows, NEW u \in Rows, InsertRows(u)
  PROVE  /\ registered' = registered \cup {u}
         /\ version'[u].status = "QUEUED"
         /\ \A q \in Rows : /\ document'[q].deleted = document[q].deleted
                            /\ version'[q].deleted = version[q].deleted
         /\ \A q \in Rows \ {u} : version'[q] = version[q] /\ document'[q] = document[q]
BY DEF CatalogRows, InsertRows, DocumentRow, VersionRow

(***************************************************************************)
(* Order is an invariant.                                                  *)
(***************************************************************************)
LEMMA OrderOfUploads ==
  ASSUME CatalogRows, UploadTypeOK, Order, NEW u \in Rows, UploadNext(u)
  PROVE  /\ \A v \in Rows : upload'[v].pc \in BeforeCommit => v \notin registered'
         /\ \A r \in Rows : version'[r].status \in {"DELETING", "DELETED"} => version'[r].deleted
         /\ \A r \in Rows : document'[r].deleted = document[r].deleted
<1> DEFINE Claim == /\ \A v \in Rows : upload'[v].pc \in BeforeCommit => v \notin registered'
                    /\ \A r \in Rows : version'[r].status \in {"DELETING", "DELETED"} =>
                                          version'[r].deleted
                    /\ \A r \in Rows : document'[r].deleted = document[r].deleted
<1>1. ASSUME Quiet, \A v \in Rows \ {u} : upload'[v] = upload[v],
             upload'[u].pc \in BeforeCommit => upload[u].pc \in BeforeCommit
      PROVE  Claim
  BY <1>1 DEF Quiet, Order
<1>2. ASSUME InsertRows(u), \A v \in Rows \ {u} : upload'[v] = upload[v],
             upload'[u].pc \notin BeforeCommit
      PROVE  Claim
  BY <1>2, InsertEffect DEF Order
<1>3. ASSUME Outside(u)
      PROVE  Claim
  BY <1>1, <1>3 DEF Outside
<1>4. CASE \/ AnswerDuplicate(u) \/ AcceptContent(u) \/ PutBlobFails(u) \/ Enqueue(u)
           \/ EnqueueFails(u) \/ LoadQueueFailure(u) \/ CommitQueueFailure(u)
           \/ QueueFailureLost(u)
  BY <1>3, <1>4, UploadOutside
<1>5. CASE PutBlob(u)
  BY <1>1, <1>5, NothingIsQuiet DEF PutBlob, Goto, UploadTypeOK, BeforeCommit
<1>6. CASE LoadRegistration(u)
  BY <1>1, <1>6, NothingIsQuiet DEF LoadRegistration, Load, UploadTypeOK, BeforeCommit
<1>7. CASE CommitRegistration(u) \/ RegistrationFails(u)
  <2>1. /\ \A v \in Rows \ {u} : upload'[v] = upload[v]
        /\ upload'[u].pc \notin BeforeCommit
    BY <1>7 DEF CommitRegistration, RegistrationFails, Goto, UploadTypeOK, BeforeCommit
  <2>2. InsertRows(u) \/ Quiet
    BY <1>7, RegistrationEffect, NothingIsQuiet DEF CommitRegistration, RegistrationFails
  <2> QED
    BY <1>1, <1>2, <2>1, <2>2
<1>8. CASE \/ FindSharing(u) \/ FindSharingFails(u) \/ PurgeBlob(u) \/ PurgeBlobFails(u)
           \/ ApiCrash(u)
  <2>1. /\ \A v \in Rows \ {u} : upload'[v] = upload[v]
        /\ upload'[u].pc \notin BeforeCommit
    BY <1>8 DEF FindSharing, FindSharingFails, PurgeBlob, PurgeBlobFails, ApiCrash, Goto,
       UploadTypeOK, BeforeCommit
  <2>2. Quiet
    BY <1>8, NothingIsQuiet DEF FindSharing, FindSharingFails, PurgeBlob, PurgeBlobFails, ApiCrash
  <2> QED
    BY <1>1, <2>1, <2>2
<1> QED
  BY <1>4, <1>5, <1>6, <1>7, <1>8 DEF UploadNext, UploadStep

LEMMA OrderOfDeletions ==
  ASSUME CatalogRows, DeletionTypeOK, Order, NEW x \in Deletions, DeletionNext(x)
  PROVE  /\ registered' = registered
         /\ \A r \in Rows : version'[r].status \in {"DELETING", "DELETED"} => version'[r].deleted
         /\ \A r \in Rows : document[r].deleted => document'[r].deleted
         /\ \A y \in Deletions : deletion'[y].pc \in {"blobs", "purge", "purging"} =>
                                  document'[deletion'[y].row].deleted
<1> DEFINE d == deletion[x]
           Claim == /\ registered' = registered
                    /\ \A r \in Rows : version'[r].status \in {"DELETING", "DELETED"} =>
                                          version'[r].deleted
                    /\ \A r \in Rows : document[r].deleted => document'[r].deleted
<1>1. d.pc # "idle" => d.row \in registered /\ d.row \in Rows
  BY DEF DeletionTypeOK, Deleting, CatalogRows
<1>2. ASSUME NEW status \in {"DELETING", "DELETED"}, d.pc # "idle",
             MarkDocument(d.row, d.seen, status)
      PROVE  Claim /\ document'[d.row].deleted
  BY <1>1, <1>2, MarksOne DEF Order
<1>3. ASSUME Quiet
      PROVE  Claim
  BY <1>3 DEF Quiet, Order
<1>4. Claim
  <2>1. CASE CommitMarkDeleting(x)
    BY <1>2, <2>1 DEF CommitMarkDeleting, MarkDeleting
  <2>2. CASE CommitPurge(x)
    BY <1>2, <2>2 DEF CommitPurge, MarkDeleted
  <2>3. CASE UNCHANGED catalogVars
    BY <1>3, <2>3, NothingIsQuiet
  <2> QED
    BY <2>1, <2>2, <2>3
       DEF DeletionNext, DeletionStep, LoadDeletion, DeleteBlob, LoadPurge, DeleteBlobFails,
       DeletionAborted
<1>5. \A y \in Deletions \ {x} : deletion'[y] = deletion[y]
  BY DEF DeletionNext, DeletionStep, LoadDeletion, CommitMarkDeleting, DeleteBlob, LoadPurge,
     CommitPurge, DeleteBlobFails, DeletionAborted, ForgetAt, EndDeletion, DeletionTypeOK
<1>6. ASSUME deletion'[x].pc \in {"blobs", "purge", "purging"}
      PROVE  document'[deletion'[x].row].deleted
  <2>1. CASE CommitMarkDeleting(x)
    <3>1. document'[d.row].deleted
      BY <1>2, <2>1 DEF CommitMarkDeleting, MarkDeleting
    <3> QED
      BY <2>1, <3>1 DEF CommitMarkDeleting, ForgetAt, DeletionTypeOK, DeletionState
  <2>2. CASE DeleteBlob(x) \/ LoadPurge(x)
    <3>1. d.pc \in {"blobs", "purge"} /\ deletion'[x].row = d.row
      BY <2>2 DEF DeleteBlob, LoadPurge, ForgetAt, DeletionTypeOK, DeletionState
    <3>2. document[d.row].deleted
      BY <3>1 DEF Order
    <3> QED
      BY <1>1, <1>4, <3>1, <3>2
  <2>3. CASE \/ \E r \in Rows : LoadDeletion(x, r)
             \/ CommitPurge(x) \/ DeleteBlobFails(x) \/ DeletionAborted(x)
    BY <1>6, <2>3 DEF LoadDeletion, CommitPurge, DeleteBlobFails, DeletionAborted, EndDeletion,
       IdleDeletion, DeletionTypeOK
  <2> QED
    BY <2>1, <2>2, <2>3 DEF DeletionNext, DeletionStep
<1>7. ASSUME NEW y \in Deletions \ {x}, deletion'[y].pc \in {"blobs", "purge", "purging"}
      PROVE  document'[deletion'[y].row].deleted
  <2>1. deletion[y].row \in Rows /\ document[deletion[y].row].deleted
    BY <1>5, <1>7 DEF Order, DeletionTypeOK, Deleting, CatalogRows
  <2> QED
    BY <1>4, <1>5, <2>1
<1> QED
  BY <1>4, <1>6, <1>7

LEMMA OrderKept ==
  ASSUME TypeOK, Order, Next
  PROVE  Order'
<1>1. CatalogRows /\ UploadTypeOK /\ DeletionTypeOK /\ WorkerTypeOK
  BY TypeParts
<1>2. \A x \in Deletions :
        deletion[x].pc \in {"blobs", "purge", "purging"} => deletion[x].row \in Rows
  BY <1>1 DEF DeletionTypeOK, Deleting, CatalogRows
<1>3. CASE UploadMoves
  BY <1>1, <1>2, <1>3, OrderOfUploads DEF UploadMoves, Order
<1>4. CASE DeletionMoves
  BY <1>1, <1>4, OrderOfDeletions DEF DeletionMoves, Order
<1>5. CASE WorkerMoves
  <2>1. Quiet /\ upload' = upload /\ deletion' = deletion
    BY <1>1, <1>5, WorkersAreQuiet DEF WorkerMoves
  <2> QED
    BY <1>2, <2>1 DEF Quiet, Order
<1> QED
  BY <1>3, <1>4, <1>5 DEF Next

LEMMA OrderHolds == Spec => []Order
<1>1. Init => Order
  BY DEF Init, CatalogInit, UploadInit, DeletionInit, IdleDeletion, NoView, Order
<1>2. ASSUME TypeOK, Order, UNCHANGED vars
      PROVE  Order'
  BY <1>2 DEF vars, storeVars, catalogVars, Order
<1>3. TypeOK /\ Order /\ [Next]_vars => Order'
  BY <1>2, OrderKept
<1> QED
  BY <1>1, <1>3, TypesHold, PTL DEF Spec

(***************************************************************************)
(* Every blob has a reason, or was left by a fault while a request minded  *)
(* it.  An upload that is about to register counts only if it will create  *)
(* a row: one that found a row may find it deleted at its commit, and      *)
(* answers all the same.                                                   *)
(***************************************************************************)
Keeps(u) ==
  \/ upload[u].pc \in {"register", "cleanup", "purge"}
  \/ upload[u].pc = "registering" /\ Creates(u)

Reason(c) ==
  \/ \E r \in Rows : ContentOf[r] = c /\ Live(r)
  \/ \E u \in Rows : ContentOf[u] = c /\ Keeps(u)
  \/ \E x \in Deletions : deletion[x].pc = "blobs" /\ ContentOf[deletion[x].row] = c

Reasons == \A c \in blobs \ abandoned : Reason(c)

\* A reason that was there remains unless it is one of u's own or x's own.
LEMMA LiveStays ==
  ASSUME Quiet, NEW r \in Rows
  PROVE  Live(r)' <=> Live(r)
BY DEF Quiet, Live

LEMMA ReasonsOfUploads ==
  ASSUME TypeOK, TombstonesAgree, Order, Reasons, NEW u \in Rows, UploadNext(u),
         UNCHANGED deletion
  PROVE  Reasons'
<1>1. CatalogRows /\ UploadTypeOK
  BY TypeParts
<1>2. ASSUME \A v \in Rows \ {u} : upload'[v] = upload[v],
             NEW c \in blobs \ abandoned,
             \A r \in Rows : Live(r) /\ ContentOf[r] = c => Live(r)',
             Keeps(u) /\ ContentOf[u] = c => Reason(c)'
      PROVE  Reason(c)'
  BY <1>2 DEF Reasons, Reason, Keeps, Creates
<1>3. ASSUME Quiet, blobs' \ abandoned' \subseteq blobs \ abandoned,
             \A v \in Rows \ {u} : upload'[v] = upload[v],
             Keeps(u) /\ ContentOf[u] \in blobs' \ abandoned' => Reason(ContentOf[u])'
      PROVE  Reasons'
  BY <1>2, <1>3, LiveStays DEF Reasons
<1>4. ASSUME Outside(u)
      PROVE  Reasons'
  BY <1>3, <1>4 DEF Outside, Keeps, MindsBlob
<1>5. CASE \/ AnswerDuplicate(u) \/ AcceptContent(u) \/ PutBlobFails(u) \/ Enqueue(u)
           \/ EnqueueFails(u) \/ LoadQueueFailure(u) \/ CommitQueueFailure(u)
           \/ QueueFailureLost(u)
  BY <1>1, <1>4, <1>5, UploadOutside
<1>6. CASE PutBlob(u)
  <2>1. /\ \A v \in Rows \ {u} : upload'[v] = upload[v]
        /\ upload'[u].pc = "register" /\ upload[u].pc = "put"
    BY <1>1, <1>6 DEF PutBlob, Goto, UploadTypeOK
  <2>2. /\ Quiet /\ blobs' = blobs \cup {ContentOf[u]}
        /\ abandoned' = abandoned \ {ContentOf[u]}
    BY <1>6, NothingIsQuiet DEF PutBlob, StoreBlob
  <2>3. Reason(ContentOf[u])'
    BY <2>1 DEF Reason, Keeps
  <2> QED
    BY <1>2, <2>1, <2>2, <2>3, LiveStays DEF Reasons
<1>7. CASE LoadRegistration(u)
  <2>1. /\ \A v \in Rows \ {u} : upload'[v] = upload[v]
        /\ upload'[u].pc = "registering"
    BY <1>1, <1>7 DEF LoadRegistration, Load, UploadTypeOK
  <2>2. Quiet /\ blobs' = blobs /\ abandoned' = abandoned
    BY <1>7, NothingIsQuiet DEF LoadRegistration, NoFault
  <2>3. CASE LiveFor(ContentOf[u]) = {}
    <3>1. upload'[u].target = u
      BY <1>1, <1>7, <2>3 DEF LoadRegistration, Load, UploadTypeOK
    <3>2. Reason(ContentOf[u])'
      BY <2>1, <3>1 DEF Reason, Keeps, Creates
    <3> QED
      BY <1>3, <2>1, <2>2, <3>2
  <2>4. ASSUME NEW r \in LiveFor(ContentOf[u])
        PROVE  Reasons'
    <3>1. r \in Rows /\ ContentOf[r] = ContentOf[u] /\ Live(r)
      BY <1>1 DEF LiveFor, Live, CatalogRows
    <3>2. Reason(ContentOf[u])'
      BY <2>2, <3>1, LiveStays DEF Reason
    <3> QED
      BY <1>3, <2>1, <2>2, <3>2
  <2> QED
    BY <2>3, <2>4
<1>8. CASE CommitRegistration(u)
  <2>1. /\ \A v \in Rows \ {u} : upload'[v] = upload[v]
        /\ upload[u].pc = "registering" /\ Registration(u)
        /\ blobs' = blobs /\ abandoned' = abandoned
    BY <1>1, <1>8 DEF CommitRegistration, Goto, UploadTypeOK, NoFault
  <2>2. CASE Creates(u) /\ InsertRows(u)
    <3>1. \A r \in Rows : Live(r) => Live(r)'
      BY <1>1, <2>2, InsertEffect DEF Live
    <3>2. u \notin registered
      BY <2>1 DEF Order, BeforeCommit
    <3>3. Live(u)'
      <4>1. ~document[u].deleted
        BY <3>2 DEF TombstonesAgree
      <4> QED
        BY <1>1, <2>2, <4>1, InsertEffect DEF Live
    <3>4. Reason(ContentOf[u])'
      BY <3>3 DEF Reason
    <3> QED
      BY <1>2, <2>1, <3>1, <3>4 DEF Reasons
  <2>3. CASE ~Creates(u) /\ Quiet
    BY <1>3, <2>1, <2>3 DEF Keeps
  <2> QED
    BY <1>1, <2>1, <2>2, <2>3, RegistrationEffect
<1>9. CASE RegistrationFails(u)
  <2>1. /\ \A v \in Rows \ {u} : upload'[v] = upload[v]
        /\ upload'[u].pc = "cleanup" /\ blobs' = blobs /\ abandoned' = abandoned
        /\ Registration(u) \/ UNCHANGED catalogVars
    BY <1>1, <1>9 DEF RegistrationFails, Goto, UploadTypeOK, Fault
  <2>2. Reason(ContentOf[u])'
    BY <2>1 DEF Reason, Keeps
  <2>3. \A r \in Rows : Live(r) => Live(r)'
    <3>1. CASE InsertRows(u)
      BY <1>1, <3>1, InsertEffect DEF Live
    <3>2. CASE Quiet
      BY <3>2, LiveStays
    <3> QED
      BY <1>1, <2>1, <3>1, <3>2, RegistrationEffect, NothingIsQuiet
  <2> QED
    BY <1>2, <2>1, <2>2, <2>3 DEF Reasons
<1>10. CASE FindSharing(u)
  <2>1. /\ \A v \in Rows \ {u} : upload'[v] = upload[v]
        /\ upload'[u].pc = IF LiveFor(ContentOf[u]) = {} THEN "purge" ELSE "done"
    BY <1>1, <1>10 DEF FindSharing, Goto, UploadTypeOK
  <2>2. Quiet /\ blobs' = blobs /\ abandoned' = abandoned
    BY <1>10, NothingIsQuiet DEF FindSharing, NoFault
  <2>3. CASE LiveFor(ContentOf[u]) = {}
    <3>1. Reason(ContentOf[u])'
      BY <2>1, <2>3 DEF Reason, Keeps
    <3> QED
      BY <1>3, <2>1, <2>2, <3>1
  <2>4. ASSUME NEW r \in LiveFor(ContentOf[u])
        PROVE  Reasons'
    <3>1. r \in Rows /\ ContentOf[r] = ContentOf[u] /\ Live(r)
      BY <1>1 DEF LiveFor, Live, CatalogRows
    <3>2. Reason(ContentOf[u])'
      BY <2>2, <3>1, LiveStays DEF Reason
    <3> QED
      BY <1>3, <2>1, <2>2, <3>2
  <2> QED
    BY <2>3, <2>4
<1>11. CASE PurgeBlob(u)
  <2>1. \A v \in Rows \ {u} : upload'[v] = upload[v]
    BY <1>1, <1>11 DEF PurgeBlob, Goto, UploadTypeOK
  <2>2. /\ Quiet /\ blobs' = blobs \ {ContentOf[u]}
        /\ abandoned' = abandoned \ {ContentOf[u]}
    BY <1>11, NothingIsQuiet DEF PurgeBlob, RemoveBlob
  <2> QED
    BY <1>3, <2>1, <2>2
<1>12. CASE FindSharingFails(u) \/ PurgeBlobFails(u) \/ ApiCrash(u)
  <2>1. \A v \in Rows \ {u} : upload'[v] = upload[v]
    BY <1>1, <1>12 DEF FindSharingFails, PurgeBlobFails, ApiCrash, Goto, UploadTypeOK
  <2>2. Quiet /\ blobs' = blobs
    BY <1>12, NothingIsQuiet DEF FindSharingFails, PurgeBlobFails, ApiCrash
  <2>3. \/ abandoned' = abandoned \cup {ContentOf[u]}
        \/ abandoned' = abandoned /\ ~HoldsBlob(u)
    BY <1>12 DEF FindSharingFails, PurgeBlobFails, ApiCrash, FaultLeaving, Fault
  <2>4. Keeps(u) => HoldsBlob(u)
    BY DEF Keeps, HoldsBlob
  <2> QED
    BY <1>3, <2>1, <2>2, <2>3, <2>4
<1> QED
  BY <1>5, <1>6, <1>7, <1>8, <1>9, <1>10, <1>11, <1>12 DEF UploadNext, UploadStep

LEMMA ReasonsOfDeletions ==
  ASSUME TypeOK, Order, Reasons, NEW x \in Deletions, DeletionNext(x),
         UNCHANGED upload
  PROVE  Reasons'
<1> DEFINE d == deletion[x]
<1>1. CatalogRows /\ DeletionTypeOK
  BY TypeParts
<1>2. \A y \in Deletions \ {x} : deletion'[y] = deletion[y]
  BY <1>1 DEF DeletionNext, DeletionStep, LoadDeletion, CommitMarkDeleting, DeleteBlob,
     LoadPurge, CommitPurge, DeleteBlobFails, DeletionAborted, ForgetAt, EndDeletion,
     DeletionTypeOK
<1>3. d.pc # "idle" => d.row \in Rows
  BY <1>1 DEF DeletionTypeOK, Deleting, CatalogRows
<1>4. ASSUME NEW c \in blobs \ abandoned, \A r \in Rows : Live(r) /\ ContentOf[r] = c => Reason(c)',
             d.pc = "blobs" /\ ContentOf[d.row] = c => Reason(c)'
      PROVE  Reason(c)'
  BY <1>2, <1>4 DEF Reasons, Reason, Keeps, Creates
<1>5. ASSUME \A r \in Rows : Live(r) => Live(r)',
             blobs' \ abandoned' \subseteq blobs \ abandoned,
             d.pc = "blobs" => ContentOf[d.row] \notin blobs' \ abandoned'
      PROVE  Reasons'
  <2>1. ASSUME NEW c \in blobs' \ abandoned'
        PROVE  Reason(c)'
    <3>1. \A r \in Rows : Live(r) /\ ContentOf[r] = c => Reason(c)'
      BY <1>5 DEF Reason
    <3> QED
      BY <1>4, <1>5, <2>1, <3>1
  <2> QED
    BY <2>1 DEF Reasons
<1>6. CASE \/ \E r \in Rows : LoadDeletion(x, r)
           \/ DeleteBlob(x) \/ LoadPurge(x)
  <2>1. Quiet
    BY <1>6, NothingIsQuiet DEF LoadDeletion, DeleteBlob, LoadPurge
  <2>2. \/ blobs' = blobs /\ abandoned' = abandoned /\ d.pc # "blobs"
        \/ /\ blobs' = blobs \ {ContentOf[d.row]}
           /\ abandoned' = abandoned \ {ContentOf[d.row]}
    BY <1>6 DEF LoadDeletion, DeleteBlob, LoadPurge, RemoveBlob, NoFault
  <2> QED
    BY <1>5, <2>1, <2>2, LiveStays
<1>7. CASE CommitMarkDeleting(x)
  <2>1. /\ d.pc = "marking" /\ blobs' = blobs /\ abandoned' = abandoned
        /\ deletion'[x].pc = "blobs" /\ deletion'[x].row = d.row
    BY <1>1, <1>7 DEF CommitMarkDeleting, NoFault, ForgetAt, DeletionTypeOK, DeletionState
  <2>2. \A r \in Rows \ {d.row} : Live(r) => Live(r)'
    BY <1>1, <1>3, <1>7, <2>1, MarksOne DEF CommitMarkDeleting, MarkDeleting, Live
  <2>3. ASSUME NEW c \in blobs \ abandoned, NEW r \in Rows, Live(r), ContentOf[r] = c
        PROVE  Reason(c)'
    <3>1. CASE r = d.row
      BY <2>1, <2>3, <3>1 DEF Reason
    <3>2. CASE r # d.row
      BY <2>2, <2>3, <3>2 DEF Reason
    <3> QED
      BY <3>1, <3>2
  <2> QED
    BY <1>4, <2>1, <2>3 DEF Reasons
<1>8. CASE CommitPurge(x)
  <2>1. d.pc = "purging" /\ blobs' = blobs /\ abandoned' = abandoned
    BY <1>8 DEF CommitPurge, NoFault
  <2>2. document[d.row].deleted
    BY <2>1 DEF Order
  <2>3. \A r \in Rows : Live(r) => Live(r)'
    BY <1>1, <1>3, <1>8, <2>1, <2>2, MarksOne DEF CommitPurge, MarkDeleted, Live
  <2> QED
    BY <1>5, <2>1, <2>3
<1>9. CASE DeleteBlobFails(x) \/ DeletionAborted(x)
  <2>1. Quiet /\ blobs' = blobs
    BY <1>9, NothingIsQuiet DEF DeleteBlobFails, DeletionAborted
  <2>2. \/ abandoned' = abandoned \cup {ContentOf[d.row]}
        \/ abandoned' = abandoned /\ d.pc # "blobs"
    BY <1>9 DEF DeleteBlobFails, DeletionAborted, FaultLeaving, Fault
  <2> QED
    BY <1>5, <2>1, <2>2, LiveStays
<1> QED
  BY <1>6, <1>7, <1>8, <1>9 DEF DeletionNext, DeletionStep

LEMMA ReasonsKept ==
  ASSUME TypeOK, TombstonesAgree, Order, Reasons, Next
  PROVE  Reasons'
<1>1. CASE UploadMoves
  BY <1>1, ReasonsOfUploads DEF UploadMoves
<1>2. CASE DeletionMoves
  BY <1>2, ReasonsOfDeletions DEF DeletionMoves
<1>3. CASE WorkerMoves
  <2>1. Quiet /\ blobs' = blobs /\ abandoned' = abandoned /\ upload' = upload /\ deletion' = deletion
    BY <1>3, TypeParts, WorkersAreQuiet DEF WorkerMoves
  <2> QED
    BY <2>1, LiveStays DEF Reasons, Reason, Keeps, Creates
<1> QED
  BY <1>1, <1>2, <1>3 DEF Next

\* Every blob that no fault left while a request minded it has a reason, for any uploads
\* of equal files, deletions, workers, lost or repeated messages and any mixture
\* of faults (the cleanup of upload_document, whose own session may fail, and
\* delete_document).
THEOREM BlobsHaveReason == Spec => []BlobHasReason
<1>1. Init => Reasons
  BY DEF Init, CatalogInit, Reasons
<1>2. ASSUME Reasons, UNCHANGED vars
      PROVE  Reasons'
  BY <1>2 DEF vars, storeVars, catalogVars, Reasons, Reason, Live, Keeps, Creates
<1>3. TypeOK /\ TombstonesAgree /\ Order /\ Reasons /\ [Next]_vars => Reasons'
  BY <1>2, ReasonsKept
<1>4. Reasons => BlobHasReason
  BY DEF Reasons, Reason, Keeps, HoldsBlob, BlobHasReason
<1> QED
  BY <1>1, <1>3, <1>4, TypesHold, TombstonesHold, OrderHolds, PTL DEF Spec

(***************************************************************************)
(* A live document keeps its file.                                         *)
(***************************************************************************)
Files ==
  /\ \A r \in Rows : Live(r) => ContentOf[r] \in blobs
  /\ \A u \in Rows : upload[u].pc \in {"register", "registering"} => ContentOf[u] \in blobs
  /\ \A u \in Rows : upload[u].pc = "purge" => ~Live(u)

LEMMA FilesOfUploads ==
  ASSUME DifferentFiles, TypeOK, TombstonesAgree, Order, Files, NEW u \in Rows, UploadNext(u)
  PROVE  Files'
<1>1. CatalogRows /\ UploadTypeOK
  BY TypeParts
<1>2. ASSUME Quiet, \A v \in Rows \ {u} : upload'[v] = upload[v],
             \A v \in Rows \ {u} : ContentOf[v] \in blobs => ContentOf[v] \in blobs',
             Live(u) => ContentOf[u] \in blobs',
             upload'[u].pc \in {"register", "registering"} => ContentOf[u] \in blobs',
             upload'[u].pc = "purge" => ~Live(u)
      PROVE  Files'
  BY <1>2, LiveStays DEF Files
<1>3. ASSUME InsertRows(u), \A v \in Rows \ {u} : upload'[v] = upload[v],
             upload'[u].pc \in {"enqueue", "cleanup"}, blobs' = blobs, ContentOf[u] \in blobs
      PROVE  Files'
  <2>1. \A v \in Rows \ {u} : Live(v)' <=> Live(v)
    BY <1>1, <1>3, InsertEffect DEF Live
  <2> QED
    BY <1>3, <2>1 DEF Files
<1>4. CASE \/ AnswerDuplicate(u) \/ AcceptContent(u) \/ PutBlobFails(u) \/ Enqueue(u)
           \/ EnqueueFails(u) \/ LoadQueueFailure(u) \/ CommitQueueFailure(u)
           \/ QueueFailureLost(u)
  BY <1>1, <1>2, <1>4, UploadOutside DEF Outside, MindsBlob, Files
<1>5. CASE PutBlob(u)
  BY <1>1, <1>2, <1>5, NothingIsQuiet DEF PutBlob, StoreBlob, Goto, UploadTypeOK, Files
<1>6. CASE LoadRegistration(u)
  <2>1. /\ \A v \in Rows \ {u} : upload'[v] = upload[v]
        /\ upload'[u].pc = "registering" /\ upload[u].pc = "register"
    BY <1>1, <1>6 DEF LoadRegistration, Load, UploadTypeOK
  <2>2. Quiet /\ blobs' = blobs
    BY <1>6, NothingIsQuiet DEF LoadRegistration
  <2> QED
    BY <1>2, <2>1, <2>2 DEF Files
<1>7. CASE CommitRegistration(u) \/ RegistrationFails(u)
  <2>1. /\ \A v \in Rows \ {u} : upload'[v] = upload[v]
        /\ upload[u].pc = "registering" /\ blobs' = blobs
        /\ upload'[u].pc \in {"enqueue", "done", "cleanup"}
        /\ Creates(u) => upload'[u].pc \in {"enqueue", "cleanup"}
        /\ Registration(u) \/ UNCHANGED catalogVars
    BY <1>1, <1>7 DEF CommitRegistration, RegistrationFails, Goto, UploadTypeOK
  <2>2. ContentOf[u] \in blobs
    BY <2>1 DEF Files
  <2>3. (Creates(u) /\ InsertRows(u)) \/ Quiet
    BY <1>1, <2>1, RegistrationEffect, NothingIsQuiet
  <2> QED
    BY <1>2, <1>3, <2>1, <2>2, <2>3 DEF Files
<1>8. CASE FindSharing(u)
  <2>1. /\ \A v \in Rows \ {u} : upload'[v] = upload[v]
        /\ upload'[u].pc = IF LiveFor(ContentOf[u]) = {} THEN "purge" ELSE "done"
    BY <1>1, <1>8 DEF FindSharing, Goto, UploadTypeOK
  <2>2. Quiet /\ blobs' = blobs
    BY <1>8, NothingIsQuiet DEF FindSharing
  <2>3. Live(u) => u \in LiveFor(ContentOf[u])
    BY DEF Live, LiveFor, TombstonesAgree, Order
  <2> QED
    BY <1>2, <2>1, <2>2, <2>3 DEF Files
<1>9. CASE PurgeBlob(u)
  <2>1. /\ \A v \in Rows \ {u} : upload'[v] = upload[v]
        /\ upload'[u].pc = "done" /\ upload[u].pc = "purge"
    BY <1>1, <1>9 DEF PurgeBlob, Goto, UploadTypeOK
  <2>2. Quiet /\ blobs' = blobs \ {ContentOf[u]}
    BY <1>9, NothingIsQuiet DEF PurgeBlob, RemoveBlob
  <2>3. \A v \in Rows \ {u} : ContentOf[v] # ContentOf[u]
    BY DEF DifferentFiles
  <2> QED
    BY <1>2, <2>1, <2>2, <2>3 DEF Files
<1>10. CASE FindSharingFails(u) \/ PurgeBlobFails(u) \/ ApiCrash(u)
  <2>1. /\ \A v \in Rows \ {u} : upload'[v] = upload[v]
        /\ upload'[u].pc = "done"
    BY <1>1, <1>10 DEF FindSharingFails, PurgeBlobFails, ApiCrash, Goto, UploadTypeOK
  <2>2. Quiet /\ blobs' = blobs
    BY <1>10, NothingIsQuiet DEF FindSharingFails, PurgeBlobFails, ApiCrash
  <2> QED
    BY <1>2, <2>1, <2>2 DEF Files
<1> QED
  BY <1>4, <1>5, <1>6, <1>7, <1>8, <1>9, <1>10 DEF UploadNext, UploadStep

LEMMA FilesOfDeletions ==
  ASSUME DifferentFiles, TypeOK, Order, Files, NEW x \in Deletions, DeletionNext(x),
         UNCHANGED upload
  PROVE  Files'
<1> DEFINE d == deletion[x]
<1>1. CatalogRows /\ DeletionTypeOK
  BY TypeParts
<1>2. \A r \in Rows : Live(r)' => Live(r)
  BY <1>1, OrderOfDeletions DEF Live
<1>3. CASE DeleteBlob(x)
  <2>1. /\ d.row \in registered /\ document[d.row].deleted
        /\ blobs' = blobs \ {ContentOf[d.row]}
    BY <1>1, <1>3 DEF DeleteBlob, RemoveBlob, DeletionTypeOK, Deleting, Order
  <2>2. d.row \in Rows /\ ~Live(d.row)
    BY <1>1, <2>1 DEF CatalogRows, Live
  <2>3. upload[d.row].pc \notin {"register", "registering"}
    BY <2>1, <2>2 DEF Order, BeforeCommit
  <2>4. \A r \in Rows \ {d.row} : ContentOf[r] # ContentOf[d.row]
    BY <2>2 DEF DifferentFiles
  <2> QED
    BY <1>2, <2>1, <2>2, <2>3, <2>4 DEF Files
<1>4. CASE blobs' = blobs
  BY <1>2, <1>4 DEF Files
<1> QED
  BY <1>3, <1>4
     DEF DeletionNext, DeletionStep, LoadDeletion, CommitMarkDeleting, LoadPurge,
     CommitPurge, DeleteBlobFails, DeletionAborted

LEMMA FilesKept ==
  ASSUME DifferentFiles, TypeOK, TombstonesAgree, Order, Files, Next
  PROVE  Files'
<1>1. CASE UploadMoves
  BY <1>1, FilesOfUploads DEF UploadMoves
<1>2. CASE DeletionMoves
  BY <1>2, FilesOfDeletions DEF DeletionMoves
<1>3. CASE WorkerMoves
  <2>1. Quiet /\ blobs' = blobs /\ upload' = upload
    BY <1>3, TypeParts, WorkersAreQuiet DEF WorkerMoves
  <2> QED
    BY <2>1, LiveStays DEF Files
<1> QED
  BY <1>1, <1>2, <1>3 DEF Next

\* For files that differ, a live document's file stays in the blob store whatever fails
\* and however often a message comes: a deletion removes its own document's file, and
\* the cleanup of an upload the file of a row that is not there.
THEOREM LiveFilesStay ==
  ASSUME DifferentFiles
  PROVE  Spec => []LiveHasBlob
<1>1. Init => Files
  BY DEF Init, CatalogInit, UploadInit, Files, Live
<1>2. ASSUME Files, UNCHANGED vars
      PROVE  Files'
  BY <1>2 DEF vars, storeVars, catalogVars, Files, Live
<1>3. ASSUME TypeOK, TombstonesAgree, Order, Files, Next
      PROVE  Files'
  BY <1>3, FilesKept
<1>4. TypeOK /\ TombstonesAgree /\ Order /\ Files /\ [Next]_vars => Files'
  BY <1>2, <1>3
<1>5. Files => LiveHasBlob
  BY DEF Files, LiveHasBlob
<1> QED
  BY <1>1, <1>4, <1>5, TypesHold, TombstonesHold, OrderHolds, PTL DEF Spec

(***************************************************************************)
(* An unsettled document has an owner.  A process that holds a version it  *)
(* loaded owns the row only if its commit will settle it: an attribute     *)
(* that is set to the value it was loaded with is not written.             *)
(***************************************************************************)
Sends(r) ==
  \/ upload[r].pc \in {"enqueue", "unqueued"}
  \/ upload[r].pc = "failing" /\ upload[r].seen.version.status # "FAILED_INDEX"

WillWrite(t) ==
  \/ t.pc \in {"load", "commit", "run", "embed", "validate", "raised", "rescue"}
  \/ t.pc = "publish" /\ t.seen.version.status # "READY"
  \/ t.pc = "record" /\ t.seen.version.status # t.failure
  \/ t.pc = "rescuing" /\ t.seen.version.status # "FAILED_INDEX"

Carries(w, r) == worker[w].row = r /\ WillWrite(worker[w])

Pending(r) == Live(r) /\ ~Settled(r)

OwnersKnown ==
  /\ \A u \in Rows : upload[u].pc = "registering" => Creates(u)
  /\ \A r \in Rows : Pending(r) =>
       queue[r] > 0 \/ Sends(r) \/ \E w \in Workers : Carries(w, r)

\* After a step of worker w a pending row is w's, waits in the queue, or was pending before
\* without w.
HandedOn(w, r) ==
  \/ Carries(w, r)'
  \/ queue'[r] > 0
  \/ Pending(r) /\ ~Carries(w, r) /\ queue'[r] = queue[r]

\* A pending row is not cancelled.
LEMMA PendingRuns ==
  ASSUME TombstonesAgree, Order, NEW r \in Rows, Live(r)
  PROVE  ~Cancelled(View(r)) /\ ~document[r].deleted
BY DEF TombstonesAgree, Order, Live, Cancelled, View

\* A commit of SetStatus settles the row, unless what it writes is what it loaded.
LEMMA FailureSettles ==
  ASSUME CatalogRows, NEW r \in Rows, NEW seen, NEW next \in Failures, SetStatus(r, seen, next)
  PROVE  IF seen.version.status = next
           THEN version'[r].status = version[r].status
           ELSE Settled(r)'
BY DEF CatalogRows, SetStatus, WriteStatuses, Delta, Settled, VersionRow

LEMMA PublicationSettles ==
  ASSUME CatalogRows, NEW r \in Rows, NEW seen, PublishVersion(r, seen)
  PROVE  IF seen.version.status = "READY"
           THEN version'[r].status = version[r].status
           ELSE Settled(r)'
BY DEF CatalogRows, PublishVersion, Delta, Settled, VersionRow

LEMMA LiveBefore ==
  ASSUME Quiet, NEW r \in Rows, version'[r].status = version[r].status, Pending(r)'
  PROVE  Pending(r)
BY LiveStays DEF Pending, Settled

\* How a task that keeps its row goes on: after a commit ...
LEMMA TaskForgets ==
  ASSUME WorkerTypeOK, NEW w \in Workers, NEW pc \in WorkerPC, ProceedTo(w, pc)
  PROVE  worker'[w].pc = pc /\ worker'[w].row = worker[w].row
<1>1. worker[w] \in WorkerState
  BY DEF WorkerTypeOK
<1> QED
  BY <1>1 DEF ProceedTo, WorkerTypeOK, WorkerState

\* ... and otherwise.
LEMMA TaskGoesOn ==
  ASSUME WorkerTypeOK, NEW w \in Workers
  PROVE  /\ \A pc \in WorkerPC : ProceedWith(w, pc) =>
              /\ worker'[w].pc = pc /\ worker'[w].row = worker[w].row
              /\ worker'[w].seen = View(worker[w].row)
              /\ worker'[w].failure = worker[w].failure
         /\ \A stage \in Stages : EnterStage(w, stage) =>
              worker'[w].pc = "load" /\ worker'[w].row = worker[w].row
         /\ \A failure \in Failures, expected \in BOOLEAN : Raise(w, failure, expected) =>
              worker'[w].pc = "raised" /\ worker'[w].row = worker[w].row
<1>1. worker[w] \in WorkerState
  BY DEF WorkerTypeOK
<1>2. \A pc \in WorkerPC : ProceedWith(w, pc) =>
        /\ worker'[w].pc = pc /\ worker'[w].row = worker[w].row
        /\ worker'[w].seen = View(worker[w].row)
        /\ worker'[w].failure = worker[w].failure
  BY <1>1 DEF ProceedWith, WorkerTypeOK, WorkerState
<1>3. \A stage \in Stages : EnterStage(w, stage) =>
        worker'[w].pc = "load" /\ worker'[w].row = worker[w].row
  BY <1>1 DEF EnterStage, WorkerTypeOK, WorkerState
<1>4. \A failure \in Failures, expected \in BOOLEAN : Raise(w, failure, expected) =>
        worker'[w].pc = "raised" /\ worker'[w].row = worker[w].row
  BY <1>1 DEF Raise, WorkerTypeOK, WorkerState
<1> QED
  BY <1>2, <1>3, <1>4

LEMMA WorkerHandsOn ==
  ASSUME NoLostRow, TypeOK, TombstonesAgree, Order, NEW w \in Workers, WorkerNext(w),
         NEW r \in Rows, Pending(r)'
  PROVE  HandedOn(w, r)
<1> DEFINE t == worker[w]
<1>1. CatalogRows /\ StoresTyped /\ WorkerTypeOK
  BY TypeParts
<1>2. /\ t \in WorkerState /\ (t.pc # "idle" => t.row \in Rows)
      /\ t.stage \in Stages /\ t.failure \in Failures
  BY <1>1 DEF WorkerTypeOK, Busy, WorkerState
<1>3. Quiet
  BY <1>1, WorkersAreQuiet
<1>4. Live(r) /\ ~Cancelled(View(r)) /\ ~document[r].deleted
  BY <1>3, LiveStays, PendingRuns DEF Pending
<1>5. ASSUME UNCHANGED catalogVars
      PROVE  Pending(r)
  BY <1>3, <1>5, LiveBefore DEF catalogVars
<1>6. queue[r] \in Nat
  BY <1>1 DEF StoresTyped
<1>7. CASE \E q \in Rows : StartTask(w, q)
  <2>1. PICK q \in Rows : StartTask(w, q)
    BY <1>7
  <2>2. CASE q = r
    BY <1>1, <1>2, <1>4, <2>1, <2>2
       DEF StartTask, HandedOn, Carries, WillWrite, WorkerTypeOK, WorkerState
  <2>3. CASE q # r
    BY <1>1, <1>5, <2>1, <2>3
       DEF StartTask, HandedOn, Carries, WillWrite, StoresTyped
  <2> QED
    BY <2>2, <2>3
<1>8. CASE WorkerRestart(w) \/ Redeliver(w)
  <2>1. /\ UNCHANGED catalogVars /\ t.pc # "idle"
        /\ queue' = [queue EXCEPT ![t.row] = @ + 1]
    BY <1>8 DEF WorkerRestart, Redeliver, Busy
  <2>2. CASE t.row = r
    BY <1>1, <1>6, <2>1, <2>2 DEF HandedOn, StoresTyped
  <2>3. CASE t.row # r
    BY <1>1, <1>5, <2>1, <2>3 DEF HandedOn, Carries, StoresTyped
  <2> QED
    BY <2>2, <2>3
<1>9. CASE WorkerStep(w)
  <2>1. queue' = queue /\ t.pc # "idle"
    BY <1>9 DEF WorkerStep, LoadStage, CommitStage, Parse, BlobMissing, ChunkBlocks,
       EmbedChunks, WriteChunks, WriteVectors, ChunksGone, IndexClash, Validate, Publish,
       LoadFailure, RecordFailure, LoadRescue, Rescue, Acknowledge, Unchanged
  <2>2. CASE t.row # r
    <3>1. version'[r].status = version[r].status
      BY <1>1, <1>2, <1>9, <2>1, <2>2
         DEF WorkerStep, LoadStage, CommitStage, Parse, BlobMissing, ChunkBlocks,
         EmbedChunks, WriteChunks, WriteVectors, ChunksGone, IndexClash, Validate, Publish,
         LoadFailure, RecordFailure, LoadRescue, Rescue, Acknowledge, catalogVars,
         CatalogRows, SetStatus, WriteStatuses, ReplaceChunks, SaveEmbeddings, PublishVersion
    <3> QED
      BY <1>3, <2>1, <2>2, <3>1, LiveBefore DEF HandedOn, Carries
  <2>3. CASE t.row = r
    <3> USE <1>1, <1>2, <2>3 DEF WorkerTypeOK, WorkerState
    <3>1. CASE LoadStage(w)
      BY <1>4, <3>1 DEF LoadStage, ProceedWith, HandedOn, Carries, WillWrite
    <3>2. CASE CommitStage(w)
      <4>1. worker'[w].row = t.row /\ worker'[w].pc = "run"
        BY <3>2, TaskForgets DEF CommitStage, WorkerPC
      <4> QED
        BY <4>1 DEF HandedOn, Carries, WillWrite
    <3>3. CASE Parse(w) \/ BlobMissing(w)
      <4>1. worker'[w].row = t.row /\ worker'[w].pc \in {"load", "raised"}
        BY <3>3, TaskGoesOn DEF Parse, BlobMissing, Stages, Failures
      <4> QED
        BY <4>1 DEF HandedOn, Carries, WillWrite
    <3>4. CASE ChunkBlocks(w) \/ EmbedChunks(w)
      <4>1. worker'[w].row = t.row /\ worker'[w].pc \in {"load", "raised"}
        BY <3>4, TaskGoesOn DEF ChunkBlocks, EmbedChunks, Stages, Failures
      <4> QED
        BY <4>1 DEF HandedOn, Carries, WillWrite
    <3>5. CASE WriteChunks(w) \/ WriteVectors(w)
      <4>1. worker'[w].row = t.row /\ worker'[w].pc \in {"embed", "validate"}
        BY <3>5, TaskForgets DEF WriteChunks, WriteVectors, WorkerPC
      <4> QED
        BY <4>1 DEF HandedOn, Carries, WillWrite
    <3>6. CASE ChunksGone(w) \/ IndexClash(w)
      <4>1. worker'[w].row = t.row /\ worker'[w].pc = "raised"
        BY <3>6, TaskGoesOn DEF ChunksGone, IndexClash, Failures
      <4> QED
        BY <4>1 DEF HandedOn, Carries, WillWrite
    <3>7. CASE Validate(w)
      <4>1. version[r].status # "READY"
        BY <1>5, <3>7 DEF Validate, Pending, Settled
      <4>2. /\ worker'[w].row = t.row
            /\ \/ worker'[w].pc = "publish" /\ worker'[w].seen = View(r)
               \/ worker'[w].pc = "raised"
        BY <3>7, TaskGoesOn DEF Validate, WorkerPC, Failures
      <4> QED
        BY <4>1, <4>2 DEF View, HandedOn, Carries, WillWrite
    <3>8. CASE Publish(w)
      <4>1. /\ t.seen.version.status = "READY" /\ t.pc = "publish"
            /\ version'[r].status = version[r].status
        BY <3>8, PublicationSettles DEF Publish, Pending
      <4> QED
        BY <1>3, <2>1, <4>1, LiveBefore DEF HandedOn, Carries, WillWrite
    <3>9. CASE LoadFailure(w)
      <4>1. version[r].status # t.failure
        BY <1>5, <3>9 DEF LoadFailure, Pending, Settled
      <4> QED
        BY <1>4, <3>9, <4>1, TaskGoesOn
           DEF LoadFailure, WorkerPC, View, HandedOn, Carries, WillWrite
    <3>10. CASE RecordFailure(w)
      <4>1. /\ t.seen.version.status = t.failure /\ t.pc = "record"
            /\ version'[r].status = version[r].status
        BY <3>10, FailureSettles DEF RecordFailure, Pending
      <4> QED
        BY <1>3, <2>1, <4>1, LiveBefore DEF HandedOn, Carries, WillWrite
    <3>11. CASE LoadRescue(w)
      <4>1. version[r].status # "FAILED_INDEX"
        BY <1>5, <3>11 DEF LoadRescue, Pending, Settled, Failures
      <4> QED
        BY <1>4, <3>11, <4>1, TaskGoesOn
           DEF LoadRescue, WorkerPC, View, HandedOn, Carries, WillWrite
    <3>12. CASE Rescue(w)
      <4>1. /\ t.seen.version.status = "FAILED_INDEX" /\ t.pc = "rescuing"
            /\ version'[r].status = version[r].status
        BY <3>12, FailureSettles DEF Rescue, Pending, Failures
      <4> QED
        BY <1>3, <2>1, <4>1, LiveBefore DEF HandedOn, Carries, WillWrite
    <3>13. CASE Acknowledge(w)
      BY <1>5, <2>1, <3>13 DEF Acknowledge, HandedOn, Carries, WillWrite
    <3> QED
      BY <1>9, <3>1, <3>2, <3>3, <3>4, <3>5, <3>6, <3>7, <3>8, <3>9, <3>10, <3>11, <3>12, <3>13
         DEF WorkerStep
  <2> QED
    BY <2>2, <2>3
<1>10. ~StageFails(w) /\ ~IndexFails(w) /\ ~RecordFails(w) /\ ~TaskLost(w)
  BY DEF NoLostRow, StageFails, IndexFails, RecordFails, TaskLost, Fault, Happens
<1> QED
  BY <1>7, <1>8, <1>9, <1>10 DEF WorkerNext

\* After a step of an upload a pending row is its own to send, waits in the queue, or
\* was pending before and is not this upload's.
LEMMA UploadHandsOn ==
  ASSUME NoLostRow, DifferentFiles, TypeOK, OwnersKnown, NEW u \in Rows, UploadNext(u),
         NEW r \in Rows, Pending(r)'
  PROVE  \/ Sends(r)' \/ queue'[r] > 0
         \/ Pending(r) /\ ~(r = u /\ Sends(u)) /\ queue'[r] = queue[r]
<1> DEFINE Claim == \/ Sends(r)' \/ queue'[r] > 0
                    \/ Pending(r) /\ ~(r = u /\ Sends(u)) /\ queue'[r] = queue[r]
           s == upload[u]
<1>1. CatalogRows /\ StoresTyped /\ UploadTypeOK
  BY TypeParts
<1>2. s \in UploadState /\ queue[r] \in Nat
  BY <1>1 DEF UploadTypeOK, StoresTyped
<1>3. ASSUME UNCHANGED catalogVars
      PROVE  Pending(r)
  BY <1>3, NothingIsQuiet, LiveBefore DEF catalogVars
<1>4. CASE /\ UNCHANGED <<catalogVars, queue>>
           /\ s.pc \in {"start", "put", "register", "registering", "cleanup", "purge"}
  BY <1>3, <1>4 DEF Sends
<1>5. CASE CommitRegistration(u)
  <2>1. Creates(u) /\ InsertRows(u)
    BY <1>5 DEF CommitRegistration, Registration, OwnersKnown
  <2>2. CASE r = u
    <3>1. upload'[u].pc = "enqueue"
      BY <1>1, <1>5, <2>1 DEF CommitRegistration, Goto, UploadTypeOK
    <3> QED
      BY <2>2, <3>1 DEF Sends
  <2>3. CASE r # u
    <3>1. Pending(r)
      BY <1>1, <2>1, <2>3, InsertEffect DEF Pending, Live, Settled
    <3> QED
      BY <1>5, <2>3, <3>1 DEF CommitRegistration
  <2> QED
    BY <2>2, <2>3
<1>6. CASE Enqueue(u)
  <2>1. CASE r = u
    BY <1>1, <1>2, <1>6, <2>1 DEF Enqueue, StoresTyped
  <2>2. CASE r # u
    BY <1>1, <1>3, <1>6, <2>2 DEF Enqueue, StoresTyped
  <2> QED
    BY <2>1, <2>2
<1>7. CASE EnqueueFails(u)
  <2>1. upload'[u].pc = "unqueued" /\ UNCHANGED <<catalogVars, queue>>
    BY <1>1, <1>7 DEF EnqueueFails, Goto, UploadTypeOK
  <2> QED
    BY <1>3, <2>1 DEF Sends
<1>8. CASE LoadQueueFailure(u)
  <2>1. /\ upload'[u].pc = "failing" /\ upload'[u].seen = View(u)
        /\ UNCHANGED <<catalogVars, queue>>
    BY <1>1, <1>8 DEF LoadQueueFailure, Load, UploadTypeOK
  <2>2. Pending(r)
    BY <1>3, <2>1
  <2>3. r = u => Sends(r)'
    BY <2>1, <2>2 DEF Sends, View, Pending, Settled, Failures
  <2> QED
    BY <2>1, <2>2, <2>3
<1>9. CASE CommitQueueFailure(u)
  <2>1. /\ s.pc = "failing" /\ queue' = queue
        /\ WriteStatuses(u, s.seen, "FAILED_INDEX", "FAILED")
    BY <1>9 DEF CommitQueueFailure
  <2>2. Quiet
    BY <1>1, <2>1, StatusesAreQuiet
  <2>3. CASE r # u
    <3>1. version'[r].status = version[r].status
      BY <1>1, <2>1, <2>3 DEF WriteStatuses, CatalogRows
    <3> QED
      BY <2>1, <2>2, <2>3, <3>1, LiveBefore
  <2>4. CASE r = u
    <3>1. IF s.seen.version.status = "FAILED_INDEX"
            THEN version'[u].status = version[u].status
            ELSE version'[u].status = "FAILED_INDEX"
      BY <1>1, <2>1 DEF WriteStatuses, Delta, CatalogRows, VersionRow
    <3>2. version'[u].status # "FAILED_INDEX"
      BY <2>4 DEF Pending, Settled, Failures
    <3>3. ~Sends(u) /\ version'[r].status = version[r].status
      BY <2>1, <2>4, <3>1, <3>2 DEF Sends
    <3> QED
      BY <2>1, <2>2, <2>4, <3>3, LiveBefore
  <2> QED
    BY <2>3, <2>4
<1>10. /\ ~RegistrationFails(u) /\ ~FindSharingFails(u)
       /\ ~QueueFailureLost(u) /\ ~ApiCrash(u)
  BY DEF NoLostRow, RegistrationFails, FindSharingFails, QueueFailureLost, ApiCrash, Fault,
     FaultLeaving, Happens
<1> QED
  BY <1>4, <1>5, <1>6, <1>7, <1>8, <1>9, <1>10
     DEF UploadNext, UploadStep, AnswerDuplicate, AcceptContent, PutBlob, PutBlobFails,
     LoadRegistration, FindSharing, PurgeBlob, PurgeBlobFails

\* Only LoadRegistration chooses a row, and finds none but its own.
LEMMA OwnTarget ==
  ASSUME DifferentFiles, TypeOK, NEW u \in Rows, UploadNext(u)
  PROVE  /\ \A v \in Rows \ {u} : upload'[v] = upload[v]
         /\ upload'[u].pc = "registering" => upload'[u].target = u
<1>1. CatalogRows /\ UploadTypeOK
  BY TypeParts
<1>2. CASE LoadRegistration(u)
  <2>1. \A r \in LiveFor(ContentOf[u]) : r = u
    BY <1>1 DEF LiveFor, CatalogRows, DifferentFiles
  <2> QED
    BY <1>1, <1>2, <2>1 DEF LoadRegistration, Load, UploadTypeOK
<1>3. CASE LoadQueueFailure(u)
  BY <1>1, <1>3 DEF LoadQueueFailure, Load, UploadTypeOK
<1>4. CASE \E pc \in UploadPC \ {"registering"} : Goto(u, pc)
  BY <1>1, <1>4 DEF Goto, UploadTypeOK
<1> QED
  BY <1>2, <1>3, <1>4
     DEF UploadNext, UploadStep, AnswerDuplicate, AcceptContent, PutBlob, PutBlobFails,
     CommitRegistration, RegistrationFails, FindSharing, FindSharingFails, PurgeBlob,
     PurgeBlobFails, Enqueue,
     EnqueueFails, CommitQueueFailure, QueueFailureLost, ApiCrash, UploadPC

\* A deletion leaves no row pending that was not.
LEMMA DeletionHandsOn ==
  ASSUME TypeOK, Order, NEW x \in Deletions, DeletionNext(x), NEW r \in Rows, Pending(r)'
  PROVE  Pending(r) /\ queue' = queue
<1> DEFINE d == deletion[x]
<1>1. CatalogRows /\ DeletionTypeOK
  BY TypeParts
<1>2. queue' = queue
  BY DEF DeletionNext, DeletionStep, LoadDeletion, CommitMarkDeleting, DeleteBlob,
     LoadPurge, CommitPurge, DeleteBlobFails, DeletionAborted
<1>3. CASE CommitMarkDeleting(x) \/ CommitPurge(x)
  <2>1. d.row \in Rows
    BY <1>1, <1>3 DEF CommitMarkDeleting, CommitPurge, DeletionTypeOK, Deleting, CatalogRows
  <2>2. PICK status \in {"DELETING", "DELETED"} : MarkDocument(d.row, d.seen, status)
    BY <1>3 DEF CommitMarkDeleting, CommitPurge, MarkDeleting, MarkDeleted
  <2>3. r # d.row
    BY <1>1, <2>1, <2>2, MarksOne DEF Pending, Live
  <2> QED
    BY <1>1, <1>2, <2>1, <2>2, <2>3, MarksOne DEF Pending, Live, Settled
<1>4. CASE UNCHANGED catalogVars
  BY <1>2, <1>4, NothingIsQuiet, LiveBefore DEF catalogVars
<1> QED
  BY <1>3, <1>4
     DEF DeletionNext, DeletionStep, LoadDeletion, DeleteBlob, LoadPurge, DeleteBlobFails,
     DeletionAborted

LEMMA OtherWorkers ==
  ASSUME WorkerTypeOK, NEW w \in Workers, WorkerNext(w)
  PROVE  \A v \in Workers \ {w} : worker'[v] = worker[v]
<1>1. CASE GoesOn(w)
  BY <1>1 DEF GoesOn, WorkerTypeOK, ProceedTo, ProceedWith, EnterStage, Raise, Release
<1>2. CASE \E r \in Rows : StartTask(w, r)
  BY <1>2 DEF StartTask, WorkerTypeOK
<1>3. CASE LoadStage(w) \/ CommitStage(w) \/ WriteChunks(w) \/ WriteVectors(w) \/ Publish(w)
  <2>1. \E pc \in WorkerPC : ProceedTo(w, pc) \/ ProceedWith(w, pc)
    BY <1>3 DEF LoadStage, CommitStage, WriteChunks, WriteVectors, Publish, WorkerPC
  <2> QED
    BY <1>1, <2>1 DEF GoesOn
<1>4. CASE Parse(w) \/ BlobMissing(w) \/ ChunkBlocks(w) \/ EmbedChunks(w)
  <2>1. \/ \E stage \in Stages : EnterStage(w, stage)
        \/ \E failure \in Failures, expected \in BOOLEAN : Raise(w, failure, expected)
    BY <1>4 DEF Parse, BlobMissing, ChunkBlocks, EmbedChunks, Stages, Failures
  <2> QED
    BY <1>1, <2>1 DEF GoesOn
<1>5. CASE ChunksGone(w) \/ IndexClash(w) \/ StageFails(w) \/ IndexFails(w)
  <2>1. \E failure \in Failures, expected \in BOOLEAN : Raise(w, failure, expected)
    BY <1>5 DEF ChunksGone, IndexClash, StageFails, IndexFails, FailureFor, Failures
  <2> QED
    BY <1>1, <2>1 DEF GoesOn
<1>6. CASE Validate(w)
  BY <1>1, <1>6 DEF Validate, WorkerPC, Failures, GoesOn
<1>7. CASE \/ LoadFailure(w) \/ RecordFailure(w) \/ LoadRescue(w) \/ Rescue(w)
           \/ RecordFails(w)
  <2>1. \E pc \in WorkerPC : ProceedTo(w, pc) \/ ProceedWith(w, pc)
    BY <1>7 DEF LoadFailure, RecordFailure, LoadRescue, Rescue, RecordFails, PassOn, WorkerPC
  <2> QED
    BY <1>1, <2>1 DEF GoesOn
<1>8. CASE Acknowledge(w) \/ WorkerRestart(w) \/ TaskLost(w) \/ Redeliver(w)
  BY <1>1, <1>8 DEF Acknowledge, WorkerRestart, TaskLost, Redeliver, GoesOn
<1> QED
  BY <1>2, <1>3, <1>4, <1>5, <1>6, <1>7, <1>8 DEF WorkerNext, WorkerStep

LEMMA OwnersKept ==
  ASSUME NoLostRow, DifferentFiles, TypeOK, TombstonesAgree, Order, OwnersKnown, Next
  PROVE  OwnersKnown'
<1>1. CASE UploadMoves
  <2>1. PICK u \in Rows : UploadNext(u)
    BY <1>1 DEF UploadMoves
  <2>2. worker' = worker
    BY <1>1 DEF UploadMoves
  <2>3. \A v \in Rows : upload'[v].pc = "registering" => Creates(v)'
    BY <2>1, OwnTarget DEF OwnersKnown, Creates
  <2>4. ASSUME NEW r \in Rows, Pending(r)'
        PROVE  queue'[r] > 0 \/ Sends(r)' \/ \E w \in Workers : Carries(w, r)'
    <3>1. r # u => upload'[r] = upload[r]
      BY <2>1, OwnTarget
    <3>2. CASE Pending(r) /\ ~(r = u /\ Sends(u)) /\ queue'[r] = queue[r]
      BY <2>2, <3>1, <3>2 DEF OwnersKnown, Sends, Carries
    <3> QED
      BY <2>1, <2>4, <3>2, UploadHandsOn
  <2> QED
    BY <2>3, <2>4 DEF OwnersKnown
<1>2. CASE DeletionMoves
  BY <1>2, DeletionHandsOn DEF DeletionMoves, OwnersKnown, Sends, Carries, Creates
<1>3. CASE WorkerMoves
  <2>1. PICK w \in Workers : WorkerNext(w)
    BY <1>3 DEF WorkerMoves
  <2>2. upload' = upload /\ \A v \in Workers \ {w} : worker'[v] = worker[v]
    BY <1>3, <2>1, TypeParts, OtherWorkers DEF WorkerMoves
  <2>3. ASSUME NEW r \in Rows, Pending(r)'
        PROVE  queue'[r] > 0 \/ Sends(r)' \/ \E v \in Workers : Carries(v, r)'
    <3>1. HandedOn(w, r)
      BY <2>1, <2>3, WorkerHandsOn
    <3>2. CASE Pending(r) /\ ~Carries(w, r) /\ queue'[r] = queue[r]
      BY <2>2, <3>2 DEF OwnersKnown, Sends, Carries
    <3> QED
      BY <3>1, <3>2 DEF HandedOn
  <2> QED
    BY <2>2, <2>3 DEF OwnersKnown, Creates
<1> QED
  BY <1>1, <1>2, <1>3 DEF Next

\* For files that differ, a live document that is neither published nor failed is some
\* process's business, however many workers share its messages: nothing else looks for
\* rows that were left behind.  The faults excluded are the ones that leave one.
THEOREM UnsettledStaysOwned ==
  ASSUME DifferentFiles, NoLostRow
  PROVE  Spec => []UnsettledIsOwned
<1>1. Init => OwnersKnown
  BY DEF Init, CatalogInit, UploadInit, OwnersKnown, Pending, Live
<1>2. ASSUME OwnersKnown, UNCHANGED vars
      PROVE  OwnersKnown'
  BY <1>2
     DEF vars, storeVars, catalogVars, OwnersKnown, Pending, Live, Settled, Sends, Carries,
     Creates
<1>3. TypeOK /\ TombstonesAgree /\ Order /\ OwnersKnown /\ [Next]_vars => OwnersKnown'
  BY <1>2, OwnersKept
<1>4. OwnersKnown => UnsettledIsOwned
  BY DEF OwnersKnown, Pending, Sends, Carries, UnsettledIsOwned, Owned
<1> QED
  BY <1>1, <1>3, <1>4, TypesHold, TombstonesHold, OrderHolds, PTL DEF Spec

(***************************************************************************)
(* Messages that are delivered once, for files that differ: one process at *)
(* a time works on a row, so that what it has loaded is what is stored.    *)
(* The theorems hold for any number of uploads, deletions, workers and     *)
(* other faults.                                                           *)
(***************************************************************************)
DeliveredOnce ==
  /\ DifferentFiles
  /\ MaxRedeliveries = 0
  /\ "worker_restart" \notin FaultKinds

\* A row is with its upload, in the queue, or with one worker.
Alone ==
  /\ \A r \in Rows : queue[r] \in {0, 1}
  /\ \A r \in Rows : upload[r].pc # "done" =>
       queue[r] = 0 /\ \A w \in Workers : worker[w].row # r
  /\ \A r \in Rows : queue[r] # 0 => \A w \in Workers : worker[w].row # r
  /\ \A v, w \in Workers : worker[v].row = worker[w].row => v = w \/ worker[v].row = NoRow
  /\ \A w \in Workers : worker[w].row = NoRow <=> ~Busy(w)
  /\ \A u \in Rows : upload[u].pc = "registering" => Creates(u)

\* What a worker knows of a row that nobody has deleted.
Knows(w, r) ==
  /\ worker[w].pc # "ack" => version[r].status # "READY"
  /\ worker[w].pc \in {"commit", "publish", "record", "rescuing"} => worker[w].seen = View(r)
  /\ worker[w].pc = "publish" => chunks[r] = "embedded"

Fresh(r) ==
  /\ upload[r].pc # "done" \/ queue[r] # 0 => version[r].status # "READY"
  /\ \A w \in Workers : worker[w].row = r => Knows(w, r)
  /\ version[r].status = "READY" => chunks[r] = "embedded"

FreshRows == \A r \in Rows : ~document[r].deleted => Fresh(r)

(***************************************************************************)
(* One process at a time.                                                  *)
(***************************************************************************)
LEMMA AloneAfterUploads ==
  ASSUME DeliveredOnce, TypeOK, Alone, NEW u \in Rows, UploadNext(u), UNCHANGED worker
  PROVE  /\ Alone'
         /\ upload[u].pc # "done"
         /\ \A r \in Rows \ {u} : upload'[r] = upload[r] /\ queue'[r] = queue[r]
<1>1. StoresTyped /\ UploadTypeOK /\ WorkerTypeOK
  BY TypeParts
<1>2. upload[u].pc # "done"
  BY DEF UploadNext, UploadStep, AnswerDuplicate, AcceptContent, PutBlob, PutBlobFails,
     LoadRegistration, CommitRegistration, RegistrationFails, FindSharing,
     FindSharingFails, PurgeBlob,
     PurgeBlobFails, Enqueue, EnqueueFails, LoadQueueFailure, CommitQueueFailure,
     QueueFailureLost, ApiCrash
<1>3. queue[u] = 0 /\ \A w \in Workers : worker[w].row # u
  BY <1>2 DEF Alone
<1>4. /\ \A v \in Rows \ {u} : upload'[v] = upload[v]
      /\ upload'[u].pc = "registering" => upload'[u].target = u
  BY OwnTarget DEF DeliveredOnce
<1>5. CASE Enqueue(u)
  <2>1. upload'[u].pc = "done" /\ queue' = [queue EXCEPT ![u] = 1]
    BY <1>1, <1>3, <1>5 DEF Enqueue, Goto, UploadTypeOK, StoresTyped
  <2> QED
    BY <1>1, <1>2, <1>3, <1>4, <2>1 DEF Alone, Creates, Busy, StoresTyped
<1>6. CASE queue' = queue
  BY <1>1, <1>2, <1>3, <1>4, <1>6 DEF Alone, Creates, Busy
<1> QED
  BY <1>5, <1>6
     DEF UploadNext, UploadStep, AnswerDuplicate, AcceptContent, PutBlob, PutBlobFails,
     LoadRegistration, CommitRegistration, RegistrationFails, FindSharing,
     FindSharingFails, PurgeBlob,
     PurgeBlobFails, EnqueueFails, LoadQueueFailure, CommitQueueFailure, QueueFailureLost,
     ApiCrash

\* A worker takes a message, keeps its row or gives it up.
LEMMA WorkerRows ==
  ASSUME DeliveredOnce, TypeOK, Alone, NEW w \in Workers, WorkerNext(w)
  PROVE  /\ \A v \in Workers \ {w} : worker'[v] = worker[v]
         /\ \/ \E r \in Rows : StartTask(w, r)
            \/ /\ Busy(w) /\ queue' = queue
               /\ \/ worker'[w].row = worker[w].row /\ Busy(w)'
                  \/ worker'[w].row = NoRow /\ ~Busy(w)'
<1>1. WorkerTypeOK
  BY TypeParts
<1>2. worker[w] \in WorkerState
  BY <1>1 DEF WorkerTypeOK
<1>3. \A v \in Workers \ {w} : worker'[v] = worker[v]
  BY <1>1, OtherWorkers
<1>4. ~WorkerRestart(w) /\ ~Redeliver(w)
  BY <1>1 DEF DeliveredOnce, WorkerRestart, Redeliver, Fault, Happens, WorkerTypeOK
<1> DEFINE Kept == worker'[w].row = worker[w].row /\ Busy(w)'
           Left == worker'[w].row = NoRow /\ ~Busy(w)'
<1>5. ASSUME NEW pc \in WorkerPC \ {"idle"}, ProceedTo(w, pc) \/ ProceedWith(w, pc)
      PROVE  Kept
  <2>1. CASE ProceedTo(w, pc)
    BY <1>1, <1>2, <2>1 DEF ProceedTo, WorkerTypeOK, WorkerState, Busy
  <2>2. CASE ProceedWith(w, pc)
    BY <1>1, <1>2, <2>2 DEF ProceedWith, WorkerTypeOK, WorkerState, Busy
  <2> QED
    BY <1>5, <2>1, <2>2
<1>6. ASSUME NEW stage \in Stages, EnterStage(w, stage)
      PROVE  Kept
  BY <1>1, <1>2, <1>6 DEF EnterStage, WorkerTypeOK, WorkerState, Busy
<1>7. ASSUME NEW failure \in Failures, NEW expected \in BOOLEAN, Raise(w, failure, expected)
      PROVE  Kept
  BY <1>1, <1>2, <1>7 DEF Raise, WorkerTypeOK, WorkerState, Busy
<1>8. ASSUME Release(w)
      PROVE  Left
  BY <1>1, <1>8 DEF Release, IdleWorker, WorkerTypeOK, Busy
<1>9. CASE WorkerStep(w) \/ StageFails(w) \/ IndexFails(w) \/ RecordFails(w) \/ TaskLost(w)
  <2>1. Busy(w) /\ queue' = queue
    BY <1>9 DEF WorkerStep, LoadStage, CommitStage, Parse, BlobMissing, ChunkBlocks,
       EmbedChunks, WriteChunks, WriteVectors, ChunksGone, IndexClash, Validate, Publish,
       LoadFailure, RecordFailure, LoadRescue, Rescue, Acknowledge, StageFails, IndexFails,
       RecordFails, TaskLost, Unchanged, Busy
  <2>2. \/ \E pc \in WorkerPC \ {"idle"} : ProceedTo(w, pc) \/ ProceedWith(w, pc)
        \/ \E stage \in Stages : EnterStage(w, stage)
        \/ \E failure \in Failures, expected \in BOOLEAN : Raise(w, failure, expected)
        \/ Release(w)
    <3>1. CASE LoadStage(w) \/ CommitStage(w) \/ WriteChunks(w) \/ WriteVectors(w) \/ Publish(w)
      BY <3>1 DEF LoadStage, CommitStage, WriteChunks, WriteVectors, Publish, WorkerPC
    <3>2. CASE Parse(w) \/ BlobMissing(w) \/ ChunkBlocks(w) \/ EmbedChunks(w)
      BY <3>2 DEF Parse, BlobMissing, ChunkBlocks, EmbedChunks, Stages, Failures
    <3>3. CASE ChunksGone(w) \/ IndexClash(w) \/ StageFails(w) \/ IndexFails(w)
      BY <3>3 DEF ChunksGone, IndexClash, StageFails, IndexFails, FailureFor, Failures
    <3>4. CASE Validate(w)
      BY <3>4 DEF Validate, WorkerPC, Failures
    <3>5. CASE \/ LoadFailure(w) \/ RecordFailure(w) \/ LoadRescue(w) \/ Rescue(w)
               \/ RecordFails(w)
      BY <3>5 DEF LoadFailure, RecordFailure, LoadRescue, Rescue, RecordFails, PassOn, WorkerPC
    <3>6. CASE Acknowledge(w) \/ TaskLost(w)
      BY <3>6 DEF Acknowledge, TaskLost
    <3> QED
      BY <1>9, <3>1, <3>2, <3>3, <3>4, <3>5, <3>6 DEF WorkerStep
  <2>3. Kept \/ Left
    BY <2>2, <1>5, <1>6, <1>7, <1>8
  <2> QED
    BY <1>3, <2>1, <2>3
<1> QED
  BY <1>3, <1>4, <1>9 DEF WorkerNext

LEMMA TakesMessage ==
  ASSUME TypeOK, NEW w \in Workers, NEW r \in Rows, StartTask(w, r)
  PROVE  /\ queue[r] > 0 /\ queue' = [queue EXCEPT ![r] = @ - 1]
         /\ worker'[w].row = r /\ Busy(w)' /\ ~Busy(w)
         /\ \/ worker'[w].pc = "ack"
            \/ worker'[w].pc = "commit" /\ worker'[w].seen = View(r)
         /\ UNCHANGED catalogVars
<1>1. worker \in [Workers -> WorkerState] /\ worker[w] \in WorkerState
  BY TypeParts DEF WorkerTypeOK
<1> QED
  BY <1>1 DEF StartTask, WorkerState, Busy

LEMMA AloneAfterWorkers ==
  ASSUME DeliveredOnce, TypeOK, Alone, NEW w \in Workers, WorkerNext(w), UNCHANGED upload
  PROVE  Alone'
<1>1. StoresTyped /\ UploadTypeOK /\ WorkerTypeOK /\ NoRow \notin Rows
  BY TypeParts, CatalogAssumption
<1>2. \A v \in Workers \ {w} : worker'[v] = worker[v]
  BY WorkerRows
<1>3. CASE \E r \in Rows : StartTask(w, r)
  <2>1. PICK r \in Rows : StartTask(w, r)
    BY <1>3
  <2>2. /\ queue[r] = 1 /\ queue' = [queue EXCEPT ![r] = 0]
        /\ worker'[w].row = r /\ Busy(w)' /\ upload[r].pc = "done"
        /\ \A v \in Workers : worker[v].row # r
    BY <1>1, <2>1, TakesMessage DEF Alone, StoresTyped
  <2> QED
    BY <1>1, <1>2, <2>2 DEF Alone, Creates, Busy, StoresTyped
<1>4. CASE /\ queue' = queue /\ Busy(w)
           /\ worker'[w].row = worker[w].row /\ Busy(w)'
  BY <1>1, <1>2, <1>4 DEF Alone, Creates, Busy
<1>5. CASE /\ queue' = queue
           /\ worker'[w].row = NoRow /\ ~Busy(w)'
  BY <1>1, <1>2, <1>5 DEF Alone, Creates, Busy
<1> QED
  BY <1>3, <1>4, <1>5, WorkerRows

LEMMA AloneKept ==
  ASSUME DeliveredOnce, TypeOK, Alone, Next
  PROVE  Alone'
<1>1. CASE UploadMoves
  BY <1>1, AloneAfterUploads DEF UploadMoves
<1>2. CASE DeletionMoves
  <2>1. queue' = queue /\ upload' = upload /\ worker' = worker
    BY <1>2 DEF DeletionMoves, DeletionNext, DeletionStep, LoadDeletion, CommitMarkDeleting,
       DeleteBlob, LoadPurge, CommitPurge, DeleteBlobFails, DeletionAborted
  <2> QED
    BY <2>1 DEF Alone, Busy, Creates
<1>3. CASE WorkerMoves
  BY <1>3, AloneAfterWorkers DEF WorkerMoves
<1> QED
  BY <1>1, <1>2, <1>3 DEF Next

LEMMA AloneAtFirst == Init => Alone
<1>1. ASSUME Init
      PROVE  /\ \A r \in Rows : queue[r] = 0 /\ upload[r].pc = "start" /\ r # NoRow
             /\ \A w \in Workers : worker[w].row = NoRow /\ ~Busy(w)
  BY <1>1, CatalogAssumption
     DEF Init, CatalogInit, UploadInit, WorkerInit, IdleWorker, Busy
<1> QED
  BY <1>1 DEF Alone

LEMMA AloneHolds == DeliveredOnce => (Spec => []Alone)
<1> SUFFICES ASSUME DeliveredOnce PROVE Spec => []Alone
  OBVIOUS
<1>1. Init => Alone
  BY AloneAtFirst
<1>2. ASSUME Alone, UNCHANGED vars
      PROVE  Alone'
  BY <1>2 DEF vars, storeVars, Alone, Busy, Creates
<1>3. ASSUME TypeOK, Alone, Next
      PROVE  Alone'
  BY <1>3, AloneKept
<1>4. TypeOK /\ Alone /\ [Next]_vars => Alone'
  BY <1>2, <1>3
<1> QED
  BY <1>1, <1>4, TypesHold, PTL DEF Spec

(***************************************************************************)
(* What a step leaves alone.                                               *)
(***************************************************************************)
SameRow(r) ==
  /\ r \in registered' <=> r \in registered
  /\ document'[r] = document[r] /\ version'[r] = version[r]
  /\ job'[r] = job[r] /\ chunks'[r] = chunks[r]

LEMMA SameRows ==
  ASSUME UNCHANGED catalogVars, NEW r \in Rows
  PROVE  SameRow(r)
BY DEF catalogVars, SameRow

LEMMA WorkersWriteOwnRow ==
  ASSUME TypeOK, NEW w \in Workers, WorkerNext(w), NEW r \in Rows, worker[w].row # r
  PROVE  SameRow(r)
<1>1. CatalogRows /\ WorkerTypeOK
  BY TypeParts
<1>2. CASE UNCHANGED catalogVars
  BY <1>2, SameRows
<1>3. CASE CommitStage(w) \/ RecordFailure(w) \/ Rescue(w)
  BY <1>1, <1>3 DEF CommitStage, RecordFailure, Rescue, SetStatus, WriteStatuses, CatalogRows,
     SameRow
<1>4. CASE WriteChunks(w) \/ WriteVectors(w)
  BY <1>1, <1>4 DEF WriteChunks, WriteVectors, ReplaceChunks, SaveEmbeddings, CatalogRows,
     SameRow
<1>5. CASE Publish(w)
  BY <1>1, <1>5 DEF Publish, PublishVersion, CatalogRows, SameRow
<1> QED
  BY <1>2, <1>3, <1>4, <1>5
     DEF WorkerNext, StartTask, WorkerStep, LoadStage, Parse, BlobMissing, ChunkBlocks,
     EmbedChunks, ChunksGone, IndexClash, Validate, LoadFailure, LoadRescue, Acknowledge,
     StageFails, IndexFails, RecordFails, WorkerRestart, TaskLost, Redeliver

LEMMA UploadsWriteOwnRow ==
  ASSUME TypeOK, Alone, NEW u \in Rows, UploadNext(u)
  PROVE  /\ \A r \in Rows \ {u} : SameRow(r)
         /\ \/ SameRow(u)
            \/ /\ upload[u].pc = "registering" /\ InsertRows(u)
               /\ upload'[u].pc \in {"enqueue", "cleanup"}
            \/ /\ upload[u].pc = "failing" /\ CommitQueueFailure(u)
<1>1. CatalogRows /\ UploadTypeOK
  BY TypeParts
<1>2. CASE UNCHANGED catalogVars
  BY <1>2, SameRows
<1>3. CASE Registration(u) /\ (CommitRegistration(u) \/ RegistrationFails(u))
  <2>1. Creates(u) /\ InsertRows(u) /\ upload[u].pc = "registering"
    BY <1>3 DEF CommitRegistration, RegistrationFails, Registration, Alone
  <2>2. upload'[u].pc \in {"enqueue", "cleanup"}
    BY <1>1, <1>3, <2>1 DEF CommitRegistration, RegistrationFails, Goto, UploadTypeOK
  <2>3. \A r \in Rows \ {u} : SameRow(r)
    BY <1>1, <2>1 DEF InsertRows, CatalogRows, SameRow
  <2> QED
    BY <2>1, <2>2, <2>3
<1>4. CASE CommitQueueFailure(u)
  BY <1>1, <1>4 DEF CommitQueueFailure, WriteStatuses, CatalogRows, SameRow
<1> QED
  BY <1>2, <1>3, <1>4
     DEF UploadNext, UploadStep, AnswerDuplicate, AcceptContent, PutBlob, PutBlobFails,
     LoadRegistration, CommitRegistration, RegistrationFails, FindSharing,
     FindSharingFails, PurgeBlob,
     PurgeBlobFails, Enqueue, EnqueueFails, LoadQueueFailure, QueueFailureLost, ApiCrash

\* A deletion writes a row it marks, and no other.
LEMMA DeletionsWriteMarkedRow ==
  ASSUME TypeOK, NEW x \in Deletions, DeletionNext(x), NEW r \in Rows, ~document'[r].deleted
  PROVE  SameRow(r)
<1> DEFINE d == deletion[x]
<1>1. CatalogRows /\ DeletionTypeOK
  BY TypeParts
<1>2. CASE CommitMarkDeleting(x) \/ CommitPurge(x)
  <2>1. d.row \in Rows
    BY <1>1, <1>2 DEF CommitMarkDeleting, CommitPurge, DeletionTypeOK, Deleting, CatalogRows
  <2>2. PICK status \in {"DELETING", "DELETED"} : MarkDocument(d.row, d.seen, status)
    BY <1>2 DEF CommitMarkDeleting, CommitPurge, MarkDeleting, MarkDeleted
  <2>3. r # d.row
    BY <1>1, <2>1, <2>2, MarksOne
  <2>4. chunks'[r] = chunks[r] /\ job' = job
    BY <1>1, <1>2, <2>2, <2>3
       DEF CommitMarkDeleting, CommitPurge, MarkDeleting, MarkDeleted, MarkDocument, CatalogRows
  <2> QED
    BY <1>1, <2>1, <2>2, <2>3, <2>4, MarksOne DEF SameRow
<1>3. CASE UNCHANGED catalogVars
  BY <1>3, SameRows
<1> QED
  BY <1>2, <1>3
     DEF DeletionNext, DeletionStep, LoadDeletion, DeleteBlob, LoadPurge, DeleteBlobFails,
     DeletionAborted

(***************************************************************************)
(* What is stored is what the row's worker has loaded.                     *)
(***************************************************************************)

\* What a commit that follows its SELECT with nothing in between writes.
LEMMA StatusWritten ==
  ASSUME CatalogRows, NEW r \in Rows, NEW seen, seen = View(r),
         NEW next \in Stages \cup Failures, SetStatus(r, seen, next)
  PROVE  /\ version'[r].status = next /\ job'[r] = JobStatusOf(next)
         /\ chunks' = chunks
BY DEF CatalogRows, SetStatus, WriteStatuses, Delta, View, VersionRow

LEMMA PublicationWritten ==
  ASSUME CatalogRows, NEW r \in Rows, NEW seen, seen = View(r), PublishVersion(r, seen)
  PROVE  /\ version'[r].status = "READY" /\ job'[r] = "SUCCEEDED"
         /\ chunks' = chunks
BY DEF CatalogRows, PublishVersion, Delta, View, VersionRow

\* The row of a busy worker after its next step.
LEMMA KnowsAfter ==
  ASSUME DeliveredOnce, TypeOK, NEW w \in Workers, WorkerNext(w), Busy(w),
         NEW r \in Rows, worker[w].row = r, Knows(w, r),
         version[r].status = "READY" => chunks[r] = "embedded"
  PROVE  /\ Busy(w)' => Knows(w, r)'
         /\ version'[r].status = "READY" => chunks'[r] = "embedded"
<1> DEFINE t == worker[w]
           Claim == /\ Busy(w)' => Knows(w, r)'
                    /\ version'[r].status = "READY" => chunks'[r] = "embedded"
<1>1. CatalogRows /\ WorkerTypeOK
  BY TypeParts
<1>2. t \in WorkerState /\ t.stage \in Stages /\ t.failure \in Failures
  BY <1>1 DEF WorkerTypeOK, WorkerState
<1>3. ASSUME UNCHANGED catalogVars,
             worker'[w].pc \in {"load", "rescue", "raised", "ack", "idle"},
             worker'[w].pc \in {"ack", "idle"} \/ t.pc # "ack"
      PROVE  Claim
  BY <1>3 DEF catalogVars, Knows, Busy
<1>4. ASSUME UNCHANGED catalogVars, t.pc # "ack",
             worker'[w].pc \in {"commit", "record", "rescuing"}, worker'[w].seen = View(r)
      PROVE  Claim
  <2>1. View(r)' = View(r) /\ version' = version /\ chunks' = chunks
    BY <1>4 DEF catalogVars, View
  <2> QED
    BY <1>4, <2>1 DEF Knows
<1>5. ASSUME version'[r].status # "READY",
             worker'[w].pc \notin {"commit", "record", "rescuing", "publish"}
      PROVE  Claim
  BY <1>5 DEF Knows
<1>6. CASE LoadStage(w)
  <2>1. CASE ProceedTo(w, "rescue")
    BY <1>1, <1>3, <1>6, <2>1, TaskForgets DEF LoadStage, WorkerPC
  <2>2. CASE ProceedWith(w, "commit")
    BY <1>1, <1>4, <1>6, <2>2, TaskGoesOn DEF LoadStage, WorkerPC
  <2> QED
    BY <1>6, <2>1, <2>2 DEF LoadStage
<1>7. CASE CommitStage(w)
  <2>1. worker'[w].pc = "run"
    BY <1>1, <1>7, TaskForgets DEF CommitStage, WorkerPC
  <2>2. version'[r].status = t.stage
    BY <1>1, <1>2, <1>7, StatusWritten DEF CommitStage, Knows
  <2> QED
    BY <1>2, <1>5, <2>1, <2>2 DEF Stages
<1>8. CASE Parse(w) \/ BlobMissing(w) \/ ChunkBlocks(w) \/ EmbedChunks(w)
  <2>1. worker'[w].pc \in {"load", "raised"}
    BY <1>1, <1>8, TaskGoesOn DEF Parse, BlobMissing, ChunkBlocks, EmbedChunks, Stages, Failures
  <2> QED
    BY <1>3, <1>8, <2>1 DEF Parse, BlobMissing, ChunkBlocks, EmbedChunks
<1>9. CASE WriteChunks(w) \/ WriteVectors(w)
  <2>1. worker'[w].pc \in {"embed", "validate"}
    BY <1>1, <1>9, TaskForgets DEF WriteChunks, WriteVectors, WorkerPC
  <2>2. version' = version /\ t.pc # "ack"
    BY <1>9 DEF WriteChunks, WriteVectors, ReplaceChunks, SaveEmbeddings
  <2> QED
    BY <1>5, <2>1, <2>2 DEF Knows
<1>10. CASE ChunksGone(w) \/ IndexClash(w) \/ StageFails(w) \/ IndexFails(w)
  <2>1. worker'[w].pc = "raised"
    BY <1>1, <1>10, TaskGoesOn DEF ChunksGone, IndexClash, StageFails, IndexFails, FailureFor,
       Failures
  <2> QED
    BY <1>3, <1>10, <2>1 DEF ChunksGone, IndexClash, StageFails, IndexFails
<1>11. CASE Validate(w)
  <2>1. CASE chunks[r] = "embedded" /\ ProceedWith(w, "publish")
    <3>1. worker'[w].pc = "publish" /\ worker'[w].seen = View(r)
      BY <1>1, <2>1, TaskGoesOn DEF WorkerPC
    <3> QED
      BY <1>11, <2>1, <3>1 DEF Validate, Knows, View, catalogVars
  <2>2. CASE Raise(w, "FAILED_INDEX", TRUE)
    <3>1. worker'[w].pc = "raised"
      BY <1>1, <2>2, TaskGoesOn DEF Failures
    <3> QED
      BY <1>3, <1>11, <3>1 DEF Validate
  <2> QED
    BY <1>11, <2>1, <2>2 DEF Validate
<1>12. CASE Publish(w)
  <2>1. worker'[w].pc = "ack" /\ t.pc = "publish"
    BY <1>1, <1>12, TaskForgets DEF Publish, WorkerPC
  <2>2. chunks'[r] = "embedded"
    BY <1>1, <1>12, <2>1, PublicationWritten DEF Publish, Knows
  <2> QED
    BY <2>1, <2>2 DEF Knows
<1>13. CASE LoadFailure(w)
  <2>1. CASE ProceedTo(w, PassOn(w))
    BY <1>1, <1>3, <1>13, <2>1, TaskForgets DEF LoadFailure, PassOn, WorkerPC
  <2>2. CASE ProceedWith(w, "record")
    BY <1>1, <1>4, <1>13, <2>2, TaskGoesOn DEF LoadFailure, WorkerPC
  <2> QED
    BY <1>13, <2>1, <2>2 DEF LoadFailure
<1>14. CASE RecordFailure(w)
  <2>1. worker'[w].pc \in {"ack", "rescue"}
    BY <1>1, <1>14, TaskForgets DEF RecordFailure, PassOn, WorkerPC
  <2>2. version'[r].status = t.failure
    BY <1>1, <1>2, <1>14, StatusWritten DEF RecordFailure, Knows
  <2> QED
    BY <1>2, <1>5, <2>1, <2>2 DEF Failures
<1>15. CASE LoadRescue(w)
  <2>1. CASE ProceedTo(w, "ack")
    BY <1>1, <1>3, <1>15, <2>1, TaskForgets DEF LoadRescue, WorkerPC
  <2>2. CASE ProceedWith(w, "rescuing")
    BY <1>1, <1>4, <1>15, <2>2, TaskGoesOn DEF LoadRescue, WorkerPC
  <2> QED
    BY <1>15, <2>1, <2>2 DEF LoadRescue
<1>16. CASE Rescue(w)
  <2>1. worker'[w].pc = "ack"
    BY <1>1, <1>16, TaskForgets DEF Rescue, WorkerPC
  <2>2. version'[r].status = "FAILED_INDEX"
    BY <1>1, <1>16, StatusWritten DEF Rescue, Knows, Failures
  <2> QED
    BY <1>5, <2>1, <2>2
<1>17. CASE RecordFails(w)
  <2>1. worker'[w].pc \in {"ack", "rescue"}
    BY <1>1, <1>17, TaskForgets DEF RecordFails, PassOn, WorkerPC
  <2> QED
    BY <1>3, <1>17, <2>1 DEF RecordFails
<1>18. CASE Acknowledge(w) \/ TaskLost(w)
  <2>1. worker'[w].pc = "idle"
    BY <1>1, <1>18 DEF Acknowledge, TaskLost, Release, IdleWorker, WorkerTypeOK
  <2> QED
    BY <1>3, <1>18, <2>1 DEF Acknowledge, TaskLost
<1>19. ~WorkerRestart(w) /\ ~Redeliver(w) /\ \A q \in Rows : ~StartTask(w, q)
  <2>1. ~WorkerRestart(w) /\ ~Redeliver(w)
    BY <1>1 DEF DeliveredOnce, WorkerRestart, Redeliver, Fault, Happens, WorkerTypeOK
  <2>2. \A q \in Rows : ~StartTask(w, q)
    BY DEF StartTask, Busy
  <2> QED
    BY <2>1, <2>2
<1>20. CASE WorkerStep(w)
  BY <1>6, <1>7, <1>8, <1>9, <1>10, <1>11, <1>12, <1>13, <1>14, <1>15, <1>16, <1>18, <1>20
     DEF WorkerStep
<1> QED
  BY <1>10, <1>17, <1>18, <1>19, <1>20 DEF WorkerNext

LEMMA FreshAfterWorkers ==
  ASSUME DeliveredOnce, TypeOK, Alone, FreshRows, NEW w \in Workers, WorkerNext(w),
         UNCHANGED upload
  PROVE  FreshRows'
<1> SUFFICES ASSUME NEW r \in Rows, ~document'[r].deleted
             PROVE  Fresh(r)'
  BY DEF FreshRows
<1>1. StoresTyped /\ CatalogRows /\ WorkerTypeOK
  BY TypeParts
<1>2. Fresh(r)
  BY <1>1, WorkersAreQuiet DEF Quiet, FreshRows
<1>3. \A v \in Workers \ {w} : worker'[v] = worker[v]
  BY WorkerRows
<1>4. CASE StartTask(w, r)
  <2>1. /\ queue[r] # 0 /\ \A v \in Workers : worker[v].row # r
        /\ \/ worker'[w].pc = "ack"
           \/ worker'[w].pc = "commit" /\ worker'[w].seen = View(r)
        /\ UNCHANGED catalogVars
    BY <1>1, <1>4, TakesMessage DEF Alone, StoresTyped
  <2>2. Knows(w, r)'
    BY <1>2, <2>1 DEF Fresh, Knows, View, catalogVars
  <2> QED
    BY <1>2, <1>3, <2>1, <2>2 DEF Fresh, catalogVars
<1>5. CASE worker[w].row # r /\ ~StartTask(w, r)
  <2>1. SameRow(r)
    BY <1>5, WorkersWriteOwnRow
  <2>2. queue'[r] = queue[r] /\ worker'[w].row # r
    BY <1>1, <1>5, WorkerRows, TakesMessage, CatalogAssumption DEF StoresTyped
  <2> QED
    BY <1>2, <1>3, <2>1, <2>2 DEF Fresh, Knows, SameRow, View
<1>6. CASE worker[w].row = r
  <2>1. Busy(w)
    BY <1>6, CatalogAssumption DEF Alone
  <2>2. /\ upload[r].pc = "done" /\ queue[r] = 0
        /\ \A v \in Workers \ {w} : worker[v].row # r
    BY <1>6, CatalogAssumption DEF Alone
  <2>3. /\ Busy(w)' => Knows(w, r)'
        /\ version'[r].status = "READY" => chunks'[r] = "embedded"
    BY <1>2, <1>6, <2>1, KnowsAfter DEF Fresh
  <2>4. queue' = queue /\ (worker'[w].row = r => Busy(w)')
    BY <2>1, WorkerRows, TakesMessage, CatalogAssumption
  <2> QED
    BY <1>3, <2>2, <2>3, <2>4 DEF Fresh
<1> QED
  BY <1>4, <1>5, <1>6

LEMMA FreshAfterUploads ==
  ASSUME DeliveredOnce, TypeOK, Alone, FreshRows, NEW u \in Rows, UploadNext(u),
         UNCHANGED worker
  PROVE  FreshRows'
<1> SUFFICES ASSUME NEW r \in Rows, ~document'[r].deleted
             PROVE  Fresh(r)'
  BY DEF FreshRows
<1>1. CatalogRows /\ UploadTypeOK
  BY TypeParts
<1>2. /\ upload[u].pc # "done"
      /\ \A q \in Rows \ {u} : upload'[q] = upload[q] /\ queue'[q] = queue[q]
  BY AloneAfterUploads
<1>3. CASE r # u
  <2>1. SameRow(r)
    BY <1>3, UploadsWriteOwnRow
  <2>2. Fresh(r)
    BY <2>1 DEF SameRow, FreshRows
  <2> QED
    BY <1>2, <1>3, <2>1, <2>2 DEF Fresh, Knows, SameRow, View
<1>4. CASE r = u
  <2>1. \A w \in Workers : worker[w].row # u
    BY <1>2 DEF Alone
  <2>2. version'[u].status # "READY"
    <3>1. CASE SameRow(u)
      BY <1>2, <1>4, <3>1 DEF SameRow, FreshRows, Fresh
    <3>2. CASE InsertRows(u)
      BY <1>1, <3>2, InsertEffect
    <3>3. CASE CommitQueueFailure(u)
      <4>1. WriteStatuses(u, upload[u].seen, "FAILED_INDEX", "FAILED")
        BY <3>3 DEF CommitQueueFailure
      <4>2. Quiet
        BY <1>1, <4>1, StatusesAreQuiet
      <4>3. version[u].status # "READY"
        BY <1>2, <1>4, <4>2 DEF Quiet, FreshRows, Fresh
      <4> QED
        BY <1>1, <4>1, <4>3 DEF WriteStatuses, Delta, CatalogRows, VersionRow
    <3> QED
      BY <3>1, <3>2, <3>3, UploadsWriteOwnRow
  <2> QED
    BY <1>4, <2>1, <2>2 DEF Fresh
<1> QED
  BY <1>3, <1>4

LEMMA FreshKept ==
  ASSUME DeliveredOnce, TypeOK, Alone, FreshRows, Next
  PROVE  FreshRows'
<1>1. CASE UploadMoves
  BY <1>1, FreshAfterUploads DEF UploadMoves
<1>2. CASE DeletionMoves
  <2>1. queue' = queue /\ upload' = upload /\ worker' = worker
    BY <1>2 DEF DeletionMoves, DeletionNext, DeletionStep, LoadDeletion, CommitMarkDeleting,
       DeleteBlob, LoadPurge, CommitPurge, DeleteBlobFails, DeletionAborted
  <2>2. ASSUME NEW r \in Rows, ~document'[r].deleted
        PROVE  Fresh(r)'
    <3>1. SameRow(r)
      BY <1>2, <2>2, DeletionsWriteMarkedRow DEF DeletionMoves
    <3> QED
      BY <2>1, <2>2, <3>1 DEF SameRow, FreshRows, Fresh, Knows, View
  <2> QED
    BY <2>2 DEF FreshRows
<1>3. CASE WorkerMoves
  BY <1>3, FreshAfterWorkers DEF WorkerMoves
<1> QED
  BY <1>1, <1>2, <1>3 DEF Next

LEMMA FreshAtFirst == Init => FreshRows
<1>1. ASSUME Init
      PROVE  /\ \A r \in Rows : version[r].status = "UPLOADED" /\ r # NoRow
             /\ \A w \in Workers : worker[w].row = NoRow
  BY <1>1, CatalogAssumption DEF Init, CatalogInit, WorkerInit, IdleWorker, NoView
<1> QED
  BY <1>1 DEF FreshRows, Fresh

LEMMA FreshHolds == DeliveredOnce => (Spec => []FreshRows)
<1> SUFFICES ASSUME DeliveredOnce PROVE Spec => []FreshRows
  OBVIOUS
<1>1. Init => FreshRows
  BY FreshAtFirst
<1>2. ASSUME FreshRows, UNCHANGED vars
      PROVE  FreshRows'
  BY <1>2 DEF vars, storeVars, catalogVars, FreshRows, Fresh, Knows, View
<1>3. ASSUME TypeOK, Alone, FreshRows, Next
      PROVE  FreshRows'
  BY <1>3, FreshKept
<1>4. TypeOK /\ Alone /\ FreshRows /\ [Next]_vars => FreshRows'
  BY <1>2, <1>3
<1>5. Spec => []Alone
  BY AloneHolds
<1> QED
  BY <1>1, <1>4, <1>5, TypesHold, PTL DEF Spec

(***************************************************************************)
(* The theorems.                                                           *)
(***************************************************************************)

\* What counting may read, search may find: a READY version of a document that is not
\* deleted has all its vectors, although list_ready_versions does not look at them.
THEOREM CountableHaveVectors == DeliveredOnce => (Spec => []CountableIsSearchable)
<1> SUFFICES ASSUME DeliveredOnce PROVE Spec => []CountableIsSearchable
  OBVIOUS
<1>1. TypeOK /\ FreshRows => CountableIsSearchable
  BY TypeParts DEF FreshRows, Fresh, CountableIsSearchable, Countable, Searchable, CatalogRows
<1>2. Spec => []FreshRows
  BY FreshHolds
<1> QED
  BY <1>1, <1>2, TypesHold, PTL

LEMMA SearchableStays ==
  ASSUME DeliveredOnce, TypeOK, Alone, FreshRows, Next, NEW r \in Rows, Searchable(r),
         ~document'[r].deleted
  PROVE  SameRow(r)
<1>1. version[r].status = "READY" /\ Fresh(r)
  BY DEF Searchable, FreshRows
<1>2. CASE UploadMoves
  <2>1. PICK u \in Rows : UploadNext(u) /\ worker' = worker
    BY <1>2 DEF UploadMoves
  <2>2. upload[u].pc # "done"
    BY <2>1, AloneAfterUploads
  <2>3. r # u
    BY <1>1, <2>2 DEF Fresh
  <2> QED
    BY <2>1, <2>3, UploadsWriteOwnRow
<1>3. CASE DeletionMoves
  BY <1>3, DeletionsWriteMarkedRow DEF DeletionMoves
<1>4. CASE WorkerMoves
  <2>1. PICK w \in Workers : WorkerNext(w)
    BY <1>4 DEF WorkerMoves
  <2>2. CASE worker[w].row # r
    BY <2>1, <2>2, WorkersWriteOwnRow
  <2>3. CASE worker[w].row = r
    <3>1. worker[w].pc = "ack"
      BY <1>1, <2>3 DEF Fresh, Knows
    <3>2. UNCHANGED catalogVars
      BY <2>1, <3>1
         DEF WorkerNext, StartTask, WorkerStep, LoadStage, CommitStage, Parse, BlobMissing,
         ChunkBlocks, EmbedChunks, WriteChunks, WriteVectors, ChunksGone, IndexClash,
         Validate, Publish, LoadFailure, RecordFailure, LoadRescue, Rescue, Acknowledge,
         StageFails, IndexFails, RecordFails, WorkerRestart, TaskLost, Redeliver
    <3> QED
      BY <3>2, SameRows
  <2> QED
    BY <2>2, <2>3
<1> QED
  BY <1>2, <1>3, <1>4 DEF Next

\* A document that search shows is hidden by its deletion only: no worker, upload or
\* failure that comes late writes its row or its chunks.
THEOREM PublishedDocumentsStay == DeliveredOnce => (Spec => PublishedStays)
<1> SUFFICES ASSUME DeliveredOnce PROVE Spec => PublishedStays
  OBVIOUS
<1>1. ASSUME TypeOK, Alone, FreshRows, Next, NEW r \in Rows, Searchable(r),
             ~document'[r].deleted
      PROVE  SameRow(r)
  BY <1>1, SearchableStays
<1>2. ASSUME TypeOK, Alone, FreshRows, [Next]_vars
      PROVE  [\A r \in Rows : Searchable(r) => Searchable(r)' \/ document'[r].deleted]_vars
  <2>1. ASSUME Next, NEW r \in Rows, Searchable(r), ~document'[r].deleted
        PROVE  Searchable(r)'
    <3>1. SameRow(r)
      BY <1>1, <1>2, <2>1
    <3> QED
      BY <2>1, <3>1 DEF SameRow, Searchable
  <2> QED
    BY <1>2, <2>1
<1>3. Spec => []Alone /\ []FreshRows
  BY AloneHolds, FreshHolds
<1> QED
  BY <1>2, <1>3, TypesHold, PTL DEF Spec, PublishedStays

(***************************************************************************)
(* The job of a document.                                                  *)
(***************************************************************************)

\* The job follows the version through the worker's hands.
Tells(r) ==
  \/ job[r] = "PENDING" /\ version[r].status = "QUEUED"
  \/ job[r] = "RUNNING" /\ version[r].status \in Stages
  \/ job[r] = "SUCCEEDED" /\ version[r].status = "READY"
  \/ job[r] = "FAILED" /\ version[r].status \in Failures

\* The upload has committed its row and has not sent the message.
Sending == {"enqueue", "unqueued", "failing"}

\* So far nothing but the registration has written the row, as the upload knows.
Untouched(r) ==
  /\ version[r].status = "QUEUED" /\ job[r] = "PENDING" /\ chunks[r] = "none"
  /\ upload[r].pc = "failing" => upload[r].seen.version.status = "QUEUED"

JobsTell ==
  \A r \in Rows :
    /\ upload[r].pc \in BeforeCommit => chunks[r] = "none"
    /\ Live(r) => Tells(r) \/ Refused(r)
    /\ Live(r) /\ upload[r].pc \in Sending => Untouched(r)

\* How an upload comes to where it is.
LEMMA UploadRoute ==
  ASSUME UploadTypeOK, NEW u \in Rows, UploadNext(u)
  PROVE  /\ upload'[u].pc \in BeforeCommit => upload[u].pc \in BeforeCommit
         /\ upload'[u].pc \in Sending => upload[u].pc \in Sending \cup {"registering"}
         /\ upload'[u].pc = "failing" => upload'[u].seen = View(u) /\ UNCHANGED catalogVars
         /\ queue' # queue => upload[u].pc = "enqueue"
<1> USE DEF BeforeCommit, Sending
<1>1. CASE LoadRegistration(u)
  BY <1>1 DEF LoadRegistration, Load, UploadTypeOK
<1>2. CASE LoadQueueFailure(u)
  BY <1>2 DEF LoadQueueFailure, Load, UploadTypeOK
<1>3. ASSUME NEW pc \in UploadPC \ {"failing"}, Goto(u, pc)
      PROVE  upload'[u].pc = pc
  BY <1>3 DEF Goto, UploadTypeOK
<1>4. CASE AnswerDuplicate(u) \/ AcceptContent(u) \/ PutBlob(u) \/ PutBlobFails(u)
  BY <1>3, <1>4 DEF AnswerDuplicate, AcceptContent, PutBlob, PutBlobFails, UploadPC
<1>5. CASE \/ CommitRegistration(u) \/ RegistrationFails(u) \/ FindSharing(u)
           \/ FindSharingFails(u) \/ PurgeBlob(u) \/ PurgeBlobFails(u)
  BY <1>3, <1>5
     DEF CommitRegistration, RegistrationFails, FindSharing, FindSharingFails, PurgeBlob,
     PurgeBlobFails, UploadPC
<1>6. CASE \/ Enqueue(u) \/ EnqueueFails(u) \/ CommitQueueFailure(u) \/ QueueFailureLost(u)
           \/ ApiCrash(u)
  BY <1>3, <1>6
     DEF Enqueue, EnqueueFails, CommitQueueFailure, QueueFailureLost, ApiCrash, UploadPC
<1> QED
  BY <1>1, <1>2, <1>4, <1>5, <1>6 DEF UploadNext, UploadStep

\* An upload that has not sent its message finds its row as it made it; the failure
\* it writes there is the last that anybody writes.
LEMMA TellsAfterUploads ==
  ASSUME DeliveredOnce, TypeOK, Order, Alone, JobsTell, NEW u \in Rows, UploadNext(u),
         UNCHANGED <<deletion, worker>>
  PROVE  JobsTell'
<1>1. CatalogRows /\ UploadTypeOK
  BY TypeParts
<1>2. /\ upload[u].pc # "done"
      /\ \A q \in Rows \ {u} : upload'[q] = upload[q] /\ queue'[q] = queue[q]
  BY AloneAfterUploads
<1>3. \A w \in Workers : worker[w].row # u
  BY <1>2 DEF Alone
<1> SUFFICES ASSUME NEW r \in Rows
             PROVE  /\ upload'[r].pc \in BeforeCommit => chunks'[r] = "none"
                    /\ Live(r)' => Tells(r)' \/ Refused(r)'
                    /\ Live(r)' /\ upload'[r].pc \in Sending => Untouched(r)'
  BY DEF JobsTell
<1>4. CASE r # u
  <2>1. SameRow(r)
    BY <1>4, UploadsWriteOwnRow
  <2>2. upload'[r] = upload[r] /\ queue'[r] = queue[r] /\ worker' = worker
    BY <1>2, <1>4
  <2> QED
    BY <2>1, <2>2 DEF SameRow, JobsTell, Live, Tells, Refused, Owned, Untouched
<1>5. CASE r = u /\ SameRow(u)
  <2>1. /\ upload'[u].pc \in BeforeCommit => chunks'[u] = "none"
        /\ Live(u)' => Live(u)
        /\ Live(u) => upload[u].pc # "registering"
    BY <1>5, UploadRoute, <1>1 DEF SameRow, JobsTell, Live, Order, BeforeCommit
  <2>2. ASSUME Live(u), Refused(u)
        PROVE  Refused(u)'
    <3>1. upload'[u].pc \notin Sending /\ queue' = queue
      BY <1>1, <2>1, <2>2, UploadRoute DEF Refused, Owned, Sending
    <3> QED
      BY <1>3, <1>5, <2>2, <3>1 DEF SameRow, Refused, Owned, Sending
  <2>3. ASSUME Live(u), upload'[u].pc \in Sending
        PROVE  Untouched(u)'
    <3>1. Untouched(u)
      BY <1>1, <2>1, <2>3, UploadRoute DEF JobsTell
    <3>2. upload'[u].pc = "failing" => upload'[u].seen.version = version[u]
      <4>1. upload'[u].pc = "failing" => upload'[u].seen = View(u)
        BY <1>1, UploadRoute
      <4>2. View(u).version = version[u]
        BY DEF View
      <4> QED
        BY <4>1, <4>2
    <3> QED
      BY <1>5, <3>1, <3>2 DEF SameRow, Untouched
  <2> QED
    BY <1>5, <2>1, <2>2, <2>3 DEF SameRow, JobsTell, Tells
<1>6. CASE /\ r = u /\ upload[u].pc = "registering" /\ InsertRows(u)
           /\ upload'[u].pc \in {"enqueue", "cleanup"}
  <2>1. /\ version'[u].status = "QUEUED" /\ job'[u] = "PENDING"
        /\ chunks'[u] = chunks[u] /\ chunks[u] = "none"
    BY <1>1, <1>6, InsertEffect DEF InsertRows, CatalogRows, JobsTell, BeforeCommit
  <2> QED
    BY <1>6, <2>1 DEF Tells, Untouched, BeforeCommit
<1>7. CASE r = u /\ upload[u].pc = "failing" /\ CommitQueueFailure(u)
  <2>1. /\ WriteStatuses(u, upload[u].seen, "FAILED_INDEX", "FAILED")
        /\ job' = job /\ upload'[u].pc = "done" /\ queue' = queue
    BY <1>1, <1>7 DEF CommitQueueFailure, Goto, UploadTypeOK
  <2>2. Quiet
    BY <1>1, <2>1, StatusesAreQuiet
  <2>3. ASSUME Live(u)'
        PROVE  Refused(u)'
    <3>1. Untouched(u) /\ upload[u].seen.version.status = "QUEUED"
      BY <1>7, <2>2, <2>3, LiveStays DEF JobsTell, Untouched, Sending
    <3>2. version'[u].status = "FAILED_INDEX" /\ chunks' = chunks
      BY <1>1, <2>1, <3>1 DEF WriteStatuses, Delta, CatalogRows, VersionRow
    <3>3. queue[u] = 0
      BY <1>2 DEF Alone
    <3> QED
      BY <1>3, <2>1, <3>1, <3>2, <3>3 DEF Untouched, Refused, Owned
  <2> QED
    BY <1>7, <2>1, <2>3 DEF BeforeCommit, Sending
<1> QED
  BY <1>4, <1>5, <1>6, <1>7, UploadsWriteOwnRow

LEMMA TellsAfterDeletions ==
  ASSUME TypeOK, JobsTell, NEW x \in Deletions, DeletionNext(x), UNCHANGED <<upload, worker>>
  PROVE  JobsTell'
<1> SUFFICES ASSUME NEW r \in Rows
             PROVE  /\ upload'[r].pc \in BeforeCommit => chunks'[r] = "none"
                    /\ Live(r)' => Tells(r)' \/ Refused(r)'
                    /\ Live(r)' /\ upload'[r].pc \in Sending => Untouched(r)'
  BY DEF JobsTell
<1>1. queue' = queue /\ (chunks'[r] = chunks[r] \/ chunks'[r] = "none")
  <2>1. CatalogRows
    BY TypeParts
  <2> QED
    BY <2>1
       DEF DeletionNext, DeletionStep, LoadDeletion, CommitMarkDeleting, DeleteBlob, LoadPurge,
       CommitPurge, DeleteBlobFails, DeletionAborted, MarkDeleting, MarkDeleted, catalogVars,
       CatalogRows
<1>2. ASSUME Live(r)'
      PROVE  SameRow(r)
  BY <1>2, DeletionsWriteMarkedRow DEF Live
<1> QED
  BY <1>1, <1>2 DEF SameRow, JobsTell, Live, Tells, Refused, Owned, Untouched

\* A worker that holds a row writes both, and no worker comes to a row that was refused.
LEMMA TellsAfterWorkers ==
  ASSUME DeliveredOnce, TypeOK, Alone, FreshRows, JobsTell, NEW w \in Workers, WorkerNext(w),
         UNCHANGED upload
  PROVE  JobsTell'
<1> DEFINE t == worker[w]
<1>1. CatalogRows /\ StoresTyped /\ WorkerTypeOK
  BY TypeParts
<1> SUFFICES ASSUME NEW r \in Rows
             PROVE  /\ upload'[r].pc \in BeforeCommit => chunks'[r] = "none"
                    /\ Live(r)' => Tells(r)' \/ Refused(r)'
                    /\ Live(r)' /\ upload'[r].pc \in Sending => Untouched(r)'
  BY DEF JobsTell
<1>2. Live(r)' => Live(r)
  BY <1>1, WorkersAreQuiet, LiveStays
<1>3. \A v \in Workers \ {w} : worker'[v] = worker[v]
  BY WorkerRows
<1>4. CASE t.row # r
  <2>1. SameRow(r)
    BY <1>4, WorkersWriteOwnRow
  <2>2. ASSUME Refused(r)
        PROVE  Refused(r)'
    <3>1. queue[r] = 0 /\ \A v \in Workers : worker[v].row # r
      BY <1>1, <2>2 DEF Refused, Owned, StoresTyped
    <3>2. queue'[r] = queue[r] /\ worker'[w].row # r
      BY <1>1, <1>4, <3>1, WorkerRows, TakesMessage, CatalogAssumption DEF StoresTyped
    <3> QED
      BY <1>3, <2>1, <2>2, <3>1, <3>2 DEF SameRow, Refused, Owned
  <2> QED
    BY <1>2, <2>1, <2>2 DEF SameRow, JobsTell, Tells, Untouched
<1>5. CASE t.row = r
  <2>1. upload[r].pc = "done"
    BY <1>5 DEF Alone
  <2>2. ASSUME Live(r)'
        PROVE  Tells(r)'
    <3>1. Live(r) /\ Tells(r) /\ Fresh(r)
      BY <1>2, <1>5, <2>2 DEF JobsTell, Refused, Owned, FreshRows, Live
    <3>2. /\ t.stage \in Stages /\ t.failure \in Failures /\ Knows(w, r)
      BY <1>1, <1>5, <3>1 DEF WorkerTypeOK, WorkerState, Fresh
    <3>3. ASSUME NEW next \in Stages \cup Failures, t.seen = View(r), SetStatus(r, t.seen, next)
          PROVE  Tells(r)'
      BY <1>1, <3>3, StatusWritten DEF Tells, JobStatusOf, Stages, Failures
    <3>4. CASE CommitStage(w)
      BY <1>5, <3>2, <3>3, <3>4 DEF CommitStage, Knows
    <3>5. CASE RecordFailure(w)
      BY <1>5, <3>2, <3>3, <3>5 DEF RecordFailure, Knows
    <3>6. CASE Rescue(w)
      BY <1>5, <3>2, <3>3, <3>6 DEF Rescue, Knows, Failures
    <3>7. CASE Publish(w)
      <4>1. version'[r].status = "READY" /\ job'[r] = "SUCCEEDED"
        BY <1>1, <1>5, <3>2, <3>7, PublicationWritten DEF Publish, Knows
      <4> QED
        BY <4>1 DEF Tells, Failures
    <3>8. CASE UNCHANGED <<version, job>>
      BY <3>1, <3>8 DEF Tells
    <3> QED
      BY <3>4, <3>5, <3>6, <3>7, <3>8
         DEF WorkerNext, StartTask, WorkerStep, LoadStage, Parse, BlobMissing, ChunkBlocks,
         EmbedChunks, WriteChunks, WriteVectors, ReplaceChunks, SaveEmbeddings, ChunksGone,
         IndexClash, Validate, LoadFailure, LoadRescue, Acknowledge, StageFails, IndexFails,
         RecordFails, WorkerRestart, TaskLost, Redeliver, catalogVars
  <2> QED
    BY <2>1, <2>2 DEF BeforeCommit, Sending
<1> QED
  BY <1>4, <1>5

LEMMA JobsTellKept ==
  ASSUME DeliveredOnce, TypeOK, Order, Alone, FreshRows, JobsTell, Next
  PROVE  JobsTell'
<1>1. CASE UploadMoves
  BY <1>1, TellsAfterUploads DEF UploadMoves
<1>2. CASE DeletionMoves
  BY <1>2, TellsAfterDeletions DEF DeletionMoves
<1>3. CASE WorkerMoves
  BY <1>3, TellsAfterWorkers DEF WorkerMoves
<1> QED
  BY <1>1, <1>2, <1>3 DEF Next

\* The job that a client polls tells the state of the version: set_status and
\* publish_version write both.  _record_queue_failure writes the version only, and the
\* row it leaves, failed with its job pending, is one that nobody comes back to.
THEOREM JobsTellVersions == DeliveredOnce => (Spec => []JobTellsVersion)
<1> SUFFICES ASSUME DeliveredOnce PROVE Spec => []JobTellsVersion
  OBVIOUS
<1>1. Init => JobsTell
  BY DEF Init, CatalogInit, UploadInit, JobsTell, Live
<1>2. ASSUME JobsTell, UNCHANGED vars
      PROVE  JobsTell'
  BY <1>2
     DEF vars, storeVars, catalogVars, JobsTell, Live, Tells, Refused, Owned, Untouched
<1>3. ASSUME TypeOK, Order, Alone, FreshRows, JobsTell, Next
      PROVE  JobsTell'
  BY <1>3, JobsTellKept
<1>4. TypeOK /\ Order /\ Alone /\ FreshRows /\ JobsTell /\ [Next]_vars => JobsTell'
  BY <1>2, <1>3
<1>5. JobsTell => JobTellsVersion
  BY DEF JobsTell, Tells, JobTellsVersion
<1>6. Spec => []Alone /\ []FreshRows
  BY AloneHolds, FreshHolds
<1> QED
  BY <1>1, <1>4, <1>5, <1>6, TypesHold, OrderHolds, PTL DEF Spec
=============================================================================
