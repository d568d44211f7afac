----------------------------- MODULE UploadApi -----------------------------
(***************************************************************************)
(* POST /api/documents (api/app.py): one process per upload request.       *)
(*                                                                         *)
(* The handler checks for a duplicate in a first session, writes the blob, *)
(* registers the upload in a second session and puts an ingestion message  *)
(* on the queue.  The handler is a coroutine that awaits nothing after it  *)
(* has read the file: two requests interleave here when they are served    *)
(* by two API processes, which share nothing but the stores; compose.yaml  *)
(* starts one, and then only DELETE, on its thread pool, interleaves.      *)
(***************************************************************************)
EXTENDS Catalog

VARIABLE upload   \* by request: control point, row found, identity map

UploadPC ==
  {"start",       \* file read and hashed; first session not begun
   "put",         \* no duplicate found; about to write the blob
   "register",    \* blob written; about to look for the content again
   "registering", \* that SELECT done; about to commit
   "cleanup",     \* registration raised; about to look for a sharing row
   "purge",       \* none found; about to delete the blob
   "enqueue",     \* row committed; about to call ingest_document.delay
   "unqueued",    \* delay raised; about to load the version
   "failing",     \* version loaded; about to commit queue_unavailable
   "done"}        \* answered, or lost with its API process

\* `target` is the row the registration writes: another request's for a
\* duplicate, this request's own for a new document.
UploadState == [pc : UploadPC, target : Rows, seen : RowView]

UploadInit ==
  upload = [u \in Rows |-> [pc |-> "start", target |-> u, seen |-> NoView]]

\* The next step starts from what this request knows by itself.
Goto(u, pc) ==
  upload' = [upload EXCEPT ![u] = [pc |-> pc, target |-> u, seen |-> NoView]]

\* The request remembers what it loaded, for the commit of the same session.
Load(u, pc, r) ==
  upload' = [upload EXCEPT ![u] = [pc |-> pc, target |-> r, seen |-> View(r)]]

Creates(u) == upload[u].target = u

\* The request has written its blob and has not come to its answer.
HoldsBlob(u) == upload[u].pc \in {"register", "registering", "cleanup", "purge"}

(***************************************************************************)
(* The steps of the handler.                                               *)
(***************************************************************************)

\* First session: identical content is already registered, answer with it.
AnswerDuplicate(u) ==
  /\ upload[u].pc = "start"
  /\ LiveFor(ContentOf[u]) # {}
  /\ Goto(u, "done")
  /\ NoFault /\ UNCHANGED <<catalogVars, blobs, queue>>

\* First session: the content is new.
AcceptContent(u) ==
  /\ upload[u].pc = "start"
  /\ LiveFor(ContentOf[u]) = {}
  /\ Goto(u, "put")
  /\ NoFault /\ UNCHANGED <<catalogVars, blobs, queue>>

PutBlob(u) ==
  /\ upload[u].pc = "put"
  /\ StoreBlob(ContentOf[u])
  /\ Goto(u, "register")
  /\ UNCHANGED <<catalogVars, queue>>

\* 503: "Original-file storage is unavailable."
PutBlobFails(u) ==
  /\ upload[u].pc = "put"
  /\ Fault("blob")
  /\ Goto(u, "done")
  /\ UNCHANGED <<catalogVars, blobs, queue>>

\* register_upload looks for the content once more, in the second session.
LoadRegistration(u) ==
  /\ upload[u].pc = "register"
  /\ \/ \E r \in LiveFor(ContentOf[u]) : Load(u, "registering", r)
     \/ LiveFor(ContentOf[u]) = {} /\ Load(u, "registering", u)
  /\ NoFault /\ UNCHANGED <<catalogVars, blobs, queue>>

\* What its commit writes.  The statuses are assigned to whatever row
\* register_upload returned, the existing one as well as the new one; the job
\* of an existing row is left alone.
Registration(u) ==
  IF Creates(u)
    THEN InsertRows(u)
    ELSE /\ WriteStatuses(upload[u].target, upload[u].seen, "QUEUED", "PROCESSING")
         /\ UNCHANGED job

CommitRegistration(u) ==
  /\ upload[u].pc = "registering"
  /\ Registration(u)
  /\ Goto(u, IF Creates(u) THEN "enqueue" ELSE "done")
  /\ NoFault /\ UNCHANGED <<blobs, queue>>

\* The commit raises; the database may or may not have applied it.
RegistrationFails(u) ==
  /\ upload[u].pc = "registering"
  /\ Fault("database")
  /\ Registration(u) \/ UNCHANGED catalogVars
  /\ Goto(u, "cleanup")
  /\ UNCHANGED <<blobs, queue>>

\* Mutants of FindSharing: the blob is always removed, and it never is.
PurgeUnchecked(u) ==
  /\ upload[u].pc = "cleanup"
  /\ Goto(u, "purge")
  /\ NoFault /\ UNCHANGED <<catalogVars, blobs, queue>>

NeverPurge(u) ==
  /\ upload[u].pc = "cleanup"
  /\ Goto(u, "done")
  /\ NoFault /\ UNCHANGED <<catalogVars, blobs, queue>>

\* A third session looks for a row that shares the blob.
FindSharing(u) ==
  /\ upload[u].pc = "cleanup"
  /\ Goto(u, IF LiveFor(ContentOf[u]) = {} THEN "purge" ELSE "done")
  /\ NoFault /\ UNCHANGED <<catalogVars, blobs, queue>>

\* It raises, as the second one did: the blob is not removed, shared or not.
FindSharingFails(u) ==
  /\ upload[u].pc = "cleanup"
  /\ FaultLeaving("database", ContentOf[u])
  /\ Goto(u, "done")
  /\ UNCHANGED <<catalogVars, blobs, queue>>

PurgeBlob(u) ==
  /\ upload[u].pc = "purge"
  /\ RemoveBlob(ContentOf[u])
  /\ Goto(u, "done")
  /\ UNCHANGED <<catalogVars, queue>>

PurgeBlobFails(u) ==
  /\ upload[u].pc = "purge"
  /\ FaultLeaving("blob", ContentOf[u])
  /\ Goto(u, "done")
  /\ UNCHANGED <<catalogVars, blobs, queue>>

Enqueue(u) ==
  /\ upload[u].pc = "enqueue"
  /\ queue' = [queue EXCEPT ![u] = @ + 1]
  /\ Goto(u, "done")
  /\ NoFault /\ UNCHANGED <<catalogVars, blobs>>

\* Mutant of EnqueueFails: the failure is answered and not recorded.
EnqueueFailsSilently(u) ==
  /\ upload[u].pc = "enqueue"
  /\ Fault("broker")
  /\ Goto(u, "done")
  /\ UNCHANGED <<catalogVars, blobs, queue>>

EnqueueFails(u) ==
  /\ upload[u].pc = "enqueue"
  /\ Fault("broker")
  /\ Goto(u, "unqueued")
  /\ UNCHANGED <<catalogVars, blobs, queue>>

\* _record_queue_failure loads the version, deleted or not ...
LoadQueueFailure(u) ==
  /\ upload[u].pc = "unqueued"
  /\ Load(u, "failing", u)
  /\ NoFault /\ UNCHANGED <<catalogVars, blobs, queue>>

\* ... and marks it failed, leaving its job as it is.
CommitQueueFailure(u) ==
  /\ upload[u].pc = "failing"
  /\ WriteStatuses(u, upload[u].seen, "FAILED_INDEX", "FAILED")
  /\ UNCHANGED job
  /\ Goto(u, "done")
  /\ NoFault /\ UNCHANGED <<blobs, queue>>

\* Its commit raises: rolled back, and the request still answers 503.
QueueFailureLost(u) ==
  /\ upload[u].pc = "failing"
  /\ Fault("database")
  /\ Goto(u, "done")
  /\ UNCHANGED <<catalogVars, blobs, queue>>

\* The API process stops between two steps; nothing resumes the request.
ApiCrash(u) ==
  /\ upload[u].pc \notin {"start", "done"}
  /\ IF HoldsBlob(u) THEN FaultLeaving("api_crash", ContentOf[u]) ELSE Fault("api_crash")
  /\ Goto(u, "done")
  /\ UNCHANGED <<catalogVars, blobs, queue>>

\* The steps the handler takes by itself once a request is in progress.
UploadStep(u) ==
  \/ PutBlob(u) \/ LoadRegistration(u) \/ CommitRegistration(u)
  \/ FindSharing(u) \/ PurgeBlob(u)
  \/ Enqueue(u) \/ LoadQueueFailure(u) \/ CommitQueueFailure(u)

UploadNext(u) ==
  \/ AnswerDuplicate(u) \/ AcceptContent(u)
  \/ UploadStep(u)
  \/ PutBlobFails(u) \/ RegistrationFails(u) \/ FindSharingFails(u) \/ PurgeBlobFails(u)
  \/ EnqueueFails(u) \/ QueueFailureLost(u) \/ ApiCrash(u)

UploadTypeOK == upload \in [Rows -> UploadState]
=============================================================================
