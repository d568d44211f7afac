----------------------------- MODULE Lifecycle -----------------------------
(***************************************************************************)
(* The document lifecycle: upload requests, deletion requests and workers  *)
(* interleave on one catalogue, one blob store and one queue.              *)
(***************************************************************************)
EXTENDS UploadApi, DeletionApi, IngestionWorker

vars == <<storeVars, upload, deletion, worker, redeliveries>>

Init == CatalogInit /\ UploadInit /\ DeletionInit /\ WorkerInit

UploadMoves ==
  (\E u \in Rows : UploadNext(u)) /\ UNCHANGED <<deletion, worker, redeliveries>>

DeletionMoves ==
  (\E x \in Deletions : DeletionNext(x)) /\ UNCHANGED <<upload, worker, redeliveries>>

WorkerMoves ==
  (\E w \in Workers : WorkerNext(w)) /\ UNCHANGED <<upload, deletion>>

Next == UploadMoves \/ DeletionMoves \/ WorkerMoves

Spec == Init /\ [][Next]_vars

(***************************************************************************)
(* Fairness.  A request in progress runs to its answer: its handler calls  *)
(* nothing that waits for another request of the model.  A worker that is  *)
(* free takes a message that waits, and a task in progress runs to its     *)
(* end.  Requests need not arrive, and faults need not happen.             *)
(***************************************************************************)
Fairness ==
  /\ \A u \in Rows : WF_vars(UploadStep(u) /\ UNCHANGED <<deletion, worker, redeliveries>>)
  /\ \A x \in Deletions : WF_vars(DeletionStep(x) /\ UNCHANGED <<upload, worker, redeliveries>>)
  /\ \A w \in Workers : WF_vars(/\ WorkerStep(w) \/ \E r \in Rows : StartTask(w, r)
                                /\ UNCHANGED <<upload, deletion>>)

FairSpec == Spec /\ Fairness

(***************************************************************************)
(* Type invariant.                                                         *)
(***************************************************************************)

\* Every variable keeps its type: in particular every status a handler writes
\* is one the enumerations of models.py know.
TypeOK == CatalogTypeOK /\ UploadTypeOK /\ DeletionTypeOK /\ WorkerTypeOK

(***************************************************************************)
(* Properties of every behaviour: any faults, any redelivery, any uploads  *)
(* of equal files.                                                         *)
(***************************************************************************)

\* The two tombstones of a document agree.  The worker's stages test the
\* version's, its last handler and retrieval test the document's, exact
\* counting tests both: they act on one fact only as long as this holds.
TombstonesAgree ==
  \A r \in Rows : /\ document[r].deleted <=> version[r].deleted
                  /\ document[r].deleted => r \in registered

\* A deleted document stays hidden: no task that is still running, no queue
\* failure recorded late and no duplicate upload brings it back to search or
\* to counting.  publish_version and _record_queue_failure write the row with
\* no look at deleted_at.
DeletionIsFinal ==
  [][\A r \in Rows : document[r].deleted =>
        document'[r].deleted /\ ~Searchable(r)' /\ ~Countable(r)']_vars

\* How search sees the rows.
shownRows ==
  [r \in Rows |-> IF r \notin registered THEN "absent"
                  ELSE IF document[r].deleted THEN "gone"
                  ELSE IF Searchable(r) THEN "visible"
                  ELSE "hidden"]

Index == INSTANCE SearchIndex WITH shown <- shownRows

\* The service implements the search index it promises.
ImplementsIndex == Index!Spec

(***************************************************************************)
(* Properties of a message delivered once, for files that differ.          *)
(***************************************************************************)
Live(r) == r \in registered /\ ~document[r].deleted

\* What counting may read, search may find: a READY version has all its
\* vectors.  The two paths decide it by different conditions
\* (list_ready_versions never looks at the chunks).
CountableIsSearchable == \A r \in Rows : Countable(r) => Searchable(r)

\* A document that search shows is hidden by its deletion only.
PublishedStays ==
  [][\A r \in Rows : Searchable(r) => Searchable(r)' \/ document'[r].deleted]_vars

\* A live document's original file is in the blob store: the cleanup of a
\* failed registration and a deletion never remove the file of another row.
LiveHasBlob == \A r \in Rows : Live(r) => ContentOf[r] \in blobs

(***************************************************************************)
(* Responsibility: who will bring a row to its end.                        *)
(***************************************************************************)
Settled(r) == version[r].status \in Failures \cup {"READY"}

Owned(r) ==
  \/ queue[r] > 0
  \/ upload[r].pc \in {"enqueue", "unqueued", "failing"}
  \/ \E w \in Workers : worker[w].row = r

\* The queue did not take the message, and _record_queue_failure wrote that on the
\* version and not on the job: no message and no worker will ever move either.
Refused(r) ==
  /\ version[r].status = "FAILED_INDEX" /\ job[r] = "PENDING" /\ chunks[r] = "none"
  /\ ~Owned(r)

\* The job a client polls is written by other statements than the version, and tells
\* its state all the same: pending until a worker begins, running through
\* the stages, succeeded with the publication, failed with any failure of the
\* worker.  The one exception is a refused message: the document has failed and its
\* job is pending for ever.
JobTellsVersion ==
  \A r \in Rows : Live(r) =>
    \/ job[r] = "PENDING" /\ version[r].status = "QUEUED"
    \/ job[r] = "RUNNING" /\ version[r].status \in Stages
    \/ job[r] = "SUCCEEDED" /\ version[r].status = "READY"
    \/ job[r] = "FAILED" /\ version[r].status \in Failures
    \/ Refused(r)

\* A live document that is neither published nor failed is some process's
\* business: a message waits for it, its upload is about to send one or to
\* record that it cannot, or a worker has its message.  Nothing scans the
\* catalogue for abandoned rows, so a row that loses its last owner stays in
\* its state for ever.
UnsettledIsOwned == \A r \in Rows : Live(r) /\ ~Settled(r) => Owned(r)

\* An upload that was registered comes to an end: from some moment on its
\* document is published, failed or deleted, and stays so.
UploadSettles ==
  \A r \in Rows : r \in registered ~> [](Settled(r) \/ document[r].deleted)

\* A deletion that hid a document completes: its chunks and its blob are
\* removed before the document counts as DELETED.
DeletionCompletes ==
  \A r \in Rows : (version[r].status = "DELETING") ~>
                    (version[r].status = "DELETED" /\ ContentOf[r] \notin blobs)

(***************************************************************************)
(* The blob store against the catalogue.                                   *)
(***************************************************************************)

\* A blob is there for a live row, for a deletion that has not come to it yet, for an
\* upload that wrote it and has not answered, or because a request was ended
\* by a fault while it minded the blob: the cleanup of a failed registration, whose
\* own session raises in the same outage before it removes anything; a
\* removal that fails; an API process that stops.  Nothing else leaves a blob
\* without a row, and no job collects the ones that are left.
BlobHasReason ==
  \A c \in blobs \ abandoned :
    \/ \E r \in Rows : ContentOf[r] = c /\ Live(r)
    \/ \E u \in Rows : ContentOf[u] = c /\ HoldsBlob(u)
    \/ \E x \in Deletions : /\ deletion[x].pc = "blobs"
                            /\ ContentOf[deletion[x].row] = c

\* README: a deletion "removes its original blob and chunks".  Once a row is
\* DELETED and no request is deleting it, it has no chunks.
DeletedHasNoChunks ==
  \A r \in Rows : document[r].deleted =>
    \/ chunks[r] = "none"
    \/ document[r].status = "DELETING"
    \/ \E x \in Deletions : deletion[x].row = r
=============================================================================
