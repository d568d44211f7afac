------------------------------ MODULE Catalog ------------------------------
(***************************************************************************)
(* The durable state of the service and the repository operations on it:   *)
(* the PostgreSQL catalogue (documents, document_versions, ingestion_jobs, *)
(* chunks), the blob store and the Celery queue.                           *)
(*                                                                         *)
(* An upload request that registers its file creates one document with one *)
(* version and one job (register_upload never adds a version to an older   *)
(* document), so the three rows are indexed by the request that created    *)
(* them: `Rows` is the set of upload requests, and ContentOf[r] is the     *)
(* content hash of the file request r carries.  Every file is stored under *)
(* a key derived from that hash, so rows with equal content share a blob.  *)
(*                                                                         *)
(* A session is two steps, its SELECTs and its COMMIT, because the         *)
(* database runs READ COMMITTED and no SELECT of these paths locks a row:  *)
(* other sessions may commit in between.  What the COMMIT writes is a      *)
(* Delta: SQLAlchemy's flush names a column in the UPDATE only when the    *)
(* value assigned differs from the value that was loaded.                  *)
(***************************************************************************)
EXTENDS Naturals

CONSTANTS
  Rows,        \* upload requests, and the rows they may create
  Contents,    \* content hashes, also the keys of the blob store
  ContentOf,   \* the file each upload request carries
  NoRow,       \* the row of an idle process
  FaultKinds,  \* which faults the environment may inject
  MaxFaults    \* bound: how many of them in one behaviour

ASSUME CatalogAssumption ==
  /\ ContentOf \in [Rows -> Contents]
  /\ MaxFaults \in Nat
  /\ NoRow \notin Rows

VARIABLES
  registered,  \* rows that exist
  document,    \* documents: status, "current_version_id is set", "deleted_at is set"
  version,     \* document_versions: status, "deleted_at is set"
  job,         \* ingestion_jobs.status
  chunks,      \* chunks of the version: none, without vectors, with vectors
  blobs,       \* keys present in the blob store
  queue,       \* undelivered ingestion messages, by row
  faults,      \* faults injected so far
  abandoned    \* history: contents whose blob a failed request left behind

catalogVars == <<registered, document, version, job, chunks>>
storeVars == <<catalogVars, blobs, queue, faults, abandoned>>

(***************************************************************************)
(* models.py: the states the code writes.                                  *)
(***************************************************************************)
DocumentStatus ==
  {"UPLOADED", "PROCESSING", "READY", "NEEDS_OCR", "FAILED", "DELETING", "DELETED"}

Stages == {"PARSING", "CHUNKING", "EMBEDDING", "INDEXING"}

Failures == {"NEEDS_OCR", "FAILED_PARSE", "FAILED_EMBED", "FAILED_INDEX"}

VersionStatus ==
  {"UPLOADED", "QUEUED", "READY", "DELETING", "DELETED"} \cup Stages \cup Failures

JobStatus == {"PENDING", "RUNNING", "SUCCEEDED", "FAILED"}

ChunkState == {"none", "bare", "embedded"}

DocumentRow == [status : DocumentStatus, current : BOOLEAN, deleted : BOOLEAN]
VersionRow == [status : VersionStatus, deleted : BOOLEAN]

\* What a session holds of a row after its SELECT (its identity map).
RowView == [document : DocumentRow, version : VersionRow]

View(r) == [document |-> document[r], version |-> version[r]]

\* The content of an identity map nobody reads: that of a session not begun.
NoView ==
  [document |-> [status |-> "UPLOADED", current |-> FALSE, deleted |-> FALSE],
   version  |-> [status |-> "UPLOADED", deleted |-> FALSE]]

\* The stored value of a column after a flush that assigned `assigned` to an
\* attribute loaded as `loaded`: an unchanged attribute is not in the UPDATE.
Delta(stored, loaded, assigned) ==
  IF assigned = loaded THEN stored ELSE assigned

CatalogInit ==
  /\ registered = {}
  /\ document = [r \in Rows |-> NoView.document]
  /\ version = [r \in Rows |-> NoView.version]
  /\ job = [r \in Rows |-> "PENDING"]
  /\ chunks = [r \in Rows |-> "none"]
  /\ blobs = {}
  /\ queue = [r \in Rows |-> 0]
  /\ faults = 0
  /\ abandoned = {}

\* A fault of this kind happens now, within the bound.
Happens(kind) ==
  /\ kind \in FaultKinds
  /\ faults < MaxFaults
  /\ faults' = faults + 1

Fault(kind) == Happens(kind) /\ UNCHANGED abandoned

\* It ends a request that was to remove the blob of this content, or to register it.
FaultLeaving(kind, content) ==
  /\ Happens(kind)
  /\ abandoned' = abandoned \cup {content}

NoFault == UNCHANGED <<faults, abandoned>>

(***************************************************************************)
(* Reads.                                                                  *)
(***************************************************************************)

\* Mutant of LiveFor: the content hash is not part of the WHERE clause.
LiveForAnyContent(c) ==
  {r \in registered : /\ ~document[r].deleted
                      /\ ~version[r].deleted
                      /\ version[r].status # "DELETED"}

\* find_by_content_hash: the rows that are live for a content.  The code takes
\* the one created last; created_at is the time a transaction started, which
\* orders concurrent registrations arbitrarily, so callers take any of them.
LiveFor(c) ==
  {r \in registered : /\ ContentOf[r] = c
                      /\ ~document[r].deleted
                      /\ ~version[r].deleted
                      /\ version[r].status # "DELETED"}

\* Mutant of Searchable: trusts the status, which a late publication rewrites.
SearchableByStatus(r) ==
  /\ r \in registered
  /\ document[r].status = "READY"
  /\ document[r].current
  /\ version[r].status = "READY"
  /\ chunks[r] = "embedded"

\* _retrieval_statement: the rows whose chunks dense and lexical search may see.
Searchable(r) ==
  /\ r \in registered
  /\ ~document[r].deleted
  /\ document[r].status = "READY"
  /\ document[r].current
  /\ version[r].status = "READY"
  /\ chunks[r] = "embedded"

\* Mutant of Countable: the same mistake in exact counting.
CountableByStatus(r) ==
  /\ r \in registered
  /\ document[r].current
  /\ document[r].status = "READY"
  /\ version[r].status = "READY"

\* list_ready_versions: the rows whose files exact counting reads.
Countable(r) ==
  /\ r \in registered
  /\ document[r].current
  /\ document[r].status = "READY"
  /\ ~document[r].deleted
  /\ version[r].status = "READY"
  /\ ~version[r].deleted

\* The test the worker makes on the version it loaded.
Cancelled(seen) ==
  \/ seen.version.deleted
  \/ seen.version.status \in {"DELETING", "DELETED"}

(***************************************************************************)
(* Writes: what the COMMIT of a session does to the rows.                  *)
(***************************************************************************)

\* register_upload, new content: document, version and job are inserted, and
\* the upload handler sets QUEUED and PROCESSING before it commits.
InsertRows(r) ==
  /\ registered' = registered \cup {r}
  /\ version' = [version EXCEPT ![r].status = "QUEUED"]
  /\ document' = [document EXCEPT ![r].status = "PROCESSING"]
  /\ job' = [job EXCEPT ![r] = "PENDING"]
  /\ UNCHANGED chunks

\* Mutant of WriteStatuses: the UPDATE names every column, as it would for a
\* detached object merged into the session.
WriteWholeRows(r, seen, versionStatus, documentStatus) ==
  /\ version' = [version EXCEPT ![r] = [seen.version EXCEPT !.status = versionStatus]]
  /\ document' = [document EXCEPT ![r] = [seen.document EXCEPT !.status = documentStatus]]
  /\ UNCHANGED <<registered, chunks>>

\* A commit that assigns a status to a version and one to its document.
WriteStatuses(r, seen, versionStatus, documentStatus) ==
  /\ version' = [version EXCEPT ![r].status =
                   Delta(@, seen.version.status, versionStatus)]
  /\ document' = [document EXCEPT ![r].status =
                    Delta(@, seen.document.status, documentStatus)]
  /\ UNCHANGED <<registered, chunks>>

\* Mutant of DocumentStatusOf: a stage is written to the document as it is.
DocumentStatusUnmapped(next) ==
  IF next \in Failures \ {"NEEDS_OCR"} THEN "FAILED" ELSE next

\* IngestionRepository.set_status maps a version's state to its document's ...
DocumentStatusOf(next) ==
  CASE next = "NEEDS_OCR" -> "NEEDS_OCR"
    [] next \in Failures \ {"NEEDS_OCR"} -> "FAILED"
    [] OTHER -> "PROCESSING"

\* Mutant of JobStatusOf: NEEDS_OCR is missing from the set of failures.
JobStatusForgetsOcr(next) ==
  IF next \in Failures \ {"NEEDS_OCR"} THEN "FAILED" ELSE "RUNNING"

\* ... and to its job's.
JobStatusOf(next) == IF next \in Failures THEN "FAILED" ELSE "RUNNING"

SetStatus(r, seen, next) ==
  /\ WriteStatuses(r, seen, next, DocumentStatusOf(next))
  /\ job' = [job EXCEPT ![r] = JobStatusOf(next)]

\* replace_for_version: old chunks deleted, new ones inserted without vectors.
ReplaceChunks(r) ==
  /\ chunks' = [chunks EXCEPT ![r] = "bare"]
  /\ UNCHANGED <<registered, document, version, job>>

\* save_embeddings, when every chunk it names is there.
SaveEmbeddings(r) ==
  /\ chunks[r] # "none"
  /\ chunks' = [chunks EXCEPT ![r] = "embedded"]
  /\ UNCHANGED <<registered, document, version, job>>

\* publish_version, after its validation.
PublishVersion(r, seen) ==
  /\ version' = [version EXCEPT ![r].status =
                   Delta(@, seen.version.status, "READY")]
  /\ document' = [document EXCEPT
                    ![r].status = Delta(@, seen.document.status, "READY"),
                    ![r].current = Delta(@, seen.document.current, TRUE)]
  /\ job' = [job EXCEPT ![r] = "SUCCEEDED"]
  /\ UNCHANGED <<registered, chunks>>

\* Mutant of MarkDocument: the bulk UPDATE sets the version's status alone.
MarkDocumentAlone(r, seen, status) ==
  /\ version' = [version EXCEPT ![r].status = status]
  /\ document' = [document EXCEPT
                    ![r].status = Delta(@, seen.document.status, status),
                    ![r].current = Delta(@, seen.document.current, FALSE),
                    ![r].deleted = TRUE]
  /\ UNCHANGED <<registered, job>>

\* mark_deleting and mark_deleted: the version is written by a bulk UPDATE,
\* which names its columns whatever was loaded; the document by a flush.
MarkDocument(r, seen, status) ==
  /\ version' = [version EXCEPT ![r] = [status |-> status, deleted |-> TRUE]]
  /\ document' = [document EXCEPT
                    ![r].status = Delta(@, seen.document.status, status),
                    ![r].current = Delta(@, seen.document.current, FALSE),
                    ![r].deleted = TRUE]
  /\ UNCHANGED <<registered, job>>

MarkDeleting(r, seen) ==
  /\ MarkDocument(r, seen, "DELETING")
  /\ UNCHANGED chunks

\* The last session of a deletion removes the chunks as well.
MarkDeleted(r, seen) ==
  /\ MarkDocument(r, seen, "DELETED")
  /\ chunks' = [chunks EXCEPT ![r] = "none"]

(***************************************************************************)
(* The blob store.  Nothing reads `abandoned`: a blob is no longer left    *)
(* behind once it is removed, or once a new upload of its content takes it *)
(* over.                                                                   *)
(***************************************************************************)
StoreBlob(content) ==
  /\ blobs' = blobs \cup {content}
  /\ abandoned' = abandoned \ {content}
  /\ UNCHANGED faults

\* BlobStore.delete of a missing key is no error.
RemoveBlob(content) ==
  /\ blobs' = blobs \ {content}
  /\ abandoned' = abandoned \ {content}
  /\ UNCHANGED faults

CatalogTypeOK ==
  /\ registered \subseteq Rows
  /\ document \in [Rows -> DocumentRow]
  /\ version \in [Rows -> VersionRow]
  /\ job \in [Rows -> JobStatus]
  /\ chunks \in [Rows -> ChunkState]
  /\ blobs \subseteq Contents
  /\ queue \in [Rows -> Nat]
  /\ faults \in 0..MaxFaults
  /\ abandoned \subseteq Contents
=============================================================================
