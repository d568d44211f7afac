-------------------------- MODULE IngestionWorker --------------------------
(***************************************************************************)
(* The Celery task rag.ingest_document (worker/celery_app.py) with the     *)
(* orchestration it runs (IngestionService.ingest, ingestion/service.py).  *)
(*                                                                         *)
(* A worker takes a message, loads the version, walks the four stages -    *)
(* each begins by committing its status, after a check that the document   *)
(* was not deleted - and commits the index in three transactions.  An      *)
(* exception is recorded on the row by the service; one that is no         *)
(* IngestionError is recorded again by the task.  The message is           *)
(* acknowledged when the task has ended (task_acks_late): until then the   *)
(* broker may deliver it a second time.                                    *)
(***************************************************************************)
EXTENDS Catalog

CONSTANTS
  Workers,          \* worker processes, one task at a time each (prefetch 1)
  MaxRedeliveries   \* bound: messages delivered again while the task runs

ASSUME WorkerAssumption == MaxRedeliveries \in Nat

VARIABLES
  worker,           \* by worker: control point, row, stage, identity map, ...
  redeliveries      \* messages delivered again so far

WorkerPC ==
  {"idle",       \* no message
   "load",       \* about to load the version for set_status(stage)
   "commit",     \* version loaded and not cancelled; about to commit the stage
   "run",        \* stage committed; about to do its work
   "embed",      \* chunks replaced; about to save the vectors
   "validate",   \* vectors saved; about to load and validate for publication
   "publish",    \* validated; about to commit the publication
   "raised",     \* an exception: _record_failure is about to load the version
   "record",     \* version loaded; about to commit the failure
   "rescue",     \* the task's own handler is about to load the version
   "rescuing",   \* version loaded; about to commit worker_failure
   "ack"}        \* the task has ended; its message is not acknowledged yet

\* `failure` is the status _failure_for chose for the exception; `expected`
\* says whether that exception is an IngestionError.
WorkerState ==
  [pc : WorkerPC, row : Rows \cup {NoRow}, stage : Stages, seen : RowView,
   failure : Failures, expected : BOOLEAN]

IdleWorker ==
  [pc |-> "idle", row |-> NoRow, stage |-> "PARSING", seen |-> NoView,
   failure |-> "FAILED_INDEX", expected |-> TRUE]

WorkerInit ==
  /\ worker = [w \in Workers |-> IdleWorker]
  /\ redeliveries = 0

Busy(w) == worker[w].pc # "idle"

\* The task goes on, its session's identity map expired by the last commit.
ProceedTo(w, pc) ==
  worker' = [worker EXCEPT ![w] = [@ EXCEPT !.pc = pc, !.seen = NoView]]

\* It goes on with what the session has loaded just now.
ProceedWith(w, pc) ==
  worker' = [worker EXCEPT ![w] =
                [@ EXCEPT !.pc = pc, !.seen = View(worker[w].row)]]

EnterStage(w, stage) ==
  worker' = [worker EXCEPT ![w] = [@ EXCEPT !.pc = "load", !.stage = stage]]

Release(w) == worker' = [worker EXCEPT ![w] = IdleWorker]

Raise(w, failure, expected) ==
  worker' = [worker EXCEPT ![w] =
                [@ EXCEPT !.pc = "raised", !.seen = NoView,
                          !.failure = failure, !.expected = expected]]

\* _failure_for, for an exception that is no IngestionError.
FailureFor(stage) ==
  CASE stage = "EMBEDDING" -> "FAILED_EMBED"
    [] stage = "INDEXING" -> "FAILED_INDEX"
    [] OTHER -> "FAILED_PARSE"

\* After _record_failure the exception goes on: the task ends with an
\* IngestionError, and handles any other.
PassOn(w) == IF worker[w].expected THEN "ack" ELSE "rescue"

Unchanged == UNCHANGED <<blobs, queue, redeliveries>>

(***************************************************************************)
(* The message and the four stages.                                        *)
(***************************************************************************)

\* The first load of the task; what it loads serves the first stage too,
\* since no commit expires it in between.
StartTask(w, r) ==
  /\ worker[w].pc = "idle"
  /\ queue[r] > 0
  /\ queue' = [queue EXCEPT ![r] = @ - 1]
  /\ worker' = [worker EXCEPT ![w] =
                  IF Cancelled(View(r))
                    THEN [@ EXCEPT !.pc = "ack", !.row = r]
                    ELSE [@ EXCEPT !.pc = "commit", !.row = r, !.seen = View(r)]]
  /\ NoFault /\ UNCHANGED <<catalogVars, blobs, redeliveries>>

\* The check of a later stage.  A deleted document raises a RuntimeError;
\* recording it reads the same identity map, raises again and is swallowed.
LoadStage(w) ==
  /\ worker[w].pc = "load"
  /\ IF Cancelled(View(worker[w].row))
       THEN ProceedTo(w, "rescue")
       ELSE ProceedWith(w, "commit")
  /\ NoFault /\ UNCHANGED catalogVars /\ Unchanged

CommitStage(w) ==
  /\ worker[w].pc = "commit"
  /\ SetStatus(worker[w].row, worker[w].seen, worker[w].stage)
  /\ ProceedTo(w, "run")
  /\ NoFault /\ Unchanged

\* Fetch the blob, parse and normalise it.  The parsers wrap most exceptions
\* of their libraries, not all.
Parse(w) ==
  /\ worker[w].pc = "run" /\ worker[w].stage = "PARSING"
  /\ ContentOf[worker[w].row] \in blobs
  /\ \/ EnterStage(w, "CHUNKING")
     \/ Raise(w, "NEEDS_OCR", TRUE)
     \/ \E expected \in BOOLEAN : Raise(w, "FAILED_PARSE", expected)
  /\ NoFault /\ UNCHANGED catalogVars /\ Unchanged

\* BlobNotFoundError is no IngestionError.
BlobMissing(w) ==
  /\ worker[w].pc = "run" /\ worker[w].stage = "PARSING"
  /\ ContentOf[worker[w].row] \notin blobs
  /\ Raise(w, "FAILED_PARSE", FALSE)
  /\ NoFault /\ UNCHANGED catalogVars /\ Unchanged

\* A chunker that returns no chunk raises EmptyDocumentError.
ChunkBlocks(w) ==
  /\ worker[w].pc = "run" /\ worker[w].stage = "CHUNKING"
  /\ EnterStage(w, "EMBEDDING") \/ Raise(w, "FAILED_PARSE", TRUE)
  /\ NoFault /\ UNCHANGED catalogVars /\ Unchanged

\* The provider fails, or its vectors are refused: EmbeddingError.
EmbedChunks(w) ==
  /\ worker[w].pc = "run" /\ worker[w].stage = "EMBEDDING"
  /\ EnterStage(w, "INDEXING") \/ Raise(w, "FAILED_EMBED", TRUE)
  /\ NoFault /\ UNCHANGED catalogVars /\ Unchanged

(***************************************************************************)
(* The three transactions of the index.  Any exception is an IndexingError.*)
(***************************************************************************)
WriteChunks(w) ==
  /\ worker[w].pc = "run" /\ worker[w].stage = "INDEXING"
  /\ ReplaceChunks(worker[w].row)
  /\ ProceedTo(w, "embed")
  /\ NoFault /\ Unchanged

WriteVectors(w) ==
  /\ worker[w].pc = "embed"
  /\ SaveEmbeddings(worker[w].row)
  /\ ProceedTo(w, "validate")
  /\ NoFault /\ Unchanged

\* An UPDATE that finds no chunk row: NotFoundError.
ChunksGone(w) ==
  /\ worker[w].pc = "embed"
  /\ chunks[worker[w].row] = "none"
  /\ Raise(w, "FAILED_INDEX", TRUE)
  /\ NoFault /\ UNCHANGED catalogVars /\ Unchanged

\* Two tasks replace or fill the chunks of one version at once: chunk ids are
\* deterministic, so the later INSERT breaks a unique constraint and an UPDATE
\* misses rows the other task has just deleted.  Either transaction may fail.
IndexClash(w) ==
  /\ \/ worker[w].pc = "run" /\ worker[w].stage = "INDEXING"
     \/ worker[w].pc = "embed"
  /\ \E v \in Workers \ {w} : /\ worker[v].row = worker[w].row
                              /\ worker[v].stage = "INDEXING"
  /\ Raise(w, "FAILED_INDEX", TRUE)
  /\ NoFault /\ UNCHANGED catalogVars /\ Unchanged

\* publish_version loads the version and counts chunks and vectors; it does not
\* look at deleted_at.
Validate(w) ==
  /\ worker[w].pc = "validate"
  /\ IF chunks[worker[w].row] = "embedded"
       THEN ProceedWith(w, "publish")
       ELSE Raise(w, "FAILED_INDEX", TRUE)
  /\ NoFault /\ UNCHANGED catalogVars /\ Unchanged

Publish(w) ==
  /\ worker[w].pc = "publish"
  /\ PublishVersion(worker[w].row, worker[w].seen)
  /\ ProceedTo(w, "ack")
  /\ NoFault /\ Unchanged

(***************************************************************************)
(* The two layers that record an exception.                                *)
(***************************************************************************)

\* _record_failure: set_status refuses a deleted document, and is not heard.
LoadFailure(w) ==
  /\ worker[w].pc = "raised"
  /\ IF Cancelled(View(worker[w].row))
       THEN ProceedTo(w, PassOn(w))
       ELSE ProceedWith(w, "record")
  /\ NoFault /\ UNCHANGED catalogVars /\ Unchanged

\* Mutant of RecordFailure: the failure is not committed.
RecordFailureUncommitted(w) ==
  /\ worker[w].pc = "record"
  /\ ProceedTo(w, PassOn(w))
  /\ NoFault /\ UNCHANGED catalogVars /\ Unchanged

RecordFailure(w) ==
  /\ worker[w].pc = "record"
  /\ SetStatus(worker[w].row, worker[w].seen, worker[w].failure)
  /\ ProceedTo(w, PassOn(w))
  /\ NoFault /\ Unchanged

\* The handler of the task looks at the document only.
LoadRescue(w) ==
  /\ worker[w].pc = "rescue"
  /\ IF document[worker[w].row].deleted
       THEN ProceedTo(w, "ack")
       ELSE ProceedWith(w, "rescuing")
  /\ NoFault /\ UNCHANGED catalogVars /\ Unchanged

Rescue(w) ==
  /\ worker[w].pc = "rescuing"
  /\ SetStatus(worker[w].row, worker[w].seen, "FAILED_INDEX")
  /\ ProceedTo(w, "ack")
  /\ NoFault /\ Unchanged

\* The message is acknowledged, whatever the task's outcome: nothing retries.
Acknowledge(w) ==
  /\ worker[w].pc = "ack"
  /\ Release(w)
  /\ NoFault /\ UNCHANGED catalogVars /\ Unchanged

(***************************************************************************)
(* Faults.                                                                 *)
(***************************************************************************)

\* A transaction raises and is rolled back.
StageFails(w) ==
  /\ worker[w].pc = "commit"
  /\ Fault("database")
  /\ Raise(w, FailureFor(worker[w].stage), FALSE)
  /\ UNCHANGED catalogVars /\ Unchanged

IndexFails(w) ==
  /\ \/ worker[w].pc = "run" /\ worker[w].stage = "INDEXING"
     \/ worker[w].pc \in {"embed", "publish"}
  /\ Fault("database")
  /\ Raise(w, "FAILED_INDEX", TRUE)
  /\ UNCHANGED catalogVars /\ Unchanged

\* Both layers swallow an exception of their own.
RecordFails(w) ==
  /\ worker[w].pc \in {"record", "rescuing"}
  /\ Fault("database")
  /\ ProceedTo(w, IF worker[w].pc = "record" THEN PassOn(w) ELSE "ack")
  /\ UNCHANGED catalogVars /\ Unchanged

\* The worker stops and its unacknowledged message is delivered again.
WorkerRestart(w) ==
  /\ Busy(w)
  /\ Fault("worker_restart")
  /\ Release(w)
  /\ queue' = [queue EXCEPT ![worker[w].row] = @ + 1]
  /\ UNCHANGED <<catalogVars, blobs, redeliveries>>

\* Only the process of the task is killed: task_reject_on_worker_lost is not
\* set, so Celery acknowledges the message of the lost task.
TaskLost(w) ==
  /\ Busy(w)
  /\ Fault("task_lost")
  /\ Release(w)
  /\ UNCHANGED catalogVars /\ Unchanged

\* The broker's visibility timeout passes while the task runs.
Redeliver(w) ==
  /\ Busy(w)
  /\ redeliveries < MaxRedeliveries
  /\ redeliveries' = redeliveries + 1
  /\ queue' = [queue EXCEPT ![worker[w].row] = @ + 1]
  /\ NoFault /\ UNCHANGED <<catalogVars, blobs, worker>>

WorkerStep(w) ==
  \/ LoadStage(w) \/ CommitStage(w)
  \/ Parse(w) \/ BlobMissing(w) \/ ChunkBlocks(w) \/ EmbedChunks(w)
  \/ WriteChunks(w) \/ WriteVectors(w) \/ ChunksGone(w) \/ IndexClash(w)
  \/ Validate(w) \/ Publish(w)
  \/ LoadFailure(w) \/ RecordFailure(w) \/ LoadRescue(w) \/ Rescue(w)
  \/ Acknowledge(w)

WorkerNext(w) ==
  \/ \E r \in Rows : StartTask(w, r)
  \/ WorkerStep(w)
  \/ StageFails(w) \/ IndexFails(w) \/ RecordFails(w)
  \/ WorkerRestart(w) \/ TaskLost(w) \/ Redeliver(w)

WorkerTypeOK ==
  /\ worker \in [Workers -> WorkerState]
  /\ \A w \in Workers : Busy(w) => worker[w].row \in Rows
  /\ redeliveries \in 0..MaxRedeliveries
=============================================================================
