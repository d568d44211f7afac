# A verification project for project-rag

project-rag stores uploaded documents, ingests them in the background (parse, chunk,
embed, index) and answers questions from what it has indexed; a web page lists the
documents. This directory holds TLA+ models of its core, the TLC configurations that check
them, and TLAPS proofs. Paths below are relative to the repository's `src/rag/` unless
they say otherwise.

Contents: 1 inventory, 2 the models, 3 the runs, 4 fairness, 5 the proofs, 6 disagreements
between code and documents, 7 what is not modelled, 8 plan, 9 how to run.

## 1. Inventory

| Component | Code | State it keeps | Operations |
|---|---|---|---|
| Upload endpoint | `api/app.py` 118-218, 558-568 | none of its own: a request holds the hash and what its session loaded | duplicate check, blob write, registration, cleanup, enqueue, record a queue failure |
| Deletion endpoint | `api/app.py` 240-273 | none of its own | hide, remove the blob, remove the chunks and close |
| Ingestion worker | `worker/celery_app.py`, `ingestion/service.py` | a session with an identity map, for a task | four stages, three index transactions, two layers of failure recording |
| Catalogue | `repositories.py`, `models.py` | documents, versions, jobs, chunks in PostgreSQL | register, set status, replace chunks, save vectors, publish, mark deleting, mark deleted, the search and counting queries |
| Blob store | `blob_store.py` | original files under content-addressed keys: a tree of directories, or a bucket of objects | put, get, delete; create directories and remove empty ones; create the bucket, probe its health |
| Queue | Celery on Redis (external) | ingestion messages | deliver, acknowledge late, deliver again |
| Chunker | `ingestion/chunking.py` | none between calls | split blocks, pack pieces, overlap |
| Embedding batches | `ingestion/service.py` 195-291 | none between calls | batch by count and tokens, check vectors |
| Parsers, normaliser | `ingestion/parsers/`, `normalization.py` | none between calls | bytes to blocks under their sections; drop margins that repeat on pages |
| Retrieval service | `retrieval/service.py`, `citations.py`, `api/app.py` 296-361 | none between calls; a question holds a session with a pooled connection | two searches, rerank, select, generate, validate citations, retry once |
| Connection pool, event loop | `db.py`, asyncio and SQLAlchemy (external) | connections lent; the coroutine that runs | check out, time out, return |
| Ranking | `retrieval/fusion.py`, `diversity.py` | none | fuse ranks, drop duplicates, select |
| Context builder | `retrieval/context.py` | none | pack passages into a token budget under labels |
| Exact counting | `api/app.py` 363-444, `retrieval/exact_count.py` | none | list ready versions, re-read their files, count |
| Library page | `/web/app.js` | the documents it shows, whether its timer is on | load the list, poll, upload files, delete a document |
| Adapters, providers, configuration, migrations, conversation of the page, smoke test | `adapters/`, `providers.py`, `config.py`, `/migrations`, `/web`, `/scripts` | - | - |

How they interact. The two endpoints and the workers are separate processes. They share
the catalogue, the blob store and the queue, and nothing else: no lock, no lease, no
notification. Each goes through several sessions with other calls between them.
Transactions are READ COMMITTED and no SELECT locks a row; what a session writes depends
on what it loaded. Search and counting read the catalogue through two queries of their
own. Exact counting also reads the blobs, after its session. Each request and task builds
its own blob store on the shared directory or bucket. The page asks for the list and for
changes over HTTP, with several requests under way at once.

What is hard. (a) The order in which the sessions of uploads, deletions and tasks of one
file interleave. (b) Failures in the middle of a handler: the blob is written and the row
is not, the row is committed and the message is not sent, the document is hidden and its
blob cannot be removed. (c) Messages delivered twice, workers restarted, tasks killed. (d)
Values that were loaded before another session committed. (e) Questions are coroutines
that wait for connections in the thread of the event loop, and hold them while they await
a model. (f) In the chunker, a loop whose progress depends on four settings. (g)
Directories of the blob store that a deletion removes while a write creates them, and a
bucket that two callers create. (h) Requests of the page that are answered out of order.
(i) Bounds and positions in the batches, the ranking, the prompt and the evidence of a
count. `PROJECT.json` lists the hazards line by line, with the property that covers each
one.

What makes each component correct. Upload: a registered file is ingested or its failure
recorded, a duplicate changes nothing, and the blob store holds the file of every live row
and no other. Deletion: a deleted document is never seen again, and its file and chunks
go. Worker: it publishes complete indexes only, and every task leaves a trace of how it
ended. Catalogue: the two tombstones agree, and the job tells the version's state. Search:
each document appears and disappears as the abstract index allows. Retrieval: an answer
cites what it was given, one failing search does not cost the other, every question ends
and gives its connection back. Chunker: it terminates, loses nothing, and keeps to its
limits. Blob store: a call takes effect at one moment or fails without any effect, and a
write fails only for a reason. Batches: every chunk gets its own vector. Ranking: the
fusion agrees with the searches, one of each set of duplicates remains, and the selection
is as full as its limits allow. Context builder: labels name the best passages and the
prompt keeps to its budget. Exact counting: it never counts a deleted document, fails only
for a reason, and its evidence leads to matches. Page: in the end it shows how every
document ended.

## 2. The models

`Lifecycle` composes the endpoints and the workers on one catalogue; it EXTENDS
`UploadApi`, `DeletionApi` and `IngestionWorker`, which EXTEND `Catalog`. `Readers`
EXTENDS `Lifecycle` by the requests that read documents meanwhile. `BlobStores` is a
deployment's choice between `LocalBlobStore` and `S3BlobStore`, each of which implements
`BlobStorePromise`. `AnswerService` stands alone. The remaining parts are functions, and a
page, that share no state: `MarkdownParser`, `Normalizer`, `ChunkPacker`,
`EmbeddingBatches`, `Ranking`, `ContextBuilder`, `ExactCount` and `LibraryPage`;
`SequentialParts` is their sum. `Lists` holds what they compute of lists: a sum, a list
comprehension with a condition, a sorted list.

**Catalog** is the durable state and the repository operations. The upload endpoint
creates one document with one version and one job per registration (`register_upload`
never adds a version to an older document), so the three rows are indexed by the request
that created them. `ContentOf` gives the content hash of each request's file; equal hashes
share a blob key.

| Variable | Code |
|---|---|
| `registered` | the rows that exist |
| `document[r]` | `Document.status`, whether `current_version_id` and `deleted_at` are set |
| `version[r]` | `DocumentVersion.status`, whether `deleted_at` is set |
| `job[r]` | `IngestionJob.status` |
| `chunks[r]` | no chunks; chunks without vectors; chunks with vectors |
| `blobs`, `queue[r]` | keys in the blob store; undelivered messages by version |
| `abandoned` | none: a history of the contents whose blob a request left behind when a fault ended it |

A session is two steps: its SELECTs, which put a `View` of the row in the process's
`seen`, and its COMMIT. Anything may commit in between. The COMMIT of a flush writes a
`Delta`: SQLAlchemy names a column in the UPDATE only if the assigned value differs from
the loaded one. That a late flush does not write `deleted_at` back is what keeps deletions
final (the mutant `WriteWholeRows` breaks it). `mark_deleting` and `mark_deleted` write
the version by a bulk UPDATE, which is unconditional. `find_by_content_hash` takes the row
created last; `created_at` is the start time of a transaction, which does not order
concurrent commits, so the model takes any matching row. The job is loaded and written in
one step: its SELECT directly precedes the flush.

**UploadApi**, one process per request. Control points and code: `start` (143-158) `put`
(160-167) `register`, `registering` (169-187) `cleanup`, `purge` (188-199) `enqueue`
(201-209) `unqueued`, `failing` (558-568). A commit that raises may or may not have been
applied. The session of the cleanup (191-196) may raise as well (`FindSharingFails`), and
then the blob is not removed. `ApiCrash` stops a request at any point. The handler awaits
nothing after it has read the file (line 129), so two uploads interleave only when two API
processes serve them; `compose.yaml` starts one. DELETE runs on the thread pool and
interleaves with an upload in the same process.

**DeletionApi**, a number of slots, each serving one request after another: `marking`
(243-252), `blobs` (254-265), `purge`, `purging` (267-273). The document is loaded with
`include_deleted`, so a second DELETE completes one that failed.

**IngestionWorker**, one task at a time per worker. `load` and `commit` are the check and
the write of `TransactionalIngestionRepository.set_status` (`celery_app.py` 62-69), which
begins every stage; `run` is the work of the stage; `embed`, `validate`, `publish` follow
`replace_chunks`; `raised`, `record` are `IngestionService._record_failure`; `rescue`,
`rescuing` the `except Exception` of the task; `ack` the end of the task, before the
message is acknowledged. `expire_all` after each commit is why `seen` is reset. A deletion
found by a later check raises a `RuntimeError`; recording that reads the same identity
map, raises again and is swallowed, so `LoadStage` goes straight to `rescue`. Parsing,
chunking and embedding are modelled by their outcomes. `IndexClash` stands for the two
exceptions that concurrent replacement can raise, a unique violation on deterministic
chunk ids and an UPDATE that finds no row; it may occur whenever two tasks index one
version, which allows more than the database would.

Faults are bounded by `MaxFaults` and restricted to `FaultKinds`: `database` (a
transaction raises), `blob`, `broker`, `api_crash`, `worker_restart` (the message comes
back), `task_lost` (a prefork child is killed; `task_reject_on_worker_lost` is not set, so
its message is acknowledged). `MaxRedeliveries` bounds messages that Redis delivers again
when its visibility timeout passes. Faults of the worker's own commits are rollbacks; a
commit applied but reported as failed is modelled for the upload only.

**SearchIndex** is the abstract specification: a document is absent, hidden, visible or
gone, and moves along five edges. `Lifecycle` implements it under `shown <- shownRows`.

**Readers** adds slots for the requests of exact counting (`api/app.py` 305-315, 363-408)
and of search (`retrieval/service.py` 112-147). A counting request lists the ready
versions in one session (`files`), reads their files one by one after it, and fails as a
whole if one is missing (`missing`) or the store fails (`failed`). A search executes the
`dense` and then the `lexical` statement, each of which sees what is committed when it
starts, and replies later. What a statement may return is the set of documents, not of
passages. `before` is a history variable: the documents whose deletion was committed when
the request began.

**BlobStorePromise** is what the callers of `blob_store.BlobStore` rely on: a call takes
effect, or reads, at one moment between its beginning and its answer; a missing object is
told from an error; a call that fails changes nothing, except with `Uncertain`.
**LocalBlobStore** has a step for each call of the file system: `mkdir` with its parents
and its test for a directory, the temporary file, its last byte and the replacement,
`unlink`, and `rmdir` climbing from the file's directory until one is not empty. `dirs`,
`stored` and `litter` (temporary files of killed calls) are the disk. Faults are I/O
errors and kills. The history `crossed` says that a deletion removed a directory on a
write's path meanwhile. **S3BlobStore** has a step for each request to the object service:
`head_bucket`, `create_bucket`, upload, read, removal, and the health check's probe of the
bucket. A request may be refused, or served and its answer lost; so it implements the
promise with `Uncertain <- TRUE`. **BlobStores** is `create_blob_store`.

**AnswerService** is the two coroutine endpoints with `RetrievalService`. A question is a
record of its coroutine's locals; control points and code (`retrieval/service.py`):
`embedding` (115-131), `dense` and `lexical` (134-142), `ranking` (144-265), `generating`
(267-343). Between two awaits a coroutine is one step, so that ranking and the prompt are
one action. The two searches are coroutines without an await (`repositories.py` 579-589,
619-626): `gather` runs them one after the other, on the one session of the request, and
while they run, waiting for a connection included, no other coroutine does (`LoopFree`).
`holders` are the connections lent: a question's first statement takes one and the end of
the `with` block in the endpoint gives it back (`Finish`), whichever way the handler is
left. Threads stand for the endpoints that FastAPI runs in its worker pool and for exact
counting. A search returns nothing or something, or raises: without sending a statement
(wrong dimension; `skips`, settled once for a question), because it gets no connection,
because its statement fails, or because an earlier failure has aborted the transaction.
`met` is a history variable that tells failures of a search's own from the last kind.
Passages are counted: labels are S1 to Sn by position, so `sources` is the number of
supplied labels and a reply is the labels it writes in its text and in its list, one
made-up label among them. The order of the passages and the scores are not in the model.
`minimum_top_score` is not set by `providers.py` and is left out.

**GroundedAnswers** is the abstract promise: one reply for a question, and an answer cites
at least one passage and only passages that it shows. `AnswerService` implements it under
`reply <- replies`.

**MarkdownParser** is `MarkdownParser.parse`, one action per branch of its scan. A line is
what the scanner's tests find in it: a heading of one of two levels, a fence of one of two
kinds, an item, an indented line, a pipe, a table's divider, a blank or prose. Lines that
pass two tests and fences of different lengths are left out. A block is its kind, its lines
and the headings above it. `FenceBehind` and `Enclosing` say line by line what is code and
which headings enclose a line; `BlocksFollowText` compares.

**Normalizer** is `Normalizer.normalize` without the cleanup of characters: blocks that
become empty are dropped, the first and the last text of each page are counted, and what
reaches the threshold goes. A text is a name; some are too long for a margin. Blocks
without a page, which the second step does not touch, are left out.

**ChunkPacker** is `_pack_group` with the grouping of `chunk()`. A piece is its token
count and its section; the default counter is additive over joined texts, and
`_split_block` leaves no piece above the target. `draft` is the last chunk appended and
`covered` the pieces appended so far, so the state stays finite even where the code's list
of drafts grows for ever. The suffix cut from a piece depends on its words: any positive
number of tokens up to the budget.

**EmbeddingBatches** is `_embedding_batches` and `_embed` (`ingestion/service.py`) over
`OpenAIEmbeddingProvider` (`adapters/openai_models.py`). A chunk is its token count and a
vector the text it embeds and its length. The endpoint answers a request with its items in
any order, too few of them, or vectors of another length; both layers check.

**Ranking** is `reciprocal_rank_fusion`, the removal of duplicates, the reranker's share
and `select_diverse_candidates`. Scores are exact fractions on a common denominator. Which
passages are duplicates is an input (`twins`), as are the reranker's scores and the
sections. Marginal relevance depends on vectors, so that every choice after the first may
be any passage the limits admit.

**ContextBuilder** is `build`. A text is its characters and its words, which is what
`estimate_tokens` looks at. The beginning that remains of a passage which is cut depends
on its sentences and blanks: it may be any that fits, or nothing.

**ExactCount** is the loop of `retrieval/exact_count.py` over documents and blocks, a
block being the number of its matches: the evidence of a document, and the rounds that
show a card of each document in turn until the answer is full.

**LibraryPage** is the list of documents on the page. `lists`, `uploads` and `deletions`
are the requests under way; `service` is what `GET /api/documents` would answer now.
Requests are served and answered in any order, or lost, and every answer that arrives
renders the list and sets the timer. The history `excused` says that the last news came
out of date or was lost: that a page may then stay wrong is not a fault that `PageSettles`
could report.

**SequentialParts** runs one call of one part, or the life of one page; the variables of
the others are `NotCalled`.

## 3. The runs

`MCLifecycle`, `MCReaders`, `MCBlobStores`, `MCSequentialParts` and `MCChunkPacker` give
the constants their values; `AnswerService` takes them from its configurations.

| Run | Instance | Shows |
|---|---|---|
| `lifecycle_once` | two files, one worker, one reader, one fault of any kind but `worker_restart`, no redelivery | `CountableIsSearchable`, `JobTellsVersion`, `LiveHasBlob`, `PublishedStays`; for readers `DeletedStaysUnseen`, `CountFailsForDeletion`, `StatementsAgree` |
| `lifecycle_live` | one file, two workers, `broker` (1), one redelivery, fair | `TypeOK`, `TombstonesAgree`, `DeletionIsFinal`, `ImplementsIndex`, `UnsettledIsOwned`, `UploadSettles`, `DeletionCompletes` |
| `lifecycle_blobs` | two uploads of one file, one worker, two faults of any kind but `task_lost` | `BlobHasReason` |
| `blob_stores` | three callers, two keys in sibling directories under a shared one (one object key), one content, one fault, symmetry | `TreeIntact`, `PutFailsForReason`, `NoEmptyDirectoryLeft`, `PutFailsForBucket`, `ImplementsPromise`, `ObjectsImplementPromise` |
| `sequential_parts` | one call of each part on all inputs in the bounds below, or one page, fair | parser: `BlocksFollowText`; normaliser: `OnlyMarginsGo`; packer: `HardCap`, `EveryPieceOnce`, `DraftIsPassage`; batches: `BatchesPartition`, `VectorsReachTheirChunks`; ranking: `FusionAgrees`, `OneOfEachTwin`, `SelectionFull`; prompt: `BudgetHolds`, `PromptTellsWhatItHolds`; counting: `EvidenceSupportsCount`; all: `EveryCallReturns`; page: `PageSettles` |
| `answers` | an answer, an inspection and a thread, one connection, up to two passages, fair | `TypeOK`, `ConnectionsReturned`, `Grounded`, `EveryQuestionEnds` |
| `duplicate_upload`, `shared_blob`, `repeated_ingestion`, `late_chunks`, `one_channel`, `overlap_loop` | the smallest instance that shows it | one disagreement each, section 6 |

Why the bounds are enough. A row is affected by another row only through a shared content
hash, which takes two rows; two tasks of one version take two workers and one redelivery;
two deletions in one slot, one after the other, exercise the repeated DELETE. One fault
per behaviour reaches every error path with the handlers that follow it; a handler that
fails in its turn takes a second, which `lifecycle_blobs` has: the outage that ends a
registration ends the cleanup too. The theorems bound no number of faults, and each names
the kinds that it excludes. One reader is enough, since readers change nothing; its
requests follow one another. Safety properties that hold under redelivery are checked with
it; those that need one delivery per message (`CountableIsSearchable`, `JobTellsVersion`,
`PublishedStays`) are checked without, and what redelivery does to them is a finding or,
for a READY version that is ingested again, the edge visible-to-hidden of the abstract
index.

In the blob store the third caller deletes what the second is about to create again after
the first has looked; one shared and two sibling directories allow a deletion to stop at a
directory that is still used and to climb past one that is not. Three callers of the
object store race for the bucket with the health check; keys of it share nothing, so that
one is enough.

Texts have up to four lines of each of the ten kinds: a heading above a deeper one above
a text, code that holds a heading, a table that interrupts a paragraph. Files of three,
four and six pages put both thresholds of the normaliser to work (three pages, and three
fifths of six), with empty pages, pages of one text, and a text in the middle of a page.

In the chunker (target 3, maximum up to 5, up to four pieces in two sections, every
minimum, every smaller overlap) four pieces allow a draft of three, an overlap cut from
one of them and a next piece that does or does not fit; maxima up to 5 with a target of 3
make the small-draft rule and the dropped overlap happen.

The batches hold at most 3 chunks and 4 tokens in requests of 2, over documents of up to
four chunks of 1, 2 or 5 tokens, so that each bound closes a batch and a request of its
own, a chunk is above the bound by itself, and vectors have one of two lengths. The
ranking has four chunks, two lists of up to two, a fusion that keeps three, three places
in two documents whose sections share a name, and two sets of limits; the weights and the
rank constant are the defaults. The prompt has three passages of texts whose estimate
follows characters or words, a budget of 14 and a minimum of 3: all, some and none fit,
whole and cut. A count has up to three documents of up to three blocks, two cards for each
and three in all, which fill before the last document is reached. The page has two files,
one of them dropped while the other may be there, two requests for the list at once, and
one lost request.

With one connection a question waits for another question and for a thread; more questions
only wait for more of the same. Two passages and one label beyond them give replies that
cite all, some, none and wrong labels.

Deadlock is not checked: a system without requests stops, a function returns, and a page
whose documents have ended does nothing.

Every property has a mutant in `PROJECT.json`: a definition of the code changed as a
plausible bug would change it, under which TLC reports that property violated. The mutated
operators stand before the definitions they replace.

## 4. Fairness

`Lifecycle!Fairness` is weak fairness of each request in progress (`UploadStep`,
`DeletionStep`), and of each worker, over taking a message and the steps of a task. A
handler awaits nothing that another request of the model holds, and database statements
and provider calls return or raise (`StageFails`, `EmbedChunks`), so a request that has
begun goes on; Celery's loop takes messages as long as they wait. Requests need not
arrive, deletions need not be asked for, and faults need not happen. The run excludes four
faults, because nothing in the code recovers from them and no document says it does: after
`api_crash` between commit and enqueue a row stays QUEUED; after `task_lost` a row keeps
its working status; after `blob` a deletion waits for a second DELETE; a `database`
failure while a failure is recorded leaves the row as it is (`ingestion/service.py`
314-321 swallows the exception). `AnswerService!FairSpec` is weak fairness of each
question that was asked: the clients of the providers and the pool have timeouts, and
asyncio runs a ready coroutine. No thread is assumed to return a connection.
`EveryQuestionEnds` therefore rests on the pool's timeout, and the mutant
`PoolWaitsForever` shows that it does: a search that waits stops the loop on which the
holders of the connections would end. `SequentialParts!FairSpec` says that a function runs
until it returns, and for the page that its timer fires, that requests are served and
answered (or lost, a bounded number of times), and that an upload comes to its end, which
is `UploadSettles`. The user need not do anything. The page may stay wrong for good after
news that came out of date or was lost, which nothing in the code repairs: `PageSettles`
says that nothing else makes it so. `ChunkPacker!FairSpec` is used by `overlap_loop`
alone.

## 5. The proofs

`LifecycleProofs` proves five theorems for every value of the constants: any number of
requests, deletion slots and workers, any contents, faults and redeliveries. They use
`CatalogAssumption` (the types of `ContentOf` and `MaxFaults`, and `NoRow` is no row) and
`WorkerAssumption` (`MaxRedeliveries` is a number).

| Theorem | States |
|---|---|
| `TypesHold` | `Spec => []TypeOK` |
| `TombstonesHold` | `Spec => []TombstonesAgree` |
| `DeletionHolds` | `Spec => DeletionIsFinal` |
| `IndexImplemented` | `Spec => ImplementsIndex` |
| `ProcessesAdvance` | every step of an upload, a deletion or a task lowers a number that is at most 7, 4 and 20 |

The argument goes through one notion, `RowStep(r)`: a step writes the rows of document r
only, never unregisters it, and either leaves both tombstones as they are or sets both on
a registered row. Every commit of `Catalog` is shown to be a `RowStep` (`InsertStep`,
`StatusesStep`, `SetStatusStep`, `ChunksStep`, `PublishStep`, `MarkStep`), and every
action of the three processes to make at most one commit (`UploadKept`, `DeletionKept`,
`WorkerKept`); these lemmas prove `TypeOK` along the way. It is inductive because it says,
beyond types, that a deletion in progress names a registered row and a busy worker a row:
otherwise a commit could set tombstones of a row that does not exist. The other theorems
on the catalogue never look at the actions again. `TombstonesAgree` is inductive relative
to `TypeOK`. A set tombstone stays set by `RowStep`, and makes `Searchable` and
`Countable` false by their definitions. For the refinement, `ShownStep` shows that a
`RowStep` moves the appearance of one row along an edge of `SearchIndex` or not at all; it
needs `TombstonesAgree`, and that a row is inserted as QUEUED and so is not visible at
once.

`AnswerProofs` proves four theorems about `AnswerService`, for any questions, threads,
pool and prompt sizes, from `ConstantsAssumption` and `RequireCitations` (the default,
which nothing in the service changes).

| Theorem | States |
|---|---|
| `AnswerTypesHold` | `Spec => []TypeOK`, with the bound of the pool |
| `ConnectionsComeBack` | `Spec => []ConnectionsReturned` |
| `AnswersAreGrounded` | `Spec => Grounded` |
| `QuestionsAdvance` | every step of a question lowers a number that is at most 7 and raises no other question's |

The inductive invariant `IInv` adds to `TypeOK` and `ConnectionsReturned` that a question
which generates is no inspection and has a prompt that is not empty; without it the reply
of a generator could be accepted for a prompt without labels. Every action of a question
is one of two kinds: it leaves the handler (`Finishes`), which tells the client something
that was not told before, or it goes on (`Continues`), which tells nothing. Each action
lemma names the kind and the abstract step. Only `AcceptStep` looks at the validation. The
bound of the pool uses the library's facts on cardinalities.

`BlobStoresProofs` proves nine theorems. Six are about `LocalBlobStore`, for any callers, keys,
directory trees and faults, from `StoreAssumption` (a directory lies at one place).

| Theorem | States |
|---|---|
| `StoreTypesHold` | `Spec => []TypeOK`; a file is never there in part |
| `TreesHold` | `Spec => []TreeIntact` |
| `PutsFailForReason` | `Spec => []PutFailsForReason` |
| `NoEmptyDirectories` | `Spec => []NoEmptyDirectoryLeft` |
| `PromiseImplemented` | `Spec => ImplementsPromise` |
| `CallsAdvance` | every step of a call lowers a number that is at most 3 `Depth` + 1 and raises no other call's |

The inductive invariant has three parts beyond the types and the tree. `Shapes`: the
record of a call fits its control point. `Reliance`: a write whose path no deletion has
crossed finds the directories that it has made or seen. `EmptyIsMinded`: without faults,
an empty directory is on the path of a call that will put something into it or try to
remove it; the theorem on empty directories is the case without calls. For the promise,
the step that replaces or unlinks the file maps to the change, a read to a read, an error
to a failure, and all others stutter.

Three are about `BlobStores`, from `StoreAssumption` and
`ObjectKeysAssumption` (a deployment on objects has a key). `BucketRaceIsOnlyFailure` is
`PutFailsForBucket` without faults: a bucket that is there stays (`BucketStays`), so that
a request which began with one never tries to create it. `ObjectPromiseImplemented` is
`ObjectsImplementPromise`: the object store implements the promise up to changes that were
made although their call reported a failure. `DeploymentsKeepTheTree` says that a
deployment is a behaviour of the local store or leaves it alone, by which the theorems on
the tree hold in every deployment.

`OwnershipProofs` proves who answers for a file and for a row. Every other constant, the
number of redeliveries included, is arbitrary.

| Theorem | States | Assumes |
|---|---|---|
| `BlobsHaveReason` | `Spec => []BlobHasReason` | nothing |
| `LiveFilesStay` | `Spec => []LiveHasBlob` | files that differ |
| `UnsettledStaysOwned` | `Spec => []UnsettledIsOwned` | files that differ, no `api_crash`, `task_lost` or `database` fault |

`Order` holds whatever fails: an upload before its commit has no row, a deletion past its
first commit has a deleted one, and a DELETING or DELETED version has its tombstone.
A blob without a row is there because a request still minds it, or was left behind: the
history `abandoned` names the five failures that leave one (the session of a cleanup, the
removal in a cleanup and in a deletion, an API process that stops in an upload and in a
deletion), and `BlobHasReason` says that nothing else does. Nothing in the model reads the
history.
`Reasons` strengthens `BlobHasReason`: an upload that is about to register is a reason for
its blob only if it will create a row, for one that resets a duplicate leaves none.
`Files` adds that an upload about to register finds its blob, and that one about to purge
has no live row. `OwnersKnown` strengthens `UnsettledIsOwned` where that is not inductive:
a process that loaded a row owns it only if its commit will write. SQLAlchemy does not
write an attribute that is set to what it was loaded with, so that a worker which records
the status that it has loaded would settle nothing.

It goes on with what is true of messages delivered once (files that differ,
`MaxRedeliveries = 0`, no `worker_restart`), under any other faults.

| Theorem | States |
|---|---|
| `CountableHaveVectors` | `Spec => []CountableIsSearchable` |
| `PublishedDocumentsStay` | `Spec => PublishedStays` |
| `JobsTellVersions` | `Spec => []JobTellsVersion` |

`Alone` says that a row is with its upload, in the queue or with one worker. From it
follows `FreshRows`: as long as nobody deletes the document, what a worker has loaded is
what is stored, it works on no READY version, and it publishes with all vectors there. A
step that writes a published row can then only be its deletion (`SearchableStays`).
`JobsTell` adds that an upload which has not sent its message finds its row as it made it
(`Untouched`); so the failure it records makes the row `Refused`, and since no message and
no worker has such a row, it stays as it is.

`ReadersProofs` proves three theorems about `ReadersSpec`, for any readers, requests,
workers and contents.

| Theorem | States | Assumes |
|---|---|---|
| `DeletedUnseen` | `[]DeletedStaysUnseen` | nothing |
| `CountsFailForDeletion` | `[]CountFailsForDeletion` | files that differ |
| `StatementsDifferByChange` | `[]StatementsAgree` | files that differ, messages delivered once |

`Unseen` says that the documents in `before` stay deleted, which the `RowStep` lemmas of
`LifecycleProofs` give for every commit, and are disjoint from what was read; a statement
cannot add one, because both tombstones of a deleted document are set. `Counts` says that
what is left to read stays registered, and so by `Files` a file that is gone is that of a
deleted document. `Finds` says that what a statement saw is still searchable or was
deleted, by `SearchableStays`. The readers write nothing but the fault counter, so the
invariants of the lifecycle carry over (`ServiceOrReader`).

The last three modules prove every safety property of `SequentialParts`, for any inputs, in
place of the bounded ones of its run. They rest on `PartsAssumption`, which collects the
assumptions of the parts: the types of their inputs, and for the packer the checks of its
constructor.

`ListsProofs` has the lemmas on sums, comprehensions, `FlattenSeq` and sorted lists. A
fold or a recursive function expands to the CHOOSE of a function that satisfies its
equation, so each proof first shows that there is one (`IterationExists`,
`RecursionExists`), and then what a list with one element more yields (`TotalOfAppend`,
`KeptOfAppend`, `FlattenOfAppend`). A sorted list exists for every finite set and every
strict total order (`ArrangedIsSorted`), and is the only one (`ArrangedIsOnly`). Induction
over numbers is had without the induction theorems, whose operator parameters the provers
do not instantiate: a set of numbers that is not empty has a least one (`LeastNumber`, by
`WFMin`), and so a set that holds zero and with a number the next is everything
(`Counting`).

`IngestionPartsProofs`:

| Theorem | States | Assumes |
|---|---|---|
| `HardCapHolds` | `Spec => []HardCap` | |
| `PiecesArePackedOnce` | `Spec => []EveryPieceOnce` | |
| `ChunksArePassages` | `Spec => []DraftIsPassage` | an overlap below the minimum |
| `PackingAdvances` | every step lowers a number that is at most twice the pieces | an overlap below the minimum |
| `BatchesArePartition` | `Spec => []BatchesPartition` | |
| `VectorsAreOfTheirChunks` | `Spec => []VectorsReachTheirChunks` | |
| `OnlyMarginsAreRemoved` | `Spec => []OnlyMarginsGo` | |
| `BlocksFollowTheText` | `Spec => []BlocksFollowText` | |

- Packer. `PackIInv`: the draft that is packed and the one appended last are passages,
  consecutive pieces of one section behind an overlap within its budget, and the current
  one ends with the piece before `index`. `PackFresh` adds that a draft of overlap
  alone has room for the piece it was made for. It is not inductive without the
  assumption of `ChunksArePassages`: an overlap that reaches the minimum is cut off as a
  chunk of its own, which is what `overlap_loop` shows.
- Batches. `Partition`: the chunks with a vector, the batches that wait and the open batch,
  one after the other, are the chunks of the document. `RepliesFit`: what the provider has
  collected for a batch is a beginning of it, in its order. `LengthKnown`: as long as no
  length of vectors is known there is no vector.
- Normaliser. The counter of a text is the number of pages seen that have it at an edge
  (`CleanIInv`). When all are seen it is that of `AtEdge`, and the rounded threshold
  decides as the fractions of `IsMargin` do (`RepeatedAreMargins`).
- Parser. `ParseIInv`: `headings` holds, by level, exactly the headings that enclose the
  line before `index`, deeper ones after those above; no code is open there unless the text
  is over; and every line before it with text is in a block of its kind under its headings.
  All branches but two go through `PlainStep`: lines that are neither fences nor headings
  change neither. `PathIs` says that headings sorted by level are sorted by line, which is
  why the code's `sorted(headings)` is the section path.

`AnswerPartsProofs`:

| Theorem | States | Assumes |
|---|---|---|
| `PromptFits` | `Spec => []BudgetHolds` | |
| `PromptIsTold` | `Spec => []PromptTellsWhatItHolds` | |
| `FusionIsFair` | `Spec => []FusionAgrees` | `SearchesAreShort` |
| `TwinsAreRepresented` | `Spec => []OneOfEachTwin` | |
| `SelectionIsFull` | `Spec => []SelectionFull` | |
| `EvidenceSupportsItsCount` | `Spec => []EvidenceSupportsCount` | |

- Prompt. `InStep`: the blocks are as many as the candidates before `position`.
  `CutIsKnown`: a block is marked as cut exactly if its text is not its passage's.
  `CutIsTold`: while the loop runs `truncated` is set exactly if a block is cut.
- Ranking. `ScoresKnown`: the scores that a stage sorts by are numbers. Those of the
  reranker are cross-multiplied fractions, so that `Higher` orders all passages
  (`HigherOrders`). `SelectionFits` is the limits during the loop. `SearchesAreShort` says
  that a search returns fewer passages than the 10**9 that stands for the rank of a
  passage it did not find, where `dense_limit` and `lexical_limit` are tens: at that
  length a passage found last would tie with one not found.
- Counting. `RoundsOf(d)` is how many rounds have passed document d, and `Given(d)` how
  many of its matches they could show. `CardsState`: the cards of d are its first
  `Given(d)` matches, with as many labels. The limits and the sharing follow by arithmetic
  on rounds, and the sum of the cards of a document that is shown in full is its count by
  the lemmas on sums.

Four theorems are the part of liveness that can be proved here. `ProcessesAdvance`,
`QuestionsAdvance`, `CallsAdvance` and `PackingAdvances` give each process a number that
is bounded and that every step of its own lowers: nothing that fails or runs beside it
brings it back to where it was. Each is about a place where the code could go round: a
task records a failure, and rescues it when recording fails too; a question retries its
provider; a write and the deletions of its directories undo one another's work; the packer
begins each draft with the end of the last. `PackingAdvances` needs the hypothesis of
`ChunksArePassages`, since `overlap_loop` is the packer without it. A redelivery begins a
new task and a second DELETE a new deletion, whose numbers are their own.

Only model-checked: the other part, that a step is possible (`ENABLED`) and by fairness
taken, so that the end comes (`UploadSettles`, `DeletionCompletes`, `EveryQuestionEnds`,
`EveryCallReturns`, `PageSettles`). Every safety property that a passing run checks is a
theorem. Most hold without hypotheses; the others name theirs above, and without it:

- files that differ: a deletion removes the file of an equal document (`shared_blob`), so a
  live document has no file and a count fails; a late duplicate hides a published
  document (`duplicate_upload`), sets it to QUEUED without an owner, and leaves its job as
  it was;
- messages delivered once: a READY version can lose its vectors (`repeated_ingestion`), a
  published document that is ingested again is hidden meanwhile, and the commit of one task
  writes the job and not the version, when the other has changed that since it was loaded;
- faults that lose a row: section 4;
- an overlap below the minimum: `overlap_loop`.

Runs show the cases that name one; the others follow the same paths and are the reason why
the property is not checked with redelivery or with equal files.

## 6. Disagreements between code and documents

Each is the counterexample of one run; `PROJECT.json` quotes both sides.

- `duplicate_upload`: a duplicate that loses the race to register puts a published
  document back to QUEUED, and nothing queues it again.
- `shared_blob`: a deletion removes the file of an equal document uploaded while it runs.
- `repeated_ingestion`: a message delivered twice can publish a version whose chunks have
  no vectors.
- `late_chunks`: a running task stores the chunks of a document after its deletion has
  answered.
- `one_channel`: a failing dense search takes the lexical search with it, since both use
  one transaction; the unit test that shows degradation has a repository without one.
- `overlap_loop`: with an overlap not below the minimum, which the constructor accepts,
  `_pack_group` does not return. `Chunker(target_tokens=500, max_tokens=750,
  min_tokens=100, overlap_tokens=150)` on two paragraphs of 450 words behaves so.

`duplicate_upload` takes two API processes, and `compose.yaml` line 88 starts one; the
other five happen in the deployment as it is shipped. That two tasks of one version work
at once, and one counts vectors which the other replaces, is shown by
`repeated_ingestion` alone: no passing run has a property that is about it.

Two more disagreements are exceptions that a property of a passing run names, which shows
that they are the only ones.

- A failed registration may leave its blob. `web/architecture.html` line 616 says "A
  registration failure removes an unshared blob." The cleanup (`api/app.py` 191-196) first
  opens a session to see whether the blob is shared; in the outage that failed the
  registration that session raises too, and line 198 is not reached. No row names the
  blob, and nothing collects it unless the same file is uploaded again. `BlobHasReason`
  says `abandoned` of it.
- A refused message leaves a job that is pending for ever. `web/architecture.html` line 636
  says "Queue failures are stored as a user-visible ingestion failure." They are stored on
  the version and the document (`_record_queue_failure`, `api/app.py` 558-566); the job
  whose id the upload has created stays PENDING, although no worker will ever come to it.
  `JobTellsVersion` says `Refused` of it.

## 7. Not modelled

Formatting, filenames, sizes, MIME types, error texts and the job's stage, attempts and
timestamps: no property depends on them. `REJECTED` and `CANCELLED` statuses: no path of
the service writes them (the upload filter and the parser registry accept the same
extensions). Embedding vectors, similarity and other floating-point values: where a
decision depends on them, the models take any outcome. The text of a block: whether a
question asks for a count and how often a pattern matches are inputs of `ExactCount`. The
decoding of bytes and the cleanup of characters; the PDF, DOCX and HTML parsers, which
walk the elements a library finds and keep headings as the Markdown parser does. The
external providers, except for their outcomes. The conversation on the page and the
changes other clients make to its list. Migrations, configuration loading and the smoke
test, which run once and alone. Several tenants or collections: the endpoints use one. A
Markdown line of `#` signs and two or more blanks: a heading with an empty title, which
encloses what follows and gets no block. A call of `delay` that raises although the broker
has taken the message. A database deadlock between a deletion that removes chunks and a
task that writes them, which would end one of the two without a fault and leave the
deletion to a second DELETE.

Three hazards in the list have no property, because nothing in the code or its documents
promises more: a request that is killed between two steps, and a task that is, leave their
row as it is, and a query vector without any feature makes a question fail.

## 8. Plan

What could be added, in order of importance:

1. Weaker hypotheses for the theorems about files that differ: which properties survive an
   equal file, and until when.
2. The conversation of the page: answers that arrive after the next question was asked.

## 9. How to run

    tlc -config LifecycleLive.cfg MCLifecycle        # and the other Lifecycle configurations
    tlc -config LifecycleOnce.cfg MCReaders
    tlc -config BlobStores.cfg MCBlobStores
    tlc -config SequentialParts.cfg MCSequentialParts
    tlc -config Answers.cfg AnswerService
    tlapm LifecycleProofs.tla                        # and the other modules named *Proofs

`PROJECT.json` names the module and the configuration of every run. `blob_stores` and
`sequential_parts` take about two minutes, the others less; the proofs take about half an
hour together, most of it for `IngestionPartsProofs` and `AnswerPartsProofs`.
