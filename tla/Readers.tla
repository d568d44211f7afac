------------------------------ MODULE Readers ------------------------------
(***************************************************************************)
(* The requests that read documents while others upload, delete and        *)
(* process them: exact counting (api/app.py 305-315, 363-408) lists        *)
(* the ready versions in one session and reads their files after it; a     *)
(* search or an answer (retrieval/service.py 112-147) runs two statements, *)
(* each of which sees what is committed when it starts, and replies later. *)
(* Which passages a statement returns is left to AnswerService: here it is *)
(* the documents whose passages it could return.                           *)
(***************************************************************************)
EXTENDS Lifecycle

CONSTANT Readers   \* requests that read at one time

VARIABLE reader    \* by slot: control point and what the request holds

ReaderPC ==
  {"idle",
   "files",       \* counting: versions listed; about to read their files
   "counted",     \* all files were read; about to reply
   "missing",     \* a file was not there; about to reply 503
   "failed",      \* the blob store failed; about to reply 503
   "dense",       \* searching: about to execute the dense statement
   "lexical",     \* about to execute the lexical statement
   "replying"}    \* about to reply, or generating an answer

ReaderState ==
  [pc : ReaderPC,
   before : SUBSET Rows,    \* history: the documents deleted when it began
   listed : SUBSET Rows,    \* the documents it counts
   left : SUBSET Rows,      \* those whose files it has not read
   dense : SUBSET Rows,     \* the documents the dense statement saw
   lexical : SUBSET Rows]   \* the documents the lexical statement saw

Idle ==
  [pc |-> "idle", before |-> {}, listed |-> {}, left |-> {}, dense |-> {}, lexical |-> {}]

ReadersInit == Init /\ reader = [q \in Readers |-> Idle]

Go(q, record) == reader' = [reader EXCEPT ![q] = record]

DeletedRows == {r \in registered : document[r].deleted}

(***************************************************************************)
(* Exact counting.                                                         *)
(***************************************************************************)
\* `selected` are the documents the request names, or all of them.  With none
\* that is ready it abstains at once.
ListVersions(q, selected) ==
  LET ready == {r \in selected : Countable(r)}
  IN /\ reader[q].pc = "idle" /\ ready # {}
     /\ Go(q, [Idle EXCEPT !.pc = "files", !.before = DeletedRows, !.listed = ready, !.left = ready])
     /\ UNCHANGED vars

ReadFile(q, r) ==
  /\ reader[q].pc = "files" /\ r \in reader[q].left
  /\ ContentOf[r] \in blobs
  /\ LET left == reader[q].left \ {r}
     IN Go(q, [reader[q] EXCEPT !.left = left, !.pc = IF left = {} THEN "counted" ELSE "files"])
  /\ UNCHANGED vars

\* One file that cannot be read fails the whole count.
FileMissing(q, r) ==
  /\ reader[q].pc = "files" /\ r \in reader[q].left
  /\ ContentOf[r] \notin blobs
  /\ Go(q, [reader[q] EXCEPT !.pc = "missing", !.left = {r}])
  /\ UNCHANGED vars

ReadFails(q) ==
  /\ reader[q].pc = "files"
  /\ Fault("blob")
  /\ Go(q, [reader[q] EXCEPT !.pc = "failed"])
  /\ UNCHANGED <<catalogVars, blobs, queue, upload, deletion, worker, redeliveries>>

(***************************************************************************)
(* Search and answer.                                                      *)
(***************************************************************************)
BeginSearch(q) ==
  /\ reader[q].pc = "idle"
  /\ Go(q, [Idle EXCEPT !.pc = "dense", !.before = DeletedRows])
  /\ UNCHANGED vars

DenseSearch(q) ==
  /\ reader[q].pc = "dense"
  /\ Go(q, [reader[q] EXCEPT !.pc = "lexical", !.dense = {r \in Rows : Searchable(r)}])
  /\ UNCHANGED vars

LexicalSearch(q) ==
  /\ reader[q].pc = "lexical"
  /\ Go(q, [reader[q] EXCEPT !.pc = "replying", !.lexical = {r \in Rows : Searchable(r)}])
  /\ UNCHANGED vars

Reply(q) ==
  /\ reader[q].pc \in {"counted", "missing", "failed", "replying"}
  /\ Go(q, Idle)
  /\ UNCHANGED vars

ReaderNext(q) ==
  \/ \E selected \in SUBSET Rows : ListVersions(q, selected)
  \/ \E r \in Rows : ReadFile(q, r) \/ FileMissing(q, r)
  \/ ReadFails(q)
  \/ BeginSearch(q) \/ DenseSearch(q) \/ LexicalSearch(q)
  \/ Reply(q)

ReadersNext ==
  \/ Next /\ UNCHANGED reader
  \/ \E q \in Readers : ReaderNext(q)

ReadersSpec == ReadersInit /\ [][ReadersNext]_<<vars, reader>>

(***************************************************************************)
(* Properties.                                                             *)
(***************************************************************************)
\* A document whose deletion was committed before a request began is neither
\* counted nor found by it, whatever the deletion and the workers have still
\* to do: the two queries test it by different columns.
DeletedStaysUnseen ==
  \A q \in Readers :
    reader[q].before \cap (reader[q].listed \cup reader[q].dense \cup reader[q].lexical) = {}

\* For files that differ, a count fails over a missing file only because that
\* document was deleted after it was listed: counting keeps no session and no
\* lock while it reads.
CountFailsForDeletion ==
  \A q \in Readers :
    reader[q].pc = "missing" => \A r \in reader[q].left : document[r].deleted

\* For messages delivered once, the two statements of a search disagree about
\* a document only when it was deleted or published between them: a
\* document that stays published is never hidden from one of them.
StatementsAgree ==
  \A q \in Readers : reader[q].pc = "replying" =>
    /\ \A r \in reader[q].dense \ reader[q].lexical : document[r].deleted
    /\ \A r \in reader[q].lexical \ reader[q].dense : document[r].deleted \/ Countable(r)
=============================================================================
