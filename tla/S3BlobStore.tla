---------------------------- MODULE S3BlobStore ----------------------------
(***************************************************************************)
(* S3BlobStore (blob_store.py 159-250): objects of one bucket.  Every      *)
(* request and task builds its own store, which makes sure of the bucket   *)
(* before its first write; so does the health check.  A step is one        *)
(* request to the object service, which serves each of them at one moment. *)
(* The answer of a request may be lost after that.                         *)
(***************************************************************************)
EXTENDS Naturals

CONSTANTS
  Callers,    \* threads and tasks that use the store
  Keys,
  Contents,
  NoBlob,     \* no object
  MaxFaults   \* bound: requests to the service that raise

VARIABLES
  bucket,    \* the bucket exists
  stored,    \* by key: the object
  call,      \* by caller: what it asked for, and how far the call is
  probe,     \* the health check: "idle" or about to create the bucket
  faults

vars == <<bucket, stored, call, probe, faults>>

PCs == {"idle", "head", "create", "upload", "read", "remove"}

Call ==
  [op : {"put", "get", "delete"}, key : Keys, content : Contents \cup {NoBlob},
   answer : {"none", "done", "missing", "failed"}, got : Contents \cup {NoBlob},
   pc : PCs,
   settled : BOOLEAN]   \* the bucket existed when the call began

NewCall(op, k, content, pc) ==
  [op |-> op, key |-> k, content |-> content, answer |-> "none", got |-> NoBlob,
   pc |-> pc, settled |-> bucket]

NoCall ==
  [op |-> "get", key |-> CHOOSE k \in Keys : TRUE, content |-> NoBlob,
   answer |-> "failed", got |-> NoBlob, pc |-> "idle", settled |-> FALSE]

Init ==
  /\ bucket \in BOOLEAN
  /\ stored = [k \in Keys |-> NoBlob]
  /\ call = [c \in Callers |-> NoCall]
  /\ probe = "idle"
  /\ faults = 0

At(c, pc) == call[c].pc = pc

Become(c, record) == call' = [call EXCEPT ![c] = record]

Goto(c, pc) == Become(c, [call[c] EXCEPT !.pc = pc])

End(c, answer, got) ==
  Become(c, [call[c] EXCEPT !.pc = "idle", !.answer = answer, !.got = got])

Change(c, content) == stored' = [stored EXCEPT ![call[c].key] = content]

(***************************************************************************)
(* _ensure_bucket: head_bucket, and create_bucket for one that is missing. *)
(* Creating a bucket that somebody else has just created succeeds or       *)
(* fails, which depends on the service and its region.                     *)
(***************************************************************************)
\* Mutant of BeginPut: the bucket is created without a look at it.
BeginPutUnseen(c) ==
  /\ At(c, "idle")
  /\ \E k \in Keys, content \in Contents : Become(c, NewCall("put", k, content, "create"))
  /\ UNCHANGED <<bucket, stored, probe, faults>>

BeginPut(c) ==
  /\ At(c, "idle")
  /\ \E k \in Keys, content \in Contents : Become(c, NewCall("put", k, content, "head"))
  /\ UNCHANGED <<bucket, stored, probe, faults>>

HeadBucket(c) ==
  /\ At(c, "head")
  /\ Goto(c, IF bucket THEN "upload" ELSE "create")
  /\ UNCHANGED <<bucket, stored, probe, faults>>

CreateBucket(c) ==
  /\ At(c, "create")
  /\ bucket' = TRUE
  /\ \/ Goto(c, "upload")
     \/ bucket /\ End(c, "failed", NoBlob)
  /\ UNCHANGED <<stored, probe, faults>>

\* _blob_store_is_healthy; it swallows every exception.
ProbeHead ==
  /\ probe = "idle" /\ ~bucket
  /\ probe' = "create"
  /\ UNCHANGED <<bucket, stored, call, faults>>

ProbeCreate ==
  /\ probe = "create"
  /\ probe' = "idle"
  /\ bucket' = TRUE
  /\ UNCHANGED <<stored, call, faults>>

Upload(c) ==
  /\ At(c, "upload")
  /\ Change(c, call[c].content)
  /\ End(c, "done", NoBlob)
  /\ UNCHANGED <<bucket, probe, faults>>

(***************************************************************************)
(* get_bytes and delete do not look for the bucket: a missing one is an    *)
(* error and not a missing object.                                         *)
(***************************************************************************)
BeginGet(c) ==
  /\ At(c, "idle")
  /\ \E k \in Keys : Become(c, NewCall("get", k, NoBlob, "read"))
  /\ UNCHANGED <<bucket, stored, probe, faults>>

GetObject(c) ==
  LET content == stored[call[c].key]
  IN /\ At(c, "read") /\ bucket
     /\ End(c, IF content = NoBlob THEN "missing" ELSE "done", content)
     /\ UNCHANGED <<bucket, stored, probe, faults>>

BeginDelete(c) ==
  /\ At(c, "idle")
  /\ \E k \in Keys : Become(c, NewCall("delete", k, NoBlob, "remove"))
  /\ UNCHANGED <<bucket, stored, probe, faults>>

DeleteObject(c) ==
  /\ At(c, "remove") /\ bucket
  /\ Change(c, NoBlob)
  /\ End(c, "done", NoBlob)
  /\ UNCHANGED <<bucket, probe, faults>>

NoSuchBucket(c) ==
  /\ call[c].pc \in {"read", "remove"} /\ ~bucket
  /\ End(c, "failed", NoBlob)
  /\ UNCHANGED <<bucket, stored, probe, faults>>

(***************************************************************************)
(* Faults: the service refuses a request, or its answer is lost.           *)
(***************************************************************************)
\* Mutant of FailedAnswer: every client error of a read is a missing object.
FailedAnswerMissing(c) == IF call[c].op = "get" THEN "missing" ELSE "failed"

FailedAnswer(c) == "failed"

RequestFails(c) ==
  /\ faults < MaxFaults /\ faults' = faults + 1
  /\ ~At(c, "idle")
  /\ End(c, FailedAnswer(c), NoBlob)
  /\ \/ UNCHANGED <<bucket, stored>>
     \/ At(c, "create") /\ bucket' = TRUE /\ UNCHANGED stored
     \/ At(c, "upload") /\ Change(c, call[c].content) /\ UNCHANGED bucket
     \/ At(c, "remove") /\ bucket /\ Change(c, NoBlob) /\ UNCHANGED bucket
  /\ UNCHANGED probe

Step(c) ==
  \/ BeginPut(c) \/ HeadBucket(c) \/ CreateBucket(c) \/ Upload(c)
  \/ BeginGet(c) \/ GetObject(c) \/ BeginDelete(c) \/ DeleteObject(c)
  \/ NoSuchBucket(c) \/ RequestFails(c)

Next == ProbeHead \/ ProbeCreate \/ \E c \in Callers : Step(c)

Spec == Init /\ [][Next]_vars

(***************************************************************************)
(* Properties.                                                             *)
(***************************************************************************)

\* Without faults a write fails only while the bucket is new: it was not there
\* when the call began, and somebody else created it first.
PutFailsForBucket ==
  \A c \in Callers :
    call[c].op = "put" /\ call[c].answer = "failed" => faults > 0 \/ ~call[c].settled

answers ==
  [c \in Callers |->
     [op |-> call[c].op, key |-> call[c].key, content |-> call[c].content,
      answer |-> call[c].answer, got |-> call[c].got]]

Promise == INSTANCE BlobStorePromise WITH call <- answers, Uncertain <- TRUE

\* The object store implements the promise of a BlobStore as well, except that a
\* change may have been made although it was reported as failed; an object
\* that is stored is never reported as missing.
ImplementsPromise == Promise!Spec
=============================================================================
