-------------------------- MODULE BlobStorePromise --------------------------
(***************************************************************************)
(* What a BlobStore promises its callers, whichever adapter stands behind  *)
(* it: a call takes effect at one moment between its beginning and its     *)
(* answer, a reader never sees part of a file, and a deletion touches no   *)
(* file but its own.                                                       *)
(***************************************************************************)
CONSTANTS
  Callers,    \* threads and tasks that use the store
  Keys,
  Contents,
  NoBlob,     \* no content: the key is not stored
  Uncertain   \* whether a change that is reported as failed may have been made

VARIABLES
  stored,     \* by key: the content
  call        \* by caller: its last call, and the answer when there is one

Ops == {"put", "get", "delete"}

NewCall(op, k, content) ==
  [op |-> op, key |-> k, content |-> content, answer |-> "none", got |-> NoBlob]

NoCall == [NewCall("get", CHOOSE k \in Keys : TRUE, NoBlob) EXCEPT !.answer = "failed"]

Pending(c, op) == call[c].op = op /\ call[c].answer = "none"

Reply(c, answer, got) ==
  call' = [call EXCEPT ![c] = [op |-> call[c].op, key |-> call[c].key,
                               content |-> call[c].content, answer |-> answer, got |-> got]]

\* The change that the call is for.
Change(c) ==
  stored' = [stored EXCEPT ![call[c].key] = call[c].content]

Begin(c) ==
  /\ call[c].answer # "none"
  /\ \E k \in Keys :
       \/ \E content \in Contents : call' = [call EXCEPT ![c] = NewCall("put", k, content)]
       \/ \E op \in {"get", "delete"} : call' = [call EXCEPT ![c] = NewCall(op, k, NoBlob)]
  /\ UNCHANGED stored

PutOrDelete(c) ==
  /\ Pending(c, "put") \/ Pending(c, "delete")
  /\ Change(c)
  /\ Reply(c, "done", NoBlob)

Get(c) ==
  /\ Pending(c, "get")
  /\ LET content == stored[call[c].key]
     IN Reply(c, IF content = NoBlob THEN "missing" ELSE "done", content)
  /\ UNCHANGED stored

Fail(c) ==
  /\ \E op \in Ops : Pending(c, op)
  /\ Reply(c, "failed", NoBlob)
  /\ \/ UNCHANGED stored
     \/ Uncertain /\ ~Pending(c, "get") /\ Change(c)

Init ==
  /\ stored = [k \in Keys |-> NoBlob]
  /\ call = [c \in Callers |-> NoCall]

Next == \E c \in Callers : Begin(c) \/ PutOrDelete(c) \/ Get(c) \/ Fail(c)

Spec == Init /\ [][Next]_<<stored, call>>
=============================================================================
