---------------------------- MODULE DeletionApi ----------------------------
(***************************************************************************)
(* DELETE /api/documents/{id} (api/app.py): hide the document, remove its  *)
(* blob, then remove its chunks and close the tombstone, in two sessions   *)
(* with the blob deletion between them.                                    *)
(*                                                                         *)
(* The document is loaded with include_deleted, so a request may name a    *)
(* document that another request is deleting or has deleted: that is how a *)
(* deletion that answered 503 is completed.  A slot of `Deletions` serves  *)
(* one request after another.                                              *)
(***************************************************************************)
EXTENDS Catalog

CONSTANT
  Deletions    \* deletion requests that may be in progress at once

VARIABLE deletion   \* by slot: control point, row, identity map

DeletionPC ==
  {"idle",       \* no request
   "marking",    \* document loaded; about to commit mark_deleting
   "blobs",      \* document hidden; about to delete its blob
   "purge",      \* blob deleted; about to begin the last session
   "purging"}    \* document loaded; about to commit mark_deleted

DeletionState ==
  [pc : DeletionPC, row : Rows \cup {NoRow}, seen : RowView]

IdleDeletion == [pc |-> "idle", row |-> NoRow, seen |-> NoView]

DeletionInit == deletion = [x \in Deletions |-> IdleDeletion]

\* Requests that are in progress, and the row each one is about.
Deleting(x) == deletion[x].pc # "idle"

ForgetAt(x, pc) ==
  deletion' = [deletion EXCEPT ![x] = [@ EXCEPT !.pc = pc, !.seen = NoView]]

EndDeletion(x) == deletion' = [deletion EXCEPT ![x] = IdleDeletion]

(***************************************************************************)
(* The steps of the handler.                                               *)
(***************************************************************************)
\* Mutant of LoadDeletion: the blob is removed before the document is hidden.
LoadAndDeleteBlob(x, r) ==
  /\ deletion[x].pc = "idle"
  /\ r \in registered
  /\ deletion' = [deletion EXCEPT ![x] = [pc |-> "blobs", row |-> r, seen |-> NoView]]
  /\ NoFault /\ UNCHANGED <<catalogVars, blobs, queue>>

LoadDeletion(x, r) ==
  /\ deletion[x].pc = "idle"
  /\ r \in registered
  /\ deletion' = [deletion EXCEPT ![x] = [pc |-> "marking", row |-> r, seen |-> View(r)]]
  /\ NoFault /\ UNCHANGED <<catalogVars, blobs, queue>>

CommitMarkDeleting(x) ==
  /\ deletion[x].pc = "marking"
  /\ MarkDeleting(deletion[x].row, deletion[x].seen)
  /\ ForgetAt(x, "blobs")
  /\ NoFault /\ UNCHANGED <<blobs, queue>>

\* Mutant of DeleteBlob: the request answers before its last session.
DeleteBlobAndAnswer(x) ==
  /\ deletion[x].pc = "blobs"
  /\ RemoveBlob(ContentOf[deletion[x].row])
  /\ EndDeletion(x)
  /\ UNCHANGED <<catalogVars, queue>>

DeleteBlob(x) ==
  /\ deletion[x].pc = "blobs"
  /\ RemoveBlob(ContentOf[deletion[x].row])
  /\ ForgetAt(x, "purge")
  /\ UNCHANGED <<catalogVars, queue>>

\* 503: the document stays DELETING with its blob and its chunks.
DeleteBlobFails(x) ==
  /\ deletion[x].pc = "blobs"
  /\ FaultLeaving("blob", ContentOf[deletion[x].row])
  /\ EndDeletion(x)
  /\ UNCHANGED <<catalogVars, blobs, queue>>

LoadPurge(x) ==
  /\ deletion[x].pc = "purge"
  /\ deletion' = [deletion EXCEPT ![x] =
                    [@ EXCEPT !.pc = "purging", !.seen = View(deletion[x].row)]]
  /\ NoFault /\ UNCHANGED <<catalogVars, blobs, queue>>

CommitPurge(x) ==
  /\ deletion[x].pc = "purging"
  /\ MarkDeleted(deletion[x].row, deletion[x].seen)
  /\ EndDeletion(x)
  /\ NoFault /\ UNCHANGED <<blobs, queue>>

\* A commit raises and is rolled back, or the API process stops.
DeletionAborted(x) ==
  /\ Deleting(x)
  /\ \/ deletion[x].pc \in {"marking", "purging"} /\ Fault("database")
     \/ deletion[x].pc # "blobs" /\ Fault("api_crash")
     \/ deletion[x].pc = "blobs" /\ FaultLeaving("api_crash", ContentOf[deletion[x].row])
  /\ EndDeletion(x)
  /\ UNCHANGED <<catalogVars, blobs, queue>>

\* The steps the handler takes by itself once a request is in progress.
DeletionStep(x) ==
  \/ CommitMarkDeleting(x) \/ DeleteBlob(x) \/ LoadPurge(x) \/ CommitPurge(x)

DeletionNext(x) ==
  \/ \E r \in Rows : LoadDeletion(x, r)
  \/ DeletionStep(x)
  \/ DeleteBlobFails(x) \/ DeletionAborted(x)

\* A request is about a document it has loaded.
DeletionTypeOK ==
  /\ deletion \in [Deletions -> DeletionState]
  /\ \A x \in Deletions : Deleting(x) => deletion[x].row \in registered
=============================================================================
