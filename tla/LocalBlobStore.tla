--------------------------- MODULE LocalBlobStore ---------------------------
(***************************************************************************)
(* LocalBlobStore (blob_store.py 91-156): files under a root directory,    *)
(* used by several threads and processes with no lock between them.  Every *)
(* request and task builds its own store on the same root.  A step is one  *)
(* call of the file system.                                                *)
(*                                                                         *)
(* The keys of the service are default/default/sha256/ab/abcd...: the file *)
(* of a key lies in a directory that keys share, under others that all     *)
(* share.  The root exists for good: each constructor creates it, and no   *)
(* deletion climbs that far.                                               *)
(***************************************************************************)
EXTENDS Naturals

CONSTANTS
  Callers,    \* threads and tasks that use the store
  Keys,
  Contents,
  NoBlob,     \* no file
  Partial,    \* a file of which only a part is written
  Dirs,       \* the directories below the root
  Depth,      \* how many of them lead to a file
  PathOf,     \* by key: the directories from the root to the file
  MaxFaults   \* bound: I/O errors and calls that are killed

\* A directory lies at one place: the directories above it are the same for
\* every key.
ASSUME StoreAssumption ==
  /\ Keys # {}
  /\ NoBlob \notin Contents
  /\ Depth \in Nat \ {0}
  /\ PathOf \in [Keys -> [1..Depth -> Dirs]]
  /\ \A k, l \in Keys : \A i, j \in 1..Depth :
       PathOf[k][i] = PathOf[l][j] =>
         i = j /\ (i > 1 => PathOf[k][i - 1] = PathOf[l][i - 1])
  /\ MaxFaults \in Nat

VARIABLES
  dirs,      \* the directories that exist
  stored,    \* by key: the content of the file
  litter,    \* the directories that hold a temporary file of a killed call
  call,      \* by caller: what it asked for, and how far the call is
  faults     \* I/O errors and kills so far

vars == <<dirs, stored, litter, call, faults>>

PCs == {"idle", "mkdir", "isdir", "temporary", "writing", "unlink", "rmdir", "reading"}

Call ==
  [op : {"put", "get", "delete"},
   key : Keys,
   content : Contents \cup {NoBlob},
   answer : {"none", "done", "missing", "failed"},  \* set when the effect is certain
   got : Contents \cup {NoBlob},
   pc : PCs,
   level : 1..Depth,       \* the directory it creates or removes next
   parents : BOOLEAN,      \* mkdir may still create directories above
   crossed : BOOLEAN]      \* a deletion removed a directory on its path meanwhile

NewCall(op, k, content, pc) ==
  [op |-> op, key |-> k, content |-> content, answer |-> "none", got |-> NoBlob,
   pc |-> pc, level |-> Depth, parents |-> TRUE, crossed |-> FALSE]

NoCall == [NewCall("get", CHOOSE k \in Keys : TRUE, NoBlob, "idle") EXCEPT !.answer = "failed"]

Init ==
  /\ dirs = {}
  /\ stored = [k \in Keys |-> NoBlob]
  /\ litter = {}
  /\ call = [c \in Callers |-> NoCall]
  /\ faults = 0

At(c, pc) == call[c].pc = pc

Become(c, record) == call' = [call EXCEPT ![c] = record]

Leaf(k) == PathOf[k][Depth]

Here(c) == PathOf[call[c].key][call[c].level]

\* The directory above, which is the root for the topmost ones.
HasParent(c) == call[c].level > 1 => PathOf[call[c].key][call[c].level - 1] \in dirs

\* Nothing is in directory d.
Empty(d) ==
  /\ \A k \in Keys :
       /\ Leaf(k) = d => stored[k] = NoBlob
       /\ \A i \in 1..Depth : i > 1 /\ PathOf[k][i - 1] = d => PathOf[k][i] \notin dirs
  /\ \A c \in Callers : At(c, "writing") => Leaf(call[c].key) # d
  /\ d \notin litter

\* The record of a call that has returned; its locals are forgotten.
Ended(c, answer) ==
  [call[c] EXCEPT !.pc = "idle", !.answer = answer, !.level = Depth, !.parents = TRUE]

End(c, answer) == Become(c, Ended(c, answer))

(***************************************************************************)
(* put_stream.  Path.mkdir(parents=True, exist_ok=True) tries the deepest  *)
(* directory first, climbs while the one above is missing, and creates the *)
(* others on the way back, each with one attempt.                          *)
(***************************************************************************)
BeginPut(c) ==
  /\ At(c, "idle")
  /\ \E k \in Keys, content \in Contents : Become(c, NewCall("put", k, content, "mkdir"))
  /\ UNCHANGED <<dirs, stored, litter, faults>>

\* The directory exists: go on with the one below it.
Descend(c) ==
  IF call[c].level = Depth
    THEN Become(c, [call[c] EXCEPT !.pc = "temporary", !.parents = FALSE])
    ELSE Become(c, [call[c] EXCEPT !.pc = "mkdir", !.level = @ + 1, !.parents = FALSE])

MakeDirectory(c) ==
  /\ At(c, "mkdir") /\ HasParent(c) /\ Here(c) \notin dirs
  /\ dirs' = dirs \cup {Here(c)}
  /\ Descend(c)
  /\ UNCHANGED <<stored, litter, faults>>

\* FileNotFoundError: the directory above is missing.
MakeParent(c) ==
  /\ At(c, "mkdir") /\ ~HasParent(c) /\ call[c].parents
  /\ Become(c, [call[c] EXCEPT !.level = @ - 1])
  /\ UNCHANGED <<dirs, stored, litter, faults>>

ParentLost(c) ==
  /\ At(c, "mkdir") /\ ~HasParent(c) /\ ~call[c].parents
  /\ End(c, "failed")
  /\ UNCHANGED <<dirs, stored, litter, faults>>

\* Mutant of DirectoryExists: exist_ok is not passed.
DirectoryRefused(c) ==
  /\ At(c, "mkdir") /\ HasParent(c) /\ Here(c) \in dirs
  /\ End(c, "failed")
  /\ UNCHANGED <<dirs, stored, litter, faults>>

\* FileExistsError: mkdir looks whether it is a directory that exists.
DirectoryExists(c) ==
  /\ At(c, "mkdir") /\ HasParent(c) /\ Here(c) \in dirs
  /\ Become(c, [call[c] EXCEPT !.pc = "isdir"])
  /\ UNCHANGED <<dirs, stored, litter, faults>>

IsDirectory(c) ==
  /\ At(c, "isdir") /\ Here(c) \in dirs
  /\ Descend(c)
  /\ UNCHANGED <<dirs, stored, litter, faults>>

DirectoryLost(c) ==
  /\ At(c, "isdir") /\ Here(c) \notin dirs
  /\ End(c, "failed")
  /\ UNCHANGED <<dirs, stored, litter, faults>>

\* Mutant of CreateTemporary: the file is written in its place.
CreateInPlace(c) ==
  /\ At(c, "temporary") /\ Here(c) \in dirs
  /\ Become(c, [call[c] EXCEPT !.pc = "writing"])
  /\ stored' = [stored EXCEPT ![call[c].key] = Partial]
  /\ UNCHANGED <<dirs, litter, faults>>

\* The temporary file keeps its directory from being removed.
CreateTemporary(c) ==
  /\ At(c, "temporary") /\ Here(c) \in dirs
  /\ Become(c, [call[c] EXCEPT !.pc = "writing"])
  /\ UNCHANGED <<dirs, stored, litter, faults>>

TemporaryFails(c) ==
  /\ At(c, "temporary") /\ Here(c) \notin dirs
  /\ End(c, "failed")
  /\ UNCHANGED <<dirs, stored, litter, faults>>

\* The content is complete and on the disk: os.replace.
Replace(c) ==
  /\ At(c, "writing")
  /\ stored' = [stored EXCEPT ![call[c].key] = call[c].content]
  /\ End(c, "done")
  /\ UNCHANGED <<dirs, litter, faults>>

(***************************************************************************)
(* delete: unlink, then rmdir upwards until a directory is not empty.  The *)
(* deletion has taken effect with the unlink.                              *)
(***************************************************************************)
BeginDelete(c) ==
  /\ At(c, "idle")
  /\ \E k \in Keys : Become(c, NewCall("delete", k, NoBlob, "unlink"))
  /\ UNCHANGED <<dirs, stored, litter, faults>>

Unlink(c) ==
  /\ At(c, "unlink")
  /\ stored' = [stored EXCEPT ![call[c].key] = NoBlob]
  /\ Become(c, [call[c] EXCEPT !.pc = "rmdir", !.answer = "done"])
  /\ UNCHANGED <<dirs, litter, faults>>

\* Directory d lies on the path of a write in progress.
Crosses(b, d) ==
  /\ call[b].op = "put" /\ call[b].answer = "none"
  /\ \E i \in 1..Depth : PathOf[call[b].key][i] = d

\* The calls after d is gone; `next` is the record of the caller.
Crossing(c, next, d) ==
  call' = [b \in Callers |->
             IF b = c THEN next
             ELSE IF Crosses(b, d) THEN [call[b] EXCEPT !.crossed = TRUE]
             ELSE call[b]]

\* The record after a directory was removed: the next one is the one above,
\* unless that is the root.
Climbed(c) ==
  IF call[c].level = 1 THEN Ended(c, "done") ELSE [call[c] EXCEPT !.level = @ - 1]

\* Mutants of RemoveDirectory: the directory is removed with what it contains,
\* and only the innermost directory is removed.
RemoveTree(c) ==
  /\ At(c, "rmdir") /\ Here(c) \in dirs
  /\ dirs' = dirs \ {Here(c)}
  /\ stored' = [k \in Keys |-> IF Leaf(k) = Here(c) THEN NoBlob ELSE stored[k]]
  /\ Crossing(c, Climbed(c), Here(c))
  /\ UNCHANGED <<litter, faults>>

RemoveInnermost(c) ==
  /\ At(c, "rmdir") /\ Here(c) \in dirs /\ Empty(Here(c))
  /\ dirs' = dirs \ {Here(c)}
  /\ Crossing(c, Ended(c, "done"), Here(c))
  /\ UNCHANGED <<stored, litter, faults>>

RemoveDirectory(c) ==
  /\ At(c, "rmdir") /\ Here(c) \in dirs /\ Empty(Here(c))
  /\ dirs' = dirs \ {Here(c)}
  /\ Crossing(c, Climbed(c), Here(c))
  /\ UNCHANGED <<stored, litter, faults>>

\* OSError: something is in the directory, or it is gone already.
StopClimbing(c) ==
  /\ At(c, "rmdir") /\ ~(Here(c) \in dirs /\ Empty(Here(c)))
  /\ End(c, "done")
  /\ UNCHANGED <<dirs, stored, litter, faults>>

(***************************************************************************)
(* get_bytes: opening the file decides what is read, since an open file    *)
(* outlives its name.                                                      *)
(***************************************************************************)
BeginGet(c) ==
  /\ At(c, "idle")
  /\ \E k \in Keys : Become(c, NewCall("get", k, NoBlob, "reading"))
  /\ UNCHANGED <<dirs, stored, litter, faults>>

Read(c) ==
  LET content == stored[call[c].key]
  IN /\ At(c, "reading")
     /\ Become(c, [Ended(c, IF content = NoBlob THEN "missing" ELSE "done") EXCEPT !.got = content])
     /\ UNCHANGED <<dirs, stored, litter, faults>>

(***************************************************************************)
(* Faults.                                                                 *)
(***************************************************************************)
Fault == faults < MaxFaults /\ faults' = faults + 1

\* Creating, writing, replacing, unlinking or reading raises, and the handler
\* of put_stream removes the temporary file.
IOError(c) ==
  /\ Fault
  /\ call[c].pc \in {"mkdir", "temporary", "writing", "unlink", "reading"}
  /\ End(c, "failed")
  /\ UNCHANGED <<dirs, stored, litter>>

\* The process is killed: no handler runs.
Killed(c) ==
  /\ Fault
  /\ ~At(c, "idle")
  /\ End(c, IF call[c].answer = "none" THEN "failed" ELSE call[c].answer)
  /\ litter' = IF At(c, "writing") THEN litter \cup {Leaf(call[c].key)} ELSE litter
  /\ UNCHANGED <<dirs, stored>>

PutStep(c) ==
  \/ BeginPut(c) \/ MakeDirectory(c) \/ MakeParent(c) \/ ParentLost(c)
  \/ DirectoryExists(c) \/ IsDirectory(c) \/ DirectoryLost(c)
  \/ CreateTemporary(c) \/ TemporaryFails(c) \/ Replace(c)

DeleteStep(c) ==
  BeginDelete(c) \/ Unlink(c) \/ RemoveDirectory(c) \/ StopClimbing(c)

Next ==
  \E c \in Callers :
    \/ PutStep(c) \/ DeleteStep(c)
    \/ BeginGet(c) \/ Read(c)
    \/ IOError(c) \/ Killed(c)

Spec == Init /\ [][Next]_vars

(***************************************************************************)
(* Properties.                                                             *)
(***************************************************************************)

\* Every variable keeps its type; in particular a file is never there in part.
TypeOK ==
  /\ dirs \subseteq Dirs
  /\ stored \in [Keys -> Contents \cup {NoBlob}]
  /\ litter \subseteq Dirs
  /\ call \in [Callers -> Call]
  /\ faults \in 0..MaxFaults

\* A file, a temporary file and a directory lie in directories that exist: no
\* deletion removes a directory under a concurrent write.
TreeIntact ==
  \A k \in Keys :
    /\ \/ stored[k] # NoBlob
       \/ \E c \in Callers : At(c, "writing") /\ call[c].key = k
       => Leaf(k) \in dirs
    /\ \A i \in 1..Depth : i > 1 /\ PathOf[k][i] \in dirs => PathOf[k][i - 1] \in dirs

\* Without faults a write fails only because a deletion removed a directory on
\* its path while it ran: two writes never disturb one another.
PutFailsForReason ==
  \A c \in Callers :
    call[c].op = "put" /\ call[c].answer = "failed" => faults > 0 \/ call[c].crossed

\* "Remove empty key directories": when no call is in progress and none was
\* disturbed, no empty directory is left, however writes, failed writes and
\* deletions of keys with common directories interleaved.
NoEmptyDirectoryLeft ==
  faults = 0 /\ (\A c \in Callers : At(c, "idle")) => \A d \in dirs : ~Empty(d)

answers ==
  [c \in Callers |->
     [op |-> call[c].op, key |-> call[c].key, content |-> call[c].content,
      answer |-> call[c].answer, got |-> call[c].got]]

Promise == INSTANCE BlobStorePromise WITH call <- answers, Uncertain <- FALSE

\* The directory tree implements the promise of a BlobStore: each call takes
\* effect at one moment, or fails without any.
ImplementsPromise == Promise!Spec
=============================================================================
