-------------------------- MODULE BlobStoresProofs --------------------------
(***************************************************************************)
(* Proofs about the blob stores, for any callers, keys, contents,          *)
(* directory trees and numbers of faults.  First what the directory tree   *)
(* of LocalBlobStore keeps to; then the bucket of S3BlobStore, and that a  *)
(* deployment with either keeps what the stores promise.                   *)
(***************************************************************************)
EXTENDS BlobStores, TLAPS

(***************************************************************************)
(* The inductive invariant.                                                *)
(***************************************************************************)
Writing == {"mkdir", "isdir", "temporary", "writing"}

\* What the control point of a call says about the rest of its record.
Shape(r) ==
  /\ r.pc \in Writing => r.op = "put" /\ r.answer = "none" /\ r.content \in Contents
  /\ r.pc \in {"temporary", "writing", "unlink"} => r.level = Depth
  /\ r.pc = "unlink" => r.op = "delete" /\ r.answer = "none"
  /\ r.pc = "rmdir" => r.op = "delete" /\ r.answer = "done"
  /\ r.pc = "reading" => r.op = "get" /\ r.answer = "none"
  /\ r.pc = "idle" => r.answer # "none"
  /\ r.op # "put" => r.content = NoBlob
  /\ r.answer # "done" => r.got = NoBlob
  /\ r.op # "get" => r.got = NoBlob

Shapes == \A c \in Callers : Shape(call[c])

\* A write whose path no deletion has crossed finds the directory it relies on.
Relies(c) ==
  call[c].op = "put" /\ call[c].answer = "none" /\ ~call[c].crossed =>
    /\ At(c, "mkdir") /\ ~call[c].parents => HasParent(c)
    /\ At(c, "isdir") \/ At(c, "temporary") => Here(c) \in dirs

Reliance == \A c \in Callers : Relies(c)

\* The directory that a call is about to fill or to remove.
Minds(c, d) ==
  \/ At(c, "mkdir") /\ call[c].level > 1 /\ PathOf[call[c].key][call[c].level - 1] = d
  \/ (At(c, "isdir") \/ At(c, "temporary") \/ At(c, "rmdir")) /\ Here(c) = d

\* An empty directory is minded by some call.
EmptyIsMinded ==
  faults = 0 => \A d \in dirs : Empty(d) => \E c \in Callers : Minds(c, d)

IInv ==
  /\ TypeOK /\ Shapes /\ TreeIntact /\ Reliance /\ PutFailsForReason /\ EmptyIsMinded

(***************************************************************************)
(* Records.                                                                *)
(***************************************************************************)

\* Caller c goes to pc, and the rest of its request stays; nobody else moves.
Turned(c, pc, level, parents, answer) ==
  /\ call' \in [Callers -> Call]
  /\ \A b \in Callers : b # c => call'[b] = call[b]
  /\ call'[c].op = call[c].op /\ call'[c].key = call[c].key
  /\ call'[c].content = call[c].content /\ call'[c].got = call[c].got
  /\ call'[c].crossed = call[c].crossed
  /\ call'[c].pc = pc /\ call'[c].level = level
  /\ call'[c].parents = parents /\ call'[c].answer = answer

LEMMA CallTypes ==
  ASSUME StoreAssumption, TypeOK, NEW c \in Callers
  PROVE  /\ call[c] \in Call
         /\ call[c].key \in Keys /\ call[c].level \in 1..Depth /\ call[c].pc \in PCs
         /\ call[c].answer \in {"none", "done", "missing", "failed"}
         /\ call[c].op \in {"put", "get", "delete"}
         /\ call[c].parents \in BOOLEAN /\ call[c].crossed \in BOOLEAN
<1>1. call[c] \in Call
  BY DEF TypeOK
<1> QED BY <1>1 DEF Call

LEMMA PathTypes ==
  ASSUME StoreAssumption, TypeOK, NEW c \in Callers
  PROVE  Here(c) \in Dirs /\ Leaf(call[c].key) \in Dirs
<1>1. Depth \in 1..Depth
  BY DEF StoreAssumption
<1>2. \A k \in Keys, i \in 1..Depth : PathOf[k][i] \in Dirs
  BY DEF StoreAssumption
<1> QED BY <1>1, <1>2, CallTypes DEF Here, Leaf

LEMMA Replaced ==
  ASSUME TypeOK, NEW c \in Callers, NEW r \in Call, Become(c, r)
  PROVE  /\ call' \in [Callers -> Call]
         /\ call'[c] = r
         /\ \A b \in Callers : b # c => call'[b] = call[b]
BY DEF TypeOK, Become

LEMMA NewRecord ==
  ASSUME StoreAssumption, NEW op \in {"put", "get", "delete"}, NEW k \in Keys,
         NEW content \in Contents \cup {NoBlob}, NEW pc \in PCs
  PROVE  /\ NewCall(op, k, content, pc) \in Call
         /\ NewCall(op, k, content, pc).op = op
         /\ NewCall(op, k, content, pc).key = k
         /\ NewCall(op, k, content, pc).content = content
         /\ NewCall(op, k, content, pc).answer = "none"
         /\ NewCall(op, k, content, pc).got = NoBlob
         /\ NewCall(op, k, content, pc).pc = pc
         /\ NewCall(op, k, content, pc).level = Depth
BY DEF NewCall, Call, StoreAssumption

LEMMA MoveTurns ==
  ASSUME StoreAssumption, TypeOK, NEW c \in Callers, NEW pc \in PCs,
         Become(c, [call[c] EXCEPT !.pc = pc])
  PROVE  Turned(c, pc, call[c].level, call[c].parents, call[c].answer)
<1> DEFINE q == call[c]
           r == [q EXCEPT !.pc = pc]
<1>1. q \in Call
  BY CallTypes
<1>2. Become(c, r)
  OBVIOUS
<1> HIDE DEF q
<1>3. r \in Call
  BY <1>1 DEF Call
<1>4. /\ r.op = q.op /\ r.key = q.key /\ r.content = q.content /\ r.answer = q.answer
      /\ r.got = q.got /\ r.crossed = q.crossed
      /\ r.pc = pc /\ r.level = q.level /\ r.parents = q.parents
  BY <1>1 DEF Call
<1> HIDE DEF r
<1> QED BY <1>2, <1>3, <1>4, Replaced DEF Turned, q

LEMMA ClimbTurns ==
  ASSUME StoreAssumption, TypeOK, NEW c \in Callers, call[c].level # 1,
         Become(c, [call[c] EXCEPT !.level = @ - 1])
  PROVE  Turned(c, call[c].pc, call[c].level - 1, call[c].parents, call[c].answer)
<1> DEFINE q == call[c]
           up == q.level - 1
           r == [q EXCEPT !.level = up]
<1>1. q \in Call /\ up \in 1..Depth
  BY CallTypes DEF StoreAssumption
<1>2. Become(c, r)
  OBVIOUS
<1> HIDE DEF q, up
<1>3. r \in Call
  BY <1>1 DEF Call
<1>4. /\ r.op = q.op /\ r.key = q.key /\ r.content = q.content /\ r.answer = q.answer
      /\ r.got = q.got /\ r.crossed = q.crossed
      /\ r.pc = q.pc /\ r.level = up /\ r.parents = q.parents
  BY <1>1 DEF Call
<1> HIDE DEF r
<1> QED BY <1>2, <1>3, <1>4, Replaced DEF Turned, q, up

LEMMA DescendTurns ==
  ASSUME StoreAssumption, TypeOK, NEW c \in Callers, Descend(c)
  PROVE  IF call[c].level = Depth
           THEN Turned(c, "temporary", Depth, FALSE, call[c].answer)
           ELSE Turned(c, "mkdir", call[c].level + 1, FALSE, call[c].answer)
<1> DEFINE q == call[c]
           down == IF q.level = Depth THEN Depth ELSE q.level + 1
           pc == IF q.level = Depth THEN "temporary" ELSE "mkdir"
           r == IF q.level = Depth
                  THEN [q EXCEPT !.pc = "temporary", !.parents = FALSE]
                  ELSE [q EXCEPT !.pc = "mkdir", !.level = down, !.parents = FALSE]
<1>1. q \in Call /\ down \in 1..Depth /\ pc \in PCs
  BY CallTypes DEF StoreAssumption, PCs
<1>2. Become(c, r)
  BY DEF Descend
<1>3. q.level = Depth => down = Depth
  OBVIOUS
<1>4. pc = IF q.level = Depth THEN "temporary" ELSE "mkdir"
  OBVIOUS
<1> HIDE DEF q, down, pc
<1>5. r \in Call
  BY <1>1, <1>4 DEF Call, PCs
<1>6. /\ r.op = q.op /\ r.key = q.key /\ r.content = q.content /\ r.answer = q.answer
      /\ r.got = q.got /\ r.crossed = q.crossed /\ r.parents = FALSE
      /\ r.pc = pc /\ r.level = down
  BY <1>1, <1>3, <1>4 DEF Call
<1> HIDE DEF r
<1> QED BY <1>2, <1>5, <1>6, Replaced DEF Turned, q, down, pc

LEMMA EndedRecord ==
  ASSUME StoreAssumption, TypeOK, NEW c \in Callers, NEW answer \in {"done", "missing", "failed"}
  PROVE  /\ Ended(c, answer) \in Call
         /\ Ended(c, answer).op = call[c].op /\ Ended(c, answer).key = call[c].key
         /\ Ended(c, answer).content = call[c].content /\ Ended(c, answer).got = call[c].got
         /\ Ended(c, answer).crossed = call[c].crossed
         /\ Ended(c, answer).pc = "idle" /\ Ended(c, answer).level = Depth
         /\ Ended(c, answer).parents = TRUE /\ Ended(c, answer).answer = answer
<1> DEFINE q == call[c]
           r == [q EXCEPT !.pc = "idle", !.answer = answer, !.level = Depth, !.parents = TRUE]
<1>1. q \in Call /\ Depth \in 1..Depth
  BY CallTypes DEF StoreAssumption
<1>2. Ended(c, answer) = r
  BY DEF Ended
<1> HIDE DEF q
<1>3. r \in Call
  BY <1>1 DEF Call, PCs
<1>4. /\ r.op = q.op /\ r.key = q.key /\ r.content = q.content
      /\ r.got = q.got /\ r.crossed = q.crossed
      /\ r.pc = "idle" /\ r.level = Depth /\ r.parents = TRUE /\ r.answer = answer
  BY <1>1 DEF Call
<1> HIDE DEF r
<1> QED BY <1>2, <1>3, <1>4 DEF q

LEMMA EndTurns ==
  ASSUME StoreAssumption, TypeOK, NEW c \in Callers,
         NEW answer \in {"done", "missing", "failed"}, End(c, answer)
  PROVE  Turned(c, "idle", Depth, TRUE, answer)
<1> DEFINE r == Ended(c, answer)
<1>1. Become(c, r)
  BY DEF End
<1>2. /\ r \in Call
      /\ r.op = call[c].op /\ r.key = call[c].key
      /\ r.content = call[c].content /\ r.got = call[c].got
      /\ r.crossed = call[c].crossed
      /\ r.pc = "idle" /\ r.level = Depth
      /\ r.parents = TRUE /\ r.answer = answer
  BY EndedRecord
<1> HIDE DEF r
<1> QED BY <1>1, <1>2, Replaced DEF Turned

LEMMA UnlinkTurns ==
  ASSUME StoreAssumption, TypeOK, NEW c \in Callers, Unlink(c)
  PROVE  Turned(c, "rmdir", call[c].level, call[c].parents, "done")
<1> DEFINE q == call[c]
           r == [q EXCEPT !.pc = "rmdir", !.answer = "done"]
<1>1. q \in Call
  BY CallTypes
<1>2. Become(c, r)
  BY DEF Unlink
<1> HIDE DEF q
<1>3. r \in Call
  BY <1>1 DEF Call, PCs
<1>4. /\ r.op = q.op /\ r.key = q.key /\ r.content = q.content /\ r.answer = "done"
      /\ r.got = q.got /\ r.crossed = q.crossed
      /\ r.pc = "rmdir" /\ r.level = q.level /\ r.parents = q.parents
  BY <1>1 DEF Call
<1> HIDE DEF r
<1> QED BY <1>2, <1>3, <1>4, Replaced DEF Turned, q

(***************************************************************************)
(* What a step of one caller leaves as it is.                              *)
(***************************************************************************)
Others(c) == \A b \in Callers : b # c => call'[b] = call[b]

LEMMA TreeStays ==
  ASSUME StoreAssumption, TreeIntact, NEW c \in Callers, Others(c), UNCHANGED <<dirs, stored>>,
         At(c, "writing")' => Leaf(call'[c].key) \in dirs
  PROVE  TreeIntact'
<1> SUFFICES ASSUME NEW k \in Keys
    PROVE  /\ \/ stored[k] # NoBlob
              \/ \E b \in Callers : At(b, "writing")' /\ call'[b].key = k
              => Leaf(k) \in dirs
           /\ \A i \in 1..Depth : i > 1 /\ PathOf[k][i] \in dirs => PathOf[k][i - 1] \in dirs
  BY DEF TreeIntact, Leaf
<1>1. ASSUME NEW b \in Callers, At(b, "writing")', call'[b].key = k
      PROVE  Leaf(k) \in dirs
  <2>1. CASE b = c
    BY <1>1, <2>1
  <2>2. CASE b # c
    <3>1. At(b, "writing") /\ call[b].key = k
      BY <1>1, <2>2 DEF Others, At
    <3> QED BY <3>1 DEF TreeIntact
  <2> QED BY <2>1, <2>2
<1> QED BY <1>1 DEF TreeIntact

LEMMA RelianceStays ==
  ASSUME StoreAssumption, TypeOK, Reliance, NEW c \in Callers, Others(c), dirs \subseteq dirs', Relies(c)'
  PROVE  Reliance'
<1> SUFFICES ASSUME NEW b \in Callers, b # c PROVE Relies(b)'
  BY DEF Reliance
<1>1. call'[b] = call[b]
  BY DEF Others
<1>2. Relies(b)
  BY DEF Reliance
<1> QED BY <1>1, <1>2 DEF Relies, At, HasParent, Here

LEMMA FailureStays ==
  ASSUME PutFailsForReason, NEW c \in Callers, Others(c), faults > 0 => faults' > 0,
         call'[c].op = "put" /\ call'[c].answer = "failed" => faults' > 0 \/ call'[c].crossed
  PROVE  PutFailsForReason'
BY DEF PutFailsForReason, Others

LEMMA ShapesStay ==
  ASSUME Shapes, NEW c \in Callers, Others(c), Shape(call'[c])
  PROVE  Shapes'
BY DEF Shapes, Others

\* A step that fills and empties no directory.
LEMMA MindedStays ==
  ASSUME EmptyIsMinded, NEW c \in Callers, Others(c), UNCHANGED <<dirs, stored, litter, faults>>,
         ~At(c, "writing"), ~At(c, "writing")',
         \A d \in dirs : Empty(d) /\ Minds(c, d) => Minds(c, d)'
  PROVE  EmptyIsMinded'
<1> SUFFICES ASSUME faults = 0, NEW d \in dirs, Empty(d)'
             PROVE  \E b \in Callers : Minds(b, d)'
  BY DEF EmptyIsMinded
<1>1. \A b \in Callers : At(b, "writing") => At(b, "writing")' /\ call'[b] = call[b]
  BY DEF Others, At
<1>2. Empty(d)
  BY <1>1 DEF Empty, Leaf
<1>3. PICK b \in Callers : Minds(b, d)
  BY <1>2 DEF EmptyIsMinded
<1>4. b # c => Minds(b, d)'
  BY <1>3 DEF Others, Minds, At, Here
<1> QED BY <1>2, <1>3, <1>4

(***************************************************************************)
(* The steps of a write.                                                   *)
(***************************************************************************)

\* Beginning a call: it holds nothing yet.
LEMMA BeginPreserves ==
  ASSUME StoreAssumption, IInv, NEW c \in Callers, At(c, "idle"),
         NEW op \in {"put", "get", "delete"}, NEW k \in Keys, NEW content \in Contents \cup {NoBlob},
         NEW pc \in PCs, Become(c, NewCall(op, k, content, pc)),
         \/ op = "put" /\ pc = "mkdir" /\ content \in Contents
         \/ op = "delete" /\ pc = "unlink" /\ content = NoBlob
         \/ op = "get" /\ pc = "reading" /\ content = NoBlob,
         NewCall(op, k, content, pc).parents = TRUE,
         UNCHANGED <<dirs, stored, litter, faults>>
  PROVE  IInv'
<1> USE DEF IInv
<1> DEFINE r == NewCall(op, k, content, pc)
<1>1. /\ call' \in [Callers -> Call] /\ call'[c] = r /\ Others(c)
  BY NewRecord, Replaced DEF Others
<1>2. /\ r.op = op /\ r.content = content /\ r.answer = "none" /\ r.got = NoBlob
      /\ r.pc = pc /\ r.level = Depth /\ r.parents = TRUE
  BY NewRecord
<1> HIDE DEF r
<1>3. TypeOK'
  BY <1>1 DEF TypeOK
<1>4. Shapes'
  <2>1. Shape(r)
    BY <1>2 DEF Shape, Writing
  <2> QED BY <1>1, <2>1, ShapesStay
<1>5. TreeIntact'
  BY <1>1, <1>2, TreeStays DEF At
<1>6. Reliance'
  <2>1. Relies(c)'
    BY <1>1, <1>2 DEF Relies, At
  <2> QED BY <1>1, <2>1, RelianceStays
<1>7. PutFailsForReason'
  BY <1>1, <1>2, FailureStays
<1>8. EmptyIsMinded'
  BY <1>1, <1>2, MindedStays DEF Minds, At
<1> QED BY <1>3, <1>4, <1>5, <1>6, <1>7, <1>8

\* A call that ends where it holds and minds nothing, and why it may fail.
LEMMA EndPreserves ==
  ASSUME StoreAssumption, IInv, NEW c \in Callers, NEW answer \in {"done", "failed"}, End(c, answer),
         UNCHANGED <<dirs, stored, litter, faults>>, ~At(c, "writing"),
         \A d \in dirs : Empty(d) => ~Minds(c, d),
         call[c].answer # "done" => answer # "done" /\ call[c].op = "put" /\ call[c].crossed,
         call[c].answer = "done" => answer = "done" /\ call[c].op # "put"
  PROVE  IInv'
<1> USE DEF IInv
<1>1. Turned(c, "idle", Depth, TRUE, answer) /\ Others(c)
  <2>1. \A a \in {"done", "missing", "failed"} : End(c, a) => Turned(c, "idle", Depth, TRUE, a)
    <3> HIDE DEF IInv
    <3>1. TypeOK
      BY DEF IInv
    <3> QED BY <3>1, EndTurns
  <2>2. Turned(c, "idle", Depth, TRUE, answer)
    BY <2>1
  <2> QED BY <2>2 DEF Turned, Others
<1>2. TypeOK'
  BY <1>1 DEF TypeOK, Turned
<1>3. Shapes'
  <2>1. Shape(call'[c])
    BY <1>1 DEF Turned, Shape, Shapes, Writing
  <2> QED BY <1>1, <2>1, ShapesStay
<1>4. TreeIntact'
  BY <1>1, TreeStays DEF At, Turned
<1>5. Reliance'
  <2>1. Relies(c)'
    BY <1>1 DEF Relies, Turned
  <2> QED BY <1>1, <2>1, RelianceStays
<1>6. PutFailsForReason'
  BY <1>1, FailureStays DEF Turned
<1>7. EmptyIsMinded'
  BY <1>1, MindedStays DEF Minds, At, Turned
<1> QED BY <1>2, <1>3, <1>4, <1>5, <1>6, <1>7

\* What is known of a write at one of its steps.
LEMMA PutFacts ==
  ASSUME StoreAssumption, IInv, NEW c \in Callers, call[c].pc \in Writing
  PROVE  /\ call[c].op = "put" /\ call[c].answer = "none" /\ call[c].content \in Contents
         /\ call[c].got = NoBlob
         /\ call[c].pc \in {"temporary", "writing"} => call[c].level = Depth
BY DEF IInv, Shapes, Shape, Writing

\* The directory above the one of a call is its parent and may not be empty.
LEMMA ParentNotEmpty ==
  ASSUME StoreAssumption, TypeOK, NEW c \in Callers, Here(c) \in dirs, call[c].level > 1
  PROVE  ~Empty(PathOf[call[c].key][call[c].level - 1])
<1>1. call[c].key \in Keys /\ call[c].level \in 1..Depth
  BY CallTypes
<1> QED BY <1>1 DEF Empty, Here

LEMMA BeginPutPreserves ==
  ASSUME StoreAssumption, IInv, NEW c \in Callers, BeginPut(c) PROVE IInv'
<1>1. PICK k \in Keys, content \in Contents : Become(c, NewCall("put", k, content, "mkdir"))
  BY DEF BeginPut
<1>2. NewCall("put", k, content, "mkdir").parents = TRUE
  BY DEF NewCall
<1>3. "mkdir" \in PCs
  BY DEF PCs
<1> QED BY <1>1, <1>2, <1>3, BeginPreserves DEF BeginPut

LEMMA PutLosesPreserves ==
  ASSUME StoreAssumption, IInv, NEW c \in Callers,
         ParentLost(c) \/ DirectoryLost(c) \/ TemporaryFails(c)
  PROVE  IInv'
<1>1. call[c].pc \in Writing \ {"writing"} /\ End(c, "failed") /\ UNCHANGED <<dirs, stored, litter, faults>>
  BY DEF ParentLost, DirectoryLost, TemporaryFails, At, Writing
<1>2. call[c].op = "put" /\ call[c].answer = "none"
  BY <1>1, PutFacts
<1>3. call[c].crossed
  <2>1. Relies(c)
    BY DEF IInv, Reliance
  <2> QED BY <1>2, <2>1 DEF Relies, ParentLost, DirectoryLost, TemporaryFails
<1>4. \A d \in dirs : ~Minds(c, d)
  BY DEF Minds, ParentLost, DirectoryLost, TemporaryFails, At, HasParent
<1> QED BY <1>1, <1>2, <1>3, <1>4, EndPreserves DEF At, Writing

LEMMA MakeParentPreserves ==
  ASSUME StoreAssumption, IInv, NEW c \in Callers, MakeParent(c) PROVE IInv'
<1> USE DEF IInv
<1>1. At(c, "mkdir") /\ ~HasParent(c) /\ call[c].parents /\ UNCHANGED <<dirs, stored, litter, faults>>
  BY DEF MakeParent
<1>2. call[c].level > 1 /\ call[c].level \in 1..Depth
  BY <1>1, CallTypes DEF HasParent
<1>3. Turned(c, "mkdir", call[c].level - 1, call[c].parents, call[c].answer) /\ Others(c)
  <2>1. call[c].level # 1
    BY <1>2
  <2> QED BY <1>1, <2>1, ClimbTurns DEF MakeParent, At, Turned, Others
<1>4. TypeOK'
  BY <1>1, <1>3 DEF TypeOK, Turned
<1>5. Shapes'
  <2>1. Shape(call'[c])
    BY <1>1, <1>3 DEF Turned, Shape, Shapes, Writing, At
  <2> QED BY <1>3, <2>1, ShapesStay
<1>6. TreeIntact'
  BY <1>1, <1>3, TreeStays DEF At, Turned
<1>7. Reliance'
  <2>1. Relies(c)'
    BY <1>1, <1>3 DEF Relies, Turned, At
  <2> QED BY <1>1, <1>3, <2>1, RelianceStays
<1>8. PutFailsForReason'
  BY <1>1, <1>3, PutFacts, FailureStays DEF Turned, At, Writing
<1>9. EmptyIsMinded'
  <2>1. \A d \in dirs : ~Minds(c, d)
    BY <1>1 DEF Minds, At, HasParent
  <2> QED BY <1>1, <1>3, <2>1, MindedStays DEF At, Turned
<1> QED BY <1>4, <1>5, <1>6, <1>7, <1>8, <1>9

LEMMA DirectoryExistsPreserves ==
  ASSUME StoreAssumption, IInv, NEW c \in Callers, DirectoryExists(c) PROVE IInv'
<1> USE DEF IInv
<1>1. At(c, "mkdir") /\ Here(c) \in dirs /\ UNCHANGED <<dirs, stored, litter, faults>>
  BY DEF DirectoryExists
<1>2. Turned(c, "isdir", call[c].level, call[c].parents, call[c].answer) /\ Others(c)
  <2>1. "isdir" \in PCs
    BY DEF PCs
  <2> QED BY <2>1, MoveTurns DEF DirectoryExists, Turned, Others
<1>3. TypeOK'
  BY <1>1, <1>2 DEF TypeOK, Turned
<1>4. Shapes'
  <2>1. Shape(call'[c])
    BY <1>1, <1>2 DEF Turned, Shape, Shapes, Writing, At
  <2> QED BY <1>2, <2>1, ShapesStay
<1>5. TreeIntact'
  BY <1>1, <1>2, TreeStays DEF At, Turned
<1>6. Reliance'
  <2>1. Relies(c)'
    BY <1>1, <1>2 DEF Relies, Turned, At, Here
  <2> QED BY <1>1, <1>2, <2>1, RelianceStays
<1>7. PutFailsForReason'
  BY <1>1, <1>2, PutFacts, FailureStays DEF Turned, At, Writing
<1>8. EmptyIsMinded'
  <2>1. \A d \in dirs : Empty(d) => ~Minds(c, d)
    BY <1>1, ParentNotEmpty DEF Minds, At
  <2> QED BY <1>1, <1>2, <2>1, MindedStays DEF At, Turned
<1> QED BY <1>3, <1>4, <1>5, <1>6, <1>7, <1>8

\* Going down from a directory that exists keeps it minded and relied upon.
LEMMA DescendKeeps ==
  ASSUME StoreAssumption, IInv, NEW c \in Callers, Descend(c), Here(c) \in dirs',
         At(c, "mkdir") \/ At(c, "isdir")
  PROVE  /\ call' \in [Callers -> Call] /\ Others(c) /\ Shapes'
         /\ ~At(c, "writing")' /\ Relies(c)' /\ \A d : d = Here(c) => Minds(c, d)'
         /\ call'[c].answer = "none"
<1> USE DEF IInv
<1>1. /\ call[c].op = "put" /\ call[c].answer = "none" /\ call[c].content \in Contents
      /\ call[c].got = NoBlob /\ call[c].level \in 1..Depth /\ Depth \in Nat
  BY PutFacts, CallTypes DEF At, Writing, StoreAssumption
<1>2. CASE call[c].level = Depth
  <2>1. Turned(c, "temporary", Depth, FALSE, call[c].answer)
    BY <1>2, DescendTurns
  <2>2. Shape(call'[c])
    BY <1>1, <2>1 DEF Turned, Shape, Writing
  <2>3. Here(c) = PathOf[call'[c].key][call'[c].level]
    BY <1>2, <2>1 DEF Turned, Here
  <2>4. Relies(c)' /\ \A d : d = Here(c) => Minds(c, d)'
    BY <2>1, <2>3 DEF Turned, Relies, Minds, At, Here
  <2> QED BY <1>1, <2>1, <2>2, <2>4, ShapesStay DEF Turned, Others, At
<1>3. CASE call[c].level # Depth
  <2>1. Turned(c, "mkdir", call[c].level + 1, FALSE, call[c].answer)
    BY <1>3, DescendTurns
  <2>2. Shape(call'[c])
    <3>1. /\ call'[c].op = "put" /\ call'[c].answer = "none" /\ call'[c].pc = "mkdir"
          /\ call'[c].content \in Contents /\ call'[c].got = NoBlob
      BY <1>1, <2>1 DEF Turned
    <3> QED BY <3>1 DEF Shape, Writing
  <2>3. call'[c].level > 1 /\ call'[c].level - 1 = call[c].level
    BY <1>1, <2>1 DEF Turned
  <2>4. Here(c) = PathOf[call'[c].key][call'[c].level - 1]
    BY <2>1, <2>3 DEF Turned, Here
  <2>5. Relies(c)' /\ \A d : d = Here(c) => Minds(c, d)'
    <3>1. HasParent(c)'
      BY <2>4 DEF HasParent
    <3>2. At(c, "mkdir")' /\ call'[c].pc = "mkdir"
      BY <2>1 DEF Turned, At
    <3>3. Relies(c)'
      BY <3>1, <3>2 DEF Relies, At
    <3>4. \A d : d = Here(c) => Minds(c, d)'
      BY <3>2, <2>3, <2>4 DEF Minds
    <3> QED BY <3>3, <3>4
  <2> QED BY <1>1, <2>1, <2>2, <2>5, ShapesStay DEF Turned, Others, At
<1> QED BY <1>2, <1>3

LEMMA IsDirectoryPreserves ==
  ASSUME StoreAssumption, IInv, NEW c \in Callers, IsDirectory(c) PROVE IInv'
<1> USE DEF IInv
<1>1. /\ At(c, "isdir") /\ Here(c) \in dirs /\ Here(c) \in dirs' /\ Descend(c)
      /\ UNCHANGED <<dirs, stored, litter, faults>>
  BY DEF IsDirectory
<1>2. /\ call' \in [Callers -> Call] /\ Others(c) /\ Shapes'
      /\ ~At(c, "writing")' /\ Relies(c)' /\ \A d : d = Here(c) => Minds(c, d)'
      /\ call'[c].answer = "none"
  BY <1>1, DescendKeeps
<1>3. TypeOK'
  BY <1>1, <1>2 DEF TypeOK
<1>4. TreeIntact'
  BY <1>1, <1>2, TreeStays DEF At
<1>5. Reliance'
  BY <1>1, <1>2, RelianceStays
<1>6. PutFailsForReason'
  BY <1>1, <1>2, FailureStays
<1>7. EmptyIsMinded'
  BY <1>1, <1>2, MindedStays DEF At, Minds
<1> QED BY <1>2, <1>3, <1>4, <1>5, <1>6, <1>7

LEMMA MakeDirectoryPreserves ==
  ASSUME StoreAssumption, IInv, NEW c \in Callers, MakeDirectory(c) PROVE IInv'
<1> USE DEF IInv
<1>1. /\ At(c, "mkdir") /\ HasParent(c) /\ Here(c) \notin dirs /\ Descend(c)
      /\ dirs' = dirs \cup {Here(c)} /\ UNCHANGED <<stored, litter, faults>>
  BY DEF MakeDirectory
<1>2. /\ call' \in [Callers -> Call] /\ Others(c) /\ Shapes'
      /\ ~At(c, "writing")' /\ Relies(c)' /\ \A d : d = Here(c) => Minds(c, d)'
      /\ call'[c].answer = "none"
  BY <1>1, DescendKeeps
<1>3. TypeOK'
  BY <1>1, <1>2, PathTypes DEF TypeOK
<1>4. TreeIntact'
  <2> SUFFICES ASSUME NEW k \in Keys
      PROVE  /\ \/ stored[k] # NoBlob
                \/ \E b \in Callers : At(b, "writing")' /\ call'[b].key = k
                => Leaf(k) \in dirs'
             /\ \A i \in 1..Depth : i > 1 /\ PathOf[k][i] \in dirs' => PathOf[k][i - 1] \in dirs'
    BY <1>1 DEF TreeIntact, Leaf
  <2>1. ASSUME NEW b \in Callers, At(b, "writing")', call'[b].key = k
        PROVE  Leaf(k) \in dirs'
    <3>1. At(b, "writing") /\ call[b].key = k
      BY <1>2, <2>1 DEF Others, At
    <3> QED BY <1>1, <3>1 DEF TreeIntact
  <2>2. ASSUME NEW i \in 1..Depth, i > 1, PathOf[k][i] \in dirs'
        PROVE  PathOf[k][i - 1] \in dirs'
    <3>1. CASE PathOf[k][i] \in dirs
      BY <1>1, <2>2, <3>1 DEF TreeIntact
    <3>2. CASE PathOf[k][i] = Here(c)
      <4>1. call[c].key \in Keys /\ call[c].level \in 1..Depth
        BY CallTypes
      <4>2. i = call[c].level /\ PathOf[k][i - 1] = PathOf[call[c].key][i - 1]
        BY <2>2, <3>2, <4>1 DEF Here, StoreAssumption
      <4> QED BY <1>1, <2>2, <4>2 DEF HasParent
    <3> QED BY <1>1, <2>2, <3>1, <3>2
  <2>3. stored[k] # NoBlob => Leaf(k) \in dirs'
    BY <1>1 DEF TreeIntact
  <2> QED BY <2>1, <2>2, <2>3
<1>5. Reliance'
  BY <1>1, <1>2, RelianceStays
<1>6. PutFailsForReason'
  BY <1>1, <1>2, FailureStays
<1>7. EmptyIsMinded'
  <2> SUFFICES ASSUME faults = 0, NEW d \in dirs', Empty(d)'
               PROVE  \E b \in Callers : Minds(b, d)'
    BY <1>1 DEF EmptyIsMinded
  <2>1. CASE d = Here(c)
    BY <1>2, <2>1
  <2>2. CASE d # Here(c)
    <3>1. d \in dirs
      BY <1>1, <2>2
    <3>2. \A b \in Callers : At(b, "writing") => At(b, "writing")' /\ call'[b] = call[b]
      BY <1>1, <1>2 DEF Others, At
    <3>3. Empty(d)
      BY <1>1, <3>2 DEF Empty, Leaf
    <3>4. PICK b \in Callers : Minds(b, d)
      BY <3>1, <3>3 DEF EmptyIsMinded
    <3>5. b # c
      <4> SUFFICES ASSUME b = c PROVE FALSE
        OBVIOUS
      <4>1. call[c].key \in Keys /\ call[c].level \in 1..Depth
        BY CallTypes
      <4>2. call[c].level > 1 /\ PathOf[call[c].key][call[c].level - 1] = d
        BY <1>1, <3>4 DEF Minds, At
      <4> QED BY <1>1, <4>1, <4>2 DEF Empty, Here
    <3> QED BY <1>2, <3>4, <3>5 DEF Others, Minds, At, Here
  <2> QED BY <2>1, <2>2
<1> QED BY <1>2, <1>3, <1>4, <1>5, <1>6, <1>7

LEMMA CreateTemporaryPreserves ==
  ASSUME StoreAssumption, IInv, NEW c \in Callers, CreateTemporary(c) PROVE IInv'
<1> USE DEF IInv
<1>1. At(c, "temporary") /\ Here(c) \in dirs /\ UNCHANGED <<dirs, stored, litter, faults>>
  BY DEF CreateTemporary
<1>2. Turned(c, "writing", call[c].level, call[c].parents, call[c].answer) /\ Others(c)
  <2>1. "writing" \in PCs
    BY DEF PCs
  <2> QED BY <2>1, MoveTurns DEF CreateTemporary, Turned, Others
<1>3. call[c].answer = "none" /\ Here(c) = Leaf(call[c].key)
  BY <1>1, PutFacts DEF At, Writing, Here, Leaf
<1>4. TypeOK'
  BY <1>1, <1>2 DEF TypeOK, Turned
<1>5. Shapes'
  <2>1. Shape(call'[c])
    BY <1>1, <1>2 DEF Turned, Shape, Shapes, Writing, At
  <2> QED BY <1>2, <2>1, ShapesStay
<1>6. TreeIntact'
  BY <1>1, <1>2, <1>3, TreeStays DEF Turned
<1>7. Reliance'
  <2>1. Relies(c)'
    BY <1>2 DEF Relies, Turned, At
  <2> QED BY <1>1, <1>2, <2>1, RelianceStays
<1>8. PutFailsForReason'
  BY <1>1, <1>2, <1>3, FailureStays DEF Turned
<1>9. EmptyIsMinded'
  <2> SUFFICES ASSUME faults = 0, NEW d \in dirs, Empty(d)'
               PROVE  \E b \in Callers : Minds(b, d)'
    BY <1>1 DEF EmptyIsMinded
  <2>1. \A b \in Callers : At(b, "writing") => At(b, "writing")' /\ call'[b] = call[b]
    BY <1>1, <1>2 DEF Others, At
  <2>2. Empty(d)
    BY <1>1, <2>1 DEF Empty, Leaf
  <2>3. PICK b \in Callers : Minds(b, d)
    BY <2>2 DEF EmptyIsMinded
  <2>4. At(c, "writing")' /\ Leaf(call'[c].key) = Here(c)
    BY <1>2, <1>3 DEF Turned, At
  <2>5. d # Here(c)
    BY <2>4 DEF Empty, Leaf
  <2>6. b # c
    BY <1>1, <2>3, <2>5 DEF Minds, At
  <2> QED BY <1>2, <2>3, <2>6 DEF Others, Minds, At, Here
<1> QED BY <1>4, <1>5, <1>6, <1>7, <1>8, <1>9

LEMMA ReplacePreserves ==
  ASSUME StoreAssumption, IInv, NEW c \in Callers, Replace(c) PROVE IInv'
<1> USE DEF IInv
<1> DEFINE key == call[c].key
           content == call[c].content
<1>1. /\ At(c, "writing") /\ stored' = [stored EXCEPT ![key] = content]
      /\ UNCHANGED <<dirs, litter, faults>>
  BY DEF Replace
<1>2. Turned(c, "idle", Depth, TRUE, "done") /\ Others(c)
  BY EndTurns DEF Replace, Turned, Others
<1>3. key \in Keys /\ content \in Contents /\ content # NoBlob /\ call[c].op = "put" /\ call[c].got = NoBlob
  BY <1>1, PutFacts, CallTypes DEF At, Writing, StoreAssumption
<1>4. Leaf(key) \in dirs
  BY <1>1, <1>3 DEF TreeIntact
<1> HIDE DEF key, content
<1>5. \A k \in Keys : stored'[k] = IF k = key THEN content ELSE stored[k]
  BY <1>1, <1>3 DEF TypeOK
<1>6. TypeOK'
  BY <1>1, <1>2, <1>3 DEF TypeOK, Turned
<1>7. Shapes'
  <2>1. Shape(call'[c])
    BY <1>2, <1>3 DEF Turned, Shape, Writing
  <2> QED BY <1>2, <2>1, ShapesStay
<1>8. TreeIntact'
  <2>1. \A b \in Callers : At(b, "writing")' => At(b, "writing") /\ call'[b] = call[b]
    BY <1>2 DEF Turned, Others, At
  <2> SUFFICES ASSUME NEW k \in Keys
               PROVE  /\ \/ stored'[k] # NoBlob
                         \/ \E b \in Callers : At(b, "writing")' /\ call'[b].key = k
                         => Leaf(k) \in dirs
                      /\ \A i \in 1..Depth :
                           i > 1 /\ PathOf[k][i] \in dirs => PathOf[k][i - 1] \in dirs
    BY <1>1 DEF TreeIntact, Leaf
  <2>2. CASE k = key
    BY <1>4, <2>2 DEF TreeIntact
  <2>3. CASE k # key
    <3>1. stored'[k] = stored[k]
      BY <1>5, <2>3
    <3>2. (\E b \in Callers : At(b, "writing")' /\ call'[b].key = k)
            => \E b \in Callers : At(b, "writing") /\ call[b].key = k
      BY <2>1
    <3> QED BY <3>1, <3>2 DEF TreeIntact
  <2> QED BY <2>2, <2>3
<1>9. Reliance'
  <2>1. Relies(c)'
    BY <1>2 DEF Relies, Turned
  <2> QED BY <1>1, <1>2, <2>1, RelianceStays
<1>10. PutFailsForReason'
  BY <1>1, <1>2, FailureStays DEF Turned
<1>11. EmptyIsMinded'
  <2> SUFFICES ASSUME faults = 0, NEW d \in dirs, Empty(d)'
               PROVE  \E b \in Callers : Minds(b, d)'
    BY <1>1 DEF EmptyIsMinded
  <2>1. Leaf(key) # d
    BY <1>3, <1>5 DEF Empty, Leaf
  <2>2. \A b \in Callers : At(b, "writing") => Leaf(call[b].key) # d
    <3>1. \A b \in Callers : b # c /\ At(b, "writing") => At(b, "writing")' /\ call'[b] = call[b]
      BY <1>2 DEF Others, At
    <3> QED BY <2>1, <3>1 DEF Empty, Leaf, key
  <2>3. Empty(d)
    BY <1>1, <1>5, <2>1, <2>2 DEF Empty, Leaf
  <2>4. PICK b \in Callers : Minds(b, d)
    BY <2>3 DEF EmptyIsMinded
  <2>5. b # c
    BY <1>1, <2>4 DEF Minds, At
  <2> QED BY <1>2, <2>4, <2>5 DEF Others, Minds, At, Here
<1> QED BY <1>6, <1>7, <1>8, <1>9, <1>10, <1>11

(***************************************************************************)
(* The steps of a deletion and of a read.                                  *)
(***************************************************************************)
LEMMA BeginDeletePreserves ==
  ASSUME StoreAssumption, IInv, NEW c \in Callers, BeginDelete(c) PROVE IInv'
<1>1. PICK k \in Keys : Become(c, NewCall("delete", k, NoBlob, "unlink"))
  BY DEF BeginDelete
<1>2. NewCall("delete", k, NoBlob, "unlink").parents = TRUE
  BY DEF NewCall
<1>3. "unlink" \in PCs
  BY DEF PCs
<1> QED BY <1>1, <1>2, <1>3, BeginPreserves DEF BeginDelete

LEMMA BeginGetPreserves ==
  ASSUME StoreAssumption, IInv, NEW c \in Callers, BeginGet(c) PROVE IInv'
<1>1. PICK k \in Keys : Become(c, NewCall("get", k, NoBlob, "reading"))
  BY DEF BeginGet
<1>2. NewCall("get", k, NoBlob, "reading").parents = TRUE
  BY DEF NewCall
<1>3. "reading" \in PCs
  BY DEF PCs
<1> QED BY <1>1, <1>2, <1>3, BeginPreserves DEF BeginGet

LEMMA UnlinkPreserves ==
  ASSUME StoreAssumption, IInv, NEW c \in Callers, Unlink(c) PROVE IInv'
<1> USE DEF IInv
<1> DEFINE key == call[c].key
<1>1. /\ At(c, "unlink") /\ stored' = [stored EXCEPT ![key] = NoBlob]
      /\ UNCHANGED <<dirs, litter, faults>>
  BY DEF Unlink
<1>2. Turned(c, "rmdir", call[c].level, call[c].parents, "done") /\ Others(c)
  BY UnlinkTurns DEF Turned, Others
<1>3. /\ key \in Keys /\ call[c].op = "delete" /\ call[c].got = NoBlob
      /\ call[c].content = NoBlob /\ call[c].level = Depth
  BY <1>1, CallTypes DEF At, Shapes, Shape
<1> HIDE DEF key
<1>4. \A k \in Keys : stored'[k] = IF k = key THEN NoBlob ELSE stored[k]
  BY <1>1, <1>3 DEF TypeOK
<1>5. TypeOK'
  BY <1>1, <1>2, <1>3 DEF TypeOK, Turned
<1>6. Shapes'
  <2>1. Shape(call'[c])
    BY <1>2, <1>3 DEF Turned, Shape, Writing
  <2> QED BY <1>2, <2>1, ShapesStay
<1>7. \A b \in Callers : At(b, "writing")' <=> At(b, "writing")
  BY <1>1, <1>2 DEF Turned, Others, At
<1>8. \A b \in Callers : At(b, "writing") => call'[b] = call[b]
  BY <1>1, <1>2 DEF Others, At
<1>9. TreeIntact'
  <2> SUFFICES ASSUME NEW k \in Keys
               PROVE  /\ \/ stored'[k] # NoBlob
                         \/ \E b \in Callers : At(b, "writing")' /\ call'[b].key = k
                         => Leaf(k) \in dirs
                      /\ \A i \in 1..Depth :
                           i > 1 /\ PathOf[k][i] \in dirs => PathOf[k][i - 1] \in dirs
    BY <1>1 DEF TreeIntact, Leaf
  <2>1. stored'[k] # NoBlob => stored[k] # NoBlob
    BY <1>4
  <2>2. (\E b \in Callers : At(b, "writing")' /\ call'[b].key = k)
          => \E b \in Callers : At(b, "writing") /\ call[b].key = k
    BY <1>7, <1>8
  <2> QED BY <2>1, <2>2 DEF TreeIntact
<1>10. Reliance'
  <2>1. Relies(c)'
    BY <1>2 DEF Relies, Turned
  <2> QED BY <1>1, <1>2, <2>1, RelianceStays
<1>11. PutFailsForReason'
  BY <1>1, <1>2, FailureStays DEF Turned
<1>12. EmptyIsMinded'
  <2> SUFFICES ASSUME faults = 0, NEW d \in dirs, Empty(d)'
               PROVE  \E b \in Callers : Minds(b, d)'
    BY <1>1 DEF EmptyIsMinded
  <2>1. CASE Leaf(key) = d
    BY <1>2, <1>3, <2>1 DEF Minds, At, Here, Leaf, Turned, key
  <2>2. CASE Leaf(key) # d
    <3>1. Empty(d)
      BY <1>1, <1>4, <1>7, <1>8, <2>2 DEF Empty, Leaf
    <3>2. PICK b \in Callers : Minds(b, d)
      BY <3>1 DEF EmptyIsMinded
    <3>3. b # c
      BY <1>1, <3>2 DEF Minds, At
    <3> QED BY <1>2, <3>2, <3>3 DEF Others, Minds, At, Here
  <2> QED BY <2>1, <2>2
<1> QED BY <1>5, <1>6, <1>9, <1>10, <1>11, <1>12

LEMMA StopClimbingPreserves ==
  ASSUME StoreAssumption, IInv, NEW c \in Callers, StopClimbing(c) PROVE IInv'
<1>1. At(c, "rmdir") /\ End(c, "done") /\ UNCHANGED <<dirs, stored, litter, faults>>
  BY DEF StopClimbing
<1>2. call[c].op = "delete" /\ call[c].answer = "done"
  BY <1>1 DEF IInv, Shapes, Shape, At
<1>3. \A d \in dirs : Empty(d) => ~Minds(c, d)
  BY <1>1 DEF StopClimbing, Minds, At
<1> QED BY <1>1, <1>2, <1>3, EndPreserves DEF At

\* The record of a deletion after it removed a directory.
LEMMA ClimbedRecord ==
  ASSUME StoreAssumption, TypeOK, NEW c \in Callers
  PROVE  /\ Climbed(c) \in Call
         /\ Climbed(c).op = call[c].op /\ Climbed(c).key = call[c].key
         /\ Climbed(c).content = call[c].content /\ Climbed(c).got = call[c].got
         /\ call[c].level = 1 => Climbed(c).pc = "idle" /\ Climbed(c).answer = "done"
         /\ call[c].level # 1 =>
              /\ Climbed(c).pc = call[c].pc /\ Climbed(c).answer = call[c].answer
              /\ Climbed(c).level = call[c].level - 1
<1>1. CASE call[c].level = 1
  <2>1. Climbed(c) = Ended(c, "done")
    BY <1>1 DEF Climbed
  <2> DEFINE r == Ended(c, "done")
  <2>2. /\ r \in Call /\ r.op = call[c].op /\ r.key = call[c].key
        /\ r.content = call[c].content /\ r.got = call[c].got
        /\ r.pc = "idle" /\ r.answer = "done"
    BY EndedRecord
  <2> HIDE DEF r
  <2>3. Climbed(c) = r
    BY <2>1 DEF r
  <2> QED BY <1>1, <2>2, <2>3
<1>2. CASE call[c].level # 1
  <2> DEFINE q == call[c]
             up == q.level - 1
             r == [q EXCEPT !.level = up]
  <2>1. q \in Call /\ up \in 1..Depth
    BY <1>2, CallTypes DEF StoreAssumption
  <2>2. Climbed(c) = r
    BY <1>2 DEF Climbed
  <2> HIDE DEF q, up
  <2>3. r \in Call
    BY <2>1 DEF Call
  <2>4. /\ r.op = q.op /\ r.key = q.key /\ r.content = q.content /\ r.answer = q.answer
        /\ r.got = q.got /\ r.pc = q.pc /\ r.level = up
    BY <2>1 DEF Call
  <2> HIDE DEF r
  <2> QED BY <1>2, <2>2, <2>3, <2>4 DEF q, up
<1> QED BY <1>1, <1>2

LEMMA CrossedRecord ==
  ASSUME NEW q \in Call, NEW r, r = [q EXCEPT !.crossed = TRUE]
  PROVE  /\ r \in Call /\ r.crossed = TRUE
         /\ r.op = q.op /\ r.key = q.key /\ r.content = q.content /\ r.answer = q.answer
         /\ r.got = q.got /\ r.pc = q.pc /\ r.level = q.level /\ r.parents = q.parents
<1>1. r \in Call
  BY DEF Call
<1>2. /\ r.crossed = TRUE
      /\ r.op = q.op /\ r.key = q.key /\ r.content = q.content /\ r.answer = q.answer
      /\ r.got = q.got /\ r.pc = q.pc /\ r.level = q.level /\ r.parents = q.parents
  BY DEF Call
<1> QED BY <1>1, <1>2

\* What the removal of a directory does to the other calls.
LEMMA OthersCrossed ==
  ASSUME StoreAssumption, TypeOK, NEW c \in Callers, NEW r \in Call, NEW d, Crossing(c, r, d)
  PROVE  /\ call' \in [Callers -> Call] /\ call'[c] = r
         /\ \A b \in Callers : b # c =>
              /\ call'[b].op = call[b].op /\ call'[b].key = call[b].key
              /\ call'[b].content = call[b].content /\ call'[b].answer = call[b].answer
              /\ call'[b].got = call[b].got /\ call'[b].pc = call[b].pc
              /\ call'[b].level = call[b].level /\ call'[b].parents = call[b].parents
              /\ Crosses(b, d) => call'[b].crossed = TRUE
              /\ ~Crosses(b, d) => call'[b].crossed = call[b].crossed
<1>1. ASSUME NEW b \in Callers, b # c
      PROVE  call'[b] = IF Crosses(b, d) THEN [call[b] EXCEPT !.crossed = TRUE] ELSE call[b]
  BY <1>1 DEF Crossing
<1>2. ASSUME NEW b \in Callers, b # c
      PROVE  /\ call'[b] \in Call
             /\ call'[b].op = call[b].op /\ call'[b].key = call[b].key
             /\ call'[b].content = call[b].content /\ call'[b].answer = call[b].answer
             /\ call'[b].got = call[b].got /\ call'[b].pc = call[b].pc
             /\ call'[b].level = call[b].level /\ call'[b].parents = call[b].parents
             /\ Crosses(b, d) => call'[b].crossed = TRUE
             /\ ~Crosses(b, d) => call'[b].crossed = call[b].crossed
  <2>1. call[b] \in Call
    BY CallTypes
  <2>2. CASE Crosses(b, d)
    <3>1. call'[b] = [call[b] EXCEPT !.crossed = TRUE]
      BY <1>1, <1>2, <2>2
    <3> DEFINE q == call[b]
               n == call'[b]
    <3>2. q \in Call /\ n = [q EXCEPT !.crossed = TRUE]
      BY <2>1, <3>1
    <3> HIDE DEF q, n
    <3>3. /\ n \in Call /\ n.crossed = TRUE
          /\ n.op = q.op /\ n.key = q.key /\ n.content = q.content /\ n.answer = q.answer
          /\ n.got = q.got /\ n.pc = q.pc /\ n.level = q.level /\ n.parents = q.parents
      BY <3>2, CrossedRecord
    <3> QED BY <2>2, <3>3 DEF q, n
  <2>3. CASE ~Crosses(b, d)
    BY <1>1, <1>2, <2>1, <2>3
  <2> QED BY <2>2, <2>3
<1>3. call'[c] = r
  BY DEF Crossing
<1>4. call' = [b \in Callers |-> call'[b]]
  BY DEF Crossing
<1>5. \A b \in Callers : call'[b] \in Call
  BY <1>2, <1>3
<1>6. call' \in [Callers -> Call]
  BY <1>4, <1>5
<1> QED BY <1>2, <1>3, <1>6

LEMMA RemoveDirectoryPreserves ==
  ASSUME StoreAssumption, IInv, NEW c \in Callers, RemoveDirectory(c) PROVE IInv'
<1> USE DEF IInv
<1> DEFINE gone == Here(c)
           r == Climbed(c)
<1>1. /\ At(c, "rmdir") /\ gone \in dirs /\ Empty(gone) /\ dirs' = dirs \ {gone}
      /\ Crossing(c, r, gone) /\ UNCHANGED <<stored, litter, faults>>
  BY DEF RemoveDirectory
<1>2. /\ call[c].op = "delete" /\ call[c].answer = "done" /\ call[c].content = NoBlob
      /\ call[c].got = NoBlob /\ call[c].key \in Keys /\ call[c].level \in 1..Depth
  BY <1>1, CallTypes DEF At, Shapes, Shape
<1>3. gone = PathOf[call[c].key][call[c].level]
  BY DEF Here
<1>4. /\ r \in Call /\ r.op = "delete" /\ r.key = call[c].key /\ r.answer = "done"
      /\ r.content = NoBlob /\ r.got = NoBlob
      /\ call[c].level = 1 => r.pc = "idle"
      /\ call[c].level # 1 => r.pc = "rmdir" /\ r.level = call[c].level - 1
  BY <1>1, <1>2, ClimbedRecord DEF At
<1> HIDE DEF gone, r
<1>5. /\ call' \in [Callers -> Call] /\ call'[c] = r
      /\ \A b \in Callers : b # c =>
           /\ call'[b].op = call[b].op /\ call'[b].key = call[b].key
           /\ call'[b].content = call[b].content /\ call'[b].answer = call[b].answer
           /\ call'[b].got = call[b].got /\ call'[b].pc = call[b].pc
           /\ call'[b].level = call[b].level /\ call'[b].parents = call[b].parents
           /\ Crosses(b, gone) => call'[b].crossed = TRUE
           /\ ~Crosses(b, gone) => call'[b].crossed = call[b].crossed
  <2>1. TypeOK /\ r \in Call /\ Crossing(c, r, gone)
    BY <1>1, <1>4
  <2> HIDE DEF IInv
  <2> QED BY <2>1, OthersCrossed
<1>6. TypeOK'
  BY <1>1, <1>5 DEF TypeOK
<1>7. Shapes'
  <2>1. Shape(call'[c])
    BY <1>4, <1>5 DEF Shape, Writing
  <2>2. ASSUME NEW b \in Callers, b # c PROVE Shape(call'[b])
    <3>1. Shape(call[b])
      BY DEF Shapes
    <3> QED BY <1>5, <2>2, <3>1 DEF Shape
  <2> QED BY <2>1, <2>2 DEF Shapes
<1>8. \A b \in Callers : /\ At(b, "writing")' <=> At(b, "writing")
                         /\ At(b, "writing") => call'[b].key = call[b].key
  BY <1>1, <1>4, <1>5 DEF At
<1>9. TreeIntact'
  <2> SUFFICES ASSUME NEW k \in Keys
      PROVE  /\ \/ stored[k] # NoBlob
                \/ \E b \in Callers : At(b, "writing")' /\ call'[b].key = k
                => Leaf(k) \in dirs'
             /\ \A i \in 1..Depth : i > 1 /\ PathOf[k][i] \in dirs' => PathOf[k][i - 1] \in dirs'
    BY <1>1 DEF TreeIntact, Leaf
  <2>1. stored[k] # NoBlob => Leaf(k) \in dirs'
    BY <1>1 DEF TreeIntact, Empty
  <2>2. ASSUME NEW b \in Callers, At(b, "writing")', call'[b].key = k PROVE Leaf(k) \in dirs'
    <3>1. At(b, "writing") /\ call[b].key = k
      BY <1>8, <2>2
    <3> QED BY <1>1, <3>1 DEF TreeIntact, Empty
  <2>3. ASSUME NEW i \in 1..Depth, i > 1, PathOf[k][i] \in dirs' PROVE PathOf[k][i - 1] \in dirs'
    BY <1>1, <2>3 DEF TreeIntact, Empty
  <2> QED BY <2>1, <2>2, <2>3
<1>10. Reliance'
  <2> SUFFICES ASSUME NEW b \in Callers PROVE Relies(b)'
    BY DEF Reliance
  <2>1. CASE b = c
    BY <1>4, <1>5, <2>1 DEF Relies
  <2>2. CASE b # c
    <3> SUFFICES ASSUME call[b].op = "put", call[b].answer = "none", ~call'[b].crossed
        PROVE  /\ At(b, "mkdir") /\ ~call[b].parents => HasParent(b)'
               /\ At(b, "isdir") \/ At(b, "temporary") => Here(b)' \in dirs'
      BY <1>5, <2>2 DEF Relies, At
    <3>1. ~call[b].crossed /\ ~Crosses(b, gone)
      BY <1>5, <2>2, CallTypes
    <3>2. call[b].key \in Keys /\ call[b].level \in 1..Depth
      BY CallTypes
    <3>3. \A i \in 1..Depth : PathOf[call[b].key][i] # gone
      BY <3>1 DEF Crosses
    <3>4. Relies(b)
      BY DEF Reliance
    <3>5. Here(b)' = Here(b) /\ Here(b) # gone
      BY <1>5, <2>2, <3>2, <3>3 DEF Here
    <3>6. ASSUME HasParent(b) PROVE HasParent(b)'
      <4>1. call[b].level > 1 => PathOf[call[b].key][call[b].level - 1] # gone
        BY <3>2, <3>3
      <4> QED BY <1>1, <1>5, <2>2, <3>6, <4>1 DEF HasParent
    <3> QED BY <1>1, <3>1, <3>4, <3>5, <3>6 DEF Relies
  <2> QED BY <2>1, <2>2
<1>11. PutFailsForReason'
  <2> SUFFICES ASSUME NEW b \in Callers, call'[b].op = "put", call'[b].answer = "failed"
               PROVE  faults' > 0 \/ call'[b].crossed
    BY DEF PutFailsForReason
  <2>1. b # c /\ call[b].op = "put" /\ call[b].answer = "failed"
    BY <1>4, <1>5
  <2> QED BY <1>1, <1>5, <2>1 DEF PutFailsForReason, Crosses
<1>12. EmptyIsMinded'
  <2> SUFFICES ASSUME faults = 0, NEW d \in dirs, d # gone, Empty(d)'
               PROVE  \E b \in Callers : Minds(b, d)'
    BY <1>1 DEF EmptyIsMinded
  <2>1. CASE Empty(d)
    <3>1. PICK b \in Callers : Minds(b, d)
      BY <2>1 DEF EmptyIsMinded
    <3>2. b # c
      BY <1>1, <3>1 DEF Minds, At, gone
    <3> QED BY <1>5, <3>1, <3>2 DEF Minds, At, Here
  <2>2. CASE ~Empty(d)
    <3>1. PICK k \in Keys, i \in 1..Depth :
            i > 1 /\ PathOf[k][i - 1] = d /\ PathOf[k][i] \in dirs /\ PathOf[k][i] \notin dirs'
      BY <1>1, <1>8, <2>2 DEF Empty, Leaf
    <3>2. PathOf[k][i] = gone
      BY <1>1, <3>1
    <3>3. i = call[c].level /\ PathOf[call[c].key][i - 1] = d
      BY <1>2, <1>3, <3>1, <3>2 DEF StoreAssumption
    <3>4. call[c].level # 1
      BY <1>2, <3>1, <3>3
    <3> QED BY <1>4, <1>5, <3>3, <3>4 DEF Minds, At, Here
  <2> QED BY <2>1, <2>2
<1> QED BY <1>6, <1>7, <1>9, <1>10, <1>11, <1>12

LEMMA ReadPreserves ==
  ASSUME StoreAssumption, IInv, NEW c \in Callers, Read(c) PROVE IInv'
<1> USE DEF IInv
<1> DEFINE content == stored[call[c].key]
           answer == IF content = NoBlob THEN "missing" ELSE "done"
           q == Ended(c, answer)
           r == [q EXCEPT !.got = content]
<1>1. At(c, "reading") /\ Become(c, r) /\ UNCHANGED <<dirs, stored, litter, faults>>
  BY DEF Read
<1>2. call[c].op = "get" /\ call[c].answer = "none" /\ call[c].content = NoBlob
  BY <1>1 DEF At, Shapes, Shape
<1>3. content \in Contents \cup {NoBlob}
  BY CallTypes DEF TypeOK
<1>4. answer \in {"done", "missing", "failed"} /\ (answer # "done" => content = NoBlob)
  OBVIOUS
<1> HIDE DEF content, answer
<1>5. /\ q \in Call /\ q.op = call[c].op /\ q.key = call[c].key /\ q.content = call[c].content
      /\ q.pc = "idle" /\ q.answer = answer
  BY <1>4, EndedRecord
<1> HIDE DEF q
<1>6. r \in Call
  BY <1>3, <1>5 DEF Call
<1>7. /\ r.op = "get" /\ r.key = call[c].key /\ r.content = NoBlob
      /\ r.pc = "idle" /\ r.answer = answer /\ r.got = content
  BY <1>2, <1>5 DEF Call
<1> HIDE DEF r
<1>8. call' \in [Callers -> Call] /\ call'[c] = r /\ Others(c)
  BY <1>1, <1>6, Replaced DEF Others
<1>9. TypeOK'
  BY <1>1, <1>8 DEF TypeOK
<1>10. Shapes'
  <2>1. Shape(r)
    BY <1>4, <1>7 DEF Shape, Writing
  <2> QED BY <1>8, <2>1, ShapesStay
<1>11. TreeIntact'
  BY <1>1, <1>7, <1>8, TreeStays DEF At
<1>12. Reliance'
  <2>1. Relies(c)'
    BY <1>7, <1>8 DEF Relies
  <2> QED BY <1>1, <1>8, <2>1, RelianceStays
<1>13. PutFailsForReason'
  BY <1>1, <1>7, <1>8, FailureStays
<1>14. EmptyIsMinded'
  BY <1>1, <1>7, <1>8, MindedStays DEF Minds, At
<1> QED BY <1>9, <1>10, <1>11, <1>12, <1>13, <1>14

(***************************************************************************)
(* Faults.                                                                 *)
(***************************************************************************)
LEMMA FaultPreserves ==
  ASSUME StoreAssumption, IInv, NEW c \in Callers, IOError(c) \/ Killed(c) PROVE IInv'
<1> USE DEF IInv
<1> DEFINE answer == IF IOError(c) \/ call[c].answer = "none" THEN "failed" ELSE call[c].answer
<1>1. faults' \in 0..MaxFaults /\ faults' > 0 /\ UNCHANGED <<dirs, stored>> /\ litter' \subseteq Dirs
  BY PathTypes DEF IOError, Killed, Fault, TypeOK, StoreAssumption
<1>2. answer \in {"done", "missing", "failed"}
  BY CallTypes
<1>3. End(c, answer)
  BY DEF IOError, Killed
<1>4. IOError(c) => call[c].answer = "none"
  BY DEF IOError, Shapes, Shape, Writing
<1>5. answer = "done" => call[c].answer = "done"
  BY <1>4
<1>6. answer # "done" => call[c].got = NoBlob
  <2>1. Shape(call[c])
    BY DEF Shapes
  <2>2. call[c].answer # "done" => call[c].got = NoBlob
    BY <2>1 DEF Shape
  <2>3. answer # "done" => call[c].answer # "done"
    BY <1>4
  <2> QED BY <2>2, <2>3
<1> HIDE DEF answer
<1>7. Turned(c, "idle", Depth, TRUE, answer) /\ Others(c)
  <2>1. TypeOK
    OBVIOUS
  <2> HIDE DEF IInv
  <2>2. \A a \in {"done", "missing", "failed"} : End(c, a) => Turned(c, "idle", Depth, TRUE, a)
    BY <2>1, EndTurns
  <2>3. Turned(c, "idle", Depth, TRUE, answer)
    BY <1>2, <1>3, <2>2
  <2> QED BY <2>3 DEF Turned, Others
<1>8. TypeOK'
  BY <1>1, <1>7 DEF TypeOK, Turned
<1>9. Shapes'
  <2>1. Shape(call[c])
    BY DEF Shapes
  <2>2. /\ call'[c].pc = "idle" /\ call'[c].answer = answer /\ call'[c].op = call[c].op
        /\ call'[c].content = call[c].content /\ call'[c].got = call[c].got
    BY <1>7 DEF Turned
  <2>3. Shape(call'[c])
    BY <1>2, <1>6, <2>1, <2>2 DEF Shape, Writing
  <2> QED BY <1>7, <2>3, ShapesStay
<1>10. TreeIntact'
  BY <1>1, <1>7, TreeStays DEF At, Turned
<1>11. Reliance'
  <2>1. Relies(c)'
    BY <1>2, <1>7 DEF Relies, Turned
  <2> QED BY <1>1, <1>7, <2>1, RelianceStays
<1>12. PutFailsForReason'
  BY <1>1, <1>7, FailureStays
<1>13. EmptyIsMinded'
  BY <1>1 DEF EmptyIsMinded
<1> QED BY <1>8, <1>9, <1>10, <1>11, <1>12, <1>13

(***************************************************************************)
(* The invariant holds.                                                    *)
(***************************************************************************)
LEMMA InitHolds == ASSUME StoreAssumption, Init PROVE IInv
<1> DEFINE first == CHOOSE k \in Keys : TRUE
           q == NewCall("get", first, NoBlob, "idle")
           r == [q EXCEPT !.answer = "failed"]
<1>1. first \in Keys
  BY DEF StoreAssumption
<1>2. NoCall = r
  BY DEF NoCall
<1> HIDE DEF first
<1>3. q \in Call /\ q.op = "get" /\ q.content = NoBlob /\ q.got = NoBlob /\ q.pc = "idle"
  <2>1. "idle" \in PCs /\ NoBlob \in Contents \cup {NoBlob}
    BY DEF PCs
  <2> HIDE DEF first
  <2> QED BY <1>1, <2>1, NewRecord
<1> HIDE DEF q
<1>4. r \in Call
  BY <1>3 DEF Call
<1>5. r.op = "get" /\ r.content = NoBlob /\ r.got = NoBlob /\ r.pc = "idle" /\ r.answer = "failed"
  BY <1>3 DEF Call
<1> HIDE DEF r
<1>6. \A c \in Callers : call[c] = r
  BY <1>2 DEF Init
<1>7. TypeOK
  BY <1>2, <1>4 DEF Init, TypeOK, StoreAssumption
<1>8. Shapes
  <2>1. Shape(r)
    BY <1>5 DEF Shape, Writing
  <2> QED BY <1>6, <2>1 DEF Shapes
<1>9. Reliance /\ PutFailsForReason
  BY <1>5, <1>6 DEF Reliance, Relies, PutFailsForReason
<1>10. TreeIntact /\ EmptyIsMinded
  BY <1>5, <1>6 DEF Init, TreeIntact, EmptyIsMinded, At
<1> QED BY <1>7, <1>8, <1>9, <1>10 DEF IInv

LEMMA StepHolds == ASSUME StoreAssumption, IInv, [Next]_vars PROVE IInv'
<1>1. CASE UNCHANGED vars
  BY <1>1 DEF vars, IInv, TypeOK, Shapes, TreeIntact, Reliance, Relies, PutFailsForReason,
              EmptyIsMinded, Empty, Minds, At, Here, HasParent, Leaf
<1>2. ASSUME NEW c \in Callers,
             PutStep(c) \/ DeleteStep(c) \/ BeginGet(c) \/ Read(c) \/ IOError(c) \/ Killed(c)
      PROVE  IInv'
  <2>1. CASE PutStep(c)
    BY <2>1, BeginPutPreserves, MakeDirectoryPreserves, MakeParentPreserves, PutLosesPreserves,
       DirectoryExistsPreserves, IsDirectoryPreserves, CreateTemporaryPreserves, ReplacePreserves
       DEF PutStep
  <2>2. CASE DeleteStep(c)
    BY <2>2, BeginDeletePreserves, UnlinkPreserves, RemoveDirectoryPreserves, StopClimbingPreserves
       DEF DeleteStep
  <2>3. CASE BeginGet(c) \/ Read(c)
    BY <2>3, BeginGetPreserves, ReadPreserves
  <2>4. CASE IOError(c) \/ Killed(c)
    BY <2>4, FaultPreserves
  <2> QED BY <1>2, <2>1, <2>2, <2>3, <2>4
<1> QED BY <1>1, <1>2 DEF Next

LEMMA InvariantHolds == ASSUME StoreAssumption PROVE Spec => []IInv
<1>1. Init => IInv
  BY InitHolds
<1>2. IInv /\ [Next]_vars => IInv'
  BY StepHolds
<1> QED BY <1>1, <1>2, PTL DEF Spec

\* Every variable keeps its type, and no file is ever there in part, however the
\* calls of LocalBlobStore interleave, fail or are killed.
THEOREM StoreTypesHold == ASSUME StoreAssumption PROVE Spec => []TypeOK
<1>1. IInv => TypeOK
  BY DEF IInv
<1> QED BY <1>1, InvariantHolds, PTL

\* delete never removes a directory under a file, under the temporary file of a
\* put_stream in progress or under another directory.
THEOREM TreesHold == ASSUME StoreAssumption PROVE Spec => []TreeIntact
<1>1. IInv => TreeIntact
  BY DEF IInv
<1> QED BY <1>1, InvariantHolds, PTL

\* put_stream fails only for an I/O error, a kill, or a deletion that removed a
\* directory on its path while it ran.
THEOREM PutsFailForReason == ASSUME StoreAssumption PROVE Spec => []PutFailsForReason
<1>1. IInv => PutFailsForReason
  BY DEF IInv
<1> QED BY <1>1, InvariantHolds, PTL

\* Without faults, delete and put_stream together leave no empty directory when
\* every call has returned.
THEOREM NoEmptyDirectories == ASSUME StoreAssumption PROVE Spec => []NoEmptyDirectoryLeft
<1>1. IInv => NoEmptyDirectoryLeft
  BY DEF IInv, NoEmptyDirectoryLeft, EmptyIsMinded, Minds, At
<1> QED BY <1>1, InvariantHolds, PTL

(***************************************************************************)
(* How far a call is from its end.                                         *)
(***************************************************************************)

\* The steps that a call has left at most where it stands: to climb to the topmost
\* directory and back with two steps for each, to climb while it removes, and the rest.
StepsFrom(pc, level, parents) ==
  CASE pc = "idle" -> 0
    [] pc \in {"reading", "writing"} -> 1
    [] pc = "temporary" -> 2
    [] pc = "isdir" -> 2 * (Depth - level) + 3
    [] pc = "mkdir" -> IF parents THEN 2 * Depth + level + 1 ELSE 2 * (Depth - level) + 4
    [] pc = "unlink" -> Depth + 1
    [] pc = "rmdir" -> level

StepsLeft(c) == StepsFrom(call[c].pc, call[c].level, call[c].parents)

FewLeft(c) == StepsLeft(c) \in 0..(3 * Depth + 1)

\* Caller c comes nearer to the end of its call, and nobody else is thrown back.
Advances(c) ==
  /\ ~At(c, "idle") => StepsLeft(c)' < StepsLeft(c)
  /\ \A b \in Callers : b # c => StepsLeft(b)' = StepsLeft(b)

LEMMA StepsAreFew ==
  ASSUME StoreAssumption, NEW pc \in PCs, NEW level \in 1..Depth, NEW parents \in BOOLEAN
  PROVE  /\ StepsFrom(pc, level, parents) \in 0..(3 * Depth + 1)
         /\ pc # "idle" => StepsFrom(pc, level, parents) > 0
<1>1. Depth \in Nat /\ level \in Nat /\ 1 <= level /\ level <= Depth
  BY DEF StoreAssumption
<1>2. CASE pc \in {"idle", "reading", "writing", "temporary"}
  BY <1>1, <1>2 DEF StepsFrom
<1>3. CASE pc \in {"unlink", "rmdir", "isdir"}
  BY <1>1, <1>3 DEF StepsFrom
<1>4. CASE pc = "mkdir"
  BY <1>1, <1>4 DEF StepsFrom
<1> QED BY <1>2, <1>3, <1>4 DEF PCs

LEMMA StepsLeftAre ==
  ASSUME StoreAssumption, TypeOK, NEW c \in Callers
  PROVE  /\ StepsLeft(c) \in 0..(3 * Depth + 1)
         /\ ~At(c, "idle") => StepsLeft(c) > 0
<1>1. call[c].pc \in PCs /\ call[c].level \in 1..Depth /\ call[c].parents \in BOOLEAN
  BY CallTypes
<1> QED BY <1>1, StepsAreFew DEF StepsLeft, At

LEMMA TurnAdvances ==
  ASSUME NEW c \in Callers, NEW pc, NEW level, NEW parents, NEW answer,
         Turned(c, pc, level, parents, answer),
         At(c, "idle") \/ StepsFrom(pc, level, parents) < StepsLeft(c)
  PROVE  Advances(c)
<1>1. StepsLeft(c)' = StepsFrom(pc, level, parents)
  BY DEF Turned, StepsLeft
<1>2. \A b \in Callers : b # c => StepsLeft(b)' = StepsLeft(b)
  BY DEF Turned, StepsLeft
<1> QED BY <1>1, <1>2 DEF Advances

\* A call that returns, whatever its answer, has nothing left.
LEMMA ReturnAdvances ==
  ASSUME StoreAssumption, TypeOK, NEW c \in Callers, ~At(c, "idle"), call'[c].pc = "idle",
         \A b \in Callers : b # c => StepsLeft(b)' = StepsLeft(b)
  PROVE  Advances(c)
<1>1. StepsLeft(c)' = 0
  BY DEF StepsLeft, StepsFrom
<1>2. StepsLeft(c) > 0
  BY StepsLeftAre
<1> QED BY <1>1, <1>2 DEF Advances

LEMMA EndAdvances ==
  ASSUME StoreAssumption, TypeOK, NEW c \in Callers, ~At(c, "idle"), NEW answer, End(c, answer)
  PROVE  Advances(c)
<1> DEFINE q == call[c]
           r == [q EXCEPT !.pc = "idle", !.answer = answer, !.level = Depth, !.parents = TRUE]
<1>1. q \in Call
  BY CallTypes
<1>2. call' = [call EXCEPT ![c] = r] /\ call \in [Callers -> Call]
  BY DEF End, Become, Ended, TypeOK
<1> HIDE DEF q
<1>3. r.pc = "idle"
  BY <1>1 DEF Call
<1> HIDE DEF r
<1>4. call'[c].pc = "idle" /\ \A b \in Callers : b # c => call'[b] = call[b]
  BY <1>2, <1>3
<1>5. \A b \in Callers : b # c => StepsLeft(b)' = StepsLeft(b)
  BY <1>4 DEF StepsLeft
<1> QED BY <1>4, <1>5, ReturnAdvances

\* A call that begins leaves the others where they are.
LEMMA BeginAdvances ==
  ASSUME NEW c \in Callers, At(c, "idle"), NEW r, Become(c, r)
  PROVE  Advances(c)
<1>1. \A b \in Callers : b # c => call'[b] = call[b]
  BY DEF Become
<1>2. \A b \in Callers : b # c => StepsLeft(b)' = StepsLeft(b)
  BY <1>1 DEF StepsLeft
<1> QED BY <1>2 DEF Advances

LEMMA PutAdvances ==
  ASSUME StoreAssumption, IInv, NEW c \in Callers, PutStep(c)
  PROVE  Advances(c)
<1> DEFINE level == call[c].level
           parents == call[c].parents
<1>1. TypeOK /\ Depth \in Nat /\ level \in 1..Depth /\ parents \in BOOLEAN
  BY CallTypes DEF IInv, StoreAssumption
<1>2. CASE BeginPut(c)
  BY <1>1, <1>2, BeginAdvances DEF BeginPut
<1>3. CASE MakeDirectory(c) \/ IsDirectory(c)
  <2>1. IF level = Depth THEN Turned(c, "temporary", Depth, FALSE, call[c].answer)
                         ELSE Turned(c, "mkdir", level + 1, FALSE, call[c].answer)
    BY <1>1, <1>3, DescendTurns DEF MakeDirectory, IsDirectory
  <2>2. StepsLeft(c) \in {2 * (Depth - level) + 3, 2 * (Depth - level) + 4, 2 * Depth + level + 1}
    BY <1>3 DEF MakeDirectory, IsDirectory, At, StepsLeft, StepsFrom
  <2>3. /\ StepsFrom("temporary", Depth, FALSE) = 2
        /\ StepsFrom("mkdir", level + 1, FALSE) = 2 * (Depth - (level + 1)) + 4
    BY DEF StepsFrom
  <2>4. ASSUME NEW d \in Nat, NEW l \in 1..d,
               NEW n \in {2 * (d - l) + 3, 2 * (d - l) + 4, 2 * d + l + 1}
        PROVE  (l = d => 2 < n) /\ (l # d => 2 * (d - (l + 1)) + 4 < n)
    OBVIOUS
  <2> HIDE DEF level
  <2>5. /\ level = Depth => 2 < StepsLeft(c)
        /\ level # Depth => 2 * (Depth - (level + 1)) + 4 < StepsLeft(c)
    BY <1>1, <2>2, <2>4
  <2>6. /\ level = Depth => StepsFrom("temporary", Depth, FALSE) < StepsLeft(c)
        /\ level # Depth => StepsFrom("mkdir", level + 1, FALSE) < StepsLeft(c)
    BY <2>3, <2>5, Zenon
  <2> QED BY <2>1, <2>6, TurnAdvances
<1>4. CASE MakeParent(c)
  <2>1. /\ call[c].pc = "mkdir" /\ call[c].parents /\ call[c].level # 1
        /\ Become(c, [call[c] EXCEPT !.level = @ - 1])
    BY <1>4 DEF MakeParent, HasParent, At
  <2>2. Turned(c, "mkdir", level - 1, parents, call[c].answer)
    <3>1. Turned(c, call[c].pc, call[c].level - 1, call[c].parents, call[c].answer)
      BY <1>1, <2>1, ClimbTurns
    <3> QED BY <2>1, <3>1
  <2>3. /\ StepsLeft(c) = 2 * Depth + level + 1
        /\ StepsFrom("mkdir", level - 1, parents) = 2 * Depth + (level - 1) + 1
    BY <2>1 DEF StepsLeft, StepsFrom
  <2> HIDE DEF level, parents
  <2>4. StepsFrom("mkdir", level - 1, parents) < StepsLeft(c)
    BY <1>1, <2>3
  <2> QED BY <2>2, <2>4, TurnAdvances
<1>5. CASE DirectoryExists(c)
  <2>1. Turned(c, "isdir", level, parents, call[c].answer) /\ At(c, "mkdir")
    BY <1>1, <1>5, MoveTurns DEF DirectoryExists, PCs
  <2>2. /\ StepsLeft(c) \in {2 * (Depth - level) + 4, 2 * Depth + level + 1}
        /\ StepsFrom("isdir", level, parents) = 2 * (Depth - level) + 3
    BY <2>1 DEF StepsLeft, StepsFrom, At
  <2> HIDE DEF level, parents
  <2>3. StepsFrom("isdir", level, parents) < StepsLeft(c)
    BY <1>1, <2>2
  <2> QED BY <2>1, <2>3, TurnAdvances
<1>6. CASE CreateTemporary(c)
  <2>1. Turned(c, "writing", level, parents, call[c].answer) /\ At(c, "temporary")
    BY <1>1, <1>6, MoveTurns DEF CreateTemporary, PCs
  <2>2. StepsLeft(c) = 2 /\ StepsFrom("writing", level, parents) = 1
    BY <2>1 DEF StepsLeft, StepsFrom, At
  <2> QED BY <2>1, <2>2, TurnAdvances
<1>7. CASE ParentLost(c) \/ DirectoryLost(c) \/ TemporaryFails(c) \/ Replace(c)
  <2>1. ~At(c, "idle") /\ \E a : End(c, a)
    BY <1>7 DEF ParentLost, DirectoryLost, TemporaryFails, Replace, At
  <2> QED BY <1>1, <2>1, EndAdvances
<1> QED BY <1>2, <1>3, <1>4, <1>5, <1>6, <1>7 DEF PutStep

LEMMA DeleteAdvances ==
  ASSUME StoreAssumption, IInv, NEW c \in Callers, DeleteStep(c)
  PROVE  Advances(c)
<1> DEFINE level == call[c].level
           parents == call[c].parents
<1>1. TypeOK /\ Depth \in Nat /\ level \in 1..Depth /\ parents \in BOOLEAN
  BY CallTypes DEF IInv, StoreAssumption
<1>2. CASE BeginDelete(c)
  BY <1>1, <1>2, BeginAdvances DEF BeginDelete
<1>3. CASE Unlink(c)
  <2>1. Turned(c, "rmdir", level, parents, "done") /\ At(c, "unlink")
    <3>1. Turned(c, "rmdir", level, parents, "done")
      BY <1>1, <1>3, UnlinkTurns
    <3> QED BY <1>3, <3>1 DEF Unlink
  <2>2. StepsLeft(c) = Depth + 1 /\ StepsFrom("rmdir", level, parents) = level
    BY <2>1 DEF StepsLeft, StepsFrom, At
  <2> HIDE DEF level, parents
  <2>3. StepsFrom("rmdir", level, parents) < StepsLeft(c)
    BY <1>1, <2>2
  <2> QED BY <2>1, <2>3, TurnAdvances
<1>4. CASE RemoveDirectory(c)
  <2> DEFINE r == Climbed(c)
             gone == Here(c)
  <2>1. Crossing(c, r, gone) /\ At(c, "rmdir")
    BY <1>4 DEF RemoveDirectory
  <2>2. /\ level = 1 => r.pc = "idle"
        /\ level # 1 => r.pc = "rmdir" /\ r.level = level - 1
    BY <1>1, <2>1, ClimbedRecord DEF At
  <2> HIDE DEF r, gone
  <2>3. call'[c] = r
    BY <2>1 DEF Crossing
  <2>4. ASSUME NEW b \in Callers, b # c PROVE StepsLeft(b)' = StepsLeft(b)
    <3> DEFINE q == call[b]
               n == call'[b]
    <3>1. q \in Call
      BY <1>1 DEF TypeOK
    <3>2. n = q \/ n = [q EXCEPT !.crossed = TRUE]
      BY <2>1, <2>4 DEF Crossing
    <3> HIDE DEF q, n
    <3>3. n.pc = q.pc /\ n.level = q.level /\ n.parents = q.parents
      BY <3>1, <3>2, CrossedRecord
    <3> QED BY <3>3 DEF StepsLeft, q, n
  <2>5. CASE level = 1
    <3>1. ~At(c, "idle") /\ call'[c].pc = "idle"
      BY <2>1, <2>2, <2>3, <2>5 DEF At
    <3> QED BY <1>1, <2>4, <3>1, ReturnAdvances
  <2>6. CASE level # 1
    <3>1. StepsLeft(c) = level /\ StepsLeft(c)' = level - 1
      BY <2>1, <2>2, <2>3, <2>6 DEF StepsLeft, StepsFrom, At
    <3> HIDE DEF level
    <3> QED BY <1>1, <2>4, <3>1 DEF Advances
  <2> QED BY <2>5, <2>6
<1>5. CASE StopClimbing(c)
  BY <1>1, <1>5, EndAdvances DEF StopClimbing, At
<1> QED BY <1>2, <1>3, <1>4, <1>5 DEF DeleteStep

LEMMA ReadAdvances ==
  ASSUME StoreAssumption, IInv, NEW c \in Callers, Read(c)
  PROVE  Advances(c)
<1> DEFINE content == stored[call[c].key]
           q == call[c]
           answer == IF content = NoBlob THEN "missing" ELSE "done"
           ended == [q EXCEPT !.pc = "idle", !.answer = answer, !.level = Depth, !.parents = TRUE]
           r == [ended EXCEPT !.got = content]
<1>1. TypeOK /\ q \in Call /\ ~At(c, "idle")
  BY CallTypes DEF IInv, Read, At
<1>2. call' = [call EXCEPT ![c] = r] /\ call \in [Callers -> Call]
  BY <1>1 DEF Read, Become, Ended, TypeOK
<1> HIDE DEF q, content, answer
<1>3. r.pc = "idle"
  BY <1>1 DEF Call
<1> HIDE DEF r
<1>4. call'[c].pc = "idle" /\ \A b \in Callers : b # c => call'[b] = call[b]
  BY <1>2, <1>3
<1>5. \A b \in Callers : b # c => StepsLeft(b)' = StepsLeft(b)
  BY <1>4 DEF StepsLeft
<1> QED BY <1>1, <1>4, <1>5, ReturnAdvances

\* However the calls interleave, fail and are killed, every step of a call brings it
\* nearer to its end and throws no other call back: a write and the deletions of its
\* directories cannot make one another try again for ever, and a call on a path of
\* Depth directories takes 3 Depth + 1 steps at most.
THEOREM CallsAdvance ==
  ASSUME StoreAssumption
  PROVE  Spec => /\ [](\A c \in Callers : FewLeft(c))
                 /\ [][\E c \in Callers : Advances(c)]_vars
<1> DEFINE Few == \A c \in Callers : FewLeft(c)
           Advance == \E c \in Callers : Advances(c)
<1>1. IInv => Few
  <2> HAVE IInv
  <2> TAKE c \in Callers
  <2>1. TypeOK
    BY DEF IInv
  <2> QED BY <2>1, StepsLeftAre DEF FewLeft
<1>2. IInv /\ [Next]_vars => [Advance]_vars
  <2> SUFFICES ASSUME IInv, NEW c \in Callers,
                      \/ PutStep(c) \/ DeleteStep(c) \/ BeginGet(c) \/ Read(c)
                      \/ IOError(c) \/ Killed(c)
               PROVE  Advances(c)
    BY DEF Next
  <2>1. TypeOK
    BY DEF IInv
  <2>2. CASE BeginGet(c)
    BY <2>1, <2>2, BeginAdvances DEF BeginGet
  <2>3. CASE IOError(c) \/ Killed(c)
    <3>1. ~At(c, "idle") /\ \E a : End(c, a)
      BY <2>3 DEF IOError, Killed, At
    <3> QED BY <2>1, <3>1, EndAdvances
  <2> QED BY <2>2, <2>3, PutAdvances, DeleteAdvances, ReadAdvances
<1> QED BY <1>1, <1>2, InvariantHolds, PTL DEF Spec

(***************************************************************************)
(* The refinement.                                                         *)
(***************************************************************************)

\* What the promise sees of a call.
Seen(r) == [op |-> r.op, key |-> r.key, content |-> r.content, answer |-> r.answer, got |-> r.got]

\* The record of a call that got its answer.
Replied(r, answer, got) ==
  [op |-> r.op, key |-> r.key, content |-> r.content, answer |-> answer, got |-> got]

LEMMA SeenReply ==
  ASSUME NEW r, NEW s, NEW answer, NEW got,
         s.op = r.op, s.key = r.key, s.content = r.content, s.answer = answer, s.got = got
  PROVE  Seen(s) = Replied(Seen(r), answer, got)
BY DEF Seen, Replied

LEMMA AnswersAreSeen == answers = [c \in Callers |-> Seen(call[c])]
BY DEF answers, Seen

LEMMA AnswersMove ==
  ASSUME TypeOK, NEW c \in Callers, Others(c)
  PROVE  answers' = [answers EXCEPT ![c] = Seen(call'[c])]
<1>1. answers' = [b \in Callers |-> Seen(call'[b])]
  BY DEF answers, Seen
<1>2. answers = [b \in Callers |-> Seen(call[b])]
  BY AnswersAreSeen
<1>3. \A b \in Callers : b # c => call'[b] = call[b]
  BY DEF Others
<1> QED BY <1>1, <1>2, <1>3

\* A call that only goes on does nothing the promise sees.
LEMMA GoingOnIsUnseen ==
  ASSUME TypeOK, NEW c \in Callers, NEW pc, NEW level, NEW parents,
         Turned(c, pc, level, parents, call[c].answer)
  PROVE  answers' = answers
<1>1. Seen(call'[c]) = Seen(call[c])
  BY DEF Turned, Seen
<1>2. Others(c)
  BY DEF Turned, Others
<1> QED BY <1>1, <1>2, AnswersMove, AnswersAreSeen

LEMMA BeginRefines ==
  ASSUME StoreAssumption, IInv, NEW c \in Callers, At(c, "idle"),
         NEW op \in {"put", "get", "delete"}, NEW k \in Keys, NEW content \in Contents \cup {NoBlob},
         NEW pc \in PCs, Become(c, NewCall(op, k, content, pc)),
         op = "put" => content \in Contents, op # "put" => content = NoBlob, UNCHANGED stored
  PROVE  Promise!Next
<1> DEFINE r == NewCall(op, k, content, pc)
<1>1. call'[c] = r /\ Others(c)
  <2>1. TypeOK /\ r \in Call
    BY NewRecord DEF IInv
  <2> HIDE DEF r
  <2>2. Become(c, r)
    BY DEF r
  <2> QED BY <2>1, <2>2, Replaced DEF Others
<1>2. r.op = op /\ r.key = k /\ r.content = content /\ r.answer = "none" /\ r.got = NoBlob
  BY NewRecord
<1> HIDE DEF r
<1>3. Seen(call'[c]) = Promise!NewCall(op, k, content)
  BY <1>1, <1>2 DEF Seen, Promise!NewCall
<1>4. answers' = [answers EXCEPT ![c] = Promise!NewCall(op, k, content)]
  BY <1>1, <1>3, AnswersMove DEF IInv
<1>5. answers[c].answer # "none"
  BY DEF answers, IInv, Shapes, Shape, At
<1>6. Promise!Begin(c)
  BY <1>4, <1>5 DEF Promise!Begin
<1> QED BY <1>6 DEF Promise!Next

\* A call that is in progress and ends with a failure, which changes nothing.
LEMMA FailRefines ==
  ASSUME StoreAssumption, IInv, NEW c \in Callers, End(c, "failed"), call[c].answer = "none",
         UNCHANGED stored
  PROVE  Promise!Next
<1>1. Turned(c, "idle", Depth, TRUE, "failed") /\ Others(c)
  BY EndTurns DEF IInv, Turned, Others
<1>2. call[c].got = NoBlob
  BY DEF IInv, Shapes, Shape
<1> DEFINE q == answers[c]
<1>3. q = Seen(call[c])
  BY AnswersAreSeen
<1>4. Seen(call'[c]) = Replied(q, "failed", NoBlob)
  <2>1. Seen(call'[c]) = Replied(Seen(call[c]), "failed", NoBlob)
    BY <1>1, <1>2, SeenReply DEF Turned
  <2> QED BY <1>3, <2>1
<1>5. Promise!Reply(c, "failed", NoBlob)
  BY <1>1, <1>4, AnswersMove DEF Promise!Reply, Replied, IInv
<1>6. q.answer = "none" /\ q.op \in {"put", "get", "delete"}
  BY <1>3, CallTypes DEF Seen, IInv
<1>7. Promise!Fail(c)
  BY <1>5, <1>6 DEF Promise!Fail, Promise!Pending, Promise!Ops
<1> QED BY <1>7 DEF Promise!Next

\* The moments at which a write and a deletion take effect.
LEMMA EffectRefines ==
  ASSUME StoreAssumption, IInv, NEW c \in Callers, NEW pc, NEW level, NEW parents,
         Turned(c, pc, level, parents, "done"), call[c].answer = "none", call[c].op # "get",
         stored' = [stored EXCEPT ![call[c].key] = call[c].content]
  PROVE  Promise!Next
<1>1. Others(c)
  BY DEF Turned, Others
<1>2. call[c].got = NoBlob
  BY DEF IInv, Shapes, Shape
<1> DEFINE q == answers[c]
<1>3. q = Seen(call[c])
  BY AnswersAreSeen
<1>4. Seen(call'[c]) = Replied(q, "done", NoBlob)
  <2>1. Seen(call'[c]) = Replied(Seen(call[c]), "done", NoBlob)
    BY <1>2, SeenReply DEF Turned
  <2> QED BY <1>3, <2>1
<1>5. Promise!Reply(c, "done", NoBlob)
  BY <1>1, <1>4, AnswersMove DEF Promise!Reply, Replied, IInv
<1>6. /\ q.answer = "none" /\ q.op \in {"put", "delete"}
      /\ q.key = call[c].key /\ q.content = call[c].content
  BY <1>3, CallTypes DEF Seen, IInv
<1>7. Promise!PutOrDelete(c)
  BY <1>5, <1>6 DEF Promise!PutOrDelete, Promise!Pending, Promise!Change
<1> QED BY <1>7 DEF Promise!Next

LEMMA PutRefines ==
  ASSUME StoreAssumption, IInv, NEW c \in Callers, PutStep(c)
  PROVE  Promise!Next \/ UNCHANGED <<stored, answers>>
<1> USE DEF IInv
<1>1. CASE BeginPut(c)
  <2>1. PICK k \in Keys, content \in Contents : Become(c, NewCall("put", k, content, "mkdir"))
    BY <1>1 DEF BeginPut
  <2>2. "mkdir" \in PCs
    BY DEF PCs
  <2> QED BY <1>1, <2>1, <2>2, BeginRefines DEF BeginPut
<1>2. CASE MakeDirectory(c) \/ IsDirectory(c)
  BY <1>2, DescendTurns, GoingOnIsUnseen DEF MakeDirectory, IsDirectory
<1>3. CASE MakeParent(c)
  <2>1. call[c].level # 1
    BY <1>3, CallTypes DEF MakeParent, HasParent
  <2> QED BY <1>3, <2>1, ClimbTurns, GoingOnIsUnseen DEF MakeParent
<1>4. CASE ParentLost(c) \/ DirectoryLost(c) \/ TemporaryFails(c)
  <2>1. call[c].answer = "none"
    BY <1>4, PutFacts DEF ParentLost, DirectoryLost, TemporaryFails, At, Writing
  <2> QED BY <1>4, <2>1, FailRefines DEF ParentLost, DirectoryLost, TemporaryFails
<1>5. CASE DirectoryExists(c) \/ CreateTemporary(c)
  <2>1. "isdir" \in PCs /\ "writing" \in PCs
    BY DEF PCs
  <2> QED BY <1>5, <2>1, MoveTurns, GoingOnIsUnseen DEF DirectoryExists, CreateTemporary
<1>6. CASE Replace(c)
  <2>1. call[c].answer = "none" /\ call[c].op = "put"
    BY <1>6, PutFacts DEF Replace, At, Writing
  <2>2. Turned(c, "idle", Depth, TRUE, "done")
    BY <1>6, EndTurns DEF Replace
  <2> QED BY <1>6, <2>1, <2>2, EffectRefines DEF Replace
<1> QED BY <1>1, <1>2, <1>3, <1>4, <1>5, <1>6 DEF PutStep

LEMMA DeleteRefines ==
  ASSUME StoreAssumption, IInv, NEW c \in Callers, DeleteStep(c)
  PROVE  Promise!Next \/ UNCHANGED <<stored, answers>>
<1> USE DEF IInv
<1>1. CASE BeginDelete(c)
  <2>1. PICK k \in Keys : Become(c, NewCall("delete", k, NoBlob, "unlink"))
    BY <1>1 DEF BeginDelete
  <2>2. "unlink" \in PCs
    BY DEF PCs
  <2> QED BY <1>1, <2>1, <2>2, BeginRefines DEF BeginDelete
<1>2. CASE Unlink(c)
  <2>1. call[c].answer = "none" /\ call[c].op = "delete" /\ call[c].content = NoBlob
    BY <1>2 DEF Unlink, At, Shapes, Shape
  <2> QED BY <1>2, <2>1, UnlinkTurns, EffectRefines DEF Unlink
<1>3. CASE RemoveDirectory(c)
  <2> DEFINE r == Climbed(c)
             gone == Here(c)
  <2>1. call[c].answer = "done"
    BY <1>3 DEF RemoveDirectory, At, Shapes, Shape
  <2>2. /\ r \in Call /\ r.op = call[c].op /\ r.key = call[c].key
        /\ r.content = call[c].content /\ r.got = call[c].got /\ r.answer = "done"
    BY <2>1, ClimbedRecord
  <2>3. TypeOK /\ Crossing(c, r, gone) /\ UNCHANGED stored
    BY <1>3 DEF RemoveDirectory
  <2> HIDE DEF r, gone, IInv
  <2>4. Seen(call'[c]) = Seen(call[c])
    <3>1. call'[c] = r
      BY <2>3 DEF Crossing
    <3>2. /\ call'[c].op = call[c].op /\ call'[c].key = call[c].key
          /\ call'[c].content = call[c].content /\ call'[c].answer = call[c].answer
          /\ call'[c].got = call[c].got
      BY <2>1, <2>2, <3>1
    <3> QED BY <3>2 DEF Seen
  <2>5. ASSUME NEW b \in Callers, b # c PROVE Seen(call'[b]) = Seen(call[b])
    <3> DEFINE q == call[b]
               n == call'[b]
    <3>1. q \in Call
      BY <2>3 DEF TypeOK
    <3>2. n = q \/ n = [q EXCEPT !.crossed = TRUE]
      BY <2>3, <2>5 DEF Crossing
    <3> HIDE DEF q, n
    <3>3. /\ n.op = q.op /\ n.key = q.key /\ n.content = q.content
          /\ n.answer = q.answer /\ n.got = q.got
      BY <3>1, <3>2, CrossedRecord
    <3> QED BY <3>3 DEF Seen, q, n
  <2>6. answers' = [b \in Callers |-> Seen(call'[b])]
    BY DEF answers, Seen
  <2> QED BY <2>3, <2>4, <2>5, <2>6, AnswersAreSeen
<1>4. CASE StopClimbing(c)
  <2>1. call[c].answer = "done"
    BY <1>4 DEF StopClimbing, At, Shapes, Shape
  <2>2. Turned(c, "idle", Depth, TRUE, call[c].answer)
    BY <1>4, <2>1, EndTurns DEF StopClimbing
  <2> QED BY <1>4, <2>2, GoingOnIsUnseen DEF StopClimbing
<1> QED BY <1>1, <1>2, <1>3, <1>4 DEF DeleteStep

LEMMA ReadRefines ==
  ASSUME StoreAssumption, IInv, NEW c \in Callers, Read(c)
  PROVE  Promise!Next
<1> USE DEF IInv
<1> DEFINE content == stored[call[c].key]
           answer == IF content = NoBlob THEN "missing" ELSE "done"
           e == Ended(c, answer)
           r == [e EXCEPT !.got = content]
<1>1. At(c, "reading") /\ Become(c, r) /\ UNCHANGED stored
  BY DEF Read
<1>2. call[c].op = "get" /\ call[c].answer = "none"
  BY <1>1 DEF At, Shapes, Shape
<1>3. content \in Contents \cup {NoBlob} /\ answer \in {"done", "missing", "failed"}
  BY CallTypes DEF TypeOK
<1> HIDE DEF answer
<1>4. /\ e \in Call /\ e.op = call[c].op /\ e.key = call[c].key
      /\ e.content = call[c].content /\ e.answer = answer
  BY <1>3, EndedRecord
<1> HIDE DEF e, content
<1>5. r \in Call
  BY <1>3, <1>4 DEF Call
<1>6. /\ r.op = call[c].op /\ r.key = call[c].key /\ r.content = call[c].content
      /\ r.answer = answer /\ r.got = content
  BY <1>4 DEF Call
<1> HIDE DEF r
<1>7. call'[c] = r /\ Others(c)
  BY <1>1, <1>5, Replaced DEF Others
<1> DEFINE q == answers[c]
<1>8. q = Seen(call[c])
  BY AnswersAreSeen
<1>9. Seen(call'[c]) = Replied(q, answer, content)
  <2>1. Seen(call'[c]) = Replied(Seen(call[c]), answer, content)
    BY <1>6, <1>7, SeenReply
  <2> QED BY <1>8, <2>1
<1>10. Promise!Reply(c, answer, content)
  BY <1>7, <1>9, AnswersMove DEF Promise!Reply, Replied
<1>11. q.op = "get" /\ q.answer = "none" /\ q.key = call[c].key
  BY <1>2, <1>8 DEF Seen
<1>12. Promise!Get(c)
  BY <1>1, <1>10, <1>11 DEF Promise!Get, Promise!Pending, content, answer
<1> QED BY <1>12 DEF Promise!Next

LEMMA StepRefines ==
  ASSUME StoreAssumption, IInv, [Next]_vars
  PROVE  [Promise!Next]_<<stored, answers>>
<1>1. CASE UNCHANGED vars
  BY <1>1 DEF vars, answers
<1>2. ASSUME NEW c \in Callers,
             PutStep(c) \/ DeleteStep(c) \/ BeginGet(c) \/ Read(c) \/ IOError(c) \/ Killed(c)
      PROVE  Promise!Next \/ UNCHANGED <<stored, answers>>
  <2>1. CASE PutStep(c) \/ DeleteStep(c) \/ Read(c)
    BY <2>1, PutRefines, DeleteRefines, ReadRefines
  <2>2. CASE BeginGet(c)
    <3>1. PICK k \in Keys : Become(c, NewCall("get", k, NoBlob, "reading"))
      BY <2>2 DEF BeginGet
    <3>2. "reading" \in PCs
      BY DEF PCs
    <3> QED BY <2>2, <3>1, <3>2, BeginRefines DEF BeginGet
  <2>3. CASE IOError(c)
    <3>1. call[c].answer = "none"
      BY <2>3 DEF IOError, IInv, Shapes, Shape, Writing
    <3> QED BY <2>3, <3>1, FailRefines DEF IOError
  <2>4. CASE Killed(c)
    <3>1. CASE call[c].answer = "none"
      BY <2>4, <3>1, FailRefines DEF Killed
    <3>2. CASE call[c].answer # "none"
      <4>1. End(c, call[c].answer) /\ UNCHANGED stored
        BY <2>4, <3>2 DEF Killed
      <4>2. call[c].answer \in {"done", "missing", "failed"}
        BY <3>2, CallTypes DEF IInv
      <4>3. Turned(c, "idle", Depth, TRUE, call[c].answer)
        BY <4>1, <4>2, EndTurns DEF IInv
      <4> QED BY <4>1, <4>3, GoingOnIsUnseen DEF IInv
    <3> QED BY <3>1, <3>2
  <2> QED BY <1>2, <2>1, <2>2, <2>3, <2>4
<1> QED BY <1>1, <1>2 DEF Next

LEMMA InitRefines == ASSUME StoreAssumption, Init PROVE Promise!Init
<1> DEFINE first == CHOOSE k \in Keys : TRUE
<1>1. NoCall = [NewCall("get", first, NoBlob, "idle") EXCEPT !.answer = "failed"]
  BY DEF NoCall
<1>2. Promise!NoCall = [Promise!NewCall("get", first, NoBlob) EXCEPT !.answer = "failed"]
  BY DEF Promise!NoCall
<1> HIDE DEF first
<1>3. Seen(NoCall) = Promise!NoCall
  BY <1>1, <1>2 DEF NewCall, Promise!NewCall, Seen
<1>4. answers = [c \in Callers |-> Promise!NoCall]
  BY <1>3, AnswersAreSeen DEF Init
<1> QED BY <1>4 DEF Init, Promise!Init

\* LocalBlobStore implements the promise of a BlobStore: however the calls
\* interleave, each takes effect at one moment or fails without any, and no
\* reader sees part of a file.
THEOREM PromiseImplemented == ASSUME StoreAssumption PROVE Spec => ImplementsPromise
<1>1. Init => Promise!Init
  BY InitRefines
<1>2. IInv /\ [Next]_vars => [Promise!Next]_<<stored, answers>>
  BY StepRefines
<1> QED BY <1>1, <1>2, InvariantHolds, PTL DEF Spec, ImplementsPromise, Promise!Spec

(***************************************************************************)
(* The inductive invariant of the object store.                            *)
(***************************************************************************)
ObjectTypes ==
  /\ bucket \in BOOLEAN
  /\ objects \in [ObjectKeys -> Contents \cup {NoBlob}]
  /\ requests \in [Callers -> S3!Call]
  /\ refusals \in Nat

\* What the control point of a request says about the rest of its record.
RequestShape(r) ==
  /\ r.pc \in {"head", "create", "upload"} =>
       r.op = "put" /\ r.answer = "none" /\ r.content \in Contents
  /\ r.pc = "read" => r.op = "get" /\ r.answer = "none"
  /\ r.pc = "remove" => r.op = "delete" /\ r.answer = "none"
  /\ r.pc = "idle" => r.answer # "none"
  /\ r.op # "put" => r.content = NoBlob

\* A bucket stays, so that a request which began with one never creates it.
BucketStays(r) == r.settled => bucket /\ r.pc # "create"

ObjectInv ==
  /\ ObjectTypes
  /\ \A c \in Callers : RequestShape(requests[c]) /\ BucketStays(requests[c])
  /\ PutFailsForBucket

(***************************************************************************)
(* Records.                                                                *)
(***************************************************************************)
NoOtherMoves(c) == \A b \in Callers : b # c => requests'[b] = requests[b]

LEMMA RequestReplaced ==
  ASSUME ObjectTypes, NEW c \in Callers, NEW r \in S3!Call, S3!Become(c, r)
  PROVE  /\ requests' \in [Callers -> S3!Call]
         /\ requests'[c] = r
         /\ NoOtherMoves(c)
BY DEF S3!Become, ObjectTypes, NoOtherMoves

LEMMA RequestTypes ==
  ASSUME ObjectTypes, NEW c \in Callers
  PROVE  requests[c] \in S3!Call
BY DEF ObjectTypes

LEMMA NewRequest ==
  ASSUME ObjectTypes, NEW op \in {"put", "get", "delete"}, NEW k \in ObjectKeys,
         NEW content \in Contents \cup {NoBlob}, NEW pc \in S3!PCs
  PROVE  LET r == S3!NewCall(op, k, content, pc)
         IN /\ r \in S3!Call
            /\ r.op = op /\ r.key = k /\ r.content = content /\ r.pc = pc
            /\ r.answer = "none" /\ r.got = NoBlob /\ r.settled = bucket
BY DEF S3!NewCall, S3!Call, ObjectTypes

LEMMA GotoKeeps ==
  ASSUME ObjectTypes, NEW c \in Callers, NEW pc \in S3!PCs, S3!Goto(c, pc)
  PROVE  LET r == requests[c]
             n == requests'[c]
         IN /\ requests' \in [Callers -> S3!Call] /\ NoOtherMoves(c)
            /\ n.op = r.op /\ n.key = r.key /\ n.content = r.content
            /\ n.answer = r.answer /\ n.got = r.got /\ n.settled = r.settled
            /\ n.pc = pc
<1> DEFINE n == [requests[c] EXCEPT !.pc = pc]
<1>1. n \in S3!Call /\ S3!Become(c, n)
  BY RequestTypes DEF S3!Goto, S3!Call
<1>2. requests' \in [Callers -> S3!Call] /\ requests'[c] = n /\ NoOtherMoves(c)
  BY <1>1, RequestReplaced
<1> QED BY <1>2, RequestTypes DEF S3!Call

LEMMA EndKeeps ==
  ASSUME ObjectTypes, NEW c \in Callers, NEW answer \in {"done", "missing", "failed"},
         NEW got \in Contents \cup {NoBlob}, S3!End(c, answer, got)
  PROVE  LET r == requests[c]
             n == requests'[c]
         IN /\ requests' \in [Callers -> S3!Call] /\ NoOtherMoves(c)
            /\ n.op = r.op /\ n.key = r.key /\ n.content = r.content
            /\ n.answer = answer /\ n.got = got /\ n.settled = r.settled
            /\ n.pc = "idle"
<1> DEFINE n == [requests[c] EXCEPT !.pc = "idle", !.answer = answer, !.got = got]
<1>1. n \in S3!Call /\ S3!Become(c, n)
  BY RequestTypes DEF S3!End, S3!Call, S3!PCs
<1>2. requests' \in [Callers -> S3!Call] /\ requests'[c] = n /\ NoOtherMoves(c)
  BY <1>1, RequestReplaced
<1> QED BY <1>2, RequestTypes DEF S3!Call

(***************************************************************************)
(* What a request may do to the invariant: begin, go on, or end.           *)
(***************************************************************************)
LEMMA ObjectChange ==
  ASSUME ObjectTypes, NEW c \in Callers, NEW content \in Contents \cup {NoBlob},
         S3!Change(c, content)
  PROVE  objects' \in [ObjectKeys -> Contents \cup {NoBlob}]
BY DEF S3!Change, ObjectTypes

\* The invariant holds if it holds for the request that moves, nothing is
\* refused less and no bucket goes.
LEMMA OneMoves ==
  ASSUME ObjectInv, NEW c \in Callers,
         requests' \in [Callers -> S3!Call], NoOtherMoves(c),
         objects' \in [ObjectKeys -> Contents \cup {NoBlob}],
         bucket' \in BOOLEAN, bucket => bucket',
         refusals' \in Nat, refusals > 0 => refusals' > 0,
         RequestShape(requests[c])', BucketStays(requests[c])',
         requests'[c].op = "put" /\ requests'[c].answer = "failed" =>
           refusals' > 0 \/ ~requests'[c].settled
  PROVE  ObjectInv'
<1>1. ObjectTypes'
  BY DEF ObjectTypes
<1>2. ASSUME NEW b \in Callers PROVE RequestShape(requests[b])' /\ BucketStays(requests[b])'
  <2>1. CASE b = c
    BY <2>1
  <2>2. CASE b # c
    BY <2>2 DEF NoOtherMoves, ObjectInv, RequestShape, BucketStays
  <2> QED BY <2>1, <2>2
<1>3. PutFailsForBucket'
  BY DEF PutFailsForBucket, S3!PutFailsForBucket, ObjectInv, NoOtherMoves
<1> QED BY <1>1, <1>2, <1>3 DEF ObjectInv

LEMMA RequestBegins ==
  ASSUME ObjectInv, NEW c \in Callers,
         NEW op \in {"put", "get", "delete"}, NEW k \in ObjectKeys,
         NEW content \in Contents \cup {NoBlob}, NEW pc \in {"head", "read", "remove"},
         S3!Become(c, S3!NewCall(op, k, content, pc)),
         pc = "head" => op = "put" /\ content \in Contents,
         pc = "read" => op = "get" /\ content = NoBlob,
         pc = "remove" => op = "delete" /\ content = NoBlob,
         UNCHANGED <<bucket, objects, refusals>>
  PROVE  ObjectInv'
<1> DEFINE r == S3!NewCall(op, k, content, pc)
<1>1. /\ r \in S3!Call /\ r.op = op /\ r.content = content /\ r.pc = pc
      /\ r.answer = "none" /\ r.settled = bucket
  BY NewRequest DEF S3!PCs, ObjectInv
<1> HIDE DEF r
<1>2. requests' \in [Callers -> S3!Call] /\ requests'[c] = r /\ NoOtherMoves(c)
  BY <1>1, RequestReplaced DEF ObjectInv, r
<1>3. RequestShape(requests[c])' /\ BucketStays(requests[c])'
  BY <1>1, <1>2 DEF RequestShape, BucketStays
<1> QED BY <1>1, <1>2, <1>3, OneMoves DEF ObjectInv, ObjectTypes

LEMMA RequestEnds ==
  ASSUME ObjectInv, NEW c \in Callers, NEW answer \in {"done", "missing", "failed"},
         NEW got \in Contents \cup {NoBlob}, S3!End(c, answer, got),
         objects' \in [ObjectKeys -> Contents \cup {NoBlob}],
         bucket' \in BOOLEAN, bucket => bucket',
         refusals' \in Nat, refusals > 0 => refusals' > 0,
         requests[c].op = "put" /\ answer = "failed" => refusals' > 0 \/ ~requests[c].settled
  PROVE  ObjectInv'
<1>1. /\ requests' \in [Callers -> S3!Call] /\ NoOtherMoves(c)
      /\ requests'[c].op = requests[c].op /\ requests'[c].content = requests[c].content
      /\ requests'[c].answer = answer /\ requests'[c].settled = requests[c].settled
      /\ requests'[c].pc = "idle"
  BY EndKeeps DEF ObjectInv
<1>2. RequestShape(requests[c])' /\ BucketStays(requests[c])'
  BY <1>1 DEF RequestShape, BucketStays, ObjectInv
<1> QED BY <1>1, <1>2, OneMoves

LEMMA RequestGoesOn ==
  ASSUME ObjectInv, NEW c \in Callers, NEW pc \in {"create", "upload"}, S3!Goto(c, pc),
         requests[c].pc \in {"head", "create"},
         pc = "create" => ~requests[c].settled,
         bucket' \in BOOLEAN, bucket => bucket', UNCHANGED <<objects, refusals>>
  PROVE  ObjectInv'
<1>1. /\ requests' \in [Callers -> S3!Call] /\ NoOtherMoves(c)
      /\ requests'[c].op = requests[c].op /\ requests'[c].content = requests[c].content
      /\ requests'[c].answer = requests[c].answer
      /\ requests'[c].settled = requests[c].settled
      /\ requests'[c].pc = pc
  BY GotoKeeps DEF ObjectInv, S3!PCs
<1>2. RequestShape(requests[c])' /\ BucketStays(requests[c])'
  BY <1>1 DEF RequestShape, BucketStays, ObjectInv
<1> QED BY <1>1, <1>2, OneMoves DEF ObjectInv, ObjectTypes, RequestShape

(***************************************************************************)
(* Each step keeps the invariant.                                          *)
(***************************************************************************)
\* Requests that are about to write, to read or to remove.
LEMMA BeginKept ==
  ASSUME ObjectInv, NEW c \in Callers,
         S3!BeginPut(c) \/ S3!BeginGet(c) \/ S3!BeginDelete(c)
  PROVE  ObjectInv'
<1>1. CASE S3!BeginPut(c)
  <2>1. PICK k \in ObjectKeys, content \in Contents :
          S3!Become(c, S3!NewCall("put", k, content, "head"))
    BY <1>1 DEF S3!BeginPut
  <2> QED BY <1>1, <2>1, RequestBegins DEF S3!BeginPut
<1>2. CASE S3!BeginGet(c)
  <2>1. PICK k \in ObjectKeys : S3!Become(c, S3!NewCall("get", k, NoBlob, "read"))
    BY <1>2 DEF S3!BeginGet
  <2> QED BY <1>2, <2>1, RequestBegins DEF S3!BeginGet
<1>3. CASE S3!BeginDelete(c)
  <2>1. PICK k \in ObjectKeys : S3!Become(c, S3!NewCall("delete", k, NoBlob, "remove"))
    BY <1>3 DEF S3!BeginDelete
  <2> QED BY <1>3, <2>1, RequestBegins DEF S3!BeginDelete
<1> QED BY <1>1, <1>2, <1>3

\* _ensure_bucket: only a request that began without a bucket creates one.
LEMMA BucketKept ==
  ASSUME ObjectInv, NEW c \in Callers, S3!HeadBucket(c) \/ S3!CreateBucket(c)
  PROVE  ObjectInv'
<1>1. bucket \in BOOLEAN /\ objects \in [ObjectKeys -> Contents \cup {NoBlob}] /\ refusals \in Nat
  BY DEF ObjectInv, ObjectTypes
<1>2. BucketStays(requests[c])
  BY DEF ObjectInv
<1>3. CASE S3!HeadBucket(c)
  <2>1. bucket => S3!Goto(c, "upload")
    BY <1>3 DEF S3!HeadBucket
  <2>2. ~bucket => S3!Goto(c, "create") /\ ~requests[c].settled
    BY <1>2, <1>3 DEF S3!HeadBucket, BucketStays
  <2> QED BY <1>1, <1>3, <2>1, <2>2, RequestGoesOn DEF S3!HeadBucket, S3!At
<1>4. CASE S3!CreateBucket(c) /\ S3!Goto(c, "upload")
  BY <1>1, <1>4, RequestGoesOn DEF S3!CreateBucket, S3!At
<1>5. CASE S3!CreateBucket(c) /\ S3!End(c, "failed", NoBlob)
  <2>1. ~requests[c].settled
    BY <1>2, <1>5 DEF S3!CreateBucket, S3!At, BucketStays
  <2> QED BY <1>1, <1>5, <2>1, RequestEnds DEF S3!CreateBucket
<1> QED BY <1>3, <1>4, <1>5 DEF S3!CreateBucket

\* The requests that are served.
LEMMA ServedKept ==
  ASSUME ObjectInv, NEW c \in Callers,
         S3!Upload(c) \/ S3!GetObject(c) \/ S3!DeleteObject(c) \/ S3!NoSuchBucket(c)
  PROVE  ObjectInv'
<1>1. bucket \in BOOLEAN /\ objects \in [ObjectKeys -> Contents \cup {NoBlob}] /\ refusals \in Nat
  BY DEF ObjectInv, ObjectTypes
<1>2. requests[c] \in S3!Call /\ RequestShape(requests[c])
  BY RequestTypes DEF ObjectInv
<1>3. CASE S3!Upload(c)
  <2>1. requests[c].content \in Contents \cup {NoBlob}
    BY <1>2 DEF S3!Call
  <2> QED BY <1>1, <1>3, <2>1, RequestEnds, ObjectChange DEF S3!Upload, ObjectInv
<1>4. CASE S3!GetObject(c)
  <2> DEFINE content == objects[requests[c].key]
             answer == IF content = NoBlob THEN "missing" ELSE "done"
  <2>1. content \in Contents \cup {NoBlob} /\ answer \in {"done", "missing", "failed"}
        /\ answer # "failed"
    BY <1>1, <1>2 DEF S3!Call
  <2>2. S3!End(c, answer, content) /\ UNCHANGED <<bucket, objects, refusals>>
    BY <1>4 DEF S3!GetObject
  <2> HIDE DEF content, answer
  <2> QED BY <1>1, <2>1, <2>2, RequestEnds
<1>5. CASE S3!DeleteObject(c)
  BY <1>1, <1>5, RequestEnds, ObjectChange DEF S3!DeleteObject, ObjectInv
<1>6. CASE S3!NoSuchBucket(c)
  <2>1. requests[c].op # "put"
    BY <1>2, <1>6 DEF S3!NoSuchBucket, RequestShape
  <2> QED BY <1>1, <1>6, <2>1, RequestEnds DEF S3!NoSuchBucket
<1> QED BY <1>3, <1>4, <1>5, <1>6

LEMMA RefusalKept ==
  ASSUME ObjectInv, NEW c \in Callers, S3!RequestFails(c)
  PROVE  ObjectInv'
<1>1. bucket \in BOOLEAN /\ objects \in [ObjectKeys -> Contents \cup {NoBlob}] /\ refusals \in Nat
  BY DEF ObjectInv, ObjectTypes
<1>2. requests[c].content \in Contents \cup {NoBlob}
  BY RequestTypes DEF ObjectInv, S3!Call
<1>3. refusals' \in Nat /\ refusals' > 0
  BY <1>1 DEF S3!RequestFails
<1>4. S3!End(c, "failed", NoBlob)
  BY DEF S3!RequestFails, S3!FailedAnswer
<1>5. bucket' \in BOOLEAN /\ (bucket => bucket')
  BY <1>1 DEF S3!RequestFails
<1>6. objects' \in [ObjectKeys -> Contents \cup {NoBlob}]
  BY <1>1, <1>2, ObjectChange DEF S3!RequestFails, ObjectInv
<1> QED BY <1>3, <1>4, <1>5, <1>6, RequestEnds

\* The health check of a deployment creates the bucket beside the requests.
LEMMA ProbeKept ==
  ASSUME ObjectInv, S3!ProbeHead \/ S3!ProbeCreate \/ UNCHANGED objectVars
  PROVE  ObjectInv'
<1>1. UNCHANGED <<objects, requests, refusals>> /\ bucket' \in {bucket, TRUE}
  BY DEF S3!ProbeHead, S3!ProbeCreate, objectVars
<1> QED
  BY <1>1 DEF ObjectInv, ObjectTypes, RequestShape, BucketStays, PutFailsForBucket,
              S3!PutFailsForBucket

LEMMA ObjectInitHolds == ASSUME S3!Init PROVE ObjectInv
<1>1. (CHOOSE k \in ObjectKeys : TRUE) \in ObjectKeys
  BY ObjectKeysAssumption
<1>2. /\ S3!NoCall \in S3!Call /\ S3!NoCall.pc = "idle" /\ S3!NoCall.op = "get"
      /\ S3!NoCall.content = NoBlob /\ S3!NoCall.answer = "failed" /\ ~S3!NoCall.settled
  BY <1>1 DEF S3!NoCall, S3!Call, S3!PCs
<1>3. requests \in [Callers -> S3!Call] /\ \A c \in Callers : requests[c] = S3!NoCall
  BY <1>2 DEF S3!Init
<1>4. \A c \in Callers : RequestShape(requests[c]) /\ BucketStays(requests[c])
  BY <1>2, <1>3 DEF RequestShape, BucketStays
<1>5. ObjectTypes
  BY <1>3 DEF ObjectTypes, S3!Init
<1>6. PutFailsForBucket
  BY <1>2, <1>3 DEF PutFailsForBucket, S3!PutFailsForBucket
<1> QED BY <1>4, <1>5, <1>6 DEF ObjectInv

LEMMA ObjectStepHolds ==
  ASSUME ObjectInv, S3!Next \/ UNCHANGED objectVars
  PROVE  ObjectInv'
<1>1. CASE S3!ProbeHead \/ S3!ProbeCreate \/ UNCHANGED objectVars
  BY <1>1, ProbeKept
<1>2. ASSUME NEW c \in Callers, S3!Step(c) PROVE ObjectInv'
  BY <1>2, BeginKept, BucketKept, ServedKept, RefusalKept DEF S3!Step
<1> QED BY <1>1, <1>2 DEF S3!Next

(***************************************************************************)
(* The object store refines the promise: what a caller sees of a request   *)
(* is Seen, as of the local store.                                         *)
(***************************************************************************)
LEMMA RequestsAreSeen == S3!answers = [c \in Callers |-> Seen(requests[c])]
BY DEF S3!answers, Seen

LEMMA RequestAnswered ==
  ASSUME ObjectInv, NEW c \in Callers, NoOtherMoves(c)
  PROVE  S3!answers' = [S3!answers EXCEPT ![c] = Seen(requests'[c])]
<1>1. S3!answers' = [b \in Callers |-> Seen(requests'[b])]
  BY DEF S3!answers, Seen
<1>2. \A b \in Callers : b # c => requests'[b] = requests[b]
  BY DEF NoOtherMoves
<1> QED BY <1>1, <1>2, RequestsAreSeen

LEMMA BeginningSeen ==
  ASSUME ObjectInv, NEW c \in Callers, requests[c].answer # "none",
         NEW op \in {"put", "get", "delete"}, NEW k \in ObjectKeys,
         NEW content \in Contents \cup {NoBlob}, NEW pc \in S3!PCs,
         S3!Become(c, S3!NewCall(op, k, content, pc)),
         op = "put" => content \in Contents, op # "put" => content = NoBlob, UNCHANGED objects
  PROVE  S3!Promise!Next
<1> DEFINE r == S3!NewCall(op, k, content, pc)
<1>1. /\ r \in S3!Call /\ r.op = op /\ r.key = k /\ r.content = content
      /\ r.answer = "none" /\ r.got = NoBlob
  BY NewRequest DEF ObjectInv
<1> HIDE DEF r
<1>2. requests'[c] = r /\ NoOtherMoves(c)
  BY <1>1, RequestReplaced DEF ObjectInv, r
<1>3. Seen(requests'[c]) = S3!Promise!NewCall(op, k, content)
  BY <1>1, <1>2 DEF Seen, S3!Promise!NewCall
<1>4. S3!answers' = [S3!answers EXCEPT ![c] = S3!Promise!NewCall(op, k, content)]
  BY <1>2, <1>3, RequestAnswered
<1>5. S3!answers[c].answer # "none"
  BY DEF S3!answers
<1>6. S3!Promise!Begin(c)
  BY <1>4, <1>5 DEF S3!Promise!Begin
<1> QED BY <1>6 DEF S3!Promise!Next

LEMMA BeginRefinesPromise ==
  ASSUME ObjectInv, NEW c \in Callers,
         S3!BeginPut(c) \/ S3!BeginGet(c) \/ S3!BeginDelete(c)
  PROVE  S3!Promise!Next
<1>1. requests[c].answer # "none" /\ UNCHANGED objects
  BY DEF S3!BeginPut, S3!BeginGet, S3!BeginDelete, S3!At, ObjectInv, RequestShape
<1>2. {"head", "read", "remove"} \subseteq S3!PCs
  BY DEF S3!PCs
<1>3. CASE S3!BeginPut(c)
  <2>1. PICK k \in ObjectKeys, content \in Contents :
          S3!Become(c, S3!NewCall("put", k, content, "head"))
    BY <1>3 DEF S3!BeginPut
  <2> QED BY <1>1, <1>2, <2>1, BeginningSeen
<1>4. CASE S3!BeginGet(c)
  <2>1. PICK k \in ObjectKeys : S3!Become(c, S3!NewCall("get", k, NoBlob, "read"))
    BY <1>4 DEF S3!BeginGet
  <2> QED BY <1>1, <1>2, <2>1, BeginningSeen
<1>5. CASE S3!BeginDelete(c)
  <2>1. PICK k \in ObjectKeys : S3!Become(c, S3!NewCall("delete", k, NoBlob, "remove"))
    BY <1>5 DEF S3!BeginDelete
  <2> QED BY <1>1, <1>2, <2>1, BeginningSeen
<1> QED BY <1>3, <1>4, <1>5

\* How a request that ends is seen.
LEMMA EndingSeen ==
  ASSUME ObjectInv, NEW c \in Callers, NEW answer \in {"done", "missing", "failed"},
         NEW got \in Contents \cup {NoBlob}, S3!End(c, answer, got)
  PROVE  S3!Promise!Reply(c, answer, got)
<1>1. /\ NoOtherMoves(c) /\ requests'[c].op = requests[c].op /\ requests'[c].key = requests[c].key
      /\ requests'[c].content = requests[c].content
      /\ requests'[c].answer = answer /\ requests'[c].got = got
  BY EndKeeps DEF ObjectInv
<1>2. S3!answers[c] = Seen(requests[c])
  BY RequestsAreSeen
<1>3. Seen(requests'[c]) = [op |-> S3!answers[c].op, key |-> S3!answers[c].key,
                            content |-> S3!answers[c].content, answer |-> answer, got |-> got]
  BY <1>1, <1>2 DEF Seen
<1> QED BY <1>1, <1>3, RequestAnswered DEF S3!Promise!Reply

\* A request in progress, as the promise sees it.
LEMMA PendingSeen ==
  ASSUME ObjectInv, NEW c \in Callers, requests[c].pc # "idle"
  PROVE  /\ requests[c].answer = "none"
         /\ \A op : S3!Promise!Pending(c, op) <=> requests[c].op = op
         /\ S3!answers[c].key = requests[c].key
         /\ S3!answers[c].content = requests[c].content
<1>1. requests[c] \in S3!Call /\ RequestShape(requests[c])
  BY RequestTypes DEF ObjectInv
<1>2. requests[c].answer = "none"
  BY <1>1 DEF RequestShape, S3!Call, S3!PCs
<1> QED BY <1>2, RequestsAreSeen DEF Seen, S3!Promise!Pending

LEMMA GoingOnUnseen ==
  ASSUME ObjectInv, NEW c \in Callers, NEW pc \in S3!PCs, S3!Goto(c, pc)
  PROVE  S3!answers' = S3!answers
<1>1. /\ NoOtherMoves(c) /\ Seen(requests'[c]) = Seen(requests[c])
  BY GotoKeeps DEF ObjectInv, Seen
<1> QED BY <1>1, RequestAnswered, RequestsAreSeen

\* A change takes effect when it is served.
LEMMA ChangeRefines ==
  ASSUME ObjectInv, NEW c \in Callers, S3!Upload(c) \/ S3!DeleteObject(c)
  PROVE  S3!Promise!Next
<1>1. requests[c].pc # "idle" /\ requests[c].op \in {"put", "delete"} /\ S3!End(c, "done", NoBlob)
  BY DEF S3!Upload, S3!DeleteObject, S3!At, ObjectInv, RequestShape
<1>2. S3!Change(c, requests[c].content)
  BY DEF S3!Upload, S3!DeleteObject, S3!At, ObjectInv, RequestShape
<1>3. S3!Promise!PutOrDelete(c)
  BY <1>1, <1>2, EndingSeen, PendingSeen
     DEF S3!Promise!PutOrDelete, S3!Promise!Change, S3!Change
<1> QED BY <1>3 DEF S3!Promise!Next

LEMMA GetRefines ==
  ASSUME ObjectInv, NEW c \in Callers, S3!GetObject(c)
  PROVE  S3!Promise!Next
<1> DEFINE content == objects[requests[c].key]
           answer == IF content = NoBlob THEN "missing" ELSE "done"
<1>1. content \in Contents \cup {NoBlob}
  BY RequestTypes DEF ObjectInv, ObjectTypes, S3!Call
<1>2. /\ requests[c].pc # "idle" /\ requests[c].op = "get"
      /\ S3!End(c, answer, content) /\ UNCHANGED objects
  BY DEF S3!GetObject, S3!At, ObjectInv, RequestShape
<1>3. S3!Promise!Reply(c, answer, content)
  BY <1>1, <1>2, EndingSeen
<1>4. S3!Promise!Get(c)
  BY <1>2, <1>3, PendingSeen DEF S3!Promise!Get
<1> QED BY <1>4 DEF S3!Promise!Next

\* A request that is refused, or served without its answer getting through.
LEMMA FailureRefines ==
  ASSUME ObjectInv, NEW c \in Callers, requests[c].pc # "idle", S3!End(c, "failed", NoBlob),
         \/ UNCHANGED objects
         \/ requests[c].op # "get" /\ S3!Change(c, requests[c].content)
  PROVE  S3!Promise!Next
<1>1. S3!Promise!Reply(c, "failed", NoBlob)
  BY EndingSeen
<1>2. requests[c].op \in S3!Promise!Ops
  BY RequestTypes DEF ObjectInv, S3!Call, S3!Promise!Ops
<1>3. S3!Promise!Fail(c)
  BY <1>1, <1>2, PendingSeen DEF S3!Promise!Fail, S3!Promise!Change, S3!Change
<1> QED BY <1>3 DEF S3!Promise!Next

LEMMA ObjectStepRefines ==
  ASSUME ObjectInv, S3!Next \/ UNCHANGED objectVars
  PROVE  [S3!Promise!Next]_<<objects, S3!answers>>
<1>1. CASE S3!ProbeHead \/ S3!ProbeCreate \/ UNCHANGED objectVars
  BY <1>1 DEF S3!ProbeHead, S3!ProbeCreate, objectVars, S3!answers
<1>2. ASSUME NEW c \in Callers, S3!Step(c)
      PROVE  S3!Promise!Next \/ UNCHANGED <<objects, S3!answers>>
  <2>1. {"create", "upload"} \subseteq S3!PCs
    BY DEF S3!PCs
  <2>2. CASE S3!BeginPut(c) \/ S3!BeginGet(c) \/ S3!BeginDelete(c)
    BY <2>2, BeginRefinesPromise
  <2>3. CASE S3!HeadBucket(c)
    BY <2>1, <2>3, GoingOnUnseen DEF S3!HeadBucket
  <2>4. CASE S3!CreateBucket(c)
    <3>1. requests[c].pc # "idle"
      BY <2>4 DEF S3!CreateBucket, S3!At
    <3> QED BY <2>1, <2>4, <3>1, GoingOnUnseen, FailureRefines DEF S3!CreateBucket
  <2>5. CASE S3!Upload(c) \/ S3!DeleteObject(c) \/ S3!GetObject(c)
    BY <2>5, ChangeRefines, GetRefines
  <2>6. CASE S3!NoSuchBucket(c)
    BY <2>6, FailureRefines DEF S3!NoSuchBucket
  <2>7. CASE S3!RequestFails(c)
    <3>1. requests[c].pc # "idle" /\ S3!End(c, "failed", NoBlob)
      BY <2>7 DEF S3!RequestFails, S3!FailedAnswer, S3!At
    <3>2. \/ UNCHANGED objects
          \/ requests[c].op # "get" /\ S3!Change(c, requests[c].content)
      BY <2>7 DEF S3!RequestFails, S3!At, ObjectInv, RequestShape
    <3> QED BY <3>1, <3>2, FailureRefines
  <2> QED BY <1>2, <2>2, <2>3, <2>4, <2>5, <2>6, <2>7 DEF S3!Step
<1> QED BY <1>1, <1>2 DEF S3!Next

LEMMA ObjectInitRefines == ASSUME S3!Init PROVE S3!Promise!Init
<1> DEFINE first == CHOOSE k \in ObjectKeys : TRUE
<1>1. /\ S3!NoCall.op = "get" /\ S3!NoCall.key = first /\ S3!NoCall.content = NoBlob
      /\ S3!NoCall.answer = "failed" /\ S3!NoCall.got = NoBlob
  BY DEF S3!NoCall
<1>2. S3!Promise!NoCall = [S3!Promise!NewCall("get", first, NoBlob) EXCEPT !.answer = "failed"]
  BY DEF S3!Promise!NoCall
<1> HIDE DEF first
<1>3. Seen(S3!NoCall) = S3!Promise!NoCall
  BY <1>1, <1>2 DEF Seen, S3!Promise!NewCall
<1> QED BY <1>3, RequestsAreSeen DEF S3!Init, S3!Promise!Init

(***************************************************************************)
(* Deployments.                                                            *)
(***************************************************************************)
LEMMA ObjectInvHolds == StoresSpec => []ObjectInv
<1>1. StoresInit => ObjectInv
  BY ObjectInitHolds DEF StoresInit
<1>2. ObjectInv /\ [StoresNext]_<<adapter, vars, objectVars>> => ObjectInv'
  BY ObjectStepHolds DEF StoresNext
<1> QED BY <1>1, <1>2, PTL DEF StoresSpec

\* Every upload to an object store that fails without a fault began before the bucket was
\* there (_ensure_bucket), for any callers, keys and contents.
THEOREM BucketRaceIsOnlyFailure == StoresSpec => []PutFailsForBucket
<1>1. ObjectInv => PutFailsForBucket
  BY DEF ObjectInv
<1> QED BY <1>1, ObjectInvHolds, PTL

\* A deployment on an object store implements the promise of a BlobStore, up to changes
\* that were made although they were reported as failed.
THEOREM ObjectPromiseImplemented == StoresSpec => ObjectsImplementPromise
<1>1. StoresInit => S3!Promise!Init
  BY ObjectInitRefines DEF StoresInit
<1>2. ObjectInv /\ [StoresNext]_<<adapter, vars, objectVars>>
        => [S3!Promise!Next]_<<objects, S3!answers>>
  BY ObjectStepRefines DEF StoresNext
<1> QED
  BY <1>1, <1>2, ObjectInvHolds, PTL
     DEF StoresSpec, ObjectsImplementPromise, S3!ImplementsPromise, S3!Promise!Spec

\* What is shown of the directory tree holds of every deployment,
\* whichever adapter create_blob_store has chosen.
THEOREM DeploymentsKeepTheTree ==
  ASSUME StoreAssumption
  PROVE  StoresSpec => ImplementsPromise /\ [](TreeIntact /\ PutFailsForReason /\ NoEmptyDirectoryLeft)
<1>1. StoresInit => Init
  BY DEF StoresInit
<1>2. [StoresNext]_<<adapter, vars, objectVars>> => [Next]_vars
  BY DEF StoresNext
<1>3. StoresSpec => Spec
  BY <1>1, <1>2, PTL DEF StoresSpec, Spec
<1> QED
  BY <1>3, TreesHold, PutsFailForReason, NoEmptyDirectories, PromiseImplemented, PTL
=============================================================================
