--------------------------- MODULE ReadersProofs ---------------------------
(***************************************************************************)
(* Theorems about Readers, for every set of uploads, deletions, workers    *)
(* and readers.  A deletion committed before a request began is final, and *)
(* both queries exclude the document.  What a request has listed or found  *)
(* and nobody has deleted since has kept its file and stays published.     *)
(***************************************************************************)
EXTENDS Readers, OwnershipProofs

\* What a request remembers as deleted is deleted still, and disjoint from what
\* it has read.
Unseen(q) ==
  /\ reader[q].before \subseteq DeletedRows
  /\ reader[q].before \cap (reader[q].listed \cup reader[q].dense \cup reader[q].lexical) = {}

ReadersInv ==
  /\ TypeOK
  /\ reader \in [Readers -> ReaderState]
  /\ \A q \in Readers : Unseen(q)

LEMMA DeletedIsUnseen ==
  /\ \A r \in DeletedRows : ~Searchable(r) /\ ~Countable(r)
BY DEF DeletedRows, Searchable, Countable

\* A step of the service only adds to the deleted documents.
LEMMA DeletedGrows ==
  ASSUME TypeOK, [Next]_vars
  PROVE  TypeOK' /\ DeletedRows \subseteq DeletedRows'
<1>1. TypeOK'
  BY NextKept, StutterKept
<1>2. ASSUME NEW r \in DeletedRows PROVE r \in DeletedRows'
  <2>1. r \in Rows /\ r \in registered /\ document[r].deleted
    BY DEF DeletedRows, TypeOK, CatalogTypeOK
  <2>2. CatalogKept
    BY NextKept, StutterKept
  <2>3. CASE UNCHANGED catalogVars
    BY <2>1, <2>3 DEF catalogVars, DeletedRows
  <2>4. CASE \E q \in Rows : RowStep(q)
    BY <2>1, <2>4 DEF RowStep, KeepsRow, DeletedRows
  <2> QED BY <2>2, <2>3, <2>4 DEF CatalogKept, CatalogStep
<1> QED BY <1>1, <1>2

\* A request that goes on with a record that holds no deleted document.
LEMMA GoKeeps ==
  ASSUME ReadersInv, TypeOK', DeletedRows' = DeletedRows, NEW q \in Readers,
         NEW record \in ReaderState, Go(q, record), record.before \subseteq DeletedRows,
         record.before \cap (record.listed \cup record.dense \cup record.lexical) = {}
  PROVE  ReadersInv'
<1>1. /\ reader' \in [Readers -> ReaderState] /\ reader'[q] = record
      /\ \A p \in Readers : p # q => reader'[p] = reader[p]
  BY DEF ReadersInv, Go
<1>2. Unseen(q)'
  BY <1>1 DEF Unseen
<1>3. \A p \in Readers : p # q => Unseen(p)'
  BY <1>1 DEF ReadersInv, Unseen
<1> QED BY <1>1, <1>2, <1>3 DEF ReadersInv

LEMMA IdleTyped ==
  /\ Idle \in ReaderState
  /\ Idle.before = {} /\ Idle.listed = {} /\ Idle.dense = {} /\ Idle.lexical = {}
BY DEF Idle, ReaderState, ReaderPC

\* Requests that only read.
LEMMA VarsStay ==
  ASSUME TypeOK, UNCHANGED vars
  PROVE  TypeOK' /\ DeletedRows' = DeletedRows
BY StutterKept DEF vars, storeVars, catalogVars, DeletedRows

LEMMA ReaderKeeps ==
  ASSUME ReadersInv, NEW q \in Readers, ReaderNext(q)
  PROVE  ReadersInv'
<1> DEFINE old == reader[q]
<1>1. old \in ReaderState /\ Unseen(q) /\ TypeOK
  BY DEF ReadersInv
<1>2. DeletedRows \subseteq Rows
  BY <1>1 DEF DeletedRows, TypeOK, CatalogTypeOK
<1>3. /\ old.before \subseteq DeletedRows
      /\ old.before \cap (old.listed \cup old.dense \cup old.lexical) = {}
  BY <1>1 DEF Unseen
<1> HIDE DEF old
<1>4. CASE \E selected \in SUBSET Rows : ListVersions(q, selected)
  <2>1. PICK selected \in SUBSET Rows : ListVersions(q, selected)
    BY <1>4
  <2> DEFINE ready == {r \in selected : Countable(r)}
             record == [Idle EXCEPT !.pc = "files", !.before = DeletedRows,
                                    !.listed = ready, !.left = ready]
  <2>2. Go(q, record) /\ UNCHANGED vars
    BY <2>1 DEF ListVersions
  <2>3. ready \subseteq Rows /\ DeletedRows \cap ready = {}
    BY DeletedIsUnseen
  <2> HIDE DEF ready
  <2>4. record \in ReaderState
    BY <1>2, <2>3, IdleTyped DEF ReaderState, ReaderPC
  <2>5. record.before = DeletedRows /\ record.listed = ready /\ record.dense = {} /\ record.lexical = {}
    BY IdleTyped DEF ReaderState
  <2> HIDE DEF record
  <2> QED BY <1>1, <2>2, <2>3, <2>4, <2>5, VarsStay, GoKeeps
<1>5. CASE \E r \in Rows : ReadFile(q, r)
  <2>1. PICK r \in Rows : ReadFile(q, r)
    BY <1>5
  <2> DEFINE left == old.left \ {r}
             pc == IF left = {} THEN "counted" ELSE "files"
             record == [old EXCEPT !.left = left, !.pc = pc]
  <2>2. Go(q, record) /\ UNCHANGED vars
    BY <2>1 DEF ReadFile, old
  <2>3. left \subseteq Rows /\ pc \in ReaderPC
    BY <1>1 DEF ReaderState, ReaderPC
  <2> HIDE DEF left, pc
  <2>4. record \in ReaderState
    BY <1>1, <2>3 DEF ReaderState
  <2>5. /\ record.before = old.before /\ record.listed = old.listed
        /\ record.dense = old.dense /\ record.lexical = old.lexical
    BY <1>1 DEF ReaderState
  <2> HIDE DEF record
  <2> QED BY <1>1, <1>3, <2>2, <2>4, <2>5, VarsStay, GoKeeps
<1>6. CASE \E r \in Rows : FileMissing(q, r)
  <2>1. PICK r \in Rows : FileMissing(q, r)
    BY <1>6
  <2> DEFINE record == [old EXCEPT !.pc = "missing", !.left = {r}]
  <2>2. Go(q, record) /\ UNCHANGED vars
    BY <2>1 DEF FileMissing, old
  <2>3. record \in ReaderState
    BY <1>1 DEF ReaderState, ReaderPC
  <2>4. /\ record.before = old.before /\ record.listed = old.listed
        /\ record.dense = old.dense /\ record.lexical = old.lexical
    BY <1>1 DEF ReaderState
  <2> HIDE DEF record
  <2> QED BY <1>1, <1>3, <2>2, <2>3, <2>4, VarsStay, GoKeeps
<1>7. CASE ReadFails(q)
  <2> DEFINE record == [old EXCEPT !.pc = "failed"]
  <2>1. /\ Go(q, record) /\ Fault("blob")
        /\ UNCHANGED <<catalogVars, blobs, queue, upload, deletion, worker, redeliveries>>
    BY <1>7 DEF ReadFails, old
  <2>2. record \in ReaderState
    BY <1>1 DEF ReaderState, ReaderPC
  <2>3. /\ record.before = old.before /\ record.listed = old.listed
        /\ record.dense = old.dense /\ record.lexical = old.lexical
    BY <1>1 DEF ReaderState
  <2> HIDE DEF record
  <2>4. faults' \in 0..MaxFaults /\ abandoned' \subseteq Contents
    BY <1>1, <2>1, FaultTyped DEF TypeOK, CatalogTypeOK, FaultsTyped
  <2>5. TypeOK' /\ DeletedRows' = DeletedRows
    BY <1>1, <2>1, <2>4 DEF TypeOK, CatalogTypeOK, UploadTypeOK, DeletionTypeOK, Deleting,
       WorkerTypeOK, Busy, catalogVars, DeletedRows
  <2> QED BY <1>3, <2>1, <2>2, <2>3, <2>5, GoKeeps
<1>8. CASE BeginSearch(q)
  <2> DEFINE record == [Idle EXCEPT !.pc = "dense", !.before = DeletedRows]
  <2>1. Go(q, record) /\ UNCHANGED vars
    BY <1>8 DEF BeginSearch
  <2>2. record \in ReaderState
    BY <1>2, IdleTyped DEF ReaderState, ReaderPC
  <2>3. record.before = DeletedRows /\ record.listed = {} /\ record.dense = {} /\ record.lexical = {}
    BY IdleTyped DEF ReaderState
  <2> HIDE DEF record
  <2> QED BY <1>1, <2>1, <2>2, <2>3, VarsStay, GoKeeps
<1> DEFINE seen == {r \in Rows : Searchable(r)}
<1>9. seen \subseteq Rows /\ DeletedRows \cap seen = {}
  BY DeletedIsUnseen
<1>10. CASE DenseSearch(q)
  <2> DEFINE record == [old EXCEPT !.pc = "lexical", !.dense = seen]
  <2>1. Go(q, record) /\ UNCHANGED vars
    BY <1>10 DEF DenseSearch, old
  <2> HIDE DEF seen
  <2>2. record \in ReaderState
    BY <1>1, <1>9 DEF ReaderState, ReaderPC
  <2>3. /\ record.before = old.before /\ record.listed = old.listed
        /\ record.dense = seen /\ record.lexical = old.lexical
    BY <1>1 DEF ReaderState
  <2> HIDE DEF record
  <2> QED BY <1>1, <1>3, <1>9, <2>1, <2>2, <2>3, VarsStay, GoKeeps
<1>11. CASE LexicalSearch(q)
  <2> DEFINE record == [old EXCEPT !.pc = "replying", !.lexical = seen]
  <2>1. Go(q, record) /\ UNCHANGED vars
    BY <1>11 DEF LexicalSearch, old
  <2> HIDE DEF seen
  <2>2. record \in ReaderState
    BY <1>1, <1>9 DEF ReaderState, ReaderPC
  <2>3. /\ record.before = old.before /\ record.listed = old.listed
        /\ record.dense = old.dense /\ record.lexical = seen
    BY <1>1 DEF ReaderState
  <2> HIDE DEF record
  <2> QED BY <1>1, <1>3, <1>9, <2>1, <2>2, <2>3, VarsStay, GoKeeps
<1>12. CASE Reply(q)
  <2>1. Go(q, Idle) /\ UNCHANGED vars
    BY <1>12 DEF Reply
  <2> QED BY <1>1, <2>1, IdleTyped, VarsStay, GoKeeps
<1> QED BY <1>4, <1>5, <1>6, <1>7, <1>8, <1>10, <1>11, <1>12 DEF ReaderNext

LEMMA ReadersInvHolds == ReadersSpec => []ReadersInv
<1>1. ReadersInit => ReadersInv
  <2> SUFFICES ASSUME ReadersInit PROVE ReadersInv
    OBVIOUS
  <2>1. TypeOK
    BY InitTyped DEF ReadersInit
  <2>2. reader \in [Readers -> ReaderState] /\ \A q \in Readers : reader[q] = Idle
    BY IdleTyped DEF ReadersInit
  <2>3. \A q \in Readers : Unseen(q)
    BY <2>2, IdleTyped DEF Unseen
  <2> QED BY <2>1, <2>2, <2>3 DEF ReadersInv
<1>2. ReadersInv /\ [ReadersNext]_<<vars, reader>> => ReadersInv'
  <2> SUFFICES ASSUME ReadersInv, [ReadersNext]_<<vars, reader>> PROVE ReadersInv'
    OBVIOUS
  <2>1. CASE [Next]_vars /\ UNCHANGED reader
    <3>1. TypeOK' /\ DeletedRows \subseteq DeletedRows'
      BY <2>1, DeletedGrows DEF ReadersInv
    <3>2. \A q \in Readers : Unseen(q)'
      BY <2>1, <3>1 DEF ReadersInv, Unseen
    <3> QED BY <2>1, <3>1, <3>2 DEF ReadersInv
  <2>2. CASE \E q \in Readers : ReaderNext(q)
    BY <2>2, ReaderKeeps
  <2> QED BY <2>1, <2>2 DEF ReadersNext
<1> QED BY <1>1, <1>2, PTL DEF ReadersSpec

\* What is deleted before a count, a search or an answer begins is never counted
\* or found by it, whatever the upload, deletion and worker processes do.
THEOREM DeletedUnseen == ReadersSpec => []DeletedStaysUnseen
<1>1. ReadersInv => DeletedStaysUnseen
  BY DEF ReadersInv, Unseen, DeletedStaysUnseen
<1> QED BY <1>1, ReadersInvHolds, PTL

(***************************************************************************)
(* The service's invariants beside the readers, who write nothing.         *)
(***************************************************************************)
Stored == <<catalogVars, blobs, queue, upload, deletion, worker, redeliveries>>

LEMMA ReadersWriteNothing ==
  ASSUME NEW q \in Readers, ReaderNext(q)
  PROVE  UNCHANGED Stored /\ \E record : Go(q, record)
BY DEF ReaderNext, ListVersions, ReadFile, FileMissing, ReadFails, BeginSearch, DenseSearch,
   LexicalSearch, Reply, Stored, vars, storeVars

LEMMA ServiceOrReader ==
  ASSUME [ReadersNext]_<<vars, reader>>
  PROVE  \/ [Next]_vars /\ UNCHANGED reader
         \/ \E q \in Readers : ReaderNext(q)
BY DEF ReadersNext

\* No row leaves the catalogue and no deletion is taken back.
LEMMA RowsPersist ==
  ASSUME TypeOK, [ReadersNext]_<<vars, reader>>
  PROVE  /\ registered \subseteq registered'
         /\ \A r \in registered : document[r].deleted => document'[r].deleted
<1>1. CASE [Next]_vars
  <2>1. CatalogRows /\ CatalogKept /\ registered \subseteq Rows
    BY <1>1, TypeParts, NextKept, StutterKept DEF CatalogRows
  <2>2. registered \subseteq registered'
    BY <2>1, RowsRemain
  <2> QED
    BY <1>1, <2>1, <2>2, DeletedGrows DEF DeletedRows
<1>2. CASE UNCHANGED Stored
  BY <1>2 DEF Stored, catalogVars
<1> QED
  BY <1>1, <1>2, ServiceOrReader, ReadersWriteNothing

\* The invariants of the requests that change the catalogue.
Service == TombstonesAgree /\ Order

LEMMA ServiceKept ==
  ASSUME TypeOK, Service, [ReadersNext]_<<vars, reader>>
  PROVE  Service'
<1>1. CASE Next
  BY <1>1, TombstonesKept, OrderKept DEF Service
<1>2. CASE UNCHANGED Stored
  BY <1>2 DEF Stored, catalogVars, Service, TombstonesAgree, Order
<1>3. CASE UNCHANGED vars
  BY <1>3 DEF vars, storeVars, catalogVars, Service, TombstonesAgree, Order
<1> QED
  BY <1>1, <1>2, <1>3, ServiceOrReader, ReadersWriteNothing

LEMMA ServiceHolds == ReadersSpec => []Service
<1>1. ReadersInit => Service
  <2>1. ASSUME Init, NEW r \in Rows
        PROVE  ~document[r].deleted /\ ~version[r].deleted
    BY <2>1 DEF Init, CatalogInit, NoView
  <2> QED
    BY <2>1 DEF ReadersInit, Init, CatalogInit, UploadInit, DeletionInit, IdleDeletion, NoView,
       Service, TombstonesAgree, Order
<1>2. ReadersInv /\ Service /\ [ReadersNext]_<<vars, reader>> => Service'
  BY ServiceKept DEF ReadersInv
<1> QED
  BY <1>1, <1>2, ReadersInvHolds, PTL DEF ReadersSpec

\* A step of the service leaves every request alone, one of a request the others.
LEMMA OneReader ==
  ASSUME ReadersInv, NEW q \in Readers, NEW record, Go(q, record)
  PROVE  reader'[q] = record /\ \A p \in Readers \ {q} : reader'[p] = reader[p]
BY DEF ReadersInv, Go

\* Where each step takes its request.
LEMMA NextPC ==
  ASSUME ReadersInv, NEW q \in Readers
  PROVE  /\ \A selected : ListVersions(q, selected) => reader'[q].pc = "files"
         /\ \A r : ReadFile(q, r) => reader'[q].pc \in {"files", "counted"}
         /\ \A r : FileMissing(q, r) => reader'[q].pc = "missing"
         /\ ReadFails(q) => reader'[q].pc = "failed"
         /\ BeginSearch(q) => reader'[q].pc = "dense"
         /\ DenseSearch(q) => reader'[q].pc = "lexical"
         /\ LexicalSearch(q) => reader'[q].pc = "replying"
         /\ Reply(q) => reader'[q].pc = "idle"
<1>1. reader \in [Readers -> ReaderState]
  BY DEF ReadersInv
<1>2. ASSUME NEW selected, ListVersions(q, selected) PROVE reader'[q].pc = "files"
  BY <1>1, <1>2, IdleTyped DEF ListVersions, Go, ReaderState
<1>3. ASSUME NEW r, ReadFile(q, r) PROVE reader'[q].pc \in {"files", "counted"}
  BY <1>1, <1>3 DEF ReadFile, Go, ReaderState
<1>4. ASSUME NEW r, FileMissing(q, r) PROVE reader'[q].pc = "missing"
  BY <1>1, <1>4 DEF FileMissing, Go, ReaderState
<1>5. ReadFails(q) => reader'[q].pc = "failed"
  BY <1>1 DEF ReadFails, Go, ReaderState
<1>6. BeginSearch(q) => reader'[q].pc = "dense"
  BY <1>1, IdleTyped DEF BeginSearch, Go, ReaderState
<1>7. DenseSearch(q) => reader'[q].pc = "lexical"
  BY <1>1 DEF DenseSearch, Go, ReaderState
<1>8. LexicalSearch(q) => reader'[q].pc = "replying"
  BY <1>1 DEF LexicalSearch, Go, ReaderState
<1>9. Reply(q) => reader'[q].pc = "idle"
  BY <1>1 DEF Reply, Go, Idle
<1> QED
  BY <1>2, <1>3, <1>4, <1>5, <1>6, <1>7, <1>8, <1>9

(***************************************************************************)
(* Counting.                                                               *)
(***************************************************************************)
\* What a count has still to read stays registered; the file it missed is that of
\* a deleted document.
Counts(q) ==
  /\ reader[q].pc \in {"files", "missing"} => reader[q].left \subseteq registered
  /\ reader[q].pc = "missing" => \A r \in reader[q].left : document[r].deleted

LEMMA CountsPersist ==
  ASSUME TypeOK, [ReadersNext]_<<vars, reader>>, NEW q \in Readers, Counts(q),
         reader'[q] = reader[q]
  PROVE  Counts(q)'
BY RowsPersist DEF Counts

LEMMA CountingReader ==
  ASSUME ReadersInv, Files, NEW q \in Readers, Counts(q), ReaderNext(q)
  PROVE  Counts(q)'
<1> DEFINE old == reader[q]
<1>1. reader \in [Readers -> ReaderState] /\ UNCHANGED Stored
  BY ReadersWriteNothing DEF ReadersInv
<1>2. UNCHANGED <<registered, document>>
  BY <1>1 DEF Stored, catalogVars
<1>3. CASE \E selected \in SUBSET Rows : ListVersions(q, selected)
  <2>1. PICK selected \in SUBSET Rows : ListVersions(q, selected)
    BY <1>3
  <2> DEFINE ready == {r \in selected : Countable(r)}
  <2>2. ready \subseteq registered
    BY DEF Countable
  <2> HIDE DEF ready
  <2>3. reader'[q].pc = "files" /\ reader'[q].left = ready
    BY <1>1, <2>1, IdleTyped DEF ListVersions, Go, ReaderState, ready
  <2> QED
    BY <1>2, <2>2, <2>3 DEF Counts
<1>4. CASE \E r \in Rows : ReadFile(q, r)
  <2>1. PICK r \in Rows : ReadFile(q, r)
    BY <1>4
  <2>2. old.pc = "files" /\ reader'[q].left = old.left \ {r} /\ reader'[q].pc # "missing"
    BY <1>1, <2>1 DEF ReadFile, Go, ReaderState
  <2> QED
    BY <1>2, <2>2 DEF Counts
<1>5. CASE \E r \in Rows : FileMissing(q, r)
  <2>1. PICK r \in Rows : FileMissing(q, r)
    BY <1>5
  <2>2. reader'[q].left = {r} /\ reader'[q].pc = "missing"
    BY <1>1, <2>1 DEF FileMissing, Go, ReaderState
  <2>3. r \in registered /\ document[r].deleted
    BY <2>1 DEF FileMissing, Counts, Files, Live
  <2> QED
    BY <1>2, <2>2, <2>3 DEF Counts
<1>6. CASE reader'[q].pc \notin {"files", "missing"}
  BY <1>6 DEF Counts
<1>7. ASSUME ReadFails(q) \/ BeginSearch(q) \/ DenseSearch(q) \/ LexicalSearch(q) \/ Reply(q)
      PROVE  reader'[q].pc \notin {"files", "missing"}
  BY <1>7, NextPC
<1> QED
  BY <1>3, <1>4, <1>5, <1>6, <1>7 DEF ReaderNext

Counting == Files /\ \A q \in Readers : Counts(q)

\* Counting keeps no session and no lock while it reads, and needs none: the file that it
\* does not find was removed by the deletion of its own document.
THEOREM CountsFailForDeletion == DifferentFiles => (ReadersSpec => []CountFailsForDeletion)
<1> SUFFICES ASSUME DifferentFiles PROVE ReadersSpec => []CountFailsForDeletion
  OBVIOUS
<1>1. ReadersInit => Counting
  BY DEF ReadersInit, Init, CatalogInit, UploadInit, Files, Live, Counting, Counts, Idle
<1>2. ASSUME ReadersInv, Service, Counting, [ReadersNext]_<<vars, reader>>
      PROVE  Counting'
  <2>1. CASE [Next]_vars /\ UNCHANGED reader
    <3>1. Files'
      <4>1. CASE Next
        BY <1>2, <4>1, FilesKept DEF ReadersInv, Service, Counting
      <4>2. CASE UNCHANGED vars
        BY <1>2, <4>2 DEF vars, storeVars, catalogVars, Counting, Files, Live
      <4> QED
        BY <2>1, <4>1, <4>2
    <3> QED
      BY <1>2, <2>1, <3>1, CountsPersist DEF ReadersInv, Counting
  <2>2. ASSUME NEW q \in Readers, ReaderNext(q)
        PROVE  Counting'
    <3>1. Files'
      BY <1>2, <2>2, ReadersWriteNothing DEF Stored, catalogVars, Counting, Files, Live
    <3>2. Counts(q)'
      BY <1>2, <2>2, CountingReader DEF Counting
    <3>3. ASSUME NEW p \in Readers \ {q} PROVE Counts(p)'
      BY <1>2, <2>2, OneReader, ReadersWriteNothing, CountsPersist DEF ReadersInv, Counting
    <3> QED
      BY <3>1, <3>2, <3>3 DEF Counting
  <2> QED
    BY <1>2, <2>1, <2>2, ServiceOrReader
<1>3. Counting => CountFailsForDeletion
  BY DEF Counting, Counts, CountFailsForDeletion
<1> QED
  BY <1>1, <1>2, <1>3, ReadersInvHolds, ServiceHolds, PTL DEF ReadersSpec

(***************************************************************************)
(* Searching, for messages delivered once.                                 *)
(***************************************************************************)
\* A document that was found is found still, unless it was deleted.
Shown(r) == Searchable(r) \/ (r \in registered /\ document[r].deleted)

Finds(q) ==
  /\ reader[q].pc \in {"lexical", "replying"} => \A r \in reader[q].dense : Shown(r)
  /\ reader[q].pc = "replying" =>
       /\ \A r \in reader[q].lexical : Shown(r)
       /\ \A r \in reader[q].dense \ reader[q].lexical : document[r].deleted

LEMMA ShownStays ==
  ASSUME DeliveredOnce, TypeOK, Alone, FreshRows, [ReadersNext]_<<vars, reader>>,
         NEW r \in Rows, Shown(r)
  PROVE  Shown(r)' /\ (document[r].deleted => document'[r].deleted)
<1>1. r \in registered
  BY DEF Shown, Searchable
<1>2. r \in registered' /\ (document[r].deleted => document'[r].deleted)
  BY <1>1, RowsPersist
<1>3. CASE document'[r].deleted
  BY <1>2, <1>3 DEF Shown
<1>4. CASE ~document'[r].deleted
  <2>1. Searchable(r)
    BY <1>2, <1>4 DEF Shown
  <2>2. CASE Next
    BY <1>2, <1>4, <2>1, <2>2, SearchableStays DEF SameRow, Searchable, Shown
  <2>3. CASE UNCHANGED catalogVars
    BY <2>1, <2>3 DEF catalogVars, Searchable, Shown
  <2> QED
    BY <1>2, <2>2, <2>3, ServiceOrReader, ReadersWriteNothing DEF vars, storeVars, Stored
<1> QED
  BY <1>3, <1>4

LEMMA FindsPersists ==
  ASSUME DeliveredOnce, ReadersInv, Alone, FreshRows, [ReadersNext]_<<vars, reader>>,
         NEW q \in Readers, Finds(q), reader'[q] = reader[q]
  PROVE  Finds(q)'
<1>1. TypeOK /\ reader[q].dense \subseteq Rows /\ reader[q].lexical \subseteq Rows
  BY DEF ReadersInv, ReaderState
<1> QED
  BY <1>1, ShownStays DEF Finds

LEMMA FindingReader ==
  ASSUME ReadersInv, NEW q \in Readers, Finds(q), ReaderNext(q)
  PROVE  Finds(q)'
<1> DEFINE old == reader[q]
           seen == {r \in Rows : Searchable(r)}
<1>1. reader \in [Readers -> ReaderState] /\ UNCHANGED Stored
  BY ReadersWriteNothing DEF ReadersInv
<1>2. UNCHANGED catalogVars
  BY <1>1 DEF Stored
<1>3. \A r \in Rows : (Searchable(r)' <=> Searchable(r)) /\ (Shown(r)' <=> Shown(r))
  BY <1>2 DEF catalogVars, Searchable, Shown
<1>4. document' = document /\ \A r \in seen : Shown(r)
  BY <1>2 DEF catalogVars, Shown
<1>5. CASE DenseSearch(q)
  <2>1. reader'[q].pc = "lexical" /\ reader'[q].dense = seen
    BY <1>1, <1>5 DEF DenseSearch, Go, ReaderState
  <2> QED
    BY <1>3, <1>4, <2>1 DEF Finds
<1>6. CASE LexicalSearch(q)
  <2>1. /\ old.pc = "lexical" /\ reader'[q].pc = "replying"
        /\ reader'[q].dense = old.dense /\ reader'[q].lexical = seen
    BY <1>1, <1>6 DEF LexicalSearch, Go, ReaderState
  <2>2. old.dense \subseteq Rows /\ \A r \in old.dense : Shown(r)
    BY <1>1, <2>1 DEF Finds, ReaderState
  <2>3. \A r \in old.dense \ seen : document[r].deleted
    BY <2>2 DEF Shown
  <2> QED
    BY <1>3, <1>4, <2>1, <2>2, <2>3 DEF Finds
<1>7. CASE reader'[q].pc \notin {"lexical", "replying"}
  BY <1>7 DEF Finds
<1>8. ASSUME ~DenseSearch(q), ~LexicalSearch(q)
      PROVE  reader'[q].pc \notin {"lexical", "replying"}
  BY <1>8, NextPC DEF ReaderNext
<1> QED
  BY <1>5, <1>6, <1>7, <1>8

Finding == Alone /\ FreshRows /\ \A q \in Readers : Finds(q)

\* A search or an answer executes two statements with nothing that joins them: a document
\* which only one of them found was deleted, or published, between the two.
THEOREM StatementsDifferByChange == DeliveredOnce => (ReadersSpec => []StatementsAgree)
<1> SUFFICES ASSUME DeliveredOnce PROVE ReadersSpec => []StatementsAgree
  OBVIOUS
<1>1. ReadersInit => Finding
  <2>1. ASSUME Init PROVE Alone /\ FreshRows
    BY <2>1, AloneAtFirst, FreshAtFirst
  <2> QED
    BY <2>1 DEF ReadersInit, Finding, Finds, Idle
<1>2. ASSUME ReadersInv, Finding, [ReadersNext]_<<vars, reader>>
      PROVE  Finding'
  <2>1. Alone' /\ FreshRows'
    <3>1. CASE Next
      BY <1>2, <3>1, AloneKept, FreshKept DEF ReadersInv, Finding
    <3>2. CASE UNCHANGED <<catalogVars, queue, upload, worker>>
      BY <1>2, <3>2 DEF catalogVars, Finding, Alone, Busy, Creates, FreshRows, Fresh, Knows, View
    <3> QED
      BY <1>2, <3>1, <3>2, ServiceOrReader, ReadersWriteNothing DEF vars, storeVars, Stored
  <2>2. CASE UNCHANGED reader
    BY <1>2, <2>1, <2>2, FindsPersists DEF Finding
  <2>3. ASSUME NEW q \in Readers, ReaderNext(q)
        PROVE  Finding'
    <3>1. Finds(q)'
      BY <1>2, <2>3, FindingReader DEF Finding
    <3>2. ASSUME NEW p \in Readers \ {q} PROVE Finds(p)'
      BY <1>2, <2>3, OneReader, ReadersWriteNothing, FindsPersists DEF Finding
    <3> QED
      BY <2>1, <3>1, <3>2 DEF Finding
  <2> QED
    BY <1>2, <2>2, <2>3, ServiceOrReader
<1>3. ASSUME ReadersInv, Service, Finding
      PROVE  StatementsAgree
  <2>1. ASSUME NEW r \in Rows, Shown(r)
        PROVE  document[r].deleted \/ Countable(r)
    BY <1>3, <2>1 DEF Shown, Searchable, Countable, Service, TombstonesAgree
  <2>2. \A q \in Readers : reader[q].lexical \subseteq Rows
    BY <1>3 DEF ReadersInv, ReaderState
  <2> QED
    BY <1>3, <2>1, <2>2 DEF Finding, Finds, StatementsAgree
<1> QED
  BY <1>1, <1>2, <1>3, ReadersInvHolds, ServiceHolds, PTL DEF ReadersSpec
=============================================================================
