-------------------------- MODULE EmbeddingBatches --------------------------
(***************************************************************************)
(* How IngestionService._embed gets the vectors of a document's chunks     *)
(* (ingestion/service.py): _embedding_batches groups the chunks, the       *)
(* provider gets one call for a batch, and OpenAIEmbeddingProvider         *)
(* (adapters/openai_models.py) splits that into requests of its own size.  *)
(* Each layer checks what the one below returned.                          *)
(*                                                                         *)
(* A chunk is its token count, a vector the text it embeds and its length. *)
(* The endpoint answers a request with one item for each text, in any      *)
(* order under the index of its text; or it leaves items out, or sends     *)
(* vectors of another length.                                              *)
(***************************************************************************)
EXTENDS Naturals, SequencesExt, Lists

CONSTANTS
  ChunkLists,      \* documents: sequences of the token counts of their chunks
  BatchSize,       \* embedding_batch_size
  TokenLimit,      \* embedding_batch_token_limit
  RequestSize,     \* OpenAIEmbeddingProvider.batch_size
  Lengths          \* the lengths of vectors that an endpoint may send

\* What the constructors of the service and of the adapter refuse.
BatchAssumption ==
  /\ BatchSize \in Nat \ {0} /\ TokenLimit \in Nat \ {0} /\ RequestSize \in Nat \ {0}
  /\ Lengths \subseteq Nat \ {0}
  /\ ChunkLists \subseteq Seq(Nat)

VARIABLES
  chunks,      \* the token counts of the document's chunks
  configured,  \* the length of a vector in the provider's settings, or None
  dimensions,  \* the length that _embed expects, None while it is unknown
  progress,    \* "batching", "embedding", "returned" or "raised"
  next,        \* the chunk that _embedding_batches looks at
  batch,       \* its current batch
  batches,     \* the batches it has closed and that were not embedded yet
  replied,     \* the vectors that the provider has collected for the first batch
  embedded     \* pairs of a chunk and its vector: all_vectors

vars == <<chunks, configured, dimensions, progress, next, batch, batches, replied, embedded>>

None == 0

TokensIn(ids) == Total([i \in DOMAIN ids |-> chunks[ids[i]]])

(***************************************************************************)
(* _embedding_batches.                                                     *)
(***************************************************************************)

\* Mutant of WouldExceed: the size is tested off by one.
WouldExceedLate ==
  \/ Len(batch) > BatchSize
  \/ batch # <<>> /\ TokensIn(batch) + chunks[next] > TokenLimit

WouldExceed ==
  \/ Len(batch) >= BatchSize
  \/ batch # <<>> /\ TokensIn(batch) + chunks[next] > TokenLimit

CloseBatch ==
  /\ batches' = Append(batches, batch)
  /\ batch' = <<next>>

AddChunk ==
  /\ progress = "batching" /\ next <= Len(chunks)
  /\ IF WouldExceed THEN CloseBatch
                    ELSE batch' = Append(batch, next) /\ UNCHANGED batches
  /\ next' = next + 1
  /\ UNCHANGED <<chunks, configured, dimensions, progress, replied, embedded>>

\* The last batch is closed, and the loop over the batches begins.
EndBatching ==
  /\ progress = "batching" /\ next > Len(chunks)
  /\ batches' = IF batch = <<>> THEN batches ELSE Append(batches, batch)
  /\ batch' = <<>>
  /\ progress' = "embedding"
  /\ UNCHANGED <<chunks, configured, dimensions, next, replied, embedded>>

(***************************************************************************)
(* The provider: one request after another for the first batch.            *)
(***************************************************************************)
Embedding == progress = "embedding" /\ batches # <<>>

\* The texts of the next request.
RequestTexts ==
  LET texts == Head(batches)
  IN SubSeq(texts, Len(replied) + 1,
            IF Len(replied) + RequestSize < Len(texts)
              THEN Len(replied) + RequestSize ELSE Len(texts))

\* The items of a response: a vector under the index of its text.
Items(texts) ==
  {[index |-> i, text |-> texts[i], length |-> n] : i \in DOMAIN texts, n \in Lengths}

\* A response has at most one item for each text.
Responses(texts) ==
  {data \in BoundedSeq(Items(texts), Len(texts)) :
     \A i, j \in DOMAIN data : data[i].index = data[j].index => i = j}

\* Mutant of InOrder: the items are taken as they come.
InOrderReceived(data) ==
  [i \in DOMAIN data |-> [text |-> data[i].text, length |-> data[i].length]]

\* sorted(data, key=index).
InOrder(data) ==
  LET items == Range(data)
      sorted == Arranged(items, {pair \in items \X items : pair[1].index < pair[2].index})
  IN [i \in DOMAIN data |-> [text |-> sorted[i].text, length |-> sorted[i].length]]

\* The checks of the adapter, which compares the vectors of one call.
RespondedWell(texts, vectors) ==
  LET seen == replied \o vectors
  IN /\ Len(vectors) = Len(texts)
     /\ \A i, j \in DOMAIN seen : seen[i].length = seen[j].length
     /\ configured # None => \A i \in DOMAIN seen : seen[i].length = configured

Raise ==
  /\ progress' = "raised"
  /\ UNCHANGED <<chunks, configured, dimensions, next, batch, batches, replied, embedded>>

Request ==
  /\ Embedding /\ Len(replied) < Len(Head(batches))
  /\ \E data \in Responses(RequestTexts) :
       LET vectors == InOrder(data)
       IN IF RespondedWell(RequestTexts, vectors)
            THEN /\ replied' = replied \o vectors
                 /\ UNCHANGED <<chunks, configured, dimensions, progress, next, batch,
                                batches, embedded>>
            ELSE Raise

\* The endpoint cannot be reached, or answers with an error.
RequestFails ==
  /\ Embedding /\ Len(replied) < Len(Head(batches))
  /\ Raise

(***************************************************************************)
(* The checks of _embed on what the provider returns for a batch.          *)
(***************************************************************************)
Returned == Embedding /\ Len(replied) >= Len(Head(batches))

Expected == IF dimensions = None THEN replied[1].length ELSE dimensions

Matches ==
  /\ Len(replied) = Len(Head(batches))
  /\ \A i \in DOMAIN replied : replied[i].length = Expected

AcceptBatch ==
  /\ Returned /\ Matches
  /\ embedded' = embedded \o Zip(Head(batches), replied)
  /\ dimensions' = Expected
  /\ batches' = Tail(batches)
  /\ replied' = <<>>
  /\ UNCHANGED <<chunks, configured, progress, next, batch>>

RefuseBatch == Returned /\ ~Matches /\ Raise

\* Every batch is embedded.  Without a chunk the length of a vector may still
\* be unknown.
Finish ==
  /\ progress = "embedding" /\ batches = <<>>
  /\ progress' = IF dimensions = None THEN "raised" ELSE "returned"
  /\ UNCHANGED <<chunks, configured, dimensions, next, batch, batches, replied, embedded>>

Init ==
  /\ chunks \in ChunkLists
  /\ configured \in {None} \cup Lengths
  /\ dimensions = configured
  /\ progress = "batching"
  /\ next = 1
  /\ batch = <<>> /\ batches = <<>> /\ replied = <<>> /\ embedded = <<>>

Next ==
  \/ AddChunk \/ EndBatching
  \/ Request \/ RequestFails
  \/ AcceptBatch \/ RefuseBatch \/ Finish

Spec == Init /\ [][Next]_vars

(***************************************************************************)
(* Properties.                                                             *)
(***************************************************************************)
Ids == [i \in 1..(next - 1) |-> i]

\* The batches partition the document.  Grouping loses no chunk, repeats none and
\* keeps their order: what has a vector, what waits in a batch and the batch being
\* filled are the chunks so far, so that _embed returns with a vector for each chunk
\* or raises.  A batch is not empty and within both bounds; only a chunk that is
\* above the token bound by itself is sent all the same, and alone.
BatchesPartition ==
  /\ [i \in DOMAIN embedded |-> embedded[i][1]] \o FlattenSeq(batches) \o batch = Ids
  /\ \A b \in Range(batches) : /\ Len(b) \in 1..BatchSize
                               /\ TokensIn(b) <= TokenLimit \/ Len(b) = 1

\* A vector goes to the chunk whose text it embeds, however the endpoint orders
\* its items, splits its work or fails, and the vectors of a document have one length:
\* the one that was configured, if any was.
VectorsReachTheirChunks ==
  \A i \in DOMAIN embedded :
    /\ embedded[i][2].text = embedded[i][1]
    /\ embedded[i][2].length = dimensions
=============================================================================
