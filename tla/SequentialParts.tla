-------------------------- MODULE SequentialParts --------------------------
(***************************************************************************)
(* The parts that work in the memory of one task, one request or one page, *)
(* which nobody else sees or changes meanwhile.  A task parses a document, *)
(* cleans it, packs its chunks and gets their vectors; a request ranks     *)
(* passages and builds a prompt, or counts matches; a page shows the list  *)
(* of documents.  A behaviour is one call of one part, or the life of one  *)
(* page.                                                                   *)
(***************************************************************************)
EXTENDS Naturals, Sequences

CONSTANTS
  Texts,                                                            \* MarkdownParser
  Parsed, AllTexts, Blank, Long,                                    \* Normalizer
  Settings, Documents,                                              \* ChunkPacker
  ChunkLists, BatchSize, TokenLimit, RequestSize, Lengths,          \* EmbeddingBatches
  Chunks, Places, Searches, FusionLimit, DenseWeight, LexicalWeight, RerankWeight,
  RankConstant, RerankScores, Limits,                 \* Ranking
  Rankings, MaxTokens, MinTokens,                                   \* ContextBuilder
  Selections, PerDocument, MaxEvidence,                             \* ExactCount
  Files, Drops, Connections, MaxLost                                \* LibraryPage

VARIABLES
  part,      \* the part that was called
  lines, line, headings, cut, outcome,
  pages, page, margins, kept, removed,
  config, pieces, index, current, draft, covered,
  chunks, configured, dimensions, progress, next, batch, batches, replied, embedded,
  dense, lexical, limits, stage, fused, twins, fusion, opinion, final, ranked, place,
  selected,
  candidates, position, blocks, truncated, built,
  documents, counted, round, turn, shown, finished,
  service, listed, polling, lists, uploads, deletions, excused, lost

Parse == INSTANCE MarkdownParser WITH index <- line, blocks <- cut
Clean == INSTANCE Normalizer
Pack == INSTANCE ChunkPacker
Embed == INSTANCE EmbeddingBatches
Rank == INSTANCE Ranking
Build == INSTANCE ContextBuilder
Count == INSTANCE ExactCount
Page == INSTANCE LibraryPage

ASSUME PartsAssumption ==
  /\ Parse!TextAssumption /\ Clean!PagesAssumption /\ Pack!PackerAssumption
  /\ Embed!BatchAssumption /\ Rank!RankingAssumption /\ Build!BudgetAssumption
  /\ Count!CountAssumption

parseVars == <<lines, line, headings, cut, outcome>>
cleanVars == <<pages, page, margins, kept, removed>>
packVars == <<config, pieces, index, current, draft, covered>>
embedVars ==
  <<chunks, configured, dimensions, progress, next, batch, batches, replied, embedded>>
rankVars ==
  <<dense, lexical, limits, stage, fused, twins, fusion, opinion, final, ranked, place, selected>>
buildVars == <<candidates, position, blocks, truncated, built>>
countVars == <<documents, counted, round, turn, shown, finished>>
pageVars == <<service, listed, polling, lists, uploads, deletions, excused, lost>>

textVars == <<parseVars, cleanVars>>
allVars == <<part, textVars, packVars, embedVars, rankVars, buildVars, countVars, pageVars>>

(***************************************************************************)
(* A part that was not called has no state.                                *)
(***************************************************************************)
NotCalled == <<>>

ParseIdle ==
  /\ lines = NotCalled /\ line = NotCalled /\ headings = NotCalled
  /\ cut = NotCalled /\ outcome = NotCalled

CleanIdle ==
  /\ pages = NotCalled /\ page = NotCalled /\ margins = NotCalled
  /\ kept = NotCalled /\ removed = NotCalled

PackIdle ==
  /\ config = NotCalled /\ pieces = NotCalled /\ index = NotCalled
  /\ current = NotCalled /\ draft = NotCalled /\ covered = NotCalled

EmbedIdle ==
  /\ chunks = NotCalled /\ configured = NotCalled /\ dimensions = NotCalled
  /\ progress = NotCalled /\ next = NotCalled /\ batch = NotCalled
  /\ batches = NotCalled /\ replied = NotCalled /\ embedded = NotCalled

RankIdle ==
  /\ dense = NotCalled /\ lexical = NotCalled /\ limits = NotCalled
  /\ stage = NotCalled /\ fused = NotCalled /\ twins = NotCalled
  /\ fusion = NotCalled /\ opinion = NotCalled /\ final = NotCalled
  /\ ranked = NotCalled /\ place = NotCalled /\ selected = NotCalled

BuildIdle ==
  /\ candidates = NotCalled /\ position = NotCalled /\ blocks = NotCalled
  /\ truncated = NotCalled /\ built = NotCalled

CountIdle ==
  /\ documents = NotCalled /\ counted = NotCalled /\ round = NotCalled
  /\ turn = NotCalled /\ shown = NotCalled /\ finished = NotCalled

PageIdle ==
  /\ service = NotCalled /\ listed = NotCalled /\ polling = NotCalled
  /\ lists = NotCalled /\ uploads = NotCalled /\ deletions = NotCalled
  /\ excused = NotCalled /\ lost = NotCalled

OtherIdle ==
  /\ part # "parse" => ParseIdle
  /\ part # "clean" => CleanIdle
  /\ part # "pack" => PackIdle
  /\ part # "embed" => EmbedIdle
  /\ part # "rank" => RankIdle
  /\ part # "build" => BuildIdle
  /\ part # "count" => CountIdle
  /\ part # "page" => PageIdle

Init ==
  \/ part = "parse" /\ Parse!Init /\ OtherIdle
  \/ part = "clean" /\ Clean!Init /\ OtherIdle
  \/ part = "pack" /\ Pack!Init /\ OtherIdle
  \/ part = "embed" /\ Embed!Init /\ OtherIdle
  \/ part = "rank" /\ Rank!Init /\ OtherIdle
  \/ part = "build" /\ Build!Init /\ OtherIdle
  \/ part = "count" /\ Count!Init /\ OtherIdle
  \/ part = "page" /\ Page!Init /\ OtherIdle

PageStep(A) ==
  /\ part = "page" /\ A
  /\ UNCHANGED <<part, textVars, packVars, embedVars, rankVars, buildVars, countVars>>

CallNext ==
  \/ /\ part = "parse" /\ Parse!Next
     /\ UNCHANGED <<part, cleanVars, packVars, embedVars, rankVars, buildVars, countVars, pageVars>>
  \/ /\ part = "clean" /\ Clean!Next
     /\ UNCHANGED <<part, parseVars, packVars, embedVars, rankVars, buildVars, countVars, pageVars>>
  \/ /\ part = "pack" /\ Pack!Next
     /\ UNCHANGED <<part, textVars, embedVars, rankVars, buildVars, countVars, pageVars>>
  \/ /\ part = "embed" /\ Embed!Next
     /\ UNCHANGED <<part, textVars, packVars, rankVars, buildVars, countVars, pageVars>>
  \/ /\ part = "rank" /\ Rank!Next
     /\ UNCHANGED <<part, textVars, packVars, embedVars, buildVars, countVars, pageVars>>
  \/ /\ part = "build" /\ Build!Next
     /\ UNCHANGED <<part, textVars, packVars, embedVars, rankVars, countVars, pageVars>>
  \/ /\ part = "count" /\ Count!Next
     /\ UNCHANGED <<part, textVars, packVars, embedVars, rankVars, buildVars, pageVars>>

Next == CallNext \/ PageStep(Page!Next)

Spec == Init /\ [][Next]_allVars

\* A function runs until it returns, and the provider's client until its timeout;
\* the page's timer fires and its requests are answered (Fairness of LibraryPage).
FairSpec ==
  /\ Spec
  /\ WF_allVars(CallNext)
  /\ WF_allVars(PageStep(Page!Tick))
  /\ \A c \in Connections : WF_allVars(PageStep(Page!ListStep(c)))
  /\ \A u \in DOMAIN Drops : WF_allVars(PageStep(Page!UploadStep(u)))
  /\ \A d \in Files :
       WF_allVars(PageStep(Page!Work(d))) /\ WF_allVars(PageStep(Page!DeletionStep(d)))

(***************************************************************************)
(* Properties: those of the parts, of a call of each.                      *)
(***************************************************************************)

\* MarkdownParser: every line is in one block, under the headings that enclose it.
BlocksFollowText == part = "parse" => Parse!BlocksFollowText

\* Normalizer: a page loses exactly what repeats at the margins of the pages, and
\* the rest keeps its order.
OnlyMarginsGo == part = "clean" => Clean!OnlyMarginsGo

\* ChunkPacker: no chunk exceeds the hard maximum.
HardCap == part = "pack" => Pack!HardCap

\* ChunkPacker: packing loses no piece, repeats none and keeps their order.
EveryPieceOnce == part = "pack" => Pack!EveryPieceOnce

\* ChunkPacker: a chunk is a passage of one section with its overlap in front.
DraftIsPassage == part = "pack" => Pack!DraftIsPassage

\* EmbeddingBatches: the batches partition the document's chunks within both bounds.
BatchesPartition == part = "embed" => Embed!BatchesPartition

\* EmbeddingBatches: a vector goes to the chunk whose text it embeds.
VectorsReachTheirChunks == part = "embed" => Embed!VectorsReachTheirChunks

\* Ranking: the fusion never turns against both searches.
FusionAgrees == part = "rank" => Rank!FusionAgrees

\* Ranking: duplicates are represented once, by the one that was fused first.
OneOfEachTwin == part = "rank" => Rank!OneOfEachTwin

\* Ranking: the selection keeps to its limits and is as full as they allow.
SelectionFull == part = "rank" => Rank!SelectionFull

\* ContextBuilder: the whole prompt keeps to its budget.
BudgetHolds == part = "build" => Build!BudgetHolds

\* ContextBuilder: labels without a gap, on the best passages, and truncation reported
\* exactly if something is missing.
PromptTellsWhatItHolds == part = "build" => Build!LabelsNameBestPassages /\ Build!TruncationTold

\* ExactCount: the limits hold and are shared among the documents; a label leads
\* to a match, and all of them add up to the count.
EvidenceSupportsCount == part = "count" => Count!EvidenceIsShared /\ Count!LabelsLeadToMatches

\* Every call of every part comes to an end, also of the one that runs in a
\* task before the document can leave its working state.
EveryCallReturns ==
  <>CASE part = "parse" -> outcome # "parsing"
      [] part = "clean" -> removed
      [] part = "pack" -> Pack!Packed
      [] part = "embed" -> progress \in {"returned", "raised"}
      [] part = "rank" -> stage = "selected"
      [] part = "build" -> built
      [] part = "count" -> finished
      [] part = "page" -> TRUE

\* LibraryPage: in the end no row is "working", and what the page shows differs from
\* what the service has only if the last news came out of date or was lost.
PageSettles == <>[](part = "page" => Page!Settled)
=============================================================================
