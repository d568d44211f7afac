------------------------------ MODULE Ranking ------------------------------
(***************************************************************************)
(* How RetrievalService.search makes one selection of passages out of what *)
(* the two searches found (retrieval/fusion.py, retrieval/diversity.py):   *)
(* fusion by ranks, removal of duplicates, an optional reranker, and a     *)
(* selection under limits by document and by section.                      *)
(*                                                                         *)
(* Scores are exact here, as multiples of one common fraction.  The texts  *)
(* are known by which of them are duplicates of each other: of one hash,   *)
(* equal when normalised, or similar, which is not transitive.  The        *)
(* vectors are not modelled: which passage the marginal relevance takes    *)
(* after the first depends on them and may be any.  Every chunk that a     *)
(* search returns has a vector, and of one dimension.                      *)
(***************************************************************************)
EXTENDS Integers, FiniteSets, SequencesExt, Lists

CONSTANTS
  Chunks,          \* the ids of chunks
  Places,          \* where a chunk may be: its document and its section there
  Searches,        \* the pairs of lists that the two searches may return
  FusionLimit,
  DenseWeight, LexicalWeight, RerankWeight,   \* in percent
  RankConstant,    \* rrf_rank_constant
  RerankScores,    \* the scores a reranker may give
  Limits           \* the limits of the selection that a caller may ask for

\* A search returns each chunk once.
Hits == {list \in Seq(Chunks) : \A i, j \in DOMAIN list : list[i] = list[j] => i = j}

\* What RetrievalConfig refuses, and what the searches return.
RankingAssumption ==
  /\ Searches \subseteq Hits \X Hits
  /\ Chunks \subseteq Nat /\ IsFiniteSet(Chunks)
  /\ {FusionLimit, RankConstant} \subseteq Nat \ {0}
  /\ {DenseWeight, LexicalWeight} \subseteq Nat /\ RerankWeight \in 0..100
  /\ DenseWeight + LexicalWeight > 0
  /\ RerankScores \subseteq Nat
  /\ LET Limit == Nat \ {0}
     IN Limits \subseteq [sources : Limit, document : Limit, section : Limit]

VARIABLES
  dense, lexical,   \* what the searches returned, in their order
  limits,           \* source_limit, max_per_document, max_per_section
  stage,            \* the function that search calls next
  fused,            \* the result of the fusion
  twins,            \* the pairs of passages that are duplicates
  fusion,           \* fusion_score of the chunks found
  opinion,          \* the scores of the reranker, <<>> without them
  final,            \* final_score
  ranked,           \* deduplicated: duplicates removed, then in the order of the final scores
  place,            \* where the chunks are
  selected          \* the passages selected so far

vars ==
  <<dense, lexical, limits, stage, fused, twins, fusion, opinion, final, ranked, place, selected>>

(***************************************************************************)
(* reciprocal_rank_fusion.                                                 *)
(***************************************************************************)

\* A rank for a chunk that a list does not have: behind all others.
Unranked == 1000000000

RankIn(list, c) ==
  IF Contains(list, c) THEN CHOOSE i \in DOMAIN list : list[i] = c ELSE Unranked

\* The common multiple of what the ranks are divided by.
Unit ==
  FoldLeft(LAMBDA product, r : product * (RankConstant + r), 1,
           [r \in 1..Cardinality(Chunks) |-> r])

Share(weight, list, c) ==
  IF Contains(list, c) THEN weight * (Unit \div (RankConstant + RankIn(list, c))) ELSE 0

\* Mutant of FusionScore: the mean of the shares, not their sum.
FusionScoreMean(c) ==
  (Share(DenseWeight, dense, c) + Share(LexicalWeight, lexical, c))
    \div Cardinality({list \in {dense, lexical} : Contains(list, c)})

FusionScore(c) == Share(DenseWeight, dense, c) + Share(LexicalWeight, lexical, c)

\* The order of the tuples (-score, dense rank, lexical rank, id).
Precedes(score, a, b) ==
  \/ score[a] > score[b]
  \/ /\ score[a] = score[b]
     /\ \/ RankIn(dense, a) < RankIn(dense, b)
        \/ /\ RankIn(dense, a) = RankIn(dense, b)
           /\ \/ RankIn(lexical, a) < RankIn(lexical, b)
              \/ (RankIn(lexical, a) = RankIn(lexical, b) /\ a < b)

Ahead(score) ==
  {pair \in (DOMAIN score) \X (DOMAIN score) : Precedes(score, pair[1], pair[2])}

First(list, n) == SubSeq(list, 1, IF n < Len(list) THEN n ELSE Len(list))

Fuse ==
  /\ stage = "fuse"
  /\ fusion' = [c \in Range(dense) \cup Range(lexical) |-> FusionScore(c)]
  /\ final' = fusion'
  /\ fused' = First(Arranged(DOMAIN fusion', Ahead(fusion')), FusionLimit)
  /\ stage' = "deduplicate"
  /\ UNCHANGED <<dense, lexical, limits, twins, opinion, ranked, place, selected>>

(***************************************************************************)
(* deduplicate_ranked_candidates.                                          *)
(***************************************************************************)
Pairs(list) == {p \in Range(list) \X Range(list) : p[1] # p[2]}

\* Mutant of WithoutTwins: a passage is compared with the last one kept.
WithoutTwinsOfLast(list, pairs) ==
  FoldLeft(LAMBDA kept, c :
             IF kept # <<>> /\ <<Last(kept), c>> \in pairs THEN kept ELSE Append(kept, c),
           <<>>, list)

WithoutTwins(list, pairs) ==
  FoldLeft(LAMBDA kept, c :
             IF \E k \in Range(kept) : <<k, c>> \in pairs THEN kept ELSE Append(kept, c),
           <<>>, list)

Deduplicate ==
  /\ stage = "deduplicate"
  /\ \E similar \in SUBSET {p \in Pairs(fused) : p[1] < p[2]} :
       twins' = similar \cup {<<p[2], p[1]>> : p \in similar}
  /\ ranked' = WithoutTwins(fused, twins')
  /\ stage' = "rerank"
  /\ UNCHANGED <<dense, lexical, limits, fused, fusion, opinion, final, place, selected>>

(***************************************************************************)
(* The reranker and attach_rerank_scores.                                  *)
(***************************************************************************)

\* _minmax, as a numerator and a denominator.
Normal(value, values) ==
  LET low == Min(values)
      high == Max(values)
  IN IF low = high THEN <<1, 1>> ELSE <<value - low, high - low>>

\* The fused and the reranker's score of each chunk, weighted; the denominators
\* are the same for all chunks.
Weighted(scores) ==
  LET list == DOMAIN scores
      fusions == {fusion[x] : x \in list}
      opinions == {scores[x] : x \in list}
  IN [c \in list |->
        LET f == Normal(fusion[c], fusions)
            r == Normal(scores[c], opinions)
        IN (100 - RerankWeight) * f[1] * r[2] + RerankWeight * r[1] * f[2]]

\* The order of the tuples (-final_score, chunk_id).
Higher(score) ==
  {pair \in (DOMAIN score) \X (DOMAIN score) :
     \/ score[pair[1]] > score[pair[2]]
     \/ score[pair[1]] = score[pair[2]] /\ pair[1] < pair[2]}

\* The searches' metadata says where the chunks are; selection is next.
Locate ==
  /\ place' \in [Range(ranked) -> Places]
  /\ stage' = "select"
  /\ UNCHANGED <<dense, lexical, limits, fused, twins, fusion, selected>>

Rerank ==
  /\ stage = "rerank" /\ ranked # <<>>
  /\ opinion' \in [Range(ranked) -> RerankScores]
  /\ final' = Weighted(opinion')
  /\ ranked' = Arranged(DOMAIN final', Higher(final'))
  /\ Locate

\* There is nothing to rerank, or the reranker raises, or its scores are refused.
KeepOrder ==
  /\ stage = "rerank"
  /\ UNCHANGED <<opinion, final, ranked>>
  /\ Locate

(***************************************************************************)
(* select_diverse_candidates.                                              *)
(***************************************************************************)
SelectedIn(doc) == {c \in Range(selected) : place[c].doc = doc}

SelectedAt(p) == {c \in Range(selected) : place[c] = p}

\* Mutant of Admitted: sections of one name are counted together.
AdmittedByName(c) ==
  /\ Cardinality(SelectedIn(place[c].doc)) < limits.document
  /\ Cardinality({x \in Range(selected) : place[x].section = place[c].section}) < limits.section

Admitted(c) ==
  /\ Cardinality(SelectedIn(place[c].doc)) < limits.document
  /\ Cardinality(SelectedAt(place[c])) < limits.section

Eligible == {c \in Range(ranked) \ Range(selected) : Admitted(c)}

\* max by (final_score, chunk_id).
Best ==
  CHOOSE c \in Eligible : \A x \in Eligible :
    final[c] > final[x] \/ (final[c] = final[x] /\ c >= x)

MaySelect == stage = "select" /\ Len(selected) < limits.sources /\ Eligible # {}

Select(c) ==
  /\ selected' = Append(selected, c)
  /\ UNCHANGED <<dense, lexical, limits, stage, fused, twins, fusion, opinion, final, ranked, place>>

SelectFirst == MaySelect /\ selected = <<>> /\ Select(Best)

\* By marginal relevance: at least two chunks are there, and all have vectors.
SelectNext == MaySelect /\ selected # <<>> /\ \E c \in Eligible : Select(c)

EndSelection ==
  /\ stage = "select" /\ (Len(selected) >= limits.sources \/ Eligible = {})
  /\ stage' = "selected"
  /\ UNCHANGED <<dense, lexical, limits, fused, twins, fusion, opinion, final, ranked, place,
                 selected>>

Init ==
  /\ \E lists \in Searches : dense = lists[1] /\ lexical = lists[2]
  /\ limits \in Limits
  /\ stage = "fuse"
  /\ fused = <<>> /\ ranked = <<>> /\ selected = <<>>
  /\ twins = {}
  /\ fusion = <<>> /\ opinion = <<>> /\ final = <<>> /\ place = <<>>

Next ==
  \/ Fuse \/ Deduplicate
  \/ Rerank \/ KeepOrder
  \/ SelectFirst \/ SelectNext \/ EndSelection

Spec == Init /\ [][Next]_vars

(***************************************************************************)
(* Properties.                                                             *)
(***************************************************************************)

\* a stands at least as high as b in both searches.
NoLower(a, b) ==
  RankIn(dense, a) <= RankIn(dense, b) /\ RankIn(lexical, a) <= RankIn(lexical, b)

\* The fusion never turns against both searches: a chunk that stands at least
\* as high as another in both comes first, and is not cut off before it.
FusionAgrees ==
  \A j \in DOMAIN fused : \A a \in Range(dense) \cup Range(lexical) :
    (a # fused[j] /\ NoLower(a, fused[j])) => \E i \in 1..(j - 1) : fused[i] = a

\* No two passages of the selection are duplicates, and a passage that was removed
\* for a duplicate is represented by one that was fused before it.
OneOfEachTwin ==
  stage \in {"rerank", "select", "selected"} =>
    /\ \A a, b \in Range(ranked) : <<a, b>> \notin twins
    /\ \A j \in DOMAIN fused :
         fused[j] \in Range(ranked) \/ \E i \in 1..(j - 1) :
                                         fused[i] \in Range(ranked) /\ <<fused[i], fused[j]>> \in twins

\* The selection respects its three limits, and leaves a passage out only when
\* it is full, or the document or the section of the passage is.
SelectionFull ==
  /\ Len(selected) <= limits.sources
  /\ \A c \in Range(selected) : /\ Cardinality(SelectedIn(place[c].doc)) <= limits.document
                                /\ Cardinality(SelectedAt(place[c])) <= limits.section
  /\ (stage = "selected" /\ Len(selected) < limits.sources) =>
       \A c \in Range(ranked) \ Range(selected) :
         \/ Cardinality(SelectedIn(place[c].doc)) = limits.document
         \/ Cardinality(SelectedAt(place[c])) = limits.section
=============================================================================
