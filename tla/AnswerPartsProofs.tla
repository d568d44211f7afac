------------------------- MODULE AnswerPartsProofs -------------------------
(***************************************************************************)
(* What the parts that work for a question promise, for all their inputs,  *)
(* as SequentialParts calls them: ContextBuilder, Ranking and ExactCount.  *)
(* BuildIInv, RankIInv and CountIInv are their inductive invariants.       *)
(***************************************************************************)
EXTENDS SequentialParts, ListsProofs

(***************************************************************************)
(* ContextBuilder: the inductive invariant.  The loop has placed the       *)
(* passages before its position, and while it runs, any_truncated says     *)
(* whether it has cut one.                                                 *)
(***************************************************************************)
Passages == [frame : Build!Text, text : Build!Text]

Blocks == [label : Nat, passage : Nat, text : Build!Text, cut : BOOLEAN]

BuildTypes ==
  /\ candidates \in Seq(Passages)
  /\ blocks \in Seq(Blocks)
  /\ position \in Nat
  /\ truncated \in BOOLEAN
  /\ built \in BOOLEAN

InStep == position = Len(blocks) + 1 /\ Len(blocks) <= Len(candidates)

CutIsKnown ==
  \A i \in DOMAIN blocks : blocks[i].cut <=> blocks[i].text # candidates[i].text

CutIsTold == ~built => (truncated <=> \E i \in DOMAIN blocks : blocks[i].cut)

BuildIInv ==
  /\ BuildTypes /\ InStep /\ CutIsKnown /\ CutIsTold
  /\ Build!BudgetHolds /\ Build!LabelsNameBestPassages /\ Build!TruncationTold

(***************************************************************************)
(* A text of no characters needs no token, and a beginning of a text is    *)
(* another text.                                                           *)
(***************************************************************************)
LEMMA NoTokens == Build!Estimate(Build!NoText) = 0
  BY DEF Build!Estimate, Build!NoText

\* A passage that was cut is not its text.
LEMMA BeginningDiffers ==
  ASSUME NEW text \in Build!Text, NEW t \in Build!Beginnings(text)
  PROVE  t \in Build!Text /\ t # text
<1>1. t \in [chars : 0..(text.chars - 1), words : 0..text.words]
  BY DEF Build!Beginnings
<1>2. text.chars \in Nat /\ text.words \in Nat
  BY DEF Build!Text
<1>3. t.chars \in Nat /\ t.words \in Nat /\ t.chars # text.chars
  BY <1>1, <1>2
<1> QED
  BY <1>1, <1>3 DEF Build!Text

(***************************************************************************)
(* The two ways in which an iteration ends.                                *)
(***************************************************************************)

\* A block is placed: whole, or cut and then not equal to the passage.
LEMMA PlaceKeeps ==
  ASSUME BuildIInv, Build!HasNext,
         NEW text \in Build!Text, NEW short \in BOOLEAN,
         short <=> text # Build!Passage,
         Build!Fits(text, short), Build!Place(text, short)
  PROVE  BuildIInv'
<1> DEFINE b == Build!Block(text, short)
<1>1. /\ candidates \in Seq(Passages) /\ blocks \in Seq(Blocks)
      /\ position = Len(blocks) + 1 /\ position <= Len(candidates) /\ ~built
      /\ truncated \in BOOLEAN
  BY DEF BuildIInv, BuildTypes, InStep, Build!HasNext
<1>2. Len(blocks) \in Nat /\ Len(candidates) \in Nat /\ position \in Nat
  BY <1>1
<1>3. b \in Blocks /\ b.label = position /\ b.passage = position /\ b.text = text /\ b.cut = short
  BY <1>1, <1>2 DEF Build!Block, Blocks
<1>4. /\ candidates' = candidates /\ blocks' = Append(blocks, b) /\ position' = position + 1
      /\ truncated' = (truncated \/ short) /\ built' = built
  BY DEF Build!Place
<1> HIDE DEF b
<1>5. /\ blocks' \in Seq(Blocks) /\ Len(blocks') = position
      /\ DOMAIN blocks = 1..Len(blocks) /\ DOMAIN blocks' = 1..position
      /\ blocks'[position] = b
      /\ \A i \in DOMAIN blocks : i \in DOMAIN blocks' /\ blocks'[i] = blocks[i]
  BY <1>1, <1>2, <1>3, <1>4
<1>6. \A i \in DOMAIN blocks' : i \in DOMAIN blocks \/ i = position
  BY <1>1, <1>2, <1>5
<1>7. BuildTypes'
  <2>1. truncated' \in BOOLEAN /\ built' \in BOOLEAN
    BY <1>4 DEF BuildIInv, BuildTypes
  <2>2. position' \in Nat
    BY <1>2, <1>4
  <2> QED
    BY <2>1, <2>2, <1>1, <1>4, <1>5 DEF BuildTypes
<1>8. InStep'
  BY <1>1, <1>2, <1>4, <1>5 DEF InStep
<1>9. CutIsKnown'
  <2>1. \A i \in DOMAIN blocks : blocks[i].cut <=> blocks[i].text # candidates[i].text
    BY DEF BuildIInv, CutIsKnown
  <2>2. b.cut <=> b.text # candidates[position].text
    BY <1>3 DEF Build!Passage
  <2> QED
    BY <2>1, <2>2, <1>4, <1>5, <1>6 DEF CutIsKnown
<1>10. CutIsTold'
  <2>1. truncated <=> \E i \in DOMAIN blocks : blocks[i].cut
    BY <1>1 DEF BuildIInv, CutIsTold
  <2>2. position \in DOMAIN blocks'
    BY <1>1, <1>2, <1>5
  <2>3. (\E i \in DOMAIN blocks' : blocks'[i].cut) <=> (\E i \in DOMAIN blocks : blocks[i].cut) \/ b.cut
    BY <2>2, <1>5, <1>6
  <2> QED
    BY <2>1, <2>3, <1>3, <1>4 DEF CutIsTold
<1>11. Build!BudgetHolds'
  BY <1>4 DEF Build!Fits, Build!BudgetHolds, Build!Used, b
<1>12. Build!LabelsNameBestPassages'
  <2>1. \A i \in DOMAIN blocks : blocks[i].label = i /\ blocks[i].passage = i
    BY DEF BuildIInv, Build!LabelsNameBestPassages
  <2> QED
    BY <2>1, <1>3, <1>5, <1>6 DEF Build!LabelsNameBestPassages
<1>13. Build!TruncationTold'
  BY <1>1, <1>4 DEF Build!TruncationTold
<1> QED
  BY <1>7, <1>8, <1>9, <1>10, <1>11, <1>12, <1>13 DEF BuildIInv

\* The loop is left: the passage at its position is not in the prompt.
LEMMA LeaveKeeps ==
  ASSUME BuildIInv, Build!HasNext, Build!Leave
  PROVE  BuildIInv'
<1>1. /\ candidates \in Seq(Passages) /\ blocks \in Seq(Blocks) /\ position \in Nat
      /\ position = Len(blocks) + 1 /\ position <= Len(candidates)
  BY DEF BuildIInv, BuildTypes, InStep, Build!HasNext
<1>2. position \in DOMAIN candidates /\ position > Len(blocks)
  BY <1>1
<1>3. /\ candidates' = candidates /\ blocks' = blocks /\ position' = position
      /\ truncated' = TRUE /\ built' = TRUE
  BY DEF Build!Leave
<1>4. BuildTypes' /\ InStep' /\ CutIsKnown' /\ CutIsTold'
  BY <1>3 DEF BuildIInv, BuildTypes, InStep, CutIsKnown, CutIsTold
<1>5. Build!BudgetHolds' /\ Build!LabelsNameBestPassages'
  BY <1>3 DEF BuildIInv, Build!BudgetHolds, Build!Used, Build!LabelsNameBestPassages
<1>6. Build!TruncationTold'
  BY <1>2, <1>3 DEF Build!TruncationTold
<1> QED
  BY <1>4, <1>5, <1>6 DEF BuildIInv

(***************************************************************************)
(* The invariant, and the theorems.                                        *)
(***************************************************************************)
LEMMA BuildInit ==
  ASSUME Build!BudgetAssumption, Build!Init
  PROVE  BuildIInv
<1>1. /\ candidates \in Seq(Passages) /\ blocks = <<>> /\ position = 1
      /\ truncated = FALSE /\ built = FALSE
  BY DEF Build!Init, Build!BudgetAssumption, Passages
<1>2. blocks \in Seq(Blocks) /\ Len(blocks) = 0 /\ DOMAIN blocks = {} /\ Len(candidates) \in Nat
  BY <1>1
<1>3. BuildTypes
  BY <1>1, <1>2 DEF BuildTypes
<1>6. InStep
  BY <1>1, <1>2 DEF InStep
<1>7. CutIsKnown /\ CutIsTold
  BY <1>1, <1>2 DEF CutIsKnown, CutIsTold
<1>4. Build!BudgetHolds
  BY <1>1, NoTokens DEF Build!BudgetHolds, Build!Used, Build!Joined, Build!BudgetAssumption
<1>5. Build!LabelsNameBestPassages /\ Build!TruncationTold
  BY <1>1, <1>2 DEF Build!LabelsNameBestPassages, Build!TruncationTold
<1> QED
  BY <1>3, <1>4, <1>5, <1>6, <1>7 DEF BuildIInv

LEMMA BuildStep ==
  ASSUME Build!BudgetAssumption, BuildIInv, Build!Next \/ UNCHANGED buildVars
  PROVE  BuildIInv'
<1>1. Build!HasNext => Build!Passage \in Build!Text
  <2>1. Build!HasNext => position \in DOMAIN candidates /\ candidates \in Seq(Passages)
    BY DEF BuildIInv, BuildTypes, InStep, Build!HasNext
  <2>2. Build!HasNext => candidates[position] \in Passages
    BY <2>1
  <2> QED
    BY <2>2 DEF Build!Passage, Passages
<1>2. CASE Build!NoRoom
  BY <1>2, LeaveKeeps DEF Build!NoRoom
<1>3. CASE Build!PlaceWhole
  <2>1. Build!HasNext /\ Build!Fits(Build!Passage, FALSE) /\ Build!Place(Build!Passage, FALSE)
    BY <1>3 DEF Build!PlaceWhole, Build!FitsWhole
  <2> QED
    BY <2>1, <1>1, PlaceKeeps
<1>4. CASE Build!PlaceCut
  <2>1. PICK t \in Build!Cuts : Build!Estimate(t) >= MinTokens /\ Build!Place(t, TRUE)
    BY <1>4 DEF Build!PlaceCut
  <2>2. Build!HasNext /\ t \in Build!Beginnings(Build!Passage)
    BY <1>4 DEF Build!PlaceCut, Build!Cuts
  <2>3. t \in Build!Text /\ t # Build!Passage
    BY <2>2, <1>1, BeginningDiffers
  <2>4. t # Build!NoText
    BY <2>1, NoTokens DEF Build!BudgetAssumption
  <2>5. Build!Fits(t, TRUE)
    BY <2>4 DEF Build!Cuts
  <2> QED
    BY <2>1, <2>2, <2>3, <2>5, PlaceKeeps
<1>5. CASE Build!DropScrap
  BY <1>5, LeaveKeeps DEF Build!DropScrap
<1>6. CASE Build!AllPlaced
  <2>1. /\ candidates' = candidates /\ blocks' = blocks /\ position' = position
        /\ truncated' = truncated /\ ~built /\ built' = TRUE /\ position > Len(candidates)
    BY <1>6 DEF Build!AllPlaced
  <2>2. /\ candidates \in Seq(Passages) /\ blocks \in Seq(Blocks)
        /\ Len(blocks) = Len(candidates)
    BY <2>1 DEF BuildIInv, BuildTypes, InStep
  <2>3. DOMAIN candidates = DOMAIN blocks /\ \A i \in DOMAIN candidates : ~(i > Len(blocks))
    BY <2>2
  <2>4. BuildTypes' /\ InStep' /\ CutIsKnown' /\ CutIsTold'
    BY <2>1 DEF BuildIInv, BuildTypes, InStep, CutIsKnown, CutIsTold
  <2>5. Build!BudgetHolds' /\ Build!LabelsNameBestPassages'
    BY <2>1 DEF BuildIInv, Build!BudgetHolds, Build!Used, Build!LabelsNameBestPassages
  <2>6. Build!TruncationTold'
    BY <2>1, <2>3 DEF BuildIInv, Build!TruncationTold, CutIsKnown, CutIsTold
  <2> QED
    BY <2>4, <2>5, <2>6 DEF BuildIInv
<1>7. CASE UNCHANGED buildVars
  BY <1>7 DEF buildVars, BuildIInv, BuildTypes, InStep, CutIsKnown, CutIsTold, Build!BudgetHolds, Build!Used,
              Build!LabelsNameBestPassages, Build!TruncationTold
<1> QED
  BY <1>2, <1>3, <1>4, <1>5, <1>6, <1>7 DEF Build!Next

(***************************************************************************)
(* ContextBuilder: the theorems.                                           *)
(***************************************************************************)
LEMMA BuildMoves ==
  ASSUME [Next]_allVars
  PROVE  part' = part /\ (part = "build" => Build!Next \/ UNCHANGED buildVars)
BY DEF Next, CallNext, PageStep, allVars, buildVars

BuildHolds == part = "build" => BuildIInv

THEOREM BuildInvariant == Spec => []BuildHolds
<1>1. Init => BuildHolds
  BY BuildInit, PartsAssumption DEF Init, BuildHolds
<1>2. BuildHolds /\ [Next]_allVars => BuildHolds'
  BY BuildMoves, BuildStep, PartsAssumption DEF BuildHolds
<1> QED BY <1>1, <1>2, PTL DEF Spec

\* The prompt that is built never exceeds max_context_tokens, whatever the passages
\* and the budget are.
THEOREM PromptFits == Spec => []BudgetHolds
<1>1. BuildHolds => BudgetHolds
  BY DEF BuildHolds, BuildIInv, BudgetHolds
<1> QED BY <1>1, BuildInvariant, PTL

\* The labels of a prompt are S1 to Sn, for the n best passages, and
\* context_truncated is reported exactly when a passage is missing or cut.
THEOREM PromptIsTold == Spec => []PromptTellsWhatItHolds
<1>1. BuildHolds => PromptTellsWhatItHolds
  BY DEF BuildHolds, BuildIInv, PromptTellsWhatItHolds
<1> QED BY <1>1, BuildInvariant, PTL

(***************************************************************************)
(* Ranking: ranks and shares.                                              *)
(***************************************************************************)
Hits == Rank!Hits

\* The chunks that the searches have found.
Found == Rank!Range(dense) \cup Rank!Range(lexical)

LEMMA RankCount == ASSUME NEW S PROVE Rank!Cardinality(S) = Cardinality(S)
BY DEF Rank!Cardinality, Cardinality

LEMMA RankArranged == ASSUME NEW s, NEW b PROVE Rank!Arranged(s, b) = Arranged(s, b)
BY DEF Rank!Arranged, Arranged, Rank!Cardinality, Cardinality

LEMMA RankSettings ==
  /\ \A pair \in Searches : pair[1] \in Hits /\ pair[2] \in Hits
  /\ Chunks \subseteq Nat /\ IsFiniteSet(Chunks)
  /\ FusionLimit \in Nat /\ FusionLimit > 0 /\ RankConstant \in Nat /\ RankConstant > 0
  /\ DenseWeight \in Nat /\ LexicalWeight \in Nat /\ RerankWeight \in 0..100
  /\ RerankScores \subseteq Nat
  /\ \A l \in Limits : /\ l.sources \in Nat /\ l.sources > 0
                       /\ l.document \in Nat /\ l.document > 0
                       /\ l.section \in Nat /\ l.section > 0
<1>1. Rank!IsFiniteSet(Chunks) => IsFiniteSet(Chunks)
  BY DEF Rank!IsFiniteSet, IsFiniteSet
<1> QED BY <1>1, PartsAssumption DEF Rank!RankingAssumption, Hits

\* A list has a chunk at one place.
LEMMA RankKnown ==
  ASSUME NEW list \in Hits, NEW c
  PROVE  /\ Len(list) \in Nat /\ DOMAIN list = 1..Len(list)
         /\ Rank!Contains(list, c) =>
              Rank!RankIn(list, c) \in 1..Len(list) /\ list[Rank!RankIn(list, c)] = c
         /\ ~Rank!Contains(list, c) => Rank!RankIn(list, c) = Rank!Unranked
         /\ Rank!RankIn(list, c) \in Nat /\ Rank!RankIn(list, c) > 0
         /\ c \in Rank!Range(list) <=> Rank!Contains(list, c)
<1>1. list \in Seq(Chunks) /\ Len(list) \in Nat /\ DOMAIN list = 1..Len(list)
  BY DEF Hits, Rank!Hits
<1>2. c \in Rank!Range(list) <=> Rank!Contains(list, c)
  BY <1>1 DEF Rank!Range, Rank!Contains
<1>3. ASSUME Rank!Contains(list, c)
      PROVE  Rank!RankIn(list, c) \in 1..Len(list) /\ list[Rank!RankIn(list, c)] = c
  <2>1. \E i \in 1..Len(list) : list[i] = c
    BY <1>3 DEF Rank!Contains
  <2>2. Rank!RankIn(list, c) = CHOOSE i \in 1..Len(list) : list[i] = c
    BY <1>1, <1>3 DEF Rank!RankIn
  <2> QED BY <2>1, <2>2
<1>4. ~Rank!Contains(list, c) => Rank!RankIn(list, c) = Rank!Unranked
  BY DEF Rank!RankIn
<1>5. Rank!Unranked \in Nat /\ Rank!Unranked > 0
  BY DEF Rank!Unranked
<1> QED BY <1>1, <1>2, <1>3, <1>4, <1>5

\* The common multiple is a natural number.
LEMMA UnitIsNat == Rank!Unit \in Nat
<1> DEFINE n == Cardinality(Chunks)
           ranks == [r \in 1..n |-> r]
           F == [p \in (1..n) \X Nat |-> p[2] * (RankConstant + p[1])]
           IsProduct(it) == it = [t \in SUBSET (DOMAIN ranks) |->
                                    IF t = {} THEN 1
                                    ELSE it[t \ {Max(t)}] * (RankConstant + ranks[Max(t)])]
           c == CHOOSE it : IsProduct(it)
<1>1. n \in Nat /\ DOMAIN ranks = 1..n /\ \A i \in 1..n : ranks[i] = i
  BY RankSettings, FS_CardinalityType
<1>2. PICK it \in [SUBSET (1..n) -> Nat] : IsIteration(it, n, 1, F)
  <2>1. F \in [(1..n) \X Nat -> Nat]
    <3>1. \A a, b \in Nat : a * (RankConstant + b) \in Nat
      BY RankSettings
    <3>2. ASSUME NEW p \in (1..n) \X Nat PROVE p[2] * (RankConstant + p[1]) \in Nat
      <4>1. p[1] \in Nat /\ p[2] \in Nat
        BY <1>1
      <4> QED BY <3>1, <4>1, Zenon
    <3> HIDE DEF n
    <3> QED BY <3>2, Zenon
  <2> HIDE DEF F, n
  <2> QED BY <1>1, <2>1, IterationExists
<1>3. IsProduct(it)
  <2>1. ASSUME NEW t \in SUBSET (1..n), t # {}
        PROVE  F[<<Max(t), it[t \ {Max(t)}]>>] = it[t \ {Max(t)}] * (RankConstant + ranks[Max(t)])
    <3>1. Max(t) \in 1..n
      BY <1>1, <2>1, MaxIsThere
    <3>2. it[t \ {Max(t)}] \in Nat
      OBVIOUS
    <3> HIDE DEF n
    <3> QED BY <3>1, <3>2
  <2>2. it = [t \in SUBSET (1..n) |->
                IF t = {} THEN 1 ELSE it[t \ {Max(t)}] * (RankConstant + ranks[Max(t)])]
    <3> HIDE DEF F, n, ranks
    <3> QED BY <1>2, <2>1 DEF IsIteration
  <2> QED BY <1>1, <2>2
<1>4. IsProduct(c)
  <2> HIDE DEF IsProduct
  <2> QED BY <1>3
<1>5. Rank!Unit = c[1..n]
  <2>1. Rank!Cardinality(Chunks) = n
    BY RankCount
  <2> QED BY <1>1, <2>1 DEF Rank!Unit, Rank!FoldLeft, Rank!MapThenFoldSet, Rank!Max, Max
<1>6. c[{}] = 1 /\ \A k \in 1..n : c[1..k] = c[1..(k - 1)] * (RankConstant + k)
  <2>1. c = [t \in SUBSET (1..n) |->
               IF t = {} THEN 1 ELSE c[t \ {Max(t)}] * (RankConstant + ranks[Max(t)])]
    BY <1>1, <1>4
  <2> HIDE DEF c, n, ranks
  <2>2. ASSUME NEW k \in 1..n PROVE c[1..k] = c[1..(k - 1)] * (RankConstant + k)
    <3>1. 1..k \in SUBSET (1..n) /\ Max(1..k) = k /\ (1..k) \ {k} = 1..(k - 1) /\ 1..k # {}
      BY <1>1, IterationSteps
    <3>2. c[1..k] = c[(1..k) \ {Max(1..k)}] * (RankConstant + ranks[Max(1..k)])
      BY <2>1, <3>1, Zenon
    <3>3. ranks[k] = k
      BY <1>1
    <3> QED BY <3>1, <3>2, <3>3, Zenon
  <2> QED BY <2>1, <2>2
<1> DEFINE Good == {k \in 0..n : c[1..k] \in Nat}
<1> HIDE DEF c, n
<1>7. 0 \in Good
  <2>1. 1..0 = {}
    OBVIOUS
  <2> QED BY <1>1, <1>6, <2>1
<1>8. ASSUME NEW i \in 1..n, i - 1 \in Good PROVE i \in Good
  <2>1. c[1..(i - 1)] \in Nat /\ RankConstant + i \in Nat /\ i \in 0..n
    BY <1>1, <1>8, RankSettings
  <2>2. \A a, b \in Nat : a * b \in Nat
    OBVIOUS
  <2> QED BY <1>6, <2>1, <2>2
<1>9. n \in Good
  <2> HIDE DEF Good
  <2> QED BY <1>1, <1>7, <1>8, CountingTo
<1> QED BY <1>5, <1>9

\* Division by more gives no more.
LEMMA DivisionFalls ==
  ASSUME NEW n \in Nat, NEW p \in Nat, NEW q \in Nat, p > 0, p <= q
  PROVE  n \div q \in Nat /\ n \div p \in Nat /\ n \div q <= n \div p
<1> DEFINE d == n \div q
           e == n \div p
<1>1. d \in Nat /\ q * d <= n
  OBVIOUS
<1>2. e \in Nat /\ n < p * (e + 1)
  OBVIOUS
<1> HIDE DEF d, e
<1>3. p * d <= q * d
  BY <1>1
<1>4. p * d < p * (e + 1)
  BY <1>1, <1>2, <1>3
<1>5. d < e + 1
  <2> SUFFICES ASSUME ~(d < e + 1) PROVE FALSE
    OBVIOUS
  <2>1. p * (e + 1) <= p * d
    BY <1>1, <1>2
  <2> QED BY <1>1, <1>2, <1>4, <2>1
<1> QED BY <1>1, <1>2, <1>5 DEF d, e

\* Who stands no lower in a list has no smaller share of it.
LEMMA SharesFall ==
  ASSUME NEW list \in Hits, NEW weight \in Nat, NEW a, NEW b
  PROVE  /\ Rank!Share(weight, list, a) \in Nat
         /\ Len(list) < Rank!Unranked /\ Rank!RankIn(list, a) <= Rank!RankIn(list, b) =>
              Rank!Share(weight, list, b) <= Rank!Share(weight, list, a)
<1> DEFINE part1(c) == Rank!Unit \div (RankConstant + Rank!RankIn(list, c))
<1>1. \A c : /\ Rank!RankIn(list, c) \in Nat /\ Rank!RankIn(list, c) > 0
             /\ Rank!Contains(list, c) => Rank!RankIn(list, c) \in 1..Len(list)
             /\ ~Rank!Contains(list, c) => Rank!RankIn(list, c) = Rank!Unranked
  BY RankKnown
<1>2. \A c : part1(c) \in Nat
  <2>1. \A c : RankConstant + Rank!RankIn(list, c) \in Nat /\ RankConstant + Rank!RankIn(list, c) > 0
    BY <1>1, RankSettings
  <2> QED BY <2>1, UnitIsNat, DivisionFalls
<1>3. ASSUME NEW c PROVE Rank!Share(weight, list, c) = IF Rank!Contains(list, c) THEN weight * part1(c) ELSE 0
  BY DEF Rank!Share
<1>4. Rank!RankIn(list, a) <= Rank!RankIn(list, b) => part1(b) <= part1(a)
  <2>1. /\ RankConstant + Rank!RankIn(list, a) \in Nat /\ RankConstant + Rank!RankIn(list, a) > 0
        /\ RankConstant + Rank!RankIn(list, b) \in Nat
        /\ Rank!RankIn(list, a) <= Rank!RankIn(list, b) =>
             RankConstant + Rank!RankIn(list, a) <= RankConstant + Rank!RankIn(list, b)
    BY <1>1, RankSettings
  <2> QED BY <2>1, UnitIsNat, DivisionFalls
<1> HIDE DEF part1
<1>5. \A x, y \in Nat : weight * x \in Nat /\ (x <= y => weight * x <= weight * y)
  OBVIOUS
<1>6. Len(list) \in Nat
  BY RankKnown
<1>7. ASSUME Len(list) < Rank!Unranked, Rank!RankIn(list, a) <= Rank!RankIn(list, b),
             Rank!Contains(list, b)
      PROVE  Rank!Contains(list, a)
  BY <1>1, <1>6, <1>7 DEF Rank!Unranked
<1> QED BY <1>2, <1>3, <1>4, <1>5, <1>7

(***************************************************************************)
(* Ranking: the orders by which the code sorts.                            *)
(***************************************************************************)
LEMMA AheadOrders ==
  ASSUME dense \in Hits, lexical \in Hits, NEW score, DOMAIN score \subseteq Nat,
         \A c \in DOMAIN score : score[c] \in Int
  PROVE  Orders(Rank!Ahead(score), DOMAIN score)
<1> DEFINE D(c) == Rank!RankIn(dense, c)
           L(c) == Rank!RankIn(lexical, c)
           Before(a, b) ==
             \/ score[a] > score[b]
             \/ /\ score[a] = score[b]
                /\ D(a) < D(b) \/ (D(a) = D(b) /\ (L(a) < L(b) \/ (L(a) = L(b) /\ a < b)))
<1>1. \A c \in DOMAIN score : D(c) \in Int /\ L(c) \in Int /\ score[c] \in Int /\ c \in Int
  BY RankKnown
<1>2. \A a, b \in DOMAIN score : <<a, b>> \in Rank!Ahead(score) <=> Before(a, b)
  BY DEF Rank!Ahead, Rank!Precedes
<1> HIDE DEF D, L
<1>3. \A a, b \in DOMAIN score : a # b => Before(a, b) \/ Before(b, a)
  BY <1>1
<1>4. \A a \in DOMAIN score : ~Before(a, a)
  BY <1>1
<1>5. \A a, b, c \in DOMAIN score : Before(a, b) /\ Before(b, c) => Before(a, c)
  BY <1>1
<1> HIDE DEF Before
<1> QED BY <1>2, <1>3, <1>4, <1>5 DEF Orders

\* Scores and, among equal ones, the order of the passages order all passages.
LEMMA HigherOrders ==
  ASSUME NEW score, DOMAIN score \subseteq Nat, \A c \in DOMAIN score : score[c] \in Int
  PROVE  Orders(Rank!Higher(score), DOMAIN score)
<1> DEFINE Before(a, b) == score[a] > score[b] \/ (score[a] = score[b] /\ a < b)
<1>1. \A a, b \in DOMAIN score : <<a, b>> \in Rank!Higher(score) <=> Before(a, b)
  BY DEF Rank!Higher
<1>2. \A a, b \in DOMAIN score : a # b => Before(a, b) \/ Before(b, a)
  OBVIOUS
<1>3. \A a \in DOMAIN score : ~Before(a, a)
  OBVIOUS
<1>4. \A a, b, c \in DOMAIN score : Before(a, b) /\ Before(b, c) => Before(a, c)
  OBVIOUS
<1> HIDE DEF Before
<1> QED BY <1>1, <1>2, <1>3, <1>4 DEF Orders

(***************************************************************************)
(* Ranking: the fusion.                                                    *)
(***************************************************************************)
LEMMA FoundKnown ==
  ASSUME dense \in Hits, lexical \in Hits
  PROVE  Found \subseteq Chunks /\ Found \subseteq Nat /\ IsFiniteSet(Found)
<1>1. \A c \in Found : c \in Chunks
  <2>1. dense \in Seq(Chunks) /\ lexical \in Seq(Chunks)
    BY DEF Hits, Rank!Hits
  <2> QED BY <2>1 DEF Found, Rank!Range
<1> QED BY <1>1, RankSettings, FS_Subset

\* Whoever stands no lower in both lists is before the other when sorted.
LEMMA NoLowerIsAhead ==
  ASSUME dense \in Hits, lexical \in Hits,
         Len(dense) < Rank!Unranked, Len(lexical) < Rank!Unranked,
         NEW a \in Found, NEW b \in Found, a # b, Rank!NoLower(a, b)
  PROVE  Rank!Precedes([c \in Found |-> Rank!FusionScore(c)], a, b)
<1> DEFINE D(c) == Rank!RankIn(dense, c)
           L(c) == Rank!RankIn(lexical, c)
           score == [c \in Found |-> Rank!FusionScore(c)]
<1>1. D(a) <= D(b) /\ L(a) <= L(b)
  BY DEF Rank!NoLower
<1>2. D(a) \in Nat /\ D(b) \in Nat /\ L(a) \in Nat /\ L(b) \in Nat
  BY RankKnown
<1>3. score[a] \in Nat /\ score[b] \in Nat /\ score[b] <= score[a]
  <2> DEFINE da == Rank!Share(DenseWeight, dense, a)
             db == Rank!Share(DenseWeight, dense, b)
             la == Rank!Share(LexicalWeight, lexical, a)
             lb == Rank!Share(LexicalWeight, lexical, b)
  <2>1. da \in Nat /\ db \in Nat /\ db <= da
    BY <1>1, RankSettings, SharesFall
  <2>2. la \in Nat /\ lb \in Nat /\ lb <= la
    BY <1>1, RankSettings, SharesFall
  <2>3. score[a] = da + la /\ score[b] = db + lb
    BY DEF Rank!FusionScore
  <2> HIDE DEF da, db, la, lb, score
  <2> QED BY <2>1, <2>2, <2>3
<1>4. D(a) # D(b) \/ L(a) # L(b)
  <2> SUFFICES ASSUME D(a) = D(b), L(a) = L(b) PROVE FALSE
    OBVIOUS
  <2>1. /\ a \in Rank!Range(dense) \/ a \in Rank!Range(lexical)
        /\ b \in Rank!Range(dense) \/ b \in Rank!Range(lexical)
    BY DEF Found
  <2>2. ASSUME NEW list \in Hits, Len(list) < Rank!Unranked,
               Rank!RankIn(list, a) = Rank!RankIn(list, b), Rank!Contains(list, a)
        PROVE  FALSE
    <3>1. Rank!RankIn(list, a) \in 1..Len(list) /\ Len(list) \in Nat /\ list[Rank!RankIn(list, a)] = a
      BY <2>2, RankKnown
    <3>2. Rank!RankIn(list, b) # Rank!Unranked
      BY <2>2, <3>1 DEF Rank!Unranked
    <3>3. list[Rank!RankIn(list, b)] = b
      BY <2>2, <3>2, RankKnown
    <3> QED BY <2>2, <3>1, <3>3
  <2> QED BY <2>1, <2>2, RankKnown
<1> HIDE DEF D, L, score
<1>5. \/ score[a] > score[b]
      \/ /\ score[a] = score[b]
         /\ D(a) < D(b) \/ (D(a) = D(b) /\ L(a) < L(b))
  BY <1>1, <1>2, <1>3, <1>4
<1>6. Rank!Precedes(score, a, b)
  BY <1>5 DEF Rank!Precedes, D, L
<1> QED BY <1>6 DEF score

\* The first of a list.
LEMMA FirstOf ==
  ASSUME NEW S, NEW list \in Seq(S), NEW n \in Nat
  PROVE  LET beginning == Rank!First(list, n)
         IN /\ beginning \in Seq(S) /\ Len(beginning) \in Nat /\ Len(beginning) <= Len(list)
            /\ \A i \in 1..Len(beginning) : beginning[i] = list[i]
<1> DEFINE end == IF n < Len(list) THEN n ELSE Len(list)
<1>1. Rank!First(list, n) = SubSeq(list, 1, end)
  BY DEF Rank!First
<1>2. end \in 0..Len(list)
  OBVIOUS
<1> HIDE DEF end
<1>3. /\ SubSeq(list, 1, end) \in Seq(S) /\ Len(SubSeq(list, 1, end)) = end
      /\ \A i \in 1..end : SubSeq(list, 1, end)[i] = list[i]
  BY <1>2
<1> QED BY <1>1, <1>2, <1>3

LEMMA FusionIsSorted ==
  ASSUME dense \in Hits, lexical \in Hits
  PROVE  LET score == [c \in Found |-> Rank!FusionScore(c)]
             best == Rank!First(Rank!Arranged(Found, Rank!Ahead(score)), FusionLimit)
         IN /\ score \in [Found -> Nat]
            /\ best \in Seq(Found)
            /\ Len(dense) < Rank!Unranked /\ Len(lexical) < Rank!Unranked =>
                 \A j \in 1..Len(best) : \A a \in Found :
                   a # best[j] /\ Rank!NoLower(a, best[j]) => \E i \in 1..(j - 1) : best[i] = a
<1> DEFINE score == [c \in Found |-> Rank!FusionScore(c)]
           before == Rank!Ahead(score)
           list == Arranged(Found, before)
           best == Rank!First(Rank!Arranged(Found, before), FusionLimit)
           n == Cardinality(Found)
<1>1. score \in [Found -> Nat]
  <2>1. \A c : Rank!FusionScore(c) \in Nat
    BY RankSettings, SharesFall DEF Rank!FusionScore
  <2> QED BY <2>1
<1>2. Found \subseteq Nat /\ IsFiniteSet(Found)
  BY FoundKnown
<1>3. Orders(before, Found)
  <2>1. DOMAIN score = Found /\ \A c \in Found : score[c] \in Int
    BY <1>1
  <2> HIDE DEF score
  <2> QED BY <1>2, <2>1, AheadOrders
<1> HIDE DEF before
<1>4. /\ n \in Nat /\ list \in [1..n -> Found]
      /\ \A i, j \in 1..n : i < j => <<list[i], list[j]>> \in before
      /\ \A x \in Found : \E i \in 1..n : list[i] = x
  BY <1>2, <1>3, ArrangedIsSorted
<1>5. best = Rank!First(list, FusionLimit)
  BY RankArranged
<1> HIDE DEF list, n, best
<1>6. list \in Seq(Found) /\ Len(list) = n
  BY <1>4
<1>7. /\ best \in Seq(Found) /\ Len(best) \in Nat /\ Len(best) <= n
      /\ \A i \in 1..Len(best) : best[i] = list[i]
  BY <1>5, <1>6, FirstOf, RankSettings
<1>8. ASSUME Len(dense) < Rank!Unranked, Len(lexical) < Rank!Unranked,
             NEW j \in 1..Len(best), NEW a \in Found, a # best[j], Rank!NoLower(a, best[j])
      PROVE  \E i \in 1..(j - 1) : best[i] = a
  <2>1. j \in 1..n /\ best[j] = list[j] /\ list[j] \in Found
    BY <1>4, <1>7
  <2>2. Rank!Precedes(score, a, list[j])
    BY <1>8, <2>1, NoLowerIsAhead
  <2>3. <<a, list[j]>> \in before
    BY <2>1, <2>2 DEF before, Rank!Ahead
  <2>4. PICK i \in 1..n : list[i] = a
    BY <1>4
  <2>5. ~(j < i)
    <3> SUFFICES ASSUME j < i PROVE FALSE
      OBVIOUS
    <3>1. <<list[j], a>> \in before
      BY <1>4, <2>1, <2>4
    <3>2. <<a, a>> \in before
      BY <1>3, <2>1, <2>3, <3>1 DEF Orders
    <3> QED BY <1>3, <3>2 DEF Orders
  <2>6. i # j
    BY <1>8, <2>1, <2>4
  <2>7. i \in 1..(j - 1) /\ i \in 1..Len(best)
    BY <1>4, <1>7, <2>1, <2>5, <2>6
  <2> QED BY <1>7, <2>4, <2>7
<1> QED BY <1>1, <1>7, <1>8 DEF best, before

(***************************************************************************)
(* Ranking: the removal of duplicates.                                     *)
(***************************************************************************)
KeptWithout(h, list, pairs) ==
  /\ h[0] = <<>>
  /\ \A i \in 1..Len(list) :
       h[i] = IF \E k \in Rank!Range(h[i - 1]) : <<k, list[i]>> \in pairs
                THEN h[i - 1] ELSE Append(h[i - 1], list[i])

\* The removal of duplicates takes the ranking passage by passage.
LEMMA WithoutTwinsSteps ==
  ASSUME NEW S, NEW list \in Seq(S), NEW pairs
  PROVE  \E h : KeptWithout(h, list, pairs) /\ Rank!WithoutTwins(list, pairs) = h[Len(list)]
<1> DEFINE n == Len(list)
           Next1(some, x) ==
             IF \E k \in Rank!Range(some) : <<k, x>> \in pairs THEN some ELSE Append(some, x)
           F == [p \in (1..n) \X Seq(S) |-> Next1(p[2], list[p[1]])]
           IsKept(it) == it = [t \in SUBSET (DOMAIN list) |->
                                IF t = {} THEN <<>> ELSE Next1(it[t \ {Max(t)}], list[Max(t)])]
           c == CHOOSE it : IsKept(it)
<1>1. n \in Nat /\ DOMAIN list = 1..n /\ \A i \in 1..n : list[i] \in S
  OBVIOUS
<1>2. PICK it \in [SUBSET (1..n) -> Seq(S)] : IsIteration(it, n, <<>>, F)
  <2>1. F \in [(1..n) \X Seq(S) -> Seq(S)]
    <3>1. ASSUME NEW p \in (1..n) \X Seq(S) PROVE Next1(p[2], list[p[1]]) \in Seq(S)
      BY <1>1
    <3> HIDE DEF Next1, n
    <3> QED BY <3>1
  <2>2. <<>> \in Seq(S)
    OBVIOUS
  <2> HIDE DEF F, n
  <2> QED BY <1>1, <2>1, <2>2, IterationExists
<1>3. IsKept(it)
  <2>1. ASSUME NEW t \in SUBSET (1..n), t # {}
        PROVE  F[<<Max(t), it[t \ {Max(t)}]>>] = Next1(it[t \ {Max(t)}], list[Max(t)])
    <3>1. Max(t) \in 1..n
      BY <1>1, <2>1, MaxIsThere
    <3>2. it[t \ {Max(t)}] \in Seq(S)
      OBVIOUS
    <3> HIDE DEF n, Next1
    <3> QED BY <3>1, <3>2
  <2>2. it = [t \in SUBSET (1..n) |->
                IF t = {} THEN <<>> ELSE Next1(it[t \ {Max(t)}], list[Max(t)])]
    <3> HIDE DEF F, n, Next1
    <3> QED BY <1>2, <2>1 DEF IsIteration
  <2> QED BY <1>1, <2>2
<1>4. IsKept(c)
  <2> HIDE DEF IsKept
  <2> QED BY <1>3
<1>5. Rank!WithoutTwins(list, pairs) = c[1..n]
  BY <1>1 DEF Rank!WithoutTwins, Rank!FoldLeft, Rank!MapThenFoldSet, Rank!Max, Max
<1> DEFINE h == [k \in 0..n |-> c[1..k]]
<1>6. c[{}] = <<>> /\ \A k \in 1..n : c[1..k] = Next1(c[1..(k - 1)], list[k])
  <2>1. c = [t \in SUBSET (1..n) |->
               IF t = {} THEN <<>> ELSE Next1(c[t \ {Max(t)}], list[Max(t)])]
    <3> HIDE DEF c, Next1
    <3> QED BY <1>1, <1>4
  <2> HIDE DEF c, n, Next1
  <2>2. ASSUME NEW k \in 1..n PROVE c[1..k] = Next1(c[1..(k - 1)], list[k])
    <3>1. 1..k \in SUBSET (1..n) /\ Max(1..k) = k /\ (1..k) \ {k} = 1..(k - 1) /\ 1..k # {}
      BY <1>1, IterationSteps
    <3>2. c[1..k] = Next1(c[(1..k) \ {Max(1..k)}], list[Max(1..k)])
      BY <2>1, <3>1, Zenon
    <3> QED BY <3>1, <3>2, Zenon
  <2>3. c[{}] = <<>>
    <3>1. {} \in SUBSET (1..n)
      OBVIOUS
    <3> QED BY <2>1, <3>1, Zenon
  <2> QED BY <2>2, <2>3
<1>7. KeptWithout(h, list, pairs) /\ Rank!WithoutTwins(list, pairs) = h[Len(list)]
  <2>1. 1..0 = {} /\ 0 \in 0..n /\ n \in 0..n
    BY <1>1
  <2>2. \A k \in 1..n : k \in 0..n /\ k - 1 \in 0..n
    BY <1>1
  <2>3. h[0] = <<>> /\ \A k \in 1..n : h[k] = Next1(h[k - 1], list[k])
    <3> HIDE DEF c, Next1
    <3> QED BY <1>6, <2>1, <2>2
  <2> HIDE DEF c, h
  <2>4. h[n] = c[1..n]
    BY <2>1 DEF h
  <2> QED BY <1>5, <2>3, <2>4 DEF KeptWithout
<1> QED BY <1>7

\* Of a list whose duplicates are known there remain passages that are no
\* duplicates, and each that was removed is a duplicate of one kept before it.
LEMMA TwinsAreRemoved ==
  ASSUME NEW S, NEW list \in Seq(S), NEW pairs,
         \A a, b : <<a, b>> \in pairs => <<b, a>> \in pairs /\ a # b
  PROVE  LET kept1 == Rank!WithoutTwins(list, pairs)
         IN /\ kept1 \in Seq(S)
            /\ \A a, b \in Rank!Range(kept1) : <<a, b>> \notin pairs
            /\ \A j \in 1..Len(list) :
                 list[j] \in Rank!Range(kept1) \/
                   \E i \in 1..(j - 1) : list[i] \in Rank!Range(kept1) /\ <<list[i], list[j]>> \in pairs
<1> DEFINE n == Len(list)
           Met(i) == {list[j] : j \in 1..i}
           Holds(k, i) ==
             /\ k \in Seq(S) /\ Rank!Range(k) \subseteq Met(i)
             /\ \A a, b \in Rank!Range(k) : <<a, b>> \notin pairs
             /\ \A j \in 1..i :
                  list[j] \in Rank!Range(k) \/
                    \E m \in 1..(j - 1) : list[m] \in Rank!Range(k) /\ <<list[m], list[j]>> \in pairs
<1>1. PICK h : KeptWithout(h, list, pairs) /\ Rank!WithoutTwins(list, pairs) = h[n]
  BY WithoutTwinsSteps
<1> DEFINE Good == {i \in 0..n : Holds(h[i], i)}
<1>2. n \in Nat /\ \A i \in 1..n : list[i] \in S
  OBVIOUS
<1>3. 0 \in Good
  <2>1. h[0] = <<>>
    BY <1>1 DEF KeptWithout
  <2>2. <<>> \in Seq(S) /\ Rank!Range(<<>>) = {}
    BY DEF Rank!Range
  <2>3. Holds(h[0], 0)
    BY <2>1, <2>2
  <2> HIDE DEF Holds
  <2> QED BY <1>2, <2>3
<1>4. ASSUME NEW i \in 1..n, i - 1 \in Good PROVE i \in Good
  <2> DEFINE old == h[i - 1]
             x == list[i]
  <2>1. Holds(old, i - 1)
    BY <1>4
  <2>2. x \in S /\ i \in Nat /\ i \in 0..n
    BY <1>2
  <2>3. \A j \in 1..i : j \in 1..(i - 1) \/ j = i
    BY <2>2
  <2>4. Met(i - 1) \subseteq Met(i) /\ x \in Met(i)
    BY <2>2
  <2>5. CASE \E k \in Rank!Range(old) : <<k, x>> \in pairs
    <3>1. h[i] = old
      BY <1>1, <2>5 DEF KeptWithout
    <3>2. PICK k \in Rank!Range(old) : <<k, x>> \in pairs
      BY <2>5
    <3>3. PICK m \in 1..(i - 1) : list[m] = k
      BY <2>1
    <3>4. Holds(old, i)
      <4> HIDE DEF old, x, Met
      <4>1. \A j \in 1..i :
              list[j] \in Rank!Range(old) \/
                \E l \in 1..(j - 1) : list[l] \in Rank!Range(old) /\ <<list[l], list[j]>> \in pairs
        BY <2>1, <2>3, <3>2, <3>3 DEF x
      <4> QED BY <2>1, <2>4, <4>1
    <3> HIDE DEF Holds, old
    <3> QED BY <2>2, <3>1, <3>4
  <2>6. CASE ~\E k \in Rank!Range(old) : <<k, x>> \in pairs
    <3> DEFINE new == Append(old, x)
    <3>1. h[i] = new
      BY <1>1, <2>6 DEF KeptWithout
    <3>2. old \in Seq(S)
      BY <2>1
    <3>3. new \in Seq(S) /\ Rank!Range(new) = Rank!Range(old) \cup {x}
      <4> HIDE DEF old, x
      <4>1. /\ new \in Seq(S) /\ Len(new) = Len(old) + 1 /\ new[Len(old) + 1] = x
            /\ Len(old) \in Nat /\ \A j \in 1..Len(old) : new[j] = old[j]
            /\ DOMAIN new = 1..(Len(old) + 1) /\ DOMAIN old = 1..Len(old)
        BY <2>2, <3>2
      <4> HIDE DEF new
      <4>2. \A j \in 1..(Len(old) + 1) : j \in 1..Len(old) \/ j = Len(old) + 1
        BY <4>1
      <4>3. \A j \in 1..Len(old) : j \in 1..(Len(old) + 1)
        BY <4>1
      <4>4. Len(old) + 1 \in 1..(Len(old) + 1)
        BY <4>1
      <4> QED BY <4>1, <4>2, <4>3, <4>4 DEF Rank!Range
    <3> HIDE DEF new, old, Met
    <3>4. \A a, b \in Rank!Range(new) : <<a, b>> \notin pairs
      <4> HIDE DEF x
      <4>1. \A a, b \in Rank!Range(old) : <<a, b>> \notin pairs
        BY <2>1, Zenon
      <4>2. \A k \in Rank!Range(old) : <<k, x>> \notin pairs /\ <<x, k>> \notin pairs
        BY <2>6
      <4>3. <<x, x>> \notin pairs
        OBVIOUS
      <4>4. Rank!Range(new) = Rank!Range(old) \cup {x}
        BY <3>3
      <4> QED BY <4>1, <4>2, <4>3, <4>4, Zenon
    <3>5. \A j \in 1..i :
            list[j] \in Rank!Range(new) \/
              \E m \in 1..(j - 1) : list[m] \in Rank!Range(new) /\ <<list[m], list[j]>> \in pairs
      BY <2>1, <2>3, <3>3
    <3>6. Holds(new, i)
      BY <2>1, <2>4, <3>3, <3>4, <3>5
    <3> HIDE DEF Holds
    <3> QED BY <2>2, <3>1, <3>6
  <2> QED BY <2>5, <2>6
<1>5. n \in Good
  <2> HIDE DEF Good, n
  <2> QED BY <1>2, <1>3, <1>4, CountingTo
<1>6. Holds(h[n], n)
  <2> HIDE DEF Holds
  <2> QED BY <1>5
<1> QED BY <1>1, <1>6

(***************************************************************************)
(* Ranking: the weighted scores of the reranker.                           *)
(***************************************************************************)
\* The least and the greatest of the numbers in a list.
LEMMA ExtremesAreThere ==
  ASSUME NEW n \in Nat, n > 0, NEW f \in [1..n -> Nat], NEW values, values = {f[i] : i \in 1..n}
  PROVE  Rank!Min(values) \in values /\ Rank!Max(values) \in values
<1>1. values \subseteq Nat /\ values # {}
  <2>1. 1 \in 1..n
    OBVIOUS
  <2> QED BY <2>1
<1>2. Rank!Min(values) \in values
  <2>1. values \in SUBSET Nat
    BY <1>1
  <2>2. \E m \in values : \A k \in values : m <= k
    BY <1>1, <2>1, LeastNumber
  <2>3. Rank!Min(values) = CHOOSE m \in values : \A k \in values : m <= k
    BY DEF Rank!Min
  <2> QED BY <2>2, <2>3
<1> DEFINE Good == {i \in 0..n : i > 0 => \E m \in 1..i : \A k \in 1..i : f[m] >= f[k]}
<1>3. 0 \in Good
  OBVIOUS
<1>4. ASSUME NEW i \in 1..n, i - 1 \in Good PROVE i \in Good
  <2>1. CASE i = 1
    BY <2>1
  <2>2. CASE i > 1
    <3>1. PICK m \in 1..(i - 1) : \A k \in 1..(i - 1) : f[m] >= f[k]
      BY <1>4, <2>2
    <3>2. f[m] \in Nat /\ f[i] \in Nat /\ m \in 1..i /\ i \in 1..i
      OBVIOUS
    <3>3. \A k \in 1..i : k \in 1..(i - 1) \/ k = i
      OBVIOUS
    <3>4. \A k \in 1..n : f[k] \in Nat
      OBVIOUS
    <3>5. CASE f[m] >= f[i]
      BY <3>1, <3>2, <3>3, <3>5
    <3>6. CASE ~(f[m] >= f[i])
      <4>1. \A k \in 1..i : f[i] >= f[k]
        BY <3>1, <3>2, <3>3, <3>4, <3>6
      <4> QED BY <3>2, <4>1
    <3> QED BY <3>5, <3>6
  <2> QED BY <2>1, <2>2
<1>5. n \in Good
  <2> HIDE DEF Good
  <2> QED BY <1>3, <1>4, CountingTo
<1>6. \E m \in values : \A k \in values : m >= k
  <2>1. PICK m \in 1..n : \A k \in 1..n : f[m] >= f[k]
    BY <1>5
  <2> QED BY <2>1
<1>7. Rank!Max(values) = CHOOSE m \in values : \A k \in values : m >= k
  BY DEF Rank!Max
<1>8. Rank!Max(values) \in values
  BY <1>6, <1>7
<1> QED BY <1>2, <1>8

\* Scores that are scaled to their range are fractions.
LEMMA NormalIsNumbers ==
  ASSUME NEW n \in Nat, n > 0, NEW f \in [1..n -> Nat], NEW i \in 1..n,
         NEW values, values = {f[j] : j \in 1..n}
  PROVE  Rank!Normal(f[i], values)[1] \in Int /\ Rank!Normal(f[i], values)[2] \in Int
<1>1. Rank!Min(values) \in Int /\ Rank!Max(values) \in Int
  <2>1. Rank!Min(values) \in values /\ Rank!Max(values) \in values
    BY ExtremesAreThere
  <2> QED BY <2>1
<1>2. f[i] \in Int
  OBVIOUS
<1> QED BY <1>1, <1>2 DEF Rank!Normal

(***************************************************************************)
(* Ranking: the inductive invariant.                                       *)
(***************************************************************************)
RankState ==
  /\ dense \in Hits /\ lexical \in Hits /\ limits \in Limits
  /\ fused \in Seq(Found) /\ ranked \in Seq(Found) /\ selected \in Seq(Found)

\* The scores by which the code sorts and takes a maximum are numbers.
ScoresKnown ==
  /\ stage # "fuse" => fusion \in [Found -> Nat]
  /\ stage \in {"deduplicate", "rerank"} => final = fusion
  /\ stage \in {"select", "selected"} => \A c \in Rank!Range(ranked) : final[c] \in Int

SelectionFits ==
  /\ stage \in {"fuse", "deduplicate", "rerank"} => selected = <<>>
  /\ Len(selected) <= limits.sources
  /\ \A d : Cardinality(Rank!SelectedIn(d)) <= limits.document
  /\ \A p : Cardinality(Rank!SelectedAt(p)) <= limits.section
  /\ stage = "selected" => Len(selected) >= limits.sources \/ Rank!Eligible = {}

RankIInv == RankState /\ ScoresKnown /\ Rank!OneOfEachTwin /\ SelectionFits

\* The searches return fewer passages than the rank that stands for "not found".
SearchesAreShort ==
  \A pair \in Searches : Len(pair[1]) < Rank!Unranked /\ Len(pair[2]) < Rank!Unranked

FusionFits ==
  /\ Len(dense) < Rank!Unranked /\ Len(lexical) < Rank!Unranked
  /\ Rank!FusionAgrees

\* What the fusion promises is about the two lists and the list made of them.
LEMMA FusionStands ==
  ASSUME dense' = dense, lexical' = lexical, fused' = fused
  PROVE  FusionFits => FusionFits'
<1>1. \A a, b : Rank!NoLower(a, b)' <=> Rank!NoLower(a, b)
  BY DEF Rank!NoLower, Rank!RankIn, Rank!Contains
<1>2. Found' = Found
  BY DEF Found
<1>3. Rank!FusionAgrees => Rank!FusionAgrees'
  <2> SUFFICES ASSUME Rank!FusionAgrees, NEW j \in DOMAIN fused, NEW a \in Found,
                      a # fused[j], Rank!NoLower(a, fused[j])'
               PROVE  \E i \in 1..(j - 1) : fused[i] = a
    BY <1>2 DEF Rank!FusionAgrees, Found
  <2>1. Rank!NoLower(a, fused[j])
    BY <1>1
  <2> QED BY <2>1 DEF Rank!FusionAgrees, Found
<1> QED BY <1>3 DEF FusionFits, Rank!Unranked

LEMMA RankInit == ASSUME Rank!Init PROVE RankIInv /\ (SearchesAreShort => FusionFits)
<1>1. PICK pair \in Searches : dense = pair[1] /\ lexical = pair[2]
  BY DEF Rank!Init
<1>2. /\ dense \in Hits /\ lexical \in Hits /\ limits \in Limits /\ stage = "fuse"
      /\ fused = <<>> /\ ranked = <<>> /\ selected = <<>>
  BY <1>1, RankSettings DEF Rank!Init
<1>3. RankState /\ ScoresKnown /\ Rank!OneOfEachTwin
  BY <1>2 DEF RankState, ScoresKnown, Rank!OneOfEachTwin
<1>4. SelectionFits
  <2>1. Rank!Range(selected) = {}
    BY <1>2 DEF Rank!Range
  <2>2. \A d : Rank!SelectedIn(d) = {} /\ Rank!SelectedAt(d) = {}
    BY <2>1 DEF Rank!SelectedIn, Rank!SelectedAt
  <2>3. Cardinality({}) = 0 /\ Len(selected) = 0
    BY <1>2, FS_EmptySet
  <2>4. /\ limits.sources \in Nat /\ limits.document \in Nat /\ limits.section \in Nat
    BY <1>2, RankSettings
  <2>5. ASSUME NEW d PROVE Cardinality(Rank!SelectedIn(d)) <= limits.document
    <3>1. Cardinality(Rank!SelectedIn(d)) = 0
      BY <2>2, <2>3, Zenon
    <3> QED BY <2>4, <3>1
  <2>6. ASSUME NEW p PROVE Cardinality(Rank!SelectedAt(p)) <= limits.section
    <3>1. Cardinality(Rank!SelectedAt(p)) = 0
      BY <2>2, <2>3, Zenon
    <3> QED BY <2>4, <3>1
  <2>7. Len(selected) <= limits.sources
    BY <2>3, <2>4
  <2> QED BY <1>2, <2>5, <2>6, <2>7 DEF SelectionFits
<1>5. SearchesAreShort => FusionFits
  BY <1>1, <1>2 DEF SearchesAreShort, FusionFits, Rank!FusionAgrees
<1> QED BY <1>3, <1>4, <1>5 DEF RankIInv

LEMMA FuseStep ==
  ASSUME RankIInv, Rank!Fuse
  PROVE  RankIInv' /\ (FusionFits => FusionFits')
<1> DEFINE score == [c \in Found |-> Rank!FusionScore(c)]
           best == Rank!First(Rank!Arranged(Found, Rank!Ahead(score)), FusionLimit)
<1>1. /\ stage = "fuse" /\ stage' = "deduplicate" /\ fusion' = score /\ final' = fusion'
      /\ dense' = dense /\ lexical' = lexical /\ limits' = limits /\ ranked' = ranked
      /\ place' = place /\ selected' = selected
  BY DEF Rank!Fuse, Found
<1>2. fused' = best
  <2>1. DOMAIN fusion' = Found
    BY <1>1
  <2> HIDE DEF score
  <2> QED BY <1>1, <2>1 DEF Rank!Fuse
<1>3. Found' = Found /\ Hits' = Hits
  BY <1>1 DEF Found, Hits, Rank!Hits
<1>4. dense \in Hits /\ lexical \in Hits /\ RankState
  BY DEF RankIInv, RankState
<1>5. /\ score \in [Found -> Nat] /\ best \in Seq(Found)
      /\ Len(dense) < Rank!Unranked /\ Len(lexical) < Rank!Unranked =>
           \A j \in 1..Len(best) : \A a \in Found :
             a # best[j] /\ Rank!NoLower(a, best[j]) => \E i \in 1..(j - 1) : best[i] = a
  BY <1>4, FusionIsSorted
<1> HIDE DEF score, best
<1>6. RankState'
  BY <1>1, <1>2, <1>3, <1>4, <1>5 DEF RankState
<1>7. ScoresKnown'
  BY <1>1, <1>3, <1>5 DEF ScoresKnown
<1>8. Rank!OneOfEachTwin'
  BY <1>1 DEF Rank!OneOfEachTwin
<1>9. SelectionFits'
  BY <1>1 DEF RankIInv, SelectionFits, Rank!SelectedIn, Rank!SelectedAt
<1>10. FusionFits => FusionFits'
  <2> SUFFICES ASSUME FusionFits PROVE FusionFits'
    OBVIOUS
  <2>1. DOMAIN best = 1..Len(best)
    BY <1>5
  <2>3. Len(dense) < Rank!Unranked /\ Len(lexical) < Rank!Unranked
    BY DEF FusionFits
  <2>4. \A j \in 1..Len(best) : \A a \in Found :
          a # best[j] /\ Rank!NoLower(a, best[j]) => \E i \in 1..(j - 1) : best[i] = a
    BY <1>5, <2>3, Zenon
  <2>5. Rank!FusionAgrees'
    <3> SUFFICES ASSUME NEW j \in DOMAIN fused', NEW a \in Found',
                        a # fused'[j], Rank!NoLower(a, fused[j])'
                 PROVE  \E i \in 1..(j - 1) : fused'[i] = a
      BY DEF Rank!FusionAgrees, Found
    <3>1. Rank!NoLower(a, best[j])
      <4>1. dense' = dense /\ lexical' = lexical /\ fused'[j] = best[j]
        BY <1>1, <1>2
      <4>2. /\ Rank!RankIn(dense, a)' = Rank!RankIn(dense, a)
            /\ Rank!RankIn(lexical, a)' = Rank!RankIn(lexical, a)
        BY <4>1
      <4>3. /\ Rank!RankIn(dense, fused[j])' = Rank!RankIn(dense, best[j])
            /\ Rank!RankIn(lexical, fused[j])' = Rank!RankIn(lexical, best[j])
        BY <4>1
      <4> QED BY <4>2, <4>3 DEF Rank!NoLower
    <3>2. j \in 1..Len(best) /\ a \in Found /\ a # best[j]
      BY <1>2, <1>3, <2>1
    <3> QED BY <1>2, <2>4, <3>1, <3>2
  <2> QED BY <1>1, <2>3, <2>5 DEF FusionFits, Rank!Unranked
<1> QED BY <1>6, <1>7, <1>8, <1>9, <1>10 DEF RankIInv

LEMMA DeduplicateStep ==
  ASSUME RankIInv, Rank!Deduplicate
  PROVE  RankIInv' /\ (FusionFits => FusionFits')
<1>1. /\ stage = "deduplicate" /\ stage' = "rerank" /\ fused' = fused
      /\ ranked' = Rank!WithoutTwins(fused, twins') /\ fusion' = fusion /\ final' = final
      /\ dense' = dense /\ lexical' = lexical /\ limits' = limits
      /\ place' = place /\ selected' = selected
  BY DEF Rank!Deduplicate
<1>2. Found' = Found /\ Hits' = Hits
  BY <1>1 DEF Found, Hits, Rank!Hits
<1>3. \A a, b : <<a, b>> \in twins' => <<b, a>> \in twins' /\ a # b
  <2>1. PICK similar \in SUBSET {p \in Rank!Pairs(fused) : p[1] < p[2]} :
          twins' = similar \cup {<<p[2], p[1]>> : p \in similar}
    BY DEF Rank!Deduplicate
  <2>2. \A p \in similar : p = <<p[1], p[2]>> /\ p[1] # p[2]
    BY DEF Rank!Pairs
  <2> SUFFICES ASSUME NEW a, NEW b, <<a, b>> \in twins' PROVE <<b, a>> \in twins' /\ a # b
    OBVIOUS
  <2>3. CASE <<a, b>> \in similar
    BY <2>1, <2>2, <2>3
  <2>4. CASE \E p \in similar : <<a, b>> = <<p[2], p[1]>>
    BY <2>1, <2>2, <2>4
  <2> QED BY <2>1, <2>3, <2>4
<1>4. fused \in Seq(Found) /\ RankState /\ fusion \in [Found -> Nat] /\ final = fusion
  BY <1>1 DEF RankIInv, RankState, ScoresKnown
<1>5. /\ ranked' \in Seq(Found)
      /\ \A a, b \in Rank!Range(ranked') : <<a, b>> \notin twins'
      /\ \A j \in 1..Len(fused) :
           fused[j] \in Rank!Range(ranked') \/
             \E i \in 1..(j - 1) : fused[i] \in Rank!Range(ranked') /\ <<fused[i], fused[j]>> \in twins'
  BY <1>1, <1>3, <1>4, TwinsAreRemoved
<1>6. RankState'
  BY <1>1, <1>2, <1>4, <1>5 DEF RankState
<1>7. ScoresKnown'
  BY <1>1, <1>2, <1>4 DEF ScoresKnown
<1>8. Rank!OneOfEachTwin'
  <2>1. DOMAIN fused = 1..Len(fused)
    BY <1>4
  <2> QED BY <1>1, <1>5, <2>1 DEF Rank!OneOfEachTwin, Rank!Range
<1>9. SelectionFits'
  BY <1>1 DEF RankIInv, SelectionFits, Rank!SelectedIn, Rank!SelectedAt
<1>10. FusionFits => FusionFits'
  BY <1>1, FusionStands
<1> QED BY <1>6, <1>7, <1>8, <1>9, <1>10 DEF RankIInv

\* The reranker's scores with the fused ones give numbers, and sorting by them keeps
\* the passages that are there.
LEMMA RerankSorts ==
  ASSUME ranked \in Seq(Found), ranked # <<>>, dense \in Hits, lexical \in Hits,
         fusion \in [Found -> Nat],
         NEW scores \in [Rank!Range(ranked) -> RerankScores]
  PROVE  LET weighted == Rank!Weighted(scores)
             sorted == Rank!Arranged(DOMAIN weighted, Rank!Higher(weighted))
         IN /\ \A c \in Rank!Range(ranked) : weighted[c] \in Int
            /\ sorted \in Seq(Found) /\ Rank!Range(sorted) = Rank!Range(ranked)
<1> DEFINE n == Len(ranked)
           list == Rank!Range(ranked)
           weighted == Rank!Weighted(scores)
           before == Rank!Higher(weighted)
           sorted == Rank!Arranged(list, before)
           fusions == {fusion[x] : x \in list}
           opinions == {scores[x] : x \in list}
           f == [i \in 1..n |-> fusion[ranked[i]]]
           r == [i \in 1..n |-> scores[ranked[i]]]
<1>1. /\ n \in Nat /\ n > 0 /\ list = {ranked[i] : i \in 1..n} /\ DOMAIN scores = list
      /\ \A i \in 1..n : ranked[i] \in Found /\ ranked[i] \in list
  BY DEF Rank!Range
<1>2. f \in [1..n -> Nat] /\ r \in [1..n -> Nat]
  <2>1. \A i \in 1..n : fusion[ranked[i]] \in Nat
    BY <1>1
  <2>2. \A i \in 1..n : scores[ranked[i]] \in Nat
    BY <1>1, RankSettings
  <2> QED BY <2>1, <2>2
<1>3. fusions = {f[i] : i \in 1..n} /\ opinions = {r[i] : i \in 1..n}
  <2>1. \A i \in 1..n : f[i] = fusion[ranked[i]] /\ r[i] = scores[ranked[i]]
    OBVIOUS
  <2> HIDE DEF f, r, n
  <2>2. /\ \A x \in list : \E i \in 1..n : x = ranked[i]
        /\ \A i \in 1..n : ranked[i] \in list
    BY <1>1
  <2> HIDE DEF list
  <2>3. ASSUME NEW x \in list
        PROVE  fusion[x] \in {f[i] : i \in 1..n} /\ scores[x] \in {r[i] : i \in 1..n}
    BY <2>1, <2>2
  <2>4. ASSUME NEW i \in 1..n PROVE f[i] \in fusions /\ r[i] \in opinions
    BY <2>1, <2>2
  <2> QED BY <2>3, <2>4
<1>4. ASSUME NEW c \in list
      PROVE  /\ Rank!Normal(fusion[c], fusions)[1] \in Int /\ Rank!Normal(fusion[c], fusions)[2] \in Int
             /\ Rank!Normal(scores[c], opinions)[1] \in Int /\ Rank!Normal(scores[c], opinions)[2] \in Int
  <2>1. PICK i \in 1..n : ranked[i] = c
    BY <1>1
  <2>2. f[i] = fusion[c] /\ r[i] = scores[c]
    BY <2>1
  <2> HIDE DEF f, r, fusions, opinions, n
  <2> QED BY <1>1, <1>2, <1>3, <2>2, NormalIsNumbers
<1>5. /\ DOMAIN weighted = list
      /\ \A c \in list :
           weighted[c] = (100 - RerankWeight) * Rank!Normal(fusion[c], fusions)[1]
                             * Rank!Normal(scores[c], opinions)[2]
                           + RerankWeight * Rank!Normal(scores[c], opinions)[1]
                             * Rank!Normal(fusion[c], fusions)[2]
  BY <1>1 DEF Rank!Weighted
<1> HIDE DEF weighted, fusions, opinions
<1>6. \A c \in list : weighted[c] \in Int
  <2>1. RerankWeight \in Int /\ 100 - RerankWeight \in Int
    BY RankSettings
  <2>2. \A a, b \in Int : a * b \in Int /\ a + b \in Int
    OBVIOUS
  <2> HIDE DEF list
  <2> SUFFICES ASSUME NEW c \in list PROVE weighted[c] \in Int
    OBVIOUS
  <2>3. /\ Rank!Normal(fusion[c], fusions)[1] \in Int /\ Rank!Normal(fusion[c], fusions)[2] \in Int
        /\ Rank!Normal(scores[c], opinions)[1] \in Int /\ Rank!Normal(scores[c], opinions)[2] \in Int
    BY <1>4
  <2> DEFINE x == (100 - RerankWeight) * Rank!Normal(fusion[c], fusions)[1]
                      * Rank!Normal(scores[c], opinions)[2]
             y == RerankWeight * Rank!Normal(scores[c], opinions)[1]
                      * Rank!Normal(fusion[c], fusions)[2]
  <2>4. x \in Int
    BY <2>1, <2>2, <2>3, Zenon
  <2>5. y \in Int
    BY <2>1, <2>2, <2>3, Zenon
  <2>6. weighted[c] = x + y
    BY <1>5, Zenon
  <2> HIDE DEF x, y
  <2> QED BY <2>4, <2>5, <2>6
<1>7. /\ list \in SUBSET Found /\ list \subseteq Nat /\ IsFiniteSet(list)
  <2>1. list \subseteq Found
    BY <1>1
  <2> HIDE DEF list
  <2> QED BY <2>1, FoundKnown, FS_Subset
<1>8. Orders(before, list)
  <2> HIDE DEF list
  <2> QED BY <1>5, <1>6, <1>7, HigherOrders
<1> DEFINE m == Cardinality(list)
<1>9. /\ m \in Nat /\ sorted \in [1..m -> list]
      /\ \A x \in list : \E i \in 1..m : sorted[i] = x
  <2>1. sorted = Arranged(list, before)
    BY RankArranged
  <2> HIDE DEF list, before, sorted
  <2>2. LET l == Arranged(list, before)
            c == Cardinality(list)
        IN c \in Nat /\ l \in [1..c -> list] /\ \A x \in list : \E i \in 1..c : l[i] = x
    BY <1>7, <1>8, ArrangedIsSorted, SMTT(60)
  <2> QED BY <2>1, <2>2
<1> HIDE DEF sorted, m, list
<1>10. sorted \in Seq(Found) /\ Rank!Range(sorted) = list
  <2>1. sorted \in [1..m -> Found]
    BY <1>7, <1>9
  <2>2. Rank!Range(sorted) = list
    BY <1>9 DEF Rank!Range
  <2> QED BY <1>9, <2>1, <2>2
<1>11. DOMAIN weighted = list
  BY <1>5
<1> QED BY <1>6, <1>10, <1>11 DEF weighted, sorted, list, before

\* Before the selection nothing is selected, whatever becomes of the other lists.
LEMMA NothingSelectedYet ==
  ASSUME SelectionFits, stage \in {"fuse", "deduplicate", "rerank"},
         selected' = selected, limits' = limits, stage' # "selected", limits \in Limits
  PROVE  SelectionFits'
<1>1. selected' = <<>> /\ limits' \in Limits
  BY DEF SelectionFits
<1>2. Rank!Range(selected') = {} /\ Len(selected') = 0
  BY <1>1 DEF Rank!Range
<1>3. \A d : Rank!SelectedIn(d)' = {} /\ Rank!SelectedAt(d)' = {}
  BY <1>2 DEF Rank!SelectedIn, Rank!SelectedAt
<1>4. Cardinality({}) = 0
  BY FS_EmptySet
<1>5. /\ limits'.sources \in Nat /\ limits'.document \in Nat /\ limits'.section \in Nat
  BY <1>1, RankSettings
<1>6. ASSUME NEW d PROVE Cardinality(Rank!SelectedIn(d)') <= limits'.document
  <2>1. Cardinality(Rank!SelectedIn(d)') = 0
    BY <1>3, <1>4, Zenon
  <2> QED BY <1>5, <2>1
<1>7. ASSUME NEW p PROVE Cardinality(Rank!SelectedAt(p)') <= limits'.section
  <2>1. Cardinality(Rank!SelectedAt(p)') = 0
    BY <1>3, <1>4, Zenon
  <2> QED BY <1>5, <2>1
<1>8. Len(selected') <= limits'.sources
  BY <1>2, <1>5
<1> QED BY <1>1, <1>6, <1>7, <1>8 DEF SelectionFits

LEMMA RerankStep ==
  ASSUME RankIInv, Rank!Rerank
  PROVE  RankIInv' /\ (FusionFits => FusionFits')
<1>1. /\ stage = "rerank" /\ stage' = "select" /\ ranked # <<>>
      /\ fused' = fused /\ twins' = twins /\ fusion' = fusion /\ limits' = limits
      /\ dense' = dense /\ lexical' = lexical /\ selected' = selected
      /\ opinion' \in [Rank!Range(ranked) -> RerankScores]
      /\ final' = Rank!Weighted(opinion')
      /\ ranked' = Rank!Arranged(DOMAIN final', Rank!Higher(final'))
  BY DEF Rank!Rerank, Rank!Locate
<1>2. Found' = Found /\ Hits' = Hits
  BY <1>1 DEF Found, Hits, Rank!Hits
<1>3. RankState /\ fusion \in [Found -> Nat]
  BY <1>1 DEF RankIInv, ScoresKnown
<1>4. /\ \A c \in Rank!Range(ranked) : final'[c] \in Int
      /\ ranked' \in Seq(Found) /\ Rank!Range(ranked') = Rank!Range(ranked)
  <2>1. ranked \in Seq(Found) /\ dense \in Hits /\ lexical \in Hits
    BY <1>3 DEF RankState
  <2> DEFINE weighted == Rank!Weighted(opinion')
             sorted == Rank!Arranged(DOMAIN weighted, Rank!Higher(weighted))
  <2>2. /\ \A c \in Rank!Range(ranked) : weighted[c] \in Int
        /\ sorted \in Seq(Found) /\ Rank!Range(sorted) = Rank!Range(ranked)
    BY <1>1, <1>3, <2>1, RerankSorts
  <2>3. final' = weighted /\ ranked' = sorted
    BY <1>1
  <2> HIDE DEF weighted, sorted
  <2> QED BY <2>2, <2>3
<1>5. RankState'
  BY <1>1, <1>2, <1>3, <1>4 DEF RankState
<1>6. ScoresKnown'
  BY <1>1, <1>2, <1>3, <1>4 DEF ScoresKnown
<1>7. Rank!OneOfEachTwin'
  BY <1>1, <1>4 DEF RankIInv, Rank!OneOfEachTwin
<1>8. SelectionFits'
  BY <1>1, <1>3, NothingSelectedYet DEF RankIInv, RankState
<1> QED BY <1>1, <1>5, <1>6, <1>7, <1>8, FusionStands DEF RankIInv

LEMMA KeepOrderStep ==
  ASSUME RankIInv, Rank!KeepOrder
  PROVE  RankIInv' /\ (FusionFits => FusionFits')
<1>1. /\ stage = "rerank" /\ stage' = "select" /\ ranked' = ranked /\ final' = final
      /\ fused' = fused /\ twins' = twins /\ fusion' = fusion /\ limits' = limits
      /\ dense' = dense /\ lexical' = lexical /\ selected' = selected
  BY DEF Rank!KeepOrder, Rank!Locate
<1>2. Found' = Found /\ Hits' = Hits
  BY <1>1 DEF Found, Hits, Rank!Hits
<1>3. RankState /\ fusion \in [Found -> Nat] /\ final = fusion
  BY <1>1 DEF RankIInv, ScoresKnown
<1>4. \A c \in Rank!Range(ranked) : final[c] \in Int
  BY <1>3 DEF RankState, Rank!Range
<1>5. RankState'
  BY <1>1, <1>2, <1>3 DEF RankState
<1>6. ScoresKnown'
  BY <1>1, <1>2, <1>3, <1>4 DEF ScoresKnown
<1>7. Rank!OneOfEachTwin'
  BY <1>1 DEF RankIInv, Rank!OneOfEachTwin
<1>8. SelectionFits'
  BY <1>1, <1>3, NothingSelectedYet DEF RankIInv, RankState
<1> QED BY <1>1, <1>5, <1>6, <1>7, <1>8, FusionStands DEF RankIInv

(***************************************************************************)
(* Ranking: the selection.                                                 *)
(***************************************************************************)

\* There is a best passage among those that may be selected: `max` of the code has a
\* result, which is one of them.
LEMMA BestIsEligible ==
  ASSUME RankIInv, stage = "select", Rank!Eligible # {}
  PROVE  Rank!Best \in Rank!Eligible
<1> DEFINE E == Rank!Eligible
           Above(a, b) == final[a] > final[b] \/ (final[a] = final[b] /\ a > b)
           above == {pair \in E \X E : Above(pair[1], pair[2])}
<1>1. /\ E \subseteq Found /\ \A c \in E : final[c] \in Int
      /\ dense \in Hits /\ lexical \in Hits
  BY DEF RankIInv, RankState, ScoresKnown, Rank!Eligible, Rank!Range
<1>2. E \subseteq Nat /\ IsFiniteSet(E) /\ E # {}
  BY <1>1, FoundKnown, FS_Subset
<1>3. Rank!Best = CHOOSE c \in E : \A x \in E :
                    final[c] > final[x] \/ (final[c] = final[x] /\ c >= x)
  BY DEF Rank!Best
<1> HIDE DEF E
<1>4. Orders(above, E)
  <2>1. \A a, b \in E : <<a, b>> \in above <=> Above(a, b)
    OBVIOUS
  <2>2. \A a, b \in E : a # b => Above(a, b) \/ Above(b, a)
    BY <1>1, <1>2
  <2>3. \A a \in E : ~Above(a, a)
    BY <1>1, <1>2
  <2>4. \A a, b, c \in E : Above(a, b) /\ Above(b, c) => Above(a, c)
    BY <1>1, <1>2
  <2> HIDE DEF Above, above
  <2> QED BY <2>1, <2>2, <2>3, <2>4 DEF Orders
<1> DEFINE n == Cardinality(E)
           sorted == Arranged(E, above)
<1>5. /\ n \in Nat /\ sorted \in [1..n -> E]
      /\ \A i, j \in 1..n : i < j => <<sorted[i], sorted[j]>> \in above
      /\ \A x \in E : \E i \in 1..n : sorted[i] = x
  <2> HIDE DEF above, sorted
  <2> QED BY <1>2, <1>4, ArrangedIsSorted DEF sorted
<1>6. \A a, b : <<a, b>> \in above => Above(a, b)
  OBVIOUS
<1> HIDE DEF n, sorted, above
<1>7. 1 \in 1..n /\ sorted[1] \in E
  <2>1. PICK x \in E : TRUE
    BY <1>2
  <2>2. PICK i \in 1..n : sorted[i] = x
    BY <1>5, <2>1
  <2> QED BY <1>5, <2>2
<1>8. \A x \in E : final[sorted[1]] > final[x] \/ (final[sorted[1]] = final[x] /\ sorted[1] >= x)
  <2> TAKE x \in E
  <2>1. PICK i \in 1..n : sorted[i] = x
    BY <1>5
  <2>2. CASE i = 1
    BY <1>1, <1>2, <1>7, <2>1, <2>2
  <2>3. CASE i > 1
    <3>1. <<sorted[1], x>> \in above
      BY <1>5, <1>7, <2>1, <2>3
    <3>2. Above(sorted[1], x)
      BY <1>6, <3>1, Zenon
    <3>3. sorted[1] \in Nat /\ x \in Nat
      BY <1>2, <1>7
    <3> QED BY <3>2, <3>3
  <2> QED BY <1>5, <2>2, <2>3
<1>9. Rank!Best \in E
  BY <1>3, <1>7, <1>8
<1> QED BY <1>9 DEF E

LEMMA AtMostOneMore ==
  ASSUME NEW S, IsFiniteSet(S), NEW x
  PROVE  Cardinality(S \cup {x}) \in Nat /\ Cardinality(S \cup {x}) <= Cardinality(S) + 1
<1>1. Cardinality(S \cup {x}) = IF x \in S THEN Cardinality(S) ELSE Cardinality(S) + 1
  BY FS_AddElement
<1>2. Cardinality(S) \in Nat
  BY FS_CardinalityType
<1> QED BY <1>1, <1>2

\* What a passage adds to the counts of the selection.
LEMMA SelectCounts ==
  ASSUME RankIInv, stage = "select", NEW c \in Rank!Eligible, selected' = Append(selected, c),
         place' = place
  PROVE  /\ c \in Found
         /\ \A d : /\ IsFiniteSet(Rank!SelectedIn(d))
                   /\ Rank!SelectedIn(d)' = IF place[c].doc = d THEN Rank!SelectedIn(d) \cup {c}
                                                                ELSE Rank!SelectedIn(d)
         /\ \A p : /\ IsFiniteSet(Rank!SelectedAt(p))
                   /\ Rank!SelectedAt(p)' = IF place[c] = p THEN Rank!SelectedAt(p) \cup {c}
                                                            ELSE Rank!SelectedAt(p)
<1>1. /\ ranked \in Seq(Found) /\ selected \in Seq(Found) /\ dense \in Hits /\ lexical \in Hits
  BY DEF RankIInv, RankState
<1>2. c \in Found
  BY <1>1 DEF Rank!Eligible, Rank!Range
<1>3. Rank!Range(selected') = Rank!Range(selected) \cup {c}
  <2>1. /\ Len(selected') = Len(selected) + 1 /\ Len(selected) \in Nat
        /\ selected'[Len(selected) + 1] = c
        /\ \A i \in 1..Len(selected) : selected'[i] = selected[i]
        /\ DOMAIN selected = 1..Len(selected) /\ DOMAIN selected' = 1..(Len(selected) + 1)
    BY <1>1, <1>2
  <2> QED BY <2>1 DEF Rank!Range
<1>4. IsFiniteSet(Rank!Range(selected))
  <2>1. Rank!Range(selected) \subseteq Found
    BY <1>1 DEF Rank!Range
  <2> QED BY <1>1, <2>1, FoundKnown, FS_Subset
<1>5. ASSUME NEW d PROVE IsFiniteSet(Rank!SelectedIn(d)) /\ IsFiniteSet(Rank!SelectedAt(d))
  <2>1. Rank!SelectedIn(d) \subseteq Rank!Range(selected) /\ Rank!SelectedAt(d) \subseteq Rank!Range(selected)
    BY DEF Rank!SelectedIn, Rank!SelectedAt
  <2> QED BY <1>4, <2>1, FS_Subset
<1>6. ASSUME NEW d
      PROVE  Rank!SelectedIn(d)' = IF place[c].doc = d THEN Rank!SelectedIn(d) \cup {c}
                                                       ELSE Rank!SelectedIn(d)
  BY <1>3 DEF Rank!SelectedIn
<1>7. ASSUME NEW p
      PROVE  Rank!SelectedAt(p)' = IF place[c] = p THEN Rank!SelectedAt(p) \cup {c}
                                                   ELSE Rank!SelectedAt(p)
  BY <1>3 DEF Rank!SelectedAt
<1> QED BY <1>2, <1>5, <1>6, <1>7

LEMMA SelectStep ==
  ASSUME RankIInv, Rank!MaySelect, NEW c \in Rank!Eligible, Rank!Select(c)
  PROVE  RankIInv' /\ (FusionFits => FusionFits')
<1>1. /\ stage = "select" /\ stage' = stage /\ Len(selected) < limits.sources
      /\ selected' = Append(selected, c) /\ ranked' = ranked /\ final' = final
      /\ fused' = fused /\ twins' = twins /\ fusion' = fusion /\ limits' = limits
      /\ dense' = dense /\ lexical' = lexical /\ place' = place
  BY DEF Rank!MaySelect, Rank!Select
<1>2. Found' = Found /\ Hits' = Hits
  BY <1>1 DEF Found, Hits, Rank!Hits
<1>3. /\ c \in Found
      /\ \A d : /\ IsFiniteSet(Rank!SelectedIn(d))
                /\ Rank!SelectedIn(d)' = IF place[c].doc = d THEN Rank!SelectedIn(d) \cup {c}
                                                             ELSE Rank!SelectedIn(d)
      /\ \A p : /\ IsFiniteSet(Rank!SelectedAt(p))
                /\ Rank!SelectedAt(p)' = IF place[c] = p THEN Rank!SelectedAt(p) \cup {c}
                                                         ELSE Rank!SelectedAt(p)
  BY <1>1, SelectCounts
<1>4. RankState'
  BY <1>1, <1>2, <1>3 DEF RankIInv, RankState
<1>5. ScoresKnown'
  BY <1>1, <1>2 DEF RankIInv, ScoresKnown
<1>6. Rank!OneOfEachTwin'
  BY <1>1 DEF RankIInv, Rank!OneOfEachTwin
<1>7. /\ limits.sources \in Nat /\ limits.document \in Nat /\ limits.section \in Nat
      /\ Len(selected) \in Nat /\ Len(selected') = Len(selected) + 1
  BY <1>1, <1>3, RankSettings DEF RankIInv, RankState
<1>8. /\ Cardinality(Rank!SelectedIn(place[c].doc)) < limits.document
      /\ Cardinality(Rank!SelectedAt(place[c])) < limits.section
  BY RankCount DEF Rank!Eligible, Rank!Admitted
<1>9. ASSUME NEW d PROVE Cardinality(Rank!SelectedIn(d)') <= limits.document
  <2>1. Cardinality(Rank!SelectedIn(d)) <= limits.document
    BY DEF RankIInv, SelectionFits
  <2>2. IsFiniteSet(Rank!SelectedIn(d)) /\ Cardinality(Rank!SelectedIn(d)) \in Nat
    BY <1>3, FS_CardinalityType
  <2>3. CASE place[c].doc = d
    <3>1. Rank!SelectedIn(d)' = Rank!SelectedIn(d) \cup {c}
      BY <1>3, <2>3
    <3>2. /\ Cardinality(Rank!SelectedIn(d) \cup {c}) <= Cardinality(Rank!SelectedIn(d)) + 1
          /\ Cardinality(Rank!SelectedIn(d) \cup {c}) \in Nat
      BY <2>2, AtMostOneMore
    <3>3. Cardinality(Rank!SelectedIn(d)) < limits.document
      BY <1>8, <2>3
    <3> QED BY <1>7, <2>2, <3>1, <3>2, <3>3
  <2>4. CASE place[c].doc # d
    BY <1>3, <2>1, <2>4
  <2> QED BY <2>3, <2>4
<1>10. ASSUME NEW p PROVE Cardinality(Rank!SelectedAt(p)') <= limits.section
  <2>1. Cardinality(Rank!SelectedAt(p)) <= limits.section
    BY DEF RankIInv, SelectionFits
  <2>2. IsFiniteSet(Rank!SelectedAt(p)) /\ Cardinality(Rank!SelectedAt(p)) \in Nat
    BY <1>3, FS_CardinalityType
  <2>3. CASE place[c] = p
    <3>1. Rank!SelectedAt(p)' = Rank!SelectedAt(p) \cup {c}
      BY <1>3, <2>3
    <3>2. /\ Cardinality(Rank!SelectedAt(p) \cup {c}) <= Cardinality(Rank!SelectedAt(p)) + 1
          /\ Cardinality(Rank!SelectedAt(p) \cup {c}) \in Nat
      BY <2>2, AtMostOneMore
    <3>3. Cardinality(Rank!SelectedAt(p)) < limits.section
      BY <1>8, <2>3
    <3> QED BY <1>7, <2>2, <3>1, <3>2, <3>3
  <2>4. CASE place[c] # p
    BY <1>3, <2>1, <2>4
  <2> QED BY <2>3, <2>4
<1>11. SelectionFits'
  <2>1. Len(selected') <= limits.sources
    BY <1>1, <1>7
  <2> QED BY <1>1, <1>9, <1>10, <2>1 DEF SelectionFits
<1> QED BY <1>1, <1>4, <1>5, <1>6, <1>11, FusionStands DEF RankIInv

LEMMA EndSelectionStep ==
  ASSUME RankIInv, Rank!EndSelection
  PROVE  RankIInv' /\ (FusionFits => FusionFits')
<1>1. /\ stage = "select" /\ stage' = "selected" /\ selected' = selected
      /\ Len(selected) >= limits.sources \/ Rank!Eligible = {}
      /\ ranked' = ranked /\ final' = final
      /\ fused' = fused /\ twins' = twins /\ fusion' = fusion /\ limits' = limits
      /\ dense' = dense /\ lexical' = lexical /\ place' = place
  BY DEF Rank!EndSelection
<1>2. Found' = Found /\ Hits' = Hits
  BY <1>1 DEF Found, Hits, Rank!Hits
<1>3. RankState'
  BY <1>1, <1>2 DEF RankIInv, RankState
<1>4. ScoresKnown'
  BY <1>1, <1>2 DEF RankIInv, ScoresKnown
<1>5. Rank!OneOfEachTwin'
  BY <1>1 DEF RankIInv, Rank!OneOfEachTwin
<1>6. \A d : Rank!SelectedIn(d)' = Rank!SelectedIn(d) /\ Rank!SelectedAt(d)' = Rank!SelectedAt(d)
  BY <1>1 DEF Rank!SelectedIn, Rank!SelectedAt
<1>7. Rank!Eligible' = Rank!Eligible
  BY <1>1, <1>6 DEF Rank!Eligible, Rank!Admitted
<1>8. SelectionFits'
  BY <1>1, <1>6, <1>7 DEF RankIInv, SelectionFits
<1> QED BY <1>1, <1>3, <1>4, <1>5, <1>8, FusionStands DEF RankIInv

(***************************************************************************)
(* Ranking: the theorems.                                                  *)
(***************************************************************************)
LEMMA RankStands ==
  ASSUME RankIInv, UNCHANGED rankVars
  PROVE  RankIInv' /\ (FusionFits => FusionFits')
<1>1. /\ stage' = stage /\ selected' = selected
      /\ ranked' = ranked /\ final' = final
      /\ fused' = fused /\ twins' = twins /\ fusion' = fusion /\ limits' = limits
      /\ dense' = dense /\ lexical' = lexical /\ place' = place
  BY DEF rankVars
<1>2. Found' = Found /\ Hits' = Hits
  BY <1>1 DEF Found, Hits, Rank!Hits
<1>3. RankState'
  BY <1>1, <1>2 DEF RankIInv, RankState
<1>4. ScoresKnown'
  BY <1>1, <1>2 DEF RankIInv, ScoresKnown
<1>5. Rank!OneOfEachTwin'
  BY <1>1 DEF RankIInv, Rank!OneOfEachTwin
<1>6. \A d : Rank!SelectedIn(d)' = Rank!SelectedIn(d) /\ Rank!SelectedAt(d)' = Rank!SelectedAt(d)
  BY <1>1 DEF Rank!SelectedIn, Rank!SelectedAt
<1>7. Rank!Eligible' = Rank!Eligible
  BY <1>1, <1>6 DEF Rank!Eligible, Rank!Admitted
<1>8. SelectionFits'
  BY <1>1, <1>6, <1>7 DEF RankIInv, SelectionFits
<1> QED BY <1>1, <1>3, <1>4, <1>5, <1>8, FusionStands DEF RankIInv

LEMMA RankStep ==
  ASSUME RankIInv, Rank!Next \/ UNCHANGED rankVars
  PROVE  RankIInv' /\ (FusionFits => FusionFits')
<1>1. CASE Rank!Fuse
  BY <1>1, FuseStep
<1>2. CASE Rank!Deduplicate
  BY <1>2, DeduplicateStep
<1>3. CASE Rank!Rerank
  BY <1>3, RerankStep
<1>4. CASE Rank!KeepOrder
  BY <1>4, KeepOrderStep
<1>5. CASE Rank!SelectFirst
  <2>1. Rank!MaySelect /\ Rank!Select(Rank!Best)
    BY <1>5 DEF Rank!SelectFirst
  <2>2. Rank!Best \in Rank!Eligible
    BY <2>1, BestIsEligible DEF Rank!MaySelect
  <2> QED BY <2>1, <2>2, SelectStep
<1>6. CASE Rank!SelectNext
  <2>1. Rank!MaySelect
    BY <1>6 DEF Rank!SelectNext
  <2>2. PICK c \in Rank!Eligible : Rank!Select(c)
    BY <1>6 DEF Rank!SelectNext
  <2> QED BY <2>1, <2>2, SelectStep
<1>7. CASE Rank!EndSelection
  BY <1>7, EndSelectionStep
<1>8. CASE UNCHANGED rankVars
  BY <1>8, RankStands
<1> QED
  BY <1>1, <1>2, <1>3, <1>4, <1>5, <1>6, <1>7, <1>8 DEF Rank!Next

LEMMA RankMoves ==
  ASSUME [Next]_allVars
  PROVE  part' = part /\ (part = "rank" => Rank!Next \/ UNCHANGED rankVars)
BY DEF Next, CallNext, PageStep, allVars, rankVars

RankHolds == part = "rank" => RankIInv

\* The lists, the scores and the counts of a search are what the code works with at
\* each of its steps.
THEOREM RankInvariant == Spec => []RankHolds
<1>1. Init => RankHolds
  BY RankInit DEF Init, RankHolds
<1>2. RankHolds /\ [Next]_allVars => RankHolds'
  BY RankMoves, RankStep DEF RankHolds
<1> QED BY <1>1, <1>2, PTL DEF Spec

\* No two passages that search ranks are duplicates, and one that was removed has a
\* duplicate that was fused before it.
THEOREM TwinsAreRepresented == Spec => []OneOfEachTwin
<1>1. RankHolds => OneOfEachTwin
  BY DEF RankHolds, RankIInv, OneOfEachTwin
<1> QED BY <1>1, RankInvariant, PTL

\* select_diverse_candidates keeps to its three limits, and leaves a passage out only
\* when the selection is full, or its document or its section is.
THEOREM SelectionIsFull == Spec => []SelectionFull
<1>1. RankIInv => Rank!SelectionFull
  <2> SUFFICES ASSUME RankIInv PROVE Rank!SelectionFull
    OBVIOUS
  <2>1. /\ Len(selected) <= limits.sources /\ Len(selected) \in Nat
        /\ limits.sources \in Nat /\ limits.document \in Nat /\ limits.section \in Nat
        /\ dense \in Hits /\ lexical \in Hits /\ selected \in Seq(Found)
    BY RankSettings DEF RankIInv, RankState, SelectionFits
  <2>2. \A c : /\ Cardinality(Rank!SelectedIn(place[c].doc)) <= limits.document
               /\ Cardinality(Rank!SelectedAt(place[c])) <= limits.section
    BY DEF RankIInv, SelectionFits
  <2>3. ASSUME NEW c
        PROVE  /\ Cardinality(Rank!SelectedIn(place[c].doc)) \in Nat
               /\ Cardinality(Rank!SelectedAt(place[c])) \in Nat
    <3>1. Rank!SelectedIn(place[c].doc) \subseteq Found /\ Rank!SelectedAt(place[c]) \subseteq Found
      BY <2>1 DEF Rank!SelectedIn, Rank!SelectedAt, Rank!Range
    <3> QED BY <2>1, <3>1, FoundKnown, FS_Subset, FS_CardinalityType
  <2>4. ASSUME stage = "selected", Len(selected) < limits.sources,
               NEW c \in Rank!Range(ranked) \ Rank!Range(selected)
        PROVE  \/ Cardinality(Rank!SelectedIn(place[c].doc)) = limits.document
               \/ Cardinality(Rank!SelectedAt(place[c])) = limits.section
    <3>1. Rank!Eligible = {}
      BY <2>1, <2>4 DEF RankIInv, SelectionFits
    <3>2. ~Rank!Admitted(c)
      BY <2>4, <3>1 DEF Rank!Eligible
    <3>3. ~(/\ Cardinality(Rank!SelectedIn(place[c].doc)) < limits.document
            /\ Cardinality(Rank!SelectedAt(place[c])) < limits.section)
      BY <3>2, RankCount DEF Rank!Admitted
    <3> QED BY <2>1, <2>2, <2>3, <3>3
  <2> QED BY <2>1, <2>2, <2>4, RankCount DEF Rank!SelectionFull
<1>2. RankHolds => SelectionFull
  BY <1>1 DEF RankHolds, SelectionFull
<1> QED BY <1>2, RankInvariant, PTL

\* reciprocal_rank_fusion never turns against both searches, as long as they return
\* fewer passages than the rank that it gives to a passage that is not found.
THEOREM FusionIsFair ==
  ASSUME SearchesAreShort
  PROVE  Spec => []FusionAgrees
<1> DEFINE Fits == part = "rank" => FusionFits
<1>1. Init => Fits
  BY RankInit, SearchesAreShort DEF Init
<1>2. RankHolds /\ Fits /\ [Next]_allVars => Fits'
  BY RankMoves, RankStep DEF RankHolds
<1>3. Fits => FusionAgrees
  BY DEF FusionFits, FusionAgrees
<1> HIDE DEF Fits
<1> QED BY <1>1, <1>2, <1>3, RankInvariant, PTL DEF Spec

(***************************************************************************)
(* ExactCount: the blocks with a match.                                    *)
(***************************************************************************)
LEMMA CountTotal == ASSUME NEW s PROVE Count!Total(s) = Total(s)
BY DEF Count!Total, Total, Count!FoldLeft, FoldLeft, Count!MapThenFoldSet, MapThenFoldSet,
       Count!Max, Max

LEMMA CountKept == ASSUME NEW s, NEW w PROVE Count!Kept(s, w) = Kept(s, w)
BY DEF Count!Kept, Kept, Count!FoldLeft, FoldLeft, Count!MapThenFoldSet, MapThenFoldSet,
       Count!Max, Max

LEMMA CountCount == ASSUME NEW S PROVE Count!Cardinality(S) = Cardinality(S)
BY DEF Count!Cardinality, Cardinality

\* The blocks up to m of a document that have a match.
Matching(d, m) == {b \in 1..m : d[b] > 0}

\* k names them, in their order.
Names(k, d, m) ==
  /\ k \in Seq(Nat)
  /\ Len(k) = Cardinality(Matching(d, m))
  /\ \A i \in 1..Len(k) : /\ k[i] \in 1..m /\ d[k[i]] > 0
                          /\ Cardinality(Matching(d, k[i])) = i

MatchesAt(k, d) == [i \in 1..Len(k) |-> d[k[i]]]

\* The blocks that match up to m are those before it, and m if it matches.
LEMMA MatchingGrows ==
  ASSUME NEW d \in Seq(Nat), NEW m \in 1..Len(d)
  PROVE  /\ Cardinality(Matching(d, m - 1)) \in Nat
         /\ Cardinality(Matching(d, m)) =
              Cardinality(Matching(d, m - 1)) + (IF d[m] > 0 THEN 1 ELSE 0)
<1> DEFINE M == Matching(d, m - 1)
<1>1. IsFiniteSet(M)
  <2>1. M \subseteq 1..(m - 1)
    BY DEF Matching
  <2>2. IsFiniteSet(1..(m - 1))
    BY FS_Interval
  <2> QED BY <2>1, <2>2, FS_Subset
<1>2. Matching(d, m) = IF d[m] > 0 THEN M \cup {m} ELSE M
  BY DEF Matching
<1>3. m \notin M
  BY DEF Matching
<1> HIDE DEF M
<1>4. Cardinality(M) \in Nat /\ Cardinality(M \cup {m}) = Cardinality(M) + 1
  BY <1>1, <1>3, FS_AddElement, FS_CardinalityType
<1> QED BY <1>2, <1>4 DEF M

LEMMA AppendPlaces ==
  ASSUME NEW S, NEW s \in Seq(S), NEW x \in S, NEW n, n = Len(s)
  PROVE  LET t == Append(s, x)
         IN /\ DOMAIN t = 1..(n + 1) /\ t[n + 1] = x
            /\ \A i \in 1..n : t[i] = s[i]
            /\ t = [i \in 1..(n + 1) |-> t[i]]
<1> DEFINE t == Append(s, x)
<1>1. /\ n \in Nat /\ t \in Seq(S) /\ Len(t) = n + 1 /\ t[n + 1] = x
      /\ \A i \in 1..n : t[i] = s[i]
  OBVIOUS
<1> HIDE DEF t
<1>2. DOMAIN t = 1..(n + 1) /\ t = [i \in DOMAIN t |-> t[i]]
  BY <1>1
<1>3. t = [i \in 1..(n + 1) |-> t[i]]
  BY <1>2
<1> QED BY <1>1, <1>2, <1>3 DEF t

\* Evidence that names the matching blocks goes on to do so.
LEMMA NamesMore ==
  ASSUME NEW d \in Seq(Nat), NEW m \in 1..Len(d), d[m] > 0, NEW k, Names(k, d, m - 1)
  PROVE  /\ Names(Append(k, m), d, m)
         /\ MatchesAt(k, d) \in Seq(Nat)
         /\ MatchesAt(Append(k, m), d) = Append(MatchesAt(k, d), d[m])
<1> DEFINE l == Append(k, m)
<1>1. k \in Seq(Nat) /\ Len(k) \in Nat /\ Len(k) = Cardinality(Matching(d, m - 1))
  BY DEF Names
<1>2. /\ l \in Seq(Nat) /\ Len(l) = Len(k) + 1 /\ l[Len(l)] = m
      /\ \A i \in 1..Len(k) : l[i] = k[i]
  BY <1>1
<1> HIDE DEF l
<1>3. Len(l) = Cardinality(Matching(d, m))
  BY <1>1, <1>2, MatchingGrows
<1>4. ASSUME NEW i \in 1..Len(l)
      PROVE  l[i] \in 1..m /\ d[l[i]] > 0 /\ Cardinality(Matching(d, l[i])) = i
  <2>1. CASE i = Len(l)
    BY <1>2, <1>3, <2>1
  <2>2. CASE i # Len(l)
    <3>1. i \in 1..Len(k)
      BY <1>1, <1>2, <2>2
    <3>2. k[i] \in 1..(m - 1) /\ d[k[i]] > 0 /\ Cardinality(Matching(d, k[i])) = i
      BY <3>1 DEF Names
    <3>3. l[i] = k[i]
      BY <1>2, <3>1
    <3> QED BY <3>2, <3>3
  <2> QED BY <2>1, <2>2
<1>5. Names(l, d, m)
  BY <1>2, <1>3, <1>4 DEF Names
<1>6. \A i \in 1..Len(k) : d[k[i]] \in Nat
  <2>1. \A i \in 1..Len(k) : k[i] \in 1..Len(d)
    BY DEF Names
  <2>2. \A j \in 1..Len(d) : d[j] \in Nat
    OBVIOUS
  <2> QED BY <2>1, <2>2, Zenon
<1>7. MatchesAt(k, d) \in Seq(Nat) /\ Len(MatchesAt(k, d)) = Len(k)
  <2> DEFINE number(i) == d[k[i]]
             l0 == Len(k)
  <2>1. MatchesAt(k, d) = [i \in 1..l0 |-> number(i)] /\ l0 \in Nat
    BY <1>1 DEF MatchesAt
  <2>2. \A i \in 1..l0 : number(i) \in Nat
    BY <1>6
  <2> HIDE DEF number, l0
  <2>3. [i \in 1..l0 |-> number(i)] \in Seq(Nat) /\ Len([i \in 1..l0 |-> number(i)]) = l0
    BY <2>1, <2>2
  <2> QED BY <2>1, <2>3 DEF l0
<1>8. MatchesAt(l, d) = Append(MatchesAt(k, d), d[m])
  <2>1. d[m] \in Nat
    OBVIOUS
  <2> DEFINE s == MatchesAt(k, d)
             t == Append(s, d[m])
  <2>2. /\ DOMAIN t = 1..(Len(k) + 1) /\ t[Len(k) + 1] = d[m]
        /\ \A i \in 1..Len(k) : t[i] = s[i]
        /\ t = [i \in 1..(Len(k) + 1) |-> t[i]]
    <3>1. s \in Seq(Nat) /\ Len(s) = Len(k)
      BY <1>7
    <3> HIDE DEF s
    <3> QED BY <2>1, <3>1, AppendPlaces
  <2>3. \A i \in 1..Len(k) : s[i] = d[l[i]]
    BY <1>2 DEF MatchesAt
  <2> HIDE DEF t, s
  <2>4. \A i \in 1..(Len(k) + 1) : t[i] = d[l[i]]
    <3> SUFFICES ASSUME NEW i \in 1..(Len(k) + 1) PROVE t[i] = d[l[i]]
      OBVIOUS
    <3>1. CASE i = Len(k) + 1
      BY <1>2, <2>2, <3>1
    <3>2. CASE i # Len(k) + 1
      <4>1. i \in 1..Len(k)
        <5>1. Len(k) \in Nat
          BY <1>1
        <5>2. \A b \in Nat : \A a \in 1..(b + 1) : a # b + 1 => a \in 1..b
          OBVIOUS
        <5> QED BY <3>2, <5>1, <5>2, Zenon
      <4> QED BY <2>2, <2>3, <4>1
    <3> QED BY <3>1, <3>2
  <2>5. MatchesAt(l, d) = [i \in 1..(Len(k) + 1) |-> d[l[i]]]
    BY <1>2 DEF MatchesAt
  <2>6. MatchesAt(l, d) = t
    BY <2>2, <2>4, <2>5
  <2> QED BY <2>6 DEF t, s
<1> QED BY <1>5, <1>7, <1>8 DEF l

\* The evidence of a document names the blocks that match, and their matches add up
\* to those of all blocks.
LEMMA EvidenceNamesMatches ==
  ASSUME NEW d \in Seq(Nat)
  PROVE  /\ Names(Count!Evidence(d), d, Len(d))
         /\ Total(MatchesAt(Count!Evidence(d), d)) = Total(d)
<1> DEFINE n == Len(d)
           ids == [i \in DOMAIN d |-> i]
           W == {i \in DOMAIN d : d[i] > 0}
<1>1. /\ n \in Nat /\ DOMAIN d = 1..n /\ ids \in Seq(Nat) /\ Len(ids) = n
      /\ \A i \in 1..n : ids[i] = i /\ d[i] \in Nat /\ (i \in W <=> d[i] > 0)
  OBVIOUS
<1>2. Count!Evidence(d) = Kept(ids, W)
  BY CountKept DEF Count!Evidence
<1> HIDE DEF ids, W
<1>3. PICK h : KeptUpTo(h, ids, W) /\ Kept(ids, W) = h[n]
  BY <1>1, KeptSteps
<1>4. PICK g : SumsUpTo(g, d) /\ Total(d) = g[n]
  BY TotalSteps
<1>5. /\ h[0] = <<>>
      /\ \A i \in 1..n : h[i] = IF d[i] > 0 THEN Append(h[i - 1], i) ELSE h[i - 1]
  BY <1>1, <1>3 DEF KeptUpTo
<1>6. /\ g[0] = 0 /\ \A i \in 1..n : g[i] = g[i - 1] + d[i]
      /\ \A i \in 0..n : g[i] \in Nat
  BY <1>1, <1>4 DEF SumsUpTo
<1> DEFINE Good == {m \in 0..n : Names(h[m], d, m) /\ Total(MatchesAt(h[m], d)) = g[m]}
<1>7. 0 \in Good
  <2>1. Matching(d, 0) = {} /\ MatchesAt(<<>>, d) = <<>>
    BY DEF Matching, MatchesAt
  <2>2. Cardinality({}) = 0
    BY FS_EmptySet
  <2>3. Names(<<>>, d, 0)
    <3>1. <<>> \in Seq(Nat) /\ Len(<<>>) = 0 /\ 1..0 = {}
      OBVIOUS
    <3>2. Len(<<>>) = Cardinality(Matching(d, 0))
      BY <2>1, <2>2, <3>1, Zenon
    <3>3. \A i \in 1..Len(<<>>) : FALSE
      BY <3>1
    <3> QED BY <3>1, <3>2, <3>3, Zenon DEF Names
  <2>4. Total(MatchesAt(<<>>, d)) = 0
    BY <2>1, TotalOfNone
  <2> QED BY <1>1, <1>5, <1>6, <2>3, <2>4
<1>8. ASSUME NEW m \in 1..n, m - 1 \in Good PROVE m \in Good
  <2> DEFINE k == h[m - 1]
  <2>1. Names(k, d, m - 1) /\ Total(MatchesAt(k, d)) = g[m - 1]
    BY <1>8
  <2>2. m \in 1..Len(d) /\ m \in 0..n
    OBVIOUS
  <2>3. CASE d[m] > 0
    <3>1. h[m] = Append(k, m)
      BY <1>5, <2>3
    <3> HIDE DEF k
    <3>2. /\ Names(h[m], d, m) /\ MatchesAt(k, d) \in Seq(Nat)
          /\ MatchesAt(h[m], d) = Append(MatchesAt(k, d), d[m])
      BY <2>1, <2>2, <2>3, <3>1, NamesMore
    <3>3. d[m] \in Nat
      BY <1>1
    <3>4. Total(MatchesAt(h[m], d)) = g[m - 1] + d[m]
      BY <2>1, <3>2, <3>3, TotalOfAppend
    <3>5. Total(MatchesAt(h[m], d)) = g[m]
      BY <1>6, <3>4
    <3> QED BY <2>2, <3>2, <3>5
  <2>4. CASE ~(d[m] > 0)
    <3>1. h[m] = k
      BY <1>5, <2>4
    <3>2. Cardinality(Matching(d, m)) = Cardinality(Matching(d, m - 1))
      BY <2>2, <2>4, MatchingGrows
    <3> HIDE DEF k
    <3>3. Names(k, d, m)
      <4>1. \A i \in 1..Len(k) : k[i] \in 1..m
        BY <2>1 DEF Names
      <4> QED BY <2>1, <3>2, <4>1 DEF Names
    <3>4. g[m] = g[m - 1]
      <4>1. d[m] = 0 /\ g[m] = g[m - 1] + d[m] /\ g[m - 1] \in Nat
        BY <1>1, <1>6, <2>4
      <4> QED BY <4>1
    <3> QED BY <2>1, <2>2, <3>1, <3>3, <3>4
  <2> QED BY <2>3, <2>4
<1>9. n \in Good
  <2> HIDE DEF Good
  <2> QED BY <1>1, <1>7, <1>8, CountingTo
<1> QED BY <1>2, <1>3, <1>4, <1>9

(***************************************************************************)
(* ExactCount: the inductive invariant.  Before its turn in a round, a     *)
(* document has a card for each of the rounds before, as far as its        *)
(* evidence goes; after it, also for this one.                             *)
(***************************************************************************)
Ev(d) == Count!Evidence(documents[d])

RoundsOf(d) == IF d < turn THEN round ELSE round - 1

Given(d) == IF Len(Ev(d)) < RoundsOf(d) THEN Len(Ev(d)) ELSE RoundsOf(d)

Card == [document : Nat, block : Nat, matches : Nat]

CardOf(d) == [document : {d}, block : Nat, matches : Nat]

CountState ==
  /\ documents \in Seq(Seq(Nat))
  /\ counted \in Seq([count : Nat, evidence : Seq(Nat)])
  /\ Len(counted) <= Len(documents)
  /\ \A d \in 1..Len(counted) :
       counted[d].count = Total(documents[d]) /\ counted[d].evidence = Ev(d)
  /\ Len(counted) < Len(documents) => round = 1 /\ turn = 1 /\ shown = <<>> /\ ~finished

RoundState ==
  /\ round \in 1..(PerDocument + 1)
  /\ turn \in Nat \ {0} /\ (turn <= Len(documents) \/ turn = 1)
  /\ round = PerDocument + 1 => turn = 1
  /\ shown \in Seq(Card)
  /\ Len(shown) <= MaxEvidence
  /\ finished \in BOOLEAN
  /\ ~finished => Len(shown) < MaxEvidence
  /\ finished => Len(shown) = MaxEvidence \/ round = PerDocument + 1 \/ documents = <<>>

\* cards are those of document d: its first evidence, in order, with its matches.
CardsFit(cards, d) ==
  /\ cards \in Seq(Card)
  /\ \A i \in 1..Len(cards) : /\ cards[i].block = Ev(d)[i]
                              /\ cards[i].matches = documents[d][Ev(d)[i]]

CardsState ==
  \A d \in DOMAIN documents :
    /\ CardsFit(Kept(shown, CardOf(d)), d) /\ Len(Kept(shown, CardOf(d))) = Given(d)
    /\ IsFiniteSet(Count!LabelsOf(d)) /\ Cardinality(Count!LabelsOf(d)) = Given(d)

CountIInv == CountState /\ RoundState /\ CardsState

LEMMA CountSettings ==
  /\ Selections \subseteq Seq(Seq(Nat))
  /\ PerDocument \in Nat /\ PerDocument > 0 /\ MaxEvidence \in Nat /\ MaxEvidence > 0
BY PartsAssumption DEF Count!CountAssumption

\* The evidence of a document is its matching blocks, whose matches add up to its count.
LEMMA EvKnown ==
  ASSUME documents \in Seq(Seq(Nat)), NEW d \in DOMAIN documents
  PROVE  /\ documents[d] \in Seq(Nat) /\ Ev(d) \in Seq(Nat) /\ Len(Ev(d)) \in Nat
         /\ \A i \in 1..Len(Ev(d)) :
              /\ Ev(d)[i] \in 1..Len(documents[d]) /\ documents[d][Ev(d)[i]] \in Nat
              /\ documents[d][Ev(d)[i]] > 0
              /\ Cardinality(Matching(documents[d], Ev(d)[i])) = i
         /\ Total(MatchesAt(Ev(d), documents[d])) = Total(documents[d])
<1>1. documents[d] \in Seq(Nat)
  OBVIOUS
<1>2. /\ Names(Ev(d), documents[d], Len(documents[d]))
      /\ Total(MatchesAt(Ev(d), documents[d])) = Total(documents[d])
  BY <1>1, EvidenceNamesMatches DEF Ev
<1>3. Ev(d) \in Seq(Nat) /\ Len(Ev(d)) \in Nat
  BY <1>2 DEF Names
<1>4. \A b \in 1..Len(documents[d]) : documents[d][b] \in Nat
  BY <1>1
<1>5. ASSUME NEW i \in 1..Len(Ev(d))
      PROVE  /\ Ev(d)[i] \in 1..Len(documents[d]) /\ documents[d][Ev(d)[i]] \in Nat
             /\ documents[d][Ev(d)[i]] > 0
             /\ Cardinality(Matching(documents[d], Ev(d)[i])) = i
  <2>1. /\ Ev(d)[i] \in 1..Len(documents[d]) /\ documents[d][Ev(d)[i]] > 0
        /\ Cardinality(Matching(documents[d], Ev(d)[i])) = i
    BY <1>2 DEF Names
  <2>2. documents[d][Ev(d)[i]] \in Nat
    BY <1>4, <2>1, Zenon
  <2> QED BY <2>1, <2>2
<1> QED BY <1>1, <1>2, <1>3, <1>5

\* Nothing is shown before the first round.
LEMMA NothingShown ==
  ASSUME documents \in Seq(Seq(Nat)), round = 1, turn = 1, shown = <<>>
  PROVE  CardsState
<1> SUFFICES ASSUME NEW d \in DOMAIN documents
             PROVE  /\ CardsFit(Kept(shown, CardOf(d)), d) /\ Len(Kept(shown, CardOf(d))) = Given(d)
                    /\ IsFiniteSet(Count!LabelsOf(d)) /\ Cardinality(Count!LabelsOf(d)) = Given(d)
  BY DEF CardsState
<1>1. Len(Ev(d)) \in Nat /\ d >= 1 /\ d \in Nat
  BY EvKnown
<1>2. Given(d) = 0
  BY <1>1 DEF Given, RoundsOf
<1>3. Kept(shown, CardOf(d)) = <<>>
  BY KeptOfNone
<1>4. Count!LabelsOf(d) = {}
  BY DEF Count!LabelsOf
<1>5. IsFiniteSet({}) /\ Cardinality({}) = 0
  BY FS_EmptySet
<1>6. CardsFit(<<>>, d) /\ Len(<<>>) = 0
  <2>1. <<>> \in Seq(Card) /\ Len(<<>>) = 0 /\ \A i \in 1..0 : FALSE
    OBVIOUS
  <2>2. \A i \in 1..Len(<<>>) : FALSE
    BY <2>1
  <2> QED BY <2>1, <2>2, Zenon DEF CardsFit
<1> QED BY <1>2, <1>3, <1>4, <1>5, <1>6

LEMMA CountInit == ASSUME Count!Init PROVE CountIInv
<1>1. /\ documents \in Seq(Seq(Nat)) /\ counted = <<>> /\ round = 1 /\ turn = 1 /\ shown = <<>>
      /\ finished = FALSE
  BY CountSettings DEF Count!Init
<1>2. CountState
  BY <1>1 DEF CountState
<1>3. RoundState
  <2>1. shown \in Seq(Card) /\ Len(shown) = 0
    BY <1>1
  <2>2. /\ Len(shown) <= MaxEvidence /\ Len(shown) < MaxEvidence
        /\ round \in 1..(PerDocument + 1) /\ round # PerDocument + 1
    BY <1>1, <2>1, CountSettings
  <2>3. turn \in Nat \ {0} /\ turn = 1
    BY <1>1
  <2>4. finished \in BOOLEAN /\ ~finished
    BY <1>1, Zenon
  <2> QED BY <2>1, <2>2, <2>3, <2>4, Zenon DEF RoundState
<1>4. CardsState
  BY <1>1, NothingShown
<1> QED BY <1>2, <1>3, <1>4 DEF CountIInv

LEMMA ScanStep == ASSUME CountIInv, Count!Scan PROVE CountIInv'
<1> DEFINE n == Len(counted)
           d == documents[n + 1]
           result == [count |-> Count!Total(d), evidence |-> Count!Evidence(d)]
<1>1. /\ n < Len(documents) /\ counted' = Append(counted, result)
      /\ documents' = documents /\ round' = round /\ turn' = turn /\ shown' = shown
      /\ finished' = finished
  BY DEF Count!Scan
<1>2. /\ documents \in Seq(Seq(Nat)) /\ counted \in Seq([count : Nat, evidence : Seq(Nat)])
      /\ n \in Nat /\ Len(documents) \in Nat
      /\ round = 1 /\ turn = 1 /\ shown = <<>> /\ ~finished
  BY <1>1 DEF CountIInv, CountState
<1>3. n + 1 \in DOMAIN documents
  BY <1>1, <1>2
<1>4. result \in [count : Nat, evidence : Seq(Nat)]
  <2>1. d \in Seq(Nat) /\ Ev(n + 1) \in Seq(Nat) /\ Ev(n + 1) = Count!Evidence(d)
    BY <1>2, <1>3, EvKnown DEF Ev
  <2>2. Count!Total(d) \in Nat
    BY <2>1, CountTotal, TotalIsNat
  <2> HIDE DEF d
  <2> QED BY <2>1, <2>2
<1>5. result.count = Total(d) /\ result.evidence = Ev(n + 1)
  BY CountTotal DEF Ev
<1> HIDE DEF result
<1>6. \A e : Ev(e)' = Ev(e)
  BY <1>1 DEF Ev
<1>7. /\ counted' \in Seq([count : Nat, evidence : Seq(Nat)]) /\ Len(counted') = n + 1
      /\ counted'[n + 1] = result /\ \A i \in 1..n : counted'[i] = counted[i]
  BY <1>1, <1>2, <1>4
<1>8. \A i \in 1..Len(counted') :
        counted'[i].count = Total(documents[i]) /\ counted'[i].evidence = Ev(i)
  <2> SUFFICES ASSUME NEW i \in 1..(n + 1)
               PROVE  counted'[i].count = Total(documents[i]) /\ counted'[i].evidence = Ev(i)
    BY <1>7
  <2>1. CASE i = n + 1
    BY <1>5, <1>7, <2>1
  <2>2. CASE i # n + 1
    <3>1. i \in 1..n
      BY <1>2, <2>2
    <3> QED BY <1>7, <3>1 DEF CountIInv, CountState
  <2> QED BY <2>1, <2>2
<1>9. CountState'
  <2>1. ASSUME NEW i \in 1..Len(counted')
        PROVE  counted'[i].count = Total(documents'[i]) /\ counted'[i].evidence = Ev(i)'
    BY <1>1, <1>6, <1>8
  <2>2. /\ documents' \in Seq(Seq(Nat)) /\ counted' \in Seq([count : Nat, evidence : Seq(Nat)])
        /\ Len(counted') <= Len(documents')
        /\ round' = 1 /\ turn' = 1 /\ shown' = <<>> /\ ~finished'
    BY <1>1, <1>2, <1>7
  <2> QED BY <2>1, <2>2 DEF CountState
<1>10. RoundState'
  BY <1>1 DEF CountIInv, RoundState
<1>11. CardsState'
  <2>1. \A e : Given(e)' = Given(e) /\ Count!LabelsOf(e)' = Count!LabelsOf(e)
    BY <1>1, <1>6 DEF Given, RoundsOf, Count!LabelsOf
  <2>2. \A cards, e : CardsFit(cards, e)' <=> CardsFit(cards, e)
    BY <1>1, <1>6 DEF CardsFit
  <2>3. CardsState
    BY DEF CountIInv
  <2> QED BY <1>1, <2>1, <2>2, <2>3 DEF CardsState
<1> QED BY <1>9, <1>10, <1>11 DEF CountIInv

LEMMA RoundsOverStep == ASSUME CountIInv, Count!RoundsOver PROVE CountIInv'
<1>1. /\ Len(counted) = Len(documents) /\ ~finished /\ finished' = TRUE
      /\ ~(round <= PerDocument /\ turn <= Len(documents))
      /\ documents' = documents /\ counted' = counted /\ round' = round /\ turn' = turn
      /\ shown' = shown
  BY DEF Count!RoundsOver, Count!Scanned, Count!Choosing
<1>2. \A e : Ev(e)' = Ev(e)
  BY <1>1 DEF Ev
<1>3. CountState'
  BY <1>1, <1>2 DEF CountIInv, CountState
<1>4. documents \in Seq(Seq(Nat)) /\ Len(documents) \in Nat
  BY DEF CountIInv, CountState
<1>5. round = PerDocument + 1 \/ documents = <<>>
  <2>1. /\ round \in 1..(PerDocument + 1) /\ turn \in Nat \ {0}
        /\ turn <= Len(documents) \/ turn = 1
    BY DEF CountIInv, RoundState
  <2>2. CASE round <= PerDocument
    <3>1. Len(documents) = 0
      BY <1>1, <1>4, <2>1, <2>2
    <3> QED BY <1>4, <3>1
  <2>3. CASE ~(round <= PerDocument)
    BY <2>1, <2>3, CountSettings
  <2> QED BY <2>2, <2>3
<1>6. RoundState'
  BY <1>1, <1>5 DEF CountIInv, RoundState
<1>7. CardsState'
  <2>1. \A e : Given(e)' = Given(e) /\ Count!LabelsOf(e)' = Count!LabelsOf(e)
    BY <1>1, <1>2 DEF Given, RoundsOf, Count!LabelsOf
  <2>2. \A cards, e : CardsFit(cards, e)' <=> CardsFit(cards, e)
    BY <1>1, <1>2 DEF CardsFit
  <2>3. CardsState
    BY DEF CountIInv
  <2> QED BY <1>1, <2>1, <2>2, <2>3 DEF CardsState
<1> QED BY <1>3, <1>6, <1>7 DEF CountIInv

\* The document whose turn it is gets the card of this round, if it has evidence for it.
LEMMA TurnIs ==
  ASSUME CountIInv, Count!TakeTurn
  PROVE  /\ documents' = documents /\ counted' = counted /\ ~finished
         /\ Len(counted) = Len(documents) /\ round <= PerDocument
         /\ turn \in 1..Len(documents) /\ round \in Nat /\ round > 0
         /\ round' = IF turn < Len(documents) THEN round ELSE round + 1
         /\ turn' = IF turn < Len(documents) THEN turn + 1 ELSE 1
         /\ shown' = IF round <= Len(Ev(turn)) THEN Append(shown, Count!Card) ELSE shown
         /\ finished' = (Len(shown') >= MaxEvidence)
         /\ round <= Len(Ev(turn)) =>
              /\ Count!Card \in CardOf(turn) /\ Count!Card \in Card
              /\ Count!Card.document = turn /\ Count!Card.block = Ev(turn)[round]
              /\ Count!Card.matches = documents[turn][Ev(turn)[round]]
<1>1. /\ Count!Choosing /\ Count!Advance /\ documents' = documents /\ counted' = counted
      /\ shown' = IF round \in DOMAIN counted[turn].evidence THEN Append(shown, Count!Card) ELSE shown
      /\ finished' = Count!Enough(shown')
  BY DEF Count!TakeTurn
<1>2. /\ Len(counted) = Len(documents) /\ ~finished /\ round <= PerDocument
      /\ turn <= Len(documents)
  BY <1>1 DEF Count!Choosing, Count!Scanned
<1>3. /\ documents \in Seq(Seq(Nat)) /\ Len(documents) \in Nat
      /\ round \in 1..(PerDocument + 1) /\ turn \in Nat \ {0}
  BY DEF CountIInv, CountState, RoundState
<1>4. turn \in 1..Len(documents) /\ turn \in DOMAIN documents /\ round \in Nat /\ round > 0
  BY <1>2, <1>3, CountSettings
<1>5. counted[turn].evidence = Ev(turn)
  BY <1>2, <1>4 DEF CountIInv, CountState
<1>6. /\ Ev(turn) \in Seq(Nat) /\ Len(Ev(turn)) \in Nat /\ documents[turn] \in Seq(Nat)
      /\ \A i \in 1..Len(Ev(turn)) : documents[turn][Ev(turn)[i]] \in Nat
  BY <1>3, <1>4, EvKnown
<1>7. DOMAIN Ev(turn) = 1..Len(Ev(turn)) /\ (round \in DOMAIN Ev(turn) <=> round <= Len(Ev(turn)))
  BY <1>4, <1>6
<1>8. /\ round' = IF turn < Len(documents) THEN round ELSE round + 1
      /\ turn' = IF turn < Len(documents) THEN turn + 1 ELSE 1
  BY <1>1 DEF Count!Advance
<1>9. finished' = (Len(shown') >= MaxEvidence)
  BY <1>1 DEF Count!Enough
<1>10. Count!Card = [document |-> turn, block |-> Ev(turn)[round],
                     matches |-> documents[turn][Ev(turn)[round]]]
  BY <1>5 DEF Count!Card
<1>11. round <= Len(Ev(turn)) =>
              /\ Count!Card \in CardOf(turn) /\ Count!Card \in Card
              /\ Count!Card.document = turn /\ Count!Card.block = Ev(turn)[round]
              /\ Count!Card.matches = documents[turn][Ev(turn)[round]]
  <2> SUFFICES ASSUME round <= Len(Ev(turn))
               PROVE  /\ Count!Card \in CardOf(turn) /\ Count!Card \in Card
                      /\ Count!Card.document = turn /\ Count!Card.block = Ev(turn)[round]
                      /\ Count!Card.matches = documents[turn][Ev(turn)[round]]
    OBVIOUS
  <2>1. round \in 1..Len(Ev(turn))
    BY <1>4, <1>6
  <2>2. /\ Ev(turn)[round] \in Nat /\ documents[turn][Ev(turn)[round]] \in Nat
        /\ turn \in Nat
    BY <1>3, <1>6, <2>1
  <2> QED BY <1>10, <2>2 DEF CardOf, Card
<1> QED BY <1>1, <1>2, <1>4, <1>5, <1>7, <1>8, <1>9, <1>11

\* Only the document whose turn it is has one round more.
LEMMA RoundsAre ==
  ASSUME CountIInv, Count!TakeTurn
  PROVE  /\ RoundsOf(turn) = round - 1
         /\ \A d \in DOMAIN documents : /\ RoundsOf(d) \in Nat
                                        /\ RoundsOf(d)' = IF d = turn THEN round ELSE RoundsOf(d)
<1>1. /\ turn \in 1..Len(documents) /\ round \in Nat /\ round > 0
      /\ round' = IF turn < Len(documents) THEN round ELSE round + 1
      /\ turn' = IF turn < Len(documents) THEN turn + 1 ELSE 1
  BY TurnIs
<1>2. RoundsOf(turn) = round - 1
  BY <1>1 DEF RoundsOf
<1>3. ASSUME NEW d \in DOMAIN documents
      PROVE  RoundsOf(d) \in Nat /\ RoundsOf(d)' = IF d = turn THEN round ELSE RoundsOf(d)
  <2>0. documents \in Seq(Seq(Nat))
    BY DEF CountIInv, CountState
  <2>1. d \in 1..Len(documents) /\ Len(documents) \in Nat
    BY <2>0
  <2>2. RoundsOf(d) \in Nat
    BY <1>1 DEF RoundsOf
  <2>3. CASE turn < Len(documents)
    BY <1>1, <2>1, <2>3 DEF RoundsOf
  <2>4. CASE ~(turn < Len(documents))
    BY <1>1, <2>1, <2>4 DEF RoundsOf
  <2> QED BY <2>2, <2>3, <2>4
<1> QED BY <1>2, <1>3

LEMMA TakeTurnStep == ASSUME CountIInv, Count!TakeTurn PROVE CountIInv'
<1> DEFINE has == round <= Len(Ev(turn))
<1>1. /\ documents' = documents /\ counted' = counted /\ ~finished
      /\ Len(counted) = Len(documents) /\ round <= PerDocument
      /\ turn \in 1..Len(documents) /\ round \in Nat /\ round > 0
      /\ round' = IF turn < Len(documents) THEN round ELSE round + 1
      /\ turn' = IF turn < Len(documents) THEN turn + 1 ELSE 1
      /\ shown' = IF has THEN Append(shown, Count!Card) ELSE shown
      /\ finished' = (Len(shown') >= MaxEvidence)
      /\ has => /\ Count!Card \in CardOf(turn) /\ Count!Card \in Card
                /\ Count!Card.document = turn /\ Count!Card.block = Ev(turn)[round]
                /\ Count!Card.matches = documents[turn][Ev(turn)[round]]
  BY TurnIs
<1>2. \A e : Ev(e)' = Ev(e)
  BY <1>1 DEF Ev
<1>3. /\ documents \in Seq(Seq(Nat)) /\ Len(documents) \in Nat
      /\ DOMAIN documents = 1..Len(documents)
      /\ shown \in Seq(Card) /\ Len(shown) \in Nat /\ Len(shown) < MaxEvidence
  BY <1>1 DEF CountIInv, CountState, RoundState
<1>4. CountState'
  <2>1. Len(counted') = Len(documents')
    BY <1>1
  <2>2. ~(Len(counted') < Len(documents'))
    BY <1>3, <2>1, <1>1
  <2> QED BY <1>1, <1>2, <2>2 DEF CountIInv, CountState
<1>5. shown' \in Seq(Card) /\ Len(shown') \in Nat /\ Len(shown') <= MaxEvidence
  <2>1. CASE has
    <3>1. shown' = Append(shown, Count!Card) /\ Count!Card \in Card
      BY <1>1, <2>1
    <3>2. shown' \in Seq(Card) /\ Len(shown') = Len(shown) + 1
      BY <1>3, <3>1
    <3> QED BY <1>3, <3>2, CountSettings
  <2>2. CASE ~has
    BY <1>1, <1>3, <2>2, CountSettings
  <2> QED BY <2>1, <2>2
<1>6. RoundState'
  <2>1. /\ round' \in 1..(PerDocument + 1) /\ turn' \in Nat \ {0}
        /\ turn' <= Len(documents') \/ turn' = 1
        /\ round' = PerDocument + 1 => turn' = 1
    <3>1. PerDocument \in Nat /\ documents' = documents
      BY <1>1, CountSettings
    <3>2. CASE turn < Len(documents)
      <4>1. round' = round /\ turn' = turn + 1 /\ turn \in Nat /\ Len(documents') \in Nat
        BY <1>1, <1>3, <3>1, <3>2
      <4>2. round' <= PerDocument /\ round' \in Nat /\ round' > 0
        BY <1>1, <4>1
      <4>3. turn' <= Len(documents')
        BY <3>1, <3>2, <4>1, <1>3
      <4> QED BY <3>1, <4>1, <4>2, <4>3
    <3>3. CASE ~(turn < Len(documents))
      <4>1. round' = round + 1 /\ turn' = 1
        BY <1>1, <3>3
      <4> QED BY <1>1, <3>1, <4>1
    <3> QED BY <3>2, <3>3
  <2>2. /\ finished' \in BOOLEAN
        /\ ~finished' => Len(shown') < MaxEvidence
        /\ finished' => Len(shown') = MaxEvidence
    <3>1. finished' <=> Len(shown') >= MaxEvidence
      BY <1>1
    <3>2. finished' \in BOOLEAN
      BY <1>1
    <3> QED BY <1>5, <3>1, <3>2, CountSettings
  <2> QED BY <1>5, <2>1, <2>2 DEF RoundState
<1>7. ASSUME NEW d \in DOMAIN documents
      PROVE  /\ CardsFit(Kept(shown', CardOf(d)), d) /\ Len(Kept(shown', CardOf(d))) = Given(d)'
             /\ IsFiniteSet(Count!LabelsOf(d)') /\ Cardinality(Count!LabelsOf(d)') = Given(d)'
  <2> DEFINE mine == Kept(shown, CardOf(d))
  <2>1. /\ CardsFit(mine, d) /\ Len(mine) = Given(d)
        /\ IsFiniteSet(Count!LabelsOf(d)) /\ Cardinality(Count!LabelsOf(d)) = Given(d)
    BY DEF CountIInv, CardsState
  <2>2. /\ RoundsOf(turn) = round - 1 /\ RoundsOf(d) \in Nat
        /\ RoundsOf(d)' = IF d = turn THEN round ELSE RoundsOf(d)
    BY RoundsAre
  <2>3. Given(d)' = IF Len(Ev(d)) < RoundsOf(d)' THEN Len(Ev(d)) ELSE RoundsOf(d)'
    BY <1>2 DEF Given
  <2>4. Len(Ev(d)) \in Nat
    BY <1>3, EvKnown
  <2>5. CASE d = turn /\ has
    <3>1. Given(d)' = round /\ Given(d) = round - 1
      BY <1>1, <2>2, <2>3, <2>4, <2>5 DEF Given
    <3>2. /\ shown' = Append(shown, Count!Card) /\ Count!Card \in CardOf(d) /\ Count!Card \in Card
          /\ Count!Card.document = d /\ Count!Card.block = Ev(d)[round]
          /\ Count!Card.matches = documents[d][Ev(d)[round]]
      BY <1>1, <2>5
    <3>3. Kept(shown', CardOf(d)) = Append(mine, Count!Card)
      BY <1>3, <3>2, KeptOfAppend
    <3> DEFINE more == Kept(shown', CardOf(d))
    <3>4. mine \in Seq(Card) /\ Len(mine) = round - 1
      BY <2>1, <3>1 DEF CardsFit
    <3> HIDE DEF mine
    <3>5. /\ more \in Seq(Card) /\ Len(more) = round /\ more[round] = Count!Card
          /\ \A i \in 1..(round - 1) : more[i] = mine[i]
      <4>1. more = Append(mine, Count!Card) /\ Count!Card \in Card
        BY <3>2, <3>3
      <4> HIDE DEF more
      <4>2. Len(more) = (round - 1) + 1 /\ more \in Seq(Card) /\ more[(round - 1) + 1] = Count!Card
            /\ \A i \in 1..(round - 1) : more[i] = mine[i]
        <5>1. ASSUME NEW x \in Card
              PROVE  /\ Append(mine, x) \in Seq(Card)
                     /\ Len(Append(mine, x)) = Len(mine) + 1
                     /\ Append(mine, x)[Len(mine) + 1] = x
                     /\ \A i \in 1..Len(mine) : Append(mine, x)[i] = mine[i]
          BY <3>4
        <5>2. /\ Append(mine, Count!Card) \in Seq(Card)
              /\ Len(Append(mine, Count!Card)) = Len(mine) + 1
              /\ Append(mine, Count!Card)[Len(mine) + 1] = Count!Card
              /\ \A i \in 1..Len(mine) : Append(mine, Count!Card)[i] = mine[i]
          BY <4>1, <5>1, Zenon
        <5> QED BY <3>4, <4>1, <5>2, Zenon
      <4>3. (round - 1) + 1 = round
        BY <1>1
      <4> QED BY <4>2, <4>3, Zenon
    <3> HIDE DEF more
    <3>6. ASSUME NEW i \in 1..Len(more)
          PROVE  more[i].block = Ev(d)[i] /\ more[i].matches = documents[d][Ev(d)[i]]
      <4>1. CASE i = round
        BY <3>2, <3>5, <4>1
      <4>2. CASE i # round
        <5>1. i \in 1..(round - 1)
          BY <1>1, <3>5, <4>2
        <5>2. mine[i].block = Ev(d)[i] /\ mine[i].matches = documents[d][Ev(d)[i]]
          BY <2>1, <3>4, <5>1 DEF CardsFit
        <5> QED BY <3>5, <5>1, <5>2
      <4> QED BY <4>1, <4>2
    <3>7. CardsFit(more, d) /\ Len(more) = Given(d)'
      BY <3>1, <3>5, <3>6 DEF CardsFit
    <3>8. Count!LabelsOf(d)' = Count!LabelsOf(d) \cup {Len(shown) + 1}
      <4>1. /\ DOMAIN shown' = 1..(Len(shown) + 1) /\ DOMAIN shown = 1..Len(shown)
            /\ shown'[Len(shown) + 1] = Count!Card
            /\ \A i \in 1..Len(shown) : shown'[i] = shown[i]
        BY <1>3, <3>2
      <4>2. \A n : n \in 1..(Len(shown) + 1) <=> n \in 1..Len(shown) \/ n = Len(shown) + 1
        BY <1>3
      <4>3. /\ Count!LabelsOf(d)' = {n \in 1..(Len(shown) + 1) : shown'[n].document = d}
            /\ Count!LabelsOf(d) = {n \in 1..Len(shown) : shown[n].document = d}
        BY <4>1 DEF Count!LabelsOf
      <4>4. ASSUME NEW n
            PROVE  n \in Count!LabelsOf(d)' <=> n \in Count!LabelsOf(d) \cup {Len(shown) + 1}
        <5>1. CASE n = Len(shown) + 1
          BY <3>2, <4>1, <4>2, <4>3, <5>1, Zenon
        <5>2. CASE n # Len(shown) + 1
          BY <4>1, <4>2, <4>3, <5>2, Zenon
        <5> QED BY <5>1, <5>2
      <4> QED BY <4>4
    <3>9. Len(shown) + 1 \notin Count!LabelsOf(d)
      BY <1>3 DEF Count!LabelsOf
    <3>10. /\ IsFiniteSet(Count!LabelsOf(d)')
           /\ Cardinality(Count!LabelsOf(d)') = Cardinality(Count!LabelsOf(d)) + 1
      BY <2>1, <3>8, <3>9, FS_AddElement
    <3>11. Cardinality(Count!LabelsOf(d)') = Given(d)'
      BY <1>1, <2>1, <3>1, <3>10
    <3> QED BY <3>7, <3>10, <3>11 DEF more
  <2>6. CASE ~(d = turn /\ has)
    <3>1. Given(d)' = Given(d)
      BY <1>1, <2>2, <2>3, <2>4, <2>6 DEF Given
    <3>2. Kept(shown', CardOf(d)) = mine
      <4>1. CASE ~has
        BY <1>1, <4>1
      <4>2. CASE has /\ d # turn
        <5>1. shown' = Append(shown, Count!Card) /\ Count!Card \in Card /\ Count!Card.document = turn
          BY <1>1, <4>2
        <5>2. Count!Card \notin CardOf(d)
          BY <4>2, <5>1 DEF CardOf
        <5> QED BY <1>3, <5>1, <5>2, KeptOfAppend
      <4> QED BY <2>6, <4>1, <4>2
    <3>3. Count!LabelsOf(d)' = Count!LabelsOf(d)
      <4>1. CASE ~has
        BY <1>1, <4>1 DEF Count!LabelsOf
      <4>2. CASE has /\ d # turn
        <5>1. shown' = Append(shown, Count!Card) /\ Count!Card \in Card /\ Count!Card.document = turn
          BY <1>1, <4>2
        <5>2. /\ DOMAIN shown' = 1..(Len(shown) + 1) /\ DOMAIN shown = 1..Len(shown)
              /\ shown'[Len(shown) + 1] = Count!Card
              /\ \A i \in 1..Len(shown) : shown'[i] = shown[i]
          BY <1>3, <5>1
        <5> QED BY <1>3, <4>2, <5>1, <5>2 DEF Count!LabelsOf
      <4> QED BY <2>6, <4>1, <4>2
    <3> QED BY <2>1, <3>1, <3>2, <3>3
  <2> QED BY <2>5, <2>6
<1>8. CardsState'
  <2>1. \A cards, e : CardsFit(cards, e)' <=> CardsFit(cards, e)
    BY <1>1, <1>2 DEF CardsFit
  <2> QED BY <1>1, <1>7, <2>1 DEF CardsState
<1> QED BY <1>4, <1>6, <1>8 DEF CountIInv

LEMMA CountStands == ASSUME CountIInv, UNCHANGED countVars PROVE CountIInv'
<1>1. /\ documents' = documents /\ counted' = counted /\ round' = round /\ turn' = turn
      /\ shown' = shown /\ finished' = finished
  BY DEF countVars
<1>2. \A e : Ev(e)' = Ev(e)
  BY <1>1 DEF Ev
<1>3. CountState'
  BY <1>1, <1>2 DEF CountIInv, CountState
<1>4. RoundState'
  BY <1>1 DEF CountIInv, RoundState
<1>5. CardsState'
  <2>1. \A e : Given(e)' = Given(e) /\ Count!LabelsOf(e)' = Count!LabelsOf(e)
    BY <1>1, <1>2 DEF Given, RoundsOf, Count!LabelsOf
  <2>2. \A cards, e : CardsFit(cards, e)' <=> CardsFit(cards, e)
    BY <1>1, <1>2 DEF CardsFit
  <2>3. CardsState
    BY DEF CountIInv
  <2> QED BY <1>1, <2>1, <2>2, <2>3 DEF CardsState
<1> QED BY <1>3, <1>4, <1>5 DEF CountIInv

LEMMA CountMoves ==
  ASSUME [Next]_allVars
  PROVE  part' = part /\ (part = "count" => Count!Next \/ UNCHANGED countVars)
BY DEF Next, CallNext, PageStep, allVars, countVars

CountHolds == part = "count" => CountIInv

\* A document has a card for each round that it has had, as far as its evidence goes.
THEOREM CountInvariant == Spec => []CountHolds
<1>1. Init => CountHolds
  BY CountInit DEF Init, CountHolds
<1>2. CountHolds /\ [Next]_allVars => CountHolds'
  BY CountMoves, ScanStep, TakeTurnStep, RoundsOverStep, CountStands DEF CountHolds, Count!Next
<1> QED BY <1>1, <1>2, PTL DEF Spec

LEMMA CountIsShared == ASSUME CountIInv PROVE Count!EvidenceIsShared
<1> SUFFICES ASSUME finished PROVE
      /\ Len(shown) <= MaxEvidence
      /\ \A d \in DOMAIN documents :
           /\ Count!Cardinality(Count!LabelsOf(d)) <= PerDocument
           /\ Count!Cardinality(Count!LabelsOf(d)) < Len(counted[d].evidence) =>
                /\ \/ Count!Cardinality(Count!LabelsOf(d)) = PerDocument
                   \/ Len(shown) = MaxEvidence
                /\ \A e \in DOMAIN documents :
                     Count!Cardinality(Count!LabelsOf(e)) <= Count!Cardinality(Count!LabelsOf(d)) + 1
  BY DEF Count!EvidenceIsShared
<1>1. /\ documents \in Seq(Seq(Nat)) /\ counted \in Seq([count : Nat, evidence : Seq(Nat)])
      /\ Len(counted) <= Len(documents) /\ ~(Len(counted) < Len(documents))
      /\ Len(shown) <= MaxEvidence
      /\ Len(shown) = MaxEvidence \/ round = PerDocument + 1 \/ documents = <<>>
  BY DEF CountIInv, CountState, RoundState
<1>2. /\ DOMAIN documents = 1..Len(documents) /\ Len(counted) = Len(documents)
      /\ Len(documents) \in Nat
  BY <1>1
<1>3. \A d \in DOMAIN documents : counted[d].evidence = Ev(d)
  BY <1>2 DEF CountIInv, CountState
<1>4. /\ round \in 1..(PerDocument + 1) /\ turn \in Nat \ {0}
      /\ round = PerDocument + 1 => turn = 1
  BY DEF CountIInv, RoundState
<1>5. ASSUME NEW d \in DOMAIN documents
      PROVE  /\ Count!Cardinality(Count!LabelsOf(d)) = Given(d) /\ Given(d) \in Nat
             /\ Given(d) <= RoundsOf(d) /\ RoundsOf(d) \in Nat /\ RoundsOf(d) <= PerDocument
             /\ round - 1 <= RoundsOf(d) /\ RoundsOf(d) <= round
             /\ Given(d) < Len(Ev(d)) => Given(d) = RoundsOf(d)
             /\ round = PerDocument + 1 => RoundsOf(d) = PerDocument
  <2>1. Cardinality(Count!LabelsOf(d)) = Given(d)
    BY DEF CountIInv, CardsState
  <2>2. d \in Nat /\ d >= 1
    BY <1>2
  <2>3. /\ RoundsOf(d) \in Nat /\ RoundsOf(d) <= PerDocument
        /\ round - 1 <= RoundsOf(d) /\ RoundsOf(d) <= round
        /\ round = PerDocument + 1 => RoundsOf(d) = PerDocument
    BY <1>4, <2>2, CountSettings DEF RoundsOf
  <2>4. Len(Ev(d)) \in Nat
    BY <1>1, EvKnown
  <2>5. /\ Given(d) \in Nat /\ Given(d) <= RoundsOf(d)
        /\ Given(d) < Len(Ev(d)) => Given(d) = RoundsOf(d)
    BY <2>3, <2>4 DEF Given
  <2> QED BY <2>1, <2>3, <2>5, CountCount
<1>6. ASSUME NEW d \in DOMAIN documents, Given(d) < Len(counted[d].evidence)
      PROVE  /\ Given(d) = PerDocument \/ Len(shown) = MaxEvidence
             /\ \A e \in DOMAIN documents : Given(e) <= Given(d) + 1
  <2>1. Given(d) = RoundsOf(d)
    BY <1>3, <1>5, <1>6
  <2>2. documents # <<>>
    BY <1>2
  <2>3. Given(d) = PerDocument \/ Len(shown) = MaxEvidence
    BY <1>1, <1>5, <2>1, <2>2
  <2>4. ASSUME NEW e \in DOMAIN documents PROVE Given(e) <= Given(d) + 1
    <3>1. /\ Given(e) <= RoundsOf(e) /\ RoundsOf(e) <= round /\ round - 1 <= Given(d)
          /\ Given(e) \in Nat /\ Given(d) \in Nat /\ RoundsOf(e) \in Nat /\ round \in Nat
      BY <1>4, <1>5, <2>1
    <3> QED BY <3>1
  <2> QED BY <2>3, <2>4
<1>7. \A d \in DOMAIN documents : Given(d) <= PerDocument
  <2> SUFFICES ASSUME NEW d \in DOMAIN documents PROVE Given(d) <= PerDocument
    OBVIOUS
  <2>1. /\ Given(d) <= RoundsOf(d) /\ RoundsOf(d) <= PerDocument
        /\ Given(d) \in Nat /\ RoundsOf(d) \in Nat /\ PerDocument \in Nat
    BY <1>5, CountSettings
  <2> QED BY <2>1
<1>8. \A d \in DOMAIN documents : Count!Cardinality(Count!LabelsOf(d)) = Given(d)
  BY <1>5
<1> QED BY <1>1, <1>6, <1>7, <1>8

LEMMA CountLeadsToMatches == ASSUME CountIInv PROVE Count!LabelsLeadToMatches
<1>1. /\ documents \in Seq(Seq(Nat)) /\ counted \in Seq([count : Nat, evidence : Seq(Nat)])
      /\ Len(counted) <= Len(documents) /\ (finished => ~(Len(counted) < Len(documents)))
  BY DEF CountIInv, CountState
<1>2. /\ DOMAIN documents = 1..Len(documents) /\ (finished => Len(counted) = Len(documents))
  BY <1>1
<1>3. ASSUME NEW d \in DOMAIN documents
      PROVE  LET mine == Count!CardsOf(d)
             IN /\ \A i \in DOMAIN mine :
                     /\ documents[d][mine[i].block] > 0
                     /\ Count!Cardinality({b \in 1..mine[i].block : documents[d][b] > 0}) = i
                /\ (finished /\ Len(mine) = Len(counted[d].evidence)) =>
                     Count!Total([i \in DOMAIN mine |-> mine[i].matches]) = counted[d].count
  <2> DEFINE mine == Count!CardsOf(d)
  <2>1. mine = Kept(shown, CardOf(d))
    BY CountKept DEF Count!CardsOf, CardOf
  <2>2. CardsFit(mine, d) /\ Len(mine) = Given(d)
    BY <2>1 DEF CountIInv, CardsState
  <2> HIDE DEF mine
  <2>3. /\ mine \in Seq(Card) /\ Len(mine) \in Nat /\ DOMAIN mine = 1..Len(mine)
        /\ \A i \in 1..Len(mine) : /\ mine[i].block = Ev(d)[i]
                                   /\ mine[i].matches = documents[d][Ev(d)[i]]
    <3>1. mine \in Seq(Card)
      BY <2>2 DEF CardsFit
    <3>2. Len(mine) \in Nat /\ DOMAIN mine = 1..Len(mine)
      BY <3>1
    <3> QED BY <2>2, <3>1, <3>2 DEF CardsFit
  <2>4. /\ Len(Ev(d)) \in Nat
        /\ \A i \in 1..Len(Ev(d)) :
             /\ documents[d][Ev(d)[i]] > 0 /\ Cardinality(Matching(documents[d], Ev(d)[i])) = i
        /\ Total(MatchesAt(Ev(d), documents[d])) = Total(documents[d])
    BY <1>1, EvKnown
  <2>5. Len(mine) <= Len(Ev(d))
    <3>1. Given(d) = IF Len(Ev(d)) < RoundsOf(d) THEN Len(Ev(d)) ELSE RoundsOf(d)
      BY DEF Given
    <3>2. RoundsOf(d) \in Int
      <4>1. round \in 1..(PerDocument + 1)
        BY DEF CountIInv, RoundState
      <4>2. round \in Int
        BY <4>1
      <4> QED BY <4>2 DEF RoundsOf
    <3> QED BY <2>2, <2>4, <3>1, <3>2
  <2>6. ASSUME NEW i \in DOMAIN mine
        PROVE  /\ documents[d][mine[i].block] > 0
               /\ Count!Cardinality({b \in 1..mine[i].block : documents[d][b] > 0}) = i
    <3>1. i \in 1..Len(Ev(d)) /\ mine[i].block = Ev(d)[i]
      BY <2>3, <2>4, <2>5
    <3>2. Cardinality(Matching(documents[d], mine[i].block)) = i /\ documents[d][mine[i].block] > 0
      BY <2>4, <3>1
    <3> QED BY <3>2, CountCount DEF Matching
  <2>7. ASSUME finished, Len(mine) = Len(counted[d].evidence)
        PROVE  Count!Total([i \in DOMAIN mine |-> mine[i].matches]) = counted[d].count
    <3>1. counted[d].evidence = Ev(d) /\ counted[d].count = Total(documents[d])
      BY <1>2, <2>7 DEF CountIInv, CountState
    <3>2. DOMAIN mine = 1..Len(Ev(d))
      BY <2>3, <2>7, <3>1
    <3>3. [i \in DOMAIN mine |-> mine[i].matches] = MatchesAt(Ev(d), documents[d])
      BY <2>3, <3>2 DEF MatchesAt
    <3> QED BY <2>4, <3>1, <3>3, CountTotal
  <2> QED BY <2>6, <2>7 DEF mine
<1> QED BY <1>3 DEF Count!LabelsLeadToMatches

\* The sources of an exact count keep to their limits and are shared among the
\* documents; they are the first matching blocks of each, and if they are all
\* shown, they hold the matches that the answer counts.
THEOREM EvidenceSupportsItsCount == Spec => []EvidenceSupportsCount
<1>1. CountHolds => EvidenceSupportsCount
  BY CountIsShared, CountLeadsToMatches DEF CountHolds, EvidenceSupportsCount
<1> QED BY <1>1, CountInvariant, PTL
=============================================================================
