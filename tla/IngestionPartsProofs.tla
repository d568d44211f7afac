------------------------ MODULE IngestionPartsProofs ------------------------
(***************************************************************************)
(* What the parts of the ingestion promise, for all their inputs, as       *)
(* SequentialParts calls them: ChunkPacker, EmbeddingBatches, Normalizer   *)
(* and MarkdownParser.  Each has an inductive invariant (PackIInv and      *)
(* PackFresh, EmbedIInv, CleanIInv, ParseIInv), which says how far the     *)
(* part has come in what it promises of its result.                        *)
(***************************************************************************)
EXTENDS SequentialParts, ListsProofs

(***************************************************************************)
(* ChunkPacker: sums and selections of the parts of a draft.               *)
(***************************************************************************)
AnyPart == Pack!Part(BOOLEAN)

LEMMA PartFields ==
  /\ \A x \in AnyPart : x.piece \in Nat /\ x.tokens \in Nat /\ x.overlap \in BOOLEAN
  /\ \A x \in AnyPart : x \in Pack!Part({TRUE}) <=> x.overlap
  /\ \A x \in AnyPart : x \in Pack!Part({FALSE}) <=> ~x.overlap
BY DEF AnyPart, Pack!Part

TokenList(parts) == [i \in DOMAIN parts |-> parts[i].tokens]

LEMMA PackTotal == ASSUME NEW s PROVE Pack!Total(s) = Total(s)
BY DEF Pack!Total, Total, Pack!FoldLeft, FoldLeft, Pack!MapThenFoldSet, MapThenFoldSet,
       Pack!Max, Max

LEMMA PackKept == ASSUME NEW s, NEW w PROVE Pack!Kept(s, w) = Kept(s, w)
BY DEF Pack!Kept, Kept, Pack!FoldLeft, FoldLeft, Pack!MapThenFoldSet, MapThenFoldSet,
       Pack!Max, Max

LEMMA TokenListType ==
  ASSUME NEW parts \in Seq(AnyPart)
  PROVE  /\ TokenList(parts) \in Seq(Nat) /\ Len(TokenList(parts)) = Len(parts)
         /\ \A i \in 1..Len(parts) : TokenList(parts)[i] = parts[i].tokens
         /\ Pack!TokensOf(parts) = Total(TokenList(parts))
<1>1. TokenList(parts) \in Seq(Nat)
  BY PartFields DEF TokenList
<1>2. Pack!TokensOf(parts) = Total(TokenList(parts))
  BY PackTotal DEF Pack!TokensOf, TokenList
<1>3. /\ Len(TokenList(parts)) = Len(parts)
      /\ \A i \in 1..Len(parts) : TokenList(parts)[i] = parts[i].tokens
  BY DEF TokenList
<1> QED BY <1>1, <1>2, <1>3

LEMMA TokensOfNone == Pack!TokensOf(<<>>) = 0
<1>1. <<>> \in Seq(AnyPart) /\ TokenList(<<>>) = <<>>
  BY DEF TokenList
<1> QED BY <1>1, TokenListType, TotalOfNone

LEMMA TokensOfConcat ==
  ASSUME NEW s \in Seq(AnyPart), NEW t \in Seq(AnyPart)
  PROVE  /\ Pack!TokensOf(s) \in Nat
         /\ Pack!TokensOf(s \o t) = Pack!TokensOf(s) + Pack!TokensOf(t)
<1>1. TokenList(s \o t) = TokenList(s) \o TokenList(t)
  <2> DEFINE u == s \o t
  <2>1. /\ u \in Seq(AnyPart) /\ Len(u) = Len(s) + Len(t)
        /\ \A i \in 1..Len(s) : u[i] = s[i]
        /\ \A i \in 1..Len(t) : u[Len(s) + i] = t[i]
    OBVIOUS
  <2> HIDE DEF u
  <2>2. /\ TokenList(u) \in Seq(Nat) /\ Len(TokenList(u)) = Len(u)
        /\ \A i \in 1..Len(u) : TokenList(u)[i] = u[i].tokens
    BY <2>1, TokenListType
  <2>3. /\ TokenList(s) \in Seq(Nat) /\ Len(TokenList(s)) = Len(s)
        /\ \A i \in 1..Len(s) : TokenList(s)[i] = s[i].tokens
    BY TokenListType
  <2>4. /\ TokenList(t) \in Seq(Nat) /\ Len(TokenList(t)) = Len(t)
        /\ \A i \in 1..Len(t) : TokenList(t)[i] = t[i].tokens
    BY TokenListType
  <2>5. /\ Len(TokenList(u)) = Len(TokenList(s)) + Len(TokenList(t))
        /\ \A i \in 1..Len(TokenList(s)) : TokenList(u)[i] = TokenList(s)[i]
        /\ \A i \in 1..Len(TokenList(t)) :
             TokenList(u)[Len(TokenList(s)) + i] = TokenList(t)[i]
    <3>1. \A i \in 1..Len(s) : i \in 1..Len(u)
      BY <2>1
    <3>2. \A i \in 1..Len(t) : Len(s) + i \in 1..Len(u)
      BY <2>1
    <3>3. ASSUME NEW i \in 1..Len(s) PROVE TokenList(u)[i] = TokenList(s)[i]
      <4>1. TokenList(u)[i] = u[i].tokens /\ u[i] = s[i]
        BY <2>1, <2>2, <3>1
      <4> QED BY <2>3, <4>1
    <3>4. ASSUME NEW i \in 1..Len(t) PROVE TokenList(u)[Len(s) + i] = TokenList(t)[i]
      <4>1. TokenList(u)[Len(s) + i] = u[Len(s) + i].tokens /\ u[Len(s) + i] = t[i]
        BY <2>1, <2>2, <3>2
      <4> QED BY <2>4, <4>1
    <3>5. /\ Len(TokenList(u)) = Len(u) /\ Len(TokenList(s)) = Len(s)
          /\ Len(TokenList(t)) = Len(t) /\ Len(u) = Len(s) + Len(t)
      BY <2>1, <2>2, <2>3, <2>4
    <3> QED BY <3>3, <3>4, <3>5
  <2>6. TokenList(u) = TokenList(s) \o TokenList(t)
    BY <2>2, <2>3, <2>4, <2>5, ConcatByPlaces
  <2> QED BY <2>6 DEF u
<1>2. s \o t \in Seq(AnyPart)
  OBVIOUS
<1>3. /\ TokenList(s) \in Seq(Nat) /\ Pack!TokensOf(s) = Total(TokenList(s))
      /\ TokenList(t) \in Seq(Nat) /\ Pack!TokensOf(t) = Total(TokenList(t))
      /\ Pack!TokensOf(s \o t) = Total(TokenList(s \o t))
  BY <1>2, TokenListType
<1>4. Total(TokenList(s) \o TokenList(t)) = Total(TokenList(s)) + Total(TokenList(t))
  BY <1>3, TotalOfConcat
<1>5. Total(TokenList(s)) \in Nat
  BY <1>3, TotalIsNat
<1> QED BY <1>1, <1>3, <1>4, <1>5

LEMMA TokensOfOne ==
  ASSUME NEW x \in AnyPart
  PROVE  Pack!TokensOf(<<x>>) = x.tokens /\ x.tokens \in Nat
<1>1. <<x>> \in Seq(AnyPart) /\ TokenList(<<x>>) = Append(<<>>, x.tokens) /\ x.tokens \in Nat
  BY PartFields DEF TokenList
<1>2. Total(Append(<<>>, x.tokens)) = Total(<<>>) + x.tokens
  <2>1. <<>> \in Seq(Nat)
    OBVIOUS
  <2> QED BY <1>1, <2>1, TotalOfAppend
<1>3. Pack!TokensOf(<<x>>) = Total(TokenList(<<x>>))
  BY <1>1, TokenListType
<1> QED BY <1>1, <1>2, <1>3, TotalOfNone

LEMMA TokensOfAppend ==
  ASSUME NEW s \in Seq(AnyPart), NEW x \in AnyPart
  PROVE  Pack!TokensOf(Append(s, x)) = Pack!TokensOf(s) + x.tokens
<1>1. <<x>> \in Seq(AnyPart) /\ Append(s, x) = s \o <<x>>
  OBVIOUS
<1>2. Pack!TokensOf(s \o <<x>>) = Pack!TokensOf(s) + Pack!TokensOf(<<x>>)
  BY <1>1, TokensOfConcat
<1> QED BY <1>1, <1>2, TokensOfOne

LEMMA FreshOfNone == Pack!FreshOf(<<>>) = <<>>
BY PackKept, KeptOfNone DEF Pack!FreshOf

LEMMA FreshOfAppend ==
  ASSUME NEW s \in Seq(AnyPart), NEW x \in AnyPart
  PROVE  /\ Pack!FreshOf(s) \in Seq(Nat)
         /\ Pack!FreshOf(Append(s, x)) =
              IF x.overlap THEN Pack!FreshOf(s) ELSE Append(Pack!FreshOf(s), x.piece)
<1> DEFINE wanted == Pack!Part({FALSE})
           f == Kept(s, wanted)
<1>1. x \in wanted <=> ~x.overlap
  BY PartFields
<1>2. Kept(Append(s, x), wanted) = IF x \in wanted THEN Append(f, x) ELSE f
  <2> HIDE DEF wanted
  <2> QED BY KeptOfAppend
<1>3. f \in Seq(AnyPart)
  <2>1. f \in Seq(AnyPart \cap wanted)
    <3> HIDE DEF wanted
    <3> QED BY KeptIsWanted
  <2> HIDE DEF f, wanted
  <2> QED BY <2>1
<1>4. /\ Pack!FreshOf(s) = [i \in DOMAIN f |-> f[i].piece]
      /\ Pack!FreshOf(Append(s, x)) = IF x.overlap THEN [i \in DOMAIN f |-> f[i].piece]
                 ELSE [i \in DOMAIN Append(f, x) |-> Append(f, x)[i].piece]
  BY <1>1, <1>2, PackKept DEF Pack!FreshOf
<1> HIDE DEF f, wanted
<1>5. [i \in DOMAIN f |-> f[i].piece] \in Seq(Nat)
  <2>1. \A i \in 1..Len(f) : f[i] \in AnyPart
    BY <1>3
  <2>2. \A i \in 1..Len(f) : f[i].piece \in Nat
    BY <2>1, PartFields
  <2> QED BY <1>3, <2>2
<1>6. [i \in DOMAIN Append(f, x) |-> Append(f, x)[i].piece]
        = Append([i \in DOMAIN f |-> f[i].piece], x.piece)
  BY <1>3, PartFields
<1> QED BY <1>4, <1>5, <1>6

LEMMA FreshOfOverlap ==
  ASSUME NEW s \in Seq(AnyPart), \A i \in 1..Len(s) : s[i].overlap
  PROVE  Pack!FreshOf(s) = <<>>
<1> DEFINE wanted == Pack!Part({FALSE})
           overlap == Pack!Part({TRUE})
           f == Kept(s, wanted)
<1>1. s \in Seq(overlap)
  BY PartFields
<1>2. f \in Seq(overlap \cap wanted)
  <2> HIDE DEF wanted, overlap
  <2> QED BY <1>1, KeptIsWanted
<1>3. overlap \cap wanted = {}
  BY DEF Pack!Part
<1>4. f = <<>>
  <2> HIDE DEF f, wanted, overlap
  <2> QED BY <1>2, <1>3
<1> QED BY <1>4, PackKept DEF Pack!FreshOf

(***************************************************************************)
(* ChunkPacker: the overlap.                                               *)
(***************************************************************************)
LEMMA LastPartsAre ==
  ASSUME NEW parts \in Seq(AnyPart), NEW k \in 0..Len(parts)
  PROVE  LET last == Pack!LastParts(parts, k)
         IN /\ last \in Seq(AnyPart) /\ Len(last) = k
            /\ \A i \in 1..k : LET before == parts[Len(parts) - k + i]
                               IN /\ last[i].piece = before.piece
                                  /\ last[i].tokens = before.tokens
                                  /\ last[i].overlap
<1> DEFINE last == Pack!LastParts(parts, k)
           at(i) == parts[Len(parts) - k + i]
<1>1. \A x \in AnyPart : /\ [x EXCEPT !.overlap = TRUE] \in AnyPart
                         /\ [x EXCEPT !.overlap = TRUE].piece = x.piece
                         /\ [x EXCEPT !.overlap = TRUE].tokens = x.tokens
                         /\ [x EXCEPT !.overlap = TRUE].overlap
  BY DEF AnyPart, Pack!Part
<1>2. last = [i \in 1..k |-> [at(i) EXCEPT !.overlap = TRUE]]
  BY DEF Pack!LastParts
<1>3. k \in Nat /\ \A i \in 1..k : at(i) \in AnyPart
  OBVIOUS
<1> HIDE DEF last, at
<1>4. last \in Seq(AnyPart) /\ Len(last) = k
  BY <1>1, <1>2, <1>3
<1>5. ASSUME NEW i \in 1..k
      PROVE  last[i].piece = at(i).piece /\ last[i].tokens = at(i).tokens /\ last[i].overlap
  BY <1>1, <1>2, <1>3
<1> QED BY <1>4, <1>5 DEF last, at

\* The whole pieces of the overlap fit the budget.
LEMMA WholePartsFit ==
  ASSUME NEW parts \in Seq(AnyPart), NEW budget \in Nat
  PROVE  \E k \in 0..Len(parts) : /\ Pack!WholeParts(parts, budget) = Pack!LastParts(parts, k)
                                  /\ Pack!TokensOf(Pack!LastParts(parts, k)) <= budget
<1> DEFINE fits == {k \in 0..Len(parts) : Pack!TokensOf(Pack!LastParts(parts, k)) <= budget}
           Longest(k) == \A j \in fits : j <= k
           chosen == CHOOSE k \in fits : Longest(k)
<1>1. 0 \in fits
  <2>1. Pack!LastParts(parts, 0) = <<>>
    BY LastPartsAre
  <2> QED BY <2>1, TokensOfNone
<1>2. \E k \in fits : Longest(k)
  <2>1. Len(parts) \in Nat /\ fits \in SUBSET (0..Len(parts)) /\ fits # {}
    BY <1>1
  <2> HIDE DEF fits
  <2> QED BY <2>1, GreatestNumber
<1>3. chosen \in fits
  <2> HIDE DEF fits, Longest
  <2> QED BY <1>2
<1>4. Pack!WholeParts(parts, budget) = Pack!LastParts(parts, chosen)
  BY DEF Pack!WholeParts
<1> HIDE DEF chosen
<1> QED BY <1>3, <1>4

\* An overlap is an end of the draft within its budget, its first part perhaps cut.
LEMMA OverlapIsEnd ==
  ASSUME NEW parts \in Seq(AnyPart), \A i \in 1..Len(parts) : parts[i].tokens > 0,
         NEW budget \in Nat, NEW tail \in Pack!OverlapTails(parts, budget)
  PROVE  /\ tail \in Seq(AnyPart) /\ Len(tail) <= Len(parts)
         /\ Pack!TokensOf(tail) <= budget
         /\ \A i \in 1..Len(tail) :
              LET before == parts[Len(parts) - Len(tail) + i]
              IN /\ tail[i].piece = before.piece
                 /\ i > 1 => tail[i].tokens = before.tokens
                 /\ tail[i].overlap /\ tail[i].tokens > 0
<1> DEFINE whole == Pack!WholeParts(parts, budget)
           left == budget - Pack!TokensOf(whole)
<1>1. PICK k \in 0..Len(parts) : /\ whole = Pack!LastParts(parts, k)
                                 /\ Pack!TokensOf(Pack!LastParts(parts, k)) <= budget
  BY WholePartsFit
<1> HIDE DEF whole
<1>2. /\ whole \in Seq(AnyPart) /\ Len(whole) = k
      /\ \A i \in 1..k : /\ whole[i].piece = parts[Len(parts) - k + i].piece
                         /\ whole[i].tokens = parts[Len(parts) - k + i].tokens
                         /\ whole[i].overlap
  BY <1>1, LastPartsAre
<1>3. \A i \in 1..k : parts[Len(parts) - k + i].tokens > 0
  <2>1. \A i \in 1..k : Len(parts) - k + i \in 1..Len(parts)
    OBVIOUS
  <2> QED BY <2>1
<1>4. CASE tail = whole
  <2>1. tail \in Seq(AnyPart) /\ Len(tail) = k /\ Pack!TokensOf(tail) <= budget
    BY <1>1, <1>2, <1>4
  <2>2. ASSUME NEW i \in 1..Len(tail)
        PROVE  LET before == parts[Len(parts) - k + i]
               IN /\ tail[i].piece = before.piece
                  /\ i > 1 => tail[i].tokens = before.tokens
                  /\ tail[i].overlap /\ tail[i].tokens > 0
    BY <1>2, <1>3, <1>4, <2>1
  <2>3. k <= Len(parts)
    OBVIOUS
  <2> QED BY <2>1, <2>2, <2>3
<1>5. CASE k # Len(parts) /\ \E n \in 1..left : tail = Pack!CutPart(parts, Len(whole), n) \o whole
  <2>1. PICK n \in 1..left : tail = Pack!CutPart(parts, Len(whole), n) \o whole
    BY <1>5
  <2> DEFINE first == [piece |-> parts[Len(parts) - k].piece, tokens |-> n, overlap |-> TRUE]
  <2>2. Pack!TokensOf(whole) \in Nat /\ n \in Nat /\ n > 0 /\ n + Pack!TokensOf(whole) <= budget
    <3>1. <<>> \in Seq(AnyPart)
      OBVIOUS
    <3>2. Pack!TokensOf(whole) \in Nat
      BY <1>2, <3>1, TokensOfConcat
    <3> QED BY <3>2
  <2>3. first \in AnyPart
    <3>1. parts[Len(parts) - k] \in AnyPart
      BY <1>5
    <3> QED BY <2>2, <3>1, PartFields DEF AnyPart, Pack!Part
  <2>4. tail = <<first>> \o whole
    BY <1>2, <2>1 DEF Pack!CutPart
  <2> DEFINE head == <<first>>
  <2>5. first.piece = parts[Len(parts) - k].piece /\ first.tokens = n /\ first.overlap
    OBVIOUS
  <2> HIDE DEF first
  <2>6. head \in Seq(AnyPart) /\ Len(head) = 1 /\ head[1] = first
    BY <2>3
  <2>7. Pack!TokensOf(head) = n
    BY <2>3, <2>5, TokensOfOne
  <2>8. Pack!TokensOf(tail) = n + Pack!TokensOf(whole)
    <3> HIDE DEF head
    <3>1. Pack!TokensOf(head \o whole) = Pack!TokensOf(head) + Pack!TokensOf(whole)
      BY <1>2, <2>6, TokensOfConcat
    <3> QED BY <2>4, <2>7, <3>1 DEF head
  <2> HIDE DEF head
  <2>9. /\ tail \in Seq(AnyPart) /\ Len(tail) = k + 1 /\ tail[1] = first
        /\ \A i \in 2..(k + 1) : tail[i] = whole[i - 1]
    BY <1>2, <2>4, <2>6 DEF head
  <2>10. k + 1 <= Len(parts)
    BY <1>5
  <2>11. ASSUME NEW i \in 1..Len(tail)
         PROVE  LET before == parts[Len(parts) - Len(tail) + i]
                IN /\ tail[i].piece = before.piece
                   /\ i > 1 => tail[i].tokens = before.tokens
                   /\ tail[i].overlap /\ tail[i].tokens > 0
    <3>1. CASE i = 1
      <4>1. Len(parts) - Len(tail) + 1 = Len(parts) - k
        BY <2>9
      <4> QED BY <2>2, <2>5, <2>9, <3>1, <4>1
    <3>2. CASE i > 1
      <4>1. i - 1 \in 1..k /\ Len(parts) - Len(tail) + i = Len(parts) - k + (i - 1)
        <5>1. Len(tail) = k + 1 /\ k \in Int /\ Len(parts) \in Int /\ i \in Int
          BY <2>9
        <5> QED BY <3>2, <5>1
      <4>2. tail[i] = whole[i - 1]
        BY <2>9, <3>2
      <4>3. /\ whole[i - 1].piece = parts[Len(parts) - k + (i - 1)].piece
            /\ whole[i - 1].tokens = parts[Len(parts) - k + (i - 1)].tokens
            /\ whole[i - 1].overlap /\ parts[Len(parts) - k + (i - 1)].tokens > 0
        BY <1>2, <1>3, <4>1
      <4> QED BY <4>1, <4>2, <4>3
    <3>3. i = 1 \/ i > 1
      BY <2>9
    <3> QED BY <3>1, <3>2, <3>3
  <2> QED BY <2>2, <2>8, <2>9, <2>10, <2>11
<1>6. tail = whole \/ (k # Len(parts) /\ \E n \in 1..left :
                          tail = Pack!CutPart(parts, Len(whole), n) \o whole)
  BY <1>2 DEF Pack!OverlapTails, whole
<1> QED BY <1>4, <1>5, <1>6

(***************************************************************************)
(* ChunkPacker: the inductive invariant.                                   *)
(***************************************************************************)
PackState ==
  /\ config \in Settings /\ Pack!Accepted(config)
  /\ pieces \in Seq([tokens : 1..config.target, section : STRING])
  /\ index \in 1..(Len(pieces) + 1)
  /\ covered \in Seq(Nat)

\* A draft is consecutive pieces of one section, of which the first may be cut; its
\* first k parts are overlap.
Passage(d, k) ==
  /\ d \in Seq(AnyPart) /\ k \in 0..Len(d)
  /\ \A i \in 1..Len(d) :
       /\ d[i].piece \in 1..Len(pieces) /\ d[i].tokens > 0
       /\ d[i].piece = d[1].piece + i - 1
       /\ pieces[d[i].piece].section = pieces[d[1].piece].section
       /\ i > 1 => d[i].tokens = pieces[d[i].piece].tokens
       /\ d[i].overlap <=> i <= k
  /\ Pack!TokensOf(SubSeq(d, 1, k)) <= config.overlap
  /\ Pack!TokensOf(d) <= config.max

PackIInv ==
  /\ PackState
  /\ \E k \in Nat : Passage(current, k)
  /\ current # <<>> => current[Len(current)].piece = index - 1
  /\ \E k \in Nat : Passage(draft, k)
  /\ Pack!EveryPieceOnce

\* Where the overlap is smaller than the minimum, a draft of overlap alone takes
\* the piece that it was made for.
PackFresh ==
  /\ (current # <<>> /\ current[Len(current)].overlap) => Pack!SameGroup /\ Pack!Fits
  /\ draft # <<>> => ~draft[Len(draft)].overlap

\* What the constructor has checked of the settings.
LEMMA PackSettings ==
  ASSUME PackState
  PROVE  /\ config.target \in Nat /\ config.max \in Nat /\ config.min \in Nat
         /\ config.overlap \in Nat /\ config.target <= config.max
         /\ \A i \in 1..Len(pieces) : pieces[i].tokens \in 1..config.target
         /\ Len(pieces) \in Nat
<1>1. config \in [target : Nat, max : Nat, min : Nat, overlap : Nat]
  BY PartsAssumption DEF PackState, Pack!PackerAssumption
<1>2. config.target <= config.max
  BY DEF PackState, Pack!Accepted
<1>3. ASSUME NEW i \in 1..Len(pieces) PROVE pieces[i].tokens \in 1..config.target
  <2> DEFINE Piece == [tokens : 1..config.target, section : STRING]
  <2>1. pieces \in Seq(Piece)
    BY DEF PackState
  <2>2. pieces[i] \in Piece
    <3> HIDE DEF Piece
    <3> QED BY <2>1
  <2> QED BY <2>2
<1>4. Len(pieces) \in Nat
  BY DEF PackState
<1> QED BY <1>1, <1>2, <1>3, <1>4

LEMMA NoPassage == ASSUME PackState PROVE Passage(<<>>, 0)
<1> DEFINE none == <<>>
<1>1. SubSeq(none, 1, 0) = none /\ none \in Seq(AnyPart) /\ Len(none) = 0
  OBVIOUS
<1>2. Pack!TokensOf(none) = 0 /\ config.overlap \in Nat /\ config.max \in Nat
  BY PackSettings, TokensOfNone
<1> HIDE DEF none
<1>3. 0 \in 0..Len(none) /\ 1..Len(none) = {}
  BY <1>1
<1>4. Pack!TokensOf(SubSeq(none, 1, 0)) <= config.overlap /\ Pack!TokensOf(none) <= config.max
  <2>1. Pack!TokensOf(SubSeq(none, 1, 0)) = Pack!TokensOf(none)
    BY <1>1, Zenon
  <2> QED BY <1>2, <2>1
<1>5. Passage(none, 0)
  BY <1>1, <1>3, <1>4 DEF Passage
<1> QED BY <1>5 DEF none

LEMMA NewPartIs ==
  ASSUME PackState, index <= Len(pieces)
  PROVE  /\ Pack!NewPart \in AnyPart /\ Pack!NewPart.piece = index
         /\ Pack!NewPart.tokens = pieces[index].tokens /\ ~Pack!NewPart.overlap
         /\ Pack!NewPart.tokens \in 1..config.target
<1>1. index \in 1..Len(pieces) /\ index \in Nat
  BY DEF PackState
<1>2. pieces[index].tokens \in 1..config.target
  BY <1>1, PackSettings
<1>3. pieces[index].tokens \in Nat
  BY <1>2, PackSettings
<1> QED BY <1>1, <1>2, <1>3 DEF Pack!NewPart, AnyPart, Pack!Part

\* A draft that begins with a piece is a passage.
LEMMA PassageOfOne ==
  ASSUME PackState, index <= Len(pieces)
  PROVE  Passage(<<Pack!NewPart>>, 0)
<1> DEFINE x == Pack!NewPart
           d == <<x>>
<1>1. /\ x \in AnyPart /\ x.piece = index /\ x.tokens = pieces[index].tokens /\ ~x.overlap
      /\ x.tokens \in 1..config.target
  BY NewPartIs
<1> HIDE DEF x
<1>2. Pack!TokensOf(d) = x.tokens
  BY <1>1, TokensOfOne
<1>3. d \in Seq(AnyPart) /\ Len(d) = 1 /\ d[1] = x /\ SubSeq(d, 1, 0) = <<>>
  BY <1>1
<1> HIDE DEF d
<1>4. index \in 1..Len(pieces)
  BY DEF PackState
<1>5. Passage(d, 0)
  <2>1. Pack!TokensOf(SubSeq(d, 1, 0)) <= config.overlap
    <3>1. config.overlap \in Nat
      BY PackSettings
    <3>2. Pack!TokensOf(SubSeq(d, 1, 0)) = 0
      BY <1>3, TokensOfNone, Zenon
    <3> QED BY <3>1, <3>2
  <2>2. Pack!TokensOf(d) <= config.max
    BY <1>1, <1>2, PackSettings
  <2>3. \A i \in 1..Len(d) : i = 1
    BY <1>3
  <2>4. x.tokens > 0 /\ index + 1 - 1 = index /\ 0 \in 0..Len(d) /\ ~(1 <= 0)
    BY <1>1, <1>3, <1>4
  <2> QED BY <1>1, <1>3, <1>4, <2>1, <2>2, <2>3, <2>4 DEF Passage
<1> QED BY <1>5 DEF d, x

\* A passage that the next piece of its section joins within the maximum is one.
LEMMA PassageOfMore ==
  ASSUME PackState, NEW d, NEW k, Passage(d, k), d # <<>>, d[Len(d)].piece = index - 1,
         index <= Len(pieces), pieces[d[Len(d)].piece].section = pieces[index].section,
         Pack!TokensOf(d) + pieces[index].tokens <= config.max
  PROVE  Passage(Append(d, Pack!NewPart), k)
<1> DEFINE x == Pack!NewPart
           e == Append(d, x)
<1>1. /\ x \in AnyPart /\ x.piece = index /\ x.tokens = pieces[index].tokens /\ ~x.overlap
      /\ x.tokens \in 1..config.target
  BY NewPartIs
<1> HIDE DEF x
<1>2. d \in Seq(AnyPart) /\ k \in 0..Len(d) /\ Len(d) \in Nat /\ Len(d) >= 1
  BY DEF Passage
<1>3. /\ e \in Seq(AnyPart) /\ Len(e) = Len(d) + 1 /\ e[Len(e)] = x
      /\ \A i \in 1..Len(d) : e[i] = d[i]
      /\ SubSeq(e, 1, k) = SubSeq(d, 1, k)
  BY <1>1, <1>2
<1>4. Pack!TokensOf(e) = Pack!TokensOf(d) + x.tokens
  BY <1>1, <1>2, TokensOfAppend
<1> HIDE DEF e
<1>5. index \in 1..Len(pieces)
  BY DEF PackState
<1>6. e[1] = d[1]
  BY <1>2, <1>3
<1>7. ASSUME NEW i \in 1..Len(e)
      PROVE  /\ e[i].piece \in 1..Len(pieces) /\ e[i].tokens > 0
             /\ e[i].piece = e[1].piece + i - 1
             /\ pieces[e[i].piece].section = pieces[e[1].piece].section
             /\ i > 1 => e[i].tokens = pieces[e[i].piece].tokens
             /\ e[i].overlap <=> i <= k
  <2>1. CASE i \in 1..Len(d)
    BY <1>3, <1>6, <2>1 DEF Passage
  <2>2. CASE i = Len(d) + 1
    <3>1. e[i] = x
      BY <1>3, <2>2
    <3>2. Len(d) \in 1..Len(d)
      BY <1>2
    <3>3. /\ d[Len(d)].piece = d[1].piece + Len(d) - 1
          /\ pieces[d[Len(d)].piece].section = pieces[d[1].piece].section
      BY <3>2 DEF Passage
    <3>4. d[1].piece \in Int
      <4>1. 1 \in 1..Len(d)
        BY <1>2
      <4> QED BY <4>1 DEF Passage
    <3>5. index = d[1].piece + i - 1
      <4>1. index \in Int /\ Len(d) \in Int
        BY <1>2, <1>5
      <4>2. index - 1 = d[1].piece + Len(d) - 1
        BY <3>3
      <4> QED BY <2>2, <3>4, <4>1, <4>2
    <3>6. ~(i <= k)
      BY <1>2, <2>2
    <3>7. pieces[index].section = pieces[e[1].piece].section
      BY <1>5, <1>6, <3>3
    <3>8. x.overlap <=> FALSE
      BY <1>1
    <3>9. /\ x.piece = index /\ x.tokens > 0 /\ x.tokens = pieces[index].tokens
          /\ index \in 1..Len(pieces)
      BY <1>1, <1>5
    <3> QED BY <1>6, <3>1, <3>5, <3>6, <3>7, <3>8, <3>9
  <2> QED BY <1>2, <1>3, <2>1, <2>2
<1>8. /\ Pack!TokensOf(SubSeq(e, 1, k)) <= config.overlap /\ Pack!TokensOf(e) <= config.max
      /\ k \in 0..Len(e)
  <2>1. Pack!TokensOf(SubSeq(d, 1, k)) <= config.overlap
    BY DEF Passage
  <2>2. k \in 0..Len(e)
    BY <1>2, <1>3
  <2> QED BY <1>1, <1>3, <1>4, <2>1, <2>2
<1>9. Passage(e, k)
  BY <1>3, <1>7, <1>8 DEF Passage
<1> QED BY <1>9 DEF e, x

\* The overlap that is cut from a passage is a passage, up to the same piece.
LEMMA PassageOfTail ==
  ASSUME PackState, NEW d, NEW k, Passage(d, k), d # <<>>,
         NEW tail \in Pack!OverlapTails(d, config.overlap), Pack!TokensOf(tail) <= config.max
  PROVE  /\ Passage(tail, Len(tail))
         /\ tail # <<>> => tail[Len(tail)].piece = d[Len(d)].piece
<1> DEFINE n == Len(d)
           m == Len(tail)
<1>1. d \in Seq(AnyPart) /\ n \in Nat /\ config.overlap \in Nat /\ \A i \in 1..n : d[i].tokens > 0
  BY PackSettings DEF Passage
<1>2. /\ tail \in Seq(AnyPart) /\ m <= n
      /\ Pack!TokensOf(tail) <= config.overlap
      /\ \A i \in 1..m : LET before == d[n - m + i]
                         IN /\ tail[i].piece = before.piece
                            /\ i > 1 => tail[i].tokens = before.tokens
                            /\ tail[i].overlap /\ tail[i].tokens > 0
  BY <1>1, OverlapIsEnd
<1>3. m \in Nat /\ SubSeq(tail, 1, m) = tail
  BY <1>2
<1>4. \A i \in 1..m : n - m + i \in 1..n /\ (i > 1 => n - m + i > 1)
  BY <1>1, <1>2, <1>3
<1>5. \A j \in 1..n : /\ d[j].piece \in 1..Len(pieces)
                      /\ d[j].piece = d[1].piece + j - 1
                      /\ pieces[d[j].piece].section = pieces[d[1].piece].section
                      /\ j > 1 => d[j].tokens = pieces[d[j].piece].tokens
  BY DEF Passage
<1> HIDE DEF n, m
<1>6. ASSUME NEW i \in 1..m
      PROVE  /\ tail[i].piece \in 1..Len(pieces) /\ tail[i].tokens > 0
             /\ tail[i].piece = tail[1].piece + i - 1
             /\ pieces[tail[i].piece].section = pieces[tail[1].piece].section
             /\ i > 1 => tail[i].tokens = pieces[tail[i].piece].tokens
             /\ tail[i].overlap <=> i <= m
  <2>1. 1 \in 1..m /\ 1 \in 1..n /\ i \in Int
    BY <1>1, <1>2, <1>3
  <2>2. d[1].piece \in Int
    BY <1>5, <2>1
  <2>3. tail[1].piece = d[1].piece + (n - m + 1) - 1
    BY <1>2, <1>4, <1>5, <2>1
  <2>4. tail[i].piece = d[1].piece + (n - m + i) - 1
    <3>1. tail[i].piece = d[n - m + i].piece
      BY <1>2
    <3>2. n - m + i \in 1..n
      BY <1>4
    <3>3. d[n - m + i].piece = d[1].piece + (n - m + i) - 1
      BY <1>5, <3>2
    <3> QED BY <3>1, <3>3
  <2>5. tail[i].piece = tail[1].piece + i - 1
    BY <1>1, <1>3, <2>1, <2>2, <2>3, <2>4
  <2>6. pieces[tail[i].piece].section = pieces[tail[1].piece].section
    <3>1. \A j \in 1..m : pieces[tail[j].piece].section = pieces[d[1].piece].section
      <4> SUFFICES ASSUME NEW j \in 1..m
                   PROVE  pieces[tail[j].piece].section = pieces[d[1].piece].section
        OBVIOUS
      <4>1. tail[j].piece = d[n - m + j].piece /\ n - m + j \in 1..n
        BY <1>2, <1>4
      <4> QED BY <1>5, <4>1
    <3> QED BY <2>1, <3>1
  <2> QED BY <1>2, <1>4, <1>5, <2>5, <2>6
<1>7. Passage(tail, m)
  <2>1. m \in 0..Len(tail)
    BY <1>3 DEF m
  <2>2. Len(tail) = m
    BY DEF m
  <2> QED BY <1>2, <1>3, <1>6, <2>1, <2>2 DEF Passage
<1>8. tail # <<>> => tail[m].piece = d[n].piece
  <2>1. tail # <<>> => m \in 1..m /\ n - m + m = n
    BY <1>1, <1>2, <1>3 DEF m
  <2> QED BY <1>2, <2>1
<1> QED BY <1>7, <1>8 DEF n, m

\* A draft and the pieces covered are lists of the pieces packed so far.
LEMMA PassageIsParts ==
  ASSUME PackIInv
  PROVE  /\ current \in Seq(AnyPart) /\ draft \in Seq(AnyPart) /\ covered \in Seq(Nat)
         /\ Pack!FreshOf(current) \in Seq(Nat) /\ index \in Nat
         /\ covered \o Pack!FreshOf(current) = [i \in 1..(index - 1) |-> i]
<1>1. current \in Seq(AnyPart) /\ draft \in Seq(AnyPart)
  BY DEF PackIInv, Passage
<1>2. Pack!FreshOf(current) \in Seq(Nat)
  <2>1. \A x \in AnyPart : Pack!FreshOf(current) \in Seq(Nat)
    BY <1>1, FreshOfAppend
  <2>2. [piece |-> 0, tokens |-> 0, overlap |-> TRUE] \in AnyPart
    BY DEF AnyPart, Pack!Part
  <2> QED BY <2>1, <2>2
<1>3. covered \in Seq(Nat) /\ index \in Nat
  BY DEF PackIInv, PackState
<1>4. covered \o Pack!FreshOf(current) = [i \in 1..(index - 1) |-> i]
  BY DEF PackIInv, Pack!EveryPieceOnce
<1> QED BY <1>1, <1>2, <1>3, <1>4

\* A group is continued by pieces of its own section.
LEMMA SectionsAgree ==
  ASSUME PackState, Pack!SameGroup, current \in Seq(AnyPart)
  PROVE  /\ index <= Len(pieces) /\ current # <<>>
         /\ pieces[current[Len(current)].piece].section = pieces[index].section
BY DEF Pack!SameGroup, Pack!Last

LEMMA PackInit == ASSUME Pack!Init PROVE PackIInv /\ PackFresh
<1>1. PackState
  <2>1. config \in Settings /\ Pack!Accepted(config) /\ index = 1 /\ covered = <<>>
    BY DEF Pack!Init
  <2>2. pieces \in Documents /\ \A i \in DOMAIN pieces : pieces[i].tokens \in 1..config.target
    BY DEF Pack!Init
  <2>3. pieces \in Seq([tokens : Nat, section : STRING])
    BY <2>2, PartsAssumption DEF Pack!PackerAssumption
  <2>4. pieces \in Seq([tokens : 1..config.target, section : STRING])
    <3> DEFINE Piece == [tokens : Nat, section : STRING]
               Small == [tokens : 1..config.target, section : STRING]
    <3>1. \A x \in Piece : x.tokens \in 1..config.target => x \in Small
      OBVIOUS
    <3>2. pieces \in Seq(Piece)
      BY <2>3
    <3> HIDE DEF Piece, Small
    <3>3. pieces \in Seq(Small)
      BY <2>2, <3>1, <3>2
    <3> QED BY <3>3 DEF Small
  <2>5. index \in 1..(Len(pieces) + 1) /\ covered \in Seq(Nat)
    BY <2>1, <2>3
  <2> QED BY <2>1, <2>4, <2>5 DEF PackState
<1>2. current = <<>> /\ draft = <<>> /\ index = 1 /\ covered = <<>>
  BY DEF Pack!Init
<1>3. Passage(current, 0) /\ Passage(draft, 0)
  BY <1>1, <1>2, NoPassage
<1>4. Pack!EveryPieceOnce
  <2>1. covered \o Pack!FreshOf(current) = <<>>
    BY <1>2, FreshOfNone
  <2>2. [i \in 1..(index - 1) |-> i] = <<>>
    BY <1>2
  <2> QED BY <2>1, <2>2 DEF Pack!EveryPieceOnce
<1> QED BY <1>1, <1>2, <1>3, <1>4 DEF PackIInv, PackFresh

\* A step that takes the next piece.
LEMMA PieceTaken ==
  ASSUME PackIInv, index <= Len(pieces), current' = Append(current, Pack!NewPart),
         index' = index + 1, config' = config, pieces' = pieces, draft' = draft,
         covered' = covered, NEW k \in Nat, Passage(Append(current, Pack!NewPart), k)
  PROVE  PackIInv'
<1> DEFINE x == Pack!NewPart
           next1 == Append(current, x)
<1>1. /\ current \in Seq(AnyPart) /\ covered \in Seq(Nat)
      /\ Pack!FreshOf(current) \in Seq(Nat) /\ index \in Nat
      /\ covered \o Pack!FreshOf(current) = [i \in 1..(index - 1) |-> i]
  BY PassageIsParts
<1>2. x \in AnyPart /\ x.piece = index /\ ~x.overlap
  BY NewPartIs DEF PackIInv
<1> HIDE DEF x
<1>3. PackState'
  BY DEF PackIInv, PackState, Pack!Accepted
<1>4. current' # <<>> /\ current'[Len(current')].piece = index' - 1
  BY <1>1, <1>2 DEF x
<1>5. Passage(current, k)'
  BY DEF Passage
<1>6. \E j \in Nat : Passage(draft, j)'
  BY DEF PackIInv, Passage
<1>7. Pack!EveryPieceOnce'
  <2>1. Pack!FreshOf(next1) = Append(Pack!FreshOf(current), index)
    BY <1>1, <1>2, FreshOfAppend
  <2> DEFINE F == Pack!FreshOf(current)
  <2> HIDE DEF F
  <2>2. F \in Seq(Nat) /\ covered \o F = [i \in 1..(index - 1) |-> i]
    BY <1>1 DEF F
  <2>3. covered \o Append(F, index) = Append(covered \o F, index)
    <3>1. covered \in Seq(Nat) /\ F \in Seq(Nat) /\ index \in Nat
      BY <1>1, <2>2
    <3> QED BY <3>1, AppendAfterConcat, SMTT(60)
  <2>4. Append([i \in 1..(index - 1) |-> i], index) = [i \in 1..index |-> i]
    <3>1. index >= 1
      BY DEF PackIInv, PackState
    <3> QED BY <1>1, <3>1
  <2>5. covered' \o Pack!FreshOf(current') = covered \o Append(F, index)
    BY <2>1 DEF F, x
  <2>6. index' - 1 = index
    BY <1>1
  <2>7. covered' \o Pack!FreshOf(current') = [i \in 1..(index' - 1) |-> i]
    BY <2>2, <2>3, <2>4, <2>5, <2>6
  <2> QED BY <2>7 DEF Pack!EveryPieceOnce
<1> QED BY <1>3, <1>4, <1>5, <1>6, <1>7 DEF PackIInv

\* A step that closes the draft and goes on with overlap alone, or nothing.
LEMMA DraftClosed ==
  ASSUME PackIInv, Pack!AppendDraft, index' = index, config' = config, pieces' = pieces,
         NEW tail, current' = tail, Passage(tail, Len(tail)),
         tail # <<>> => tail[Len(tail)].piece = index - 1
  PROVE  PackIInv'
<1>1. /\ current \in Seq(AnyPart) /\ covered \in Seq(Nat)
      /\ Pack!FreshOf(current) \in Seq(Nat) /\ index \in Nat
      /\ covered \o Pack!FreshOf(current) = [i \in 1..(index - 1) |-> i]
  BY PassageIsParts
<1>2. draft' = current /\ covered' = covered \o Pack!FreshOf(current)
  BY DEF Pack!AppendDraft
<1>3. PackState'
  <2>1. covered' \in Seq(Nat)
    <3> DEFINE F == Pack!FreshOf(current)
    <3>1. F \in Seq(Nat) /\ covered' = covered \o F
      BY <1>1, <1>2
    <3> HIDE DEF F
    <3> QED BY <1>1, <3>1
  <2> QED BY <2>1 DEF PackIInv, PackState, Pack!Accepted
<1>4. tail \in Seq(AnyPart) /\ \A i \in 1..Len(tail) : tail[i].overlap
  BY DEF Passage
<1>5. Len(tail) \in Nat /\ Passage(current, Len(tail))'
  BY <1>4 DEF Passage
<1>6. \E k \in Nat : Passage(draft, k)'
  <2>1. PICK k \in Nat : Passage(current, k)
    BY DEF PackIInv
  <2>2. Passage(draft, k)'
    BY <1>2, <2>1 DEF Passage
  <2> QED BY <2>2
<1>7. Pack!EveryPieceOnce'
  <2>1. Pack!FreshOf(current') = <<>>
    BY <1>4, FreshOfOverlap
  <2> DEFINE c == covered \o Pack!FreshOf(current)
  <2>2. c \in Seq(Nat) /\ c \o <<>> = c
    <3>1. c = [i \in 1..(index - 1) |-> i]
      BY <1>1
    <3>2. c \in Seq(Nat)
      <4>1. index >= 1
        BY DEF PackIInv, PackState
      <4> HIDE DEF c
      <4> QED BY <1>1, <3>1, <4>1
    <3> HIDE DEF c
    <3> QED BY <3>2
  <2>3. covered' \o Pack!FreshOf(current') = c
    BY <1>2, <2>1, <2>2
  <2>4. covered' \o Pack!FreshOf(current') = [i \in 1..(index' - 1) |-> i]
    BY <1>1, <2>3
  <2> QED BY <2>4 DEF Pack!EveryPieceOnce
<1> QED BY <1>3, <1>5, <1>6, <1>7 DEF PackIInv

LEMMA PackStep == ASSUME PackIInv, Pack!Next PROVE PackIInv'
<1> USE DEF PackIInv
<1>1. PackState /\ current \in Seq(AnyPart)
  BY PassageIsParts
<1>2. CASE Pack!Begin
  <2>1. Append(current, Pack!NewPart) = <<Pack!NewPart>>
    BY <1>2 DEF Pack!Begin
  <2>2. Passage(Append(current, Pack!NewPart), 0)
    BY <1>1, <1>2, <2>1, PassageOfOne DEF Pack!Begin
  <2> HIDE DEF PackIInv
  <2> QED BY <1>2, <2>1, <2>2, PieceTaken DEF Pack!Begin
<1>3. CASE Pack!Extend
  <2>1. PICK k \in Nat : Passage(current, k)
    OBVIOUS
  <2>2. /\ index <= Len(pieces) /\ current # <<>>
        /\ pieces[current[Len(current)].piece].section = pieces[index].section
    BY <1>1, <1>3, SectionsAgree DEF Pack!Extend
  <2>3. Pack!TokensOf(current) + pieces[index].tokens <= config.max
    <3>1. config.target <= config.max /\ config.target \in Nat /\ config.max \in Nat
      BY <1>1, PackSettings
    <3>2. Pack!TokensOf(current) \in Nat
      BY <1>1, TokensOfConcat
    <3>3. pieces[index].tokens \in Nat
      <4>1. index \in 1..Len(pieces)
        BY <1>1, <2>2 DEF PackState
      <4> QED BY <1>1, <4>1, PackSettings
    <3> QED BY <1>3, <3>1, <3>2, <3>3 DEF Pack!Extend, Pack!Fits
  <2>4. current[Len(current)].piece = index - 1
    BY <2>2
  <2>5. Passage(Append(current, Pack!NewPart), k)
    BY <1>1, <2>1, <2>2, <2>3, <2>4, PassageOfMore
  <2> HIDE DEF PackIInv
  <2> QED BY <1>3, <2>2, <2>5, PieceTaken DEF Pack!Extend
<1>4. CASE Pack!Emit
  <2>1. PICK tail \in Pack!OverlapTails(current, config.overlap) :
          current' = IF Pack!TokensOf(tail) + pieces[index].tokens <= config.max
                       THEN tail ELSE <<>>
    BY <1>4 DEF Pack!Emit
  <2>2. PICK k \in Nat : Passage(current, k)
    OBVIOUS
  <2>3. index <= Len(pieces) /\ current # <<>> /\ current[Len(current)].piece = index - 1
    BY <1>1, <1>4, SectionsAgree DEF Pack!Emit
  <2>4. CASE Pack!TokensOf(tail) + pieces[index].tokens <= config.max
    <3>1. Pack!TokensOf(tail) <= config.max
      <4>1. tail \in Seq(AnyPart)
        <5>1. config.overlap \in Nat /\ \A i \in 1..Len(current) : current[i].tokens > 0
          BY <1>1, <2>2, PackSettings DEF Passage
        <5> QED BY <1>1, <5>1, OverlapIsEnd
      <4>2. Pack!TokensOf(tail) \in Nat
        BY <4>1, TokensOfConcat
      <4>3. index \in 1..Len(pieces)
        BY <1>1, <2>3 DEF PackState
      <4>4. pieces[index].tokens \in Nat /\ config.max \in Nat
        BY <1>1, <4>3, PackSettings
      <4> QED BY <2>4, <4>2, <4>4
    <3>2. /\ Passage(tail, Len(tail))
          /\ tail # <<>> => tail[Len(tail)].piece = current[Len(current)].piece
      BY <1>1, <2>2, <2>3, <3>1, PassageOfTail
    <3> HIDE DEF PackIInv
    <3> QED BY <1>4, <2>1, <2>3, <2>4, <3>2, DraftClosed DEF Pack!Emit
  <2>5. CASE ~(Pack!TokensOf(tail) + pieces[index].tokens <= config.max)
    <3>1. Passage(<<>>, Len(<<>>))
      BY <1>1, NoPassage
    <3> HIDE DEF PackIInv
    <3> QED BY <1>4, <2>1, <2>5, <3>1, DraftClosed DEF Pack!Emit
  <2> QED BY <2>4, <2>5
<1>5. CASE Pack!Flush
  <2>1. Passage(<<>>, Len(<<>>))
    BY <1>1, NoPassage
  <2> HIDE DEF PackIInv
  <2> QED BY <1>5, <2>1, DraftClosed DEF Pack!Flush
<1> QED BY <1>2, <1>3, <1>4, <1>5 DEF Pack!Next

LEMMA PackFreshStep ==
  ASSUME PackIInv, PackFresh, Pack!Next, config.overlap < config.min
  PROVE  PackFresh'
<1>1. PackState /\ current \in Seq(AnyPart)
  BY PassageIsParts DEF PackIInv
<1>2. CASE index <= Len(pieces) /\ current' = Append(current, Pack!NewPart) /\ draft' = draft
  <2>1. Pack!NewPart \in AnyPart /\ ~Pack!NewPart.overlap
    BY <1>1, <1>2, NewPartIs
  <2> DEFINE x == Pack!NewPart
  <2>2. current' = Append(current, x) /\ x \in AnyPart /\ ~x.overlap
    BY <1>2, <2>1
  <2> HIDE DEF x
  <2>3. ~current'[Len(current')].overlap
    BY <1>1, <2>2
  <2> QED BY <1>2, <2>3 DEF PackFresh
<1>3. CASE Pack!Begin
  <2>1. index <= Len(pieces) /\ current' = <<Pack!NewPart>> /\ draft' = draft /\ current = <<>>
    BY <1>3 DEF Pack!Begin
  <2> QED BY <1>2, <2>1
<1>4. CASE Pack!Extend
  BY <1>2, <1>4 DEF Pack!Extend, Pack!SameGroup
<1>5. CASE Pack!Emit
  <2>1. PICK tail \in Pack!OverlapTails(current, config.overlap) :
          current' = IF Pack!TokensOf(tail) + pieces[index].tokens <= config.max
                       THEN tail ELSE <<>>
    BY <1>5 DEF Pack!Emit
  <2>2. /\ draft' = current /\ config' = config /\ pieces' = pieces /\ index' = index
        /\ ~Pack!Fits /\ Pack!SameGroup
    BY <1>5 DEF Pack!Emit, Pack!AppendDraft
  <2>3. draft' # <<>> => ~draft'[Len(draft')].overlap
    BY <2>2 DEF PackFresh
  <2>4. CASE Pack!TokensOf(tail) + pieces[index].tokens <= config.max /\ tail # <<>>
    <3>1. PICK k \in Nat : Passage(current, k)
      BY DEF PackIInv
    <3>2. /\ index <= Len(pieces) /\ current # <<>>
          /\ pieces[current[Len(current)].piece].section = pieces[index].section
      BY <1>1, <2>2, SectionsAgree
    <3>3. /\ config.overlap \in Nat /\ config.min \in Nat /\ config.max \in Nat
          /\ pieces[index].tokens \in Nat
      <4>1. index \in 1..Len(pieces)
        BY <1>1, <3>2 DEF PackState
      <4> QED BY <1>1, <4>1, PackSettings
    <3>4. tail \in Seq(AnyPart) /\ Pack!TokensOf(tail) <= config.overlap
      <4>1. \A i \in 1..Len(current) : current[i].tokens > 0
        BY <3>1 DEF Passage
      <4> QED BY <1>1, <3>3, <4>1, OverlapIsEnd
    <3>5. Pack!TokensOf(tail) \in Nat
      BY <3>4, TokensOfConcat
    <3>6. Pack!TokensOf(tail) < config.min /\ Pack!TokensOf(tail) <= config.max
      BY <2>4, <3>3, <3>4, <3>5
    <3>7. tail[Len(tail)].piece = current[Len(current)].piece
      BY <1>1, <2>4, <3>1, <3>2, <3>6, PassageOfTail
    <3>8. current' = tail
      BY <2>1, <2>4
    <3>9. Pack!SameGroup'
      BY <2>2, <2>4, <3>2, <3>7, <3>8 DEF Pack!SameGroup, Pack!Last
    <3>10. Pack!Fits'
      BY <2>2, <2>4, <3>6, <3>8 DEF Pack!Fits
    <3> QED BY <2>3, <3>9, <3>10 DEF PackFresh
  <2>5. CASE current' = <<>>
    BY <2>3, <2>5 DEF PackFresh
  <2> QED BY <2>1, <2>4, <2>5
<1>6. CASE Pack!Flush
  <2>1. draft' = current /\ current' = <<>> /\ ~Pack!SameGroup
    BY <1>6 DEF Pack!Flush, Pack!AppendDraft
  <2> QED BY <2>1 DEF PackFresh
<1> QED BY <1>3, <1>4, <1>5, <1>6 DEF Pack!Next

(***************************************************************************)
(* ChunkPacker: the theorems.                                              *)
(***************************************************************************)
LEMMA PackMoves ==
  ASSUME [Next]_allVars
  PROVE  part' = part /\ (part = "pack" => Pack!Next \/ UNCHANGED packVars)
BY DEF Next, CallNext, PageStep, allVars, packVars

LEMMA PackStands ==
  ASSUME UNCHANGED packVars
  PROVE  PackIInv => PackIInv' /\ (PackFresh => PackFresh')
BY DEF packVars, PackIInv, PackFresh, PackState, Passage, Pack!EveryPieceOnce, Pack!SameGroup,
       Pack!Fits, Pack!Accepted

PackHolds == part = "pack" => PackIInv

THEOREM PackInvariant == Spec => []PackHolds
<1>1. Init => PackHolds
  BY PackInit DEF Init, PackHolds
<1>2. PackHolds /\ [Next]_allVars => PackHolds'
  BY PackMoves, PackStep, PackStands DEF PackHolds
<1> QED BY <1>1, <1>2, PTL DEF Spec

\* Whatever the settings that the constructor accepts and whatever the document, no
\* chunk exceeds the hard maximum, so that chunk() never raises for it.
THEOREM HardCapHolds == Spec => []HardCap
<1>1. PackHolds => HardCap
  BY DEF PackHolds, HardCap, PackIInv, Passage, Pack!HardCap
<1> QED BY <1>1, PackInvariant, PTL

\* Packing loses no piece, repeats none and keeps their order, for every document.
THEOREM PiecesArePackedOnce == Spec => []EveryPieceOnce
<1>1. PackHolds => EveryPieceOnce
  BY DEF PackHolds, EveryPieceOnce, PackIInv
<1> QED BY <1>1, PackInvariant, PTL

\* The invariants of a draft say what DraftIsPassage promises.
LEMMA DraftPassage ==
  ASSUME PackIInv, PackFresh
  PROVE  Pack!DraftIsPassage
<1> DEFINE n == Len(draft)
           overlap == Pack!Kept(draft, Pack!Part({TRUE}))
<1>1. PICK k \in Nat : Passage(draft, k)
  BY DEF PackIInv
<1>2. /\ draft \in Seq(AnyPart) /\ k \in 0..n /\ n \in Nat
      /\ Pack!TokensOf(SubSeq(draft, 1, k)) <= config.overlap
  BY <1>1 DEF Passage
<1>3. \A i \in 1..n : /\ draft[i].tokens > 0
                      /\ draft[i].piece = draft[1].piece + i - 1
                      /\ pieces[draft[i].piece].section = pieces[draft[1].piece].section
                      /\ i > 1 => draft[i].tokens = pieces[draft[i].piece].tokens
                      /\ draft[i].overlap <=> i <= k
  BY <1>1 DEF Passage
<1>4. overlap = SubSeq(draft, 1, k)
  <2> DEFINE wanted == Pack!Part({TRUE})
  <2>1. \A i \in 1..Len(draft) : draft[i] \in wanted <=> i <= k
    <3>1. \A i \in 1..Len(draft) : draft[i] \in AnyPart
      BY <1>2
    <3> QED BY <1>3, <3>1, PartFields
  <2>2. k \in 0..Len(draft)
    BY <1>2
  <2>3. Kept(draft, wanted) = SubSeq(draft, 1, k)
    <3> HIDE DEF wanted
    <3> QED BY <1>2, <2>1, <2>2, KeptOfBeginning
  <2> QED BY <2>3, PackKept
<1> HIDE DEF overlap
<1>5. Len(overlap) = k /\ \A i \in 1..k : overlap[i] = draft[i]
  BY <1>2, <1>4
<1>6. n > 0 => k < n
  <2>1. n > 0 => n \in 1..n /\ draft # <<>>
    BY <1>2
  <2>2. n > 0 => ~draft[n].overlap
    BY <2>1 DEF PackFresh
  <2>3. n > 0 => ~(n <= k)
    BY <1>3, <2>1, <2>2
  <2> QED BY <1>2, <2>3
<1>7. Pack!TokensOf(overlap) <= config.overlap
  BY <1>2, <1>4
<1>8. \A i \in 1..Len(overlap) : overlap[i].tokens > 0
  BY <1>2, <1>3, <1>5
<1> HIDE DEF n
<1>9. /\ \A i \in 1..n : /\ draft[i].piece = draft[1].piece + i - 1
                         /\ pieces[draft[i].piece].section = pieces[draft[1].piece].section
                         /\ i > 1 => draft[i].tokens = pieces[draft[i].piece].tokens
      /\ \A i \in 1..n : draft[i].overlap <=> i <= Len(overlap)
      /\ n > 0 => Len(overlap) < n
  BY <1>3, <1>5, <1>6
<1> QED BY <1>7, <1>8, <1>9 DEF Pack!DraftIsPassage, n, overlap

LEMMA PackFreshHolds ==
  ASSUME \A c \in Settings : c.overlap < c.min
  PROVE  Spec => [](part = "pack" => PackIInv /\ PackFresh)
<1> DEFINE Holds == part = "pack" => PackIInv /\ PackFresh
<1>1. Init => Holds
  BY PackInit DEF Init
<1>2. Holds /\ [Next]_allVars => Holds'
  <2> SUFFICES ASSUME Holds, [Next]_allVars, part' = "pack" PROVE (PackIInv /\ PackFresh)'
    OBVIOUS
  <2>1. PackIInv /\ PackFresh /\ (Pack!Next \/ UNCHANGED packVars)
    BY PackMoves
  <2>2. config.overlap < config.min
    BY <2>1 DEF PackIInv, PackState
  <2> QED BY <2>1, <2>2, PackStep, PackFreshStep, PackStands
<1> QED BY <1>1, <1>2, PTL DEF Spec

\* With settings whose overlap is smaller than their minimum, as the defaults, each
\* chunk is a passage of one section with its overlap in front, and none is
\* overlap alone; without that bound the packing may not even end (overlap_loop).
THEOREM ChunksArePassages ==
  ASSUME \A c \in Settings : c.overlap < c.min
  PROVE  Spec => []DraftIsPassage
<1> DEFINE Holds == part = "pack" => PackIInv /\ PackFresh
<1>1. Spec => []Holds
  BY PackFreshHolds
<1>2. Holds => DraftIsPassage
  BY DraftPassage DEF DraftIsPassage
<1> QED BY <1>1, <1>2, PTL

\* The steps that packing has left at most: two for a piece that is still to be
\* taken, and one for a draft that is more than overlap.
Remaining ==
  2 * (Len(pieces) + 1 - index)
    + (IF current # <<>> /\ ~current[Len(current)].overlap THEN 1 ELSE 0)

\* A draft that is more than overlap contains a piece that was taken.
LEMMA RemainingIsBounded ==
  ASSUME PackIInv
  PROVE  Remaining \in 0..(2 * Len(pieces))
<1>1. Len(pieces) \in Nat /\ index \in 1..(Len(pieces) + 1)
  BY PackSettings DEF PackIInv, PackState
<1>2. current # <<>> => index > 1
  <2> SUFFICES ASSUME current # <<>> PROVE index > 1
    OBVIOUS
  <2>1. PICK k \in Nat : Passage(current, k)
    BY DEF PackIInv
  <2>2. Len(current) \in 1..Len(current)
    BY <2>1 DEF Passage
  <2>3. current[Len(current)].piece \in 1..Len(pieces)
    BY <2>1, <2>2 DEF Passage
  <2> QED BY <1>1, <2>3 DEF PackIInv
<1> QED BY <1>1, <1>2 DEF Remaining

\* Taking a piece, and closing a draft that is more than overlap, leave less to do.
LEMMA PackShortens ==
  ASSUME PackIInv, PackFresh, Pack!Next
  PROVE  Remaining' < Remaining
<1> DEFINE new == current # <<>> /\ ~current[Len(current)].overlap
<1>1. PackState /\ current \in Seq(AnyPart) /\ Len(pieces) \in Nat /\ index \in Nat
  BY PassageIsParts, PackSettings DEF PackIInv, PackState
<1>2. /\ Remaining = 2 * (Len(pieces) + 1 - index) + (IF new THEN 1 ELSE 0)
      /\ Remaining' = 2 * (Len(pieces') + 1 - index') + (IF new' THEN 1 ELSE 0)
  BY DEF Remaining
<1>3. CASE Pack!Begin \/ Pack!Extend
  <2>1. pieces' = pieces /\ index' = index + 1
    BY <1>3 DEF Pack!Begin, Pack!Extend
  <2>2. CASE Pack!Begin
    <3>1. ~new
      BY <2>2 DEF Pack!Begin
    <3> HIDE DEF new
    <3> QED BY <1>1, <1>2, <2>1, <3>1
  <2>3. CASE Pack!Extend
    <3> HIDE DEF new
    <3> QED BY <1>1, <1>2, <2>1
  <2> QED BY <1>3, <2>2, <2>3
<1>4. CASE Pack!Emit \/ Pack!Flush
  <2>1. /\ pieces' = pieces /\ index' = index /\ config' = config
        /\ current # <<>> /\ ~(Pack!SameGroup /\ Pack!Fits)
    BY <1>4 DEF Pack!Emit, Pack!Flush, Pack!AppendDraft, Pack!SameGroup
  <2>2. new
    BY <2>1 DEF PackFresh
  <2>3. ~new'
    <3>1. CASE current' = <<>>
      BY <3>1
    <3>2. CASE current' \in Pack!OverlapTails(current, config.overlap) /\ current' # <<>>
      <4> DEFINE tail == current'
      <4>1. PICK k \in Nat : Passage(current, k)
        BY DEF PackIInv
      <4>2. config.overlap \in Nat /\ \A i \in 1..Len(current) : current[i].tokens > 0
        BY <1>1, <4>1, PackSettings DEF Passage
      <4>3. tail \in Pack!OverlapTails(current, config.overlap) /\ tail # <<>>
        BY <3>2
      <4> HIDE DEF tail, new
      <4>4. tail \in Seq(AnyPart) /\ \A i \in 1..Len(tail) : tail[i].overlap
        BY <1>1, <4>2, <4>3, OverlapIsEnd
      <4>5. tail[Len(tail)].overlap
        BY <4>3, <4>4
      <4> QED BY <4>5 DEF tail, new
    <3>3. current' = <<>> \/ current' \in Pack!OverlapTails(current, config.overlap)
      BY <1>4 DEF Pack!Emit, Pack!Flush
    <3> QED BY <3>1, <3>2, <3>3
  <2> HIDE DEF new
  <2> QED BY <1>1, <1>2, <2>1, <2>2, <2>3
<1> QED BY <1>3, <1>4 DEF Pack!Next

\* With such settings every step of the packing leaves less to do, so that a document
\* of n pieces is packed in 2 n steps at most; with an overlap that reaches the minimum
\* the loop may repeat the same draft for ever (overlap_loop).
THEOREM PackingAdvances ==
  ASSUME \A c \in Settings : c.overlap < c.min
  PROVE  Spec => /\ [](part = "pack" => Remaining \in 0..(2 * Len(pieces)))
                 /\ [][part = "pack" /\ Remaining' < Remaining]_packVars
<1> DEFINE Holds == part = "pack" => PackIInv /\ PackFresh
           Shortens == part = "pack" /\ Remaining' < Remaining
           Bounded == part = "pack" => Remaining \in 0..(2 * Len(pieces))
<1>1. Spec => []Holds
  BY PackFreshHolds
<1>2. Holds => Bounded
  BY RemainingIsBounded
<1>3. Holds /\ [Next]_allVars => [Shortens]_packVars
  <2> SUFFICES ASSUME Holds, [Next]_allVars PROVE Shortens \/ UNCHANGED packVars
    OBVIOUS
  <2>1. part # "pack" => UNCHANGED packVars
    BY DEF Next, CallNext, PageStep, allVars, packVars
  <2>2. part = "pack" => Pack!Next \/ UNCHANGED packVars
    BY PackMoves
  <2>3. part = "pack" /\ Pack!Next => Remaining' < Remaining
    BY PackShortens
  <2> QED BY <2>1, <2>2, <2>3
<1> QED BY <1>1, <1>2, <1>3, PTL DEF Spec

(***************************************************************************)
(* EmbeddingBatches: sums, batches and sorted items.                       *)
(***************************************************************************)
LEMMA EmbedTotal == ASSUME NEW s PROVE Embed!Total(s) = Total(s)
BY DEF Embed!Total, Total, Embed!FoldLeft, FoldLeft, Embed!MapThenFoldSet, MapThenFoldSet,
       Embed!Max, Max

LEMMA EmbedFlatten == ASSUME NEW s PROVE Embed!FlattenSeq(s) = FlattenSeq(s)
BY DEF Embed!FlattenSeq, FlattenSeq

LEMMA EmbedArranged == ASSUME NEW s, NEW b PROVE Embed!Arranged(s, b) = Arranged(s, b)
BY DEF Embed!Arranged, Arranged, Embed!Cardinality, Cardinality

\* A batch has the tokens of its chunks.
LEMMA TokensInAppend ==
  ASSUME chunks \in Seq(Nat), NEW b \in Seq(1..Len(chunks)), NEW id \in 1..Len(chunks)
  PROVE  /\ Embed!TokensIn(b) \in Nat
         /\ Embed!TokensIn(Append(b, id)) = Embed!TokensIn(b) + chunks[id]
<1> DEFINE tokens == [i \in DOMAIN b |-> chunks[b[i]]]
           more == [i \in DOMAIN Append(b, id) |-> chunks[Append(b, id)[i]]]
<1>1. \A i \in 1..Len(chunks) : chunks[i] \in Nat
  OBVIOUS
<1>2. \A i \in 1..Len(b) : b[i] \in 1..Len(chunks)
  OBVIOUS
<1>3. tokens \in Seq(Nat)
  BY <1>1, <1>2
<1>4. more = Append(tokens, chunks[id])
  BY <1>1, <1>2
<1>5. chunks[id] \in Nat
  BY <1>1
<1>6. Embed!TokensIn(b) = Total(tokens) /\ Embed!TokensIn(Append(b, id)) = Total(more)
  BY EmbedTotal DEF Embed!TokensIn
<1> HIDE DEF tokens, more
<1>7. Total(tokens) \in Nat
  BY <1>3, TotalIsNat
<1>8. Total(Append(tokens, chunks[id])) = Total(tokens) + chunks[id]
  BY <1>3, <1>5, TotalOfAppend
<1> QED BY <1>4, <1>6, <1>7, <1>8

\* Sorting the items of a full response by their index gives each text its vector.
LEMMA InOrderMatches ==
  ASSUME NEW T, NEW texts \in Seq(T), NEW data \in Embed!Responses(texts)
  PROVE  LET vectors == Embed!InOrder(data)
         IN /\ DOMAIN vectors = DOMAIN data /\ Len(vectors) = Len(data)
            /\ Len(vectors) = Len(texts) =>
                 /\ vectors \in Seq([text : T, length : Lengths])
                 /\ \A i \in 1..Len(texts) : vectors[i].text = texts[i]
<1> DEFINE items == {data[i] : i \in DOMAIN data}
           before == {pair \in items \X items : pair[1].index < pair[2].index}
           sorted == Arranged(items, before)
           vectors == Embed!InOrder(data)
           n == Len(texts)
<1>1. PICK m \in 0..n : data \in [1..m -> Embed!Items(texts)]
  BY DEF Embed!Responses, Embed!BoundedSeq, Embed!SeqOf
<1>2. \A i, j \in 1..m : data[i].index = data[j].index => i = j
  BY <1>1 DEF Embed!Responses
<1>3. \A x \in Embed!Items(texts) :
        x.index \in 1..n /\ x.text = texts[x.index] /\ x.text \in T /\ x.length \in Lengths
  BY DEF Embed!Items
<1>4. vectors = [i \in 1..m |-> [text |-> sorted[i].text, length |-> sorted[i].length]]
  BY <1>1, EmbedArranged DEF Embed!InOrder, Embed!Range
<1>5. m \in Nat /\ n \in Nat /\ DOMAIN data = 1..m
  BY <1>1
<1>6. DOMAIN vectors = DOMAIN data /\ Len(vectors) = m /\ Len(data) = m
  <2> HIDE DEF vectors, sorted
  <2> QED BY <1>4, <1>5
<1>7. ASSUME m = n
      PROVE  /\ vectors \in Seq([text : T, length : Lengths])
             /\ \A i \in 1..n : vectors[i].text = texts[i]
  <2>1. IsFiniteSet(items) /\ Cardinality(items) = n
    <3>1. data \in [1..n -> items] /\ \A x \in items : \E i \in 1..n : data[i] = x
      BY <1>1, <1>5, <1>7
    <3>2. \A i, j \in 1..n : data[i] = data[j] => i = j
      BY <1>2, <1>7
    <3> HIDE DEF items, n
    <3> QED BY <1>5, <3>1, <3>2, ElementsOfList
  <2>2. \A x \in items : x \in Embed!Items(texts)
    BY <1>1, <1>5
  <2>3. Orders(before, items)
    <3>1. \A x, y \in items : x.index = y.index => x = y
      BY <1>2, <1>5
    <3>2. \A x \in items : x.index \in Int
      BY <1>3, <2>2
    <3>3. \A x, y \in items : <<x, y>> \in before <=> x.index < y.index
      OBVIOUS
    <3> HIDE DEF items, before
    <3> QED BY <3>1, <3>2, <3>3 DEF Orders
  <2>4. /\ sorted \in [1..n -> items]
        /\ \A i, j \in 1..n : i < j => <<sorted[i], sorted[j]>> \in before
    <3> HIDE DEF items, before, n
    <3> QED BY <2>1, <2>3, ArrangedIsSorted
  <2> DEFINE f == [i \in 1..n |-> sorted[i].index]
  <2>5. \A i \in 1..n : sorted[i] \in Embed!Items(texts)
    BY <2>2, <2>4
  <2>6. f \in [1..n -> 1..n]
    <3>1. \A i \in 1..n : sorted[i].index \in 1..n
      BY <1>3, <2>5
    <3> QED BY <3>1
  <2>7. \A i, j \in 1..n : i < j => f[i] < f[j]
    BY <2>4
  <2>8. \A i \in 1..n : f[i] = i
    <3> HIDE DEF f, n
    <3> QED BY <1>5, <2>6, <2>7, IncreasingIsIdentity
  <2>9. \A i \in 1..n : sorted[i].text = texts[i] /\ sorted[i].text \in T /\ sorted[i].length \in Lengths
    BY <1>3, <2>5, <2>8
  <2> HIDE DEF vectors, sorted, n
  <2>10. \A i \in 1..n : [text |-> sorted[i].text, length |-> sorted[i].length]
                           \in [text : T, length : Lengths]
    BY <2>9
  <2>11. vectors \in Seq([text : T, length : Lengths])
    BY <1>4, <1>5, <1>7, <2>10
  <2> QED BY <1>4, <1>7, <2>9, <2>11
<1> HIDE DEF vectors, n
<1>8. /\ DOMAIN vectors = DOMAIN data /\ Len(vectors) = Len(data)
      /\ Len(vectors) = n =>
           /\ vectors \in Seq([text : T, length : Lengths])
           /\ \A i \in 1..n : vectors[i].text = texts[i]
  BY <1>5, <1>6, <1>7
<1> QED BY <1>8 DEF vectors, n

(***************************************************************************)
(* EmbeddingBatches: the inductive invariant.                              *)
(***************************************************************************)
ChunkIds == 1..Len(chunks)

Vector == [text : ChunkIds, length : Lengths]

EmbedState ==
  /\ chunks \in Seq(Nat) /\ next \in 1..(Len(chunks) + 1)
  /\ dimensions \in {Embed!None} \cup Lengths
  /\ batch \in Seq(ChunkIds) /\ batches \in Seq(Seq(ChunkIds))
  /\ replied \in Seq(Vector) /\ embedded \in Seq(ChunkIds \X Vector)

WellSized(b) ==
  /\ Len(b) \in 1..BatchSize
  /\ Embed!TokensIn(b) <= TokenLimit \/ Len(b) = 1

BatchesWellSized ==
  /\ batch # <<>> => WellSized(batch)
  /\ \A i \in 1..Len(batches) : WellSized(batches[i])

EmbeddedIds == [i \in DOMAIN embedded |-> embedded[i][1]]

Partition == EmbeddedIds \o FlattenSeq(batches) \o batch = Embed!Ids

\* What the provider has collected is of the first batch, in its order.
RepliesFit ==
  /\ progress = "batching" \/ batches = <<>> => replied = <<>>
  /\ batches # <<>> =>
       /\ Len(replied) <= Len(Head(batches))
       /\ \A i \in 1..Len(replied) : replied[i].text = Head(batches)[i]

\* While the length of a vector is unknown, there is none.
LengthKnown ==
  /\ dimensions = Embed!None => embedded = <<>>
  /\ Embed!VectorsReachTheirChunks

EmbedIInv ==
  EmbedState /\ BatchesWellSized /\ Partition /\ RepliesFit /\ LengthKnown

LEMMA EmbedSettings ==
  /\ BatchSize \in Nat /\ BatchSize > 0 /\ TokenLimit \in Nat /\ RequestSize \in Nat /\ RequestSize > 0
  /\ \A n \in Lengths : n \in Nat /\ n # Embed!None
  /\ ChunkLists \subseteq Seq(Nat)
BY PartsAssumption DEF Embed!BatchAssumption, Embed!None

LEMMA EmbedInit == ASSUME Embed!Init PROVE EmbedIInv
<1>1. chunks \in Seq(Nat) /\ next = 1 /\ dimensions \in {Embed!None} \cup Lengths
  BY EmbedSettings DEF Embed!Init
<1>2. batch = <<>> /\ batches = <<>> /\ replied = <<>> /\ embedded = <<>>
  BY DEF Embed!Init
<1>3. EmbedState
  BY <1>1, <1>2 DEF EmbedState
<1>4. BatchesWellSized /\ RepliesFit
  BY <1>2 DEF BatchesWellSized, RepliesFit
<1>5. LengthKnown
  BY <1>2 DEF LengthKnown, Embed!VectorsReachTheirChunks
<1>6. Partition
  <2>1. EmbeddedIds = <<>> /\ FlattenSeq(batches) = <<>>
    BY <1>2, FlattenOfNone DEF EmbeddedIds
  <2>2. Embed!Ids = <<>>
    BY <1>1 DEF Embed!Ids
  <2>3. <<>> \o <<>> \o <<>> = <<>>
    OBVIOUS
  <2> QED BY <1>2, <2>1, <2>2, <2>3 DEF Partition
<1> QED BY <1>3, <1>4, <1>5, <1>6 DEF EmbedIInv

LEMMA PartitionTypes ==
  ASSUME EmbedState
  PROVE  EmbeddedIds \in Seq(ChunkIds) /\ FlattenSeq(batches) \in Seq(ChunkIds)
<1>1. EmbeddedIds \in Seq(ChunkIds)
  <2>1. \A i \in 1..Len(embedded) : embedded[i] \in ChunkIds \X Vector
    BY DEF EmbedState
  <2>2. \A i \in 1..Len(embedded) : embedded[i][1] \in ChunkIds
    BY <2>1
  <2>3. embedded \in Seq(ChunkIds \X Vector)
    BY DEF EmbedState
  <2> HIDE DEF ChunkIds, Vector
  <2> QED BY <2>2, <2>3 DEF EmbeddedIds
<1>2. FlattenSeq(batches) \in Seq(ChunkIds)
  <2>1. batches \in Seq(Seq(ChunkIds)) /\ <<>> \in Seq(ChunkIds)
    BY DEF EmbedState
  <2> HIDE DEF ChunkIds
  <2> QED BY <2>1, FlattenOfAppend
<1> QED BY <1>1, <1>2

LEMMA AddChunkStep == ASSUME EmbedIInv, Embed!AddChunk PROVE EmbedIInv'
<1>1. /\ chunks' = chunks /\ dimensions' = dimensions /\ progress' = progress
      /\ replied' = replied /\ embedded' = embedded /\ next' = next + 1
      /\ progress = "batching" /\ next <= Len(chunks)
  BY DEF Embed!AddChunk
<1>2. /\ chunks \in Seq(Nat) /\ next \in ChunkIds /\ batch \in Seq(ChunkIds)
      /\ batches \in Seq(Seq(ChunkIds)) /\ Len(chunks) \in Nat /\ next \in Nat
  BY <1>1 DEF EmbedIInv, EmbedState, ChunkIds
<1>3. /\ EmbeddedIds \in Seq(ChunkIds) /\ FlattenSeq(batches) \in Seq(ChunkIds)
      /\ EmbeddedIds' = EmbeddedIds
      /\ EmbeddedIds \o FlattenSeq(batches) \o batch = Embed!Ids
  BY <1>1, PartitionTypes DEF EmbedIInv, Partition, EmbeddedIds
<1>4. ChunkIds' = ChunkIds /\ Vector' = Vector
  BY <1>1 DEF ChunkIds, Vector
<1>5. replied = <<>> /\ LengthKnown'
  BY <1>1 DEF EmbedIInv, RepliesFit, LengthKnown, Embed!VectorsReachTheirChunks
<1>6. Embed!Ids' = Append(Embed!Ids, next)
  <2>1. next \in Nat /\ next >= 1
    BY DEF EmbedIInv, EmbedState
  <2>2. Append([i \in 1..(next - 1) |-> i], next) = [i \in 1..next |-> i]
    BY <2>1
  <2>3. next' - 1 = next
    BY <1>1, <2>1
  <2> QED BY <2>2, <2>3 DEF Embed!Ids
<1>7. Append(batch, next) \in Seq(ChunkIds) /\ <<next>> \in Seq(ChunkIds)
  <2> HIDE DEF ChunkIds
  <2> QED BY <1>2
<1> DEFINE E == EmbeddedIds
           F == FlattenSeq(batches)
<1>8. CASE Embed!WouldExceed /\ batches' = Append(batches, batch) /\ batch' = <<next>>
  <2>1. batch # <<>>
    BY <1>2, <1>8, EmbedSettings DEF Embed!WouldExceed
  <2>2. EmbedState'
    <3>1. batches' \in Seq(Seq(ChunkIds)) /\ batch' \in Seq(ChunkIds)
      BY <1>2, <1>7, <1>8
    <3>2. next' \in 1..(Len(chunks) + 1)
      BY <1>1, <1>2
    <3> QED BY <1>1, <1>4, <3>1, <3>2 DEF EmbedIInv, EmbedState
  <2>3. BatchesWellSized'
    <3>1. WellSized(batch) /\ \A i \in 1..Len(batches) : WellSized(batches[i])
      BY <2>1 DEF EmbedIInv, BatchesWellSized
    <3>2. ASSUME NEW i \in 1..Len(batches') PROVE WellSized(batches'[i])
      <4>1. batches'[i] = IF i <= Len(batches) THEN batches[i] ELSE batch
        BY <1>2, <1>8
      <4> QED BY <1>2, <1>8, <3>1, <4>1
    <3>3. Len(batch') = 1
      BY <1>8
    <3>4. \A i \in 1..Len(batches') : WellSized(batches[i])' <=> WellSized(batches'[i])
      BY <1>1 DEF WellSized, Embed!TokensIn
    <3> QED BY <3>2, <3>3, <3>4, EmbedSettings DEF BatchesWellSized, WellSized
  <2>4. Partition'
    <3>1. FlattenSeq(batches') = F \o batch
      <4> HIDE DEF ChunkIds
      <4> QED BY <1>2, <1>8, FlattenOfAppend
    <3> HIDE DEF E, F, ChunkIds
    <3>2. E \in Seq(ChunkIds) /\ F \in Seq(ChunkIds) /\ batch \in Seq(ChunkIds) /\ next \in ChunkIds
      BY <1>2, <1>3 DEF E, F
    <3>3. E \o (F \o batch) = (E \o F) \o batch
      BY <3>2, ConcatAssociative, SMTT(60)
    <3>4. (E \o F) \o batch = Embed!Ids
      BY <1>3 DEF E, F
    <3>5. (E \o F) \o batch \in Seq(ChunkIds)
      BY <3>2
    <3>6. Embed!Ids \o <<next>> = Append(Embed!Ids, next)
      BY <3>2, <3>4, <3>5, AppendIsConcat
    <3>7. E \o (F \o batch) \o <<next>> = Append(Embed!Ids, next)
      BY <3>3, <3>4, <3>6
    <3>8. EmbeddedIds' \o FlattenSeq(batches') \o batch' = E \o (F \o batch) \o <<next>>
      BY <1>3, <1>8, <3>1 DEF E
    <3> QED BY <1>6, <3>7, <3>8 DEF Partition
  <2>5. RepliesFit'
    <3>1. batches' # <<>> /\ Len(Head(batches')) \in Nat
      <4>1. batches' \in Seq(Seq(ChunkIds)) /\ batches' # <<>>
        <5>1. batches \in Seq(Seq(ChunkIds)) /\ batch \in Seq(ChunkIds)
              /\ batches' = Append(batches, batch)
          BY <1>2, <1>8
        <5> DEFINE All == Seq(ChunkIds)
        <5> HIDE DEF All
        <5>2. batches \in Seq(All) /\ batch \in All
          BY <5>1 DEF All
        <5>3. Append(batches, batch) \in Seq(All) /\ Append(batches, batch) # <<>>
          BY <5>2, AppendProperties
        <5> QED BY <5>1, <5>3 DEF All
      <4>2. Head(batches') \in Seq(ChunkIds)
        <5> HIDE DEF ChunkIds
        <5> QED BY <4>1
      <4> QED BY <4>1, <4>2
    <3> QED BY <1>1, <1>5, <3>1 DEF RepliesFit
  <2> QED BY <1>5, <2>2, <2>3, <2>4, <2>5 DEF EmbedIInv
<1>9. CASE ~Embed!WouldExceed /\ batches' = batches /\ batch' = Append(batch, next)
  <2>1. EmbedState'
    <3>1. next' \in 1..(Len(chunks) + 1)
      BY <1>1, <1>2
    <3> QED BY <1>1, <1>4, <1>7, <1>9, <3>1 DEF EmbedIInv, EmbedState
  <2>2. BatchesWellSized'
    <3>1. Len(batch) < BatchSize /\ (batch # <<>> => Embed!TokensIn(batch) + chunks[next] <= TokenLimit)
      <4>1. Embed!TokensIn(batch) \in Nat
        BY <1>2, TokensInAppend DEF ChunkIds
      <4>2. chunks[next] \in Nat
        BY <1>2 DEF ChunkIds
      <4> QED BY <1>2, <1>9, <4>1, <4>2, EmbedSettings DEF Embed!WouldExceed
    <3>2. Embed!TokensIn(Append(batch, next)) = Embed!TokensIn(batch) + chunks[next]
      BY <1>2, TokensInAppend DEF ChunkIds
    <3>3. Embed!TokensIn(batch)' = Embed!TokensIn(Append(batch, next))
      BY <1>1, <1>9 DEF Embed!TokensIn
    <3>4. Len(batch') = Len(batch) + 1 /\ (batch = <<>> => Len(batch') = 1)
      <4> HIDE DEF ChunkIds
      <4> QED BY <1>2, <1>9
    <3>5. WellSized(batch)'
      <4>1. Len(batch') \in 1..BatchSize
        BY <1>2, <3>1, <3>4, EmbedSettings
      <4> QED BY <3>1, <3>2, <3>3, <3>4, <4>1 DEF WellSized
    <3>6. \A i \in 1..Len(batches) : WellSized(batches[i])'
      BY <1>1, <1>9 DEF EmbedIInv, BatchesWellSized, WellSized, Embed!TokensIn
    <3> QED BY <1>9, <3>5, <3>6 DEF BatchesWellSized
  <2>3. Partition'
    <3> HIDE DEF E, F, ChunkIds
    <3>1. E \in Seq(ChunkIds) /\ F \in Seq(ChunkIds) /\ batch \in Seq(ChunkIds) /\ next \in ChunkIds
      BY <1>2, <1>3 DEF E, F
    <3>2. E \o F \in Seq(ChunkIds)
      BY <3>1
    <3>3. (E \o F) \o Append(batch, next) = Append((E \o F) \o batch, next)
      BY <3>1, <3>2, AppendAfterConcat, SMTT(60)
    <3>4. (E \o F) \o batch = Embed!Ids
      BY <1>3 DEF E, F
    <3>5. EmbeddedIds' \o FlattenSeq(batches') \o batch' = (E \o F) \o Append(batch, next)
      BY <1>3, <1>9 DEF E, F
    <3> QED BY <1>6, <3>3, <3>4, <3>5 DEF Partition
  <2>4. RepliesFit'
    BY <1>1, <1>9 DEF EmbedIInv, RepliesFit
  <2> QED BY <1>5, <2>1, <2>2, <2>3, <2>4 DEF EmbedIInv
<1> QED BY <1>8, <1>9 DEF Embed!AddChunk, Embed!CloseBatch

LEMMA EndBatchingStep == ASSUME EmbedIInv, Embed!EndBatching PROVE EmbedIInv'
<1>1. /\ chunks' = chunks /\ dimensions' = dimensions /\ replied' = replied
      /\ embedded' = embedded /\ next' = next /\ batch' = <<>> /\ progress = "batching"
      /\ batches' = IF batch = <<>> THEN batches ELSE Append(batches, batch)
  BY DEF Embed!EndBatching
<1>2. /\ batch \in Seq(ChunkIds) /\ batches \in Seq(Seq(ChunkIds))
      /\ EmbeddedIds \in Seq(ChunkIds) /\ FlattenSeq(batches) \in Seq(ChunkIds)
      /\ EmbeddedIds' = EmbeddedIds /\ Embed!Ids' = Embed!Ids
      /\ EmbeddedIds \o FlattenSeq(batches) \o batch = Embed!Ids
  BY <1>1, PartitionTypes DEF EmbedIInv, EmbedState, Partition, EmbeddedIds, Embed!Ids
<1>3. ChunkIds' = ChunkIds /\ Vector' = Vector
  BY <1>1 DEF ChunkIds, Vector
<1>4. replied = <<>> /\ LengthKnown'
  BY <1>1 DEF EmbedIInv, RepliesFit, LengthKnown, Embed!VectorsReachTheirChunks
<1>5. \A b : WellSized(b)' <=> WellSized(b)
  BY <1>1 DEF WellSized, Embed!TokensIn
<1> DEFINE All == Seq(ChunkIds)
           E == EmbeddedIds
           F == FlattenSeq(batches)
<1>6. /\ batches' \in Seq(All)
      /\ \A i \in 1..Len(batches') : WellSized(batches'[i])
      /\ FlattenSeq(batches') = F \o batch
  <2>1. CASE batch = <<>>
    <3>1. F \o <<>> = F
      <4>1. F \in All
        BY <1>2
      <4> HIDE DEF F, ChunkIds
      <4> QED BY <4>1
    <3> QED BY <1>1, <1>2, <2>1, <3>1 DEF EmbedIInv, BatchesWellSized
  <2>2. CASE batch # <<>>
    <3>1. WellSized(batch) /\ \A i \in 1..Len(batches) : WellSized(batches[i])
      BY <2>2 DEF EmbedIInv, BatchesWellSized
    <3>2. batches \in Seq(All) /\ batch \in All /\ batches' = Append(batches, batch)
      BY <1>1, <1>2, <2>2
    <3>3. FlattenSeq(batches') = F \o batch
      <4> HIDE DEF ChunkIds
      <4> QED BY <3>2, FlattenOfAppend
    <3> HIDE DEF All, F
    <3>4. /\ batches' \in Seq(All) /\ Len(batches') = Len(batches) + 1
          /\ batches'[Len(batches) + 1] = batch
          /\ \A i \in 1..Len(batches) : batches'[i] = batches[i]
      BY <3>2, AppendProperties
    <3>5. \A i \in 1..Len(batches') : WellSized(batches'[i])
      BY <3>1, <3>2, <3>4
    <3> QED BY <3>3, <3>4, <3>5
  <2> QED BY <2>1, <2>2
<1>7. EmbedState'
  <2>1. batches' \in Seq(Seq(ChunkIds))' /\ batch' \in Seq(ChunkIds)'
    BY <1>1, <1>3, <1>6
  <2> QED BY <1>1, <1>3, <2>1 DEF EmbedIInv, EmbedState
<1>8. BatchesWellSized'
  BY <1>1, <1>5, <1>6 DEF BatchesWellSized
<1>9. Partition'
  <2>1. E \in Seq(ChunkIds) /\ F \in Seq(ChunkIds) /\ batch \in Seq(ChunkIds)
        /\ (E \o F) \o batch = Embed!Ids
    BY <1>2
  <2>2. EmbeddedIds' \o FlattenSeq(batches') \o batch' = (E \o (F \o batch)) \o <<>>
    BY <1>1, <1>2, <1>6
  <2> HIDE DEF E, F, ChunkIds
  <2>3. (E \o (F \o batch)) \o <<>> = (E \o F) \o batch
    <3>1. E \in Seq(ChunkIds) /\ F \in Seq(ChunkIds) /\ batch \in Seq(ChunkIds)
      BY <2>1
    <3>2. E \o (F \o batch) = (E \o F) \o batch
      BY <3>1, ConcatAssociative, SMTT(60)
    <3>3. (E \o F) \o batch \in Seq(ChunkIds)
      BY <3>1
    <3>4. ((E \o F) \o batch) \o <<>> = (E \o F) \o batch
      BY <3>3, ConcatEmptySeq
    <3> QED BY <3>2, <3>4
  <2> QED BY <1>2, <2>1, <2>2, <2>3 DEF Partition
<1>10. RepliesFit'
  <2>1. batches' # <<>> => Len(Head(batches')) \in Nat
    <3>1. batches' \in Seq(All)
      BY <1>6
    <3> HIDE DEF All
    <3>2. batches' # <<>> => Head(batches') \in All
      BY <3>1
    <3> QED BY <3>2 DEF All
  <2> QED BY <1>1, <1>4, <2>1 DEF RepliesFit
<1> QED BY <1>4, <1>7, <1>8, <1>9, <1>10 DEF EmbedIInv

LEMMA RaiseStep ==
  ASSUME EmbedIInv, progress' # "batching",
         UNCHANGED <<chunks, dimensions, next, batch, batches, replied, embedded>>
  PROVE  EmbedIInv'
BY DEF EmbedIInv, EmbedState, BatchesWellSized, Partition, RepliesFit, LengthKnown, ChunkIds,
       Vector, WellSized, Embed!TokensIn, EmbeddedIds, Embed!Ids, Embed!VectorsReachTheirChunks

LEMMA RequestStep == ASSUME EmbedIInv, Embed!Request PROVE EmbedIInv'
<1> DEFINE texts == Embed!RequestTexts
           first == Head(batches)
<1>1. /\ batches # <<>> /\ progress = "embedding" /\ Len(replied) < Len(first)
  BY DEF Embed!Request, Embed!Embedding
<1>2. PICK data \in Embed!Responses(texts) :
        LET vectors == Embed!InOrder(data)
        IN IF Embed!RespondedWell(texts, vectors)
             THEN /\ replied' = replied \o vectors
                  /\ UNCHANGED <<chunks, configured, dimensions, progress, next, batch,
                                 batches, embedded>>
             ELSE Embed!Raise
  BY DEF Embed!Request
<1> DEFINE vectors == Embed!InOrder(data)
<1>3. CASE ~Embed!RespondedWell(texts, vectors)
  BY <1>2, <1>3, RaiseStep DEF Embed!Raise
<1>4. CASE Embed!RespondedWell(texts, vectors)
  <2>1. /\ replied' = replied \o vectors /\ chunks' = chunks /\ dimensions' = dimensions
        /\ progress' = progress /\ next' = next /\ batch' = batch /\ batches' = batches
        /\ embedded' = embedded
    BY <1>2, <1>4
  <2>2. Len(vectors) = Len(texts)
    BY <1>4 DEF Embed!RespondedWell
  <2>3. /\ first \in Seq(ChunkIds) /\ replied \in Seq(Vector) /\ Len(replied) \in Nat
        /\ Len(first) \in Nat /\ Len(replied) < Len(first)
    <3>1. batches \in Seq(Seq(ChunkIds)) /\ replied \in Seq(Vector)
      BY DEF EmbedIInv, EmbedState
    <3> DEFINE All == Seq(ChunkIds)
    <3>2. first \in All
      <4> HIDE DEF All
      <4>1. batches \in Seq(All)
        BY <3>1 DEF All
      <4> QED BY <1>1, <4>1
    <3> HIDE DEF ChunkIds, Vector
    <3> QED BY <1>1, <3>1, <3>2
  <2> HIDE DEF first
  <2>4. \E last \in (Len(replied) + 1)..Len(first) : texts = SubSeq(first, Len(replied) + 1, last)
    <3> DEFINE end == IF Len(replied) + RequestSize < Len(first)
                        THEN Len(replied) + RequestSize ELSE Len(first)
    <3>1. texts = SubSeq(first, Len(replied) + 1, end)
      BY Zenon DEF Embed!RequestTexts, first
    <3>2. end \in (Len(replied) + 1)..Len(first)
      BY <2>3, EmbedSettings
    <3> HIDE DEF texts, end
    <3> QED BY <3>1, <3>2
  <2>5. PICK last \in (Len(replied) + 1)..Len(first) : texts = SubSeq(first, Len(replied) + 1, last)
    BY <2>4
  <2> HIDE DEF texts
  <2>6. /\ texts \in Seq(ChunkIds) /\ Len(texts) = last - Len(replied)
        /\ \A i \in 1..Len(texts) : texts[i] = first[Len(replied) + i]
    <3>1. \A i \in 1..Len(first) : first[i] \in ChunkIds
      BY <2>3
    <3> HIDE DEF ChunkIds
    <3> QED BY <2>3, <2>5
  <2>7. /\ vectors \in Seq(Vector)
        /\ \A i \in 1..Len(texts) : vectors[i].text = texts[i]
    BY <2>2, <2>6, InOrderMatches DEF Vector
  <2> HIDE DEF vectors
  <2>8. /\ replied' \in Seq(Vector) /\ Len(replied') = last
        /\ \A i \in 1..Len(replied') :
             replied'[i] = IF i <= Len(replied) THEN replied[i] ELSE vectors[i - Len(replied)]
    <3> DEFINE V == Vector
    <3>1. replied \in Seq(V) /\ vectors \in Seq(V) /\ replied' = replied \o vectors
          /\ Len(vectors) = last - Len(replied) /\ last \in Nat
      BY <2>1, <2>2, <2>3, <2>6, <2>7
    <3> HIDE DEF V
    <3>2. /\ replied' \in Seq(V) /\ Len(replied') = last
          /\ \A i \in 1..Len(replied') :
               replied'[i] = IF i <= Len(replied) THEN replied[i] ELSE vectors[i - Len(replied)]
      BY <3>1
    <3> QED BY <3>2 DEF V
  <2>9. \A i \in 1..Len(replied') : replied'[i].text = first[i]
    <3> SUFFICES ASSUME NEW i \in 1..Len(replied') PROVE replied'[i].text = first[i]
      OBVIOUS
    <3>1. CASE i <= Len(replied)
      <4>1. i \in 1..Len(replied)
        BY <2>3, <3>1
      <4>2. replied[i].text = first[i]
        BY <1>1, <4>1 DEF EmbedIInv, RepliesFit, first
      <4> QED BY <2>8, <3>1, <4>2
    <3>2. CASE ~(i <= Len(replied))
      <4>1. i - Len(replied) \in 1..Len(texts) /\ Len(replied) + (i - Len(replied)) = i
        BY <2>3, <2>6, <2>8, <3>2
      <4>2. vectors[i - Len(replied)].text = first[i]
        BY <2>6, <2>7, <4>1
      <4> QED BY <2>8, <3>2, <4>2
    <3> QED BY <3>1, <3>2
  <2>10. RepliesFit'
    <3>1. Len(replied') <= Len(first)
      BY <2>3, <2>8
    <3> QED BY <1>1, <2>1, <2>9, <3>1 DEF RepliesFit, first
  <2>11. EmbedState'
    <3>1. replied' \in Seq(Vector')
      BY <2>1, <2>8 DEF Vector, ChunkIds
    <3> QED BY <2>1, <3>1 DEF EmbedIInv, EmbedState, ChunkIds, Vector
  <2>12. BatchesWellSized' /\ Partition' /\ LengthKnown'
    BY <2>1 DEF EmbedIInv, BatchesWellSized, Partition, LengthKnown, WellSized, Embed!TokensIn,
       EmbeddedIds, Embed!Ids, Embed!VectorsReachTheirChunks
  <2> QED BY <2>10, <2>11, <2>12 DEF EmbedIInv
<1> QED BY <1>3, <1>4

LEMMA AcceptBatchStep == ASSUME EmbedIInv, Embed!AcceptBatch PROVE EmbedIInv'
<1> DEFINE first == Head(batches)
           rest == Tail(batches)
           pairs == Embed!Zip(first, replied)
           m == Len(first)
           Item == ChunkIds \X Vector
<1>1. /\ batches # <<>> /\ progress = "embedding" /\ Len(replied) = m
      /\ \A i \in DOMAIN replied : replied[i].length = Embed!Expected
      /\ embedded' = embedded \o pairs /\ dimensions' = Embed!Expected
      /\ batches' = rest /\ replied' = <<>>
      /\ chunks' = chunks /\ progress' = progress /\ next' = next /\ batch' = batch
  BY DEF Embed!AcceptBatch, Embed!Returned, Embed!Embedding, Embed!Matches
<1>2. /\ batches \in Seq(Seq(ChunkIds)) /\ batch \in Seq(ChunkIds) /\ replied \in Seq(Vector)
      /\ embedded \in Seq(Item)
      /\ EmbeddedIds \in Seq(ChunkIds)
      /\ (EmbeddedIds \o FlattenSeq(batches)) \o batch = Embed!Ids
  BY PartitionTypes DEF EmbedIInv, EmbedState, Partition
<1>3. ChunkIds' = ChunkIds /\ Vector' = Vector /\ Embed!Ids' = Embed!Ids
  BY <1>1 DEF ChunkIds, Vector, Embed!Ids
<1>4. /\ first \in Seq(ChunkIds) /\ rest \in Seq(Seq(ChunkIds)) /\ m \in Nat
      /\ batches[1] = first /\ 1 \in 1..Len(batches) /\ Len(rest) = Len(batches) - 1
      /\ \A i \in 1..Len(rest) : rest[i] = batches[i + 1]
  <2> DEFINE All == Seq(ChunkIds)
  <2>1. batches \in Seq(All)
    BY <1>2
  <2> HIDE DEF All
  <2>2. /\ first \in All /\ rest \in Seq(All) /\ batches[1] = first /\ 1 \in 1..Len(batches)
        /\ Len(rest) = Len(batches) - 1 /\ \A i \in 1..Len(rest) : rest[i] = batches[i + 1]
    BY <1>1, <2>1
  <2>3. first \in Seq(ChunkIds)
    BY <2>2 DEF All
  <2>4. m \in Nat
    <3> HIDE DEF first, ChunkIds
    <3> QED BY <2>3
  <2> QED BY <2>2, <2>3, <2>4 DEF All
<1>5. \A i \in 1..m : /\ replied[i] \in Vector /\ first[i] \in ChunkIds
                      /\ replied[i].text = first[i] /\ replied[i].length = Embed!Expected
  <2>1. \A i \in 1..m : replied[i].text = first[i]
    BY <1>1 DEF EmbedIInv, RepliesFit
  <2> HIDE DEF first, m
  <2>2. DOMAIN replied = 1..m /\ \A i \in 1..m : replied[i] \in Vector
    <3> HIDE DEF Vector
    <3> QED BY <1>1, <1>2
  <2>3. \A i \in 1..m : first[i] \in ChunkIds
    <3> HIDE DEF ChunkIds
    <3> QED BY <1>4 DEF m
  <2> QED BY <1>1, <2>1, <2>2, <2>3
<1>6. m >= 1
  <2>1. WellSized(first)
    BY <1>4 DEF EmbedIInv, BatchesWellSized
  <2> QED BY <2>1, <1>4, EmbedSettings DEF WellSized
<1>7. /\ Embed!Expected \in Lengths /\ Embed!Expected # Embed!None
      /\ dimensions # Embed!None => Embed!Expected = dimensions
  <2>1. replied[1] \in Vector
    BY <1>4, <1>5, <1>6
  <2>2. replied[1].length \in Lengths
    BY <2>1 DEF Vector
  <2>3. dimensions \in {Embed!None} \cup Lengths
    BY DEF EmbedIInv, EmbedState
  <2> QED BY <2>2, <2>3, EmbedSettings DEF Embed!Expected
<1>8. pairs = [i \in 1..m |-> <<first[i], replied[i]>>]
  BY <1>1, <1>4 DEF Embed!Zip
<1> HIDE DEF first, rest, pairs
<1>9. /\ pairs \in Seq(Item) /\ Len(pairs) = m
      /\ \A i \in 1..m : pairs[i] = <<first[i], replied[i]>>
  <2> DEFINE I == Item
  <2>1. \A i \in 1..m : <<first[i], replied[i]>> \in I
    BY <1>5
  <2> HIDE DEF I, m
  <2>2. m \in Nat
    BY <1>4
  <2>3. /\ pairs \in Seq(I) /\ Len(pairs) = m
        /\ \A i \in 1..m : pairs[i] = <<first[i], replied[i]>>
    BY <1>8, <2>1, <2>2
  <2> QED BY <2>3 DEF I
<1>10. /\ embedded' \in Seq(Item) /\ Len(embedded') = Len(embedded) + m /\ Len(embedded) \in Nat
       /\ \A i \in 1..Len(embedded) : embedded'[i] = embedded[i]
       /\ \A i \in 1..m : embedded'[Len(embedded) + i] = <<first[i], replied[i]>>
  <2> DEFINE I == Item
  <2>1. embedded \in Seq(I) /\ pairs \in Seq(I) /\ embedded' = embedded \o pairs
        /\ m \in Nat /\ Len(pairs) = m
    BY <1>1, <1>2, <1>4, <1>9
  <2> HIDE DEF I, m
  <2>2. /\ embedded' \in Seq(I) /\ Len(embedded') = Len(embedded) + m /\ Len(embedded) \in Nat
        /\ \A i \in 1..Len(embedded) : embedded'[i] = embedded[i]
        /\ \A i \in 1..m : embedded'[Len(embedded) + i] = pairs[i]
    <3>1. embedded \in Seq(I) /\ pairs \in Seq(I) /\ embedded' = embedded \o pairs
      BY <2>1
    <3>2. /\ embedded' \in Seq(I) /\ Len(embedded') = Len(embedded) + Len(pairs)
          /\ \A i \in 1..Len(embedded) : embedded'[i] = embedded[i]
          /\ \A i \in 1..Len(pairs) : embedded'[Len(embedded) + i] = pairs[i]
      BY <3>1, ConcatPlaces, SMTT(60)
    <3>3. Len(pairs) = m /\ Len(embedded) \in Nat
      BY <2>1
    <3> QED BY <3>2, <3>3
  <2>3. \A i \in 1..m : pairs[i] = <<first[i], replied[i]>>
    BY <1>9
  <2> QED BY <2>2, <2>3 DEF I
<1> HIDE DEF Item
<1>11. EmbeddedIds' = EmbeddedIds \o first
  <2>1. /\ EmbeddedIds' \in Seq(ChunkIds) /\ Len(EmbeddedIds') = Len(embedded) + m
        /\ \A i \in 1..Len(EmbeddedIds') : EmbeddedIds'[i] = embedded'[i][1]
    <3>1. \A i \in 1..Len(embedded') : embedded'[i][1] \in ChunkIds
      <4>1. \A i \in 1..Len(embedded') : embedded'[i] \in Item
        BY <1>10
      <4> QED BY <4>1 DEF Item
    <3>2. EmbeddedIds' = [i \in DOMAIN embedded' |-> embedded'[i][1]]
      BY DEF EmbeddedIds
    <3> HIDE DEF ChunkIds
    <3> QED BY <1>10, <3>1, <3>2
  <2>2. /\ Len(EmbeddedIds) = Len(embedded)
        /\ \A i \in 1..Len(embedded) : EmbeddedIds[i] = embedded[i][1]
    BY <1>2, <1>10 DEF EmbeddedIds, Item
  <2> HIDE DEF ChunkIds
  <2>3. /\ Len(EmbeddedIds') = Len(EmbeddedIds) + Len(first)
        /\ \A i \in 1..Len(EmbeddedIds) : EmbeddedIds'[i] = EmbeddedIds[i]
        /\ \A i \in 1..Len(first) : EmbeddedIds'[Len(EmbeddedIds) + i] = first[i]
    <3>1. ASSUME NEW i \in 1..Len(EmbeddedIds) PROVE EmbeddedIds'[i] = EmbeddedIds[i]
      <4>1. i \in 1..Len(EmbeddedIds') /\ i \in 1..Len(embedded)
        BY <1>4, <1>10, <2>1, <2>2
      <4> QED BY <1>10, <2>1, <2>2, <4>1
    <3>2. ASSUME NEW i \in 1..Len(first) PROVE EmbeddedIds'[Len(EmbeddedIds) + i] = first[i]
      <4>1. Len(embedded) + i \in 1..Len(EmbeddedIds')
        BY <1>4, <1>10, <2>1
      <4>2. embedded'[Len(embedded) + i] = <<first[i], replied[i]>>
        BY <1>10
      <4>3. <<first[i], replied[i]>>[1] = first[i]
        OBVIOUS
      <4>4. EmbeddedIds'[Len(embedded) + i] = embedded'[Len(embedded) + i][1]
        BY <2>1, <4>1
      <4>5. Len(EmbeddedIds) = Len(embedded)
        BY <2>2
      <4> QED BY <4>2, <4>3, <4>4, <4>5
    <3> QED BY <2>1, <2>2, <3>1, <3>2
  <2>4. EmbeddedIds' \in Seq(ChunkIds) /\ EmbeddedIds \in Seq(ChunkIds) /\ first \in Seq(ChunkIds)
    BY <1>2, <1>4, <2>1
  <2> QED BY <2>3, <2>4, ConcatByPlaces, Zenon
<1>12. Partition'
  <2> DEFINE E == EmbeddedIds
             F == FlattenSeq(rest)
  <2>1. /\ E \in Seq(ChunkIds) /\ F \in Seq(ChunkIds) /\ batch \in Seq(ChunkIds)
        /\ first \in Seq(ChunkIds)
    <3>1. F \in Seq(ChunkIds)
      <4> HIDE DEF ChunkIds
      <4>1. rest \in Seq(Seq(ChunkIds)) /\ <<>> \in Seq(ChunkIds)
        BY <1>4
      <4> QED BY <4>1, FlattenOfAppend
    <3> QED BY <1>2, <1>4, <3>1
  <2>2. FlattenSeq(batches) = first \o F
    BY <1>1, <1>2, FlattenOfTail DEF first, rest
  <2>3. (E \o (first \o F)) \o batch = Embed!Ids
    BY <1>2, <2>2
  <2>4. EmbeddedIds' \o FlattenSeq(batches') \o batch' = ((E \o first) \o F) \o batch
    BY <1>1, <1>11
  <2> HIDE DEF E, F, ChunkIds
  <2>5. (E \o first) \o F = E \o (first \o F)
    BY <2>1, ConcatAssociative, SMTT(60)
  <2> QED BY <1>3, <2>3, <2>4, <2>5 DEF Partition
<1>13. EmbedState'
  <2>1. dimensions' \in {Embed!None} \cup Lengths'
    BY <1>1, <1>7
  <2>2. embedded' \in Seq(ChunkIds \X Vector)
    BY <1>10 DEF Item
  <2>3. batches' \in Seq(Seq(ChunkIds))
    BY <1>1, <1>4
  <2> QED BY <1>1, <1>3, <2>1, <2>2, <2>3 DEF EmbedIInv, EmbedState
<1>14. BatchesWellSized'
  <2>1. \A b : WellSized(b)' <=> WellSized(b)
    BY <1>1 DEF WellSized, Embed!TokensIn
  <2>2. \A i \in 1..Len(rest) : WellSized(rest[i])
    <3>1. \A i \in 1..Len(batches) : WellSized(batches[i])
      BY DEF EmbedIInv, BatchesWellSized
    <3>2. \A i \in 1..Len(rest) : i + 1 \in 1..Len(batches)
      <4>1. Len(batches) \in Nat
        BY <1>2
      <4> QED BY <1>4, <4>1
    <3> QED BY <1>4, <3>1, <3>2
  <2> QED BY <1>1, <2>1, <2>2 DEF EmbedIInv, BatchesWellSized
<1>15. RepliesFit'
  <2>1. batches' # <<>> => Len(Head(batches')) \in Nat
    <3> DEFINE All == Seq(ChunkIds)
    <3>1. batches' \in Seq(All)
      BY <1>1, <1>4
    <3> HIDE DEF All
    <3>2. batches' # <<>> => Head(batches') \in All
      BY <3>1
    <3> QED BY <3>2 DEF All
  <2> QED BY <1>1, <2>1 DEF RepliesFit
<1>16. LengthKnown'
  <2>1. ASSUME NEW i \in DOMAIN embedded'
        PROVE  embedded'[i][2].text = embedded'[i][1] /\ embedded'[i][2].length = dimensions'
    <3>1. i \in 1..(Len(embedded) + m)
      BY <1>10, <2>1
    <3>2. CASE i <= Len(embedded)
      <4>1. i \in DOMAIN embedded /\ embedded'[i] = embedded[i]
        BY <1>2, <1>10, <3>1, <3>2
      <4>2. embedded # <<>>
        BY <4>1
      <4>3. dimensions' = dimensions
        BY <1>1, <1>7, <4>2 DEF EmbedIInv, LengthKnown
      <4> QED BY <4>1, <4>3 DEF EmbedIInv, LengthKnown, Embed!VectorsReachTheirChunks
    <3>3. CASE ~(i <= Len(embedded))
      <4>1. PICK j \in 1..m : i = Len(embedded) + j
        <5>1. i - Len(embedded) \in 1..m /\ i = Len(embedded) + (i - Len(embedded))
          BY <1>4, <1>10, <3>1, <3>3
        <5> QED BY <5>1
      <4>2. embedded'[i] = <<first[j], replied[j]>>
        BY <1>10, <4>1
      <4> QED BY <1>1, <1>5, <4>2
    <3> QED BY <3>2, <3>3
  <2> QED BY <1>1, <1>7, <2>1 DEF LengthKnown, Embed!VectorsReachTheirChunks, Embed!None
<1> QED BY <1>12, <1>13, <1>14, <1>15, <1>16 DEF EmbedIInv

LEMMA EmbedStep == ASSUME EmbedIInv, Embed!Next PROVE EmbedIInv'
<1>1. CASE Embed!AddChunk
  BY <1>1, AddChunkStep
<1>2. CASE Embed!EndBatching
  BY <1>2, EndBatchingStep
<1>3. CASE Embed!Request
  BY <1>3, RequestStep
<1>4. CASE Embed!RequestFails \/ Embed!RefuseBatch
  BY <1>4, RaiseStep DEF Embed!RequestFails, Embed!RefuseBatch, Embed!Raise
<1>5. CASE Embed!AcceptBatch
  BY <1>5, AcceptBatchStep
<1>6. CASE Embed!Finish
  BY <1>6, RaiseStep DEF Embed!Finish
<1> QED BY <1>1, <1>2, <1>3, <1>4, <1>5, <1>6 DEF Embed!Next

(***************************************************************************)
(* EmbeddingBatches: the theorems.                                         *)
(***************************************************************************)
LEMMA EmbedMoves ==
  ASSUME [Next]_allVars
  PROVE  part' = part /\ (part = "embed" => Embed!Next \/ UNCHANGED embedVars)
BY DEF Next, CallNext, PageStep, allVars, embedVars

LEMMA EmbedStands == ASSUME UNCHANGED embedVars PROVE EmbedIInv => EmbedIInv'
BY DEF embedVars, EmbedIInv, EmbedState, BatchesWellSized, Partition, RepliesFit, LengthKnown,
       ChunkIds, Vector, WellSized, Embed!TokensIn, EmbeddedIds, Embed!Ids,
       Embed!VectorsReachTheirChunks

EmbedHolds == part = "embed" => EmbedIInv

THEOREM EmbedInvariant == Spec => []EmbedHolds
<1>1. Init => EmbedHolds
  BY EmbedInit DEF Init, EmbedHolds
<1>2. EmbedHolds /\ [Next]_allVars => EmbedHolds'
  BY EmbedMoves, EmbedStep, EmbedStands DEF EmbedHolds
<1> QED BY <1>1, <1>2, PTL DEF Spec

\* However many chunks a document has and however large they are, the batches hold
\* each of them once and in its order, and exceed no bound but for a chunk that is
\* above the token bound by itself.
THEOREM BatchesArePartition == Spec => []BatchesPartition
<1>1. ASSUME EmbedIInv PROVE Embed!BatchesPartition
  <2>1. [i \in DOMAIN embedded |-> embedded[i][1]] \o Embed!FlattenSeq(batches) \o batch = Embed!Ids
    BY <1>1, EmbedFlatten DEF EmbedIInv, Partition, EmbeddedIds
  <2>2. \A b \in Embed!Range(batches) : WellSized(b)
    <3>1. DOMAIN batches = 1..Len(batches)
      BY <1>1 DEF EmbedIInv, EmbedState
    <3> QED BY <1>1, <3>1 DEF EmbedIInv, BatchesWellSized, Embed!Range
  <2> QED BY <2>1, <2>2 DEF Embed!BatchesPartition, WellSized
<1>2. EmbedHolds => BatchesPartition
  BY <1>1 DEF EmbedHolds, BatchesPartition
<1> QED BY <1>2, EmbedInvariant, PTL

\* A vector goes to the chunk whose text it embeds, whatever the size of a request
\* and in whichever order the endpoint answers.
THEOREM VectorsAreOfTheirChunks == Spec => []VectorsReachTheirChunks
<1>1. EmbedHolds => VectorsReachTheirChunks
  BY DEF EmbedHolds, EmbedIInv, LengthKnown, VectorsReachTheirChunks
<1> QED BY <1>1, EmbedInvariant, PTL

(***************************************************************************)
(* Normalizer.  The counter of a text says on how many of the pages that   *)
(* were looked at it is at an edge.                                        *)
(***************************************************************************)
\* Of the pages before n, those that have a text at an edge.
EdgePages(text, n) == {p \in 1..(n - 1) : text \in Clean!Edges(p)}

CleanIInv ==
  /\ pages \in Seq(Seq(AllTexts))
  /\ page \in 1..(Len(pages) + 1)
  /\ margins \in [AllTexts -> Nat]
  /\ \A text \in AllTexts : margins[text] = Cardinality(EdgePages(text, page))
  /\ removed =>
       /\ page = Len(pages) + 1
       /\ kept = [p \in DOMAIN pages |->
                    Clean!Kept(pages[p], AllTexts \ (Clean!Repeated \cap Clean!Edges(p)))]

LEMMA CleanKept == ASSUME NEW s, NEW w PROVE Clean!Kept(s, w) = Kept(s, w)
BY DEF Clean!Kept, Kept, Clean!FoldLeft, FoldLeft, Clean!MapThenFoldSet, MapThenFoldSet,
       Clean!Max, Max

LEMMA CleanCount == ASSUME NEW S PROVE Clean!Cardinality(S) = Cardinality(S)
BY DEF Clean!Cardinality, Cardinality

\* The pages seen with a text at an edge are finitely many.
LEMMA EdgePagesFinite ==
  ASSUME NEW n \in Nat, NEW text
  PROVE  IsFiniteSet(EdgePages(text, n)) /\ Cardinality(EdgePages(text, n)) \in Nat
<1>1. EdgePages(text, n) \subseteq 1..(n - 1)
  BY DEF EdgePages
<1>2. IsFiniteSet(1..(n - 1))
  BY FS_Interval
<1> QED BY <1>1, <1>2, FS_Subset, FS_CardinalityType

LEMMA CleanInit == ASSUME Clean!Init PROVE CleanIInv
<1>1. PICK document \in Parsed : pages = Clean!Cleaned(document)
  BY DEF Clean!Init
<1>2. pages \in Seq(Seq(AllTexts))
  <2>1. document \in Seq(Seq(AllTexts))
    BY PartsAssumption DEF Clean!PagesAssumption
  <2>2. ASSUME NEW p \in 1..Len(document)
        PROVE  Clean!Kept(document[p], AllTexts \ {Blank}) \in Seq(AllTexts)
    <3> DEFINE wanted == AllTexts \ {Blank}
               k == Kept(document[p], wanted)
    <3>1. document[p] \in Seq(AllTexts)
      BY <2>1
    <3>2. k \in Seq(AllTexts \cap wanted)
      <4> HIDE DEF wanted
      <4> QED BY <3>1, KeptIsWanted
    <3> HIDE DEF k
    <3>3. k \in Seq(AllTexts)
      BY <3>2
    <3> QED BY <3>3, CleanKept DEF k
  <2>3. pages = [p \in 1..Len(document) |-> Clean!Kept(document[p], AllTexts \ {Blank})]
    BY <1>1, <2>1 DEF Clean!Cleaned
  <2> DEFINE Cleared(p) == Clean!Kept(document[p], AllTexts \ {Blank})
             TextLists == Seq(AllTexts)
  <2>4. \A p \in 1..Len(document) : Cleared(p) \in TextLists
    BY <2>2
  <2>5. pages = [p \in 1..Len(document) |-> Cleared(p)] /\ Len(document) \in Nat
    BY <2>1, <2>3
  <2> HIDE DEF Cleared, TextLists
  <2>6. pages \in Seq(TextLists)
    BY <2>4, <2>5
  <2> QED BY <2>6 DEF TextLists
<1>3. /\ page = 1 /\ ~removed /\ margins = [text \in AllTexts |-> 0]
  BY DEF Clean!Init
<1>4. \A text \in AllTexts : EdgePages(text, page) = {}
  BY <1>3 DEF EdgePages
<1>5. Cardinality({}) = 0
  BY FS_EmptySet
<1>6. \A text \in AllTexts : margins[text] = Cardinality(EdgePages(text, page))
  BY <1>3, <1>4, <1>5
<1>7. page \in 1..(Len(pages) + 1) /\ margins \in [AllTexts -> Nat]
  BY <1>2, <1>3
<1> QED BY <1>2, <1>3, <1>6, <1>7 DEF CleanIInv

LEMMA LookStep == ASSUME CleanIInv, Clean!Look PROVE CleanIInv'
<1>1. /\ page <= Len(pages) /\ page' = page + 1 /\ pages' = pages /\ kept' = kept
      /\ removed' = removed /\ margins' = [text \in AllTexts |-> Clean!Seen(page, text)]
  BY DEF Clean!Look
<1>2. /\ pages \in Seq(Seq(AllTexts)) /\ page \in 1..(Len(pages) + 1) /\ Len(pages) \in Nat
      /\ margins \in [AllTexts -> Nat] /\ ~removed
  BY <1>1 DEF CleanIInv
<1>3. \A p : Clean!Edges(p)' = Clean!Edges(p)
  BY <1>1 DEF Clean!Edges
<1>4. ASSUME NEW text \in AllTexts
      PROVE  /\ margins'[text] \in Nat
             /\ margins'[text] = Cardinality(EdgePages(text, page)')
  <2>1. EdgePages(text, page)' = IF text \in Clean!Edges(page) THEN EdgePages(text, page) \cup {page}
                                                              ELSE EdgePages(text, page)
    BY <1>1, <1>2, <1>3 DEF EdgePages
  <2>2. /\ IsFiniteSet(EdgePages(text, page)) /\ Cardinality(EdgePages(text, page)) \in Nat
        /\ page \notin EdgePages(text, page)
    <3>1. page \in Nat
      BY <1>2
    <3>2. page \notin EdgePages(text, page)
      BY <1>2 DEF EdgePages
    <3> QED BY <3>1, <3>2, EdgePagesFinite
  <2>3. Cardinality(EdgePages(text, page) \cup {page}) = Cardinality(EdgePages(text, page)) + 1
    BY <2>2, FS_AddElement
  <2>4. margins[text] = Cardinality(EdgePages(text, page))
    BY DEF CleanIInv
  <2>5. margins'[text] = margins[text] + (IF text \in Clean!Edges(page) THEN 1 ELSE 0)
    BY <1>1 DEF Clean!Seen
  <2> QED BY <2>1, <2>2, <2>3, <2>4, <2>5
<1>5. margins' \in [AllTexts -> Nat]
  BY <1>1, <1>4
<1>6. page' \in 1..(Len(pages') + 1)
  BY <1>1, <1>2
<1> QED BY <1>1, <1>2, <1>4, <1>5, <1>6 DEF CleanIInv

LEMMA RemoveStep == ASSUME CleanIInv, Clean!RemoveMargins PROVE CleanIInv'
<1>1. /\ page > Len(pages) /\ page' = page /\ pages' = pages /\ margins' = margins
      /\ kept' = [p \in DOMAIN pages |->
                    Clean!Kept(pages[p], AllTexts \ (Clean!Repeated \cap Clean!Edges(p)))]
  BY DEF Clean!RemoveMargins
<1>2. \A p : Clean!Edges(p)' = Clean!Edges(p)
  BY <1>1 DEF Clean!Edges
<1>3. Clean!Repeated' = Clean!Repeated
  BY <1>1 DEF Clean!Repeated, Clean!Threshold, Clean!Used
<1>4. \A text \in AllTexts : EdgePages(text, page)' = EdgePages(text, page)
  BY <1>1, <1>2 DEF EdgePages
<1>5. kept' = [p \in DOMAIN pages' |->
                 Clean!Kept(pages'[p], AllTexts \ (Clean!Repeated' \cap Clean!Edges(p)'))]
  BY <1>1, <1>2, <1>3
<1>6. page \in 1..(Len(pages) + 1) /\ Len(pages) \in Nat
  BY DEF CleanIInv
<1>7. page' = Len(pages') + 1
  BY <1>1, <1>6
<1> QED BY <1>1, <1>4, <1>5, <1>7 DEF CleanIInv

\* What has been counted when every page was seen decides as IsMargin does.
LEMMA RepeatedAreMargins ==
  ASSUME CleanIInv, page = Len(pages) + 1, NEW text \in AllTexts, NEW p \in DOMAIN pages
  PROVE  Clean!IsMargin(p, text) <=> text \in Clean!Repeated \cap Clean!Edges(p)
<1> DEFINE edge == Clean!AtEdge(text)
           used == Clean!Used(pages)
           n == Len(pages)
           most == (Cardinality(used) * 3 + 4) \div 5
<1>1. n \in Nat /\ DOMAIN pages = 1..n /\ page - 1 = n
  BY DEF CleanIInv
<1>2. edge = EdgePages(text, page)
  BY <1>1 DEF EdgePages, Clean!AtEdge
<1>3. IsFiniteSet(edge) /\ IsFiniteSet(used)
  <2>1. IsFiniteSet(1..n)
    BY <1>1, FS_Interval
  <2>2. edge \subseteq 1..n /\ used \subseteq 1..n
    BY <1>1 DEF Clean!AtEdge, Clean!Used
  <2> HIDE DEF edge, used, n
  <2> QED BY <2>1, <2>2, FS_Subset
<1>4. margins[text] = Cardinality(edge)
  BY <1>2 DEF CleanIInv
<1>5. Clean!Cardinality(edge) = Cardinality(edge) /\ Clean!Cardinality(used) = Cardinality(used)
  BY CleanCount
<1>6. Clean!Threshold = IF most < 3 THEN 3 ELSE most
  BY <1>5 DEF Clean!Threshold
<1>7. text \in Clean!Repeated <=> margins[text] >= Clean!Threshold
  BY DEF Clean!Repeated
<1>8. Clean!IsMargin(p, text) <=>
        /\ text \in Clean!Edges(p)
        /\ Cardinality(edge) >= 3 /\ 5 * Cardinality(edge) >= 3 * Cardinality(used)
  BY <1>5 DEF Clean!IsMargin
<1>9. Cardinality(edge) \in Nat /\ Cardinality(used) \in Nat
  <2> HIDE DEF edge, used
  <2> QED BY <1>3, FS_CardinalityType
<1> HIDE DEF edge, used
<1>10. most \in Nat /\ 5 * most >= Cardinality(used) * 3 /\ 5 * most <= Cardinality(used) * 3 + 4
  <2>1. \A k \in Nat : LET m == (k * 3 + 4) \div 5
                       IN m \in Nat /\ 5 * m >= k * 3 /\ 5 * m <= k * 3 + 4
    OBVIOUS
  <2> QED BY <1>9, <2>1
<1> HIDE DEF most
<1>11. Cardinality(edge) >= Clean!Threshold <=>
         Cardinality(edge) >= 3 /\ 5 * Cardinality(edge) >= 3 * Cardinality(used)
  BY <1>6, <1>9, <1>10
<1> QED BY <1>4, <1>7, <1>8, <1>11

\* The counters suffice for what OnlyMarginsGo promises.
LEMMA MarginsGo == ASSUME CleanIInv PROVE Clean!OnlyMarginsGo
<1> SUFFICES ASSUME removed, NEW p \in DOMAIN pages
             PROVE  kept[p] = Clean!Kept(pages[p], {text \in AllTexts : ~Clean!IsMargin(p, text)})
  BY DEF Clean!OnlyMarginsGo
<1>1. /\ page = Len(pages) + 1
      /\ kept[p] = Clean!Kept(pages[p], AllTexts \ (Clean!Repeated \cap Clean!Edges(p)))
  BY DEF CleanIInv
<1>2. \A text \in AllTexts :
        Clean!IsMargin(p, text) <=> text \in Clean!Repeated \cap Clean!Edges(p)
  BY <1>1, RepeatedAreMargins
<1>3. {text \in AllTexts : ~Clean!IsMargin(p, text)} =
        AllTexts \ (Clean!Repeated \cap Clean!Edges(p))
  BY <1>2
<1> QED BY <1>1, <1>3

LEMMA CleanMoves ==
  ASSUME [Next]_allVars
  PROVE  part' = part /\ (part = "clean" => Clean!Next \/ UNCHANGED cleanVars)
BY DEF Next, CallNext, PageStep, allVars, textVars, cleanVars

LEMMA CleanStands == ASSUME UNCHANGED cleanVars PROVE CleanIInv => CleanIInv'
<1>1. /\ pages' = pages /\ page' = page /\ margins' = margins /\ kept' = kept
      /\ removed' = removed
  BY DEF cleanVars
<1>2. \A p : Clean!Edges(p)' = Clean!Edges(p)
  BY <1>1 DEF Clean!Edges
<1>3. Clean!Repeated' = Clean!Repeated
  BY <1>1 DEF Clean!Repeated, Clean!Threshold, Clean!Used
<1>4. \A text \in AllTexts : EdgePages(text, page)' = EdgePages(text, page)
  BY <1>1, <1>2 DEF EdgePages
<1>5. \A p : (Clean!Repeated \cap Clean!Edges(p))' = Clean!Repeated \cap Clean!Edges(p)
  BY <1>2, <1>3
<1> QED BY <1>1, <1>4, <1>5 DEF CleanIInv

CleanHolds == part = "clean" => CleanIInv

\* The counters of Normalizer say on how many of the pages seen a text is at an edge.
THEOREM CleanInvariant == Spec => []CleanHolds
<1>1. Init => CleanHolds
  BY CleanInit DEF Init, CleanHolds
<1>2. CleanHolds /\ [Next]_allVars => CleanHolds'
  BY CleanMoves, CleanStands, LookStep, RemoveStep DEF CleanHolds, Clean!Next
<1> QED BY <1>1, <1>2, PTL DEF Spec

\* normalize takes from a page the texts at its own edges that stand at an edge of three
\* pages and of three fifths of those that have a text, with what repeats them between
\* its edges; everything else stays, in its order.
THEOREM OnlyMarginsAreRemoved == Spec => []OnlyMarginsGo
<1>1. CleanHolds => OnlyMarginsGo
  BY MarginsGo DEF CleanHolds, OnlyMarginsGo
<1> QED BY <1>1, CleanInvariant, PTL

(***************************************************************************)
(* MarkdownParser: the lines and their reference.                          *)
(***************************************************************************)
LEMMA ParseArranged == ASSUME NEW s, NEW b PROVE Parse!Arranged(s, b) = Arranged(s, b)
BY DEF Parse!Arranged, Arranged, Parse!Cardinality, Cardinality

LEMMA ParseAscending == ASSUME NEW s PROVE Parse!Ascending(s) = Ascending(s)
BY DEF Parse!Ascending, Ascending

\* The names of the kinds of line.
LEMMA ParseWords ==
  /\ Parse!Fences = {"backticks", "tildes"} /\ Parse!Levels = {1, 2}
  /\ Parse!HeadingOf(1) = "h1" /\ Parse!HeadingOf(2) = "h2"
  /\ \A x : Parse!IsHeading(x) <=> x \in {"h1", "h2"}
<1>1. Parse!Fences = {"backticks", "tildes"} /\ Parse!Levels = {1, 2}
  BY DEF Parse!Fences, Parse!Levels
<1>2. Parse!HeadingOf(1) = "h1" /\ Parse!HeadingOf(2) = "h2"
  BY DEF Parse!HeadingOf
<1>3. \A x : Parse!IsHeading(x) <=> x \in {"h1", "h2"}
  BY <1>1, <1>2, Zenon DEF Parse!IsHeading
<1> QED BY <1>1, <1>2, <1>3

\* The state of the code's fences after a line.
AfterLine(kind, open) ==
  IF open # "none" THEN IF kind = open THEN "none" ELSE open
  ELSE IF kind \in Parse!Fences THEN kind ELSE "none"

\* FenceBehind is the state of a scan of the fences, line by line.
LEMMA FenceSteps ==
  ASSUME lines \in Seq(Parse!Line)
  PROVE  /\ Parse!FenceBehind[0] = "none"
         /\ \A i \in 1..Len(lines) :
              Parse!FenceBehind[i] = AfterLine(lines[i], Parse!FenceBehind[i - 1])
<1> DEFINE n == Len(lines)
           V == {"none"} \cup Parse!Fences
           F == [p \in (1..n) \X V |-> AfterLine(lines[p[1]], p[2])]
           Fits(f) == f = [i \in 0..n |->
                             IF i = 0 THEN "none"
                             ELSE IF f[i - 1] # "none"
                                    THEN IF lines[i] = f[i - 1] THEN "none" ELSE f[i - 1]
                                    ELSE IF lines[i] \in Parse!Fences THEN lines[i] ELSE "none"]
           c == CHOOSE f : Fits(f)
<1>1. n \in Nat
  OBVIOUS
<1>2. F \in [(1..n) \X V -> V]
  <2>1. \A kind : \A open \in V : AfterLine(kind, open) \in V
    BY DEF AfterLine
  <2> HIDE DEF V, n
  <2> QED BY <2>1
<1>3. PICK f \in [0..n -> V] : IsRecursion(f, n, "none", F)
  <2>1. "none" \in V
    OBVIOUS
  <2> HIDE DEF V, n, F
  <2> QED BY <1>1, <1>2, <2>1, RecursionExists
<1>4. ASSUME NEW i \in 1..n PROVE F[<<i, f[i - 1]>>] = AfterLine(lines[i], f[i - 1])
  <2>1. f[i - 1] \in V
    BY <1>1, <1>3
  <2> HIDE DEF V, n
  <2> QED BY <2>1
<1>5. Fits(f)
  <2>1. f = [i \in 0..n |-> IF i = 0 THEN "none" ELSE F[<<i, f[i - 1]>>]]
    BY <1>3 DEF IsRecursion
  <2>2. \A i \in 0..n : i = 0 \/ i \in 1..n
    BY <1>1
  <2> HIDE DEF V, n, F
  <2>3. f = [i \in 0..n |-> IF i = 0 THEN "none" ELSE AfterLine(lines[i], f[i - 1])]
    BY <1>4, <2>1, <2>2
  <2> QED BY <2>3 DEF AfterLine
<1>6. Fits(c)
  <2> HIDE DEF Fits
  <2> QED BY <1>5
<1>7. Parse!FenceBehind = c
  BY DEF Parse!FenceBehind
<1> HIDE DEF c, n
<1>8. c[0] = "none" /\ \A i \in 1..n : c[i] = AfterLine(lines[i], c[i - 1])
  <2>1. 0 \in 0..n /\ \A i \in 1..n : i \in 0..n /\ i # 0
    BY <1>1
  <2> QED BY <1>6, <2>1 DEF AfterLine
<1> QED BY <1>7, <1>8 DEF n

Behind(i) == Parse!FenceBehind[i]

\* Where no code is open, none is behind lines that are no fences.
LEMMA PlainLines ==
  ASSUME lines \in Seq(Parse!Line), NEW a \in 1..(Len(lines) + 1), NEW e \in a..(Len(lines) + 1),
         Behind(a - 1) = "none", \A i \in a..(e - 1) : lines[i] \notin Parse!Fences
  PROVE  \A i \in (a - 1)..(e - 1) : Behind(i) = "none"
<1> DEFINE m == e - a
           Good == {k \in 0..m : Behind(a - 1 + k) = "none"}
<1>1. Len(lines) \in Nat /\ m \in Nat
  OBVIOUS
<1>2. 0 \in Good
  BY <1>1
<1>3. ASSUME NEW k \in 1..m, k - 1 \in Good PROVE k \in Good
  <2> DEFINE i == a - 1 + k
  <2>1. i \in 1..Len(lines) /\ i \in a..(e - 1) /\ i - 1 = a - 1 + (k - 1) /\ k \in 0..m
    BY <1>1
  <2>2. Behind(i) = AfterLine(lines[i], Behind(i - 1))
    BY <2>1, FenceSteps DEF Behind
  <2>3. lines[i] \notin Parse!Fences
    BY <2>1
  <2>4. Behind(i - 1) = "none"
    BY <1>3, <2>1
  <2>5. Behind(i) = "none"
    BY <2>2, <2>3, <2>4 DEF AfterLine
  <2> QED BY <2>1, <2>5
<1>4. \A k \in 0..m : k \in Good
  <2> HIDE DEF Good, m
  <2> QED BY <1>1, <1>2, <1>3, Counting
<1>5. ASSUME NEW i \in (a - 1)..(e - 1) PROVE Behind(i) = "none"
  <2>1. i - (a - 1) \in 0..m /\ a - 1 + (i - (a - 1)) = i
    BY <1>1
  <2> QED BY <1>4, <2>1
<1> QED BY <1>5

\* Behind a fence, its code is open up to the next fence of its kind.
LEMMA CodeLines ==
  ASSUME lines \in Seq(Parse!Line), NEW a \in 1..Len(lines), lines[a] \in Parse!Fences,
         Behind(a - 1) = "none", NEW e \in (a + 1)..(Len(lines) + 1),
         \A i \in (a + 1)..(e - 1) : lines[i] # lines[a]
  PROVE  /\ \A i \in a..(e - 1) : Behind(i) = lines[a]
         /\ e <= Len(lines) /\ lines[e] = lines[a] => Behind(e) = "none"
<1> DEFINE m == e - 1 - a
           Good == {k \in 0..m : Behind(a + k) = lines[a]}
<1>1. Len(lines) \in Nat /\ m \in Nat
  OBVIOUS
<1>2. \A i \in 1..Len(lines) : Behind(i) = AfterLine(lines[i], Behind(i - 1))
  BY FenceSteps DEF Behind
<1>3. lines[a] # "none"
  BY ParseWords
<1>4. 0 \in Good
  <2>1. Behind(a) = lines[a]
    BY <1>2 DEF AfterLine
  <2> QED BY <1>1, <2>1
<1>5. ASSUME NEW k \in 1..m, k - 1 \in Good PROVE k \in Good
  <2> DEFINE i == a + k
  <2>1. i \in 1..Len(lines) /\ i \in (a + 1)..(e - 1) /\ i - 1 = a + (k - 1) /\ k \in 0..m
    BY <1>1
  <2>2. Behind(i) = AfterLine(lines[i], Behind(i - 1)) /\ lines[i] # lines[a]
    BY <1>2, <2>1
  <2>3. Behind(i - 1) = lines[a]
    BY <1>5, <2>1
  <2>4. Behind(i) = lines[a]
    BY <1>3, <2>2, <2>3 DEF AfterLine
  <2> QED BY <2>1, <2>4
<1>6. \A k \in 0..m : k \in Good
  <2> HIDE DEF Good, m
  <2> QED BY <1>1, <1>4, <1>5, Counting
<1>7. ASSUME NEW i \in a..(e - 1) PROVE Behind(i) = lines[a]
  <2>1. i - a \in 0..m /\ a + (i - a) = i
    BY <1>1
  <2> QED BY <1>6, <2>1
<1>8. ASSUME e <= Len(lines), lines[e] = lines[a] PROVE Behind(e) = "none"
  <2>1. e \in 1..Len(lines) /\ e - 1 \in a..(e - 1)
    BY <1>1, <1>8
  <2>2. Behind(e) = AfterLine(lines[e], Behind(e - 1)) /\ Behind(e - 1) = lines[a]
    BY <1>2, <1>7, <2>1
  <2> QED BY <1>3, <1>8, <2>2 DEF AfterLine
<1> QED BY <1>7, <1>8

\* The scanner's loops over lines of one sort end at the first of another.
LEMMA AfterIs ==
  ASSUME lines \in Seq(Parse!Line), NEW first \in 1..(Len(lines) + 1), NEW these,
         these \subseteq 1..Len(lines)
  PROVE  LET j == Parse!After(first, these)
         IN /\ j \in first..(Len(lines) + 1) /\ j \notin these
            /\ \A i \in first..(j - 1) : i \in these
<1> DEFINE Ends == {j \in first..(Len(lines) + 1) : j \notin these}
<1>1. Len(lines) \in Nat /\ first \in Nat
  OBVIOUS
<1>2. Len(lines) + 1 \in Ends /\ Ends \subseteq Nat
  BY <1>1
<1>3. PICK m \in Ends : \A k \in Ends : m <= k
  <2> HIDE DEF Ends
  <2> QED BY <1>2, LeastNumber
<1>4. first..(m - 1) \subseteq these
  <2> SUFFICES ASSUME NEW i \in first..(m - 1) PROVE i \in these
    OBVIOUS
  <2>1. m \in first..(Len(lines) + 1)
    BY <1>3
  <2>2. i \in first..(Len(lines) + 1) /\ ~(m <= i)
    BY <1>1, <2>1
  <2> QED BY <1>3, <2>2
<1>5. \E j \in first..(Len(lines) + 1) : first..(j - 1) \subseteq these /\ j \notin these
  BY <1>3, <1>4
<1> DEFINE j == Parse!After(first, these)
<1>6. j \in first..(Len(lines) + 1) /\ first..(j - 1) \subseteq these /\ j \notin these
  BY <1>5 DEF Parse!After
<1> HIDE DEF j
<1>7. j \in first..(Len(lines) + 1) /\ j \notin these /\ \A i \in first..(j - 1) : i \in these
  BY <1>6
<1> QED BY <1>7 DEF j

\* Lines that are no headings leave the same headings open.
LEMMA EnclosingStays ==
  ASSUME NEW a \in Nat \ {0}, NEW i \in Nat, i >= a - 1, \A g \in a..i : ~Parse!HeadingAt(g)
  PROVE  Parse!Enclosing(i) = Parse!Enclosing(a - 1)
<1>1. ASSUME NEW h PROVE h \in Parse!Enclosing(i) <=> h \in Parse!Enclosing(a - 1)
  <2>1. CASE h \in 1..i /\ Parse!HeadingAt(h)
    <3>1. h \in 1..(a - 1)
      BY <2>1
    <3>2. (\A g \in (h + 1)..i : Parse!HeadingAt(g) => Parse!LevelAt(g) > Parse!LevelAt(h))
            <=> \A g \in (h + 1)..(a - 1) : Parse!HeadingAt(g) => Parse!LevelAt(g) > Parse!LevelAt(h)
      BY <3>1
    <3> QED BY <2>1, <3>1, <3>2 DEF Parse!Enclosing
  <2>2. CASE ~(h \in 1..i /\ Parse!HeadingAt(h))
    <3>1. ~(h \in 1..(a - 1) /\ Parse!HeadingAt(h))
      BY <2>2
    <3> QED BY <2>2, <3>1 DEF Parse!Enclosing
  <2> QED BY <2>1, <2>2
<1> QED BY <1>1

\* A heading closes those of its level and below.
LEMMA EnclosingHeading ==
  ASSUME NEW a \in Nat \ {0}, Parse!HeadingAt(a)
  PROVE  \A h : h \in Parse!Enclosing(a) <=>
                  \/ h = a
                  \/ h \in Parse!Enclosing(a - 1) /\ Parse!LevelAt(a) > Parse!LevelAt(h)
<1> SUFFICES ASSUME NEW h
             PROVE  h \in Parse!Enclosing(a) <=>
                      \/ h = a
                      \/ h \in Parse!Enclosing(a - 1) /\ Parse!LevelAt(a) > Parse!LevelAt(h)
  OBVIOUS
<1>1. CASE h = a
  <2>1. h \in 1..a /\ \A g \in (h + 1)..a : FALSE
    BY <1>1
  <2> QED BY <1>1, <2>1 DEF Parse!Enclosing
<1>2. CASE h # a /\ h \in 1..a
  <2>1. h \in 1..(a - 1) /\ a \in (h + 1)..a
    BY <1>2
  <2>2. (\A g \in (h + 1)..a : Parse!HeadingAt(g) => Parse!LevelAt(g) > Parse!LevelAt(h))
          <=> /\ Parse!LevelAt(a) > Parse!LevelAt(h)
              /\ \A g \in (h + 1)..(a - 1) :
                   Parse!HeadingAt(g) => Parse!LevelAt(g) > Parse!LevelAt(h)
    BY <2>1
  <2> QED BY <1>2, <2>1, <2>2 DEF Parse!Enclosing
<1>3. CASE h # a /\ h \notin 1..a
  <2>1. h \notin 1..(a - 1)
    BY <1>3
  <2> QED BY <1>3, <2>1 DEF Parse!Enclosing
<1> QED BY <1>1, <1>2, <1>3

(***************************************************************************)
(* MarkdownParser: the inductive invariant.  The open headings are those   *)
(* that enclose the line before the scanner's, no code is open there       *)
(* unless the text is over, and every line before is in its block.         *)
(***************************************************************************)
LEMMA LevelIs ==
  ASSUME NEW i, NEW level \in Parse!Levels, lines[i] = Parse!HeadingOf(level)
  PROVE  Parse!LevelAt(i) = level
BY ParseWords DEF Parse!LevelAt

\* The list names the numbers of a set, upwards.
Upwards(path, k, E) ==
  /\ k \in Nat /\ path \in [1..k -> E]
  /\ \A i, j \in 1..k : i < j => path[i] < path[j]
  /\ \A x \in E : \E i \in 1..k : path[i] = x

\* Numbers that are listed upwards are arranged.
LEMMA ArrangedNumbers ==
  ASSUME NEW top \in Nat, NEW E, E \subseteq 1..top, NEW k, NEW path, Upwards(path, k, E)
  PROVE  Arranged(E, Ascending(1..top)) = path
<1>1. IsFiniteSet(E)
  <2>1. 1 \in Int /\ top \in Int
    OBVIOUS
  <2>2. IsFiniteSet(1..top)
    BY <2>1, FS_Interval
  <2> QED BY <2>2, FS_Subset
<1>2. Orders(Ascending(1..top), E)
  <2>1. 1..top \subseteq Int
    OBVIOUS
  <2> QED BY <2>1, AscendingOrders
<1>3. \A i, j \in 1..k : i < j => <<path[i], path[j]>> \in Ascending(1..top)
  <2> SUFFICES ASSUME NEW i \in 1..k, NEW j \in 1..k, i < j
               PROVE  <<path[i], path[j]>> \in Ascending(1..top)
    OBVIOUS
  <2>1. path[i] < path[j] /\ path[i] \in 1..top /\ path[j] \in 1..top
    BY DEF Upwards
  <2> QED BY <2>1 DEF Ascending
<1>4. Sorts(path, k, E, Ascending(1..top))
  BY <1>3 DEF Sorts, Upwards
<1> QED BY <1>1, <1>2, <1>4, ArrangedIsOnly

\* The section path names the open headings in the order of their lines.
LEMMA PathIs ==
  ASSUME NEW top \in Nat, NEW E, E \subseteq 1..top, NEW open, DOMAIN open \subseteq Parse!Levels,
         \A l \in DOMAIN open : open[l] \in E,
         \A x \in E : \E l \in DOMAIN open : open[l] = x,
         \A l, k \in DOMAIN open : l < k => open[l] < open[k]
  PROVE  /\ Parse!SectionPath(open) = Arranged(E, Ascending(1..top))
         /\ Parse!SectionPath(open) \in Seq(Nat)
<1> DEFINE D == DOMAIN open
           levels == Arranged(D, Ascending(Parse!Levels))
           n == Cardinality(D)
           path == [i \in DOMAIN levels |-> open[levels[i]]]
<1>1. Parse!Levels = 1..2 /\ Parse!Levels \subseteq Int
  BY ParseWords
<1>2. IsFiniteSet(D)
  <2>1. 1 \in Int /\ 2 \in Int
    OBVIOUS
  <2>2. IsFiniteSet(1..2)
    BY <2>1, FS_Interval
  <2> QED BY <1>1, <2>2, FS_Subset
<1>3. Orders(Ascending(Parse!Levels), D)
  BY <1>1, AscendingOrders
<1>4. /\ n \in Nat /\ levels \in [1..n -> D]
      /\ \A i, j \in 1..n : i < j => <<levels[i], levels[j]>> \in Ascending(Parse!Levels)
      /\ \A x \in D : \E i \in 1..n : levels[i] = x
  <2> HIDE DEF D
  <2> QED BY <1>2, <1>3, ArrangedIsSorted
<1>5. Parse!SectionPath(open) = path
  BY ParseArranged, ParseAscending DEF Parse!SectionPath
<1> HIDE DEF n, levels
<1>6. path = [i \in 1..n |-> open[levels[i]]] /\ \A i \in 1..n : levels[i] \in D
  BY <1>4
<1>7. path \in [1..n -> E] /\ \A i \in 1..n : path[i] = open[levels[i]]
  <2> HIDE DEF path
  <2>1. \A i \in 1..n : open[levels[i]] \in E
    BY <1>6
  <2> QED BY <1>6, <2>1
<1> HIDE DEF path
<1>8. ASSUME NEW i \in 1..n, NEW j \in 1..n, i < j PROVE path[i] < path[j]
  <2>1. levels[i] \in D /\ levels[j] \in D /\ levels[i] < levels[j]
    BY <1>4, <1>6, <1>8 DEF Ascending
  <2> QED BY <1>7, <2>1
<1>9. \A x \in E : \E i \in 1..n : path[i] = x
  <2> SUFFICES ASSUME NEW x \in E PROVE \E i \in 1..n : path[i] = x
    OBVIOUS
  <2>1. PICK l \in D : open[l] = x
    OBVIOUS
  <2>2. PICK i \in 1..n : levels[i] = l
    BY <1>4, <2>1
  <2> QED BY <1>7, <2>1, <2>2
<1> HIDE DEF D
<1>10. Arranged(E, Ascending(1..top)) = path
  <2>1. Upwards(path, n, E)
    BY <1>4, <1>7, <1>8, <1>9 DEF Upwards
  <2> QED BY <2>1, ArrangedNumbers
<1>11. path \in Seq(Nat)
  <2>0. \A x \in E : x \in Nat
    OBVIOUS
  <2>1. \A i \in 1..n : path[i] \in Nat
    BY <1>7, <2>0
  <2>2. path = [i \in 1..n |-> path[i]]
    BY <1>7
  <2>3. [i \in 1..n |-> path[i]] \in Seq(Nat)
    BY <1>4, <2>1
  <2> QED BY <2>2, <2>3, Zenon
<1> QED BY <1>5, <1>10, <1>11

CutBlock ==
  [kind : {"heading", "code", "list", "table", "paragraph"}, first : Nat, last : Nat,
   path : Seq(Nat)]

ParseState ==
  /\ lines \in Seq(Parse!Line)
  /\ line \in 1..(Len(lines) + 1)
  /\ outcome = "parsed" => line = Len(lines) + 1
  /\ line <= Len(lines) => Behind(line - 1) = "none"

\* The headings open enclose line i; a lower level begins before a higher one.
OpenAt(open, i) ==
  /\ DOMAIN open \subseteq Parse!Levels
  /\ \A l \in DOMAIN open : open[l] \in Parse!Enclosing(i) /\ Parse!LevelAt(open[l]) = l
  /\ \A h \in Parse!Enclosing(i) : \E l \in DOMAIN open : open[l] = h
  /\ \A l, k \in DOMAIN open : l < k => open[l] < open[k]

\* Line i is in the block, of its kind and under its headings.
LineIn(block, i) ==
  /\ i \in block.first..block.last
  /\ block.kind = "code" <=> Parse!InCode(i)
  /\ block.path = Arranged(Parse!Enclosing(i), Ascending(1..i))

HasText(i) == lines[i] # "blank" /\ ~Parse!IsFence(i)

CutState ==
  /\ cut \in Seq(CutBlock)
  /\ \A b \in 1..(Len(cut) - 1) : cut[b].last < cut[b + 1].first
  /\ \A b \in 1..Len(cut) : cut[b].last < line
  /\ \A i \in 1..(line - 1) : HasText(i) => \E b \in 1..Len(cut) : LineIn(cut[b], i)

ParseIInv == ParseState /\ OpenAt(headings, line - 1) /\ CutState

\* The scanner begins with nothing open and nothing read.
LEMMA ParseInit == ASSUME Parse!Init PROVE ParseIInv
<1>1. /\ lines \in Seq(Parse!Line) /\ line = 1 /\ headings = <<>> /\ cut = <<>>
      /\ outcome = "parsing"
  BY PartsAssumption DEF Parse!Init, Parse!TextAssumption
<1>2. Parse!FenceBehind[0] = "none"
  BY <1>1, FenceSteps
<1>3. ParseState
  BY <1>1, <1>2 DEF ParseState, Behind
<1>4. Parse!Enclosing(0) = {}
  BY DEF Parse!Enclosing
<1>5. DOMAIN headings = {}
  BY <1>1
<1>6. OpenAt(headings, 0)
  BY <1>4, <1>5, Zenon DEF OpenAt
<1>7. line - 1 = 0 /\ Len(cut) = 0 /\ cut \in Seq(CutBlock)
  BY <1>1
<1>8. CutState
  BY <1>1, <1>7 DEF CutState
<1> QED BY <1>3, <1>6, <1>7, <1>8 DEF ParseIInv

\* What the reference says of a line depends on the text alone.
LEMMA ReferenceStands ==
  ASSUME lines' = lines
  PROVE  /\ \A i : Behind(i)' = Behind(i) /\ Parse!Enclosing(i)' = Parse!Enclosing(i)
         /\ \A i : Parse!LevelAt(i)' = Parse!LevelAt(i) /\ (HasText(i)' <=> HasText(i))
         /\ \A block, i : LineIn(block, i)' <=> LineIn(block, i)
<1>1. Parse!FenceBehind' = Parse!FenceBehind
  BY DEF Parse!FenceBehind
<1>2. \A i : /\ Parse!LevelAt(i)' = Parse!LevelAt(i) /\ (Parse!InCode(i)' <=> Parse!InCode(i))
             /\ (Parse!IsFence(i)' <=> Parse!IsFence(i))
  BY <1>1 DEF Parse!LevelAt, Parse!InCode, Parse!IsFence
<1>3. \A i : Parse!HeadingAt(i)' <=> Parse!HeadingAt(i)
  BY <1>2 DEF Parse!HeadingAt
<1>4. \A i : Parse!Enclosing(i)' = Parse!Enclosing(i)
  BY <1>2, <1>3 DEF Parse!Enclosing
<1>5. \A block, i : LineIn(block, i)' <=> LineIn(block, i)
  BY <1>2, <1>4 DEF LineIn
<1> QED BY <1>1, <1>2, <1>4, <1>5 DEF Behind, HasText

\* A step over the lines up to `after`, which go into a block unless they are blank.
LEMMA BlockStep ==
  ASSUME ParseIInv, NEW after \in (line + 1)..(Len(lines) + 1),
         NEW kind \in {"heading", "code", "list", "table", "paragraph"}, NEW text,
         lines' = lines, outcome = "parsing", outcome' = outcome, line' = after,
         cut' = IF \A i \in text : lines[i] = "blank" THEN cut
                ELSE Append(cut, [kind |-> kind, first |-> line, last |-> after - 1,
                                  path |-> Parse!SectionPath(headings')]),
         OpenAt(headings', after - 1),
         after <= Len(lines) => Behind(after - 1) = "none",
         \A i \in line..(after - 1) : HasText(i) =>
           /\ i \in text /\ (kind = "code" <=> Parse!InCode(i))
           /\ Parse!Enclosing(i) = Parse!Enclosing(after - 1)
  PROVE  ParseIInv'
<1>1. /\ lines \in Seq(Parse!Line) /\ Len(lines) \in Nat /\ line \in Nat /\ line > 0
      /\ after \in Nat /\ line < after /\ after <= Len(lines) + 1
  BY DEF ParseIInv, ParseState
<1>2. /\ \A i : Behind(i)' = Behind(i) /\ Parse!Enclosing(i)' = Parse!Enclosing(i)
      /\ \A i : Parse!LevelAt(i)' = Parse!LevelAt(i) /\ (HasText(i)' <=> HasText(i))
      /\ \A block, i : LineIn(block, i)' <=> LineIn(block, i)
  BY ReferenceStands
<1>3. ParseState'
  <2>1. line' \in 1..(Len(lines') + 1)
    BY <1>1
  <2>2. line' <= Len(lines') => Behind(line' - 1) = "none"
    BY <1>1
  <2>3. Parse!FenceBehind' = Parse!FenceBehind
    BY DEF Parse!FenceBehind
  <2> QED BY <1>1, <2>1, <2>2, <2>3 DEF ParseState, Behind
<1>4. OpenAt(headings, line - 1)'
  <2>1. \A open, i : OpenAt(open, i)' <=> OpenAt(open, i)
    BY <1>2 DEF OpenAt
  <2> QED BY <2>1
<1> DEFINE path == Parse!SectionPath(headings')
           new == [kind |-> kind, first |-> line, last |-> after - 1, path |-> path]
<1>5. /\ path \in Seq(Nat)
      /\ \A i \in line..(after - 1) : Parse!Enclosing(i) = Parse!Enclosing(after - 1) =>
           path = Arranged(Parse!Enclosing(i), Ascending(1..i))
  <2> DEFINE E == Parse!Enclosing(after - 1)
  <2>1. /\ DOMAIN headings' \subseteq Parse!Levels
        /\ \A l \in DOMAIN headings' : headings'[l] \in E
        /\ \A x \in E : \E l \in DOMAIN headings' : headings'[l] = x
        /\ \A l, k \in DOMAIN headings' : l < k => headings'[l] < headings'[k]
    BY DEF OpenAt
  <2>2. \A i : Parse!Enclosing(i) \subseteq 1..i
    BY DEF Parse!Enclosing
  <2>3. after - 1 \in Nat
    BY <1>1
  <2> HIDE DEF E, path
  <2>4. path \in Seq(Nat)
    <3>1. E \subseteq 1..(after - 1)
      BY <2>2 DEF E
    <3> QED BY <2>1, <2>3, <3>1, PathIs DEF path
  <2>5. ASSUME NEW i \in line..(after - 1), Parse!Enclosing(i) = E
        PROVE  path = Arranged(Parse!Enclosing(i), Ascending(1..i))
    <3>1. E \subseteq 1..i /\ i \in Nat
      BY <1>1, <2>2, <2>5
    <3>2. path = Arranged(E, Ascending(1..i))
      BY <2>1, <3>1, PathIs DEF path
    <3> QED BY <2>5, <3>2
  <2> QED BY <2>4, <2>5 DEF E
<1> HIDE DEF path
<1>6. new \in CutBlock /\ new.first = line /\ new.last = after - 1
  BY <1>1, <1>5 DEF CutBlock
<1>7. ASSUME NEW i \in line..(after - 1), HasText(i)
      PROVE  LineIn(new, i) /\ ~(\A k \in text : lines[k] = "blank")
  <2>1. /\ i \in text /\ (kind = "code" <=> Parse!InCode(i))
        /\ Parse!Enclosing(i) = Parse!Enclosing(after - 1)
    BY <1>7
  <2>2. path = Arranged(Parse!Enclosing(i), Ascending(1..i))
    BY <1>5, <2>1
  <2> QED BY <1>7, <2>1, <2>2 DEF LineIn, HasText
<1> HIDE DEF new
<1>8. /\ cut \in Seq(CutBlock) /\ Len(cut) \in Nat
      /\ \A b \in 1..(Len(cut) - 1) : cut[b].last < cut[b + 1].first
      /\ \A b \in 1..Len(cut) : cut[b].last < line /\ cut[b].last \in Nat
      /\ \A i \in 1..(line - 1) : HasText(i) => \E b \in 1..Len(cut) : LineIn(cut[b], i)
  <2>1. cut \in Seq(CutBlock) /\ \A x \in CutBlock : x.last \in Nat
    BY DEF ParseIInv, CutState, CutBlock
  <2>2. \A b \in 1..Len(cut) : cut[b].last \in Nat
    BY <2>1
  <2>3. Len(cut) \in Nat
    BY <2>1
  <2> QED BY <2>1, <2>2, <2>3 DEF ParseIInv, CutState
<1>9. /\ cut' \in Seq(CutBlock)
      /\ \A b \in 1..(Len(cut') - 1) : cut'[b].last < cut'[b + 1].first
      /\ \A b \in 1..Len(cut') : cut'[b].last < after
      /\ \A i \in 1..(after - 1) : HasText(i) => \E b \in 1..Len(cut') : LineIn(cut'[b], i)
  <2>1. CASE \A i \in text : lines[i] = "blank"
    <3>1. cut' = cut
      BY <2>1
    <3>2. \A b \in 1..Len(cut) : cut[b].last < after
      BY <1>1, <1>8
    <3>3. ASSUME NEW i \in 1..(after - 1), HasText(i) PROVE i \in 1..(line - 1)
      <4>1. i \notin line..(after - 1)
        BY <1>7, <2>1, <3>3
      <4> QED BY <1>1, <4>1
    <3> QED BY <1>8, <3>1, <3>2, <3>3
  <2>2. CASE ~(\A i \in text : lines[i] = "blank")
    <3>1. cut' = Append(cut, new)
      BY <2>2 DEF new, path
    <3> DEFINE n == Len(cut)
    <3>2. /\ cut' \in Seq(CutBlock) /\ Len(cut') = n + 1 /\ cut'[n + 1] = new
          /\ \A b \in 1..n : cut'[b] = cut[b]
      BY <1>6, <1>8, <3>1
    <3>3. n \in Nat
      BY <1>8
    <3> HIDE DEF n
    <3>4. ASSUME NEW b \in 1..(Len(cut') - 1) PROVE cut'[b].last < cut'[b + 1].first
      <4>1. b \in 1..n
        BY <3>2, <3>3
      <4>2. CASE b = n
        <5>1. cut'[b] = cut[b] /\ cut'[b + 1] = new /\ cut[b].last < line
          BY <1>8, <3>2, <4>1, <4>2 DEF n
        <5> QED BY <1>6, <5>1
      <4>3. CASE b # n
        <5>1. b + 1 \in 1..n /\ b \in 1..(n - 1)
          BY <3>3, <4>1, <4>3
        <5>2. cut'[b] = cut[b] /\ cut'[b + 1] = cut[b + 1]
          BY <3>2, <4>1, <5>1
        <5>3. cut[b].last < cut[b + 1].first
          BY <1>8, <5>1 DEF n
        <5> QED BY <5>2, <5>3
      <4> QED BY <4>2, <4>3
    <3>5. ASSUME NEW b \in 1..Len(cut') PROVE cut'[b].last < after
      <4>1. CASE b = n + 1
        BY <1>1, <1>6, <3>2, <4>1
      <4>2. CASE b # n + 1
        <5>1. b \in 1..n
          BY <3>2, <3>3, <4>2
        <5>2. cut'[b] = cut[b] /\ cut[b].last < line /\ cut[b].last \in Nat
          BY <1>8, <3>2, <5>1 DEF n
        <5> QED BY <1>1, <5>2
      <4> QED BY <4>1, <4>2
    <3>6. ASSUME NEW i \in 1..(after - 1), HasText(i)
          PROVE  \E b \in 1..Len(cut') : LineIn(cut'[b], i)
      <4>1. CASE i < line
        <5>1. PICK b \in 1..n : LineIn(cut[b], i)
          BY <1>1, <1>8, <3>6, <4>1 DEF n
        <5>2. b \in 1..Len(cut') /\ cut'[b] = cut[b]
          BY <3>2, <3>3
        <5> QED BY <5>1, <5>2
      <4>2. CASE ~(i < line)
        <5>1. LineIn(new, i)
          BY <1>1, <1>7, <3>6, <4>2
        <5>2. n + 1 \in 1..Len(cut') /\ cut'[n + 1] = new
          BY <3>2, <3>3
        <5> QED BY <5>1, <5>2
      <4> QED BY <4>1, <4>2
    <3> QED BY <3>2, <3>4, <3>5, <3>6
  <2> QED BY <2>1, <2>2
<1>10. CutState'
  <2> QED BY <1>2, <1>9 DEF CutState
<1> QED BY <1>3, <1>4, <1>10 DEF ParseIInv

\* Lines that are neither fences nor headings go under the headings that are open.
LEMMA PlainStep ==
  ASSUME ParseIInv, NEW after \in (line + 1)..(Len(lines) + 1),
         NEW kind \in {"list", "table", "paragraph"},
         lines' = lines, outcome = "parsing", outcome' = outcome, line' = after,
         headings' = headings,
         cut' = IF \A i \in line..(after - 1) : lines[i] = "blank" THEN cut
                ELSE Append(cut, [kind |-> kind, first |-> line, last |-> after - 1,
                                  path |-> Parse!SectionPath(headings)]),
         \A i \in line..(after - 1) : lines[i] \notin Parse!Fences /\ ~Parse!IsHeading(lines[i])
  PROVE  ParseIInv'
<1>1. /\ lines \in Seq(Parse!Line) /\ Len(lines) \in Nat /\ line \in 1..(Len(lines) + 1)
      /\ line <= Len(lines) /\ after \in line..(Len(lines) + 1) /\ line \in Nat \ {0}
      /\ after - 1 \in Nat /\ line <= after - 1 /\ after \in Nat
  BY DEF ParseIInv, ParseState
<1>2. Behind(line - 1) = "none"
  BY <1>1 DEF ParseIInv, ParseState
<1>3. \A i \in (line - 1)..(after - 1) : Behind(i) = "none"
  <2>1. \A i \in line..(after - 1) : lines[i] \notin Parse!Fences
    OBVIOUS
  <2> QED BY <1>1, <1>2, <2>1, PlainLines
<1>4. \A i \in line..(after - 1) : ~Parse!InCode(i) /\ ~Parse!HeadingAt(i)
  <2> SUFFICES ASSUME NEW i \in line..(after - 1)
               PROVE  ~Parse!InCode(i) /\ ~Parse!HeadingAt(i)
    OBVIOUS
  <2>1. i \in (line - 1)..(after - 1)
    BY <1>1
  <2>2. Behind(i) = "none"
    BY <1>3, <2>1
  <2> QED BY <2>2 DEF Parse!InCode, Parse!HeadingAt, Behind
<1>5. \A i \in (line - 1)..(after - 1) : Parse!Enclosing(i) = Parse!Enclosing(line - 1)
  <2> SUFFICES ASSUME NEW i \in (line - 1)..(after - 1)
               PROVE  Parse!Enclosing(i) = Parse!Enclosing(line - 1)
    OBVIOUS
  <2>1. i \in Nat /\ i >= line - 1
    BY <1>1
  <2>2. \A g \in line..i : ~Parse!HeadingAt(g)
    <3>1. \A g \in line..i : g \in line..(after - 1)
      BY <1>1, <2>1
    <3> QED BY <1>4, <3>1
  <2> QED BY <1>1, <2>1, <2>2, EnclosingStays
<1>6. after - 1 \in (line - 1)..(after - 1) /\ \A i \in line..(after - 1) : i \in (line - 1)..(after - 1)
  BY <1>1
<1>7. OpenAt(headings', after - 1)
  <2>1. OpenAt(headings, line - 1) /\ Parse!Enclosing(after - 1) = Parse!Enclosing(line - 1)
    BY <1>5, <1>6 DEF ParseIInv
  <2> QED BY <2>1 DEF OpenAt
<1>8. after <= Len(lines) => Behind(after - 1) = "none"
  BY <1>3, <1>6
<1> DEFINE text == line..(after - 1)
<1>9. \A i \in line..(after - 1) : HasText(i) =>
        /\ i \in text /\ (kind = "code" <=> Parse!InCode(i))
        /\ Parse!Enclosing(i) = Parse!Enclosing(after - 1)
  BY <1>4, <1>5, <1>6
<1>10. cut' = IF \A i \in text : lines[i] = "blank" THEN cut
                ELSE Append(cut, [kind |-> kind, first |-> line, last |-> after - 1,
                                  path |-> Parse!SectionPath(headings')])
  OBVIOUS
<1>11. kind \in {"heading", "code", "list", "table", "paragraph"}
  OBVIOUS
<1> HIDE DEF text
<1> QED BY <1>7, <1>8, <1>9, <1>10, <1>11, BlockStep

\* A blank line is in no block and needs none.
LEMMA SkipBlankStep == ASSUME ParseIInv, Parse!SkipBlank PROVE ParseIInv'
<1>1. /\ line \in Nat /\ line \in 1..(Len(lines) + 1) /\ Len(lines) \in Nat
  BY DEF ParseIInv, ParseState
<1>2. /\ outcome = "parsing" /\ line <= Len(lines) /\ lines[line] = "blank"
      /\ line' = line + 1 /\ lines' = lines /\ headings' = headings /\ cut' = cut
      /\ outcome' = outcome
  BY DEF Parse!SkipBlank, Parse!Scanning
<1> DEFINE after == line + 1
<1>3. after \in (line + 1)..(Len(lines) + 1) /\ \A i \in line..(after - 1) : i = line
  BY <1>1, <1>2
<1>4. \A i \in line..(after - 1) : lines[i] = "blank"
  BY <1>2, <1>3
<1>5. "blank" \notin Parse!Fences /\ ~Parse!IsHeading("blank")
  BY ParseWords
<1>6. \A i \in line..(after - 1) : lines[i] \notin Parse!Fences /\ ~Parse!IsHeading(lines[i])
  BY <1>4, <1>5
<1>7. cut' = IF \A i \in line..(after - 1) : lines[i] = "blank" THEN cut
             ELSE Append(cut, [kind |-> "list", first |-> line, last |-> after - 1,
                               path |-> Parse!SectionPath(headings)])
  BY <1>2, <1>4
<1>8. line' = after
  BY <1>2
<1> HIDE DEF after
<1> QED BY <1>2, <1>3, <1>6, <1>7, <1>8, PlainStep

\* Items and what is indented below them are one block.
LEMMA ListStep == ASSUME ParseIInv, Parse!List PROVE ParseIInv'
<1> DEFINE these == {i \in DOMAIN lines : lines[i] \in {"item", "indented"}}
           after == Parse!After(line, these)
<1>1. /\ lines \in Seq(Parse!Line) /\ line \in 1..(Len(lines) + 1) /\ Len(lines) \in Nat
      /\ DOMAIN lines = 1..Len(lines)
  BY DEF ParseIInv, ParseState
<1>2. /\ outcome = "parsing" /\ line <= Len(lines) /\ lines[line] = "item"
      /\ line' = after /\ lines' = lines /\ headings' = headings /\ outcome' = outcome
      /\ cut' = IF \A i \in line..(after - 1) : lines[i] = "blank" THEN cut
                ELSE Append(cut, [kind |-> "list", first |-> line, last |-> after - 1,
                                  path |-> Parse!SectionPath(headings)])
  BY DEF Parse!List, Parse!Scanning, Parse!Add
<1>3. these \subseteq 1..Len(lines) /\ line \in these
  BY <1>1, <1>2
<1>4. \A i \in these : lines[i] \notin Parse!Fences /\ ~Parse!IsHeading(lines[i])
  BY ParseWords
<1>5. /\ after \in line..(Len(lines) + 1) /\ after \notin these
      /\ \A i \in line..(after - 1) : i \in these
  <2> HIDE DEF these
  <2> QED BY <1>1, <1>3, AfterIs
<1> HIDE DEF these, after
<1>6. after \in (line + 1)..(Len(lines) + 1)
  <2>1. after # line
    BY <1>3, <1>5
  <2> QED BY <1>1, <1>5, <2>1
<1>7. \A i \in line..(after - 1) : lines[i] \notin Parse!Fences /\ ~Parse!IsHeading(lines[i])
  BY <1>4, <1>5
<1> QED BY <1>2, <1>6, <1>7, PlainStep

\* Lines with a pipe, from a head with a divider on, are one block.
LEMMA TableStep == ASSUME ParseIInv, Parse!Table PROVE ParseIInv'
<1> DEFINE these == {i \in DOMAIN lines : Parse!HasPipe(lines[i])}
           after == Parse!After(line, these)
<1>1. /\ lines \in Seq(Parse!Line) /\ line \in 1..(Len(lines) + 1) /\ Len(lines) \in Nat
      /\ DOMAIN lines = 1..Len(lines)
  BY DEF ParseIInv, ParseState
<1>2. /\ outcome = "parsing" /\ line <= Len(lines) /\ Parse!HasPipe(lines[line])
      /\ line' = after /\ lines' = lines /\ headings' = headings /\ outcome' = outcome
      /\ cut' = IF \A i \in line..(after - 1) : lines[i] = "blank" THEN cut
                ELSE Append(cut, [kind |-> "table", first |-> line, last |-> after - 1,
                                  path |-> Parse!SectionPath(headings)])
  BY DEF Parse!Table, Parse!Scanning, Parse!Add, Parse!AtTable
<1>3. these \subseteq 1..Len(lines) /\ line \in these
  BY <1>1, <1>2
<1>4. \A i \in these : lines[i] \notin Parse!Fences /\ ~Parse!IsHeading(lines[i])
  BY ParseWords DEF Parse!HasPipe
<1>5. /\ after \in line..(Len(lines) + 1) /\ after \notin these
      /\ \A i \in line..(after - 1) : i \in these
  <2> HIDE DEF these
  <2> QED BY <1>1, <1>3, AfterIs
<1> HIDE DEF these, after
<1>6. after \in (line + 1)..(Len(lines) + 1)
  <2>1. after # line
    BY <1>3, <1>5
  <2> QED BY <1>1, <1>5, <2>1
<1>7. \A i \in line..(after - 1) : lines[i] \notin Parse!Fences /\ ~Parse!IsHeading(lines[i])
  BY <1>4, <1>5
<1> QED BY <1>2, <1>6, <1>7, PlainStep

\* The lines up to whatever begins another block are one block.
LEMMA ParagraphStep == ASSUME ParseIInv, Parse!Paragraph PROVE ParseIInv'
<1> DEFINE these == {i \in DOMAIN lines : lines[i] # "blank" /\ ~Parse!Interrupts(i)}
           after == Parse!After(line, these)
<1>1. /\ lines \in Seq(Parse!Line) /\ line \in 1..(Len(lines) + 1) /\ Len(lines) \in Nat
      /\ DOMAIN lines = 1..Len(lines)
  BY DEF ParseIInv, ParseState
<1>2. /\ outcome = "parsing" /\ line <= Len(lines) /\ lines[line] # "blank"
      /\ ~Parse!Interrupts(line)
      /\ line' = after /\ lines' = lines /\ headings' = headings /\ outcome' = outcome
      /\ cut' = IF \A i \in line..(after - 1) : lines[i] = "blank" THEN cut
                ELSE Append(cut, [kind |-> "paragraph", first |-> line, last |-> after - 1,
                                  path |-> Parse!SectionPath(headings)])
  BY DEF Parse!Paragraph, Parse!Scanning, Parse!Add
<1>3. these \subseteq 1..Len(lines) /\ line \in these
  BY <1>1, <1>2
<1>4. \A i \in these : lines[i] \notin Parse!Fences /\ ~Parse!IsHeading(lines[i])
  BY DEF Parse!Interrupts
<1>5. /\ after \in line..(Len(lines) + 1) /\ after \notin these
      /\ \A i \in line..(after - 1) : i \in these
  <2> HIDE DEF these
  <2> QED BY <1>1, <1>3, AfterIs
<1> HIDE DEF these, after
<1>6. after \in (line + 1)..(Len(lines) + 1)
  <2>1. after # line
    BY <1>3, <1>5
  <2> QED BY <1>1, <1>5, <2>1
<1>7. \A i \in line..(after - 1) : lines[i] \notin Parse!Fences /\ ~Parse!IsHeading(lines[i])
  BY <1>4, <1>5
<1> QED BY <1>2, <1>6, <1>7, PlainStep

\* At the end of the text every line has been read.
LEMMA EndOfTextStep == ASSUME ParseIInv, Parse!EndOfText PROVE ParseIInv'
<1>1. line = Len(lines) + 1
  BY DEF ParseIInv, ParseState, Parse!EndOfText
<1>2. /\ lines' = lines /\ line' = line /\ headings' = headings /\ cut' = cut
  BY DEF Parse!EndOfText
<1>3. /\ \A i : Behind(i)' = Behind(i) /\ Parse!Enclosing(i)' = Parse!Enclosing(i)
      /\ \A i : Parse!LevelAt(i)' = Parse!LevelAt(i) /\ (HasText(i)' <=> HasText(i))
      /\ \A block, i : LineIn(block, i)' <=> LineIn(block, i)
  BY <1>2, ReferenceStands
<1>4. ParseState'
  <2>1. Parse!FenceBehind' = Parse!FenceBehind
    BY <1>2 DEF Parse!FenceBehind
  <2> QED BY <1>1, <1>2, <2>1 DEF ParseIInv, ParseState, Behind
<1>5. OpenAt(headings, line - 1)'
  <2>1. \A open, i : OpenAt(open, i)' <=> OpenAt(open, i)
    BY <1>3 DEF OpenAt
  <2> QED BY <1>2, <2>1 DEF ParseIInv
<1>6. CutState'
  BY <1>2, <1>3 DEF ParseIInv, CutState
<1> QED BY <1>4, <1>5, <1>6 DEF ParseIInv

\* A heading is a block of its own, under the headings above it and itself.
LEMMA HeadingStep == ASSUME ParseIInv, Parse!Heading PROVE ParseIInv'
<1>1. /\ lines \in Seq(Parse!Line) /\ line \in 1..(Len(lines) + 1) /\ Len(lines) \in Nat
      /\ line \in Nat \ {0} /\ OpenAt(headings, line - 1)
  BY DEF ParseIInv, ParseState
<1>2. PICK level \in Parse!Levels :
        /\ lines[line] = Parse!HeadingOf(level) /\ headings' = Parse!Opened(level)
        /\ Parse!Add("heading", Parse!Opened(level), {line}, line + 1)
  BY DEF Parse!Heading
<1>3. outcome = "parsing" /\ line <= Len(lines) /\ Behind(line - 1) = "none"
  BY DEF Parse!Heading, Parse!Scanning, ParseIInv, ParseState
<1> DEFINE after == line + 1
           text == {line}
<1>4. /\ lines' = lines /\ outcome' = outcome /\ line' = after
      /\ cut' = IF \A i \in text : lines[i] = "blank" THEN cut
                ELSE Append(cut, [kind |-> "heading", first |-> line, last |-> after - 1,
                                  path |-> Parse!SectionPath(headings')])
  BY <1>2 DEF Parse!Add
<1>5. after \in (line + 1)..(Len(lines) + 1) /\ after - 1 = line
      /\ \A i \in line..(after - 1) : i = line
  BY <1>1, <1>3
<1>6. Parse!IsHeading(lines[line]) /\ lines[line] \notin Parse!Fences
  BY <1>2, ParseWords
<1>7. Behind(line) = "none"
  <2>1. Behind(line) = AfterLine(lines[line], Behind(line - 1))
    BY <1>1, <1>3, FenceSteps DEF Behind
  <2> QED BY <1>3, <1>6, <2>1 DEF AfterLine
<1>8. ~Parse!InCode(line) /\ Parse!HeadingAt(line)
  BY <1>6, <1>7 DEF Parse!InCode, Parse!HeadingAt, Behind
<1>9. Parse!LevelAt(line) = level
  BY <1>2, LevelIs
<1>10. \A h : h \in Parse!Enclosing(line) <=>
         \/ h = line
         \/ h \in Parse!Enclosing(line - 1) /\ level > Parse!LevelAt(h)
  BY <1>1, <1>8, <1>9, EnclosingHeading
<1>11. OpenAt(headings', line)
  <2> DEFINE D == {k \in DOMAIN headings : k < level} \cup {level}
             open == [l \in D |-> IF l = level THEN line ELSE headings[l]]
  <2>1. headings' = open
    BY <1>2 DEF Parse!Opened
  <2>2. /\ DOMAIN headings \subseteq {1, 2} /\ level \in {1, 2} /\ Parse!Levels = {1, 2}
        /\ \A l \in DOMAIN headings :
             headings[l] \in Parse!Enclosing(line - 1) /\ Parse!LevelAt(headings[l]) = l
        /\ \A h \in Parse!Enclosing(line - 1) : \E l \in DOMAIN headings : headings[l] = h
        /\ \A l, k \in DOMAIN headings : l < k => headings[l] < headings[k]
    BY <1>1, ParseWords DEF OpenAt
  <2>3. /\ DOMAIN open = D /\ D \subseteq {1, 2} /\ open[level] = line /\ level \in D
        /\ \A l \in D : l # level => l \in DOMAIN headings /\ l < level /\ open[l] = headings[l]
        /\ \A l \in DOMAIN headings : l < level => l \in D
    BY <2>2
  <2> HIDE DEF D, open
  <2>4. ASSUME NEW l \in D
        PROVE  open[l] \in Parse!Enclosing(line) /\ Parse!LevelAt(open[l]) = l
    <3>1. CASE l = level
      BY <1>9, <1>10, <2>3, <3>1
    <3>2. CASE l # level
      <4>1. l \in DOMAIN headings /\ l < level /\ open[l] = headings[l]
        BY <2>3, <3>2
      <4>2. headings[l] \in Parse!Enclosing(line - 1) /\ Parse!LevelAt(headings[l]) = l
        BY <2>2, <4>1
      <4>3. level > l
        BY <2>2, <4>1
      <4> QED BY <1>10, <4>1, <4>2, <4>3
    <3> QED BY <3>1, <3>2
  <2>5. ASSUME NEW h \in Parse!Enclosing(line) PROVE \E l \in D : open[l] = h
    <3>1. CASE h = line
      BY <2>3, <3>1
    <3>2. CASE h # line
      <4>1. h \in Parse!Enclosing(line - 1) /\ level > Parse!LevelAt(h)
        BY <1>10, <3>2
      <4>2. PICK l \in DOMAIN headings : headings[l] = h
        BY <2>2, <4>1
      <4>3. Parse!LevelAt(h) = l /\ l \in {1, 2}
        BY <2>2, <4>2
      <4>4. l < level /\ l # level
        BY <2>2, <4>1, <4>3
      <4>5. l \in D /\ open[l] = headings[l]
        BY <2>3, <4>4
      <4> QED BY <4>2, <4>5
    <3> QED BY <3>1, <3>2
  <2>6. ASSUME NEW l \in D, NEW k \in D, l < k PROVE open[l] < open[k]
    <3>1. l # level /\ l \in DOMAIN headings /\ open[l] = headings[l]
      BY <2>2, <2>3, <2>6
    <3>2. CASE k = level
      <4>1. headings[l] \in Parse!Enclosing(line - 1)
        BY <2>2, <3>1
      <4>2. headings[l] \in 1..(line - 1)
        BY <4>1 DEF Parse!Enclosing
      <4> QED BY <1>1, <2>3, <3>1, <3>2, <4>2
    <3>3. CASE k # level
      BY <2>2, <2>3, <2>6, <3>1, <3>3
    <3> QED BY <3>2, <3>3
  <2> QED BY <2>1, <2>2, <2>3, <2>4, <2>5, <2>6 DEF OpenAt
<1>12. OpenAt(headings', after - 1)
  BY <1>5, <1>11
<1>13. after <= Len(lines) => Behind(after - 1) = "none"
  BY <1>5, <1>7
<1>14. \A i \in line..(after - 1) : HasText(i) =>
         /\ i \in text /\ ("heading" = "code" <=> Parse!InCode(i))
         /\ Parse!Enclosing(i) = Parse!Enclosing(after - 1)
  BY <1>5, <1>8
<1> HIDE DEF after, text
<1> QED BY <1>3, <1>4, <1>5, <1>12, <1>13, <1>14, BlockStep

\* Everything between two fences of a kind is one block of code.
LEMMA CodeStep == ASSUME ParseIInv, Parse!Code PROVE ParseIInv'
<1> DEFINE fence == lines[line]
           these == {i \in DOMAIN lines : ~Parse!Closes(fence, lines[i])}
           end == Parse!After(line + 1, these)
           after == IF end <= Len(lines) THEN end + 1 ELSE end
           text == (line + 1)..(end - 1)
<1>1. /\ lines \in Seq(Parse!Line) /\ line \in 1..(Len(lines) + 1) /\ Len(lines) \in Nat
      /\ DOMAIN lines = 1..Len(lines) /\ OpenAt(headings, line - 1)
  BY DEF ParseIInv, ParseState
<1>2. /\ outcome = "parsing" /\ line <= Len(lines) /\ fence \in Parse!Fences
      /\ line' = after /\ lines' = lines /\ headings' = headings /\ outcome' = outcome
      /\ cut' = IF \A i \in text : lines[i] = "blank" THEN cut
                ELSE Append(cut, [kind |-> "code", first |-> line, last |-> after - 1,
                                  path |-> Parse!SectionPath(headings)])
  BY DEF Parse!Code, Parse!Scanning, Parse!Add
<1>3. /\ these \subseteq 1..Len(lines)
      /\ \A i \in 1..Len(lines) : i \in these <=> lines[i] # fence
  BY <1>1 DEF Parse!Closes
<1>4. Behind(line - 1) = "none"
  BY <1>2 DEF ParseIInv, ParseState
<1>5. line + 1 \in 1..(Len(lines) + 1) /\ line \in 1..Len(lines)
  BY <1>1, <1>2
<1>6. /\ end \in (line + 1)..(Len(lines) + 1) /\ end \notin these
      /\ \A i \in (line + 1)..(end - 1) : i \in these
  <2> HIDE DEF these
  <2> QED BY <1>1, <1>3, <1>5, AfterIs
<1> HIDE DEF these, end
<1>7. \A i \in (line + 1)..(end - 1) : lines[i] # fence
  <2>1. \A i \in (line + 1)..(end - 1) : i \in 1..Len(lines)
    BY <1>1, <1>6
  <2> QED BY <1>3, <1>6, <2>1
<1>8. end <= Len(lines) => lines[end] = fence
  BY <1>1, <1>3, <1>6
<1>9. /\ \A i \in line..(end - 1) : Behind(i) = fence
      /\ end <= Len(lines) /\ lines[end] = fence => Behind(end) = "none"
  BY <1>1, <1>2, <1>4, <1>5, <1>6, <1>7, CodeLines
<1>10. fence # "none" /\ ~Parse!IsHeading(fence) /\ fence # "blank"
  BY <1>2, ParseWords
<1>11. /\ after \in (line + 1)..(Len(lines) + 1) /\ after \in Nat /\ line < after
       /\ \/ end <= Len(lines) /\ after - 1 = end
          \/ after = Len(lines) + 1 /\ after = end
       /\ \A i \in line..(after - 1) :
            \/ i = line
            \/ i = end /\ end <= Len(lines)
            \/ i \in text /\ i \in line..(end - 1) /\ i - 1 \in line..(end - 1)
  <2>1. line \in Nat /\ end \in Nat /\ line < end /\ end <= Len(lines) + 1 /\ line <= Len(lines)
    BY <1>1, <1>5, <1>6
  <2>2. CASE end <= Len(lines)
    <3>1. after = end + 1
      BY <2>2
    <3> HIDE DEF after
    <3> QED BY <1>1, <2>1, <2>2, <3>1
  <2>3. CASE ~(end <= Len(lines))
    <3>1. after = end /\ end = Len(lines) + 1
      BY <1>1, <2>1, <2>3
    <3> HIDE DEF after
    <3> QED BY <1>1, <2>1, <2>3, <3>1
  <2> QED BY <2>2, <2>3
<1>12. Parse!IsFence(line)
  <2>1. line \in line..(end - 1)
    BY <1>1, <1>6
  <2> QED BY <1>4, <1>9, <1>10, <2>1 DEF Parse!IsFence, Behind
<1>13. ASSUME end <= Len(lines) PROVE Parse!IsFence(end)
  <2>1. end - 1 \in line..(end - 1)
    BY <1>1, <1>6
  <2> QED BY <1>8, <1>9, <1>10, <1>13, <2>1 DEF Parse!IsFence, Behind
<1>14. ASSUME NEW i \in text, i \in line..(end - 1), i - 1 \in line..(end - 1)
       PROVE  Parse!InCode(i)
  BY <1>9, <1>10, <1>14 DEF Parse!InCode, Behind
<1>15. \A i \in line..(after - 1) : HasText(i) => i \in text /\ Parse!InCode(i)
  <2> HIDE DEF after, fence, text
  <2> QED BY <1>11, <1>12, <1>13, <1>14 DEF HasText
<1>16. \A i \in line..(after - 1) : ~Parse!HeadingAt(i)
  <2> HIDE DEF after, text
  <2>1. ~Parse!IsHeading(lines[line]) /\ (end <= Len(lines) => ~Parse!IsHeading(lines[end]))
    BY <1>8, <1>10
  <2> QED BY <1>11, <1>14, <2>1 DEF Parse!HeadingAt
<1>17. line \in Nat \ {0} /\ after - 1 \in Nat /\ line <= after - 1
  <2> HIDE DEF after
  <2> QED BY <1>1, <1>11
<1> HIDE DEF after
<1>18. \A i \in (line - 1)..(after - 1) : Parse!Enclosing(i) = Parse!Enclosing(line - 1)
  <2> SUFFICES ASSUME NEW i \in (line - 1)..(after - 1)
               PROVE  Parse!Enclosing(i) = Parse!Enclosing(line - 1)
    OBVIOUS
  <2>1. i \in Nat /\ i >= line - 1
    BY <1>17
  <2>2. \A g \in line..i : ~Parse!HeadingAt(g)
    <3>1. \A g \in line..i : g \in line..(after - 1)
      BY <1>17, <2>1
    <3> QED BY <1>16, <3>1
  <2> QED BY <1>17, <2>1, <2>2, EnclosingStays
<1>19. after - 1 \in (line - 1)..(after - 1) /\ \A i \in line..(after - 1) : i \in (line - 1)..(after - 1)
  BY <1>17
<1>20. OpenAt(headings', after - 1)
  <2>1. Parse!Enclosing(after - 1) = Parse!Enclosing(line - 1)
    BY <1>18, <1>19
  <2> QED BY <1>1, <1>2, <2>1 DEF OpenAt
<1>21. after <= Len(lines) => Behind(after - 1) = "none"
  BY <1>1, <1>8, <1>9, <1>11
<1>22. \A i \in line..(after - 1) : HasText(i) =>
         /\ i \in text /\ ("code" = "code" <=> Parse!InCode(i))
         /\ Parse!Enclosing(i) = Parse!Enclosing(after - 1)
  BY <1>15, <1>18, <1>19
<1>23. after \in (line + 1)..(Len(lines) + 1)
  BY <1>11
<1>24. cut' = IF \A i \in text : lines[i] = "blank" THEN cut
              ELSE Append(cut, [kind |-> "code", first |-> line, last |-> after - 1,
                                path |-> Parse!SectionPath(headings')])
  BY <1>2
<1> HIDE DEF text, fence
<1> QED BY <1>2, <1>20, <1>21, <1>22, <1>23, <1>24, BlockStep

LEMMA ParseStands == ASSUME UNCHANGED parseVars PROVE ParseIInv => ParseIInv'
<1>1. /\ lines' = lines /\ line' = line /\ headings' = headings /\ cut' = cut
      /\ outcome' = outcome
  BY DEF parseVars
<1>2. /\ \A i : Behind(i)' = Behind(i) /\ Parse!Enclosing(i)' = Parse!Enclosing(i)
      /\ \A i : Parse!LevelAt(i)' = Parse!LevelAt(i) /\ (HasText(i)' <=> HasText(i))
      /\ \A block, i : LineIn(block, i)' <=> LineIn(block, i)
  BY <1>1, ReferenceStands
<1>3. ParseState => ParseState'
  <2>1. Parse!FenceBehind' = Parse!FenceBehind
    BY <1>1 DEF Parse!FenceBehind
  <2> QED BY <1>1, <2>1 DEF ParseState, Behind
<1>4. OpenAt(headings, line - 1) => OpenAt(headings, line - 1)'
  <2>1. \A open, i : OpenAt(open, i)' <=> OpenAt(open, i)
    BY <1>2 DEF OpenAt
  <2> QED BY <1>1, <2>1
<1>5. CutState => CutState'
  BY <1>1, <1>2 DEF CutState
<1> QED BY <1>3, <1>4, <1>5 DEF ParseIInv

LEMMA ParseStep == ASSUME ParseIInv, Parse!Next PROVE ParseIInv'
BY SkipBlankStep, HeadingStep, CodeStep, ListStep, TableStep, ParagraphStep, EndOfTextStep
   DEF Parse!Next

LEMMA ParseMoves ==
  ASSUME [Next]_allVars
  PROVE  part' = part /\ (part = "parse" => Parse!Next \/ UNCHANGED parseVars)
BY DEF Next, CallNext, PageStep, allVars, textVars, parseVars

ParseHolds == part = "parse" => ParseIInv

\* Wherever the scanner of parse stands, its open headings are those that enclose the
\* line before, no code is open, and every line before with text is in its block.
THEOREM ParseInvariant == Spec => []ParseHolds
<1>1. Init => ParseHolds
  BY ParseInit DEF Init, ParseHolds
<1>2. ParseHolds /\ [Next]_allVars => ParseHolds'
  BY ParseMoves, ParseStands, ParseStep DEF ParseHolds
<1> QED BY <1>1, <1>2, PTL DEF Spec

\* The blocks of MarkdownParser.parse are in the order of the text, each line with text
\* is in one of its kind, and a block's section path is the headings that enclose it.
THEOREM BlocksFollowTheText == Spec => []BlocksFollowText
<1>1. ASSUME ParseIInv, outcome = "parsed"
      PROVE  /\ \A b \in 1..(Len(cut) - 1) : cut[b].last < cut[b + 1].first
             /\ \A i \in DOMAIN lines : lines[i] # "blank" /\ ~Parse!IsFence(i) =>
                  \E b \in DOMAIN cut :
                    /\ i \in cut[b].first..cut[b].last
                    /\ cut[b].kind = "code" <=> Parse!InCode(i)
                    /\ cut[b].path = Parse!Arranged(Parse!Enclosing(i), Parse!Ascending(1..i))
  <2>1. /\ DOMAIN lines = 1..Len(lines) /\ DOMAIN cut = 1..Len(cut)
        /\ line = Len(lines) + 1 /\ Len(lines) \in Nat
    BY <1>1 DEF ParseIInv, ParseState, CutState
  <2>2. ASSUME NEW i \in DOMAIN lines, lines[i] # "blank", ~Parse!IsFence(i)
        PROVE  \E b \in DOMAIN cut :
                 /\ i \in cut[b].first..cut[b].last
                 /\ cut[b].kind = "code" <=> Parse!InCode(i)
                 /\ cut[b].path = Parse!Arranged(Parse!Enclosing(i), Parse!Ascending(1..i))
    <3>1. i \in 1..(line - 1) /\ HasText(i)
      BY <2>1, <2>2 DEF HasText
    <3>2. PICK b \in 1..Len(cut) : LineIn(cut[b], i)
      BY <1>1, <3>1 DEF ParseIInv, CutState
    <3>3. Arranged(Parse!Enclosing(i), Ascending(1..i))
            = Parse!Arranged(Parse!Enclosing(i), Parse!Ascending(1..i))
      BY ParseArranged, ParseAscending
    <3>4. /\ i \in cut[b].first..cut[b].last
          /\ cut[b].kind = "code" <=> Parse!InCode(i)
          /\ cut[b].path = Parse!Arranged(Parse!Enclosing(i), Parse!Ascending(1..i))
      BY <3>2, <3>3 DEF LineIn
    <3> QED BY <2>1, <3>4
  <2> QED BY <1>1, <2>2 DEF ParseIInv, CutState
<1>2. ParseHolds => BlocksFollowText
  BY <1>1 DEF ParseHolds, BlocksFollowText, Parse!BlocksFollowText
<1> QED BY <1>2, ParseInvariant, PTL
=============================================================================
