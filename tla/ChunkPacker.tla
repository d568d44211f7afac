---------------------------- MODULE ChunkPacker ----------------------------
(***************************************************************************)
(* How Chunker packs the pieces of a document into chunks                  *)
(* (ingestion/chunking.py: the constructor, the grouping of chunk(),       *)
(* _pack_group, _overlap_tail and _suffix).                                *)
(*                                                                         *)
(* A piece is its token count and its section.  _split_block has cut it to *)
(* the target size, and the default counter is additive: the tokens of a   *)
(* joined text are those of its pieces, and every piece has one at least.  *)
(* Where a suffix of a text is cut to a number of tokens, how many remain  *)
(* depends on its words: any positive number up to the limit.              *)
(***************************************************************************)
EXTENDS Naturals, SequencesExt, Lists

CONSTANTS
  Settings,    \* settings a deployment may choose
  Documents    \* documents: sequences of pieces, by settings

VARIABLES
  config,      \* the settings of the Chunker
  pieces,      \* the pieces of the document
  index,       \* the piece _pack_group looks at
  current,     \* the draft it builds
  draft,       \* the draft it appended last
  covered      \* the pieces that the drafts so far contain, overlap left out

vars == <<config, pieces, index, current, draft, covered>>

PackerAssumption ==
  /\ Settings \subseteq [target : Nat, max : Nat, min : Nat, overlap : Nat]
  /\ Documents \subseteq Seq([tokens : Nat, section : STRING])

\* The parts of a draft: pieces, or what is repeated of them.
Part(overlap) == [piece : Nat, tokens : Nat, overlap : overlap]

TokensOf(parts) == Total([i \in DOMAIN parts |-> parts[i].tokens])

\* The pieces of a draft that are no overlap, in order.
FreshOf(parts) ==
  LET fresh == Kept(parts, Part({FALSE}))
  IN [i \in DOMAIN fresh |-> fresh[i].piece]

\* The checks of the constructor.
Accepted(c) ==
  /\ 0 < c.min /\ c.min <= c.target /\ c.target <= c.max
  /\ c.overlap < c.target

(***************************************************************************)
(* The overlap: the longest run of whole pieces at the end that fits the   *)
(* budget, after a suffix of the piece before them if budget is left.      *)
(***************************************************************************)
LastParts(parts, k) ==
  [i \in 1..k |-> [parts[Len(parts) - k + i] EXCEPT !.overlap = TRUE]]

WholeParts(parts, budget) ==
  LET fits == {k \in 0..Len(parts) : TokensOf(LastParts(parts, k)) <= budget}
  IN LastParts(parts, CHOOSE k \in fits : \A j \in fits : j <= k)

\* The piece before the last `count`, cut to n tokens.
CutPart(parts, count, n) ==
  <<[piece |-> parts[Len(parts) - count].piece, tokens |-> n, overlap |-> TRUE]>>

\* Mutant of OverlapTails: the collected pieces are not reversed.
OverlapTailsReversed(parts, budget) ==
  {Reverse(WholeParts(parts, budget))}

OverlapTails(parts, budget) ==
  LET whole == WholeParts(parts, budget)
      left == budget - TokensOf(whole)
  IN IF left = 0 \/ Len(whole) = Len(parts)
       THEN {whole}
       ELSE {CutPart(parts, Len(whole), n) \o whole : n \in 1..left}

(***************************************************************************)
(* The loop of _pack_group, over the groups of chunk().                    *)
(***************************************************************************)
NewPart == [piece |-> index, tokens |-> pieces[index].tokens, overlap |-> FALSE]

\* The draft belongs to the group of the next piece.
SameGroup ==
  /\ index <= Len(pieces)
  /\ current # <<>>
  /\ pieces[Last(current).piece].section = pieces[index].section

\* Mutants of Fits: a small draft takes whatever comes, and a draft stops at
\* the target however small it is.
FitsUncapped ==
  LET proposed == TokensOf(current) + pieces[index].tokens
  IN proposed <= config.target \/ TokensOf(current) < config.min

FitsTarget == TokensOf(current) + pieces[index].tokens <= config.target

Fits ==
  LET proposed == TokensOf(current) + pieces[index].tokens
  IN \/ proposed <= config.target
     \/ TokensOf(current) < config.min /\ proposed <= config.max

Begin ==
  /\ index <= Len(pieces)
  /\ current = <<>>
  /\ current' = <<NewPart>>
  /\ index' = index + 1
  /\ UNCHANGED <<config, pieces, draft, covered>>

Extend ==
  /\ SameGroup
  /\ Fits
  /\ current' = Append(current, NewPart)
  /\ index' = index + 1
  /\ UNCHANGED <<config, pieces, draft, covered>>

AppendDraft ==
  /\ draft' = current
  /\ covered' = covered \o FreshOf(current)

\* The draft is full: the next one begins with its tail, unless the next piece
\* would not fit behind that.
Emit ==
  /\ SameGroup
  /\ ~Fits
  /\ AppendDraft
  /\ \E tail \in OverlapTails(current, config.overlap) :
       current' = IF TokensOf(tail) + pieces[index].tokens <= config.max
                    THEN tail ELSE <<>>
  /\ UNCHANGED <<config, pieces, index>>

\* Mutant of Flush: the last draft of a group is dropped.
FlushDropped ==
  /\ current # <<>>
  /\ ~SameGroup
  /\ current' = <<>>
  /\ UNCHANGED <<config, pieces, index, draft, covered>>

\* The group ends.
Flush ==
  /\ current # <<>>
  /\ ~SameGroup
  /\ AppendDraft
  /\ current' = <<>>
  /\ UNCHANGED <<config, pieces, index>>

Init ==
  /\ config \in {c \in Settings : Accepted(c)}
  /\ pieces \in {p \in Documents :
                   \A i \in DOMAIN p : p[i].tokens \in 1..config.target}
  /\ index = 1
  /\ current = <<>>
  /\ draft = <<>>
  /\ covered = <<>>

Next == Begin \/ Extend \/ Emit \/ Flush

Packed == index > Len(pieces) /\ current = <<>>

Spec == Init /\ [][Next]_vars

\* The function runs until it returns.
FairSpec == Spec /\ WF_vars(Next)

(***************************************************************************)
(* Properties.                                                             *)
(***************************************************************************)

\* No chunk exceeds the hard maximum, overlap included: the ChunkingError that
\* chunk() raises for it, which would fail the whole document, never happens.
HardCap == TokensOf(draft) <= config.max

\* Packing loses no piece, repeats none and keeps their order: what the drafts
\* contain, and what the one being built adds, is the document so far.
EveryPieceOnce == covered \o FreshOf(current) = [i \in 1..(index - 1) |-> i]

\* A chunk is a passage of the document: consecutive pieces of one section, the
\* overlap before the new ones and within its budget, only its first piece cut
\* and none empty.  No chunk is made of overlap alone.
DraftIsPassage ==
  LET n == Len(draft)
      overlap == Kept(draft, Part({TRUE}))
  IN /\ \A i \in 1..n : /\ draft[i].piece = draft[1].piece + i - 1
                        /\ pieces[draft[i].piece].section = pieces[draft[1].piece].section
                        /\ i > 1 => draft[i].tokens = pieces[draft[i].piece].tokens
     /\ \A i \in 1..n : draft[i].overlap <=> i <= Len(overlap)
     /\ \A i \in 1..Len(overlap) : overlap[i].tokens > 0
     /\ n > 0 => Len(overlap) < n
     /\ TokensOf(overlap) <= config.overlap

\* Packing a document ends, for every setting the constructor accepts.
Terminates == <>Packed
=============================================================================
