------------------------- MODULE MCSequentialParts -------------------------
(***************************************************************************)
(* Instances of SequentialParts for TLC: the inputs of each part.          *)
(***************************************************************************)
EXTENDS SequentialParts, SequencesExt

CONSTANTS
  TargetTokens, \* the target size of a chunk
  HardMaximum,  \* bound: the largest hard maximum
  MaxPieces,    \* bound: the longest document, in pieces and in chunks
  MaxPassages   \* bound: the longest ranking, and the most documents of a count

\* Texts of a few lines of every kind.
SmallTexts ==
  BoundedSeq({"blank", "h1", "h2", "backticks", "tildes", "item", "indented", "pipe",
              "divider", "prose"}, MaxPieces)

\* Three and four pages with texts at every place, and six, of which a text must be
\* at an edge of four.
SmallFiles ==
  LET few == {<<"a">>, <<"b">>, <<"a", "b">>}
      some == few \cup {<<>>, <<Blank, "a">>, <<"b", "a", "b">>}
      most == some \cup {<<"a", "a">>, <<"b", "a">>, <<"a", "tall">>, <<"tall", "a", "tall">>,
                        <<"a", "b", "a", Blank>>}
  IN [1..3 -> most] \cup [1..4 -> some] \cup [1..6 -> few]

\* Settings, as the defaults, whose overlap is smaller than their minimum.
SmallOverlap ==
  {c \in [target : {TargetTokens}, max : 1..HardMaximum,
          min : 0..HardMaximum, overlap : 0..HardMaximum] : c.overlap < c.min}

SmallDocuments == BoundedSeq([tokens : 1..HardMaximum, section : {"A", "B"}], MaxPieces)

\* Chunks of one and two tokens, and one above the limit of a batch.
SmallChunkLists == BoundedSeq({1, 2, TokenLimit + 1}, MaxPieces)

\* Up to two chunks each; those of the first search are 1 and 2, which says which
\* of them the second has found too.
TwoSearches ==
  LET ListsOf(some) == {list \in BoundedSeq(some, 2) :
                          \A i, j \in DOMAIN list : list[i] = list[j] => i = j}
  IN ListsOf({1, 2}) \X ListsOf(Chunks)

\* Two sections of a document, and one of another that has the first one's name.
TwoDocuments ==
  {[doc |-> "d", section |-> "A"], [doc |-> "d", section |-> "B"],
   [doc |-> "e", section |-> "A"]}

\* A selection cut by its size, and one cut by its documents.
TwoLimits ==
  {[sources |-> 2, document |-> 2, section |-> 1],
   [sources |-> 3, document |-> 1, section |-> 1]}

\* Texts whose estimate follows their characters, and texts whose estimate
\* follows their words; the largest fills what one header leaves.
SmallPassages ==
  [frame : {[chars |-> 8, words |-> 1], [chars |-> 7, words |-> 2]},
   text : {[chars |-> 2, words |-> 1], [chars |-> 7, words |-> 3],
           [chars |-> 12, words |-> 2], [chars |-> 28, words |-> 4]}]

SmallRankings == BoundedSeq(SmallPassages, MaxPassages)

\* A file to drop beside a document that may be there already.
OneDrop == <<<<"b">>>>

SmallSelections == BoundedSeq(BoundedSeq({0, 2}, 3), MaxPassages)
=============================================================================
