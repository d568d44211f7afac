--------------------------- MODULE MCChunkPacker ---------------------------
(***************************************************************************)
(* Instances of ChunkPacker for TLC.                                       *)
(***************************************************************************)
EXTENDS ChunkPacker

CONSTANTS
  TargetTokens, \* the target size
  MaxTokens,    \* bound: the largest hard maximum
  MaxPieces     \* bound: the longest document

AllSettings ==
  [target : {TargetTokens}, max : 1..MaxTokens, min : 0..MaxTokens, overlap : 0..MaxTokens]

\* Settings, as the defaults, whose overlap is smaller than their minimum.
SmallOverlap == {c \in AllSettings : c.overlap < c.min}

Piece == [tokens : 1..MaxTokens, section : {"A", "B"}]

SmallDocuments == BoundedSeq(Piece, MaxPieces)
=============================================================================
