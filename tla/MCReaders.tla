----------------------------- MODULE MCReaders -----------------------------
(***************************************************************************)
(* An instance of Readers for TLC: two uploads of different files.         *)
(***************************************************************************)
EXTENDS Readers, TLC

CONSTANTS r1, r2, hashA, hashB

DistinctFiles == r1 :> hashA @@ r2 :> hashB
=============================================================================
