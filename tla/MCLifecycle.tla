---------------------------- MODULE MCLifecycle ----------------------------
(***************************************************************************)
(* Instances of Lifecycle for TLC.                                         *)
(***************************************************************************)
EXTENDS Lifecycle, TLC

CONSTANTS r1, r2, hashA, hashB

\* Two uploads of different files, and two uploads of one file.
DistinctFiles == r1 :> hashA @@ r2 :> hashB
SameFile == r1 :> hashA @@ r2 :> hashA
OneFile == r1 :> hashA
=============================================================================
