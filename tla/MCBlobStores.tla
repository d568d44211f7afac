---------------------------- MODULE MCBlobStores ----------------------------
(***************************************************************************)
(* An instance of BlobStores for TLC: two files in sibling directories,    *)
(* under a directory that they share.  Callers that use one file share its *)
(* directory as well.                                                      *)
(***************************************************************************)
EXTENDS BlobStores, TLC

CONSTANTS ab1, cd1, sha, ab, cd

SharedPaths == ab1 :> <<sha, ab>> @@ cd1 :> <<sha, cd>>

Symmetric == Permutations(Callers)
=============================================================================
