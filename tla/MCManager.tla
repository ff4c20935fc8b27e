----------------------------- MODULE MCManager -----------------------------
(***************************************************************************)
(* A chain of nodes for the pipeline manager.                              *)
(***************************************************************************)
EXTENDS Manager, TLC

CONSTANTS a, b, c

\* a -> b -> c
Chain == <<a, b, c>>
ChainRoots == <<a>>

\* Deletions overlap with other calls, or they do not.
MayOverlapDelete == {{"warmup"}, {"warmup", "delete"}}

ClientSymmetry == Permutations(Clients)
=============================================================================
