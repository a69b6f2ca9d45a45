-------------------------- MODULE MCIncrementalExtract --------------------------
(***************************************************************************)
(* Instances of IncrementalExtract for TLC.                                *)
(***************************************************************************)
EXTENDS IncrementalExtract, TLC

Symmetry == Permutations(Chunk) \union Permutations(Worker)

===============================================================================
