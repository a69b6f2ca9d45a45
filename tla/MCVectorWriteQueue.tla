-------------------------- MODULE MCVectorWriteQueue --------------------------
(* Instances of VectorWriteQueue for TLC. *)
EXTENDS VectorWriteQueue, TLC

\* Records and document workers are interchangeable in the safety runs.
Symmetry == Permutations(Event) \union Permutations(Enqueuer)
=============================================================================
