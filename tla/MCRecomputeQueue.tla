-------------------------- MODULE MCRecomputeQueue --------------------------
(* TLC instance of RecomputeQueue: row ids are interchangeable. *)
EXTENDS RecomputeQueue, TLC

RowSymmetry == Permutations(Rows)
=============================================================================
