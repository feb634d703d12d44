------------------------- MODULE MCMockSubmission --------------------------
(* TLC instances of MockSubmission.                                        *)
EXTENDS MockSubmission, TLC

Symmetry == Permutations(Questions)
=============================================================================
