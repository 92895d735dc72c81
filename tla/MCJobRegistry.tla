--------------------------- MODULE MCJobRegistry ---------------------------
(* Instances of JobRegistry for TLC.                                          *)
EXTENDS JobRegistry, TLC

\* Runs are interchangeable.
RunSymmetry == Permutations(Runs)
=============================================================================
