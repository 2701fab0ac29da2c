------------------------------- MODULE MCLogin -------------------------------
(***************************************************************************)
(* Login for TLC.                                                          *)
(***************************************************************************)
EXTENDS Login, TLC

CONSTANTS k1, k2, k3, k4, g1

\* The k1s of deals are interchangeable.
KeySymmetry == Permutations(DealKeys)

=============================================================================
