------------------------------ MODULE MCDispute ------------------------------
(***************************************************************************)
(* Dispute for TLC.                                                        *)
(***************************************************************************)
EXTENDS Dispute, TLC

CONSTANTS d1, w1, o1, o2, o3, r1, r2, loop

\* In favour of the buyer, signature on file.
BuyerTerms == [action : {"refund"}, sig : {TRUE}, tracking : {FALSE}]

\* Oracles are interchangeable.
OracleSymmetry == Permutations(Oracles)

=============================================================================
