------------------------------ MODULE MCPayout ------------------------------
(***************************************************************************)
(* Payout for TLC: names for the deals and the tasks, and the terms of the *)
(* deals of a run.                                                         *)
(***************************************************************************)
EXTENDS Payout, TLC

CONSTANTS d1, d2, w1, w2, loop

\* Both timeout actions, signature on file, no tracking number required.
SignedTerms == [action : Sides, sig : {TRUE}, tracking : {FALSE}]

\* The same, and a deal in favour of the buyer without the signature.
LoopTerms == SignedTerms \cup {[action |-> "refund", sig |-> FALSE, tracking |-> FALSE]}

AllTerms == Terms

\* Request handlers are interchangeable.
WorkerSymmetry == Permutations(Workers)

=============================================================================
