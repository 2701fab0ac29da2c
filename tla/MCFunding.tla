------------------------------ MODULE MCFunding ------------------------------
(***************************************************************************)
(* Funding for TLC: names for the constants of a run.                      *)
(***************************************************************************)
EXTENDS Funding, TLC

CONSTANTS w1, w2, k1, k2, k3, l1, l2, l3, e1, e2

OneKeyEach == [r \in Roles |-> IF r = "buyer" THEN {k1} ELSE {k3}]

\* The buyer has two keys to sign in with.
TwoBuyerKeys == [r \in Roles |-> IF r = "buyer" THEN {k1, k2} ELSE {k3}]

\* The seller has two wallets to come back with.
TwoSellerWallets == [r \in Roles |-> IF r = "buyer" THEN {l1} ELSE {l2, l3}]

\* Handlers are interchangeable, and so are escrows and the buyer's keys.
FundingSymmetry ==
  Permutations(Workers) \cup Permutations(Escrows) \cup Permutations(Keys["buyer"])

=============================================================================
