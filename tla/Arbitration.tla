----------------------------- MODULE Arbitration -----------------------------
(***************************************************************************)
(* What the oracle listener promises, whatever relays, retries and the     *)
(* order of messages do: it comes to one verdict for a deal in dispute at  *)
(* most, and the deal is settled by that verdict or by none, and only if   *)
(* enough registered oracles have published it.                            *)
(*                                                                         *)
(* A verdict alone promises less: it rests on events whose signatures      *)
(* nobody has checked yet.                                                 *)
(*                                                                         *)
(* Abstract specification.  Dispute is shown to implement it.              *)
(***************************************************************************)
CONSTANTS
  Deals,
  Oracles,  \* the registered oracles
  Quorums   \* the sets of oracles that may decide together

VARIABLES
  ballots,  \* ballots[d]: the pairs <<oracle, outcome>> published for deal d
  verdict,  \* verdict[d]: the outcome the listener has found, or "none"
  ruling    \* ruling[d]: the outcome the escrow was settled by, or "none"

Outcomes == {"buyer", "seller"}

\* The oracles that have published outcome x for deal d.
Backers(d, x) == {o \in Oracles : <<o, x>> \in ballots[d]}

Init ==
  /\ ballots = [d \in Deals |-> {}]
  /\ verdict = [d \in Deals |-> "none"]
  /\ ruling = [d \in Deals |-> "none"]

\* An oracle publishes an outcome.  Nothing stops it from publishing both.
Publish(d, o, x) ==
  /\ ballots' = [ballots EXCEPT ![d] = ballots[d] \cup {<<o, x>>}]
  /\ UNCHANGED <<verdict, ruling>>

\* The listener comes to a verdict, once.
Find(d, x) ==
  /\ verdict[d] = "none"
  /\ verdict' = [verdict EXCEPT ![d] = x]
  /\ UNCHANGED <<ballots, ruling>>

\* The escrow is settled by a verdict with a quorum behind it.
Rule(d, x) ==
  /\ ruling[d] = "none"
  /\ verdict[d] = x
  /\ \E P \in Quorums : P \subseteq Backers(d, x)
  /\ ruling' = [ruling EXCEPT ![d] = x]
  /\ UNCHANGED <<ballots, verdict>>

Next ==
  \E d \in Deals, x \in Outcomes :
    \/ \E o \in Oracles : Publish(d, o, x)
    \/ Find(d, x) \/ Rule(d, x)

Spec == Init /\ [][Next]_<<ballots, verdict, ruling>>

=============================================================================
