------------------------------- MODULE Custody -------------------------------
(***************************************************************************)
(* What the service promises about the money of a deal, whatever handlers, *)
(* retries, crashes and late answers do: it leaves the escrow at most      *)
(* once, only for a party entitled to it by then, and a payout is put on   *)
(* record only after that, for one party at a time, and as the buyer's     *)
(* only if the buyer got the escrow.                                       *)
(*                                                                         *)
(* Abstract specification.  Payout and Dispute are shown to implement it.  *)
(***************************************************************************)
CONSTANT Deals

VARIABLES
  money,     \* money[d]: "escrow", or the party whom the escrow was settled for
  entitled,  \* entitled[d]: the parties the money of d may go to
  booked     \* booked[d]: the parties recorded as paid

Parties == {"seller", "buyer"}

Init ==
  /\ money = [d \in Deals |-> "escrow"]
  /\ entitled \in [Deals -> SUBSET Parties]
  /\ booked = [d \in Deals |-> {}]

\* A party becomes entitled: by the buyer's secret code, a signature, a verdict.
Entitle(d, x) ==
  /\ entitled' = [entitled EXCEPT ![d] = entitled[d] \cup {x}]
  /\ UNCHANGED <<money, booked>>

\* The agent settles the escrow, for good.
Settle(d, x) ==
  /\ money[d] = "escrow"
  /\ x \in entitled[d]
  /\ money' = [money EXCEPT ![d] = x]
  /\ UNCHANGED <<entitled, booked>>

\* The payout goes on record.  (The seller's may, although the escrow was settled
\* for the buyer: a timeout claim is a refund request whatever the side.)
Book(d, x) ==
  /\ money[d] # "escrow"
  /\ x = "buyer" => money[d] = "buyer"
  /\ booked[d] = {}
  /\ booked' = [booked EXCEPT ![d] = {x}]
  /\ UNCHANGED <<money, entitled>>

\* A later attempt overwrites the record.
Unbook(d) ==
  /\ booked' = [booked EXCEPT ![d] = {}]
  /\ UNCHANGED <<money, entitled>>

Next ==
  \E d \in Deals :
    \/ \E x \in Parties : Entitle(d, x) \/ Settle(d, x) \/ Book(d, x)
    \/ Unbook(d)

Spec == Init /\ [][Next]_<<money, entitled, booked>>

=============================================================================
