---------------------------- MODULE DisputeSafety ----------------------------
(***************************************************************************)
(* The rows of a disputed deal: what PayoutSafety and PayoutAuthority      *)
(* prove of the payout handlers by themselves still holds when the         *)
(* oracles pay the same deals out.                                         *)
(*                                                                         *)
(* A step of Dispute is a step of Payout, for which the lemmas about one   *)
(* step are cited, or leaves the tasks, the loop and the requests alone    *)
(* (Untouched).  The new part of the invariant is WatchClaims: a watch     *)
(* that the agent has answered is alone with its escrow, as the task of a  *)
(* payout is.                                                              *)
(***************************************************************************)
EXTENDS PayoutSafety, DisputeProofs

\* An answered watch: its verdict was carried out, no payout task claims the same
\* escrow, and nothing is recorded as paid before the watch records it.
WatchClaims ==
  \A d \in Deals : watch[d] = "ok" =>
    /\ escrow[d] = Ruled(called[d])
    /\ \A t \in Tasks : task[t].pc = "ok" => task[t].deal # d
    /\ \A s \in Sides : payout[d][s] # "paid"

SInv == DisputeTypes /\ DInv /\ Authority /\ Claims /\ WatchClaims /\ Done

\* What the dispute's own steps leave alone.
Untouched == UNCHANGED <<addr, terms, due, late, task, loopVars, halted, consent>>

\* The steps of Dispute that are neither a handler's nor the crash.
OwnStep ==
  \/ \E d \in Deals :
       \/ OpenDispute(d) \/ Filed(d) \/ NotFiled(d)
       \/ RelayStep(d)
       \/ WatchStep(d)
  \/ StrayDelivery

-----------------------------------------------------------------------------
(***************************************************************************)
(* Lemmas                                                                  *)
(***************************************************************************)

LEMMA Kinds ==
  ASSUME [DisputeNext]_allVars
  PROVE  \/ [Next]_vars /\ UNCHANGED disputeVars
         \/ OwnStep
         \/ DisputeCrash /\ Next
<1>1. PayoutStep => Next
  BY DEF PayoutStep, Next
<1>2. DisputeCrash => Next
  BY DEF DisputeCrash, Next
<1>3. UNCHANGED allVars => UNCHANGED vars /\ UNCHANGED disputeVars
  BY DEF allVars, payoutVars, vars
<1> QED
  BY <1>1, <1>2, <1>3 DEF DisputeNext, OwnStep

\* What happens on the relays and between them and a watch leaves the rest alone.
LEMMA RelayLeaves ==
  ASSUME NEW d, RelayStep(d)
  PROVE  UNCHANGED <<payoutVars, filing, watch, stray, called>>
<1>1. ASSUME NEW o, NEW x, Publish(d, o, x)
      PROVE  UNCHANGED <<payoutVars, filing, watch, stray, called>>
  BY <1>1 DEF Publish, watchVars
<1>2. ASSUME NEW r, NEW o, NEW x, NEW signed, Hear(d, r, o, x, signed)
      PROVE  UNCHANGED <<payoutVars, filing, watch, stray, called>>
  BY <1>2 DEF Hear, watchVars
<1>3. CASE Chatter(d)
  BY <1>3, ChatterLeaves
<1> QED
  BY <1>1, <1>2, <1>3, RelaySteps

LEMMA OwnUntouched ==
  ASSUME OwnStep
  PROVE  Untouched
<1> USE DEF Untouched
<1>1. ASSUME NEW d \in Deals, OpenDispute(d) \/ Filed(d) \/ NotFiled(d)
      PROVE  Untouched
  BY <1>1 DEF OpenDispute, Filed, NotFiled, agentVars
<1>2. ASSUME NEW d \in Deals, RelayStep(d)
      PROVE  Untouched
  BY <1>2, RelayLeaves DEF payoutVars, loopVars
<1>3. ASSUME NEW d \in Deals, NEW x, Call(d, x)
      PROVE  Untouched
  BY <1>3 DEF Call, agentVars
<1>4. ASSUME NEW d \in Deals, NoInvoice(d) \/ OracleBegin(d) \/ OracleAnswers(d)
                              \/ OracleFails(d) \/ OracleSucceeds(d) \/ OracleReverts(d)
      PROVE  Untouched
  BY <1>4 DEF NoInvoice, OracleBegin, OracleAnswers, OracleFails, OracleSucceeds, OracleReverts,
     payoutVars, loopVars, agentVars, dbVars
<1>5. CASE StrayDelivery
  BY <1>5 DEF StrayDelivery, dbVars
<1> QED
  BY <1>1, <1>2, <1>3, <1>4, <1>5 DEF OwnStep, WatchStep

\* Authorisation is the business of the tasks.
LEMMA UntouchedAuthority ==
  ASSUME Authority, Untouched
  PROVE  Authority'
<1>1. TaskInv'
  BY SameTasks DEF Authority, Untouched
<1>2. AddrInv' /\ QueueInv' /\ LateInv'
  BY DEF Authority, AddrInv, QueueInv, LateInv, OpOK, Untouched, loopVars
<1> QED
  BY <1>1, <1>2 DEF Authority

\* What a watch's side and the agent's names for it are.
LEMMA SideNames ==
  /\ \A x \in Outcomes : Winner(x) \in Sides
  /\ \A x : Ruled(x) \in Settled /\ (Winner(x) = "refund" => Ruled(x) = "refunded")
BY DEF Outcomes, Winner, Sides, Ruled, Settled

LEMMA SideOfType ==
  ASSUME NEW d
  PROVE  SideOf(d) \in Sides
BY DEF SideOf, Winner, Sides

(***************************************************************************)
(* The effect of the dispute's own steps on the rows.                      *)
(***************************************************************************)

\* A step that writes no payout status, no txid, and moves no row or only those
\* of a filing.
Filing(d) ==
  /\ UNCHANGED <<payout, txid>>
  /\ \/ status' = status
     \/ status' = [status EXCEPT ![d] = "disputed"]
     \/ filing[d] # NoFiling /\ status' = [status EXCEPT ![d] = filing[d]]

\* A step of a watch on the row: the deal is taken into the payout, out of it, or
\* shown as paid out.
Marks(d, s) ==
  \/ UNCHANGED <<status, payout, txid>>
  \/ /\ txid' = txid
     /\ \/ /\ status' = [status EXCEPT ![d] = Transitional(s)]
           /\ payout' = [payout EXCEPT ![d][s] = "pending"]
        \/ /\ status' = [status EXCEPT ![d] = "disputed"]
           /\ payout' = [payout EXCEPT ![d][s] = "failed"]
  \/ /\ status' = [status EXCEPT ![d] = Completed(s)]
     /\ txid' = [txid EXCEPT ![d][s] = TRUE]
     /\ \/ payout' = [payout EXCEPT ![d][s] = "awaiting_address"]
        \/ watch[d] = "ok" /\ s = SideOf(d) /\ payout' = [payout EXCEPT ![d][s] = "paid"]

LEMMA OwnRows ==
  ASSUME OwnStep
  PROVE  \/ UNCHANGED <<status, payout, txid>>
         \/ \E d \in Deals : Filing(d) \/ \E s \in Sides : Marks(d, s)
<1>1. ASSUME NEW d \in Deals, OpenDispute(d) \/ Filed(d) \/ NotFiled(d)
      PROVE  Filing(d)
  BY <1>1 DEF OpenDispute, Filed, NotFiled, StartWatch, TakeBack, Filing
<1>2. ASSUME NEW d \in Deals, RelayStep(d)
      PROVE  UNCHANGED <<status, payout, txid>>
  BY <1>2, RelayLeaves DEF payoutVars
<1>3. ASSUME NEW d \in Deals, NEW x \in Outcomes, Call(d, x)
      PROVE  Marks(d, Winner(x))
  BY <1>3 DEF Call, MarkAwaiting, Marks
<1>4. ASSUME NEW d \in Deals, NoInvoice(d) \/ OracleAnswers(d) \/ OracleFails(d)
      PROVE  UNCHANGED <<status, payout, txid>>
  BY <1>4 DEF NoInvoice, OracleAnswers, OracleFails, payoutVars, dbVars
<1>5. ASSUME NEW d \in Deals, OracleBegin(d) \/ OracleSucceeds(d) \/ OracleReverts(d)
      PROVE  Marks(d, SideOf(d))
  BY <1>5 DEF OracleBegin, OracleSucceeds, OracleReverts, RollBack, AtomicTransition, Marks
<1>6. CASE StrayDelivery
  BY <1>6 DEF StrayDelivery, dbVars
<1> QED
  BY <1>1, <1>2, <1>3, <1>4, <1>5, <1>6, SideNames, SideOfType DEF OwnStep, WatchStep

(***************************************************************************)
(* And on the escrow.                                                      *)
(***************************************************************************)

\* The agent takes a funded escrow into dispute, or settles a disputed one by the
\* verdict.
Judged(d) ==
  \E op :
    /\ escrow' = [escrow EXCEPT ![d] = op]
    /\ \/ escrow[d] = "funded" /\ op = "disputed"
       \/ /\ escrow[d] = "disputed"
          /\ called[d] \in Outcomes
          /\ op = Ruled(called[d])
          /\ Backed(d, called[d])

LEMMA OwnEscrow ==
  ASSUME DInv, OwnStep
  PROVE  \/ escrow' = escrow
         \/ UNCHANGED <<called, status, payout, txid>> /\ \E d \in Deals : Judged(d)
         \/ \E d \in Deals : escrow[d] = "funded" /\ Judged(d) /\ UNCHANGED <<called, payout, txid>>
<1>1. ASSUME NEW d \in Deals, OpenDispute(d) \/ Filed(d) \/ NotFiled(d)
      PROVE  escrow' = escrow \/ (escrow[d] = "funded" /\ Judged(d) /\ UNCHANGED <<called, payout, txid>>)
  BY <1>1 DEF OpenDispute, Filed, NotFiled, MarksDisputed, Judged, agentVars
<1>2. ASSUME NEW d \in Deals, RelayStep(d)
      PROVE  escrow' = escrow
  BY <1>2, RelayLeaves DEF payoutVars
<1>3. ASSUME NEW d \in Deals, NEW x, Call(d, x)
      PROVE  escrow' = escrow
  BY <1>3 DEF Call, agentVars
<1>4. ASSUME NEW d \in Deals, OracleAnswers(d) \/ OracleFails(d)
      PROVE  escrow' = escrow \/ (Judged(d) /\ UNCHANGED <<called, status, payout, txid>>)
  <2>1. called[d] \in Outcomes /\ (Accepts(d) => Backed(d, called[d]))
    BY <1>4, AcceptedBacked DEF OracleAnswers, OracleFails, DInv, Once, Shape
  <2> QED
    BY <1>4, <2>1 DEF OracleAnswers, OracleFails, Arbitrates, Accepts, Judged, dbVars
<1>5. ASSUME NEW d \in Deals, NoInvoice(d) \/ OracleBegin(d) \/ OracleSucceeds(d) \/ OracleReverts(d)
      PROVE  escrow' = escrow
  BY <1>5 DEF NoInvoice, OracleBegin, OracleSucceeds, OracleReverts, payoutVars, agentVars
<1>6. CASE StrayDelivery
  <2>1. PICK m \in stray :
          escrow' = IF escrow[m[1]] = (IF m[2] = "disputed" THEN "funded" ELSE "disputed")
                    THEN [escrow EXCEPT ![m[1]] = m[2]] ELSE escrow
    BY <1>6 DEF StrayDelivery
  <2>2. /\ m[1] \in Deals
        /\ m[2] # "disputed" => /\ called[m[1]] \in Outcomes /\ m[2] = Ruled(called[m[1]])
                                /\ Backed(m[1], called[m[1]])
    BY DEF DInv, Shape, StrayBacked
  <2>3. escrow' = escrow \/ Judged(m[1])
    BY <2>1, <2>2 DEF Judged
  <2> QED
    BY <1>6, <2>2, <2>3 DEF StrayDelivery, dbVars
<1> QED
  BY <1>1, <1>2, <1>3, <1>4, <1>5, <1>6 DEF OwnStep, WatchStep

-----------------------------------------------------------------------------
(***************************************************************************)
(* Types                                                                   *)
(***************************************************************************)

LEMMA OwnTypes ==
  ASSUME DisputeTypes, DInv, OwnStep
  PROVE  TypeOK'
<1>1. Untouched
  BY OwnUntouched
<1>2. {"pending", "failed", "paid", "awaiting_address"} \subseteq PayoutStatuses
  BY DEF PayoutStatuses
<1> DEFINE RowsOK == /\ status \in [Deals -> Statuses]
                     /\ payout \in [Deals -> [Sides -> PayoutStatuses]]
                     /\ txid \in [Deals -> [Sides -> BOOLEAN]]
<1>0. RowsOK
  BY DEF DisputeTypes, TypeOK
<1>3. RowsOK'
  <2>1. CASE UNCHANGED <<status, payout, txid>>
    BY <2>1 DEF DisputeTypes, TypeOK
  <2>2. ASSUME NEW d \in Deals, Filing(d)
        PROVE  RowsOK'
    <3>1. filing[d] # NoFiling => filing[d] \in Statuses
      BY DEF DisputeTypes, Statuses
    <3> QED
      BY <2>2, <3>1 DEF Filing, DisputeTypes, TypeOK, Statuses
  <2>3. ASSUME NEW d \in Deals, NEW s \in Sides, Marks(d, s)
        PROVE  RowsOK'
    <3>1. status' \in [Deals -> Statuses]
      <4>1. status' = status \/ \E v \in Statuses : status' = [status EXCEPT ![d] = v]
        <5>1. "disputed" \in Statuses
          BY DEF Statuses
        <5> QED
          BY <2>3, <5>1, SideTypes DEF Marks
      <4> QED
        BY <1>0, <4>1
    <3>2. payout' \in [Deals -> [Sides -> PayoutStatuses]]
      <4>1. payout' = payout \/ \E v \in PayoutStatuses : payout' = [payout EXCEPT ![d][s] = v]
        BY <2>3, <1>2 DEF Marks
      <4>2. ASSUME NEW v \in PayoutStatuses, payout' = [payout EXCEPT ![d][s] = v]
            PROVE  payout' \in [Deals -> [Sides -> PayoutStatuses]]
        BY <1>0, <4>2, PayoutUpdate
      <4> QED
        BY <1>0, <4>1, <4>2
    <3>3. txid' \in [Deals -> [Sides -> BOOLEAN]]
      <4>1. txid' = txid \/ txid' = [txid EXCEPT ![d][s] = TRUE]
        BY <2>3 DEF Marks
      <4>2. [txid EXCEPT ![d][s] = TRUE] \in [Deals -> [Sides -> BOOLEAN]]
        BY <1>0, FlagUpdate
      <4> QED
        BY <1>0, <4>1, <4>2
    <3> QED
      BY <3>1, <3>2, <3>3
  <2> QED
    BY <2>1, <2>2, <2>3, OwnRows
<1>4. escrow' \in [Deals -> EscrowStates]
  <2>1. ASSUME NEW d \in Deals, Judged(d)
        PROVE  escrow' \in [Deals -> EscrowStates]
    BY <2>1 DEF Judged, DisputeTypes, TypeOK, Ruled, EscrowStates
  <2> QED
    BY <2>1, OwnEscrow DEF DisputeTypes, TypeOK
<1> QED
  BY <1>1, <1>3, <1>4 DEF Untouched, DisputeTypes, TypeOK, loopVars

LEMMA RelayTypes ==
  ASSUME DisputeTypes, [DisputeNext]_allVars
  PROVE  /\ posted' \subseteq Deals \X Oracles \X Outcomes
         /\ unsigned' \subseteq Deals \X Oracles \X Outcomes
         /\ garbled' \subseteq Deals \X Relays
<1> USE DEF relayVars
<1>1. CASE UNCHANGED relayVars
  BY <1>1 DEF DisputeTypes
<1>2. ASSUME NEW d \in Deals, NEW x \in Outcomes, NEW o \in Oracles, Publish(d, o, x)
      PROVE  posted' \subseteq Deals \X Oracles \X Outcomes /\ UNCHANGED <<unsigned, garbled>>
  BY <1>2 DEF Publish, Attestation, DisputeTypes
<1>3. ASSUME NEW d \in Deals, Noise(d)
      PROVE  /\ unsigned' \subseteq Deals \X Oracles \X Outcomes
             /\ garbled' \subseteq Deals \X Relays
             /\ UNCHANGED posted
  BY <1>3 DEF Noise, Attestation, DisputeTypes
<1>4. ASSUME NEW d, NEW r, NEW o, NEW x, NEW signed, Hear(d, r, o, x, signed)
      PROVE  UNCHANGED relayVars
  BY <1>4 DEF Hear
<1>5. ASSUME NEW d, NEW r, Connect(d, r) \/ Lose(d, r) \/ Choke(d, r)
      PROVE  UNCHANGED relayVars
  BY <1>5 DEF Connect, Lose, Choke, EarMoves
<1>6. ASSUME NEW d, WatchStep(d)
      PROVE  UNCHANGED relayVars
  BY <1>6 DEF WatchStep, Call, NoInvoice, OracleBegin, OracleAnswers, OracleFails,
     OracleSucceeds, OracleReverts
<1>7. ASSUME NEW d, OpenDispute(d) \/ Filed(d) \/ NotFiled(d)
      PROVE  UNCHANGED relayVars
  BY <1>7 DEF OpenDispute, Filed, NotFiled
<1>8. ASSUME NEW d \in Deals, RelayStep(d)
      PROVE  /\ posted' \subseteq Deals \X Oracles \X Outcomes
             /\ unsigned' \subseteq Deals \X Oracles \X Outcomes
             /\ garbled' \subseteq Deals \X Relays
  BY <1>1, <1>2, <1>3, <1>4, <1>5, <1>8, RelaySteps DEF Chatter, DisputeTypes
<1> QED
  BY <1>1, <1>6, <1>7, <1>8 DEF DisputeNext, StrayDelivery, DisputeCrash, disputeVars, allVars

LEMMA EarType ==
  ASSUME DisputeTypes, [DisputeNext]_allVars
  PROVE  ear' \in [Deals -> [Relays -> EarPoints]]
<1> USE DEF watchVars
<1>1. CASE UNCHANGED ear
  BY <1>1 DEF DisputeTypes
<1>2. ASSUME NEW d \in Deals, \E p \in EarPoints : ear' = [ear EXCEPT ![d] = [r \in Relays |-> p]]
      PROVE  ear' \in [Deals -> [Relays -> EarPoints]]
  BY <1>2 DEF DisputeTypes
<1>3. ASSUME NEW d \in Deals, NEW r \in Relays, NEW p, NEW q \in EarPoints, EarMoves(d, r, p, q)
      PROVE  ear' \in [Deals -> [Relays -> EarPoints]]
  BY <1>3 DEF EarMoves, DisputeTypes
<1>4. ASSUME NEW d \in Deals, RelayStep(d)
      PROVE  ear' \in [Deals -> [Relays -> EarPoints]]
  <2>1. ASSUME NEW o, NEW x, Publish(d, o, x)
        PROVE  UNCHANGED ear
    BY <2>1 DEF Publish
  <2>2. ASSUME NEW r, NEW o, NEW x, NEW signed, Hear(d, r, o, x, signed)
        PROVE  UNCHANGED ear
    BY <2>2 DEF Hear
  <2>3. Noise(d) => UNCHANGED ear
    BY DEF Noise
  <2>4. ASSUME NEW r \in Relays, Connect(d, r) \/ Lose(d, r) \/ Choke(d, r)
        PROVE  \E p, q \in EarPoints : EarMoves(d, r, p, q)
    BY <2>4 DEF Connect, Lose, Choke, EarPoints
  <2> QED
    BY <1>1, <1>3, <1>4, <2>1, <2>2, <2>3, <2>4, RelaySteps DEF Chatter
<1>5. ASSUME NEW d \in Deals, WatchStep(d)
      PROVE  ear' \in [Deals -> [Relays -> EarPoints]]
  BY <1>1, <1>2, <1>5 DEF WatchStep, Call, NoInvoice, OracleBegin, OracleAnswers, OracleFails,
     OracleSucceeds, OracleReverts, EarPoints
<1>6. ASSUME NEW d \in Deals, OpenDispute(d) \/ Filed(d) \/ NotFiled(d)
      PROVE  ear' \in [Deals -> [Relays -> EarPoints]]
  BY <1>1, <1>2, <1>6 DEF OpenDispute, Filed, NotFiled, StartWatch, NewWatch, EarPoints
<1>7. CASE DisputeCrash
  BY <1>7 DEF DisputeCrash, EarPoints
<1> QED
  BY <1>1, <1>4, <1>5, <1>6, <1>7 DEF DisputeNext, StrayDelivery, disputeVars, allVars

LEMMA FilingType ==
  ASSUME DisputeTypes, [DisputeNext]_allVars
  PROVE  filing' \in [Deals -> {NoFiling, "funded", "shipped"}]
<1>1. CASE UNCHANGED filing
  BY <1>1 DEF DisputeTypes
<1>2. ASSUME NEW d \in Deals, OpenDispute(d) \/ Filed(d) \/ NotFiled(d)
      PROVE  filing' \in [Deals -> {NoFiling, "funded", "shipped"}]
  <2>1. \/ filing' = filing
        \/ \E v \in {NoFiling, "funded", "shipped"} : filing' = [filing EXCEPT ![d] = v]
    BY <1>2 DEF OpenDispute, Filed, NotFiled, StartWatch, TakeBack
  <2> QED
    BY <2>1 DEF DisputeTypes
<1>3. ASSUME NEW d, WatchStep(d)
      PROVE  UNCHANGED filing
  BY <1>3 DEF WatchStep, Call, NoInvoice, OracleBegin, OracleAnswers, OracleFails,
     OracleSucceeds, OracleReverts
<1>4. ASSUME NEW d \in Deals, RelayStep(d)
      PROVE  UNCHANGED filing
  BY <1>4, RelayLeaves DEF payoutVars
<1>5. CASE DisputeCrash
  BY <1>5 DEF DisputeCrash
<1> QED
  BY <1>1, <1>2, <1>3, <1>4, <1>5 DEF DisputeNext, StrayDelivery, disputeVars, allVars

LEMMA TypesStep ==
  ASSUME DisputeTypes, DInv, [DisputeNext]_allVars
  PROVE  DisputeTypes'
<1>1. TypeOK'
  BY Kinds, TypeStep, OwnTypes DEF DisputeTypes
<1>2. DInv'
  BY StepInv
<1> QED
  BY <1>1, <1>2, RelayTypes, EarType, FilingType DEF DisputeTypes, DInv, Shape

-----------------------------------------------------------------------------
(***************************************************************************)
(* The claims on an escrow                                                 *)
(***************************************************************************)

\* A step of the watch of d.
LEMMA WatchAt ==
  ASSUME DisputeTypes, NEW d \in Deals, WatchStep(d)
  PROVE  /\ \A e \in Deals \ {d} :
              watch'[e] = watch[e] /\ called'[e] = called[e] /\ payout'[e] = payout[e]
         /\ watch'[d] = "ok" => OracleAnswers(d)
<1>1. \/ watch' = watch
      \/ \E v : watch' = [watch EXCEPT ![d] = v]
  BY DEF WatchStep, Call, EndWatch, MarkAwaiting, NoInvoice, OracleBegin, OracleAnswers,
     OracleFails, OracleSucceeds, OracleReverts
<1>2. called' = called \/ \E x : called' = [called EXCEPT ![d] = x]
  BY DEF WatchStep, Call, NoInvoice, OracleBegin, OracleAnswers, OracleFails, OracleSucceeds,
     OracleReverts
<1>3. payout' = payout \/ \E s, v : payout' = [payout EXCEPT ![d][s] = v]
  <2>1. ASSUME NEW x, Call(d, x)
        PROVE  payout' = payout \/ \E s, v : payout' = [payout EXCEPT ![d][s] = v]
    BY <2>1 DEF Call, MarkAwaiting
  <2>2. CASE OracleBegin(d) \/ OracleSucceeds(d) \/ OracleReverts(d)
    BY <2>2 DEF OracleBegin, OracleSucceeds, OracleReverts, RollBack, AtomicTransition
  <2>3. CASE NoInvoice(d) \/ OracleAnswers(d) \/ OracleFails(d)
    BY <2>3 DEF NoInvoice, OracleAnswers, OracleFails, payoutVars, dbVars
  <2> QED
    BY <2>1, <2>2, <2>3 DEF WatchStep
<1>4. watch'[d] = "ok" => OracleAnswers(d)
  <2>1. ASSUME NEW x, Call(d, x)
        PROVE  watch'[d] # "ok"
    BY <2>1 DEF Call, EndWatch, MarkAwaiting, DisputeTypes
  <2>2. CASE NoInvoice(d) \/ OracleBegin(d) \/ OracleFails(d) \/ OracleSucceeds(d) \/ OracleReverts(d)
    BY <2>2 DEF NoInvoice, OracleBegin, OracleFails, OracleSucceeds, OracleReverts, EndWatch,
       DisputeTypes
  <2> QED
    BY <2>1, <2>2 DEF WatchStep
<1> QED
  BY <1>1, <1>2, <1>3, <1>4 DEF DisputeTypes, TypeOK

\* An answered watch after a step: it was answered before, or it is now.
LEMMA OkBefore ==
  ASSUME DisputeTypes, OwnStep, NEW e \in Deals, watch'[e] = "ok"
  PROVE  \/ OracleAnswers(e)
         \/ watch[e] = "ok" /\ called'[e] = called[e] /\ payout'[e] = payout[e]
<1>1. ASSUME NEW d \in Deals, OpenDispute(d) \/ Filed(d) \/ NotFiled(d)
      PROVE  watch[e] = "ok" /\ called'[e] = called[e] /\ payout'[e] = payout[e]
  <2>1. watch' = watch \/ watch' = [watch EXCEPT ![d] = "listen"]
    BY <1>1 DEF OpenDispute, Filed, NotFiled, StartWatch, NewWatch, watchVars
  <2> QED
    BY <1>1, <2>1 DEF OpenDispute, Filed, NotFiled, DisputeTypes
<1>2. ASSUME NEW d \in Deals, RelayStep(d)
      PROVE  watch[e] = "ok" /\ called'[e] = called[e] /\ payout'[e] = payout[e]
  BY <1>2, RelayLeaves DEF payoutVars
<1>3. CASE StrayDelivery
  BY <1>3 DEF StrayDelivery, watchVars, dbVars
<1> QED
  BY <1>1, <1>2, <1>3, WatchAt DEF OwnStep

\* The dispute's own steps settle no escrow again.
LEMMA OwnSettled ==
  ASSUME DisputeTypes, DInv, OwnStep, NEW d \in Deals, escrow[d] \in Settled
  PROVE  escrow'[d] = escrow[d]
<1>1. ASSUME NEW e \in Deals, Judged(e)
      PROVE  escrow'[d] = escrow[d]
  BY <1>1 DEF Judged, DisputeTypes, TypeOK, Settled
<1> QED
  BY <1>1, OwnEscrow

\* The watch of d records the payout of its verdict.
Books(d) ==
  /\ watch[d] = "ok"
  /\ payout' = [payout EXCEPT ![d][SideOf(d)] = "paid"]
  /\ UNCHANGED <<escrow, called>>

\* A step that records no payout as paid.
Unpaid ==
  \/ payout' = payout
  \/ \E d \in Deals, s \in Sides, v \in PayoutStatuses \ {"paid"} :
       payout' = [payout EXCEPT ![d][s] = v]

LEMMA OwnUnpaid ==
  ASSUME OwnStep, ~\E d \in Deals : OracleSucceeds(d)
  PROVE  Unpaid
<1>1. {"pending", "failed", "awaiting_address"} \subseteq PayoutStatuses \ {"paid"}
  BY DEF PayoutStatuses
<1>2. ASSUME NEW d \in Deals, NEW x \in Outcomes, Call(d, x)
      PROVE  Unpaid
  BY <1>1, <1>2, SideNames DEF Call, MarkAwaiting, Unpaid
<1>3. ASSUME NEW d \in Deals, OracleBegin(d) \/ OracleReverts(d)
      PROVE  Unpaid
  BY <1>1, <1>3, SideOfType DEF OracleBegin, OracleReverts, RollBack, AtomicTransition,
     Unpaid
<1>4. ASSUME NEW d \in Deals, NoInvoice(d) \/ OracleAnswers(d) \/ OracleFails(d)
      PROVE  Unpaid
  BY <1>4 DEF NoInvoice, OracleAnswers, OracleFails, payoutVars, dbVars, Unpaid
<1>5. ASSUME NEW d \in Deals, OpenDispute(d) \/ Filed(d) \/ NotFiled(d)
      PROVE  Unpaid
  BY <1>5 DEF OpenDispute, Filed, NotFiled, Unpaid
<1>6. ASSUME NEW d \in Deals, RelayStep(d)
      PROVE  Unpaid
  BY <1>6, RelayLeaves DEF payoutVars, Unpaid
<1>7. CASE StrayDelivery
  BY <1>7 DEF StrayDelivery, dbVars, Unpaid
<1> QED
  BY <1>2, <1>3, <1>4, <1>5, <1>6, <1>7 DEF OwnStep, WatchStep

\* The dispute's own steps are quiet, but for that one.
LEMMA OwnKinds ==
  ASSUME DisputeTypes, DInv, OwnStep
  PROVE  Quiet \/ \E d \in Deals : Books(d)
<1>1. \A t \in Tasks : task'[t].pc = "ok" => task'[t] = task[t]
  BY OwnUntouched DEF Untouched
<1>2. \A d \in Deals : escrow[d] \in Settled => escrow'[d] = escrow[d]
  BY OwnSettled
<1>3. ASSUME NEW d \in Deals, OracleSucceeds(d)
      PROVE  payout' = payout \/ Books(d)
  BY <1>3 DEF OracleSucceeds, Books, agentVars
<1>4. ASSUME ~\E d \in Deals : OracleSucceeds(d)
      PROVE  \A e \in Deals, r \in Sides : payout'[e][r] = "paid" => payout[e][r] = "paid"
  BY <1>4, OwnUnpaid, UnpaidUpdate DEF Unpaid, DisputeTypes
<1> QED
  BY <1>1, <1>2, <1>3, <1>4 DEF Quiet

\* The watch records its payout.
LEMMA BooksClaims ==
  ASSUME DisputeTypes, Claims, WatchClaims, Untouched, NEW d \in Deals, Books(d)
  PROVE  Claims'
<1> DEFINE s == SideOf(d)
<1>1. s \in Sides /\ escrow[d] \in Settled /\ (s = "refund" => escrow[d] = "refunded")
  BY SideOfType, SideNames DEF Books, WatchClaims, SideOf
<1> HIDE DEF s
<1>2. \A e \in Deals, r \in Sides :
        payout'[e][r] = IF e = d /\ r = s THEN "paid" ELSE payout[e][r]
  <2>1. payout \in [Deals -> [Sides -> PayoutStatuses]] /\ "paid" \in PayoutStatuses
    BY DEF DisputeTypes, TypeOK, PayoutStatuses
  <2>2. payout' = [payout EXCEPT ![d][s] = "paid"]
    BY DEF Books, s
  <2> QED
    BY <1>1, <2>1, <2>2, PayoutUpdate
<1>3. /\ \A t \in Tasks : task[t].pc = "ok" => task[t].deal # d /\ task[t].deal \in Deals
      /\ \A r \in Sides : payout[d][r] # "paid"
  BY RunningTask DEF Books, WatchClaims, DisputeTypes, Idle, TaskRecords
<1>4. OkSettled' /\ OkAlone'
  BY DEF Claims, OkSettled, OkAlone, Untouched, Books
<1>5. OkUnpaid'
  BY <1>2, <1>3 DEF Claims, OkUnpaid, Untouched
<1>6. PaidMeansSettled'
  BY <1>1, <1>2 DEF Claims, PaidMeansSettled, Sides, Books
<1>7. PaidOnce'
  BY <1>1, <1>2, <1>3 DEF Claims, PaidOnce, Sides
<1> QED
  BY <1>4, <1>5, <1>6, <1>7 DEF Claims

LEMMA DisputeClaims ==
  ASSUME SInv, [DisputeNext]_allVars
  PROVE  Claims'
<1>1. OwnStep => Claims'
  BY OwnKinds, OwnUntouched, QuietClaims, BooksClaims DEF SInv, DisputeTypes
<1> QED
  BY <1>1, Kinds, ClaimsStep DEF SInv, DisputeTypes

\* A handler that finds the escrow settled, and no claim of its own, leaves an
\* answered watch alone.
LEMMA HandlerWatchClaims ==
  ASSUME SInv, PayoutStep \/ UNCHANGED allVars, UNCHANGED disputeVars
  PROVE  WatchClaims'
<1>1. CASE UNCHANGED allVars
  BY <1>1 DEF allVars, payoutVars, disputeVars, watchVars, SInv, WatchClaims
<1>2. CASE PayoutStep
  <2>1. Next
    BY <1>2 DEF PayoutStep, Next
  <2>2. /\ UNCHANGED <<watch, called>>
        /\ \A d \in Deals : watch[d] = "ok" => escrow'[d] = escrow[d] /\ escrow[d] # "funded"
    BY <1>2, PayoutEscrow DEF disputeVars, watchVars, SInv, DInv, Once
  <2>3. CASE Quiet
    <3>1. \A t \in Tasks : task'[t].pc = "ok" => task'[t] = task[t]
      BY <2>3 DEF Quiet
    <3> QED
      BY <2>2, <2>3, <3>1 DEF SInv, WatchClaims, SideOf, Quiet
  <2>4. ASSUME NEW t \in Tasks, AgentAnswers(t)
        PROVE  WatchClaims'
    <3>1. payout' = payout
      BY <2>4 DEF AgentAnswers, dbVars
    <3>2. escrow[task[t].deal] = "funded" /\ task[t].deal \in Deals
      BY <2>4, RunningTask DEF AgentAnswers, Settles, Idle, TaskRecords, SInv, DisputeTypes
    <3>3. \A u \in Tasks : u # t => task'[u] = task[u]
      BY <2>4 DEF AgentAnswers, SInv, DisputeTypes, TypeOK
    <3>4. task'[t].deal = task[t].deal
      <4>1. task[t] \in TaskRecords
        BY <2>4, RunningTask DEF AgentAnswers, Idle, SInv, DisputeTypes
      <4> QED
        BY <2>4, <4>1 DEF AgentAnswers, SInv, DisputeTypes, TypeOK, TaskRecords
    <3> QED
      BY <2>2, <3>1, <3>2, <3>3, <3>4 DEF SInv, WatchClaims, SideOf
  <2>5. ASSUME NEW t \in Tasks, Succeed(t)
        PROVE  WatchClaims'
    <3> DEFINE d == task[t].deal
               s == task[t].side
    <3>1. task[t].pc = "ok" /\ d \in Deals /\ s \in Sides
      BY <2>5, RunningTask DEF Succeed, Idle, TaskRecords, SInv, DisputeTypes
    <3>2. watch[d] # "ok"
      BY <3>1 DEF SInv, WatchClaims
    <3>3. \A e \in Deals \ {d} : payout'[e] = payout[e]
      BY <2>5 DEF Succeed, SInv, DisputeTypes, TypeOK
    <3>4. \A u \in Tasks : task'[u].pc = "ok" => task'[u] = task[u]
      <4>1. task' = [task EXCEPT ![t] = NoTask]
        BY <2>5 DEF Succeed
      <4> QED
        BY <4>1, QuietEnd DEF SInv, DisputeTypes
    <3> QED
      BY <2>2, <3>2, <3>3, <3>4 DEF SInv, WatchClaims, SideOf
  <2> QED
    BY <2>1, <2>3, <2>4, <2>5, StepKinds DEF SInv, DisputeTypes
<1> QED
  BY <1>1, <1>2

LEMMA OwnWatchClaims ==
  ASSUME SInv, OwnStep
  PROVE  WatchClaims'
<1> SUFFICES ASSUME NEW d \in Deals, watch'[d] = "ok"
             PROVE  /\ escrow'[d] = Ruled(called'[d])
                    /\ \A t \in Tasks : task[t].pc = "ok" => task[t].deal # d
                    /\ \A s \in Sides : payout'[d][s] # "paid"
  BY OwnUntouched DEF WatchClaims, Untouched
<1>1. CASE OracleAnswers(d)
  <2>1. /\ escrow[d] = "disputed"
        /\ escrow' = [escrow EXCEPT ![d] = Ruled(called[d])]
        /\ UNCHANGED <<payout, called>>
    BY <1>1 DEF OracleAnswers, Arbitrates, Accepts, dbVars
  <2>2. escrow'[d] = Ruled(called'[d]) /\ escrow[d] \notin Settled
    BY <2>1 DEF SInv, DisputeTypes, TypeOK, SideOf, Settled
  <2> QED
    BY <2>1, <2>2 DEF SInv, Claims, OkSettled, PaidMeansSettled, Settled, Sides
<1>2. CASE watch[d] = "ok" /\ called'[d] = called[d] /\ payout'[d] = payout[d]
  <2>1. escrow'[d] = escrow[d]
    BY <1>2, OwnSettled, SideNames, SideOfType DEF SInv, WatchClaims
  <2> QED
    BY <1>2, <2>1 DEF SInv, WatchClaims, SideOf
<1> QED
  BY <1>1, <1>2, OkBefore DEF SInv

LEMMA WatchClaimsStep ==
  ASSUME SInv, [DisputeNext]_allVars
  PROVE  WatchClaims'
<1>1. CASE DisputeCrash
  BY <1>1 DEF DisputeCrash, WatchClaims
<1>2. UNCHANGED allVars => UNCHANGED disputeVars
  BY DEF allVars
<1> QED
  BY <1>1, <1>2, HandlerWatchClaims, OwnWatchClaims DEF DisputeNext, OwnStep

-----------------------------------------------------------------------------
(***************************************************************************)
(* The txid of a completed deal                                            *)
(***************************************************************************)

LEMMA OwnDone ==
  ASSUME SInv, OwnStep
  PROVE  Done'
<1>1. \A t \in Tasks : Remembers(t)
  BY OwnUntouched, SameRemembers DEF Untouched
<1>2. TypeOK /\ Done
  BY DEF SInv, DisputeTypes
<1>3. CASE UNCHANGED <<status, payout, txid>>
  BY <1>1, <1>2, <1>3, RecordedBefore
<1>4. ASSUME NEW d \in Deals, Filing(d)
      PROVE  Done'
  <2>1. filing[d] # NoFiling => filing[d] \in {"funded", "shipped"}
    BY DEF SInv, DisputeTypes
  <2>2. \A e \in Deals, r \in Sides : status'[e] = Completed(r) => status[e] = Completed(r)
    BY <1>2, <1>4, <2>1 DEF Filing, TypeOK, Completed
  <2> QED
    BY <1>1, <1>2, <1>4, <2>2, RecordedBefore DEF Filing
<1>5. ASSUME NEW d \in Deals, NEW s \in Sides, Marks(d, s)
      PROVE  Done'
  <2>1. CASE UNCHANGED <<status, payout, txid>>
    BY <1>3, <2>1
  <2>2. CASE /\ txid' = txid
             /\ \/ status' = [status EXCEPT ![d] = Transitional(s)]
                \/ status' = [status EXCEPT ![d] = "disputed"]
    <3>1. \A e \in Deals, r \in Sides : status'[e] = Completed(r) => status[e] = Completed(r)
      BY <1>2, <2>2 DEF TypeOK, Completed, Transitional
    <3> QED
      BY <1>1, <1>2, <2>2, <3>1, RecordedBefore
  <2>3. CASE /\ status' = [status EXCEPT ![d] = Completed(s)]
             /\ txid' = [txid EXCEPT ![d][s] = TRUE]
    <3>1. txid'[d][s] /\ \A e \in Deals, r \in Sides : txid[e][r] => txid'[e][r]
      BY <1>2, <2>3, TxidKept
    <3>2. \A e \in Deals, r \in Sides :
            status'[e] = Completed(r) => txid'[e][r] \/ status[e] = Completed(r)
      BY <1>2, <2>3, <3>1 DEF TypeOK, Completed, Sides
    <3> QED
      BY <1>1, <1>2, <3>1, <3>2, RecordedBefore
  <2> QED
    BY <1>5, <2>1, <2>2, <2>3 DEF Marks
<1> QED
  BY <1>3, <1>4, <1>5, OwnRows

-----------------------------------------------------------------------------
(***************************************************************************)
(* The theorems about the rows                                             *)
(***************************************************************************)

LEMMA SafetyInit ==
  ASSUME DisputeInit
  PROVE  SInv
<1>1. Init /\ TypeOK /\ DInv
  BY InitType, StartInv DEF DisputeInit
<1>2. DisputeTypes
  BY <1>1 DEF DisputeInit, DisputeTypes, DInv, Shape, EarPoints
<1>3. Claims
  BY <1>1, ClaimsInit
<1> QED
  BY <1>1, <1>2, <1>3, AuthorityInit, DoneInit DEF SInv, WatchClaims, DisputeInit

LEMMA SafetyStep ==
  ASSUME SInv, [DisputeNext]_allVars
  PROVE  SInv'
<1>1. DisputeTypes' /\ DInv'
  BY TypesStep, StepInv DEF SInv
<1>2. Authority'
  BY Kinds, AuthorityStep, OwnUntouched, UntouchedAuthority DEF SInv, DisputeTypes
<1>3. Claims' /\ WatchClaims'
  BY DisputeClaims, WatchClaimsStep
<1>4. Done'
  BY Kinds, DoneStep, OwnDone DEF SInv, DisputeTypes
<1> QED
  BY <1>1, <1>2, <1>3, <1>4 DEF SInv

(* The invariant of the two modules together: an escrow is claimed by one   *)
(* task or one watch at most, whichever of execute_ark_payout and           *)
(* execute_oracle_payout the agent answered.                                *)
THEOREM DisputeSafe == DisputeSpec => []SInv
<1>1. DisputeInit => SInv
  BY SafetyInit
<1>2. SInv /\ [DisputeNext]_allVars => SInv'
  BY SafetyStep
<1> QED
  BY <1>1, <1>2, PTL DEF DisputeSpec

(* The rows, the filings, the watches and their accumulators stay in their  *)
(* types.                                                                   *)
THEOREM DisputeTypesHold == DisputeSpec => []DisputeTypes
<1>1. SInv => DisputeTypes
  BY DEF SInv
<1> QED
  BY <1>1, DisputeSafe, PTL

(* With oracles that pay out too, no deal is recorded as paid to both       *)
(* parties.                                                                 *)
THEOREM DisputePaidOnce == DisputeSpec => []PaidOnce
<1>1. SInv => PaidOnce
  BY DEF SInv, Claims
<1> QED
  BY <1>1, DisputeSafe, PTL

(* A payout recorded as paid has left the escrow, also the one of a verdict *)
(* (execute_oracle_payout records it after its await).                      *)
THEOREM DisputePaidIsSettled == DisputeSpec => []PaidMeansSettled
<1>1. SInv => PaidMeansSettled
  BY DEF SInv, Claims
<1> QED
  BY <1>1, DisputeSafe, PTL

(* A deal shown as completed or refunded carries the txid, also one that a  *)
(* verdict shows so without an address to pay (MarkAwaiting).               *)
THEOREM DisputeDoneIsRecorded == DisputeSpec => []DoneHasTxid
<1>1. SInv => DoneHasTxid
  BY DEF SInv, Done
<1> QED
  BY <1>1, DisputeSafe, PTL

-----------------------------------------------------------------------------
(***************************************************************************)
(* Custody, with verdicts                                                  *)
(***************************************************************************)

OutsideD == <<Money, ClaimantsOrWinner, Booked>>

\* The events on the relays stay the same: a step is one of Custody if it is one
\* for the payout handlers.
LEMMA Lifted ==
  ASSUME posted' = posted, [C!Next]_Outside
  PROVE  [D!Next]_OutsideD
<1>0. \A d \in Deals, x \in Parties : Backers(d, x)' = Backers(d, x)
  BY DEF Backers
<1>1. Claimants' = Claimants => ClaimantsOrWinner' = ClaimantsOrWinner
  BY <1>0 DEF ClaimantsOrWinner
<1>2. \A d \in Deals : Claimants[d] \subseteq ClaimantsOrWinner[d]
  BY DEF ClaimantsOrWinner
<1>3. CASE UNCHANGED Outside
  BY <1>1, <1>3 DEF Outside, OutsideD
<1>4. ASSUME NEW d \in Deals, NEW x \in Parties, C!Entitle(d, x)
      PROVE  D!Entitle(d, x)
  <2>1. Claimants' = [Claimants EXCEPT ![d] = Claimants[d] \cup {x}]
    BY <1>4 DEF C!Entitle
  <2>2. \A e \in Deals : Claimants'[e] = IF e = d THEN Claimants[d] \cup {x} ELSE Claimants[e]
    BY <2>1 DEF Claimants
  <2>3. ClaimantsOrWinner' = [ClaimantsOrWinner EXCEPT ![d] = ClaimantsOrWinner[d] \cup {x}]
    <3>1. \A e \in Deals : ClaimantsOrWinner'[e] =
            IF e = d THEN ClaimantsOrWinner[d] \cup {x} ELSE ClaimantsOrWinner[e]
      BY <1>0, <2>2 DEF ClaimantsOrWinner
    <3> QED
      BY <3>1 DEF ClaimantsOrWinner
  <2> QED
    BY <1>4, <2>3 DEF C!Entitle, D!Entitle
<1>5. ASSUME NEW d \in Deals, NEW x \in Parties, C!Settle(d, x)
      PROVE  D!Settle(d, x)
  BY <1>1, <1>2, <1>5 DEF C!Settle, D!Settle
<1>6. ASSUME NEW d \in Deals, NEW x \in Parties, C!Book(d, x)
      PROVE  D!Book(d, x)
  BY <1>1, <1>6 DEF C!Book, D!Book
<1>7. ASSUME NEW d \in Deals, C!Unbook(d)
      PROVE  D!Unbook(d)
  BY <1>1, <1>7 DEF C!Unbook, D!Unbook
<1> QED
  BY <1>3, <1>4, <1>5, <1>6, <1>7 DEF C!Next, D!Next, C!Parties, D!Parties, Parties

\* An attestation may be the one that makes its party entitled.
LEMMA PublishCustody ==
  ASSUME NEW d \in Deals, NEW o \in Oracles, NEW x \in Outcomes, Publish(d, o, x)
  PROVE  [D!Next]_OutsideD
<1>1. posted' = posted \cup {<<d, o, x>>} /\ UNCHANGED payoutVars
  BY DEF Publish, Attestation
<1>2. UNCHANGED <<Money, Claimants, Booked>>
  BY <1>1 DEF payoutVars, Money, Holder, Claimants, Entitled, Booked
<1>3. x \in Parties
  BY DEF Outcomes, Parties
<1>4. /\ \A e \in Deals, y \in Parties : e # d \/ y # x => Backers(e, y)' = Backers(e, y)
      /\ Backed(d, x) => Backed(d, x)'
  BY <1>1, BackedStays DEF Backers
<1>5. CASE Backed(d, x) <=> Backed(d, x)'
  <2>1. UNCHANGED ClaimantsOrWinner
    BY <1>2, <1>4, <1>5 DEF ClaimantsOrWinner, Backed
  <2> QED
    BY <1>2, <2>1 DEF OutsideD
<1>6. CASE ~Backed(d, x) /\ Backed(d, x)'
  <2>1. \A e \in Deals : ClaimantsOrWinner'[e] =
          IF e = d THEN ClaimantsOrWinner[d] \cup {x} ELSE ClaimantsOrWinner[e]
    BY <1>2, <1>3, <1>4, <1>6 DEF ClaimantsOrWinner, Backed
  <2>2. ClaimantsOrWinner' = [ClaimantsOrWinner EXCEPT ![d] = ClaimantsOrWinner[d] \cup {x}]
    BY <2>1 DEF ClaimantsOrWinner
  <2> QED
    BY <1>2, <1>3, <2>2 DEF D!Next, D!Entitle, D!Parties, Parties
<1> QED
  BY <1>4, <1>5, <1>6

\* The agent carries out the verdict.
LEMMA JudgedCustody ==
  ASSUME SInv, NEW d \in Deals, Judged(d), UNCHANGED <<posted, called, payout, consent, terms>>
  PROVE  [D!Next]_OutsideD
<1>1. UNCHANGED <<ClaimantsOrWinner, Booked>>
  BY DEF ClaimantsOrWinner, Claimants, Entitled, Backers, Booked
<1>2. PICK op : /\ escrow' = [escrow EXCEPT ![d] = op]
                /\ \/ escrow[d] = "funded" /\ op = "disputed"
                   \/ /\ escrow[d] = "disputed"
                      /\ called[d] \in Outcomes
                      /\ op = Ruled(called[d])
                      /\ Backed(d, called[d])
  BY DEF Judged
<1>3. escrow \in [Deals -> EscrowStates] /\ escrow[d] \notin Settled
  BY <1>2 DEF SInv, DisputeTypes, TypeOK, Settled
<1>4. CASE op = "disputed"
  <2>1. Money' = [Money EXCEPT ![d] = "escrow"] /\ Money[d] = "escrow"
    BY <1>2, <1>3, <1>4, Moved
  <2>2. Money' = Money
    BY <2>1 DEF Money
  <2> QED
    BY <1>1, <2>2 DEF OutsideD
<1>5. CASE called[d] \in Outcomes /\ op = Ruled(called[d]) /\ Backed(d, called[d])
  <2>1. op = IF called[d] = "seller" THEN "released" ELSE "refunded"
    BY <1>5 DEF Ruled
  <2>2. Money' = [Money EXCEPT ![d] = called[d]] /\ Money[d] = "escrow"
    BY <1>2, <1>3, <1>5, <2>1, Moved DEF Outcomes
  <2>3. called[d] \in ClaimantsOrWinner[d] /\ called[d] \in Parties
    BY <1>5 DEF ClaimantsOrWinner, Outcomes, Parties, Backed
  <2> QED
    BY <1>1, <2>2, <2>3 DEF D!Next, D!Settle, D!Parties, Parties
<1> QED
  BY <1>2, <1>4, <1>5

\* The rest of what the dispute does.
LEMMA OnlyPublish ==
  ASSUME OwnStep, ~\E d \in Deals, o \in Oracles, x \in Outcomes : Publish(d, o, x)
  PROVE  posted' = posted
<1> USE DEF relayVars
<1>1. ASSUME NEW d \in Deals, WatchStep(d)
      PROVE  posted' = posted
  BY <1>1 DEF WatchStep, Call, NoInvoice, OracleBegin, OracleAnswers, OracleFails,
     OracleSucceeds, OracleReverts
<1>2. ASSUME NEW d \in Deals, OpenDispute(d) \/ Filed(d) \/ NotFiled(d)
      PROVE  posted' = posted
  BY <1>2 DEF OpenDispute, Filed, NotFiled
<1>3. ASSUME NEW d \in Deals, RelayStep(d)
      PROVE  posted' = posted
  <2>1. ASSUME NEW r, NEW o, NEW x, NEW signed, Hear(d, r, o, x, signed)
        PROVE  posted' = posted
    BY <2>1 DEF Hear
  <2> QED
    BY <1>3, <2>1, RelaySteps, ChatterLeaves
<1> QED
  BY <1>1, <1>2, <1>3 DEF OwnStep, StrayDelivery

LEMMA OwnCustody ==
  ASSUME SInv, OwnStep
  PROVE  [D!Next]_OutsideD
<1>1. UNCHANGED <<consent, terms>>
  BY OwnUntouched DEF Untouched
<1>2. ASSUME NEW d \in Deals, NEW o \in Oracles, NEW x \in Outcomes, Publish(d, o, x)
      PROVE  [D!Next]_OutsideD
  BY <1>2, PublishCustody
<1>3. ASSUME ~\E d \in Deals, o \in Oracles, x \in Outcomes : Publish(d, o, x)
      PROVE  posted' = posted
  BY <1>3, OnlyPublish
<1>4. CASE posted' = posted /\ escrow' # escrow
  BY <1>1, <1>4, OwnEscrow, JudgedCustody DEF SInv
<1>5. CASE posted' = posted /\ escrow' = escrow /\ Unpaid
  <2>1. [C!Next]_Outside
    BY <1>1, <1>5, OutsideKept, OverwrittenStep DEF Unpaid, SInv, DisputeTypes, Claims
  <2> QED
    BY <1>5, <2>1, Lifted
<1>6. ASSUME posted' = posted, NEW d \in Deals, Books(d)
      PROVE  [D!Next]_OutsideD
  <2>1. /\ SideOf(d) \in Sides /\ escrow[d] \in Settled
        /\ SideOf(d) = "refund" => escrow[d] = "refunded"
        /\ \A r \in Sides : payout[d][r] # "paid"
    BY <1>6, SideOfType, SideNames DEF Books, SInv, WatchClaims, SideOf
  <2>2. \E x \in Parties : C!Book(d, x)
    BY <1>1, <1>6, <2>1, Recording DEF Books, SInv, DisputeTypes
  <2>3. [C!Next]_Outside
    BY <2>2 DEF C!Next, C!Parties, Parties
  <2> QED
    BY <1>6, <2>3, Lifted
<1>7. ASSUME NEW d \in Deals, OracleSucceeds(d)
      PROVE  Books(d) \/ (escrow' = escrow /\ Unpaid)
  BY <1>7 DEF OracleSucceeds, Books, Unpaid, agentVars
<1> QED
  BY <1>2, <1>3, <1>4, <1>5, <1>6, <1>7, OwnUnpaid

LEMMA DisputeCustodyStep ==
  ASSUME SInv, [DisputeNext]_allVars
  PROVE  [D!Next]_OutsideD
<1>1. CASE [Next]_vars /\ UNCHANGED posted
  BY <1>1, CustodyStep, Lifted DEF SInv, DisputeTypes
<1> QED
  BY <1>1, Kinds, OwnCustody DEF disputeVars, relayVars, DisputeCrash

(* The payout handlers, the loop and the oracles together implement         *)
(* Custody: the escrow of a deal is settled once, for a party that the      *)
(* buyer, a signature or a verdict entitles, and a payout goes on record    *)
(* only after that and only where there is none (execute_oracle_payout      *)
(* beside execute_ark_payout).                                              *)
THEOREM DisputeKeepsCustody == DisputeSpec => CustodyKeptInDispute
<1>1. DisputeInit => D!Init
  <2> SUFFICES ASSUME DisputeInit PROVE D!Init
    OBVIOUS
  <2>1. C!Init
    BY CustodyInit DEF DisputeInit
  <2>2. ClaimantsOrWinner \in [Deals -> SUBSET Parties]
    BY DEF ClaimantsOrWinner, Claimants
  <2> QED
    BY <2>1, <2>2 DEF C!Init, D!Init, D!Parties, Parties
<1>2. SInv /\ [DisputeNext]_allVars => [D!Next]_OutsideD
  BY DisputeCustodyStep
<1> QED
  BY <1>1, <1>2, DisputeSafe, PTL DEF DisputeSpec, CustodyKeptInDispute, D!Spec, OutsideD

=============================================================================
