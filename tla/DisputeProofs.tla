---------------------------- MODULE DisputeProofs ----------------------------
(***************************************************************************)
(* Dispute implements Arbitration, and an escrow in dispute is settled by  *)
(* the oracles only, for any number of deals, handlers and oracles.        *)
(*                                                                         *)
(* The argument: the agent accepts a dispute once per escrow, so a deal is *)
(* watched at most once and its watch calls back at most once (Once), and  *)
(* only on enough votes (OnEnough).  The votes need not be genuine; those  *)
(* that are were published (Heard).  The agent carries out a verdict only  *)
(* when all the votes it is sent are, so that every settlement of a        *)
(* disputed escrow, and every request the agent may still carry out        *)
(* (StrayBacked), has enough oracles behind it for ever.                   *)
(***************************************************************************)
EXTENDS Dispute, FiniteSetTheorems, TLAPS

\* The types the argument needs; escrow is only known to be a function.
Shape ==
  /\ escrow = [d \in Deals |-> escrow[d]]
  /\ watch \in [Deals -> WatchPoints]
  /\ votes \in [Deals -> [Oracles -> Outcomes \cup {"none"}]]
  /\ genuine \in [Deals -> SUBSET Oracles]
  /\ stray \subseteq Deals \X {"disputed", "released", "refunded"}
  /\ called \in [Deals -> Outcomes \cup {"none"}]

\* A genuine vote was published.
Heard ==
  \A d \in Deals : \A o \in genuine[d] :
    votes[d][o] # "none" /\ <<d, o, votes[d][o]>> \in posted

\* A deal that is or was watched has an escrow the agent does not pay out on
\* request any more, and a watch that waits has not called back: its escrow is
\* still in dispute.
Once ==
  \A d \in Deals :
    /\ watch[d] # "off" => escrow[d] # "funded"
    /\ called[d] # "none" => escrow[d] # "funded"
    /\ watch[d] = "listen" => called[d] = "none" /\ escrow[d] = "disputed"
    /\ watch[d] \notin {"off", "listen"} => called[d] # "none"

\* While the callback runs, the accumulator holds what it was called on.
OnEnough ==
  \A d \in Deals : watch[d] \notin {"off", "listen"} => Enough(d, called[d])

Backed(d, x) == Cardinality(Backers(d, x)) >= Threshold

StrayBacked ==
  \A m \in stray :
    m[2] # "disputed" =>
      /\ called[m[1]] # "none" /\ m[2] = Ruled(called[m[1]])
      /\ Backed(m[1], called[m[1]])

DInv == Shape /\ Heard /\ Once /\ OnEnough /\ StrayBacked

-----------------------------------------------------------------------------
\* The outcomes and the way the agent names them.
LEMMA Names ==
  /\ Outcomes = {"buyer", "seller"}
  /\ \A x : Ruled(x) \in {"released", "refunded"}
  /\ \A x, y \in Outcomes : Ruled(x) = Ruled(y) => x = y
BY DEF Outcomes, Ruled

\* Nothing a handler of Payout does settles an escrow that is not funded.
LEMMA PayoutEscrow ==
  ASSUME Shape, PayoutStep
  PROVE  /\ escrow' = [d \in Deals |-> escrow'[d]]
         /\ \A d \in Deals : escrow[d] # "funded" => escrow'[d] = escrow[d]
<1> DEFINE Kept == /\ escrow' = [d \in Deals |-> escrow'[d]]
                   /\ \A d \in Deals : escrow[d] # "funded" => escrow'[d] = escrow[d]
<1>0. escrow' = escrow => Kept
  BY DEF Shape
<1>1. ASSUME NEW d, NEW op, Settles(d, op) PROVE Kept
  BY <1>1 DEF Settles, Shape
<1>2. CASE Users
  <2>1. PICK t \in Workers, d \in Deals :
          \/ \E code \in {"right", "wrong"}, signed \in BOOLEAN : ReleaseRequest(t, d, code, signed)
          \/ RefundRequest(t, d)
          \/ \E s \in Sides : SubmitRequest(t, d, s) \/ AdminResolve(t, d, s)
    BY <1>2 DEF Users
  <2>2. ASSUME NEW code, NEW signed, ReleaseRequest(t, d, code, signed) PROVE escrow' = escrow
    BY <2>2 DEF ReleaseRequest, agentVars
  <2>3. CASE RefundRequest(t, d)
    BY <1>0, <2>3 DEF RefundRequest, agentVars
  <2>4. ASSUME NEW s, SubmitRequest(t, d, s) \/ AdminResolve(t, d, s) PROVE escrow' = escrow
    BY <2>4 DEF SubmitRequest, AdminResolve, agentVars
  <2> QED
    BY <1>0, <2>1, <2>2, <2>3, <2>4
<1>3. CASE \E d \in Deals : Ship(d) \/ Tick(d)
  BY <1>0, <1>3 DEF Ship, SetShipped, Tick, agentVars
<1>4. ASSUME NEW t \in Tasks, Advance(t) PROVE Kept
  BY <1>0, <1>4 DEF Advance, Start, ValidateFails, Validated, ResolveFails, Begin,
     Succeed, RecordDirect, Fail, FailRetry, FailTimeout, AtomicTransition, agentVars
<1>5. ASSUME NEW t \in Tasks, Agent(t) PROVE Kept
  <2>1. CASE AgentAnswers(t)
    BY <1>1, <2>1 DEF AgentAnswers
  <2>2. CASE AgentFails(t)
    BY <1>0, <1>1, <2>2 DEF AgentFails, agentVars
  <2> QED BY <1>5, <2>1, <2>2 DEF Agent
<1>6. CASE LateDelivery
  <2>1. PICK m \in late : escrow' = IF escrow[m[1]] = "funded"
                                    THEN [escrow EXCEPT ![m[1]] = m[2]] ELSE escrow
    BY <1>6 DEF LateDelivery
  <2> QED BY <2>1 DEF Shape
<1>7. CASE LoopStep
  BY <1>0, <1>7 DEF LoopStep, ScanExpired, ProcessExpired, ScanStalled, ProcessStalled,
     SkipStalled, ParkStalled, RetryStalled, EndPass, agentVars
<1>8. CASE CancelLoop
  BY <1>0, <1>8 DEF CancelLoop, Abandon
<1>9. CASE Halt \/ Resume
  BY <1>0, <1>9 DEF Halt, Resume, agentVars
<1> QED BY <1>2, <1>3, <1>4, <1>5, <1>6, <1>7, <1>8, <1>9 DEF PayoutStep

-----------------------------------------------------------------------------
\* More events only add oracles.
LEMMA BackedStays ==
  ASSUME NEW d \in Deals, NEW x, Backed(d, x), posted \subseteq posted'
  PROVE  Backed(d, x)'
<1>1. IsFiniteSet(Backers(d, x)')
  BY OraclesAssumption, FS_Subset DEF Backers
<1>2. Backers(d, x) \in SUBSET Backers(d, x)'
  BY DEF Backers
<1>3. /\ Cardinality(Backers(d, x)) <= Cardinality(Backers(d, x)')
      /\ IsFiniteSet(Backers(d, x))
  BY <1>1, <1>2, FS_Subset
<1>4. Cardinality(Backers(d, x)) \in Nat /\ Cardinality(Backers(d, x)') \in Nat
  BY <1>1, <1>3, FS_CardinalityType
<1> QED BY <1>3, <1>4, ThresholdAssumption DEF Backed

\* The votes that the agent accepts were published.
LEMMA AcceptedBacked ==
  ASSUME DInv, NEW d \in Deals, watch[d] \notin {"off", "listen"}, Accepts(d)
  PROVE  Backed(d, called[d])
<1> DEFINE x == called[d]
<1>1. Enough(d, x)
  BY DEF DInv, OnEnough
<1>2. IsFiniteSet(Backers(d, x))
  BY OraclesAssumption, FS_Subset DEF Backers
<1>3. Agreeing(d, x) \in SUBSET Backers(d, x)
  BY DEF Accepts, Agreeing, Backers, DInv, Heard
<1>4. /\ Cardinality(Agreeing(d, x)) <= Cardinality(Backers(d, x))
      /\ IsFiniteSet(Agreeing(d, x))
  BY <1>2, <1>3, FS_Subset
<1>5. Cardinality(Backers(d, x)) \in Nat /\ Cardinality(Agreeing(d, x)) \in Nat
  BY <1>2, <1>4, FS_CardinalityType
<1> QED BY <1>1, <1>4, <1>5, ThresholdAssumption DEF Backed, Enough

-----------------------------------------------------------------------------
(***************************************************************************)
(* The steps.  A step is lawful when it settles one escrow at most that is *)
(* not funded, a disputed one, by a verdict that enough oracles back.      *)
(***************************************************************************)
LeavesDispute(d) == escrow[d] # "funded" /\ escrow'[d] # escrow[d]

Lawful ==
  /\ \A d \in Deals :
       LeavesDispute(d) =>
         /\ escrow[d] = "disputed"
         /\ called[d] # "none" /\ escrow'[d] = Ruled(called[d])
         /\ Backed(d, called[d])
  /\ \A d, e \in Deals : LeavesDispute(d) /\ LeavesDispute(e) => d = e

\* Steps that do not touch the watches, the events or the requests under way.
LEMMA Beside ==
  ASSUME DInv, escrow' = [d \in Deals |-> escrow'[d]],
         \A d \in Deals : escrow[d] # "funded" => escrow'[d] = escrow[d],
         UNCHANGED <<posted, watch, votes, genuine, stray, called>>
  PROVE  DInv' /\ Lawful
<1>1. Shape' /\ Heard'
  BY DEF DInv, Shape, Heard
<1>2. Once'
  BY DEF DInv, Once
<1>3. OnEnough' /\ StrayBacked'
  BY DEF DInv, OnEnough, Enough, Agreeing, StrayBacked, Backed, Backers
<1>4. Lawful
  BY DEF Lawful, LeavesDispute
<1> QED BY <1>1, <1>2, <1>3, <1>4 DEF DInv

LEMMA PayoutStepInv ==
  ASSUME DInv, PayoutStep, UNCHANGED disputeVars
  PROVE  DInv' /\ Lawful
BY PayoutEscrow, Beside DEF DInv, disputeVars, relayVars, watchVars, tally

LEMMA OpenDisputeInv ==
  ASSUME DInv, NEW d \in Deals, OpenDispute(d)
  PROVE  DInv' /\ Lawful
BY Beside DEF OpenDispute, agentVars, relayVars, watchVars, tally, DInv, Shape

LEMMA FiledInv ==
  ASSUME DInv, NEW d \in Deals, Filed(d)
  PROVE  DInv' /\ Lawful
<1>1. /\ escrow[d] = "funded"
      /\ escrow' = [escrow EXCEPT ![d] = "disputed"]
      /\ UNCHANGED <<posted, stray, called>>
  BY DEF Filed, MarksDisputed, relayVars
<1>2. \/ UNCHANGED <<watch, votes, genuine>>
      \/ /\ watch' = [watch EXCEPT ![d] = "listen"]
         /\ votes' = [votes EXCEPT ![d] = [o \in Oracles |-> "none"]]
         /\ genuine' = [genuine EXCEPT ![d] = {}]
  BY DEF Filed, StartWatch, NewWatch, watchVars, tally
<1>3. watch[d] = "off" /\ called[d] = "none"
  BY <1>1 DEF DInv, Once
<1>4. Shape'
  <2>1. watch' \in [Deals -> WatchPoints]
    BY <1>2 DEF DInv, Shape, WatchPoints
  <2>2. votes' \in [Deals -> [Oracles -> Outcomes \cup {"none"}]]
    BY <1>2 DEF DInv, Shape
  <2>3. genuine' \in [Deals -> SUBSET Oracles]
    BY <1>2 DEF DInv, Shape
  <2> QED
    BY <1>1, <2>1, <2>2, <2>3 DEF DInv, Shape
<1>5. Heard'
  BY <1>1, <1>2 DEF DInv, Heard, Shape
<1>6. UNCHANGED called /\ \A e \in Deals \ {d} : watch'[e] = watch[e] /\ escrow'[e] = escrow[e]
  BY <1>1, <1>2 DEF DInv, Shape
<1>7. escrow'[d] = "disputed" /\ watch'[d] \in {"off", "listen"}
  BY <1>1, <1>2, <1>3 DEF DInv, Shape
<1>8. Once'
  BY <1>3, <1>6, <1>7 DEF DInv, Once
<1>9. OnEnough'
  <2>1. \A e \in Deals \ {d} : votes'[e] = votes[e]
    BY <1>2 DEF DInv, Shape
  <2> QED BY <1>6, <1>7, <2>1 DEF DInv, OnEnough, Enough, Agreeing
<1>10. StrayBacked'
  BY <1>1 DEF DInv, StrayBacked, Backed, Backers
<1>11. Lawful
  BY <1>1, <1>6 DEF Lawful, LeavesDispute
<1> QED BY <1>4, <1>5, <1>8, <1>9, <1>10, <1>11 DEF DInv

LEMMA NotFiledInv ==
  ASSUME DInv, NEW d \in Deals, NotFiled(d)
  PROVE  DInv' /\ Lawful
<1>1. UNCHANGED <<posted, watch, votes, genuine, called>>
  BY DEF NotFiled, relayVars, watchVars, tally
<1>2. /\ escrow' = [e \in Deals |-> escrow'[e]]
      /\ \A e \in Deals : escrow'[e] = escrow[e] \/ (escrow[e] = "funded" /\ escrow'[e] = "disputed")
      /\ stray' \subseteq stray \cup {<<d, "disputed">>}
  BY DEF NotFiled, MarksDisputed, DInv, Shape
<1>3. Shape' /\ Heard'
  BY <1>1, <1>2 DEF DInv, Shape, Heard
<1>4. Once'
  BY <1>1, <1>2 DEF DInv, Once
<1>5. OnEnough' /\ StrayBacked'
  BY <1>1, <1>2 DEF DInv, OnEnough, Enough, Agreeing, StrayBacked, Backed, Backers
<1>6. Lawful
  BY <1>2 DEF Lawful, LeavesDispute
<1> QED BY <1>3, <1>4, <1>5, <1>6 DEF DInv

LEMMA PublishInv ==
  ASSUME DInv, NEW d \in Deals, NEW o \in Oracles, NEW x \in Outcomes, Publish(d, o, x)
  PROVE  DInv' /\ Lawful
<1>1. /\ posted' = posted \cup {<<d, o, x>>}
      /\ UNCHANGED <<escrow, watch, votes, genuine, stray, called>>
  BY DEF Publish, Attestation, payoutVars, watchVars, tally
<1>2. Shape' /\ Heard' /\ Once' /\ OnEnough' /\ Lawful
  BY <1>1 DEF DInv, Shape, Heard, Once, OnEnough, Enough, Agreeing, Lawful, LeavesDispute
<1>3. StrayBacked'
  <2>1. \A e \in Deals : \A y : Backed(e, y) => Backed(e, y)'
    BY <1>1, BackedStays
  <2>2. \A m \in stray : m[1] \in Deals
    BY DEF DInv, Shape
  <2> QED BY <1>1, <2>1, <2>2 DEF DInv, StrayBacked
<1> QED BY <1>2, <1>3 DEF DInv

LEMMA HearInv ==
  ASSUME DInv, NEW d \in Deals, NEW r, NEW o \in Oracles, NEW x \in Outcomes,
         NEW signed \in BOOLEAN, Hear(d, r, o, x, signed)
  PROVE  DInv' /\ Lawful
<1>1. /\ watch[d] = "listen" /\ votes[d][o] = "none"
      /\ votes' = [votes EXCEPT ![d][o] = x]
      /\ UNCHANGED <<escrow, posted, watch, stray, called>>
  BY DEF Hear, Counts, payoutVars, relayVars, watchVars
<1>2. \/ genuine' = genuine
      \/ genuine' = [genuine EXCEPT ![d] = genuine[d] \cup {o}] /\ <<d, o, x>> \in posted
  BY DEF Hear, Attested, Attestation
<1>3. /\ votes' \in [Deals -> [Oracles -> Outcomes \cup {"none"}]]
      /\ genuine' \in [Deals -> SUBSET Oracles]
  BY <1>1, <1>2 DEF DInv, Shape
<1>4. Shape' /\ Once' /\ StrayBacked' /\ Lawful
  BY <1>1, <1>3 DEF DInv, Shape, Once, StrayBacked, Backed, Backers, Lawful, LeavesDispute
<1>5. Heard'
  <2> SUFFICES ASSUME NEW e \in Deals, NEW p \in genuine'[e]
               PROVE  votes'[e][p] # "none" /\ <<e, p, votes'[e][p]>> \in posted
    BY <1>1 DEF Heard
  <2>1. CASE e = d /\ p = o
    <3>1. votes'[e][p] = x /\ x # "none"
      BY <1>1, <2>1, Names DEF DInv, Shape
    <3>2. <<d, o, x>> \in posted
      BY <1>1, <1>2, <2>1 DEF DInv, Heard
    <3> QED BY <2>1, <3>1, <3>2
  <2>2. CASE e # d \/ p # o
    <3>1. p \in genuine[e] /\ votes'[e][p] = votes[e][p]
      BY <1>1, <1>2, <2>2 DEF DInv, Shape
    <3> QED BY <3>1 DEF DInv, Heard
  <2> QED BY <2>1, <2>2
<1>6. OnEnough'
  <2>1. \A e \in Deals \ {d} : votes'[e] = votes[e]
    BY <1>1 DEF DInv, Shape
  <2> QED BY <1>1, <2>1 DEF DInv, OnEnough, Enough, Agreeing
<1> QED BY <1>4, <1>5, <1>6 DEF DInv

\* The other things that happen between a watch and its relays.
Chatter(d) ==
  \/ Noise(d)
  \/ \E r \in Relays : Connect(d, r) \/ Lose(d, r) \/ Choke(d, r)

LEMMA RelaySteps ==
  ASSUME NEW d, RelayStep(d)
  PROVE  \/ Chatter(d)
         \/ \E o \in Oracles, x \in Outcomes :
              \/ Publish(d, o, x)
              \/ \E r \in Relays, signed \in BOOLEAN : Hear(d, r, o, x, signed)
BY DEF RelayStep, Chatter, OracleSign

LEMMA ChatterLeaves ==
  ASSUME NEW d, Chatter(d)
  PROVE  UNCHANGED <<payoutVars, posted, filing, watch, votes, genuine, stray, called>>
BY DEF Chatter, Noise, Connect, Lose, Choke, EarMoves, relayVars, watchVars, tally

LEMMA RelayStepInv ==
  ASSUME DInv, NEW d \in Deals, RelayStep(d)
  PROVE  DInv' /\ Lawful
<1>1. CASE Chatter(d)
  <2>1. UNCHANGED <<escrow, posted, watch, votes, genuine, stray, called>>
    BY <1>1, ChatterLeaves DEF payoutVars
  <2> QED BY <2>1, Beside DEF DInv, Shape
<1> QED BY <1>1, RelaySteps, PublishInv, HearInv

\* The callback begins: its outcome becomes the verdict.
LEMMA CallInv ==
  ASSUME DInv, NEW d \in Deals, NEW x \in Outcomes, Call(d, x)
  PROVE  DInv' /\ Lawful
<1>1. /\ watch[d] = "listen"
      /\ Enough(d, x)
      /\ called' = [called EXCEPT ![d] = x]
      /\ UNCHANGED <<escrow, posted, votes, genuine, stray>>
  BY DEF Call, agentVars, relayVars, tally
<1>2. \/ watch' = [watch EXCEPT ![d] = "off"]
      \/ watch' = [watch EXCEPT ![d] = "resolve"]
  BY DEF Call, EndWatch, MarkAwaiting
<1>3. called[d] = "none" /\ escrow[d] # "funded" /\ x # "none"
  BY <1>1, Names DEF DInv, Once
<1>4. Shape' /\ Heard' /\ Lawful
  BY <1>1, <1>2 DEF DInv, Shape, Heard, Lawful, LeavesDispute, WatchPoints
<1>5. \A e \in Deals : called'[e] = IF e = d THEN x ELSE called[e]
  BY <1>1 DEF DInv, Shape
<1>6. /\ \A e \in Deals \ {d} : watch'[e] = watch[e]
      /\ watch'[d] \in {"off", "resolve"}
  BY <1>2 DEF DInv, Shape
<1>7. Once'
  BY <1>1, <1>3, <1>5, <1>6 DEF DInv, Once
<1>8. OnEnough'
  BY <1>1, <1>5, <1>6 DEF DInv, OnEnough, Enough, Agreeing
<1>9. StrayBacked'
  BY <1>1, <1>3, <1>5 DEF DInv, Shape, StrayBacked, Backed, Backers
<1> QED BY <1>4, <1>7, <1>8, <1>9 DEF DInv

\* The steps after it: the watch goes on or ends, and only a disputed escrow of
\* its own deal is settled, by its verdict, when the agent accepts it; so is what
\* it may leave behind.
LEMMA Acts ==
  ASSUME DInv, NEW d \in Deals, watch[d] \notin {"off", "listen"},
         UNCHANGED <<posted, votes, genuine, called>>,
         NEW p \in WatchPoints \ {"listen"}, watch' = [watch EXCEPT ![d] = p],
         UNCHANGED escrow \/ Arbitrates(d),
         \/ stray' \subseteq stray
         \/ Accepts(d) /\ stray' \subseteq stray \cup {<<d, Ruled(called[d])>>}
  PROVE  DInv' /\ Lawful
<1>1. called[d] # "none"
  BY DEF DInv, Once
<1>2. Accepts(d) => Backed(d, called[d])
  BY AcceptedBacked
<1>3. /\ escrow' = [e \in Deals |-> escrow'[e]]
      /\ \A e \in Deals :
           escrow'[e] # escrow[e] => /\ e = d /\ escrow[e] = "disputed"
                                     /\ escrow'[e] = Ruled(called[d])
                                     /\ Backed(d, called[d])
  BY <1>2 DEF Arbitrates, Accepts, DInv, Shape
<1>4. Shape' /\ Heard'
  <2>1. stray' \subseteq Deals \X {"disputed", "released", "refunded"}
    BY Names DEF DInv, Shape
  <2>2. watch' \in [Deals -> WatchPoints]
    BY DEF DInv, Shape
  <2> QED BY <1>3, <2>1, <2>2 DEF DInv, Shape, Heard
<1>5. /\ \A e \in Deals \ {d} : watch'[e] = watch[e]
      /\ watch'[d] # "listen" /\ escrow[d] # "funded"
  BY DEF DInv, Shape, Once
<1>6. Once'
  <2>1. /\ \A e \in Deals : escrow[e] # "funded" => escrow'[e] # "funded"
        /\ \A e \in Deals \ {d} : escrow'[e] = escrow[e]
    BY <1>3, Names
  <2> QED BY <1>1, <1>5, <2>1 DEF DInv, Once
<1>7. OnEnough'
  BY <1>5 DEF DInv, OnEnough, Enough, Agreeing
<1>8. StrayBacked'
  <2> SUFFICES ASSUME NEW m \in stray', m[2] # "disputed"
               PROVE  /\ called[m[1]] # "none" /\ m[2] = Ruled(called[m[1]])
                      /\ Backed(m[1], called[m[1]])
    BY DEF StrayBacked, Backed, Backers
  <2>1. CASE m \in stray
    BY <2>1 DEF DInv, StrayBacked
  <2>2. CASE Accepts(d) /\ m = <<d, Ruled(called[d])>>
    BY <1>1, <1>2, <2>2
  <2> QED BY <2>1, <2>2
<1>9. Lawful
  BY <1>1, <1>3 DEF Lawful, LeavesDispute
<1> QED BY <1>4, <1>6, <1>7, <1>8, <1>9 DEF DInv

LEMMA WatchStepInv ==
  ASSUME DInv, NEW d \in Deals, WatchStep(d)
  PROVE  DInv' /\ Lawful
<1> USE DEF WatchPoints, relayVars, tally
<1>1. CASE \E x \in Outcomes : Call(d, x)
  BY <1>1, CallInv
<1>2. CASE NoInvoice(d)
  BY <1>2, Acts DEF NoInvoice, EndWatch, payoutVars
<1>3. CASE OracleBegin(d)
  BY <1>3, Acts DEF OracleBegin, EndWatch, agentVars
<1>4. CASE OracleAnswers(d)
  BY <1>4, Acts DEF OracleAnswers
<1>5. CASE OracleFails(d)
  BY <1>5, Acts DEF OracleFails
<1>6. CASE OracleSucceeds(d)
  BY <1>6, Acts DEF OracleSucceeds, EndWatch, agentVars
<1>7. CASE OracleReverts(d)
  BY <1>7, Acts DEF OracleReverts, EndWatch, agentVars
<1> QED BY <1>1, <1>2, <1>3, <1>4, <1>5, <1>6, <1>7 DEF WatchStep

LEMMA StrayDeliveryInv ==
  ASSUME DInv, StrayDelivery
  PROVE  DInv' /\ Lawful
<1>1. PICK m \in stray :
        /\ stray' = stray \ {m}
        /\ escrow' = IF escrow[m[1]] = (IF m[2] = "disputed" THEN "funded" ELSE "disputed")
                     THEN [escrow EXCEPT ![m[1]] = m[2]] ELSE escrow
  BY DEF StrayDelivery
<1>2. UNCHANGED <<posted, watch, votes, genuine, called>>
  BY DEF StrayDelivery, relayVars, watchVars, tally
<1>3. m[1] \in Deals /\ m[2] \in {"disputed", "released", "refunded"}
  BY DEF DInv, Shape
<1>4. /\ escrow' = [e \in Deals |-> escrow'[e]]
      /\ \A e \in Deals :
           escrow'[e] # escrow[e] =>
             /\ e = m[1]
             /\ escrow'[e] \in {"disputed", "released", "refunded"}
             /\ escrow[e] # "funded" => /\ escrow[e] = "disputed"
                                        /\ called[e] # "none"
                                        /\ escrow'[e] = Ruled(called[e])
                                        /\ Backed(e, called[e])
  BY <1>1, <1>3 DEF DInv, Shape, StrayBacked
<1>5. Shape' /\ Heard'
  BY <1>1, <1>2, <1>4 DEF DInv, Shape, Heard
<1>6. OnEnough' /\ StrayBacked'
  BY <1>1, <1>2 DEF DInv, OnEnough, Enough, Agreeing, StrayBacked, Backed, Backers
<1>7. Once'
  BY <1>2, <1>4 DEF DInv, Once
<1>8. Lawful
  BY <1>4 DEF Lawful, LeavesDispute
<1> QED BY <1>5, <1>6, <1>7, <1>8 DEF DInv

LEMMA CrashInv ==
  ASSUME DInv, DisputeCrash
  PROVE  DInv' /\ Lawful
<1>1. /\ UNCHANGED <<escrow, posted, called>>
      /\ watch' = [d \in Deals |-> "off"]
      /\ votes' = [d \in Deals |-> [o \in Oracles |-> "none"]]
      /\ genuine' = [d \in Deals |-> {}]
  BY DEF DisputeCrash, Crash, Abandon, relayVars
<1>2. \A m \in stray' :
        \/ m \in stray
        \/ \E d \in Deals : m = <<d, "disputed">>
        \/ \E d \in Deals : watch[d] = "agent" /\ Accepts(d) /\ m = <<d, Ruled(called[d])>>
  BY DEF DisputeCrash
<1>3. Shape'
  BY <1>1, <1>2, Names DEF DInv, Shape, WatchPoints
<1>4. Heard' /\ Once' /\ OnEnough'
  BY <1>1 DEF DInv, Heard, Once, OnEnough
<1>5. \A d \in Deals : watch[d] = "agent" /\ Accepts(d)
                         => called[d] # "none" /\ Backed(d, called[d])
  BY AcceptedBacked DEF DInv, Once
<1>6. StrayBacked'
  BY <1>1, <1>2, <1>5 DEF DInv, StrayBacked, Backed, Backers
<1>7. Lawful
  BY <1>1 DEF Lawful, LeavesDispute
<1> QED BY <1>3, <1>4, <1>6, <1>7 DEF DInv

-----------------------------------------------------------------------------
LEMMA StartInv ==
  ASSUME DisputeInit PROVE DInv
<1>1. escrow = [d \in Deals |-> escrow[d]]
  BY DEF DisputeInit, Init
<1> QED BY <1>1, Names DEF DisputeInit, DInv, Shape, Heard, Once, OnEnough, StrayBacked,
   WatchPoints

LEMMA StepInv ==
  ASSUME DInv, [DisputeNext]_allVars PROVE DInv' /\ Lawful
<1>1. CASE UNCHANGED allVars
  BY <1>1, Beside
  DEF allVars, payoutVars, disputeVars, relayVars, watchVars, tally, DInv, Shape
<1>2. CASE PayoutStep /\ UNCHANGED disputeVars
  BY <1>2, PayoutStepInv
<1>3. ASSUME NEW d \in Deals, OpenDispute(d) \/ Filed(d) \/ NotFiled(d)
      PROVE  DInv' /\ Lawful
  BY <1>3, OpenDisputeInv, FiledInv, NotFiledInv
<1>4. ASSUME NEW d \in Deals, RelayStep(d) PROVE DInv' /\ Lawful
  BY <1>4, RelayStepInv
<1>5. ASSUME NEW d \in Deals, WatchStep(d) PROVE DInv' /\ Lawful
  BY <1>5, WatchStepInv
<1>6. CASE StrayDelivery
  BY <1>6, StrayDeliveryInv
<1>7. CASE DisputeCrash
  BY <1>7, CrashInv
<1> QED BY <1>1, <1>2, <1>3, <1>4, <1>5, <1>6, <1>7 DEF DisputeNext

(* The invariant behind the settlements: a vote that carries its oracle's   *)
(* signature was published, and every request to settle a disputed escrow   *)
(* that the agent may carry out has enough published attestations behind    *)
(* it, although the listener counts unsigned events too; and no deal is     *)
(* watched twice.                                                           *)
THEOREM VerdictsBacked == DisputeSpec => []DInv
<1>1. DisputeInit => DInv
  BY StartInv
<1>2. DInv /\ [DisputeNext]_allVars => DInv'
  BY StepInv
<1> QED BY <1>1, <1>2, PTL DEF DisputeSpec

(* A disputed escrow is settled only as enough registered oracles have      *)
(* published (execute_oracle_payout), whatever the payout handlers and the  *)
(* timeout loop do to the deal meanwhile, and whatever the relays deliver.  *)
THEOREM OraclesSettle == DisputeSpec => OraclesDecide
<1> DEFINE Step ==
      \A d \in Deals :
        (escrow[d] = "disputed" /\ escrow'[d] # "disputed") =>
          \E x \in Outcomes :
            /\ escrow'[d] = Ruled(x)
            /\ Cardinality(Backers(d, x)) >= Threshold
<1>1. DInv /\ [DisputeNext]_allVars => [Step]_allVars
  <2> SUFFICES ASSUME DInv, [DisputeNext]_allVars PROVE Step
    OBVIOUS
  <2>1. Lawful
    BY StepInv
  <2> QED BY <2>1 DEF Lawful, LeavesDispute, Backed, DInv, Shape
<1>2. DisputeSpec => []DInv
  BY VerdictsBacked
<1> QED BY <1>1, <1>2, PTL DEF DisputeSpec, OraclesDecide

-----------------------------------------------------------------------------
(***************************************************************************)
(* The refinement.                                                         *)
(***************************************************************************)
Listener == <<Published, called, Rulings>>

LEMMA PublishRefines ==
  ASSUME NEW d \in Deals, NEW o \in Oracles, NEW x \in Outcomes, Publish(d, o, x)
  PROVE  A!Next
<1>1. posted' = posted \cup {<<d, o, x>>} /\ UNCHANGED <<called, escrow>>
  BY DEF Publish, Attestation, payoutVars
<1>2. Published' = [Published EXCEPT ![d] = Published[d] \cup {<<o, x>>}]
  <2>1. \A e \in Deals : Published'[e] = IF e = d THEN Published[d] \cup {<<o, x>>} ELSE Published[e]
    BY <1>1 DEF Published
  <2> QED BY <2>1 DEF Published
<1>3. UNCHANGED Rulings
  BY <1>1 DEF Rulings
<1>4. A!Publish(d, o, x)
  BY <1>1, <1>2, <1>3 DEF A!Publish
<1> QED BY <1>4 DEF A!Next, A!Outcomes, Outcomes

LEMMA CallRefines ==
  ASSUME DInv, NEW d \in Deals, NEW x \in Outcomes, Call(d, x)
  PROVE  A!Next
<1>1. /\ watch[d] = "listen"
      /\ called' = [called EXCEPT ![d] = x]
      /\ UNCHANGED <<posted, escrow>>
  BY DEF Call, relayVars, agentVars
<1>2. called[d] = "none" /\ escrow[d] \notin Settled
  BY <1>1 DEF DInv, Once, Settled
<1>3. UNCHANGED Published
  BY <1>1 DEF Published
<1>4. UNCHANGED Rulings
  <2>1. \A e \in Deals \ {d} : called'[e] = called[e]
    BY <1>1 DEF DInv, Shape
  <2> QED BY <1>1, <1>2, <2>1 DEF Rulings
<1>5. A!Find(d, x)
  BY <1>1, <1>2, <1>3, <1>4 DEF A!Find
<1> QED BY <1>5 DEF A!Next, A!Outcomes, Outcomes

\* The steps that neither publish nor call back may carry out a verdict.
LEMMA OthersRefine ==
  ASSUME DInv, DInv', Lawful, UNCHANGED <<posted, called>>
  PROVE  [A!Next]_Listener
<1>1. UNCHANGED Published
  BY DEF Published
<1>2. \A d \in Deals : ~LeavesDispute(d) => Rulings'[d] = Rulings[d]
  <2> SUFFICES ASSUME NEW d \in Deals, ~LeavesDispute(d) PROVE Rulings'[d] = Rulings[d]
    OBVIOUS
  <2>1. called[d] = "none" \/ escrow'[d] = escrow[d]
    BY DEF LeavesDispute, DInv, Once
  <2> QED BY <2>1 DEF Rulings
<1>3. CASE \A d \in Deals : ~LeavesDispute(d)
  <2>1. UNCHANGED Rulings
    BY <1>2, <1>3 DEF Rulings
  <2> QED BY <1>1, <2>1 DEF Listener
<1>4. ASSUME NEW d \in Deals, LeavesDispute(d)
      PROVE  A!Next
  <2>1. /\ escrow[d] = "disputed" /\ called[d] # "none"
        /\ escrow'[d] = Ruled(called[d]) /\ Backed(d, called[d])
        /\ \A e \in Deals : LeavesDispute(e) => e = d
    BY <1>4 DEF Lawful
  <2>2. Rulings[d] = "none" /\ Rulings'[d] = called[d]
    <3>1. Rulings[d] = "none"
      BY <2>1 DEF Rulings, Settled
    <3>2. /\ called[d] \in Outcomes /\ escrow'[d] \in Settled /\ called' = called
          /\ escrow'[d] = Ruled("seller") <=> called[d] = "seller"
      BY <2>1, Names DEF DInv, Shape, Settled
    <3>3. Outcomes = {"buyer", "seller"}
      BY Names
    <3>4. Rulings'[d] = called[d]
      BY <2>1, <3>2, <3>3 DEF Rulings
    <3> QED BY <3>1, <3>4
  <2>3. Rulings' = [Rulings EXCEPT ![d] = called[d]]
    <3>1. \A e \in Deals : Rulings'[e] = IF e = d THEN called[d] ELSE Rulings[e]
      BY <1>2, <2>1, <2>2
    <3>2. /\ Rulings = [e \in Deals |-> Rulings[e]]
          /\ Rulings' = [e \in Deals |-> Rulings'[e]]
      BY DEF Rulings
    <3> QED BY <3>1, <3>2
  <2>4. A!Backers(d, called[d]) \in Quorums
    <3>1. called[d] \in Outcomes
      BY <2>1 DEF DInv, Shape
    <3>2. A!Backers(d, called[d]) = Backers(d, called[d])
      BY <3>1 DEF A!Backers, Backers, Published
    <3> QED BY <3>2, <2>1 DEF Backed, Backers, Quorums
  <2>5. A!Rule(d, called[d])
    BY <1>1, <2>2, <2>3, <2>4 DEF A!Rule
  <2>6. called[d] \in A!Outcomes
    BY <2>1 DEF DInv, Shape, A!Outcomes, Outcomes
  <2> QED BY <2>5, <2>6 DEF A!Next
<1> QED BY <1>3, <1>4

LEMMA StepRefines ==
  ASSUME DInv, [DisputeNext]_allVars
  PROVE  [A!Next]_Listener
<1>0. DInv' /\ Lawful
  BY StepInv
<1> USE DEF relayVars
<1>1. CASE UNCHANGED allVars
  BY <1>0, <1>1, OthersRefine DEF allVars, disputeVars
<1>2. CASE PayoutStep /\ UNCHANGED disputeVars
  BY <1>0, <1>2, OthersRefine DEF disputeVars
<1>3. ASSUME NEW d \in Deals, OpenDispute(d) \/ Filed(d) \/ NotFiled(d)
      PROVE  UNCHANGED <<posted, called>>
  BY <1>3 DEF OpenDispute, Filed, NotFiled
<1>4. ASSUME NEW d \in Deals, RelayStep(d)
      PROVE  [A!Next]_Listener
  <2>1. Chatter(d) => UNCHANGED <<posted, called>>
    BY ChatterLeaves
  <2>2. ASSUME NEW r, NEW o, NEW x, NEW signed, Hear(d, r, o, x, signed)
        PROVE  UNCHANGED <<posted, called>>
    BY <2>2 DEF Hear
  <2> QED BY <1>0, <1>4, <2>1, <2>2, RelaySteps, PublishRefines, OthersRefine
<1>5. ASSUME NEW d \in Deals, WatchStep(d)
      PROVE  [A!Next]_Listener
  <2>1. ASSUME ~\E x \in Outcomes : Call(d, x)
        PROVE  UNCHANGED <<posted, called>>
    BY <1>5, <2>1 DEF WatchStep, NoInvoice, OracleBegin, OracleAnswers, OracleFails,
       OracleSucceeds, OracleReverts
  <2> QED BY <1>0, <2>1, CallRefines, OthersRefine
<1>6. CASE StrayDelivery
  BY <1>0, <1>6, OthersRefine DEF StrayDelivery
<1>7. CASE DisputeCrash
  BY <1>0, <1>7, OthersRefine DEF DisputeCrash
<1> QED BY <1>0, <1>1, <1>2, <1>3, <1>4, <1>5, <1>6, <1>7, OthersRefine DEF DisputeNext

(* The listener, the relays, the callback and the agent implement           *)
(* Arbitration: at most one verdict per deal, and the escrow is settled by  *)
(* it only if enough oracles have published it, also when the verdict was   *)
(* found on events they have not signed.                                    *)
THEOREM Implements == DisputeSpec => VerdictFollows
<1>1. DisputeInit => A!Init
  BY DEF DisputeInit, A!Init, Published, Rulings
<1>2. DInv /\ [DisputeNext]_allVars => [A!Next]_Listener
  BY StepRefines
<1>3. DisputeSpec => []DInv
  BY VerdictsBacked
<1> QED BY <1>1, <1>2, <1>3, PTL DEF DisputeSpec, VerdictFollows, A!Spec, Listener

=============================================================================
