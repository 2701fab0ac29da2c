------------------------------- MODULE Dispute -------------------------------
(***************************************************************************)
(* How a disputed deal is resolved by the oracles, beside everything that  *)
(* may pay the same deal out: this module extends Payout and runs all of   *)
(* its handlers, the timeout loop and the agent on the same rows.          *)
(*                                                                         *)
(* A party files a dispute (open_dispute): the row moves to 'disputed',    *)
(* the agent is asked, and one watch task per escrow (OracleListener)      *)
(* collects attestations from the Nostr relays until two of the registered *)
(* oracles agree.  The task then runs the callback, which pays the winner  *)
(* (execute_oracle_payout) in the same task.                               *)
(*                                                                         *)
(* The relays keep what is published and replay it on every (re)connect,   *)
(* so a watch may get any published event, at any time, in any order, any  *)
(* number of times: posted is one set.  A watch has one task for each      *)
(* relay; it connects, loses its connection and connects again, and it is  *)
(* over when the parser raises what nobody catches.                        *)
(*                                                                         *)
(* The listener does not check signatures: the agent does.  So relays may  *)
(* also deliver events that carry the key of an oracle and not its         *)
(* signature (unsigned), and they count; and content that is no string     *)
(* makes the parser raise (garbled).                                       *)
(*                                                                         *)
(* With ListenerLoads = FALSE the module behaves as this commit does: the  *)
(* import of backend.ark.oracle_listener raises NameError, for its line 64 *)
(* names SignedAttestation and line 45 does not import it.  With TRUE the  *)
(* import works, as that of its twin backend.fedimint.oracle_listener.     *)
(*                                                                         *)
(* cancel_dispute and the admin's resolution of a disputed deal read       *)
(* escrow_info.state, which the Ark client's EscrowInfo does not have:     *)
(* both answer 500 and change nothing, so they are no actions here.        *)
(***************************************************************************)
EXTENDS Payout, FiniteSets

CONSTANTS
  Oracles,       \* the registered oracle keys (ORACLE_PUBKEYS)
  Threshold,     \* THRESHOLD: how many oracles must agree
  Relays,        \* the relays a watch listens to
  MaxEvents,     \* bound: the attestations published in a run
  MaxNoise,      \* bound: the other events on the relays in a run
  ListenerLoads  \* whether the listener's module can be imported

ASSUME OraclesAssumption == IsFiniteSet(Oracles)
ASSUME ThresholdAssumption == Threshold \in Nat \ {0}
ASSUME MaxEventsAssumption == MaxEvents \in Nat /\ MaxNoise \in Nat
ASSUME ListenerAssumption == ListenerLoads \in BOOLEAN

Outcomes == {"buyer", "seller"}

VARIABLES
  posted,   \* the attestations on the relays: <<deal, key, outcome>>
  unsigned, \* as posted, but not signed by the key they carry
  garbled,  \* <<deal, relay>>: the relay keeps an event the parser raises on
  filing,   \* open_dispute at its request to the agent, and what it began from
  watch,    \* where the watch task of the deal is
  ear,      \* where the watch's task for each relay is
  votes,    \* by_pubkey of the watch's accumulator
  genuine,  \* the oracles whose vote there carries their signature
  stray,    \* requests given up on that the agent may still carry out
  called    \* history: the outcome the callback was called with

relayVars == <<posted, unsigned, garbled>>
watchVars == <<watch, ear>>
tally == <<votes, genuine>>
disputeVars == <<relayVars, filing, watchVars, tally, stray, called>>
payoutVars == <<status, payout, txid, addr, terms, due, escrow, late, task, phase,
                queue, tries, halted, consent>>
allVars == <<payoutVars, disputeVars>>

(***************************************************************************)
(* A watch task is at one of these points:                                 *)
(*   off      there is none                                                *)
(*   listen   it waits for the accumulator's resolved event                *)
(*   resolve  the callback awaits the winner's address provider            *)
(*   agent    it awaits the agent's resolution of the escrow               *)
(*   ok       the agent has answered with success                          *)
(*   check    get_escrow_info after a failure                              *)
(***************************************************************************)
WatchPoints == {"off", "listen", "resolve", "agent", "ok", "check"}

\* A relay's task waits to (re)connect, waits for a message, or has died of an
\* exception.
EarPoints == {"off", "down", "on", "dead"}

NoFiling == "none"

DisputeTypes ==
  /\ TypeOK
  /\ posted \subseteq Deals \X Oracles \X Outcomes
  /\ filing \in [Deals -> {NoFiling, "funded", "shipped"}]
  /\ unsigned \subseteq Deals \X Oracles \X Outcomes
  /\ garbled \subseteq Deals \X Relays
  /\ watch \in [Deals -> WatchPoints]
  /\ ear \in [Deals -> [Relays -> EarPoints]]
  /\ votes \in [Deals -> [Oracles -> Outcomes \cup {"none"}]]
  /\ genuine \in [Deals -> SUBSET Oracles]
  /\ stray \subseteq Deals \X {"disputed", "released", "refunded"}
  /\ called \in [Deals -> Outcomes \cup {"none"}]

DisputeInit ==
  /\ Init
  /\ posted = {} /\ unsigned = {} /\ garbled = {}
  /\ filing = [d \in Deals |-> NoFiling]
  /\ watch = [d \in Deals |-> "off"]
  /\ ear = [d \in Deals |-> [r \in Relays |-> "off"]]
  /\ votes = [d \in Deals |-> [o \in Oracles |-> "none"]]
  /\ genuine = [d \in Deals |-> {}]
  /\ stray = {}
  /\ called = [d \in Deals |-> "none"]

-----------------------------------------------------------------------------
(***************************************************************************)
(* open_dispute                                                            *)
(***************************************************************************)

\* A participant files a dispute, one at a time per deal.  The row is moved first.
\* If the listener cannot be imported the rollback follows at once and the request
\* fails.
OpenDispute(d) ==
  /\ status[d] \in {"funded", "shipped"}
  /\ filing[d] = NoFiling
  /\ IF ListenerLoads
     THEN /\ status' = [status EXCEPT ![d] = "disputed"]
          /\ filing' = [filing EXCEPT ![d] = status[d]]
     ELSE UNCHANGED <<status, filing>>
  /\ UNCHANGED <<payout, txid, addr, terms, due, agentVars, task, loopVars, halted,
                 consent, relayVars, watchVars, tally, stray, called>>

\* The agent (external) marks a funded escrow as disputed: from then on it
\* refuses to release or refund it and accepts a resolution.
MarksDisputed(d) ==
  /\ escrow[d] = "funded"
  /\ escrow' = [escrow EXCEPT ![d] = "disputed"]

\* The request fails: the row goes back to where it was unless it was moved on.
TakeBack(d) ==
  /\ status' = IF status[d] = "disputed" THEN [status EXCEPT ![d] = filing[d]] ELSE status
  /\ filing' = [filing EXCEPT ![d] = NoFiling]

\* watch_escrow: a task for the deal and one for each relay, and an empty
\* accumulator.
NewWatch(d) ==
  /\ watch' = [watch EXCEPT ![d] = "listen"]
  /\ ear' = [ear EXCEPT ![d] = [r \in Relays |-> "down"]]
  /\ votes' = [votes EXCEPT ![d] = [o \in Oracles |-> "none"]]
  /\ genuine' = [genuine EXCEPT ![d] = {}]

\* The agent has accepted; a deal that is watched already is left to that watch.
\* Without any oracle watch_escrow raises and the dispute is taken back.
StartWatch(d) ==
  IF Oracles = {}
  THEN TakeBack(d) /\ UNCHANGED <<watchVars, tally>>
  ELSE /\ IF watch[d] = "off" THEN NewWatch(d) ELSE UNCHANGED <<watchVars, tally>>
       /\ filing' = [filing EXCEPT ![d] = NoFiling]
       /\ UNCHANGED status

Filed(d) ==
  /\ filing[d] # NoFiling
  /\ MarksDisputed(d)
  /\ StartWatch(d)
  /\ UNCHANGED <<payout, txid, addr, terms, due, late, task, loopVars, halted, consent,
                 relayVars, stray, called>>

\* The agent refuses, or is not reached, or its answer is lost or comes too late.
NotFiled(d) ==
  /\ filing[d] # NoFiling
  /\ \/ UNCHANGED <<escrow, stray>>
     \/ MarksDisputed(d) /\ UNCHANGED stray
     \/ /\ "late" \in Disturbances
        /\ escrow[d] = "funded"
        /\ stray' = stray \cup {<<d, "disputed">>}
        /\ UNCHANGED escrow
  /\ TakeBack(d)
  /\ UNCHANGED <<payout, txid, addr, terms, due, late, task, loopVars, halted, consent,
                 relayVars, watchVars, tally, called>>

-----------------------------------------------------------------------------
(***************************************************************************)
(* Attestations                                                            *)
(***************************************************************************)

\* The event an oracle signs for an outcome.  Two with the same outcome, whatever
\* their reasons and times, count the same.
Attestation(d, o, x) == <<d, o, x>>

\* An oracle publishes an attestation to the relays.  (Those of other keys are
\* dropped before they are counted, and left out.)
Publish(d, o, x) ==
  /\ Cardinality(posted) < MaxEvents
  /\ posted' = posted \cup {Attestation(d, o, x)}
  /\ UNCHANGED <<payoutVars, unsigned, garbled, filing, watchVars, tally, stray, called>>

\* Something else gets to the relays: an event with the key of an oracle that it
\* has not signed, or one with content of another type than the parser expects.
Noise(d) ==
  /\ Cardinality(unsigned) + Cardinality(garbled) < MaxNoise
  /\ \/ /\ \E o \in Oracles, x \in Outcomes :
             unsigned' = unsigned \cup {Attestation(d, o, x)}
        /\ UNCHANGED garbled
     \/ /\ \E r \in Relays : garbled' = garbled \cup {<<d, r>>}
        /\ UNCHANGED unsigned
  /\ UNCHANGED <<payoutVars, posted, filing, watchVars, tally, stray, called>>

\* The admin console publishes one for an oracle: of a disputed deal, with a
\* registered key and a valid signature only.
OracleSign(d, o, x) ==
  /\ status[d] = "disputed"
  /\ Publish(d, o, x)

\* The recorded votes for x.
Agreeing(d, x) == {o \in Oracles : votes[d][o] = x}

\* Variant: counts the votes and not what they say.
EnoughVotes(d, x) ==
  /\ Agreeing(d, x) # {}
  /\ Cardinality({o \in Oracles : votes[d][o] # "none"}) >= Threshold

\* Variant: one vote less.
EnoughButOne(d, x) ==
  /\ Agreeing(d, x) # {}
  /\ Cardinality(Agreeing(d, x)) >= Threshold - 1

\* Enough oracles agree on x.
Enough(d, x) == Cardinality(Agreeing(d, x)) >= Threshold

\* The accumulator has resolved.
Resolved(d) == \E x \in Outcomes : Enough(d, x)

\* An event on the relays that passes for an attestation of o for the escrow of d:
\* its kind, key, tag and outcome are right.  Nothing tells signed is TRUE or FALSE.
Attested(d, o, x, signed) ==
  Attestation(d, o, x) \in IF signed THEN posted ELSE unsigned

\* The accumulator takes the first attestation of an oracle, and none once enough
\* of them agree.
Counts(d, o) == votes[d][o] = "none" /\ ~Resolved(d)

\* Relay r delivers an attestation.
Hear(d, r, o, x, signed) ==
  /\ watch[d] = "listen"
  /\ ear[d][r] = "on"
  /\ Attested(d, o, x, signed)
  /\ Counts(d, o)
  /\ votes' = [votes EXCEPT ![d][o] = x]
  /\ genuine' = IF signed THEN [genuine EXCEPT ![d] = genuine[d] \cup {o}] ELSE genuine
  /\ UNCHANGED <<payoutVars, relayVars, filing, watchVars, stray, called>>

\* The task of relay r goes from p to q, while the accumulator is unresolved.
EarMoves(d, r, p, q) ==
  /\ watch[d] = "listen"
  /\ ~Resolved(d)
  /\ ear[d][r] = p
  /\ ear' = [ear EXCEPT ![d][r] = q]
  /\ UNCHANGED <<payoutVars, relayVars, filing, watch, tally, stray, called>>

Connect(d, r) == EarMoves(d, r, "down", "on")

\* Variant: a lost connection is not made again.
LoseForGood(d, r) == EarMoves(d, r, "on", "dead")

\* The connection is lost, in one of the ways that are caught.
Lose(d, r) == EarMoves(d, r, "on", "down")

\* Relay r delivers what the parser raises AttributeError on.
Choke(d, r) == <<d, r>> \in garbled /\ EarMoves(d, r, "on", "dead")

-----------------------------------------------------------------------------
(***************************************************************************)
(* The callback: execute_oracle_payout                                     *)
(***************************************************************************)

\* Variant: the outcome is read as the party at fault.
WinnerAtFault(x) == IF x = "seller" THEN "refund" ELSE "release"

Winner(x) == IF x = "seller" THEN "release" ELSE "refund"

\* The side a called watch pays.
SideOf(d) == Winner(called[d])

EndWatch(d) == watch' = [watch EXCEPT ![d] = "off"]

\* Variant: the txid waits for the address.
MarkAwaitingUnclaimed(d, s) ==
  /\ status' = [status EXCEPT ![d] = Completed(s)]
  /\ payout' = [payout EXCEPT ![d][s] = "awaiting_address"]
  /\ EndWatch(d)
  /\ UNCHANGED txid

\* The winner has given no address: the deal is shown as resolved, whatever its
\* status is, and the escrow is left as it is.
MarkAwaiting(d, s) ==
  /\ status' = [status EXCEPT ![d] = Completed(s)]
  /\ txid' = [txid EXCEPT ![d][s] = TRUE]
  /\ payout' = [payout EXCEPT ![d][s] = "awaiting_address"]
  /\ EndWatch(d)

\* The watch task wakes up and calls the callback, which reads the row again and
\* runs to its first await.
Call(d, x) ==
  LET s == Winner(x)
  IN  /\ watch[d] = "listen"
      /\ Enough(d, x)
      /\ called' = [called EXCEPT ![d] = x]
      /\ ear' = [ear EXCEPT ![d] = [r \in Relays |-> "off"]]
      /\ IF halted \/ txid[d][Other(s)] \/ txid[d][s]
         THEN EndWatch(d) /\ UNCHANGED <<status, txid, payout>>
         ELSE IF ~addr[d][s]
         THEN MarkAwaiting(d, s)
         ELSE /\ watch' = [watch EXCEPT ![d] = "resolve"]
              /\ UNCHANGED <<status, txid, payout>>
      /\ UNCHANGED <<addr, terms, due, agentVars, task, loopVars, halted, consent,
                     relayVars, filing, tally, stray>>

\* The address provider fails: the exception ends the callback, and with it the
\* watch, for good.
NoInvoice(d) ==
  /\ watch[d] = "resolve"
  /\ EndWatch(d)
  /\ UNCHANGED <<payoutVars, relayVars, filing, ear, tally, stray, called>>

\* The address is resolved: the payout goes on only if the deal is still disputed.
OracleBegin(d) ==
  /\ watch[d] = "resolve"
  /\ IF status[d] = "disputed"
     THEN /\ status' = [status EXCEPT ![d] = Transitional(SideOf(d))]
          /\ payout' = [payout EXCEPT ![d][SideOf(d)] = "pending"]
          /\ watch' = [watch EXCEPT ![d] = "agent"]
     ELSE EndWatch(d) /\ UNCHANGED <<status, payout>>
  /\ UNCHANGED <<txid, addr, terms, due, agentVars, task, loopVars, halted, consent,
                 relayVars, filing, ear, tally, stray, called>>

\* What the escrow becomes when outcome x is carried out.
Ruled(x) == IF x = "seller" THEN "released" ELSE "refunded"

\* The agent (external) checks the signature of every attestation it is sent, and
\* carries out the outcome it is sent with them on a disputed escrow.
Accepts(d) == escrow[d] = "disputed" /\ Agreeing(d, called[d]) \subseteq genuine[d]

Arbitrates(d) ==
  /\ Accepts(d)
  /\ escrow' = [escrow EXCEPT ![d] = Ruled(called[d])]

OracleAnswers(d) ==
  /\ watch[d] = "agent"
  /\ Arbitrates(d)
  /\ watch' = [watch EXCEPT ![d] = "ok"]
  /\ UNCHANGED <<dbVars, due, late, task, loopVars, halted, consent,
                 relayVars, filing, ear, tally, stray, called>>

\* Variant: the failure is swallowed, as the direct path of execute_ark_payout does.
OracleFailsUnnoticed(d) ==
  /\ watch[d] = "agent"
  /\ watch' = [watch EXCEPT ![d] = "ok"]
  /\ UNCHANGED <<payoutVars, relayVars, filing, ear, tally, stray, called>>

\* The request raises: refused, not reached, or its answer lost or late.
OracleFails(d) ==
  /\ watch[d] = "agent"
  /\ \/ UNCHANGED <<escrow, stray>>
     \/ Arbitrates(d) /\ UNCHANGED stray
     \/ /\ "late" \in Disturbances
        /\ Accepts(d)
        /\ stray' = stray \cup {<<d, Ruled(called[d])>>}
        /\ UNCHANGED escrow
  /\ watch' = [watch EXCEPT ![d] = "check"]
  /\ UNCHANGED <<dbVars, due, late, task, loopVars, halted, consent,
                 relayVars, filing, ear, tally, called>>

OracleSucceeds(d) ==
  /\ watch[d] = "ok"
  /\ LET s == SideOf(d)
     IN  IF status[d] = Transitional(s)
         THEN /\ status' = [status EXCEPT ![d] = Completed(s)]
              /\ txid' = [txid EXCEPT ![d][s] = TRUE]
              /\ payout' = [payout EXCEPT ![d][s] = "paid"]
         ELSE UNCHANGED <<status, txid, payout>>
  /\ EndWatch(d)
  /\ UNCHANGED <<addr, terms, due, agentVars, task, loopVars, halted, consent,
                 relayVars, filing, ear, tally, stray, called>>

\* get_escrow_info returned or raised; reading .state raises either way, which is
\* taken for "not resolved": the deal is disputed again.
OracleReverts(d) ==
  /\ watch[d] = "check"
  /\ RollBack(d, SideOf(d), "disputed")
  /\ EndWatch(d)
  /\ UNCHANGED <<txid, addr, terms, due, agentVars, task, loopVars, halted, consent,
                 relayVars, filing, ear, tally, stray, called>>

\* A request nobody waits for any more reaches the agent.
StrayDelivery ==
  /\ \E m \in stray :
       /\ stray' = stray \ {m}
       /\ escrow' = IF escrow[m[1]] = (IF m[2] = "disputed" THEN "funded" ELSE "disputed")
                    THEN [escrow EXCEPT ![m[1]] = m[2]] ELSE escrow
  /\ UNCHANGED <<dbVars, due, late, task, loopVars, halted, consent,
                 relayVars, filing, watchVars, tally, called>>

-----------------------------------------------------------------------------
\* The process dies: the watches are gone, and nothing starts them again for the
\* deals in 'disputed'.
DisputeCrash ==
  /\ Crash
  /\ LET sent == {<<d, "disputed">> : d \in {e \in Deals : filing[e] # NoFiling
                                                         /\ escrow[e] = "funded"}}
                 \cup {<<d, Ruled(called[d])>> : d \in {e \in Deals : watch[e] = "agent"
                                                         /\ Accepts(e)}}
     IN  stray' \in {stray \cup S : S \in SUBSET sent}
  /\ filing' = [d \in Deals |-> NoFiling]
  /\ watch' = [d \in Deals |-> "off"]
  /\ ear' = [d \in Deals |-> [r \in Relays |-> "off"]]
  /\ votes' = [d \in Deals |-> [o \in Oracles |-> "none"]]
  /\ genuine' = [d \in Deals |-> {}]
  /\ UNCHANGED <<relayVars, called>>

\* Every step of Payout but the crash.
PayoutStep ==
  \/ Users
  \/ \E d \in Deals : Ship(d) \/ Tick(d)
  \/ \E t \in Tasks : Advance(t) \/ Agent(t)
  \/ LateDelivery
  \/ LoopStep
  \/ CancelLoop
  \/ Halt \/ Resume

\* The relays, and the watch's tasks for them.
RelayStep(d) ==
  \/ Noise(d)
  \/ \E o \in Oracles, x \in Outcomes :
       \/ Publish(d, o, x) \/ OracleSign(d, o, x)
       \/ \E r \in Relays, signed \in BOOLEAN : Hear(d, r, o, x, signed)
  \/ \E r \in Relays : Connect(d, r) \/ Lose(d, r) \/ Choke(d, r)

\* The watch task of a deal once the accumulator is resolved.
WatchStep(d) ==
  \/ \E x \in Outcomes : Call(d, x)
  \/ NoInvoice(d) \/ OracleBegin(d) \/ OracleAnswers(d) \/ OracleFails(d)
  \/ OracleSucceeds(d) \/ OracleReverts(d)

DisputeNext ==
  \/ PayoutStep /\ UNCHANGED disputeVars
  \/ \E d \in Deals :
       \/ OpenDispute(d) \/ Filed(d) \/ NotFiled(d)
       \/ RelayStep(d)
       \/ WatchStep(d)
  \/ StrayDelivery
  \/ DisputeCrash

DisputeSpec == DisputeInit /\ [][DisputeNext]_allVars

-----------------------------------------------------------------------------
(***************************************************************************)
(* What holds                                                              *)
(***************************************************************************)

\* The registered oracles that have published an attestation for x.
Backers(d, x) == {o \in Oracles : <<d, o, x>> \in posted}

(* An escrow in dispute goes to the side that enough registered oracles     *)
(* have published an attestation for, and to nobody else: no timeout,       *)
(* retry, late request or handler that takes the deal out of 'disputed'     *)
(* (execute_ark_payout does, from any status) settles it meanwhile, and no  *)
(* unsigned event that was counted (the agent refuses those; that enough    *)
(* agree is the listener's to see to).                                      *)
OraclesDecide ==
  [][\A d \in Deals :
       (escrow[d] = "disputed" /\ escrow'[d] # "disputed") =>
         \E x \in Outcomes :
           /\ escrow'[d] = Ruled(x)
           /\ Cardinality(Backers(d, x)) >= Threshold]_allVars

\* The sets of oracles large enough to decide.
Quorums == {P \in SUBSET Oracles : Cardinality(P) >= Threshold}

\* What the oracles have published, deal by deal.
Published == [d \in Deals |-> {v \in Oracles \X Outcomes : <<d, v[1], v[2]>> \in posted}]

\* The outcome the escrow was settled by.
Rulings ==
  [d \in Deals |-> IF called[d] # "none" /\ escrow[d] \in Settled
                   THEN IF escrow[d] = Ruled("seller") THEN "seller" ELSE "buyer"
                   ELSE "none"]

A == INSTANCE Arbitration WITH ballots <- Published, verdict <- called, ruling <- Rulings

(* The listener keeps what Arbitration promises: it comes to one verdict    *)
(* for a deal at most, although a dispute may be filed again ("Called       *)
(* exactly once" of watch_escrow), and the escrow is settled by that        *)
(* verdict and by no other, once enough oracles have published it,          *)
(* whatever else the relays deliver and in whatever order (_Accumulator).   *)
VerdictFollows == A!Spec

\* A party enough oracles are for is entitled too.
ClaimantsOrWinner ==
  [d \in Deals |-> Claimants[d] \cup
                     {x \in Parties : Cardinality(Backers(d, x)) >= Threshold}]

D == INSTANCE Custody WITH money <- Money, entitled <- ClaimantsOrWinner, booked <- Booked

(* With disputes, oracles and all the other handlers on the same deal, the  *)
(* promise of Custody is kept: whoever gets to the agent first, the escrow  *)
(* is settled once, for a party that the buyer, a signature or enough       *)
(* oracles entitle, and the two kinds of payout never both go on record     *)
(* (execute_oracle_payout beside execute_ark_payout).                       *)
CustodyKeptInDispute == D!Spec

(***************************************************************************)
(* Fairness.  A lost connection is made again, after a minute at most      *)
(* (_listen_one_relay), and a relay replays what it keeps on every         *)
(* connection: an attestation that can be heard again and again is heard   *)
(* in the end.  Nothing makes a connection last, and nothing revives a     *)
(* task that has died.  The watch task runs when it is ready.              *)
(***************************************************************************)
FairDisputeSpec ==
  /\ DisputeSpec
  /\ \A d \in Deals :
       /\ \A r \in Relays : WF_allVars(Connect(d, r))
       /\ \A o \in Oracles :
            SF_allVars(\E r \in Relays, x \in Outcomes, signed \in BOOLEAN :
                         Hear(d, r, o, x, signed))
       /\ WF_allVars(\E x \in Outcomes : Call(d, x))

\* The oracles of P have published x and nothing else, nobody has in their names,
\* and some relay keeps nothing the parser raises on.
Unanimous(d, P, x) ==
  /\ \A o \in P, y \in Outcomes :
       /\ <<d, o, y>> \in posted <=> y = x
       /\ <<d, o, y>> \notin unsigned
  /\ \E r \in Relays : <<d, r>> \notin garbled

(* Enough honest oracles get their outcome, whatever valid outcomes the     *)
(* others publish or are named for, both included, in whatever order the    *)
(* relays deliver, however often each connection is lost, and although      *)
(* other relays' tasks may die: the watch calls back with it, unless the    *)
(* process dies (_watch_task, _listen_one_relay).                           *)
HonestOraclesDecide ==
  \A d \in Deals, x \in Outcomes, P \in Quorums :
    (watch[d] = "listen" /\ Unanimous(d, P, x))
      ~> (called[d] = x \/ watch[d] = "off" \/ ~Unanimous(d, P, x))

=============================================================================
