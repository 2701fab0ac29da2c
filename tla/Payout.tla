------------------------------- MODULE Payout -------------------------------
(***************************************************************************)
(* How a funded deal is paid out by the Ark backend.                       *)
(*                                                                         *)
(* The backend is one asyncio event loop: a handler runs without           *)
(* interruption from one await to the next, so every action below is the   *)
(* code between two awaits.  What is read before an await and used after   *)
(* it (the deal dict handed to execute_ark_payout, the list of expired     *)
(* deals) is kept in the task that read it, and may be stale.              *)
(*                                                                         *)
(* Three parties act: the request handlers (one of Workers each, the       *)
(* background tasks they spawn included), the timeout loop (Loop), and the *)
(* escrow agent, an external HTTP service that settles an escrow at most   *)
(* once and whose answers may be lost or come too late.                    *)
(*                                                                         *)
(* The deals here have been funded through confirm_funding: they have an   *)
(* escrow id and a secret-code hash.  Their parties keep their public keys *)
(* on file: a payout to one who has removed it (set-pubkey) and gave no    *)
(* address is refused before anything is written, and so is a request that *)
(* the key has to verify.                                                  *)
(***************************************************************************)
EXTENDS Naturals

CONSTANTS
  Deals,        \* the deals
  Workers,      \* request handlers that may run at the same time
  Loop,         \* the background timeout loop
  Addressed,    \* the deals both of whose parties gave a Lightning Address
  TermsSet,     \* the terms a deal may have been created with
  MaxRetry,     \* MAX_RETRY_COUNT of the timeout handler
  Disturbances  \* what may happen besides requests: "time", "crash", "cancel", "late", "halt"

ASSUME LoopAssumption == Loop \notin Workers
ASSUME AddressedAssumption == Addressed \subseteq Deals
ASSUME MaxRetryAssumption == MaxRetry \in Nat

\* payout_type: which party a payout is for
Sides == {"release", "refund"}

\* timeout_action, whether the timeout signature that timeout_action selects
\* is on file, and requires_tracking
Terms == [action : Sides, sig : BOOLEAN, tracking : BOOLEAN]

ASSUME TermsAssumption == TermsSet \subseteq Terms

Statuses == {"pending", "active", "funded", "shipped", "released", "releasing",
             "refunding", "completed", "refunded", "disputed", "cancelled",
             "expired"}

\* payout_status / buyer_payout_status; "none" is NULL.  Only Dispute's payouts
\* write "awaiting_address", and only its agent knows "disputed".
PayoutStatuses == {"none", "pending", "paid", "failed", "payout_stuck",
                   "awaiting_address"}

EscrowStates == {"created", "funded", "disputed", "released", "refunded"}

Tasks == Workers \cup {Loop}

VARIABLES
  status,   \* deal row: status
  payout,   \* deal row: payout_status (release), buyer_payout_status (refund)
  txid,     \* deal row: whether release_txid / refund_txid is set
  addr,     \* deal row: whether seller / buyer_payout_invoice is set
  terms,    \* deal row: the fields fixed before funding
  due,      \* whether expires_at has passed
  escrow,   \* the agent's state of the deal's escrow
  late,     \* requests the backend gave up on and the agent may still carry out
  task,     \* the running handlers and the loop
  phase,    \* what the loop is doing
  queue,    \* the rows the loop has read and not processed yet
  tries,    \* _retry_state: the retry count per deal and side
  halted,   \* _PAYOUTS_HALTED
  consent   \* history: the buyer revealed the secret code of these deals

dbVars == <<status, payout, txid, addr, terms>>
agentVars == <<escrow, late>>
loopVars == <<phase, queue, tries>>
vars == <<status, payout, txid, addr, terms, due, escrow, late, task, phase,
          queue, tries, halted, consent>>

-----------------------------------------------------------------------------
\* The columns a payout type uses.

Other(s) == IF s = "release" THEN "refund" ELSE "release"

Transitional(s) == IF s = "release" THEN "releasing" ELSE "refunding"

\* Variant: a status that DealStatus does not have (no write validates it).
CompletedMisspelt(s) == IF s = "release" THEN "complete" ELSE "refunded"

Completed(s) == IF s = "release" THEN "completed" ELSE "refunded"

\* A deal dict as a handler holds it: the mutable part of the row when read.
Row(d) == [status |-> status[d], payout |-> payout[d],
           txid |-> txid[d], addr |-> addr[d]]

Rows == [status : Statuses, payout : [Sides -> PayoutStatuses],
         txid : [Sides -> BOOLEAN], addr : [Sides -> BOOLEAN]]

\* Held where the deal dict is not looked at any more.
NoRow == [status |-> "pending", payout |-> [s \in Sides |-> "none"],
          txid |-> [s \in Sides |-> FALSE], addr |-> [s \in Sides |-> FALSE]]

(***************************************************************************)
(* A task is at one of these points, each but "idle" an await:             *)
(*   start     the background payout is scheduled, it has not run yet      *)
(*   validate  validate_lightning_address of a submitted address           *)
(*   resolve   resolve_to_routeable_invoice                                *)
(*   call      the request to the agent of a payout to an address          *)
(*   direct    the request to the agent of a payout without an address     *)
(*   ok        the agent has answered the call with success                *)
(*   record    the agent has answered (or failed) the direct request       *)
(*   check     get_escrow_info after a failed call                         *)
(*   tcheck    get_escrow_info in the timeout handler's own recovery       *)
(***************************************************************************)
Points == {"idle", "start", "validate", "resolve", "call", "direct", "ok",
           "record", "check", "tcheck"}

Callers == {"user", "timeout", "retry", "submit", "admin"}

Errors == {"none", "other", "rejected", "notfound"}

\* row is the caller's deal dict, seen its status, prev the status Begin found.
TaskRecords == [pc : Points, deal : Deals, side : Sides, caller : Callers,
                row : Rows, seen : Statuses, prev : Statuses, signed : BOOLEAN,
                err : Errors]

NoTask == [pc |-> "idle"]

Idle(t) == task[t].pc = "idle"

Items == [deal : Deals, side : Sides, row : Rows]

TypeOK ==
  /\ status \in [Deals -> Statuses]
  /\ payout \in [Deals -> [Sides -> PayoutStatuses]]
  /\ txid \in [Deals -> [Sides -> BOOLEAN]]
  /\ addr \in [Deals -> [Sides -> BOOLEAN]]
  /\ terms \in [Deals -> TermsSet]
  /\ due \in [Deals -> BOOLEAN]
  /\ escrow \in [Deals -> EscrowStates]
  /\ late \subseteq Deals \X EscrowStates
  /\ task \in [Tasks -> TaskRecords \cup {NoTask}]
  /\ phase \in {"sleep", "expired", "stalled"}
  /\ queue \subseteq Items
  /\ tries \in [Deals -> [Sides -> Nat]]
  /\ halted \in BOOLEAN
  /\ consent \subseteq Deals

(***************************************************************************)
(* A deal is here right after confirm_funding.  The agent may have missed  *)
(* the funding notification (it is sent best-effort), and a create_escrow  *)
(* that overlapped the funding leaves the deal in 'active' with a fresh    *)
(* escrow the agent has no funds for.                                      *)
(***************************************************************************)
Init ==
  /\ status \in [Deals -> {"funded", "active"}]
  /\ escrow \in [Deals -> {"created", "funded"}]
  /\ \A d \in Deals : status[d] = "active" => escrow[d] = "created"
  /\ addr \in [Deals -> [Sides -> BOOLEAN]]
  /\ \A d \in Addressed : \A s \in Sides : addr[d][s]
  /\ terms \in [Deals -> TermsSet]
  /\ payout = [d \in Deals |-> [s \in Sides |-> "none"]]
  /\ txid = [d \in Deals |-> [s \in Sides |-> FALSE]]
  /\ due = [d \in Deals |-> FALSE]
  /\ late = {}
  /\ task = [t \in Tasks |-> NoTask]
  /\ phase = "sleep"
  /\ queue = {}
  /\ tries = [d \in Deals |-> [s \in Sides |-> 0]]
  /\ halted = FALSE
  /\ consent = {}

-----------------------------------------------------------------------------
(***************************************************************************)
(* execute_ark_payout                                                      *)
(***************************************************************************)

\* An exception leaves execute_ark_payout: the timeout handler catches it and
\* asks the agent for the escrow's state, every other caller is done.
Raise(tk) == IF tk.caller = "timeout" THEN [tk EXCEPT !.pc = "tcheck"] ELSE NoTask

\* Everything before the first await.  It looks at the caller's deal dict (row)
\* only.  A deal whose own txid is set returns at once.
Enter(d, s, who, row, signed) ==
  LET seen == IF who = "timeout" THEN row.status ELSE "pending"
      tk == [pc |-> "resolve", deal |-> d, side |-> s, caller |-> who, row |-> NoRow,
             seen |-> seen, prev |-> "pending", signed |-> signed, err |-> "none"]
  IN  IF halted \/ row.txid[Other(s)] THEN Raise(tk)
      ELSE IF row.txid[s] THEN NoTask
      ELSE IF row.addr[s] THEN tk
      ELSE [tk EXCEPT !.pc = "direct"]

\* The background task of release_deal or refund_deal gets to run.
Start(t) ==
  /\ task[t].pc = "start"
  /\ task' = [task EXCEPT ![t] =
       Enter(@.deal, @.side, @.caller, @.row, @.signed)]
  /\ UNCHANGED <<dbVars, due, agentVars, loopVars, halted, consent>>

\* Refunds and timeout claims need the timeout signature on file, a cooperative
\* release the buyer's signature.  Without it the code raises: ValueError if
\* the deal has escrow keys, and TypeError otherwise, for the legacy calls pass
\* one argument more than ArkEscrowService takes.
\* Variant: without a signature the service falls back to its own key.
AuthorizedByService(tk) ==
  IF tk.side = "refund" \/ tk.caller # "user" THEN TRUE ELSE tk.signed

Authorized(tk) ==
  IF tk.side = "refund" \/ tk.caller # "user"
  THEN terms[tk.deal].sig
  ELSE tk.signed

\* What the agent is asked to do.  A timeout claim is a refund request whatever
\* the side: refund_deal_delegated is the only call that takes the signature.
Request(tk) ==
  IF tk.side = "release" /\ (tk.pc = "direct" \/ tk.caller = "user")
  THEN "released"
  ELSE "refunded"

\* The address is resolved.  The status is read again, and the deal moves to the
\* transitional status from whatever that is; only an entry from the payout's
\* own transitional status is refused, unless the earlier attempt has failed.
MayBegin(d, s) == status[d] = Transitional(s) => payout[d][s] = "failed"

Begin(t) ==
  /\ task[t].pc = "resolve"
  /\ LET tk == task[t]
         d == tk.deal
         s == tk.side
     IN  IF MayBegin(d, s)
         THEN /\ status' = [status EXCEPT ![d] = Transitional(s)]
              /\ payout' = [payout EXCEPT ![d][s] = "pending"]
              /\ task' = [task EXCEPT ![t] =
                   [@ EXCEPT !.prev = status[d],
                             !.pc = IF Authorized(tk) THEN "call" ELSE "check",
                             !.err = IF tk.caller = "retry" THEN "other" ELSE "none"]]
         ELSE /\ task' = [task EXCEPT ![t] = Raise(@)]
              /\ UNCHANGED <<status, payout>>
  /\ UNCHANGED <<txid, addr, terms, due, agentVars, loopVars, halted, consent>>

\* resolve_to_routeable_invoice raises.
ResolveFails(t) ==
  /\ task[t].pc = "resolve"
  /\ task' = [task EXCEPT ![t] = Raise(@)]
  /\ UNCHANGED <<dbVars, due, agentVars, loopVars, halted, consent>>

(***************************************************************************)
(* The agent (external).  It carries out a request on a funded escrow and  *)
(* refuses it on any other.                                                *)
(***************************************************************************)
Settles(d, op) ==
  /\ escrow[d] = "funded"
  /\ escrow' = [escrow EXCEPT ![d] = op]

\* The request succeeds and its answer arrives.
AgentAnswers(t) ==
  /\ task[t].pc \in {"call", "direct"}
  /\ Settles(task[t].deal, Request(task[t]))
  /\ task' = [task EXCEPT ![t] = [@ EXCEPT !.pc = IF task[t].pc = "call" THEN "ok" ELSE "record"]]
  /\ UNCHANGED <<dbVars, due, late, loopVars, halted, consent>>

\* Variant: the failure of a call is swallowed as the direct path's is.
AgentFailsUnnoticed(t) ==
  /\ task[t].pc \in {"call", "direct"}
  /\ UNCHANGED agentVars
  /\ task' = [task EXCEPT ![t] = [@ EXCEPT !.pc = IF task[t].pc = "call" THEN "ok" ELSE "record"]]
  /\ UNCHANGED <<dbVars, due, loopVars, halted, consent>>

\* The request raises: the agent refused it, or was not reached, or did not
\* answer in time.  In the last case the agent has carried it out already, or
\* will later.  A failed call awaits get_escrow_info next; the direct path
\* logs the failure as non-fatal and goes on.
AgentFails(t) ==
  /\ task[t].pc \in {"call", "direct"}
  /\ LET d == task[t].deal
         op == Request(task[t])
     IN  \/ UNCHANGED agentVars
         \/ Settles(d, op) /\ UNCHANGED late
         \/ /\ "late" \in Disturbances
            /\ escrow[d] = "funded"
            /\ late' = late \cup {<<d, op>>}
            /\ UNCHANGED escrow
  /\ \E e \in Errors \ {"none"} :
       task' = [task EXCEPT ![t] =
         [@ EXCEPT !.pc = IF task[t].pc = "call" THEN "check" ELSE "record",
                   !.err = IF task[t].caller = "retry" THEN e ELSE "none"]]
  /\ UNCHANGED <<dbVars, due, loopVars, halted, consent>>

\* A request nobody waits for any more reaches the agent.
LateDelivery ==
  /\ \E m \in late :
       /\ late' = late \ {m}
       /\ escrow' = IF escrow[m[1]] = "funded"
                    THEN [escrow EXCEPT ![m[1]] = m[2]] ELSE escrow
  /\ UNCHANGED <<dbVars, due, task, loopVars, halted, consent>>

(***************************************************************************)
(* The end of a payout.                                                    *)
(***************************************************************************)

\* Variant: the txid is not recorded.
SucceedWithoutTxid(t) ==
  /\ task[t].pc = "ok"
  /\ LET d == task[t].deal
         s == task[t].side
     IN  /\ status[d] = Transitional(s)
         /\ status' = [status EXCEPT ![d] = Completed(s)]
         /\ payout' = [payout EXCEPT ![d][s] = "paid"]
  /\ task' = [task EXCEPT ![t] = NoTask]
  /\ UNCHANGED <<txid, addr, terms, due, agentVars, loopVars, halted, consent>>

\* The agent answered: the deal is completed if it is still in the transitional
\* status of this payout.  A retry forgets its backoff.
Succeed(t) ==
  /\ task[t].pc = "ok"
  /\ LET tk == task[t]
         d == tk.deal
         s == tk.side
     IN  /\ IF status[d] = Transitional(s)
            THEN /\ status' = [status EXCEPT ![d] = Completed(s)]
                 /\ txid' = [txid EXCEPT ![d][s] = TRUE]
                 /\ payout' = [payout EXCEPT ![d][s] = "paid"]
            ELSE UNCHANGED <<status, txid, payout>>
         /\ tries' = IF tk.caller = "retry" THEN [tries EXCEPT ![d][s] = 0] ELSE tries
  /\ task' = [task EXCEPT ![t] = NoTask]
  /\ UNCHANGED <<addr, terms, due, agentVars, phase, queue, halted, consent>>

\* The direct path, whatever the agent said.
RecordDirect(t) ==
  /\ task[t].pc = "record"
  /\ LET d == task[t].deal
         s == task[t].side
     IN  /\ status' = [status EXCEPT ![d] = Completed(s)]
         /\ txid' = [txid EXCEPT ![d][s] = TRUE]
  /\ task' = [task EXCEPT ![t] = NoTask]
  /\ UNCHANGED <<payout, addr, terms, due, agentVars, loopVars, halted, consent>>

\* atomic_status_transition: nothing is written unless the status is one of those
\* expected.
AtomicTransition(d, expected, new, s, mark) ==
  IF status[d] \in expected
  THEN /\ status' = [status EXCEPT ![d] = new]
       /\ payout' = [payout EXCEPT ![d][s] = mark]
  ELSE UNCHANGED <<status, payout>>

\* get_escrow_info returned or raised.  Reading .state of the EscrowInfo the Ark
\* client builds raises AttributeError, which the code takes for "not claimed":
\* the deal returns to the status it had when the payout began.
RollBack(d, s, prev) == AtomicTransition(d, {Transitional(s)}, prev, s, "failed")

Fail(t) ==
  /\ task[t].pc = "check"
  /\ task[t].caller # "retry"
  /\ RollBack(task[t].deal, task[t].side, task[t].prev)
  /\ task' = [task EXCEPT ![t] = Raise(@)]
  /\ UNCHANGED <<txid, addr, terms, due, agentVars, loopVars, halted, consent>>

\* A failed retry: the same, and the retry loop looks at the error's text.  Only a
\* rejection counts as an attempt; an unknown escrow parks the payout.
FailRetry(t) ==
  /\ task[t].pc = "check"
  /\ task[t].caller = "retry"
  /\ LET d == task[t].deal
         s == task[t].side
         err == task[t].err
     IN  /\ status' = IF status[d] = Transitional(s)
                      THEN [status EXCEPT ![d] = task[t].prev] ELSE status
         /\ payout' = IF err = "notfound"
                      THEN [payout EXCEPT ![d][s] = "payout_stuck"]
                      ELSE IF status[d] = Transitional(s)
                      THEN [payout EXCEPT ![d][s] = "failed"] ELSE payout
         /\ tries' = CASE err = "rejected" -> [tries EXCEPT ![d][s] = @ + 1]
                       [] err = "notfound" -> [tries EXCEPT ![d][s] = 0]
                       [] OTHER -> tries
  /\ task' = [task EXCEPT ![t] = NoTask]
  /\ UNCHANGED <<txid, addr, terms, due, agentVars, phase, queue, halted, consent>>

\* The timeout handler's own recovery, after a second get_escrow_info that it
\* reads the same way.  It accepts the status its row had when the pass began
\* and the transitional one.
FailTimeout(t) ==
  /\ task[t].pc = "tcheck"
  /\ LET d == task[t].deal
         s == task[t].side
     IN  AtomicTransition(d, {task[t].seen, Transitional(s)}, "expired", s, "failed")
  /\ task' = [task EXCEPT ![t] = NoTask]
  /\ UNCHANGED <<txid, addr, terms, due, agentVars, loopVars, halted, consent>>

-----------------------------------------------------------------------------
(***************************************************************************)
(* The endpoints of buyer and seller                                       *)
(***************************************************************************)

NewTask(pc, d, s, who, row, signed) ==
  [pc |-> pc, deal |-> d, side |-> s, caller |-> who, row |-> row,
   seen |-> "pending", prev |-> "pending", signed |-> signed, err |-> "none"]

\* An expired deal may still be paid out by hand as long as no txid is set.
Unclaimed(d) == \A s \in Sides : ~txid[d][s]

\* Variant: the secret code is not compared with the stored hash.
ReleaseAllowedAnyCode(d, st, code) ==
  /\ st \in {"funded", "shipped", "releasing"} \/ (st = "expired" /\ Unclaimed(d))
  /\ st = "funded" => ~terms[d].tracking
  /\ st = "expired" => terms[d].action = "release"
  /\ ~txid[d]["refund"]

\* The checks of release_deal, on the status after the auto-heal.
ReleaseAllowed(d, st, code) ==
  /\ st \in {"funded", "shipped", "releasing"} \/ (st = "expired" /\ Unclaimed(d))
  /\ st = "funded" => ~terms[d].tracking
  /\ st = "expired" => terms[d].action = "release"
  /\ ~txid[d]["refund"]
  /\ code = "right"

\* The buyer releases the escrow.  A deal found in 'active' although it was funded
\* is moved on to 'funded', with a new expiry, whether the release is accepted or
\* not.  The payout gets the row read here and runs later.
ReleaseRequest(t, d, code, signed) ==
  LET heal == status[d] = "active"
      st == IF heal THEN "funded" ELSE status[d]
      row == [Row(d) EXCEPT !.status = st]
  IN  /\ Idle(t)
      /\ payout[d]["release"] # "paid"
      /\ status' = [status EXCEPT ![d] = st]
      /\ due' = IF heal THEN [due EXCEPT ![d] = FALSE] ELSE due
      /\ consent' = IF code = "right" THEN consent \cup {d} ELSE consent
      /\ task' = IF ReleaseAllowed(d, st, code)
                 THEN [task EXCEPT ![t] = NewTask("start", d, "release", "user", row, signed)]
                 ELSE task
      /\ UNCHANGED <<payout, txid, addr, terms, agentVars, loopVars, halted>>

\* Buyer or seller asks for a refund.
RefundAllowed(d) ==
  /\ \/ status[d] \in {"funded", "shipped", "refunding"}
     \/ status[d] = "expired" /\ Unclaimed(d)
  /\ ~txid[d]["release"]

RefundRequest(t, d) ==
  /\ Idle(t)
  /\ payout[d]["refund"] # "paid"
  /\ RefundAllowed(d)
  /\ task' = [task EXCEPT ![t] = NewTask("start", d, "refund", "user", Row(d), FALSE)]
  /\ UNCHANGED <<dbVars, due, agentVars, loopVars, halted, consent>>

\* set_deal_shipped finds funded deals only.
SetShipped(d) ==
  /\ status[d] = "funded"
  /\ status' = [status EXCEPT ![d] = "shipped"]

\* The seller ships.
Ship(d) ==
  /\ SetShipped(d)
  /\ UNCHANGED <<payout, txid, addr, terms, due, agentVars, task, loopVars, halted, consent>>

\* A party submits a Lightning Address; it is validated over the network, and the
\* checks made before are not repeated after.
SubmitAllowed(d, s) ==
  /\ status[d] \notin (IF s = "release" THEN {"refunded", "cancelled"}
                       ELSE {"completed", "released", "cancelled"})
  /\ ~(txid[d][s] /\ payout[d][s] = "paid")
  /\ payout[d][s] # "pending"
  /\ status[d] # Transitional(s)

SubmitRequest(t, d, s) ==
  /\ Idle(t)
  /\ SubmitAllowed(d, s)
  /\ task' = [task EXCEPT ![t] = NewTask("validate", d, s, "submit", Row(d), FALSE)]
  /\ UNCHANGED <<dbVars, due, agentVars, loopVars, halted, consent>>

ValidateFails(t) ==
  /\ task[t].pc = "validate"
  /\ task' = [task EXCEPT ![t] = NoTask]
  /\ UNCHANGED <<dbVars, due, agentVars, loopVars, halted, consent>>

\* The deal expired in favour of this party, and nothing was tried for want of an
\* address: judged by the row read before the validation.
WasWaiting(tk) ==
  /\ tk.row.status = "expired"
  /\ terms[tk.deal].action = tk.side
  /\ ~tk.row.txid[tk.side]
  /\ tk.row.payout[tk.side] = "none"

\* The address is stored; a payout that was waiting for it starts at once.
Validated(t) ==
  /\ task[t].pc = "validate"
  /\ LET d == task[t].deal
         s == task[t].side
         stored == [addr EXCEPT ![d][s] = TRUE]
         marked == [payout EXCEPT ![d][s] = "failed"]
         row == [Row(d) EXCEPT !.addr = stored[d], !.payout = marked[d]]
     IN  /\ addr' = stored
         /\ IF WasWaiting(task[t])
            THEN /\ payout' = marked
                 /\ task' = [task EXCEPT ![t] = Enter(d, s, "submit", row, FALSE)]
            ELSE /\ task' = [task EXCEPT ![t] = NoTask]
                 /\ UNCHANGED payout
  /\ UNCHANGED <<status, txid, terms, due, agentVars, loopVars, halted, consent>>

(***************************************************************************)
(* The admin resolves an expired deal, only to the side timeout_action     *)
(* names.  (No deal is 'disputed' under the Ark backend.)                  *)
(***************************************************************************)
AdminResolve(t, d, s) ==
  /\ Idle(t)
  /\ status[d] = "expired"
  /\ addr[d][s]
  /\ ~txid[d][Other(s)]
  /\ ~(txid[d][s] /\ payout[d][s] = "paid")
  /\ s = terms[d].action
  /\ task' = [task EXCEPT ![t] = Enter(d, s, "admin", Row(d), FALSE)]
  /\ UNCHANGED <<dbVars, due, agentVars, loopVars, halted, consent>>

\* The kill switch.
Halt == /\ "halt" \in Disturbances
        /\ ~halted
        /\ halted' = TRUE
        /\ UNCHANGED <<dbVars, due, agentVars, task, loopVars, consent>>

Resume == /\ halted
          /\ halted' = FALSE
          /\ UNCHANGED <<dbVars, due, agentVars, task, loopVars, consent>>

-----------------------------------------------------------------------------
(***************************************************************************)
(* The timeout loop: a pass over expired deals, then a pass over stalled   *)
(* payouts.  Each pass reads its rows once and works through them; a row   *)
(* goes stale while an earlier one is being paid out.                      *)
(***************************************************************************)

Tick(d) ==
  /\ "time" \in Disturbances
  /\ ~due[d]
  /\ due' = [due EXCEPT ![d] = TRUE]
  /\ UNCHANGED <<dbVars, agentVars, task, loopVars, halted, consent>>

Expired(d) == due[d] /\ status[d] \in {"funded", "shipped"}

ScanExpired ==
  /\ phase = "sleep"
  /\ phase' = "expired"
  /\ queue' = {[deal |-> d, side |-> terms[d].action, row |-> Row(d)] :
                 d \in {e \in Deals : Expired(e)}}
  /\ UNCHANGED <<dbVars, due, agentVars, task, tries, halted, consent>>

\* The next expired row.  Without a destination the deal is marked expired,
\* whatever its status is by now.
ProcessExpired ==
  /\ phase = "expired"
  /\ Idle(Loop)
  /\ \E i \in queue :
       /\ queue' = queue \ {i}
       /\ IF i.row.addr[i.side]
          THEN /\ task' = [task EXCEPT ![Loop] = Enter(i.deal, i.side, "timeout", i.row, FALSE)]
               /\ UNCHANGED status
          ELSE /\ status' = [status EXCEPT ![i.deal] = "expired"]
               /\ UNCHANGED task
  /\ UNCHANGED <<payout, txid, addr, terms, due, agentVars, phase, tries, halted, consent>>

\* Variant: only payouts whose escrow is already claimed are retried.
RetriableClaimed(d, s) ==
  /\ status[d] = "expired"
  /\ txid[d][s]
  /\ payout[d][s] = "failed"
  /\ addr[d][s]

\* A failed claim whose txid is not set is tried again, whichever side it was for.
Retriable(d, s) ==
  /\ status[d] = "expired"
  /\ ~txid[d][s]
  /\ payout[d][s] = "failed"
  /\ addr[d][s]

\* The pass over expired deals is done; the rows of expired deals are read.  (At
\* most 500, the newest first: there are never as many here.)
ScanStalled ==
  /\ phase = "expired"
  /\ queue = {}
  /\ Idle(Loop)
  /\ phase' = "stalled"
  /\ queue' = {i \in [deal : Deals, side : Sides, row : {NoRow}] : Retriable(i.deal, i.side)}
  /\ UNCHANGED <<dbVars, due, agentVars, task, tries, halted, consent>>

\* The next stalled payout: the release of a deal before its refund.
NextStalled(i) ==
  /\ phase = "stalled"
  /\ Idle(Loop)
  /\ i \in queue
  /\ i.side = "refund" => \A j \in queue : j.deal = i.deal => j.side = "refund"
  /\ queue' = queue \ {i}

\* The backoff interval has not elapsed.
SkipStalled(i) ==
  /\ NextStalled(i)
  /\ tries[i.deal][i.side] < MaxRetry
  /\ UNCHANGED <<dbVars, due, agentVars, task, phase, tries, halted, consent>>

\* The attempts are used up: the payout is parked, whatever its status is by now.
ParkStalled(i) ==
  /\ NextStalled(i)
  /\ tries[i.deal][i.side] >= MaxRetry
  /\ payout' = [payout EXCEPT ![i.deal][i.side] = "payout_stuck"]
  /\ UNCHANGED <<status, txid, addr, terms, due, agentVars, task, phase, tries, halted, consent>>

\* The deal is read again and paid out.  One whose txid is set by now counts as
\* retried successfully.
RetryStalled(i) ==
  LET d == i.deal
      s == i.side
  IN  /\ NextStalled(i)
      /\ tries[d][s] < MaxRetry
      /\ task' = [task EXCEPT ![Loop] = Enter(d, s, "retry", Row(d), FALSE)]
      /\ tries' = IF ~halted /\ ~txid[d][Other(s)] /\ txid[d][s]
                  THEN [tries EXCEPT ![d][s] = 0] ELSE tries
      /\ UNCHANGED <<dbVars, due, agentVars, phase, halted, consent>>

ProcessStalled ==
  \E i \in queue : SkipStalled(i) \/ ParkStalled(i) \/ RetryStalled(i)

EndPass ==
  /\ phase = "stalled"
  /\ queue = {}
  /\ Idle(Loop)
  /\ phase' = "sleep"
  /\ UNCHANGED <<dbVars, due, agentVars, task, queue, tries, halted, consent>>

\* What a request leaves behind when its task is dropped: nothing, or a settled
\* escrow, or a request still under way.
Abandon(T) ==
  LET sent == {t \in T : task[t].pc \in {"call", "direct"} /\ escrow[task[t].deal] = "funded"}
  IN  /\ late' \in {late \cup {<<task[t].deal, Request(task[t])>> : t \in S} : S \in SUBSET sent}
      /\ UNCHANGED escrow

\* asyncio.wait_for cancels the loop at an await: one deal after PER_DEAL_TIMEOUT,
\* or the whole pass.  No except clause catches a cancellation.
CancelLoop ==
  /\ "cancel" \in Disturbances
  /\ ~Idle(Loop)
  /\ Abandon({Loop})
  /\ task' = [task EXCEPT ![Loop] = NoTask]
  /\ IF phase = "expired" THEN queue' \in {queue, {}} ELSE queue' = {}
  /\ UNCHANGED <<dbVars, due, phase, tries, halted, consent>>

\* The process dies and starts again.  Only the rows survive; reconciliation at
\* startup reads and logs them.
Crash ==
  /\ "crash" \in Disturbances
  /\ Abandon(Tasks)
  /\ task' = [t \in Tasks |-> NoTask]
  /\ phase' = "sleep"
  /\ queue' = {}
  /\ tries' = [d \in Deals |-> [s \in Sides |-> 0]]
  /\ halted' = FALSE
  /\ UNCHANGED <<dbVars, due, consent>>

-----------------------------------------------------------------------------
Users ==
  \E t \in Workers, d \in Deals :
    \/ \E code \in {"right", "wrong"}, signed \in BOOLEAN : ReleaseRequest(t, d, code, signed)
    \/ RefundRequest(t, d)
    \/ \E s \in Sides : SubmitRequest(t, d, s) \/ AdminResolve(t, d, s)

Advance(t) ==
  \/ Start(t) \/ ValidateFails(t) \/ Validated(t) \/ ResolveFails(t) \/ Begin(t)
  \/ Succeed(t) \/ RecordDirect(t) \/ Fail(t) \/ FailRetry(t) \/ FailTimeout(t)

Agent(t) == AgentAnswers(t) \/ AgentFails(t)

LoopStep == ScanExpired \/ ProcessExpired \/ ScanStalled \/ ProcessStalled \/ EndPass

Next ==
  \/ Users
  \/ \E d \in Deals : Ship(d) \/ Tick(d)
  \/ \E t \in Tasks : Advance(t) \/ Agent(t)
  \/ LateDelivery
  \/ LoopStep
  \/ CancelLoop
  \/ Halt \/ Resume
  \/ Crash

Spec == Init /\ [][Next]_vars

-----------------------------------------------------------------------------
(***************************************************************************)
(* What holds                                                              *)
(***************************************************************************)
Settled == {"released", "refunded"}

(* No deal is ever recorded as paid to both parties, however many tasks     *)
(* race on it, for only one request can succeed on the escrow and only the  *)
(* task that made it writes 'paid' (the success branch of                   *)
(* execute_ark_payout).                                                     *)
PaidOnce ==
  \A d \in Deals : ~(payout[d]["release"] = "paid" /\ payout[d]["refund"] = "paid")

(* A payout recorded as paid has left the escrow, and a paid refund went to *)
(* the buyer.                                                               *)
PaidMeansSettled ==
  \A d \in Deals :
    /\ payout[d]["release"] = "paid" => escrow[d] \in Settled
    /\ payout[d]["refund"] = "paid" => escrow[d] = "refunded"

(* A deal whose parties both gave an address is never recorded as claimed   *)
(* in both directions ("release_txid XOR refund_txid",                      *)
(* tests/test_coin_safety.py), although the two payouts may overlap.        *)
OneTxid ==
  \A d \in Addressed : ~(txid[d]["release"] /\ txid[d]["refund"])

(* The seller gets the escrow only if the buyer has revealed the secret     *)
(* code to release_deal: no timeout, retry, admin or refund path pays it    *)
(* out.                                                                     *)
ReleaseNeedsBuyer ==
  \A d \in Deals : escrow[d] = "released" => d \in consent

(* The service never moves an escrow back to the buyer on its own           *)
(* authority: the payout of a deal without the timeout signature fails on   *)
(* every path that goes through an address.                                 *)
RefundNeedsSignature ==
  \A d \in Addressed : escrow[d] = "refunded" => terms[d].sig

(* A deal shown as completed or refunded carries the txid of that           *)
(* direction, also when a stale payout has taken it out of that status and  *)
(* rolled it back.                                                          *)
DoneHasTxid ==
  \A d \in Deals, s \in Sides : status[d] = Completed(s) => txid[d][s]

-----------------------------------------------------------------------------
(***************************************************************************)
(* What the deals look like from outside: where the money is, who may have *)
(* it, and who is recorded as paid.                                        *)
(***************************************************************************)
Holder(d) ==
  CASE escrow[d] = "released" -> "seller"
    [] escrow[d] = "refunded" -> "buyer"
    [] OTHER -> "escrow"

\* The seller by the buyer's secret code; the buyer by the timeout signature, which
\* the path without an address does not ask for.
Entitled(d, x) ==
  IF x = "seller" THEN d \in consent ELSE d \in Addressed => terms[d].sig

PaidSide(x) == IF x = "seller" THEN "release" ELSE "refund"

Parties == {"seller", "buyer"}

Money == [d \in Deals |-> Holder(d)]
Claimants == [d \in Deals |-> {x \in Parties : Entitled(d, x)}]
Booked == [d \in Deals |-> {x \in Parties : payout[d][PaidSide(x)] = "paid"}]

C == INSTANCE Custody WITH money <- Money, entitled <- Claimants, booked <- Booked

(* Handlers, loop and agent together keep what Custody promises: the escrow *)
(* is settled once, for an entitled party, before any payout is recorded,   *)
(* and a record is made for one party only and only where there is none     *)
(* (execute_ark_payout, whatever it read before its awaits).                *)
CustodyKept == C!Spec

-----------------------------------------------------------------------------
(***************************************************************************)
(* Fairness.  The event loop runs every task that is ready, and the        *)
(* timeout loop never stops on its own: weak fairness.  Strong fairness    *)
(* says that the address provider and the agent are not down for ever for  *)
(* any one deal and that a backoff elapses: an attempt that can be made    *)
(* again and again succeeds once.  Nothing is assumed of users, of time, or of faults.     *)
(***************************************************************************)
Fairness ==
  /\ WF_vars(LoopStep)
  /\ \A t \in Tasks : WF_vars(Advance(t) \/ Agent(t))
  /\ \A t \in Tasks, d \in Deals : /\ SF_vars(Begin(t) /\ task[t].deal = d)
                                   /\ SF_vars(AgentAnswers(t) /\ task[t].deal = d)
  /\ \A d \in Deals, s \in Sides : SF_vars(RetryStalled([deal |-> d, side |-> s, row |-> NoRow]))

FairSpec == Spec /\ Fairness

(* A deal that both parties walk away from is not stuck: once it is past    *)
(* its expiry, the escrow is funded and the signature is on file, the loop  *)
(* gets the escrow settled or parks the payout.                             *)
UnattendedDealSettles ==
  \A d \in Addressed :
    (due[d] /\ status[d] = "funded" /\ escrow[d] = "funded" /\ terms[d].sig)
      ~> (escrow[d] \in Settled \/ payout[d][terms[d].action] = "payout_stuck")

-----------------------------------------------------------------------------
(***************************************************************************)
(* What the repository says of this code and the code does not do          *)
(***************************************************************************)

(* _payout.py:418 "Escrow not claimed - safe to roll back to prev_status":  *)
(* a payout is marked as failed only while its escrow is unclaimed.         *)
RollbackOnlyUnclaimed ==
  [][\A d \in Deals, s \in Sides :
       (payout[d][s] = "pending" /\ payout'[d][s] = "failed") => escrow[d] \notin Settled]_vars

(* timeout_handler.py:97 "'release': claim Ark escrow -> pay seller via     *)
(* LN": a deal recorded as paid to the seller has its escrow released.      *)
PaidSellerMeansReleased ==
  \A d \in Deals : payout[d]["release"] = "paid" => escrow[d] = "released"

(* reconcile.py:44 "stalled-payout retry loop will handle them": a deal     *)
(* left in a transitional status does not stay in it.                       *)
StuckDealsAreHandled ==
  \A d \in Deals, s \in Sides :
    (status[d] = Transitional(s)) ~> (status[d] # Transitional(s))

=============================================================================
