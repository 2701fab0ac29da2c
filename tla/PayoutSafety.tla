---------------------------- MODULE PayoutSafety ----------------------------
(***************************************************************************)
(* What the rows say happened has happened: the safety theorems about the  *)
(* payouts and the txids recorded on a deal, each from an inductive        *)
(* invariant.  Each invariant has a lemma about one step (ClaimsStep,      *)
(* DoneStep) that DisputeSafety uses for the payouts of a disputed deal.   *)
(***************************************************************************)
EXTENDS PayoutAuthority


-----------------------------------------------------------------------------
(***************************************************************************)
(* Where tasks come from                                                   *)
(***************************************************************************)

\* What Enter returns has ended, raised, or awaits the resolver or the agent.
LEMMA EnterPoint ==
  ASSUME NEW d, NEW s, NEW who, NEW row, NEW signed
  PROVE  Enter(d, s, who, row, signed).pc \in {"idle", "tcheck", "resolve", "direct"}
BY DEF Enter, Raise, NoTask

LEMMA RaisePoint ==
  ASSUME NEW tk \in TaskRecords
  PROVE  Raise(tk).pc \in {"idle", "tcheck"}
BY DEF Raise, NoTask, TaskRecords

\* A task entry after a step on one task.
LEMMA TaskAt ==
  ASSUME TypeOK, NEW t \in Tasks, NEW x, task' = [task EXCEPT ![t] = x], NEW u \in Tasks
  PROVE  task'[u] = IF u = t THEN x ELSE task[u]
BY DEF TypeOK

-----------------------------------------------------------------------------
(***************************************************************************)
(* PaidOnce                                                                *)
(*                                                                         *)
(* PaidOnce does not survive a step by itself: a task may hold a success   *)
(* of the agent that it has not recorded yet.  Such a task is the only one *)
(* of its deal, its escrow is settled, and nothing is recorded as paid     *)
(* before it is: the agent accepts one request on an escrow, and only      *)
(* while it is funded.                                                     *)
(***************************************************************************)

OkSettled ==
  \A t \in Tasks : task[t].pc = "ok" =>
    /\ escrow[task[t].deal] \in Settled
    /\ task[t].side = "refund" => escrow[task[t].deal] = "refunded"

OkAlone ==
  \A t, u \in Tasks :
    (task[t].pc = "ok" /\ task[u].pc = "ok" /\ task[t].deal = task[u].deal) => t = u

OkUnpaid ==
  \A t \in Tasks, s \in Sides : task[t].pc = "ok" => payout[task[t].deal][s] # "paid"

Claims == OkSettled /\ OkAlone /\ OkUnpaid /\ PaidMeansSettled /\ PaidOnce

\* A step that settles no escrow again, brings no task to "ok" and records no
\* payout as paid.
Quiet ==
  /\ \A d \in Deals : escrow[d] \in Settled => escrow'[d] = escrow[d]
  /\ \A t \in Tasks : task'[t].pc = "ok" => task'[t] = task[t]
  /\ \A d \in Deals, s \in Sides : payout'[d][s] = "paid" => payout[d][s] = "paid"

LEMMA QuietClaims ==
  ASSUME TypeOK, Claims, Quiet
  PROVE  Claims'
<1>1. \A t \in Tasks : task'[t].pc = "ok" => task[t].deal \in Deals
  BY RunningTask DEF Quiet, Idle, TaskRecords
<1>2. OkSettled'
  BY <1>1 DEF Claims, OkSettled, Quiet
<1>3. OkAlone'
  BY DEF Claims, OkAlone, Quiet
<1>4. OkUnpaid'
  BY <1>1 DEF Claims, OkUnpaid, Quiet
<1>5. PaidMeansSettled'
  BY DEF Claims, PaidMeansSettled, Quiet, Sides, Settled
<1>6. PaidOnce'
  BY DEF Claims, PaidOnce, Quiet, Sides
<1> QED
  BY <1>2, <1>3, <1>4, <1>5, <1>6 DEF Claims

\* A settled escrow stays as it is: the agent acts on funded escrows only.
LEMMA SettlesOnce ==
  ASSUME TypeOK, NEW d \in Deals, NEW op, Settles(d, op), NEW e \in Deals, escrow[e] \in Settled
  PROVE  escrow'[e] = escrow[e]
BY DEF Settles, TypeOK, Settled

\* Writing a payout status other than 'paid'.
LEMMA UnpaidUpdate ==
  ASSUME TypeOK, NEW d \in Deals, NEW s \in Sides, NEW v \in PayoutStatuses \ {"paid"},
         payout' = [payout EXCEPT ![d][s] = v], NEW e \in Deals, NEW r \in Sides,
         payout'[e][r] = "paid"
  PROVE  payout[e][r] = "paid"
<1>1. payout \in [Deals -> [Sides -> PayoutStatuses]] /\ v \in PayoutStatuses
  BY DEF TypeOK
<1>2. payout'[e][r] = IF e = d /\ r = s THEN v ELSE payout[e][r]
  BY <1>1, PayoutUpdate
<1> QED
  BY <1>2

\* The one step that brings a task to "ok".
LEMMA AgentAnswersClaims ==
  ASSUME TypeOK, Claims, NEW t \in Tasks, AgentAnswers(t)
  PROVE  Claims'
<1> DEFINE tk == task[t]
           d == tk.deal
<1>1. tk \in TaskRecords /\ d \in Deals
  BY RunningTask DEF AgentAnswers, Idle, TaskRecords
<1>2. /\ escrow[d] = "funded"
      /\ escrow' = [escrow EXCEPT ![d] = Request(tk)]
      /\ payout' = payout
  BY DEF AgentAnswers, Settles, dbVars
<1>3. task' = [task EXCEPT ![t] = [@ EXCEPT !.pc = IF task[t].pc = "call" THEN "ok" ELSE "record"]]
  BY DEF AgentAnswers
<1>4. \A u \in Tasks : u # t => task'[u] = task[u]
  BY <1>3 DEF TypeOK
<1>5. task'[t].deal = d /\ task'[t].side = tk.side
  BY <1>1, <1>3 DEF TypeOK, TaskRecords
<1>6. \A e \in Deals : escrow'[e] = IF e = d THEN Request(tk) ELSE escrow[e]
  BY <1>2 DEF TypeOK
<1>7. Request(tk) \in Settled /\ (tk.side = "refund" => Request(tk) = "refunded")
  BY DEF Request, Settled
<1>8. \A u \in Tasks : task[u].pc = "ok" => task[u].deal # d /\ task[u].deal \in Deals
  BY <1>2, RunningTask DEF Claims, OkSettled, Settled, Idle, TaskRecords
<1>9. OkSettled'
  <2> SUFFICES ASSUME NEW u \in Tasks, task'[u].pc = "ok"
               PROVE  /\ escrow'[task'[u].deal] \in Settled
                      /\ task'[u].side = "refund" => escrow'[task'[u].deal] = "refunded"
    BY DEF OkSettled
  <2>1. CASE u = t
    BY <1>1, <1>5, <1>6, <1>7, <2>1
  <2>2. CASE u # t
    BY <1>4, <1>6, <1>8, <2>2 DEF Claims, OkSettled
  <2> QED
    BY <2>1, <2>2
<1>10. OkAlone'
  BY <1>4, <1>5, <1>8 DEF Claims, OkAlone
<1>11. \A s \in Sides : payout[d][s] # "paid"
  BY <1>1, <1>2 DEF Claims, PaidMeansSettled, Settled, Sides
<1>12. OkUnpaid'
  BY <1>2, <1>4, <1>5, <1>11 DEF Claims, OkUnpaid
<1>13. PaidMeansSettled'
  BY <1>2, <1>6, <1>7, <1>11 DEF Claims, PaidMeansSettled, Sides
<1>14. PaidOnce'
  BY <1>2 DEF Claims, PaidOnce
<1> QED
  BY <1>9, <1>10, <1>12, <1>13, <1>14 DEF Claims

\* The one step that records a payout as paid.
LEMMA SucceedClaims ==
  ASSUME TypeOK, Claims, NEW t \in Tasks, Succeed(t)
  PROVE  Claims'
<1> DEFINE d == task[t].deal
           s == task[t].side
<1>1. task[t].pc = "ok" /\ d \in Deals /\ s \in Sides
  BY RunningTask DEF Succeed, Idle, TaskRecords
<1>2. escrow' = escrow
  BY DEF Succeed, agentVars
<1>3. \A u \in Tasks : task'[u] = IF u = t THEN NoTask ELSE task[u]
  <2>1. task' = [task EXCEPT ![t] = NoTask]
    BY DEF Succeed
  <2> QED
    BY <2>1, TaskAt, ZenonT(40)
<1>4. CASE status[d] = Transitional(s)
  <2>1. payout' = [payout EXCEPT ![d][s] = "paid"]
    BY <1>4 DEF Succeed
  <2>2. \A x \in Deals, y \in Sides :
          payout'[x][y] = IF x = d /\ y = s THEN "paid" ELSE payout[x][y]
    <3>1. payout \in [Deals -> [Sides -> PayoutStatuses]] /\ "paid" \in PayoutStatuses
      BY DEF TypeOK, PayoutStatuses
    <3> QED
      BY <1>1, <2>1, <3>1, PayoutUpdate
  <2>3. \A u \in Tasks : task'[u].pc = "ok" =>
          u # t /\ task'[u] = task[u] /\ task[u].deal # d /\ task[u].deal \in Deals
    BY <1>1, <1>3, RunningTask DEF Claims, OkAlone, NoTask, Idle, TaskRecords
  <2>4. OkSettled' /\ OkAlone'
    BY <1>2, <2>3 DEF Claims, OkSettled, OkAlone
  <2>5. OkUnpaid'
    BY <2>2, <2>3 DEF Claims, OkUnpaid
  <2>6. PaidMeansSettled'
    BY <1>1, <1>2, <2>2 DEF Claims, PaidMeansSettled, OkSettled, Sides
  <2>7. PaidOnce'
    BY <1>1, <2>2 DEF Claims, PaidOnce, OkUnpaid, Sides
  <2> QED
    BY <2>4, <2>5, <2>6, <2>7 DEF Claims
<1>5. CASE status[d] # Transitional(s)
  <2>1. Quiet
    BY <1>2, <1>3, <1>5 DEF Quiet, Succeed, NoTask
  <2> QED
    BY <2>1, QuietClaims
<1> QED
  BY <1>4, <1>5

\* Every other step is quiet.
LEMMA QuietTask ==
  ASSUME TypeOK, NEW t \in Tasks, NEW x, task' = [task EXCEPT ![t] = x], x.pc # "ok"
  PROVE  \A u \in Tasks : task'[u].pc = "ok" => task'[u] = task[u]
BY TaskAt

LEMMA QuietEnter ==
  ASSUME TypeOK, NEW t \in Tasks, NEW d, NEW s, NEW who, NEW row, NEW signed,
         task' = [task EXCEPT ![t] = Enter(d, s, who, row, signed)]
  PROVE  \A u \in Tasks : task'[u].pc = "ok" => task'[u] = task[u]
<1>1. Enter(d, s, who, row, signed).pc # "ok"
  BY EnterPoint
<1> QED
  BY <1>1, QuietTask

LEMMA QuietNewTask ==
  ASSUME TypeOK, NEW t \in Tasks, NEW pc, pc # "ok", NEW d, NEW s, NEW who, NEW row, NEW signed,
         task' = [task EXCEPT ![t] = NewTask(pc, d, s, who, row, signed)]
  PROVE  \A u \in Tasks : task'[u].pc = "ok" => task'[u] = task[u]
<1>1. NewTask(pc, d, s, who, row, signed).pc # "ok"
  BY DEF NewTask
<1> QED
  BY <1>1, QuietTask

LEMMA QuietEnd ==
  ASSUME TypeOK, NEW t \in Tasks, task' = [task EXCEPT ![t] = NoTask]
  PROVE  \A u \in Tasks : task'[u].pc = "ok" => task'[u] = task[u]
BY QuietTask DEF NoTask

LEMMA QuietAgentFails ==
  ASSUME TypeOK, NEW t \in Tasks, AgentFails(t)
  PROVE  Quiet
<1>1. task[t] \in TaskRecords /\ task[t].deal \in Deals
  BY RunningTask DEF AgentFails, Idle, TaskRecords
<1>2. PICK e \in Errors : task' = [task EXCEPT ![t] =
        [@ EXCEPT !.pc = IF task[t].pc = "call" THEN "check" ELSE "record",
                  !.err = IF task[t].caller = "retry" THEN e ELSE "none"]]
  BY DEF AgentFails
<1>3. \A u \in Tasks : task'[u].pc = "ok" => task'[u] = task[u]
  BY <1>1, <1>2 DEF TypeOK, TaskRecords
<1>4. \A d \in Deals : escrow[d] \in Settled => escrow'[d] = escrow[d]
  BY <1>1, SettlesOnce DEF AgentFails, agentVars
<1> QED
  BY <1>3, <1>4 DEF Quiet, AgentFails, dbVars

LEMMA QuietBegin ==
  ASSUME TypeOK, NEW t \in Tasks, Begin(t)
  PROVE  Quiet
<1> DEFINE d == task[t].deal
           s == task[t].side
<1>1. task[t] \in TaskRecords /\ d \in Deals /\ s \in Sides
  BY RunningTask DEF Begin, Idle, TaskRecords
<1>2. escrow' = escrow
  BY DEF Begin, agentVars
<1>3. CASE MayBegin(d, s)
  <2>1. payout' = [payout EXCEPT ![d][s] = "pending"]
    BY <1>3 DEF Begin
  <2>2. \A e \in Deals, r \in Sides : payout'[e][r] = "paid" => payout[e][r] = "paid"
    BY <1>1, <2>1, UnpaidUpdate DEF PayoutStatuses
  <2> DEFINE begun == [task[t] EXCEPT !.prev = status[d],
                                      !.pc = IF Authorized(task[t]) THEN "call" ELSE "check",
                                      !.err = IF task[t].caller = "retry" THEN "other" ELSE "none"]
  <2>3. task' = [task EXCEPT ![t] = begun] /\ begun.pc # "ok"
    BY <1>1, <1>3 DEF Begin, TaskRecords
  <2> QED
    BY <1>2, <2>2, <2>3, QuietTask DEF Quiet
<1>4. CASE ~MayBegin(d, s)
  BY <1>1, <1>2, <1>4, QuietTask, RaisePoint DEF Quiet, Begin
<1> QED
  BY <1>3, <1>4

LEMMA QuietFail ==
  ASSUME TypeOK, NEW t \in Tasks, Fail(t) \/ FailRetry(t) \/ FailTimeout(t)
  PROVE  Quiet
<1> DEFINE d == task[t].deal
           s == task[t].side
<1>1. task[t] \in TaskRecords /\ d \in Deals /\ s \in Sides
  BY RunningTask DEF Fail, FailRetry, FailTimeout, AtomicTransition, Idle, TaskRecords
<1>2. escrow' = escrow
  BY DEF Fail, FailRetry, FailTimeout, AtomicTransition, agentVars
<1>3. \A u \in Tasks : task'[u].pc = "ok" => task'[u] = task[u]
  BY <1>1, QuietTask, RaisePoint DEF Fail, FailRetry, FailTimeout, AtomicTransition, NoTask
<1>4. \/ payout' = [payout EXCEPT ![d][s] = "failed"]
      \/ payout' = [payout EXCEPT ![d][s] = "payout_stuck"]
      \/ payout' = payout
  BY DEF Fail, FailRetry, FailTimeout, RollBack, AtomicTransition
<1>5. \A e \in Deals, r \in Sides : payout'[e][r] = "paid" => payout[e][r] = "paid"
  <2>1. "failed" \in PayoutStatuses \ {"paid"} /\ "payout_stuck" \in PayoutStatuses \ {"paid"}
    BY DEF PayoutStatuses
  <2> HIDE DEF d, s
  <2> QED
    BY <1>1, <1>4, <2>1, UnpaidUpdate
<1> QED
  BY <1>2, <1>3, <1>5 DEF Quiet

LEMMA QuietAdvance ==
  ASSUME TypeOK, NEW t \in Tasks,
         Start(t) \/ ValidateFails(t) \/ Validated(t) \/ ResolveFails(t) \/ RecordDirect(t)
  PROVE  Quiet
<1> DEFINE d == task[t].deal
           s == task[t].side
<1>1. task[t] \in TaskRecords /\ d \in Deals /\ s \in Sides
  BY RunningTask DEF Start, ValidateFails, Validated, ResolveFails, RecordDirect, Idle, TaskRecords
<1>2. escrow' = escrow
  BY DEF Start, ValidateFails, Validated, ResolveFails, RecordDirect, agentVars
<1>3. \A u \in Tasks : task'[u].pc = "ok" => task'[u] = task[u]
  <2>1. CASE Start(t)
    BY <2>1, QuietEnter DEF Start
  <2>2. CASE Validated(t)
    <3>1. PICK row : \/ task' = [task EXCEPT ![t] = Enter(d, s, "submit", row, FALSE)]
                     \/ task' = [task EXCEPT ![t] = NoTask]
      BY <2>2 DEF Validated
    <3>2. CASE task' = [task EXCEPT ![t] = Enter(d, s, "submit", row, FALSE)]
      BY <3>2, QuietEnter
    <3> QED
      BY <3>1, <3>2, QuietEnd
  <2>3. CASE ResolveFails(t)
    BY <1>1, <2>3, QuietTask, RaisePoint DEF ResolveFails
  <2>4. CASE ValidateFails(t) \/ RecordDirect(t)
    BY <2>4, QuietEnd DEF ValidateFails, RecordDirect
  <2> QED
    BY <2>1, <2>2, <2>3, <2>4
<1>4. \/ payout' = [payout EXCEPT ![d][s] = "failed"]
      \/ payout' = payout
  <2>1. CASE Start(t) \/ ValidateFails(t) \/ ResolveFails(t)
    BY <2>1 DEF Start, ValidateFails, ResolveFails, dbVars
  <2>2. CASE Validated(t)
    BY <2>2 DEF Validated
  <2>3. CASE RecordDirect(t)
    BY <2>3 DEF RecordDirect
  <2> QED
    BY <2>1, <2>2, <2>3
<1>5. \A e \in Deals, r \in Sides : payout'[e][r] = "paid" => payout[e][r] = "paid"
  <2>1. "failed" \in PayoutStatuses \ {"paid"}
    BY DEF PayoutStatuses
  <2> HIDE DEF d, s
  <2> QED
    BY <1>1, <1>4, <2>1, UnpaidUpdate
<1> QED
  BY <1>2, <1>3, <1>5 DEF Quiet

LEMMA QuietUsers ==
  ASSUME TypeOK, Users
  PROVE  Quiet
<1>1. escrow' = escrow /\ payout' = payout
  BY UsersKeep
<1>2. \A u \in Tasks : task'[u].pc = "ok" => task'[u] = task[u]
  <2>1. PICK t \in Workers, d \in Deals :
          \/ \E code \in {"right", "wrong"}, signed \in BOOLEAN : ReleaseRequest(t, d, code, signed)
          \/ RefundRequest(t, d)
          \/ \E s \in Sides : SubmitRequest(t, d, s) \/ AdminResolve(t, d, s)
    BY DEF Users
  <2>3. t \in Tasks
    BY DEF Tasks
  <2>4. ASSUME NEW code, NEW signed, ReleaseRequest(t, d, code, signed)
        PROVE  \A u \in Tasks : task'[u].pc = "ok" => task'[u] = task[u]
    <3>1. PICK row : \/ task' = [task EXCEPT ![t] = NewTask("start", d, "release", "user", row, signed)]
                     \/ task' = task
      BY <2>4 DEF ReleaseRequest
    <3>2. CASE task' = [task EXCEPT ![t] = NewTask("start", d, "release", "user", row, signed)]
      BY <2>3, <3>2, QuietNewTask
    <3> QED
      BY <3>1, <3>2
  <2>5. CASE RefundRequest(t, d)
    BY <2>3, <2>5, QuietNewTask DEF RefundRequest
  <2>6. ASSUME NEW s \in Sides, SubmitRequest(t, d, s)
        PROVE  \A u \in Tasks : task'[u].pc = "ok" => task'[u] = task[u]
    BY <2>3, <2>6, QuietNewTask DEF SubmitRequest
  <2>7. ASSUME NEW s \in Sides, AdminResolve(t, d, s)
        PROVE  \A u \in Tasks : task'[u].pc = "ok" => task'[u] = task[u]
    BY <2>3, <2>7, QuietEnter DEF AdminResolve
  <2> QED
    BY <2>1, <2>4, <2>5, <2>6, <2>7
<1> QED
  BY <1>1, <1>2 DEF Quiet

LEMMA QuietLoop ==
  ASSUME TypeOK, LoopStep
  PROVE  Quiet
<1>1. CASE ScanExpired \/ ScanStalled \/ EndPass
  BY <1>1 DEF Quiet, ScanExpired, ScanStalled, EndPass, dbVars, agentVars
<1>2. CASE ProcessExpired
  <2>1. PICK i \in queue :
          \/ task' = [task EXCEPT ![Loop] = Enter(i.deal, i.side, "timeout", i.row, FALSE)]
          \/ task' = task
    BY <1>2 DEF ProcessExpired
  <2>2. \A u \in Tasks : task'[u].pc = "ok" => task'[u] = task[u]
    <3>1. CASE task' = [task EXCEPT ![Loop] = Enter(i.deal, i.side, "timeout", i.row, FALSE)]
      BY <3>1, QuietEnter DEF Tasks
    <3> QED
      BY <2>1, <3>1
  <2> QED
    BY <1>2, <2>2 DEF Quiet, ProcessExpired, agentVars
<1>3. CASE ProcessStalled
  <2>1. PICK i \in queue : SkipStalled(i) \/ ParkStalled(i) \/ RetryStalled(i)
    BY <1>3 DEF ProcessStalled
  <2>2. i.deal \in Deals /\ i.side \in Sides
    BY DEF TypeOK, Items
  <2>3. CASE SkipStalled(i)
    BY <2>3 DEF Quiet, SkipStalled, dbVars, agentVars
  <2>4. CASE ParkStalled(i)
    BY <2>2, <2>4, UnpaidUpdate DEF Quiet, ParkStalled, PayoutStatuses, agentVars
  <2>5. CASE RetryStalled(i)
    BY <2>5, QuietTask, EnterPoint DEF Quiet, RetryStalled, dbVars, agentVars, Tasks
  <2> QED
    BY <2>1, <2>3, <2>4, <2>5
<1> QED
  BY <1>1, <1>2, <1>3 DEF LoopStep

LEMMA QuietRest ==
  ASSUME TypeOK,
         \/ \E d \in Deals : Ship(d) \/ Tick(d)
         \/ LateDelivery \/ CancelLoop \/ Halt \/ Resume \/ Crash \/ UNCHANGED vars
  PROVE  Quiet
<1>1. payout' = payout
  BY DEF Ship, SetShipped, Tick, LateDelivery, CancelLoop, Halt, Resume, Crash, vars, dbVars
<1>2. \A d \in Deals : escrow[d] \in Settled => escrow'[d] = escrow[d]
  BY DEF Ship, SetShipped, Tick, LateDelivery, CancelLoop, Halt, Resume, Crash, Abandon, vars,
     agentVars,
         TypeOK, Settled
<1>3. \A u \in Tasks : task'[u].pc = "ok" => task'[u] = task[u]
  <2>1. CASE CancelLoop
    BY <2>1, QuietEnd DEF CancelLoop, Tasks
  <2>2. CASE Crash
    BY <2>2 DEF Crash, NoTask
  <2> QED
    BY <2>1, <2>2 DEF Ship, SetShipped, Tick, LateDelivery, Halt, Resume, vars
<1> QED
  BY <1>1, <1>2, <1>3 DEF Quiet

\* The steps that matter: the agent settles an escrow and says so, or the task
\* that was told so records the payout.
LEMMA StepKinds ==
  ASSUME TypeOK, [Next]_vars
  PROVE  Quiet \/ \E t \in Tasks : AgentAnswers(t) \/ Succeed(t)
<1>1. CASE Users
  BY <1>1, QuietUsers
<1>2. CASE LoopStep
  BY <1>2, QuietLoop
<1>3. ASSUME NEW t \in Tasks, Advance(t) \/ Agent(t)
      PROVE  Quiet \/ AgentAnswers(t) \/ Succeed(t)
  BY <1>3, QuietAgentFails, QuietBegin, QuietFail, QuietAdvance DEF Advance, Agent
<1>4. CASE \/ \E d \in Deals : Ship(d) \/ Tick(d)
           \/ LateDelivery \/ CancelLoop \/ Halt \/ Resume \/ Crash \/ UNCHANGED vars
  BY <1>4, QuietRest
<1> QED
  BY <1>1, <1>2, <1>3, <1>4 DEF Next

LEMMA ClaimsStep ==
  ASSUME TypeOK, Claims, [Next]_vars
  PROVE  Claims'
BY StepKinds, QuietClaims, AgentAnswersClaims, SucceedClaims

LEMMA ClaimsInit == Init => Claims
BY DEF Init, Claims, OkSettled, OkAlone, OkUnpaid, PaidMeansSettled, PaidOnce, NoTask, Sides

(* The inductive invariant, of which PaidMeansSettled and PaidOnce are      *)
(* parts: a success of the agent that a task has not recorded yet is the    *)
(* only one of its deal, and nothing is recorded as paid before it is       *)
(* (execute_ark_payout records after its await).                            *)
THEOREM ClaimsHold == Spec => []Claims
<1>1. Init => Claims
  BY ClaimsInit
<1>2. TypeOK /\ Claims /\ [Next]_vars => Claims'
  BY ClaimsStep
<1> QED
  BY <1>1, <1>2, TypeCorrect, PTL DEF Spec

(* No deal is recorded as paid to both parties, whatever the number of      *)
(* handlers that race on it and however answers are lost or delayed.        *)
THEOREM NeverPaidTwice == Spec => []PaidOnce
<1>1. Claims => PaidOnce
  BY DEF Claims
<1> QED
  BY <1>1, ClaimsHold, PTL

(* A payout recorded as paid has left the escrow, a refund to the buyer.    *)
THEOREM PaidIsSettled == Spec => []PaidMeansSettled
<1>1. Claims => PaidMeansSettled
  BY DEF Claims
<1> QED
  BY <1>1, ClaimsHold, PTL


-----------------------------------------------------------------------------
(***************************************************************************)
(* OneTxid                                                                 *)
(*                                                                         *)
(* With both addresses on file a txid is written only by the task that     *)
(* claimed the escrow.  The direct path writes one whatever the agent      *)
(* said, which is why the theorem needs to know that such a deal never     *)
(* takes it.                                                               *)
(***************************************************************************)

TxidSettled == \A d \in Addressed, s \in Sides : txid[d][s] => escrow[d] \in Settled

OkUnrecorded ==
  \A t \in Tasks, s \in Sides :
    (task[t].pc = "ok" /\ task[t].deal \in Addressed) => ~txid[task[t].deal][s]

Recorded == TxidSettled /\ OkUnrecorded /\ OneTxid

\* A step that settles no escrow again, brings no task to "ok" and writes no txid
\* of a deal with both addresses.
LEMMA QuietRecorded ==
  ASSUME TypeOK, Recorded, Quiet,
         \A d \in Addressed, s \in Sides : txid'[d][s] => txid[d][s]
  PROVE  Recorded'
<1>1. TxidSettled'
  BY AddressedAssumption DEF Recorded, TxidSettled, Quiet
<1>2. OkUnrecorded'
  BY DEF Recorded, OkUnrecorded, Quiet
<1>3. OneTxid'
  BY DEF Recorded, OneTxid, Sides
<1> QED
  BY <1>1, <1>2, <1>3 DEF Recorded

\* The agent answers on a funded escrow: nothing is recorded of it yet.
LEMMA AgentAnswersRecorded ==
  ASSUME TypeOK, Recorded, NEW t \in Tasks, AgentAnswers(t)
  PROVE  Recorded'
<1> DEFINE d == task[t].deal
<1>1. task[t] \in TaskRecords /\ d \in Deals
  BY RunningTask DEF AgentAnswers, Idle, TaskRecords
<1>2. /\ escrow[d] = "funded"
      /\ escrow' = [escrow EXCEPT ![d] = Request(task[t])]
      /\ txid' = txid
  BY DEF AgentAnswers, Settles, dbVars
<1>3. Request(task[t]) \in Settled
  BY DEF Request, Settled
<1>4. \A u \in Tasks : u # t => task'[u] = task[u]
  BY DEF AgentAnswers, TypeOK
<1>5. task'[t].deal = d
  <2>1. task' = [task EXCEPT ![t] = [@ EXCEPT !.pc = IF task[t].pc = "call" THEN "ok" ELSE "record"]]
    BY DEF AgentAnswers
  <2> QED
    BY <1>1, <2>1 DEF TypeOK, TaskRecords
<1>6. d \in Addressed => \A s \in Sides : ~txid[d][s]
  BY <1>2 DEF Recorded, TxidSettled, Settled
<1>7. TxidSettled'
  BY <1>1, <1>2, <1>3, AddressedAssumption DEF Recorded, TxidSettled, TypeOK
<1>8. OkUnrecorded'
  BY <1>2, <1>4, <1>5, <1>6 DEF Recorded, OkUnrecorded
<1>9. OneTxid'
  BY <1>2 DEF Recorded, OneTxid
<1> QED
  BY <1>7, <1>8, <1>9 DEF Recorded

\* Setting a txid sets no other.
LEMMA TxidUpdate ==
  ASSUME TypeOK, NEW d \in Deals, NEW s \in Sides, txid' = [txid EXCEPT ![d][s] = TRUE]
  PROVE  \A e \in Deals, r \in Sides :
           txid'[e][r] => txid[e][r] \/ (e = d /\ r = s)
<1> DEFINE row == [txid[d] EXCEPT ![s] = TRUE]
<1>1. txid' = [txid EXCEPT ![d] = row]
  OBVIOUS
<1>2. txid[d] \in [Sides -> BOOLEAN]
  BY DEF TypeOK
<1>3. \A r \in Sides : row[r] => txid[d][r] \/ r = s
  BY <1>2
<1> HIDE DEF row
<1>4. \A e \in Deals : txid'[e] = IF e = d THEN row ELSE txid[e]
  BY <1>1 DEF TypeOK
<1> QED
  BY <1>3, <1>4

LEMMA TxidKept ==
  ASSUME TypeOK, NEW d \in Deals, NEW s \in Sides, txid' = [txid EXCEPT ![d][s] = TRUE]
  PROVE  txid'[d][s] /\ \A e \in Deals, r \in Sides : txid[e][r] => txid'[e][r]
<1> DEFINE row == [txid[d] EXCEPT ![s] = TRUE]
<1>1. txid' = [txid EXCEPT ![d] = row]
  OBVIOUS
<1>2. txid[d] \in [Sides -> BOOLEAN]
  BY DEF TypeOK
<1>3. row[s] /\ \A r \in Sides : txid[d][r] => row[r]
  BY <1>2
<1> HIDE DEF row
<1>4. \A e \in Deals : txid'[e] = IF e = d THEN row ELSE txid[e]
  BY <1>1 DEF TypeOK
<1> QED
  BY <1>3, <1>4

\* The one task that claimed the escrow records it.
LEMMA SucceedRecorded ==
  ASSUME TypeOK, Claims, Recorded, NEW t \in Tasks, Succeed(t)
  PROVE  Recorded'
<1> DEFINE d == task[t].deal
           s == task[t].side
<1>1. task[t].pc = "ok" /\ d \in Deals /\ s \in Sides
  BY RunningTask DEF Succeed, Idle, TaskRecords
<1>2. escrow' = escrow /\ escrow[d] \in Settled
  BY <1>1 DEF Succeed, agentVars, Claims, OkSettled
<1>3. \A u \in Tasks : task'[u].pc = "ok" => task'[u] = task[u] /\ task[u].deal # d
                                            /\ task[u].deal \in Deals
  <2>1. \A u \in Tasks : task'[u] = IF u = t THEN NoTask ELSE task[u]
    <3>1. task' = [task EXCEPT ![t] = NoTask]
      BY DEF Succeed
    <3> QED
      BY <3>1, TaskAt, ZenonT(40)
  <2> QED
    BY <1>1, <2>1, RunningTask DEF NoTask, Claims, OkAlone, Idle, TaskRecords
<1>4. \A e \in Deals, r \in Sides : txid'[e][r] => txid[e][r] \/ (e = d /\ r = s)
  <2>1. txid' = txid \/ txid' = [txid EXCEPT ![d][s] = TRUE]
    BY DEF Succeed
  <2> QED
    BY <1>1, <2>1, TxidUpdate
<1>5. TxidSettled'
  BY <1>2, <1>4, AddressedAssumption DEF Recorded, TxidSettled
<1>6. OkUnrecorded'
  BY <1>3, <1>4 DEF Recorded, OkUnrecorded
<1>7. OneTxid'
  BY <1>1, <1>4, AddressedAssumption DEF Recorded, OneTxid, OkUnrecorded, Sides
<1> QED
  BY <1>5, <1>6, <1>7 DEF Recorded

\* Only a deal without both addresses takes the direct path.
LEMMA RecordDirectRecorded ==
  ASSUME TypeOK, Authority, Recorded, NEW t \in Tasks, RecordDirect(t)
  PROVE  Recorded'
<1>1. Quiet
  BY QuietAdvance
<1>2. task[t].deal \in Deals /\ task[t].side \in Sides /\ task[t].deal \notin Addressed
  BY RunningTask DEF RecordDirect, Idle, TaskRecords, Authority, TaskInv, TaskOK, TaskAddrs
<1>3. \A d \in Addressed, s \in Sides : txid'[d][s] => txid[d][s]
  BY <1>2, TxidUpdate, AddressedAssumption DEF RecordDirect
<1> QED
  BY <1>1, <1>3, QuietRecorded

\* Every other step leaves the txids alone.
LEMMA RestRecorded ==
  ASSUME TypeOK, Recorded, Quiet, txid' = txid
  PROVE  Recorded'
BY QuietRecorded

\* The inductive invariant, of which OneTxid is a part.
LEMMA RecordedHolds == Spec => []Recorded
<1>1. Init => Recorded
  BY AddressedAssumption
  DEF Init, Recorded, TxidSettled, OkUnrecorded, OneTxid, NoTask, Sides
<1>2. TypeOK /\ Claims /\ Authority /\ Recorded /\ [Next]_vars => Recorded'
  <2> SUFFICES ASSUME TypeOK, Claims, Authority, Recorded, [Next]_vars PROVE Recorded'
    OBVIOUS
  <2>1. CASE Users
    <3>1. txid' = txid
      BY <2>1, UsersKeep
    <3> QED
      BY <2>1, <3>1, QuietUsers, RestRecorded
  <2>2. CASE LoopStep
    <3>1. txid' = txid
      BY <2>2 DEF LoopStep, ScanExpired, ProcessExpired, ScanStalled, ProcessStalled,
                  SkipStalled, ParkStalled, RetryStalled, EndPass, dbVars
    <3> QED
      BY <2>2, <3>1, QuietLoop, RestRecorded
  <2>3. ASSUME NEW t \in Tasks,
               AgentFails(t) \/ Begin(t) \/ Fail(t) \/ FailRetry(t) \/ FailTimeout(t)
                 \/ Start(t) \/ ValidateFails(t) \/ Validated(t) \/ ResolveFails(t)
        PROVE  Recorded'
    <3>1. txid' = txid
      BY <2>3 DEF AgentFails, Begin, Fail, FailRetry, FailTimeout, AtomicTransition, Start,
         ValidateFails,
                  Validated, ResolveFails, dbVars
    <3>2. Quiet
      BY <2>3, QuietAgentFails, QuietBegin, QuietFail, QuietAdvance
    <3> QED
      BY <3>1, <3>2, RestRecorded
  <2>4. ASSUME NEW t \in Tasks, Advance(t) \/ Agent(t)
        PROVE  Recorded'
    BY <2>3, <2>4, AgentAnswersRecorded, SucceedRecorded, RecordDirectRecorded
    DEF Advance, Agent
  <2>5. CASE \/ \E d \in Deals : Ship(d) \/ Tick(d)
             \/ LateDelivery \/ CancelLoop \/ Halt \/ Resume \/ Crash \/ UNCHANGED vars
    <3>1. txid' = txid
      BY <2>5 DEF Ship, SetShipped, Tick, LateDelivery, CancelLoop, Halt, Resume, Crash, vars,
         dbVars
    <3> QED
      BY <2>5, <3>1, QuietRest, RestRecorded
  <2> QED
    BY <2>1, <2>2, <2>4, <2>5 DEF Next
<1> QED
  BY <1>1, <1>2, TypeCorrect, ClaimsHold, AuthorityHolds, PTL DEF Spec

(* A deal with both addresses is never recorded as claimed in both          *)
(* directions, although payouts of both sides may be under way at once.     *)
THEOREM ClaimedOnce == Spec => []OneTxid
<1>1. Recorded => OneTxid
  BY DEF Recorded
<1> QED
  BY <1>1, RecordedHolds, PTL

-----------------------------------------------------------------------------
(***************************************************************************)
(* DoneHasTxid                                                             *)
(*                                                                         *)
(* A payout that began on a completed deal (its row was stale) takes the   *)
(* deal out of that status and may roll it back: the invariant is about    *)
(* the status that the task remembers too.                                 *)
(***************************************************************************)

PrevRecorded ==
  \A t \in Tasks, s \in Sides :
    (~Idle(t) /\ task[t].prev = Completed(s)) => txid[task[t].deal][s]

Done == DoneHasTxid /\ PrevRecorded

\* What a task remembers after a step: nothing, what it remembered, or the
\* status of its deal before the step.
Remembers(t) ==
  \/ task'[t].pc = "idle"
  \/ task'[t].prev = "pending"
  \/ ~Idle(t) /\ task'[t].prev = task[t].prev /\ task'[t].deal = task[t].deal
  \/ task'[t].deal \in Deals /\ task'[t].prev = status[task'[t].deal]

\* A step after which every completed deal has its txid or was completed before.
LEMMA RecordedBefore ==
  ASSUME TypeOK, Done, \A t \in Tasks : Remembers(t),
         \A d \in Deals, s \in Sides : txid[d][s] => txid'[d][s],
         \A d \in Deals, s \in Sides :
           status'[d] = Completed(s) => txid'[d][s] \/ status[d] = Completed(s)
  PROVE  Done'
<1>1. DoneHasTxid'
  BY DEF Done, DoneHasTxid
<1>2. \A s \in Sides : Completed(s) # "pending"
  BY DEF Completed
<1>3. ASSUME NEW t \in Tasks, NEW s \in Sides, task'[t].pc # "idle", task'[t].prev = Completed(s)
      PROVE  txid'[task'[t].deal][s]
  <2>1. CASE ~Idle(t) /\ task'[t].prev = task[t].prev /\ task'[t].deal = task[t].deal
    <3>1. task[t].deal \in Deals
      BY <2>1, RunningTask DEF TaskRecords
    <3> QED
      BY <1>3, <2>1, <3>1 DEF Done, PrevRecorded
  <2>2. CASE task'[t].deal \in Deals /\ task'[t].prev = status[task'[t].deal]
    <3>1. PICK e \in Deals : e = task'[t].deal
      BY <2>2
    <3>2. status[e] = Completed(s)
      BY <1>3, <2>2, <3>1
    <3>3. txid[e][s]
      BY <3>2 DEF Done, DoneHasTxid
    <3> QED
      BY <3>1, <3>3
  <2> QED
    BY <1>2, <1>3, <2>1, <2>2 DEF Remembers
<1>4. PrevRecorded'
  BY <1>3 DEF PrevRecorded, Idle
<1> QED
  BY <1>1, <1>4 DEF Done

\* A step on one task.
LEMMA OneRemembers ==
  ASSUME TypeOK, NEW t \in Tasks, NEW x, task' = [task EXCEPT ![t] = x],
         \/ x.pc = "idle"
         \/ x.prev = "pending"
         \/ ~Idle(t) /\ x.prev = task[t].prev /\ x.deal = task[t].deal
         \/ x.deal \in Deals /\ x.prev = status[x.deal]
  PROVE  \A u \in Tasks : Remembers(u)
<1>1. \A u \in Tasks : task'[u] = IF u = t THEN x ELSE task[u]
  BY TaskAt, ZenonT(40)
<1>2. Remembers(t)
  BY <1>1 DEF Remembers
<1>3. ASSUME NEW u \in Tasks, u # t
      PROVE  Remembers(u)
  BY <1>1, <1>3 DEF Remembers, Idle
<1> QED
  BY <1>2, <1>3

LEMMA SameRemembers ==
  ASSUME task' = task
  PROVE  \A u \in Tasks : Remembers(u)
BY DEF Remembers, Idle

LEMMA EnterRemembers ==
  ASSUME TypeOK, NEW t \in Tasks, NEW d, NEW s, NEW who, NEW row, NEW signed,
         task' = [task EXCEPT ![t] = Enter(d, s, who, row, signed)]
  PROVE  \A u \in Tasks : Remembers(u)
<1>1. Enter(d, s, who, row, signed).pc = "idle" \/ Enter(d, s, who, row, signed).prev = "pending"
  BY DEF Enter, Raise, NoTask
<1> QED
  BY <1>1, OneRemembers

LEMMA NewTaskRemembers ==
  ASSUME TypeOK, NEW t \in Tasks, NEW pc, NEW d, NEW s, NEW who, NEW row, NEW signed,
         task' = [task EXCEPT ![t] = NewTask(pc, d, s, who, row, signed)]
  PROVE  \A u \in Tasks : Remembers(u)
<1>1. NewTask(pc, d, s, who, row, signed).prev = "pending"
  BY DEF NewTask
<1> QED
  BY <1>1, OneRemembers

LEMMA EndRemembers ==
  ASSUME TypeOK, NEW t \in Tasks, ~Idle(t),
         \/ task' = [task EXCEPT ![t] = Raise(@)]
         \/ task' = [task EXCEPT ![t] = NoTask]
  PROVE  \A u \in Tasks : Remembers(u)
<1>1. CASE task' = [task EXCEPT ![t] = NoTask]
  <2>1. NoTask.pc = "idle"
    BY DEF NoTask
  <2> QED
    BY <1>1, <2>1, OneRemembers
<1>2. CASE task' = [task EXCEPT ![t] = Raise(@)]
  <2>1. \/ Raise(task[t]).pc = "idle"
        \/ Raise(task[t]).prev = task[t].prev /\ Raise(task[t]).deal = task[t].deal
    BY RunningTask DEF Raise, NoTask, TaskRecords
  <2> QED
    BY <1>2, <2>1, OneRemembers
<1> QED
  BY <1>1, <1>2

\* Payout steps that begin, end or fail a payout.
LEMMA BeginDone ==
  ASSUME TypeOK, Done, NEW t \in Tasks, Begin(t)
  PROVE  Done'
<1> DEFINE d == task[t].deal
           s == task[t].side
<1>1. task[t] \in TaskRecords /\ d \in Deals /\ s \in Sides /\ ~Idle(t)
  BY RunningTask DEF Begin, Idle, TaskRecords
<1>2. \A u \in Tasks : Remembers(u)
  <2>1. CASE task' = [task EXCEPT ![t] = Raise(@)]
    BY <1>1, <2>1, EndRemembers
  <2>2. CASE task' # [task EXCEPT ![t] = Raise(@)]
    <3>1. PICK x : x = [task[t] EXCEPT !.prev = status[d],
                          !.pc = IF Authorized(task[t]) THEN "call" ELSE "check",
                          !.err = IF task[t].caller = "retry" THEN "other" ELSE "none"]
      OBVIOUS
    <3>2. x.deal \in Deals /\ x.prev = status[x.deal]
      BY <1>1, <3>1 DEF TaskRecords
    <3>3. task' = [task EXCEPT ![t] = x]
      BY <2>2, <3>1 DEF Begin
    <3> QED
      BY <3>2, <3>3, OneRemembers
  <2> QED
    BY <2>1, <2>2
<1>3. status' = status \/ status' = [status EXCEPT ![d] = Transitional(s)]
  BY DEF Begin
<1>4. \A e \in Deals, r \in Sides : status'[e] = Completed(r) => status[e] = Completed(r)
  BY <1>1, <1>3 DEF TypeOK, Transitional, Completed
<1>5. txid' = txid
  BY DEF Begin
<1> QED
  BY <1>2, <1>4, <1>5, RecordedBefore

\* Completing a payout records its txid.
LEMMA RecordDone ==
  ASSUME TypeOK, Done, NEW t \in Tasks, Succeed(t) \/ RecordDirect(t)
  PROVE  Done'
<1> DEFINE d == task[t].deal
           s == task[t].side
<1>1. d \in Deals /\ s \in Sides /\ ~Idle(t)
  BY RunningTask DEF Succeed, RecordDirect, Idle, TaskRecords
<1>2. \A u \in Tasks : Remembers(u)
  BY <1>1, EndRemembers DEF Succeed, RecordDirect
<1>3. CASE UNCHANGED <<status, txid>>
  BY <1>2, <1>3, RecordedBefore
<1>4. CASE /\ status' = [status EXCEPT ![d] = Completed(s)]
           /\ txid' = [txid EXCEPT ![d][s] = TRUE]
  <2>1. txid'[d][s] /\ \A e \in Deals, r \in Sides : txid[e][r] => txid'[e][r]
    BY <1>1, <1>4, TxidKept
  <2>2. \A e \in Deals, r \in Sides :
          status'[e] = Completed(r) => txid'[e][r] \/ status[e] = Completed(r)
    BY <1>1, <1>4, <2>1 DEF TypeOK, Completed, Sides
  <2> QED
    BY <1>2, <2>1, <2>2, RecordedBefore
<1> QED
  BY <1>3, <1>4 DEF Succeed, RecordDirect

\* A deal returns to the completed status only where the txid is.
LEMMA FailDone ==
  ASSUME TypeOK, Done, NEW t \in Tasks, Fail(t) \/ FailRetry(t) \/ FailTimeout(t)
  PROVE  Done'
<1> DEFINE d == task[t].deal
           s == task[t].side
           prev == task[t].prev
<1>1. d \in Deals /\ s \in Sides /\ ~Idle(t) /\ prev \in Statuses
  BY RunningTask DEF Fail, FailRetry, FailTimeout, AtomicTransition, Idle, TaskRecords
<1>2. \A u \in Tasks : Remembers(u)
  BY <1>1, EndRemembers DEF Fail, FailRetry, FailTimeout, AtomicTransition
<1>3. \/ status' = status
      \/ status' = [status EXCEPT ![d] = prev]
      \/ status' = [status EXCEPT ![d] = "expired"]
  BY DEF Fail, FailRetry, FailTimeout, RollBack, AtomicTransition
<1>4. \A r \in Sides : prev = Completed(r) => txid[d][r]
  BY <1>1 DEF Done, PrevRecorded
<1>5. txid' = txid
  BY DEF Fail, FailRetry, FailTimeout, AtomicTransition
<1>6. \A e \in Deals, r \in Sides :
        status'[e] = Completed(r) => txid'[e][r] \/ status[e] = Completed(r)
  BY <1>1, <1>3, <1>4, <1>5 DEF TypeOK, Completed
<1> QED
  BY <1>2, <1>5, <1>6, RecordedBefore

\* Every other step completes no deal.
LEMMA QuietDone ==
  ASSUME TypeOK, Done, \A t \in Tasks : Remembers(t), txid' = txid,
         \A d \in Deals : status'[d] = status[d] \/ status'[d] \in {"funded", "shipped", "expired"}
  PROVE  Done'
<1>1. \A d \in Deals, s \in Sides : status'[d] = Completed(s) => status[d] = Completed(s)
  BY DEF Completed
<1> QED
  BY <1>1, RecordedBefore

LEMMA AdvanceDone ==
  ASSUME TypeOK, Done, NEW t \in Tasks,
         Start(t) \/ ValidateFails(t) \/ Validated(t) \/ ResolveFails(t) \/ Agent(t)
  PROVE  Done'
<1>1. UNCHANGED <<status, txid>>
  BY DEF Start, ValidateFails, Validated, ResolveFails, Agent, AgentAnswers, AgentFails, dbVars
<1>2. ~Idle(t)
  BY DEF Start, ValidateFails, Validated, ResolveFails, Agent, AgentAnswers, AgentFails, Idle
<1>3. \A u \in Tasks : Remembers(u)
  <2>1. CASE Start(t)
    BY <2>1, EnterRemembers DEF Start
  <2>2. CASE ValidateFails(t) \/ ResolveFails(t)
    BY <1>2, <2>2, EndRemembers DEF ValidateFails, ResolveFails
  <2>3. CASE Validated(t)
    <3>1. PICK d, s, row : \/ task' = [task EXCEPT ![t] = Enter(d, s, "submit", row, FALSE)]
                           \/ task' = [task EXCEPT ![t] = NoTask]
      BY <2>3 DEF Validated
    <3>2. CASE task' = [task EXCEPT ![t] = Enter(d, s, "submit", row, FALSE)]
      BY <3>2, EnterRemembers
    <3>3. CASE task' = [task EXCEPT ![t] = NoTask]
      BY <1>2, <3>3, EndRemembers
    <3> QED
      BY <3>1, <3>2, <3>3
  <2>4. CASE Agent(t)
    <3>1. task[t] \in TaskRecords
      BY <1>2, RunningTask
    <3>2. PICK x : /\ task' = [task EXCEPT ![t] = x]
                   /\ \/ x = [task[t] EXCEPT !.pc = IF task[t].pc = "call" THEN "ok" ELSE "record"]
                      \/ \E e \in Errors :
                           x = [task[t] EXCEPT !.pc = IF task[t].pc = "call" THEN "check" ELSE "record",
                                               !.err = IF task[t].caller = "retry" THEN e ELSE "none"]
      <4>1. CASE AgentAnswers(t)
        BY <4>1 DEF AgentAnswers
      <4>2. CASE AgentFails(t)
        <5>1. PICK e \in Errors : task' = [task EXCEPT ![t] =
                [@ EXCEPT !.pc = IF task[t].pc = "call" THEN "check" ELSE "record",
                          !.err = IF task[t].caller = "retry" THEN e ELSE "none"]]
          BY <4>2 DEF AgentFails
        <5> QED
          BY <5>1
      <4> QED
        BY <2>4, <4>1, <4>2 DEF Agent
    <3>3. x.prev = task[t].prev /\ x.deal = task[t].deal
      BY <3>1, <3>2 DEF TaskRecords
    <3> QED
      BY <1>2, <3>2, <3>3, OneRemembers
  <2> QED
    BY <2>1, <2>2, <2>3, <2>4
<1> QED
  BY <1>1, <1>3, QuietDone

LEMMA UsersDone ==
  ASSUME TypeOK, Done, Users
  PROVE  Done'
<1>1. PICK t \in Workers, d \in Deals :
        \/ \E code \in {"right", "wrong"}, signed \in BOOLEAN : ReleaseRequest(t, d, code, signed)
        \/ RefundRequest(t, d)
        \/ \E s \in Sides : SubmitRequest(t, d, s) \/ AdminResolve(t, d, s)
  BY DEF Users
<1>2. t \in Tasks
  BY DEF Tasks
<1>3. ASSUME NEW code, NEW signed, ReleaseRequest(t, d, code, signed)
      PROVE  Done'
  <2>1. PICK row : \/ task' = [task EXCEPT ![t] = NewTask("start", d, "release", "user", row, signed)]
                   \/ task' = task
    BY <1>3 DEF ReleaseRequest
  <2>2. \A u \in Tasks : Remembers(u)
    <3>1. CASE task' = [task EXCEPT ![t] = NewTask("start", d, "release", "user", row, signed)]
      BY <1>2, <3>1, NewTaskRemembers
    <3> QED
      BY <2>1, <3>1, SameRemembers
  <2>3. txid' = txid /\ \A e \in Deals : status'[e] \in {status[e], "funded"}
    BY <1>3 DEF ReleaseRequest, TypeOK
  <2> QED
    BY <2>2, <2>3, QuietDone
<1>4. CASE RefundRequest(t, d) \/ \E s \in Sides : SubmitRequest(t, d, s) \/ AdminResolve(t, d, s)
  <2>1. UNCHANGED <<status, txid>>
    BY <1>4 DEF RefundRequest, SubmitRequest, AdminResolve, dbVars
  <2>2. \A u \in Tasks : Remembers(u)
    <3>1. CASE RefundRequest(t, d)
      BY <1>2, <3>1, NewTaskRemembers DEF RefundRequest
    <3>2. ASSUME NEW s \in Sides, SubmitRequest(t, d, s)
          PROVE  \A u \in Tasks : Remembers(u)
      BY <1>2, <3>2, NewTaskRemembers DEF SubmitRequest
    <3>3. ASSUME NEW s \in Sides, AdminResolve(t, d, s)
          PROVE  \A u \in Tasks : Remembers(u)
      BY <1>2, <3>3, EnterRemembers DEF AdminResolve
    <3> QED
      BY <1>4, <3>1, <3>2, <3>3
  <2> QED
    BY <2>1, <2>2, QuietDone
<1> QED
  BY <1>1, <1>3, <1>4

LEMMA LoopDone ==
  ASSUME TypeOK, Done, LoopStep \/ CancelLoop
  PROVE  Done'
<1>1. CASE ProcessExpired
  <2>1. PICK i \in queue :
          IF i.row.addr[i.side]
          THEN /\ task' = [task EXCEPT ![Loop] = Enter(i.deal, i.side, "timeout", i.row, FALSE)]
               /\ status' = status
          ELSE /\ status' = [status EXCEPT ![i.deal] = "expired"]
               /\ task' = task
    BY <1>1 DEF ProcessExpired
  <2>2. \A u \in Tasks : Remembers(u)
    <3>1. CASE task' = [task EXCEPT ![Loop] = Enter(i.deal, i.side, "timeout", i.row, FALSE)]
      BY <3>1, EnterRemembers DEF Tasks
    <3> QED
      BY <2>1, <3>1, SameRemembers
  <2>3. txid' = txid /\ \A d \in Deals : status'[d] \in {status[d], "expired"}
    BY <1>1, <2>1 DEF ProcessExpired, TypeOK
  <2> QED
    BY <2>2, <2>3, QuietDone
<1>2. CASE ProcessStalled
  <2>1. PICK i \in queue : SkipStalled(i) \/ ParkStalled(i) \/ RetryStalled(i)
    BY <1>2 DEF ProcessStalled
  <2>2. UNCHANGED <<status, txid>>
    BY <2>1 DEF SkipStalled, ParkStalled, RetryStalled, dbVars
  <2>3. \A u \in Tasks : Remembers(u)
    <3>1. CASE RetryStalled(i)
      BY <3>1, EnterRemembers DEF RetryStalled, Tasks
    <3>2. CASE SkipStalled(i) \/ ParkStalled(i)
      BY <3>2, SameRemembers DEF SkipStalled, ParkStalled
    <3> QED
      BY <2>1, <3>1, <3>2
  <2> QED
    BY <2>2, <2>3, QuietDone
<1>3. CASE ScanExpired \/ ScanStalled \/ EndPass
  <2>1. UNCHANGED <<status, txid, task>>
    BY <1>3 DEF ScanExpired, ScanStalled, EndPass, dbVars
  <2> QED
    BY <2>1, SameRemembers, QuietDone
<1>4. CASE CancelLoop
  <2>1. UNCHANGED <<status, txid>>
    BY <1>4 DEF CancelLoop, dbVars
  <2>2. \A u \in Tasks : Remembers(u)
    BY <1>4, EndRemembers DEF CancelLoop, Tasks
  <2> QED
    BY <2>1, <2>2, QuietDone
<1> QED
  BY <1>1, <1>2, <1>3, <1>4 DEF LoopStep

LEMMA RestDone ==
  ASSUME TypeOK, Done,
         \/ \E d \in Deals : Ship(d) \/ Tick(d)
         \/ LateDelivery \/ Halt \/ Resume \/ Crash \/ UNCHANGED vars
  PROVE  Done'
<1>1. txid' = txid /\ \A d \in Deals : status'[d] \in {status[d], "shipped"}
  BY DEF Ship, SetShipped, Tick, LateDelivery, Halt, Resume, Crash, vars, dbVars, TypeOK
<1>2. \A t \in Tasks : Remembers(t)
  <2>1. CASE Crash
    BY <2>1 DEF Crash, Remembers, NoTask
  <2>2. CASE ~Crash
    <3>1. task' = task
      BY <2>2 DEF Ship, SetShipped, Tick, LateDelivery, Halt, Resume, vars
    <3> QED
      BY <3>1, SameRemembers
  <2> QED
    BY <2>1, <2>2
<1> QED
  BY <1>1, <1>2, QuietDone

LEMMA DoneStep ==
  ASSUME TypeOK, Done, [Next]_vars
  PROVE  Done'
<1>1. CASE Users
  BY <1>1, UsersDone
<1>2. ASSUME NEW t \in Tasks, Advance(t) \/ Agent(t)
      PROVE  Done'
  BY <1>2, BeginDone, RecordDone, FailDone, AdvanceDone DEF Advance
<1>3. CASE LoopStep \/ CancelLoop
  BY <1>3, LoopDone
<1>4. CASE \/ \E d \in Deals : Ship(d) \/ Tick(d)
           \/ LateDelivery \/ Halt \/ Resume \/ Crash \/ UNCHANGED vars
  BY <1>4, RestDone
<1> QED
  BY <1>1, <1>2, <1>3, <1>4 DEF Next

LEMMA DoneInit ==
  ASSUME Init
  PROVE  Done
<1>1. \A d \in Deals, s \in Sides : status[d] # Completed(s)
  BY DEF Init, Completed
<1>2. \A t \in Tasks : Idle(t)
  BY DEF Init, Idle, NoTask
<1> QED
  BY <1>1, <1>2 DEF Done, DoneHasTxid, PrevRecorded

(* A deal shown as completed or refunded carries the txid of that           *)
(* direction, also after a stale payout has taken it out of that status and *)
(* rolled it back.                                                          *)
THEOREM DoneIsRecorded == Spec => []DoneHasTxid
<1>1. Init => Done
  BY DoneInit
<1>2. TypeOK /\ Done /\ [Next]_vars => Done'
  BY DoneStep
<1>3. Done => DoneHasTxid
  BY DEF Done
<1> QED
  BY <1>1, <1>2, <1>3, TypeCorrect, PTL DEF Spec

-----------------------------------------------------------------------------
(***************************************************************************)
(* Custody                                                                 *)
(*                                                                         *)
(* Every step is one of Custody, or changes nothing that Custody speaks    *)
(* of: a step on the escrow was authorised (EscrowGranted), and only       *)
(* Succeed books a payout, on a settled escrow with nothing on record      *)
(* (Claims).  Any other write to a payout status can only take a record    *)
(* away.                                                                   *)
(***************************************************************************)

Outside == <<Money, Claimants, Booked>>

LEMMA OutsideKept ==
  ASSUME UNCHANGED <<escrow, payout, consent, terms>>
  PROVE  UNCHANGED Outside
BY DEF Outside, Money, Holder, Claimants, Entitled, Booked

\* The parties and the payout types, each for the other.
LEMMA PartySides ==
  /\ \A x \in Parties : PaidSide(x) \in Sides
  /\ PaidSide("seller") = "release" /\ PaidSide("buyer") = "refund"
  /\ \A s \in Sides : \E x \in Parties : PaidSide(x) = s
BY DEF PaidSide, Parties, Sides

\* What is on record of a deal, after a step on its payout statuses.
LEMMA BookedAt ==
  ASSUME TypeOK, NEW d \in Deals, NEW s \in Sides, NEW v \in PayoutStatuses,
         payout' = [payout EXCEPT ![d][s] = v]
  PROVE  \A e \in Deals :
           Booked'[e] = IF e = d
                        THEN {x \in Parties : IF PaidSide(x) = s THEN v = "paid" ELSE x \in Booked[d]}
                        ELSE Booked[e]
<1>1. \A e \in Deals, r \in Sides :
        payout'[e][r] = IF e = d /\ r = s THEN v ELSE payout[e][r]
  <2>1. payout \in [Deals -> [Sides -> PayoutStatuses]]
    BY DEF TypeOK
  <2> QED
    BY <2>1, PayoutUpdate
<1>2. ASSUME NEW e \in Deals, e # d
      PROVE  Booked'[e] = Booked[e]
  <2>1. \A x \in Parties : payout'[e][PaidSide(x)] = payout[e][PaidSide(x)]
    BY <1>1, <1>2, PartySides
  <2> QED
    BY <2>1 DEF Booked
<1>3. Booked'[d] = {x \in Parties : IF PaidSide(x) = s THEN v = "paid" ELSE x \in Booked[d]}
  <2>1. \A x \in Parties :
          payout'[d][PaidSide(x)] = IF PaidSide(x) = s THEN v ELSE payout[d][PaidSide(x)]
    BY <1>1, PartySides
  <2> QED
    BY <2>1 DEF Booked
<1> QED
  BY <1>2, <1>3

\* At most one party is on record.
LEMMA BookedOne ==
  ASSUME PaidOnce, NEW d \in Deals
  PROVE  Booked[d] \in {{}, {"seller"}, {"buyer"}}
<1>1. Booked[d] \subseteq Parties /\ ~("seller" \in Booked[d] /\ "buyer" \in Booked[d])
  BY PartySides DEF Booked, PaidOnce, Parties
<1> QED
  BY <1>1 DEF Parties

\* Another payout status takes the record away or leaves it.
LEMMA Overwritten ==
  ASSUME TypeOK, PaidOnce, NEW d \in Deals, NEW s \in Sides, NEW v \in PayoutStatuses \ {"paid"},
         payout' = [payout EXCEPT ![d][s] = v]
  PROVE  Booked' = Booked \/ Booked' = [Booked EXCEPT ![d] = {}]
<1> DEFINE left == {x \in Parties : IF PaidSide(x) = s THEN v = "paid" ELSE x \in Booked[d]}
<1>1. \A e \in Deals : Booked'[e] = IF e = d THEN left ELSE Booked[e]
  BY BookedAt
<1>2. left = {} \/ left = Booked[d]
  <2>1. left \subseteq Booked[d]
    OBVIOUS
  <2> QED
    BY <2>1, BookedOne
<1> HIDE DEF left
<1>3. Booked = [e \in Deals |-> Booked[e]] /\ Booked' = [e \in Deals |-> Booked'[e]]
  BY DEF Booked
<1> QED
  BY <1>1, <1>2, <1>3

LEMMA OverwrittenStep ==
  ASSUME TypeOK, PaidOnce, NEW d \in Deals, NEW s \in Sides, NEW v \in PayoutStatuses \ {"paid"},
         payout' = payout \/ payout' = [payout EXCEPT ![d][s] = v],
         UNCHANGED <<escrow, consent, terms>>
  PROVE  [C!Next]_Outside
<1>1. UNCHANGED <<Money, Claimants>>
  BY DEF Money, Holder, Claimants, Entitled
<1>2. Booked' = Booked \/ Booked' = [Booked EXCEPT ![d] = {}]
  <2>1. payout' = payout => Booked' = Booked
    BY DEF Booked
  <2> QED
    BY <2>1, Overwritten
<1> QED
  BY <1>1, <1>2 DEF C!Next, C!Unbook, Outside

\* A payout goes on record.
LEMMA Recording ==
  ASSUME TypeOK, NEW d \in Deals, NEW s \in Sides,
         \A r \in Sides : payout[d][r] # "paid",
         escrow[d] \in Settled, s = "refund" => escrow[d] = "refunded",
         payout' = [payout EXCEPT ![d][s] = "paid"],
         UNCHANGED <<escrow, consent, terms>>
  PROVE  \E x \in Parties : C!Book(d, x)
<1>1. PICK x \in Parties : PaidSide(x) = s
  BY PartySides
<1>2. UNCHANGED <<Money, Claimants>>
  BY DEF Money, Holder, Claimants, Entitled
<1>3. Booked[d] = {}
  BY PartySides DEF Booked
<1>4. Money[d] # "escrow" /\ (x = "buyer" => Money[d] = "buyer")
  BY <1>1, PartySides DEF Money, Holder, Settled
<1>5. \A e \in Deals : Booked'[e] = IF e = d THEN {x} ELSE Booked[e]
  <2>1. "paid" \in PayoutStatuses
    BY DEF PayoutStatuses
  <2>2. \A y \in Parties : PaidSide(y) = s <=> y = x
    BY <1>1 DEF PaidSide, Parties
  <2>3. {y \in Parties : IF PaidSide(y) = s THEN "paid" = "paid" ELSE y \in Booked[d]} = {x}
    BY <1>3, <2>2
  <2>4. \A e \in Deals :
          Booked'[e] = IF e = d
                       THEN {y \in Parties : IF PaidSide(y) = s THEN "paid" = "paid"
                                             ELSE y \in Booked[d]}
                       ELSE Booked[e]
    BY <2>1, BookedAt
  <2> QED
    BY <2>3, <2>4, Zenon
<1>6. Booked' = [Booked EXCEPT ![d] = {x}]
  <2>1. Booked = [e \in Deals |-> Booked[e]] /\ Booked' = [e \in Deals |-> Booked'[e]]
    BY DEF Booked
  <2> QED
    BY <1>5, <2>1
<1> QED
  BY <1>2, <1>3, <1>4, <1>6 DEF C!Book

\* A step on escrows: at most one is settled.
LEMMA Moved ==
  ASSUME NEW d \in Deals, NEW op, escrow' = [escrow EXCEPT ![d] = op],
         escrow \in [Deals -> EscrowStates], escrow[d] \notin Settled
  PROVE  Money' = [Money EXCEPT ![d] = CASE op = "released" -> "seller"
                                         [] op = "refunded" -> "buyer"
                                         [] OTHER -> "escrow"]
         /\ Money[d] = "escrow"
BY DEF Money, Holder, Settled

LEMMA SettlingStep ==
  ASSUME TypeOK, NEW d \in Deals, NEW op \in EscrowStates, OpOK(d, op),
         escrow' = escrow \/ Settles(d, op), UNCHANGED <<payout, consent, terms>>
  PROVE  [C!Next]_Outside
<1>1. CASE escrow' = escrow
  BY <1>1, OutsideKept
<1>2. CASE Settles(d, op)
  <2>1. escrow' = [escrow EXCEPT ![d] = op] /\ escrow[d] \notin Settled
    BY <1>2 DEF Settles, Settled
  <2>2. UNCHANGED <<Claimants, Booked>>
    BY DEF Claimants, Entitled, Booked
  <2>3. CASE op \notin Settled
    <3>1. Money' = [Money EXCEPT ![d] = "escrow"] /\ Money[d] = "escrow"
      BY <2>1, <2>3, Moved DEF TypeOK, Settled
    <3>2. Money' = Money
      BY <3>1 DEF Money
    <3> QED
      BY <2>2, <3>2 DEF Outside
  <2>4. CASE op \in Settled
    <3>1. PICK x \in Parties : x = IF op = "released" THEN "seller" ELSE "buyer"
      BY DEF Parties
    <3>2. Money' = [Money EXCEPT ![d] = x] /\ Money[d] = "escrow"
      BY <2>1, <2>4, <3>1, Moved DEF TypeOK, Settled
    <3>3. x \in Claimants[d]
      BY <2>4, <3>1 DEF OpOK, Claimants, Entitled, Settled
    <3> QED
      BY <2>2, <3>2, <3>3 DEF C!Next, C!Settle, C!Parties, Parties
  <2> QED
    BY <2>3, <2>4
<1> QED
  BY <1>1, <1>2

LEMMA UsersCustody ==
  ASSUME Users
  PROVE  [C!Next]_Outside
<1>1. PICK t \in Workers, d \in Deals :
        \/ \E code \in {"right", "wrong"}, signed \in BOOLEAN : ReleaseRequest(t, d, code, signed)
        \/ RefundRequest(t, d)
        \/ \E s \in Sides : SubmitRequest(t, d, s) \/ AdminResolve(t, d, s)
  BY DEF Users
<1>2. UNCHANGED <<payout, escrow>>
  BY UsersKeep
<1>3. ASSUME NEW code, NEW signed, ReleaseRequest(t, d, code, signed)
      PROVE  [C!Next]_Outside
  <2>1. terms' = terms /\ (consent' = consent \/ consent' = consent \cup {d})
    BY <1>3 DEF ReleaseRequest
  <2>2. CASE consent' = consent
    BY <1>2, <2>1, <2>2, OutsideKept
  <2>3. CASE consent' = consent \cup {d}
    <3>1. UNCHANGED <<Money, Booked>>
      BY <1>2 DEF Money, Holder, Booked
    <3>2. Claimants' = [Claimants EXCEPT ![d] = Claimants[d] \cup {"seller"}]
      BY <2>1, <2>3 DEF Claimants, Entitled, Parties
    <3> QED
      BY <3>1, <3>2 DEF C!Next, C!Entitle, C!Parties
  <2> QED
    BY <2>1, <2>2, <2>3
<1>4. CASE RefundRequest(t, d)
  BY <1>2, <1>4, OutsideKept DEF RefundRequest, dbVars
<1>5. ASSUME NEW s, SubmitRequest(t, d, s) \/ AdminResolve(t, d, s)
      PROVE  [C!Next]_Outside
  BY <1>2, <1>5, OutsideKept DEF SubmitRequest, AdminResolve, dbVars
<1> QED
  BY <1>1, <1>3, <1>4, <1>5

\* The steps of a payout beside the agent's.
LEMMA AdvanceCustody ==
  ASSUME TypeOK, Claims, NEW t \in Tasks, Advance(t)
  PROVE  [C!Next]_Outside
<1> DEFINE d == task[t].deal
           s == task[t].side
<1>1. ~Idle(t) => d \in Deals /\ s \in Sides
  BY RunningTask DEF TaskRecords
<1>2. CASE Succeed(t)
  <2>1. task[t].pc = "ok" /\ d \in Deals /\ s \in Sides
    BY <1>1, <1>2 DEF Succeed, Idle
  <2>2. UNCHANGED <<escrow, consent, terms>>
    BY <1>2 DEF Succeed, agentVars
  <2>3. payout' = payout \/ payout' = [payout EXCEPT ![d][s] = "paid"]
    BY <1>2 DEF Succeed
  <2>4. /\ \A r \in Sides : payout[d][r] # "paid"
        /\ escrow[d] \in Settled /\ (s = "refund" => escrow[d] = "refunded")
    BY <2>1 DEF Claims, OkUnpaid, OkSettled
  <2>5. CASE payout' = payout
    BY <2>2, <2>5, OutsideKept
  <2>6. CASE payout' = [payout EXCEPT ![d][s] = "paid"]
    <3>1. \E x \in Parties : C!Book(d, x)
      BY <2>1, <2>2, <2>4, <2>6, Recording
    <3> QED
      BY <2>1, <3>1 DEF C!Next, C!Parties, Parties
  <2> QED
    BY <2>3, <2>5, <2>6
<1>3. ASSUME NEW v \in PayoutStatuses \ {"paid"}, ~Idle(t),
             payout' = payout \/ payout' = [payout EXCEPT ![d][s] = v],
             UNCHANGED <<escrow, consent, terms>>
      PROVE  [C!Next]_Outside
  BY <1>1, <1>3, OverwrittenStep DEF Claims
<1>4. {"pending", "failed", "payout_stuck"} \subseteq PayoutStatuses \ {"paid"}
  BY DEF PayoutStatuses
<1>5. CASE Start(t) \/ ValidateFails(t) \/ ResolveFails(t) \/ RecordDirect(t)
  BY <1>5, OutsideKept
  DEF Start, ValidateFails, ResolveFails, RecordDirect, dbVars, agentVars
<1>6. CASE Begin(t)
  <2>1. /\ ~Idle(t) /\ UNCHANGED <<escrow, consent, terms>>
        /\ payout' = payout \/ payout' = [payout EXCEPT ![d][s] = "pending"]
    BY <1>6 DEF Begin, Idle, agentVars
  <2> QED
    BY <1>3, <1>4, <2>1
<1>7. CASE Validated(t) \/ Fail(t) \/ FailTimeout(t)
  <2>1. /\ ~Idle(t) /\ UNCHANGED <<escrow, consent, terms>>
        /\ payout' = payout \/ payout' = [payout EXCEPT ![d][s] = "failed"]
    BY <1>7 DEF Validated, Fail, FailTimeout, RollBack, AtomicTransition, Idle, agentVars
  <2> QED
    BY <1>3, <1>4, <2>1
<1>8. CASE FailRetry(t)
  <2>1. /\ ~Idle(t) /\ UNCHANGED <<escrow, consent, terms>>
        /\ \/ payout' = payout
           \/ payout' = [payout EXCEPT ![d][s] = "failed"]
           \/ payout' = [payout EXCEPT ![d][s] = "payout_stuck"]
    BY <1>8 DEF FailRetry, Idle, agentVars
  <2> QED
    BY <1>3, <1>4, <2>1
<1> QED
  BY <1>2, <1>5, <1>6, <1>7, <1>8 DEF Advance

LEMMA AgentCustody ==
  ASSUME TypeOK, Authority, \/ \E t \in Tasks : Agent(t)
                            \/ LateDelivery
  PROVE  [C!Next]_Outside
<1>1. ASSUME NEW t \in Tasks, Agent(t)
      PROVE  [C!Next]_Outside
  <2>1. task[t] \in TaskRecords /\ TaskOK(task[t]) /\ task[t].pc \in {"call", "direct"}
    BY <1>1, RunningTask DEF Authority, TaskInv, Agent, AgentAnswers, AgentFails, Idle
  <2>2. PICK d \in Deals, op \in EscrowStates : d = task[t].deal /\ op = Request(task[t])
    BY <2>1, RequestType DEF TaskRecords
  <2>3. OpOK(d, op)
    BY <2>1, <2>2, RequestOK
  <2>4. escrow' = escrow \/ Settles(d, op)
    BY <1>1, <2>2 DEF Agent, AgentAnswers, AgentFails, agentVars
  <2>5. UNCHANGED <<payout, consent, terms>>
    BY <1>1 DEF Agent, AgentAnswers, AgentFails, dbVars
  <2> QED
    BY <2>3, <2>4, <2>5, SettlingStep
<1>2. CASE LateDelivery
  <2>1. PICK m \in late : escrow' = IF escrow[m[1]] = "funded"
                                    THEN [escrow EXCEPT ![m[1]] = m[2]] ELSE escrow
    BY <1>2 DEF LateDelivery
  <2>2. m[1] \in Deals /\ m[2] \in EscrowStates /\ OpOK(m[1], m[2])
    BY DEF TypeOK, Authority, LateInv
  <2>3. escrow' = escrow \/ Settles(m[1], m[2])
    BY <2>1 DEF Settles
  <2>4. UNCHANGED <<payout, consent, terms>>
    BY <1>2 DEF LateDelivery, dbVars
  <2> QED
    BY <2>2, <2>3, <2>4, SettlingStep
<1> QED
  BY <1>1, <1>2

LEMMA LoopCustody ==
  ASSUME TypeOK, Claims, LoopStep
  PROVE  [C!Next]_Outside
<1>1. CASE ScanExpired \/ ScanStalled \/ EndPass \/ ProcessExpired
  BY <1>1, OutsideKept
  DEF ScanExpired, ScanStalled, EndPass, ProcessExpired, dbVars, agentVars
<1>2. CASE ProcessStalled
  <2>1. PICK i \in queue : SkipStalled(i) \/ ParkStalled(i) \/ RetryStalled(i)
    BY <1>2 DEF ProcessStalled
  <2>2. i.deal \in Deals /\ i.side \in Sides
    BY DEF TypeOK, Items
  <2>3. CASE SkipStalled(i) \/ RetryStalled(i)
    BY <2>3, OutsideKept DEF SkipStalled, RetryStalled, dbVars, agentVars
  <2>4. CASE ParkStalled(i)
    <3>1. "payout_stuck" \in PayoutStatuses \ {"paid"}
      BY DEF PayoutStatuses
    <3>2. /\ payout' = [payout EXCEPT ![i.deal][i.side] = "payout_stuck"]
          /\ UNCHANGED <<escrow, consent, terms>>
      BY <2>4 DEF ParkStalled, agentVars
    <3> QED
      BY <2>2, <3>1, <3>2, OverwrittenStep DEF Claims
  <2> QED
    BY <2>1, <2>3, <2>4
<1> QED
  BY <1>1, <1>2 DEF LoopStep

LEMMA CustodyStep ==
  ASSUME TypeOK, Authority, Claims, [Next]_vars
  PROVE  [C!Next]_Outside
<1>1. CASE \/ \E d \in Deals : Ship(d) \/ Tick(d)
           \/ CancelLoop \/ Halt \/ Resume \/ Crash \/ UNCHANGED vars
  BY <1>1, OutsideKept
  DEF Ship, SetShipped, Tick, CancelLoop, Halt, Resume, Crash, Abandon, vars, dbVars, agentVars
<1> QED
  BY <1>1, UsersCustody, AdvanceCustody, AgentCustody, LoopCustody DEF Next

\* Nothing is settled or booked when a deal has just been funded.
LEMMA CustodyInit == Init => C!Init
<1> SUFFICES ASSUME Init PROVE C!Init
  OBVIOUS
<1>1. Money = [d \in Deals |-> "escrow"]
  BY DEF Init, Money, Holder
<1>2. Claimants \in [Deals -> SUBSET Parties]
  BY DEF Claimants
<1>3. Booked = [d \in Deals |-> {}]
  BY PartySides DEF Init, Booked
<1> QED
  BY <1>1, <1>2, <1>3 DEF C!Init, C!Parties, Parties

(* The handlers, the loop and the agent implement Custody: the escrow of a  *)
(* deal is settled once, for an entitled party, and a payout goes on record *)
(* only after that and only where there is none (execute_ark_payout).       *)
THEOREM KeepsCustody == Spec => CustodyKept
<1>1. TypeOK /\ Authority /\ Claims /\ [Next]_vars => [C!Next]_Outside
  BY CustodyStep
<1> QED
  BY <1>1, CustodyInit, TypeCorrect, AuthorityHolds, ClaimsHold, PTL
  DEF Spec, CustodyKept, C!Spec, Outside

=============================================================================
