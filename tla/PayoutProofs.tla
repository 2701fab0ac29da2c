---------------------------- MODULE PayoutProofs ----------------------------
(***************************************************************************)
(* Theorems about Payout, for any number of deals and request handlers.    *)
(***************************************************************************)
EXTENDS Payout, TLAPS

-----------------------------------------------------------------------------
(***************************************************************************)
(* Lemmas about the operators                                              *)
(***************************************************************************)

\* Assigning one entry of a table.
LEMMA TableUpdate ==
  ASSUME NEW D, NEW S, NEW V, NEW f \in [D -> [S -> V]],
         NEW d \in D, NEW s \in S, NEW v \in V
  PROVE  /\ [f EXCEPT ![d][s] = v] \in [D -> [S -> V]]
         /\ \A x \in D, y \in S :
              [f EXCEPT ![d][s] = v][x][y] = IF x = d /\ y = s THEN v ELSE f[x][y]
<1> DEFINE row == [f[d] EXCEPT ![s] = v]
           g == [f EXCEPT ![d] = row]
<1>1. row \in [S -> V]
  OBVIOUS
<1>2. g \in [D -> [S -> V]]
  BY <1>1
<1>3. \A x \in D, y \in S : g[x][y] = IF x = d /\ y = s THEN v ELSE f[x][y]
  OBVIOUS
<1> QED
  BY <1>2, <1>3

\* Setting a flag of the rows (txid, addr), a payout status.
LEMMA FlagUpdate ==
  ASSUME NEW f \in [Deals -> [Sides -> BOOLEAN]], NEW d \in Deals, NEW s \in Sides
  PROVE  [f EXCEPT ![d][s] = TRUE] \in [Deals -> [Sides -> BOOLEAN]]
<1>1. TRUE \in BOOLEAN
  OBVIOUS
<1> QED
  BY <1>1, TableUpdate, Zenon

LEMMA PayoutUpdate ==
  ASSUME payout \in [Deals -> [Sides -> PayoutStatuses]],
         NEW d \in Deals, NEW s \in Sides, NEW v \in PayoutStatuses
  PROVE  /\ [payout EXCEPT ![d][s] = v] \in [Deals -> [Sides -> PayoutStatuses]]
         /\ \A x \in Deals, y \in Sides :
              [payout EXCEPT ![d][s] = v][x][y] = IF x = d /\ y = s THEN v ELSE payout[x][y]
BY TableUpdate, ZenonT(30)

\* The columns of a payout type are what the type invariant expects.
LEMMA SideTypes ==
  ASSUME NEW s \in Sides
  PROVE  /\ Other(s) \in Sides
         /\ Transitional(s) \in Statuses
         /\ Completed(s) \in Statuses
BY DEF Sides, Other, Transitional, Completed, Statuses

\* A deal dict read from the rows is well formed.
LEMMA RowType ==
  ASSUME TypeOK, NEW d \in Deals
  PROVE  Row(d) \in Rows
BY DEF TypeOK, Row, Rows

LEMMA NoRowType == NoRow \in Rows
BY DEF NoRow, Rows, Statuses, PayoutStatuses

\* A task at an await is a full task record.
LEMMA RunningTask ==
  ASSUME TypeOK, NEW t \in Tasks, ~Idle(t)
  PROVE  task[t] \in TaskRecords
BY DEF TypeOK, Idle, NoTask

LEMMA RaiseType ==
  ASSUME NEW tk \in TaskRecords
  PROVE  Raise(tk) \in TaskRecords \cup {NoTask}
BY DEF Raise, TaskRecords, Points

LEMMA EnterType ==
  ASSUME NEW d \in Deals, NEW s \in Sides, NEW who \in Callers,
         NEW row \in Rows, NEW signed \in BOOLEAN
  PROVE  Enter(d, s, who, row, signed) \in TaskRecords \cup {NoTask}
<1> DEFINE seen == IF who = "timeout" THEN row.status ELSE "pending"
           tk == [pc |-> "resolve", deal |-> d, side |-> s, caller |-> who, row |-> NoRow,
                  seen |-> seen, prev |-> "pending", signed |-> signed, err |-> "none"]
<1>1. seen \in Statuses
  BY DEF Rows, Statuses
<1>2. tk \in TaskRecords
  BY <1>1, NoRowType DEF TaskRecords, Points, Errors, Statuses
<1>3. [tk EXCEPT !.pc = "direct"] \in TaskRecords
  BY <1>2 DEF TaskRecords, Points
<1>4. Raise(tk) \in TaskRecords \cup {NoTask}
  BY <1>2, RaiseType
<1> QED
  BY <1>2, <1>3, <1>4 DEF Enter

LEMMA NewTaskType ==
  ASSUME NEW pc \in Points, NEW d \in Deals, NEW s \in Sides, NEW who \in Callers,
         NEW row \in Rows, NEW signed \in BOOLEAN
  PROVE  NewTask(pc, d, s, who, row, signed) \in TaskRecords
BY DEF NewTask, TaskRecords, Errors, Statuses

LEMMA RequestType ==
  ASSUME NEW tk \in TaskRecords
  PROVE  Request(tk) \in EscrowStates
BY DEF Request, EscrowStates

-----------------------------------------------------------------------------
(***************************************************************************)
(* Type correctness                                                        *)
(***************************************************************************)

LEMMA InitType == Init => TypeOK
<1> SUFFICES ASSUME Init PROVE TypeOK
  OBVIOUS
<1>1. status \in [Deals -> Statuses] /\ escrow \in [Deals -> EscrowStates]
  BY DEF Init, Statuses, EscrowStates
<1>2. payout \in [Deals -> [Sides -> PayoutStatuses]]
  BY DEF Init, PayoutStatuses
<1>3. txid \in [Deals -> [Sides -> BOOLEAN]] /\ due \in [Deals -> BOOLEAN]
  BY Zenon DEF Init
<1>4. tries \in [Deals -> [Sides -> Nat]]
  BY DEF Init
<1>5. task \in [Tasks -> TaskRecords \cup {NoTask}]
  BY DEF Init
<1>6. addr \in [Deals -> [Sides -> BOOLEAN]] /\ terms \in [Deals -> TermsSet]
  BY DEF Init
<1>7. late \subseteq Deals \X EscrowStates /\ queue \subseteq Items /\ consent \subseteq Deals
  BY DEF Init
<1>8. halted \in BOOLEAN /\ phase \in {"sleep", "expired", "stalled"}
  BY DEF Init
<1> QED
  BY <1>1, <1>2, <1>3, <1>4, <1>5, <1>6, <1>7, <1>8 DEF TypeOK

\* The steps of a payout.
LEMMA StartType ==
  ASSUME TypeOK, NEW t \in Tasks, Start(t)
  PROVE  TypeOK'
<1>1. task[t] \in TaskRecords
  BY RunningTask DEF Start, Idle
<1>2. Enter(task[t].deal, task[t].side, task[t].caller, task[t].row, task[t].signed)
        \in TaskRecords \cup {NoTask}
  BY <1>1, EnterType DEF TaskRecords
<1> QED
  BY <1>2 DEF Start, TypeOK, dbVars, agentVars, loopVars

LEMMA BeginType ==
  ASSUME TypeOK, NEW t \in Tasks, Begin(t)
  PROVE  TypeOK'
<1>1. task[t] \in TaskRecords
  BY RunningTask DEF Begin, Idle
<1> DEFINE d == task[t].deal
           s == task[t].side
<1>2. d \in Deals /\ s \in Sides
  BY <1>1 DEF TaskRecords
<1>3. CASE MayBegin(d, s)
  <2>1. status' \in [Deals -> Statuses]
    <3>1. status' = [status EXCEPT ![d] = Transitional(s)]
      BY <1>3 DEF Begin
    <3> QED
      BY <1>2, <3>1, SideTypes DEF TypeOK
  <2>2. payout' \in [Deals -> [Sides -> PayoutStatuses]]
    <3>1. payout' = [payout EXCEPT ![d][s] = "pending"]
      BY <1>3 DEF Begin
    <3> QED
      BY <1>2, <3>1, TableUpdate DEF TypeOK, PayoutStatuses
  <2> DEFINE begun == [task[t] EXCEPT !.prev = status[d],
                                      !.pc = IF Authorized(task[t]) THEN "call" ELSE "check",
                                      !.err = IF task[t].caller = "retry" THEN "other" ELSE "none"]
  <2>a. begun \in TaskRecords
    BY <1>1, <1>2 DEF TypeOK, TaskRecords, Points, Errors
  <2>b. task' = [task EXCEPT ![t] = begun]
    BY <1>3 DEF Begin
  <2>3. task' \in [Tasks -> TaskRecords \cup {NoTask}]
    BY <2>a, <2>b DEF TypeOK
  <2> QED
    BY <2>1, <2>2, <2>3 DEF Begin, TypeOK, agentVars, loopVars
<1>4. CASE ~MayBegin(d, s)
  BY <1>1, <1>4, RaiseType DEF Begin, TypeOK, agentVars, loopVars
<1> QED
  BY <1>3, <1>4

\* Ending or raising leaves a well-formed task.
LEMMA RaiseStep ==
  ASSUME TypeOK, NEW t \in Tasks, ~Idle(t), task' = [task EXCEPT ![t] = Raise(@)]
  PROVE  task' \in [Tasks -> TaskRecords \cup {NoTask}]
BY RunningTask, RaiseType DEF TypeOK

LEMMA ResolveFailsType ==
  ASSUME TypeOK, NEW t \in Tasks, ResolveFails(t)
  PROVE  TypeOK'
<1>1. task' \in [Tasks -> TaskRecords \cup {NoTask}]
  BY RaiseStep DEF ResolveFails, Idle
<1> QED
  BY <1>1 DEF ResolveFails, TypeOK, dbVars, agentVars, loopVars

LEMMA AgentAnswersType ==
  ASSUME TypeOK, NEW t \in Tasks, AgentAnswers(t)
  PROVE  TypeOK'
<1>1. task[t] \in TaskRecords
  BY RunningTask DEF AgentAnswers, Idle
<1>2. task' \in [Tasks -> TaskRecords \cup {NoTask}]
  BY <1>1 DEF AgentAnswers, TypeOK, TaskRecords, Points
<1>3. escrow' \in [Deals -> EscrowStates]
  BY <1>1, RequestType DEF AgentAnswers, Settles, TypeOK, TaskRecords
<1> QED
  BY <1>2, <1>3 DEF AgentAnswers, TypeOK, dbVars, loopVars

LEMMA AgentFailsType ==
  ASSUME TypeOK, NEW t \in Tasks, AgentFails(t)
  PROVE  TypeOK'
<1>1. task[t] \in TaskRecords
  BY RunningTask DEF AgentFails, Idle
<1> DEFINE d == task[t].deal
           op == Request(task[t])
<1>2. d \in Deals /\ op \in EscrowStates
  BY <1>1, RequestType DEF TaskRecords
<1>3. task' \in [Tasks -> TaskRecords \cup {NoTask}]
  <2>1. PICK e \in Errors : task' = [task EXCEPT ![t] =
          [@ EXCEPT !.pc = IF task[t].pc = "call" THEN "check" ELSE "record",
                    !.err = IF task[t].caller = "retry" THEN e ELSE "none"]]
    BY DEF AgentFails
  <2> QED
    BY <1>1, <2>1 DEF TypeOK, TaskRecords, Points, Errors
<1>4. escrow' \in [Deals -> EscrowStates] /\ late' \subseteq Deals \X EscrowStates
  BY <1>2 DEF AgentFails, Settles, TypeOK, agentVars
<1> QED
  BY <1>3, <1>4 DEF AgentFails, TypeOK, dbVars, loopVars

LEMMA LateDeliveryType ==
  ASSUME TypeOK, LateDelivery
  PROVE  TypeOK'
<1>1. PICK m \in late :
        /\ late' = late \ {m}
        /\ escrow' = IF escrow[m[1]] = "funded"
                     THEN [escrow EXCEPT ![m[1]] = m[2]] ELSE escrow
  BY DEF LateDelivery
<1>2. m[1] \in Deals /\ m[2] \in EscrowStates
  BY DEF TypeOK
<1>3. escrow' \in [Deals -> EscrowStates] /\ late' \subseteq Deals \X EscrowStates
  BY <1>1, <1>2 DEF TypeOK
<1> QED
  BY <1>3 DEF LateDelivery, TypeOK, dbVars, loopVars

LEMMA SucceedType ==
  ASSUME TypeOK, NEW t \in Tasks, Succeed(t)
  PROVE  TypeOK'
<1>1. task[t] \in TaskRecords
  BY RunningTask DEF Succeed, Idle
<1> DEFINE d == task[t].deal
           s == task[t].side
<1>2. d \in Deals /\ s \in Sides
  BY <1>1 DEF TaskRecords
<1>3. tries' \in [Deals -> [Sides -> Nat]]
  <2>1. tries' = tries \/ tries' = [tries EXCEPT ![d][s] = 0]
    BY DEF Succeed
  <2>2. [tries EXCEPT ![d][s] = 0] \in [Deals -> [Sides -> Nat]]
    BY <1>2, 0 \in Nat, TableUpdate DEF TypeOK
  <2> QED
    BY <2>1, <2>2 DEF TypeOK
<1>4. task' \in [Tasks -> TaskRecords \cup {NoTask}]
  BY DEF Succeed, TypeOK
<1>5. CASE status[d] = Transitional(s)
  <2>1. status' \in [Deals -> Statuses]
    <3>1. status' = [status EXCEPT ![d] = Completed(s)]
      BY <1>5 DEF Succeed
    <3> QED
      BY <1>2, <3>1, SideTypes DEF TypeOK
  <2>2. payout' \in [Deals -> [Sides -> PayoutStatuses]]
    <3>1. payout' = [payout EXCEPT ![d][s] = "paid"]
      BY <1>5 DEF Succeed
    <3> QED
      BY <1>2, <3>1, PayoutUpdate DEF TypeOK, PayoutStatuses
  <2>3. txid' \in [Deals -> [Sides -> BOOLEAN]]
    <3>1. txid' = [txid EXCEPT ![d][s] = TRUE]
      BY <1>5 DEF Succeed
    <3> QED
      BY <1>2, <3>1, FlagUpdate DEF TypeOK
  <2> QED
    BY <1>3, <1>4, <2>1, <2>2, <2>3 DEF Succeed, TypeOK, agentVars
<1>6. CASE status[d] # Transitional(s)
  BY <1>3, <1>4, <1>6 DEF Succeed, TypeOK, agentVars
<1> QED
  BY <1>5, <1>6

LEMMA RecordDirectType ==
  ASSUME TypeOK, NEW t \in Tasks, RecordDirect(t)
  PROVE  TypeOK'
<1>1. task[t] \in TaskRecords
  BY RunningTask DEF RecordDirect, Idle
<1> DEFINE d == task[t].deal
           s == task[t].side
<1>2. d \in Deals /\ s \in Sides
  BY <1>1 DEF TaskRecords
<1>3. status' \in [Deals -> Statuses]
  BY <1>2, SideTypes DEF RecordDirect, TypeOK
<1>4. txid' \in [Deals -> [Sides -> BOOLEAN]]
  <2>1. txid' = [txid EXCEPT ![d][s] = TRUE]
    BY DEF RecordDirect
  <2> QED
    BY <1>2, <2>1, FlagUpdate DEF TypeOK
<1>5. task' \in [Tasks -> TaskRecords \cup {NoTask}]
  BY DEF RecordDirect, TypeOK
<1> QED
  BY <1>3, <1>4, <1>5 DEF RecordDirect, TypeOK, agentVars, loopVars

\* Writing a status and failing the payout.
LEMMA FailedRow ==
  ASSUME TypeOK, NEW d \in Deals, NEW s \in Sides, NEW st \in Statuses,
         \/ /\ status' = [status EXCEPT ![d] = st]
            /\ payout' = [payout EXCEPT ![d][s] = "failed"]
         \/ UNCHANGED <<status, payout>>
  PROVE  status' \in [Deals -> Statuses] /\ payout' \in [Deals -> [Sides -> PayoutStatuses]]
<1>1. "failed" \in PayoutStatuses
  BY DEF PayoutStatuses
<1>2. [payout EXCEPT ![d][s] = "failed"] \in [Deals -> [Sides -> PayoutStatuses]]
  BY <1>1, TableUpdate DEF TypeOK
<1>3. [status EXCEPT ![d] = st] \in [Deals -> Statuses]
  BY DEF TypeOK
<1> QED
  BY <1>2, <1>3 DEF TypeOK

LEMMA FailType ==
  ASSUME TypeOK, NEW t \in Tasks, Fail(t)
  PROVE  TypeOK'
<1>1. task[t] \in TaskRecords
  BY RunningTask DEF Fail, Idle
<1>2. status' \in [Deals -> Statuses] /\ payout' \in [Deals -> [Sides -> PayoutStatuses]]
  BY <1>1, FailedRow DEF Fail, RollBack, AtomicTransition, TaskRecords
<1>3. task' \in [Tasks -> TaskRecords \cup {NoTask}]
  BY RaiseStep DEF Fail, Idle
<1> QED
  BY <1>2, <1>3 DEF Fail, TypeOK, agentVars, loopVars

LEMMA FailRetryType ==
  ASSUME TypeOK, NEW t \in Tasks, FailRetry(t)
  PROVE  TypeOK'
<1>1. task[t] \in TaskRecords
  BY RunningTask DEF FailRetry, Idle
<1> DEFINE d == task[t].deal
           s == task[t].side
<1>2. d \in Deals /\ s \in Sides /\ task[t].prev \in Statuses
  BY <1>1 DEF TaskRecords
<1>3. status' \in [Deals -> Statuses]
  BY <1>2 DEF FailRetry, TypeOK
<1>4. payout' \in [Deals -> [Sides -> PayoutStatuses]]
  <2>1. /\ [payout EXCEPT ![d][s] = "failed"] \in [Deals -> [Sides -> PayoutStatuses]]
        /\ [payout EXCEPT ![d][s] = "payout_stuck"] \in [Deals -> [Sides -> PayoutStatuses]]
    <3>1. "failed" \in PayoutStatuses /\ "payout_stuck" \in PayoutStatuses
      BY DEF PayoutStatuses
    <3> QED
      BY <1>2, <3>1, PayoutUpdate DEF TypeOK
  <2> QED
    BY <2>1 DEF FailRetry, TypeOK
<1>5. tries' \in [Deals -> [Sides -> Nat]]
  <2>1. tries[d][s] + 1 \in Nat
    BY <1>2 DEF TypeOK
  <2>2. /\ [tries EXCEPT ![d][s] = tries[d][s] + 1] \in [Deals -> [Sides -> Nat]]
        /\ [tries EXCEPT ![d][s] = 0] \in [Deals -> [Sides -> Nat]]
    BY <1>2, <2>1, TableUpdate DEF TypeOK
  <2>3. \/ tries' = [tries EXCEPT ![d][s] = tries[d][s] + 1]
        \/ tries' = [tries EXCEPT ![d][s] = 0]
        \/ tries' = tries
    BY DEF FailRetry
  <2> QED
    BY <2>2, <2>3 DEF TypeOK
<1>6. task' \in [Tasks -> TaskRecords \cup {NoTask}]
  BY DEF FailRetry, TypeOK
<1> QED
  BY <1>3, <1>4, <1>5, <1>6 DEF FailRetry, TypeOK, agentVars

LEMMA FailTimeoutType ==
  ASSUME TypeOK, NEW t \in Tasks, FailTimeout(t)
  PROVE  TypeOK'
<1>1. task[t] \in TaskRecords
  BY RunningTask DEF FailTimeout, AtomicTransition, Idle
<1>2. status' \in [Deals -> Statuses] /\ payout' \in [Deals -> [Sides -> PayoutStatuses]]
  <2>1. "expired" \in Statuses
    BY DEF Statuses
  <2> QED
    BY <1>1, <2>1, FailedRow DEF FailTimeout, AtomicTransition, TaskRecords
<1>3. task' \in [Tasks -> TaskRecords \cup {NoTask}]
  BY DEF FailTimeout, AtomicTransition, TypeOK
<1> QED
  BY <1>2, <1>3 DEF FailTimeout, AtomicTransition, TypeOK, agentVars, loopVars

\* The endpoints.
LEMMA ReleaseRequestType ==
  ASSUME TypeOK, NEW t \in Workers, NEW d \in Deals, NEW code, NEW signed \in BOOLEAN,
         ReleaseRequest(t, d, code, signed)
  PROVE  TypeOK'
<1> DEFINE st == IF status[d] = "active" THEN "funded" ELSE status[d]
           row == [Row(d) EXCEPT !.status = st]
<1>1. st \in Statuses
  BY DEF TypeOK, Statuses
<1>2. row \in Rows
  BY <1>1, RowType DEF Rows
<1>3. NewTask("start", d, "release", "user", row, signed) \in TaskRecords
  BY <1>2, NewTaskType DEF Points, Sides, Callers
<1>4. task' \in [Tasks -> TaskRecords \cup {NoTask}]
  BY <1>3 DEF ReleaseRequest, TypeOK
<1>5. status' \in [Deals -> Statuses]
  BY <1>1 DEF ReleaseRequest, TypeOK
<1>6. due' \in [Deals -> BOOLEAN]
  <2>1. due' = due \/ due' = [due EXCEPT ![d] = FALSE]
    BY DEF ReleaseRequest
  <2> QED
    BY <2>1, Zenon DEF TypeOK
<1>7. consent' \subseteq Deals
  BY DEF ReleaseRequest, TypeOK
<1> QED
  BY <1>4, <1>5, <1>6, <1>7 DEF ReleaseRequest, TypeOK, agentVars, loopVars

LEMMA RefundRequestType ==
  ASSUME TypeOK, NEW t \in Workers, NEW d \in Deals, RefundRequest(t, d)
  PROVE  TypeOK'
<1>1. NewTask("start", d, "refund", "user", Row(d), FALSE) \in TaskRecords
  BY RowType, NewTaskType DEF Points, Sides, Callers
<1> QED
  BY <1>1 DEF RefundRequest, TypeOK, dbVars, agentVars, loopVars

LEMMA ShipType ==
  ASSUME TypeOK, NEW d \in Deals, Ship(d)
  PROVE  TypeOK'
BY DEF Ship, SetShipped, TypeOK, Statuses, agentVars, loopVars

LEMMA SubmitRequestType ==
  ASSUME TypeOK, NEW t \in Workers, NEW d \in Deals, NEW s \in Sides, SubmitRequest(t, d, s)
  PROVE  TypeOK'
<1>1. NewTask("validate", d, s, "submit", Row(d), FALSE) \in TaskRecords
  BY RowType, NewTaskType DEF Points, Callers
<1> QED
  BY <1>1 DEF SubmitRequest, TypeOK, dbVars, agentVars, loopVars

LEMMA ValidateFailsType ==
  ASSUME TypeOK, NEW t \in Tasks, ValidateFails(t)
  PROVE  TypeOK'
BY DEF ValidateFails, TypeOK, dbVars, agentVars, loopVars

LEMMA ValidatedType ==
  ASSUME TypeOK, NEW t \in Tasks, Validated(t)
  PROVE  TypeOK'
<1>1. task[t] \in TaskRecords
  BY RunningTask DEF Validated, Idle
<1> DEFINE d == task[t].deal
           s == task[t].side
           stored == [addr EXCEPT ![d][s] = TRUE]
           marked == [payout EXCEPT ![d][s] = "failed"]
           row == [Row(d) EXCEPT !.addr = stored[d], !.payout = marked[d]]
<1>2. d \in Deals /\ s \in Sides
  BY <1>1 DEF TaskRecords
<1>3. stored \in [Deals -> [Sides -> BOOLEAN]]
  BY <1>2, FlagUpdate DEF TypeOK
<1>4. marked \in [Deals -> [Sides -> PayoutStatuses]]
  BY <1>2, PayoutUpdate DEF TypeOK, PayoutStatuses
<1> HIDE DEF stored, marked
<1>5. row \in Rows
  BY <1>2, <1>3, <1>4, RowType DEF Rows
<1>6. Enter(d, s, "submit", row, FALSE) \in TaskRecords \cup {NoTask}
  BY <1>2, <1>5, EnterType DEF Callers
<1> HIDE DEF row
<1>7. /\ addr' = stored
      /\ payout' \in {payout, marked}
      /\ \/ task' = [task EXCEPT ![t] = Enter(d, s, "submit", row, FALSE)]
         \/ task' = [task EXCEPT ![t] = NoTask]
  BY DEF Validated, stored, marked, row
<1>8. task' \in [Tasks -> TaskRecords \cup {NoTask}]
  BY <1>6, <1>7 DEF TypeOK
<1> QED
  BY <1>3, <1>4, <1>7, <1>8 DEF Validated, TypeOK, agentVars, loopVars

LEMMA AdminResolveType ==
  ASSUME TypeOK, NEW t \in Workers, NEW d \in Deals, NEW s \in Sides, AdminResolve(t, d, s)
  PROVE  TypeOK'
<1>1. Enter(d, s, "admin", Row(d), FALSE) \in TaskRecords \cup {NoTask}
  BY RowType, EnterType DEF Callers
<1> QED
  BY <1>1 DEF AdminResolve, TypeOK, dbVars, agentVars, loopVars

\* The timeout loop.
LEMMA ScanExpiredType ==
  ASSUME TypeOK, ScanExpired
  PROVE  TypeOK'
<1>1. queue' \subseteq Items
  <2>1. ASSUME NEW d \in Deals
        PROVE  [deal |-> d, side |-> terms[d].action, row |-> Row(d)] \in Items
    <3>1. terms[d].action \in Sides
      BY TermsAssumption DEF TypeOK, Terms
    <3> QED
      BY <3>1, RowType DEF Items
  <2> QED
    BY <2>1 DEF ScanExpired
<1> QED
  BY <1>1 DEF ScanExpired, TypeOK, dbVars, agentVars

LEMMA ProcessExpiredType ==
  ASSUME TypeOK, ProcessExpired
  PROVE  TypeOK'
<1>1. PICK i \in queue :
        /\ queue' = queue \ {i}
        /\ IF i.row.addr[i.side]
           THEN /\ task' = [task EXCEPT ![Loop] = Enter(i.deal, i.side, "timeout", i.row, FALSE)]
                /\ UNCHANGED status
           ELSE /\ status' = [status EXCEPT ![i.deal] = "expired"]
                /\ UNCHANGED task
  BY DEF ProcessExpired
<1>2. i.deal \in Deals /\ i.side \in Sides /\ i.row \in Rows
  BY DEF TypeOK, Items
<1>3. Enter(i.deal, i.side, "timeout", i.row, FALSE) \in TaskRecords \cup {NoTask}
  BY <1>2, EnterType DEF Callers
<1>4. status' \in [Deals -> Statuses]
  BY <1>1, <1>2 DEF TypeOK, Statuses
<1>5. task' \in [Tasks -> TaskRecords \cup {NoTask}]
  BY <1>1, <1>3 DEF TypeOK
<1>6. queue' \subseteq Items
  BY <1>1 DEF TypeOK
<1> QED
  BY <1>4, <1>5, <1>6 DEF ProcessExpired, TypeOK, agentVars

LEMMA ScanStalledType ==
  ASSUME TypeOK, ScanStalled
  PROVE  TypeOK'
<1>1. queue' \subseteq Items
  BY NoRowType DEF ScanStalled, Items
<1> QED
  BY <1>1 DEF ScanStalled, TypeOK, dbVars, agentVars

LEMMA ProcessStalledType ==
  ASSUME TypeOK, ProcessStalled
  PROVE  TypeOK'
<1>1. PICK i \in queue : SkipStalled(i) \/ ParkStalled(i) \/ RetryStalled(i)
  BY DEF ProcessStalled
<1>2. i.deal \in Deals /\ i.side \in Sides
  BY DEF TypeOK, Items
<1>3. queue' \subseteq Items
  BY <1>1 DEF SkipStalled, ParkStalled, RetryStalled, NextStalled, TypeOK
<1>4. CASE SkipStalled(i)
  BY <1>3, <1>4 DEF SkipStalled, TypeOK, dbVars, agentVars
<1>5. CASE ParkStalled(i)
  <2>1. payout' = [payout EXCEPT ![i.deal][i.side] = "payout_stuck"]
    BY <1>5 DEF ParkStalled
  <2>2. payout' \in [Deals -> [Sides -> PayoutStatuses]]
    BY <1>2, <2>1, PayoutUpdate DEF TypeOK, PayoutStatuses
  <2> QED
    BY <1>3, <1>5, <2>2 DEF ParkStalled, TypeOK, agentVars
<1>6. CASE RetryStalled(i)
  <2>1. Enter(i.deal, i.side, "retry", Row(i.deal), FALSE) \in TaskRecords \cup {NoTask}
    BY <1>2, RowType, EnterType DEF Callers
  <2>2. task' \in [Tasks -> TaskRecords \cup {NoTask}]
    BY <1>6, <2>1 DEF RetryStalled, TypeOK
  <2>3. tries' \in [Deals -> [Sides -> Nat]]
    <3>1. tries' = tries \/ tries' = [tries EXCEPT ![i.deal][i.side] = 0]
      BY <1>6 DEF RetryStalled
    <3>2. [tries EXCEPT ![i.deal][i.side] = 0] \in [Deals -> [Sides -> Nat]]
      BY <1>2, 0 \in Nat, TableUpdate DEF TypeOK
    <3> QED
      BY <3>1, <3>2 DEF TypeOK
  <2> QED
    BY <1>3, <1>6, <2>2, <2>3 DEF RetryStalled, TypeOK, dbVars, agentVars
<1> QED
  BY <1>1, <1>4, <1>5, <1>6

\* A dropped request is for a deal and asks for a state of its escrow.
LEMMA AbandonType ==
  ASSUME TypeOK, NEW T \in SUBSET Tasks, Abandon(T)
  PROVE  escrow' = escrow /\ late' \subseteq Deals \X EscrowStates
<1> DEFINE sent == {t \in T : task[t].pc \in {"call", "direct"} /\ escrow[task[t].deal] = "funded"}
<1>1. PICK S \in SUBSET sent : late' = late \cup {<<task[t].deal, Request(task[t])>> : t \in S}
  BY DEF Abandon
<1>2. ASSUME NEW t \in sent
      PROVE  <<task[t].deal, Request(task[t])>> \in Deals \X EscrowStates
  <2>1. task[t] \in TaskRecords
    BY RunningTask DEF Idle
  <2> QED
    BY <2>1, RequestType DEF TaskRecords
<1> QED
  BY <1>1, <1>2 DEF Abandon, TypeOK

LEMMA CancelLoopType ==
  ASSUME TypeOK, CancelLoop
  PROVE  TypeOK'
<1>1. escrow' = escrow /\ late' \subseteq Deals \X EscrowStates
  BY AbandonType DEF CancelLoop, Tasks
<1>2. task' \in [Tasks -> TaskRecords \cup {NoTask}]
  BY DEF CancelLoop, TypeOK
<1>3. queue' \subseteq Items
  BY DEF CancelLoop, TypeOK
<1> QED
  BY <1>1, <1>2, <1>3 DEF CancelLoop, TypeOK, dbVars

LEMMA CrashType ==
  ASSUME TypeOK, Crash
  PROVE  TypeOK'
<1>1. escrow' = escrow /\ late' \subseteq Deals \X EscrowStates
  BY AbandonType DEF Crash
<1>2. task' \in [Tasks -> TaskRecords \cup {NoTask}]
  BY DEF Crash
<1>3. tries' \in [Deals -> [Sides -> Nat]]
  BY DEF Crash
<1>4. queue' \subseteq Items /\ phase' \in {"sleep", "expired", "stalled"} /\ halted' \in BOOLEAN
  BY DEF Crash
<1> QED
  BY <1>1, <1>2, <1>3, <1>4 DEF Crash, TypeOK, dbVars

\* A request by itself settles nothing and records no payout and no txid.
LEMMA UsersKeep ==
  ASSUME Users
  PROVE  UNCHANGED <<payout, txid, escrow, late>>
<1>1. PICK t \in Workers, d \in Deals :
        \/ \E code \in {"right", "wrong"}, signed \in BOOLEAN : ReleaseRequest(t, d, code, signed)
        \/ RefundRequest(t, d)
        \/ \E s \in Sides : SubmitRequest(t, d, s) \/ AdminResolve(t, d, s)
  BY DEF Users
<1>2. ASSUME NEW code, NEW signed, ReleaseRequest(t, d, code, signed)
      PROVE  UNCHANGED <<payout, txid, escrow, late>>
  BY <1>2 DEF ReleaseRequest, agentVars
<1>3. CASE RefundRequest(t, d)
  BY <1>3 DEF RefundRequest, dbVars, agentVars
<1>4. ASSUME NEW s, SubmitRequest(t, d, s)
      PROVE  UNCHANGED <<payout, txid, escrow, late>>
  BY <1>4 DEF SubmitRequest, dbVars, agentVars
<1>5. ASSUME NEW s, AdminResolve(t, d, s)
      PROVE  UNCHANGED <<payout, txid, escrow, late>>
  BY <1>5 DEF AdminResolve, dbVars, agentVars
<1> QED
  BY <1>1, <1>2, <1>3, <1>4, <1>5

\* Any step, that of a payout that Dispute takes included.
LEMMA TypeStep ==
  ASSUME TypeOK, [Next]_vars
  PROVE  TypeOK'
<1>1. CASE Users
  BY <1>1, ReleaseRequestType, RefundRequestType, SubmitRequestType, AdminResolveType
  DEF Users
<1>2. CASE \E d \in Deals : Ship(d) \/ Tick(d)
  <2>1. ASSUME NEW d \in Deals, Tick(d)
        PROVE  TypeOK'
    <3>1. due' \in [Deals -> BOOLEAN]
      BY <2>1, Zenon DEF Tick, TypeOK
    <3> QED
      BY <2>1, <3>1 DEF Tick, TypeOK, dbVars, agentVars, loopVars
  <2> QED
    BY <1>2, <2>1, ShipType
<1>3. CASE \E t \in Tasks : Advance(t) \/ Agent(t)
  BY <1>3, StartType, ValidateFailsType, ValidatedType, ResolveFailsType, BeginType,
     SucceedType, RecordDirectType, FailType, FailRetryType, FailTimeoutType,
     AgentAnswersType, AgentFailsType
  DEF Advance, Agent
<1>4. CASE LateDelivery
  BY <1>4, LateDeliveryType
<1>5. CASE LoopStep
  <2>1. CASE EndPass
    BY <2>1 DEF EndPass, TypeOK, dbVars, agentVars
  <2> QED
    BY <1>5, <2>1, ScanExpiredType, ProcessExpiredType, ScanStalledType, ProcessStalledType
    DEF LoopStep
<1>6. CASE CancelLoop
  BY <1>6, CancelLoopType
<1>7. CASE Halt \/ Resume
  BY <1>7 DEF Halt, Resume, TypeOK, dbVars, agentVars, loopVars
<1>8. CASE Crash
  BY <1>8, CrashType
<1>9. CASE UNCHANGED vars
  BY <1>9 DEF vars, TypeOK
<1> QED
  BY <1>1, <1>2, <1>3, <1>4, <1>5, <1>6, <1>7, <1>8, <1>9 DEF Next

(* Every variable stays in its type, whatever the number of deals, handlers *)
(* and retries: no handler writes a status, payout status or escrow state   *)
(* outside the sets the code defines.                                       *)
THEOREM TypeCorrect == Spec => []TypeOK
<1>1. Init => TypeOK
  BY InitType
<1>2. TypeOK /\ [Next]_vars => TypeOK'
  BY TypeStep
<1> QED
  BY <1>1, <1>2, PTL DEF Spec

=============================================================================
