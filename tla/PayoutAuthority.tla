-------------------------- MODULE PayoutAuthority --------------------------
(***************************************************************************)
(* Nobody moves an escrow without the party whose consent it needs: the    *)
(* safety theorems about Payout that concern authorisation.                *)
(***************************************************************************)
EXTENDS PayoutProofs

-----------------------------------------------------------------------------
(***************************************************************************)
(* The inductive invariant.  Whether a request may settle an escrow        *)
(* depends on what its task knew before several awaits, so the invariant   *)
(* follows the authorisation through the task's points, the loop's queue   *)
(* and the requests still under way.  It says nothing of the escrow        *)
(* itself, so that it holds beside the oracles too: Granted relates each   *)
(* step of the escrow to it.                                               *)
(***************************************************************************)

\* The escrow of d may come to state op.
OpOK(d, op) ==
  /\ op = "released" => d \in consent
  /\ op = "refunded" => (d \in Addressed => terms[d].sig)

\* The path without an address is only for a party's own request, on a deal
\* without both addresses.
TaskAddrs(tk) ==
  /\ tk.pc = "start" =>
       tk.caller = "user" /\ (tk.deal \in Addressed => \A s \in Sides : tk.row.addr[s])
  /\ tk.pc \in {"direct", "record"} => tk.caller = "user" /\ tk.deal \notin Addressed

\* A release on behalf of the buyer followed the secret code.
TaskConsent(tk) ==
  (tk.pc # "idle" /\ tk.caller = "user" /\ tk.side = "release") => tk.deal \in consent

\* A refund request is on its way only with the signature on file.
TaskSigned(tk) ==
  (tk.pc = "call" /\ (tk.side = "refund" \/ tk.caller # "user")) => terms[tk.deal].sig

TaskOK(tk) == TaskAddrs(tk) /\ TaskConsent(tk) /\ TaskSigned(tk)

AddrInv == \A d \in Addressed, s \in Sides : addr[d][s]

TaskInv == \A t \in Tasks : TaskOK(task[t])

QueueInv == phase = "stalled" => \A i \in queue : addr[i.deal][i.side]

LateInv == \A m \in late : OpOK(m[1], m[2])

EscrowInv == \A d \in Deals : OpOK(d, escrow[d])

Authority == AddrInv /\ TaskInv /\ QueueInv /\ LateInv

-----------------------------------------------------------------------------
(***************************************************************************)
(* Lemmas                                                                  *)
(***************************************************************************)

\* What a task in order asks of the agent is in order.
LEMMA RequestOK ==
  ASSUME NEW tk \in TaskRecords, TaskOK(tk), tk.pc \in {"call", "direct"}
  PROVE  OpOK(tk.deal, Request(tk))
BY DEF TaskOK, TaskAddrs, TaskConsent, TaskSigned, OpOK, Request, TaskRecords, Sides

LEMMA NoTaskOK == TaskOK(NoTask)
BY DEF TaskOK, TaskAddrs, TaskConsent, TaskSigned, NoTask

LEMMA RaiseOK ==
  ASSUME NEW tk \in TaskRecords, TaskOK(tk)
  PROVE  TaskOK(Raise(tk))
BY NoTaskOK DEF TaskOK, TaskAddrs, TaskConsent, TaskSigned, Raise, TaskRecords

LEMMA EnterOK ==
  ASSUME NEW d, NEW s, NEW who, NEW row, NEW signed,
         ~row.addr[s] => who = "user" /\ d \notin Addressed,
         who = "user" /\ s = "release" => d \in consent
  PROVE  TaskOK(Enter(d, s, who, row, signed))
BY DEF TaskOK, TaskAddrs, TaskConsent, TaskSigned, Enter, Raise, NoTask

\* Authorisation is not taken back.
LEMMA KeptOK ==
  ASSUME NEW x, TaskOK(x), terms' = terms, consent \subseteq consent'
  PROVE  TaskOK(x)'
BY DEF TaskOK, TaskAddrs, TaskConsent, TaskSigned

LEMMA KeptTask ==
  ASSUME TaskInv, terms' = terms, consent \subseteq consent', NEW u \in Tasks,
         task'[u] = task[u]
  PROVE  TaskOK(task[u])'
<1>1. PICK x : x = task[u]
  OBVIOUS
<1>2. TaskOK(x)'
  BY <1>1, KeptOK DEF TaskInv
<1> QED
  BY <1>1, <1>2

\* A step that changes one task at most, and takes back no consent.
LEMMA OneTask ==
  ASSUME TypeOK, TaskInv, terms' = terms, consent \subseteq consent',
         NEW t \in Tasks, NEW x, task' = [task EXCEPT ![t] = x], TaskOK(x)'
  PROVE  TaskInv'
<1>1. \A u \in Tasks : task'[u] = IF u = t THEN x ELSE task[u]
  BY DEF TypeOK
<1>2. \A u \in Tasks : u # t => TaskOK(task[u])'
  BY <1>1, KeptTask
<1>3. TaskOK(task[t])'
  <2>1. x = task'[t]
    BY <1>1
  <2> QED
    BY <2>1
<1> QED
  BY <1>2, <1>3 DEF TaskInv

LEMMA SameTasks ==
  ASSUME TaskInv, terms' = terms, consent \subseteq consent', task' = task
  PROVE  TaskInv'
BY KeptTask DEF TaskInv

\* A step that leaves the agent alone, clears no address and adds nothing to
\* the loop's queue.
LEMMA Aside ==
  ASSUME TypeOK, Authority, TaskInv', terms' = terms, consent \subseteq consent',
         \A d \in Deals, s \in Sides : addr[d][s] => addr'[d][s],
         queue' \subseteq queue, phase' = "stalled" => phase = "stalled" \/ queue' = {},
         UNCHANGED agentVars
  PROVE  Authority'
<1>1. AddrInv'
  BY AddressedAssumption DEF Authority, AddrInv
<1>2. QueueInv'
  BY DEF Authority, QueueInv, TypeOK, Items
<1>3. LateInv'
  BY DEF Authority, LateInv, OpOK, agentVars
<1> QED
  BY <1>1, <1>2, <1>3 DEF Authority

\* A request that is in order is left with the agent.
LEMMA Asked ==
  ASSUME TypeOK, Authority, TaskInv',
         UNCHANGED <<terms, consent, addr, queue, phase>>,
         NEW d \in Deals, NEW op, OpOK(d, op),
         late' \subseteq late \cup {<<d, op>>}
  PROVE  Authority'
<1>1. AddrInv' /\ QueueInv'
  BY DEF Authority, AddrInv, QueueInv
<1>2. LateInv'
  BY DEF Authority, LateInv, OpOK
<1> QED
  BY <1>1, <1>2 DEF Authority

-----------------------------------------------------------------------------
(***************************************************************************)
(* The steps of a payout                                                   *)
(***************************************************************************)

\* A task that ends or raises.
LEMMA EndOK ==
  ASSUME TypeOK, Authority, NEW t \in Tasks, ~Idle(t), terms' = terms, consent' = consent,
         \/ task' = [task EXCEPT ![t] = Raise(@)]
         \/ task' = [task EXCEPT ![t] = NoTask]
  PROVE  TaskInv'
<1>1. PICK x : TaskOK(x) /\ task' = [task EXCEPT ![t] = x]
  BY RunningTask, RaiseOK, NoTaskOK DEF Authority, TaskInv
<1> QED
  BY <1>1, KeptOK, OneTask DEF Authority

LEMMA StartAuthority ==
  ASSUME TypeOK, Authority, NEW t \in Tasks, Start(t)
  PROVE  Authority'
<1>1. task[t] \in TaskRecords /\ TaskOK(task[t])
  BY RunningTask DEF Authority, TaskInv, Start, Idle
<1>2. PICK x : x = Enter(task[t].deal, task[t].side, task[t].caller, task[t].row, task[t].signed)
  OBVIOUS
<1>3. TaskOK(x)
  BY <1>1, <1>2, EnterOK DEF Start, TaskOK, TaskAddrs, TaskConsent, TaskRecords
<1>4. /\ task' = [task EXCEPT ![t] = x]
      /\ UNCHANGED <<dbVars, agentVars, loopVars, consent>>
  BY <1>2 DEF Start
<1>5. TaskInv'
  BY <1>3, <1>4, KeptOK, OneTask DEF Authority, dbVars
<1> QED
  BY <1>4, <1>5, Aside DEF dbVars, loopVars

\* Without the signature it needs, a payout never gets to the agent.
LEMMA BeginAuthority ==
  ASSUME TypeOK, Authority, NEW t \in Tasks, Begin(t)
  PROVE  Authority'
<1>1. task[t] \in TaskRecords /\ TaskOK(task[t]) /\ ~Idle(t)
  BY RunningTask DEF Authority, TaskInv, Begin, Idle
<1>2. UNCHANGED <<terms, consent, addr, queue, phase, agentVars>>
  BY DEF Begin, loopVars
<1>3. TaskInv'
  <2>1. CASE task' = [task EXCEPT ![t] = Raise(@)]
    BY <1>1, <1>2, <2>1, EndOK
  <2>2. CASE task' # [task EXCEPT ![t] = Raise(@)]
    <3>1. PICK x : x = [task[t] EXCEPT !.prev = status[task[t].deal],
                          !.pc = IF Authorized(task[t]) THEN "call" ELSE "check",
                          !.err = IF task[t].caller = "retry" THEN "other" ELSE "none"]
      OBVIOUS
    <3>2. TaskOK(x)
      BY <1>1, <3>1
      DEF Begin, TaskOK, TaskAddrs, TaskConsent, TaskSigned, TaskRecords, Authorized
    <3>3. task' = [task EXCEPT ![t] = x]
      BY <2>2, <3>1 DEF Begin
    <3> QED
      BY <1>2, <3>2, <3>3, KeptOK, OneTask DEF Authority
  <2> QED
    BY <2>1, <2>2
<1> QED
  BY <1>2, <1>3, Aside

\* The other steps that do not concern the agent's escrow.
LEMMA EndAuthority ==
  ASSUME TypeOK, Authority, NEW t \in Tasks,
         ValidateFails(t) \/ ResolveFails(t) \/ Succeed(t) \/ RecordDirect(t)
           \/ Fail(t) \/ FailRetry(t) \/ FailTimeout(t)
  PROVE  Authority'
<1>1. /\ ~Idle(t)
      /\ UNCHANGED <<terms, consent, addr, queue, phase, agentVars>>
      /\ \/ task' = [task EXCEPT ![t] = Raise(@)]
         \/ task' = [task EXCEPT ![t] = NoTask]
  BY DEF ValidateFails, ResolveFails, Succeed, RecordDirect, Fail, FailRetry, FailTimeout,
     AtomicTransition,
         Idle, dbVars, loopVars
<1>2. TaskInv'
  BY <1>1, EndOK
<1> QED
  BY <1>1, <1>2, Aside

\* The agent carries out, now or later, what a task in order asked.
LEMMA AgentAuthority ==
  ASSUME TypeOK, Authority, NEW t \in Tasks, Agent(t)
  PROVE  Authority'
<1>1. task[t] \in TaskRecords /\ TaskOK(task[t]) /\ task[t].pc \in {"call", "direct"}
  BY RunningTask DEF Authority, TaskInv, Agent, AgentAnswers, AgentFails, Idle
<1>2. UNCHANGED <<terms, consent, addr, queue, phase>>
  BY DEF Agent, AgentAnswers, AgentFails, dbVars, loopVars
<1>3. TaskInv'
  <2>1. PICK x : /\ task' = [task EXCEPT ![t] = x]
                 /\ \/ x = [task[t] EXCEPT !.pc = IF task[t].pc = "call" THEN "ok" ELSE "record"]
                    \/ \E e \in Errors :
                         x = [task[t] EXCEPT !.pc = IF task[t].pc = "call" THEN "check" ELSE "record",
                                             !.err = IF task[t].caller = "retry" THEN e ELSE "none"]
    <3>1. CASE AgentAnswers(t)
      BY <3>1 DEF AgentAnswers
    <3>2. CASE AgentFails(t)
      <4>1. PICK e \in Errors : task' = [task EXCEPT ![t] =
              [@ EXCEPT !.pc = IF task[t].pc = "call" THEN "check" ELSE "record",
                        !.err = IF task[t].caller = "retry" THEN e ELSE "none"]]
        BY <3>2 DEF AgentFails
      <4> QED
        BY <4>1
    <3> QED
      BY <3>1, <3>2 DEF Agent
  <2>2. /\ x.deal = task[t].deal /\ x.side = task[t].side /\ x.caller = task[t].caller
        /\ x.pc \in {"ok", "check", "record"}
        /\ x.pc = "record" => task[t].pc = "direct"
    BY <1>1, <2>1 DEF TaskRecords
  <2>3. TaskOK(x)
    BY <1>1, <2>2 DEF TaskOK, TaskAddrs, TaskConsent, TaskSigned
  <2> QED
    BY <1>2, <2>1, <2>3, KeptOK, OneTask DEF Authority
<1>4. PICK d \in Deals, op \in EscrowStates : d = task[t].deal /\ op = Request(task[t])
  BY <1>1, RequestType DEF TaskRecords
<1>5. OpOK(d, op)
  BY <1>1, <1>4, RequestOK
<1>6. late' \subseteq late \cup {<<d, op>>}
  BY <1>4 DEF Agent, AgentAnswers, AgentFails, agentVars
<1> QED
  BY <1>2, <1>3, <1>5, <1>6, Asked

LEMMA LateAuthority ==
  ASSUME TypeOK, Authority, LateDelivery
  PROVE  Authority'
<1>1. PICK m \in late :
        /\ late' = late \ {m}
        /\ escrow' = IF escrow[m[1]] = "funded"
                     THEN [escrow EXCEPT ![m[1]] = m[2]] ELSE escrow
  BY DEF LateDelivery
<1>2. m[1] \in Deals /\ OpOK(m[1], m[2])
  BY DEF TypeOK, Authority, LateInv
<1>3. UNCHANGED <<terms, consent, addr, queue, phase, task>>
  BY DEF LateDelivery, dbVars, loopVars
<1>4. TaskInv'
  BY <1>3, SameTasks DEF Authority
<1>5. late' \subseteq late \cup {<<m[1], m[2]>>}
  BY <1>1
<1> QED
  BY <1>2, <1>3, <1>4, <1>5, Asked

-----------------------------------------------------------------------------
(***************************************************************************)
(* The endpoints                                                           *)
(***************************************************************************)

\* A release request waits to be paid out only after the right code.
LEMMA ReleaseAuthority ==
  ASSUME TypeOK, Authority, NEW t \in Workers, NEW d \in Deals, NEW code, NEW signed \in BOOLEAN,
         ReleaseRequest(t, d, code, signed)
  PROVE  Authority'
<1> DEFINE st == IF status[d] = "active" THEN "funded" ELSE status[d]
           row == [Row(d) EXCEPT !.status = st]
<1>1. /\ consent' = IF code = "right" THEN consent \cup {d} ELSE consent
      /\ UNCHANGED <<terms, addr, agentVars, queue, phase>>
  BY DEF ReleaseRequest, loopVars
<1>2. consent \subseteq consent'
  BY <1>1
<1>3. TaskInv'
  <2>1. CASE ReleaseAllowed(d, st, code)
    <3>1. PICK x : x = NewTask("start", d, "release", "user", row, signed)
      OBVIOUS
    <3>2. d \in consent'
      BY <1>1, <2>1 DEF ReleaseAllowed
    <3>3. d \in Addressed => \A s \in Sides : row.addr[s]
      BY DEF Authority, AddrInv, Row
    <3>4. /\ x.pc = "start" /\ x.caller = "user" /\ x.deal = d
          /\ x.row = row
      BY <3>1 DEF NewTask
    <3> HIDE DEF row
    <3>5. PICK r : r = row
      OBVIOUS
    <3>6. TaskOK(x)'
      BY <3>2, <3>3, <3>4, <3>5 DEF TaskOK, TaskAddrs, TaskConsent, TaskSigned
    <3>7. task' = [task EXCEPT ![t] = x] /\ t \in Tasks
      BY <2>1, <3>1 DEF ReleaseRequest, Tasks, row
    <3> QED
      BY <1>1, <1>2, <3>6, <3>7, OneTask DEF Authority
  <2>2. CASE ~ReleaseAllowed(d, st, code)
    <3>1. task' = task
      BY <2>2 DEF ReleaseRequest
    <3> QED
      BY <1>1, <1>2, <3>1, SameTasks DEF Authority
  <2> QED
    BY <2>1, <2>2
<1> QED
  BY <1>1, <1>2, <1>3, Aside

LEMMA RefundAuthority ==
  ASSUME TypeOK, Authority, NEW t \in Workers, NEW d \in Deals, RefundRequest(t, d)
  PROVE  Authority'
<1>1. PICK x : x = NewTask("start", d, "refund", "user", Row(d), FALSE)
  OBVIOUS
<1>2. TaskOK(x)
  BY <1>1 DEF NewTask, Row, Authority, AddrInv, TaskOK, TaskAddrs, TaskConsent, TaskSigned
<1>3. /\ task' = [task EXCEPT ![t] = x] /\ t \in Tasks
      /\ UNCHANGED <<terms, consent, addr, agentVars, queue, phase>>
  BY <1>1 DEF RefundRequest, Tasks, dbVars, loopVars
<1>4. TaskInv'
  BY <1>2, <1>3, KeptOK, OneTask DEF Authority
<1> QED
  BY <1>3, <1>4, Aside

LEMMA SubmitAuthority ==
  ASSUME TypeOK, Authority, NEW t \in Workers, NEW d \in Deals, NEW s \in Sides,
         SubmitRequest(t, d, s)
  PROVE  Authority'
<1>1. PICK x : x = NewTask("validate", d, s, "submit", Row(d), FALSE)
  OBVIOUS
<1>2. TaskOK(x)
  BY <1>1 DEF NewTask, TaskOK, TaskAddrs, TaskConsent, TaskSigned
<1>3. /\ task' = [task EXCEPT ![t] = x] /\ t \in Tasks
      /\ UNCHANGED <<terms, consent, addr, agentVars, queue, phase>>
  BY <1>1 DEF SubmitRequest, Tasks, dbVars, loopVars
<1>4. TaskInv'
  BY <1>2, <1>3, KeptOK, OneTask DEF Authority
<1> QED
  BY <1>3, <1>4, Aside

\* The service pays out to an address, on nobody's behalf.
LEMMA ServiceEnterOK ==
  ASSUME NEW d, NEW s, NEW who \in Callers \ {"user"}, NEW row, NEW signed, row.addr[s]
  PROVE  TaskOK(Enter(d, s, who, row, signed))
BY EnterOK

LEMMA AdminAuthority ==
  ASSUME TypeOK, Authority, NEW t \in Workers, NEW d \in Deals, NEW s \in Sides,
         AdminResolve(t, d, s)
  PROVE  Authority'
<1>1. PICK x : x = Enter(d, s, "admin", Row(d), FALSE)
  OBVIOUS
<1>2. Row(d).addr[s] /\ "admin" \in Callers \ {"user"}
  BY DEF AdminResolve, Row, Callers
<1>3. TaskOK(x)
  BY <1>1, <1>2, ServiceEnterOK
<1>4. /\ task' = [task EXCEPT ![t] = x] /\ t \in Tasks
      /\ UNCHANGED <<terms, consent, addr, agentVars, queue, phase>>
  BY <1>1 DEF AdminResolve, Tasks, dbVars, loopVars
<1>5. TaskInv'
  BY <1>3, <1>4, KeptOK, OneTask DEF Authority
<1> QED
  BY <1>4, <1>5, Aside

\* Storing an address clears none.
LEMMA AddrUpdate ==
  ASSUME TypeOK, NEW d \in Deals, NEW s \in Sides, addr' = [addr EXCEPT ![d][s] = TRUE]
  PROVE  addr'[d][s] /\ \A e \in Deals, r \in Sides : addr[e][r] => addr'[e][r]
<1> DEFINE row == [addr[d] EXCEPT ![s] = TRUE]
<1>1. addr' = [addr EXCEPT ![d] = row]
  OBVIOUS
<1>2. addr[d] \in [Sides -> BOOLEAN]
  BY DEF TypeOK
<1>3. row[s] /\ \A r \in Sides : addr[d][r] => row[r]
  BY <1>2
<1> HIDE DEF row
<1>4. \A e \in Deals : addr'[e] = IF e = d THEN row ELSE addr[e]
  BY <1>1 DEF TypeOK
<1> QED
  BY <1>3, <1>4

\* A payout that starts once the address is stored has one.
LEMMA ValidatedAuthority ==
  ASSUME TypeOK, Authority, NEW t \in Tasks, Validated(t)
  PROVE  Authority'
<1> DEFINE d == task[t].deal
           s == task[t].side
           stored == [addr EXCEPT ![d][s] = TRUE]
           marked == [payout EXCEPT ![d][s] = "failed"]
           row == [Row(d) EXCEPT !.addr = stored[d], !.payout = marked[d]]
<1>1. d \in Deals /\ s \in Sides
  BY RunningTask DEF Validated, Idle, TaskRecords
<1>2. addr'[d][s] /\ \A e \in Deals, r \in Sides : addr[e][r] => addr'[e][r]
  BY <1>1, AddrUpdate DEF Validated
<1>3. /\ addr' = stored
      /\ UNCHANGED <<terms, consent, agentVars, queue, phase>>
      /\ \/ task' = [task EXCEPT ![t] = Enter(d, s, "submit", row, FALSE)]
         \/ task' = [task EXCEPT ![t] = NoTask]
  BY DEF Validated, loopVars
<1> HIDE DEF stored, marked
<1>4. row.addr[s] /\ "submit" \in Callers \ {"user"}
  BY <1>1, <1>2, <1>3 DEF Row, Callers
<1> HIDE DEF row
<1>5. TaskOK(Enter(d, s, "submit", row, FALSE))
  BY <1>4, ServiceEnterOK
<1>6. PICK x : TaskOK(x) /\ task' = [task EXCEPT ![t] = x]
  BY <1>3, <1>5, NoTaskOK
<1>7. TaskInv'
  BY <1>3, <1>6, KeptOK, OneTask DEF Authority
<1> QED
  BY <1>2, <1>3, <1>7, Aside

-----------------------------------------------------------------------------
(***************************************************************************)
(* The timeout loop                                                        *)
(***************************************************************************)

LEMMA ProcessExpiredAuthority ==
  ASSUME TypeOK, Authority, ProcessExpired
  PROVE  Authority'
<1>1. PICK i \in queue :
        /\ queue' = queue \ {i}
        /\ IF i.row.addr[i.side]
           THEN task' = [task EXCEPT ![Loop] = Enter(i.deal, i.side, "timeout", i.row, FALSE)]
           ELSE UNCHANGED task
  BY DEF ProcessExpired
<1>2. UNCHANGED <<terms, consent, addr, agentVars, phase>>
  BY DEF ProcessExpired
<1>3. TaskInv'
  <2>1. CASE i.row.addr[i.side]
    <3>1. PICK x : x = Enter(i.deal, i.side, "timeout", i.row, FALSE)
      OBVIOUS
    <3>2. TaskOK(x)
      BY <2>1, <3>1, ServiceEnterOK DEF Callers
    <3>3. task' = [task EXCEPT ![Loop] = x] /\ Loop \in Tasks
      BY <1>1, <2>1, <3>1 DEF Tasks
    <3> QED
      BY <1>2, <3>2, <3>3, KeptOK, OneTask DEF Authority
  <2>2. CASE ~i.row.addr[i.side]
    BY <1>1, <1>2, <2>2, SameTasks DEF Authority
  <2> QED
    BY <2>1, <2>2
<1> QED
  BY <1>1, <1>2, <1>3, Aside

\* A stalled payout is retried only where there is an address.
LEMMA ProcessStalledAuthority ==
  ASSUME TypeOK, Authority, ProcessStalled
  PROVE  Authority'
<1>1. PICK i \in queue : SkipStalled(i) \/ ParkStalled(i) \/ RetryStalled(i)
  BY DEF ProcessStalled
<1>2. /\ queue' \subseteq queue /\ phase = "stalled"
      /\ UNCHANGED <<terms, consent, addr, agentVars, phase>>
  BY <1>1 DEF SkipStalled, ParkStalled, RetryStalled, NextStalled, dbVars
<1>3. TaskInv'
  <2>1. CASE RetryStalled(i)
    <3>1. PICK x : x = Enter(i.deal, i.side, "retry", Row(i.deal), FALSE)
      OBVIOUS
    <3>2. Row(i.deal).addr[i.side] /\ "retry" \in Callers \ {"user"}
      BY <1>2 DEF Authority, QueueInv, Row, Callers
    <3>3. TaskOK(x)
      BY <3>1, <3>2, ServiceEnterOK
    <3>4. task' = [task EXCEPT ![Loop] = x] /\ Loop \in Tasks
      BY <2>1, <3>1 DEF RetryStalled, Tasks
    <3> QED
      BY <1>2, <3>3, <3>4, KeptOK, OneTask DEF Authority
  <2>2. CASE SkipStalled(i) \/ ParkStalled(i)
    <3>1. task' = task
      BY <2>2 DEF SkipStalled, ParkStalled
    <3> QED
      BY <1>2, <3>1, SameTasks DEF Authority
  <2> QED
    BY <1>1, <2>1, <2>2
<1> QED
  BY <1>2, <1>3, Aside

LEMMA ScanStalledAuthority ==
  ASSUME TypeOK, Authority, ScanStalled
  PROVE  Authority'
<1>1. UNCHANGED <<terms, consent, addr, agentVars, task>>
  BY DEF ScanStalled, dbVars
<1>2. TaskInv'
  BY <1>1, SameTasks DEF Authority
<1>3. QueueInv'
  BY <1>1 DEF ScanStalled, QueueInv, Retriable
<1>4. AddrInv' /\ LateInv'
  BY <1>1 DEF Authority, AddrInv, LateInv, OpOK, agentVars
<1> QED
  BY <1>2, <1>3, <1>4 DEF Authority

\* The steps that start no task and end none.
LEMMA IdleAuthority ==
  ASSUME TypeOK, Authority,
         \/ \E d \in Deals : Ship(d) \/ Tick(d)
         \/ ScanExpired \/ EndPass \/ Halt \/ Resume
         \/ UNCHANGED vars
  PROVE  Authority'
<1>1. /\ UNCHANGED <<terms, consent, addr, agentVars, task>>
      /\ UNCHANGED <<queue, phase>> \/ phase' # "stalled"
  BY DEF Ship, SetShipped, Tick, ScanExpired, EndPass, Halt, Resume, vars, dbVars, loopVars,
     agentVars
<1>2. TaskInv'
  BY <1>1, SameTasks DEF Authority
<1>3. AddrInv' /\ LateInv' /\ QueueInv'
  BY <1>1 DEF Authority, AddrInv, LateInv, QueueInv, OpOK, agentVars
<1> QED
  BY <1>2, <1>3 DEF Authority

-----------------------------------------------------------------------------
(***************************************************************************)
(* Tasks that are dropped                                                  *)
(***************************************************************************)

\* What they leave behind was asked for by tasks in order.
LEMMA AbandonOK ==
  ASSUME TypeOK, Authority, NEW T \in SUBSET Tasks, Abandon(T), terms' = terms,
         consent' = consent
  PROVE  LateInv'
<1> DEFINE sent == {t \in T : task[t].pc \in {"call", "direct"} /\ escrow[task[t].deal] = "funded"}
<1>1. PICK S \in SUBSET sent : late' = late \cup {<<task[t].deal, Request(task[t])>> : t \in S}
  BY DEF Abandon
<1>2. ASSUME NEW t \in sent
      PROVE  OpOK(task[t].deal, Request(task[t]))
  BY RunningTask, RequestOK DEF Idle, Authority, TaskInv
<1>3. \A m \in late' : OpOK(m[1], m[2])
  BY <1>1, <1>2 DEF Authority, LateInv
<1> QED
  BY <1>3 DEF LateInv, OpOK

LEMMA CancelAuthority ==
  ASSUME TypeOK, Authority, CancelLoop
  PROVE  Authority'
<1>1. UNCHANGED <<terms, consent, addr, phase>> /\ queue' \subseteq queue
  BY DEF CancelLoop, dbVars
<1>2. LateInv'
  BY <1>1, AbandonOK DEF CancelLoop, Tasks
<1>3. task' = [task EXCEPT ![Loop] = NoTask] /\ Loop \in Tasks /\ ~Idle(Loop)
  BY DEF CancelLoop, Tasks
<1>4. TaskInv'
  BY <1>1, <1>3, EndOK
<1>5. AddrInv' /\ QueueInv'
  BY <1>1 DEF Authority, AddrInv, QueueInv
<1> QED
  BY <1>2, <1>4, <1>5 DEF Authority

LEMMA CrashAuthority ==
  ASSUME TypeOK, Authority, Crash
  PROVE  Authority'
<1>1. UNCHANGED <<terms, consent, addr>> /\ queue' = {}
  BY DEF Crash, dbVars
<1>2. LateInv'
  BY <1>1, AbandonOK DEF Crash
<1>3. TaskInv'
  BY DEF Crash, TaskInv, TaskOK, TaskAddrs, TaskConsent, TaskSigned, NoTask
<1>4. AddrInv' /\ QueueInv'
  BY <1>1 DEF Authority, AddrInv, QueueInv
<1> QED
  BY <1>2, <1>3, <1>4 DEF Authority

-----------------------------------------------------------------------------
(***************************************************************************)
(* The escrow                                                              *)
(***************************************************************************)

\* Nobody's authorisation is taken back.
LEMMA AuthorityGrows ==
  ASSUME [Next]_vars
  PROVE  terms' = terms /\ consent \subseteq consent'
<1>1. CASE Users
  <2>1. PICK t \in Workers, d \in Deals :
          \/ \E code \in {"right", "wrong"}, signed \in BOOLEAN : ReleaseRequest(t, d, code, signed)
          \/ RefundRequest(t, d)
          \/ \E s \in Sides : SubmitRequest(t, d, s) \/ AdminResolve(t, d, s)
    BY <1>1 DEF Users
  <2>2. ASSUME NEW code, NEW signed, ReleaseRequest(t, d, code, signed)
        PROVE  terms' = terms /\ consent \subseteq consent'
    BY <2>2 DEF ReleaseRequest
  <2>3. CASE RefundRequest(t, d)
    BY <2>3 DEF RefundRequest, dbVars
  <2>4. ASSUME NEW s, SubmitRequest(t, d, s) \/ AdminResolve(t, d, s)
        PROVE  terms' = terms /\ consent \subseteq consent'
    BY <2>4 DEF SubmitRequest, AdminResolve, dbVars
  <2> QED
    BY <2>1, <2>2, <2>3, <2>4
<1>2. ASSUME NEW t \in Tasks, Advance(t) \/ Agent(t)
      PROVE  UNCHANGED <<terms, consent>>
  <2>1. CASE Start(t) \/ ValidateFails(t) \/ Validated(t) \/ ResolveFails(t) \/ Begin(t)
    BY <2>1 DEF Start, ValidateFails, Validated, ResolveFails, Begin, dbVars
  <2>2. CASE Succeed(t) \/ RecordDirect(t)
    BY <2>2 DEF Succeed, RecordDirect
  <2>3. CASE Fail(t) \/ FailRetry(t) \/ FailTimeout(t)
    BY <2>3 DEF Fail, FailRetry, FailTimeout
  <2>4. CASE AgentAnswers(t) \/ AgentFails(t)
    BY <2>4 DEF AgentAnswers, AgentFails, dbVars
  <2> QED
    BY <1>2, <2>1, <2>2, <2>3, <2>4 DEF Advance, Agent
<1>3. CASE LoopStep
  BY <1>3 DEF LoopStep, ScanExpired, ProcessExpired, ScanStalled, ProcessStalled,
     SkipStalled, ParkStalled, RetryStalled, EndPass, dbVars
<1>4. CASE \/ \E d \in Deals : Ship(d) \/ Tick(d)
           \/ LateDelivery \/ CancelLoop \/ Halt \/ Resume \/ Crash \/ UNCHANGED vars
  BY <1>4 DEF Ship, SetShipped, Tick, LateDelivery, CancelLoop, Halt, Resume, Crash, vars, dbVars
<1> QED
  BY <1>1, <1>2, <1>3, <1>4 DEF Next

\* A step on the escrow of d: a funded one is settled, as somebody has authorised.
Granted(d) == escrow[d] = "funded" /\ OpOK(d, escrow'[d])

LEMMA Settling ==
  ASSUME TypeOK, NEW d \in Deals, NEW op, OpOK(d, op), Settles(d, op), NEW e \in Deals
  PROVE  escrow'[e] = escrow[e] \/ Granted(e)
BY DEF Settles, Granted, OpOK, TypeOK

\* Whoever moves an escrow has had it authorised.
LEMMA EscrowGranted ==
  ASSUME TypeOK, Authority, [Next]_vars, NEW d \in Deals
  PROVE  escrow'[d] = escrow[d] \/ Granted(d)
<1>1. CASE Users
  BY <1>1, UsersKeep
<1>2. ASSUME NEW t \in Tasks, Advance(t)
      PROVE  escrow' = escrow
  BY <1>2 DEF Advance, Start, ValidateFails, Validated, ResolveFails, Begin,
     Succeed, RecordDirect, Fail, FailRetry, FailTimeout, AtomicTransition, agentVars
<1>3. ASSUME NEW t \in Tasks, Agent(t)
      PROVE  escrow'[d] = escrow[d] \/ Granted(d)
  <2>1. task[t] \in TaskRecords /\ TaskOK(task[t]) /\ task[t].pc \in {"call", "direct"}
    BY <1>3, RunningTask DEF Authority, TaskInv, Agent, AgentAnswers, AgentFails, Idle
  <2>2. PICK e \in Deals, op \in EscrowStates : e = task[t].deal /\ op = Request(task[t])
    BY <2>1, RequestType DEF TaskRecords
  <2>3. OpOK(e, op)
    BY <2>1, <2>2, RequestOK
  <2>4. escrow' = escrow \/ Settles(e, op)
    BY <1>3, <2>2 DEF Agent, AgentAnswers, AgentFails, agentVars
  <2> QED
    BY <2>3, <2>4, Settling
<1>4. CASE LateDelivery
  <2>1. PICK m \in late : escrow' = IF escrow[m[1]] = "funded"
                                    THEN [escrow EXCEPT ![m[1]] = m[2]] ELSE escrow
    BY <1>4 DEF LateDelivery
  <2>2. m[1] \in Deals /\ OpOK(m[1], m[2])
    BY DEF TypeOK, Authority, LateInv
  <2>3. escrow' = escrow \/ Settles(m[1], m[2])
    BY <2>1 DEF Settles
  <2> QED
    BY <2>2, <2>3, Settling
<1>5. CASE LoopStep
  BY <1>5 DEF LoopStep, ScanExpired, ProcessExpired, ScanStalled, ProcessStalled,
     SkipStalled, ParkStalled, RetryStalled, EndPass, agentVars
<1>6. CASE \/ \E e \in Deals : Ship(e) \/ Tick(e)
           \/ CancelLoop \/ Halt \/ Resume \/ Crash \/ UNCHANGED vars
  BY <1>6 DEF Ship, SetShipped, Tick, CancelLoop, Halt, Resume, Crash, Abandon, vars, agentVars
<1> QED
  BY <1>1, <1>2, <1>3, <1>4, <1>5, <1>6 DEF Next

LEMMA EscrowStep ==
  ASSUME TypeOK, Authority, EscrowInv, [Next]_vars
  PROVE  EscrowInv'
<1>1. \A d \in Deals : OpOK(d, escrow'[d])
  BY EscrowGranted DEF EscrowInv, Granted
<1> QED
  BY <1>1, AuthorityGrows DEF EscrowInv, OpOK

-----------------------------------------------------------------------------
(***************************************************************************)
(* The theorems                                                            *)
(***************************************************************************)

LEMMA AuthorityInit == Init => Authority /\ EscrowInv
BY DEF Init, Authority, AddrInv, TaskInv, TaskOK, TaskAddrs, TaskConsent, TaskSigned, NoTask,
       QueueInv, LateInv, EscrowInv, OpOK

LEMMA AuthorityStep ==
  ASSUME TypeOK, Authority, [Next]_vars
  PROVE  Authority'
<1>1. CASE Users
  BY <1>1, ReleaseAuthority, RefundAuthority, SubmitAuthority, AdminAuthority DEF Users
<1>2. CASE \E t \in Tasks : Advance(t) \/ Agent(t)
  BY <1>2, StartAuthority, BeginAuthority, EndAuthority, ValidatedAuthority, AgentAuthority
  DEF Advance
<1>3. CASE LateDelivery
  BY <1>3, LateAuthority
<1>4. CASE LoopStep
  BY <1>4, ProcessExpiredAuthority, ProcessStalledAuthority, ScanStalledAuthority,
     IdleAuthority
  DEF LoopStep
<1>5. CASE CancelLoop
  BY <1>5, CancelAuthority
<1>6. CASE Crash
  BY <1>6, CrashAuthority
<1>7. CASE (\E d \in Deals : Ship(d) \/ Tick(d)) \/ Halt \/ Resume \/ UNCHANGED vars
  BY <1>7, IdleAuthority
<1> QED
  BY <1>1, <1>2, <1>3, <1>4, <1>5, <1>6, <1>7 DEF Next

(* Authorisation is never lost between the handler that was given it and    *)
(* the request the agent acts on, however long a task sleeps in between and *)
(* however late the request arrives.                                        *)
THEOREM AuthorityHolds == Spec => [](Authority /\ EscrowInv)
<1>1. Init => Authority /\ EscrowInv
  BY AuthorityInit
<1>2. TypeOK /\ Authority /\ EscrowInv /\ [Next]_vars => (Authority /\ EscrowInv)'
  BY AuthorityStep, EscrowStep
<1> QED
  BY <1>1, <1>2, TypeCorrect, PTL DEF Spec

(* The seller gets the escrow only if the buyer has revealed the secret     *)
(* code: no timeout, retry, admin or refund path of the code pays it out.   *)
THEOREM SellerNeedsBuyer == Spec => []ReleaseNeedsBuyer
<1>1. EscrowInv => ReleaseNeedsBuyer
  BY DEF EscrowInv, OpOK, ReleaseNeedsBuyer
<1> QED
  BY <1>1, AuthorityHolds, PTL

(* The service never moves the escrow of a deal with both addresses back to *)
(* the buyer without the timeout signature on file.                         *)
THEOREM BuyerNeedsSignature == Spec => []RefundNeedsSignature
<1>1. EscrowInv => RefundNeedsSignature
  BY AddressedAssumption DEF EscrowInv, OpOK, RefundNeedsSignature
<1> QED
  BY <1>1, AuthorityHolds, PTL

=============================================================================
