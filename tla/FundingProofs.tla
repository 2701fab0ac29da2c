---------------------------- MODULE FundingProofs ----------------------------
(***************************************************************************)
(* The safety properties of Funding hold for any handlers, keys, wallets   *)
(* and escrows.  The invariant IInv follows what a handler may rely on     *)
(* after an await although others ran meanwhile, which may have removed    *)
(* the keys of the deal: the keys it read are a key of each party, an      *)
(* escrow id is replaced but never removed, and while a handler holds the  *)
(* deal's lock nobody else sets buyer_escrow_pubkey.                       *)
(***************************************************************************)
EXTENDS Funding, Integers, TLAPS

\* A handler that has begun to create an escrow has read a key of each party;
\* one that has begun to fund the deal finds the escrow on file still.
Captured ==
  \A w \in Workers :
    /\ task[w].pc \in {"lookup", "create", "invoice"} => task[w].keys \in Complete
    /\ At(w, "fund") => escrowId # None

\* The handler that creates an invoice holds the lock, and the key it will
\* store is the one stored already, if any.
LockHeld ==
  \A w \in Workers :
    At(w, "invoice") => Holds(w) /\ fundKey \in {None, task[w].keys["buyer"]}

\* A role a wallet has signed in for has its user id set, so that the next
\* sign-in is compared with it.
Owned == \A r \in Roles : wallet[r] # None => r \in ids

IInv == TypeOK /\ HandedOver /\ Captured /\ LockHeld /\ Owned

-----------------------------------------------------------------------------
\* None is not a value: what a row names is not NULL.
LEMMA Named ==
  /\ \A r \in Roles : \A k \in Keys[r] : k # None
  /\ \A e \in Escrows : e # None
BY NoneAssumption

\* Replacing the key or the wallet of one role.
LEMMA Replace ==
  /\ \A f \in OnFile(Keys), r \in Roles : \A k \in Keys[r] \cup {None} :
       [f EXCEPT ![r] = k] \in OnFile(Keys)
  /\ \A f \in OnFile(Wallets), r \in Roles : \A l \in Wallets[r] :
       [f EXCEPT ![r] = l] \in OnFile(Wallets)
BY DEF OnFile

\* A handler that moves on stays a handler; the others stay where they are.
LEMMA Moves ==
  ASSUME NEW w \in Workers, NEW t \in TaskRecords,
         task \in [Workers -> TaskRecords], Goto(w, t)
  PROVE  /\ task' \in [Workers -> TaskRecords]
         /\ task'[w] = t
         /\ \A v \in Workers \ {w} : task'[v] = task[v]
BY DEF Goto

\* The points of a handler are told apart by pc.
LEMMA Points ==
  ASSUME NEW t \in TaskRecords
  PROVE  /\ t.pc = "validate" => t.role \in Roles
         /\ t.pc = "wait" => t.key \in Keys["buyer"]
         /\ t.pc \in {"lookup", "create", "invoice"} => t.keys \in OnFile(Keys)
         /\ t.pc \in {"lookup", "create"} => t.fresh \in BOOLEAN
BY DEF TaskRecords, Idle

\* The lock passes on: when its holder leaves, nobody else was the holder.
LEMMA Unlocking ==
  ASSUME NEW w \in Workers, queue \in Seq(Workers), Holds(w), Unlock
  PROVE  queue' \in Seq(Workers)
BY DEF Holds, Unlock

LEMMA Waiting ==
  ASSUME NEW w \in Workers, queue \in Seq(Workers), queue' = Append(queue, w)
  PROVE  /\ queue' \in Seq(Workers)
         /\ \A v \in Workers : Holds(v) => Holds(v)'
BY DEF Holds

THEOREM InitIInv == Init => IInv
<1> SUFFICES ASSUME Init PROVE IInv
  OBVIOUS
<1>1. TypeOK
  <2>1. wallet \in OnFile(Wallets)
    BY DEF Init, OnFile
  <2>2. task \in [Workers -> TaskRecords]
    BY DEF Init, TaskRecords, Idle
  <2>3. creator \in Roles /\ queue \in Seq(Workers)
    BY TermsAssumption DEF Init
  <2> QED
    BY <2>1, <2>2, <2>3 DEF Init, TypeOK, Statuses
<1>2. HandedOver
  BY DEF Init, HandedOver
<1>3. Captured
  BY DEF Init, Captured, At, Idle
<1>4. LockHeld
  BY DEF Init, LockHeld, At, Idle
<1>5. Owned
  BY DEF Init, Owned
<1> QED
  BY <1>1, <1>2, <1>3, <1>4, <1>5 DEF IInv

-----------------------------------------------------------------------------
\* Steps of IInv.  Most handlers only move on, and leave the deal alone: what
\* the new point relies upon must hold, and no other holder lose the lock.
LEMMA MovesOn ==
  ASSUME IInv, NEW w \in Workers, NEW t \in TaskRecords, Goto(w, t),
         UNCHANGED <<row, agent, paid>>,
         queue' \in Seq(Workers),
         \A v \in Workers \ {w} : At(v, "invoice") => Holds(v)',
         t.pc \in {"lookup", "create", "invoice"} => t.keys \in Complete,
         t.pc = "fund" => escrowId # None,
         t.pc = "invoice" => Holds(w)' /\ fundKey \in {None, t.keys["buyer"]}
  PROVE  IInv'
<1>1. /\ task' \in [Workers -> TaskRecords]
      /\ task'[w] = t
      /\ \A v \in Workers \ {w} : task'[v] = task[v]
  BY Moves DEF IInv, TypeOK
<1>2. TypeOK'
  BY <1>1 DEF IInv, TypeOK, row
<1>3. HandedOver'
  BY DEF IInv, HandedOver, row
<1>4. Captured'
  BY <1>1 DEF IInv, Captured, row, At
<1>5. LockHeld'
  BY <1>1 DEF IInv, LockHeld, row, At
<1>6. Owned'
  BY DEF IInv, Owned, row
<1> QED
  BY <1>2, <1>3, <1>4, <1>5, <1>6 DEF IInv

\* A request answered at once changes the row: no escrow id goes away, and
\* nobody's lock is touched.
LEMMA RowChanges ==
  ASSUME IInv, TypeOK', HandedOver', Owned', UNCHANGED <<task, queue, fundKey>>,
         escrowId # None => escrowId' # None
  PROVE  IInv'
<1>1. Captured'
  BY DEF IInv, Captured, At
<1>2. LockHeld'
  BY DEF IInv, LockHeld, At, Holds
<1> QED
  BY <1>1, <1>2 DEF IInv

THEOREM NextIInv == IInv /\ [Next]_vars => IInv'
<1> SUFFICES ASSUME IInv, [Next]_vars PROVE IInv'
  OBVIOUS
<1> USE DEF IInv
<1>1. CASE UNCHANGED vars
  BY <1>1, RowChanges DEF vars, row, TypeOK, HandedOver, Owned
<1>2. CASE Join
  <2>1. TypeOK' /\ HandedOver' /\ Owned'
    BY <1>2 DEF Join, SetJoined, TypeOK, Statuses, HandedOver, Owned
  <2> QED
    BY <1>2, <2>1, RowChanges DEF Join, SetJoined
<1>3. CASE Cancel
  <2>1. TypeOK' /\ HandedOver' /\ Owned'
    BY <1>3 DEF Cancel, CanSign, TypeOK, Statuses, HandedOver, Owned
  <2> QED
    BY <1>3, <2>1, RowChanges DEF Cancel, CanSign
<1>4. CASE Pay
  <2>1. TypeOK' /\ HandedOver' /\ Owned'
    BY <1>4 DEF Pay, row, TypeOK, HandedOver, Owned
  <2> QED
    BY <1>4, <2>1, RowChanges DEF Pay, row
<1>5. ASSUME NEW r \in Roles, NEW k \in Keys[r] \cup {None}, SetPubkey(r, k)
      PROVE  IInv'
  <2>1. key' \in OnFile(Keys)
    BY <1>5, Replace DEF SetPubkey, TypeOK
  <2>2. TypeOK' /\ HandedOver' /\ Owned'
    BY <1>5, <2>1 DEF SetPubkey, TypeOK, HandedOver, Owned
  <2> QED
    BY <1>5, <2>2, RowChanges DEF SetPubkey
<1>6. ASSUME NEW r \in Roles, NEW k \in Keys[r], NEW l \in Wallets[r],
             NEW signed \in BOOLEAN, Register(r, l, k, signed)
      PROVE  IInv'
  <2>1. key' \in OnFile(Keys) /\ wallet' \in OnFile(Wallets)
    BY <1>6, Replace DEF Register, TypeOK
  <2>2. /\ status' \in Statuses
        /\ status' \in {"funded", "expired"} => status \in {"funded", "expired"}
    BY <1>6 DEF Register, TypeOK, Statuses
  <2>3. sig' \in BOOLEAN /\ ids' \subseteq Roles
    BY <1>6 DEF Register, TypeOK
  <2>4. TypeOK' /\ HandedOver'
    BY <1>6, <2>1, <2>2, <2>3 DEF Register, TypeOK, HandedOver
  <2>5. Owned'
    BY <1>6 DEF Register, TypeOK, OnFile, Owned
  <2> QED
    BY <1>6, <2>4, <2>5, RowChanges DEF Register
<1>19. ASSUME NEW r \in Roles, NEW l \in Wallets[r], RegisterRefused(r, l)
       PROVE  IInv'
  <2>1. TypeOK' /\ HandedOver' /\ Owned'
    BY <1>19 DEF RegisterRefused, TypeOK, HandedOver, Owned
  <2> QED
    BY <1>19, <2>1, RowChanges DEF RegisterRefused
<1>20. CASE Expire
  <2>1. TypeOK' /\ HandedOver' /\ Owned'
    BY <1>20 DEF Expire, TypeOK, Statuses, HandedOver, Owned
  <2> QED
    BY <1>20, <2>1, RowChanges DEF Expire
<1>7. ASSUME NEW w \in Workers, NEW r \in Roles, Submit(w, r)
      PROVE  IInv'
  <2>1. [pc |-> "validate", role |-> r] \in TaskRecords
    BY DEF TaskRecords
  <2> QED
    BY <1>7, <2>1, MovesOn DEF Submit, MaySubmit, CanSign, TypeOK, LockHeld, Holds
<1>8. ASSUME NEW w \in Workers, AddressValid(w) PROVE IInv'
  <2>1. task[w].role \in Roles
    BY <1>8, Points DEF AddressValid, At, TypeOK
  <2>2. Idle \in TaskRecords
    BY DEF TaskRecords
  <2>3. /\ task' \in [Workers -> TaskRecords]
        /\ task'[w] = Idle
        /\ \A v \in Workers \ {w} : task'[v] = task[v]
    BY <1>8, <2>2, Moves DEF AddressValid, Done, TypeOK
  <2>4. TypeOK' /\ HandedOver'
    BY <1>8, <2>1, <2>3 DEF AddressValid, TypeOK, HandedOver
  <2>5. Captured'
    BY <1>8, <2>3 DEF AddressValid, Captured, At, Idle
  <2>6. LockHeld'
    BY <1>8, <2>3 DEF AddressValid, LockHeld, At, Idle, Holds
  <2>7. Owned'
    BY <1>8 DEF AddressValid, Owned
  <2> QED
    BY <2>4, <2>5, <2>6, <2>7
<1>9. ASSUME NEW w \in Workers,
             \/ AddressInvalid(w) \/ EscrowFound(w) \/ CreateFails(w)
      PROVE  IInv'
  <2>1. /\ Goto(w, Idle) /\ Idle \in TaskRecords /\ Idle.pc = "idle"
        /\ UNCHANGED <<row, agent, paid, queue>>
    BY <1>9 DEF AddressInvalid, EscrowFound, CreateFails, Done, TaskRecords, Idle
  <2> QED
    BY <2>1, MovesOn DEF TypeOK, LockHeld, Holds
<1>10. ASSUME NEW w \in Workers, CreateEscrow(w) PROVE IInv'
  <2> DEFINE t == [pc |-> IF escrowId = None THEN "create" ELSE "lookup",
                   keys |-> key, fresh |-> status = "pending"]
  <2>1. t \in TaskRecords /\ t.pc \in {"create", "lookup"}
    BY DEF TaskRecords, TypeOK
  <2>2. Goto(w, t) /\ UNCHANGED <<row, agent, paid, queue>>
    BY <1>10 DEF CreateEscrow
  <2>3. t.keys \in Complete
    BY <1>10 DEF CreateEscrow, BothKeys, Complete, TypeOK
  <2> HIDE DEF t
  <2> QED
    BY <2>1, <2>2, <2>3, MovesOn DEF TypeOK, LockHeld, Holds
<1>11. ASSUME NEW w \in Workers, EscrowNotFound(w) PROVE IInv'
  <2> DEFINE t == [task[w] EXCEPT !.pc = "create"]
  <2>1. t \in TaskRecords /\ t.pc = "create" /\ t.keys = task[w].keys
    BY <1>11 DEF EscrowNotFound, At, TypeOK, TaskRecords, Idle
  <2>2. task[w].keys \in Complete
    BY <1>11 DEF EscrowNotFound, At, Captured
  <2>3. Goto(w, t) /\ UNCHANGED <<row, agent, paid, queue>>
    BY <1>11 DEF EscrowNotFound
  <2> HIDE DEF t
  <2> QED
    BY <2>1, <2>2, <2>3, MovesOn DEF TypeOK, LockHeld, Holds
<1>12. ASSUME NEW w \in Workers, NEW e \in Escrows, EscrowCreated(w, e)
       PROVE  IInv'
  <2>1. task[w].keys \in Complete /\ task[w].fresh \in BOOLEAN
    BY <1>12, Points DEF EscrowCreated, At, TypeOK, Captured
  <2>2. Idle \in TaskRecords
    BY DEF TaskRecords
  <2>3. /\ task' \in [Workers -> TaskRecords]
        /\ task'[w] = Idle
        /\ \A v \in Workers \ {w} : task'[v] = task[v]
    BY <1>12, <2>2, Moves DEF EscrowCreated, Done, TypeOK
  <2>4. status' \in Statuses /\ (status' # status => status' = "active")
    BY <1>12 DEF EscrowCreated, TypeOK, Statuses
  <2>5. agent' \in [Escrows -> OnFile(Keys) \cup {None}] /\ agent'[e] \in Complete
    BY <1>12, <2>1 DEF EscrowCreated, AgentCreates, TypeOK, Complete
  <2>6. escrowId' = e /\ e # None
    BY <1>12, Named DEF EscrowCreated
  <2>7. TypeOK'
    BY <1>12, <2>3, <2>4, <2>5, <2>6 DEF EscrowCreated, TypeOK
  <2>8. HandedOver'
    BY <1>12, <2>4, <2>5, <2>6 DEF HandedOver
  <2>9. Captured'
    BY <1>12, <2>3, <2>6 DEF Captured, At, Idle
  <2>10. LockHeld'
    BY <1>12, <2>3 DEF EscrowCreated, LockHeld, At, Idle, Holds
  <2>11. Owned'
    BY <1>12 DEF EscrowCreated, Owned
  <2> QED
    BY <2>7, <2>8, <2>9, <2>10, <2>11
<1>13. ASSUME NEW w \in Workers, NEW k \in Keys["buyer"], InvoiceRequest(w, k)
       PROVE  IInv'
  <2> DEFINE t == [pc |-> "wait", key |-> k]
  <2>1. t \in TaskRecords /\ t.pc = "wait"
    BY DEF TaskRecords
  <2>2. Goto(w, t) /\ queue' = Append(queue, w) /\ UNCHANGED <<row, agent, paid>>
    BY <1>13 DEF InvoiceRequest
  <2>3. /\ queue' \in Seq(Workers)
        /\ \A v \in Workers : Holds(v) => Holds(v)'
    BY <2>2, Waiting DEF TypeOK
  <2> HIDE DEF t
  <2> QED
    BY <2>1, <2>2, <2>3, MovesOn DEF LockHeld
<1>14. ASSUME NEW w \in Workers, InvoiceRefused(w) \/ InvoiceFails(w) PROVE IInv'
  <2>1. /\ Goto(w, Idle) /\ Idle \in TaskRecords /\ Idle.pc = "idle"
        /\ UNCHANGED <<row, agent, paid>>
    BY <1>14 DEF InvoiceRefused, InvoiceFails, Done, TaskRecords, Idle
  <2>2. Holds(w) /\ Unlock
    BY <1>14 DEF InvoiceRefused, InvoiceFails, LockHeld
  <2>3. queue' \in Seq(Workers)
    BY <2>2, Unlocking DEF TypeOK
  <2>4. \A v \in Workers \ {w} : ~At(v, "invoice")
    BY <2>2 DEF LockHeld, Holds
  <2> QED
    BY <2>1, <2>3, <2>4, MovesOn
<1>15. ASSUME NEW w \in Workers, InvoiceStart(w) PROVE IInv'
  <2> DEFINE f == [key EXCEPT !["buyer"] = task[w].key]
             t == [pc |-> "invoice", keys |-> f]
  <2>1. task[w].key \in Keys["buyer"]
    BY <1>15, Points DEF InvoiceStart, At, TypeOK
  <2>2. f \in OnFile(Keys) /\ f["buyer"] = task[w].key /\ f["seller"] = key["seller"]
    BY <2>1, Replace DEF TypeOK, OnFile, Roles
  <2>3. InvoiceAllowed(task[w].key) /\ Holds(w)
    BY <1>15 DEF InvoiceStart
  <2>4. key["seller"] # None /\ fundKey \in {None, task[w].key}
    BY <2>3 DEF InvoiceAllowed, RegisteredKey
  <2>5. f \in Complete
    BY <2>1, <2>2, <2>4, Named DEF Complete, Roles
  <2>6. Goto(w, t) /\ UNCHANGED <<row, agent, paid, queue>>
    BY <1>15 DEF InvoiceStart
  <2> HIDE DEF f
  <2>7. t \in TaskRecords /\ t.pc = "invoice" /\ t.keys = f
    BY <2>2 DEF TaskRecords
  <2> HIDE DEF t
  <2> QED
    BY <2>2, <2>3, <2>4, <2>5, <2>6, <2>7, MovesOn DEF TypeOK, LockHeld, Holds
<1>16. ASSUME NEW w \in Workers, NEW e \in Escrows, InvoiceCreated(w, e)
       PROVE  IInv'
  <2>1. task[w].keys \in Complete /\ Holds(w)
    BY <1>16 DEF InvoiceCreated, At, Captured, LockHeld
  <2>2. task[w].keys["buyer"] \in Keys["buyer"]
    BY <2>1 DEF Complete, OnFile, Roles
  <2>3. Idle \in TaskRecords
    BY DEF TaskRecords
  <2>4. /\ task' \in [Workers -> TaskRecords]
        /\ task'[w] = Idle
        /\ \A v \in Workers \ {w} : task'[v] = task[v]
    BY <1>16, <2>3, Moves DEF InvoiceCreated, Done, TypeOK
  <2>5. agent' \in [Escrows -> OnFile(Keys) \cup {None}] /\ agent'[e] \in Complete
    BY <1>16, <2>1 DEF InvoiceCreated, AgentCreates, TypeOK, Complete
  <2>6. queue' \in Seq(Workers) /\ escrowId' = e /\ e # None
    BY <1>16, <2>1, Unlocking, Named DEF InvoiceCreated, TypeOK
  <2>7. sig' \in BOOLEAN /\ fundKey' \in Keys["buyer"]
    BY <1>16, <2>2 DEF InvoiceCreated, TypeOK
  <2>8. TypeOK'
    BY <1>16, <2>4, <2>5, <2>6, <2>7 DEF InvoiceCreated, TypeOK
  <2>9. HandedOver'
    BY <1>16, <2>5, <2>6 DEF HandedOver
  <2>10. Captured'
    BY <1>16, <2>4, <2>6 DEF Captured, At, Idle
  <2>11. \A v \in Workers \ {w} : ~At(v, "invoice")
    BY <2>1 DEF LockHeld, Holds
  <2>12. LockHeld'
    BY <2>4, <2>11 DEF LockHeld, At, Idle
  <2>13. Owned'
    BY <1>16 DEF InvoiceCreated, Owned
  <2> QED
    BY <2>8, <2>9, <2>10, <2>12, <2>13
<1>17. ASSUME NEW w \in Workers, ConfirmFunding(w) PROVE IInv'
  <2>1. [pc |-> "fund"] \in TaskRecords
    BY DEF TaskRecords
  <2> QED
    BY <1>17, <2>1, MovesOn DEF ConfirmFunding, TypeOK, LockHeld, Holds
<1>18. ASSUME NEW w \in Workers, Funded(w) PROVE IInv'
  <2>1. escrowId # None
    BY <1>18 DEF Funded, SetFunded, Captured
  <2>2. Idle \in TaskRecords
    BY DEF TaskRecords
  <2>3. /\ task' \in [Workers -> TaskRecords]
        /\ task'[w] = Idle
        /\ \A v \in Workers \ {w} : task'[v] = task[v]
    BY <1>18, <2>2, Moves DEF Funded, SetFunded, Done, TypeOK
  <2>4. status' \in Statuses /\ fundedAt' \in BOOLEAN
    BY <1>18 DEF Funded, SetFunded, TypeOK, Statuses
  <2>5. TypeOK' /\ HandedOver'
    BY <1>18, <2>1, <2>3, <2>4 DEF Funded, SetFunded, TypeOK, HandedOver
  <2>6. Captured'
    BY <1>18, <2>3 DEF Funded, SetFunded, Captured, At, Idle
  <2>7. LockHeld'
    BY <1>18, <2>3 DEF Funded, SetFunded, LockHeld, At, Idle, Holds
  <2>9. Owned'
    BY <1>18 DEF Funded, SetFunded, Owned
  <2> QED
    BY <2>9, <2>5, <2>6, <2>7
<1> QED
  BY <1>1, <1>2, <1>3, <1>4, <1>5, <1>6, <1>7, <1>8, <1>9, <1>10, <1>11, <1>12,
     <1>13, <1>14, <1>15, <1>16, <1>17, <1>18, <1>19, <1>20 DEF Next, Roles

-----------------------------------------------------------------------------
\* The invariant holds, and with it what it implies.

THEOREM Invariance == Spec => []IInv
BY InitIInv, NextIInv, PTL DEF Spec

\* Every variable keeps its type.
THEOREM FundingTypes == Spec => []TypeOK
<1>1. IInv => TypeOK
  BY DEF IInv
<1> QED
  BY Invariance, <1>1, PTL

\* The escrow a deal names is one the agent has created with a key of each party,
\* and what is funded names one, although keys are replaced and removed, and
\* escrows replaced, while handlers wait for the agent.
THEOREM FundedIsHandedOver == Spec => []HandedOver
<1>1. IInv => HandedOver
  BY DEF IInv
<1> QED
  BY Invariance, <1>1, PTL

\* The per-deal lock keeps invoice creations apart.
THEOREM InvoicesApart == Spec => []OneInvoiceAtATime
<1>1. IInv => OneInvoiceAtATime
  BY DEF IInv, LockHeld, Holds, OneInvoiceAtATime
<1> QED
  BY Invariance, <1>1, PTL

\* The key the buyer first funded with is never replaced: it is compared
\* under the lock and written under the same lock.
THEOREM FundKeyKept == Spec => FundKeyFixed
<1>1. IInv /\ [Next]_vars => [fundKey # None => fundKey' = fundKey]_vars
  <2> SUFFICES ASSUME IInv, Next, fundKey # None PROVE fundKey' = fundKey
    OBVIOUS
  <2>1. ASSUME NEW w \in Workers, NEW e \in Escrows, InvoiceCreated(w, e)
        PROVE  fundKey' = fundKey
    BY <2>1 DEF InvoiceCreated, AgentCreates, IInv, LockHeld
  <2> QED
    BY <2>1 DEF Next, Join, SetJoined, Cancel, Expire, Pay, SetPubkey, RegisterRefused, Register, Submit,
       AddressValid, AddressInvalid, CreateEscrow, EscrowFound, EscrowNotFound,
       EscrowCreated, AgentCreates, CreateFails, InvoiceRequest, InvoiceRefused, InvoiceStart,
       InvoiceFails, ConfirmFunding, Funded, SetFunded, row
<1> QED
  BY Invariance, <1>1, PTL DEF Spec, FundKeyFixed

\* A role stays with the wallet that signed in first until the deal is in one of
\* the statuses register_derived_key takes for finished, 'expired' among them.
THEOREM WalletKept == Spec => WalletBound
<1> DEFINE Kept == \A r \in Roles : wallet[r] # None /\ status \notin Terminal
                                      => wallet'[r] = wallet[r]
<1>1. IInv /\ [Next]_vars => [Kept]_vars
  <2> SUFFICES ASSUME IInv, Next PROVE Kept
    OBVIOUS
  <2>1. ASSUME NEW r \in Roles, NEW k \in Keys[r], NEW l \in Wallets[r],
               NEW signed \in BOOLEAN, Register(r, l, k, signed)
        PROVE  Kept
    BY <2>1 DEF Register, MayRegister, IInv, Owned, TypeOK, OnFile
  <2>2. wallet' = wallet => Kept
    OBVIOUS
  <2> HIDE DEF Kept
  <2> QED
    BY <2>1, <2>2 DEF Next, Join, SetJoined, Cancel, Expire, Pay, SetPubkey, RegisterRefused, Submit,
       AddressValid, AddressInvalid, CreateEscrow, EscrowFound, EscrowNotFound,
       EscrowCreated, AgentCreates, CreateFails, InvoiceRequest, InvoiceRefused, InvoiceStart,
       InvoiceCreated, AgentCreates, InvoiceFails, ConfirmFunding, Funded, SetFunded, row
<1> QED
  BY Invariance, <1>1, PTL DEF Spec, WalletBound

-----------------------------------------------------------------------------
\* The lock's queue against the handlers.

\* A handler that moves on, outside the lock or within it, keeps the lock as it is.
LEMMA QueueStays ==
  ASSUME TypeOK, NobodyLockedOut, NEW w \in Workers, NEW t \in TaskRecords, Goto(w, t),
         queue' = queue,
         task[w].pc \in {"wait", "invoice"} <=> t.pc \in {"wait", "invoice"}
  PROVE  NobodyLockedOut'
<1>1. /\ task'[w] = t
      /\ \A v \in Workers \ {w} : task'[v] = task[v]
  BY Moves DEF TypeOK
<1>2. \A i \in DOMAIN queue : queue[i] \in Workers
  BY DEF TypeOK
<1> QED
  BY <1>1, <1>2 DEF NobodyLockedOut, At

\* A request comes in and takes the last place.
LEMMA QueueGrows ==
  ASSUME TypeOK, NobodyLockedOut, NEW w \in Workers, NEW k \in Keys["buyer"],
         InvoiceRequest(w, k)
  PROVE  NobodyLockedOut'
<1> DEFINE t == [pc |-> "wait", key |-> k]
           n == Len(queue) + 1
<1>1. t \in TaskRecords /\ t.pc = "wait"
  BY DEF TaskRecords
<1>2. Goto(w, t) /\ queue' = Append(queue, w) /\ At(w, "idle")
  BY DEF InvoiceRequest
<1> HIDE DEF t
<1>3. /\ task'[w] = t
      /\ \A v \in Workers \ {w} : task'[v] = task[v]
  BY <1>1, <1>2, Moves DEF TypeOK
<1>4. /\ DOMAIN queue = 1 .. Len(queue) /\ Len(queue) \in Nat
      /\ \A i \in DOMAIN queue : queue[i] \in Workers /\ queue[i] # w
  <2>1. /\ DOMAIN queue = 1 .. Len(queue) /\ Len(queue) \in Nat
        /\ \A i \in DOMAIN queue : queue[i] \in Workers
    BY DEF TypeOK
  <2>2. task[w].pc \notin {"wait", "invoice"}
    BY <1>2 DEF At
  <2> QED
    BY <2>1, <2>2 DEF NobodyLockedOut
<1>5. /\ DOMAIN queue' = 1 .. n
      /\ queue'[n] = w
      /\ \A i \in DOMAIN queue : queue'[i] = queue[i]
  BY <1>2, <1>4 DEF TypeOK
<1>6. \A i \in DOMAIN queue' : i \in DOMAIN queue \/ i = n
  BY <1>4, <1>5
<1>7. n \in DOMAIN queue' /\ \A i \in DOMAIN queue : i \in DOMAIN queue'
  BY <1>4, <1>5
<1> HIDE DEF n
<1>8. \A i \in DOMAIN queue' : task'[queue'[i]].pc \in {"wait", "invoice"}
  BY <1>1, <1>3, <1>4, <1>5, <1>6 DEF NobodyLockedOut
<1>9. \A v \in Workers :
        task'[v].pc \in {"wait", "invoice"} => \E i \in DOMAIN queue' : queue'[i] = v
  BY <1>3, <1>5, <1>7 DEF NobodyLockedOut, At
<1>10. \A i, j \in DOMAIN queue' : queue'[i] = queue'[j] => i = j
  BY <1>4, <1>5, <1>6 DEF NobodyLockedOut
<1> QED
  BY <1>8, <1>9, <1>10 DEF NobodyLockedOut, At

\* The holder returns: the next in line is the holder.
LEMMA QueueShrinks ==
  ASSUME TypeOK, NobodyLockedOut, NEW w \in Workers, Holds(w), Unlock, Done(w)
  PROVE  NobodyLockedOut'
<1>1. /\ task'[w] = Idle /\ Idle.pc = "idle"
      /\ \A v \in Workers \ {w} : task'[v] = task[v]
  <2>1. Idle \in TaskRecords
    BY DEF TaskRecords
  <2> QED
    BY <2>1, Moves DEF TypeOK, Done, Idle
<1>2. /\ DOMAIN queue = 1 .. Len(queue) /\ Len(queue) \in Nat \ {0}
      /\ \A i \in DOMAIN queue : queue[i] \in Workers
      /\ queue[1] = w
  BY DEF TypeOK, Holds
<1>3. /\ DOMAIN queue' = 1 .. (Len(queue) - 1)
      /\ \A i \in DOMAIN queue' : queue'[i] = queue[i + 1]
  BY <1>2 DEF TypeOK, Unlock
<1>4. \A i \in DOMAIN queue' : i + 1 \in DOMAIN queue /\ i + 1 # 1
  BY <1>2, <1>3
<1>5. \A i \in DOMAIN queue : i # 1 => i - 1 \in DOMAIN queue' /\ (i - 1) + 1 = i
  BY <1>2, <1>3
<1>6. \A i \in DOMAIN queue' : queue'[i] \in Workers \ {w}
  BY <1>2, <1>3, <1>4 DEF NobodyLockedOut
<1>7. \A i \in DOMAIN queue' : task'[queue'[i]].pc \in {"wait", "invoice"}
  BY <1>1, <1>3, <1>4, <1>6 DEF NobodyLockedOut
<1>8. ASSUME NEW v \in Workers, task'[v].pc \in {"wait", "invoice"}
      PROVE  \E i \in DOMAIN queue' : queue'[i] = v
  <2>1. v # w /\ task[v].pc \in {"wait", "invoice"}
    BY <1>1, <1>8
  <2>2. PICK i \in DOMAIN queue : queue[i] = v
    BY <2>1 DEF NobodyLockedOut, At
  <2>3. i - 1 \in DOMAIN queue' /\ queue'[i - 1] = v
    BY <1>2, <1>3, <1>5, <2>1, <2>2
  <2> QED
    BY <2>3
<1>9. ASSUME NEW i \in DOMAIN queue', NEW j \in DOMAIN queue', queue'[i] = queue'[j]
      PROVE  i = j
  <2>1. i + 1 = j + 1
    BY <1>3, <1>4, <1>9 DEF NobodyLockedOut
  <2> QED
    BY <1>2, <1>3, <2>1
<1> QED
  BY <1>7, <1>8, <1>9 DEF NobodyLockedOut, At

\* Everything else moves a handler outside the lock, or nobody.
LEMMA QueueKept == IInv /\ NobodyLockedOut /\ [Next]_vars => NobodyLockedOut'
<1> SUFFICES ASSUME IInv, NobodyLockedOut, [Next]_vars PROVE NobodyLockedOut'
  OBVIOUS
<1>1. TypeOK
  BY DEF IInv
<1>2. CASE UNCHANGED <<task, queue>>
  BY <1>2 DEF NobodyLockedOut, At
<1>3. ASSUME NEW w \in Workers, NEW r \in Roles, Submit(w, r) PROVE NobodyLockedOut'
  <2>1. [pc |-> "validate", role |-> r] \in TaskRecords
    BY DEF TaskRecords
  <2> QED
    BY <1>1, <1>3, <2>1, QueueStays DEF Submit, At
<1>4. ASSUME NEW w \in Workers,
             \/ AddressValid(w) \/ AddressInvalid(w) \/ EscrowFound(w) \/ CreateFails(w)
             \/ Funded(w) \/ \E e \in Escrows : EscrowCreated(w, e)
      PROVE  NobodyLockedOut'
  <2>1. /\ Goto(w, Idle) /\ queue' = queue
        /\ task[w].pc \in {"validate", "lookup", "create", "fund"}
    BY <1>4 DEF AddressValid, AddressInvalid, EscrowFound, CreateFails, Funded,
       EscrowCreated, Done, At
  <2>2. Idle \in TaskRecords /\ Idle.pc = "idle"
    BY DEF TaskRecords, Idle
  <2> QED
    BY <1>1, <2>1, <2>2, QueueStays
<1>5. ASSUME NEW w \in Workers, CreateEscrow(w) PROVE NobodyLockedOut'
  <2> DEFINE t == [pc |-> IF escrowId = None THEN "create" ELSE "lookup",
                   keys |-> key, fresh |-> status = "pending"]
  <2>1. t \in TaskRecords /\ t.pc \in {"create", "lookup"}
    BY <1>1 DEF TaskRecords, TypeOK
  <2>2. Goto(w, t) /\ queue' = queue /\ task[w].pc = "idle"
    BY <1>5 DEF CreateEscrow, At
  <2> HIDE DEF t
  <2> QED
    BY <1>1, <2>1, <2>2, QueueStays
<1>6. ASSUME NEW w \in Workers, EscrowNotFound(w) PROVE NobodyLockedOut'
  <2> DEFINE t == [task[w] EXCEPT !.pc = "create"]
  <2>1. t \in TaskRecords /\ t.pc = "create" /\ task[w].pc = "lookup"
    BY <1>1, <1>6 DEF EscrowNotFound, At, TypeOK, TaskRecords, Idle
  <2>2. Goto(w, t) /\ queue' = queue
    BY <1>6 DEF EscrowNotFound
  <2> HIDE DEF t
  <2> QED
    BY <1>1, <2>1, <2>2, QueueStays
<1>7. ASSUME NEW w \in Workers, InvoiceStart(w) PROVE NobodyLockedOut'
  <2> DEFINE f == [key EXCEPT !["buyer"] = task[w].key]
             t == [pc |-> "invoice", keys |-> f]
  <2>1. task[w].key \in Keys["buyer"] /\ task[w].pc = "wait"
    BY <1>1, <1>7, Points DEF InvoiceStart, At, TypeOK
  <2>2. f \in OnFile(Keys)
    BY <1>1, <2>1, Replace DEF TypeOK, Roles
  <2>3. Goto(w, t) /\ queue' = queue
    BY <1>7 DEF InvoiceStart
  <2> HIDE DEF f
  <2>4. t \in TaskRecords /\ t.pc = "invoice"
    BY <2>2 DEF TaskRecords
  <2> HIDE DEF t
  <2> QED
    BY <1>1, <2>1, <2>3, <2>4, QueueStays
<1>8. ASSUME NEW w \in Workers, ConfirmFunding(w) PROVE NobodyLockedOut'
  <2>1. [pc |-> "fund"] \in TaskRecords
    BY DEF TaskRecords
  <2> QED
    BY <1>1, <1>8, <2>1, QueueStays DEF ConfirmFunding, At
<1>9. ASSUME NEW w \in Workers, NEW k \in Keys["buyer"], InvoiceRequest(w, k)
      PROVE  NobodyLockedOut'
  BY <1>1, <1>9, QueueGrows
<1>10. ASSUME NEW w \in Workers,
              \/ InvoiceRefused(w) \/ InvoiceFails(w)
              \/ \E e \in Escrows : InvoiceCreated(w, e)
       PROVE  NobodyLockedOut'
  <2>1. Holds(w) /\ Unlock /\ Done(w)
    BY <1>10 DEF InvoiceRefused, InvoiceFails, InvoiceCreated, IInv, LockHeld
  <2> QED
    BY <1>1, <2>1, QueueShrinks
<1>11. CASE Next
  <2>1. CASE Join \/ Cancel \/ Expire \/ Pay
    BY <1>2, <2>1 DEF Join, Cancel, Expire, Pay
  <2>2. ASSUME NEW r \in Roles,
               \/ \E k \in Keys[r] \cup {None} : SetPubkey(r, k)
               \/ \E l \in Wallets[r] :
                    \/ RegisterRefused(r, l)
                    \/ \E k \in Keys[r], signed \in BOOLEAN : Register(r, l, k, signed)
        PROVE  NobodyLockedOut'
    BY <1>2, <2>2 DEF SetPubkey, RegisterRefused, Register
  <2> QED
    BY <1>3, <1>4, <1>5, <1>6, <1>7, <1>8, <1>9, <1>10, <1>11, <2>1, <2>2 DEF Next
<1> QED
  BY <1>2, <1>11 DEF vars

\* Whoever is in the invoice lock's queue is a request under way, and the other
\* way round: a handler that returned, with an error or without, blocks nobody.
THEOREM NoneLockedOut == Spec => []NobodyLockedOut
<1>1. Init => NobodyLockedOut
  BY DEF Init, NobodyLockedOut, At, Idle
<1> QED
  BY Invariance, <1>1, QueueKept, PTL DEF Spec

=============================================================================
