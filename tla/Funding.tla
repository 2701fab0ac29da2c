------------------------------ MODULE Funding ------------------------------
(***************************************************************************)
(* How one deal gets from its creation to 'funded'.                        *)
(*                                                                         *)
(* Two parties register keys and payout addresses; an escrow is created at *)
(* the agent, either by create-escrow or by create-ln-invoice; the buyer   *)
(* pays to its address and confirms.  As in Payout, a handler runs without *)
(* interruption from one await to the next, and what it read before an     *)
(* await it keeps.  Only create-ln-invoice takes the lock of the deal.     *)
(*                                                                         *)
(* Deals share no state before they are funded, so there is one deal here. *)
(* What happens to it once it is funded is the subject of Payout, but for  *)
(* its expiry, which register_derived_key looks at.                        *)
(***************************************************************************)
EXTENDS Sequences

CONSTANTS
  Workers,   \* request handlers that may run at the same time
  Keys,      \* per role, the ephemeral public keys its party may register
  Wallets,   \* per role, the linking keys of wallets that pass LNURL-auth
  Escrows,   \* the ids the agent gives to the escrows it creates
  Creators,  \* the roles the deal may be created by
  Actions,   \* the values timeout_action may have
  None       \* NULL

Roles == {"seller", "buyer"}

ASSUME NoneAssumption ==
  None \notin Escrows \cup UNION {Keys[r] \cup Wallets[r] : r \in Roles}

ASSUME TermsAssumption ==
  Creators \subseteq Roles /\ Actions \subseteq {"release", "refund"}

\* The part of DealStatus this protocol uses.
Statuses == {"pending", "active", "funded", "cancelled", "expired"}

\* The statuses in which an escrow may be created, paid or cancelled.
Open == {"pending", "active"}

\* Of _TERMINAL_STATUSES, what a deal can be in before it is paid out.
Terminal == {"cancelled", "expired"}

VARIABLES
  status,    \* deal row: status
  creator,   \* deal row: creator_role
  action,    \* deal row: timeout_action
  ids,       \* deal row: the roles whose user id is set
  key,       \* deal row: seller_pubkey, buyer_pubkey
  wallet,    \* deal row: seller_linking_pubkey, buyer_linking_pubkey
  sig,       \* deal row: whether the timeout signature of Claimant is set
  addr,      \* deal row: the roles whose payout address is set
  fundKey,   \* deal row: buyer_escrow_pubkey
  escrowId,  \* deal row: ark_escrow_deal_id
  fundedAt,  \* deal row: whether funded_at is set
  agent,     \* agent[e]: the keys the agent has created escrow e with, or None
  paid,      \* the escrows the buyer has sent the money to
  task,      \* the running handlers
  queue      \* holder of the deal's invoice lock, then its waiters

row == <<status, creator, action, ids, key, wallet, sig, addr, fundKey,
         escrowId, fundedAt>>
vars == <<row, agent, paid, task, queue>>

-----------------------------------------------------------------------------
(***************************************************************************)
(* A handler is at one of these points, each but "idle" an await:          *)
(*   validate  validate_lightning_address of a submitted address           *)
(*   lookup    get_escrow_info of the escrow create-escrow found           *)
(*   create    the creation of an escrow, asked for by create-escrow       *)
(*   wait      the lock of the deal                                        *)
(*   invoice   the creation of an escrow, asked for by create-ln-invoice   *)
(*   fund      fund_escrow, asked for by confirm-funding                   *)
(***************************************************************************)
Idle == [pc |-> "idle"]

\* A column per role, of values the party of the role may have.
OnFile(S) ==
  {f \in [Roles -> (UNION {S[r] : r \in Roles}) \cup {None}] :
     \A r \in Roles : f[r] \in S[r] \cup {None}}

\* A key of each party.
Complete == {f \in OnFile(Keys) : \A r \in Roles : f[r] # None}

\* keys: those the new escrow is to have, as the handler read them
\* fresh: the deal was 'pending' when create-escrow read it
TaskRecords ==
  {Idle}
    \cup [pc : {"validate"}, role : Roles]
    \cup [pc : {"lookup", "create"}, keys : OnFile(Keys), fresh : BOOLEAN]
    \cup [pc : {"wait"}, key : Keys["buyer"]]
    \cup [pc : {"invoice"}, keys : OnFile(Keys)]
    \cup [pc : {"fund"}]

TypeOK ==
  /\ status \in Statuses
  /\ creator \in Creators
  /\ action \in Actions
  /\ ids \subseteq Roles
  /\ key \in OnFile(Keys)
  /\ wallet \in OnFile(Wallets)
  /\ sig \in BOOLEAN
  /\ addr \subseteq Roles
  /\ fundKey \in Keys["buyer"] \cup {None}
  /\ escrowId \in Escrows \cup {None}
  /\ fundedAt \in BOOLEAN
  /\ agent \in [Escrows -> OnFile(Keys) \cup {None}]
  /\ paid \subseteq Escrows
  /\ task \in [Workers -> TaskRecords]
  /\ queue \in Seq(Workers)

\* A deal as create_deal stores it; the other party's user id and either key may
\* come with the request.
Init ==
  /\ status = "pending"
  /\ creator \in Creators
  /\ action \in Actions
  /\ ids \in {{creator}, Roles}
  /\ key \in OnFile(Keys)
  /\ wallet = [r \in Roles |-> None]
  /\ sig = FALSE
  /\ addr = {}
  /\ fundKey = None
  /\ escrowId = None
  /\ fundedAt = FALSE
  /\ agent = [e \in Escrows |-> None]
  /\ paid = {}
  /\ task = [w \in Workers |-> Idle]
  /\ queue = <<>>

\* The party whose timeout signature timeout_action asks for.
Claimant == IF action = "release" THEN "seller" ELSE "buyer"

At(w, p) == task[w].pc = p

Goto(w, t) == task' = [task EXCEPT ![w] = t]

Done(w) == Goto(w, Idle)

BothKeys == \A r \in Roles : key[r] # None

-----------------------------------------------------------------------------
\* Requests that are answered without an await.

\* counterparty_join_deal: the party the creator is not.
SetJoined ==
  /\ status = "pending"
  /\ status' = "active"
  /\ ids' = Roles

Join ==
  /\ SetJoined
  /\ UNCHANGED <<creator, action, key, wallet, sig, addr, fundKey, escrowId,
                 fundedAt, agent, paid, task, queue>>

\* Variant: a different wallet is turned away only once the deal is funded.
MayRegisterBeforeFunding(r, l) ==
  /\ fundedAt => wallet[r] # l
  /\ status \notin Terminal /\ fundedAt => wallet[r] \in {None, l}

\* Whether wallet l may sign in as role r, and register_derived_key does not
\* return early with the recovery data of a funded deal.
MayRegister(r, l) ==
  /\ fundedAt => wallet[r] # l
  /\ status \notin Terminal /\ (fundedAt \/ r \in ids) => wallet[r] \in {None, l}

\* The timeout signature that comes with the request does not match the key: the
\* user id has been stored by then.
RegisterRefused(r, l) ==
  /\ MayRegister(r, l)
  /\ ids' = ids \cup {r}
  /\ UNCHANGED <<status, creator, action, key, wallet, sig, addr, fundKey, escrowId,
                 fundedAt, agent, paid, task, queue>>

Register(r, l, k, signed) ==
  /\ MayRegister(r, l)
  /\ ids' = ids \cup {r}
  /\ key' = [key EXCEPT ![r] = k]
  /\ wallet' = [wallet EXCEPT ![r] = l]
  /\ sig' = (sig \/ (signed /\ r = Claimant))
  /\ status' = IF status = "pending" /\ BothKeys' THEN "active" ELSE status
  /\ UNCHANGED <<creator, action, addr, fundKey, escrowId, fundedAt, agent,
                 paid, task, queue>>

\* Variant: the key is stored under the other role.
SetPubkeySwapped(r, k) ==
  /\ key' = [key EXCEPT ![CHOOSE q \in Roles : q # r] = k]
  /\ UNCHANGED <<status, creator, action, ids, wallet, sig, addr, fundKey,
                 escrowId, fundedAt, agent, paid, task, queue>>

\* Any string is taken, at any time; the empty one removes the key, for whoever
\* reads the row finds none.
SetPubkey(r, k) ==
  /\ key' = [key EXCEPT ![r] = k]
  /\ UNCHANGED <<status, creator, action, ids, wallet, sig, addr, fundKey,
                 escrowId, fundedAt, agent, paid, task, queue>>

\* A signed request is held against the role's key, which must be on file.
CanSign(r) == key[r] # None

\* The creator signs the request.
Cancel ==
  /\ status \in Open
  /\ CanSign(creator)
  /\ status' = "cancelled"
  /\ UNCHANGED <<creator, action, ids, key, wallet, sig, addr, fundKey,
                 escrowId, fundedAt, agent, paid, task, queue>>

\* Not a request: the timeout handler finds the funded deal past its expiry and
\* cannot pay it out, so the money stays in the escrow.
Expire ==
  /\ status = "funded"
  /\ status' = "expired"
  /\ UNCHANGED <<creator, action, ids, key, wallet, sig, addr, fundKey,
                 escrowId, fundedAt, agent, paid, task, queue>>

\* Not a request: the buyer's wallet sends, once, to the address on display.
Pay ==
  /\ status \in Open
  /\ escrowId # None
  /\ paid = {}
  /\ paid' = {escrowId}
  /\ UNCHANGED <<row, agent, task, queue>>

-----------------------------------------------------------------------------
\* submit-payout-invoice and submit-refund-invoice, but for the payout that the
\* address of an expired deal starts.

\* The party signs the request.
MaySubmit(r) == r \in ids /\ CanSign(r) /\ status # "cancelled"

Submit(w, r) ==
  /\ At(w, "idle")
  /\ MaySubmit(r)
  /\ Goto(w, [pc |-> "validate", role |-> r])
  /\ UNCHANGED <<row, agent, paid, queue>>

AddressValid(w) ==
  /\ At(w, "validate")
  /\ addr' = addr \cup {task[w].role}
  /\ Done(w)
  /\ UNCHANGED <<status, creator, action, ids, key, wallet, sig, fundKey,
                 escrowId, fundedAt, agent, paid, queue>>

AddressInvalid(w) ==
  /\ At(w, "validate")
  /\ Done(w)
  /\ UNCHANGED <<row, agent, paid, queue>>

-----------------------------------------------------------------------------
\* create-escrow

CreateEscrow(w) ==
  /\ At(w, "idle")
  /\ status \in Open
  /\ BothKeys
  /\ Goto(w, [pc |-> IF escrowId = None THEN "create" ELSE "lookup",
              keys |-> key, fresh |-> status = "pending"])
  /\ UNCHANGED <<row, agent, paid, queue>>

\* The agent knows the escrow: its address is shown again.
EscrowFound(w) ==
  /\ At(w, "lookup")
  /\ Done(w)
  /\ UNCHANGED <<row, agent, paid, queue>>

\* Any error at all is taken to mean that there is no escrow.
EscrowNotFound(w) ==
  /\ At(w, "lookup")
  /\ Goto(w, [task[w] EXCEPT !.pc = "create"])
  /\ UNCHANGED <<row, agent, paid, queue>>

\* create_deal_escrow: the agent makes a new escrow for every request.
AgentCreates(e, keys) ==
  /\ agent[e] = None
  /\ agent' = [agent EXCEPT ![e] = keys]

EscrowCreated(w, e) ==
  /\ At(w, "create")
  /\ AgentCreates(e, task[w].keys)
  /\ escrowId' = e
  /\ status' = IF task[w].fresh THEN "active" ELSE status
  /\ Done(w)
  /\ UNCHANGED <<creator, action, ids, key, wallet, sig, addr, fundKey,
                 fundedAt, paid, queue>>

\* An escrow whose id never arrives is known to nobody and leaves no trace.
CreateFails(w) ==
  /\ At(w, "create")
  /\ Done(w)
  /\ UNCHANGED <<row, agent, paid, queue>>

-----------------------------------------------------------------------------
\* create-ln-invoice.  It fails in any case: the agent gives no invoice, and
\* the response is refused for it after the row has been written.  Nor does
\* it give an operation id, so the check for an escrow already registered
\* never applies.

InvoiceRequest(w, k) ==
  /\ At(w, "idle")
  /\ Goto(w, [pc |-> "wait", key |-> k])
  /\ queue' = Append(queue, w)
  /\ UNCHANGED <<row, agent, paid>>

\* Variant: there is no lock.
HoldsNothing(w) == w \in Workers

Holds(w) == queue # <<>> /\ Head(queue) = w

\* The lock is left when the handler returns, with an error or without.
Unlock == queue' = Tail(queue)

\* Variant: the key of the last sign-in instead of that of the first funding.
RegisteredKeyLatest == IF key["buyer"] # None THEN key["buyer"] ELSE fundKey

RegisteredKey == IF fundKey # None THEN fundKey ELSE key["buyer"]

\* Variant: the seller's sign-in is taken for the seller's key.
InvoiceAllowedKeyless(k) ==
  /\ status \in Open
  /\ addr = Roles
  /\ wallet["seller"] # None
  /\ RegisteredKey \in {None, k}
  /\ action = "release" => sig

InvoiceAllowed(k) ==
  /\ status \in Open
  /\ addr = Roles
  /\ wallet["seller"] # None
  /\ RegisteredKey \in {None, k}
  /\ action = "release" => sig
  /\ key["seller"] # None

InvoiceRefused(w) ==
  /\ At(w, "wait")
  /\ Holds(w)
  /\ ~InvoiceAllowed(task[w].key)
  /\ Unlock
  /\ Done(w)
  /\ UNCHANGED <<row, agent, paid>>

InvoiceStart(w) ==
  /\ At(w, "wait")
  /\ Holds(w)
  /\ InvoiceAllowed(task[w].key)
  /\ Goto(w, [pc |-> "invoice", keys |-> [key EXCEPT !["buyer"] = task[w].key]])
  /\ UNCHANGED <<row, agent, paid, queue>>

InvoiceCreated(w, e) ==
  /\ At(w, "invoice")
  /\ AgentCreates(e, task[w].keys)
  /\ escrowId' = e
  /\ fundKey' = task[w].keys["buyer"]
  /\ sig' = (sig \/ Claimant = "buyer")
  /\ Unlock
  /\ Done(w)
  /\ UNCHANGED <<status, creator, action, ids, key, wallet, addr, fundedAt, paid>>

\* Variant: the lock is left on success only.
InvoiceFailsLocked(w) ==
  /\ At(w, "invoice")
  /\ Done(w)
  /\ UNCHANGED <<row, agent, paid, queue>>

InvoiceFails(w) ==
  /\ At(w, "invoice")
  /\ Unlock
  /\ Done(w)
  /\ UNCHANGED <<row, agent, paid>>

-----------------------------------------------------------------------------
\* confirm-funding

ConfirmFunding(w) ==
  /\ At(w, "idle")
  /\ status \in Open
  /\ escrowId # None
  /\ Goto(w, [pc |-> "fund"])
  /\ UNCHANGED <<row, agent, paid, queue>>

Fundable == status \in Open

\* set_deal_funded: in any other status it changes nothing, or raises.
SetFunded ==
  IF Fundable
  THEN status' = "funded" /\ fundedAt' = TRUE
  ELSE UNCHANGED <<status, fundedAt>>

\* The agent has been told, or could not be: the deal is funded either way.
Funded(w) ==
  /\ At(w, "fund")
  /\ SetFunded
  /\ Done(w)
  /\ UNCHANGED <<creator, action, ids, key, wallet, sig, addr, fundKey,
                 escrowId, agent, paid, queue>>

-----------------------------------------------------------------------------
Next ==
  \/ Join \/ Cancel \/ Expire \/ Pay
  \/ \E r \in Roles :
       \/ \E k \in Keys[r] \cup {None} : SetPubkey(r, k)
       \/ \E l \in Wallets[r] :
            \/ RegisterRefused(r, l)
            \/ \E k \in Keys[r], signed \in BOOLEAN : Register(r, l, k, signed)
  \/ \E w \in Workers :
       \/ \E r \in Roles : Submit(w, r)
       \/ AddressValid(w) \/ AddressInvalid(w)
       \/ CreateEscrow(w) \/ EscrowFound(w) \/ EscrowNotFound(w)
       \/ \E e \in Escrows : EscrowCreated(w, e) \/ InvoiceCreated(w, e)
       \/ CreateFails(w)
       \/ \E k \in Keys["buyer"] : InvoiceRequest(w, k)
       \/ InvoiceRefused(w) \/ InvoiceStart(w) \/ InvoiceFails(w)
       \/ ConfirmFunding(w) \/ Funded(w)

Spec == Init /\ [][Next]_vars

-----------------------------------------------------------------------------
\* Properties

\* The escrow a deal names is one that the agent has created with a key of each
\* party, and a deal is funded only if it names one: although keys are replaced
\* and removed while an escrow is being created, and escrows replaced by others.
HandedOver ==
  /\ escrowId # None => agent[escrowId] \in Complete
  /\ status \in {"funded", "expired"} => escrowId # None

\* At most one create-ln-invoice is creating an escrow (the per-deal lock).
OneInvoiceAtATime ==
  \A v, w \in Workers : At(v, "invoice") /\ At(w, "invoice") => v = w

\* The key the buyer first funded with (buyer_escrow_pubkey) never changes,
\* although sign-ins and set-pubkey may change buyer_pubkey while an invoice
\* is being created: that is what the check against the registered key is for.
FundKeyFixed == [][fundKey # None => fundKey' = fundKey]_vars

\* A role belongs to the wallet that signed in first, before and after funding,
\* until register_derived_key takes the deal to be finished, as it does when the
\* deal is expired.
WalletBound ==
  [][\A r \in Roles : wallet[r] # None /\ status \notin Terminal
                        => wallet'[r] = wallet[r]]_vars

\* Nobody is locked out: the lock's holder and waiters are the create-ln-invoice
\* requests under way, each once.  A handler that has returned has left the lock,
\* whether the agent answered or failed, and a request that waits will be woken.
NobodyLockedOut ==
  /\ \A i \in DOMAIN queue : task[queue[i]].pc \in {"wait", "invoice"}
  /\ \A w \in Workers :
       At(w, "wait") \/ At(w, "invoice") => \E i \in DOMAIN queue : queue[i] = w
  /\ \A i, j \in DOMAIN queue : queue[i] = queue[j] => i = j

-----------------------------------------------------------------------------
\* What the code says of itself and does not do

\* FUND SAFETY of create-ln-invoice: it does not begin to create an escrow
\* when the buyer has paid to the one the deal has.
FundSafety ==
  [][\A w \in Workers : At(w, "wait") /\ At(w, "invoice")'
                           => escrowId \notin paid]_vars

=============================================================================
