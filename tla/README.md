# Verification of the escrow backend

This directory holds TLA+ models of the escrow service in `src/backend` (the
FastAPI application with the Ark escrow backend), the TLC configurations that
check them and the theorems that TLAPS proves about them. `PROJECT.json` lists
components, runs, mutants, theorems and, for each definition, the source lines
it stands for.

Run a configuration with `tlc -config MCPayout_loop.cfg MCPayout`, the proofs
with `tlapm PayoutProofs.tla` and likewise `PayoutAuthority`, `PayoutSafety`,
`DisputeProofs`, `DisputeSafety`, `FundingProofs`, `LoginProofs` and
`SettingsProofs`.

## 1. The system

A *deal* is a row of the database. A buyer funds it, its money sits in an escrow
held by the *escrow agent*, a separate HTTP service, and ends with the seller
(release) or back with the buyer (refund). The backend is one asyncio process:
request handlers, the background tasks they spawn and one timeout loop share the
database and some module-level state, and interleave at every `await`.

| Part | State | Operations | Interacts with |
|---|---|---|---|
| Payout execution (`api/routes/_payout.py`) | the kill switch; per payout its local variables | `execute_ark_payout`, `execute_oracle_payout`, `halt/resume_payouts` | called by every endpoint below; storage, agent, address providers |
| Payout endpoints (`release.py`, `refund.py`, `payout.py`) | none | release, refund, ship, submit an address, open or cancel a dispute | storage, payout execution (in a background task) |
| Timeout handler (`tasks/timeout_handler.py`) | `_retry_state`, in memory | pass over expired deals, pass over stalled payouts | storage, payout execution, agent |
| Reconciliation (`tasks/reconcile.py`) | none | logs deals in a transitional status at startup | storage |
| Admin (`admin.py`) | none | resolve a deal, oracle signatures, kill switch, limits, fees | payout execution, settings |
| Deal storage (`database/`) | the deal rows | create, join, update, compare-and-set of the status, expiry query | everything |
| Funding (`funding.py`, `ark_escrow.py`, `crud.py`) | a table of locks per deal | create, join, create escrow, invoice, confirm, cancel | storage, agent, LND |
| Oracle listener (`ark/oracle_listener.py`) | watch tasks, accumulated attestations | watch and stop an escrow, collect 2 of 3 attestations | Nostr relays, payout execution |
| LNURL login (`auth/lnurl_auth.py`, `auth.py`) | challenge store in memory | create, verify, look up, expire; register keys | storage, WebSockets |
| Settings (`database/settings.py`) | one JSON file | limits and fees, read and written under a lock | admin |
| WebSockets (`websockets.py`) | sockets per deal | connect, disconnect, broadcast | every handler that notifies |
| Rate limiter (`security.py`) | time stamps per client | count and refuse | every request |
| Shutdown (`shutdown.py`, `main.py`) | in-flight counter, flag | enter and leave a payout, drain | payout execution, timeout loop |
| Escrow agent (external) | the escrows | fund, release, refund, dispute, resolve | the Ark client |

What is hard here:

* **Interleaving.** A payout awaits the address provider, then the agent, then
  the agent again after an error. Other handlers and the loop run in between.
* **Stale state.** Callers pass the deal as a dict; the checks on txids look at
  that dict, and the loop's rows are read once per pass.
* **Unknown outcomes.** A request to the agent that times out may have been
  carried out, or may be carried out later.
* **Crashes.** The status of a payout in progress survives, its task does not;
  neither do the kill switch and the retry counts.
* **Recovery code** that runs only on failure, twice for timeout claims.
* **Cancellation** of the loop at any await by `asyncio.wait_for`.
* **Agreement.** Attestations come from several relays, in any order, repeatedly,
  and contradict each other; they are counted before anyone has checked a
  signature; connections are lost, and some events end the task that reads them;
  the dispute they decide may be taken back and filed again, and everything that
  pays a deal out goes on meanwhile.
* **Stores with a cap.** Challenges, sessions and request times are kept in
  memory, expire, and are evicted on behalf of somebody else's request.
* **Numbers set apart and used together.** Limits come from a file, from the
  environment and from constants, and are compared and clamped in different
  places.

What makes the system correct: an escrow is paid out once and to one party; the
rows agree with the escrow; the seller is paid only with the buyer's secret code
and the buyer refunded only with the signature on file; a deal both parties
abandon is not stuck; a deal in dispute goes where enough oracles say, once; an
escrow is made with a key of each party, and those keys and the wallets behind
them stay; a sign-in belongs to the wallet that signed its challenge; no deal is made outside
the limits in force.

## 2. Modules

| Module | What it is |
|---|---|
| `Payout` | how funded deals are paid out: the endpoints, `execute_ark_payout`, the timeout loop, the agent, faults |
| `MCPayout` | `Payout` for TLC: names, sets of terms, symmetry |
| `Custody` | abstract specification: the money of a deal leaves the escrow once, for an entitled party, and goes on record after that |
| `PayoutProofs` | lemmas about the operators, type correctness |
| `PayoutAuthority` | authorisation carried across awaits: theorems about who may move an escrow |
| `PayoutSafety` | the agent's single claim: theorems about what is recorded as paid and what a txid says; `Payout` implements `Custody` |
| `Funding` | how one deal gets from its creation to 'funded': keys, addresses, escrows, invoices |
| `MCFunding` | `Funding` for TLC: names, the keys and wallets of each role |
| `FundingProofs` | its safety properties, for any handlers, keys, wallets and escrows |
| `Arbitration` | abstract specification: at most one verdict for a deal, and a settlement by that verdict only, with a quorum that has published it |
| `Dispute` | extends `Payout`: a dispute is filed, watched and decided, beside all that may pay the same deal out |
| `MCDispute` | `Dispute` for TLC: names, terms, symmetry of the oracles |
| `DisputeProofs` | an escrow in dispute is settled by oracles only; `Dispute` implements `Arbitration` |
| `DisputeSafety` | what `PayoutSafety` proves, with the oracles' payouts among the others; `Dispute` implements `Custody` |
| `Login`, `MCLogin` | the store of LNURL challenges and sessions |
| `LoginProofs` | its bounds and evictions, for any keys, caps and lifetime |
| `RateLimiter` | the sliding windows every HTTP request passes |
| `Settings`, `MCSettings` | extends `RateLimiter`: limits and fees in a file, and deals made under them |
| `SettingsProofs` | what is promised of windows and of limits, for any windows, amounts and environments |

`Funding` and `Payout` are two phases of one deal. `Funding` ends where
`confirm_funding` or an overlapping `create_escrow` leaves the deal (`HandedOver`
says what such a deal has; only sign-ins, which go on, and the expiry they look
at are followed further); `Payout` starts there, in every state these leave:
`funded` or `active`, with or without the signature on file, the escrow funded at
the agent or not. `Payout` assumes that no funding handler of the deal is still
under way. One that is could overwrite the status or the escrow id of a deal in
payout (section 3 says how `create_escrow` does). It also assumes that the keys
are still on the row: a party may remove its key with `set-pubkey`, and its signed
requests and payouts without an address are then refused before they write
anything. `Dispute` composes with `Payout`
by running all its actions on the same rows; `Settings` composes with
`RateLimiter`. `Login` hands a verified wallet to `Register` of `Funding`.

### Payout

*State.* `status`, `payout`, `txid` and `addr` are the columns of a deal row that
payouts read and write (indexed by side: `payout[d]["release"]` is
`payout_status`, `payout[d]["refund"]` is `buyer_payout_status`, and so on for
`release_txid`/`refund_txid` and the two `_payout_invoice` columns); `terms` the
columns fixed before funding; `due` whether `expires_at` has passed. `escrow` is
the agent's state of the escrow and `late` the requests it may still carry out
although nobody waits for them. `task` has one entry per request handler and one
for the loop; an entry is the await its coroutine is at (`pc`) and the local
variables it uses afterwards, among them `row`, the dict it was called with.
`phase` and `queue` are the loop's progress, `tries` is `_retry_state`, `halted`
the kill switch. `consent` is a history variable: the deals whose secret code
has been presented to `release_deal`.

*Actions.* One action is the code from one await to the next.

| Action | Code |
|---|---|
| `ReleaseRequest`, `RefundRequest` | `release_deal`, `refund_deal` up to `create_task`; the payout starts later (`Start`) with the row read here |
| `SubmitRequest`, `Validated`, `ValidateFails` | the two submit handlers before and after `validate_lightning_address`, with the timeout claim they trigger |
| `Ship`, `AdminResolve`, `Halt`, `Resume` | the handlers of those names |
| `AtomicTransition` (operator) | `atomic_status_transition`, as the error branches use it |
| `Enter` (operator) | `execute_ark_payout` up to its first await |
| `ResolveFails`, `Begin` | the address could not be resolved; it was: read the row, move it to the transitional status, send the request |
| `AgentAnswers`, `AgentFails`, `LateDelivery` | the agent |
| `Succeed`, `RecordDirect` | the success branch; the path without an address |
| `Fail`, `FailRetry`, `FailTimeout` | the error branch for each caller |
| `ScanExpired`, `ProcessExpired` | `process_expired_deals` |
| `ScanStalled`, `SkipStalled`, `ParkStalled`, `RetryStalled`, `EndPass` | `process_stalled_payouts` |
| `CancelLoop`, `Crash`, `Tick` | `wait_for` expiring, the process dying, time passing |

Things the code does that shape the model:

* `execute_ark_payout` reads the status and compares it in one step, so its
  compare-and-set never fails except on re-entry from its own transitional
  status (`MayBegin`).
* The recovery branches that look at `escrow_info.state` are never taken: the
  Ark client's `EscrowInfo` has no such attribute, the exception is swallowed,
  and the deal is rolled back. Those branches are not in the model.
* `_get_block_height_cached` does not exist in the Ark service, so the timelock
  pre-check always proceeds.
* A timeout claim is a refund request to the agent, whichever party it is for.
* In `Payout` no deal is `disputed`: at this commit `open_dispute` takes its own
  write back before anybody sees it. `Dispute` adds the status.

Abstractions: a Lightning Address is present or not; the agent's error is one of
three texts the retry pass tells apart; the backoff interval is a free choice to
skip an item. Notifications over WebSockets are left out, and with them the
possible suspension inside them. `get_deals_by_statuses` reads at most 500 rows, the
newest first (`deal_storage.py:158`): with more deals in `expired` than that, the
oldest ones are not retried. The model has never as many, so
`UnattendedDealSettles` is about a service below that number.

`Custody` says what the owner of the money may rely on, in three variables per
deal: where the `money` is, who is `entitled` to it, who is `booked` as paid.
`Payout` implements it with these values:

| Custody | Payout |
|---|---|
| `money` | the agent's state of the escrow: released is the seller's, refunded the buyer's, any other still the escrow's |
| `entitled` | the seller by the secret code presented to `release_deal` (`consent`); the buyer by the timeout signature on file, which the path without an address does not ask for |
| `booked` | the sides whose payout column says `paid` |

So a reader has four things at once that the invariants say separately, and one
that they do not: the *order* in which entitlement, settlement and record come,
step by step. `Book` leaves out one thing on purpose: the seller may be recorded as
paid when the escrow went to the buyer, which is the disagreement that the run
`payout_sellertimeout` shows. `Unbook` is there because a later attempt overwrites
the record.

The kill switch as an environment variable is fixed for the life of a process
and not modelled.

### Funding

*State.* The columns of one row: `status`, `creator`, `action`
(`timeout_action`), `ids` (the roles with a user id), `key` (`seller_pubkey`,
`buyer_pubkey`), `wallet` (the linking keys), `sig` (whether the timeout
signature `timeout_action` selects is on file), `addr`, `fundKey`
(`buyer_escrow_pubkey`), `escrowId`, `fundedAt`. `agent` is the set of escrows
created, each with the keys it was created with, `paid` the escrow the buyer's
wallet has sent to, `task` the handlers
with what they read before their await, `queue` the deal's lock: its holder,
then its waiters, in the order asyncio wakes them.

*Actions.*

| Action | Code |
|---|---|
| `Join`, `Register`, `RegisterRefused`, `SetPubkey`, `Cancel` | `counterparty_join_deal`, `register_derived_key` (accepted; refused after it has stored the user id), `set_pubkey`, `cancel_deal`: no await before they write |
| `Expire` | the timeout handler marks a funded deal that it cannot pay out |
| `Submit`, `AddressValid`, `AddressInvalid` | an address submission before and after its validation |
| `CreateEscrow`, `EscrowFound`, `EscrowNotFound`, `EscrowCreated`, `CreateFails` | `create_escrow`: read the row, look up the escrow it names, create one, write it back with the status read at the start |
| `InvoiceRequest`, `InvoiceRefused`, `InvoiceStart`, `InvoiceCreated`, `InvoiceFails` | `create_lightning_invoice`: wait for the lock, check, create an escrow, write it, leave the lock |
| `ConfirmFunding`, `Funded` | `confirm_funding` before and after the agent is told, with `set_deal_funded` |
| `Pay` | the buyer's wallet |

Things the code does that shape the model:

* The Ark service gives no invoice and no operation id. `create_lightning_invoice`
  writes the row and then fails to build its response; its branches for an
  escrow already registered, which need an operation id, are never taken; and
  `check_lightning_invoice` refuses every request because the row has no payment
  hash.
* `create_escrow` takes any error of the look-up to mean that there is no escrow.
* `confirm_funding` funds the deal whether or not the agent could be told, so
  what the agent made of it does not show here; it does in `Payout`.
* `set_pubkey` takes any string. The empty one removes the key, for every reader
  takes it for none; an escrow in creation keeps the keys its handler has read.
* `register_derived_key` compares wallets only if the role has a user id, which it
  sets itself at the first sign-in (`Owned` in `FundingProofs`), and not in the
  statuses it takes for finished (`Terminal`), of which 'expired' is one. A sign-in to a
  funded deal with the wallet on file changes nothing this model has.
* `delete_deal` has no caller.

Abstractions: a signed request needs a key on file and is otherwise genuine; the
LNURL challenge a `Register` presents is verified; the secret-code hash, prices,
fees and time stamps for display are left out. An escrow whose creation was
answered too late is known to nobody and leaves no trace.

### Dispute and Arbitration

*State.* All of `Payout`'s, and: `posted`, the attestations on the relays;
`unsigned`, events there that carry an oracle's key and not its signature;
`garbled`, the relays that keep an event the parser raises on; `filing`,
`open_dispute` while it waits for the agent, with the status to go back to;
`watch`, the await the watch task of a deal is at; `ear`, where its task for each
relay is; `votes`, `by_pubkey` of the watch's accumulator, and `genuine`, the oracles
whose vote there carries their signature (which the listener does not look at and
the agent does); `stray`, requests given up on that the agent may still carry out;
`called`, a history of the outcome the callback was called with.

| Action | Code |
|---|---|
| `OpenDispute`, `Filed`, `NotFiled` | `open_dispute` up to the agent, after its answer (`watch_escrow` included), after a failure |
| `Publish`, `OracleSign`, `Noise` | `publish_event` of an oracle; `admin_oracle_sign`; any other event with an oracle's key |
| `Hear`, `Choke` | one event of `_listen_one_relay` through `_parse_nostr_event` and `_Accumulator.add`; one that the parser raises on |
| `Connect`, `Lose` | a relay's task gets its connection, and loses it |
| `Call`, `NoInvoice`, `OracleBegin` | `_watch_task` calls back: `execute_oracle_payout` to its first await; the address fails; it is resolved |
| `OracleAnswers`, `OracleFails`, `StrayDelivery` | the agent |
| `OracleSucceeds`, `OracleReverts` | the two ends of `execute_oracle_payout` |
| `DisputeCrash` | the process dies: `Crash` of `Payout`, and the watches are gone |

Things the code does that shape the model:

* **The listener does not load.** `ark/oracle_listener.py:64` names
  `SignedAttestation`, which line 45 does not import: the import raises
  `NameError`, `main.py` logs it and goes on without a listener, and
  `open_dispute` always takes the dispute back. `ListenerLoads = FALSE` is this;
  the runs use `TRUE`, the behaviour of the same text where the import works (as
  that of `fedimint/oracle_listener.py` does), for there is nothing else to check.
* `cancel_dispute` and the admin's resolution of a disputed deal read
  `escrow_info.state`, answer 500 and change nothing: no actions here.
* The relays replay what they keep on every connection. `posted` is therefore a
  set, and any element of it may be heard while the task of a relay is connected,
  at any time and again.
* The listener checks no signature ("the federation does that on submission",
  `oracle_listener.py:159`). An unsigned event is a vote like any other, and takes
  the place of the oracle's own; the agent refuses a resolution that rests on one
  (`Accepts`, external).
* `_parse_nostr_event` catches `KeyError`, `TypeError` and `ValueError`. An outcome or a
  content that is not a string raises `AttributeError`, which nothing catches: the
  task of that relay is over, while the watch goes on waiting for the others.
* A callback that fails ends the watch: the verdict is not acted on again.
* `execute_ark_payout` takes a deal out of `disputed` as out of any other status.
  What keeps the money in place is the agent, which settles a disputed escrow by
  attestations only.

`Arbitration` says what of this a party to a dispute may rely on: ballots are
published, the listener comes to a verdict once (`Find`), and the escrow is settled
by that verdict, if at all, when a quorum has published it (`Rule`). The verdict
alone is not promised to have a quorum, for unsigned events count. `Dispute`
implements it with `ballots <- Published`, `verdict <- called` and
`ruling <- Rulings`, the side a called-back escrow has been settled for: publishing
is publishing, `Call` is `Find`, a resolution the agent carries out is `Rule`, all else
stutters.

`Dispute` implements `Custody` too, with a party that enough oracles have published
for as one more who is entitled (`ClaimantsOrWinner`): that is a third way to the
money, and the rest of the promise stays.

### Login

*State.* `open` and `made`: the challenges and their creation times; `verified`:
the k1s with a session; `signed`: a history of when a session was signed; `now`.

`CreateChallenge` is `create_challenge` with the `_cleanup_expired` it begins
with, whose result is described by three predicates (`Fitting`, `KeepsNewest`,
`Trimmed`) and not computed. `DealChallenge` gives out an active challenge again
(`get_challenge_for_deal`), `LoginChallenge` (global and admin login) always makes
a new one, `Callback` is the wallet's answer in time or too late. Polls only read.

Met while modelling: a late callback drops the challenge and keeps its session,
although `_cleanup_expired` says it removes "expired challenges and their verified
sessions" (`lnurl_auth.py:204`); such orphans go only when the cap on sessions is
passed (`MemoryBounded` counts them). All global logins share one k1, and all
admin logins another, so the wallet that signs last is the one every poll sees.

### RateLimiter and Settings

*State.* `admitted`, a history: when each request of an address and a category was
let through, in order; `requests`, the places in it that the list of the code
still holds (the code appends to the list and filters it, so that it is in the
order of the clock, and the last of a list is the highest place); `counter`, when
to sweep; the file:
`readable`, `limits`, `fee`; `env`, what the process read from its environment;
`dearest`, a history of the highest price of a deal made by this process.

Every handler begins with `Admit`; `RefuseRequest` is the answer 429. `SetLimits`
and `SetFees` are the admin's requests with `_locked_read_modify_write`,
`SaveFails` a failure between its truncate and its write, `CreateDeal` the check
of `create_deal` against `get_limits` (`MinSats`, `MaxSats`), `Restart` a new
process, perhaps in another environment.

Met while modelling: `security.py:80` says deals are created at most 10 a minute;
the path compared is `/deals` and the route is `/deals/`, so they count as
"default". A file cut short by a failed save reads as empty (limits fall back to
the environment's) and refuses every change until it is repaired by hand. A
change of `MIN_DEAL_SATS` or `MAX_DEAL_SATS` at a restart can cross a limit that is
stored alone; `SomeAmountAllowed` is about limits that are both stored.

## 3. What is checked

Passing runs. Bounds are the constants of the cfg; `Disturbances` names the
faults that may happen.

| Run | Instance | Shows |
|---|---|---|
| `payout_loop` | 1 deal, 1 handler and the loop, all disturbances, `MaxRetry` 1 | the seven invariants and the refinement of `Custody` with crashes, cancellation, expiry, late requests, kill switch |
| `payout_race` | 1 deal with or without addresses, 2 handlers and the loop, late requests, all terms | two handlers racing, the direct path and address submissions included; crashes and the loop's cancellation are in `payout_loop` only; `OneTxid` and `RefundNeedsSignature` do not hold there and are restricted to deals with both addresses |
| `payout_live` | 2 deals, no handler, time passing | an unattended deal settles or is parked |
| `funding` | 1 deal of a seller with timeout action `release`, 2 handlers, 2 escrows, 2 keys of the buyer, 2 wallets of the seller | what `Payout` starts from, the lock, the fund key, the wallets before and after expiry |
| `dispute` | 1 deal with or without addresses, 1 handler and the loop, 3 oracles of which 2 must agree, 1 relay, 2 attestations, crashes | disputes beside releases, refunds, submissions and retries, and the refinement of `Custody` |
| `dispute_listener` | 1 deal with both addresses, the loop, 3 oracles, 2 relays, 2 attestations and 1 other event, late requests, crashes | liveness of the listener and the refinement of `Arbitration` |
| `login` | 4 deal challenges and 1 login, caps of 2 challenges and 1 session, lifetime 1, 4 instants | expiry, eviction, late callbacks |
| `settings` | 1 address, 2 admin requests and 1 other per window of 3, a sweep every 2 requests, 5 instants, amounts 0 to 3 of which 1 and 2 are allowed, 2 environments | limits, cap, damaged files, restarts, windows |

* `PaidOnce`, `PaidMeansSettled`: rows against escrow, whatever races.
* `OneTxid`: one direction only is ever recorded, although both payouts may
  overlap and roll back.
* `ReleaseNeedsBuyer`, `RefundNeedsSignature`: nobody moves an escrow without the
  party whose consent that direction needs, on any path.
* `DoneHasTxid`: a final status carries its txid, also after a stale payout left
  and restored that status.
* `CustodyKept`: `Payout` implements `Custody`; a settlement without entitlement, a
  second one, or a record before either would be a step `Custody` does not have.
* `UnattendedDealSettles`: liveness.
* `HandedOver`: the escrow a deal names was created with a key of each party, and a
  funded deal names one, although keys are replaced and removed, and escrows
  replaced, while a handler waits.
* `OneInvoiceAtATime`, `NobodyLockedOut`: the lock keeps invoice creations apart;
  its holder and waiters are the requests under way, so that no handler leaves it
  locked behind itself and none waits outside the queue.
* `FundKeyFixed`: the key the buyer first funded with is never replaced by a later
  invoice, whatever key was registered in between.
* `WalletBound`: a role stays with its first wallet, before and after funding, while
  `register_derived_key` does not take the deal for finished.
* `OraclesDecide`: a disputed escrow is settled only as enough oracles have
  published, whatever else pays the deal out, retries, arrives late or is counted
  without a signature.
* `PaidOnce`, `PaidMeansSettled`, `DoneHasTxid` again, with oracle payouts among the
  others: they move the same rows with other guards. (`OneTxid` does not hold
  there: `MarkAwaiting` writes a txid on whatever status it finds.)
* `CustodyKeptInDispute`: `Dispute` implements `Custody`.
* `VerdictFollows`: `Dispute` implements `Arbitration`.
* `HonestOraclesDecide`: liveness; enough oracles of one mind, in whose name nobody
  else has published, get their outcome, whatever valid outcomes the others
  publish or are named for and although connections are lost and all relays' tasks
  but one may die.
* `MemoryBounded`, `SessionOfChallenge`, `OnlyOldestEvicted`: the store is bounded; a
  session beside a challenge is of that challenge although its k1 never changes;
  nobody ends another's sign-in but by filling the store.
* `StoredOrdered`, `SomeAmountAllowed`, `CapHolds`: stored limits do not cross, clamping
  them leaves an amount, the cap of the test phase wins over all else, also over
  what a failed save has left of the file.
* `WindowRespected`: the pruning and the sweep never let more through than the limit:
  between a request and the one a limit of requests after it lies a whole window.

*Why the bounds are enough.* Deals do not interact except through the loop's
queue and the kill switch, so one deal with two handlers and the loop has every
race on a row; the second deal of `payout_live` makes rows of one pass wait for
each other. Three tasks on one deal are three concurrent payouts; more tasks
repeat their pairs. One retry before parking exercises counting, parking and
clearing; a second handler together with passing time is beyond what TLC finishes
in minutes. The submission of an address that a deal expired for (`WasWaiting`) needs
passing time and a deal without addresses, and no run has the two together
(`payout_race` has submissions before expiry only). The theorems below cover both,
for any number of deals, handlers and retries. In `funding`, deals share nothing, so one is enough; two handlers give
every pair of overlapping requests, two escrows one replacement, two keys and two
wallets one attempt at a change. `release` is the timeout action with more checks;
the other differs in one guard (`InvoiceAllowed`), and the theorems cover both.
Watches of different deals share nothing, so one deal is enough for `Dispute`;
three oracles with a threshold of two are the deployed numbers, two attestations
are a verdict, or two that contradict each other. One event that is no attestation
makes a verdict with one signature missing, a third oracle's vote against the other
two, or the end of the task of one relay of two. The two runs split the
disturbances between them: with all of them and a handler TLC does not finish in
minutes. Passing time and the kill switch are in neither. The theorems cover all.
In `login` the caps are
passed by two and by one, a lifetime of 1 gives a challenge an instant in which it
is active and one in which it is not expired either. In `settings` a window of 3
in 5 instants slides, two categories make a sweep drop one key on behalf of the
other, and amounts below, in and above the absolute bounds are asked for. The
bounds themselves are `MaxRetry`, `MaxEvents`, `MaxNoise`, `MaxClock` and the sizes of the
sets; all other constants are parameters of the code.

*Fairness* (`FairSpec`). Weak fairness of every task and of the loop: the event
loop runs what is ready, and `timeout_loop` never returns while the process
runs. Strong fairness of `Begin` and `AgentAnswers` for each deal and of
`RetryStalled` for each deal and side: an address provider and an agent that are
asked again and again about a deal answer once, and a backoff of at most 30
minutes elapses. Nothing is assumed of users, time, or faults, and
the run has neither crashes nor cancellations. In `Dispute`, `FairDisputeSpec` is weak fairness of every relay's connection and of the
watch task, and strong fairness of hearing each oracle: `_listen_one_relay` connects
again after every loss it catches (a minute later at most) to a relay that can be
reached, a relay replays what it keeps on every connection, and the event loop
runs a task that is ready. A connection may be lost any number of times, and a
task that has died stays dead. Nothing is assumed of oracles, parties, the agent
or crashes.

### Where code and documentation disagree

Each of these runs checks one statement quoted from the repository, and TLC
finds a behaviour of the code that violates it.

| Run | Statement |
|---|---|
| `payout_rollback` | `_payout.py:418` a payout is rolled back only if the escrow is not claimed |
| `payout_sellertimeout` | `timeout_handler.py:97` a timeout release claims the escrow for the seller |
| `payout_reconcile` | `reconcile.py:44` the retry loop handles deals in a transitional status |
| `funding_safety` | `funding.py:143` an escrow already registered blocks a new invoice, so that no payment is orphaned |

Met while modelling, and visible in the actions, without a run of its own:

* `test_coin_safety.py:5` says release_txid XOR refund_txid. The path without an
  address (`RecordDirect`, `_payout.py:227`) writes its txid after an await, whatever
  the row says by then, so a deal without both addresses may get both; `OneTxid`
  is about the others.
* `deal_storage.py:308` says a funded deal's expiry is not reset. `create_escrow`
  writes back the status it read before its await (`EscrowCreated`,
  `ark_escrow.py:120`): an overlapping `confirm_funding` is undone, and the deal can
  be funded, with a new expiry, again.
* `auth.py:18` says that in the terminal statuses "the deal is finished and key
  mismatches don't matter". An expired deal is in them (`Terminal`): a second wallet
  that signs in as a role replaces its key and wallet (`Register`, `auth.py:262`)
  while the deal is still to be paid out (`payout.py:100-119`, `refund.py:110`).
* It counts 'cancelled' among them too. A `create_escrow` that read the deal before
  it was cancelled makes it active again (`EscrowCreated`, `ark_escrow.py:121`), and
  it can be funded then.
* `models.py:145` says `buyer_escrow_pubkey` is the buyer's key of the escrow. A
  `create_escrow` that read older keys replaces the escrow and not the column.
* `oracle_listener.py:346` says the callback is called when two of three oracles
  agree. It counts events whose signature nobody has checked yet (`Call`), and a
  verdict for a party without an address writes status and txid before the agent is
  asked (`MarkAwaiting`, `_payout.py:519-535`).
* `oracle_listener.py:231` says a relay's task streams until it is stopped or the
  accumulator resolves. An outcome that is not a string, or a content that is null,
  raises what neither line 213 nor line 287 catches (`Choke`): the task ends.
* `_payout.py:270` says a payout aborts if another one has moved the deal to a
  transitional or terminal status. `MayBegin` refuses re-entry from the payout's
  own transitional status only; a refund may begin on a deal that is `releasing`
  or `completed`.
* `admin.py:112` says the halt blocks all payouts immediately. The switch is read
  in `Enter`, before the address is resolved; a payout past it is sent.
* `admin.py:326` says a payout must match `timeout_action`. `Retriable` does not
  compare them: a failed payout of either side of an expired deal is retried.
* `timeout_handler.py:286` promises backoff and parking after 100 retries. Only a
  rejection counts (`FailRetry`); other errors are retried at every pass.
* `deal_storage.py:429` keeps in-flight payouts from the timeout handler. Its
  recovery (`FailTimeout`) accepts the transitional status of another handler's
  payout and expires the deal.

## 4. What is proved

For any constants that satisfy the named assumptions of `Payout` (the loop is not
a request handler, `Addressed` is a set of deals, `MaxRetry` is a natural number,
the terms are terms):

* `TypeCorrect`: `Spec => []TypeOK`. One lemma per action.
* `ClaimsHold`: the inductive invariant `Claims`. `PaidOnce` alone is not
  inductive: a task may hold a success of the agent that it has not recorded.
  `Claims` adds that such a task is the only one of its deal (`OkAlone`), that
  its escrow is settled (`OkSettled`) and that nothing is recorded as paid yet
  (`OkUnpaid`). It survives `AgentAnswers` because the agent acts on funded
  escrows only, and a funded escrow has neither such a task nor a paid row. It
  survives `Succeed` because the task is alone. Every other step is `Quiet`: it
  settles no settled escrow, brings no task to this point and records nothing as
  paid, and a quiet step preserves `Claims` (`QuietClaims`).
* `NeverPaidTwice`, `PaidIsSettled`: `PaidOnce` and `PaidMeansSettled`, parts of
  `Claims`.

* `AuthorityHolds`: the inductive invariant `Authority` of `PayoutAuthority`. Who
  may move an escrow is decided in a handler, several awaits before the agent
  acts, so the invariant follows the decision through every place it may rest: a
  user's release task comes after the secret code (`TaskConsent`), a refund
  request on its way after the signature check (`TaskSigned`), the path without
  an address is taken by user requests on deals without both addresses only
  (`TaskAddrs`), rows queued for a retry have an address (`QueueInv`), and a
  request nobody waits for any more was in order when it was sent (`LateInv`).
* `SellerNeedsBuyer`, `BuyerNeedsSignature`: `ReleaseNeedsBuyer` and
  `RefundNeedsSignature`, from the conjunct of `Authority` about the escrow.
* `ClaimedOnce`: `OneTxid`. A txid of a deal with both addresses is written only
  by the task that claimed the escrow (`Claims`), and the path that writes one
  whatever the agent said is not open to such a deal (`Authority`).
* `DoneIsRecorded`: `DoneHasTxid`, from the invariant that a task which remembers
  a final status to roll back to (`prev`) has its txid on the row.

* `KeepsCustody`: `Payout` implements `Custody`. The initial states map to initial
  states. The agent's three ways to carry a request out are `Settle`; that the
  party is entitled then is `Authority`, at the task or the request that moves the
  escrow. The code presented to `release_deal` is `Entitle` (signatures are on file
  from the start). `Succeed` is `Book`; that there is no record yet, of either
  party, and that the escrow is gone, is `Claims`. A step that writes another
  payout status (`Begin`, the error branches, `ParkStalled`) stutters or is `Unbook`;
  all else stutters.

The theorems cover late requests, crashes and cancellations, with any number of
deals and handlers: every safety property the payout runs check is proved.

For any constants that satisfy the assumptions of `Funding` (`None` is not a key,
wallet or escrow; creators and actions are what they say):

* `Invariance`: the inductive invariant `IInv` of `FundingProofs`. `HandedOver` is
  not inductive: a handler writes its escrow id long after it looked at the keys,
  which may be gone from the row by then. `Captured` adds that what a handler
  carries to the agent is a key of each party, and that a funding under way is of
  a deal that names an escrow. `LockHeld` adds that the handler creating an invoice
  is at the head of the lock and that the key it will store is the one stored
  already, if any; nobody else stores one while it holds the lock. `Owned` ties
  wallets to user ids. Handlers that only move on are covered by one lemma
  (`MovesOn`), requests answered at once by another (`RowChanges`).
* `NoneLockedOut`: `NobodyLockedOut`, inductive together with `IInv`: a request joins
  the queue at its end (`QueueGrows`), only its head leaves (`QueueShrinks`), all
  else moves outside the lock or within it (`QueueStays`).
* `FundingTypes`, `FundedIsHandedOver`, `InvoicesApart`: its parts.
* `FundKeyKept`, `WalletKept`: the action properties `FundKeyFixed` and
  `WalletBound`, from `LockHeld` and `Owned`.

For any constants that satisfy the assumptions of `Dispute` (the oracles are
finitely many, the threshold is positive):

* `VerdictsBacked`: the inductive invariant `DInv` of `DisputeProofs`. `OraclesDecide`
  speaks of the step at which an escrow is settled; what makes it hold was
  decided several awaits earlier. `Heard` says that a vote that carries a signature
  was published; `Once` that the agent takes a dispute once per escrow, so that a
  deal is watched at most once and its watch calls back at most once; `OnEnough`
  that a watch that has called back has enough votes for its outcome, signed or
  not. With what the agent checks (`Accepts`), that is enough oracles who have
  published it (`AcceptedBacked`), and `StrayBacked` keeps that for a resolution
  nobody waits for any more.
* `OraclesSettle`: `OraclesDecide`, from `DInv`. Every step of `Payout` leaves a
  disputed escrow alone (its agent acts on funded ones).
* `Implements`: `DisputeSpec => A!Spec`, step by step: by `Once`, `Call` finds no
  verdict yet; a resolution the agent carries out is `Rule`, by `AcceptedBacked` or
  `StrayBacked`; no other step changes verdict or ruling.

* `DisputeSafe`: the inductive invariant `SInv` of `DisputeSafety`: `DInv`, the
  invariants of `PayoutSafety` and `PayoutAuthority`, and `WatchClaims`. A watch
  whose resolution the agent has carried out is to the escrow what a successful
  task is: its escrow is settled as it called for, no task has a success for the
  same deal, nothing is recorded as paid yet. Without it `Claims` is not inductive
  here, for `OracleSucceeds` records a payout that no task claimed. Most of the
  proof is in two observations: a step of a handler, of the loop or of the agent
  is a step of `Payout`, whose lemmas are cited, and leaves the watches alone
  (`Beside`); a step of the dispute leaves tasks, loop and requests alone
  (`Untouched`).
* `DisputePaidOnce`, `DisputePaidIsSettled`, `DisputeDoneIsRecorded`,
  `DisputeTypesHold`: `PaidOnce`, `PaidMeansSettled`, `DoneHasTxid` and the types
  with oracle payouts among the others.
* `DisputeKeepsCustody`: `Dispute` implements `Custody`. New are `OracleAnswers` and
  `StrayDelivery`, which settle for a party enough oracles have published for
  (`AcceptedBacked`, `StrayBacked`), and `OracleSucceeds`, which books after
  `WatchClaims`. Publishing is `Entitle`. A step of `Payout` that settles finds a
  funded escrow, not a disputed one.

For any constants that satisfy the assumptions of `Login`:

* `LoginTyped`, `StoreBounded`, `SessionsFresh`: `TypeOK`, `MemoryBounded` and
  `SessionOfChallenge`. Their conjunction is inductive: whatever sessions have piled
  up, the next challenge cuts them down (`Trimmed`), and until then the store only
  shrinks.
* `OldestGo`: `OnlyOldestEvicted`, from the lemmas about what `_cleanup_expired` leaves
  (`Dropped`, `Stays`).

For any constants that satisfy the assumptions of `RateLimiter` and `Settings`:

* `WindowKept`: `WindowRespected`, from the inductive invariant `LimiterInv`.
  `WindowRespected` is not inductive: a request is judged by what the list holds,
  so it has to be known that what the list does not hold any more is out of the
  window (`Forgotten`). The sweep keeps that although it looks at one request of a
  list only, because that is the last one and the clock does not go back
  (`InOrder`; the variant `StaleFirst`, which looks at the first, breaks it). Then
  (`Spaced`) if the request a limit before the new one were still in the window,
  it and all after it would be in the list, which are as many as the limit: the
  list would be full.
* `LimitsOrdered`, `LimitsUsable`, `CapKept`: `StoredOrdered`, `SomeAmountAllowed` and
  `CapHolds`, from `FileInv`: the stored limits are allowed ones and in order, and
  the deals made are within the cap of the environment that is fixed for the
  process. `SettingsTyped`: the types, from both invariants.

Model-checked only: the liveness properties `UnattendedDealSettles` and
`HonestOraclesDecide`, for fairness is outside the proof system. Every invariant and
every safety property of a passing run is proved.

## 5. Plan

Done: `Payout`, `Funding`, `Dispute`, `Login`, `RateLimiter` and `Settings`, the abstract
specifications `Custody` and `Arbitration` with their refinements, and the proofs.
Left:

1. **What the passing runs do not say yet**: for each of the disagreements of
   section 3, the part of the statement that the code does keep (which rollbacks
   are of unclaimed escrows, say), as a property with its theorem.
2. **The hand-over from `Funding` to `Payout`**: the initial states of `Payout` are
   justified in section 2; a composition in which a late funding handler meets a
   payout would check it.
3. **Shutdown**: the in-flight counter, if it comes to refuse payouts that start
   after it has drained.

## 6. Not modelled

Curve arithmetic and signature verification (`auth/schnorr_verify.py`,
`auth/sig_verify.py`): a signed request is genuine here, and needs its key on file
(`CanSign`); of an event only whether its signature is its key's is known. The LND client (no payout path uses it). The Fedimint backend
(not wired to any route; its oracle listener is the Ark one's twin). WebSockets: a
broadcast goes over a copy of a deal's sockets and decides nothing. Graceful
shutdown: it cuts payouts off at an await, as `Crash` does, and the counter delays
it by at most 30 s; it keeps nothing from starting after `drain` has seen zero.
The kill switch does not reach payouts past its check, which no property depends
on. Health, QR and faucet endpoints (stateless); requests that only read; the
command-line client and the recovery tool; deployment, migrations, logging.
