-------------------------------- MODULE Login --------------------------------
(***************************************************************************)
(* The LNURL-auth sign-in: LNURLAuthManager's challenges and sessions, and *)
(* the requests that use them.                                             *)
(*                                                                         *)
(* A k1 is the hash of a deal and a role, or of the one name all global    *)
(* logins (all admin logins) share: the same request always gives the same *)
(* k1.  Whoever signs it last is the wallet of the session; which wallet   *)
(* that is makes no difference here.                                       *)
(*                                                                         *)
(* No handler awaits anything between its reads and its writes: each is    *)
(* one action.  Status polls and the list of a wallet's deals only read    *)
(* the store, and registering a key is an action of Funding.               *)
(***************************************************************************)
EXTENDS Naturals, FiniteSets

CONSTANTS
  DealKeys,       \* k1 of the roles of deals
  LoginKeys,      \* k1 of the global and of the admin login
  Lifetime,       \* expires_minutes
  MaxChallenges,  \* _MAX_CHALLENGES
  MaxVerified,    \* _MAX_VERIFIED
  MaxClock        \* bound: the time a run ends at

K1s == DealKeys \cup LoginKeys

ASSUME KeysAssumption == IsFiniteSet(K1s) /\ DealKeys \cap LoginKeys = {}
ASSUME LifetimeAssumption == Lifetime \in Nat /\ MaxClock \in Nat
ASSUME CapsAssumption == MaxChallenges \in Nat /\ MaxVerified \in Nat

VARIABLES
  now,       \* the time
  open,      \* the k1s in _challenges
  made,      \* created_at of a challenge
  verified,  \* the k1s in _verified
  signed     \* history: when the wallet of a session has signed

vars == <<now, open, made, verified, signed>>

TypeOK ==
  /\ now \in 0..MaxClock
  /\ open \subseteq K1s
  /\ verified \subseteq K1s
  /\ made \in [K1s -> 0..MaxClock]
  /\ signed \in [K1s -> 0..MaxClock]
  /\ \A k \in K1s : made[k] <= now /\ signed[k] <= now

Init ==
  /\ now = 0
  /\ open = {}
  /\ made = [k \in K1s |-> 0]
  /\ verified = {}
  /\ signed = [k \in K1s |-> 0]

Tick ==
  /\ now < MaxClock
  /\ now' = now + 1
  /\ UNCHANGED <<open, made, verified, signed>>

-----------------------------------------------------------------------------
\* now > expires_at, and now < expires_at.
Expired(k) == now > made[k] + Lifetime
Active(k) == k \in open /\ now < made[k] + Lifetime

(***************************************************************************)
(* _cleanup_expired, and the insertion that always follows it.             *)
(***************************************************************************)
Unexpired == {k \in open : ~Expired(k)}

\* As many of the unexpired challenges as the cap allows.
Fitting(kept) ==
  /\ kept \subseteq Unexpired
  /\ Cardinality(kept) = IF Cardinality(Unexpired) > MaxChallenges
                         THEN MaxChallenges ELSE Cardinality(Unexpired)

\* Variant: the newest are dropped.
KeepsOldest(kept) ==
  /\ Fitting(kept)
  /\ \A k \in kept, d \in Unexpired \ kept : made[d] >= made[k]

\* The challenges that stay: over the cap the oldest are dropped.  (Equal times
\* are told apart by the order of the dictionary, here any order.)
KeepsNewest(kept) ==
  /\ Fitting(kept)
  /\ \A k \in kept, d \in Unexpired \ kept : made[d] <= made[k]

\* Variant: sessions without a challenge are not looked at.
TrimmedNever(kept, left) == left = verified \ (open \ kept)

\* The sessions that stay: those of dropped challenges go with them, and if there
\* are still too many, sessions without a challenge, as many as are too many.
Trimmed(kept, left) ==
  LET rest == verified \ (open \ kept)
      excess == IF Cardinality(rest) > MaxVerified THEN Cardinality(rest) - MaxVerified ELSE 0
      orphans == rest \ kept
  IN  /\ left \subseteq rest
      /\ rest \ left \subseteq orphans
      /\ Cardinality(rest \ left) =
           IF Cardinality(orphans) < excess THEN Cardinality(orphans) ELSE excess

\* Variant: the session of an earlier challenge stays.
InsertKeeping(k, kept, left) ==
  /\ open' = kept \cup {k}
  /\ made' = [made EXCEPT ![k] = now]
  /\ verified' = left
  /\ UNCHANGED <<now, signed>>

\* Variant: the time it expires is taken for the time it was made.
InsertLater(k, kept, left) ==
  /\ open' = kept \cup {k}
  /\ made' = [made EXCEPT ![k] = now + Lifetime]
  /\ verified' = left \ {k}
  /\ UNCHANGED <<now, signed>>

\* The new challenge replaces one of the same k1, and ends its session.
Insert(k, kept, left) ==
  /\ open' = kept \cup {k}
  /\ made' = [made EXCEPT ![k] = now]
  /\ verified' = left \ {k}
  /\ UNCHANGED <<now, signed>>

CreateChallenge(k) ==
  \E kept \in SUBSET open, left \in SUBSET verified :
    KeepsNewest(kept) /\ Trimmed(kept, left) /\ Insert(k, kept, left)

-----------------------------------------------------------------------------
(***************************************************************************)
(* The requests.                                                           *)
(***************************************************************************)

\* The challenge of a deal's role: an active one is given out again.
DealChallenge(k) ==
  /\ ~Active(k)
  /\ CreateChallenge(k)

\* The global login and the admin login: always a new one.
LoginChallenge(k) == CreateChallenge(k)

\* A callback with a valid signature comes in time.
Verify(k) ==
  /\ k \in open
  /\ ~Expired(k)
  /\ verified' = verified \cup {k}
  /\ signed' = [signed EXCEPT ![k] = now]
  /\ UNCHANGED <<now, open, made>>

\* A callback comes too late: the challenge is dropped, a session it has is not.
VerifyExpired(k) ==
  /\ k \in open
  /\ Expired(k)
  /\ open' = open \ {k}
  /\ UNCHANGED <<now, made, verified, signed>>

\* The wallet's callback.  Without a challenge, or with a signature that is not
\* valid, it changes nothing.
Callback(k) == Verify(k) \/ VerifyExpired(k)

Next ==
  \/ \E k \in DealKeys : DealChallenge(k)
  \/ \E k \in LoginKeys : LoginChallenge(k)
  \/ \E k \in K1s : Callback(k)
  \/ Tick

Spec == Init /\ [][Next]_vars

-----------------------------------------------------------------------------
(***************************************************************************)
(* What holds                                                              *)
(***************************************************************************)
(* The store does not grow without bound ("Hard cap to prevent memory DoS", *)
(* _MAX_CHALLENGES): sessions whose challenge is gone are only dropped when *)
(* the next challenge is made, and those with one not at all, so both caps  *)
(* may be full, with the challenge just made on top.                        *)
MemoryBounded ==
  Cardinality(open \cup verified) <= MaxChallenges + MaxVerified + 1

(* A session beside a challenge belongs to that challenge: the wallet has   *)
(* signed it, not an earlier one of the same k1, and before it expired,     *)
(* although the k1 is the same for ever and sessions outlive challenges.    *)
SessionOfChallenge ==
  \A k \in open \cap verified :
    made[k] <= signed[k] /\ signed[k] <= made[k] + Lifetime

(* Nobody who asks for challenges can end a sign-in to a deal under way: a  *)
(* challenge of a deal that is active, and its session, go only when the    *)
(* store is over its cap, and then no older challenge stays.                *)
OnlyOldestEvicted ==
  [][\A k \in DealKeys :
       (Active(k) /\ (k \notin open' \/ (k \in verified /\ k \notin verified'))) =>
          /\ Cardinality(open) > MaxChallenges
          /\ \A j \in open \cap open' : made'[j] >= made[k]]_vars

=============================================================================
