----------------------------- MODULE LoginProofs -----------------------------
(***************************************************************************)
(* The properties of Login hold for any keys, caps and lifetime.  The      *)
(* bound on the store needs no history: whatever sessions have piled up,   *)
(* the next challenge cuts them down, and until then the store only        *)
(* shrinks.  That nobody's sign-in is cut short but by newer challenges    *)
(* rests on what _cleanup_expired leaves (Stays below).                    *)
(***************************************************************************)
EXTENDS Login, FiniteSetTheorems, TLAPS

\* Sets of k1s are finite, and counted by a natural number.
LEMMA Counted ==
  ASSUME NEW S, S \subseteq K1s
  PROVE  IsFiniteSet(S) /\ Cardinality(S) \in Nat
BY KeysAssumption, FS_Subset, FS_CardinalityType

\* A challenge that is unexpired but does not stay: the store was over its
\* cap, and what stays is no older.
LEMMA Dropped ==
  ASSUME TypeOK, NEW kept \in SUBSET open, KeepsNewest(kept),
         NEW k \in Unexpired, k \notin kept
  PROVE  /\ Cardinality(open) > MaxChallenges
         /\ \A j \in kept : made[k] <= made[j]
<1>1. kept \subseteq Unexpired /\ Unexpired \subseteq open /\ open \subseteq K1s
  BY DEF TypeOK, KeepsNewest, Fitting, Unexpired
<1>2. /\ Cardinality(Unexpired) \in Nat /\ Cardinality(open) \in Nat
      /\ IsFiniteSet(Unexpired) /\ IsFiniteSet(open)
  BY <1>1, Counted
<1>3. Cardinality(Unexpired) <= Cardinality(open)
  BY <1>1, <1>2, FS_Subset
<1>4. Cardinality(kept) = Cardinality(Unexpired) => kept = Unexpired
  BY <1>1, <1>2, FS_Subset
<1>5. Cardinality(Unexpired) > MaxChallenges
  BY <1>4 DEF KeepsNewest, Fitting
<1> QED
  BY <1>2, <1>3, <1>5, CapsAssumption DEF KeepsNewest

\* The session of a challenge that stays, stays.
LEMMA Stays ==
  ASSUME NEW kept, NEW left \in SUBSET verified, Trimmed(kept, left),
         NEW k \in kept, k \in verified
  PROVE  k \in left
BY DEF Trimmed

\* What is left of the store before the new challenge comes in.
LEMMA Cut ==
  ASSUME TypeOK, NEW kept \in SUBSET open, NEW left \in SUBSET verified,
         KeepsNewest(kept), Trimmed(kept, left)
  PROVE  /\ Cardinality(kept) <= MaxChallenges
         /\ \/ left \subseteq kept
            \/ Cardinality(left) <= MaxVerified
<1> DEFINE rest == verified \ (open \ kept)
           orphans == rest \ kept
           excess == IF Cardinality(rest) > MaxVerified
                     THEN Cardinality(rest) - MaxVerified ELSE 0
<1>1. /\ open \subseteq K1s /\ verified \subseteq K1s
      /\ Unexpired \subseteq K1s /\ rest \subseteq K1s
  BY DEF TypeOK, Unexpired
<1>2. /\ left \subseteq rest
      /\ rest \ left \subseteq orphans
      /\ Cardinality(rest \ left) =
           IF Cardinality(orphans) < excess THEN Cardinality(orphans) ELSE excess
  BY DEF Trimmed
<1>3. IsFiniteSet(Unexpired) /\ Cardinality(Unexpired) \in Nat
  BY <1>1, Counted
<1>4. Cardinality(kept) <= MaxChallenges
  BY <1>3, CapsAssumption DEF KeepsNewest, Fitting
<1>5. /\ IsFiniteSet(rest) /\ Cardinality(rest) \in Nat
      /\ IsFiniteSet(orphans) /\ Cardinality(orphans) \in Nat
      /\ IsFiniteSet(left) /\ Cardinality(left) \in Nat
  <2>1. orphans \subseteq K1s /\ left \subseteq K1s
    BY <1>1, <1>2
  <2> QED
    BY <1>1, <2>1, Counted
<1>6. Cardinality(rest \ left) = Cardinality(rest) - Cardinality(left)
  <2>1. rest \cap left = left
    BY <1>2
  <2> QED
    BY <1>5, <2>1, FS_Difference, ZenonT(40)
<1> HIDE DEF rest, orphans
<1>7. CASE Cardinality(orphans) < excess
  <2>1. rest \ left = orphans
    BY <1>2, <1>5, <1>7, FS_Subset
  <2>2. left \subseteq kept
    BY <1>2, <2>1 DEF orphans
  <2> QED
    BY <1>4, <2>2
<1>8. CASE ~(Cardinality(orphans) < excess)
  <2>1. Cardinality(rest) - Cardinality(left) = excess
    BY <1>2, <1>6, <1>8
  <2>2. Cardinality(left) <= MaxVerified
    BY <1>5, <2>1, CapsAssumption
  <2> QED
    BY <1>4, <2>2
<1> QED
  BY <1>7, <1>8

-----------------------------------------------------------------------------
LInv == TypeOK /\ MemoryBounded /\ SessionOfChallenge

LEMMA TimesOK ==
  ASSUME TypeOK, NEW k \in K1s
  PROVE  /\ made[k] \in Nat /\ signed[k] \in Nat /\ now \in Nat /\ Lifetime \in Nat
         /\ made[k] <= now /\ signed[k] <= now
BY LifetimeAssumption DEF TypeOK

LEMMA LoginInit == Init => LInv
<1> SUFFICES ASSUME Init PROVE LInv
  OBVIOUS
<1>1. TypeOK /\ SessionOfChallenge
  BY LifetimeAssumption DEF Init, TypeOK, SessionOfChallenge
<1>2. Cardinality(open \cup verified) = 0
  BY FS_EmptySet DEF Init
<1> QED
  BY <1>1, <1>2, CapsAssumption DEF LInv, MemoryBounded

LEMMA InsertTypes ==
  ASSUME TypeOK, NEW k \in K1s, NEW kept \in SUBSET open, NEW left \in SUBSET verified,
         Insert(k, kept, left)
  PROVE  TypeOK'
<1>1. open' \subseteq K1s /\ verified' \subseteq K1s /\ now' = now /\ signed' = signed
  BY DEF Insert, TypeOK
<1>2. made' \in [K1s -> 0..MaxClock] /\ \A j \in K1s : made'[j] <= now
  BY DEF Insert, TypeOK
<1> QED
  BY <1>1, <1>2 DEF TypeOK

LEMMA InsertSessions ==
  ASSUME TypeOK, SessionOfChallenge,
         NEW k \in K1s, NEW kept \in SUBSET open, NEW left \in SUBSET verified,
         Insert(k, kept, left)
  PROVE  SessionOfChallenge'
<1> SUFFICES ASSUME NEW j \in K1s, j \in open', j \in verified'
             PROVE  made'[j] <= signed'[j] /\ signed'[j] <= made'[j] + Lifetime
  <2>1. open' \subseteq K1s
    BY DEF Insert, TypeOK
  <2> QED
    BY <2>1 DEF SessionOfChallenge
<1>1. j # k /\ j \in open /\ j \in verified
  BY DEF Insert
<1>2. made'[j] = made[j] /\ signed'[j] = signed[j]
  BY <1>1 DEF Insert, TypeOK
<1> QED
  BY <1>1, <1>2 DEF SessionOfChallenge

LEMMA InsertBounded ==
  ASSUME TypeOK, NEW k \in K1s, NEW kept \in SUBSET open, NEW left \in SUBSET verified,
         KeepsNewest(kept), Trimmed(kept, left), Insert(k, kept, left)
  PROVE  MemoryBounded'
<1> DEFINE S == open' \cup verified'
<1>1. S \subseteq (kept \cup {k}) \cup left /\ kept \subseteq K1s /\ left \subseteq K1s
  BY DEF Insert, TypeOK
<1>2. /\ IsFiniteSet(kept) /\ Cardinality(kept) \in Nat
      /\ IsFiniteSet(left) /\ Cardinality(left) \in Nat
      /\ IsFiniteSet(S) /\ Cardinality(S) \in Nat
  <2>1. S \subseteq K1s
    BY <1>1
  <2> QED
    BY <1>1, <2>1, Counted
<1>3. /\ IsFiniteSet(kept \cup {k})
      /\ Cardinality(kept \cup {k}) \in Nat
      /\ Cardinality(kept \cup {k}) <= MaxChallenges + 1
  <2>1. Cardinality(kept) <= MaxChallenges
    BY Cut
  <2>2. /\ IsFiniteSet(kept \cup {k})
        /\ Cardinality(kept \cup {k}) = IF k \in kept THEN Cardinality(kept)
                                         ELSE Cardinality(kept) + 1
    BY <1>2, FS_AddElement
  <2> QED
    BY <1>2, <2>1, <2>2, CapsAssumption
<1>4. CASE left \subseteq kept
  <2>1. S \subseteq kept \cup {k}
    BY <1>1, <1>4
  <2>2. Cardinality(S) <= Cardinality(kept \cup {k})
    BY <1>3, <2>1, FS_Subset
  <2> HIDE DEF S
  <2>3. Cardinality(S) <= MaxChallenges + MaxVerified + 1
    BY <1>2, <1>3, <2>2, CapsAssumption
  <2> QED
    BY <2>3 DEF S, MemoryBounded
<1>5. CASE Cardinality(left) <= MaxVerified
  <2> DEFINE U == (kept \cup {k}) \cup left
  <2>1. /\ IsFiniteSet(U)
        /\ Cardinality(U) = Cardinality(kept \cup {k}) + Cardinality(left)
                              - Cardinality((kept \cup {k}) \cap left)
    BY <1>2, <1>3, FS_Union
  <2>2. Cardinality((kept \cup {k}) \cap left) \in Nat
    BY <1>2, FS_Intersection, FS_CardinalityType
  <2>3. Cardinality(S) <= Cardinality(U)
    BY <1>1, <2>1, FS_Subset
  <2> HIDE DEF S, U
  <2>4. Cardinality(S) <= MaxChallenges + MaxVerified + 1
    BY <1>2, <1>3, <1>5, <2>1, <2>2, <2>3, CapsAssumption
  <2> QED
    BY <2>4 DEF S, MemoryBounded
<1> QED
  BY <1>4, <1>5, Cut

LEMMA StepCreate ==
  ASSUME LInv, NEW k \in K1s, CreateChallenge(k)
  PROVE  LInv'
<1>1. PICK kept \in SUBSET open, left \in SUBSET verified :
        KeepsNewest(kept) /\ Trimmed(kept, left) /\ Insert(k, kept, left)
  BY DEF CreateChallenge
<1> QED
  BY <1>1, InsertTypes, InsertSessions, InsertBounded DEF LInv

\* A store that does not grow stays within its bound.
LEMMA Shrinks ==
  ASSUME TypeOK, MemoryBounded, open' \cup verified' \subseteq open \cup verified
  PROVE  MemoryBounded'
<1> DEFINE S == open \cup verified
           T == open' \cup verified'
<1>1. S \subseteq K1s /\ T \subseteq S
  BY DEF TypeOK
<1>2. T \subseteq K1s
  BY <1>1
<1>3. IsFiniteSet(S) /\ Cardinality(S) \in Nat /\ Cardinality(T) \in Nat
  BY <1>1, <1>2, Counted
<1>4. Cardinality(T) <= Cardinality(S)
  BY <1>1, <1>3, FS_Subset
<1>5. Cardinality(S) <= MaxChallenges + MaxVerified + 1
  BY DEF MemoryBounded
<1> HIDE DEF S, T
<1>6. Cardinality(T) <= MaxChallenges + MaxVerified + 1
  BY <1>3, <1>4, <1>5, CapsAssumption
<1> QED
  BY <1>6 DEF T, MemoryBounded

LEMMA StepVerify ==
  ASSUME LInv, NEW k \in K1s, Verify(k)
  PROVE  LInv'
<1>1. TypeOK'
  BY DEF LInv, TypeOK, Verify
<1>2. SessionOfChallenge'
  <2> SUFFICES ASSUME NEW j \in K1s, j \in open', j \in verified'
               PROVE  made'[j] <= signed'[j] /\ signed'[j] <= made'[j] + Lifetime
    BY <1>1 DEF SessionOfChallenge, TypeOK
  <2>1. made' = made /\ j \in open
    BY DEF Verify
  <2>2. CASE j = k
    <3>1. signed'[j] = now
      BY <2>2 DEF Verify, LInv, TypeOK
    <3> QED
      BY <2>1, <2>2, <3>1, TimesOK DEF Verify, Expired, LInv
  <2>3. CASE j # k
    <3>1. signed'[j] = signed[j] /\ j \in verified
      BY <2>3 DEF Verify, LInv, TypeOK
    <3> QED
      BY <2>1, <3>1 DEF LInv, SessionOfChallenge
  <2> QED
    BY <2>2, <2>3
<1>3. MemoryBounded'
  <2>1. open' \cup verified' \subseteq open \cup verified
    BY DEF Verify
  <2> QED
    BY <2>1, Shrinks DEF LInv
<1> QED
  BY <1>1, <1>2, <1>3 DEF LInv

LEMMA StepVerifyExpired ==
  ASSUME LInv, NEW k \in K1s, VerifyExpired(k)
  PROVE  LInv'
<1>1. TypeOK' /\ SessionOfChallenge'
  BY DEF LInv, TypeOK, VerifyExpired, SessionOfChallenge
<1>2. open' \cup verified' \subseteq open \cup verified
  BY DEF VerifyExpired
<1> QED
  BY <1>1, <1>2, Shrinks DEF LInv

LEMMA StepLogin == LInv /\ [Next]_vars => LInv'
<1> SUFFICES ASSUME LInv, [Next]_vars PROVE LInv'
  OBVIOUS
<1>1. ASSUME NEW k \in DealKeys, DealChallenge(k) PROVE LInv'
  BY <1>1, StepCreate DEF DealChallenge, K1s
<1>2. ASSUME NEW k \in LoginKeys, LoginChallenge(k) PROVE LInv'
  BY <1>2, StepCreate DEF LoginChallenge, K1s
<1>3. ASSUME NEW k \in K1s, Verify(k) PROVE LInv'
  BY <1>3, StepVerify
<1>4. ASSUME NEW k \in K1s, VerifyExpired(k) PROVE LInv'
  BY <1>4, StepVerifyExpired
<1>5. CASE Tick
  <2>1. now' = now + 1 /\ now' \in 0..MaxClock /\ UNCHANGED <<open, made, verified, signed>>
    BY <1>5, LifetimeAssumption DEF Tick, LInv, TypeOK
  <2>2. \A k \in K1s : made'[k] <= now' /\ signed'[k] <= now'
    BY <2>1, TimesOK DEF LInv
  <2>3. TypeOK'
    BY <2>1, <2>2 DEF LInv, TypeOK
  <2> QED
    BY <2>1, <2>3 DEF LInv, MemoryBounded, SessionOfChallenge
<1>6. CASE UNCHANGED vars
  BY <1>6 DEF vars, LInv, TypeOK, MemoryBounded, SessionOfChallenge
<1> QED
  BY <1>1, <1>2, <1>3, <1>4, <1>5, <1>6 DEF Next, Callback

LEMMA LoginAlways == Spec => []LInv
BY LoginInit, StepLogin, PTL DEF Spec

(* Challenges and sessions are of known k1s, and no time on them is ahead   *)
(* of the clock: expiry is decided by times that have passed.               *)
THEOREM LoginTyped == Spec => []TypeOK
<1>1. LInv => TypeOK
  BY DEF LInv
<1> QED
  BY <1>1, LoginAlways, PTL

(* The store of LNURLAuthManager does not outgrow its caps, however many    *)
(* sessions outlive their challenges.                                       *)
THEOREM StoreBounded == Spec => []MemoryBounded
<1>1. LInv => MemoryBounded
  BY DEF LInv
<1> QED
  BY <1>1, LoginAlways, PTL

(* A session in the store belongs to the challenge beside it: none is taken *)
(* over by a later challenge of the same k1.                                *)
THEOREM SessionsFresh == Spec => []SessionOfChallenge
<1>1. LInv => SessionOfChallenge
  BY DEF LInv
<1> QED
  BY <1>1, LoginAlways, PTL

-----------------------------------------------------------------------------
LEMMA ActiveTimes ==
  ASSUME TypeOK, NEW k \in K1s, Active(k)
  PROVE  k \in Unexpired
BY TimesOK DEF Active, Unexpired, Expired

LEMMA CreateEvicts ==
  ASSUME TypeOK, NEW j \in K1s, CreateChallenge(j), NEW k \in K1s \ {j}, Active(k),
         k \notin open' \/ (k \in verified /\ k \notin verified')
  PROVE  /\ Cardinality(open) > MaxChallenges
         /\ \A i \in open \cap open' : made'[i] >= made[k]
<1>1. PICK kept \in SUBSET open, left \in SUBSET verified :
        KeepsNewest(kept) /\ Trimmed(kept, left) /\ Insert(j, kept, left)
  BY DEF CreateChallenge
<1>2. k \notin kept
  BY <1>1, Stays DEF Insert
<1>3. /\ Cardinality(open) > MaxChallenges
      /\ \A i \in kept : made[k] <= made[i]
  BY <1>1, <1>2, ActiveTimes, Dropped
<1>4. ASSUME NEW i \in open, i \in open' PROVE made'[i] >= made[k]
  <2>1. i \in K1s /\ (i = j \/ i \in kept)
    BY <1>1, <1>4 DEF Insert, TypeOK
  <2>2. CASE i = j
    <3>1. made'[i] = now
      BY <1>1, <2>1, <2>2 DEF Insert, TypeOK
    <3> QED
      BY <3>1, TimesOK
  <2>3. CASE i # j
    <3>1. made'[i] = made[i] /\ i \in kept
      BY <1>1, <2>1, <2>3 DEF Insert, TypeOK
    <3> QED
      BY <1>3, <2>1, <3>1, TimesOK
  <2> QED
    BY <2>2, <2>3
<1> QED
  BY <1>3, <1>4

(* No sign-in to a deal is cut short but by a full store, and then no older *)
(* one stays: what _cleanup_expired drops is the oldest.                    *)
THEOREM OldestGo == Spec => OnlyOldestEvicted
<1> DEFINE Goes(k) == k \notin open' \/ (k \in verified /\ k \notin verified')
           Just(k) == /\ Cardinality(open) > MaxChallenges
                      /\ \A j \in open \cap open' : made'[j] >= made[k]
<1>1. ASSUME TypeOK, [Next]_vars, NEW k \in DealKeys, Active(k), Goes(k)
      PROVE  Just(k)
  <2>1. k \in K1s /\ k \notin LoginKeys
    BY KeysAssumption DEF K1s
  <2>2. ASSUME NEW j \in DealKeys, DealChallenge(j) PROVE Just(k)
    <3>1. k # j
      BY <1>1, <2>2 DEF DealChallenge
    <3> QED
      BY <1>1, <2>1, <2>2, <3>1, CreateEvicts DEF DealChallenge, K1s
  <2>3. ASSUME NEW j \in LoginKeys, LoginChallenge(j) PROVE Just(k)
    <3>1. k # j
      BY <2>1
    <3> QED
      BY <1>1, <2>1, <2>3, <3>1, CreateEvicts DEF LoginChallenge, K1s
  <2>4. ASSUME NEW j \in K1s, Verify(j) PROVE FALSE
    BY <1>1, <2>4 DEF Verify, Active
  <2>5. ASSUME NEW j \in K1s, VerifyExpired(j) PROVE FALSE
    <3>1. k # j
      BY <1>1, <2>1, <2>5, TimesOK DEF VerifyExpired, Expired, Active
    <3> QED
      BY <1>1, <2>5, <3>1 DEF VerifyExpired, Active
  <2>6. CASE Tick
    BY <1>1, <2>6 DEF Tick, Active
  <2>7. CASE UNCHANGED vars
    BY <1>1, <2>7 DEF vars, Active
  <2> QED
    BY <1>1, <2>2, <2>3, <2>4, <2>5, <2>6, <2>7 DEF Next, Callback
<1>2. TypeOK /\ [Next]_vars =>
        [\A k \in DealKeys : Active(k) /\ Goes(k) => Just(k)]_vars
  BY <1>1
<1>3. LInv => TypeOK
  BY DEF LInv
<1> QED
  BY <1>2, <1>3, LoginAlways, PTL DEF Spec, OnlyOldestEvicted

=============================================================================
