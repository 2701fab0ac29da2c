--------------------------- MODULE SettingsProofs ---------------------------
(***************************************************************************)
(* What RateLimiter promises of windows holds for any limits, windows and  *)
(* sweeps (LimiterInv), and what Settings promises of amounts for any      *)
(* amounts, bounds and environments, whatever the rate limiter lets        *)
(* through: FileInv speaks of the file, the environment and the deals      *)
(* alone.                                                                  *)
(***************************************************************************)
EXTENDS Settings, FiniteSetTheorems, TLAPS

-----------------------------------------------------------------------------
(***************************************************************************)
(* The rate limiter                                                        *)
(*                                                                         *)
(* WindowRespected is not inductive: it has to be known that what a list   *)
(* does not hold any more is out of the window (Forgotten), also after the *)
(* sweep, which looks at the last request of a list only.  That is enough  *)
(* because the clock does not go back (InOrder).                           *)
(***************************************************************************)

InOrder ==
  \A k \in RateKeys : \A i, j \in 1..Len(admitted[k]) :
    /\ i <= j => admitted[k][i] <= admitted[k][j]
    /\ admitted[k][i] <= now

Forgotten ==
  \A k \in RateKeys : \A i \in 1..Len(admitted[k]) :
    i \notin requests[k] => ~InWindow(admitted[k][i])

LimiterInv == LimiterTypes /\ InOrder /\ Forgotten /\ WindowRespected

LEMMA Constants ==
  /\ Window \in Nat \ {0} /\ Interval \in Nat \ {0} /\ MaxClock \in Nat
  /\ \A k \in RateKeys : Limits[k[2]] \in Nat \ {0}
BY LimitsAssumption, WindowAssumption, ClockAssumption DEF RateKeys

LEMMA ListFacts ==
  ASSUME LimiterTypes, NEW k \in RateKeys
  PROVE  /\ Len(admitted[k]) \in Nat
         /\ \A i \in 1..Len(admitted[k]) : admitted[k][i] \in Nat
         /\ requests[k] \subseteq 1..Len(admitted[k])
         /\ IsFiniteSet(requests[k])
         /\ now \in Nat
<1>1. admitted[k] \in Seq(0..MaxClock) /\ requests[k] \subseteq 1..Len(admitted[k]) /\ now \in Nat
  BY Constants DEF LimiterTypes
<1>2. Len(admitted[k]) \in Nat /\ \A i \in 1..Len(admitted[k]) : admitted[k][i] \in Nat
  BY <1>1, Constants
<1>3. IsFiniteSet(1..Len(admitted[k]))
  BY <1>2, FS_Interval
<1> QED
  BY <1>1, <1>2, <1>3, FS_Subset

\* What the pruning and the sweep leave of a list, and what they drop.
LEMMA SweptFacts ==
  ASSUME LimiterInv, NEW k \in RateKeys, NEW j \in RateKeys
  PROVE  /\ Swept(k) = [x \in RateKeys |-> Swept(k)[x]]
         /\ Swept(k)[j] \subseteq requests[j]
         /\ \A i \in requests[j] \ Swept(k)[j] : ~InWindow(admitted[j][i])
         /\ \A i \in Swept(k)[k] : InWindow(admitted[k][i])
<1>1. /\ Pruned(k) = [x \in RateKeys |-> Pruned(k)[x]]
      /\ \A x \in RateKeys : Pruned(k)[x] = IF x = k THEN {i \in requests[k] : InWindow(admitted[k][i])}
                                            ELSE requests[x]
  BY DEF Pruned, LimiterInv, LimiterTypes
<1>2. /\ Pruned(k)[j] \subseteq requests[j]
      /\ \A i \in requests[j] \ Pruned(k)[j] : ~InWindow(admitted[j][i])
  BY <1>1
<1>3. ASSUME Stale(j, Pruned(k)[j]), NEW i \in Pruned(k)[j]
      PROVE  ~InWindow(admitted[j][i])
  <2>1. PICK m \in Pruned(k)[j] : (\A n \in Pruned(k)[j] : n <= m) /\ admitted[j][m] + Window < now
    BY <1>3 DEF Stale
  <2>2. i \in 1..Len(admitted[j]) /\ m \in 1..Len(admitted[j]) /\ i <= m
    BY <1>2, <2>1, ListFacts DEF LimiterInv
  <2>3. admitted[j][i] <= admitted[j][m]
    BY <2>2 DEF LimiterInv, InOrder
  <2> QED
    BY <2>1, <2>2, <2>3, ListFacts, Constants DEF InWindow, LimiterInv
<1>4. CASE counter + 1 >= Interval
  <2>1. Swept(k) = [x \in RateKeys |-> IF Stale(x, Pruned(k)[x]) THEN {} ELSE Pruned(k)[x]]
    BY <1>4 DEF Swept
  <2>2. \A x \in RateKeys : Swept(k)[x] = IF Stale(x, Pruned(k)[x]) THEN {} ELSE Pruned(k)[x]
    BY <2>1
  <2>3. Swept(k) = [x \in RateKeys |-> Swept(k)[x]]
    BY <2>1, <2>2
  <2> QED
    BY <1>1, <1>2, <1>3, <2>2, <2>3
<1>5. CASE ~(counter + 1 >= Interval)
  BY <1>1, <1>2, <1>5 DEF Swept
<1> QED
  BY <1>4, <1>5

\* The lists after a request: those swept, with the request in its own.
LEMMA SweptStep ==
  ASSUME LimiterInv, NEW k \in RateKeys, requests' = Swept(k), counter' = NextCounter,
         UNCHANGED <<now, admitted>>
  PROVE  LimiterInv'
<1>1. requests' \in [RateKeys -> SUBSET Nat]
  BY SweptFacts DEF LimiterInv, LimiterTypes
<1>2. ASSUME NEW j \in RateKeys
      PROVE  /\ requests'[j] \subseteq 1..Len(admitted[j])
             /\ Cardinality(requests'[j]) <= Limits[j[2]]
  <2>1. requests'[j] \subseteq requests[j]
    BY SweptFacts
  <2>2. /\ Cardinality(requests'[j]) <= Cardinality(requests[j])
        /\ IsFiniteSet(requests'[j])
    BY <2>1, ListFacts, FS_Subset DEF LimiterInv
  <2>3. Cardinality(requests'[j]) \in Nat /\ Cardinality(requests[j]) \in Nat
    BY <2>2, ListFacts, FS_CardinalityType DEF LimiterInv
  <2> QED
    BY <2>1, <2>2, <2>3, ListFacts, Constants DEF LimiterInv, LimiterTypes
<1>3. counter' \in 0..(Interval - 1)
  BY Constants DEF NextCounter, LimiterInv, LimiterTypes
<1>4. LimiterTypes'
  BY <1>1, <1>2, <1>3 DEF LimiterInv, LimiterTypes
<1>5. InOrder' /\ WindowRespected'
  BY DEF LimiterInv, InOrder, WindowRespected
<1>6. Forgotten'
  BY SweptFacts DEF LimiterInv, Forgotten, InWindow
<1> QED
  BY <1>4, <1>5, <1>6 DEF LimiterInv

\* The new request is out of reach of the one a limit of requests before it:
\* else that one and all after it would be in the list, and the list full.
LEMMA Spaced ==
  ASSUME LimiterInv, NEW k \in RateKeys, ~Full(k),
         NEW i \in 1..Len(admitted[k]), i + Limits[k[2]] = Len(admitted[k]) + 1
  PROVE  admitted[k][i] + Window <= now
<1> SUFFICES ASSUME InWindow(admitted[k][i]) PROVE FALSE
  BY ListFacts, Constants DEF InWindow, LimiterInv
<1> DEFINE n == Len(admitted[k])
           last == i..n
<1>1. n \in Nat /\ i \in 1..n /\ Limits[k[2]] \in Nat \ {0}
  BY ListFacts, Constants DEF LimiterInv
<1>2. ASSUME NEW j \in last PROVE j \in Swept(k)[k]
  <2>1. j \in 1..n /\ i <= j
    BY <1>1
  <2>2. admitted[k][i] <= admitted[k][j]
    BY <2>1 DEF LimiterInv, InOrder
  <2>3. InWindow(admitted[k][j])
    <3>1. admitted[k][i] \in Nat /\ admitted[k][j] \in Nat /\ now \in Nat
      BY <2>1, ListFacts DEF LimiterInv
    <3> QED
      BY <2>2, <3>1, Constants DEF InWindow
  <2>4. j \in requests[k]
    BY <2>1, <2>3 DEF LimiterInv, Forgotten
  <2> QED
    BY <2>3, <2>4, SweptFacts
<1>3. last \subseteq Swept(k)[k]
  BY <1>2
<1>4. Cardinality(last) = Limits[k[2]]
  <2>1. Cardinality(last) = n - i + 1
    BY <1>1, FS_Interval
  <2> QED
    BY <1>1, <2>1
<1>5. IsFiniteSet(Swept(k)[k])
  BY SweptFacts, ListFacts, FS_Subset DEF LimiterInv
<1>6. Cardinality(last) <= Cardinality(Swept(k)[k]) /\ Cardinality(Swept(k)[k]) \in Nat
  BY <1>3, <1>5, FS_Subset, FS_CardinalityType
<1> QED
  BY <1>1, <1>4, <1>6 DEF Full

\* The admission times with that of the new request.
LEMMA Appended ==
  ASSUME LimiterInv, NEW k \in RateKeys,
         admitted' = [admitted EXCEPT ![k] = Append(@, now)]
  PROVE  /\ admitted' \in [RateKeys -> Seq(0..MaxClock)]
         /\ \A j \in RateKeys : j # k => admitted'[j] = admitted[j]
         /\ Len(admitted'[k]) = Len(admitted[k]) + 1
         /\ \A i \in 1..Len(admitted[k]) : admitted'[k][i] = admitted[k][i]
         /\ admitted'[k][Len(admitted[k]) + 1] = now
<1>1. /\ admitted \in [RateKeys -> Seq(0..MaxClock)] /\ admitted[k] \in Seq(0..MaxClock)
      /\ now \in 0..MaxClock
  BY DEF LimiterInv, LimiterTypes
<1>2. /\ Append(admitted[k], now) \in Seq(0..MaxClock)
      /\ Len(Append(admitted[k], now)) = Len(admitted[k]) + 1
      /\ \A i \in 1..Len(admitted[k]) : Append(admitted[k], now)[i] = admitted[k][i]
      /\ Append(admitted[k], now)[Len(admitted[k]) + 1] = now
  BY <1>1
<1>3. admitted'[k] = Append(admitted[k], now)
  BY <1>1
<1> QED
  BY <1>1, <1>2, <1>3

LEMMA AdmitStep ==
  ASSUME LimiterInv, NEW ip \in Ips, NEW c \in Categories, Admit(ip, c)
  PROVE  LimiterInv'
<1> DEFINE k == <<ip, c>>
           n == Len(admitted[k])
<1>1. /\ k \in RateKeys /\ ~Full(k) /\ now' = now /\ counter' = NextCounter
      /\ admitted' = [admitted EXCEPT ![k] = Append(@, now)]
      /\ requests' = [Swept(k) EXCEPT ![k] = @ \cup {n + 1}]
  BY DEF Admit, RateKeys
<1> HIDE DEF k
<1>2. n \in Nat /\ now \in Nat /\ Limits[k[2]] \in Nat \ {0}
  BY <1>1, ListFacts, Constants DEF LimiterInv
<1>3. /\ admitted' \in [RateKeys -> Seq(0..MaxClock)]
      /\ \A j \in RateKeys : j # k => admitted'[j] = admitted[j]
      /\ Len(admitted'[k]) = n + 1
      /\ \A i \in 1..n : admitted'[k][i] = admitted[k][i]
      /\ admitted'[k][n + 1] = now
  BY <1>1, Appended
<1>4. /\ \A j \in RateKeys : j # k => requests'[j] = Swept(k)[j]
      /\ requests'[k] = Swept(k)[k] \cup {n + 1}
      /\ requests' = [j \in RateKeys |-> requests'[j]]
  <2>1. Swept(k) = [j \in RateKeys |-> Swept(k)[j]]
    BY <1>1, SweptFacts
  <2> QED
    BY <1>1, <2>1
<1>5. ASSUME NEW j \in RateKeys
      PROVE  /\ Swept(k)[j] \subseteq 1..Len(admitted[j])
             /\ IsFiniteSet(Swept(k)[j])
             /\ Cardinality(Swept(k)[j]) <= Limits[j[2]]
  <2>1. Swept(k)[j] \subseteq requests[j]
    BY <1>1, SweptFacts
  <2>2. /\ requests[j] \subseteq 1..Len(admitted[j]) /\ IsFiniteSet(requests[j])
        /\ Cardinality(requests[j]) <= Limits[j[2]] /\ Limits[j[2]] \in Nat
    BY ListFacts, Constants DEF LimiterInv, LimiterTypes
  <2>3. IsFiniteSet(Swept(k)[j]) /\ Cardinality(Swept(k)[j]) <= Cardinality(requests[j])
    BY <2>1, <2>2, FS_Subset
  <2>4. Cardinality(Swept(k)[j]) \in Nat /\ Cardinality(requests[j]) \in Nat
    BY <2>2, <2>3, FS_CardinalityType
  <2> QED
    BY <2>1, <2>2, <2>3, <2>4
<1>6. ASSUME NEW j \in RateKeys
      PROVE  /\ requests'[j] \subseteq 1..Len(admitted'[j])
             /\ Cardinality(requests'[j]) <= Limits[j[2]]
  <2>1. CASE j # k
    BY <2>1, <1>3, <1>4, <1>5
  <2>2. CASE j = k
    <3>1. n + 1 \notin Swept(k)[k]
      BY <1>1, <1>2, <1>5
    <3>2. Cardinality(requests'[k]) = Cardinality(Swept(k)[k]) + 1
      BY <1>1, <1>4, <1>5, <3>1, FS_AddElement
    <3>3. Cardinality(Swept(k)[k]) < Limits[k[2]] /\ Cardinality(Swept(k)[k]) \in Nat
      BY <1>1, <1>2, <1>5, FS_CardinalityType DEF Full
    <3>4. Swept(k)[k] \cup {n + 1} \subseteq 1..(n + 1)
      BY <1>1, <1>2, <1>5
    <3> QED
      BY <2>2, <1>2, <1>3, <1>4, <3>2, <3>3, <3>4
  <2> QED
    BY <2>1, <2>2
<1>7. LimiterTypes'
  <2>1. requests' \in [RateKeys -> SUBSET Nat]
    <3>1. ASSUME NEW j \in RateKeys PROVE requests'[j] \subseteq Nat
      BY <1>2, <1>4, <1>5, ListFacts DEF LimiterInv
    <3> QED
      BY <1>4, <3>1
  <2>2. counter' \in 0..(Interval - 1)
    BY <1>1, Constants DEF NextCounter, LimiterInv, LimiterTypes
  <2> QED
    BY <1>1, <1>3, <1>6, <2>1, <2>2 DEF LimiterInv, LimiterTypes
<1>8. InOrder'
  <2> SUFFICES ASSUME NEW j \in RateKeys, NEW a \in 1..Len(admitted'[j]),
                      NEW b \in 1..Len(admitted'[j])
               PROVE  /\ a <= b => admitted'[j][a] <= admitted'[j][b]
                      /\ admitted'[j][a] <= now
    BY <1>1 DEF InOrder
  <2>1. CASE j # k
    BY <2>1, <1>3 DEF LimiterInv, InOrder
  <2>2. CASE j = k
    <3>1. \A x \in 1..n : admitted'[k][x] = admitted[k][x] /\ admitted[k][x] <= now
      BY <1>1, <1>3 DEF LimiterInv, InOrder
    <3>2. CASE b = n + 1
      BY <2>2, <3>1, <3>2, <1>2, <1>3
    <3>3. CASE a = n + 1
      BY <2>2, <3>3, <1>2, <1>3
    <3>4. CASE a \in 1..n /\ b \in 1..n
      BY <2>2, <3>1, <3>4, <1>1 DEF LimiterInv, InOrder
    <3> QED
      BY <2>2, <3>2, <3>3, <3>4, <1>2, <1>3
  <2> QED
    BY <2>1, <2>2
<1>9. Forgotten'
  <2> SUFFICES ASSUME NEW j \in RateKeys, NEW i \in 1..Len(admitted'[j]), i \notin requests'[j]
               PROVE  ~InWindow(admitted'[j][i])
    BY <1>1 DEF Forgotten, InWindow
  <2>1. i \in 1..Len(admitted[j]) /\ i \notin Swept(k)[j] /\ admitted'[j][i] = admitted[j][i]
    <3>1. CASE j # k
      BY <3>1, <1>3, <1>4
    <3>2. CASE j = k
      BY <3>2, <1>2, <1>3, <1>4
    <3> QED
      BY <3>1, <3>2
  <2> QED
    BY <2>1, <1>1, SweptFacts DEF LimiterInv, Forgotten
<1>10. WindowRespected'
  <2> SUFFICES ASSUME NEW j \in RateKeys, NEW i \in 1..Len(admitted'[j]),
                      i + Limits[j[2]] <= Len(admitted'[j])
               PROVE  admitted'[j][i] + Window <= admitted'[j][i + Limits[j[2]]]
    BY DEF WindowRespected
  <2>1. CASE j # k
    BY <2>1, <1>3 DEF LimiterInv, WindowRespected
  <2>2. CASE j = k
    <3>1. i \in 1..n
      BY <2>2, <1>2, <1>3
    <3>2. CASE i + Limits[k[2]] <= n
      <4>1. i + Limits[k[2]] \in 1..n
        BY <1>2, <3>1, <3>2
      <4> QED
        BY <2>2, <3>1, <3>2, <4>1, <1>1, <1>3 DEF LimiterInv, WindowRespected
    <3>3. CASE i + Limits[k[2]] = n + 1
      <4>1. admitted[k][i] + Window <= now
        BY <1>1, <3>1, <3>3, Spaced
      <4> QED
        BY <2>2, <3>1, <3>3, <4>1, <1>3
    <3> QED
      BY <2>2, <3>1, <3>2, <3>3, <1>2, <1>3
  <2> QED
    BY <2>1, <2>2
<1> QED
  BY <1>7, <1>8, <1>9, <1>10 DEF LimiterInv

LEMMA TickStep ==
  ASSUME LimiterInv, Tick PROVE LimiterInv'
<1>1. /\ now' = now + 1 /\ now' \in 0..MaxClock
      /\ admitted' = admitted /\ requests' = requests /\ counter' = counter
  BY Constants DEF Tick, LimiterInv, LimiterTypes
<1>2. LimiterTypes' /\ WindowRespected'
  BY <1>1 DEF LimiterInv, LimiterTypes, WindowRespected
<1>3. InOrder' /\ Forgotten'
  <2> SUFFICES ASSUME NEW k \in RateKeys, NEW i \in 1..Len(admitted[k])
               PROVE  /\ \A j \in 1..Len(admitted[k]) : i <= j => admitted[k][i] <= admitted[k][j]
                      /\ admitted[k][i] <= now'
                      /\ i \notin requests[k] => ~(admitted[k][i] + Window > now')
    BY <1>1 DEF InOrder, Forgotten, InWindow
  <2>1. admitted[k][i] \in Nat /\ now \in Nat
    BY ListFacts DEF LimiterInv
  <2>2. /\ \A j \in 1..Len(admitted[k]) : i <= j => admitted[k][i] <= admitted[k][j]
        /\ admitted[k][i] <= now
        /\ i \notin requests[k] => ~(admitted[k][i] + Window > now)
    BY DEF LimiterInv, InOrder, Forgotten, InWindow
  <2> QED
    BY <1>1, <2>1, <2>2, Constants
<1> QED
  BY <1>2, <1>3 DEF LimiterInv

\* Nothing admitted yet, at the start and after a restart.
LEMMA Emptied ==
  /\ LimiterInit => LimiterInv
  /\ LimiterInv /\ Restart => LimiterInv'
<1>1. ASSUME LimiterInit PROVE LimiterInv
  <2>1. /\ now = 0 /\ counter = 0
        /\ \A k \in RateKeys : admitted[k] = <<>> /\ requests[k] = {}
    BY <1>1 DEF LimiterInit
  <2>2. Cardinality({}) = 0 /\ Len(<<>>) = 0
    BY FS_EmptySet
  <2>3. \A k \in RateKeys : Len(admitted[k]) = 0 /\ Cardinality(requests[k]) = 0
    BY <2>1, <2>2, Zenon
  <2>4. LimiterTypes
    BY <1>1, <2>1, <2>3, Constants DEF LimiterInit, LimiterTypes
  <2> QED
    BY <2>3, <2>4 DEF LimiterInv, InOrder, Forgotten, WindowRespected
<1>2. ASSUME LimiterInv, Restart PROVE LimiterInv'
  <2>1. /\ now' = now /\ counter' = 0
        /\ admitted' = [k \in RateKeys |-> <<>>] /\ requests' = [k \in RateKeys |-> {}]
    BY <1>2 DEF Restart
  <2>2. \A k \in RateKeys : /\ admitted'[k] = <<>> /\ requests'[k] = {}
                            /\ Len(admitted'[k]) = 0 /\ Cardinality(requests'[k]) = 0
    BY <2>1, FS_EmptySet
  <2>3. LimiterTypes'
    BY <1>2, <2>1, <2>2, Constants DEF LimiterInv, LimiterTypes
  <2> QED
    BY <2>2, <2>3 DEF LimiterInv, InOrder, Forgotten, WindowRespected
<1> QED
  BY <1>1, <1>2

LEMMA LimiterStep == LimiterInv /\ [Next]_vars => LimiterInv'
<1> SUFFICES ASSUME LimiterInv, [Next]_vars PROVE LimiterInv'
  OBVIOUS
<1>1. ASSUME NEW ip \in Ips, NEW c \in Categories, Admit(ip, c) PROVE LimiterInv'
  BY <1>1, AdmitStep
<1>2. ASSUME NEW ip \in Ips, NEW c \in Categories, Refuse(ip, c) PROVE LimiterInv'
  <2>1. <<ip, c>> \in RateKeys
    BY DEF RateKeys
  <2> QED
    BY <1>2, <2>1, SweptStep DEF Refuse
<1>3. "admin" \in Categories /\ "default" \in Categories
  BY CategoriesAssumption
<1>4. CASE \E ip \in Ips :
             \/ \E lo, hi \in Amounts \cup {Unset} : SetLimits(ip, lo, hi)
             \/ \E percent \in Fees : SetFees(ip, percent)
             \/ SaveFails(ip)
             \/ \E price \in Amounts : CreateDeal(ip, price)
  BY <1>1, <1>3, <1>4 DEF SetLimits, SetFees, SaveFails, CreateDeal
<1>5. CASE \E ip \in Ips, c \in Categories : OtherRequest(ip, c) \/ RefuseRequest(ip, c)
  BY <1>1, <1>2, <1>5 DEF OtherRequest, RefuseRequest
<1>6. CASE TimePasses
  BY <1>6, TickStep DEF TimePasses
<1>7. CASE Restart
  BY <1>7, Emptied
<1>8. CASE UNCHANGED vars
  BY <1>8 DEF vars, limiterVars, LimiterInv, LimiterTypes, InOrder, Forgotten, InWindow,
              WindowRespected
<1> QED
  BY <1>4, <1>5, <1>6, <1>7, <1>8 DEF Next

(* No window of time sees more requests of an address and a category let    *)
(* through than the category's limit, however many addresses the sweep      *)
(* forgets meanwhile, and whatever the requests go on to do.                *)
THEOREM WindowKept == Spec => []WindowRespected
<1>1. Init => LimiterInv
  BY Emptied DEF Init
<1>2. LimiterInv => WindowRespected
  BY DEF LimiterInv
<1> QED
  BY <1>1, <1>2, LimiterStep, PTL DEF Spec

-----------------------------------------------------------------------------
(***************************************************************************)
(* The file, the environment and the deals                                 *)
(***************************************************************************)

FileInv ==
  /\ limits \in [min : Allowed \cup {Unset}, max : Allowed \cup {Unset}]
  /\ fee \in (Fees \cap 0..10) \cup {Unset}
  /\ env \in Envs
  /\ dearest \in Amounts \cup {0}
  /\ readable \in BOOLEAN
  /\ ~readable => limits = NoLimits /\ fee = Unset
  /\ StoredOrdered
  /\ CapHolds

LEMMA AllowedNat == Allowed \subseteq Nat /\ Unset \notin Allowed
BY AmountsAssumption, UnsetAssumption DEF Allowed

LEMMA EnvNat ==
  ASSUME FileInv
  PROVE  env.lo \in Nat /\ env.hi \in Nat /\ env.cap \in Nat
BY EnvsAssumption DEF FileInv

LEMMA FileInit == Init => FileInv
<1> SUFFICES ASSUME Init PROVE FileInv
  OBVIOUS
<1>1. /\ limits = [min |-> Unset, max |-> Unset] /\ fee = Unset /\ readable = TRUE
      /\ env \in Envs /\ dearest = 0
  BY DEF Init, NoLimits
<1>2. CapHolds
  BY <1>1, EnvsAssumption DEF CapHolds
<1> QED
  BY <1>1, <1>2 DEF FileInv, StoredOrdered

\* The limits that set_limits stores.
LEMMA StepSetLimits ==
  ASSUME FileInv, NEW ip \in Ips, NEW lo, NEW hi, SetLimits(ip, lo, hi)
  PROVE  FileInv'
<1> DEFINE new == Merged(lo, hi)
<1>1. /\ limits' = new /\ env' = env /\ dearest' = dearest
      /\ readable /\ readable' = readable /\ fee' = fee
      /\ {lo, hi} \subseteq Allowed \cup {Unset}
      /\ Given(new.min, env.lo) <= Given(new.max, env.hi)
  BY DEF SetLimits, Accepted
<1>2. new \in [min : Allowed \cup {Unset}, max : Allowed \cup {Unset}]
  BY <1>1 DEF Merged, Given, FileInv
<1>3. new.min # Unset /\ new.max # Unset => new.min <= new.max
  BY <1>1 DEF Given
<1> QED
  BY <1>1, <1>2, <1>3 DEF FileInv, StoredOrdered, CapHolds

LEMMA StepCreateDeal ==
  ASSUME FileInv, NEW ip \in Ips, NEW price \in Amounts, CreateDeal(ip, price)
  PROVE  FileInv'
<1>1. /\ limits' = limits /\ fee' = fee /\ readable' = readable /\ env' = env
      /\ price <= MaxSats /\ dearest' = Larger(dearest, price)
  BY DEF CreateDeal, fileVars
<1>2. price \in Nat /\ dearest' \in Amounts \cup {0}
  BY <1>1, AmountsAssumption DEF Larger, FileInv
<1>3. env.cap > 0 => price <= env.cap
  <2>1. Smaller(Given(limits.max, env.hi), AbsMax) \in Nat
    BY AllowedNat, EnvNat, AmountsAssumption DEF Smaller, Given, FileInv
  <2> QED
    BY <1>1, <1>2, <2>1, EnvNat DEF MaxSats, Smaller
<1>4. CapHolds'
  BY <1>1, <1>2, <1>3, EnvNat, AmountsAssumption DEF CapHolds, Larger, FileInv
<1> QED
  BY <1>1, <1>2, <1>4 DEF FileInv, StoredOrdered

LEMMA StepFile == FileInv /\ [Next]_vars => FileInv'
<1> SUFFICES ASSUME FileInv, [Next]_vars PROVE FileInv'
  OBVIOUS
<1>1. ASSUME NEW ip \in Ips, NEW lo, NEW hi, SetLimits(ip, lo, hi) PROVE FileInv'
  BY <1>1, StepSetLimits
<1>2. ASSUME NEW ip \in Ips, NEW percent \in Fees, SetFees(ip, percent) PROVE FileInv'
  BY <1>2 DEF SetFees, FileInv, StoredOrdered, CapHolds
<1>3. ASSUME NEW ip \in Ips, SaveFails(ip) PROVE FileInv'
  BY <1>3 DEF SaveFails, NoLimits, FileInv, StoredOrdered, CapHolds
<1>4. ASSUME NEW ip \in Ips, NEW price \in Amounts, CreateDeal(ip, price) PROVE FileInv'
  BY <1>4, StepCreateDeal
<1>5. ASSUME UNCHANGED <<fileVars, env, dearest>> PROVE FileInv'
  BY <1>5 DEF fileVars, FileInv, StoredOrdered, CapHolds
<1>6. CASE Restart
  <2>1. /\ limits' = limits /\ fee' = fee /\ readable' = readable
        /\ env' \in Envs /\ dearest' = 0
    BY <1>6 DEF Restart, fileVars
  <2>2. CapHolds'
    BY <2>1, EnvsAssumption DEF CapHolds
  <2> QED
    BY <2>1, <2>2 DEF FileInv, StoredOrdered
<1> QED
  BY <1>1, <1>2, <1>3, <1>4, <1>5, <1>6
  DEF Next, vars, OtherRequest, RefuseRequest, TimePasses

\* Clamping the limits does not make them cross.
LEMMA Clamped ==
  ASSUME FileInv PROVE SomeAmountAllowed
<1> SUFFICES ASSUME limits.min # Unset, limits.max # Unset,
                    env.cap = 0 \/ limits.min <= env.cap
             PROVE  MinSats <= MaxSats
  BY DEF SomeAmountAllowed
<1>1. limits.min \in Allowed /\ limits.max \in Allowed /\ limits.min <= limits.max
  BY DEF FileInv, StoredOrdered
<1>2. /\ limits.min \in Nat /\ AbsMin <= limits.min
      /\ limits.max \in Nat /\ limits.max <= AbsMax
  BY <1>1, AmountsAssumption DEF Allowed
<1>3. MinSats = limits.min
  BY <1>2, AmountsAssumption DEF MinSats, Larger, Given
<1>4. Smaller(Given(limits.max, env.hi), AbsMax) = limits.max
  BY <1>2, AmountsAssumption DEF Smaller, Given
<1>5. limits.min <= MaxSats
  BY <1>1, <1>2, <1>4, EnvNat DEF MaxSats, Smaller
<1> QED
  BY <1>3, <1>5

LEMMA FileAlways == Spec => []FileInv
BY FileInit, StepFile, PTL DEF Spec

(* The file holds amounts within the absolute bounds and fees of 0 to 10    *)
(* percent and nothing else, whichever requests succeed, fail or are cut    *)
(* off, and the limiter's lists never outgrow their limits.                 *)
THEOREM SettingsTyped == Spec => []SettingsTypes
<1>1. LimiterInv /\ FileInv => SettingsTypes
  BY DEF LimiterInv, FileInv, SettingsTypes
<1>2. Spec => []LimiterInv
  <2>1. Init => LimiterInv
    BY Emptied DEF Init
  <2> QED
    BY <2>1, LimiterStep, PTL DEF Spec
<1> QED
  BY <1>1, <1>2, FileAlways, PTL

(* Limits stored by set_limits never cross, in whatever order and under     *)
(* whatever defaults they were set.                                         *)
THEOREM LimitsOrdered == Spec => []StoredOrdered
<1>1. FileInv => StoredOrdered
  BY DEF FileInv
<1> QED
  BY <1>1, FileAlways, PTL

(* They leave some amount to deal in, unless the test phase's cap is below  *)
(* them both.                                                               *)
THEOREM LimitsUsable == Spec => []SomeAmountAllowed
BY Clamped, FileAlways, PTL

(* No deal is dearer than the cap of the test phase, whatever an admin or a *)
(* failed save does to the file.                                            *)
THEOREM CapKept == Spec => []CapHolds
<1>1. FileInv => CapHolds
  BY DEF FileInv
<1> QED
  BY <1>1, FileAlways, PTL

=============================================================================
