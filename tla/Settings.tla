------------------------------- MODULE Settings -------------------------------
(***************************************************************************)
(* The amount limits and fees an admin sets at run time, in a JSON file,   *)
(* and the creation of deals under them; the requests pass RateLimiter.    *)
(*                                                                         *)
(* The handlers await nothing and one process runs them, so that a request *)
(* is one action; the lock on the file has nobody to keep out.  Between    *)
(* the admission of a request and its handler others may come in, which    *)
(* makes no difference to either.                                          *)
(*                                                                         *)
(* The limits are read from the environment once, at the start of the      *)
(* process.  An empty file and no file are the same, in all that follows.  *)
(***************************************************************************)
EXTENDS RateLimiter

CONSTANTS
  Unset,           \* a value the file or the request leaves out
  Amounts,         \* amounts in requests, in sats
  AbsMin, AbsMax,  \* absolute_min_sats, absolute_max_sats
  Fees,            \* fee percentages in requests
  Envs             \* environments: MIN_DEAL_SATS (lo), MAX_DEAL_SATS (hi),
                   \* TEST_PHASE_MAX_SATS (cap; 0 is none)

ASSUME UnsetAssumption == Unset \notin Nat
ASSUME AmountsAssumption == Amounts \subseteq Nat /\ AbsMin \in Nat /\ AbsMax \in Nat
ASSUME FeesAssumption == Fees \subseteq Nat
ASSUME EnvsAssumption == Envs \subseteq [lo : Nat, hi : Nat, cap : Nat]
ASSUME CategoriesAssumption == {"admin", "default"} \subseteq Categories

VARIABLES
  readable,  \* whether the file can be parsed
  limits,    \* "limits" of the file
  fee,       \* "service_fee_percent" of the file
  env,       \* the environment of this process
  dearest    \* history: the highest price of a deal made by this process

fileVars == <<readable, limits, fee>>
vars == <<limiterVars, fileVars, env, dearest>>

NoLimits == [min |-> Unset, max |-> Unset]

Allowed == {a \in Amounts : AbsMin <= a /\ a <= AbsMax}

SettingsTypes ==
  /\ LimiterTypes
  /\ readable \in BOOLEAN
  /\ limits \in [min : Allowed \cup {Unset}, max : Allowed \cup {Unset}]
  /\ fee \in (Fees \cap 0..10) \cup {Unset}
  /\ env \in Envs
  /\ dearest \in Amounts \cup {0}
  /\ ~readable => limits = NoLimits /\ fee = Unset

Init ==
  /\ LimiterInit
  /\ readable = TRUE
  /\ limits = NoLimits
  /\ fee = Unset
  /\ env \in Envs
  /\ dearest = 0

-----------------------------------------------------------------------------
(***************************************************************************)
(* What the file says.                                                     *)
(***************************************************************************)
Smaller(m, n) == IF m < n THEN m ELSE n
Larger(m, n) == IF m > n THEN m ELSE n

\* dict.get with a default.
Given(stored, default) == IF stored = Unset THEN default ELSE stored

\* get_limits.  A file that cannot be parsed counts as empty.
MinSats == Larger(Given(limits.min, env.lo), AbsMin)

\* Variant: the cap is left out.
MaxSatsUncapped == Smaller(Given(limits.max, env.hi), AbsMax)

\* Variant: a cap of 0 is applied like any other.
MaxSatsAlwaysCapped == Smaller(Smaller(Given(limits.max, env.hi), AbsMax), env.cap)

MaxSats ==
  LET max == Smaller(Given(limits.max, env.hi), AbsMax)
  IN  IF env.cap > 0 THEN Smaller(max, env.cap) ELSE max

-----------------------------------------------------------------------------
(***************************************************************************)
(* The requests that get through.                                          *)
(***************************************************************************)

\* The limits of the file, with those of the request in their place.
Merged(lo, hi) == [min |-> Given(lo, limits.min), max |-> Given(hi, limits.max)]

\* Variant: only the limits of the request are compared.
AcceptedAlone(lo, hi) ==
  /\ {lo, hi} \subseteq Allowed \cup {Unset}
  /\ lo # Unset /\ hi # Unset => lo <= hi

\* Variant: the request's limits are not held against the absolute ones.
AcceptedUnbounded(lo, hi) ==
  LET new == Merged(lo, hi)
  IN  Given(new.min, env.lo) <= Given(new.max, env.hi)

\* set_limits: each limit is in bounds, and with what is stored they do not cross.
Accepted(lo, hi) ==
  LET new == Merged(lo, hi)
  IN  /\ {lo, hi} \subseteq Allowed \cup {Unset}
      /\ Given(new.min, env.lo) <= Given(new.max, env.hi)

SetLimits(ip, lo, hi) ==
  /\ Admit(ip, "admin")
  /\ readable
  /\ Accepted(lo, hi)
  /\ limits' = Merged(lo, hi)
  /\ UNCHANGED <<readable, fee, env, dearest>>

SetFees(ip, percent) ==
  /\ Admit(ip, "admin")
  /\ readable
  /\ percent \in 0..10
  /\ fee' = percent
  /\ UNCHANGED <<readable, limits, env, dearest>>

\* Saving fails (or the process is killed: Restart follows) after the file has
\* been truncated: it is left empty, or with part of the text.
SaveFails(ip) ==
  /\ Admit(ip, "admin")
  /\ readable
  /\ readable' \in BOOLEAN
  /\ limits' = NoLimits
  /\ fee' = Unset
  /\ UNCHANGED <<env, dearest>>

\* POST /deals/ is counted as "default": only "/deals" would be "deals_create".
CreateDeal(ip, price) ==
  /\ Admit(ip, "default")
  /\ MinSats <= price /\ price <= MaxSats
  /\ dearest' = Larger(dearest, price)
  /\ UNCHANGED <<fileVars, env>>

\* Requests that change nothing here: other handlers, and those refused with 400,
\* as every change is that finds the file unreadable.
OtherRequest(ip, c) ==
  /\ Admit(ip, c)
  /\ UNCHANGED <<fileVars, env, dearest>>

-----------------------------------------------------------------------------
RefuseRequest(ip, c) ==
  /\ Refuse(ip, c)
  /\ UNCHANGED <<fileVars, env, dearest>>

TimePasses ==
  /\ Tick
  /\ UNCHANGED <<fileVars, env, dearest>>

\* The process ends and starts again, perhaps in another environment.
Restart ==
  /\ admitted' = [k \in RateKeys |-> <<>>]
  /\ requests' = [k \in RateKeys |-> {}]
  /\ counter' = 0
  /\ env' \in Envs
  /\ dearest' = 0
  /\ UNCHANGED <<now, fileVars>>

Next ==
  \/ \E ip \in Ips :
       \/ \E lo, hi \in Amounts \cup {Unset} : SetLimits(ip, lo, hi)
       \/ \E percent \in Fees : SetFees(ip, percent)
       \/ SaveFails(ip)
       \/ \E price \in Amounts : CreateDeal(ip, price)
       \/ \E c \in Categories : OtherRequest(ip, c) \/ RefuseRequest(ip, c)
  \/ TimePasses
  \/ Restart

Spec == Init /\ [][Next]_vars

-----------------------------------------------------------------------------
(***************************************************************************)
(* What holds                                                              *)
(***************************************************************************)

(* Limits that are both stored never cross, although each may have been set *)
(* by a request of its own, under other defaults: set_limits compares what  *)
(* is stored after the merge.                                               *)
StoredOrdered ==
  limits.min # Unset /\ limits.max # Unset => limits.min <= limits.max

(* When the admin's limits are stored and the lower is not over the test    *)
(* phase's cap, some amount can be dealt in: clamping to the absolute       *)
(* bounds and the cap ("Set to 0 to disable") does not make them cross.     *)
SomeAmountAllowed ==
  /\ limits.min # Unset /\ limits.max # Unset
  /\ env.cap = 0 \/ limits.min <= env.cap
  => MinSats <= MaxSats

(* No deal is dearer than the cap of the test phase, "cannot be overridden  *)
(* by admin": neither by what is stored, nor by losing what is stored, nor  *)
(* by limits stored under another cap.                                      *)
CapHolds == env.cap > 0 => dearest <= env.cap

=============================================================================
