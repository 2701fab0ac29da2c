----------------------------- MODULE RateLimiter -----------------------------
(***************************************************************************)
(* RateLimitMiddleware: how many requests of an address and a category are *)
(* let through in a window of time.  Every HTTP request passes it before   *)
(* its handler runs; WebSockets do not.                                    *)
(*                                                                         *)
(* A key is an address and a category.  Its list holds the times of the    *)
(* requests let through.  Here those times are kept for good (admitted),   *)
(* and the list is the set of the places in them that it still holds: the  *)
(* code only appends, so the list is in the order of the clock.  A key     *)
(* that is not in the dictionary holds none.  All categories have the same *)
(* window in the code.                                                     *)
(***************************************************************************)
EXTENDS Naturals, Sequences, FiniteSets

CONSTANTS
  Ips,        \* addresses of clients
  Limits,     \* limits: the requests a category may make per window
  Window,     \* window_seconds
  Interval,   \* _CLEANUP_INTERVAL: a sweep every so many requests
  MaxClock    \* bound: the time a run ends at

Categories == DOMAIN Limits
RateKeys == Ips \X Categories

ASSUME LimitsAssumption == \A c \in Categories : Limits[c] \in Nat \ {0}
ASSUME WindowAssumption == Window \in Nat \ {0} /\ Interval \in Nat \ {0}
ASSUME ClockAssumption == MaxClock \in Nat

VARIABLES
  now,       \* the time
  admitted,  \* admitted[k]: when each request of k was let through, in order
  requests,  \* requests: the places in admitted[k] that the list of k holds
  counter    \* _cleanup_counter

limiterVars == <<now, admitted, requests, counter>>

LimiterTypes ==
  /\ now \in 0..MaxClock
  /\ admitted \in [RateKeys -> Seq(0..MaxClock)]
  /\ requests \in [RateKeys -> SUBSET Nat]
  /\ \A k \in RateKeys : /\ requests[k] \subseteq 1..Len(admitted[k])
                         /\ Cardinality(requests[k]) <= Limits[k[2]]
  /\ counter \in 0..(Interval - 1)

LimiterInit ==
  /\ now = 0
  /\ admitted = [k \in RateKeys |-> <<>>]
  /\ requests = [k \in RateKeys |-> {}]
  /\ counter = 0

Tick ==
  /\ now < MaxClock
  /\ now' = now + 1
  /\ UNCHANGED <<admitted, requests, counter>>

-----------------------------------------------------------------------------
\* The list of k is cut to the window that ends now.
InWindow(t) == t + Window > now

Pruned(k) == [requests EXCEPT ![k] = {i \in @ : InWindow(admitted[k][i])}]

\* Variant: judges a key by its oldest request.
StaleFirst(k, list) ==
  list = {} \/ \E i \in list : (\A j \in list : i <= j) /\ admitted[k][i] + Window < now

\* A key is stale when the last request of its list is older than the window.
Stale(k, list) ==
  list = {} \/ \E i \in list : (\A j \in list : j <= i) /\ admitted[k][i] + Window < now

\* Every Interval requests the stale keys are dropped, after the pruning.
Swept(k) ==
  IF counter + 1 >= Interval
  THEN [j \in RateKeys |-> IF Stale(j, Pruned(k)[j]) THEN {} ELSE Pruned(k)[j]]
  ELSE Pruned(k)

NextCounter == IF counter + 1 >= Interval THEN 0 ELSE counter + 1

Full(k) == Cardinality(Swept(k)[k]) >= Limits[k[2]]

\* A request is let through and recorded.
Admit(ip, c) ==
  LET k == <<ip, c>>
  IN  /\ ~Full(k)
      /\ admitted' = [admitted EXCEPT ![k] = Append(@, now)]
      /\ requests' = [Swept(k) EXCEPT ![k] = @ \cup {Len(admitted[k]) + 1}]
      /\ counter' = NextCounter
      /\ UNCHANGED now

\* A request is answered with 429: the pruning and the sweep are done all the same.
Refuse(ip, c) ==
  LET k == <<ip, c>>
  IN  /\ Full(k)
      /\ requests' = Swept(k)
      /\ counter' = NextCounter
      /\ UNCHANGED <<now, admitted>>

-----------------------------------------------------------------------------
(* In no window of time are more requests of a key let through than its     *)
(* limit says ("20 auth attempts per 60 seconds"), whatever the sweep has   *)
(* dropped on behalf of other keys meanwhile: a request comes a whole       *)
(* window or more after the one that is a limit of requests before it.      *)
WindowRespected ==
  \A k \in RateKeys : \A i \in 1..Len(admitted[k]) :
    i + Limits[k[2]] <= Len(admitted[k]) =>
      admitted[k][i] + Window <= admitted[k][i + Limits[k[2]]]

=============================================================================
