------------------------------ MODULE MCSettings ------------------------------
(***************************************************************************)
(* Settings for TLC: addresses and limits.                                 *)
(***************************************************************************)
EXTENDS Settings

CONSTANT i1

\* Two admin requests and one other request of an address per window.
SmallLimits == [c \in {"admin", "default"} |-> IF c = "admin" THEN 2 ELSE 1]

\* No cap; a cap below the highest amount; other defaults beside a cap.
SomeEnvs == {[lo |-> 1, hi |-> 2, cap |-> 0],
             [lo |-> 2, hi |-> 3, cap |-> 1]}

=============================================================================
