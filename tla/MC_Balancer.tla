----------------------------- MODULE MC_Balancer -----------------------------
(***************************************************************************)
(* Balancer for TLC: the two filters watch one key, a list of addresses,   *)
(* and the balancer another, a list of destinations.                       *)
(***************************************************************************)
EXTENDS Balancer

CONSTANTS i1, i2, i3, a1, filter, lb, gateway

TwoKeys == [c \in {filter, lb, gateway} |-> IF c = lb THEN "instances" ELSE "addresses"]

TwoLists == [k \in {"instances", "addresses"} |-> IF k = "instances" THEN {i2} ELSE {a1}]

OneFixed == [c \in {filter, lb, gateway} |-> IF c = lb THEN {i1, i3} ELSE {}]
=============================================================================
