----------------------------- MODULE MCLogin -----------------------------
(* Login for TLC: limits of two, and windows of several ticks, of which    *)
(* the general limiter's has an edge that a burst can straddle.            *)
EXTENDS Login, TLC

MCLimit  == [l \in Limiter |-> 2]
MCWindow == [l \in Limiter |-> IF l = "login" THEN 3 ELSE 2]

Symmetry == Permutations(Call) \cup Permutations(Operator)
=============================================================================
