----------------------------- MODULE FailClosed -----------------------------
(***************************************************************************)
(* What the callers of the circuit breaker rely on (circuitBreaker.ts 1-4, *)
(* 70-74): a gate in front of the store that may refuse operations, never  *)
(* runs one it refuses, and opens up again only by running one.            *)
(***************************************************************************)

VARIABLES
    refusing,       \* the gate is refusing operations
    ran,            \* the last operation was run
    refused         \* the last operation was answered with CircuitOpenError

vars == <<refusing, ran, refused>>

Init == ~refusing /\ ~ran /\ ~refused

\* An operation that is run may fail for reasons of its own, and any failure
\* may make the gate refuse from now on.
Run == ran' = TRUE /\ refused' = FALSE /\ refusing' \in BOOLEAN

\* An operation that is not run leaves a refusing gate refusing.
NotRun ==
    /\ ran' = FALSE /\ refused' \in BOOLEAN
    /\ refusing' \in BOOLEAN /\ (refusing => refusing')

Next == Run \/ NotRun

Spec == Init /\ [][Next]_vars
=============================================================================
