---------------------------- MODULE MCAgentIdentity ----------------------------
(* Symmetric instances of AgentIdentity: ids, calls and subjects are        *)
(* interchangeable.                                                         *)
EXTENDS AgentIdentity, TLC

Symmetry == Permutations(Id) \cup Permutations(Call) \cup Permutations(Subject)
================================================================================
