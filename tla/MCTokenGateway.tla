--------------------------- MODULE MCTokenGateway ---------------------------
(* TokenGateway for TLC: three permissions in a chain of three scopes, so   *)
(* that a root, its child and its grandchild can all exist, and the empty   *)
(* scope, which must be refused.                                            *)
EXTENDS TokenGateway, TLC

CONSTANTS read, write, admin

MCPerm  == {read, write, admin}
MCScope == {{}, {read}, {read, write}, {read, write, admin}}

Symmetry == Permutations(Id) \cup Permutations(Call)
=============================================================================
