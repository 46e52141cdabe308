----------------------------- MODULE MCConsole -----------------------------
(* Console for TLC: a form of one tab; on a token's page its delegation    *)
(* form beside the field for its secret; and a field of the Requests tab.  *)
EXTENDS Console

CONSTANTS policies, token, requests, edit, deleg, heldSecret, field

MCHome == [f \in Form |-> CASE f = edit -> policies [] f = field -> requests
                            [] OTHER -> token]
MCKind == [f \in Form |-> CASE f = edit -> "edit" [] f = deleg -> "delegate"
                            [] f = field -> "field" [] OTHER -> "held"]
=============================================================================
