------------------------------ MODULE MCAccess ------------------------------
(* Access for TLC: a token for everything but the fields "email" guards,   *)
(* and a rule that also names a field no record has.                       *)
EXTENDS Access

CONSTANTS t1, t2, use, read, ssn, email, fax

MCPerm  == {use, read, ssn, email}
MCField == {ssn, email}
MCScope == [t \in Tok |-> IF t = t1 THEN {use, read, ssn} ELSE {use}]
MCRequiredScope == [f \in {ssn, email, fax} |-> IF f = ssn THEN ssn ELSE email]
=============================================================================
