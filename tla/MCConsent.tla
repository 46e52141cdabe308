----------------------------- MODULE MCConsent -----------------------------
(* Consent for TLC. *)
EXTENDS Consent, TLC

Symmetry == Permutations(Req) \cup Permutations(Tok) \cup Permutations(Decision)
=============================================================================
