------------------------------ MODULE MCAccounts ------------------------------
(* Small instances of AccountLifecycle for TLC. *)
EXTENDS AccountProperties

CONSTANTS a1, a2, ann, bea

=============================================================================
