----------------------------- MODULE MCAttention -----------------------------
(* Small instances of AttentionRequests for TLC. *)
EXTENDS AttentionProperties

CONSTANTS ann, bea, d1, d2, r1

=============================================================================
