---------------------------- MODULE MCSessionStore ----------------------------
(* Small instances of SessionStore for TLC. *)
EXTENDS SessionStoreProperties, TLC

CONSTANTS ann, bea, id1, id2

(* Without signed-up sessions the users are alike, and ids always are. *)
Symmetry == Permutations({ann, bea}) \cup Permutations({id1, id2})

=============================================================================
