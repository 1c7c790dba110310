----------------------------- MODULE Selections -----------------------------
(***************************************************************************)
(* What filter, removeAll(where:) and the like leave of an array: the      *)
(* elements that are in a set, in the order of the array.                  *)
(***************************************************************************)
EXTENDS Naturals, Sequences

Selection(s, chosen) ==
    LET picked[n \in 0 .. Len(s)] ==
            IF n = 0 THEN <<>>
            ELSE IF s[n] \in chosen THEN Append(picked[n - 1], s[n])
            ELSE picked[n - 1]
    IN picked[Len(s)]

=============================================================================
