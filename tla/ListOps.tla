------------------------------ MODULE ListOps -------------------------------
(***************************************************************************)
(* What the histories of the properties are compared by, written as        *)
(* recursive functions so that it can be proved about.                     *)
(***************************************************************************)
EXTENDS Naturals, Sequences

\* The elements of s that are not in the set gone, in their order.
Without(s, gone) ==
    LET kept[n \in 0 .. Len(s)] ==
          IF n = 0 THEN <<>>
          ELSE IF s[n] \in gone THEN kept[n - 1] ELSE Append(kept[n - 1], s[n])
    IN  kept[Len(s)]
=============================================================================
