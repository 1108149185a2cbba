------------------------------ MODULE Vectors ------------------------------
(***************************************************************************)
(* What the loops over a vector have in common that collect or keep some   *)
(* of its elements.                                                        *)
(***************************************************************************)
EXTENDS Naturals, Sequences

\* The elements of s that are in S, in their order.  (As a recursive function
\* it can be reasoned about, which SelectSeq cannot.)
Only(s, S) ==
  LET kept[k \in 0 .. Len(s)] ==
        IF k = 0 THEN << >>
        ELSE IF s[k] \in S THEN Append(kept[k - 1], s[k]) ELSE kept[k - 1]
  IN  kept[Len(s)]
=============================================================================
