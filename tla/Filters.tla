------------------------------ MODULE Filters ------------------------------
(***************************************************************************)
(* Filtering a sequence, as Iterator::filter and Vec::retain do.  The test *)
(* is given as the set of what passes, so that facts about it need no      *)
(* operator as a parameter and can be proved (DataProofs).                 *)
(***************************************************************************)
EXTENDS Naturals, Sequences

\* The elements of s that are in S, in their order.
Filter(s, S) ==
  LET kept[n \in 0..Len(s)] ==
        IF n = 0 THEN <<>>
        ELSE IF s[n] \in S THEN Append(kept[n - 1], s[n]) ELSE kept[n - 1]
  IN kept[Len(s)]
=============================================================================
