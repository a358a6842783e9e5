-------------------------------- MODULE Lists --------------------------------
(* What the pending list and the match queue both do with a list.          *)
EXTENDS Naturals, Sequences

\* What of the list is in S, in the order of the list.
Only(list, S) ==
  LET kept[i \in 0..Len(list)] ==
        IF i = 0 THEN <<>>
        ELSE IF list[i] \in S THEN Append(kept[i - 1], list[i]) ELSE kept[i - 1]
  IN  kept[Len(list)]
=============================================================================
