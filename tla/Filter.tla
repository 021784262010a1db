-------------------------------- MODULE Filter --------------------------------
(***************************************************************************)
(* The elements of a sequence at some of its positions, in their order:    *)
(* what a loop with an append under a condition builds.  SelectSeq, whose  *)
(* condition is an operator, cannot be reasoned about in the proofs.       *)
(***************************************************************************)
EXTENDS Naturals, Sequences

Kept(s, positions) ==
    LET kept[n \in 0..Len(s)] ==
            IF n = 0 THEN <<>>
            ELSE IF n \in positions THEN Append(kept[n - 1], s[n]) ELSE kept[n - 1]
    IN  kept[Len(s)]
===============================================================================
