------------------------------ MODULE ListChoice ------------------------------
(***************************************************************************)
(* The loop that copies what it keeps of a list: the elements that are in  *)
(* a set, in their order.  It is a recursive function, about which, other  *)
(* than about SelectSeq, there are proofs.                                 *)
(***************************************************************************)
EXTENDS Naturals, Sequences

Chosen(list, S) ==
    LET upTo[n \in 0..Len(list)] ==
            IF n = 0 THEN <<>>
            ELSE IF list[n] \in S THEN Append(upTo[n - 1], list[n]) ELSE upTo[n - 1]
    IN upTo[Len(list)]
=============================================================================
