-------------------------------- MODULE Lists --------------------------------
(***************************************************************************)
(* Linked lists of the kernel, as sequences.                               *)
(***************************************************************************)
EXTENDS Integers, Sequences

(* One walk over the list that unlinks every member of gone: the others    *)
(* keep their order.                                                       *)
WithoutAll(list, gone) ==
    LET kept[i \in 0..Len(list)] ==
            IF i = 0 THEN <<>>
            ELSE IF list[i] \in gone THEN kept[i - 1] ELSE Append(kept[i - 1], list[i])
    IN  kept[Len(list)]
=============================================================================
