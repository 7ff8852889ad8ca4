------------------------------ MODULE FileTree ------------------------------
(***************************************************************************)
(* What a file system promises about its tree: it changes by one entry at  *)
(* a time.  A new file or an empty new directory appears in a directory,   *)
(* or the entry that was to be deleted disappears with all below it.       *)
(***************************************************************************)
EXTENDS Integers, FiniteSets

CONSTANTS RootNode, Nothing

VARIABLES
    tree,       \* directory -> its entries
    doomed      \* the entry to be deleted, or Nothing

Init == tree = [d \in {RootNode} |-> {}] /\ doomed = Nothing

All(t) == DOMAIN t \cup UNION {t[d] : d \in DOMAIN t}

(* u is t with a new entry x of d, which is a directory if dir.            *)
Linked(t, u, d, x, dir) ==
    /\ x \notin All(t)
    /\ u = [c \in DOMAIN t \cup (IF dir THEN {x} ELSE {}) |->
              IF c = d THEN t[d] \cup {x} ELSE IF c = x THEN {} ELSE t[c]]

(* x and what is below it.                                                 *)
Subtree(t, x) ==
    LET upto[k \in 0..Cardinality(DOMAIN t)] ==
            IF k = 0 THEN {x}
            ELSE LET S == upto[k - 1] IN S \cup UNION {t[c] : c \in S \cap DOMAIN t}
    IN  upto[Cardinality(DOMAIN t)]

(* u is t without entry x of d and everything below x.                     *)
Unlinked(t, u, d, x) ==
    u = [c \in DOMAIN t \ Subtree(t, x) |-> IF c = d THEN t[d] \ {x} ELSE t[c]]

Link ==
    /\ doomed = Nothing /\ UNCHANGED doomed
    /\ \E t \in {tree}, u \in {tree'} : \E d \in DOMAIN t \cap DOMAIN u :
         \E x \in u[d] \ t[d], dir \in BOOLEAN : Linked(t, u, d, x, dir)

Doom ==
    /\ doomed = Nothing /\ doomed' \in All(tree) \ {RootNode}
    /\ UNCHANGED tree

Unlink ==
    /\ doomed # Nothing /\ doomed' = Nothing
    /\ \E t \in {tree}, u \in {tree'} : \E d \in DOMAIN t \cap DOMAIN u :
         doomed \in t[d] /\ Unlinked(t, u, d, doomed)

(* The delete is interrupted before it has done anything.                  *)
Spare == doomed # Nothing /\ doomed' = Nothing /\ UNCHANGED tree

Next == Link \/ Doom \/ Unlink \/ Spare

Spec == Init /\ [][Next]_<<tree, doomed>>
=============================================================================
