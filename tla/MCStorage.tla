------------------------------ MODULE MCStorage ------------------------------
(* Two bitmap frames in different sectors, one of which also holds other   *)
(* data, as the partition block does.                                      *)
EXTENDS Storage

MCFrames == {<<1, 1>>, <<2, 1>>}
=============================================================================
