------------------------------ MODULE MCBaseFS ------------------------------
(* Small disks; a directory header holds two entries and an extent one, so *)
(* that directories of three entries have extents.                         *)
EXTENDS BaseFS
=============================================================================
