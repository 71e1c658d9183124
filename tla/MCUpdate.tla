------------------------------ MODULE MCUpdate ------------------------------
(* Instances of Update for TLC. *)
EXTENDS Update

\* The last file came with version 2.
GrowingFiles == [v \in Versions |-> IF v = 1 THEN 1..(NumFiles - 1) ELSE 1..NumFiles]

=============================================================================
