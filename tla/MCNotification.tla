--------------------------- MODULE MCNotification ---------------------------
(* Instances of Notification for TLC. *)
EXTENDS Notification, TLC

Symmetry == Permutations(Nonces) \cup Permutations(Threads)

=============================================================================
