----------------------------- MODULE MCPortMap -----------------------------
(* Instances of PortMap for TLC. *)
EXTENDS PortMap

CONSTANTS home, away

=============================================================================
