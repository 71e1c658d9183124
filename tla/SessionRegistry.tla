---------------------------- MODULE SessionRegistry ----------------------------
(***************************************************************************)
(* What the control plane promises about sessions (docs/architecture.md,   *)
(* section 5): an old session does not replace a newer one.                *)
(*                                                                         *)
(* Every node has at most one live session; sessions are numbered in the   *)
(* order in which they are opened.  A server's agent holds at most one     *)
(* session per node, it only ever moves on to later ones, and it lets go   *)
(* of one for good only when it is no longer live, or on its own account   *)
(* (its lease ran out, the agent restarted) when AgentsForget.             *)
(***************************************************************************)
EXTENDS Naturals

CONSTANTS
    Initiators,    \* nodes that open sessions
    Servers,       \* nodes whose agents hold them
    AgentsForget   \* whether an agent may drop a live session by itself

VARIABLES
    live,    \* node -> the session that is live, or 0
    opened,  \* the number of sessions opened so far
    holds    \* server -> node -> the session its agent holds, or 0

vars == <<live, opened, holds>>

Init ==
    /\ live = [c \in Initiators |-> 0]
    /\ opened = 0
    /\ holds = [s \in Servers |-> [c \in Initiators |-> 0]]

\* The session of c, if it has one, is superseded.
Open(c) ==
    /\ opened' = opened + 1
    /\ live' = [live EXCEPT ![c] = opened']
    /\ UNCHANGED holds

Close(c) ==
    /\ live[c] # 0
    /\ live' = [live EXCEPT ![c] = 0]
    /\ UNCHANGED <<opened, holds>>

CloseAll ==
    /\ live' = [c \in Initiators |-> 0]
    /\ UNCHANGED <<opened, holds>>

MoveOn(s, c) ==
    /\ \E n \in holds[s][c] + 1 .. opened : holds' = [holds EXCEPT ![s][c] = n]
    /\ UNCHANGED <<live, opened>>

LetGo(s, c) ==
    /\ holds[s][c] # live[c] \/ AgentsForget
    /\ holds' = [holds EXCEPT ![s][c] = 0]
    /\ UNCHANGED <<live, opened>>

Next ==
    \/ \E c \in Initiators : Open(c) \/ Close(c)
    \/ CloseAll
    \/ \E s \in Servers, c \in Initiators : MoveOn(s, c) \/ LetGo(s, c)

Spec == Init /\ [][Next]_vars
================================================================================
