----------------------------- MODULE MCCoordinator -----------------------------
(* Instances of Coordinator for TLC. *)
EXTENDS Coordinator, TLC

CONSTANTS c1, c2, s1, t1, t2, x, y

OneClient == {c1}
OneServer == {s1}
\* Servers sync, too.
AllNodes == {c1, c2, s1}
Threads2 == {t1, t2}
OneList == {x}
TwoLists == {x, y}

\* The clients come after the server.
Addresses == [n \in Nodes |-> CASE n = s1 -> 2 [] n = c1 -> 4 [] OTHER -> 5]

\* Which thread serves a request, what the candidates are and which client it is does
\* not matter: addresses of clients are compared with those of servers only.
Symmetry == Permutations(Threads) \cup Permutations(Candidates) \cup Permutations(Initiators \ Servers)
================================================================================
