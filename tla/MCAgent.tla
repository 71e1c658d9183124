------------------------------ MODULE MCAgent ------------------------------
(***************************************************************************)
(* Instances of Agent for TLC.                                             *)
(***************************************************************************)
EXTENDS Agent, TLC

CONSTANTS k1, e1, e2

OneKey == {k1}
OneEndpoint == {e1}
TwoEndpoints == {e1, e2}
SingleLists == {<<e1>>, <<e2>>}
OneList == {<<e1>>}
LongLists == {<<e1, e2>>}

\* Endpoints are interchangeable in the runs that check safety only.
Symmetry == Permutations(Endpoints)

=============================================================================
