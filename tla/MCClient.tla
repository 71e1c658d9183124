------------------------------ MODULE MCClient ------------------------------
(* Instances of Client for TLC. *)
EXTENDS Client

CONSTANTS k1, e1, e2

OneServer == {k1}
TwoEndpoints == {e1, e2}
OnlyE2 == {e2}
TwoLists == {<<e1>>, <<e2>>}

\* The server as first announced, and restarted with other candidates.
TwoAnnouncements == {<<<<e1>>, "a">>, <<<<e2>>, "b">>}

=============================================================================
