---------------------------- MODULE MCCandidates ----------------------------
(* Instances of Candidates for TLC: 11 and 12 are private addresses of one *)
(* subnet, 21 of another, 31 and 41 are public, 51 to 56 IPv6.             *)
EXTENDS Candidates

Host(address, six, preferred, nat66, mapped, wan) ==
    [lan |-> address, six |-> six, preferred |-> preferred, reflexive |-> nat66,
     mapped |-> mapped, wan |-> wan]

SomeHosts == {
    Host(11, {}, None, None, None, <<31, 1>>),            \* behind NAT, ports at the ends
    Host(11, {}, None, 51, None, <<31, 8>>),              \* NAT66
    Host(21, {51}, 51, None, <<41, 4>>, <<41, 4>>),       \* a port-preserving mapping
    Host(21, {51, 52}, 52, None, <<41, 6>>, <<41, 3>>),   \* a mapping at another port
    Host(21, {51}, None, None, None, <<51, 4>>),          \* seen over IPv6
    Host(11, {51, 52, 53}, 53, None, <<31, 4>>, <<31, 4>>),  \* many addresses, and a mapping
    Host(21, {51, 52, 53, 54, 55}, 51, None, None, <<31, 4>>),      \* as many as announced
    Host(11, {51, 52, 53, 54, 55, 56}, None, None, None, <<41, 5>>)} \* too many

SomePlaces == {[lan |-> 12, wan |-> 31], [lan |-> 12, wan |-> 41], [lan |-> 22, wan |-> 41]}

=============================================================================
