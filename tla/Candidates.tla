----------------------------- MODULE Candidates -----------------------------
(***************************************************************************)
(* The candidates of a host, on their way to the endpoints its peers       *)
(* probe: the host gathers and announces them (candidates.py,              *)
(* p2p_agent.py), the Coordinator records them, merges them with what it   *)
(* sees itself and offers them (peers_api.py), and a peer selects what it  *)
(* probes (p2p_agent.py, candidates.py; candidate.go does the same).       *)
(*                                                                         *)
(* One host moves.  Of its two peers one is pushed the offers of the       *)
(* Coordinator, and one asks it for the payload and makes them itself.     *)
(* Addresses are numbered, their tens are the subnet.  The lists of the    *)
(* code are sets: the candidates in them are distinct, and Before is the   *)
(* order they are sorted by.                                               *)
(***************************************************************************)
EXTENDS Integers, FiniteSets

CONSTANTS
    Private4, Public4, Global6,     \* the addresses
    ListenPort,                     \* of the WireGuard sockets
    MaxPort,                        \* 65535
    MaxCandidates,                  \* MAX_CANDIDATES, and the 16 of validate_candidates
    MaxProbe,                       \* MAX_PROBE_CANDIDATES
    Hosts,                          \* bound: the situations the host can be in
    Places,                         \* bound: where its peers can be
    MaxMoves,                       \* bound: moves of the host, and expiries
    None

Addresses == Private4 \cup Public4 \cup Global6
Endpoints == Addresses \X (1..MaxPort)

ASSUME AddressesAssumption ==
    /\ Addresses \subseteq Nat /\ IsFiniteSet(Addresses)
    /\ Private4 \cap Public4 = {} /\ (Private4 \cup Public4) \cap Global6 = {}
ASSUME LimitsAssumption ==
    /\ MaxPort \in Nat \ {0} /\ ListenPort \in 1..MaxPort
    /\ MaxProbe \in Nat \ {0} /\ MaxCandidates \in Nat \ {0} /\ MaxMoves \in Nat

\* six: the usable global addresses, preferred: the one the OS prefers; reflexive: the
\* one a web service sees, mapped: what the router maps to the socket; wan: where the
\* VPS sees the socket.
HostStates ==
    [lan : Private4, six : SUBSET Global6, preferred : Global6 \cup {None},
     reflexive : Global6 \cup {None}, mapped : Endpoints \cup {None}, wan : Endpoints]
ASSUME HostsAssumption ==
    /\ Hosts \subseteq HostStates
    /\ Places \subseteq [lan : Private4, wan : Addresses]

-----------------------------------------------------------------------------
(* State *)

VARIABLES
    host,       \* the host
    place,      \* its peers
    reflexive,  \* REFLEXIVE6_ADDRESS, None when it is too old to be used
    lan,        \* its LAN_CANDIDATES: the address
    stored,     \* its NODE_CANDIDATES
    synced,     \* what the last accepted announcement was coordinated with
    offers,     \* peer -> what the last offer it handled was made of
    moves       \* moves and expiries so far

vars == <<host, place, reflexive, lan, stored, synced, offers, moves>>

Peers == {"pushed", "asks"}

Types == {"lan4", "host6", "reflexive6", "mapped4", "observed4", "predicted4"}
Priorities == {1000, 910, 900, 825, 800, 700, 500}
\* Sent to an agent, a port may be any number.
Candidate == [type : Types, at : Addresses \X Int, priority : Priorities]

-----------------------------------------------------------------------------
(* Candidates *)

Priority ==
    [lan4 |-> 1000, host6 |-> 900, reflexive6 |-> 825, mapped4 |-> 800, observed4 |-> 700,
     predicted4 |-> 500]

Of(type, at) == [type |-> type, at |-> at, priority |-> Priority[type]]

Lan4(address) == IF address = None THEN {} ELSE {Of("lan4", <<address, ListenPort>>)}

\* The order of the sorted lists: by priority, then by endpoint.
Before(c, d) ==
    \/ c.priority > d.priority
    \/ c.priority = d.priority /\ c.at[1] < d.at[1]
    \/ c.priority = d.priority /\ c.at[1] = d.at[1] /\ c.at[2] < d.at[2]

\* The n first in this order.
First(n, candidates) == {c \in candidates : Cardinality({d \in candidates : Before(d, c)}) < n}

SameSubnet(a, b) == a \div 10 = b \div 10

-----------------------------------------------------------------------------
(* The host *)

\* discover_reflexive_ipv6, when the web service answers.
Discovered(h) == IF h.six = {} THEN h.reflexive ELSE None

\* local_candidate_snapshot and gather_candidates: however many there are.
Gather(h, seen) ==
    LET six == {Of("host6", <<a, ListenPort>>) : a \in h.six} IN
    Lan4(h.lan)
    \cup {IF c.at[1] = h.preferred THEN [c EXCEPT !.priority = 910] ELSE c : c \in six}
    \cup (IF h.mapped = None THEN {} ELSE {Of("mapped4", h.mapped)})
    \cup (IF seen = None THEN {} ELSE {Of("reflexive6", <<seen, ListenPort>>)})

-----------------------------------------------------------------------------
(* The Coordinator *)

\* A mistake: what was known is kept.
RecordedMore(candidates) == stored \cup candidates

\* record_node_candidates
Recorded(candidates) == candidates

Observed(at) == IF at[1] \in Global6 THEN {} ELSE {Of("observed4", at)}

\* A mistake: the ends of the range of ports are forgotten.
PredictedAnywhere(at) ==
    IF at[1] \notin Public4 THEN {}
    ELSE {Of("predicted4", <<at[1], port>>) : port \in {at[2] + d : d \in {-2, -1, 1, 2}}}

\* predicted_candidates
Predicted(at) ==
    IF at[1] \notin Public4 THEN {}
    ELSE {Of("predicted4", <<at[1], port>>) :
             port \in {at[2] + d : d \in {-2, -1, 1, 2}} \cap 1..MaxPort}

\* merge_candidates of what push_offer and peer_payload put together.
Merged(address, candidates, wan) ==
    First(MaxCandidates,
          Lan4(address) \cup candidates \cup Observed(wan)
          \cup (IF \E c \in candidates : c.type = "mapped4" THEN {} ELSE Predicted(wan)))

-----------------------------------------------------------------------------
(* A peer *)

\* validate_candidates of the agent
Valid(candidates) ==
    /\ Cardinality(candidates) <= MaxCandidates
    /\ \A c \in candidates : c.at[2] \in 1..MaxPort

\* A mistake: candidates are the same only with the same type.
DedupedByType(candidates) == candidates

\* The first of those with the same endpoint.
Deduped(candidates) ==
    {c \in candidates : \A d \in candidates : d.at = c.at => d.priority <= c.priority}

\* The endpoint of an offer as a candidate.
Legacy(endpoint, allowLan) ==
    {Of(CASE allowLan /\ endpoint[1] \in Private4 -> "lan4"
          [] endpoint[1] \in Global6 -> "host6"
          [] OTHER -> "observed4", endpoint)}

Usable(candidates, endpoint, allowLan) ==
    Deduped({c \in candidates : c.type = "lan4" => allowLan} \cup Legacy(endpoint, allowLan))

\* A mistake: the first ones are taken as they come.
SelectedFirst(candidates, endpoint, allowLan) ==
    First(MaxProbe, Usable(candidates, endpoint, allowLan))

\* select_probe_candidates: an observed endpoint takes the last place if it has none.
Selected(candidates, endpoint, allowLan) ==
    LET all == Usable(candidates, endpoint, allowLan)
        first == First(MaxProbe, all)
        observed == First(1, {c \in all : c.type = "observed4"}) IN
    IF observed \subseteq first THEN first ELSE First(MaxProbe - 1, first) \cup observed

\* The candidates of the offer a peer handled.
Offered(p) == Merged(offers[p].lan, offers[p].candidates, offers[p].wan)

\* handle_offer, up to the candidates: an invalid offer is refused.
Probes(p) ==
    LET offer == offers[p]
        near == offer.lan # None /\ SameSubnet(place.lan, offer.lan)
        endpoint == IF offer.type = "LAN" THEN <<offer.lan, ListenPort>> ELSE offer.wan IN
    IF Valid(Offered(p)) THEN Selected(Offered(p), endpoint, offer.type = "LAN" \/ near) ELSE {}

-----------------------------------------------------------------------------
(* Actions *)

Init ==
    /\ host \in Hosts /\ place \in Places
    /\ reflexive \in {None, Discovered(host)} /\ lan = None /\ stored = {} /\ synced = None
    /\ offers = [p \in Peers |-> None] /\ moves = 0

\* refresh_reflexive_ipv6 finds an address, or has found none for REFLEXIVE6_TTL:
\* because there is none any more, or because nobody answered.
ReflexiveFound ==
    /\ Discovered(host) # None
    /\ reflexive' = Discovered(host)
    /\ UNCHANGED <<host, place, lan, stored, synced, offers, moves>>

ReflexiveTooOld ==
    /\ reflexive # None /\ reflexive # Discovered(host)
    /\ reflexive' = None
    /\ UNCHANGED <<host, place, lan, stored, synced, offers, moves>>

DiscoveryFails ==
    /\ reflexive # None /\ moves < MaxMoves
    /\ reflexive' = None /\ moves' = moves + 1
    /\ UNCHANGED <<host, place, lan, stored, synced, offers>>

\* coordinator_sync_once, and do_POST up to coordinate_client.  The LAN address is
\* recorded before an announcement of too many candidates is refused.
Sync ==
    LET candidates == Gather(host, reflexive) IN
    /\ lan' = host.lan
    /\ IF Cardinality(candidates) <= MaxCandidates
       THEN /\ stored' = Recorded(candidates)
            /\ synced' = [lan |-> host.lan, candidates |-> candidates, wan |-> host.wan]
       ELSE UNCHANGED <<stored, synced>>
    /\ UNCHANGED <<host, place, reflexive, offers, moves>>

\* push_offer of what was announced, which arrives.
Push ==
    LET same == synced.wan[1] = place.wan IN
    /\ synced # None
    /\ offers' = [offers EXCEPT !["pushed"] =
         [lan |-> synced.lan, candidates |-> synced.candidates, wan |-> synced.wan,
          type |-> IF same THEN "LAN" ELSE "WAN"]]
    /\ UNCHANGED <<host, place, reflexive, lan, stored, synced, moves>>

\* server_initiator_once, with the payload the Coordinator makes of what it knows now.
Ask ==
    LET near == lan # None /\ (host.wan[1] = place.wan \/ SameSubnet(place.lan, lan)) IN
    /\ offers' = [offers EXCEPT !["asks"] =
         [lan |-> lan, candidates |-> stored, wan |-> host.wan,
          type |-> IF near THEN "LAN" ELSE "WAN"]]
    /\ UNCHANGED <<host, place, reflexive, lan, stored, synced, moves>>

\* The host gets another address, another mapping, another NAT.
Move(h) ==
    /\ moves < MaxMoves /\ h # host
    /\ host' = h /\ moves' = moves + 1
    /\ UNCHANGED <<place, reflexive, lan, stored, synced, offers>>

\* ANNOUNCE_TTL passed: since the last announcement, or the last accepted one.
Expire ==
    /\ moves < MaxMoves /\ stored # {}
    /\ stored' = {} /\ lan' \in {lan, None} /\ moves' = moves + 1
    /\ UNCHANGED <<host, place, reflexive, synced, offers>>

Next ==
    \/ ReflexiveFound \/ ReflexiveTooOld \/ DiscoveryFails
    \/ Sync \/ Push \/ Ask \/ Expire \/ \E h \in Hosts : Move(h)

Spec == Init /\ [][Next]_vars

\* Hosts announce themselves and peers ask every few seconds; an offer that does not
\* arrive is pushed again; reflexive6_loop goes on and its addresses age.
FairSpec ==
    /\ Spec /\ WF_vars(ReflexiveFound) /\ WF_vars(ReflexiveTooOld)
    /\ WF_vars(Sync) /\ WF_vars(Push) /\ WF_vars(Ask)

-----------------------------------------------------------------------------
(* Properties *)

TypeOK ==
    /\ host \in Hosts /\ place \in Places /\ reflexive \in Global6 \cup {None}
    /\ lan \in Private4 \cup {None} /\ stored \subseteq Candidate /\ Cardinality(stored) <= MaxCandidates
    /\ synced # None => synced.wan \in Endpoints
    /\ \A p \in Peers : offers[p] # None =>
         /\ Probes(p) \subseteq Candidate /\ Cardinality(Probes(p)) <= MaxProbe
         \* Each endpoint is probed once.
         /\ Cardinality({c.at : c \in Probes(p)}) = Cardinality(Probes(p))
    /\ moves \in 0..MaxMoves

\* No offer is refused by the agent, whatever the Coordinator merges into it: it
\* stays within the limit the agent has, ports and all.  (peers_api.py 264-308,
\* p2p_agent.py 314-351, 1095)
OffersAccepted == \A p \in Peers : offers[p] # None => Probes(p) # {}

\* The IPv4 endpoint at which the VPS sees the host is probed when the offer has it,
\* however many better candidates there are; unless a mapping has the same endpoint,
\* which takes its place and is not kept as it would be.  (334-340)
ObservedIsProbed ==
    \A p \in Peers : offers[p] # None =>
        LET wan == offers[p].wan
            same == {c \in Offered(p) : c.at = wan} IN
        /\ wan[1] \notin Global6 /\ (same # {} \/ offers[p].type = "WAN")
        /\ \A c \in same : c.type # "mapped4"
        => \E c \in Probes(p) : c.at = wan

\* Nothing is probed that does not lead to the host.
Current ==
    LET announced == Gather(host, Discovered(host))
        now == {c.at : c \in announced \cup Predicted(host.wan)} \cup {host.wan} IN
    \A p \in Peers : offers[p] # None /\ {c.at : c \in Probes(p)} \subseteq now

\* When the host stays where it is, its peers come to probe what leads to it now and
\* nothing else, also after announcements that were refused and addresses that aged:
\* unless it has more candidates than an announcement may carry.
ProbesSettle == <>[](Cardinality(Gather(host, reflexive)) <= MaxCandidates => Current)

=============================================================================
