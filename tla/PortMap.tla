------------------------------- MODULE PortMap -------------------------------
(***************************************************************************)
(* The port mapping of a server's WireGuard socket: PortMapper of          *)
(* portmap.py, the daemon that drives it and writes its state file         *)
(* (portmap_daemon.py), and the test with which the Agent takes a mapping  *)
(* from that file (mapped_candidate_from_state of candidates.py).          *)
(*                                                                         *)
(* The socket is known by the address of the host in the network it is in; *)
(* its port does not change.  Points in time are kept as the time that is  *)
(* left until then.  The router grants a mapping when it handles the       *)
(* request, the mapper counts from the answer.                             *)
(***************************************************************************)
EXTENDS Integers

CONSTANTS
    Nets,           \* the networks, each with an address of the host
    NoNet,          \* no private IPv4 address or no listen port
    Asked,          \* DEFAULT_LIFETIME
    Granted,        \* the lifetimes a router grants, 0 included
    Retry,          \* FAILURE_RETRY
    Poll,           \* POLL_INTERVAL
    Margin,         \* the 15 seconds of mapped_candidate_from_state
    Delay,          \* the time the requests of a refresh may take together
    MaxFaults       \* bound: faults

Times == 0..Asked

ASSUME TimesAssumption ==
    /\ Asked \in Nat \ {0} /\ Granted \subseteq Times /\ Asked \in Granted
    /\ Retry \in Times /\ Poll \in Times \ {0} /\ Margin \in Times
    /\ Delay \in Nat /\ Delay < Margin /\ MaxFaults \in Nat
ASSUME NetsAssumption == NoNet \notin Nets

-----------------------------------------------------------------------------
(* State *)

VARIABLES
    net,        \* what local_ipv4 and listen_port return
    lease,      \* address -> the time left to its mapping in the router
    mapper,     \* PortMapper
    file,       \* the state file
    daemon,     \* the loop
    faults,     \* faults so far
    unsure,     \* history: addresses whose mapping the mapper may be wrong about, and why
    steady      \* history: the last refresh was granted Asked, and nothing failed since

vars == <<net, lease, mapper, file, daemon, faults, unsure, steady>>

NoFile == [key |-> NoNet, left |-> 0]

\* key: _internal; left: _expires_at, 0 without a _candidate; next: _next_attempt.
Mappers == [key : Nets \cup {NoNet}, left : Times, next : Times]

\* method: the one being tried, 3 is UPnP; had: current_candidate; granted: what
\* the router granted to the request, -1 until then; written: last_written.
Daemons ==
    [pc : {"wait", "try", "down"}, wait : Times, key : Nets \cup {NoNet}, method : 1..3,
     had : BOOLEAN, spent : 0..Delay, granted : {-1} \cup Granted,
     written : {NoFile} \cup [key : Nets, live : BOOLEAN]]

\* An answer of the router was not received; the router restarted since it granted.
Reasons == {"unanswered", "restart"}

TypeOK ==
    /\ net \in Nets \cup {NoNet} /\ lease \in [Nets -> Times]
    /\ mapper \in Mappers /\ file \in [key : Nets \cup {NoNet}, left : Times]
    /\ daemon \in Daemons
    /\ faults \in 0..MaxFaults /\ unsure \subseteq Nets \X Reasons /\ steady \in BOOLEAN

Started == [pc |-> "wait", wait |-> 0, key |-> NoNet, method |-> 1, had |-> FALSE,
            spent |-> 0, granted |-> -1, written |-> NoFile]

NewMapper == [key |-> NoNet, left |-> 0, next |-> 0]

Init ==
    /\ net \in Nets /\ lease = [n \in Nets |-> 0]
    /\ mapper = NewMapper /\ file = NoFile /\ daemon = Started
    /\ faults = 0 /\ unsure = {} /\ steady = FALSE

-----------------------------------------------------------------------------
(* Helpers *)

Fault == faults < MaxFaults /\ faults' = faults + 1

AtLeast(a, b) == IF a > b THEN a ELSE b
AtMost(a, b) == IF a < b THEN a ELSE b

\* A mistake: a mapping is refreshed when it ends.
RefreshAtEnd(lifetime) == lifetime

\* When a mapping granted for lifetime is refreshed.
RefreshAfter(lifetime) ==
    AtLeast(1, AtMost((2 * lifetime) \div 3, AtLeast(1, lifetime - Margin)))

\* current_candidate
HasCandidate(m, key) == m.key = key /\ m.left > 0

\* A mistake: the margin is added instead of being kept.
SucceededLate(key, lifetime) ==
    [key |-> key, left |-> lifetime + Margin, next |-> RefreshAfter(lifetime)]

\* _record_success and _record_failure
Succeeded(key, lifetime) == [key |-> key, left |-> lifetime, next |-> RefreshAfter(lifetime)]
Failed(m, key) == [key |-> key, left |-> IF m.key = key THEN m.left ELSE 0, next |-> Retry]

\* A mistake: a refreshed mapping is written only when it is another one.
MustWriteOther(refreshed, identity) == identity # daemon.written \/ file = NoFile

MustWrite(refreshed, identity) ==
    refreshed \/ identity # daemon.written \/ file = NoFile

\* The rest of a round of the daemon, for the address it began with: the file is
\* written from what is left of the mapping by then, or removed, and the daemon
\* waits.
Publish(key, candidate, refreshed, m) ==
    LET identity == [key |-> key, live |-> m.left > 0]
        write == MustWrite(refreshed, identity) IN
    IF candidate
    THEN /\ file' = IF write THEN [key |-> key, left |-> m.left] ELSE file
         /\ daemon' = [Started EXCEPT !.wait = Poll,
                                      !.written = IF write THEN identity ELSE daemon.written]
    ELSE file' = NoFile /\ daemon' = [Started EXCEPT !.wait = Poll]

-----------------------------------------------------------------------------
(* The daemon *)

Due == daemon.pc = "wait" /\ daemon.wait = 0

\* A round without an address, or without anything to refresh.
PollOnly ==
    /\ Due /\ (net = NoNet \/ mapper.next > 0)
    /\ Publish(net, net # NoNet /\ HasCandidate(mapper, net), FALSE, mapper)
    /\ UNCHANGED <<net, lease, mapper, faults, unsure, steady>>

\* should_refresh looks at the time of the next attempt only, of whichever
\* address it was set for.
PollRefresh ==
    /\ Due /\ net # NoNet /\ mapper.next = 0
    /\ daemon' = [daemon EXCEPT !.pc = "try", !.key = net, !.had = HasCandidate(mapper, net)]
    /\ UNCHANGED <<net, lease, mapper, file, faults, unsure, steady>>

\* The router handles the request.  UPnP is granted what was asked for, PCP and
\* NAT-PMP may be granted less, which counts as a fault.
RouterGrants(lifetime) ==
    /\ daemon.pc = "try" /\ daemon.granted = -1
    /\ daemon.method = 3 => lifetime = Asked
    /\ IF lifetime # Asked THEN Fault ELSE UNCHANGED faults
    /\ lease' = [lease EXCEPT ![daemon.key] = lifetime]
    /\ unsure' = (unsure \ {<<daemon.key, "restart">>}) \cup {<<daemon.key, "unanswered">>}
    /\ daemon' = [daemon EXCEPT !.granted = lifetime]
    /\ UNCHANGED <<net, mapper, file, steady>>

\* Its answer arrives.
Refreshed ==
    LET m == Succeeded(daemon.key, daemon.granted) IN
    /\ daemon.pc = "try" /\ daemon.granted > 0
    /\ mapper' = m
    /\ Publish(daemon.key, TRUE, TRUE, m)
    /\ unsure' = unsure \ {<<daemon.key, "unanswered">>}
    /\ steady' = (daemon.granted = Asked /\ net = daemon.key)
    /\ UNCHANGED <<net, lease, faults>>

\* A method raises: nobody answers, or with an error or a lifetime of 0.  After
\* the last one the failure is recorded.
MethodRaises ==
    LET m == Failed(mapper, daemon.key) IN
    /\ daemon.pc = "try"
    /\ IF daemon.granted = 0 THEN UNCHANGED faults ELSE Fault
    /\ steady' = FALSE
    /\ IF daemon.method < 3
       THEN /\ daemon' = [daemon EXCEPT !.method = @ + 1, !.granted = -1]
            /\ UNCHANGED <<mapper, file>>
       ELSE mapper' = m /\ Publish(daemon.key, daemon.had, FALSE, m)
    /\ UNCHANGED <<net, lease, unsure>>

\* The daemon ends its round and then clears the file.
Stop ==
    /\ daemon.pc = "wait" /\ Fault
    /\ daemon' = [Started EXCEPT !.pc = "down"] /\ file' = NoFile
    /\ steady' = FALSE
    /\ UNCHANGED <<net, lease, mapper, unsure>>

\* It is killed; systemd removes its runtime directory, or does not.
Crash ==
    /\ daemon.pc # "down" /\ Fault
    /\ daemon' = [Started EXCEPT !.pc = "down"] /\ file' \in {file, NoFile}
    /\ steady' = FALSE
    /\ UNCHANGED <<net, lease, mapper, unsure>>

Start ==
    /\ daemon.pc = "down"
    /\ daemon' = Started /\ mapper' = NewMapper
    /\ UNCHANGED <<net, lease, file, faults, unsure, steady>>

-----------------------------------------------------------------------------
(* The environment *)

Roam(n) ==
    /\ n # net /\ Fault
    /\ net' = n /\ steady' = FALSE
    /\ UNCHANGED <<lease, mapper, file, daemon, unsure>>

\* The router forgets its mappings.
RouterRestarts ==
    /\ Fault
    /\ lease' = [n \in Nets |-> 0] /\ unsure' = unsure \cup (Nets \X {"restart"})
    /\ UNCHANGED <<net, mapper, file, daemon, steady>>

Less(left) == IF left = 0 THEN 0 ELSE left - 1

\* The daemon wakes up in time, and its requests have time-outs.
Tick ==
    /\ ~Due
    /\ daemon.pc = "try" => daemon.spent < Delay
    /\ lease' = [n \in Nets |-> Less(lease[n])]
    /\ mapper' = [mapper EXCEPT !.left = Less(@), !.next = Less(@)]
    /\ file' = [file EXCEPT !.left = Less(@)]
    /\ daemon' = [daemon EXCEPT !.wait = Less(@), !.spent = IF daemon.pc = "try" THEN @ + 1 ELSE @]
    /\ UNCHANGED <<net, faults, unsure, steady>>

-----------------------------------------------------------------------------

Step == PollOnly \/ PollRefresh \/ Refreshed \/ MethodRaises \/ RouterGrants(Asked) \/ Start

Next ==
    \/ PollOnly \/ PollRefresh \/ Refreshed \/ MethodRaises \/ Stop \/ Crash \/ Start
    \/ \E lifetime \in Granted : RouterGrants(lifetime)
    \/ \E n \in Nets \cup {NoNet} : Roam(n)
    \/ RouterRestarts \/ Tick

Spec == Init /\ [][Next]_vars

\* The loop runs, systemd restarts it, a router that works answers; time passes.
FairSpec == Spec /\ WF_vars(Step) /\ WF_vars(Tick)

-----------------------------------------------------------------------------
(* Properties *)

\* A mistake: the margin is left out.
MappedToTheEnd == file.key = net /\ file.left > 0

\* What the Agent takes from the file.
Mapped == file # NoFile /\ file.key = net /\ file.left > Margin

\* A mapping that is advertised exists in the router, although it was counted
\* from the answer and not from when it was granted: unless the router restarted
\* or the answer to the last request was not received.  (204-227, 351-368)
AdvertisedIsMapped == Mapped => lease[net] > 0 \/ \E why \in Reasons : <<net, why>> \in unsure

\* As long as refreshes succeed, the mapping is advertised without a gap, across
\* the refreshes and the rounds of the daemon.  (363, 109-122)
StaysMapped == steady => Mapped

\* After the last fault, a mapping is advertised for good wherever the host is,
\* although a new address has to wait for the refresh of the old one.  (312-318)
MappingArrives == <>[](net # NoNet) => <>[]Mapped

=============================================================================
