------------------------------- MODULE Client -------------------------------
(***************************************************************************)
(* The Go client, wireguard-p2p-client: main.go, probe.go, passive6.go.    *)
(*                                                                         *)
(* The main goroutine asks the Coordinator for the peers and reconciles:   *)
(* it looks at the kernel once, then takes a.mu for one server after the   *)
(* other.  For each server it may start a probe goroutine, which tries the *)
(* candidates, and after a failed probe a watcher goroutine, which waits   *)
(* for an inbound IPv6 handshake.  A goroutine is fenced by the generation *)
(* of the peer state it was started for.                                   *)
(*                                                                         *)
(* One action is one critical section of a.mu, or one look at the kernel   *)
(* outside it.  Clocks are abstract: a retry delay is elapsed or not, the  *)
(* last handshake of a kernel peer is "new" (passiveIPv6FreshAge), "fresh" *)
(* (directMaxAge, which equals onlineMaxAge) or "stale".                   *)
(***************************************************************************)
EXTENDS Naturals, Sequences, FiniteSets

CONSTANTS
    Servers,         \* public keys of the servers this client initiates to
    Endpoints,       \* UDP endpoints
    CandidateLists,  \* what buildProbeCandidates can return
    Host6,           \* endpoints whose candidate has type host6
    Global6,         \* endpoints that observedTypeForEndpoint calls observed6
    Instances,       \* instance ids a server can announce, NoInstance included
    Announceable,    \* pairs of a candidate list and an instance it announces
    OwnIPv6,         \* whether globalIPv6Addresses finds one: a subset of BOOLEAN
    Slots,           \* bound: goroutines that are alive at the same time
    MaxHandshake,    \* bound: handshakes the kernel completes
    MaxChanges,      \* bound: changes of the announcements or of the tunnel
    MaxFaults,       \* bound: `wg` commands that fail
    NoState, NoPeer, NoEndpoint, NoInstance, NoWorker

ASSUME ServersAssumption == IsFiniteSet(Servers)
ASSUME ListsAssumption == /\ CandidateLists \subseteq Seq(Endpoints) \ {<<>>}
                          /\ Host6 \subseteq Global6 /\ Global6 \subseteq Endpoints
                          /\ NoEndpoint \notin Endpoints
                          /\ NoInstance \in Instances
                          /\ Announceable \subseteq CandidateLists \X Instances
ASSUME OwnAssumption == OwnIPv6 \subseteq BOOLEAN
ASSUME LimitsAssumption == /\ MaxHandshake \in Nat /\ MaxChanges \in Nat
                           /\ MaxFaults \in Nat

-----------------------------------------------------------------------------
(* State *)

VARIABLES
    states,      \* a.states
    serverKeys,  \* a.serverKeys
    wg,          \* the kernel: key -> dynamic WireGuard peer, or NoPeer
    workers,     \* the goroutines, one per slot, or NoWorker
    loop,        \* the main goroutine: "running", "down" (no tunnel), "stopped"
    pass,        \* the reconcilePeers call in progress
    announced,   \* what the Coordinator answers for each server
    handshakes,  \* handshakes completed so far, the kernel's clock
    reused,      \* history: servers whose state was created anew while a
                 \* goroutine of the former state was alive
    changes,     \* changes made so far, at most MaxChanges
    faults       \* commands failed so far, at most MaxFaults

vars == <<states, serverKeys, wg, workers, loop, pass, announced, handshakes,
          reused, changes, faults>>

PeerStates ==
    [mode : {"idle", "probe", "direct", "passive6"},
     candidates : CandidateLists, instance : Instances,
     retryDue : BOOLEAN, generation : Nat, running : BOOLEAN]

KernelPeers == [route : BOOLEAN, endpoint : Endpoints \cup {NoEndpoint},
                handshake : Nat, age : {"new", "fresh", "stale"}]

\* A probe goes through start, baseline, arm, poll and promote for its
\* candidates, then exhausted; a watcher through watch and adopt.
Workers ==
    [key : Servers, generation : Nat,
     pc : {"start", "cancel", "baseline", "arm", "poll", "promote", "exhausted",
           "watch", "adopt"},
     candidates : CandidateLists \cup {<<>>}, next : Nat \ {0}, baseline : Nat,
     endpoint : Endpoints \cup {NoEndpoint}]

Online(list, instance) ==
    [listing |-> "online", candidates |-> list, instance |-> instance]
Offline == [listing |-> "offline", candidates |-> <<>>, instance |-> NoInstance]
Absent == [listing |-> "absent", candidates |-> <<>>, instance |-> NoInstance]

\* A server is not in the reply, in it without being usable (no endpoint, no
\* recent handshake with the hub, no candidate), or in it and to be probed.
Announcements ==
    {Online(a[1], a[2]) : a \in Announceable} \cup {Offline, Absent}

\* `locals` is the look at the kernel, `todo` the servers still to be reconciled,
\* `retire` those to be dropped after them.
Passes == [answer : [Servers -> Announcements],
           locals : [Servers -> KernelPeers \cup {NoPeer}],
           todo : SUBSET Servers, retire : SUBSET Servers]

NoPass == [answer |-> [k \in Servers |-> Absent], locals |-> [k \in Servers |-> NoPeer],
           todo |-> {}, retire |-> {}]

ASSUME EmptyAssumption == /\ NoState \notin PeerStates /\ NoPeer \notin KernelPeers
                          /\ NoWorker \notin Workers

TypeOK ==
    /\ states \in [Servers -> PeerStates \cup {NoState}]
    /\ serverKeys \in SUBSET Servers /\ reused \in SUBSET Servers
    /\ wg \in [Servers -> KernelPeers \cup {NoPeer}]
    /\ workers \in [Slots -> Workers \cup {NoWorker}]
    /\ loop \in {"running", "down", "stopped"}
    /\ pass \in Passes
    /\ announced \in [Servers -> Announcements]
    /\ handshakes \in Nat /\ changes \in Nat /\ faults \in Nat

NoStates == [k \in Servers |-> NoState]
NoPeers == [k \in Servers |-> NoPeer]

Init ==
    /\ states = NoStates
    /\ serverKeys = {} /\ reused = {}
    /\ wg = NoPeers
    /\ workers = [i \in Slots |-> NoWorker]
    /\ loop = "down"
    /\ pass = NoPass
    /\ announced \in [Servers -> Announcements]
    /\ handshakes = 0 /\ changes = 0 /\ faults = 0

-----------------------------------------------------------------------------
(* Helpers *)

Listed(list) == {list[j] : j \in DOMAIN list}

Fresh(p) == p # NoPeer /\ p.handshake > 0 /\ p.age # "stale"

Routed(p) == p # NoPeer /\ p.route

\* A /32 route over which no recent handshake was made.
Dead(p) == Routed(p) /\ ~Fresh(p)

LatestHandshake(p) == IF p = NoPeer THEN 0 ELSE p.handshake

BarePeer == [route |-> FALSE, endpoint |-> NoEndpoint, handshake |-> 0, age |-> "stale"]

Existing(p) == IF p = NoPeer THEN BarePeer ELSE p

\* `wg set peer k endpoint e`, and the same with `allowed-ips`.
Aimed(p, e) == [Existing(p) EXCEPT !.endpoint = e]
Promoted(p, e) == [Aimed(p, e) EXCEPT !.route = TRUE]

\* Commands that fail have no effect.
Spend(n) == faults + n <= MaxFaults /\ faults' = faults + n

\* A mistake in the definition below: the old goroutines keep their generation.
SilencedInPlace(s) == [s EXCEPT !.running = FALSE]

\* What runs for the peer is fenced off.
Silenced(s) == [s EXCEPT !.generation = @ + 1, !.running = FALSE]

\* The peer is to be probed again at once.
Restarted(s) == [Silenced(s) EXCEPT !.mode = "idle", !.retryDue = TRUE]

Direct(s) == [s EXCEPT !.mode = "direct", !.running = FALSE]

\* After a promotion the retry delay and the failures are cleared as well.
DirectAtLast(s) == [Direct(s) EXCEPT !.retryDue = TRUE]

\* Cleanup removes the peers in K from the kernel; the commands for `failed`
\* fail, which nobody looks at.
Removed(K, failed) == [k \in Servers |-> IF k \in K \ failed THEN NoPeer ELSE wg[k]]

-----------------------------------------------------------------------------
(* The main goroutine *)

Waiting == loop = "running" /\ pass = NoPass

\* A call of reconcilePeers that has nothing left to do returns.
Remaining(p) == IF p.todo = {} /\ p.retire = {} THEN NoPass ELSE p

\* syncOnce got an answer; reconcilePeers has looked at the kernel and
\* replaced serverKeys.
BeginPass ==
    /\ Waiting
    /\ LET listed == {k \in Servers : announced[k].listing # "absent"}
           active == {k \in Servers : announced[k].listing = "online"}
       IN  /\ serverKeys' = listed
           /\ pass' = Remaining([answer |-> announced, locals |-> wg, todo |-> active,
                                 retire |-> (serverKeys \cup listed) \ active])
    /\ UNCHANGED <<states, wg, workers, reused, loop, announced, handshakes, changes, faults>>

\* The synchronisation failed or is backed off: fallbackStaleDirects, which
\* looks at the kernel and acts under the lock.
FallBackStaleDirects ==
    /\ Waiting
    /\ LET dead == {k \in serverKeys : Dead(wg[k])} IN
       \E failed \in SUBSET dead :
          /\ Spend(Cardinality(failed))
          /\ wg' = Removed(dead, failed)
          /\ states' = [k \in Servers |-> IF k \in dead /\ states[k] # NoState
                                          THEN Restarted(states[k]) ELSE states[k]]
    /\ UNCHANGED <<serverKeys, workers, reused, loop, pass, announced, handshakes, changes>>

\* The state after the answer is noted, and what that says.
Noted(k) ==
    LET new == [mode |-> "idle", candidates |-> <<>>,
                instance |-> pass.answer[k].instance, retryDue |-> TRUE,
                generation |-> 1, running |-> FALSE]
        old == IF states[k] = NoState THEN new ELSE states[k]
    IN  [old EXCEPT !.candidates = pass.answer[k].candidates,
                    !.instance = IF pass.answer[k].instance = NoInstance
                                 THEN @ ELSE pass.answer[k].instance]

InstanceChanged(k) ==
    /\ states[k] # NoState
    /\ NoInstance \notin {states[k].instance, pass.answer[k].instance}
    /\ states[k].instance # pass.answer[k].instance

\* The signature of a new state is empty, so its topology changes.
TopologyChanged(k) ==
    states[k] # NoState =>
        states[k].candidates # pass.answer[k].candidates \/ InstanceChanged(k)

\* Reconciling k ends with state s and no probe started.
Settles(k, s) ==
    /\ states' = [states EXCEPT ![k] = s]
    /\ UNCHANGED workers

\* Two mistakes in the test below: it forgets the probe that runs, or the
\* peers that wait for an inbound handshake.
MayLaunchTwice(s) == s.retryDue
MayLaunchIdle(s) == s.retryDue /\ ~s.running /\ s.mode = "idle"

\* A probe is started when none runs and the retry delay is over.
MayLaunch(s) == s.retryDue /\ ~s.running

Free == {i \in Slots : workers[i] = NoWorker}
FreeSlot == CHOOSE i \in Free : TRUE

Probe(k, g) == [key |-> k, generation |-> g, pc |-> "start", candidates |-> <<>>,
                next |-> 1, baseline |-> 0, endpoint |-> NoEndpoint]

Launches(k, s) ==
    /\ MayLaunch(s) /\ Free # {}
    /\ states' = [states EXCEPT ![k] = [s EXCEPT !.mode = "probe", !.running = TRUE]]
    /\ workers' = [workers EXCEPT ![FreeSlot] = Probe(k, s.generation)]

Proceeds(k, s) == Launches(k, s) \/ (~MayLaunch(s) /\ Settles(k, s))

\* In every case below the look at the kernel is the one of the pass.
SeenDirect(k) == Routed(pass.locals[k])

\* A mistake in the test below: the age of the handshake is not looked at.
SeenOnceUp(k) == SeenDirect(k) /\ pass.locals[k].handshake > 0

SeenHealthy(k) == SeenDirect(k) /\ Fresh(pass.locals[k])

KeepsDirect(k) ==
    SeenHealthy(k) /\ ~InstanceChanged(k)
        /\ pass.locals[k].endpoint \in Listed(pass.answer[k].candidates)

\* The topology changed and the direct is kept.
KeepsChanged(k) ==
    /\ TopologyChanged(k) /\ KeepsDirect(k)
    /\ Settles(k, Direct(Restarted(Noted(k))))
    /\ UNCHANGED <<wg, faults>>

\* The topology changed: start afresh.
StartsAfresh(k) ==
    /\ TopologyChanged(k) /\ ~KeepsDirect(k)
    /\ Proceeds(k, Restarted(Noted(k)))
    /\ IF pass.locals[k] = NoPeer THEN UNCHANGED <<wg, faults>>
       ELSE \E failed \in SUBSET {k} :
               Spend(Cardinality(failed)) /\ wg' = Removed({k}, failed)

SeesDirect(k) ==
    /\ ~TopologyChanged(k) /\ SeenHealthy(k)
    /\ Settles(k, Direct(Noted(k)))
    /\ UNCHANGED <<wg, faults>>

FallsBack(k) ==
    /\ ~TopologyChanged(k) /\ SeenDirect(k) /\ ~SeenHealthy(k)
    /\ Proceeds(k, Restarted(Noted(k)))
    /\ \E failed \in SUBSET {k} :
          Spend(Cardinality(failed)) /\ wg' = Removed({k}, failed)

\* A peer without a route has learned an IPv6 endpoint from its remote.
SeenInbound(k) ==
    ~SeenDirect(k) /\ Fresh(pass.locals[k]) /\ pass.locals[k].endpoint \in Global6

PromotesInbound(k) ==
    /\ ~TopologyChanged(k) /\ SeenInbound(k)
    /\ Settles(k, DirectAtLast(Noted(k)))
    /\ wg' = [wg EXCEPT ![k] = Promoted(@, pass.locals[k].endpoint)]
    /\ UNCHANGED faults

MissesInbound(k) ==
    /\ ~TopologyChanged(k) /\ SeenInbound(k)
    /\ Proceeds(k, Noted(k))
    /\ Spend(1) /\ UNCHANGED wg

ProbesOn(k) ==
    /\ ~TopologyChanged(k) /\ ~SeenDirect(k) /\ ~SeenInbound(k)
    /\ Proceeds(k, Noted(k))
    /\ UNCHANGED <<wg, faults>>

\* One round of the first loop of reconcilePeers.
ReconcilePeer(k) ==
    /\ k \in pass.todo
    /\ \/ KeepsChanged(k) \/ StartsAfresh(k) \/ SeesDirect(k) \/ FallsBack(k)
       \/ PromotesInbound(k) \/ MissesInbound(k) \/ ProbesOn(k)
    /\ pass' = Remaining([pass EXCEPT !.todo = @ \ {k}])
    /\ IF states[k] # NoState THEN UNCHANGED reused
       ELSE reused' = IF \E i \in Slots : workers[i] # NoWorker /\ workers[i].key = k
                      THEN reused \cup {k} ELSE reused \ {k}
    /\ UNCHANGED <<serverKeys, loop, announced, handshakes, changes>>

\* One round of its second loop: the server is no longer to be probed.
RetirePeer(k) ==
    /\ pass.todo = {} /\ k \in pass.retire
    /\ states' = [states EXCEPT ![k] = NoState]
    /\ IF pass.locals[k] = NoPeer THEN UNCHANGED <<wg, faults>>
       ELSE \E failed \in SUBSET {k} :
               Spend(Cardinality(failed)) /\ wg' = Removed({k}, failed)
    /\ pass' = Remaining([pass EXCEPT !.retire = @ \ {k}])
    /\ UNCHANGED <<serverKeys, workers, reused, loop, announced, handshakes, changes>>

Change == changes < MaxChanges /\ changes' = changes + 1

\* resolveInterface finds no tunnel: it went down, its peers with it, or the
\* command failed.
TunnelInactive ==
    /\ Waiting /\ Change
    /\ loop' = "down"
    /\ states' = NoStates
    /\ wg' \in {wg, NoPeers}
    /\ UNCHANGED <<serverKeys, workers, reused, pass, announced, handshakes, faults>>

\* There is a tunnel again; its dynamic peers are cleaned up.
TunnelActive ==
    /\ loop = "down"
    /\ loop' = "running"
    /\ \E failed \in SUBSET serverKeys :
          Spend(Cardinality(failed)) /\ wg' = Removed(serverKeys, failed)
    /\ UNCHANGED <<states, serverKeys, workers, reused, pass, announced, handshakes, changes>>

\* Another tunnel, which has no dynamic peers yet, took over.
TunnelChanges ==
    /\ Waiting /\ Change
    /\ states' = NoStates
    /\ wg' = NoPeers
    /\ UNCHANGED <<serverKeys, workers, reused, loop, pass, announced, handshakes,
                   faults>>

\* Ctrl+C: cleanup, after which goroutines still run until main returns.
Stop ==
    /\ Waiting
    /\ loop' = "stopped"
    /\ LET mine == serverKeys \cup {k \in Servers : states[k] # NoState} IN
       \E failed \in SUBSET mine :
          Spend(Cardinality(failed)) /\ wg' = Removed(mine, failed)
    /\ states' = [k \in Servers |-> IF states[k] = NoState THEN NoState
                                    ELSE Silenced(states[k])]
    /\ UNCHANGED <<serverKeys, workers, reused, pass, announced, handshakes, changes>>

\* The same without a tunnel: cleanup returns at once.
StopDown ==
    /\ loop = "down"
    /\ loop' = "stopped"
    /\ UNCHANGED <<states, serverKeys, wg, workers, reused, pass, announced, handshakes,
                   changes, faults>>

\* The process is killed and started again; the kernel keeps its peers.
ClientCrashes ==
    /\ loop # "stopped" /\ Change
    /\ loop' = "down"
    /\ states' = NoStates /\ serverKeys' = {}
    /\ workers' = [i \in Slots |-> NoWorker]
    /\ pass' = NoPass
    /\ UNCHANGED <<wg, reused, announced, handshakes, faults>>

-----------------------------------------------------------------------------
(* The goroutines *)

\* A mistake in the fence below: it does without generations.
CurrentAnyGeneration(w) ==
    states[w.key] # NoState /\ states[w.key].running

\* The fence of a probe: probeGenerationCurrent and the checks under a.mu.
Current(w) == /\ states[w.key] # NoState
              /\ states[w.key].generation = w.generation /\ states[w.key].running

\* The fence of a watcher.
Armed(w) == /\ states[w.key] # NoState
            /\ states[w.key].generation = w.generation
            /\ states[w.key].mode = "passive6" /\ ~states[w.key].running

\* The goroutine passes its fence.
Acting(w) == /\ w.pc \in {"watch", "adopt"} => Armed(w)
             /\ w.pc \notin {"watch", "adopt"} => Current(w)

At(i, pc) == workers[i] # NoWorker /\ workers[i].pc = pc

Becomes(i, w) == workers' = [workers EXCEPT ![i] = w]
Ends(i) == Becomes(i, NoWorker)

\* Only goroutine i itself moves.
OnlyMoves == UNCHANGED <<states, serverKeys, wg, loop, pass, announced, handshakes,
                         reused, changes, faults>>
\* It holds a.mu, and neither the main goroutine nor the environment moves.
MainRests == UNCHANGED <<serverKeys, reused, loop, pass, announced, handshakes, changes>>

\* The fence stops the goroutine.
Fenced(i) ==
    /\ workers[i] # NoWorker
    /\ workers[i].pc \notin {"start", "cancel"} /\ ~Acting(workers[i])
    /\ Ends(i) /\ OnlyMoves

\* probeSnapshot
ProbeStarts(i) ==
    /\ At(i, "start")
    /\ LET w == workers[i] IN
       Becomes(i, IF Current(w)
                  THEN [w EXCEPT !.pc = "baseline", !.candidates = states[w.key].candidates]
                  ELSE [w EXCEPT !.pc = "cancel"])
    /\ OnlyMoves

Cancelled(s) == [s EXCEPT !.running = FALSE, !.mode = IF @ = "probe" THEN "idle" ELSE @]

\* finishProbeCancelled, which asks for the generation only
ProbeCancelled(i) ==
    /\ At(i, "cancel") /\ Ends(i)
    /\ LET w == workers[i] s == states[w.key] IN
       IF s # NoState /\ s.generation = w.generation
       THEN states' = [states EXCEPT ![w.key] = Cancelled(s)]
       ELSE UNCHANGED states
    /\ UNCHANGED <<wg, faults>> /\ MainRests

\* Before a candidate is tried; a failed look counts as no handshake.
ProbeReadsBaseline(i) ==
    /\ At(i, "baseline") /\ Current(workers[i])
    /\ \E failed \in {0, 1} :
          /\ Spend(failed)
          /\ Becomes(i, [workers[i] EXCEPT !.pc = "arm", !.baseline =
                            IF failed = 1 THEN 0 ELSE LatestHandshake(wg[workers[i].key])])
    /\ UNCHANGED <<states, wg>> /\ MainRests

\* A mistake in the definition below: it steps the wrong way.
PreviousCandidate(w) ==
    [w EXCEPT !.next = @ - 1, !.baseline = 0,
              !.pc = IF w.next < Len(w.candidates) THEN "baseline" ELSE "exhausted"]

\* On to the next candidate, or past the last.
NextCandidate(w) ==
    [w EXCEPT !.next = @ + 1, !.baseline = 0,
              !.pc = IF w.next < Len(w.candidates) THEN "baseline" ELSE "exhausted"]

ProbeArms(i) ==
    /\ At(i, "arm") /\ Current(workers[i])
    /\ LET w == workers[i] e == w.candidates[w.next] IN
       \/ /\ wg' = [wg EXCEPT ![w.key] = Aimed(@, e)]
          /\ Becomes(i, [w EXCEPT !.pc = "poll"])
          /\ UNCHANGED faults
       \/ /\ Spend(1) /\ Becomes(i, NextCandidate(w)) /\ UNCHANGED wg
    /\ UNCHANGED states /\ MainRests

\* A handshake over endpoint e is about to be turned into a route.
Found(w, pc, e) == [w EXCEPT !.pc = pc, !.endpoint = e, !.baseline = 0,
                             !.candidates = <<>>, !.next = 1]

ProbeSeesHandshake(i) ==
    /\ At(i, "poll") /\ Current(workers[i])
    /\ LET w == workers[i] IN
       /\ LatestHandshake(wg[w.key]) > w.baseline
       /\ Becomes(i, Found(w, "promote", wg[w.key].endpoint))
    /\ OnlyMoves

ProbeWindowEnds(i) ==
    /\ At(i, "poll") /\ Becomes(i, NextCandidate(workers[i])) /\ OnlyMoves

\* A promotion that fails ends the probe and leaves WorkerRunning set.
ProbePromotes(i) ==
    /\ At(i, "promote") /\ Current(workers[i])
    /\ Ends(i)
    /\ LET w == workers[i] IN
       \/ /\ wg' = [wg EXCEPT ![w.key] = Promoted(@, w.endpoint)]
          /\ states' = [states EXCEPT ![w.key] = DirectAtLast(@)]
          /\ UNCHANGED faults
       \/ Spend(1) /\ UNCHANGED <<states, wg>>
    /\ MainRests

Watcher(w) == [w EXCEPT !.pc = "watch", !.candidates = <<>>, !.next = 1]

\* No candidate answered: the peer is removed, or armed for inbound IPv6.  The
\* two commands are issued whatever becomes of them.
ProbeExhausted(i) ==
    /\ At(i, "exhausted") /\ Current(workers[i])
    /\ \E own6 \in OwnIPv6, failed \in SUBSET {"remove", "arm"} :
       LET w == workers[i]
           passive == own6 /\ Listed(w.candidates) \cap Host6 = {}
           left == IF "remove" \in failed THEN wg[w.key] ELSE NoPeer
       IN  /\ passive \/ "arm" \notin failed
           /\ Spend(Cardinality(failed))
           /\ wg' = [wg EXCEPT ![w.key] = IF passive /\ "arm" \notin failed
                                          THEN Existing(left) ELSE left]
           /\ states' = [states EXCEPT ![w.key] =
                 [@ EXCEPT !.mode = IF passive THEN "passive6" ELSE "idle",
                           !.retryDue = FALSE, !.running = FALSE]]
           /\ Becomes(i, IF passive THEN Watcher(w) ELSE NoWorker)
    /\ MainRests

\* passiveObserved6Ready
WatchSeesHandshake(i) ==
    /\ At(i, "watch") /\ Armed(workers[i])
    /\ LET w == workers[i] IN
       /\ Fresh(wg[w.key]) /\ wg[w.key].age = "new" /\ wg[w.key].endpoint \in Global6
       /\ Becomes(i, Found(w, "adopt", wg[w.key].endpoint))
    /\ OnlyMoves

WatchEnds(i) == At(i, "watch") /\ Ends(i) /\ OnlyMoves

WatchPromotes(i) ==
    /\ At(i, "adopt") /\ Armed(workers[i])
    /\ Ends(i)
    /\ LET w == workers[i] IN
       \/ /\ wg' = [wg EXCEPT ![w.key] = Promoted(@, w.endpoint)]
          /\ states' = [states EXCEPT ![w.key] = DirectAtLast(@)]
          /\ UNCHANGED faults
       \/ Spend(1) /\ UNCHANGED <<states, wg>>
    /\ MainRests

-----------------------------------------------------------------------------
(* The environment: the kernel, the clocks and the Coordinator's answers *)

WgHandshake(k, e) ==
    /\ wg[k] # NoPeer /\ handshakes < MaxHandshake
    /\ handshakes' = handshakes + 1
    /\ wg' = [wg EXCEPT ![k].handshake = handshakes', ![k].age = "new", ![k].endpoint = e]
    /\ UNCHANGED <<states, serverKeys, workers, reused, loop, pass, announced, changes,
                   faults>>

HandshakeAges(k) ==
    /\ wg[k] # NoPeer /\ wg[k].age # "stale"
    /\ wg' = [wg EXCEPT ![k].age = IF @ = "new" THEN "fresh" ELSE "stale"]
    /\ UNCHANGED <<states, serverKeys, workers, reused, loop, pass, announced, handshakes,
                   changes, faults>>

\* A pass in progress measures the delay with the time at which it began; here
\* it may also see the delay elapse.
RetryElapses(k) ==
    /\ states[k] # NoState /\ ~states[k].retryDue
    /\ states' = [states EXCEPT ![k].retryDue = TRUE]
    /\ UNCHANGED <<serverKeys, wg, workers, reused, loop, pass, announced, handshakes,
                   changes, faults>>

AnnouncementChanges(k, a) ==
    /\ Change /\ a # announced[k]
    /\ announced' = [announced EXCEPT ![k] = a]
    /\ UNCHANGED <<states, serverKeys, wg, workers, reused, loop, pass, handshakes, faults>>

-----------------------------------------------------------------------------

MainStep ==
    \/ BeginPass \/ FallBackStaleDirects \/ TunnelActive
    \/ \E k \in Servers : ReconcilePeer(k) \/ RetirePeer(k)

WorkerStep(i) ==
    \/ Fenced(i) \/ ProbeStarts(i) \/ ProbeCancelled(i) \/ ProbeReadsBaseline(i)
    \/ ProbeArms(i) \/ ProbeSeesHandshake(i) \/ ProbeWindowEnds(i) \/ ProbePromotes(i)
    \/ ProbeExhausted(i) \/ WatchSeesHandshake(i) \/ WatchEnds(i) \/ WatchPromotes(i)

Next ==
    \/ MainStep
    \/ TunnelInactive \/ TunnelChanges \/ Stop \/ StopDown \/ ClientCrashes
    \/ \E i \in Slots : WorkerStep(i)
    \/ \E k \in Servers, e \in Endpoints : WgHandshake(k, e)
    \/ \E k \in Servers : HandshakeAges(k) \/ RetryElapses(k)
    \/ \E k \in Servers, a \in Announcements : AnnouncementChanges(k, a)

Spec == Init /\ [][Next]_vars

\* The main loop and the goroutines go on and delays elapse.  A failed
\* synchronisation that finds no dead direct is a stuttering step, so the first
\* conjunct also says that the Coordinator answers again some time.
FairSpec ==
    /\ Spec /\ WF_vars(MainStep)
    /\ \A i \in Slots : WF_vars(WorkerStep(i))
    /\ \A k \in Servers : WF_vars(RetryElapses(k))

-----------------------------------------------------------------------------
(* Properties *)

\* Goroutine i is a probe that its fence lets through.
Probing(i) ==
    /\ workers[i] # NoWorker /\ workers[i].pc \notin {"watch", "adopt"}
    /\ Current(workers[i])

\* At most one probe can act on a server, whatever passes, fallbacks and
\* promotions come between.  The fence is only as good as its generations:
\* they begin at 1 again when a state is deleted and created anew, so servers
\* whose new state met a goroutine of the old one are left out.
SingleActor ==
    \A i, j \in Slots :
        (/\ Probing(i) /\ Probing(j) /\ workers[i].key = workers[j].key
         /\ workers[i].key \notin reused) => i = j

\* A probe that turns a handshake into a /32 route does it on the kernel peer
\* that made the handshake: runProbeWorker looks at the kernel without the
\* lock, and whoever removes the peer before the lock is taken moves the fence.
PromotesWhatItSaw ==
    [][\A i \in Slots :
          (At(i, "promote") /\ workers'[i] = NoWorker /\ wg' # wg
           /\ workers[i].key \notin reused)
          => LatestHandshake(wg[workers[i].key]) > 0]_vars

\* Once cleanup has run, no goroutine that still runs brings a dynamic peer or
\* a /32 route back: "Stopped. VPS fallback remains active." (main.go 169).
StoppedStaysDown ==
    [][loop = "stopped" => \A k \in Servers \ reused :
          /\ wg'[k] # NoPeer => wg[k] # NoPeer
          /\ Routed(wg'[k]) => Routed(wg[k])]_vars

\* The /32 route of a listed server over which no handshake is made does not
\* stay, with the Coordinator in reach or not: a pass or fallbackStaleDirects
\* removes it, and tries again when the command failed.
StaleDirectFallsBack ==
    \A k \in Servers :
        (k \in serverKeys /\ Dead(wg[k])) ~>
            (~Dead(wg[k]) \/ k \notin serverKeys \/ loop = "stopped")

\* A server that is neither probed nor direct is probed again, as long as it is
\* to be probed at all; waiting for inbound IPv6 does not replace the retries
\* (passive6.go 24-27).
RetriesContinue ==
    \A k \in Servers :
        (states[k] # NoState /\ states[k].mode \in {"idle", "passive6"}) ~>
            (states[k] = NoState \/ states[k].mode \in {"probe", "direct"} \/ loop = "stopped")

\* A probe comes to an end, so that it can be retried.
ProbeConcludes ==
    \A k \in Servers :
        (states[k] # NoState /\ states[k].running) ~>
            (states[k] = NoState \/ ~states[k].running \/ loop = "stopped")

=============================================================================
