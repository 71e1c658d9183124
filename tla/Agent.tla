------------------------------- MODULE Agent -------------------------------
(***************************************************************************)
(* The Linux Server Agent, wireguard-p2p/linux/p2p_agent.py.               *)
(*                                                                         *)
(* For every remote WireGuard public key the agent keeps a state           *)
(* (STATES[key]), drives the kernel peer of that key with `wg set`, and    *)
(* runs short-lived threads: a probe worker that tries the peer's          *)
(* candidate endpoints one after the other and promotes the first one that *)
(* completes a handshake to a /32 route, and a confirm6 worker that        *)
(* re-keys a fresh IPv6 direct.  HTTP handlers (/offer, /remove), the      *)
(* server-initiator loop, the monitor loop and the workers run in threads  *)
(* of their own; STATE_LOCK serialises their critical sections.            *)
(*                                                                         *)
(* One action is one critical section of STATE_LOCK, or one look at the    *)
(* kernel between two of them.  The monitor pass holds the lock over all   *)
(* its peers; it is split into one step per peer, with `monitor.active`    *)
(* standing for the held lock.  Several bumps of a generation inside one   *)
(* critical section are one bump: the values between are never read.       *)
(*                                                                         *)
(* Clocks are abstract: a lease is live or due, a retry delay is elapsed   *)
(* or not, a handshake is fresh (at most DIRECT_MAX_AGE old) or not; the   *)
(* environment moves them on.  Handshake timestamps are a counter.         *)
(***************************************************************************)
EXTENDS Naturals, Sequences, FiniteSets

CONSTANTS
    Keys,            \* public keys of the remote peers
    Endpoints,       \* UDP endpoints a candidate or a kernel peer can have
    CandidateLists,  \* the ordered candidate lists an offer can carry
    Host6,           \* endpoints of host6 candidates that get a confirm6 re-key
    Instances,       \* the instance ids an offer can carry, NoInstance included
    Controllers,     \* who may call handle_offer: "responder", "initiator"
    WgOutcomes,      \* how a `wg` command can end
    SaveOutcomes,    \* whether save_state can fail (FALSE) or succeed (TRUE)
    MayRestart,      \* whether the process can crash and start again
    MaxSession,      \* bound: control sessions offered, 1..MaxSession
    MaxGeneration,   \* bound: new work is only begun below this generation
    MaxHandshake,    \* bound: handshakes the kernel completes
    NoState, NoPeer, NoEndpoint, NoInstance

ASSUME KeysAssumption == IsFiniteSet(Keys)
ASSUME CandidatesAssumption == /\ CandidateLists \subseteq Seq(Endpoints) \ {<<>>}
                               /\ NoEndpoint \notin Endpoints
                               /\ NoInstance \in Instances
ASSUME BoundsAssumption == /\ MaxSession \in Nat /\ MaxGeneration \in Nat
                           /\ MaxHandshake \in Nat /\ MayRestart \in BOOLEAN
\* A command succeeds, is refused before it has an effect, or is reported as
\* failed (run() times out) after the kernel has applied it.
ASSUME OutcomesAssumption == /\ WgOutcomes \subseteq {"done", "failed", "timedout"}
                             /\ "done" \in WgOutcomes
                             /\ SaveOutcomes \subseteq BOOLEAN /\ TRUE \in SaveOutcomes

-----------------------------------------------------------------------------
(* State *)

VARIABLES
    states,          \* STATES: key -> peer state, or NoState
    saved,           \* STATE_FILE: the value of STATES at the last save_state
    wg,              \* the kernel: key -> dynamic WireGuard peer, or NoPeer
    workers,         \* the probe and confirm6 threads that are alive
    monitor,         \* the running pass of monitor_once
    lastGeneration,  \* LAST_GENERATION
    handshakes       \* handshakes completed so far, the kernel's clock

vars == <<states, saved, wg, workers, monitor, lastGeneration, handshakes>>

Modes == {"idle", "probe", "direct", "confirm6"}

PeerStates ==
    [controller : Controllers, session : 1..MaxSession, instance : Instances,
     mode : Modes, endpoint : Endpoints \cup {NoEndpoint},
     candidates : CandidateLists, lease : {"none", "live", "due"},
     controlExpired : BOOLEAN, retryDue : BOOLEAN,
     generation : Nat, running : BOOLEAN]

KernelPeers == [route : BOOLEAN, endpoint : Endpoints, handshake : Nat, fresh : BOOLEAN]

\* pc is where the thread stands: probe workers go through start, next, setup,
\* poll and promote, confirm6 workers through wait, confirming and finalize;
\* both end in the finally block of run_peer_worker.
Workers ==
    [key : Keys, generation : Nat, kind : {"probe", "confirm6"},
     pc : {"start", "next", "setup", "poll", "promote",
           "wait", "confirming", "finalize", "finally"},
     left : Seq(Endpoints), baseline : Nat, endpoint : Endpoints \cup {NoEndpoint}]

\* A pass looks at the kernel once, when it begins.
MonitorPasses == [active : BOOLEAN, current : [Keys -> KernelPeers \cup {NoPeer}],
                  todo : SUBSET Keys, changed : BOOLEAN, launches : SUBSET Workers]

NoPass == [active |-> FALSE, current |-> [k \in Keys |-> NoPeer], todo |-> {},
           changed |-> FALSE, launches |-> {}]

ASSUME NullsAssumption == NoState \notin PeerStates /\ NoPeer \notin KernelPeers

TypeOK ==
    /\ states \in [Keys -> PeerStates \cup {NoState}]
    /\ saved \in [Keys -> PeerStates \cup {NoState}]
    /\ wg \in [Keys -> KernelPeers \cup {NoPeer}]
    /\ workers \in SUBSET Workers
    /\ monitor \in MonitorPasses
    /\ lastGeneration \in Nat
    /\ handshakes \in Nat

Init ==
    /\ states = [k \in Keys |-> NoState]
    /\ saved = [k \in Keys |-> NoState]
    /\ wg = [k \in Keys |-> NoPeer]
    /\ workers = {}
    /\ monitor = NoPass
    /\ lastGeneration = 0
    /\ handshakes = 0

-----------------------------------------------------------------------------
(* Helpers *)

LockFree == ~monitor.active

Tracked == {k \in Keys : states[k] # NoState}

NextGeneration == lastGeneration + 1

Listed(list) == {list[i] : i \in DOMAIN list}

Routed(p) == p # NoPeer /\ p.route

\* Two mistakes in the test below: the age, and the route, are not looked at.
HealthyOnceUp(p) == Routed(p) /\ p.handshake > 0
HealthyUnrouted(p) == p # NoPeer /\ p.handshake > 0 /\ p.fresh

\* A /32 route whose last handshake is at most DIRECT_MAX_AGE old.
Healthy(p) == Routed(p) /\ p.handshake > 0 /\ p.fresh

LatestHandshake(p) == IF p = NoPeer THEN 0 ELSE p.handshake

\* The kernel peer after `wg set peer remove` ended with outcome r.
AfterRemove(p, r) == IF r = "failed" THEN p ELSE NoPeer

\* The kernel peer after `wg set peer ... endpoint e` without allowed-ips.
AfterSetup(p, e) ==
    IF p = NoPeer THEN [route |-> FALSE, endpoint |-> e, handshake |-> 0, fresh |-> FALSE]
                  ELSE [p EXCEPT !.endpoint = e]

\* The kernel peer after `wg set peer ... allowed-ips <peer>/32 endpoint e`.
AfterRoute(p, e) == [AfterSetup(p, e) EXCEPT !.route = TRUE]

\* save_state: the file follows STATES, or keeps its old content.
SaveState(ok) == saved' = IF ok THEN states' ELSE saved

Probe(k, g) == [key |-> k, generation |-> g, kind |-> "probe", pc |-> "start",
                left |-> <<>>, baseline |-> 0, endpoint |-> NoEndpoint]

Confirm(k, g, e) == [key |-> k, generation |-> g, kind |-> "confirm6", pc |-> "wait",
                     left |-> <<>>, baseline |-> 0, endpoint |-> e]

\* The peer falls back to the relay and waits for its next probe.
IdleAfterFailure(s) == [s EXCEPT !.mode = "idle", !.endpoint = NoEndpoint,
                                 !.retryDue = FALSE, !.running = FALSE]

\* A mistake: the new probe runs under the old generation.
ProbeStartedAgain(s) == [s EXCEPT !.mode = "probe", !.running = TRUE]

\* A new probe generation takes the peer over.
ProbeStarted(s) == [s EXCEPT !.mode = "probe", !.running = TRUE,
                             !.generation = NextGeneration]

-----------------------------------------------------------------------------
(* handle_offer: the Coordinator pushes an offer, or the server-initiator   *)
(* loop makes one from its own sync                                         *)

Offers == [session : 1..MaxSession, instance : Instances,
           controller : Controllers, candidates : CandidateLists]

\* A session that started no later than the one known is ignored.
Accepts(s, o) == s # NoState => s.session <= o.session

InstanceChanged(s, o) ==
    s # NoState /\ o.instance # NoInstance /\ s.instance # o.instance

NewSession(s, o) == s # NoState /\ s.session # o.session

\* The state and its kernel peer are thrown away before the offer is applied.
Replaces(k, o) == \/ InstanceChanged(states[k], o)
                  \/ NewSession(states[k], o) /\ ~Healthy(wg[k])

\* A replaced state has no candidate signature yet.
SignatureChanged(k, o) ==
    states[k] # NoState /\ ~Replaces(k, o) => states[k].candidates # o.candidates

KeepsDirect(k, o) ==
    /\ Healthy(wg[k]) /\ ~Replaces(k, o)
    /\ SignatureChanged(k, o) => wg[k].endpoint \in Listed(o.candidates)

\* A mistake: the candidates of the offer are forgotten.
NewPeerStateBare(o) ==
    [controller |-> o.controller, session |-> o.session, instance |-> o.instance,
     mode |-> "idle", endpoint |-> NoEndpoint, candidates |-> <<>>,
     lease |-> "live", controlExpired |-> FALSE, retryDue |-> TRUE,
     generation |-> NextGeneration, running |-> FALSE]

NewPeerState(o) ==
    [controller |-> o.controller, session |-> o.session, instance |-> o.instance,
     mode |-> "idle", endpoint |-> NoEndpoint, candidates |-> o.candidates,
     lease |-> "live", controlExpired |-> FALSE, retryDue |-> TRUE,
     generation |-> NextGeneration, running |-> FALSE]

\* The state once the offer's session, lease and candidates are recorded.  A
\* new session that finds a healthy direct keeps the state and its direct.
Adopted(k, o) ==
    LET s == states[k] IN
    IF s = NoState \/ Replaces(k, o) THEN NewPeerState(o) ELSE
    [s EXCEPT !.controller = o.controller, !.session = o.session,
              !.instance = IF o.instance = NoInstance THEN @ ELSE o.instance,
              !.candidates = o.candidates, !.lease = "live", !.controlExpired = FALSE,
              !.mode = IF NewSession(s, o) THEN "direct" ELSE @,
              !.endpoint = IF NewSession(s, o) THEN wg[k].endpoint ELSE @,
              !.retryDue = NewSession(s, o) \/ SignatureChanged(k, o) \/ @,
              !.running = @ /\ ~NewSession(s, o) /\ ~SignatureChanged(k, o),
              !.generation = IF NewSession(s, o) \/ SignatureChanged(k, o)
                             THEN NextGeneration ELSE @]

\* A healthy direct that is still advertised stays in place.
OfferKeepsDirect(k, o, saves) ==
    /\ KeepsDirect(k, o)
    /\ states' = [states EXCEPT ![k] = [Adopted(k, o) EXCEPT !.mode = "direct",
                                           !.endpoint = wg[k].endpoint, !.running = FALSE]]
    /\ SaveState(saves)
    /\ UNCHANGED <<wg, workers>>

\* What the kernel has for the peer is of no use: remove it and probe.
OfferStartsProbe(k, o, saves) ==
    /\ ~KeepsDirect(k, o) /\ (SignatureChanged(k, o) \/ Routed(wg[k]))
    /\ states' = [states EXCEPT ![k] =
                     ProbeStarted([Adopted(k, o) EXCEPT !.endpoint = NoEndpoint,
                                                        !.retryDue = TRUE])]
    /\ wg' = [wg EXCEPT ![k] = NoPeer]
    /\ workers' = IF saves THEN workers \cup {Probe(k, states'[k].generation)} ELSE workers
    /\ SaveState(saves)

\* Nothing new: renew the lease, and probe if the retry delay is over.
OfferRefreshes(k, o, saves) ==
    LET s == Adopted(k, o)
        launch == s.retryDue /\ ~s.running IN
    /\ ~SignatureChanged(k, o) /\ ~Routed(wg[k])
    /\ states' = [states EXCEPT ![k] = IF launch THEN ProbeStarted(s) ELSE s]
    /\ workers' = IF launch /\ saves
                  THEN workers \cup {Probe(k, states'[k].generation)} ELSE workers
    /\ SaveState(saves)
    /\ UNCHANGED wg

\* The `wg set peer remove` of OfferStartsProbe raises: the offer is refused
\* with the state half changed and not saved.
OfferRemoveFails(k, o, r) ==
    /\ ~KeepsDirect(k, o) /\ (SignatureChanged(k, o) \/ Routed(wg[k]))
    /\ wg[k] # NoPeer /\ r # "done"
    /\ states' = [states EXCEPT ![k] =
                     IF Replaces(k, o)
                     THEN [@ EXCEPT !.generation = NextGeneration, !.running = FALSE]
                     ELSE Adopted(k, o)]
    /\ wg' = [wg EXCEPT ![k] = AfterRemove(@, r)]
    /\ UNCHANGED <<saved, workers>>

HandleOffer(k, o) ==
    /\ LockFree /\ lastGeneration < MaxGeneration
    /\ Accepts(states[k], o)
    /\ \/ \E saves \in SaveOutcomes : \/ OfferKeepsDirect(k, o, saves)
                                      \/ OfferStartsProbe(k, o, saves)
                                      \/ OfferRefreshes(k, o, saves)
       \/ \E r \in WgOutcomes : OfferRemoveFails(k, o, r)
    /\ lastGeneration' = IF states'[k].generation = NextGeneration
                         THEN NextGeneration ELSE lastGeneration
    /\ UNCHANGED <<monitor, handshakes>>

-----------------------------------------------------------------------------
(* handle_remove *)

\* The control session expired but the direct is healthy: keep the direct,
\* without a lease and without a new generation.
ControlExpired(s, p) == [s EXCEPT !.controlExpired = TRUE, !.lease = "none",
                                  !.running = FALSE, !.mode = "direct",
                                  !.endpoint = p.endpoint]

RemovePreserves(k, saves) ==
    /\ states' = [states EXCEPT ![k] = ControlExpired(@, wg[k])]
    /\ SaveState(saves)
    /\ UNCHANGED <<wg, lastGeneration>>

RemoveDrops(k, saves) ==
    /\ states' = [states EXCEPT ![k] = NoState]
    /\ wg' = [wg EXCEPT ![k] = NoPeer]
    /\ lastGeneration' = NextGeneration
    /\ SaveState(saves)

\* A mistake: the state is dropped although the command failed.
RemoveFailsSilently(k, r) ==
    /\ wg[k] # NoPeer /\ r # "done"
    /\ wg' = [wg EXCEPT ![k] = AfterRemove(@, r)]
    /\ states' = [states EXCEPT ![k] = NoState]
    /\ UNCHANGED <<saved, lastGeneration>>

\* The command raises before the state is touched.
RemoveFails(k, r) ==
    /\ wg[k] # NoPeer /\ r # "done"
    /\ wg' = [wg EXCEPT ![k] = AfterRemove(@, r)]
    /\ UNCHANGED <<states, saved, lastGeneration>>

HandleRemove(k, session, reason) ==
    /\ LockFree /\ lastGeneration < MaxGeneration
    /\ states[k] # NoState /\ states[k].session = session
    /\ IF reason = "expired" /\ Healthy(wg[k])
       THEN \E saves \in SaveOutcomes : RemovePreserves(k, saves)
       ELSE \/ \E saves \in SaveOutcomes : RemoveDrops(k, saves)
            \/ \E r \in WgOutcomes : RemoveFails(k, r)
    /\ UNCHANGED <<workers, monitor, handshakes>>

-----------------------------------------------------------------------------
(* cleanup_initiator_states: the peers this server no longer initiates to.  *)
(* A failing `wg` command is logged, and the state is dropped all the same. *)

CleanupInitiatorStates(active) ==
    LET gone == {k \in Tracked \ active : states[k].controller = "initiator"} IN
    /\ LockFree /\ lastGeneration < MaxGeneration
    /\ gone # {}
    /\ \E r \in [gone -> WgOutcomes], saves \in SaveOutcomes :
          /\ wg' = [k \in Keys |-> IF k \in gone THEN AfterRemove(wg[k], r[k]) ELSE wg[k]]
          /\ states' = [k \in Keys |-> IF k \in gone THEN NoState ELSE states[k]]
          /\ SaveState(saves)
    /\ lastGeneration' = lastGeneration + Cardinality(gone)
    /\ UNCHANGED <<workers, monitor, handshakes>>

-----------------------------------------------------------------------------
(* monitor_once: one pass over all peers, holding STATE_LOCK throughout     *)

MonitorBegin ==
    /\ LockFree /\ Tracked # {}
    /\ monitor' = [active |-> TRUE, current |-> wg, todo |-> Tracked, changed |-> FALSE,
                   launches |-> {}]
    /\ UNCHANGED <<states, saved, wg, workers, lastGeneration, handshakes>>

\* A mistake: a direct peer is taken for one that needs no lease.
LeaseOverOffDirect(s) == ~s.controlExpired /\ s.lease = "due" /\ s.mode # "direct"

LeaseOver(s) == ~s.controlExpired /\ s.lease = "due"

Confirming(s) == s.mode = "confirm6" /\ s.running

\* The pass is done with peer k, having changed something or not.
Visited(k, changed) ==
    monitor' = [monitor EXCEPT !.todo = @ \ {k}, !.changed = @ \/ changed]

\* The pass wants a probe of peer k; the thread starts after the pass.
VisitedWithLaunch(k) ==
    monitor' = [monitor EXCEPT !.todo = @ \ {k}, !.changed = TRUE,
                               !.launches = @ \cup {Probe(k, states'[k].generation)}]

MonitorPreserves(k) ==
    /\ LeaseOver(states[k]) /\ Healthy(monitor.current[k])
    /\ states' = [states EXCEPT ![k] = ControlExpired(@, monitor.current[k])]
    /\ Visited(k, TRUE)
    /\ UNCHANGED <<wg, lastGeneration>>

MonitorExpires(k) ==
    /\ LeaseOver(states[k]) /\ ~Healthy(monitor.current[k])
    /\ states' = [states EXCEPT ![k] = NoState]
    /\ wg' = [wg EXCEPT ![k] = NoPeer]
    /\ lastGeneration' = NextGeneration
    /\ Visited(k, TRUE)

\* A running confirmation is left alone.
MonitorConfirming(k) ==
    /\ ~LeaseOver(states[k]) /\ Confirming(states[k])
    /\ Visited(k, FALSE)
    /\ UNCHANGED <<states, wg, lastGeneration>>

\* worker_running is not touched, and the file is not written for this.
MonitorKeepsDirect(k) ==
    /\ ~LeaseOver(states[k]) /\ ~Confirming(states[k]) /\ Healthy(monitor.current[k])
    /\ states' = [states EXCEPT ![k].mode = "direct",
                                ![k].endpoint = monitor.current[k].endpoint]
    /\ Visited(k, FALSE)
    /\ UNCHANGED <<wg, lastGeneration>>

\* A mistake: the peer is probed again instead of being forgotten.
KeptForever(s) == FALSE

\* Without a control session a peer is kept for its direct alone.
KeptForDirect(s) == s.controlExpired

StaleDirect(k) ==
    /\ ~LeaseOver(states[k]) /\ ~Confirming(states[k])
    /\ Routed(monitor.current[k]) /\ ~Healthy(monitor.current[k])

\* A stale direct without a control session: forget the peer.
MonitorForgets(k) ==
    /\ StaleDirect(k) /\ KeptForDirect(states[k])
    /\ states' = [states EXCEPT ![k] = NoState]
    /\ wg' = [wg EXCEPT ![k] = NoPeer]
    /\ lastGeneration' = NextGeneration
    /\ Visited(k, TRUE)

\* A stale direct: fall back to the relay and probe at once.
MonitorFallsBack(k) ==
    /\ StaleDirect(k) /\ ~KeptForDirect(states[k])
    /\ states' = [states EXCEPT ![k] = ProbeStarted([@ EXCEPT !.endpoint = NoEndpoint,
                                                              !.retryDue = TRUE])]
    /\ wg' = [wg EXCEPT ![k] = NoPeer]
    /\ lastGeneration' = NextGeneration
    /\ VisitedWithLaunch(k)

\* No direct: probe again when no worker runs and the delay is over.
MonitorRetries(k) ==
    LET s == states[k] IN
    /\ ~LeaseOver(s) /\ ~Confirming(s) /\ ~Routed(monitor.current[k])
    /\ IF s.retryDue /\ ~s.running
       THEN /\ states' = [states EXCEPT ![k] = ProbeStarted(@)]
            /\ lastGeneration' = NextGeneration
            /\ VisitedWithLaunch(k)
       ELSE /\ states' = [states EXCEPT ![k].mode =
                             IF @ = "probe" /\ ~s.running THEN "idle" ELSE @]
            /\ Visited(k, s.mode = "probe" /\ ~s.running)
            /\ UNCHANGED lastGeneration
    /\ UNCHANGED wg

MonitorPeer(k) ==
    /\ monitor.active /\ k \in monitor.todo
    /\ \/ MonitorPreserves(k) \/ MonitorExpires(k) \/ MonitorConfirming(k)
       \/ MonitorKeepsDirect(k) \/ MonitorForgets(k) \/ MonitorFallsBack(k)
       \/ MonitorRetries(k)
    /\ UNCHANGED <<saved, workers, handshakes>>

\* A `wg set peer remove` raises out of the pass: the peers not yet visited
\* wait for the next pass, and the launches collected so far are lost.
MonitorFails(k) ==
    /\ monitor.active /\ k \in monitor.todo /\ wg[k] # NoPeer
    /\ (LeaseOver(states[k]) /\ ~Healthy(monitor.current[k])) \/ StaleDirect(k)
    /\ \E r \in WgOutcomes \ {"done"} : wg' = [wg EXCEPT ![k] = AfterRemove(@, r)]
    /\ monitor' = NoPass
    /\ UNCHANGED <<states, saved, workers, lastGeneration, handshakes>>

\* The end of the pass: save if something changed, then start the probes.
\* A failing save loses the launches as well.
MonitorEnd ==
    /\ monitor.active /\ monitor.todo = {}
    /\ monitor' = NoPass
    /\ \/ /\ workers' = workers \cup monitor.launches
          /\ saved' = IF monitor.changed THEN states ELSE saved
       \/ /\ monitor.changed /\ FALSE \in SaveOutcomes
          /\ UNCHANGED <<workers, saved>>
    /\ UNCHANGED <<states, wg, lastGeneration, handshakes>>

-----------------------------------------------------------------------------
(* Workers.  A worker belongs to the current generation of its peer or must *)
(* not touch the peer any more.                                             *)

Current(w) == states[w.key] # NoState /\ states[w.key].generation = w.generation

\* A mistake: the generation is not compared.
ProbeRunning(w) == states[w.key] # NoState /\ states[w.key].running

\* What probe workers ask before they act (probe_generation_current).
ProbeCurrent(w) == Current(w) /\ states[w.key].running

\* A mistake: only the generation is compared.
ConfirmOfGeneration(w) == Current(w)

\* What confirm6 workers ask once they have re-created the peer.
ConfirmCurrent(w) == Current(w) /\ Confirming(states[w.key])

Becomes(w, v) == workers' = (workers \ {w}) \cup {v}

GoTo(w, pc) == Becomes(w, [w EXCEPT !.pc = pc])

AtProbe(w, pc) == w \in workers /\ w.kind = "probe" /\ w.pc = pc

AtConfirm(w, pc) == w \in workers /\ w.kind = "confirm6" /\ w.pc = pc

\* A worker that finds itself superseded when it takes the lock returns; so
\* does one whose look at the kernel raises.
WorkerGivesUp(w) ==
    /\ w \in workers
    /\ \/ LockFree /\ w.kind = "probe" /\ w.pc # "finally" /\ ~ProbeCurrent(w)
       \/ LockFree /\ w.kind = "confirm6" /\ w.pc = "wait"
          /\ ~(Current(w) /\ states[w.key].mode = "direct"
                          /\ states[w.key].endpoint = w.endpoint)
       \/ LockFree /\ w.kind = "confirm6" /\ w.pc \in {"confirming", "finalize"}
          /\ ~ConfirmCurrent(w)
       \/ "failed" \in WgOutcomes /\ w.pc \in {"next", "poll", "confirming"}
          /\ (w.pc = "next" => w.left # <<>>)
    /\ GoTo(w, "finally")
    /\ UNCHANGED <<states, saved, wg, monitor, lastGeneration, handshakes>>

\* Copy the candidates of the peer.
ProbeStart(w) ==
    /\ AtProbe(w, "start") /\ LockFree /\ ProbeCurrent(w)
    /\ Becomes(w, [w EXCEPT !.pc = "next", !.left = states[w.key].candidates])
    /\ UNCHANGED <<states, saved, wg, monitor, lastGeneration, handshakes>>

\* Take the next candidate: read the baseline handshake without the lock.
ProbeBaseline(w) ==
    /\ AtProbe(w, "next") /\ w.left # <<>> /\ LockFree /\ ProbeCurrent(w)
    /\ Becomes(w, [w EXCEPT !.pc = "setup", !.baseline = LatestHandshake(wg[w.key]),
                            !.endpoint = Head(w.left)])
    /\ UNCHANGED <<states, saved, wg, monitor, lastGeneration, handshakes>>

NextCandidate(w) == [w EXCEPT !.pc = "next", !.left = Tail(w.left)]

\* Point the kernel at the candidate.  A failing command moves on to the next
\* candidate, a failing save ends the worker.
ProbeSetup(w) ==
    /\ AtProbe(w, "setup") /\ LockFree /\ ProbeCurrent(w)
    /\ \/ \E saves \in SaveOutcomes :
             /\ wg' = [wg EXCEPT ![w.key] = AfterSetup(@, w.endpoint)]
             /\ states' = [states EXCEPT ![w.key].mode = "probe",
                                         ![w.key].endpoint = w.endpoint]
             /\ SaveState(saves)
             /\ GoTo(w, IF saves THEN "poll" ELSE "finally")
       \/ \E r \in WgOutcomes \ {"done"} :
             /\ wg' = IF r = "failed" THEN wg
                      ELSE [wg EXCEPT ![w.key] = AfterSetup(@, w.endpoint)]
             /\ Becomes(w, NextCandidate(w))
             /\ UNCHANGED <<states, saved>>
    /\ UNCHANGED <<monitor, lastGeneration, handshakes>>

\* The candidate's window closes without a new handshake.
ProbeWindowCloses(w) ==
    /\ AtProbe(w, "poll")
    /\ Becomes(w, NextCandidate(w))
    /\ UNCHANGED <<states, saved, wg, monitor, lastGeneration, handshakes>>

\* A poll sees a handshake newer than the baseline, and the endpoint in use.
ProbeSeesHandshake(w) ==
    /\ AtProbe(w, "poll") /\ LockFree /\ ProbeCurrent(w)
    /\ LatestHandshake(wg[w.key]) > w.baseline
    /\ Becomes(w, [w EXCEPT !.pc = "promote", !.endpoint = wg[w.key].endpoint])
    /\ UNCHANGED <<states, saved, wg, monitor, lastGeneration, handshakes>>

\* Install the /32 route.  Candidates of a NAT66 host6 peer get a confirm6
\* worker of the same generation afterwards.
ProbePromotes(w) ==
    /\ AtProbe(w, "promote") /\ LockFree /\ ProbeCurrent(w)
    /\ \/ \E saves \in SaveOutcomes :
             /\ wg' = [wg EXCEPT ![w.key] = AfterRoute(@, w.endpoint)]
             /\ states' = [states EXCEPT ![w.key].mode = "direct",
                              ![w.key].endpoint = w.endpoint, ![w.key].retryDue = TRUE,
                              ![w.key].running = FALSE]
             /\ SaveState(saves)
             /\ workers' = (workers \ {w}) \cup {[w EXCEPT !.pc = "finally"]} \cup
                   IF saves /\ Head(w.left) \in Host6
                   THEN {Confirm(w.key, w.generation, w.endpoint)} ELSE {}
       \/ \E r \in WgOutcomes \ {"done"} :
             /\ wg' = IF r = "failed" THEN wg
                      ELSE [wg EXCEPT ![w.key] = AfterRoute(@, w.endpoint)]
             /\ GoTo(w, "finally")
             /\ UNCHANGED <<states, saved>>
    /\ UNCHANGED <<monitor, lastGeneration, handshakes>>

\* All candidates failed.  The failing removal of the peer is swallowed.
ProbeExhausted(w) ==
    /\ AtProbe(w, "next") /\ w.left = <<>> /\ LockFree /\ ProbeCurrent(w)
    /\ \E r \in WgOutcomes, saves \in SaveOutcomes :
          /\ wg' = [wg EXCEPT ![w.key] = AfterRemove(@, r)]
          /\ states' = [states EXCEPT ![w.key] = IdleAfterFailure(@)]
          /\ SaveState(saves)
    /\ GoTo(w, "finally")
    /\ UNCHANGED <<monitor, lastGeneration, handshakes>>

\* confirm6, after its delay: re-create the peer with its route, which clears
\* the WireGuard session, and wait for the handshake of the new one.
ConfirmRekeys(w) ==
    /\ AtConfirm(w, "wait") /\ LockFree /\ Current(w)
    /\ states[w.key].mode = "direct" /\ states[w.key].endpoint = w.endpoint
    /\ \/ \E saves \in SaveOutcomes :
             /\ wg' = [wg EXCEPT ![w.key] = AfterRoute(NoPeer, w.endpoint)]
             /\ states' = [states EXCEPT ![w.key].mode = "confirm6", ![w.key].running = TRUE]
             /\ SaveState(saves)
             /\ GoTo(w, IF saves THEN "confirming" ELSE "finally")
       \* one of the two commands raises; a last removal is attempted
       \/ \E remove, set, undo \in WgOutcomes, saves \in SaveOutcomes :
             LET p == AfterRemove(wg[w.key], remove)
                 q == IF remove = "done" /\ set = "timedout"
                      THEN AfterRoute(p, w.endpoint) ELSE p IN
             /\ remove # "done" \/ set # "done"
             /\ wg' = [wg EXCEPT ![w.key] = AfterRemove(q, undo)]
             /\ states' = [states EXCEPT ![w.key] = IdleAfterFailure(@)]
             /\ SaveState(saves)
             /\ GoTo(w, "finally")
    /\ UNCHANGED <<monitor, lastGeneration, handshakes>>

\* A poll sees a handshake of the re-created peer.
ConfirmSeesHandshake(w) ==
    /\ AtConfirm(w, "confirming")
    /\ wg[w.key] # NoPeer /\ wg[w.key].handshake > 0 /\ wg[w.key].fresh
    /\ Becomes(w, [w EXCEPT !.pc = "finalize", !.endpoint = wg[w.key].endpoint])
    /\ UNCHANGED <<states, saved, wg, monitor, lastGeneration, handshakes>>

ConfirmFinalizes(w) ==
    /\ AtConfirm(w, "finalize") /\ LockFree /\ ConfirmCurrent(w)
    /\ \/ \E saves \in SaveOutcomes :
             /\ wg' = [wg EXCEPT ![w.key] = AfterRoute(@, w.endpoint)]
             /\ states' = [states EXCEPT ![w.key].mode = "direct",
                              ![w.key].endpoint = w.endpoint, ![w.key].retryDue = TRUE,
                              ![w.key].running = FALSE]
             /\ SaveState(saves)
       \/ \E r \in WgOutcomes \ {"done"} :
             /\ wg' = IF r = "failed" THEN wg
                      ELSE [wg EXCEPT ![w.key] = AfterRoute(@, w.endpoint)]
             /\ UNCHANGED <<states, saved>>
    /\ GoTo(w, "finally")
    /\ UNCHANGED <<monitor, lastGeneration, handshakes>>

\* No handshake in the confirmation window: back to the relay.
ConfirmTimesOut(w) ==
    /\ AtConfirm(w, "confirming") /\ LockFree /\ ConfirmCurrent(w)
    /\ \E r \in WgOutcomes, saves \in SaveOutcomes :
          /\ wg' = [wg EXCEPT ![w.key] = AfterRemove(@, r)]
          /\ states' = [states EXCEPT ![w.key] = IdleAfterFailure(@)]
          /\ SaveState(saves)
    /\ GoTo(w, "finally")
    /\ UNCHANGED <<monitor, lastGeneration, handshakes>>

\* A mistake: nothing is cleaned up.
NeverAbandoned(w) == FALSE

\* The work of w was abandoned and nobody has taken the peer over.
Abandoned(w) == Current(w) /\ states[w.key].mode = w.kind /\ states[w.key].running

\* The finally block of run_peer_worker.  Its own failures are only logged.
WorkerEnds(w) ==
    /\ w \in workers /\ w.pc = "finally" /\ LockFree
    /\ workers' = workers \ {w}
    /\ IF Abandoned(w)
       THEN /\ \E r \in WgOutcomes, saves \in SaveOutcomes :
                  /\ wg' = [wg EXCEPT ![w.key] = AfterRemove(@, r)]
                  /\ states' = [states EXCEPT ![w.key] =
                        [IdleAfterFailure(@) EXCEPT !.generation = NextGeneration]]
                  /\ SaveState(saves)
            /\ lastGeneration' = NextGeneration
       ELSE UNCHANGED <<states, saved, wg, lastGeneration>>
    /\ UNCHANGED <<monitor, handshakes>>

WorkerStep(w) ==
    \/ WorkerGivesUp(w) \/ ProbeStart(w) \/ ProbeBaseline(w) \/ ProbeSetup(w)
    \/ ProbeWindowCloses(w) \/ ProbeSeesHandshake(w) \/ ProbePromotes(w)
    \/ ProbeExhausted(w) \/ ConfirmRekeys(w) \/ ConfirmSeesHandshake(w)
    \/ ConfirmFinalizes(w) \/ ConfirmTimesOut(w) \/ WorkerEnds(w)

-----------------------------------------------------------------------------
(* Crash and restart: load_state, then cleanup_orphans.  The threads are    *)
(* gone, the kernel keeps its peers.  The runtime directory may have been   *)
(* removed by systemd, and the state file with it.                          *)

Loaded(s, g) == [s EXCEPT !.running = FALSE, !.generation = g,
                          !.mode = IF @ = "probe" THEN "idle" ELSE @]

\* cleanup_orphans: /32 routes of peers that are not in STATES.
WithoutOrphans(loaded) ==
    [k \in Keys |-> IF Routed(wg[k]) /\ k \notin loaded THEN NoPeer ELSE wg[k]]

\* next_generation(previous) gives the loaded peers distinct generations, all
\* greater than the saved ones up to then; their order is that of the file.
Restart(file) ==
    LET loaded == {k \in Keys : file[k] # NoState} IN
    /\ MayRestart /\ lastGeneration < MaxGeneration
    /\ \E base \in {0} \cup {file[k].generation : k \in loaded} :
       \E g \in [loaded -> (base + 1)..(base + Cardinality(loaded))] :
          /\ \A k \in loaded : file[k].generation <= base
          /\ \A j, k \in loaded : g[j] = g[k] => j = k
          /\ states' = [k \in Keys |-> IF k \in loaded THEN Loaded(file[k], g[k]) ELSE NoState]
          /\ lastGeneration' = base + Cardinality(loaded)
    /\ wg' = WithoutOrphans(loaded)
    /\ saved' = file
    /\ workers' = {}
    /\ monitor' = NoPass
    /\ UNCHANGED handshakes

-----------------------------------------------------------------------------
(* The environment: the WireGuard kernel and the clocks *)

\* The kernel peer completes a handshake, from an endpoint of the remote's
\* choosing.
WgHandshake(k, e) ==
    /\ handshakes < MaxHandshake /\ wg[k] # NoPeer
    /\ handshakes' = handshakes + 1
    /\ wg' = [wg EXCEPT ![k].handshake = handshakes', ![k].fresh = TRUE,
                        ![k].endpoint = e]
    /\ UNCHANGED <<states, saved, workers, monitor, lastGeneration>>

\* The last handshake of the peer becomes older than DIRECT_MAX_AGE.
HandshakeAges(k) ==
    /\ wg[k] # NoPeer /\ wg[k].fresh
    /\ wg' = [wg EXCEPT ![k].fresh = FALSE]
    /\ UNCHANGED <<states, saved, workers, monitor, lastGeneration, handshakes>>

\* Leases and retry delays are points in time, in the file as well: the file's
\* is over when that of the agent is.
LeaseElapses(k) ==
    /\ states[k] # NoState /\ states[k].lease = "live"
    /\ states' = [states EXCEPT ![k].lease = "due"]
    /\ saved' = [saved EXCEPT ![k] = IF @ # NoState /\ @.lease = "live"
                                     THEN [@ EXCEPT !.lease = "due"] ELSE @]
    /\ UNCHANGED <<wg, workers, monitor, lastGeneration, handshakes>>

RetryElapses(k) ==
    /\ states[k] # NoState /\ ~states[k].retryDue /\ lastGeneration < MaxGeneration
    /\ states' = [states EXCEPT ![k].retryDue = TRUE]
    /\ saved' = [saved EXCEPT ![k] = IF @ # NoState THEN [@ EXCEPT !.retryDue = TRUE] ELSE @]
    /\ UNCHANGED <<wg, workers, monitor, lastGeneration, handshakes>>

-----------------------------------------------------------------------------
AgentRestarts == \E file \in {saved, [k \in Keys |-> NoState]} : Restart(file)

RemoveReasons == {"disconnect", "superseded", "expired"}

MonitorStep == MonitorBegin \/ (\E k \in Keys : MonitorPeer(k) \/ MonitorFails(k)) \/ MonitorEnd

Next ==
    \/ \E k \in Keys, o \in Offers : HandleOffer(k, o)
    \/ \E k \in Keys, n \in 1..MaxSession, reason \in RemoveReasons : HandleRemove(k, n, reason)
    \/ \E active \in SUBSET Keys : CleanupInitiatorStates(active)
    \/ MonitorStep
    \/ \E w \in workers : WorkerStep(w)
    \/ AgentRestarts
    \/ \E k \in Keys, e \in Endpoints : WgHandshake(k, e)
    \/ \E k \in Keys : HandshakeAges(k) \/ LeaseElapses(k) \/ RetryElapses(k)

Spec == Init /\ [][Next]_vars

\* Threads get the lock sooner or later and the monitor loop keeps running
\* (monitor_loop catches every exception).  Nothing is assumed of the remote
\* peers, the Coordinator, the clocks or the kernel.
Fairness == /\ WF_vars(MonitorStep)
            /\ SF_vars(\E w \in workers : WorkerStep(w))

FairSpec == Spec /\ Fairness

-----------------------------------------------------------------------------
(* Safety *)

\* Generations fence the workers: no generation is ahead of LAST_GENERATION,
\* and no two peers, and no two threads of one kind, ever have the same one
\* (next_generation; also after a peer was deleted and offered again).
GenerationsFence ==
    LET all == workers \cup monitor.launches IN
    /\ \A k \in Tracked : states[k].generation \in 1..lastGeneration
    /\ \A w \in all : w.generation \in 1..lastGeneration
    /\ \A j, k \in Tracked : states[j].generation = states[k].generation => j = k
    /\ \A v, w \in all : v.generation = w.generation /\ v.kind = w.kind => v = w
    /\ \A w \in all : Current(w) \/ \A k \in Tracked : states[k].generation # w.generation

\* At most one thread can still act on a peer: whatever offers, removals,
\* passes and crashes come between, the others find themselves superseded.
SingleActor ==
    \A v, w \in workers :
        (/\ v.key = w.key /\ Current(v) /\ Current(w)
         /\ v.pc # "finally" /\ w.pc # "finally") => v = w

\* A peer that is marked as being probed or confirmed has a thread of its
\* generation that will act on it or clean it up (or the pass in progress is
\* about to start one).  Otherwise monitor_once skips the peer and offers do
\* not start a probe for it: it stays on the relay.
RunningHasWorker ==
    \A k \in Tracked :
        states[k].running /\ states[k].mode \in {"probe", "confirm6"} =>
            \E w \in workers \cup monitor.launches :
                w.key = k /\ Current(w) /\ w.kind = states[k].mode

\* A /32 route in the kernel always belongs to a peer the agent tracks, so
\* that the monitor can take it out again.
NoOrphanRoute == \A k \in Keys : Routed(wg[k]) => states[k] # NoState

\* The recorded mode and the kernel agree: "direct" means that the /32 route is
\* installed and WireGuard has completed a handshake over it; a /32 route is
\* only there in modes "direct" and "confirm6".
DirectMatchesKernel ==
    \A k \in Tracked :
        /\ states[k].mode = "direct" => Routed(wg[k]) /\ wg[k].handshake > 0
        /\ Routed(wg[k]) => states[k].mode \in {"direct", "confirm6"}

\* A peer whose control session expired is kept only for the sake of its
\* direct: it has no lease that could end it otherwise.
ExpiredKeptForDirect ==
    \A k \in Tracked : states[k].controlExpired => Routed(wg[k])

-----------------------------------------------------------------------------
(* Action properties *)

\* A superseded thread changes nothing: no step of it touches the states, the
\* kernel or the file.
StaleWorkerInert ==
    [][\A w \in workers : ~Current(w) /\ WorkerStep(w) => UNCHANGED <<states, wg, saved>>]_vars

\* The control plane does not cut a healthy direct: its kernel peer is only
\* removed by an explicit removal outside the monitor pass, for a new instance
\* of the remote, because its endpoint is no longer advertised, by a pass that
\* saw it stale, or by the confirm6 worker that is re-keying it.
HealthyDirectSurvives ==
    [][\A k \in Tracked :
          Healthy(wg[k]) /\ ~Confirming(states[k]) /\ ~Routed(wg'[k]) =>
             \/ states'[k] = NoState /\ ~monitor.active
             \/ monitor.active /\ ~Healthy(monitor.current[k])
             \/ states'[k] # NoState /\ states'[k].instance # states[k].instance
             \/ states'[k] # NoState /\ wg[k].endpoint \notin Listed(states'[k].candidates)]_vars

-----------------------------------------------------------------------------
(* Liveness, under FairSpec *)

\* The faults are over: the process no longer dies, and no pass is cut short.
FaultsStop == <>[][~AgentRestarts /\ ~(\E k \in Keys : MonitorFails(k))]_vars

Working(k) == /\ states[k] # NoState /\ states[k].running
              /\ states[k].mode \in {"probe", "confirm6"}

\* Another generation takes over, or the peer is gone.
Superseded(k) == /\ states[k] # NoState
                 /\ states'[k] # NoState => states'[k].generation # states[k].generation

\* A probe or confirmation ends, if no other takes over from it: nobody hangs
\* in "probe" once the faults are over.
WorkersFinish ==
    FaultsStop => \A k \in Keys : []<>(~Working(k)) \/ []<><<Superseded(k)>>_vars

\* A direct that stays stale falls back to the relay once the faults are over.
StaleDirectFallsBack ==
    FaultsStop => \A k \in Keys : (Routed(wg[k]) /\ ~wg[k].fresh) ~>
                                  (~Routed(wg[k]) \/ wg[k].fresh)

\* A lease that ran out ends the peer, or its control session.
LeaseOverIsNoticed ==
    FaultsStop => \A k \in Keys : (states[k] # NoState /\ states[k].lease = "due")
                        ~> (states[k] = NoState \/ states[k].lease # "due")

=============================================================================
