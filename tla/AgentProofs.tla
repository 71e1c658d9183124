---------------------------- MODULE AgentProofs ----------------------------
(***************************************************************************)
(* Theorems about Agent, for every value of its constants: any number of   *)
(* peers, endpoints, sessions and faults, with and without restarts.       *)
(***************************************************************************)
EXTENDS Agent, FiniteSetTheorems, TLAPS

-----------------------------------------------------------------------------
(* Typing lemmas of the operators the actions are built from *)

\* What `wg set` leaves in the kernel is a peer, or none.
LEMMA KernelTypes ==
    ASSUME NEW p \in KernelPeers \cup {NoPeer}, NEW e \in Endpoints, NEW r
    PROVE  /\ AfterRemove(p, r) \in KernelPeers \cup {NoPeer}
           /\ AfterSetup(p, e) \in KernelPeers
           /\ AfterRoute(p, e) \in KernelPeers
           /\ LatestHandshake(p) \in Nat
           /\ Routed(AfterSetup(p, e)) <=> Routed(p)
  <1>1. AfterSetup(p, e) \in KernelPeers
    BY NullsAssumption DEF AfterSetup, KernelPeers
  <1>2. AfterRoute(p, e) \in KernelPeers
    BY <1>1 DEF AfterRoute, KernelPeers
  <1>3. Routed(AfterSetup(p, e)) <=> Routed(p)
    BY <1>1, NullsAssumption DEF AfterSetup, KernelPeers, Routed
  <1> QED
    BY <1>1, <1>2, <1>3, NullsAssumption DEF AfterRemove, LatestHandshake, KernelPeers

\* The state changes shared by the actions produce peer states.
LEMMA StateTypes ==
    ASSUME NEW s \in PeerStates, lastGeneration \in Nat
    PROVE  /\ IdleAfterFailure(s) \in PeerStates
           /\ ProbeStarted(s) \in PeerStates
           /\ NextGeneration \in Nat
  <1>1. IdleAfterFailure(s) \in PeerStates
    BY DEF IdleAfterFailure, PeerStates, Modes
  <1>2. NextGeneration \in Nat
    BY DEF NextGeneration
  <1>3. ProbeStarted(s) \in PeerStates
    BY <1>2 DEF ProbeStarted, PeerStates, Modes
  <1> QED BY <1>1, <1>2, <1>3

\* New threads are threads.
LEMMA WorkerTypes ==
    ASSUME NEW k \in Keys, NEW g \in Nat, NEW e \in Endpoints \cup {NoEndpoint}
    PROVE  Probe(k, g) \in Workers /\ Confirm(k, g, e) \in Workers
  BY DEF Probe, Confirm, Workers

\* Recording an offer makes a peer state of the current or the next generation.
LEMMA AdoptedType ==
    ASSUME TypeOK, NEW k \in Keys, NEW o \in Offers
    PROVE  Adopted(k, o) \in PeerStates
  <1>1. NewPeerState(o) \in PeerStates
    BY DEF NewPeerState, PeerStates, Offers, TypeOK, NextGeneration, Modes
  <1>2. CASE states[k] = NoState \/ Replaces(k, o)
    BY <1>1, <1>2 DEF Adopted
  <1>3. CASE ~(states[k] = NoState \/ Replaces(k, o))
    <2>1. states[k] \in PeerStates
      BY <1>3 DEF TypeOK
    <2>2. NewSession(states[k], o) => wg[k].endpoint \in Endpoints
      <3>1. SUFFICES ASSUME NewSession(states[k], o) PROVE wg[k] \in KernelPeers
        BY DEF KernelPeers
      <3>2. wg[k] # NoPeer
        BY <1>3, <3>1 DEF Replaces, Healthy, Routed
      <3> QED BY <3>2 DEF TypeOK
    <2>3. o.candidates \in CandidateLists /\ o.instance \in Instances
          /\ o.session \in 1..MaxSession /\ o.controller \in Controllers
      BY DEF Offers
    <2> DEFINE s == states[k]
               i == IF o.instance = NoInstance THEN s.instance ELSE o.instance
               m == IF NewSession(s, o) THEN "direct" ELSE s.mode
               e == IF NewSession(s, o) THEN wg[k].endpoint ELSE s.endpoint
               d == NewSession(s, o) \/ SignatureChanged(k, o) \/ s.retryDue
               r == s.running /\ ~NewSession(s, o) /\ ~SignatureChanged(k, o)
               g == IF NewSession(s, o) \/ SignatureChanged(k, o)
                    THEN NextGeneration ELSE s.generation
    <2>4. /\ i \in Instances /\ m \in Modes /\ e \in Endpoints \cup {NoEndpoint}
          /\ d \in BOOLEAN /\ r \in BOOLEAN /\ g \in Nat
      BY <2>1, <2>2, <2>3 DEF PeerStates, Modes, TypeOK, NextGeneration, NewSession,
                              SignatureChanged
    <2>5. Adopted(k, o) =
            [s EXCEPT !.controller = o.controller, !.session = o.session, !.instance = i,
                      !.candidates = o.candidates, !.lease = "live",
                      !.controlExpired = FALSE, !.mode = m, !.endpoint = e,
                      !.retryDue = d, !.running = r, !.generation = g]
      BY <1>3, <2>1 DEF Adopted, PeerStates
    <2> HIDE DEF i, m, e, d, r, g
    <2> QED
      BY <2>1, <2>3, <2>4, <2>5 DEF PeerStates
  <1> QED BY <1>2, <1>3

-----------------------------------------------------------------------------
(* Type correctness.  TypeOK is not inductive by itself: a pass must only    *)
(* visit tracked peers, a worker must have a candidate when it uses one.     *)

\* Nobody but the pass changes what is tracked while it holds the lock.
PassInv == /\ monitor.todo \subseteq Tracked
           /\ ~monitor.active => monitor = NoPass
           /\ \A w \in monitor.launches : w.kind = "probe" /\ w.pc = "start"

\* The candidate at hand, and the endpoint it stands for.
Equipped(w) ==
    /\ w.pc \in {"setup", "poll", "promote"} => w.left # <<>> /\ w.endpoint \in Endpoints
    /\ w.kind = "confirm6" => w.endpoint \in Endpoints
    /\ w.pc \in {"start", "next", "setup", "poll", "promote"} => w.kind = "probe"

WorkerData == \A w \in workers : Equipped(w)

TypeInv == TypeOK /\ PassInv /\ WorkerData

LEMMA OfferKeepsType ==
    ASSUME TypeOK, NEW k \in Keys, NEW o \in Offers, HandleOffer(k, o)
    PROVE  TypeOK' /\ states'[k] \in PeerStates
  <1>1. Adopted(k, o) \in PeerStates
    BY AdoptedType
  <1>2. NextGeneration \in Nat
    BY StateTypes DEF TypeOK, NextGeneration
  <1>3. /\ states' \in [Keys -> PeerStates \cup {NoState}]
        /\ states'[k] \in PeerStates
        /\ saved' \in [Keys -> PeerStates \cup {NoState}]
        /\ wg' \in [Keys -> KernelPeers \cup {NoPeer}]
        /\ workers' \in SUBSET Workers
    <2>1. CASE \E saves \in SaveOutcomes : OfferKeepsDirect(k, o, saves)
      <3>1. wg[k].endpoint \in Endpoints
        BY <2>1 DEF OfferKeepsDirect, KeepsDirect, Healthy, Routed, TypeOK, KernelPeers
      <3>2. [Adopted(k, o) EXCEPT !.mode = "direct", !.endpoint = wg[k].endpoint,
                                  !.running = FALSE] \in PeerStates
        BY <1>1, <3>1 DEF PeerStates, Modes
      <3> QED
        BY <2>1, <3>2 DEF OfferKeepsDirect, SaveState, TypeOK
    <2>2. CASE \E saves \in SaveOutcomes : OfferStartsProbe(k, o, saves)
      <3> DEFINE t == [Adopted(k, o) EXCEPT !.endpoint = NoEndpoint, !.retryDue = TRUE]
      <3>1. t \in PeerStates
        BY <1>1 DEF PeerStates
      <3> HIDE DEF t
      <3>2. ProbeStarted(t) \in PeerStates
        BY <3>1, StateTypes DEF TypeOK
      <3>3. /\ states' = [states EXCEPT ![k] = ProbeStarted(t)]
            /\ wg' = [wg EXCEPT ![k] = NoPeer]
            /\ workers' \subseteq workers \cup {Probe(k, states'[k].generation)}
            /\ saved' \in {states', saved}
        BY <2>2 DEF OfferStartsProbe, SaveState, t
      <3>4. states' \in [Keys -> PeerStates \cup {NoState}] /\ states'[k] \in PeerStates
        BY <3>2, <3>3 DEF TypeOK
      <3>5. Probe(k, states'[k].generation) \in Workers
        BY <3>4, WorkerTypes DEF PeerStates
      <3> QED
        BY <3>3, <3>4, <3>5 DEF TypeOK
    <2>3. CASE \E saves \in SaveOutcomes : OfferRefreshes(k, o, saves)
      <3>1. ProbeStarted(Adopted(k, o)) \in PeerStates
        BY <1>1, StateTypes DEF TypeOK
      <3>2. /\ \/ states' = [states EXCEPT ![k] = ProbeStarted(Adopted(k, o))]
               \/ states' = [states EXCEPT ![k] = Adopted(k, o)]
            /\ workers' \subseteq workers \cup {Probe(k, states'[k].generation)}
            /\ saved' \in {states', saved}
            /\ wg' = wg
        BY <2>3 DEF OfferRefreshes, SaveState
      <3>3. states' \in [Keys -> PeerStates \cup {NoState}] /\ states'[k] \in PeerStates
        BY <1>1, <3>1, <3>2 DEF TypeOK
      <3>4. Probe(k, states'[k].generation) \in Workers
        BY <3>3, WorkerTypes DEF PeerStates
      <3> QED
        BY <3>2, <3>3, <3>4 DEF TypeOK
    <2>4. CASE \E r \in WgOutcomes : OfferRemoveFails(k, o, r)
      <3>1. Replaces(k, o) => states[k] \in PeerStates
        BY DEF Replaces, InstanceChanged, NewSession, TypeOK
      <3>2. Replaces(k, o) => [states[k] EXCEPT !.generation = NextGeneration,
                                                !.running = FALSE] \in PeerStates
        BY <1>2, <3>1 DEF PeerStates
      <3>3. \A r : AfterRemove(wg[k], r) \in KernelPeers \cup {NoPeer}
        BY DEF AfterRemove, TypeOK
      <3> QED
        BY <1>1, <2>4, <3>2, <3>3 DEF OfferRemoveFails, TypeOK
    <2> QED
      BY <2>1, <2>2, <2>3, <2>4 DEF HandleOffer
  <1>4. lastGeneration' \in Nat /\ monitor' \in MonitorPasses /\ handshakes' \in Nat
    BY <1>2 DEF HandleOffer, TypeOK
  <1> QED
    BY <1>3, <1>4 DEF TypeOK

\* A state that keeps its direct without a control session.
LEMMA ControlExpiredType ==
    ASSUME NEW s \in PeerStates, NEW p \in KernelPeers
    PROVE  ControlExpired(s, p) \in PeerStates
  BY DEF ControlExpired, PeerStates, KernelPeers, Modes

LEMMA RemoveKeepsType ==
    ASSUME TypeOK, NEW k \in Keys, NEW n, NEW reason, HandleRemove(k, n, reason)
    PROVE  TypeOK'
  <1>1. NextGeneration \in Nat
    BY DEF TypeOK, NextGeneration
  <1>2. \A r : AfterRemove(wg[k], r) \in KernelPeers \cup {NoPeer}
    BY DEF AfterRemove, TypeOK
  <1>3. CASE \E saves \in SaveOutcomes : RemovePreserves(k, saves) /\ Healthy(wg[k])
    <2>1. ControlExpired(states[k], wg[k]) \in PeerStates
      BY <1>3, ControlExpiredType DEF HandleRemove, Healthy, Routed, TypeOK
    <2> QED
      BY <1>3, <2>1 DEF HandleRemove, RemovePreserves, SaveState, TypeOK
  <1>4. CASE \E saves \in SaveOutcomes : RemoveDrops(k, saves)
    BY <1>1, <1>4 DEF HandleRemove, RemoveDrops, SaveState, TypeOK
  <1>5. CASE \E r \in WgOutcomes : RemoveFails(k, r)
    BY <1>2, <1>5 DEF HandleRemove, RemoveFails, TypeOK
  <1> QED
    BY <1>3, <1>4, <1>5 DEF HandleRemove

LEMMA CleanupKeepsType ==
    ASSUME TypeOK, NEW active, CleanupInitiatorStates(active)
    PROVE  TypeOK'
  <1> DEFINE gone == {k \in Tracked \ active : states[k].controller = "initiator"}
  <1>1. Cardinality(gone) \in Nat
    <2>1. IsFiniteSet(gone)
      BY KeysAssumption, FS_Subset DEF Tracked
    <2> QED BY <2>1, FS_CardinalityType
  <1>2. \A k \in Keys : \A r : AfterRemove(wg[k], r) \in KernelPeers \cup {NoPeer}
    BY DEF AfterRemove, TypeOK
  <1>3. /\ \E r : wg' = [k \in Keys |-> IF k \in gone THEN AfterRemove(wg[k], r[k]) ELSE wg[k]]
        /\ states' = [k \in Keys |-> IF k \in gone THEN NoState ELSE states[k]]
        /\ saved' \in {states', saved}
        /\ lastGeneration' = lastGeneration + Cardinality(gone)
    BY DEF CleanupInitiatorStates, SaveState
  <1> HIDE DEF gone
  <1>4. wg' \in [Keys -> KernelPeers \cup {NoPeer}]
    BY <1>2, <1>3 DEF TypeOK
  <1>5. states' \in [Keys -> PeerStates \cup {NoState}]
    BY <1>3 DEF TypeOK
  <1> QED
    BY <1>1, <1>3, <1>4, <1>5 DEF CleanupInitiatorStates, TypeOK

\* What a pass does to the peer it visits, and to itself.
LEMMA VisitTypes ==
    ASSUME TypeOK, NEW k \in Keys, NEW changed \in BOOLEAN,
           \/ Visited(k, changed)
           \/ VisitedWithLaunch(k) /\ states'[k] \in PeerStates
    PROVE  monitor' \in MonitorPasses
  <1>1. CASE Visited(k, changed)
    BY <1>1 DEF Visited, TypeOK, MonitorPasses
  <1>2. CASE VisitedWithLaunch(k) /\ states'[k] \in PeerStates
    <2>1. Probe(k, states'[k].generation) \in Workers
      BY <1>2, WorkerTypes DEF PeerStates
    <2> QED
      BY <1>2, <2>1 DEF VisitedWithLaunch, TypeOK, MonitorPasses
  <1> QED BY <1>1, <1>2

LEMMA MonitorPeerKeepsType ==
    ASSUME TypeInv, NEW k \in Keys, MonitorPeer(k)
    PROVE  TypeOK'
  <1> DEFINE Typed == /\ states' \in [Keys -> PeerStates \cup {NoState}]
                      /\ wg' \in [Keys -> KernelPeers \cup {NoPeer}]
                      /\ lastGeneration' \in Nat
                      /\ monitor' \in MonitorPasses
  <1>1. states[k] \in PeerStates
    BY DEF MonitorPeer, TypeInv, TypeOK, PassInv, Tracked
  <1>2. NextGeneration \in Nat
    BY DEF TypeInv, TypeOK, NextGeneration
  <1>3. Healthy(monitor.current[k]) => monitor.current[k] \in KernelPeers
    BY DEF TypeInv, TypeOK, MonitorPasses, Healthy, Routed
  <1>21. ASSUME NEW changed \in BOOLEAN, Visited(k, changed)
        PROVE  monitor' \in MonitorPasses
    BY <1>21, VisitTypes DEF TypeInv
  <1>22. ASSUME VisitedWithLaunch(k), states'[k] \in PeerStates
        PROVE  monitor' \in MonitorPasses
    BY <1>22, VisitTypes DEF TypeInv
  <1>4. ASSUME MonitorPreserves(k) PROVE Typed
    BY <1>1, <1>3, <1>4, <1>21, ControlExpiredType, <1>22 DEF MonitorPreserves, TypeInv, TypeOK
  <1>5. ASSUME MonitorExpires(k) PROVE Typed
    BY <1>2, <1>5, <1>21, <1>22 DEF MonitorExpires, TypeInv, TypeOK
  <1>6. ASSUME MonitorConfirming(k) PROVE Typed
    BY <1>6, <1>21, <1>22 DEF MonitorConfirming, TypeInv, TypeOK
  <1>7. ASSUME MonitorKeepsDirect(k) PROVE Typed
    <2>1. [states[k] EXCEPT !.mode = "direct", !.endpoint = monitor.current[k].endpoint]
            \in PeerStates
      BY <1>1, <1>3, <1>7 DEF MonitorKeepsDirect, PeerStates, KernelPeers, Modes
    <2>2. states' \in [Keys -> PeerStates \cup {NoState}]
      BY <1>7, <2>1 DEF MonitorKeepsDirect, TypeInv, TypeOK
    <2> QED
      BY <1>7, <2>2, <1>21, <1>22 DEF MonitorKeepsDirect, TypeInv, TypeOK
  <1>8. ASSUME MonitorForgets(k) PROVE Typed
    BY <1>2, <1>8, <1>21, <1>22 DEF MonitorForgets, TypeInv, TypeOK
  <1>9. ASSUME MonitorFallsBack(k) PROVE Typed
    <2> DEFINE t == [states[k] EXCEPT !.endpoint = NoEndpoint, !.retryDue = TRUE]
    <2>1. t \in PeerStates
      BY <1>1 DEF PeerStates
    <2>2. states' = [states EXCEPT ![k] = ProbeStarted(t)]
      BY <1>9 DEF MonitorFallsBack
    <2> HIDE DEF t
    <2>3. states' \in [Keys -> PeerStates \cup {NoState}] /\ states'[k] \in PeerStates
      BY <2>1, <2>2, StateTypes DEF TypeInv, TypeOK
    <2> QED
      BY <1>2, <1>9, <2>3, <1>21, <1>22 DEF MonitorFallsBack, TypeInv, TypeOK
  <1>10. ASSUME MonitorRetries(k) PROVE Typed
    <2>1. CASE states[k].retryDue /\ ~states[k].running
      <3>1. states' = [states EXCEPT ![k] = ProbeStarted(states[k])]
        BY <1>10, <2>1 DEF MonitorRetries
      <3>2. states' \in [Keys -> PeerStates \cup {NoState}] /\ states'[k] \in PeerStates
        BY <1>1, <3>1, StateTypes DEF TypeInv, TypeOK
      <3> QED
        BY <1>2, <1>10, <2>1, <3>2, <1>21, <1>22 DEF MonitorRetries, TypeInv, TypeOK
    <2>2. CASE ~(states[k].retryDue /\ ~states[k].running)
      <3> DEFINE m == IF states[k].mode = "probe" /\ ~states[k].running
                      THEN "idle" ELSE states[k].mode
      <3>1. [states[k] EXCEPT !.mode = m] \in PeerStates
        BY <1>1 DEF PeerStates, Modes
      <3>2. states' = [states EXCEPT ![k] = [states[k] EXCEPT !.mode = m]]
        BY <1>1, <1>10, <2>2 DEF MonitorRetries, PeerStates, TypeInv, TypeOK
      <3>3. states' \in [Keys -> PeerStates \cup {NoState}]
        BY <3>1, <3>2 DEF TypeInv, TypeOK
      <3>4. (states[k].mode = "probe" /\ ~states[k].running) \in BOOLEAN
        OBVIOUS
      <3> QED
        BY <1>10, <2>2, <3>3, <3>4, <1>21, <1>22 DEF MonitorRetries, TypeInv, TypeOK
    <2> QED BY <2>1, <2>2
  <1>11. Typed
    BY <1>4, <1>5, <1>6, <1>7, <1>8, <1>9, <1>10 DEF MonitorPeer, TypeOK
  <1> QED
    BY <1>11 DEF MonitorPeer, TypeInv, TypeOK

LEMMA MonitorKeepsType ==
    ASSUME TypeInv, MonitorStep
    PROVE  TypeOK'
  <1>1. CASE MonitorBegin
    BY <1>1 DEF MonitorBegin, MonitorPasses, Tracked, TypeInv, TypeOK
  <1>2. CASE \E k \in Keys : MonitorPeer(k)
    BY <1>2, MonitorPeerKeepsType
  <1>3. CASE \E k \in Keys : MonitorFails(k)
    <2>1. NoPass \in MonitorPasses
      BY DEF NoPass, MonitorPasses
    <2>2. \A k \in Keys : \A r : AfterRemove(wg[k], r) \in KernelPeers \cup {NoPeer}
      BY DEF AfterRemove, TypeInv, TypeOK
    <2> QED
      BY <1>3, <2>1, <2>2 DEF MonitorFails, TypeInv, TypeOK
  <1>4. CASE MonitorEnd
    BY <1>4 DEF MonitorEnd, NoPass, MonitorPasses, TypeInv, TypeOK
  <1> QED
    BY <1>1, <1>2, <1>3, <1>4 DEF MonitorStep

\* The pc values of Workers.
Pcs == {"start", "next", "setup", "poll", "promote",
        "wait", "confirming", "finalize", "finally"}

LEMMA WorkerMoves ==
    ASSUME TypeInv, NEW w \in workers, NEW pc \in Pcs
    PROVE  /\ [w EXCEPT !.pc = pc] \in Workers
           /\ GoTo(w, pc) => workers' \subseteq Workers
           /\ w.left # <<>> => NextCandidate(w) \in Workers /\ Head(w.left) \in Endpoints
  <1>1. w \in Workers
    BY DEF TypeInv, TypeOK
  <1>2. [w EXCEPT !.pc = pc] \in Workers
    BY <1>1 DEF Workers, Pcs
  <1>3. GoTo(w, pc) => workers' \subseteq Workers
    BY <1>2 DEF GoTo, Becomes, TypeInv, TypeOK
  <1>4. ASSUME w.left # <<>> PROVE NextCandidate(w) \in Workers /\ Head(w.left) \in Endpoints
    <2>1. w.left \in Seq(Endpoints)
      BY <1>1 DEF Workers
    <2>2. Tail(w.left) \in Seq(Endpoints) /\ Head(w.left) \in Endpoints
      BY <1>4, <2>1
    <2> QED BY <1>1, <2>2 DEF NextCandidate, Workers
  <1> QED BY <1>2, <1>3, <1>4

\* Steps of a worker that only move the worker.
LEMMA WorkerLooksKeepType ==
    ASSUME TypeInv, NEW w \in workers,
           \/ WorkerGivesUp(w) \/ ProbeStart(w) \/ ProbeBaseline(w)
           \/ ProbeWindowCloses(w) \/ ProbeSeesHandshake(w) \/ ConfirmSeesHandshake(w)
    PROVE  TypeOK'
  <1>1. w \in Workers
    BY DEF TypeInv, TypeOK
  <1>2. UNCHANGED <<states, saved, wg, monitor, lastGeneration, handshakes>>
    BY DEF WorkerGivesUp, ProbeStart, ProbeBaseline, ProbeWindowCloses,
           ProbeSeesHandshake, ConfirmSeesHandshake
  <1>3. SUFFICES workers' \subseteq Workers
    BY <1>2 DEF TypeInv, TypeOK
  <1>4. CASE WorkerGivesUp(w)
    BY <1>4, WorkerMoves DEF WorkerGivesUp, Pcs
  <1>5. CASE ProbeStart(w)
    <2>1. states[w.key] \in PeerStates
      BY <1>1, <1>5 DEF ProbeStart, ProbeCurrent, Current, TypeInv, TypeOK, Workers
    <2>2. states[w.key].candidates \in Seq(Endpoints)
      BY <2>1, CandidatesAssumption DEF PeerStates
    <2>3. [w EXCEPT !.pc = "next", !.left = states[w.key].candidates] \in Workers
      BY <1>1, <2>2 DEF Workers
    <2> QED BY <1>5, <2>3 DEF ProbeStart, Becomes, TypeInv, TypeOK
  <1>6. CASE ProbeBaseline(w)
    <2>1. LatestHandshake(wg[w.key]) \in Nat
      BY <1>1, NullsAssumption DEF LatestHandshake, TypeInv, TypeOK, Workers, KernelPeers
    <2>2. Head(w.left) \in Endpoints
      BY <1>6, WorkerMoves DEF ProbeBaseline, Pcs
    <2>3. [w EXCEPT !.pc = "setup", !.baseline = LatestHandshake(wg[w.key]),
                    !.endpoint = Head(w.left)] \in Workers
      BY <1>1, <2>1, <2>2 DEF Workers
    <2> QED BY <1>6, <2>3 DEF ProbeBaseline, Becomes, TypeInv, TypeOK
  <1>7. CASE ProbeWindowCloses(w)
    <2>1. NextCandidate(w) \in Workers
      BY <1>7, WorkerMoves DEF ProbeWindowCloses, AtProbe, TypeInv, WorkerData, Equipped, Pcs
    <2> QED BY <1>7, <2>1 DEF ProbeWindowCloses, Becomes, TypeInv, TypeOK
  <1>8. CASE ProbeSeesHandshake(w) \/ ConfirmSeesHandshake(w)
    <2>1. wg[w.key] \in KernelPeers
      <3>1. wg[w.key] # NoPeer
        BY <1>1, <1>8 DEF ProbeSeesHandshake, ConfirmSeesHandshake, LatestHandshake, Workers
      <3> QED BY <1>1, <3>1 DEF TypeInv, TypeOK, Workers
    <2>2. \A pc \in Pcs : [w EXCEPT !.pc = pc, !.endpoint = wg[w.key].endpoint] \in Workers
      BY <1>1, <2>1 DEF Workers, KernelPeers, Pcs
    <2> QED BY <1>8, <2>2 DEF ProbeSeesHandshake, ConfirmSeesHandshake, Becomes,
                              TypeInv, TypeOK, Pcs
  <1> QED BY <1>4, <1>5, <1>6, <1>7, <1>8

\* What a worker writes into the state of its peer.
LEMMA WorkerWrites ==
    ASSUME TypeInv, NEW w \in workers, Current(w)
    PROVE  /\ w.endpoint \in Endpoints =>
              [states EXCEPT ![w.key].mode = "probe", ![w.key].endpoint = w.endpoint]
                 \in [Keys -> PeerStates \cup {NoState}]
           /\ [states EXCEPT ![w.key].mode = "confirm6", ![w.key].running = TRUE]
                 \in [Keys -> PeerStates \cup {NoState}]
           /\ w.endpoint \in Endpoints =>
              [states EXCEPT ![w.key].mode = "direct", ![w.key].endpoint = w.endpoint,
                             ![w.key].retryDue = TRUE, ![w.key].running = FALSE]
                 \in [Keys -> PeerStates \cup {NoState}]
  <1> DEFINE s == states[w.key]
  <1>1. w.key \in Keys
    BY DEF TypeInv, TypeOK, Workers
  <1>2. s \in PeerStates
    BY <1>1 DEF Current, TypeInv, TypeOK
  <1>3. \A t \in PeerStates : [states EXCEPT ![w.key] = t] \in [Keys -> PeerStates \cup {NoState}]
    BY DEF TypeInv, TypeOK
  <1>4. /\ w.endpoint \in Endpoints => [s EXCEPT !.mode = "probe", !.endpoint = w.endpoint] \in PeerStates
        /\ [s EXCEPT !.mode = "confirm6", !.running = TRUE] \in PeerStates
        /\ w.endpoint \in Endpoints => [s EXCEPT !.mode = "direct", !.endpoint = w.endpoint, !.retryDue = TRUE,
                     !.running = FALSE] \in PeerStates
    BY <1>2 DEF PeerStates, Modes
  <1>5. [states EXCEPT ![w.key].mode = "probe", ![w.key].endpoint = w.endpoint]
           = [states EXCEPT ![w.key] = [s EXCEPT !.mode = "probe", !.endpoint = w.endpoint]]
    BY <1>1, <1>2 DEF TypeInv, TypeOK, PeerStates
  <1>6. [states EXCEPT ![w.key].mode = "confirm6", ![w.key].running = TRUE]
           = [states EXCEPT ![w.key] = [s EXCEPT !.mode = "confirm6", !.running = TRUE]]
    BY <1>1, <1>2 DEF TypeInv, TypeOK, PeerStates
  <1>7. [states EXCEPT ![w.key].mode = "direct", ![w.key].endpoint = w.endpoint,
                       ![w.key].retryDue = TRUE, ![w.key].running = FALSE]
           = [states EXCEPT ![w.key] = [s EXCEPT !.mode = "direct", !.endpoint = w.endpoint,
                                                 !.retryDue = TRUE, !.running = FALSE]]
    BY <1>1, <1>2 DEF TypeInv, TypeOK, PeerStates
  <1> QED BY <1>3, <1>4, <1>5, <1>6, <1>7

LEMMA WorkerActsKeepType ==
    ASSUME TypeInv, NEW w \in workers,
           \/ ProbeSetup(w) \/ ProbePromotes(w) \/ ProbeExhausted(w) \/ ConfirmRekeys(w)
           \/ ConfirmFinalizes(w) \/ ConfirmTimesOut(w) \/ WorkerEnds(w)
    PROVE  TypeOK'
  <1> DEFINE Typed == /\ states' \in [Keys -> PeerStates \cup {NoState}]
                      /\ wg' \in [Keys -> KernelPeers \cup {NoPeer}]
                      /\ saved' \in [Keys -> PeerStates \cup {NoState}]
                      /\ workers' \subseteq Workers
                      /\ lastGeneration' \in Nat
  <1>1. w \in Workers /\ w.key \in Keys
    BY DEF TypeInv, TypeOK, Workers
  <1>2. \A r : [wg EXCEPT ![w.key] = AfterRemove(@, r)] \in [Keys -> KernelPeers \cup {NoPeer}]
    BY DEF AfterRemove, TypeInv, TypeOK
  <1>3. \A e \in Endpoints :
           /\ [wg EXCEPT ![w.key] = AfterSetup(@, e)] \in [Keys -> KernelPeers \cup {NoPeer}]
           /\ [wg EXCEPT ![w.key] = AfterRoute(@, e)] \in [Keys -> KernelPeers \cup {NoPeer}]
           /\ [wg EXCEPT ![w.key] = AfterRoute(NoPeer, e)] \in [Keys -> KernelPeers \cup {NoPeer}]
    BY <1>1, KernelTypes DEF TypeInv, TypeOK
  <1>4. w.pc \in {"setup", "promote"} => w.left # <<>> /\ w.endpoint \in Endpoints
    BY DEF TypeInv, WorkerData, Equipped
  <1>5. w.kind = "confirm6" => w.endpoint \in Endpoints
    BY DEF TypeInv, WorkerData, Equipped
  <1>6. ASSUME ProbeSetup(w) PROVE Typed
    <2>1. Current(w) /\ w.left # <<>> /\ w.endpoint \in Endpoints
      BY <1>4, <1>6 DEF ProbeSetup, AtProbe, ProbeCurrent
    <2>2. NextCandidate(w) \in Workers
      BY <2>1, WorkerMoves DEF Pcs
    <2>3. \A pc \in {"poll", "finally"} : GoTo(w, pc) => workers' \subseteq Workers
      BY WorkerMoves DEF Pcs
    <2>4. CASE \E saves \in SaveOutcomes :
                 /\ wg' = [wg EXCEPT ![w.key] = AfterSetup(@, w.endpoint)]
                 /\ states' = [states EXCEPT ![w.key].mode = "probe",
                                             ![w.key].endpoint = w.endpoint]
                 /\ SaveState(saves)
                 /\ GoTo(w, IF saves THEN "poll" ELSE "finally")
      <3>1. states' \in [Keys -> PeerStates \cup {NoState}]
        BY <2>1, <2>4, WorkerWrites
      <3>2. wg' \in [Keys -> KernelPeers \cup {NoPeer}]
        BY <1>3, <2>1, <2>4
      <3>3. workers' \subseteq Workers
        BY <2>3, <2>4
      <3> QED
        BY <1>6, <2>4, <3>1, <3>2, <3>3 DEF ProbeSetup, SaveState, TypeInv, TypeOK
    <2>5. CASE \E r \in WgOutcomes \ {"done"} :
                 /\ wg' = IF r = "failed" THEN wg
                          ELSE [wg EXCEPT ![w.key] = AfterSetup(@, w.endpoint)]
                 /\ Becomes(w, NextCandidate(w))
                 /\ UNCHANGED <<states, saved>>
      BY <1>3, <1>6, <2>1, <2>2, <2>5 DEF ProbeSetup, Becomes, TypeInv, TypeOK
    <2> QED BY <1>6, <2>4, <2>5 DEF ProbeSetup
  <1>7. ASSUME ProbePromotes(w) PROVE Typed
    <2>1. Current(w) /\ w.endpoint \in Endpoints /\ w.generation \in Nat
      BY <1>1, <1>4, <1>7 DEF ProbePromotes, AtProbe, ProbeCurrent, Workers
    <2>2. [w EXCEPT !.pc = "finally"] \in Workers /\ Confirm(w.key, w.generation, w.endpoint) \in Workers
      BY <1>1, <2>1, WorkerMoves, WorkerTypes DEF Pcs
    <2>3. workers' \subseteq Workers
      BY <1>7, <2>2 DEF ProbePromotes, GoTo, Becomes, TypeInv, TypeOK
    <2>4. states' \in [Keys -> PeerStates \cup {NoState}]
      <3>1. \/ states' = [states EXCEPT ![w.key].mode = "direct",
                              ![w.key].endpoint = w.endpoint, ![w.key].retryDue = TRUE,
                              ![w.key].running = FALSE]
            \/ states' = states
        BY <1>7 DEF ProbePromotes
      <3>2. [states EXCEPT ![w.key].mode = "direct", ![w.key].endpoint = w.endpoint,
                           ![w.key].retryDue = TRUE, ![w.key].running = FALSE]
               \in [Keys -> PeerStates \cup {NoState}]
        BY <2>1, WorkerWrites
      <3>3. states \in [Keys -> PeerStates \cup {NoState}]
        BY DEF TypeInv, TypeOK
      <3> QED BY <3>1, <3>2, <3>3
    <2>5. wg' \in [Keys -> KernelPeers \cup {NoPeer}]
      BY <1>3, <1>7, <2>1 DEF ProbePromotes, TypeInv, TypeOK
    <2> QED
      BY <1>7, <2>3, <2>4, <2>5 DEF ProbePromotes, SaveState, TypeInv, TypeOK
  <1>8. ASSUME ProbeExhausted(w) \/ ConfirmTimesOut(w) PROVE Typed
    <2>1. Current(w)
      BY <1>8 DEF ProbeExhausted, ConfirmTimesOut, ProbeCurrent, ConfirmCurrent
    <2>2. workers' \subseteq Workers
      BY <1>8, WorkerMoves DEF ProbeExhausted, ConfirmTimesOut, Pcs
    <2>3. [states EXCEPT ![w.key] = IdleAfterFailure(@)] \in [Keys -> PeerStates \cup {NoState}]
      BY <1>1, <2>1, StateTypes DEF Current, TypeInv, TypeOK
    <2> QED
      BY <1>2, <1>8, <2>2, <2>3 DEF ProbeExhausted, ConfirmTimesOut, SaveState, TypeInv, TypeOK
  <1>9. ASSUME ConfirmRekeys(w) PROVE Typed
    <2>1. Current(w) /\ w.endpoint \in Endpoints
      BY <1>5, <1>9 DEF ConfirmRekeys, AtConfirm
    <2>2. workers' \subseteq Workers
      BY <1>9, WorkerMoves DEF ConfirmRekeys, Pcs
    <2>3. CASE \E saves \in SaveOutcomes :
                 /\ wg' = [wg EXCEPT ![w.key] = AfterRoute(NoPeer, w.endpoint)]
                 /\ states' = [states EXCEPT ![w.key].mode = "confirm6", ![w.key].running = TRUE]
                 /\ SaveState(saves)
      <3>1. states' \in [Keys -> PeerStates \cup {NoState}]
        BY <2>1, <2>3, WorkerWrites
      <3>2. wg' \in [Keys -> KernelPeers \cup {NoPeer}]
        BY <1>3, <2>1, <2>3
      <3> QED
        BY <1>9, <2>2, <2>3, <3>1, <3>2 DEF ConfirmRekeys, SaveState, TypeInv, TypeOK
    <2>4. CASE \E remove, set, undo \in WgOutcomes, saves \in SaveOutcomes :
                 LET p == AfterRemove(wg[w.key], remove)
                     q == IF remove = "done" /\ set = "timedout"
                          THEN AfterRoute(p, w.endpoint) ELSE p IN
                 /\ wg' = [wg EXCEPT ![w.key] = AfterRemove(q, undo)]
                 /\ states' = [states EXCEPT ![w.key] = IdleAfterFailure(@)]
                 /\ SaveState(saves)
      <3>1. wg' \in [Keys -> KernelPeers \cup {NoPeer}]
        BY <1>1, <2>1, <2>4, KernelTypes DEF AfterRemove, TypeInv, TypeOK
      <3>2. [states EXCEPT ![w.key] = IdleAfterFailure(@)] \in [Keys -> PeerStates \cup {NoState}]
        BY <1>1, <2>1, StateTypes DEF Current, TypeInv, TypeOK
      <3> QED
        BY <1>9, <2>2, <2>4, <3>1, <3>2 DEF ConfirmRekeys, SaveState, TypeInv, TypeOK
    <2> QED BY <1>9, <2>3, <2>4 DEF ConfirmRekeys
  <1>10. ASSUME ConfirmFinalizes(w) PROVE Typed
    <2>1. Current(w) /\ w.endpoint \in Endpoints
      BY <1>5, <1>10 DEF ConfirmFinalizes, AtConfirm, ConfirmCurrent
    <2>2. workers' \subseteq Workers
      BY <1>10, WorkerMoves DEF ConfirmFinalizes, Pcs
    <2>3. states' \in [Keys -> PeerStates \cup {NoState}]
      <3>1. \/ states' = [states EXCEPT ![w.key].mode = "direct",
                              ![w.key].endpoint = w.endpoint, ![w.key].retryDue = TRUE,
                              ![w.key].running = FALSE]
            \/ states' = states
        BY <1>10 DEF ConfirmFinalizes
      <3>2. [states EXCEPT ![w.key].mode = "direct", ![w.key].endpoint = w.endpoint,
                           ![w.key].retryDue = TRUE, ![w.key].running = FALSE]
               \in [Keys -> PeerStates \cup {NoState}]
        BY <2>1, WorkerWrites
      <3>3. states \in [Keys -> PeerStates \cup {NoState}]
        BY DEF TypeInv, TypeOK
      <3> QED BY <3>1, <3>2, <3>3
    <2>4. wg' \in [Keys -> KernelPeers \cup {NoPeer}]
      BY <1>3, <1>10, <2>1 DEF ConfirmFinalizes, TypeInv, TypeOK
    <2> QED
      BY <1>10, <2>2, <2>3, <2>4 DEF ConfirmFinalizes, SaveState, TypeInv, TypeOK
  <1>11. ASSUME WorkerEnds(w) PROVE Typed
    <2>1. workers' \subseteq Workers
      BY <1>11 DEF WorkerEnds, TypeInv, TypeOK
    <2>2. CASE Abandoned(w)
      <3>1. states[w.key] \in PeerStates
        BY <1>1, <2>2 DEF Abandoned, Current, TypeInv, TypeOK
      <3>2. NextGeneration \in Nat /\ IdleAfterFailure(states[w.key]) \in PeerStates
        BY <3>1, StateTypes DEF TypeInv, TypeOK
      <3>3. [IdleAfterFailure(states[w.key]) EXCEPT !.generation = NextGeneration] \in PeerStates
        BY <3>2 DEF PeerStates
      <3> QED
        BY <1>1, <1>2, <1>11, <2>1, <2>2, <3>2, <3>3 DEF WorkerEnds, SaveState, TypeInv, TypeOK
    <2>3. CASE ~Abandoned(w)
      BY <1>11, <2>1, <2>3 DEF WorkerEnds, TypeInv, TypeOK
    <2> QED BY <2>2, <2>3
  <1>12. UNCHANGED <<monitor, handshakes>>
    BY DEF ProbeSetup, ProbePromotes, ProbeExhausted, ConfirmRekeys, ConfirmFinalizes,
           ConfirmTimesOut, WorkerEnds
  <1> QED
    BY <1>6, <1>7, <1>8, <1>9, <1>10, <1>11, <1>12 DEF TypeInv, TypeOK

-----------------------------------------------------------------------------
(* Restart and environment *)

\* What a restart makes of a saved state.
LEMMA LoadedType ==
    ASSUME NEW s \in PeerStates, NEW h \in Nat
    PROVE  Loaded(s, h) \in PeerStates /\ ~Loaded(s, h).running
  <1> DEFINE m == IF s.mode = "probe" THEN "idle" ELSE s.mode
  <1>1. m \in Modes
    BY DEF PeerStates, Modes
  <1>2. Loaded(s, h) = [s EXCEPT !.running = FALSE, !.generation = h, !.mode = m]
    BY DEF Loaded, PeerStates
  <1> HIDE DEF m
  <1> QED BY <1>1, <1>2 DEF PeerStates

LEMMA RestartKeepsType ==
    ASSUME TypeOK, AgentRestarts
    PROVE  TypeOK'
  <1>1. PICK file \in {saved, [k \in Keys |-> NoState]} : Restart(file)
    BY DEF AgentRestarts
  <1>2. file \in [Keys -> PeerStates \cup {NoState}]
    BY <1>1 DEF TypeOK
  <1> DEFINE loaded == {k \in Keys : file[k] # NoState}
             n == Cardinality(loaded)
  <1>3. n \in Nat
    BY KeysAssumption, FS_Subset, FS_CardinalityType
  <1>4. \A k \in loaded : file[k] \in PeerStates
    BY <1>2
  <1>5. \A k \in loaded : file[k].generation \in Nat
    BY <1>4 DEF PeerStates
  <1> HIDE DEF n
  <1>6. PICK base \in {0} \cup {file[k].generation : k \in loaded} :
           \E g \in [loaded -> (base + 1)..(base + n)] :
              /\ states' = [k \in Keys |-> IF k \in loaded THEN Loaded(file[k], g[k])
                                           ELSE NoState]
              /\ lastGeneration' = base + n
    BY <1>1 DEF Restart, n
  <1>7. base \in Nat
    BY <1>5, <1>6
  <1>8. PICK g \in [loaded -> (base + 1)..(base + n)] :
              /\ states' = [k \in Keys |-> IF k \in loaded THEN Loaded(file[k], g[k])
                                           ELSE NoState]
              /\ lastGeneration' = base + n
    BY <1>6
  <1>9. \A k \in loaded : Loaded(file[k], g[k]) \in PeerStates
    <2> SUFFICES ASSUME NEW k \in loaded PROVE Loaded(file[k], g[k]) \in PeerStates
      OBVIOUS
    <2>1. g[k] \in Nat
      BY <1>3, <1>7, <1>8
    <2> QED BY <1>4, <2>1, LoadedType
  <1>10. states' \in [Keys -> PeerStates \cup {NoState}]
    BY <1>8, <1>9
  <1>11. lastGeneration' \in Nat
    BY <1>3, <1>7, <1>8
  <1>12. wg' \in [Keys -> KernelPeers \cup {NoPeer}]
    BY <1>1 DEF Restart, WithoutOrphans, TypeOK
  <1>13. monitor' \in MonitorPasses
    BY <1>1 DEF Restart, MonitorPasses, NoPass
  <1>14. saved' = file /\ workers' = {} /\ handshakes' = handshakes
    BY <1>1 DEF Restart
  <1> QED
    BY <1>2, <1>10, <1>11, <1>12, <1>13, <1>14 DEF TypeOK

\* The kernel and the clocks.
EnvironmentStep ==
    \/ \E k \in Keys, e \in Endpoints : WgHandshake(k, e)
    \/ \E k \in Keys : HandshakeAges(k) \/ LeaseElapses(k) \/ RetryElapses(k)

LEMMA EnvironmentKeepsType ==
    ASSUME TypeOK, EnvironmentStep
    PROVE  TypeOK'
  <1>1. CASE \E k \in Keys, e \in Endpoints : WgHandshake(k, e)
    <2>1. PICK k \in Keys, e \in Endpoints : WgHandshake(k, e)
      BY <1>1
    <2>2. handshakes' \in Nat /\ wg[k] \in KernelPeers
      BY <2>1 DEF WgHandshake, TypeOK
    <2>3. [wg[k] EXCEPT !.handshake = handshakes', !.fresh = TRUE, !.endpoint = e]
             \in KernelPeers
      BY <2>2 DEF KernelPeers
    <2>4. wg' = [wg EXCEPT ![k] = [wg[k] EXCEPT !.handshake = handshakes', !.fresh = TRUE,
                                                !.endpoint = e]]
      BY <2>1, <2>2 DEF WgHandshake, TypeOK, KernelPeers
    <2>5. wg' \in [Keys -> KernelPeers \cup {NoPeer}]
      BY <2>3, <2>4 DEF TypeOK
    <2> QED BY <2>1, <2>2, <2>5 DEF WgHandshake, TypeOK
  <1>2. ASSUME NEW k \in Keys, HandshakeAges(k) PROVE TypeOK'
    <2>1. [wg[k] EXCEPT !.fresh = FALSE] \in KernelPeers
      BY <1>2 DEF HandshakeAges, TypeOK, KernelPeers
    <2> QED BY <1>2, <2>1 DEF HandshakeAges, TypeOK
  <1>3. ASSUME NEW k \in Keys, LeaseElapses(k) PROVE TypeOK'
    <2>1. \A s \in PeerStates : [s EXCEPT !.lease = "due"] \in PeerStates
      BY DEF PeerStates
    <2> QED BY <1>3, <2>1 DEF LeaseElapses, TypeOK
  <1>4. ASSUME NEW k \in Keys, RetryElapses(k) PROVE TypeOK'
    <2>1. \A s \in PeerStates : [s EXCEPT !.retryDue = TRUE] \in PeerStates
      BY DEF PeerStates
    <2> QED BY <1>4, <2>1 DEF RetryElapses, TypeOK
  <1> QED BY <1>1, <1>2, <1>3, <1>4 DEF EnvironmentStep

-----------------------------------------------------------------------------
(* The two strengthenings are preserved as well *)

\* Only a pass, and a crash, write the variable of the pass.
LEMMA PassUnchanged ==
    ASSUME NEW k \in Keys,
           \/ \E o \in Offers : HandleOffer(k, o)
           \/ \E n \in 1..MaxSession, reason \in RemoveReasons : HandleRemove(k, n, reason)
           \/ \E active \in SUBSET Keys : CleanupInitiatorStates(active)
    PROVE  LockFree /\ monitor' = monitor
  BY DEF HandleOffer, HandleRemove, CleanupInitiatorStates

\* A worker writes the states under the lock only, and never the pass.
LEMMA WorkerLocks ==
    ASSUME NEW w \in workers, WorkerStep(w)
    PROVE  monitor' = monitor /\ (LockFree \/ states' = states)
  <1>1. CASE WorkerGivesUp(w) \/ ProbeStart(w) \/ ProbeBaseline(w) \/ ProbeWindowCloses(w)
             \/ ProbeSeesHandshake(w) \/ ConfirmSeesHandshake(w)
    BY <1>1 DEF WorkerGivesUp, ProbeStart, ProbeBaseline, ProbeWindowCloses,
                ProbeSeesHandshake, ConfirmSeesHandshake
  <1>2. CASE ProbeSetup(w) \/ ProbePromotes(w) \/ ProbeExhausted(w)
    BY <1>2 DEF ProbeSetup, ProbePromotes, ProbeExhausted
  <1>3. CASE ConfirmRekeys(w) \/ ConfirmFinalizes(w) \/ ConfirmTimesOut(w) \/ WorkerEnds(w)
    BY <1>3 DEF ConfirmRekeys, ConfirmFinalizes, ConfirmTimesOut, WorkerEnds
  <1> QED BY <1>1, <1>2, <1>3 DEF WorkerStep

\* One visit of the pass leaves the other peers alone.
LEMMA VisitKeepsOthers ==
    ASSUME TypeInv, NEW k \in Keys, MonitorPeer(k)
    PROVE  /\ \A j \in Keys \ {k} : states'[j] = states[j]
           /\ monitor'.todo = monitor.todo \ {k}
           /\ monitor'.active
           /\ \/ monitor'.launches = monitor.launches
              \/ monitor'.launches =
                    monitor.launches \cup {Probe(k, states'[k].generation)}
  <1>1. \A j \in Keys \ {k} : states'[j] = states[j]
    BY DEF MonitorPeer, MonitorPreserves, MonitorExpires, MonitorConfirming,
           MonitorKeepsDirect, MonitorForgets, MonitorFallsBack, MonitorRetries,
           TypeInv, TypeOK
  <1>2. monitor.active /\ (VisitedWithLaunch(k) \/ \E changed \in BOOLEAN : Visited(k, changed))
    <2>1. CASE MonitorPreserves(k) \/ MonitorExpires(k) \/ MonitorConfirming(k)
               \/ MonitorKeepsDirect(k) \/ MonitorForgets(k) \/ MonitorFallsBack(k)
      BY <2>1 DEF MonitorPeer, MonitorPreserves, MonitorExpires, MonitorConfirming,
                  MonitorKeepsDirect, MonitorForgets, MonitorFallsBack
    <2>2. CASE MonitorRetries(k)
      BY <2>2 DEF MonitorPeer, MonitorRetries
    <2> QED BY <2>1, <2>2 DEF MonitorPeer
  <1>3. monitor \in MonitorPasses
    BY DEF TypeInv, TypeOK
  <1> QED BY <1>1, <1>2, <1>3 DEF Visited, VisitedWithLaunch, MonitorPasses

LEMMA NextKeepsPass ==
    ASSUME TypeInv, TypeOK', Next
    PROVE  PassInv'
  <1>1. ASSUME LockFree, monitor' = monitor PROVE PassInv'
    BY <1>1 DEF LockFree, PassInv, NoPass, TypeInv
  <1>2. ASSUME states' = states, monitor' = monitor PROVE PassInv'
    BY <1>2 DEF PassInv, Tracked, TypeInv
  <1>3. ASSUME monitor' = NoPass PROVE PassInv'
    BY <1>3 DEF PassInv, NoPass
  <1>4. CASE \E k \in Keys, o \in Offers : HandleOffer(k, o)
    BY <1>1, <1>4, PassUnchanged
  <1>5. CASE \E k \in Keys, n \in 1..MaxSession, reason \in RemoveReasons :
                HandleRemove(k, n, reason)
    BY <1>1, <1>5, PassUnchanged
  <1>6. CASE \E active \in SUBSET Keys : CleanupInitiatorStates(active)
    BY <1>1, <1>6 DEF CleanupInitiatorStates
  <1>7. CASE MonitorBegin
    BY <1>7 DEF MonitorBegin, PassInv, Tracked
  <1>8. ASSUME NEW k \in Keys, MonitorPeer(k) PROVE PassInv'
    <2>1. monitor'.todo \subseteq Tracked'
      BY <1>8, VisitKeepsOthers DEF TypeInv, PassInv, Tracked
    <2>2. \A w \in monitor'.launches : w.kind = "probe" /\ w.pc = "start"
      BY <1>8, VisitKeepsOthers DEF TypeInv, PassInv, Probe
    <2> QED BY <1>8, <2>1, <2>2, VisitKeepsOthers DEF PassInv
  <1>9. CASE \E k \in Keys : MonitorFails(k)
    BY <1>3, <1>9 DEF MonitorFails
  <1>10. CASE MonitorEnd
    BY <1>3, <1>10 DEF MonitorEnd
  <1>11. CASE \E w \in workers : WorkerStep(w)
    BY <1>1, <1>2, <1>11, WorkerLocks
  <1>12. CASE AgentRestarts
    BY <1>3, <1>12 DEF AgentRestarts, Restart
  <1>13. ASSUME NEW k \in Keys, NEW e \in Endpoints, WgHandshake(k, e) PROVE PassInv'
    BY <1>2, <1>13 DEF WgHandshake
  <1>14. ASSUME NEW k \in Keys, HandshakeAges(k) PROVE PassInv'
    BY <1>2, <1>14 DEF HandshakeAges
  <1>15. ASSUME NEW k \in Keys, LeaseElapses(k) \/ RetryElapses(k) PROVE PassInv'
    <2>1. Tracked' = Tracked
      <3>1. states'[k] # NoState
        <4>1. states[k] \in PeerStates
          BY <1>15 DEF LeaseElapses, RetryElapses, TypeInv, TypeOK
        <4>2. [states[k] EXCEPT !.lease = "due"] \in PeerStates
              /\ [states[k] EXCEPT !.retryDue = TRUE] \in PeerStates
          BY <4>1 DEF PeerStates
        <4> QED
          BY <1>15, <4>2, NullsAssumption DEF LeaseElapses, RetryElapses, TypeInv, TypeOK
      <3> QED BY <1>15, <3>1 DEF LeaseElapses, RetryElapses, Tracked, TypeInv, TypeOK
    <2> QED BY <1>15, <2>1 DEF LeaseElapses, RetryElapses, PassInv, TypeInv
  <1> QED
    BY <1>4, <1>5, <1>6, <1>7, <1>8, <1>9, <1>10, <1>11, <1>12, <1>13, <1>14, <1>15
    DEF Next, MonitorStep

LEMMA NextKeepsWorkerData ==
    ASSUME TypeInv, Next
    PROVE  WorkerData'
  <1>1. ASSUME NEW v, workers' \subseteq workers \cup {v}, Equipped(v) PROVE WorkerData'
    BY <1>1 DEF WorkerData, TypeInv
  <1>2. ASSUME workers' \subseteq workers PROVE WorkerData'
    BY <1>2 DEF WorkerData, TypeInv
  <1>3. \A k, g : Equipped(Probe(k, g))
    BY DEF Equipped, Probe
  <1>4. ASSUME NEW k \in Keys, NEW o \in Offers, HandleOffer(k, o) PROVE WorkerData'
    <2>1. workers' \subseteq workers \cup {Probe(k, states'[k].generation)}
      BY <1>4 DEF HandleOffer, OfferKeepsDirect, OfferStartsProbe, OfferRefreshes,
                  OfferRemoveFails
    <2> QED BY <1>1, <1>3, <2>1
  <1>5. CASE \/ \E k \in Keys, n \in 1..MaxSession, reason \in RemoveReasons :
                   HandleRemove(k, n, reason)
             \/ \E active \in SUBSET Keys : CleanupInitiatorStates(active)
             \/ EnvironmentStep
    BY <1>2, <1>5 DEF HandleRemove, CleanupInitiatorStates, EnvironmentStep, WgHandshake,
                      HandshakeAges, LeaseElapses, RetryElapses
  <1>6. CASE AgentRestarts
    BY <1>2, <1>6 DEF AgentRestarts, Restart
  <1>7. CASE MonitorStep
    <2>1. workers' \subseteq workers \cup monitor.launches
      BY <1>7 DEF MonitorStep, MonitorBegin, MonitorPeer, MonitorFails, MonitorEnd
    <2>2. \A w \in monitor.launches : Equipped(w)
      BY DEF TypeInv, PassInv, Equipped
    <2> QED BY <2>1, <2>2 DEF WorkerData, TypeInv
  <1>8. ASSUME NEW w \in workers, WorkerStep(w) PROVE WorkerData'
    <2>1. w \in Workers /\ Equipped(w)
      BY DEF TypeInv, TypeOK, WorkerData
    <2>2. CASE GoTo(w, "finally")
      <3>1. Equipped([w EXCEPT !.pc = "finally"])
        BY <2>1 DEF Equipped, Workers
      <3> QED BY <1>1, <2>2, <3>1 DEF GoTo, Becomes
    <2>3. CASE ProbeStart(w)
      <3>1. Equipped([w EXCEPT !.pc = "next", !.left = states[w.key].candidates])
        BY <2>1, <2>3 DEF Equipped, Workers, ProbeStart, AtProbe
      <3> QED BY <1>1, <2>3, <3>1 DEF ProbeStart, Becomes
    <2>4. CASE ProbeBaseline(w)
      <3>1. Head(w.left) \in Endpoints
        BY <2>4, WorkerMoves DEF ProbeBaseline, Pcs
      <3>2. Equipped([w EXCEPT !.pc = "setup", !.baseline = LatestHandshake(wg[w.key]),
                               !.endpoint = Head(w.left)])
        BY <2>1, <2>4, <3>1 DEF Equipped, Workers, ProbeBaseline, AtProbe
      <3> QED BY <1>1, <2>4, <3>2 DEF ProbeBaseline, Becomes
    <2>5. CASE ProbeSetup(w) \/ ProbeWindowCloses(w)
      <3>1. Equipped(NextCandidate(w)) /\ Equipped([w EXCEPT !.pc = "poll"])
        BY <2>1, <2>5 DEF Equipped, Workers, ProbeSetup, ProbeWindowCloses, AtProbe,
                          NextCandidate
      <3> QED BY <1>1, <2>2, <2>5, <3>1 DEF ProbeSetup, ProbeWindowCloses, GoTo, Becomes
    <2>6. CASE ProbeSeesHandshake(w) \/ ConfirmSeesHandshake(w)
      <3>1. wg[w.key].endpoint \in Endpoints
        <4>1. wg[w.key] # NoPeer
          BY <2>1, <2>6 DEF ProbeSeesHandshake, ConfirmSeesHandshake, LatestHandshake, Workers
        <4> QED BY <2>1, <4>1 DEF TypeInv, TypeOK, Workers, KernelPeers
      <3>2. /\ w.kind = "probe" /\ w.left # <<>> =>
                  Equipped([w EXCEPT !.pc = "promote", !.endpoint = wg[w.key].endpoint])
            /\ w.kind = "confirm6" =>
                  Equipped([w EXCEPT !.pc = "finalize", !.endpoint = wg[w.key].endpoint])
        BY <2>1, <3>1 DEF Equipped, Workers
      <3> QED
        BY <1>1, <2>1, <2>6, <3>2 DEF ProbeSeesHandshake, ConfirmSeesHandshake, AtProbe,
                                      AtConfirm, Equipped, Becomes
    <2>7. CASE ProbePromotes(w)
      <3>1. w.endpoint \in Endpoints /\ Equipped([w EXCEPT !.pc = "finally"])
        BY <2>1, <2>7 DEF ProbePromotes, AtProbe, Equipped, Workers
      <3>2. Equipped(Confirm(w.key, w.generation, w.endpoint))
        BY <3>1 DEF Equipped, Confirm
      <3>3. workers' \subseteq workers \cup
               {[w EXCEPT !.pc = "finally"], Confirm(w.key, w.generation, w.endpoint)}
        BY <2>7 DEF ProbePromotes, GoTo, Becomes
      <3> QED BY <3>1, <3>2, <3>3 DEF WorkerData, TypeInv
    <2>8. CASE ConfirmRekeys(w)
      <3>1. Equipped([w EXCEPT !.pc = "confirming"])
        BY <2>1, <2>8 DEF Equipped, Workers, ConfirmRekeys, AtConfirm
      <3> QED BY <1>1, <2>2, <2>8, <3>1 DEF ConfirmRekeys, GoTo, Becomes
    <2>9. CASE WorkerEnds(w)
      BY <1>2, <2>9 DEF WorkerEnds
    <2>10. CASE WorkerGivesUp(w) \/ ProbeExhausted(w) \/ ConfirmFinalizes(w)
                \/ ConfirmTimesOut(w)
      BY <2>2, <2>10 DEF WorkerGivesUp, ProbeExhausted, ConfirmFinalizes, ConfirmTimesOut
    <2> QED
      BY <1>8, <2>3, <2>4, <2>5, <2>6, <2>7, <2>8, <2>9, <2>10 DEF WorkerStep
  <1> QED
    BY <1>4, <1>5, <1>6, <1>7, <1>8 DEF Next, EnvironmentStep

-----------------------------------------------------------------------------
(* Theorems *)

LEMMA InitTyped == Init => TypeInv
  BY DEF Init, TypeInv, TypeOK, PassInv, WorkerData, MonitorPasses, NoPass

LEMMA NextTyped == TypeInv /\ [Next]_vars => TypeInv'
  <1>1. ASSUME TypeInv, Next PROVE TypeInv'
    <2>1. TypeOK'
      <3>1. CASE \E k \in Keys, o \in Offers : HandleOffer(k, o)
        BY <1>1, <3>1, OfferKeepsType DEF TypeInv
      <3>2. CASE \E k \in Keys, n \in 1..MaxSession, reason \in RemoveReasons :
                    HandleRemove(k, n, reason)
        BY <1>1, <3>2, RemoveKeepsType DEF TypeInv
      <3>3. CASE \E active \in SUBSET Keys : CleanupInitiatorStates(active)
        BY <1>1, <3>3, CleanupKeepsType DEF TypeInv
      <3>4. CASE MonitorStep
        BY <1>1, <3>4, MonitorKeepsType
      <3>5. ASSUME NEW w \in workers, WorkerStep(w) PROVE TypeOK'
        BY <1>1, <3>5, WorkerLooksKeepType, WorkerActsKeepType DEF WorkerStep
      <3>6. CASE AgentRestarts
        BY <1>1, <3>6, RestartKeepsType DEF TypeInv
      <3>7. CASE EnvironmentStep
        BY <1>1, <3>7, EnvironmentKeepsType DEF TypeInv
      <3> QED
        BY <1>1, <3>1, <3>2, <3>3, <3>4, <3>5, <3>6, <3>7 DEF Next, EnvironmentStep
    <2> QED
      BY <1>1, <2>1, NextKeepsPass, NextKeepsWorkerData DEF TypeInv
  <1>2. ASSUME TypeInv, UNCHANGED vars PROVE TypeInv'
    BY <1>2 DEF TypeInv, TypeOK, PassInv, WorkerData, Tracked, vars
  <1> QED BY <1>1, <1>2

\* The variables of the agent always have their types: no operation, failing
\* command, crash or interleaving leaves a half-made peer state behind.
THEOREM TypeCorrect == Spec => []TypeOK
  <1>1. TypeInv => TypeOK
    BY DEF TypeInv
  <1> QED
    BY <1>1, InitTyped, NextTyped, PTL DEF Spec

\* A worker whose generation is no longer that of its peer changes neither the
\* states nor the kernel nor the file, whatever it was doing when it was
\* superseded (probe_generation_current, and the tests of confirm6 and of the
\* finally block).
THEOREM StaleInert == Spec => StaleWorkerInert
  <1>1. ASSUME NEW w \in workers, WorkerStep(w), ~Current(w)
        PROVE  UNCHANGED <<states, wg, saved>>
    <2>1. CASE WorkerGivesUp(w) \/ ProbeStart(w) \/ ProbeBaseline(w)
               \/ ProbeWindowCloses(w) \/ ProbeSeesHandshake(w) \/ ConfirmSeesHandshake(w)
      BY <2>1 DEF WorkerGivesUp, ProbeStart, ProbeBaseline, ProbeWindowCloses,
                  ProbeSeesHandshake, ConfirmSeesHandshake
    <2>2. CASE WorkerEnds(w)
      BY <1>1, <2>2 DEF WorkerEnds, Abandoned
    <2>3. Current(w) \/ ~(ProbeSetup(w) \/ ProbePromotes(w) \/ ProbeExhausted(w)
               \/ ConfirmRekeys(w) \/ ConfirmFinalizes(w) \/ ConfirmTimesOut(w))
      BY DEF ProbeSetup, ProbePromotes, ProbeExhausted, ConfirmRekeys, ConfirmFinalizes,
             ConfirmTimesOut, ProbeCurrent, ConfirmCurrent
    <2> QED BY <1>1, <2>1, <2>2, <2>3 DEF WorkerStep
  <1>2. [Next]_vars =>
          [\A w \in workers : ~Current(w) /\ WorkerStep(w) => UNCHANGED <<states, wg, saved>>]_vars
    BY <1>1
  <1> QED
    BY <1>2, PTL DEF Spec, StaleWorkerInert

=============================================================================
