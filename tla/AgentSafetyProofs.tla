-------------------------- MODULE AgentSafetyProofs --------------------------
(***************************************************************************)
(* Theorems about the safety of Agent: generations fence the threads, one  *)
(* thread acts on a peer, and what the states say of the kernel.           *)
(***************************************************************************)
EXTENDS AgentProofs

-----------------------------------------------------------------------------
(* The fence.  GenerationsFence and SingleActor follow from one invariant:   *)
(* a thread is alone with its generation and its kind, a probe that has      *)
(* handed its generation on to a confirmation is in its finally block, and   *)
(* the pass that is running has not handed out a generation twice.           *)

Threads == workers \cup monitor.launches

FenceInv ==
    /\ \A k \in Tracked : states[k].generation \in 1..lastGeneration
    /\ \A w \in Threads : w.generation \in 1..lastGeneration
    /\ \A j, k \in Tracked : states[j].generation = states[k].generation => j = k
    /\ \A v, w \in Threads : v.generation = w.generation /\ v.kind = w.kind => v = w
    /\ \A v \in workers, w \in monitor.launches : v.generation # w.generation
    /\ \A w \in Threads : \A k \in Tracked : states[k].generation = w.generation => w.key = k
    /\ \A v, w \in workers :
           v.generation = w.generation /\ v.kind = "probe" /\ w.kind = "confirm6" => v.pc = "finally"

FenceData == TypeInv /\ FenceInv

\* What a step may do to the generations.  It keeps those of the peers that it
\* does not drop,
GenerationsKept ==
    \A k \in Keys : states'[k] # NoState =>
        states[k] # NoState /\ states'[k].generation = states[k].generation

\* or it gives one peer the next one.
Renewed(k) ==
    /\ lastGeneration' = NextGeneration
    /\ states'[k].generation = NextGeneration
    /\ \A j \in Keys \ {k} : states'[j] = states[j]

LEMMA KeptFence ==
    ASSUME FenceData, TypeOK', GenerationsKept, lastGeneration' >= lastGeneration,
           \/ workers' \subseteq workers /\ monitor'.launches \subseteq monitor.launches
           \/ workers' \subseteq Threads /\ monitor'.launches = {}
    PROVE  FenceInv'
<1>1. /\ Tracked' \subseteq Tracked
      /\ \A k \in Tracked' : states'[k].generation = states[k].generation
  BY DEF GenerationsKept, Tracked
<1>2. Threads' \subseteq Threads
  BY DEF Threads
<1>3. 1..lastGeneration \subseteq 1..lastGeneration'
  BY DEF TypeOK, FenceData, TypeInv
<1>4. \A v \in workers', w \in monitor'.launches : v.generation # w.generation
  BY DEF FenceData, FenceInv
<1>5. \A v, w \in workers' :
         v.generation = w.generation /\ v.kind = "probe" /\ w.kind = "confirm6" => v.pc = "finally"
  BY DEF Threads, FenceData, FenceInv, TypeInv, PassInv
<1> QED BY <1>1, <1>2, <1>3, <1>4, <1>5 DEF FenceData, FenceInv

LEMMA RenewedFence ==
    ASSUME FenceData, TypeOK', NEW k \in Keys, Renewed(k),
           \/ /\ workers' \subseteq workers \cup {Probe(k, NextGeneration)}
              /\ monitor'.launches = monitor.launches
           \/ /\ workers' \subseteq workers
              /\ monitor'.launches \subseteq monitor.launches \cup {Probe(k, NextGeneration)}
    PROVE  FenceInv'
<1> DEFINE p == Probe(k, NextGeneration)
<1>1. /\ lastGeneration \in Nat /\ NextGeneration = lastGeneration + 1 /\ lastGeneration' = lastGeneration + 1
      /\ p.generation = NextGeneration /\ p.key = k /\ p.kind = "probe"
  BY DEF FenceData, TypeInv, TypeOK, NextGeneration, Renewed, Probe
<1>2. /\ \A g \in 1..lastGeneration : g \in 1..lastGeneration' /\ g # NextGeneration
      /\ NextGeneration \in 1..lastGeneration'
  BY <1>1
<1>3. /\ \A j \in Tracked' \ {k} : j \in Tracked /\ states'[j].generation = states[j].generation
      /\ k \in Tracked' => states'[k].generation = NextGeneration
  BY DEF Renewed, Tracked
<1>4. Threads' \subseteq Threads \cup {p}
  BY DEF Threads
<1>5. \A w \in Threads : w.generation \in 1..lastGeneration
  BY DEF FenceData, FenceInv
<1> HIDE DEF p
<1>6. \A j \in Tracked' : states'[j].generation \in 1..lastGeneration'
  BY <1>2, <1>3 DEF FenceData, FenceInv
<1>7. \A w \in Threads' : w.generation \in 1..lastGeneration'
  BY <1>1, <1>2, <1>4, <1>5
<1>8. \A i, j \in Tracked' : states'[i].generation = states'[j].generation => i = j
  BY <1>2, <1>3 DEF FenceData, FenceInv
<1>9. \A v, w \in Threads' : v.generation = w.generation /\ v.kind = w.kind => v = w
  BY <1>1, <1>2, <1>4, <1>5 DEF FenceData, FenceInv
<1>10. \A v \in workers', w \in monitor'.launches : v.generation # w.generation
  <2>1. \/ workers' \subseteq workers \cup {p} /\ monitor'.launches = monitor.launches
        \/ workers' \subseteq workers /\ monitor'.launches \subseteq monitor.launches \cup {p}
    BY DEF p
  <2> QED BY <1>1, <1>2, <1>5, <2>1 DEF Threads, FenceData, FenceInv
<1>11. \A w \in Threads' : \A j \in Tracked' : states'[j].generation = w.generation => w.key = j
  BY <1>1, <1>2, <1>3, <1>4, <1>5 DEF FenceData, FenceInv
<1>12. \A v, w \in workers' :
          v.generation = w.generation /\ v.kind = "probe" /\ w.kind = "confirm6" => v.pc = "finally"
  <2>1. workers' \subseteq workers \cup {p}
    BY DEF p
  <2> QED BY <1>1, <1>2, <1>5, <2>1 DEF Threads, FenceData, FenceInv
<1> QED BY <1>6, <1>7, <1>8, <1>9, <1>10, <1>11, <1>12 DEF FenceInv

\* A thread that is not at its end moves on, and may hand its generation on to
\* a confirmation when it does end.
LEMMA MovedFence ==
    ASSUME FenceData, TypeOK', GenerationsKept, lastGeneration' = lastGeneration, monitor' = monitor,
           NEW w \in workers, NEW v, w.pc # "finally",
           v.generation = w.generation, v.key = w.key, v.kind = w.kind,
           NEW c, c.generation = w.generation, c.key = w.key, c.kind = "confirm6",
           \/ workers' \subseteq (workers \ {w}) \cup {v}
           \/ /\ workers' \subseteq (workers \ {w}) \cup {v, c}
              /\ w.kind = "probe" /\ v.pc = "finally"
    PROVE  FenceInv'
<1>1. /\ Tracked' \subseteq Tracked
      /\ \A k \in Tracked' : states'[k].generation = states[k].generation
  BY DEF GenerationsKept, Tracked
<1>2. \A x \in Threads' :
         /\ \E y \in Threads : x.generation = y.generation /\ x.key = y.key
         /\ x \in Threads \/ x.generation = w.generation
  BY DEF Threads
<1>3. \A k \in Tracked' : states'[k].generation \in 1..lastGeneration'
  BY <1>1 DEF FenceData, FenceInv
<1>4. \A x \in Threads' : x.generation \in 1..lastGeneration'
  BY <1>2 DEF FenceData, FenceInv
<1>5. \A j, k \in Tracked' : states'[j].generation = states'[k].generation => j = k
  BY <1>1 DEF FenceData, FenceInv
<1>6. \A x \in workers \ {w} : x.generation = w.generation => x.kind # w.kind
  BY DEF Threads, FenceData, FenceInv
<1>7. \A x \in monitor.launches : x.generation # w.generation
  BY DEF FenceData, FenceInv
<1>8. w.kind = "probe" => \A x \in workers : x.generation = w.generation => x.kind # "confirm6"
  BY DEF FenceData, FenceInv
<1>9. \A x, y \in Threads' : x.generation = y.generation /\ x.kind = y.kind => x = y
  <2>1. CASE workers' \subseteq (workers \ {w}) \cup {v}
    BY <1>6, <1>7, <2>1 DEF Threads, FenceData, FenceInv
  <2>2. CASE /\ workers' \subseteq (workers \ {w}) \cup {v, c}
             /\ w.kind = "probe" /\ v.pc = "finally"
    BY <1>6, <1>7, <1>8, <2>2 DEF Threads, FenceData, FenceInv
  <2> QED BY <2>1, <2>2
<1>10. \A x \in workers', y \in monitor'.launches : x.generation # y.generation
  BY <1>7 DEF FenceData, FenceInv
<1>11. \A x \in Threads' : \A k \in Tracked' : states'[k].generation = x.generation => x.key = k
  BY <1>1, <1>2 DEF FenceData, FenceInv
<1>12. \A x, y \in workers' :
          x.generation = y.generation /\ x.kind = "probe" /\ y.kind = "confirm6" => x.pc = "finally"
  <2>1. CASE workers' \subseteq (workers \ {w}) \cup {v}
    BY <1>8, <2>1 DEF FenceData, FenceInv
  <2>2. CASE /\ workers' \subseteq (workers \ {w}) \cup {v, c}
             /\ w.kind = "probe" /\ v.pc = "finally"
    BY <1>6, <1>8, <2>2 DEF FenceData, FenceInv
  <2> QED BY <2>1, <2>2
<1> QED BY <1>3, <1>4, <1>5, <1>9, <1>10, <1>11, <1>12 DEF FenceInv

\* The operators of the model that leave the generation alone, and those that
\* renew it.
LEMMA GenerationOf ==
    ASSUME NEW s \in PeerStates, NEW p, NEW e, NEW g
    PROVE  /\ ControlExpired(s, p).generation = s.generation
           /\ IdleAfterFailure(s).generation = s.generation
           /\ [IdleAfterFailure(s) EXCEPT !.generation = g].generation = g
           /\ ProbeStarted(s).generation = NextGeneration
           /\ [s EXCEPT !.lease = "due"].generation = s.generation
           /\ [s EXCEPT !.retryDue = TRUE].generation = s.generation
BY DEF ControlExpired, IdleAfterFailure, ProbeStarted, PeerStates

LEMMA AdoptedGeneration ==
    ASSUME TypeOK, NEW k \in Keys, NEW o \in Offers
    PROVE  \/ Adopted(k, o).generation = NextGeneration
           \/ states[k] # NoState /\ Adopted(k, o).generation = states[k].generation
<1>1. CASE states[k] = NoState \/ Replaces(k, o)
  BY <1>1 DEF Adopted, NewPeerState
<1>2. CASE ~(states[k] = NoState \/ Replaces(k, o))
  BY <1>2 DEF Adopted, TypeOK, PeerStates
<1> QED BY <1>1, <1>2

\* One peer is written, and keeps its generation.
LEMMA OneKept ==
    ASSUME states \in [Keys -> PeerStates \cup {NoState}], NEW k \in Keys, NEW s,
           states[k] \in PeerStates, states' = [states EXCEPT ![k] = s],
           s.generation = states[k].generation
    PROVE  GenerationsKept
<1>1. states[k] # NoState /\ states'[k] = s /\ \A j \in Keys \ {k} : states'[j] = states[j]
  BY NullsAssumption
<1> QED BY <1>1 DEF GenerationsKept

LEMMA OfferFence ==
    ASSUME FenceData, TypeOK', NEW k \in Keys, NEW o \in Offers, HandleOffer(k, o)
    PROVE  FenceInv'
<1> DEFINE a == Adopted(k, o)
           g == states'[k].generation
<1>1. a \in PeerStates /\ TypeOK /\ states \in [Keys -> PeerStates \cup {NoState}]
  BY AdoptedType DEF FenceData, TypeInv, TypeOK
<1>2. \/ a.generation = NextGeneration
      \/ states[k] # NoState /\ a.generation = states[k].generation
  BY <1>1, AdoptedGeneration
<1>3. /\ monitor' = monitor
      /\ lastGeneration' = IF g = NextGeneration THEN NextGeneration ELSE lastGeneration
      /\ lastGeneration \in Nat
  BY <1>1 DEF HandleOffer, TypeOK
<1> DEFINE Effect == /\ \A j \in Keys \ {k} : states'[j] = states[j]
                     /\ g = NextGeneration \/ (states[k] # NoState /\ g = states[k].generation)
                     /\ \/ workers' = workers
                        \/ g = NextGeneration /\ workers' = workers \cup {Probe(k, NextGeneration)}
<1> HIDE DEF a
<1>4. ASSUME NEW saves \in SaveOutcomes, OfferKeepsDirect(k, o, saves) PROVE Effect
  <2>1. states' = [states EXCEPT ![k] = [a EXCEPT !.mode = "direct", !.endpoint = wg[k].endpoint,
                                                  !.running = FALSE]]
    BY <1>4 DEF OfferKeepsDirect, a
  <2>2. g = a.generation
    BY <1>1, <2>1 DEF PeerStates
  <2> QED BY <1>1, <1>2, <1>4, <2>1, <2>2 DEF OfferKeepsDirect
<1>5. ASSUME NEW saves \in SaveOutcomes, OfferStartsProbe(k, o, saves) PROVE Effect
  <2> DEFINE t == [a EXCEPT !.endpoint = NoEndpoint, !.retryDue = TRUE]
  <2>1. t \in PeerStates
    BY <1>1 DEF PeerStates
  <2>2. states' = [states EXCEPT ![k] = ProbeStarted(t)]
    BY <1>5 DEF OfferStartsProbe, a
  <2> HIDE DEF t
  <2>3. g = NextGeneration
    BY <1>1, <2>1, <2>2, GenerationOf
  <2> QED BY <1>1, <1>5, <2>2, <2>3 DEF OfferStartsProbe
<1>6. ASSUME NEW saves \in SaveOutcomes, OfferRefreshes(k, o, saves) PROVE Effect
  <2>1. CASE a.retryDue /\ ~a.running
    <3>1. states' = [states EXCEPT ![k] = ProbeStarted(a)]
      BY <1>6, <2>1 DEF OfferRefreshes, a
    <3>2. g = NextGeneration
      BY <1>1, <3>1, GenerationOf
    <3> QED BY <1>1, <1>6, <3>1, <3>2 DEF OfferRefreshes
  <2>2. CASE ~(a.retryDue /\ ~a.running)
    <3>1. states' = [states EXCEPT ![k] = a] /\ workers' = workers
      BY <1>6, <2>2 DEF OfferRefreshes, a
    <3> QED BY <1>1, <1>2, <3>1
  <2> QED BY <2>1, <2>2
<1>7. ASSUME NEW r \in WgOutcomes, OfferRemoveFails(k, o, r) PROVE Effect
  <2>1. CASE Replaces(k, o)
    <3>1. states[k] \in PeerStates
      BY <1>1, <2>1 DEF Replaces, InstanceChanged, NewSession
    <3>2. states' = [states EXCEPT ![k] = [states[k] EXCEPT !.generation = NextGeneration,
                                                            !.running = FALSE]]
      BY <1>7, <2>1 DEF OfferRemoveFails
    <3>3. g = NextGeneration
      BY <1>1, <3>1, <3>2 DEF PeerStates
    <3> QED BY <1>1, <1>7, <3>2, <3>3 DEF OfferRemoveFails
  <2>2. CASE ~Replaces(k, o)
    <3>1. states' = [states EXCEPT ![k] = a] /\ workers' = workers
      BY <1>7, <2>2 DEF OfferRemoveFails, a
    <3> QED BY <1>1, <1>2, <3>1
  <2> QED BY <2>1, <2>2
<1>8. Effect
  BY <1>4, <1>5, <1>6, <1>7 DEF HandleOffer
<1>9. CASE g = NextGeneration
  <2>1. Renewed(k) /\ workers' \subseteq workers \cup {Probe(k, NextGeneration)}
    BY <1>3, <1>8, <1>9 DEF Renewed
  <2> QED BY <1>3, <2>1, RenewedFence
<1>10. CASE g # NextGeneration
  <2>1. GenerationsKept /\ workers' = workers /\ lastGeneration' >= lastGeneration
    BY <1>3, <1>8, <1>10 DEF GenerationsKept
  <2> QED BY <1>3, <2>1, KeptFence
<1> QED BY <1>9, <1>10

LEMMA RemoveFence ==
    ASSUME FenceData, TypeOK', NEW k \in Keys, NEW n, NEW reason, HandleRemove(k, n, reason)
    PROVE  FenceInv'
<1>1. /\ states \in [Keys -> PeerStates \cup {NoState}] /\ states[k] \in PeerStates
      /\ lastGeneration \in Nat /\ workers' = workers /\ monitor' = monitor
  BY DEF FenceData, TypeInv, TypeOK, HandleRemove
<1>2. /\ \/ states' = [states EXCEPT ![k] = ControlExpired(states[k], wg[k])]
         \/ states' = [states EXCEPT ![k] = NoState]
         \/ states' = states
      /\ lastGeneration' \in {lastGeneration, NextGeneration}
  BY DEF HandleRemove, RemovePreserves, RemoveDrops, RemoveFails
<1>3. GenerationsKept
  <2>1. CASE states' = [states EXCEPT ![k] = ControlExpired(states[k], wg[k])]
    BY <1>1, <2>1, GenerationOf, OneKept
  <2>2. CASE states' = [states EXCEPT ![k] = NoState] \/ states' = states
    BY <1>1, <2>2 DEF GenerationsKept
  <2> QED BY <1>2, <2>1, <2>2
<1>4. lastGeneration' >= lastGeneration
  BY <1>1, <1>2 DEF NextGeneration
<1> QED BY <1>1, <1>3, <1>4, KeptFence

LEMMA CleanupFence ==
    ASSUME FenceData, TypeOK', NEW active, CleanupInitiatorStates(active)
    PROVE  FenceInv'
<1> DEFINE gone == {k \in Tracked \ active : states[k].controller = "initiator"}
<1>1. Cardinality(gone) \in Nat
  <2>1. IsFiniteSet(gone)
    BY KeysAssumption, FS_Subset DEF Tracked
  <2> QED BY <2>1, FS_CardinalityType
<1>2. /\ states' = [k \in Keys |-> IF k \in gone THEN NoState ELSE states[k]]
      /\ lastGeneration' = lastGeneration + Cardinality(gone)
      /\ workers' = workers /\ monitor' = monitor
  BY DEF CleanupInitiatorStates
<1> HIDE DEF gone
<1>3. GenerationsKept /\ lastGeneration' >= lastGeneration
  BY <1>1, <1>2 DEF GenerationsKept, FenceData, TypeInv, TypeOK
<1> QED BY <1>2, <1>3, KeptFence

\* What one visit of the pass does: it keeps the peer, drops it, or begins a
\* new generation of it.
LEMMA VisitEffect ==
    ASSUME TypeInv, NEW k \in Keys, MonitorPeer(k)
    PROVE  /\ workers' = workers
           /\ \/ /\ GenerationsKept /\ monitor'.launches = monitor.launches
                 /\ lastGeneration' \in {lastGeneration, NextGeneration}
              \/ /\ Renewed(k)
                 /\ monitor'.launches = monitor.launches \cup {Probe(k, NextGeneration)}
<1>1. /\ states \in [Keys -> PeerStates \cup {NoState}] /\ states[k] \in PeerStates
      /\ monitor \in MonitorPasses /\ workers' = workers
  BY DEF TypeInv, TypeOK, PassInv, MonitorPeer, Tracked
<1>2. \A changed : Visited(k, changed) => monitor'.launches = monitor.launches
  BY <1>1 DEF Visited, MonitorPasses
<1>3. VisitedWithLaunch(k) =>
         monitor'.launches = monitor.launches \cup {Probe(k, states'[k].generation)}
  BY <1>1 DEF VisitedWithLaunch, MonitorPasses
<1>4. CASE MonitorPreserves(k)
  <2>1. states' = [states EXCEPT ![k] = ControlExpired(states[k], monitor.current[k])]
    BY <1>4 DEF MonitorPreserves
  <2>2. GenerationsKept
    BY <1>1, <2>1, GenerationOf, OneKept
  <2> QED BY <1>1, <1>2, <1>4, <2>2 DEF MonitorPreserves
<1>5. CASE MonitorExpires(k) \/ MonitorForgets(k)
  <2>1. states' = [states EXCEPT ![k] = NoState]
    BY <1>5 DEF MonitorExpires, MonitorForgets
  <2>2. GenerationsKept
    BY <1>1, <2>1 DEF GenerationsKept
  <2> QED BY <1>1, <1>2, <1>5, <2>2 DEF MonitorExpires, MonitorForgets
<1>6. CASE MonitorConfirming(k)
  <2>1. GenerationsKept
    BY <1>6 DEF MonitorConfirming, GenerationsKept
  <2> QED BY <1>1, <1>2, <1>6, <2>1 DEF MonitorConfirming
<1>7. CASE MonitorKeepsDirect(k)
  <2>1. states' = [states EXCEPT ![k] = [states[k] EXCEPT !.mode = "direct",
                                                  !.endpoint = monitor.current[k].endpoint]]
    BY <1>1, <1>7 DEF MonitorKeepsDirect
  <2>2. [states[k] EXCEPT !.mode = "direct", !.endpoint = monitor.current[k].endpoint].generation
           = states[k].generation
    BY <1>1 DEF PeerStates
  <2>3. GenerationsKept
    BY <1>1, <2>1, <2>2, OneKept
  <2> QED BY <1>1, <1>2, <1>7, <2>3 DEF MonitorKeepsDirect
<1>8. CASE MonitorFallsBack(k)
  <2> DEFINE t == [states[k] EXCEPT !.endpoint = NoEndpoint, !.retryDue = TRUE]
  <2>1. t \in PeerStates
    BY <1>1 DEF PeerStates
  <2>2. states' = [states EXCEPT ![k] = ProbeStarted(t)]
    BY <1>8 DEF MonitorFallsBack
  <2> HIDE DEF t
  <2>3. states'[k].generation = NextGeneration
    BY <1>1, <2>1, <2>2, GenerationOf
  <2> QED BY <1>1, <1>3, <1>8, <2>2, <2>3 DEF MonitorFallsBack, Renewed
<1>9. CASE MonitorRetries(k)
  <2>1. CASE states[k].retryDue /\ ~states[k].running
    <3>1. states' = [states EXCEPT ![k] = ProbeStarted(states[k])]
      BY <1>9, <2>1 DEF MonitorRetries
    <3>2. states'[k].generation = NextGeneration
      BY <1>1, <3>1, GenerationOf
    <3> QED BY <1>1, <1>3, <1>9, <2>1, <3>1, <3>2 DEF MonitorRetries, Renewed
  <2>2. CASE ~(states[k].retryDue /\ ~states[k].running)
    <3> DEFINE m == IF states[k].mode = "probe" /\ ~states[k].running THEN "idle" ELSE states[k].mode
    <3>1. states' = [states EXCEPT ![k] = [states[k] EXCEPT !.mode = m]]
      BY <1>1, <1>9, <2>2 DEF MonitorRetries
    <3> HIDE DEF m
    <3>2. [states[k] EXCEPT !.mode = m].generation = states[k].generation
      BY <1>1 DEF PeerStates
    <3>3. GenerationsKept
      BY <1>1, <3>1, <3>2, OneKept
    <3> QED BY <1>1, <1>2, <1>9, <2>2, <3>3 DEF MonitorRetries
  <2> QED BY <2>1, <2>2
<1> QED BY <1>4, <1>5, <1>6, <1>7, <1>8, <1>9 DEF MonitorPeer

LEMMA MonitorFence ==
    ASSUME FenceData, TypeOK', MonitorStep
    PROVE  FenceInv'
<1>1. lastGeneration \in Nat /\ TypeInv
  BY DEF FenceData, TypeInv, TypeOK
<1>2. CASE MonitorBegin
  <2>1. GenerationsKept /\ workers' = workers /\ monitor'.launches = {} /\ lastGeneration' = lastGeneration
    BY <1>2 DEF MonitorBegin, GenerationsKept
  <2> QED BY <1>1, <2>1, KeptFence DEF Threads
<1>3. ASSUME NEW k \in Keys, MonitorPeer(k) PROVE FenceInv'
  <2>1. CASE /\ GenerationsKept /\ monitor'.launches = monitor.launches
             /\ lastGeneration' \in {lastGeneration, NextGeneration}
    BY <1>1, <1>3, <2>1, VisitEffect, KeptFence DEF NextGeneration
  <2>2. CASE Renewed(k) /\ monitor'.launches = monitor.launches \cup {Probe(k, NextGeneration)}
    BY <1>1, <1>3, <2>2, VisitEffect, RenewedFence
  <2> QED BY <1>1, <1>3, <2>1, <2>2, VisitEffect
<1>4. CASE \E k \in Keys : MonitorFails(k)
  <2>1. GenerationsKept /\ workers' = workers /\ monitor'.launches = {} /\ lastGeneration' = lastGeneration
    BY <1>4 DEF MonitorFails, GenerationsKept, NoPass
  <2> QED BY <1>1, <2>1, KeptFence DEF Threads
<1>5. CASE MonitorEnd
  <2>1. /\ GenerationsKept /\ workers' \subseteq Threads /\ monitor'.launches = {}
        /\ lastGeneration' = lastGeneration
    BY <1>5 DEF MonitorEnd, GenerationsKept, NoPass, Threads
  <2> QED BY <1>1, <2>1, KeptFence
<1> QED BY <1>2, <1>3, <1>4, <1>5 DEF MonitorStep

\* A worker that goes on keeps its generation, its peer and its kind; it is
\* about to make a peer direct when that has completed a handshake.
SameWorker(v, w) == v.generation = w.generation /\ v.key = w.key /\ v.kind = w.kind

Shaken(p) == p # NoPeer /\ p.handshake > 0

Landing(w) == w.pc \in {"promote", "finalize"}

GoesOn(w) == \E v : /\ SameWorker(v, w) /\ workers' = (workers \ {w}) \cup {v}
                    /\ Landing(v) => Shaken(wg[w.key])

LEMMA MovedWorker ==
    ASSUME NEW w \in Workers, NEW pc, NEW left, NEW baseline, NEW e,
           pc \in {"promote", "finalize"} => Shaken(wg[w.key])
    PROVE  /\ SameWorker([w EXCEPT !.pc = pc], w) /\ [w EXCEPT !.pc = pc].pc = pc
           /\ GoTo(w, pc) => GoesOn(w)
           /\ Becomes(w, [w EXCEPT !.pc = pc, !.left = left]) => GoesOn(w)
           /\ Becomes(w, [w EXCEPT !.pc = pc, !.endpoint = e]) => GoesOn(w)
           /\ Becomes(w, [w EXCEPT !.pc = pc, !.baseline = baseline, !.endpoint = e]) => GoesOn(w)
<1>1. ASSUME NEW v, SameWorker(v, w), Landing(v) => Shaken(wg[w.key]), Becomes(w, v)
      PROVE  GoesOn(w)
  BY <1>1 DEF GoesOn, Becomes
<1>2. /\ SameWorker([w EXCEPT !.pc = pc], w) /\ [w EXCEPT !.pc = pc].pc = pc
      /\ SameWorker([w EXCEPT !.pc = pc, !.left = left], w)
      /\ [w EXCEPT !.pc = pc, !.left = left].pc = pc
      /\ SameWorker([w EXCEPT !.pc = pc, !.endpoint = e], w)
      /\ [w EXCEPT !.pc = pc, !.endpoint = e].pc = pc
      /\ SameWorker([w EXCEPT !.pc = pc, !.baseline = baseline, !.endpoint = e], w)
      /\ [w EXCEPT !.pc = pc, !.baseline = baseline, !.endpoint = e].pc = pc
  BY DEF SameWorker, Workers
<1>3. \A v : SameWorker(v, w) /\ v.pc = pc => (Landing(v) => Shaken(wg[w.key]))
  BY DEF Landing
<1> QED BY <1>1, <1>2, <1>3 DEF GoTo

LEMMA NextMoves ==
    ASSUME NEW w \in Workers, Becomes(w, NextCandidate(w))
    PROVE  GoesOn(w)
<1>1. SameWorker(NextCandidate(w), w) /\ ~Landing(NextCandidate(w))
  BY DEF SameWorker, Workers, NextCandidate, Landing
<1> QED BY <1>1 DEF GoesOn, Becomes

\* A worker that only looks.
Looks(w) == \/ WorkerGivesUp(w) \/ ProbeStart(w) \/ ProbeBaseline(w)
            \/ ProbeWindowCloses(w) \/ ProbeSeesHandshake(w) \/ ConfirmSeesHandshake(w)

LEMMA LooksEffect ==
    ASSUME TypeInv, NEW w \in workers, Looks(w)
    PROVE  /\ GoesOn(w) /\ w.pc # "finally"
           /\ UNCHANGED <<states, wg, monitor, lastGeneration>>
<1>1. w \in Workers /\ w.key \in Keys /\ w.baseline \in Nat
  BY DEF TypeInv, TypeOK, Workers
<1>2. UNCHANGED <<states, wg, monitor, lastGeneration>> /\ w.pc # "finally"
  BY DEF Looks, WorkerGivesUp, ProbeStart, ProbeBaseline, ProbeWindowCloses, ProbeSeesHandshake,
         ConfirmSeesHandshake, AtProbe, AtConfirm
<1>3. GoesOn(w)
  <2>1. CASE WorkerGivesUp(w)
    BY <1>1, <2>1, MovedWorker DEF WorkerGivesUp
  <2>2. CASE ProbeStart(w) \/ ProbeBaseline(w)
    BY <1>1, <2>2, MovedWorker DEF ProbeStart, ProbeBaseline
  <2>3. CASE ConfirmSeesHandshake(w)
    BY <1>1, <2>3, MovedWorker DEF ConfirmSeesHandshake, Shaken
  <2>4. CASE ProbeWindowCloses(w)
    BY <1>1, <2>4, NextMoves DEF ProbeWindowCloses
  <2>5. CASE ProbeSeesHandshake(w)
    <3>1. Shaken(wg[w.key])
      BY <1>1, <2>5 DEF ProbeSeesHandshake, LatestHandshake, Shaken, TypeInv, TypeOK, KernelPeers
    <3> QED BY <1>1, <2>5, <3>1, MovedWorker DEF ProbeSeesHandshake
  <2> QED BY <2>1, <2>2, <2>3, <2>4, <2>5 DEF Looks
<1> QED BY <1>2, <1>3

\* What a worker writes is not a generation.
LEMMA WorkerWritesKeep ==
    ASSUME TypeInv, NEW w \in workers, Current(w),
           \/ states' = states
           \/ states' = [states EXCEPT ![w.key].mode = "probe", ![w.key].endpoint = w.endpoint]
           \/ states' = [states EXCEPT ![w.key].mode = "confirm6", ![w.key].running = TRUE]
           \/ states' = [states EXCEPT ![w.key].mode = "direct", ![w.key].endpoint = w.endpoint,
                                       ![w.key].retryDue = TRUE, ![w.key].running = FALSE]
           \/ states' = [states EXCEPT ![w.key] = IdleAfterFailure(states[w.key])]
    PROVE  GenerationsKept
<1> DEFINE k == w.key
           s == states[k]
<1>1. k \in Keys /\ s \in PeerStates /\ states \in [Keys -> PeerStates \cup {NoState}]
  BY DEF Current, TypeInv, TypeOK, Workers
<1>2. CASE states' = states
  BY <1>2 DEF GenerationsKept
<1>3. CASE states' = [states EXCEPT ![k].mode = "probe", ![k].endpoint = w.endpoint]
  <2>1. states' = [states EXCEPT ![k] = [s EXCEPT !.mode = "probe", !.endpoint = w.endpoint]]
    BY <1>1, <1>3
  <2>2. [s EXCEPT !.mode = "probe", !.endpoint = w.endpoint].generation = s.generation
    BY <1>1 DEF PeerStates
  <2> QED BY <1>1, <2>1, <2>2, OneKept
<1>4. CASE states' = [states EXCEPT ![k].mode = "confirm6", ![k].running = TRUE]
  <2>1. states' = [states EXCEPT ![k] = [s EXCEPT !.mode = "confirm6", !.running = TRUE]]
    BY <1>1, <1>4
  <2>2. [s EXCEPT !.mode = "confirm6", !.running = TRUE].generation = s.generation
    BY <1>1 DEF PeerStates
  <2> QED BY <1>1, <2>1, <2>2, OneKept
<1>5. CASE states' = [states EXCEPT ![k].mode = "direct", ![k].endpoint = w.endpoint,
                                    ![k].retryDue = TRUE, ![k].running = FALSE]
  <2>1. states' = [states EXCEPT ![k] = [s EXCEPT !.mode = "direct", !.endpoint = w.endpoint,
                                                  !.retryDue = TRUE, !.running = FALSE]]
    BY <1>1, <1>5
  <2>2. [s EXCEPT !.mode = "direct", !.endpoint = w.endpoint, !.retryDue = TRUE,
                  !.running = FALSE].generation = s.generation
    BY <1>1 DEF PeerStates
  <2> QED BY <1>1, <2>1, <2>2, OneKept
<1>6. CASE states' = [states EXCEPT ![k] = IdleAfterFailure(s)]
  BY <1>1, <1>6, GenerationOf, OneKept
<1> QED BY <1>2, <1>3, <1>4, <1>5, <1>6

LEMMA WorkerLooksFence ==
    ASSUME FenceData, TypeOK', NEW w \in workers, Looks(w)
    PROVE  FenceInv'
<1>1. /\ GoesOn(w) /\ w.pc # "finally" /\ GenerationsKept
      /\ lastGeneration' = lastGeneration /\ monitor' = monitor
  BY LooksEffect DEF FenceData, GenerationsKept
<1>2. \E c : c.generation = w.generation /\ c.key = w.key /\ c.kind = "confirm6"
  <2>1. LET c == Confirm(w.key, w.generation, w.endpoint) IN
           c.generation = w.generation /\ c.key = w.key /\ c.kind = "confirm6"
    BY DEF Confirm
  <2> QED BY <2>1
<1> QED BY <1>1, <1>2, MovedFence DEF GoesOn, SameWorker

LEMMA WorkerActsFence ==
    ASSUME FenceData, TypeOK', NEW w \in workers,
           \/ ProbeSetup(w) \/ ProbePromotes(w) \/ ProbeExhausted(w) \/ ConfirmRekeys(w)
           \/ ConfirmFinalizes(w) \/ ConfirmTimesOut(w)
    PROVE  FenceInv'
<1> DEFINE c == Confirm(w.key, w.generation, w.endpoint)
           f == [w EXCEPT !.pc = "finally"]
<1>1. w \in Workers /\ TypeInv
  BY DEF FenceData, TypeInv, TypeOK
<1>2. Current(w) /\ w.pc # "finally" /\ lastGeneration' = lastGeneration /\ monitor' = monitor
  BY DEF ProbeSetup, ProbePromotes, ProbeExhausted, ConfirmRekeys, ConfirmFinalizes,
         ConfirmTimesOut, ProbeCurrent, ConfirmCurrent, AtProbe, AtConfirm
<1>3. GenerationsKept
  BY <1>1, <1>2, WorkerWritesKeep
  DEF ProbeSetup, ProbePromotes, ProbeExhausted, ConfirmRekeys, ConfirmFinalizes, ConfirmTimesOut
<1>4. c.generation = w.generation /\ c.key = w.key /\ c.kind = "confirm6"
  BY DEF Confirm
<1>5. CASE ProbePromotes(w)
  <2>1. workers' \subseteq (workers \ {w}) \cup {f, c} /\ w.kind = "probe"
    BY <1>5 DEF ProbePromotes, AtProbe, GoTo, Becomes
  <2>2. f.generation = w.generation /\ f.key = w.key /\ f.kind = w.kind /\ f.pc = "finally"
    BY <1>1, MovedWorker DEF SameWorker
  <2> HIDE DEF c, f
  <2> QED BY <1>2, <1>3, <1>4, <2>1, <2>2, MovedFence
<1>6. CASE ~ProbePromotes(w)
  <2>1. GoesOn(w)
    <3>1. CASE ProbeSetup(w)
      BY <1>1, <3>1, MovedWorker, NextMoves DEF ProbeSetup
    <3>2. CASE ProbeExhausted(w) \/ ConfirmRekeys(w)
      BY <1>1, <3>2, MovedWorker DEF ProbeExhausted, ConfirmRekeys
    <3>3. CASE ConfirmFinalizes(w) \/ ConfirmTimesOut(w)
      BY <1>1, <3>3, MovedWorker DEF ConfirmFinalizes, ConfirmTimesOut
    <3> QED BY <1>6, <3>1, <3>2, <3>3
  <2> HIDE DEF c
  <2> QED BY <1>2, <1>3, <1>4, <2>1, MovedFence DEF GoesOn, SameWorker
<1> QED BY <1>5, <1>6

LEMMA WorkerEndsFence ==
    ASSUME FenceData, TypeOK', NEW w \in workers, WorkerEnds(w)
    PROVE  FenceInv'
<1>1. /\ workers' = workers \ {w} /\ monitor' = monitor
      /\ w \in Workers /\ lastGeneration \in Nat /\ states \in [Keys -> PeerStates \cup {NoState}]
  BY DEF WorkerEnds, FenceData, TypeInv, TypeOK
<1>2. CASE Abandoned(w)
  <2>1. w.key \in Keys /\ states[w.key] \in PeerStates
    BY <1>1, <1>2 DEF Abandoned, Current, Workers
  <2>2. /\ states' = [states EXCEPT ![w.key] =
                         [IdleAfterFailure(states[w.key]) EXCEPT !.generation = NextGeneration]]
        /\ lastGeneration' = NextGeneration
    BY <1>2 DEF WorkerEnds
  <2>3. Renewed(w.key)
    BY <1>1, <2>1, <2>2, GenerationOf DEF Renewed
  <2> QED BY <1>1, <2>1, <2>3, RenewedFence
<1>3. CASE ~Abandoned(w)
  <2>1. GenerationsKept /\ lastGeneration' = lastGeneration
    BY <1>3 DEF WorkerEnds, GenerationsKept
  <2> QED BY <1>1, <2>1, KeptFence
<1> QED BY <1>2, <1>3

\* A restart numbers the loaded peers anew, and there is no thread yet.
LEMMA RestartFence ==
    ASSUME FenceData, TypeOK', AgentRestarts
    PROVE  FenceInv'
<1>1. PICK file \in {saved, [k \in Keys |-> NoState]} : Restart(file)
  BY DEF AgentRestarts
<1> DEFINE loaded == {k \in Keys : file[k] # NoState}
           n == Cardinality(loaded)
<1>2. file \in [Keys -> PeerStates \cup {NoState}]
  BY <1>1 DEF FenceData, TypeInv, TypeOK
<1>3. n \in Nat
  BY KeysAssumption, FS_Subset, FS_CardinalityType
<1> HIDE DEF n
<1>4. PICK base \in {0} \cup {file[k].generation : k \in loaded} :
         \E g \in [loaded -> (base + 1)..(base + n)] :
            /\ \A j, k \in loaded : g[j] = g[k] => j = k
            /\ states' = [k \in Keys |-> IF k \in loaded THEN Loaded(file[k], g[k]) ELSE NoState]
            /\ lastGeneration' = base + n
  BY <1>1 DEF Restart, n
<1>5. base \in Nat
  BY <1>2, <1>4 DEF PeerStates
<1>6. PICK g \in [loaded -> (base + 1)..(base + n)] :
         /\ \A j, k \in loaded : g[j] = g[k] => j = k
         /\ states' = [k \in Keys |-> IF k \in loaded THEN Loaded(file[k], g[k]) ELSE NoState]
         /\ lastGeneration' = base + n
  BY <1>4
<1>7. \A k \in loaded : Loaded(file[k], g[k]).generation = g[k]
  BY <1>2 DEF Loaded, PeerStates
<1>8. /\ Tracked' \subseteq loaded
      /\ \A k \in Tracked' : states'[k].generation = g[k] /\ g[k] \in 1..lastGeneration'
  BY <1>3, <1>5, <1>6, <1>7 DEF Tracked
<1>9. workers' = {} /\ monitor'.launches = {} /\ Threads' = {}
  BY <1>1 DEF Restart, NoPass, Threads
<1> QED BY <1>6, <1>8, <1>9 DEF FenceInv

LEMMA EnvironmentFence ==
    ASSUME FenceData, TypeOK', EnvironmentStep
    PROVE  FenceInv'
<1>1. /\ workers' = workers /\ monitor' = monitor /\ lastGeneration' = lastGeneration
      /\ lastGeneration \in Nat /\ states \in [Keys -> PeerStates \cup {NoState}]
  BY DEF EnvironmentStep, WgHandshake, HandshakeAges, LeaseElapses, RetryElapses,
         FenceData, TypeInv, TypeOK
<1>2. CASE \/ \E k \in Keys, e \in Endpoints : WgHandshake(k, e)
           \/ \E k \in Keys : HandshakeAges(k)
  <2>1. states' = states
    BY <1>2 DEF WgHandshake, HandshakeAges
  <2>2. GenerationsKept
    BY <2>1 DEF GenerationsKept
  <2>3. lastGeneration' >= lastGeneration
    BY <1>1
  <2> QED BY <1>1, <2>2, <2>3, KeptFence
<1>3. ASSUME NEW k \in Keys, LeaseElapses(k) \/ RetryElapses(k) PROVE FenceInv'
  <2>1. states[k] \in PeerStates
    BY <1>1, <1>3 DEF LeaseElapses, RetryElapses
  <2>2. \/ states' = [states EXCEPT ![k] = [states[k] EXCEPT !.lease = "due"]]
        \/ states' = [states EXCEPT ![k] = [states[k] EXCEPT !.retryDue = TRUE]]
    BY <1>1, <1>3 DEF LeaseElapses, RetryElapses
  <2>3. GenerationsKept
    BY <1>1, <2>1, <2>2, GenerationOf, OneKept
  <2> QED BY <1>1, <2>3, KeptFence
<1> QED BY <1>2, <1>3 DEF EnvironmentStep

LEMMA InitFence == Init => FenceData
<1> SUFFICES ASSUME Init PROVE FenceData
  OBVIOUS
<1>1. TypeInv
  BY InitTyped
<1>2. FenceInv
  BY DEF Init, FenceInv, Tracked, Threads, NoPass
<1> QED BY <1>1, <1>2 DEF FenceData

LEMMA NextFence == FenceData /\ [Next]_vars => FenceData'
<1>1. ASSUME FenceData, Next PROVE FenceInv'
  <2>1. TypeInv /\ TypeOK'
    BY <1>1, NextTyped DEF FenceData, TypeInv
  <2>2. CASE \E k \in Keys, o \in Offers : HandleOffer(k, o)
    BY <1>1, <2>1, <2>2, OfferFence
  <2>3. CASE \E k \in Keys, n \in 1..MaxSession, reason \in RemoveReasons : HandleRemove(k, n, reason)
    BY <1>1, <2>1, <2>3, RemoveFence
  <2>4. CASE \E active \in SUBSET Keys : CleanupInitiatorStates(active)
    BY <1>1, <2>1, <2>4, CleanupFence
  <2>5. CASE MonitorStep
    BY <1>1, <2>1, <2>5, MonitorFence
  <2>6. ASSUME NEW w \in workers, WorkerStep(w) PROVE FenceInv'
    BY <1>1, <2>1, <2>6, WorkerLooksFence, WorkerActsFence, WorkerEndsFence
    DEF WorkerStep, Looks
  <2>7. CASE AgentRestarts
    BY <1>1, <2>1, <2>7, RestartFence
  <2>8. CASE EnvironmentStep
    BY <1>1, <2>1, <2>8, EnvironmentFence
  <2> QED BY <1>1, <2>2, <2>3, <2>4, <2>5, <2>6, <2>7, <2>8 DEF Next, EnvironmentStep
<1>2. ASSUME FenceData, UNCHANGED vars PROVE FenceInv'
  BY <1>2 DEF FenceData, FenceInv, Tracked, Threads, vars
<1> QED BY <1>1, <1>2, NextTyped DEF FenceData

LEMMA FenceHolds == Spec => []FenceData
BY InitFence, NextFence, PTL DEF Spec

\* For any number of peers, sessions, threads, failures and restarts: no
\* generation is ahead of LAST_GENERATION, none belongs to two peers or to two
\* threads of a kind, and a thread that is not of the current generation of its
\* peer is of no peer's (next_generation).
THEOREM GenerationsAreFences == Spec => []GenerationsFence
<1>1. ASSUME FenceData PROVE GenerationsFence
  <2>1. \A w \in Threads : Current(w) \/ \A k \in Tracked : states[k].generation # w.generation
    BY <1>1 DEF FenceData, FenceInv, Current, Tracked
  <2> QED BY <1>1, <2>1 DEF FenceData, FenceInv, GenerationsFence, Threads
<1> QED BY <1>1, FenceHolds, PTL

\* However offers, removals, passes, retries and crashes are interleaved with
\* the threads, at most one of these can still act on a peer.
THEOREM OneActorPerPeer == Spec => []SingleActor
<1>1. ASSUME FenceData, NEW v \in workers, NEW w \in workers, v.key = w.key,
             Current(v), Current(w), v.pc # "finally", w.pc # "finally"
      PROVE  v = w
  <2>1. v.generation = w.generation
    BY <1>1 DEF Current
  <2>2. v.kind \in {"probe", "confirm6"} /\ w.kind \in {"probe", "confirm6"}
    BY <1>1 DEF FenceData, TypeInv, TypeOK, Workers
  <2> QED BY <1>1, <2>1, <2>2 DEF FenceData, FenceInv, Threads
<1>2. FenceData => SingleActor
  BY <1>1 DEF SingleActor
<1> QED BY <1>2, FenceHolds, PTL

-----------------------------------------------------------------------------
(* What the actions do to a peer: its mode, whether it is running, whether   *)
(* its control session expired, its generation, and its /32 route.           *)

LEMMA StateFields ==
    ASSUME NEW s \in PeerStates, NEW p, NEW e, NEW g
    PROVE  /\ ControlExpired(s, p).mode = "direct" /\ ~ControlExpired(s, p).running
           /\ ControlExpired(s, p).controlExpired
           /\ IdleAfterFailure(s).mode = "idle" /\ ~IdleAfterFailure(s).running
           /\ IdleAfterFailure(s).controlExpired = s.controlExpired
           /\ ProbeStarted(s).mode = "probe" /\ ProbeStarted(s).running
           /\ ProbeStarted(s).controlExpired = s.controlExpired
BY DEF ControlExpired, IdleAfterFailure, ProbeStarted, PeerStates

LEMMA FieldsSet ==
    ASSUME NEW s \in PeerStates, NEW m, NEW e, NEW d, NEW b, NEW g
    PROVE  /\ LET t == [s EXCEPT !.mode = m, !.endpoint = e, !.retryDue = d, !.running = b]
              IN  /\ t.mode = m /\ t.running = b /\ t.controlExpired = s.controlExpired
                  /\ t.generation = s.generation
           /\ LET t == [s EXCEPT !.mode = m, !.endpoint = e, !.running = b]
              IN  /\ t.mode = m /\ t.running = b /\ t.controlExpired = s.controlExpired
                  /\ t.generation = s.generation
           /\ LET t == [s EXCEPT !.endpoint = e, !.retryDue = d]
              IN  /\ t.mode = s.mode /\ t.running = s.running /\ t.controlExpired = s.controlExpired
                  /\ t.generation = s.generation
           /\ LET t == [s EXCEPT !.mode = m, !.endpoint = e]
              IN  /\ t.mode = m /\ t.running = s.running /\ t.controlExpired = s.controlExpired
                  /\ t.generation = s.generation
           /\ LET t == [s EXCEPT !.mode = m, !.running = b]
              IN  /\ t.mode = m /\ t.running = b /\ t.controlExpired = s.controlExpired
                  /\ t.generation = s.generation
           /\ LET t == [s EXCEPT !.generation = g, !.running = b]
              IN  /\ t.mode = s.mode /\ t.running = b /\ t.controlExpired = s.controlExpired
                  /\ t.generation = g
           /\ LET t == [s EXCEPT !.mode = m]
              IN  /\ t.mode = m /\ t.running = s.running /\ t.controlExpired = s.controlExpired
                  /\ t.generation = s.generation
BY DEF PeerStates

LEMMA AdoptedFields ==
    ASSUME TypeOK, NEW k \in Keys, NEW o \in Offers
    PROVE  LET a == Adopted(k, o)
               s == states[k]
           IN  /\ ~a.controlExpired /\ a.candidates = o.candidates
               /\ \/ a.mode = "idle" /\ ~a.running /\ a.generation = NextGeneration
                     /\ (s = NoState \/ Replaces(k, o)) /\ a.instance = o.instance
                  \/ /\ s # NoState /\ ~Replaces(k, o)
                     /\ \/ a.mode = "direct" /\ ~a.running /\ a.generation = NextGeneration
                           /\ Healthy(wg[k])
                        \/ a.mode = s.mode /\ ~a.running /\ a.generation = NextGeneration
                        \/ a.mode = s.mode /\ a.running = s.running /\ a.generation = s.generation
                           /\ ~SignatureChanged(k, o)
<1> DEFINE a == Adopted(k, o)
           s == states[k]
<1>1. CASE s = NoState \/ Replaces(k, o)
  <2>1. a = NewPeerState(o)
    BY <1>1 DEF Adopted
  <2> HIDE DEF a
  <2>2. /\ ~a.controlExpired /\ a.candidates = o.candidates /\ a.instance = o.instance
        /\ a.mode = "idle" /\ ~a.running /\ a.generation = NextGeneration
    BY <2>1 DEF NewPeerState
  <2> QED BY <1>1, <2>2 DEF a
<1>2. CASE ~(s = NoState \/ Replaces(k, o))
  <2> DEFINE n == NewSession(s, o)
             c == SignatureChanged(k, o)
  <2>1. s \in PeerStates /\ n \in BOOLEAN /\ c \in BOOLEAN
    BY <1>2 DEF TypeOK, NewSession, SignatureChanged
  <2>2. n => Healthy(wg[k])
    BY <1>2 DEF Replaces
  <2>3. /\ ~a.controlExpired /\ a.candidates = o.candidates
        /\ a.mode = IF n THEN "direct" ELSE s.mode
        /\ a.running = (s.running /\ ~n /\ ~c)
        /\ a.generation = IF n \/ c THEN NextGeneration ELSE s.generation
    BY <1>2, <2>1 DEF Adopted, PeerStates
  <2>4. s.running \in BOOLEAN
    BY <2>1 DEF PeerStates
  <2> HIDE DEF a, s, n, c
  <2> QED BY <1>2, <2>1, <2>2, <2>3, <2>4 DEF a, s, n, c
<1> QED BY <1>1, <1>2

OthersKept(k) == \A j \in Keys \ {k} : states'[j] = states[j] /\ wg'[j] = wg[j]

\* A command that is reported as failed has had no effect, or timed out.
KernelKept(k) == wg'[k] = wg[k] \/ ("timedout" \in WgOutcomes /\ ~Routed(wg'[k]))

LEMMA FailedWithEffect ==
    ASSUME NEW r \in WgOutcomes, r # "done", NEW p
    PROVE  AfterRemove(p, r) = p \/ ("timedout" \in WgOutcomes /\ ~Routed(AfterRemove(p, r)))
<1>1. r = "failed" \/ "timedout" \in WgOutcomes
  BY OutcomesAssumption, Zenon
<1> QED BY <1>1 DEF AfterRemove, Routed

\* An offer leaves a healthy direct alone,
OfferKeeps(k) ==
    /\ Healthy(wg[k]) /\ wg'[k] = wg[k] /\ workers' = workers
    /\ states'[k].mode = "direct" /\ ~states'[k].running /\ ~states'[k].controlExpired

\* or begins a probe,
OfferProbes(k, o) ==
    /\ ~KeepsDirect(k, o) /\ wg'[k] \in {wg[k], NoPeer} /\ ~Routed(wg'[k])
    /\ workers \subseteq workers' /\ workers' \subseteq workers \cup {Probe(k, NextGeneration)}
    /\ SaveOutcomes = {TRUE} => Probe(k, NextGeneration) \in workers'
    /\ states'[k].mode = "probe" /\ states'[k].running /\ ~states'[k].controlExpired
    /\ states'[k].generation = NextGeneration
    /\ Replaces(k, o) => states'[k].instance = o.instance
    /\ states'[k].candidates = o.candidates

\* or fails half-way and stops the threads of the peer,
OfferStops(k) ==
    /\ KernelKept(k) /\ workers' = workers
    /\ ~states'[k].running /\ states'[k].generation = NextGeneration
    /\ \/ states[k] = NoState /\ states'[k].mode = "idle" /\ ~states'[k].controlExpired
       \/ /\ states[k] # NoState /\ states'[k].mode = states[k].mode
          /\ states'[k].controlExpired => states[k].controlExpired
       \/ /\ states[k] # NoState /\ states'[k].mode = "direct" /\ ~states'[k].controlExpired
          /\ Healthy(wg[k])

\* or renews the lease, whether it fails or not.
OfferRenews(k) ==
    /\ KernelKept(k) /\ workers' = workers /\ states[k] # NoState
    /\ states'[k].mode = states[k].mode /\ states'[k].running = states[k].running
    /\ states'[k].generation = states[k].generation /\ ~states'[k].controlExpired

LEMMA OfferEffect ==
    ASSUME TypeInv, NEW k \in Keys, NEW o \in Offers, HandleOffer(k, o)
    PROVE  /\ OthersKept(k) /\ states'[k] # NoState
           /\ OfferKeeps(k) \/ OfferProbes(k, o) \/ OfferStops(k) \/ OfferRenews(k)
<1> DEFINE a == Adopted(k, o)
           t == states'[k]
           s == states[k]
<1>1. /\ a \in PeerStates /\ TypeOK /\ states \in [Keys -> PeerStates \cup {NoState}]
      /\ wg \in [Keys -> KernelPeers \cup {NoPeer}] /\ ~Routed(NoPeer)
  BY AdoptedType DEF TypeInv, TypeOK, Routed
<1>0. t # NoState
  BY <1>1, OfferKeepsType, NullsAssumption
<1>2. /\ ~a.controlExpired /\ a.candidates = o.candidates
      /\ \/ a.mode = "idle" /\ ~a.running /\ a.generation = NextGeneration
            /\ (s = NoState \/ Replaces(k, o)) /\ a.instance = o.instance
         \/ /\ s # NoState /\ ~Replaces(k, o)
            /\ \/ a.mode = "direct" /\ ~a.running /\ a.generation = NextGeneration /\ Healthy(wg[k])
               \/ a.mode = s.mode /\ ~a.running /\ a.generation = NextGeneration
               \/ a.mode = s.mode /\ a.running = s.running /\ a.generation = s.generation
                  /\ ~SignatureChanged(k, o)
  BY <1>1, AdoptedFields
<1> HIDE DEF a
<1> DEFINE Effect == /\ OthersKept(k) /\ t # NoState
                     /\ OfferKeeps(k) \/ OfferProbes(k, o) \/ OfferStops(k) \/ OfferRenews(k)
<1>3. ASSUME NEW saves \in SaveOutcomes, OfferKeepsDirect(k, o, saves) PROVE Effect
  <2>1. states' = [states EXCEPT ![k] = [a EXCEPT !.mode = "direct", !.endpoint = wg[k].endpoint,
                                                  !.running = FALSE]]
    BY <1>3 DEF OfferKeepsDirect, a
  <2> DEFINE b == [a EXCEPT !.mode = "direct", !.endpoint = wg[k].endpoint, !.running = FALSE]
  <2>2. b.mode = "direct" /\ b.running = FALSE /\ b.controlExpired = a.controlExpired
    BY <1>1, FieldsSet
  <2>3. t = b /\ \A j \in Keys \ {k} : states'[j] = states[j]
    BY <1>1, <2>1
  <2> HIDE DEF b
  <2> QED BY <1>0, <1>2, <1>3, <2>2, <2>3 DEF OfferKeepsDirect, KeepsDirect, OfferKeeps, OthersKept
<1>4. ASSUME NEW saves \in SaveOutcomes, OfferStartsProbe(k, o, saves) PROVE Effect
  <2> DEFINE b == [a EXCEPT !.endpoint = NoEndpoint, !.retryDue = TRUE]
  <2>1. b \in PeerStates
    BY <1>1 DEF PeerStates
  <2>2. states' = [states EXCEPT ![k] = ProbeStarted(b)]
    BY <1>4 DEF OfferStartsProbe, a
  <2>3. b.controlExpired = a.controlExpired /\ b.candidates = a.candidates /\ b.instance = a.instance
    BY <1>1 DEF PeerStates
  <2> HIDE DEF b
  <2>4. t = ProbeStarted(b) /\ \A j \in Keys \ {k} : states'[j] = states[j]
    BY <1>1, <2>2
  <2>5. /\ t.mode = "probe" /\ t.running /\ t.controlExpired = b.controlExpired
        /\ t.generation = NextGeneration
    BY <2>1, <2>4, StateFields, GenerationOf
  <2>6. t.candidates = b.candidates /\ t.instance = b.instance
    BY <2>1, <2>4 DEF ProbeStarted, PeerStates
  <2>7. /\ ~KeepsDirect(k, o) /\ wg'[k] = NoPeer /\ \A j \in Keys \ {k} : wg'[j] = wg[j]
        /\ workers' = IF saves THEN workers \cup {Probe(k, t.generation)} ELSE workers
    BY <1>1, <1>4 DEF OfferStartsProbe
  <2>8. Replaces(k, o) => a.instance = o.instance
    BY <1>2
  <2>9. SaveOutcomes = {TRUE} => saves
    OBVIOUS
  <2> QED BY <1>0, <1>1, <1>2, <2>3, <2>4, <2>5, <2>6, <2>7, <2>8, <2>9 DEF OfferProbes, OthersKept
<1>5. ASSUME NEW saves \in SaveOutcomes, OfferRefreshes(k, o, saves) PROVE Effect
  <2>1. ~SignatureChanged(k, o) /\ ~Routed(wg[k]) /\ wg' = wg /\ ~KeepsDirect(k, o)
    BY <1>5 DEF OfferRefreshes, KeepsDirect, Healthy
  <2>2. /\ s # NoState /\ ~Replaces(k, o)
        /\ a.mode = s.mode /\ a.running = s.running /\ a.generation = s.generation
    <3>1. s # NoState /\ ~Replaces(k, o)
      BY <2>1 DEF SignatureChanged
    <3>2. ~NewSession(s, o)
      BY <2>1, <3>1 DEF Replaces, Healthy
    <3> QED BY <1>2, <2>1, <3>1, <3>2 DEF Adopted, a, PeerStates, TypeOK, TypeInv
  <2>3. CASE a.retryDue /\ ~a.running
    <3>1. /\ states' = [states EXCEPT ![k] = ProbeStarted(a)]
          /\ workers' = IF saves THEN workers \cup {Probe(k, t.generation)} ELSE workers
      BY <1>5, <2>3 DEF OfferRefreshes, a
    <3>2. t = ProbeStarted(a) /\ \A j \in Keys \ {k} : states'[j] = states[j]
      BY <1>1, <3>1
    <3>3. /\ t.mode = "probe" /\ t.running /\ t.controlExpired = a.controlExpired
          /\ t.generation = NextGeneration
      BY <1>1, <3>2, StateFields, GenerationOf
    <3>4. t.candidates = a.candidates
      BY <1>1, <3>2 DEF ProbeStarted, PeerStates
    <3>5. SaveOutcomes = {TRUE} => saves
      OBVIOUS
    <3> QED BY <1>0, <1>1, <1>2, <2>1, <2>2, <3>1, <3>2, <3>3, <3>4, <3>5 DEF OfferProbes, OthersKept
  <2>4. CASE ~(a.retryDue /\ ~a.running)
    <3>1. states' = [states EXCEPT ![k] = a] /\ workers' = workers
      BY <1>5, <2>4 DEF OfferRefreshes, a
    <3>2. t = a /\ \A j \in Keys \ {k} : states'[j] = states[j]
      BY <1>1, <3>1
    <3> QED BY <1>0, <1>2, <2>1, <2>2, <3>1, <3>2 DEF OfferRenews, OthersKept, KernelKept
  <2> QED BY <2>3, <2>4
<1>6. ASSUME NEW r \in WgOutcomes, OfferRemoveFails(k, o, r) PROVE Effect
  <2>1. KernelKept(k) /\ workers' = workers /\ \A j \in Keys \ {k} : wg'[j] = wg[j]
    <3>1. wg' = [wg EXCEPT ![k] = AfterRemove(wg[k], r)] /\ workers' = workers
      BY <1>6 DEF OfferRemoveFails
    <3>0. r # "done"
      BY <1>6 DEF OfferRemoveFails
    <3>2. wg'[k] = AfterRemove(wg[k], r) /\ \A j \in Keys \ {k} : wg'[j] = wg[j]
      BY <1>1, <3>1
    <3>3. KernelKept(k)
      BY <3>0, <3>2, FailedWithEffect DEF KernelKept
    <3> QED BY <3>1, <3>2, <3>3
  <2>2. CASE Replaces(k, o)
    <3>1. s \in PeerStates /\ s # NoState
      BY <1>1, <2>2 DEF Replaces, InstanceChanged, NewSession
    <3>2. states' = [states EXCEPT ![k] = [s EXCEPT !.generation = NextGeneration, !.running = FALSE]]
      BY <1>6, <2>2 DEF OfferRemoveFails
    <3> DEFINE b == [s EXCEPT !.generation = NextGeneration, !.running = FALSE]
    <3>3. b.mode = s.mode /\ b.running = FALSE /\ b.controlExpired = s.controlExpired
          /\ b.generation = NextGeneration
      BY <3>1, FieldsSet
    <3>4. t = b /\ \A j \in Keys \ {k} : states'[j] = states[j]
      BY <1>1, <3>2
    <3> HIDE DEF b
    <3> QED BY <1>0, <2>1, <3>1, <3>3, <3>4 DEF OfferStops, OthersKept
  <2>3. CASE ~Replaces(k, o)
    <3>1. states' = [states EXCEPT ![k] = a]
      BY <1>6, <2>3 DEF OfferRemoveFails, a
    <3>2. t = a /\ \A j \in Keys \ {k} : states'[j] = states[j]
      BY <1>1, <3>1
    <3> QED BY <1>0, <1>2, <2>1, <2>3, <3>2 DEF OfferStops, OfferRenews, OthersKept
  <2> QED BY <2>2, <2>3
<1> QED BY <1>3, <1>4, <1>5, <1>6 DEF HandleOffer

\* A peer is kept for its direct when its control session ends,
LosesControl(k) ==
    /\ wg'[k] = wg[k] /\ states'[k] # NoState
    /\ states'[k].mode = "direct" /\ ~states'[k].running /\ states'[k].controlExpired
    /\ states'[k].generation = states[k].generation

\* or dropped, with its kernel peer.
Dropped(k) == states'[k] = NoState /\ ~Routed(wg'[k])

LEMMA RemoveEffect ==
    ASSUME TypeInv, NEW k \in Keys, NEW n, NEW reason, HandleRemove(k, n, reason)
    PROVE  /\ OthersKept(k) /\ workers' = workers /\ monitor' = monitor /\ ~monitor.active
           /\ \/ LosesControl(k) /\ Healthy(wg[k])
              \/ Dropped(k)
              \/ states' = states /\ KernelKept(k)
<1>1. /\ states \in [Keys -> PeerStates \cup {NoState}] /\ states[k] \in PeerStates
      /\ wg \in [Keys -> KernelPeers \cup {NoPeer}]
      /\ workers' = workers /\ monitor' = monitor /\ ~monitor.active
  BY DEF HandleRemove, TypeInv, TypeOK, LockFree
<1>2. ASSUME NEW saves, RemovePreserves(k, saves), Healthy(wg[k])
      PROVE  OthersKept(k) /\ LosesControl(k)
  <2> DEFINE b == ControlExpired(states[k], wg[k])
  <2>1. states' = [states EXCEPT ![k] = b] /\ wg' = wg
    BY <1>2 DEF RemovePreserves
  <2>2. b \in PeerStates
    BY <1>1, <1>2, ControlExpiredType DEF Healthy, Routed
  <2>3. b.mode = "direct" /\ ~b.running /\ b.controlExpired /\ b.generation = states[k].generation
    BY <1>1, StateFields, GenerationOf
  <2> HIDE DEF b
  <2>4. states'[k] = b /\ \A j \in Keys \ {k} : states'[j] = states[j]
    BY <1>1, <2>1
  <2> QED BY <2>1, <2>2, <2>3, <2>4, NullsAssumption DEF OthersKept, LosesControl
<1>3. ASSUME NEW saves, RemoveDrops(k, saves) PROVE OthersKept(k) /\ Dropped(k)
  BY <1>1, <1>3 DEF RemoveDrops, OthersKept, Dropped, Routed
<1>4. ASSUME NEW r \in WgOutcomes, RemoveFails(k, r)
      PROVE  OthersKept(k) /\ states' = states /\ KernelKept(k)
  <2>1. r # "done" /\ states' = states /\ wg' = [wg EXCEPT ![k] = AfterRemove(wg[k], r)]
    BY <1>4 DEF RemoveFails
  <2>2. wg'[k] = AfterRemove(wg[k], r) /\ \A j \in Keys \ {k} : wg'[j] = wg[j]
    BY <1>1, <2>1
  <2> QED BY <2>1, <2>2, FailedWithEffect DEF OthersKept, KernelKept
<1> QED BY <1>1, <1>2, <1>3, <1>4 DEF HandleRemove

LEMMA CleanupEffect ==
    ASSUME TypeInv, NEW active, CleanupInitiatorStates(active), NEW k \in Keys
    PROVE  /\ workers' = workers /\ monitor' = monitor /\ ~monitor.active
           /\ \/ states'[k] = states[k] /\ wg'[k] = wg[k]
              \/ /\ states'[k] = NoState /\ states[k] # NoState
                 /\ states[k].controller = "initiator"
                 /\ wg'[k] = wg[k] => "failed" \in WgOutcomes \/ ~Routed(wg[k])
                 /\ wg'[k] \in {wg[k], NoPeer}
<1> DEFINE gone == {j \in Tracked \ active : states[j].controller = "initiator"}
<1>1. PICK r \in [gone -> WgOutcomes] :
         /\ wg' = [j \in Keys |-> IF j \in gone THEN AfterRemove(wg[j], r[j]) ELSE wg[j]]
         /\ states' = [j \in Keys |-> IF j \in gone THEN NoState ELSE states[j]]
  BY DEF CleanupInitiatorStates
<1>2. workers' = workers /\ monitor' = monitor /\ ~monitor.active
  BY DEF CleanupInitiatorStates, LockFree
<1>3. CASE k \in gone
  <2>1. wg'[k] = AfterRemove(wg[k], r[k]) /\ states'[k] = NoState /\ r[k] \in WgOutcomes
    BY <1>1, <1>3
  <2>2. states[k] # NoState /\ states[k].controller = "initiator"
    BY <1>3 DEF Tracked
  <2> QED BY <1>2, <2>1, <2>2 DEF AfterRemove, Routed
<1>4. CASE k \notin gone
  BY <1>1, <1>2, <1>4
<1> QED BY <1>3, <1>4

\* A visit of the pass.
VisitProbes(k) ==
    /\ monitor'.launches = monitor.launches \cup {Probe(k, NextGeneration)}
    /\ states'[k] # NoState /\ states'[k].mode = "probe" /\ states'[k].running
    /\ states'[k].generation = NextGeneration
    /\ \/ ~Healthy(monitor.current[k]) /\ ~Routed(wg'[k]) /\ ~states'[k].controlExpired
       \/ ~Routed(monitor.current[k]) /\ wg'[k] = wg[k]
          /\ states'[k].controlExpired = states[k].controlExpired

VisitNotes(k) ==
    /\ wg'[k] = wg[k] /\ states'[k] # NoState
    /\ states'[k].running = states[k].running
    /\ states'[k].generation = states[k].generation
    /\ states'[k].controlExpired = states[k].controlExpired
    /\ \/ states'[k].mode = states[k].mode
       \/ states'[k].mode = "direct" /\ Healthy(monitor.current[k]) /\ ~Confirming(states[k])
       \/ states'[k].mode = "idle" /\ states[k].mode = "probe" /\ ~states[k].running

LEMMA PeerVisited ==
    ASSUME TypeInv, NEW k \in Keys, MonitorPeer(k)
    PROVE  /\ OthersKept(k) /\ workers' = workers /\ states[k] # NoState
           /\ monitor.active /\ k \in monitor.todo
           /\ monitor'.active /\ monitor'.current = monitor.current
           /\ monitor'.todo = monitor.todo \ {k}
           /\ \/ VisitProbes(k)
              \/ /\ monitor'.launches = monitor.launches
                 /\ \/ LosesControl(k) /\ Healthy(monitor.current[k])
                    \/ Dropped(k) /\ ~Healthy(monitor.current[k])
                    \/ VisitNotes(k)
<1> DEFINE s == states[k]
           t == states'[k]
<1>1. /\ states \in [Keys -> PeerStates \cup {NoState}] /\ s \in PeerStates
      /\ wg \in [Keys -> KernelPeers \cup {NoPeer}] /\ TypeOK
      /\ monitor \in MonitorPasses /\ workers' = workers
      /\ monitor.active /\ k \in monitor.todo
      /\ states' \in [Keys -> PeerStates \cup {NoState}] /\ ~Routed(NoPeer)
  BY MonitorPeerKeepsType DEF TypeInv, TypeOK, PassInv, MonitorPeer, Tracked, Routed
<1>2. s # NoState
  BY <1>1, NullsAssumption
<1> DEFINE Rest == /\ monitor'.active /\ monitor'.current = monitor.current
                   /\ monitor'.todo = monitor.todo \ {k}
<1>3. \A changed : Visited(k, changed) => Rest /\ monitor'.launches = monitor.launches
  BY <1>1 DEF Visited, MonitorPasses
<1>4. VisitedWithLaunch(k) =>
         Rest /\ monitor'.launches = monitor.launches \cup {Probe(k, t.generation)}
  BY <1>1 DEF VisitedWithLaunch, MonitorPasses
<1> HIDE DEF Rest
<1> DEFINE Effect ==
       /\ OthersKept(k) /\ Rest
       /\ \/ VisitProbes(k)
          \/ /\ monitor'.launches = monitor.launches
             /\ \/ LosesControl(k) /\ Healthy(monitor.current[k])
                \/ Dropped(k) /\ ~Healthy(monitor.current[k])
                \/ VisitNotes(k)
<1> SUFFICES Effect
  BY <1>1, <1>2 DEF Rest
<1>5. CASE MonitorPreserves(k)
  <2> DEFINE b == ControlExpired(s, monitor.current[k])
  <2>1. /\ states' = [states EXCEPT ![k] = b] /\ wg' = wg /\ Visited(k, TRUE)
        /\ Healthy(monitor.current[k])
    BY <1>5 DEF MonitorPreserves
  <2>2. b.mode = "direct" /\ ~b.running /\ b.controlExpired /\ b.generation = s.generation
    BY <1>1, StateFields, GenerationOf
  <2>3. b \in PeerStates
    BY <1>1, <2>1, ControlExpiredType DEF Healthy, Routed, MonitorPasses
  <2> HIDE DEF b
  <2>4. t = b /\ t # NoState /\ \A j \in Keys \ {k} : states'[j] = states[j]
    BY <1>1, <2>1, <2>3, NullsAssumption
  <2> QED BY <1>3, <2>1, <2>2, <2>4 DEF OthersKept, LosesControl
<1>6. CASE MonitorExpires(k) \/ MonitorForgets(k)
  <2>1. /\ states' = [states EXCEPT ![k] = NoState] /\ wg' = [wg EXCEPT ![k] = NoPeer]
        /\ Visited(k, TRUE) /\ ~Healthy(monitor.current[k])
    BY <1>6 DEF MonitorExpires, MonitorForgets, StaleDirect
  <2> QED BY <1>1, <1>3, <2>1 DEF OthersKept, Dropped
<1>7. CASE MonitorConfirming(k)
  BY <1>2, <1>3, <1>7 DEF MonitorConfirming, OthersKept, VisitNotes
<1>8. CASE MonitorKeepsDirect(k)
  <2> DEFINE b == [s EXCEPT !.mode = "direct", !.endpoint = monitor.current[k].endpoint]
  <2>1. states' = [states EXCEPT ![k] = b]
    BY <1>1, <1>8 DEF MonitorKeepsDirect
  <2>2. /\ wg' = wg /\ Visited(k, FALSE) /\ Healthy(monitor.current[k]) /\ ~Confirming(s)
    BY <1>8 DEF MonitorKeepsDirect
  <2>3. /\ b.mode = "direct" /\ b.running = s.running /\ b.controlExpired = s.controlExpired
        /\ b.generation = s.generation
    BY <1>1, FieldsSet
  <2>4. b \in PeerStates
    BY <1>1, <2>2 DEF PeerStates, Modes, Healthy, Routed, MonitorPasses, KernelPeers
  <2> HIDE DEF b
  <2>5. t = b /\ t # NoState /\ \A j \in Keys \ {k} : states'[j] = states[j]
    BY <1>1, <2>1, <2>4, NullsAssumption
  <2> QED BY <1>3, <2>2, <2>3, <2>5 DEF OthersKept, VisitNotes
<1>9. CASE MonitorFallsBack(k)
  <2> DEFINE a == [s EXCEPT !.endpoint = NoEndpoint, !.retryDue = TRUE]
             b == ProbeStarted(a)
  <2>1. a \in PeerStates
    BY <1>1 DEF PeerStates
  <2>2. a.controlExpired = s.controlExpired
    BY <1>1, FieldsSet
  <2>3. /\ states' = [states EXCEPT ![k] = b] /\ wg' = [wg EXCEPT ![k] = NoPeer]
        /\ VisitedWithLaunch(k) /\ ~Healthy(monitor.current[k]) /\ ~s.controlExpired
    BY <1>9 DEF MonitorFallsBack, StaleDirect, KeptForDirect
  <2> HIDE DEF a
  <2>4. /\ b.mode = "probe" /\ b.running /\ b.controlExpired = a.controlExpired
        /\ b.generation = NextGeneration
    BY <2>1, StateFields, GenerationOf
  <2>5. b \in PeerStates
    BY <1>1, <2>1, StateTypes DEF TypeOK
  <2> HIDE DEF b
  <2>6. t = b /\ t # NoState /\ \A j \in Keys \ {k} : states'[j] = states[j]
    BY <1>1, <2>3, <2>5, NullsAssumption
  <2>7. wg'[k] = NoPeer /\ \A j \in Keys \ {k} : wg'[j] = wg[j]
    BY <1>1, <2>3
  <2> QED BY <1>1, <1>4, <2>2, <2>3, <2>4, <2>6, <2>7 DEF OthersKept, VisitProbes
<1>10. CASE MonitorRetries(k)
  <2>0. ~Routed(monitor.current[k]) /\ ~Confirming(s) /\ wg' = wg
    BY <1>10 DEF MonitorRetries
  <2>1. CASE s.retryDue /\ ~s.running
    <3> DEFINE b == ProbeStarted(s)
    <3>1. states' = [states EXCEPT ![k] = b] /\ VisitedWithLaunch(k)
      BY <1>10, <2>1 DEF MonitorRetries
    <3>2. /\ b.mode = "probe" /\ b.running /\ b.controlExpired = s.controlExpired
          /\ b.generation = NextGeneration
      BY <1>1, StateFields, GenerationOf
    <3>3. b \in PeerStates
      BY <1>1, StateTypes DEF TypeOK
    <3> HIDE DEF b
    <3>4. t = b /\ t # NoState /\ \A j \in Keys \ {k} : states'[j] = states[j]
      BY <1>1, <3>1, <3>3, NullsAssumption
    <3> QED BY <1>4, <2>0, <3>1, <3>2, <3>4 DEF OthersKept, VisitProbes
  <2>2. CASE ~(s.retryDue /\ ~s.running)
    <3> DEFINE m == IF s.mode = "probe" /\ ~s.running THEN "idle" ELSE s.mode
               b == [s EXCEPT !.mode = m]
    <3>1. states' = [states EXCEPT ![k] = b]
      BY <1>1, <1>10, <2>2 DEF MonitorRetries
    <3>2. \E changed : Visited(k, changed)
      BY <1>10, <2>2 DEF MonitorRetries
    <3>3. m \in Modes /\ (m = s.mode \/ (m = "idle" /\ s.mode = "probe" /\ ~s.running))
      BY <1>1 DEF PeerStates, Modes
    <3> HIDE DEF m
    <3>4. /\ b.mode = m /\ b.running = s.running /\ b.controlExpired = s.controlExpired
          /\ b.generation = s.generation
      BY <1>1, FieldsSet
    <3>5. b \in PeerStates
      BY <1>1, <3>3 DEF PeerStates
    <3> HIDE DEF b
    <3>6. t = b /\ t # NoState /\ \A j \in Keys \ {k} : states'[j] = states[j]
      BY <1>1, <3>1, <3>5, NullsAssumption
    <3> QED BY <1>3, <2>0, <3>2, <3>3, <3>4, <3>6 DEF OthersKept, VisitNotes
  <2> QED BY <2>1, <2>2
<1> QED BY <1>5, <1>6, <1>7, <1>8, <1>9, <1>10 DEF MonitorPeer

\* A worker turns its peer to another mode.
Turns(k, mode, running) ==
    /\ states'[k] # NoState /\ states'[k].mode = mode /\ states'[k].running = running
    /\ states'[k].controlExpired = states[k].controlExpired
    /\ states'[k].generation = states[k].generation
    /\ \A j \in Keys \ {k} : states'[j] = states[j]

LEMMA WorkerTurns ==
    ASSUME TypeInv, NEW w \in workers, Current(w)
    PROVE  /\ w.endpoint \in Endpoints /\
              states' = [states EXCEPT ![w.key].mode = "probe", ![w.key].endpoint = w.endpoint]
              => Turns(w.key, "probe", states[w.key].running)
           /\ states' = [states EXCEPT ![w.key].mode = "confirm6", ![w.key].running = TRUE]
              => Turns(w.key, "confirm6", TRUE)
           /\ w.endpoint \in Endpoints /\
              states' = [states EXCEPT ![w.key].mode = "direct", ![w.key].endpoint = w.endpoint,
                                       ![w.key].retryDue = TRUE, ![w.key].running = FALSE]
              => Turns(w.key, "direct", FALSE)
           /\ states' = [states EXCEPT ![w.key] = IdleAfterFailure(states[w.key])]
              => Turns(w.key, "idle", FALSE)
<1> DEFINE k == w.key
           s == states[k]
<1>1. /\ k \in Keys /\ s \in PeerStates /\ s # NoState
      /\ states \in [Keys -> PeerStates \cup {NoState}] /\ lastGeneration \in Nat
  BY DEF Current, TypeInv, TypeOK, Workers
<1>2. ASSUME NEW t \in PeerStates, states' = [states EXCEPT ![k] = t],
             t.controlExpired = s.controlExpired, t.generation = s.generation
      PROVE  Turns(k, t.mode, t.running)
  BY <1>1, <1>2, NullsAssumption DEF Turns
<1>3. ASSUME w.endpoint \in Endpoints,
             states' = [states EXCEPT ![k].mode = "probe", ![k].endpoint = w.endpoint]
      PROVE  Turns(k, "probe", s.running)
  <2> DEFINE t == [s EXCEPT !.mode = "probe", !.endpoint = w.endpoint]
  <2>1. states' = [states EXCEPT ![k] = t]
    BY <1>1, <1>3
  <2>2. t \in PeerStates
    BY <1>1, <1>3 DEF PeerStates, Modes
  <2>3. /\ t.mode = "probe" /\ t.running = s.running /\ t.controlExpired = s.controlExpired
        /\ t.generation = s.generation
    BY <1>1, FieldsSet
  <2> HIDE DEF t, k, s
  <2> QED BY <1>2, <2>1, <2>2, <2>3
<1>4. ASSUME states' = [states EXCEPT ![k].mode = "confirm6", ![k].running = TRUE]
      PROVE  Turns(k, "confirm6", TRUE)
  <2> DEFINE t == [s EXCEPT !.mode = "confirm6", !.running = TRUE]
  <2>1. states' = [states EXCEPT ![k] = t]
    BY <1>1, <1>4
  <2>2. t \in PeerStates
    BY <1>1 DEF PeerStates, Modes
  <2>3. /\ t.mode = "confirm6" /\ t.running = TRUE /\ t.controlExpired = s.controlExpired
        /\ t.generation = s.generation
    BY <1>1, FieldsSet
  <2> HIDE DEF t, k, s
  <2> QED BY <1>2, <2>1, <2>2, <2>3
<1>5. ASSUME w.endpoint \in Endpoints,
             states' = [states EXCEPT ![k].mode = "direct", ![k].endpoint = w.endpoint,
                                      ![k].retryDue = TRUE, ![k].running = FALSE]
      PROVE  Turns(k, "direct", FALSE)
  <2> DEFINE t == [s EXCEPT !.mode = "direct", !.endpoint = w.endpoint, !.retryDue = TRUE,
                            !.running = FALSE]
  <2>1. states' = [states EXCEPT ![k] = t]
    BY <1>1, <1>5
  <2>2. t \in PeerStates
    BY <1>1, <1>5 DEF PeerStates, Modes
  <2>3. /\ t.mode = "direct" /\ t.running = FALSE /\ t.controlExpired = s.controlExpired
        /\ t.generation = s.generation
    BY <1>1, FieldsSet
  <2> HIDE DEF t, k, s
  <2> QED BY <1>2, <2>1, <2>2, <2>3
<1>6. ASSUME states' = [states EXCEPT ![k] = IdleAfterFailure(s)]
      PROVE  Turns(k, "idle", FALSE)
  <2> DEFINE t == IdleAfterFailure(s)
  <2>1. /\ t \in PeerStates /\ t.mode = "idle" /\ t.running = FALSE
        /\ t.controlExpired = s.controlExpired /\ t.generation = s.generation
    <3>1. t \in PeerStates
      BY <1>1, StateTypes
    <3> QED BY <1>1, <3>1, StateFields, GenerationOf DEF PeerStates
  <2>2. states' = [states EXCEPT ![k] = t]
    BY <1>6
  <2> HIDE DEF t, k, s
  <2> QED BY <1>2, <2>1, <2>2
<1> QED BY <1>3, <1>4, <1>5, <1>6

\* The kernel keeps the route and the handshake of a peer that is set again.
RouteKept(k) ==
    /\ Routed(wg'[k]) <=> Routed(wg[k])
    /\ Shaken(wg[k]) => Shaken(wg'[k])

LEMMA KernelFields ==
    ASSUME NEW p \in KernelPeers \cup {NoPeer}, NEW e \in Endpoints
    PROVE  /\ Routed(AfterRoute(p, e))
           /\ Shaken(p) => Shaken(AfterSetup(p, e)) /\ Shaken(AfterRoute(p, e))
<1>1. AfterSetup(p, e) \in KernelPeers /\ AfterRoute(p, e) \in KernelPeers
  BY KernelTypes
<1>2. AfterRoute(p, e).route /\ AfterRoute(p, e).handshake = AfterSetup(p, e).handshake
  BY <1>1 DEF AfterRoute, KernelPeers
<1>3. p # NoPeer => AfterSetup(p, e).handshake = p.handshake
  BY DEF AfterSetup, KernelPeers
<1> QED BY <1>1, <1>2, <1>3, NullsAssumption DEF Routed, Shaken

\* What each worker step that acts does to its peer.
ActsOn(w) ==
    /\ w.key \in Keys /\ \A j \in Keys \ {w.key} : states'[j] = states[j] /\ wg'[j] = wg[j]
    /\ monitor' = monitor /\ ~monitor.active

LEMMA ActsOnOne ==
    ASSUME TypeInv, NEW w \in workers,
           \/ ProbeSetup(w) \/ ProbePromotes(w) \/ ProbeExhausted(w) \/ ConfirmRekeys(w)
           \/ ConfirmFinalizes(w) \/ ConfirmTimesOut(w) \/ WorkerEnds(w)
    PROVE  ActsOn(w)
<1>1. /\ w.key \in Keys /\ states \in [Keys -> PeerStates \cup {NoState}]
      /\ wg \in [Keys -> KernelPeers \cup {NoPeer}]
  BY DEF TypeInv, TypeOK, Workers
<1>2. monitor' = monitor /\ ~monitor.active
  BY DEF ProbeSetup, ProbePromotes, ProbeExhausted, ConfirmRekeys, ConfirmFinalizes,
         ConfirmTimesOut, WorkerEnds, LockFree
<1>3. CASE ProbeSetup(w) \/ ProbePromotes(w)
  BY <1>1, <1>2, <1>3 DEF ProbeSetup, ProbePromotes, ActsOn
<1>4. CASE ProbeExhausted(w) \/ ConfirmTimesOut(w) \/ WorkerEnds(w)
  BY <1>1, <1>2, <1>4 DEF ProbeExhausted, ConfirmTimesOut, WorkerEnds, ActsOn
<1>5. CASE ConfirmRekeys(w) \/ ConfirmFinalizes(w)
  BY <1>1, <1>2, <1>5 DEF ConfirmRekeys, ConfirmFinalizes, ActsOn
<1> QED BY <1>3, <1>4, <1>5

LEMMA SetupEffect ==
    ASSUME TypeInv, NEW w \in workers, ProbeSetup(w)
    PROVE  /\ ActsOn(w) /\ ProbeCurrent(w) /\ w.kind = "probe" /\ w.pc # "finally" /\ GoesOn(w)
           /\ RouteKept(w.key)
           /\ states' = states \/ Turns(w.key, "probe", states[w.key].running)
<1> DEFINE k == w.key
<1>1. /\ w \in Workers /\ k \in Keys /\ ProbeCurrent(w) /\ Current(w) /\ w.kind = "probe"
      /\ w.pc = "setup" /\ w.endpoint \in Endpoints /\ w.pc # "finally"
      /\ wg \in [Keys -> KernelPeers \cup {NoPeer}] /\ wg[k] \in KernelPeers \cup {NoPeer}
  BY DEF ProbeSetup, AtProbe, ProbeCurrent, TypeInv, TypeOK, Workers, WorkerData, Equipped
<1>2. ActsOn(w)
  BY ActsOnOne
<1>3. RouteKept(k)
  <2>1. wg'[k] \in {wg[k], AfterSetup(wg[k], w.endpoint)}
    BY <1>1 DEF ProbeSetup
  <2>2. /\ Routed(AfterSetup(wg[k], w.endpoint)) <=> Routed(wg[k])
        /\ Shaken(wg[k]) => Shaken(AfterSetup(wg[k], w.endpoint))
    BY <1>1, KernelTypes, KernelFields
  <2> QED BY <2>1, <2>2 DEF RouteKept
<1>4. states' = states \/ Turns(k, "probe", states[k].running)
  BY <1>1, WorkerTurns DEF ProbeSetup
<1>5. GoesOn(w)
  BY <1>1, MovedWorker, NextMoves DEF ProbeSetup
<1> QED BY <1>1, <1>2, <1>3, <1>4, <1>5

LEMMA PromoteEffect ==
    ASSUME TypeInv, NEW w \in workers, ProbePromotes(w)
    PROVE  /\ ActsOn(w) /\ ProbeCurrent(w) /\ w.kind = "probe" /\ w.pc = "promote"
           /\ \/ /\ Turns(w.key, "direct", FALSE)
                 /\ Routed(wg'[w.key])
                 /\ Shaken(wg[w.key]) => Shaken(wg'[w.key])
              \/ /\ states' = states
                 /\ wg' = wg \/ ("timedout" \in WgOutcomes /\ Routed(wg'[w.key]))
           /\ \/ GoesOn(w)
              \/ /\ Host6 # {}
                 /\ \E f, c : /\ workers' = (workers \ {w}) \cup {f, c}
                              /\ SameWorker(f, w) /\ f.pc = "finally"
                              /\ c.generation = w.generation /\ c.key = w.key
                              /\ c.kind = "confirm6" /\ c.pc = "wait"
<1> DEFINE k == w.key
           f == [w EXCEPT !.pc = "finally"]
           c == Confirm(k, w.generation, w.endpoint)
<1>1. /\ w \in Workers /\ k \in Keys /\ ProbeCurrent(w) /\ Current(w) /\ w.kind = "probe"
      /\ w.pc = "promote" /\ w.endpoint \in Endpoints
      /\ wg \in [Keys -> KernelPeers \cup {NoPeer}] /\ wg[k] \in KernelPeers \cup {NoPeer}
  BY DEF ProbePromotes, AtProbe, ProbeCurrent, TypeInv, TypeOK, Workers, WorkerData, Equipped
<1>2. ActsOn(w)
  BY ActsOnOne
<1>3. /\ Routed(AfterRoute(wg[k], w.endpoint))
      /\ Shaken(wg[k]) => Shaken(AfterRoute(wg[k], w.endpoint))
  BY <1>1, KernelFields
<1>4. /\ SameWorker(f, w) /\ f.pc = "finally" /\ c.generation = w.generation /\ c.key = k
      /\ c.kind = "confirm6" /\ c.pc = "wait"
  BY <1>1 DEF SameWorker, Confirm, Workers
<1>5. CASE \E saves \in SaveOutcomes :
              /\ wg' = [wg EXCEPT ![k] = AfterRoute(@, w.endpoint)]
              /\ states' = [states EXCEPT ![k].mode = "direct",
                               ![k].endpoint = w.endpoint, ![k].retryDue = TRUE,
                               ![k].running = FALSE]
              /\ SaveState(saves)
              /\ workers' = (workers \ {w}) \cup {f} \cup
                    IF saves /\ Head(w.left) \in Host6 THEN {c} ELSE {}
  <2>1. Turns(k, "direct", FALSE)
    BY <1>1, <1>5, WorkerTurns
  <2>2. wg'[k] = AfterRoute(wg[k], w.endpoint)
    BY <1>1, <1>5
  <2> HIDE DEF f, c, k
  <2>3. GoesOn(w) \/ (Host6 # {} /\ workers' = (workers \ {w}) \cup {f, c})
    BY <1>4, <1>5 DEF GoesOn, Landing
  <2> QED BY <1>1, <1>2, <1>3, <1>4, <2>1, <2>2, <2>3 DEF k
<1>6. CASE \E r \in WgOutcomes \ {"done"} :
              /\ wg' = IF r = "failed" THEN wg
                       ELSE [wg EXCEPT ![k] = AfterRoute(@, w.endpoint)]
              /\ GoTo(w, "finally")
              /\ UNCHANGED <<states, saved>>
  <2>1. wg' = wg \/ ("timedout" \in WgOutcomes /\ wg'[k] = AfterRoute(wg[k], w.endpoint))
    <3>1. PICK r \in WgOutcomes : /\ r # "done"
                                  /\ wg' = IF r = "failed" THEN wg
                                           ELSE [wg EXCEPT ![k] = AfterRoute(wg[k], w.endpoint)]
      BY <1>6
    <3>2. r = "failed" \/ "timedout" \in WgOutcomes
      BY <3>1, OutcomesAssumption, Zenon
    <3> QED BY <1>1, <3>1, <3>2
  <2>2. GoesOn(w)
    BY <1>1, <1>6, MovedWorker
  <2> QED BY <1>1, <1>2, <1>3, <1>6, <2>1, <2>2
<1> QED BY <1>5, <1>6 DEF ProbePromotes

LEMMA RemovedUnrouted ==
    ASSUME NEW p, NEW r, Routed(AfterRemove(p, r))
    PROVE  Routed(p)
BY DEF AfterRemove, Routed

LEMMA DoneUnroutes ==
    ASSUME WgOutcomes = {"done"}, NEW p, NEW r \in WgOutcomes
    PROVE  ~Routed(AfterRemove(p, r))
BY DEF AfterRemove, Routed

LEMMA ExhaustEffect ==
    ASSUME TypeInv, NEW w \in workers, ProbeExhausted(w)
    PROVE  /\ ActsOn(w) /\ ProbeCurrent(w) /\ w.kind = "probe" /\ w.pc # "finally" /\ GoesOn(w)
           /\ Turns(w.key, "idle", FALSE)
           /\ Routed(wg'[w.key]) => Routed(wg[w.key])
<1>1. /\ w \in Workers /\ w.key \in Keys /\ ProbeCurrent(w) /\ Current(w) /\ w.kind = "probe"
      /\ w.pc # "finally" /\ wg \in [Keys -> KernelPeers \cup {NoPeer}]
  BY DEF ProbeExhausted, AtProbe, ProbeCurrent, TypeInv, TypeOK, Workers
<1>2. Turns(w.key, "idle", FALSE)
  BY <1>1, WorkerTurns DEF ProbeExhausted
<1>3. \E r : wg'[w.key] = AfterRemove(wg[w.key], r)
  BY <1>1 DEF ProbeExhausted
<1>4. GoesOn(w)
  BY <1>1, MovedWorker DEF ProbeExhausted
<1> QED BY <1>1, <1>2, <1>3, <1>4, ActsOnOne, RemovedUnrouted

LEMMA RekeyEffect ==
    ASSUME TypeInv, NEW w \in workers, ConfirmRekeys(w)
    PROVE  /\ ActsOn(w) /\ Current(w) /\ w.kind = "confirm6" /\ w.pc # "finally" /\ GoesOn(w)
           /\ \/ Turns(w.key, "confirm6", TRUE) /\ Routed(wg'[w.key])
              \/ Turns(w.key, "idle", FALSE) /\ WgOutcomes # {"done"}
           /\ \A x \in workers' : x \in workers \ {w} \/ ~Landing(x)
<1>1. /\ w \in Workers /\ w.key \in Keys /\ Current(w) /\ w.kind = "confirm6"
      /\ w.pc # "finally" /\ w.endpoint \in Endpoints /\ wg \in [Keys -> KernelPeers \cup {NoPeer}]
  BY DEF ConfirmRekeys, AtConfirm, TypeInv, TypeOK, Workers, WorkerData, Equipped
<1>2. Routed(AfterRoute(NoPeer, w.endpoint))
  BY <1>1, KernelFields
<1>3. \/ Turns(w.key, "confirm6", TRUE) /\ Routed(wg'[w.key])
      \/ Turns(w.key, "idle", FALSE) /\ WgOutcomes # {"done"}
  <2>1. CASE \E saves \in SaveOutcomes :
                /\ wg' = [wg EXCEPT ![w.key] = AfterRoute(NoPeer, w.endpoint)]
                /\ states' = [states EXCEPT ![w.key].mode = "confirm6", ![w.key].running = TRUE]
    BY <1>1, <1>2, <2>1, WorkerTurns
  <2>2. CASE /\ \E remove, set \in WgOutcomes : remove # "done" \/ set # "done"
             /\ states' = [states EXCEPT ![w.key] = IdleAfterFailure(@)]
    BY <1>1, <2>2, WorkerTurns
  <2> QED BY <2>1, <2>2 DEF ConfirmRekeys
<1>4. GoesOn(w)
  BY <1>1, MovedWorker DEF ConfirmRekeys
<1>5. \A x \in workers' : x \in workers \ {w} \/ ~Landing(x)
  <2>1. GoTo(w, "confirming") \/ GoTo(w, "finally")
    BY DEF ConfirmRekeys
  <2>2. /\ ~Landing([w EXCEPT !.pc = "confirming"])
        /\ ~Landing([w EXCEPT !.pc = "finally"])
    BY <1>1 DEF Workers, Landing
  <2> QED BY <2>1, <2>2 DEF GoTo, Becomes
<1> QED BY <1>1, <1>3, <1>4, <1>5, ActsOnOne

LEMMA FinalizeEffect ==
    ASSUME TypeInv, NEW w \in workers, ConfirmFinalizes(w)
    PROVE  /\ ActsOn(w) /\ ConfirmCurrent(w) /\ w.kind = "confirm6" /\ w.pc # "finally" /\ GoesOn(w)
           /\ w.pc = "finalize"
           /\ \/ /\ Turns(w.key, "direct", FALSE) /\ Routed(wg'[w.key])
                 /\ Shaken(wg[w.key]) => Shaken(wg'[w.key])
              \/ states' = states /\ (wg' = wg \/ ("timedout" \in WgOutcomes /\ Routed(wg'[w.key])))
<1> DEFINE k == w.key
<1>1. /\ w \in Workers /\ k \in Keys /\ ConfirmCurrent(w) /\ Current(w) /\ w.kind = "confirm6"
      /\ w.pc = "finalize" /\ w.endpoint \in Endpoints /\ wg \in [Keys -> KernelPeers \cup {NoPeer}]
  BY DEF ConfirmFinalizes, ConfirmCurrent, AtConfirm, TypeInv, TypeOK, Workers, WorkerData, Equipped
<1>2. /\ Routed(AfterRoute(wg[k], w.endpoint))
      /\ Shaken(wg[k]) => Shaken(AfterRoute(wg[k], w.endpoint))
  BY <1>1, KernelFields
<1>3. GoesOn(w)
  BY <1>1, MovedWorker DEF ConfirmFinalizes
<1>4. CASE \E saves \in SaveOutcomes :
              /\ wg' = [wg EXCEPT ![k] = AfterRoute(@, w.endpoint)]
              /\ states' = [states EXCEPT ![k].mode = "direct",
                               ![k].endpoint = w.endpoint, ![k].retryDue = TRUE,
                               ![k].running = FALSE]
  <2>1. Turns(k, "direct", FALSE) /\ wg'[k] = AfterRoute(wg[k], w.endpoint)
    BY <1>1, <1>4, WorkerTurns
  <2> QED BY <1>1, <1>2, <1>3, <2>1, ActsOnOne
<1>5. CASE \E r \in WgOutcomes \ {"done"} :
              /\ wg' = IF r = "failed" THEN wg
                       ELSE [wg EXCEPT ![k] = AfterRoute(@, w.endpoint)]
              /\ UNCHANGED <<states, saved>>
  <2>1. PICK r \in WgOutcomes : /\ r # "done"
                                /\ wg' = IF r = "failed" THEN wg
                                         ELSE [wg EXCEPT ![k] = AfterRoute(wg[k], w.endpoint)]
    BY <1>5
  <2>2. r = "failed" \/ "timedout" \in WgOutcomes
    BY <2>1, OutcomesAssumption, Zenon
  <2>3. wg' = wg \/ ("timedout" \in WgOutcomes /\ Routed(wg'[k]))
    BY <1>1, <1>2, <2>1, <2>2
  <2> QED BY <1>1, <1>3, <1>5, <2>3, ActsOnOne
<1> QED BY <1>4, <1>5 DEF ConfirmFinalizes

LEMMA TimeoutEffect ==
    ASSUME TypeInv, NEW w \in workers, ConfirmTimesOut(w)
    PROVE  /\ ActsOn(w) /\ ConfirmCurrent(w) /\ w.kind = "confirm6" /\ w.pc # "finally" /\ GoesOn(w)
           /\ Turns(w.key, "idle", FALSE)
           /\ WgOutcomes = {"done"} => ~Routed(wg'[w.key])
<1>1. /\ w \in Workers /\ ConfirmCurrent(w) /\ Current(w) /\ w.kind = "confirm6" /\ w.pc # "finally"
      /\ w.key \in Keys /\ wg \in [Keys -> KernelPeers \cup {NoPeer}]
  BY DEF ConfirmTimesOut, ConfirmCurrent, AtConfirm, TypeInv, TypeOK, Workers
<1>2. Turns(w.key, "idle", FALSE)
  BY <1>1, WorkerTurns DEF ConfirmTimesOut
<1>3. GoesOn(w)
  BY <1>1, MovedWorker DEF ConfirmTimesOut
<1>4. \E r \in WgOutcomes : wg'[w.key] = AfterRemove(wg[w.key], r)
  BY <1>1 DEF ConfirmTimesOut
<1> QED BY <1>1, <1>2, <1>3, <1>4, ActsOnOne, DoneUnroutes

LEMMA EndEffect ==
    ASSUME TypeInv, NEW w \in workers, WorkerEnds(w)
    PROVE  /\ ActsOn(w) /\ workers' = workers \ {w}
           /\ \/ /\ Abandoned(w)
                 /\ Routed(wg'[w.key]) => Routed(wg[w.key])
                 /\ WgOutcomes = {"done"} => ~Routed(wg'[w.key])
                 /\ states'[w.key] # NoState /\ states'[w.key].mode = "idle"
                 /\ ~states'[w.key].running /\ states'[w.key].generation = NextGeneration
                 /\ states'[w.key].controlExpired = states[w.key].controlExpired
              \/ ~Abandoned(w) /\ states' = states /\ wg' = wg
<1> DEFINE k == w.key
           s == states[k]
<1>1. /\ k \in Keys /\ states \in [Keys -> PeerStates \cup {NoState}] /\ lastGeneration \in Nat
      /\ wg \in [Keys -> KernelPeers \cup {NoPeer}] /\ workers' = workers \ {w}
  BY DEF WorkerEnds, TypeInv, TypeOK, Workers
<1>2. CASE Abandoned(w)
  <2> DEFINE a == IdleAfterFailure(s)
             b == [a EXCEPT !.generation = NextGeneration]
  <2>1. s \in PeerStates /\ a \in PeerStates /\ NextGeneration \in Nat
    BY <1>1, <1>2, StateTypes DEF Abandoned, Current
  <2>2. a.mode = "idle" /\ ~a.running /\ a.controlExpired = s.controlExpired
    BY <2>1, StateFields
  <2>3. states' = [states EXCEPT ![k] = b]
    BY <1>2 DEF WorkerEnds
  <2>4. \E r \in WgOutcomes : wg' = [wg EXCEPT ![k] = AfterRemove(wg[k], r)]
    BY <1>2 DEF WorkerEnds
  <2> HIDE DEF a
  <2>5. /\ b \in PeerStates /\ b.mode = a.mode /\ b.running = a.running
        /\ b.controlExpired = a.controlExpired /\ b.generation = NextGeneration
    BY <2>1 DEF PeerStates
  <2> HIDE DEF b
  <2>6. states'[k] = b /\ b # NoState
    BY <1>1, <2>3, <2>5, NullsAssumption
  <2>7. \E r \in WgOutcomes : wg'[k] = AfterRemove(wg[k], r)
    BY <1>1, <2>4
  <2> QED BY <1>1, <1>2, <2>2, <2>5, <2>6, <2>7, ActsOnOne, RemovedUnrouted, DoneUnroutes
<1>3. CASE ~Abandoned(w)
  BY <1>1, <1>3, ActsOnOne DEF WorkerEnds
<1> QED BY <1>2, <1>3

\* The clocks and the kernel by itself change neither routes nor modes.
SameMode(k) ==
    /\ states'[k] = NoState <=> states[k] = NoState
    /\ states[k] # NoState =>
          /\ states'[k].mode = states[k].mode
          /\ states'[k].running = states[k].running
          /\ states'[k].controlExpired = states[k].controlExpired
          /\ states'[k].generation = states[k].generation

LEMMA EnvironmentEffect ==
    ASSUME TypeInv, EnvironmentStep
    PROVE  /\ workers' = workers /\ monitor' = monitor /\ lastGeneration' = lastGeneration
           /\ \A k \in Keys : RouteKept(k) /\ SameMode(k)
<1>1. /\ workers' = workers /\ monitor' = monitor /\ lastGeneration' = lastGeneration
      /\ states \in [Keys -> PeerStates \cup {NoState}]
      /\ wg \in [Keys -> KernelPeers \cup {NoPeer}] /\ handshakes \in Nat
  BY DEF EnvironmentStep, WgHandshake, HandshakeAges, LeaseElapses, RetryElapses, TypeInv, TypeOK
<1>2. ASSUME NEW k \in Keys, NEW q \in KernelPeers, wg[k] \in KernelPeers,
             wg' = [wg EXCEPT ![k] = q],
             q.route = wg[k].route, q.handshake > 0 \/ q.handshake = wg[k].handshake
      PROVE  \A j \in Keys : RouteKept(j)
  <2>1. wg'[k] = q /\ \A j \in Keys \ {k} : wg'[j] = wg[j]
    BY <1>1, <1>2
  <2> QED BY <1>2, <2>1, NullsAssumption DEF RouteKept, Routed, Shaken
<1>3. ASSUME NEW k \in Keys, NEW t \in PeerStates, states[k] \in PeerStates,
             states' = [states EXCEPT ![k] = t],
             t.mode = states[k].mode, t.running = states[k].running,
             t.controlExpired = states[k].controlExpired, t.generation = states[k].generation
      PROVE  \A j \in Keys : SameMode(j)
  <2>1. states'[k] = t /\ \A j \in Keys \ {k} : states'[j] = states[j]
    BY <1>1, <1>3
  <2> QED BY <1>3, <2>1, NullsAssumption DEF SameMode
<1>4. CASE \E k \in Keys, e \in Endpoints : WgHandshake(k, e)
  <2>1. PICK k \in Keys, e \in Endpoints : WgHandshake(k, e)
    BY <1>4
  <2>2. wg[k] \in KernelPeers /\ handshakes' \in Nat /\ handshakes' > 0 /\ states' = states
    BY <1>1, <2>1 DEF WgHandshake
  <2> DEFINE q == [wg[k] EXCEPT !.handshake = handshakes', !.fresh = TRUE, !.endpoint = e]
  <2>3. wg' = [wg EXCEPT ![k] = q]
    BY <1>1, <2>1, <2>2 DEF WgHandshake, KernelPeers
  <2>4. q \in KernelPeers /\ q.route = wg[k].route /\ q.handshake = handshakes'
    BY <2>2 DEF KernelPeers
  <2> HIDE DEF q
  <2>5. \A j \in Keys : RouteKept(j)
    BY <1>2, <2>2, <2>3, <2>4
  <2> QED BY <1>1, <2>2, <2>5 DEF SameMode
<1>5. ASSUME NEW k \in Keys, HandshakeAges(k)
      PROVE  \A j \in Keys : RouteKept(j) /\ SameMode(j)
  <2> DEFINE q == [wg[k] EXCEPT !.fresh = FALSE]
  <2>1. wg[k] \in KernelPeers /\ states' = states
    BY <1>1, <1>5 DEF HandshakeAges
  <2>2. wg' = [wg EXCEPT ![k] = q]
    BY <1>1, <1>5, <2>1 DEF HandshakeAges, KernelPeers
  <2>3. q \in KernelPeers /\ q.route = wg[k].route /\ q.handshake = wg[k].handshake
    BY <2>1 DEF KernelPeers
  <2> HIDE DEF q
  <2>4. \A j \in Keys : RouteKept(j)
    BY <1>2, <2>1, <2>2, <2>3
  <2> QED BY <2>1, <2>4 DEF SameMode
<1>6. ASSUME NEW k \in Keys, LeaseElapses(k)
      PROVE  \A j \in Keys : RouteKept(j) /\ SameMode(j)
  <2> DEFINE t == [states[k] EXCEPT !.lease = "due"]
  <2>1. states[k] \in PeerStates /\ wg' = wg
    BY <1>1, <1>6 DEF LeaseElapses
  <2>2. states' = [states EXCEPT ![k] = t]
    BY <1>1, <1>6, <2>1 DEF LeaseElapses, PeerStates
  <2>3. /\ t \in PeerStates /\ t.mode = states[k].mode /\ t.running = states[k].running
        /\ t.controlExpired = states[k].controlExpired /\ t.generation = states[k].generation
    BY <2>1 DEF PeerStates
  <2> HIDE DEF t
  <2>4. \A j \in Keys : SameMode(j)
    BY <1>3, <2>1, <2>2, <2>3
  <2> QED BY <2>1, <2>4 DEF RouteKept
<1>7. ASSUME NEW k \in Keys, RetryElapses(k)
      PROVE  \A j \in Keys : RouteKept(j) /\ SameMode(j)
  <2> DEFINE t == [states[k] EXCEPT !.retryDue = TRUE]
  <2>1. states[k] \in PeerStates /\ wg' = wg
    BY <1>1, <1>7 DEF RetryElapses
  <2>2. states' = [states EXCEPT ![k] = t]
    BY <1>1, <1>7, <2>1 DEF RetryElapses, PeerStates
  <2>3. /\ t \in PeerStates /\ t.mode = states[k].mode /\ t.running = states[k].running
        /\ t.controlExpired = states[k].controlExpired /\ t.generation = states[k].generation
    BY <2>1 DEF PeerStates
  <2> HIDE DEF t
  <2>4. \A j \in Keys : SameMode(j)
    BY <1>3, <2>1, <2>2, <2>3
  <2> QED BY <2>1, <2>4 DEF RouteKept
<1> QED BY <1>1, <1>4, <1>5, <1>6, <1>7 DEF EnvironmentStep

\* After a restart nothing runs, and what has a route is tracked.
LEMMA RestartEffect ==
    ASSUME TypeInv, AgentRestarts
    PROVE  /\ workers' = {} /\ monitor'.launches = {} /\ ~monitor'.active
           /\ \A k \in Keys : /\ states'[k] # NoState => ~states'[k].running
                              /\ Routed(wg'[k]) => states'[k] # NoState
<1>1. PICK file \in {saved, [k \in Keys |-> NoState]} : Restart(file)
  BY DEF AgentRestarts
<1> DEFINE loaded == {k \in Keys : file[k] # NoState}
           n == Cardinality(loaded)
<1>2. file \in [Keys -> PeerStates \cup {NoState}]
  BY <1>1 DEF TypeInv, TypeOK
<1>3. n \in Nat
  BY KeysAssumption, FS_Subset, FS_CardinalityType
<1> HIDE DEF n
<1>4. PICK base \in {0} \cup {file[k].generation : k \in loaded} :
         \E g \in [loaded -> (base + 1)..(base + n)] :
            states' = [k \in Keys |-> IF k \in loaded THEN Loaded(file[k], g[k]) ELSE NoState]
  BY <1>1 DEF Restart, n
<1>5. base \in Nat
  BY <1>2, <1>4 DEF PeerStates
<1>6. PICK g \in [loaded -> (base + 1)..(base + n)] :
         states' = [k \in Keys |-> IF k \in loaded THEN Loaded(file[k], g[k]) ELSE NoState]
  BY <1>4
<1>7. \A k \in loaded : g[k] \in Nat /\ file[k] \in PeerStates
  BY <1>2, <1>3, <1>5, <1>6
<1>8. \A k \in loaded : states'[k] # NoState /\ ~states'[k].running
  <2> SUFFICES ASSUME NEW k \in loaded PROVE states'[k] # NoState /\ ~states'[k].running
    OBVIOUS
  <2>1. states'[k] = Loaded(file[k], g[k])
    BY <1>6
  <2> QED BY <1>7, <2>1, LoadedType, NullsAssumption
<1>9. \A k \in Keys \ loaded : states'[k] = NoState
  BY <1>6
<1>10. workers' = {} /\ monitor' = NoPass
  BY <1>1 DEF Restart
<1>11. \A k \in Keys : Routed(wg'[k]) => k \in loaded
  <2>1. wg' = [k \in Keys |-> IF Routed(wg[k]) /\ k \notin loaded THEN NoPeer ELSE wg[k]]
    BY <1>1 DEF Restart, WithoutOrphans
  <2> HIDE DEF loaded
  <2> QED BY <2>1 DEF Routed
<1> QED BY <1>8, <1>9, <1>10, <1>11 DEF NoPass

-----------------------------------------------------------------------------
(* Routes belong to tracked peers.  When a removal fails, the initiator's    *)
(* cleanup forgets the peer all the same: without initiators, or when no     *)
(* command is refused, the agent never loses a route.                        *)

LEMMA NextNoOrphan ==
    ASSUME "initiator" \notin Controllers \/ "failed" \notin WgOutcomes,
           TypeInv, NoOrphanRoute, [Next]_vars
    PROVE  NoOrphanRoute'
<1>1. /\ states \in [Keys -> PeerStates \cup {NoState}]
      /\ wg \in [Keys -> KernelPeers \cup {NoPeer}]
  BY DEF TypeInv, TypeOK
<1>2. ASSUME NEW k \in Keys, OthersKept(k), Routed(wg'[k]) => states'[k] # NoState
      PROVE  NoOrphanRoute'
  BY <1>2 DEF OthersKept, NoOrphanRoute
<1>3. ASSUME NEW k \in Keys, NEW o \in Offers, HandleOffer(k, o) PROVE NoOrphanRoute'
  BY <1>2, <1>3, OfferEffect
<1>4. ASSUME NEW k \in Keys, NEW n, NEW reason, HandleRemove(k, n, reason) PROVE NoOrphanRoute'
  <2>1. states'[k] = states[k] => states[k] # NoState
    BY <1>4 DEF HandleRemove
  <2> QED BY <1>2, <1>4, <2>1, RemoveEffect DEF LosesControl, Dropped
<1>5. ASSUME NEW active, CleanupInitiatorStates(active) PROVE NoOrphanRoute'
  <2> SUFFICES ASSUME NEW k \in Keys, Routed(wg'[k]) PROVE states'[k] # NoState
    BY DEF NoOrphanRoute
  <2>1. CASE states'[k] = states[k] /\ wg'[k] = wg[k]
    BY <2>1 DEF NoOrphanRoute
  <2>2. CASE ~(states'[k] = states[k] /\ wg'[k] = wg[k])
    <3>1. /\ states[k] # NoState /\ states[k].controller = "initiator"
          /\ wg'[k] = wg[k] => "failed" \in WgOutcomes \/ ~Routed(wg[k])
          /\ wg'[k] \in {wg[k], NoPeer}
      BY <1>5, <2>2, CleanupEffect
    <3>2. "initiator" \in Controllers
      BY <1>1, <3>1 DEF PeerStates
    <3> QED BY <3>1, <3>2 DEF Routed
  <2> QED BY <2>1, <2>2
<1>6. CASE MonitorStep
  <2>1. CASE MonitorBegin \/ MonitorEnd
    BY <2>1 DEF MonitorBegin, MonitorEnd, NoOrphanRoute
  <2>2. ASSUME NEW k \in Keys, MonitorPeer(k) PROVE NoOrphanRoute'
    BY <1>2, <2>2, PeerVisited DEF LosesControl, Dropped, VisitProbes, VisitNotes
  <2>3. ASSUME NEW k \in Keys, MonitorFails(k) PROVE NoOrphanRoute'
    <3>1. k \in Tracked /\ states' = states
      BY <2>3 DEF MonitorFails, TypeInv, PassInv
    <3>2. \E r : wg' = [wg EXCEPT ![k] = AfterRemove(wg[k], r)]
      BY <2>3 DEF MonitorFails
    <3>3. OthersKept(k)
      BY <1>1, <3>1, <3>2 DEF OthersKept
    <3> QED BY <1>2, <3>1, <3>3 DEF Tracked
  <2> QED BY <1>6, <2>1, <2>2, <2>3 DEF MonitorStep
<1>7. ASSUME NEW w \in workers, WorkerStep(w) PROVE NoOrphanRoute'
  <2>1. CASE Looks(w)
    BY <2>1, LooksEffect DEF NoOrphanRoute
  <2>2. CASE ~Looks(w)
    <3>1. /\ w.key \in Keys /\ OthersKept(w.key)
          /\ \/ states' = states /\ wg' = wg
             \/ states' = states /\ states[w.key] # NoState
             \/ states'[w.key] # NoState
      <4>1. CASE ProbeSetup(w)
        BY <4>1, SetupEffect DEF ActsOn, OthersKept, ProbeCurrent, Current, Turns
      <4>2. CASE ProbePromotes(w)
        BY <4>2, PromoteEffect DEF ActsOn, OthersKept, ProbeCurrent, Current, Turns
      <4>3. CASE ProbeExhausted(w)
        BY <4>3, ExhaustEffect DEF ActsOn, OthersKept, Turns
      <4>4. CASE ConfirmRekeys(w)
        BY <4>4, RekeyEffect DEF ActsOn, OthersKept, Turns
      <4>5. CASE ConfirmFinalizes(w)
        BY <4>5, FinalizeEffect DEF ActsOn, OthersKept, ConfirmCurrent, Current, Turns
      <4>6. CASE ConfirmTimesOut(w)
        BY <4>6, TimeoutEffect DEF ActsOn, OthersKept, Turns
      <4>7. CASE WorkerEnds(w)
        BY <4>7, EndEffect DEF ActsOn, OthersKept
      <4> QED BY <1>7, <2>2, <4>1, <4>2, <4>3, <4>4, <4>5, <4>6, <4>7 DEF WorkerStep, Looks
    <3> QED BY <1>2, <3>1 DEF NoOrphanRoute
  <2> QED BY <2>1, <2>2
<1>8. CASE AgentRestarts
  BY <1>8, RestartEffect DEF NoOrphanRoute
<1>9. CASE EnvironmentStep
  BY <1>9, EnvironmentEffect DEF NoOrphanRoute, RouteKept, SameMode
<1>10. CASE UNCHANGED vars
  BY <1>10 DEF NoOrphanRoute, vars
<1> QED BY <1>3, <1>4, <1>5, <1>6, <1>7, <1>8, <1>9, <1>10 DEF Next, EnvironmentStep

\* A /32 route in the kernel always belongs to a tracked peer, whatever
\* crashes and failing saves do: the monitor will take it out when it goes
\* stale (handle_offer, handle_remove, monitor_once, cleanup_orphans).
THEOREM NoRouteIsLost ==
    ASSUME "initiator" \notin Controllers \/ "failed" \notin WgOutcomes
    PROVE  Spec => []NoOrphanRoute
<1>1. Init => NoOrphanRoute
  BY DEF Init, NoOrphanRoute, Routed
<1>2. TypeInv /\ NoOrphanRoute /\ [Next]_vars => NoOrphanRoute'
  BY NextNoOrphan
<1> QED BY <1>1, <1>2, InitTyped, NextTyped, PTL DEF Spec

-----------------------------------------------------------------------------
(* What the states say of the kernel, as long as no command takes effect and *)
(* is reported as failed.  A peer that is being probed has no /32 route: a   *)
(* route comes with the end of a probe, or with a confirmation.              *)

\* The pass still sees the routes of the peers it has not visited.
PassSees == monitor.active =>
    \A k \in monitor.todo : Routed(monitor.current[k]) <=> Routed(wg[k])

ProbesUnrouted ==
    \A k \in Tracked : states[k].running /\ states[k].mode # "confirm6" => ~Routed(wg[k])

\* While a probe can act on its peer, no confirmation has taken over from it.
NotHandedOn ==
    \A w \in Threads : w.kind = "probe" /\ w.pc # "finally" /\ Current(w) =>
        states[w.key].mode # "confirm6"

RouteInv == PassSees /\ ProbesUnrouted /\ NotHandedOn

\* Threads of a step: they keep their kind, are not started again, or begin.
NoNewProbe(k) ==
    \A x \in Threads' : x.kind = "probe" /\ x.pc # "finally" =>
        \/ x.key = k /\ x.generation = NextGeneration
        \/ \E y \in Threads : y.kind = "probe" /\ y.pc # "finally" /\ SameWorker(x, y)

\* A step that is about one peer keeps the invariant if it does so for the peer.
LEMMA OnePeerRoute ==
    ASSUME FenceData, RouteInv, NEW k \in Keys, OthersKept(k), NoNewProbe(k),
           \/ ~monitor'.active
           \/ /\ monitor.active /\ monitor'.current = monitor.current
              /\ monitor'.todo \subseteq monitor.todo \ {k} /\ monitor'.todo \subseteq Keys,
           states'[k] # NoState /\ states'[k].running /\ states'[k].mode # "confirm6"
              => ~Routed(wg'[k]),
           states'[k] # NoState /\ states'[k].mode = "confirm6" =>
              \/ states'[k].generation = NextGeneration /\ Threads' \subseteq Threads
              \/ /\ states[k] # NoState /\ states[k].mode = "confirm6"
                 /\ states'[k].generation = states[k].generation
              \/ /\ states'[k].generation # NextGeneration
                 /\ \A y \in Threads : y.kind = "probe" /\ y.generation = states'[k].generation
                                          => y.pc = "finally"
    PROVE  RouteInv'
<1>1. PassSees'
  BY DEF PassSees, RouteInv, OthersKept
<1>2. ProbesUnrouted'
  BY DEF ProbesUnrouted, RouteInv, OthersKept, Tracked
<1>3. ASSUME NEW x \in Threads', x.kind = "probe", x.pc # "finally", Current(x)'
      PROVE  states'[x.key].mode # "confirm6"
  <2>1. /\ lastGeneration \in Nat /\ workers \subseteq Workers /\ monitor.launches \subseteq Workers
        /\ NextGeneration = lastGeneration + 1
    BY DEF FenceData, TypeInv, TypeOK, MonitorPasses, NextGeneration
  <2>2. \A y \in Threads : y.key \in Keys /\ y.generation # NextGeneration
    BY <2>1 DEF Threads, Workers, FenceData, FenceInv
  <2>3. x.generation = states'[x.key].generation /\ states'[x.key] # NoState
    BY <1>3 DEF Current
  <2>4. CASE x.key # k
    <3>1. PICK y \in Threads : y.kind = "probe" /\ y.pc # "finally" /\ SameWorker(x, y)
      BY <1>3, <2>4 DEF NoNewProbe
    <3>2. x.key \in Keys /\ states'[x.key] = states[x.key]
      BY <2>2, <2>4, <3>1 DEF OthersKept, SameWorker
    <3>3. Current(y)
      BY <2>3, <3>1, <3>2 DEF Current, SameWorker
    <3> QED BY <3>1, <3>2, <3>3 DEF RouteInv, NotHandedOn, SameWorker
  <2>5. CASE x.key = k /\ states'[k].mode = "confirm6"
    <3>1. CASE states'[k].generation = NextGeneration /\ Threads' \subseteq Threads
      BY <2>2, <2>3, <2>5, <3>1
    <3>2. CASE /\ states[k] # NoState /\ states[k].mode = "confirm6"
               /\ states'[k].generation = states[k].generation
      <4>1. states[k].generation # NextGeneration
        BY <2>1, <3>2 DEF FenceData, FenceInv, Tracked
      <4>2. PICK y \in Threads : y.kind = "probe" /\ y.pc # "finally" /\ SameWorker(x, y)
        BY <1>3, <2>3, <2>5, <3>2, <4>1 DEF NoNewProbe
      <4> QED BY <2>3, <2>5, <3>2, <4>2 DEF RouteInv, NotHandedOn, SameWorker, Current
    <3>3. CASE /\ states'[k].generation # NextGeneration
               /\ \A y \in Threads : y.kind = "probe" /\ y.generation = states'[k].generation
                                        => y.pc = "finally"
      <4>1. PICK y \in Threads : y.kind = "probe" /\ y.pc # "finally" /\ SameWorker(x, y)
        BY <1>3, <2>3, <2>5, <3>3 DEF NoNewProbe
      <4> QED BY <2>3, <2>5, <3>3, <4>1 DEF SameWorker
    <3> QED BY <2>3, <2>5, <3>1, <3>2, <3>3
  <2> QED BY <2>4, <2>5
<1> QED BY <1>1, <1>2, <1>3 DEF RouteInv, NotHandedOn

LEMMA SameThreads ==
    ASSUME Threads' \subseteq Threads, NEW k
    PROVE  NoNewProbe(k)
BY DEF NoNewProbe, SameWorker

LEMMA OneMoreProbe ==
    ASSUME TypeOK, NEW k \in Keys, Threads' \subseteq Threads \cup {Probe(k, NextGeneration)}
    PROVE  NoNewProbe(k)
<1>1. Probe(k, NextGeneration).key = k /\ Probe(k, NextGeneration).generation = NextGeneration
  BY DEF Probe
<1> QED BY <1>1 DEF NoNewProbe, SameWorker

LEMMA MovedProbe ==
    ASSUME NEW w \in workers, w.pc # "finally", GoesOn(w), monitor' = monitor, NEW k
    PROVE  NoNewProbe(k)
<1>1. PICK v : SameWorker(v, w) /\ workers' = (workers \ {w}) \cup {v}
  BY DEF GoesOn
<1>2. \A x \in Threads' : x \in Threads \/ x = v
  BY <1>1 DEF Threads
<1> QED BY <1>1, <1>2 DEF NoNewProbe, SameWorker, Threads

LEMMA OfferRoute ==
    ASSUME "timedout" \notin WgOutcomes, FenceData, RouteInv,
           NEW k \in Keys, NEW o \in Offers, HandleOffer(k, o)
    PROVE  RouteInv'
<1> DEFINE t == states'[k]
<1>1. /\ TypeInv /\ TypeOK /\ ~monitor'.active /\ monitor' = monitor
      /\ OthersKept(k) /\ t # NoState
      /\ OfferKeeps(k) \/ OfferProbes(k, o) \/ OfferStops(k) \/ OfferRenews(k)
  BY OfferEffect DEF FenceData, TypeInv, HandleOffer, LockFree
<1>2. CASE OfferKeeps(k)
  <2>1. NoNewProbe(k)
    BY <1>1, <1>2, SameThreads DEF OfferKeeps, Threads
  <2> QED BY <1>1, <1>2, <2>1, OnePeerRoute DEF OfferKeeps
<1>3. CASE OfferProbes(k, o)
  <2>1. NoNewProbe(k)
    BY <1>1, <1>3, OneMoreProbe DEF OfferProbes, Threads
  <2> QED BY <1>1, <1>3, <2>1, OnePeerRoute DEF OfferProbes
<1>4. CASE OfferStops(k)
  <2>1. NoNewProbe(k) /\ Threads' = Threads
    BY <1>1, <1>4, SameThreads DEF OfferStops, Threads
  <2> QED BY <1>1, <1>4, <2>1, OnePeerRoute DEF OfferStops
<1>5. CASE OfferRenews(k)
  <2>1. NoNewProbe(k)
    BY <1>1, <1>5, SameThreads DEF OfferRenews, Threads
  <2>2. wg'[k] = wg[k]
    BY <1>5 DEF OfferRenews, KernelKept
  <2>3. t.running /\ t.mode # "confirm6" => ~Routed(wg'[k])
    BY <1>5, <2>2 DEF OfferRenews, RouteInv, ProbesUnrouted, Tracked
  <2> QED BY <1>1, <1>5, <2>1, <2>3, OnePeerRoute DEF OfferRenews
<1> QED BY <1>1, <1>2, <1>3, <1>4, <1>5

LEMMA RemoveRoute ==
    ASSUME "timedout" \notin WgOutcomes, FenceData, RouteInv,
           NEW k \in Keys, NEW n, NEW reason, HandleRemove(k, n, reason)
    PROVE  RouteInv'
<1>1. /\ ~monitor'.active /\ NoNewProbe(k) /\ OthersKept(k) /\ states[k] # NoState
      /\ \/ LosesControl(k)
         \/ Dropped(k)
         \/ states' = states /\ KernelKept(k)
  BY RemoveEffect, SameThreads DEF FenceData, HandleRemove, Threads
<1>2. CASE LosesControl(k) \/ Dropped(k)
  BY <1>1, <1>2, OnePeerRoute DEF LosesControl, Dropped
<1>3. CASE states' = states /\ KernelKept(k)
  <2>1. wg'[k] = wg[k]
    BY <1>3 DEF KernelKept
  <2>2. states'[k].running /\ states'[k].mode # "confirm6" => ~Routed(wg'[k])
    BY <1>1, <1>3, <2>1 DEF RouteInv, ProbesUnrouted, Tracked
  <2> QED BY <1>1, <1>3, <2>2, OnePeerRoute
<1> QED BY <1>1, <1>2, <1>3

LEMMA CleanupRoute ==
    ASSUME FenceData, RouteInv, NEW active, CleanupInitiatorStates(active)
    PROVE  RouteInv'
<1>1. /\ workers' = workers /\ monitor' = monitor
      /\ \A k \in Keys : states'[k] = NoState \/ (states'[k] = states[k] /\ wg'[k] = wg[k])
  <2>1. \A k \in Keys : states'[k] = NoState \/ (states'[k] = states[k] /\ wg'[k] = wg[k])
    BY CleanupEffect DEF FenceData
  <2> QED BY <2>1 DEF CleanupInitiatorStates
<1>2. ~monitor.active /\ \A w \in Threads : w.key \in Keys
  BY DEF CleanupInitiatorStates, LockFree, FenceData, TypeInv, TypeOK, Threads, Workers, MonitorPasses
<1>3. PassSees'
  BY <1>1, <1>2 DEF PassSees
<1>4. ProbesUnrouted'
  BY <1>1 DEF RouteInv, ProbesUnrouted, Tracked
<1>5. NotHandedOn'
  BY <1>1, <1>2 DEF RouteInv, NotHandedOn, Threads, Current
<1> QED BY <1>3, <1>4, <1>5 DEF RouteInv

LEMMA VisitRoute ==
    ASSUME FenceData, RouteInv, NEW k \in Keys, MonitorPeer(k)
    PROVE  RouteInv'
<1> DEFINE s == states[k]
           t == states'[k]
<1>1. /\ OthersKept(k) /\ workers' = workers /\ s # NoState
      /\ monitor.active /\ k \in monitor.todo
      /\ monitor'.active /\ monitor'.current = monitor.current
      /\ monitor'.todo = monitor.todo \ {k}
      /\ \/ VisitProbes(k)
         \/ /\ monitor'.launches = monitor.launches
            /\ \/ LosesControl(k) /\ Healthy(monitor.current[k])
               \/ Dropped(k) /\ ~Healthy(monitor.current[k])
               \/ VisitNotes(k)
  BY PeerVisited DEF FenceData
<1>2. monitor.todo \subseteq Keys /\ TypeOK
  BY DEF FenceData, TypeInv, TypeOK, MonitorPasses
<1>3. Routed(monitor.current[k]) <=> Routed(wg[k])
  BY <1>1 DEF RouteInv, PassSees
<1>4. CASE VisitProbes(k)
  <2>1. NoNewProbe(k)
    BY <1>1, <1>2, <1>4, OneMoreProbe DEF VisitProbes, Threads
  <2>2. ~Routed(wg'[k]) /\ t.mode = "probe"
    BY <1>3, <1>4 DEF VisitProbes
  <2> QED BY <1>1, <1>2, <2>1, <2>2, OnePeerRoute
<1>5. CASE ~VisitProbes(k)
  <2>1. NoNewProbe(k)
    BY <1>1, <1>5, SameThreads DEF Threads
  <2>2. t # NoState /\ t.running /\ t.mode # "confirm6" => ~Routed(wg'[k])
    <3>1. CASE LosesControl(k) \/ Dropped(k)
      BY <3>1 DEF LosesControl, Dropped
    <3>2. CASE VisitNotes(k)
      <4>1. s.running /\ s.mode # "confirm6" => ~Routed(wg[k])
        BY <1>1 DEF RouteInv, ProbesUnrouted, Tracked
      <4> QED BY <3>2, <4>1 DEF VisitNotes, Confirming
    <3> QED BY <1>1, <1>5, <3>1, <3>2
  <2>3. t # NoState /\ t.mode = "confirm6" => s.mode = "confirm6" /\ t.generation = s.generation
    BY <1>1, <1>5 DEF LosesControl, Dropped, VisitNotes
  <2> QED BY <1>1, <1>2, <2>1, <2>2, <2>3, OnePeerRoute
<1> QED BY <1>4, <1>5

\* A pass that begins or ends changes no kernel peer, unless a removal that is
\* reported as failed does.
LEMMA PassKeepsKernel ==
    ASSUME "timedout" \notin WgOutcomes, TypeInv,
           MonitorBegin \/ MonitorEnd \/ \E k \in Keys : MonitorFails(k)
    PROVE  states' = states /\ wg' = wg
<1>1. CASE MonitorBegin \/ MonitorEnd
  BY <1>1 DEF MonitorBegin, MonitorEnd
<1>2. ASSUME NEW k \in Keys, MonitorFails(k) PROVE states' = states /\ wg' = wg
  <2>1. PICK r \in WgOutcomes \ {"done"} : wg' = [wg EXCEPT ![k] = AfterRemove(wg[k], r)]
    BY <1>2 DEF MonitorFails
  <2>2. AfterRemove(wg[k], r) = wg[k]
    BY <2>1, FailedWithEffect
  <2> QED BY <1>2, <2>1, <2>2 DEF TypeInv, TypeOK, MonitorFails
<1> QED BY <1>1, <1>2

LEMMA MonitorRoute ==
    ASSUME "timedout" \notin WgOutcomes, FenceData, RouteInv, MonitorStep
    PROVE  RouteInv'
<1>1. CASE MonitorBegin
  <2>1. /\ states' = states /\ wg' = wg /\ workers' = workers
        /\ monitor'.current = wg /\ monitor'.launches = {}
    BY <1>1 DEF MonitorBegin
  <2>2. Threads' \subseteq Threads
    BY <2>1 DEF Threads
  <2> QED BY <2>1, <2>2 DEF RouteInv, PassSees, ProbesUnrouted, NotHandedOn, Tracked, Current
<1>2. ASSUME NEW k \in Keys, MonitorPeer(k) PROVE RouteInv'
  BY <1>2, VisitRoute
<1>3. CASE (\E k \in Keys : MonitorFails(k)) \/ MonitorEnd
  <2>1. states' = states /\ workers' \subseteq Threads /\ ~monitor'.active /\ monitor'.launches = {}
    <3>1. monitor' = NoPass /\ states' = states
      BY <1>3 DEF MonitorFails, MonitorEnd
    <3>2. workers' \in {workers, workers \cup monitor.launches}
      BY <1>3 DEF MonitorFails, MonitorEnd
    <3> QED BY <3>1, <3>2 DEF NoPass, Threads
  <2>2. wg' = wg
    BY <1>3, PassKeepsKernel DEF FenceData
  <2>3. Threads' \subseteq Threads
    BY <2>1 DEF Threads
  <2> QED BY <2>1, <2>2, <2>3 DEF RouteInv, PassSees, ProbesUnrouted, NotHandedOn, Tracked, Current
<1> QED BY <1>1, <1>2, <1>3 DEF MonitorStep

LEMMA WorkerRoute ==
    ASSUME "timedout" \notin WgOutcomes, FenceData, RouteInv, NEW w \in workers, WorkerStep(w)
    PROVE  RouteInv'
<1> DEFINE k == w.key
           s == states[k]
           t == states'[k]
<1>0. TypeInv /\ w \in Workers /\ k \in Keys /\ w \in Threads /\ w.generation # NextGeneration
  BY DEF FenceData, FenceInv, TypeInv, TypeOK, Workers, Threads, NextGeneration
<1>1. CASE Looks(w)
  <2>1. GoesOn(w) /\ w.pc # "finally" /\ UNCHANGED <<states, wg, monitor>>
    BY <1>0, <1>1, LooksEffect
  <2>2. NoNewProbe(k)
    BY <2>1, MovedProbe
  <2>3. NotHandedOn'
    <3> SUFFICES ASSUME NEW x \in Threads', x.kind = "probe", x.pc # "finally", Current(x)'
                 PROVE  states'[x.key].mode # "confirm6"
      BY DEF NotHandedOn
    <3>1. CASE x.generation = NextGeneration
      <4>1. states[x.key] # NoState /\ states[x.key].generation = NextGeneration
        BY <2>1, <3>1 DEF Current
      <4> QED BY <1>0, <2>1, <3>1, <4>1 DEF GoesOn, SameWorker, Threads, FenceData, FenceInv, NextGeneration, TypeInv, TypeOK
    <3>2. CASE x.generation # NextGeneration
      <4>1. PICK y \in Threads : y.kind = "probe" /\ y.pc # "finally" /\ SameWorker(x, y)
        BY <2>2, <3>2 DEF NoNewProbe
      <4> QED BY <2>1, <4>1 DEF RouteInv, NotHandedOn, SameWorker, Current
    <3> QED BY <3>1, <3>2
  <2> QED BY <2>1, <2>3 DEF RouteInv, PassSees, ProbesUnrouted, Tracked
<1>2. CASE ~Looks(w)
  <2>1. ActsOn(w)
    BY <1>0, <1>2, ActsOnOne DEF WorkerStep, Looks
  <2>2. OthersKept(k) /\ ~monitor'.active /\ monitor' = monitor
    BY <2>1 DEF ActsOn, OthersKept
  <2>3. w.kind = "probe" /\ w.pc # "finally" /\ ProbeCurrent(w) =>
           s # NoState /\ s.running /\ s.mode # "confirm6" /\ ~Routed(wg[k])
    BY <1>0 DEF RouteInv, NotHandedOn, ProbesUnrouted, Tracked, ProbeCurrent, Current
  <2>4. CASE ProbeSetup(w)
    <3>1. NoNewProbe(k)
      BY <1>0, <2>2, <2>4, SetupEffect, MovedProbe
    <3>2. ~Routed(wg'[k]) /\ t.mode # "confirm6"
      BY <1>0, <2>3, <2>4, SetupEffect DEF RouteKept, Turns
    <3> QED BY <1>0, <2>2, <3>1, <3>2, OnePeerRoute
  <2>5. CASE ProbePromotes(w)
    <3>1. NoNewProbe(k)
      <4>1. CASE GoesOn(w)
        BY <1>0, <2>2, <2>5, <4>1, PromoteEffect, MovedProbe
      <4>2. CASE \E f, c : /\ workers' = (workers \ {w}) \cup {f, c}
                           /\ SameWorker(f, w) /\ f.pc = "finally" /\ c.kind = "confirm6"
        <5>1. PICK f, c : /\ workers' = (workers \ {w}) \cup {f, c}
                          /\ SameWorker(f, w) /\ f.pc = "finally" /\ c.kind = "confirm6"
          BY <4>2
        <5>2. \A x \in Threads' : x \in Threads \/ x = f \/ x = c
          BY <2>2, <5>1 DEF Threads
        <5>3. \A x \in Threads' : x.kind = "probe" /\ x.pc # "finally" => x \in Threads
          BY <5>1, <5>2
        <5> QED BY <5>3 DEF NoNewProbe, SameWorker
      <4>3. \/ GoesOn(w)
            \/ \E f, c : /\ workers' = (workers \ {w}) \cup {f, c}
                         /\ SameWorker(f, w) /\ f.pc = "finally" /\ c.kind = "confirm6"
        <5>1. \/ GoesOn(w)
              \/ \E f, c : /\ workers' = (workers \ {w}) \cup {f, c}
                           /\ SameWorker(f, w) /\ f.pc = "finally"
                           /\ c.generation = w.generation /\ c.key = w.key
                           /\ c.kind = "confirm6" /\ c.pc = "wait"
          BY <1>0, <2>5, PromoteEffect
        <5> QED BY <5>1
      <4> QED BY <4>1, <4>2, <4>3
    <3>2. \/ Turns(k, "direct", FALSE)
          \/ states' = states /\ wg' = wg
      BY <1>0, <2>5, PromoteEffect
    <3>3. s # NoState /\ s.mode # "confirm6" /\ ~Routed(wg[k])
      BY <1>0, <2>3, <2>5, PromoteEffect
    <3> QED BY <1>0, <2>2, <3>1, <3>2, <3>3, OnePeerRoute DEF Turns
  <2>6. CASE ProbeExhausted(w)
    <3>1. NoNewProbe(k) /\ Turns(k, "idle", FALSE)
      BY <1>0, <2>2, <2>6, ExhaustEffect, MovedProbe
    <3> QED BY <1>0, <2>2, <3>1, OnePeerRoute DEF Turns
  <2>7. CASE ConfirmRekeys(w)
    <3>1. NoNewProbe(k) /\ (Turns(k, "idle", FALSE) \/ Turns(k, "confirm6", TRUE))
      BY <1>0, <2>2, <2>7, RekeyEffect, MovedProbe
    <3>2. s.generation = w.generation /\ w.kind = "confirm6"
      BY <1>0, <2>7, RekeyEffect DEF Current
    <3>3. \A y \in Threads : y.kind = "probe" /\ y.generation = w.generation => y.pc = "finally"
      BY <3>2 DEF FenceData, FenceInv, Threads
    <3> QED BY <1>0, <2>2, <3>1, <3>2, <3>3, OnePeerRoute DEF Turns
  <2>8. CASE ConfirmFinalizes(w)
    <3>1. NoNewProbe(k) /\ (Turns(k, "direct", FALSE) \/ (states' = states /\ wg' = wg))
      BY <1>0, <2>2, <2>8, FinalizeEffect, MovedProbe
    <3>2. s # NoState /\ s.mode = "confirm6"
      BY <1>0, <2>8, FinalizeEffect DEF ConfirmCurrent, Current, Confirming
    <3> QED BY <1>0, <2>2, <3>1, <3>2, OnePeerRoute DEF Turns
  <2>9. CASE ConfirmTimesOut(w)
    <3>1. NoNewProbe(k) /\ Turns(k, "idle", FALSE)
      BY <1>0, <2>2, <2>9, TimeoutEffect, MovedProbe
    <3> QED BY <1>0, <2>2, <3>1, OnePeerRoute DEF Turns
  <2>10. CASE WorkerEnds(w)
    <3>1. NoNewProbe(k)
      BY <1>0, <2>2, <2>10, EndEffect, SameThreads DEF Threads
    <3>2. \/ t # NoState /\ t.mode = "idle" /\ ~t.running
          \/ states' = states /\ wg' = wg
      BY <1>0, <2>10, EndEffect
    <3>3. s # NoState /\ s.running /\ s.mode # "confirm6" => ~Routed(wg[k])
      BY <1>0 DEF RouteInv, ProbesUnrouted, Tracked
    <3> QED BY <1>0, <2>2, <3>1, <3>2, <3>3, OnePeerRoute
  <2> QED BY <1>2, <2>4, <2>5, <2>6, <2>7, <2>8, <2>9, <2>10 DEF WorkerStep, Looks
<1> QED BY <1>1, <1>2

LEMMA RouteHolds ==
    ASSUME "timedout" \notin WgOutcomes
    PROVE  Spec => [](FenceData /\ RouteInv)
<1>1. Init => RouteInv
  BY DEF Init, NoPass, RouteInv, PassSees, ProbesUnrouted, NotHandedOn, Tracked, Threads
<1>2. ASSUME FenceData, RouteInv, Next PROVE RouteInv'
  <2>1. CASE \E k \in Keys, o \in Offers : HandleOffer(k, o)
    BY <1>2, <2>1, OfferRoute
  <2>2. CASE \E k \in Keys, n \in 1..MaxSession, reason \in RemoveReasons : HandleRemove(k, n, reason)
    BY <1>2, <2>2, RemoveRoute
  <2>3. CASE \E active \in SUBSET Keys : CleanupInitiatorStates(active)
    BY <1>2, <2>3, CleanupRoute
  <2>4. CASE MonitorStep
    BY <1>2, <2>4, MonitorRoute
  <2>5. ASSUME NEW w \in workers, WorkerStep(w) PROVE RouteInv'
    BY <1>2, <2>5, WorkerRoute
  <2>6. CASE AgentRestarts
    BY <1>2, <2>6, RestartEffect
    DEF FenceData, RouteInv, PassSees, ProbesUnrouted, NotHandedOn, Tracked, Threads
  <2>7. CASE EnvironmentStep
    <3>1. /\ workers' = workers /\ monitor' = monitor
          /\ \A k \in Keys : RouteKept(k) /\ SameMode(k)
      BY <1>2, <2>7, EnvironmentEffect DEF FenceData
    <3>2. monitor.todo \subseteq Keys /\ \A w \in Threads : w.key \in Keys
      BY <1>2 DEF FenceData, TypeInv, TypeOK, MonitorPasses, Threads, Workers
    <3>3. PassSees'
      BY <1>2, <3>1, <3>2 DEF RouteInv, PassSees, RouteKept
    <3>4. ProbesUnrouted'
      BY <1>2, <3>1 DEF RouteInv, ProbesUnrouted, Tracked, RouteKept, SameMode
    <3>5. NotHandedOn'
      BY <1>2, <3>1, <3>2 DEF RouteInv, NotHandedOn, Threads, Current, SameMode
    <3> QED BY <3>3, <3>4, <3>5 DEF RouteInv
  <2> QED BY <1>2, <2>1, <2>2, <2>3, <2>4, <2>5, <2>6, <2>7 DEF Next, EnvironmentStep
<1>3. ASSUME RouteInv, UNCHANGED vars PROVE RouteInv'
  BY <1>3 DEF RouteInv, PassSees, ProbesUnrouted, NotHandedOn, Tracked, Threads, Current, vars
<1> QED BY <1>1, <1>2, <1>3, InitFence, NextFence, PTL DEF Spec

-----------------------------------------------------------------------------
(* Healthy directs.  Only the peer of a host6 candidate is re-keyed: without *)
(* such candidates every thread is a probe.                                  *)

NoConfirms ==
    Host6 = {} => /\ \A w \in Threads : w.kind = "probe"
                  /\ \A k \in Tracked : states[k].mode # "confirm6"

LEMMA OnePeerProbes ==
    ASSUME NoConfirms, NEW k \in Keys, OthersKept(k),
           Host6 = {} => \A x \in Threads' : x \in Threads \/ x.kind = "probe",
           Host6 = {} /\ states'[k] # NoState /\ states'[k].mode = "confirm6" =>
              states[k] # NoState /\ states[k].mode = "confirm6"
    PROVE  NoConfirms'
<1> SUFFICES ASSUME Host6 = {}
             PROVE  /\ \A w \in Threads' : w.kind = "probe"
                    /\ \A j \in Tracked' : states'[j].mode # "confirm6"
  BY DEF NoConfirms
<1>1. \A w \in Threads' : w.kind = "probe"
  BY DEF NoConfirms
<1>2. \A j \in Tracked' : states'[j].mode # "confirm6"
  BY DEF NoConfirms, OthersKept, Tracked
<1> QED BY <1>1, <1>2

LEMMA WorkerNoConfirms ==
    ASSUME FenceData, NoConfirms, NEW w \in workers, WorkerStep(w)
    PROVE  NoConfirms'
<1> SUFFICES ASSUME Host6 = {} PROVE NoConfirms'
  BY DEF NoConfirms
<1>0. /\ TypeInv /\ w \in Threads /\ w.kind = "probe"
      /\ w.key \in Keys /\ \A k \in Tracked : states[k].mode # "confirm6"
  BY DEF FenceData, TypeInv, TypeOK, Workers, Threads, NoConfirms
<1>1. ASSUME GoesOn(w), monitor' = monitor PROVE \A x \in Threads' : x \in Threads \/ x.kind = "probe"
  <2>1. PICK v : SameWorker(v, w) /\ workers' = (workers \ {w}) \cup {v}
    BY <1>1 DEF GoesOn
  <2>2. v.kind = "probe"
    BY <1>0, <2>1 DEF SameWorker
  <2> QED BY <1>1, <2>1, <2>2 DEF Threads
<1>2. CASE Looks(w)
  <2>1. GoesOn(w) /\ monitor' = monitor /\ states' = states
    BY <1>0, <1>2, LooksEffect
  <2> QED BY <1>0, <1>1, <2>1 DEF NoConfirms, Tracked
<1>3. CASE ~Looks(w)
  <2>1. ActsOn(w)
    BY <1>0, <1>3, ActsOnOne DEF WorkerStep, Looks
  <2>2. OthersKept(w.key) /\ monitor' = monitor
    BY <2>1 DEF ActsOn, OthersKept
  <2>3. \A x \in Threads' : x \in Threads \/ x.kind = "probe"
    <3>1. GoesOn(w) \/ workers' = workers \ {w}
      <4>1. CASE ProbeSetup(w) \/ ProbeExhausted(w)
        BY <1>0, <4>1, SetupEffect, ExhaustEffect
      <4>2. CASE ProbePromotes(w)
        BY <1>0, <4>2, PromoteEffect
      <4>3. CASE ConfirmRekeys(w) \/ ConfirmFinalizes(w) \/ ConfirmTimesOut(w)
        BY <1>0, <4>3 DEF ConfirmRekeys, ConfirmFinalizes, ConfirmTimesOut, AtConfirm
      <4>4. CASE WorkerEnds(w)
        BY <4>4 DEF WorkerEnds
      <4> QED BY <1>3, <4>1, <4>2, <4>3, <4>4 DEF WorkerStep, Looks
    <3>2. CASE workers' = workers \ {w}
      BY <2>2, <3>2 DEF Threads
    <3> QED BY <1>1, <2>2, <3>1, <3>2
  <2>4. states'[w.key] # NoState /\ states'[w.key].mode = "confirm6" =>
           states[w.key] # NoState /\ states[w.key].mode = "confirm6"
    <3>1. CASE ProbeSetup(w) \/ ProbeExhausted(w)
      BY <1>0, <3>1, SetupEffect, ExhaustEffect DEF Turns
    <3>2. CASE ProbePromotes(w)
      BY <1>0, <3>2, PromoteEffect DEF Turns
    <3>3. CASE ConfirmRekeys(w) \/ ConfirmFinalizes(w) \/ ConfirmTimesOut(w)
      BY <1>0, <3>3 DEF ConfirmRekeys, ConfirmFinalizes, ConfirmTimesOut, AtConfirm
    <3>4. CASE WorkerEnds(w)
      BY <1>0, <3>4, EndEffect
    <3> QED BY <1>3, <3>1, <3>2, <3>3, <3>4 DEF WorkerStep, Looks
  <2> QED BY <1>0, <2>2, <2>3, <2>4, OnePeerProbes
<1> QED BY <1>2, <1>3

LEMMA NextNoConfirms ==
    ASSUME ~MayRestart, FenceData, NoConfirms, [Next]_vars
    PROVE  NoConfirms'
<1>0. TypeInv
  BY DEF FenceData
<1>1. ASSUME NEW k \in Keys, NEW o \in Offers, HandleOffer(k, o) PROVE NoConfirms'
  <2>1. /\ OthersKept(k) /\ states'[k] # NoState /\ monitor' = monitor
        /\ OfferKeeps(k) \/ OfferProbes(k, o) \/ OfferStops(k) \/ OfferRenews(k)
    BY <1>0, <1>1, OfferEffect DEF HandleOffer
  <2>2. workers' \subseteq workers \cup {Probe(k, NextGeneration)}
    BY <2>1 DEF OfferKeeps, OfferProbes, OfferStops, OfferRenews
  <2>3. \A x \in Threads' : x \in Threads \/ x.kind = "probe"
    BY <2>1, <2>2 DEF Threads, Probe
  <2>4. states'[k].mode = "confirm6" => states[k] # NoState /\ states[k].mode = "confirm6"
    BY <2>1 DEF OfferKeeps, OfferProbes, OfferStops, OfferRenews
  <2> QED BY <2>1, <2>3, <2>4, OnePeerProbes
<1>2. ASSUME NEW k \in Keys, NEW n, NEW reason, HandleRemove(k, n, reason) PROVE NoConfirms'
  <2>1. /\ OthersKept(k) /\ workers' = workers /\ monitor' = monitor /\ states[k] # NoState
        /\ LosesControl(k) \/ Dropped(k) \/ states' = states
    BY <1>0, <1>2, RemoveEffect DEF HandleRemove
  <2> QED BY <2>1, OnePeerProbes DEF LosesControl, Dropped, Threads
<1>3. ASSUME NEW active, CleanupInitiatorStates(active) PROVE NoConfirms'
  <2>1. workers' = workers /\ monitor' = monitor
    BY <1>3 DEF CleanupInitiatorStates
  <2>2. \A k \in Keys : states'[k] = NoState \/ states'[k] = states[k]
    BY <1>0, <1>3, CleanupEffect
  <2> QED BY <2>1, <2>2 DEF NoConfirms, Threads, Tracked
<1>4. CASE MonitorStep
  <2>1. CASE MonitorBegin \/ MonitorEnd \/ \E k \in Keys : MonitorFails(k)
    <3>1. states' = states
      BY <2>1 DEF MonitorBegin, MonitorEnd, MonitorFails
    <3>2. Threads' \subseteq Threads
      <4>1. workers' \in {workers, workers \cup monitor.launches}
        BY <2>1 DEF MonitorBegin, MonitorEnd, MonitorFails
      <4>2. monitor'.launches = {}
        <5>1. MonitorBegin \/ monitor' = NoPass
          BY <2>1 DEF MonitorEnd, MonitorFails
        <5> QED BY <5>1 DEF MonitorBegin, NoPass
      <4> QED BY <4>1, <4>2 DEF Threads
    <3> QED BY <3>1, <3>2 DEF NoConfirms, Tracked
  <2>2. ASSUME NEW k \in Keys, MonitorPeer(k) PROVE NoConfirms'
    <3>1. /\ OthersKept(k) /\ workers' = workers /\ states[k] # NoState
          /\ \/ VisitProbes(k)
             \/ /\ monitor'.launches = monitor.launches
                /\ LosesControl(k) \/ Dropped(k) \/ VisitNotes(k)
      BY <1>0, <2>2, PeerVisited
    <3>2. monitor'.launches \subseteq monitor.launches \cup {Probe(k, NextGeneration)}
      BY <3>1 DEF VisitProbes
    <3>3. \A x \in Threads' : x \in Threads \/ x.kind = "probe"
      BY <3>1, <3>2 DEF Threads, Probe
    <3>4. states'[k] # NoState /\ states'[k].mode = "confirm6" => states[k].mode = "confirm6"
      BY <3>1 DEF VisitProbes, LosesControl, Dropped, VisitNotes
    <3> QED BY <3>1, <3>3, <3>4, OnePeerProbes
  <2> QED BY <1>4, <2>1, <2>2 DEF MonitorStep
<1>5. ASSUME NEW w \in workers, WorkerStep(w) PROVE NoConfirms'
  BY <1>5, WorkerNoConfirms
<1>6. CASE AgentRestarts
  BY <1>6 DEF AgentRestarts, Restart
<1>7. CASE EnvironmentStep
  <2>1. workers' = workers /\ monitor' = monitor /\ \A k \in Keys : SameMode(k)
    BY <1>0, <1>7, EnvironmentEffect
  <2> QED BY <2>1 DEF NoConfirms, Threads, Tracked, SameMode
<1>8. CASE UNCHANGED vars
  BY <1>8 DEF NoConfirms, Threads, Tracked, vars
<1> QED BY <1>1, <1>2, <1>3, <1>4, <1>5, <1>6, <1>7, <1>8 DEF Next, EnvironmentStep

\* What a step may do to the route of peer k: the property below, for one peer.
Spared(k) ==
    states[k] # NoState /\ Healthy(wg[k]) /\ ~Confirming(states[k]) /\ ~Routed(wg'[k]) =>
        \/ states'[k] = NoState /\ ~monitor.active
        \/ monitor.active /\ ~Healthy(monitor.current[k])
        \/ states'[k] # NoState /\ states'[k].instance # states[k].instance
        \/ states'[k] # NoState /\ wg[k].endpoint \notin Listed(states'[k].candidates)

\* The route of a peer that a probe can act on is not there, and one that is
\* being confirmed is excused; nobody else takes a route out on its own account.
LEMMA WorkerSpares ==
    ASSUME "timedout" \notin WgOutcomes, Host6 = {} \/ WgOutcomes = {"done"},
           FenceData, RouteInv, NoConfirms, NEW w \in workers, WorkerStep(w), NEW j \in Keys
    PROVE  Spared(j)
<1> DEFINE k == w.key
<1>0. TypeInv /\ w \in Threads /\ k \in Keys /\ w.kind \in {"probe", "confirm6"}
  BY DEF FenceData, TypeInv, TypeOK, Workers, Threads
<1>1. wg'[j] = wg[j] => Spared(j)
  BY DEF Spared, Healthy
<1>2. CASE Looks(w)
  BY <1>0, <1>1, <1>2, LooksEffect
<1>3. CASE ~Looks(w) /\ j # k
  <2>1. ActsOn(w)
    BY <1>0, <1>3, ActsOnOne DEF WorkerStep, Looks
  <2> QED BY <1>1, <1>3, <2>1 DEF ActsOn
<1>4. CASE ~Looks(w) /\ j = k
  <2>1. w.kind = "probe" /\ w.pc # "finally" /\ ProbeCurrent(w) => ~Routed(wg[k])
    BY <1>0 DEF RouteInv, NotHandedOn, ProbesUnrouted, Tracked, ProbeCurrent, Current
  <2>2. ~Routed(wg[k]) \/ Routed(wg'[k]) \/ Confirming(states[k]) => Spared(k)
    BY DEF Spared, Healthy
  <2>3. CASE ProbeSetup(w) \/ ProbeExhausted(w)
    BY <1>0, <1>4, <2>1, <2>2, <2>3, SetupEffect, ExhaustEffect
  <2>4. CASE ProbePromotes(w)
    BY <1>0, <1>1, <1>4, <2>2, <2>4, PromoteEffect
  <2>5. CASE ConfirmRekeys(w)
    <3>1. w.kind = "confirm6" /\ (Routed(wg'[k]) \/ WgOutcomes # {"done"})
      BY <1>0, <2>5, RekeyEffect
    <3>2. Host6 # {}
      BY <1>0, <3>1 DEF NoConfirms
    <3> QED BY <2>2, <3>1, <3>2, <1>4
  <2>6. CASE ConfirmFinalizes(w)
    BY <1>0, <1>1, <1>4, <2>2, <2>6, FinalizeEffect
  <2>7. CASE ConfirmTimesOut(w)
    BY <1>0, <1>4, <2>2, <2>7, TimeoutEffect DEF ConfirmCurrent
  <2>8. CASE WorkerEnds(w)
    <3>1. Abandoned(w) => Confirming(states[k]) \/ ~Routed(wg[k])
      BY <1>0 DEF Abandoned, Current, Confirming, RouteInv, ProbesUnrouted, Tracked
    <3>2. Abandoned(w) \/ wg' = wg
      BY <1>0, <2>8, EndEffect
    <3> QED BY <1>1, <1>4, <2>2, <3>1, <3>2
  <2> QED BY <1>4, <2>3, <2>4, <2>5, <2>6, <2>7, <2>8 DEF WorkerStep, Looks
<1> QED BY <1>2, <1>3, <1>4

LEMMA OfferSpares ==
    ASSUME "timedout" \notin WgOutcomes, TypeInv,
           NEW k \in Keys, NEW o \in Offers, HandleOffer(k, o), NEW j \in Keys
    PROVE  Spared(j)
<1>1. /\ OthersKept(k) /\ states'[k] # NoState
      /\ OfferKeeps(k) \/ OfferProbes(k, o) \/ OfferStops(k) \/ OfferRenews(k)
  BY OfferEffect
<1>2. wg'[j] = wg[j] => Spared(j)
  BY DEF Spared, Healthy
<1>3. CASE j # k
  BY <1>1, <1>2, <1>3 DEF OthersKept
<1>4. CASE j = k /\ ~OfferProbes(k, o)
  BY <1>1, <1>2, <1>4 DEF OfferKeeps, OfferStops, OfferRenews, KernelKept
<1>5. CASE j = k /\ OfferProbes(k, o)
  <2> SUFFICES ASSUME states[k] # NoState, Healthy(wg[k])
               PROVE  \/ states'[k].instance # states[k].instance
                      \/ wg[k].endpoint \notin Listed(states'[k].candidates)
    BY <1>1, <1>5 DEF Spared
  <2>1. CASE Replaces(k, o)
    <3>1. states[k].instance # o.instance
      BY <2>1 DEF Replaces, InstanceChanged
    <3> QED BY <1>5, <2>1, <3>1 DEF OfferProbes
  <2>2. CASE ~Replaces(k, o)
    <3>1. wg[k].endpoint \notin Listed(o.candidates)
      BY <1>5, <2>2 DEF OfferProbes, KeepsDirect
    <3> QED BY <1>5, <3>1 DEF OfferProbes
  <2> QED BY <2>1, <2>2
<1> QED BY <1>3, <1>4, <1>5

LEMMA NextSpares ==
    ASSUME ~MayRestart, "timedout" \notin WgOutcomes, Host6 = {} \/ WgOutcomes = {"done"},
           FenceData, RouteInv, NoConfirms, [Next]_vars, NEW j \in Keys
    PROVE  Spared(j)
<1>0. TypeInv
  BY DEF FenceData
<1>1. wg'[j] = wg[j] => Spared(j)
  BY DEF Spared, Healthy
<1>2. ASSUME NEW k \in Keys, NEW o \in Offers, HandleOffer(k, o) PROVE Spared(j)
  BY <1>0, <1>2, OfferSpares
<1>3. ASSUME NEW k \in Keys, NEW n, NEW reason, HandleRemove(k, n, reason) PROVE Spared(j)
  <2>1. /\ OthersKept(k) /\ ~monitor.active
        /\ LosesControl(k) \/ Dropped(k) \/ KernelKept(k)
    BY <1>0, <1>3, RemoveEffect
  <2>2. CASE j # k
    BY <1>1, <2>1, <2>2 DEF OthersKept
  <2>3. CASE j = k
    BY <1>1, <2>1, <2>3 DEF LosesControl, Dropped, KernelKept, Spared
  <2> QED BY <2>2, <2>3
<1>4. ASSUME NEW active, CleanupInitiatorStates(active) PROVE Spared(j)
  <2>1. ~monitor.active /\ (states'[j] = NoState \/ wg'[j] = wg[j])
    BY <1>0, <1>4, CleanupEffect
  <2> QED BY <1>1, <2>1 DEF Spared
<1>5. CASE MonitorStep
  <2>1. CASE MonitorBegin \/ MonitorEnd
    BY <1>1, <2>1 DEF MonitorBegin, MonitorEnd
  <2>2. ASSUME NEW k \in Keys, MonitorPeer(k) PROVE Spared(j)
    <3>1. /\ OthersKept(k) /\ monitor.active
          /\ \/ VisitProbes(k)
             \/ LosesControl(k)
             \/ Dropped(k) /\ ~Healthy(monitor.current[k])
             \/ VisitNotes(k)
      BY <1>0, <2>2, PeerVisited
    <3>2. CASE j # k
      BY <1>1, <3>1, <3>2 DEF OthersKept
    <3>3. CASE j = k
      BY <1>1, <3>1, <3>3 DEF VisitProbes, LosesControl, VisitNotes, Spared, Healthy
    <3> QED BY <3>2, <3>3
  <2>3. ASSUME NEW k \in Keys, MonitorFails(k) PROVE Spared(j)
    <3>1. /\ monitor.active /\ ~Healthy(monitor.current[k])
          /\ \E r : wg' = [wg EXCEPT ![k] = AfterRemove(wg[k], r)]
      BY <2>3 DEF MonitorFails, StaleDirect
    <3>2. j # k => wg'[j] = wg[j]
      BY <1>0, <3>1 DEF TypeInv, TypeOK
    <3> QED BY <1>1, <3>1, <3>2 DEF Spared
  <2> QED BY <1>5, <2>1, <2>2, <2>3 DEF MonitorStep
<1>6. ASSUME NEW w \in workers, WorkerStep(w) PROVE Spared(j)
  BY <1>6, WorkerSpares
<1>7. CASE AgentRestarts
  BY <1>7 DEF AgentRestarts, Restart
<1>8. CASE EnvironmentStep
  BY <1>0, <1>8, EnvironmentEffect DEF RouteKept, Spared, Healthy
<1>9. CASE UNCHANGED vars
  BY <1>1, <1>9 DEF vars
<1> QED BY <1>2, <1>3, <1>4, <1>5, <1>6, <1>7, <1>8, <1>9 DEF Next, EnvironmentStep

LEMMA NoConfirmsHolds ==
    ASSUME ~MayRestart
    PROVE  Spec => []NoConfirms
<1>1. Init => NoConfirms
  BY DEF Init, NoPass, NoConfirms, Threads, Tracked
<1>2. FenceData /\ NoConfirms /\ [Next]_vars => NoConfirms'
  BY NextNoConfirms
<1> QED BY <1>1, <1>2, FenceHolds, PTL DEF Spec

\* While the process lives, the control plane does not cut a healthy direct
\* (handle_offer, handle_remove, monitor_once and the workers).  A command that
\* takes effect and is reported as failed, or a re-key that fails after the
\* removal, would do so: see README.
THEOREM HealthyDirectsSurvive ==
    ASSUME ~MayRestart, "timedout" \notin WgOutcomes, Host6 = {} \/ WgOutcomes = {"done"}
    PROVE  Spec => HealthyDirectSurvives
<1>1. FenceData /\ RouteInv /\ NoConfirms /\ [Next]_vars => \A k \in Tracked : Spared(k)
  BY NextSpares DEF Tracked
<1>2. (\A k \in Tracked : Spared(k)) =>
         \A k \in Tracked :
            Healthy(wg[k]) /\ ~Confirming(states[k]) /\ ~Routed(wg'[k]) =>
               \/ states'[k] = NoState /\ ~monitor.active
               \/ monitor.active /\ ~Healthy(monitor.current[k])
               \/ states'[k] # NoState /\ states'[k].instance # states[k].instance
               \/ states'[k] # NoState /\ wg[k].endpoint \notin Listed(states'[k].candidates)
  BY DEF Spared, Tracked
<1>3. Spec => [](FenceData /\ RouteInv) /\ []NoConfirms
  BY RouteHolds, NoConfirmsHolds, PTL
<1> QED BY <1>1, <1>2, <1>3, PTL DEF Spec, HealthyDirectSurvives

-----------------------------------------------------------------------------
(* The recorded mode and the kernel.  Mode "direct" stands for a /32 route   *)
(* over a handshake: the one that the promoting probe, or the finalizing     *)
(* confirmation, has seen, whose kernel peer nobody removes while the thread *)
(* is current.                                                               *)

LandsAlive == \A w \in workers : Landing(w) /\ ProbeCurrent(w) => Shaken(wg[w.key])

\* What the pass has seen to be shaken still is.
PassSeesShaken == monitor.active =>
    \A k \in monitor.todo : Shaken(monitor.current[k]) => Shaken(wg[k])

DirectPeer(k) ==
    /\ Routed(wg[k]) => states[k] # NoState /\ states[k].mode \in {"direct", "confirm6"}
    /\ states[k] # NoState /\ states[k].mode = "direct" => Routed(wg[k]) /\ Shaken(wg[k])

DirectInv == LandsAlive /\ PassSeesShaken /\ \A k \in Keys : DirectPeer(k)

\* The landing threads were landing before, or are about to.
LandingKnown(k) ==
    \A x \in workers' : Landing(x) =>
        \/ \E y \in workers : Landing(y) /\ SameWorker(x, y)
        \/ x.key = k /\ x.generation # NextGeneration /\ Shaken(wg[k])

\* A peer that a thread is landing on keeps its handshake.
LandingKept(k) ==
    states'[k] # NoState /\ states'[k].running =>
        \/ states'[k].generation = NextGeneration
        \/ /\ states[k] # NoState /\ states[k].running
           /\ states'[k].generation = states[k].generation
           /\ Shaken(wg[k]) => Shaken(wg'[k])
        \/ \A x \in workers' : Landing(x) => x.generation # states'[k].generation

LEMMA OnePeerDirect ==
    ASSUME FenceData, DirectInv, NEW k \in Keys, OthersKept(k),
           LandingKnown(k), LandingKept(k), DirectPeer(k)',
           \/ ~monitor'.active
           \/ /\ monitor.active /\ monitor'.current = monitor.current
              /\ monitor'.todo \subseteq monitor.todo \ {k} /\ monitor'.todo \subseteq Keys
    PROVE  DirectInv'
<1>1. ASSUME NEW j \in Keys PROVE DirectPeer(j)'
  <2>1. CASE j # k
    BY <2>1 DEF DirectInv, DirectPeer, OthersKept
  <2> QED BY <2>1
<1>2. ASSUME NEW x \in workers', Landing(x), ProbeCurrent(x)' PROVE Shaken(wg'[x.key])
  <2>1. /\ states'[x.key] # NoState /\ states'[x.key].generation = x.generation
        /\ states'[x.key].running
    BY <1>2 DEF ProbeCurrent, Current
  <2>2. /\ lastGeneration \in Nat /\ NextGeneration = lastGeneration + 1
        /\ \A y \in workers : y.key \in Keys /\ y.generation \in 1..lastGeneration
    BY DEF FenceData, FenceInv, TypeInv, TypeOK, Workers, Threads, NextGeneration
  <2>3. CASE \E y \in workers : Landing(y) /\ SameWorker(x, y)
    <3>1. PICK y \in workers : Landing(y) /\ SameWorker(x, y)
      BY <2>3
    <3>2. x.key = y.key /\ x.generation = y.generation /\ x.generation # NextGeneration
          /\ x.key \in Keys
      BY <2>2, <3>1 DEF SameWorker
    <3>3. /\ states[x.key] # NoState /\ states[x.key].running
          /\ states[x.key].generation = x.generation
          /\ Shaken(wg[x.key]) => Shaken(wg'[x.key])
      <4>1. CASE x.key = k
        BY <1>2, <2>1, <3>2, <4>1 DEF LandingKept
      <4>2. CASE x.key # k
        BY <2>1, <3>2, <4>2 DEF OthersKept
      <4> QED BY <4>1, <4>2
    <3>4. ProbeCurrent(y)
      BY <3>2, <3>3 DEF ProbeCurrent, Current
    <3> QED BY <3>1, <3>2, <3>3, <3>4 DEF DirectInv, LandsAlive
  <2>4. CASE x.key = k /\ x.generation # NextGeneration /\ Shaken(wg[k])
    BY <1>2, <2>1, <2>4 DEF LandingKept
  <2> QED BY <1>2, <2>3, <2>4 DEF LandingKnown
<1>3. PassSeesShaken'
  BY DEF DirectInv, PassSeesShaken, OthersKept
<1> QED BY <1>1, <1>2, <1>3 DEF DirectInv, LandsAlive, Landing

LEMMA SameLanding ==
    ASSUME NEW k, \A x \in workers' : x \in workers \/ ~Landing(x)
    PROVE  LandingKnown(k)
BY DEF LandingKnown, SameWorker

LEMMA MovedLanding ==
    ASSUME FenceData, NEW w \in workers, GoesOn(w)
    PROVE  LandingKnown(w.key)
<1>1. PICK v : /\ SameWorker(v, w) /\ workers' = (workers \ {w}) \cup {v}
               /\ Landing(v) => Shaken(wg[w.key])
  BY DEF GoesOn
<1>2. w.generation # NextGeneration
  BY DEF FenceData, FenceInv, TypeInv, TypeOK, Threads, NextGeneration
<1>3. \A x \in workers' : x \in workers \/ x = v
  BY <1>1
<1>4. ASSUME NEW x \in workers', Landing(x)
      PROVE  \/ \E y \in workers : Landing(y) /\ SameWorker(x, y)
             \/ x.key = w.key /\ x.generation # NextGeneration /\ Shaken(wg[w.key])
  <2>1. CASE x \in workers
    BY <1>4, <2>1 DEF SameWorker
  <2>2. CASE x = v
    BY <1>1, <1>2, <1>4, <2>2 DEF SameWorker
  <2> QED BY <1>3, <2>1, <2>2
<1> QED BY <1>4 DEF LandingKnown

LEMMA OfferDirect ==
    ASSUME "timedout" \notin WgOutcomes, FenceData, DirectInv,
           NEW k \in Keys, NEW o \in Offers, HandleOffer(k, o)
    PROVE  DirectInv'
<1> DEFINE t == states'[k]
<1>0. TypeInv /\ wg[k] \in KernelPeers \cup {NoPeer} /\ DirectPeer(k)
  BY DEF FenceData, TypeInv, TypeOK, DirectInv
<1>1. /\ OthersKept(k) /\ t # NoState /\ ~monitor'.active
      /\ OfferKeeps(k) \/ OfferProbes(k, o) \/ OfferStops(k) \/ OfferRenews(k)
  BY <1>0, OfferEffect DEF HandleOffer, LockFree
<1>2. LandingKnown(k)
  <2>1. workers' \subseteq workers \cup {Probe(k, NextGeneration)}
    BY <1>1 DEF OfferKeeps, OfferProbes, OfferStops, OfferRenews
  <2>2. ~Landing(Probe(k, NextGeneration))
    BY DEF Probe, Landing
  <2> QED BY <2>1, <2>2, SameLanding
<1>3. CASE OfferKeeps(k)
  <2>1. DirectPeer(k)'
    BY <1>0, <1>1, <1>3 DEF OfferKeeps, DirectPeer, Healthy, Routed, Shaken
  <2> QED BY <1>1, <1>2, <1>3, <2>1, OnePeerDirect DEF OfferKeeps, LandingKept
<1>4. CASE OfferProbes(k, o)
  <2>1. DirectPeer(k)'
    BY <1>1, <1>4 DEF OfferProbes, DirectPeer
  <2> QED BY <1>1, <1>2, <1>4, <2>1, OnePeerDirect DEF OfferProbes, LandingKept
<1>5. CASE OfferStops(k)
  <2>1. wg'[k] = wg[k]
    BY <1>5 DEF OfferStops, KernelKept
  <2>2. DirectPeer(k)'
    BY <1>0, <1>1, <1>5, <2>1 DEF OfferStops, DirectPeer, Healthy, Routed, Shaken
  <2> QED BY <1>1, <1>2, <1>5, <2>2, OnePeerDirect DEF OfferStops, LandingKept
<1>6. CASE OfferRenews(k)
  <2>1. wg'[k] = wg[k]
    BY <1>6 DEF OfferRenews, KernelKept
  <2>2. DirectPeer(k)'
    BY <1>0, <1>1, <1>6, <2>1 DEF OfferRenews, DirectPeer
  <2> QED BY <1>1, <1>2, <1>6, <2>1, <2>2, OnePeerDirect DEF OfferRenews, LandingKept
<1> QED BY <1>1, <1>3, <1>4, <1>5, <1>6

LEMMA RemoveDirect ==
    ASSUME "timedout" \notin WgOutcomes, FenceData, DirectInv,
           NEW k \in Keys, NEW n, NEW reason, HandleRemove(k, n, reason)
    PROVE  DirectInv'
<1>0. TypeInv /\ wg[k] \in KernelPeers \cup {NoPeer} /\ DirectPeer(k)
  BY DEF FenceData, TypeInv, TypeOK, DirectInv
<1>1. /\ OthersKept(k) /\ workers' = workers /\ ~monitor'.active
      /\ \/ LosesControl(k) /\ Healthy(wg[k])
         \/ Dropped(k)
         \/ states' = states /\ KernelKept(k)
  BY <1>0, RemoveEffect
<1>2. LandingKnown(k)
  BY <1>1, SameLanding
<1>3. CASE LosesControl(k) /\ Healthy(wg[k])
  <2>1. DirectPeer(k)'
    BY <1>0, <1>3 DEF LosesControl, DirectPeer, Healthy, Routed, Shaken
  <2> QED BY <1>1, <1>2, <1>3, <2>1, OnePeerDirect DEF LosesControl, LandingKept
<1>4. CASE Dropped(k)
  <2>1. DirectPeer(k)'
    BY <1>4 DEF Dropped, DirectPeer
  <2> QED BY <1>1, <1>2, <1>4, <2>1, OnePeerDirect DEF Dropped, LandingKept
<1>5. CASE states' = states /\ KernelKept(k)
  <2>1. wg'[k] = wg[k]
    BY <1>5 DEF KernelKept
  <2>2. DirectPeer(k)'
    BY <1>0, <1>5, <2>1 DEF DirectPeer
  <2> QED BY <1>1, <1>2, <1>5, <2>1, <2>2, OnePeerDirect DEF LandingKept
<1> QED BY <1>1, <1>3, <1>4, <1>5

LEMMA VisitDirect ==
    ASSUME FenceData, RouteInv, DirectInv, NEW k \in Keys, MonitorPeer(k)
    PROVE  DirectInv'
<1> DEFINE s == states[k]
           t == states'[k]
<1>0. TypeInv /\ DirectPeer(k) /\ monitor.todo \subseteq Keys
  BY DEF FenceData, DirectInv, TypeInv, TypeOK, MonitorPasses
<1>1. /\ OthersKept(k) /\ workers' = workers /\ s # NoState
      /\ monitor.active /\ k \in monitor.todo
      /\ monitor'.current = monitor.current /\ monitor'.todo = monitor.todo \ {k}
      /\ \/ VisitProbes(k)
         \/ LosesControl(k) /\ Healthy(monitor.current[k])
         \/ Dropped(k)
         \/ VisitNotes(k)
  BY <1>0, PeerVisited
<1>2. LandingKnown(k)
  BY <1>1, SameLanding
<1>3. /\ Routed(monitor.current[k]) <=> Routed(wg[k])
      /\ Healthy(monitor.current[k]) => Routed(wg[k]) /\ Shaken(wg[k])
  BY <1>1 DEF RouteInv, PassSees, DirectInv, PassSeesShaken, Healthy, Routed, Shaken
<1>4. CASE VisitProbes(k)
  <2>1. DirectPeer(k)'
    BY <1>0, <1>1, <1>3, <1>4 DEF VisitProbes, DirectPeer
  <2> QED BY <1>0, <1>1, <1>2, <1>4, <2>1, OnePeerDirect DEF VisitProbes, LandingKept
<1>5. CASE LosesControl(k) /\ Healthy(monitor.current[k])
  <2>1. DirectPeer(k)'
    BY <1>0, <1>3, <1>5 DEF LosesControl, DirectPeer
  <2> QED BY <1>0, <1>1, <1>2, <1>5, <2>1, OnePeerDirect DEF LosesControl, LandingKept
<1>6. CASE Dropped(k)
  <2>1. DirectPeer(k)'
    BY <1>6 DEF Dropped, DirectPeer
  <2> QED BY <1>0, <1>1, <1>2, <1>6, <2>1, OnePeerDirect DEF Dropped, LandingKept
<1>7. CASE VisitNotes(k)
  <2>1. DirectPeer(k)'
    BY <1>0, <1>1, <1>3, <1>7 DEF VisitNotes, DirectPeer
  <2> QED BY <1>0, <1>1, <1>2, <1>7, <2>1, OnePeerDirect DEF VisitNotes, LandingKept
<1> QED BY <1>1, <1>4, <1>5, <1>6, <1>7

\* Re-keys clear the handshake: they are about the generation of their own
\* thread, whose probe is over.
LEMMA RekeyLanding ==
    ASSUME FenceData, NEW w \in workers, ConfirmRekeys(w), Turns(w.key, "confirm6", TRUE)
    PROVE  LandingKept(w.key)
<1>1. /\ Current(w) /\ w.kind = "confirm6"
      /\ \A x \in workers' : x \in workers \ {w} \/ ~Landing(x)
  BY RekeyEffect DEF FenceData
<1>2. states'[w.key].generation = w.generation
  BY <1>1 DEF Turns, Current
<1>3. ASSUME NEW x \in workers', Landing(x), x.generation = w.generation PROVE FALSE
  <2>1. x \in workers /\ x # w /\ x \in Threads /\ w \in Threads
    BY <1>1, <1>3 DEF Threads
  <2>2. x.kind \in {"probe", "confirm6"}
    BY <2>1 DEF FenceData, TypeInv, TypeOK, Workers
  <2>3. x.kind = "probe" /\ x.pc = "finally"
    BY <1>1, <1>3, <2>1, <2>2 DEF FenceData, FenceInv
  <2> QED BY <1>3, <2>3 DEF Landing
<1> QED BY <1>2, <1>3 DEF LandingKept

LEMMA WorkerDirect ==
    ASSUME "timedout" \notin WgOutcomes, Host6 = {} \/ WgOutcomes = {"done"},
           FenceData, RouteInv, NoConfirms, DirectInv, NEW w \in workers, WorkerStep(w)
    PROVE  DirectInv'
<1> DEFINE k == w.key
           s == states[k]
           t == states'[k]
<1>0. /\ TypeInv /\ k \in Keys /\ w \in Threads /\ DirectPeer(k)
      /\ w.kind \in {"probe", "confirm6"} /\ (w.kind = "confirm6" => WgOutcomes = {"done"})
      /\ w.generation # NextGeneration
  BY DEF FenceData, FenceInv, TypeInv, TypeOK, Workers, Threads, NoConfirms, DirectInv, NextGeneration
<1>1. CASE Looks(w)
  <2>1. GoesOn(w) /\ states' = states /\ wg' = wg /\ monitor' = monitor
    BY <1>0, <1>1, LooksEffect
  <2>2. LandingKnown(k)
    BY <2>1, MovedLanding
  <2>3. LandsAlive'
    <3> SUFFICES ASSUME NEW x \in workers', Landing(x), ProbeCurrent(x)'
                 PROVE  Shaken(wg'[x.key])
      BY DEF LandsAlive, Landing
    <3> QED BY <2>1, <2>2 DEF LandingKnown, SameWorker, DirectInv, LandsAlive, ProbeCurrent, Current
  <2> QED BY <2>1, <2>3 DEF DirectInv, PassSeesShaken, DirectPeer
<1>2. CASE ~Looks(w)
  <2>1. ActsOn(w)
    BY <1>0, <1>2, ActsOnOne DEF WorkerStep, Looks
  <2>2. OthersKept(k) /\ ~monitor'.active
    BY <2>1 DEF ActsOn, OthersKept
  <2>3. w.kind = "probe" /\ w.pc # "finally" /\ ProbeCurrent(w) =>
           s # NoState /\ s.running /\ ~Routed(wg[k]) /\ s.mode # "direct"
    BY <1>0 DEF RouteInv, ProbesUnrouted, NotHandedOn, Tracked, ProbeCurrent, Current, DirectPeer
  <2>4. CASE ProbeSetup(w)
    <3>1. /\ ProbeCurrent(w) /\ w.kind = "probe" /\ w.pc # "finally" /\ GoesOn(w) /\ RouteKept(k)
          /\ states' = states \/ Turns(k, "probe", s.running)
      BY <1>0, <2>4, SetupEffect
    <3>2. LandingKept(k) /\ DirectPeer(k)'
      BY <1>0, <2>3, <3>1 DEF RouteKept, Turns, LandingKept, DirectPeer
    <3> QED BY <1>0, <2>2, <3>1, <3>2, MovedLanding, OnePeerDirect
  <2>5. CASE ProbePromotes(w)
    <3>1. /\ ProbeCurrent(w) /\ w.kind = "probe" /\ w.pc = "promote"
          /\ \/ Turns(k, "direct", FALSE) /\ Routed(wg'[k]) /\ (Shaken(wg[k]) => Shaken(wg'[k]))
             \/ states' = states /\ wg' = wg
      BY <1>0, <2>5, PromoteEffect
    <3>2. Shaken(wg[k])
      BY <3>1 DEF DirectInv, LandsAlive, Landing
    <3>3. LandingKept(k) /\ DirectPeer(k)'
      BY <1>0, <2>3, <3>1, <3>2 DEF Turns, LandingKept, DirectPeer
    <3>4. LandingKnown(k)
      <4>1. \/ GoesOn(w)
            \/ \E f, c : /\ workers' = (workers \ {w}) \cup {f, c}
                         /\ SameWorker(f, w) /\ f.pc = "finally"
                         /\ c.generation = w.generation /\ c.key = w.key
                         /\ c.kind = "confirm6" /\ c.pc = "wait"
        BY <1>0, <2>5, PromoteEffect
      <4>2. GoesOn(w) \/ \A x \in workers' : x \in workers \/ ~Landing(x)
        BY <4>1 DEF Landing
      <4> QED BY <4>2, MovedLanding, SameLanding
    <3> QED BY <1>0, <2>2, <3>3, <3>4, OnePeerDirect
  <2>6. CASE ProbeExhausted(w)
    <3>1. /\ ProbeCurrent(w) /\ w.kind = "probe" /\ w.pc # "finally" /\ GoesOn(w)
          /\ Turns(k, "idle", FALSE) /\ (Routed(wg'[k]) => Routed(wg[k]))
      BY <1>0, <2>6, ExhaustEffect
    <3>2. LandingKept(k) /\ DirectPeer(k)'
      BY <1>0, <2>3, <3>1 DEF Turns, LandingKept, DirectPeer
    <3> QED BY <1>0, <2>2, <3>1, <3>2, MovedLanding, OnePeerDirect
  <2>7. CASE ConfirmRekeys(w)
    <3>1. GoesOn(w) /\ Turns(k, "confirm6", TRUE) /\ Routed(wg'[k])
      BY <1>0, <2>7, RekeyEffect
    <3>2. LandingKept(k) /\ DirectPeer(k)'
      BY <2>7, <3>1, RekeyLanding DEF Turns, DirectPeer
    <3> QED BY <1>0, <2>2, <3>1, <3>2, MovedLanding, OnePeerDirect
  <2>8. CASE ConfirmFinalizes(w)
    <3>1. /\ ConfirmCurrent(w) /\ w.pc = "finalize" /\ GoesOn(w)
          /\ \/ Turns(k, "direct", FALSE) /\ Routed(wg'[k]) /\ (Shaken(wg[k]) => Shaken(wg'[k]))
             \/ states' = states /\ wg' = wg
      BY <1>0, <2>8, FinalizeEffect
    <3>2. Shaken(wg[k])
      BY <3>1 DEF DirectInv, LandsAlive, Landing, ConfirmCurrent, ProbeCurrent, Confirming
    <3>3. LandingKept(k) /\ DirectPeer(k)'
      BY <1>0, <3>1, <3>2 DEF Turns, LandingKept, DirectPeer
    <3> QED BY <1>0, <2>2, <3>1, <3>3, MovedLanding, OnePeerDirect
  <2>9. CASE ConfirmTimesOut(w)
    <3>1. GoesOn(w) /\ Turns(k, "idle", FALSE) /\ ~Routed(wg'[k])
      BY <1>0, <2>9, TimeoutEffect
    <3>2. LandingKept(k) /\ DirectPeer(k)'
      BY <3>1 DEF Turns, LandingKept, DirectPeer
    <3> QED BY <1>0, <2>2, <3>1, <3>2, MovedLanding, OnePeerDirect
  <2>10. CASE WorkerEnds(w)
    <3>1. LandingKnown(k)
      BY <2>10, SameLanding DEF WorkerEnds
    <3>2. CASE ~Abandoned(w)
      <4>1. states' = states /\ wg' = wg
        BY <1>0, <2>10, <3>2, EndEffect
      <4>2. LandingKept(k) /\ DirectPeer(k)'
        BY <1>0, <4>1 DEF LandingKept, DirectPeer
      <4> QED BY <1>0, <2>2, <3>1, <4>2, OnePeerDirect
    <3>3. CASE Abandoned(w)
      <4>1. /\ Routed(wg'[k]) => Routed(wg[k])
            /\ WgOutcomes = {"done"} => ~Routed(wg'[k])
            /\ t # NoState /\ t.mode = "idle" /\ ~t.running
        BY <1>0, <2>10, <3>3, EndEffect
      <4>2. w.kind = "probe" => ~Routed(wg[k])
        BY <1>0, <3>3 DEF Abandoned, Current, RouteInv, ProbesUnrouted, Tracked
      <4>3. LandingKept(k) /\ DirectPeer(k)'
        BY <1>0, <4>1, <4>2 DEF LandingKept, DirectPeer
      <4> QED BY <1>0, <2>2, <3>1, <4>3, OnePeerDirect
    <3> QED BY <3>2, <3>3
  <2> QED BY <1>2, <2>4, <2>5, <2>6, <2>7, <2>8, <2>9, <2>10 DEF WorkerStep, Looks
<1> QED BY <1>1, <1>2

LEMMA NextDirect ==
    ASSUME ~MayRestart, "timedout" \notin WgOutcomes, Host6 = {} \/ WgOutcomes = {"done"},
           "initiator" \notin Controllers \/ "failed" \notin WgOutcomes,
           FenceData, RouteInv, NoConfirms, DirectInv, [Next]_vars
    PROVE  DirectInv'
<1>0. TypeInv /\ monitor.todo \subseteq Keys /\ \A w \in workers : w.key \in Keys
  BY DEF FenceData, TypeInv, TypeOK, Workers, MonitorPasses
<1>1. ASSUME NEW k \in Keys, NEW o \in Offers, HandleOffer(k, o) PROVE DirectInv'
  BY <1>1, OfferDirect
<1>2. ASSUME NEW k \in Keys, NEW n, NEW reason, HandleRemove(k, n, reason) PROVE DirectInv'
  BY <1>2, RemoveDirect
<1>3. ASSUME NEW active, CleanupInitiatorStates(active), Next PROVE DirectInv'
  <2>1. workers' = workers /\ ~monitor'.active
    BY <1>3 DEF CleanupInitiatorStates, LockFree
  <2>2. \A k \in Keys : states'[k] = NoState \/ (states'[k] = states[k] /\ wg'[k] = wg[k])
    BY <1>0, <1>3, CleanupEffect
  <2>3. NoOrphanRoute'
    BY <1>0, NextNoOrphan DEF DirectInv, DirectPeer, NoOrphanRoute
  <2>4. \A k \in Keys : DirectPeer(k)'
    BY <2>2, <2>3 DEF DirectInv, DirectPeer, NoOrphanRoute
  <2>5. LandsAlive'
    BY <1>0, <2>1, <2>2 DEF DirectInv, LandsAlive, Landing, ProbeCurrent, Current
  <2> QED BY <2>1, <2>4, <2>5 DEF DirectInv, PassSeesShaken
<1>4. CASE MonitorStep
  <2>1. ASSUME NEW k \in Keys, MonitorPeer(k) PROVE DirectInv'
    BY <2>1, VisitDirect
  <2>2. CASE MonitorBegin \/ MonitorEnd \/ \E k \in Keys : MonitorFails(k)
    <3>1. /\ states' = states /\ wg' = wg /\ workers' \subseteq workers \cup monitor.launches
          /\ ~monitor'.active \/ monitor'.current = wg
      <4>1. states' = states /\ wg' = wg
        BY <1>0, <2>2, PassKeepsKernel
      <4>2. CASE MonitorBegin
        BY <4>1, <4>2 DEF MonitorBegin
      <4>3. CASE MonitorEnd \/ \E k \in Keys : MonitorFails(k)
        <5>1. monitor' = NoPass /\ workers' \in {workers, workers \cup monitor.launches}
          BY <4>3 DEF MonitorEnd, MonitorFails
        <5> QED BY <4>1, <5>1 DEF NoPass
      <4> QED BY <2>2, <4>2, <4>3
    <3>2. \A x \in workers' : x \in workers \/ ~Landing(x)
      BY <1>0, <3>1 DEF TypeInv, PassInv, Landing
    <3>3. LandsAlive'
      BY <3>1, <3>2 DEF DirectInv, LandsAlive, Landing, ProbeCurrent, Current
    <3> QED BY <3>1, <3>3 DEF DirectInv, DirectPeer, PassSeesShaken
  <2> QED BY <1>4, <2>1, <2>2 DEF MonitorStep
<1>5. ASSUME NEW w \in workers, WorkerStep(w) PROVE DirectInv'
  BY <1>5, WorkerDirect
<1>6. CASE AgentRestarts
  BY <1>6 DEF AgentRestarts, Restart
<1>7. CASE EnvironmentStep
  <2>1. /\ workers' = workers /\ monitor' = monitor
        /\ \A k \in Keys : RouteKept(k) /\ SameMode(k)
    BY <1>0, <1>7, EnvironmentEffect
  <2>2. \A k \in Keys : DirectPeer(k)'
    BY <2>1 DEF DirectInv, DirectPeer, RouteKept, SameMode
  <2>3. LandsAlive'
    BY <1>0, <2>1 DEF DirectInv, LandsAlive, Landing, ProbeCurrent, Current, RouteKept, SameMode
  <2>4. PassSeesShaken'
    BY <1>0, <2>1 DEF DirectInv, PassSeesShaken, RouteKept
  <2> QED BY <2>2, <2>3, <2>4 DEF DirectInv
<1>8. CASE UNCHANGED vars
  BY <1>8 DEF DirectInv, LandsAlive, Landing, PassSeesShaken, DirectPeer, ProbeCurrent, Current, vars
<1> QED BY <1>1, <1>2, <1>3, <1>4, <1>5, <1>6, <1>7, <1>8 DEF Next, EnvironmentStep

\* "direct" in the state of a peer means a /32 route in the kernel, over a
\* handshake, and no other peer has one but those that are being re-keyed
\* (promote, handle_offer, monitor_once, the workers).  The hypotheses name
\* what breaks it: see README.
THEOREM RecordedModesMatch ==
    ASSUME ~MayRestart, "timedout" \notin WgOutcomes, Host6 = {} \/ WgOutcomes = {"done"},
           "initiator" \notin Controllers \/ "failed" \notin WgOutcomes
    PROVE  Spec => []DirectMatchesKernel
<1>1. Init => DirectInv
  BY DEF Init, NoPass, DirectInv, LandsAlive, PassSeesShaken, DirectPeer, Routed
<1>2. FenceData /\ RouteInv /\ NoConfirms /\ DirectInv /\ [Next]_vars => DirectInv'
  BY NextDirect
<1>3. DirectInv => DirectMatchesKernel
  BY DEF DirectInv, DirectPeer, DirectMatchesKernel, Tracked, Shaken
<1> QED BY <1>1, <1>2, <1>3, RouteHolds, NoConfirmsHolds, PTL DEF Spec

-----------------------------------------------------------------------------
(* Peers without a control session.  They have no probe, and a thread that   *)
(* is not theirs finds itself superseded, so that the pass alone can take    *)
(* the route out; it forgets the peer with it.                               *)

ExpiredPeer(k) ==
    states[k] # NoState /\ states[k].controlExpired => Routed(wg[k]) /\ ~states[k].running

ExpiredInv == \A k \in Keys : ExpiredPeer(k)

LEMMA OnePeerExpired ==
    ASSUME ExpiredInv, NEW k \in Keys, OthersKept(k), ExpiredPeer(k)'
    PROVE  ExpiredInv'
BY DEF ExpiredInv, ExpiredPeer, OthersKept

LEMMA WorkerExpired ==
    ASSUME "timedout" \notin WgOutcomes, Host6 = {}, FenceData, RouteInv, NoConfirms, ExpiredInv,
           NEW w \in workers, WorkerStep(w)
    PROVE  ExpiredInv'
<1> DEFINE k == w.key
           s == states[k]
           t == states'[k]
<1>0. /\ TypeInv /\ k \in Keys /\ w \in Threads /\ w.kind = "probe" /\ ExpiredPeer(k)
  BY DEF FenceData, TypeInv, TypeOK, Workers, Threads, NoConfirms, ExpiredInv
<1>1. CASE Looks(w)
  BY <1>0, <1>1, LooksEffect DEF ExpiredInv, ExpiredPeer
<1>2. CASE ~Looks(w)
  <2>1. OthersKept(k)
    BY <1>0, <1>2, ActsOnOne DEF WorkerStep, Looks, ActsOn, OthersKept
  <2>2. ProbeCurrent(w) => ~s.controlExpired
    BY <1>0 DEF ExpiredPeer, ProbeCurrent, Current
  <2>3. CASE ProbeSetup(w)
    BY <1>0, <2>1, <2>2, <2>3, SetupEffect, OnePeerExpired DEF Turns, ExpiredPeer
  <2>4. CASE ProbePromotes(w)
    <3>1. ProbeCurrent(w) /\ (Turns(k, "direct", FALSE) \/ states' = states)
      BY <1>0, <2>4, PromoteEffect
    <3> QED BY <1>0, <2>1, <2>2, <3>1, OnePeerExpired DEF Turns, ExpiredPeer
  <2>5. CASE ProbeExhausted(w)
    BY <1>0, <2>1, <2>2, <2>5, ExhaustEffect, OnePeerExpired DEF Turns, ExpiredPeer
  <2>6. CASE ConfirmRekeys(w) \/ ConfirmFinalizes(w) \/ ConfirmTimesOut(w)
    BY <1>0, <2>6 DEF ConfirmRekeys, ConfirmFinalizes, ConfirmTimesOut, AtConfirm
  <2>7. CASE WorkerEnds(w)
    <3>1. CASE ~Abandoned(w)
      BY <1>0, <2>7, <3>1, EndEffect DEF ExpiredInv, ExpiredPeer
    <3>2. CASE Abandoned(w)
      <4>1. t.controlExpired = s.controlExpired
        BY <1>0, <2>7, <3>2, EndEffect
      <4>2. ProbeCurrent(w)
        BY <3>2 DEF Abandoned, ProbeCurrent
      <4> QED BY <1>0, <2>1, <2>2, <4>1, <4>2, OnePeerExpired DEF ExpiredPeer
    <3> QED BY <3>1, <3>2
  <2> QED BY <1>2, <2>3, <2>4, <2>5, <2>6, <2>7 DEF WorkerStep, Looks
<1> QED BY <1>1, <1>2

LEMMA NextExpired ==
    ASSUME ~MayRestart, Host6 = {}, "timedout" \notin WgOutcomes,
           FenceData, RouteInv, NoConfirms, ExpiredInv, [Next]_vars
    PROVE  ExpiredInv'
<1>0. TypeInv /\ \A k \in Keys : ExpiredPeer(k)
  BY DEF FenceData, ExpiredInv
<1>1. ASSUME NEW k \in Keys, NEW o \in Offers, HandleOffer(k, o) PROVE ExpiredInv'
  <2>1. /\ OthersKept(k) /\ states'[k] # NoState
        /\ OfferKeeps(k) \/ OfferProbes(k, o) \/ OfferStops(k) \/ OfferRenews(k)
    BY <1>0, <1>1, OfferEffect
  <2>2. ExpiredPeer(k)'
    BY <1>0, <2>1 DEF OfferKeeps, OfferProbes, OfferStops, OfferRenews, KernelKept, ExpiredPeer
  <2> QED BY <2>1, <2>2, OnePeerExpired
<1>2. ASSUME NEW k \in Keys, NEW n, NEW reason, HandleRemove(k, n, reason) PROVE ExpiredInv'
  <2>1. /\ OthersKept(k)
        /\ \/ LosesControl(k) /\ Healthy(wg[k])
           \/ Dropped(k)
           \/ states' = states /\ KernelKept(k)
    BY <1>0, <1>2, RemoveEffect
  <2>2. ExpiredPeer(k)'
    BY <1>0, <2>1 DEF LosesControl, Dropped, KernelKept, ExpiredPeer, Healthy
  <2> QED BY <2>1, <2>2, OnePeerExpired
<1>3. ASSUME NEW active, CleanupInitiatorStates(active) PROVE ExpiredInv'
  <2>1. \A k \in Keys : states'[k] = NoState \/ (states'[k] = states[k] /\ wg'[k] = wg[k])
    BY <1>0, <1>3, CleanupEffect
  <2> QED BY <1>0, <2>1 DEF ExpiredInv, ExpiredPeer
<1>4. CASE MonitorStep
  <2>1. ASSUME NEW k \in Keys, MonitorPeer(k) PROVE ExpiredInv'
    <3>1. /\ OthersKept(k) /\ monitor.active /\ k \in monitor.todo
          /\ \/ VisitProbes(k)
             \/ LosesControl(k) /\ Healthy(monitor.current[k])
             \/ Dropped(k)
             \/ VisitNotes(k)
          /\ states[k] # NoState
      BY <1>0, <2>1, PeerVisited
    <3>2. Routed(monitor.current[k]) <=> Routed(wg[k])
      BY <3>1 DEF RouteInv, PassSees
    <3>3. ExpiredPeer(k)'
      BY <1>0, <3>1, <3>2
      DEF VisitProbes, LosesControl, Dropped, VisitNotes, ExpiredPeer, Healthy
    <3> QED BY <3>1, <3>3, OnePeerExpired
  <2>2. CASE MonitorBegin \/ MonitorEnd \/ \E k \in Keys : MonitorFails(k)
    BY <1>0, <2>2, PassKeepsKernel DEF ExpiredInv, ExpiredPeer
  <2> QED BY <1>4, <2>1, <2>2 DEF MonitorStep
<1>5. ASSUME NEW w \in workers, WorkerStep(w) PROVE ExpiredInv'
  BY <1>5, WorkerExpired
<1>6. CASE AgentRestarts
  BY <1>6 DEF AgentRestarts, Restart
<1>7. CASE EnvironmentStep
  <2>1. \A k \in Keys : RouteKept(k) /\ SameMode(k)
    BY <1>0, <1>7, EnvironmentEffect
  <2> QED BY <1>0, <2>1 DEF ExpiredInv, ExpiredPeer, RouteKept, SameMode
<1>8. CASE UNCHANGED vars
  BY <1>8 DEF ExpiredInv, ExpiredPeer, vars
<1> QED BY <1>1, <1>2, <1>3, <1>4, <1>5, <1>6, <1>7, <1>8 DEF Next, EnvironmentStep

\* A peer without a control session still has its /32 route (handle_remove,
\* monitor_once), so that the pass that finds the route stale ends the peer.
THEOREM ExpiredPeersAreDirect ==
    ASSUME ~MayRestart, Host6 = {}, "timedout" \notin WgOutcomes
    PROVE  Spec => []ExpiredKeptForDirect
<1>1. Init => ExpiredInv
  BY DEF Init, ExpiredInv, ExpiredPeer
<1>2. FenceData /\ RouteInv /\ NoConfirms /\ ExpiredInv /\ [Next]_vars => ExpiredInv'
  BY NextExpired
<1>3. ExpiredInv => ExpiredKeptForDirect
  BY DEF ExpiredInv, ExpiredPeer, ExpiredKeptForDirect, Tracked
<1> QED BY <1>1, <1>2, <1>3, RouteHolds, NoConfirmsHolds, PTL DEF Spec

-----------------------------------------------------------------------------
(* A peer that is marked as running has a thread.  A probe that the pass has *)
(* promised is for a peer that it has visited: a pass that is cut short at a *)
(* peer has no thread to lose for that one.                                  *)

LaunchesVisited == \A w \in monitor.launches : w.key \notin monitor.todo

RunInv == RunningHasWorker /\ LaunchesVisited

\* Peer k has the thread it needs.
Manned(k) ==
    states[k] # NoState /\ states[k].running /\ states[k].mode \in {"probe", "confirm6"} =>
        \E w \in Threads : w.key = k /\ Current(w) /\ w.kind = states[k].mode

\* The threads that are not about peer k go on.
OthersGoOn(k) == \A y \in Threads : y.key # k => \E x \in Threads' : SameWorker(x, y)

LEMMA AllManned == RunningHasWorker <=> \A k \in Keys : Manned(k)
BY DEF RunningHasWorker, Manned, Tracked, Threads

LEMMA OnePeerRun ==
    ASSUME RunningHasWorker, NEW k \in Keys, OthersKept(k), OthersGoOn(k), Manned(k)'
    PROVE  RunningHasWorker'
<1>1. ASSUME NEW j \in Keys PROVE Manned(j)'
  <2>1. CASE j = k
    BY <2>1
  <2>2. CASE j # k
    <3> SUFFICES ASSUME states'[j] # NoState, states'[j].running,
                        states'[j].mode \in {"probe", "confirm6"}
                 PROVE  \E x \in Threads' : x.key = j /\ Current(x)' /\ x.kind = states'[j].mode
      BY DEF Manned
    <3>1. states'[j] = states[j] /\ Manned(j)
      BY <2>2, AllManned DEF OthersKept
    <3>2. PICK y \in Threads : y.key = j /\ Current(y) /\ y.kind = states[j].mode
      BY <3>1 DEF Manned
    <3>3. PICK x \in Threads' : SameWorker(x, y)
      BY <2>2, <3>2 DEF OthersGoOn
    <3> QED BY <3>1, <3>2, <3>3 DEF SameWorker, Current
  <2> QED BY <2>1, <2>2
<1>2. \A j \in Keys : Manned(j)'
  BY <1>1
<1> QED BY <1>2 DEF RunningHasWorker, Manned, Tracked, Threads

LEMMA ThreadsStay ==
    ASSUME Threads \subseteq Threads', NEW k
    PROVE  OthersGoOn(k)
BY DEF OthersGoOn, SameWorker

LEMMA ThreadMoves ==
    ASSUME NEW w \in workers, GoesOn(w), monitor' = monitor
    PROVE  \A y \in Threads : \E x \in Threads' : SameWorker(x, y)
<1>1. PICK v : SameWorker(v, w) /\ workers' = (workers \ {w}) \cup {v}
  BY DEF GoesOn
<1> SUFFICES ASSUME NEW y \in Threads PROVE \E x \in Threads' : SameWorker(x, y)
  OBVIOUS
<1>2. CASE y = w
  BY <1>1, <1>2 DEF Threads
<1>3. CASE y # w
  BY <1>1, <1>3 DEF Threads, SameWorker
<1> QED BY <1>2, <1>3

\* A peer whose state and thread are left alone.
LEMMA StaysManned ==
    ASSUME NEW k, Manned(k), states'[k] # NoState => states[k] # NoState,
           states'[k].running = states[k].running, states'[k].generation = states[k].generation,
           states'[k].mode = states[k].mode,
           \A y \in Threads : \E x \in Threads' : SameWorker(x, y)
    PROVE  Manned(k)'
<1> SUFFICES ASSUME states'[k] # NoState, states'[k].running,
                    states'[k].mode \in {"probe", "confirm6"}
             PROVE  \E x \in Threads' : x.key = k /\ Current(x)' /\ x.kind = states'[k].mode
  BY DEF Manned
<1>1. PICK y \in Threads : y.key = k /\ Current(y) /\ y.kind = states[k].mode
  BY DEF Manned
<1>2. PICK x \in Threads' : SameWorker(x, y)
  BY <1>1
<1> QED BY <1>1, <1>2 DEF SameWorker, Current

LEMMA OfferRun ==
    ASSUME SaveOutcomes = {TRUE}, FenceData, RunInv,
           NEW k \in Keys, NEW o \in Offers, HandleOffer(k, o)
    PROVE  RunInv'
<1>0. TypeInv /\ Manned(k) /\ monitor' = monitor
  BY AllManned DEF FenceData, RunInv, HandleOffer
<1>1. /\ OthersKept(k) /\ states'[k] # NoState
      /\ OfferKeeps(k) \/ OfferProbes(k, o) \/ OfferStops(k) \/ OfferRenews(k)
  BY <1>0, OfferEffect
<1>2. Threads \subseteq Threads'
  BY <1>0, <1>1 DEF OfferKeeps, OfferProbes, OfferStops, OfferRenews, Threads
<1>3. Manned(k)'
  <2>1. CASE OfferKeeps(k) \/ OfferStops(k)
    BY <2>1 DEF OfferKeeps, OfferStops, Manned
  <2>2. CASE OfferProbes(k, o)
    <3> DEFINE p == Probe(k, NextGeneration)
    <3>1. /\ p \in Threads' /\ states'[k].mode = "probe"
          /\ states'[k].generation = NextGeneration /\ states'[k] # NoState
      BY <1>1, <2>2 DEF OfferProbes, Threads
    <3>2. p.key = k /\ p.generation = NextGeneration /\ p.kind = "probe"
      BY DEF Probe
    <3> HIDE DEF p
    <3> QED BY <3>1, <3>2 DEF Manned, Current
  <2>3. CASE OfferRenews(k)
    BY <1>0, <1>2, <2>3, StaysManned DEF OfferRenews, SameWorker
  <2> QED BY <1>1, <2>1, <2>2, <2>3
<1>4. RunningHasWorker'
  BY <1>1, <1>2, <1>3, ThreadsStay, OnePeerRun DEF RunInv
<1> QED BY <1>0, <1>4 DEF RunInv, LaunchesVisited

LEMMA VisitRun ==
    ASSUME FenceData, RunInv, NEW k \in Keys, MonitorPeer(k)
    PROVE  RunInv'
<1>0. TypeInv /\ Manned(k)
  BY AllManned DEF FenceData, RunInv
<1>1. /\ OthersKept(k) /\ workers' = workers /\ states[k] # NoState
      /\ monitor'.todo = monitor.todo \ {k}
      /\ \/ VisitProbes(k)
         \/ /\ monitor'.launches = monitor.launches
            /\ LosesControl(k) \/ Dropped(k) \/ VisitNotes(k)
  BY <1>0, PeerVisited
<1> DEFINE p == Probe(k, NextGeneration)
<1>2. p.key = k /\ p.generation = NextGeneration /\ p.kind = "probe"
  BY DEF Probe
<1>3. VisitProbes(k) => /\ monitor'.launches = monitor.launches \cup {p}
                        /\ states'[k] # NoState /\ states'[k].mode = "probe"
                        /\ states'[k].generation = NextGeneration
  BY DEF VisitProbes
<1> HIDE DEF p
<1>4. Threads \subseteq Threads'
  BY <1>1, <1>3 DEF Threads
<1>5. Manned(k)'
  <2>1. CASE VisitProbes(k)
    <3>1. p \in Threads'
      BY <1>3, <2>1 DEF Threads
    <3> QED BY <1>2, <1>3, <2>1, <3>1 DEF Manned, Current
  <2>2. CASE LosesControl(k) \/ Dropped(k)
    BY <2>2 DEF LosesControl, Dropped, Manned
  <2>3. CASE VisitNotes(k)
    <3>1. CASE states'[k].mode = states[k].mode
      BY <1>0, <1>1, <1>4, <2>3, <3>1, StaysManned DEF VisitNotes, SameWorker
    <3>2. CASE states'[k].mode \in {"direct", "idle"}
      BY <3>2 DEF Manned
    <3> QED BY <2>3, <3>1, <3>2 DEF VisitNotes
  <2> QED BY <1>1, <2>1, <2>2, <2>3
<1>6. RunningHasWorker'
  BY <1>1, <1>4, <1>5, ThreadsStay, OnePeerRun DEF RunInv
<1>7. LaunchesVisited'
  BY <1>1, <1>2, <1>3 DEF RunInv, LaunchesVisited
<1> QED BY <1>6, <1>7 DEF RunInv

LEMMA MonitorRun ==
    ASSUME SaveOutcomes = {TRUE}, WgOutcomes = {"done"} \/ \A j, k \in Keys : j = k,
           FenceData, RunInv, MonitorStep
    PROVE  RunInv'
<1>1. ASSUME NEW k \in Keys, MonitorPeer(k) PROVE RunInv'
  BY <1>1, VisitRun
<1>2. CASE MonitorBegin \/ MonitorEnd \/ \E k \in Keys : MonitorFails(k)
  <2>1. states' = states /\ monitor'.launches = {} /\ Threads' = Threads
    <3>1. CASE MonitorBegin
      <4>1. monitor.launches = {}
        BY <3>1 DEF MonitorBegin, LockFree, FenceData, TypeInv, PassInv, NoPass
      <4> QED BY <3>1, <4>1 DEF MonitorBegin, Threads
    <3>2. CASE MonitorEnd
      BY <3>2 DEF MonitorEnd, NoPass, Threads
    <3>3. ASSUME NEW k \in Keys, MonitorFails(k) PROVE monitor.launches = {}
      <4>1. \A j \in Keys : j = k
        BY <3>3 DEF MonitorFails
      <4>2. k \in monitor.todo /\ \A w \in monitor.launches : w.key \in Keys
        BY <3>3 DEF MonitorFails, FenceData, TypeInv, TypeOK, MonitorPasses, Workers
      <4> QED BY <4>1, <4>2 DEF RunInv, LaunchesVisited
    <3>4. ASSUME NEW k \in Keys, MonitorFails(k)
          PROVE  states' = states /\ monitor'.launches = {} /\ Threads' = Threads
      BY <3>3, <3>4 DEF MonitorFails, NoPass, Threads
    <3> QED BY <1>2, <3>1, <3>2, <3>4
  <2> QED BY <2>1 DEF RunInv, RunningHasWorker, LaunchesVisited, Tracked, Current, Threads
<1> QED BY <1>1, <1>2 DEF MonitorStep

LEMMA WorkerRun ==
    ASSUME FenceData, RunInv, NEW w \in workers, WorkerStep(w)
    PROVE  RunInv'
<1> DEFINE k == w.key
           t == states'[k]
<1>0. TypeInv /\ k \in Keys /\ w \in Threads /\ Manned(k)
  BY AllManned DEF FenceData, TypeInv, TypeOK, Workers, Threads, RunInv
<1>1. /\ OthersKept(k) /\ monitor' = monitor
  <2>1. CASE Looks(w)
    BY <1>0, <2>1, LooksEffect DEF OthersKept
  <2>2. CASE ~Looks(w)
    BY <1>0, <2>2, ActsOnOne DEF WorkerStep, Looks, ActsOn, OthersKept
  <2> QED BY <2>1, <2>2
<1> SUFFICES RunningHasWorker'
  BY <1>1 DEF RunInv, LaunchesVisited
<1>2. ASSUME \A y \in Threads : \E x \in Threads' : SameWorker(x, y), Manned(k)'
      PROVE  RunningHasWorker'
  <2>1. OthersGoOn(k)
    BY <1>2 DEF OthersGoOn
  <2> QED BY <1>0, <1>1, <1>2, <2>1, OnePeerRun DEF RunInv
\* A worker that acts is the thread its peer needs.
<1>3. ASSUME \A y \in Threads : \E x \in Threads' : SameWorker(x, y),
             \/ states' = states
             \/ /\ Current(w) /\ t # NoState /\ t.generation = states[k].generation
                /\ t.mode = w.kind
             \/ ~t.running
      PROVE  RunningHasWorker'
  <2>1. CASE states' = states
    BY <1>0, <1>2, <1>3, <2>1, StaysManned
  <2>2. CASE /\ Current(w) /\ t # NoState /\ t.generation = states[k].generation
             /\ t.mode = w.kind
    <3>1. PICK x \in Threads' : SameWorker(x, w)
      BY <1>0, <1>3
    <3>2. Manned(k)'
      BY <2>2, <3>1 DEF Manned, SameWorker, Current
    <3> QED BY <1>2, <1>3, <3>2
  <2>3. CASE ~t.running
    BY <1>2, <1>3, <2>3 DEF Manned
  <2> QED BY <1>3, <2>1, <2>2, <2>3
<1>4. CASE Looks(w)
  <2>1. GoesOn(w) /\ states' = states
    BY <1>0, <1>4, LooksEffect
  <2> QED BY <1>1, <1>3, <2>1, ThreadMoves
<1>5. CASE ProbeSetup(w) \/ ProbeExhausted(w)
  <2>1. /\ GoesOn(w) /\ Current(w) /\ w.kind = "probe"
        /\ states' = states \/ Turns(k, "probe", states[k].running) \/ Turns(k, "idle", FALSE)
    BY <1>0, <1>5, SetupEffect, ExhaustEffect DEF ProbeCurrent
  <2> QED BY <1>1, <1>3, <2>1, ThreadMoves DEF Turns
<1>6. CASE ProbePromotes(w)
  <2>1. states' = states \/ ~t.running
    BY <1>0, <1>6, PromoteEffect DEF Turns
  <2>2. \A y \in Threads : \E x \in Threads' : SameWorker(x, y)
    <3>1. CASE GoesOn(w)
      BY <1>1, <3>1, ThreadMoves
    <3>2. CASE ~GoesOn(w)
      <4>1. \E f, c : /\ workers' = (workers \ {w}) \cup {f, c}
                      /\ SameWorker(f, w) /\ f.pc = "finally"
                      /\ c.generation = w.generation /\ c.key = w.key
                      /\ c.kind = "confirm6" /\ c.pc = "wait"
        BY <1>0, <1>6, <3>2, PromoteEffect
      <4>2. PICK f, c : SameWorker(f, w) /\ workers' = (workers \ {w}) \cup {f, c}
        BY <4>1
      <4>3. \A y \in Threads : y = w \/ y \in Threads'
        BY <1>1, <4>2 DEF Threads
      <4>4. f \in Threads'
        BY <4>2 DEF Threads
      <4> QED BY <4>2, <4>3, <4>4 DEF SameWorker
    <3> QED BY <3>1, <3>2
  <2> QED BY <1>3, <2>1, <2>2
<1>7. CASE ConfirmRekeys(w)
  <2>1. /\ GoesOn(w) /\ Current(w) /\ w.kind = "confirm6"
        /\ Turns(k, "confirm6", TRUE) \/ Turns(k, "idle", FALSE)
    BY <1>0, <1>7, RekeyEffect
  <2> QED BY <1>1, <1>3, <2>1, ThreadMoves DEF Turns
<1>8. CASE ConfirmFinalizes(w) \/ ConfirmTimesOut(w)
  <2>1. /\ GoesOn(w)
        /\ states' = states \/ Turns(k, "direct", FALSE) \/ Turns(k, "idle", FALSE)
    BY <1>0, <1>8, FinalizeEffect, TimeoutEffect
  <2> QED BY <1>1, <1>3, <2>1, ThreadMoves DEF Turns
<1>9. CASE WorkerEnds(w)
  <2>1. /\ workers' = workers \ {w}
        /\ (~t.running) \/ (~Abandoned(w) /\ states' = states)
    BY <1>0, <1>9, EndEffect
  <2>2. \A y \in Threads : y = w \/ y \in Threads'
    BY <1>1, <2>1 DEF Threads
  <2>3. OthersGoOn(k)
    BY <2>2 DEF OthersGoOn, SameWorker
  <2>4. Manned(k)'
    <3>1. CASE ~t.running
      BY <3>1 DEF Manned
    <3>2. CASE ~Abandoned(w) /\ states' = states
      <4> SUFFICES ASSUME states[k] # NoState, states[k].running,
                          states[k].mode \in {"probe", "confirm6"}
                   PROVE  \E x \in Threads' : x.key = k /\ Current(x) /\ x.kind = states[k].mode
        BY <3>2 DEF Manned, Current
      <4>1. PICK y \in Threads : y.key = k /\ Current(y) /\ y.kind = states[k].mode
        BY <1>0 DEF Manned
      <4>2. y # w
        BY <3>2, <4>1 DEF Abandoned
      <4> QED BY <2>2, <4>1, <4>2
    <3> QED BY <2>1, <3>1, <3>2
  <2> QED BY <1>0, <1>1, <2>3, <2>4, OnePeerRun DEF RunInv
<1> QED BY <1>4, <1>5, <1>6, <1>7, <1>8, <1>9 DEF WorkerStep, Looks

LEMMA NextRun ==
    ASSUME SaveOutcomes = {TRUE}, WgOutcomes = {"done"} \/ \A j, k \in Keys : j = k,
           FenceData, RunInv, [Next]_vars
    PROVE  RunInv'
<1>0. TypeInv /\ \A k \in Keys : Manned(k)
  BY AllManned DEF FenceData, RunInv
<1>1. ASSUME NEW k \in Keys, NEW o \in Offers, HandleOffer(k, o) PROVE RunInv'
  BY <1>1, OfferRun
<1>2. ASSUME NEW k \in Keys, NEW n, NEW reason, HandleRemove(k, n, reason) PROVE RunInv'
  <2>1. /\ OthersKept(k) /\ workers' = workers /\ monitor' = monitor
        /\ LosesControl(k) \/ Dropped(k) \/ states' = states
    BY <1>0, <1>2, RemoveEffect
  <2>2. Threads' = Threads
    BY <2>1 DEF Threads
  <2>3. Manned(k)'
    BY <1>0, <2>1, <2>2 DEF LosesControl, Dropped, Manned, Current
  <2>4. RunningHasWorker'
    BY <2>1, <2>2, <2>3, ThreadsStay, OnePeerRun DEF RunInv
  <2> QED BY <2>1, <2>4 DEF RunInv, LaunchesVisited
<1>3. ASSUME NEW active, CleanupInitiatorStates(active) PROVE RunInv'
  <2>1. workers' = workers /\ monitor' = monitor
    BY <1>3 DEF CleanupInitiatorStates
  <2>2. \A k \in Keys : states'[k] = NoState \/ states'[k] = states[k]
    BY <1>0, <1>3, CleanupEffect
  <2> QED BY <2>1, <2>2 DEF RunInv, RunningHasWorker, LaunchesVisited, Tracked, Current
<1>4. CASE MonitorStep
  BY <1>4, MonitorRun
<1>5. ASSUME NEW w \in workers, WorkerStep(w) PROVE RunInv'
  BY <1>5, WorkerRun
<1>6. CASE AgentRestarts
  BY <1>0, <1>6, RestartEffect DEF RunInv, RunningHasWorker, LaunchesVisited, Tracked
<1>7. CASE EnvironmentStep
  <2>1. workers' = workers /\ monitor' = monitor /\ \A k \in Keys : SameMode(k)
    BY <1>0, <1>7, EnvironmentEffect
  <2>2. \A w \in Threads : w.key \in Keys
    BY <1>0 DEF TypeInv, TypeOK, MonitorPasses, Workers, Threads
  <2> QED BY <2>1, <2>2
          DEF RunInv, RunningHasWorker, LaunchesVisited, Tracked, Current, SameMode, Threads
<1>8. CASE UNCHANGED vars
  BY <1>8 DEF RunInv, RunningHasWorker, LaunchesVisited, Tracked, Current, vars
<1> QED BY <1>1, <1>2, <1>3, <1>4, <1>5, <1>6, <1>7, <1>8 DEF Next, EnvironmentStep

\* A peer that is marked as being probed or confirmed has a thread that will
\* act on it or clean it up (handle_offer, monitor_once, run_peer_worker): it
\* is not left on the relay for ever.  A save that fails loses the threads it
\* came with, and a removal that fails those of the other peers of the pass.
THEOREM RunningPeersHaveWorkers ==
    ASSUME SaveOutcomes = {TRUE}, WgOutcomes = {"done"} \/ \A j, k \in Keys : j = k
    PROVE  Spec => []RunningHasWorker
<1>1. Init => RunInv
  BY DEF Init, NoPass, RunInv, RunningHasWorker, LaunchesVisited, Tracked
<1>2. FenceData /\ RunInv /\ [Next]_vars => RunInv'
  BY NextRun
<1>3. RunInv => RunningHasWorker
  BY DEF RunInv
<1> QED BY <1>1, <1>2, <1>3, FenceHolds, PTL DEF Spec

=============================================================================
