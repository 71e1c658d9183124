---------------------------- MODULE ClientProofs ----------------------------
(***************************************************************************)
(* Theorems about Client, for every value of its constants: any number of  *)
(* servers and goroutines, any budget of handshakes, changes and faults.   *)
(***************************************************************************)
EXTENDS Client, FiniteSetTheorems, TLAPS

-----------------------------------------------------------------------------
(* Typing lemmas of the operators the actions are built from *)

\* What `wg set` leaves in the kernel is a peer.
LEMMA KernelTypes ==
    ASSUME NEW p \in KernelPeers \cup {NoPeer}, NEW e \in Endpoints \cup {NoEndpoint}
    PROVE  /\ Existing(p) \in KernelPeers /\ LatestHandshake(p) \in Nat
           /\ Aimed(p, e) \in KernelPeers /\ Promoted(p, e) \in KernelPeers
           /\ Routed(Aimed(p, e)) <=> Routed(p)
           /\ Routed(Promoted(p, e))
           /\ LatestHandshake(Aimed(p, e)) = LatestHandshake(p)
           /\ LatestHandshake(Promoted(p, e)) = LatestHandshake(p)
  <1>1. Existing(p) \in KernelPeers
    BY DEF Existing, BarePeer, KernelPeers
  <1>2. Aimed(p, e) \in KernelPeers
    BY <1>1 DEF Aimed, KernelPeers
  <1>3. Promoted(p, e) \in KernelPeers /\ Promoted(p, e).route
    BY <1>2 DEF Promoted, KernelPeers
  <1>4. /\ Aimed(p, e).route = Existing(p).route
        /\ Aimed(p, e).handshake = Existing(p).handshake
        /\ Promoted(p, e).handshake = Aimed(p, e).handshake
    BY <1>1, <1>2 DEF Aimed, Promoted, KernelPeers
  <1>5. /\ Existing(p).handshake = LatestHandshake(p)
        /\ Existing(p).route <=> Routed(p)
        /\ LatestHandshake(p) \in Nat
    BY EmptyAssumption DEF Existing, BarePeer, LatestHandshake, Routed, KernelPeers
  <1>6. Aimed(p, e) # NoPeer /\ Promoted(p, e) # NoPeer
    BY <1>2, <1>3, EmptyAssumption
  <1> QED
    BY <1>1, <1>2, <1>3, <1>4, <1>5, <1>6 DEF LatestHandshake, Routed

\* The state changes shared by the actions produce peer states.
LEMMA StateTypes ==
    ASSUME NEW s \in PeerStates
    PROVE  /\ Silenced(s) \in PeerStates /\ Restarted(s) \in PeerStates
           /\ Direct(s) \in PeerStates /\ DirectAtLast(s) \in PeerStates
           /\ [s EXCEPT !.mode = "probe", !.running = TRUE] \in PeerStates
           /\ Cancelled(s) \in PeerStates /\ Cancelled(s).generation = s.generation
           /\ ~Cancelled(s).running
           /\ s.mode = "direct" => Cancelled(s).mode = "direct"
           /\ Silenced(s).generation = s.generation + 1
           /\ Restarted(s).generation = s.generation + 1
           /\ Direct(s).generation = s.generation
           /\ DirectAtLast(s).generation = s.generation
           /\ Direct(s).mode = "direct" /\ DirectAtLast(s).mode = "direct"
           /\ ~Direct(s).running /\ ~DirectAtLast(s).running
           /\ ~Restarted(s).running /\ Restarted(s).retryDue
  <1>1. Silenced(s) \in PeerStates
    <2> DEFINE g == s.generation + 1
    <2>1. g \in Nat /\ Silenced(s) = [s EXCEPT !.generation = g, !.running = FALSE]
      BY DEF Silenced, PeerStates
    <2> HIDE DEF g
    <2> QED BY <2>1 DEF PeerStates
  <1>2. Silenced(s).generation = s.generation + 1 /\ ~Silenced(s).running
    BY DEF Silenced, PeerStates
  <1>3. Restarted(s) \in PeerStates
    BY <1>1 DEF Restarted, PeerStates
  <1>4. /\ Restarted(s).generation = s.generation + 1
        /\ ~Restarted(s).running /\ Restarted(s).retryDue
    BY <1>1, <1>2 DEF Restarted, PeerStates
  <1>5. Direct(s) \in PeerStates
    BY DEF Direct, PeerStates
  <1>6. Direct(s).generation = s.generation /\ Direct(s).mode = "direct" /\ ~Direct(s).running
    BY DEF Direct, PeerStates
  <1>7. DirectAtLast(s) \in PeerStates
    BY <1>5 DEF DirectAtLast, PeerStates
  <1>8. /\ DirectAtLast(s).mode = "direct" /\ ~DirectAtLast(s).running
        /\ DirectAtLast(s).generation = s.generation
    BY <1>5, <1>6 DEF DirectAtLast, PeerStates
  <1>9. [s EXCEPT !.mode = "probe", !.running = TRUE] \in PeerStates
    BY DEF PeerStates
  <1>10. /\ Cancelled(s) \in PeerStates /\ Cancelled(s).generation = s.generation
         /\ ~Cancelled(s).running
         /\ s.mode = "direct" => Cancelled(s).mode = "direct"
    <2> DEFINE mode == IF s.mode = "probe" THEN "idle" ELSE s.mode
    <2>1. /\ mode \in {"idle", "probe", "direct", "passive6"}
          /\ Cancelled(s) = [s EXCEPT !.running = FALSE, !.mode = mode]
          /\ s.mode = "direct" => mode = "direct"
      BY DEF Cancelled, PeerStates
    <2> HIDE DEF mode
    <2> QED BY <2>1 DEF PeerStates
  <1> QED
    BY <1>1, <1>2, <1>3, <1>4, <1>5, <1>6, <1>7, <1>8, <1>9, <1>10

\* The states in which the reconciliation can leave a server whose state, with
\* the answer noted, is n.
LEMMA OutcomeTypes ==
    ASSUME NEW n \in PeerStates
    PROVE  /\ \A s \in {Restarted(n), Direct(Restarted(n))} :
                 s \in PeerStates /\ s.generation = n.generation + 1
           /\ \A s \in {Direct(n), DirectAtLast(n)} :
                 /\ s \in PeerStates /\ s.generation = n.generation
                 /\ s.mode = "direct" /\ ~s.running
  <1>1. Restarted(n) \in PeerStates /\ Restarted(n).generation = n.generation + 1
    BY StateTypes
  <1>2. /\ Direct(Restarted(n)) \in PeerStates
        /\ Direct(Restarted(n)).generation = n.generation + 1
    BY <1>1, StateTypes
  <1>3. /\ Direct(n) \in PeerStates /\ Direct(n).generation = n.generation
        /\ Direct(n).mode = "direct" /\ ~Direct(n).running
    BY StateTypes
  <1>4. /\ DirectAtLast(n) \in PeerStates /\ DirectAtLast(n).generation = n.generation
        /\ DirectAtLast(n).mode = "direct" /\ ~DirectAtLast(n).running
    BY StateTypes
  <1> QED BY <1>1, <1>2, <1>3, <1>4

-----------------------------------------------------------------------------
(* Types.  TypeOK is not inductive: a goroutine needs the candidate it tries *)
(* and a pass the candidates of the servers still to be reconciled.          *)

Equipped(w) ==
    /\ w.pc = "start" => w.next = 1
    /\ w.pc \in {"baseline", "arm", "poll"} =>
          w.candidates \in CandidateLists /\ w.next \in 1..Len(w.candidates)

EquippedWorkers == {w \in Workers : Equipped(w)}

Answered(p) == \A k \in p.todo : p.answer[k].candidates \in CandidateLists

TypeInv == /\ TypeOK
           /\ workers \in [Slots -> EquippedWorkers \cup {NoWorker}]
           /\ Answered(pass)

LEMMA AnnouncementTypes ==
    ASSUME NEW a \in Announcements
    PROVE  /\ a.instance \in Instances
           /\ a.listing = "online" => a.candidates \in CandidateLists
  <1>1. CASE a \in {Offline, Absent}
    BY <1>1, ListsAssumption DEF Offline, Absent
  <1>2. CASE \E b \in Announceable : a = Online(b[1], b[2])
    <2>1. PICK b \in Announceable : a = Online(b[1], b[2])
      BY <1>2
    <2>2. b \in CandidateLists \X Instances
      BY ListsAssumption
    <2> QED BY <2>1, <2>2 DEF Online
  <1> QED BY <1>1, <1>2 DEF Announcements

LEMMA RemainingTypes ==
    ASSUME NEW p \in Passes, Answered(p)
    PROVE  Remaining(p) \in Passes /\ Answered(Remaining(p))
  <1>1. NoPass \in Passes
    BY DEF NoPass, Passes, Announcements
  <1>2. Answered(NoPass)
    BY DEF NoPass, Answered
  <1> QED BY <1>1, <1>2 DEF Remaining

\* Commands that fail are counted.
LEMMA FaultTypes ==
    ASSUME faults \in Nat, NEW F, IsFiniteSet(F), NEW failed \in SUBSET F,
           Spend(Cardinality(failed))
    PROVE  faults' \in Nat
  <1>1. Cardinality(failed) \in Nat
    BY FS_Subset, FS_CardinalityType
  <1> QED BY <1>1 DEF Spend

LEMMA RemovedTypes ==
    ASSUME TypeOK, NEW K, NEW failed
    PROVE  Removed(K, failed) \in [Servers -> KernelPeers \cup {NoPeer}]
  BY DEF Removed, TypeOK

LEMMA InitTypes == Init => TypeInv
  <1> SUFFICES ASSUME Init PROVE TypeInv
    OBVIOUS
  <1>1. pass \in Passes /\ Answered(pass)
    BY DEF Init, NoPass, Passes, Announcements, Answered
  <1> QED BY <1>1 DEF Init, TypeInv, TypeOK, NoStates, NoPeers

-----------------------------------------------------------------------------
(* The main goroutine keeps the types *)

LEMMA BeginPassTypes ==
    ASSUME TypeInv, BeginPass
    PROVE  TypeInv'
  <1> DEFINE listed == {k \in Servers : announced[k].listing # "absent"}
             active == {k \in Servers : announced[k].listing = "online"}
             begun == [answer |-> announced, locals |-> wg, todo |-> active,
                       retire |-> (serverKeys \cup listed) \ active]
  <1>1. begun \in Passes
    BY DEF TypeInv, TypeOK, Passes
  <1>2. Answered(begun)
    BY AnnouncementTypes DEF TypeInv, TypeOK, Answered
  <1>3. pass' \in Passes /\ Answered(pass')
    BY <1>1, <1>2, RemainingTypes DEF BeginPass
  <1>4. serverKeys' \in SUBSET Servers
    BY DEF BeginPass
  <1>5. UNCHANGED <<states, wg, workers, reused, loop, announced, handshakes, changes, faults>>
    BY DEF BeginPass
  <1> QED BY <1>3, <1>4, <1>5 DEF TypeInv, TypeOK

LEMMA LoopTypes ==
    ASSUME TypeInv,
           \/ FallBackStaleDirects \/ TunnelInactive \/ TunnelActive
           \/ TunnelChanges \/ Stop \/ StopDown \/ ClientCrashes
    PROVE  TypeInv'
  <1> USE DEF TypeInv, TypeOK
  <1>0. /\ IsFiniteSet(serverKeys)
        /\ \A K \in SUBSET Servers : IsFiniteSet(K)
    BY ServersAssumption, FS_Subset
  <1>p. NoPass \in Passes /\ Answered(NoPass)
    BY DEF NoPass, Passes, Announcements, Answered
  <1>1. CASE FallBackStaleDirects
    <2> DEFINE dead == {k \in serverKeys : Dead(wg[k])}
    <2>1. PICK failed \in SUBSET dead :
             /\ Spend(Cardinality(failed))
             /\ wg' = Removed(dead, failed)
             /\ states' = [k \in Servers |-> IF k \in dead /\ states[k] # NoState
                                          THEN Restarted(states[k]) ELSE states[k]]
      BY <1>1 DEF FallBackStaleDirects
    <2>2. faults' \in Nat
      <3>1. IsFiniteSet(dead) BY <1>0
      <3> HIDE DEF dead
      <3> QED BY <2>1, <3>1, FaultTypes
    <2>3. wg' \in [Servers -> KernelPeers \cup {NoPeer}]
      BY <2>1, RemovedTypes
    <2>4. states' \in [Servers -> PeerStates \cup {NoState}]
      BY <2>1, StateTypes
    <2> QED BY <1>1, <2>2, <2>3, <2>4 DEF FallBackStaleDirects
  <1>2. CASE TunnelInactive
    BY <1>2 DEF TunnelInactive, Change, NoStates, NoPeers
  <1>3. CASE TunnelActive
    <2>1. PICK failed \in SUBSET serverKeys :
             Spend(Cardinality(failed)) /\ wg' = Removed(serverKeys, failed)
      BY <1>3 DEF TunnelActive
    <2>2. faults' \in Nat
      BY <2>1, <1>0, FaultTypes
    <2>3. wg' \in [Servers -> KernelPeers \cup {NoPeer}]
      BY <2>1, RemovedTypes
    <2> QED BY <1>3, <2>2, <2>3 DEF TunnelActive
  <1>4. CASE TunnelChanges
    BY <1>4 DEF TunnelChanges, Change, NoStates, NoPeers
  <1>5. CASE Stop
    <2> DEFINE mine == serverKeys \cup {k \in Servers : states[k] # NoState}
    <2>1. PICK failed \in SUBSET mine :
             Spend(Cardinality(failed)) /\ wg' = Removed(mine, failed)
      BY <1>5 DEF Stop
    <2>2. faults' \in Nat
      <3>1. IsFiniteSet(mine) BY <1>0
      <3> HIDE DEF mine
      <3> QED BY <2>1, <3>1, FaultTypes
    <2>3. wg' \in [Servers -> KernelPeers \cup {NoPeer}]
      BY <2>1, RemovedTypes
    <2>4. states' \in [Servers -> PeerStates \cup {NoState}]
      BY <1>5, StateTypes DEF Stop
    <2> QED BY <1>5, <2>2, <2>3, <2>4 DEF Stop
  <1>6. CASE ClientCrashes
    BY <1>6, <1>p DEF ClientCrashes, Change, NoStates
  <1>7. CASE StopDown
    BY <1>7 DEF StopDown
  <1> QED BY <1>1, <1>2, <1>3, <1>4, <1>5, <1>6, <1>7

\* What the reconciliation of one server makes of its state.
LEMMA NotedTypes ==
    ASSUME TypeInv, NEW k \in pass.todo
    PROVE  Noted(k) \in PeerStates
  <1> DEFINE a == pass.answer[k]
             new == [mode |-> "idle", candidates |-> <<>>, instance |-> a.instance,
                     retryDue |-> TRUE, generation |-> 1, running |-> FALSE]
             old == IF states[k] = NoState THEN new ELSE states[k]
             instance == IF a.instance = NoInstance THEN old.instance ELSE a.instance
  <1>1. k \in Servers /\ a \in Announcements /\ a.candidates \in CandidateLists
    BY DEF TypeInv, TypeOK, Passes, Answered
  <1>2. a.instance \in Instances
    BY <1>1, AnnouncementTypes
  <1>3. \/ old \in PeerStates
        \/ states[k] = NoState
    BY <1>1 DEF TypeInv, TypeOK
  <1>4. instance \in Instances
    BY <1>2, <1>3 DEF PeerStates
  <1>5. Noted(k) = [old EXCEPT !.candidates = a.candidates, !.instance = instance]
    BY DEF Noted
  <1>6. CASE states[k] = NoState
    <2>1. Noted(k) = [mode |-> "idle", candidates |-> a.candidates, instance |-> instance,
                      retryDue |-> TRUE, generation |-> 1, running |-> FALSE]
      BY <1>5, <1>6
    <2> HIDE DEF a, instance
    <2> QED BY <2>1, <1>1, <1>4 DEF PeerStates
  <1>7. CASE old \in PeerStates
    <2> HIDE DEF a, instance, old
    <2> QED BY <1>1, <1>4, <1>5, <1>7 DEF PeerStates
  <1> QED BY <1>3, <1>6, <1>7

LEMMA ProceedTypes ==
    ASSUME TypeInv, NEW k \in Servers, NEW s \in PeerStates,
           Settles(k, s) \/ Proceeds(k, s)
    PROVE  /\ states' \in [Servers -> PeerStates \cup {NoState}]
           /\ workers' \in [Slots -> EquippedWorkers \cup {NoWorker}]
  <1>1. CASE Settles(k, s)
    BY <1>1 DEF Settles, TypeInv, TypeOK
  <1>2. CASE Launches(k, s)
    <2>1. [s EXCEPT !.mode = "probe", !.running = TRUE] \in PeerStates
      BY StateTypes
    <2>2. Probe(k, s.generation) \in EquippedWorkers
      BY DEF Probe, EquippedWorkers, Equipped, Workers, PeerStates
    <2> QED BY <1>2, <2>1, <2>2 DEF Launches, TypeInv, TypeOK
  <1> QED BY <1>1, <1>2 DEF Proceeds

LEMMA ReconcileTypes ==
    ASSUME TypeInv, NEW k \in Servers, ReconcilePeer(k)
    PROVE  TypeInv'
  <1>1. k \in pass.todo
    BY DEF ReconcilePeer
  <1>2. PICK s \in {Noted(k), Restarted(Noted(k)), Direct(Noted(k)),
                    Direct(Restarted(Noted(k))), DirectAtLast(Noted(k))} :
           Settles(k, s) \/ Proceeds(k, s)
    BY DEF ReconcilePeer, KeepsChanged, StartsAfresh, SeesDirect, FallsBack,
           PromotesInbound, MissesInbound, ProbesOn
  <1>3. s \in PeerStates
    <2>1. Noted(k) \in PeerStates
      BY <1>1, NotedTypes
    <2> QED BY <1>2, <2>1, OutcomeTypes
  <1>4. /\ states' \in [Servers -> PeerStates \cup {NoState}]
        /\ workers' \in [Slots -> EquippedWorkers \cup {NoWorker}]
    BY <1>2, <1>3, ProceedTypes
  <1>5. wg' \in [Servers -> KernelPeers \cup {NoPeer}] /\ faults' \in Nat
    <2>1. CASE UNCHANGED <<wg, faults>>
      BY <2>1 DEF TypeInv, TypeOK
    <2>2. CASE \E failed \in SUBSET {k} :
                  Spend(Cardinality(failed)) /\ wg' = Removed({k}, failed)
      <3>1. IsFiniteSet({k})
        BY FS_Singleton
      <3>2. PICK failed \in SUBSET {k} :
               Spend(Cardinality(failed)) /\ wg' = Removed({k}, failed)
        BY <2>2
      <3> QED BY <3>1, <3>2, FaultTypes, RemovedTypes DEF TypeInv, TypeOK
    <2>3. CASE PromotesInbound(k)
      <3>1. pass.locals[k].endpoint \in Endpoints \cup {NoEndpoint}
        BY <2>3, ListsAssumption DEF PromotesInbound, SeenInbound
      <3>2. wg[k] \in KernelPeers \cup {NoPeer}
        BY DEF TypeInv, TypeOK
      <3>3. Promoted(wg[k], pass.locals[k].endpoint) \in KernelPeers
        BY <3>1, <3>2, KernelTypes
      <3> QED BY <2>3, <3>3 DEF PromotesInbound, TypeInv, TypeOK
    <2>4. CASE MissesInbound(k)
      BY <2>4 DEF MissesInbound, Spend, TypeInv, TypeOK
    <2> QED BY <2>1, <2>2, <2>3, <2>4 DEF ReconcilePeer, KeepsChanged, StartsAfresh,
            SeesDirect, FallsBack, ProbesOn
  <1>6. pass' \in Passes /\ Answered(pass')
    <2> DEFINE rest == [pass EXCEPT !.todo = @ \ {k}]
    <2>1. rest \in Passes /\ Answered(rest)
      BY DEF TypeInv, TypeOK, Passes, Answered
    <2> HIDE DEF rest
    <2>2. Remaining(rest) \in Passes /\ Answered(Remaining(rest))
      BY <2>1, RemainingTypes
    <2>3. pass' = Remaining(rest)
      BY DEF ReconcilePeer, rest
    <2> QED BY <2>2, <2>3
  <1>7. reused' \in SUBSET Servers
    BY DEF ReconcilePeer, TypeInv, TypeOK
  <1>8. UNCHANGED <<serverKeys, loop, announced, handshakes, changes>>
    BY DEF ReconcilePeer
  <1>9. workers' \in [Slots -> Workers \cup {NoWorker}]
    BY <1>4 DEF EquippedWorkers
  <1> QED BY <1>4, <1>5, <1>6, <1>7, <1>8, <1>9 DEF TypeInv, TypeOK

LEMMA RetireTypes ==
    ASSUME TypeInv, NEW k \in Servers, RetirePeer(k)
    PROVE  TypeInv'
  <1>1. states' \in [Servers -> PeerStates \cup {NoState}]
    BY DEF RetirePeer, TypeInv, TypeOK
  <1>2. wg' \in [Servers -> KernelPeers \cup {NoPeer}] /\ faults' \in Nat
    <2>1. CASE UNCHANGED <<wg, faults>>
      BY <2>1 DEF TypeInv, TypeOK
    <2>2. CASE \E failed \in SUBSET {k} :
                  Spend(Cardinality(failed)) /\ wg' = Removed({k}, failed)
      <3>1. IsFiniteSet({k})
        BY FS_Singleton
      <3>2. PICK failed \in SUBSET {k} :
               Spend(Cardinality(failed)) /\ wg' = Removed({k}, failed)
        BY <2>2
      <3> QED BY <3>1, <3>2, FaultTypes, RemovedTypes DEF TypeInv, TypeOK
    <2> QED BY <2>1, <2>2 DEF RetirePeer
  <1>3. pass' \in Passes /\ Answered(pass')
    <2> DEFINE rest == [pass EXCEPT !.retire = @ \ {k}]
    <2>1. rest \in Passes /\ Answered(rest)
      BY DEF TypeInv, TypeOK, Passes, Answered
    <2> HIDE DEF rest
    <2>2. Remaining(rest) \in Passes /\ Answered(Remaining(rest))
      BY <2>1, RemainingTypes
    <2>3. pass' = Remaining(rest)
      BY DEF RetirePeer, rest
    <2> QED BY <2>2, <2>3
  <1>4. UNCHANGED <<serverKeys, workers, reused, loop, announced, handshakes, changes>>
    BY DEF RetirePeer
  <1> QED BY <1>1, <1>2, <1>3, <1>4 DEF TypeInv, TypeOK

-----------------------------------------------------------------------------
(* The goroutines keep the types *)

\* v is the goroutine w one step later, about to do what pc says.
Pcs == {"start", "cancel", "baseline", "arm", "poll", "promote", "exhausted", "watch", "adopt"}
Successor(w, v, pc) ==
    v \in Workers /\ v.key = w.key /\ v.generation = w.generation /\ v.pc = pc

LEMMA GoroutineUpdates ==
    ASSUME NEW w \in Workers
    PROVE  /\ \A c \in CandidateLists, pc \in Pcs : 
              LET v == [w EXCEPT !.pc = pc, !.candidates = c] IN
              Successor(w, v, pc) /\ v.candidates = c /\ v.next = w.next
           /\ \A b \in Nat, pc \in Pcs : 
              LET v == [w EXCEPT !.pc = pc, !.baseline = b] IN
              Successor(w, v, pc) /\ v.candidates = w.candidates /\ v.next = w.next
           /\ \A pc \in Pcs : 
              LET v == [w EXCEPT !.pc = pc] IN
              Successor(w, v, pc) /\ v.candidates = w.candidates /\ v.next = w.next
           /\ Successor(w, Watcher(w), "watch")
           /\ \A pc \in Pcs, e \in Endpoints \cup {NoEndpoint} : 
              Successor(w, Found(w, pc, e), pc)
  <1>0. <<>> \in CandidateLists \cup {<<>>} /\ 0 \in Nat /\ 1 \in Nat \ {0}
    OBVIOUS
  <1>1. ASSUME NEW c \in CandidateLists, NEW pc \in Pcs 
        PROVE  LET v == [w EXCEPT !.pc = pc, !.candidates = c] IN
            Successor(w, v, pc) /\ v.candidates = c /\ v.next = w.next
    BY DEF Workers, Pcs, Successor
  <1>2. ASSUME NEW b \in Nat, NEW pc \in Pcs 
        PROVE LET v == [w EXCEPT !.pc = pc, !.baseline = b] IN
            Successor(w, v, pc) /\ v.candidates = w.candidates /\ v.next = w.next
    BY DEF Workers, Pcs, Successor
  <1>3. ASSUME NEW pc \in Pcs 
        PROVE LET v == [w EXCEPT !.pc = pc] IN
            Successor(w, v, pc) /\ v.candidates = w.candidates /\ v.next = w.next
    BY DEF Workers, Pcs, Successor
  <1>4. Successor(w, Watcher(w), "watch")
    <2>1. Watcher(w) \in Workers
      BY <1>0 DEF Workers, Watcher
    <2>2. Watcher(w).key = w.key /\ Watcher(w).generation = w.generation /\ Watcher(w).pc = "watch"
      BY DEF Workers, Watcher
    <2> QED BY <2>1, <2>2 DEF Successor
  <1>5. ASSUME NEW pc \in Pcs, NEW e \in Endpoints \cup {NoEndpoint}
        PROVE  Successor(w, Found(w, pc, e), pc)
    <2>1. Found(w, pc, e) \in Workers
      BY <1>0, ZenonT(40) DEF Workers, Pcs, Found
    <2>2. Found(w, pc, e).key = w.key /\ Found(w, pc, e).generation = w.generation /\ Found(w, pc, e).pc = pc
      BY DEF Workers, Found
    <2> QED BY <2>1, <2>2 DEF Successor
  <1> QED BY <1>1, <1>2, <1>3, <1>4, <1>5

\* What a goroutine turns into is a goroutine.
LEMMA WorkerTypes ==
    ASSUME TypeInv, NEW w \in EquippedWorkers
    PROVE  /\ w.pc = "poll" \/ w.pc = "arm" =>
                 /\ NextCandidate(w) \in EquippedWorkers
                 /\ \E pc \in {"baseline", "exhausted"} : Successor(w, NextCandidate(w), pc)
           /\ Watcher(w) \in EquippedWorkers
           /\ \A pc \in {"promote", "adopt"}, e \in Endpoints \cup {NoEndpoint} :
                 Found(w, pc, e) \in EquippedWorkers
  <1>1. w \in Workers /\ Equipped(w)
    BY DEF EquippedWorkers
  <1>2. ASSUME w.pc = "poll" \/ w.pc = "arm"
        PROVE  /\ NextCandidate(w) \in EquippedWorkers
               /\ \E pc \in {"baseline", "exhausted"} : Successor(w, NextCandidate(w), pc)
    <2> DEFINE n == w.next + 1
               pc == IF w.next < Len(w.candidates) THEN "baseline" ELSE "exhausted"
               v == NextCandidate(w)
    <2>1. w.candidates \in CandidateLists /\ w.next \in 1..Len(w.candidates)
      BY <1>1, <1>2 DEF Equipped
    <2>2. Len(w.candidates) \in Nat
      BY <2>1, ListsAssumption
    <2>3. pc = "baseline" => n \in 1..Len(w.candidates)
      BY <2>1, <2>2
    <2>4. n \in Nat \ {0} /\ pc \in {"baseline", "exhausted"} /\ pc \in Pcs
      BY <2>1, <2>2 DEF Pcs
    <2>5. v = [w EXCEPT !.next = n, !.baseline = 0, !.pc = pc]
      BY DEF NextCandidate
    <2> HIDE DEF n, pc, v
    <2>6. Successor(w, v, pc) /\ v.next = n /\ v.candidates = w.candidates
      BY <1>1, <2>4, <2>5 DEF Workers, Pcs, Successor
    <2>7. Equipped(v)
      BY <2>1, <2>3, <2>4, <2>6 DEF Equipped, Successor
    <2>8. v \in EquippedWorkers /\ \E q \in {"baseline", "exhausted"} : Successor(w, v, q)
      BY <2>4, <2>6, <2>7 DEF EquippedWorkers, Successor
    <2> QED BY <2>8 DEF v
  <1>3. Watcher(w) \in EquippedWorkers
    BY <1>1, GoroutineUpdates DEF EquippedWorkers, Equipped, Successor
  <1>4. ASSUME NEW pc \in {"promote", "adopt"}, NEW e \in Endpoints \cup {NoEndpoint}
        PROVE  Found(w, pc, e) \in EquippedWorkers
    <2>1. Successor(w, Found(w, pc, e), pc)
      BY <1>1, GoroutineUpdates DEF Pcs
    <2> QED BY <2>1 DEF EquippedWorkers, Equipped, Successor
  <1> QED BY <1>2, <1>3, <1>4

LEMMA GoroutineTypes ==
    ASSUME TypeInv, NEW i \in Slots, WorkerStep(i)
    PROVE  TypeInv'
  <1> DEFINE w == workers[i]
  <1>0. ASSUME NEW pc, At(i, pc) \/ workers[i] # NoWorker
        PROVE  /\ w \in EquippedWorkers /\ w \in Workers /\ w.key \in Servers
               /\ wg[w.key] \in KernelPeers \cup {NoPeer}
               /\ states[w.key] \in PeerStates \cup {NoState}
    BY <1>0 DEF At, TypeInv, TypeOK, EquippedWorkers, Workers
  \* A step that turns the goroutine into v, or ends it, and leaves the rest to
  \* be shown.
  <1>a. ASSUME NEW v \in EquippedWorkers \cup {NoWorker}, Becomes(i, v)
        PROVE  /\ workers' \in [Slots -> EquippedWorkers \cup {NoWorker}]
               /\ workers' \in [Slots -> Workers \cup {NoWorker}]
    BY <1>a DEF Becomes, TypeInv, TypeOK, EquippedWorkers
  <1>b. ASSUME NEW v \in EquippedWorkers \cup {NoWorker}, Becomes(i, v), OnlyMoves
        PROVE  TypeInv'
    BY <1>a, <1>b DEF OnlyMoves, TypeInv, TypeOK
  <1>c. ASSUME NEW v \in EquippedWorkers \cup {NoWorker}, Becomes(i, v), MainRests,
               states' \in [Servers -> PeerStates \cup {NoState}],
               wg' \in [Servers -> KernelPeers \cup {NoPeer}], faults' \in Nat
        PROVE  TypeInv'
    BY <1>a, <1>c DEF MainRests, TypeInv, TypeOK
  <1>e. Ends(i) <=> Becomes(i, NoWorker)
    BY DEF Ends
  <1>f. ASSUME Spend(1) PROVE faults' \in Nat
    BY <1>f DEF Spend, TypeInv, TypeOK
  <1>t. /\ states \in [Servers -> PeerStates \cup {NoState}]
        /\ wg \in [Servers -> KernelPeers \cup {NoPeer}] /\ faults \in Nat
    BY DEF TypeInv, TypeOK
  <1>1. CASE Fenced(i)
    BY <1>1, <1>b, <1>e DEF Fenced
  <1>2. CASE ProbeStarts(i)
    <2>1. w \in Workers /\ w.key \in Servers /\ w.pc = "start"
      BY <1>2, <1>0 DEF ProbeStarts, At
    <2>2. CASE Current(w)
      <3> DEFINE v == [w EXCEPT !.pc = "baseline", !.candidates = states[w.key].candidates]
      <3>1. Becomes(i, v) /\ OnlyMoves
        BY <1>2, <2>2 DEF ProbeStarts
      <3>2. states[w.key].candidates \in CandidateLists
        BY <2>1, <2>2, <1>t DEF Current, PeerStates
      <3>3. Successor(w, v, "baseline") /\ v.candidates = states[w.key].candidates
            /\ v.next = w.next
        BY <2>1, <3>2, GoroutineUpdates DEF Pcs
      <3>4. w.next = 1 /\ 1 \in 1..Len(states[w.key].candidates)
        <4>1. Equipped(w)
          BY <1>2, <1>0 DEF ProbeStarts, At, EquippedWorkers
        <4>2. Len(states[w.key].candidates) \in Nat \ {0}
          BY <3>2, ListsAssumption
        <4> QED BY <4>1, <4>2, <2>1 DEF Equipped
      <3>5. v \in Workers /\ v.pc = "baseline" /\ Equipped(v)
        <4> HIDE DEF v
        <4> QED BY <3>2, <3>3, <3>4 DEF Successor, Equipped
      <3>6. v \in EquippedWorkers
        <4> HIDE DEF v
        <4> QED BY <3>5 DEF EquippedWorkers
      <3> QED BY <3>1, <3>6, <1>b
    <2>3. CASE ~Current(w)
      <3> DEFINE v == [w EXCEPT !.pc = "cancel"]
      <3>1. Becomes(i, v) /\ OnlyMoves
        BY <1>2, <2>3 DEF ProbeStarts
      <3>2. Successor(w, v, "cancel")
        BY <2>1, GoroutineUpdates DEF Pcs
      <3>3. v \in EquippedWorkers
        <4> HIDE DEF v
        <4> QED BY <3>2 DEF Successor, Equipped, EquippedWorkers
      <3> QED BY <3>1, <3>3, <1>b
    <2> QED BY <2>2, <2>3
  <1>3. CASE ProbeCancelled(i)
    <2>1. Becomes(i, NoWorker) /\ MainRests /\ UNCHANGED <<wg, faults>>
      BY <1>3, <1>e DEF ProbeCancelled
    <2>2. states' \in [Servers -> PeerStates \cup {NoState}]
      <3>1. /\ states[w.key] \in PeerStates \cup {NoState}
            /\ \/ UNCHANGED states
               \/ /\ states[w.key] # NoState
                  /\ states' = [states EXCEPT ![w.key] = Cancelled(states[w.key])]
        BY <1>3, <1>0 DEF ProbeCancelled
      <3>2. states[w.key] # NoState => Cancelled(states[w.key]) \in PeerStates
        BY <3>1, StateTypes
      <3> QED BY <3>1, <3>2, <1>t
    <2> QED BY <2>1, <2>2, <1>c, <1>t
  <1>4. CASE ProbeReadsBaseline(i)
    <2>1. PICK failed \in {0, 1} :
             /\ Spend(failed)
             /\ Becomes(i, [w EXCEPT !.pc = "arm", !.baseline =
                              IF failed = 1 THEN 0 ELSE LatestHandshake(wg[w.key])])
      BY <1>4 DEF ProbeReadsBaseline
    <2> DEFINE b == IF failed = 1 THEN 0 ELSE LatestHandshake(wg[w.key])
               v == [w EXCEPT !.pc = "arm", !.baseline = b]
    <2>2. w \in Workers /\ Equipped(w) /\ w.pc = "baseline"
      BY <1>4, <1>0 DEF ProbeReadsBaseline, At, EquippedWorkers
    <2>3. b \in Nat
      BY <1>4, <1>0, KernelTypes DEF ProbeReadsBaseline
    <2>4. Becomes(i, v)
      BY <2>1
    <2>5. v \in EquippedWorkers
      <3> HIDE DEF b
      <3> QED BY <2>2, <2>3 DEF EquippedWorkers, Equipped, Workers
    <2>6. faults' \in Nat /\ UNCHANGED <<states, wg>> /\ MainRests
      BY <1>4, <2>1, <1>t DEF ProbeReadsBaseline, Spend
    <2> QED BY <2>4, <2>5, <2>6, <1>c, <1>t
  <1>5. CASE ProbeArms(i)
    <2> DEFINE e == w.candidates[w.next]
    <2>1. w \in EquippedWorkers /\ w \in Workers /\ Equipped(w) /\ w.pc = "arm"
      BY <1>5, <1>0 DEF ProbeArms, At, EquippedWorkers
    <2>2. UNCHANGED states /\ MainRests
      BY <1>5 DEF ProbeArms
    <2>3. CASE wg' = [wg EXCEPT ![w.key] = Aimed(@, e)] /\ Becomes(i, [w EXCEPT !.pc = "poll"])
               /\ UNCHANGED faults
      <3>1. e \in Endpoints
        <4>1. w.candidates \in Seq(Endpoints) /\ w.next \in 1..Len(w.candidates)
          BY <2>1, ListsAssumption DEF Equipped
        <4> QED BY <4>1
      <3>2. Aimed(wg[w.key], e) \in KernelPeers
        BY <1>5, <1>0, <3>1, KernelTypes DEF ProbeArms
      <3>3. wg' \in [Servers -> KernelPeers \cup {NoPeer}]
        <4> HIDE DEF e
        <4> QED BY <2>3, <3>2, <1>t
      <3>4. [w EXCEPT !.pc = "poll"] \in EquippedWorkers
        BY <2>1 DEF EquippedWorkers, Equipped, Workers
      <3> QED BY <2>2, <2>3, <3>3, <3>4, <1>c, <1>t
    <2>4. CASE Spend(1) /\ Becomes(i, NextCandidate(w)) /\ UNCHANGED wg
      <3>1. NextCandidate(w) \in EquippedWorkers
        BY <2>1, WorkerTypes
      <3> QED BY <2>2, <2>4, <3>1, <1>c, <1>f, <1>t
    <2> QED BY <1>5, <2>3, <2>4 DEF ProbeArms
  <1>6. CASE ProbeSeesHandshake(i)
    <2>1. Becomes(i, Found(w, "promote", wg[w.key].endpoint)) /\ OnlyMoves
      BY <1>6 DEF ProbeSeesHandshake
    <2>2. w \in EquippedWorkers /\ wg[w.key] \in KernelPeers \cup {NoPeer}
      BY <1>6, <1>0 DEF ProbeSeesHandshake
    <2>3. LatestHandshake(wg[w.key]) > w.baseline /\ w.baseline \in Nat
      BY <1>6, <1>0 DEF ProbeSeesHandshake, Workers
    <2>4. wg[w.key].endpoint \in Endpoints \cup {NoEndpoint}
      BY <2>2, <2>3 DEF LatestHandshake, KernelPeers
    <2>5. Found(w, "promote", wg[w.key].endpoint) \in EquippedWorkers
      BY <2>2, <2>4, WorkerTypes
    <2> QED BY <2>1, <2>5, <1>b
  <1>7. CASE ProbeWindowEnds(i)
    <2>1. NextCandidate(w) \in EquippedWorkers
      BY <1>7, <1>0, WorkerTypes DEF ProbeWindowEnds, At
    <2> QED BY <1>7, <2>1, <1>b DEF ProbeWindowEnds
  <1>8. CASE ProbePromotes(i) \/ WatchPromotes(i)
    <2>1. Becomes(i, NoWorker) /\ MainRests
      BY <1>8, <1>e DEF ProbePromotes, WatchPromotes
    <2>2. /\ w \in Workers /\ w.key \in Servers
          /\ wg[w.key] \in KernelPeers \cup {NoPeer}
          /\ states[w.key] \in PeerStates
      BY <1>8, <1>0 DEF ProbePromotes, WatchPromotes, Current, Armed, At
    <2>3. CASE /\ wg' = [wg EXCEPT ![w.key] = Promoted(@, w.endpoint)]
               /\ states' = [states EXCEPT ![w.key] = DirectAtLast(@)]
               /\ UNCHANGED faults
      <3>1. Promoted(wg[w.key], w.endpoint) \in KernelPeers
        BY <2>2, KernelTypes DEF Workers
      <3>2. DirectAtLast(states[w.key]) \in PeerStates
        BY <2>2, StateTypes
      <3>3. wg' \in [Servers -> KernelPeers \cup {NoPeer}]
        BY <2>3, <3>1, <1>t
      <3>4. states' \in [Servers -> PeerStates \cup {NoState}]
        BY <2>3, <3>2, <1>t
      <3> QED BY <2>1, <2>3, <3>3, <3>4, <1>c, <1>t
    <2>4. CASE Spend(1) /\ UNCHANGED <<states, wg>>
      BY <2>1, <2>4, <1>c, <1>f, <1>t
    <2> QED BY <1>8, <2>3, <2>4 DEF ProbePromotes, WatchPromotes
  <1>9. CASE ProbeExhausted(i)
    <2>1. w \in EquippedWorkers /\ w \in Workers /\ w.key \in Servers
          /\ wg[w.key] \in KernelPeers \cup {NoPeer} /\ states[w.key] \in PeerStates
      BY <1>9, <1>0 DEF ProbeExhausted, Current, At
    <2>2. PICK own6 \in OwnIPv6, failed \in SUBSET {"remove", "arm"} :
             LET passive == own6 /\ Listed(w.candidates) \cap Host6 = {}
                 left == IF "remove" \in failed THEN wg[w.key] ELSE NoPeer
             IN  /\ Spend(Cardinality(failed))
                 /\ wg' = [wg EXCEPT ![w.key] = IF passive /\ "arm" \notin failed
                                                THEN Existing(left) ELSE left]
                 /\ states' = [states EXCEPT ![w.key] =
                       [@ EXCEPT !.mode = IF passive THEN "passive6" ELSE "idle",
                                 !.retryDue = FALSE, !.running = FALSE]]
                 /\ Becomes(i, IF passive THEN Watcher(w) ELSE NoWorker)
      BY <1>9 DEF ProbeExhausted
    <2> DEFINE passive == own6 /\ Listed(w.candidates) \cap Host6 = {}
               left == IF "remove" \in failed THEN wg[w.key] ELSE NoPeer
               mode == IF passive THEN "passive6" ELSE "idle"
               v == IF passive THEN Watcher(w) ELSE NoWorker
    <2>3. faults' \in Nat
      <3>1. IsFiniteSet({"remove", "arm"})
        <4>1. IsFiniteSet({"remove"}) /\ IsFiniteSet({"arm"})
          BY FS_Singleton
        <4>2. IsFiniteSet({"remove"} \cup {"arm"})
          BY <4>1, FS_Union
        <4>3. {"remove", "arm"} = {"remove"} \cup {"arm"}
          OBVIOUS
        <4> QED BY <4>2, <4>3
      <3> QED BY <2>2, <3>1, <1>t, FaultTypes
    <2>4. left \in KernelPeers \cup {NoPeer} /\ Existing(left) \in KernelPeers
      BY <2>1, KernelTypes
    <2>5. wg' \in [Servers -> KernelPeers \cup {NoPeer}]
      <3>1. wg' = [wg EXCEPT ![w.key] = IF passive /\ "arm" \notin failed
                                        THEN Existing(left) ELSE left]
        BY <2>2
      <3> HIDE DEF passive, left
      <3> QED BY <3>1, <2>4, <1>t
    <2>6. states' \in [Servers -> PeerStates \cup {NoState}]
      <3> DEFINE s == [states[w.key] EXCEPT !.mode = mode, !.retryDue = FALSE,
                                            !.running = FALSE]
      <3>1. mode \in {"idle", "passive6"}
        OBVIOUS
      <3>2. s \in PeerStates
        <4> HIDE DEF mode
        <4> QED BY <2>1, <3>1 DEF PeerStates
      <3>3. states' = [states EXCEPT ![w.key] = s]
        BY <2>2
      <3> HIDE DEF s
      <3> QED BY <3>2, <3>3, <1>t
    <2>7. v \in EquippedWorkers \cup {NoWorker} /\ Becomes(i, v)
      BY <2>1, <2>2, WorkerTypes
    <2>8. MainRests
      BY <1>9 DEF ProbeExhausted
    <2> QED BY <2>3, <2>5, <2>6, <2>7, <2>8, <1>c
  <1>10. CASE WatchSeesHandshake(i)
    <2>1. Becomes(i, Found(w, "adopt", wg[w.key].endpoint)) /\ OnlyMoves
      BY <1>10 DEF WatchSeesHandshake
    <2>2. w \in EquippedWorkers
      BY <1>10, <1>0 DEF WatchSeesHandshake
    <2>3. wg[w.key].endpoint \in Endpoints
      BY <1>10, ListsAssumption DEF WatchSeesHandshake
    <2>4. Found(w, "adopt", wg[w.key].endpoint) \in EquippedWorkers
      BY <2>2, <2>3, WorkerTypes
    <2> QED BY <2>1, <2>4, <1>b
  <1>11. CASE WatchEnds(i)
    BY <1>11, <1>b, <1>e DEF WatchEnds
  <1> QED BY <1>1, <1>2, <1>3, <1>4, <1>5, <1>6, <1>7, <1>8, <1>9, <1>10, <1>11 DEF WorkerStep

-----------------------------------------------------------------------------

LEMMA EnvironmentTypes ==
    ASSUME TypeInv, NEW k \in Servers,
           \/ \E e \in Endpoints : WgHandshake(k, e)
           \/ HandshakeAges(k) \/ RetryElapses(k)
           \/ \E a \in Announcements : AnnouncementChanges(k, a)
    PROVE  TypeInv'
  <1> USE DEF TypeInv, TypeOK
  <1>1. CASE \E e \in Endpoints : WgHandshake(k, e)
    <2>1. PICK e \in Endpoints : WgHandshake(k, e)
      BY <1>1
    <2> DEFINE n == handshakes + 1
               p == [wg[k] EXCEPT !.handshake = n, !.age = "new", !.endpoint = e]
    <2>2. n \in Nat /\ wg[k] \in KernelPeers /\ handshakes' = n
      <3>1. handshakes \in Nat /\ handshakes' = n /\ wg[k] # NoPeer
        BY <2>1 DEF WgHandshake
      <3> QED BY <3>1
    <2>3. wg' = [wg EXCEPT ![k] = p]
      BY <2>1, <2>2 DEF WgHandshake
    <2>4. p \in KernelPeers
      <3> HIDE DEF n
      <3> QED BY <2>2 DEF KernelPeers
    <2>5. wg' \in [Servers -> KernelPeers \cup {NoPeer}]
      <3> HIDE DEF p
      <3> QED BY <2>3, <2>4
    <2> QED BY <2>1, <2>2, <2>5 DEF WgHandshake
  <1>2. CASE HandshakeAges(k)
    <2> DEFINE age == IF wg[k].age = "new" THEN "fresh" ELSE "stale"
               p == [wg[k] EXCEPT !.age = age]
    <2>1. wg[k] \in KernelPeers /\ wg' = [wg EXCEPT ![k] = p]
      BY <1>2 DEF HandshakeAges
    <2>2. p \in KernelPeers
      BY <2>1 DEF KernelPeers
    <2>3. wg' \in [Servers -> KernelPeers \cup {NoPeer}]
      <3> HIDE DEF p
      <3> QED BY <2>1, <2>2
    <2> QED BY <1>2, <2>3 DEF HandshakeAges
  <1>3. CASE RetryElapses(k)
    <2> DEFINE s == [states[k] EXCEPT !.retryDue = TRUE]
    <2>1. s \in PeerStates /\ states' = [states EXCEPT ![k] = s]
      BY <1>3 DEF RetryElapses, PeerStates
    <2>2. states' \in [Servers -> PeerStates \cup {NoState}]
      <3> HIDE DEF s
      <3> QED BY <2>1
    <2> QED BY <1>3, <2>2 DEF RetryElapses
  <1>4. CASE \E a \in Announcements : AnnouncementChanges(k, a)
    BY <1>4 DEF AnnouncementChanges, Change
  <1> QED BY <1>1, <1>2, <1>3, <1>4

LEMMA StepTypes == TypeInv /\ [Next]_vars => TypeInv'
  <1> SUFFICES ASSUME TypeInv, [Next]_vars PROVE TypeInv'
    OBVIOUS
  <1>1. CASE MainStep
    BY <1>1, BeginPassTypes, LoopTypes, ReconcileTypes, RetireTypes DEF MainStep
  <1>2. CASE TunnelInactive \/ TunnelChanges \/ Stop \/ StopDown \/ ClientCrashes
    BY <1>2, LoopTypes
  <1>3. CASE \E i \in Slots : WorkerStep(i)
    BY <1>3, GoroutineTypes
  <1>4. CASE \/ \E k \in Servers, e \in Endpoints : WgHandshake(k, e)
             \/ \E k \in Servers : HandshakeAges(k) \/ RetryElapses(k)
             \/ \E k \in Servers, a \in Announcements : AnnouncementChanges(k, a)
    BY <1>4, EnvironmentTypes
  <1>5. CASE UNCHANGED vars
    BY <1>5 DEF vars, TypeInv, TypeOK
  <1> QED BY <1>1, <1>2, <1>3, <1>4, <1>5 DEF Next

\* Every reachable state is well typed: a goroutine that tries a candidate has
\* one, and a pass only reconciles servers that announced some.
THEOREM ClientTyped == Spec => []TypeOK
  <1>1. Spec => []TypeInv
    BY InitTypes, StepTypes, PTL DEF Spec
  <1>2. TypeInv => TypeOK
    BY DEF TypeInv
  <1> QED BY <1>1, <1>2, PTL

-----------------------------------------------------------------------------
(* The fence.  For a server whose state was not created anew beside an old   *)
(* goroutine, no probe is ahead of the state and at most one is up to date.  *)
(* While the state says that none runs, that one is stopped by the flag; it  *)
(* stays stopped because the server is direct, with a route that the next    *)
(* look at the kernel finds, and such a server gets a new generation before  *)
(* it gets a new probe.                                                      *)

IsProbe(w, k) == w # NoWorker /\ w.key = k /\ w.pc \notin {"watch", "adopt"}

\* What holds of the up-to-date probe w of server k: s is the state of k, p its
\* kernel peer, and the pass in progress has still to reconcile the servers in
\* todo and saw local in the kernel for k.
Guarded(k, s, p, w, todo, local) ==
    /\ ~s.running => s.mode = "direct" /\ Routed(p) /\ (k \in todo => Routed(local))
    /\ k \in todo /\ Routed(local) => Routed(p)
    /\ w.pc = "promote" /\ s.running => LatestHandshake(p) > 0

Fencing(k, s, p, ws, todo, local) ==
    s # NoState =>
        /\ \A i \in Slots : IsProbe(ws[i], k) => ws[i].generation <= s.generation
        /\ \A i, j \in Slots :
              (/\ IsProbe(ws[i], k) /\ ws[i].generation = s.generation
               /\ IsProbe(ws[j], k) /\ ws[j].generation = s.generation) => i = j
        /\ \A i \in Slots : IsProbe(ws[i], k) /\ ws[i].generation = s.generation
                              => Guarded(k, s, p, ws[i], todo, local)

FenceInv == \A k \in Servers \ reused :
                Fencing(k, states[k], wg[k], workers, pass.todo, pass.locals[k])

\* Without a tunnel there are no states, and passes only with one.
LoopInv == /\ loop = "down" => states = NoStates
           /\ loop # "running" => pass = NoPass

\* No probe of k is new in ws2, and one that is new to promoting its peer p has
\* a handshake.
Shrinks(k, p, ws, ws2) ==
    \A i \in Slots : IsProbe(ws2[i], k) =>
        /\ IsProbe(ws[i], k) /\ ws2[i].generation = ws[i].generation
        /\ ws2[i].pc = "promote" => ws[i].pc = "promote" \/ LatestHandshake(p) > 0

\* State s2 is gone, or has of s what the fence looks at.
Alike(s, s2) ==
    s2 # NoState => /\ s # NoState /\ s2.generation = s.generation
                    /\ s2.mode = s.mode /\ s2.running = s.running

\* A step that leaves the fence of k alone: its probes go on or end, its kernel
\* peer keeps what it has, and the pass goes on or has just looked at the kernel.
LEMMA Untouched ==
    ASSUME NEW k, NEW s, NEW p, NEW ws, NEW todo, NEW local,
           NEW s2, NEW p2, NEW ws2, NEW todo2, NEW local2,
           Fencing(k, s, p, ws, todo, local), Shrinks(k, p2, ws, ws2),
           Alike(s, s2),
           Routed(p) => Routed(p2),
           LatestHandshake(p) > 0 => LatestHandshake(p2) > 0,
           k \in todo2 => (k \in todo /\ local2 = local) \/ local2 = p
    PROVE  Fencing(k, s2, p2, ws2, todo2, local2)
  <1> SUFFICES ASSUME s2 # NoState
               PROVE  Fencing(k, s2, p2, ws2, todo2, local2)
    BY DEF Fencing
  <1>1. /\ s # NoState /\ s2.generation = s.generation
        /\ s2.mode = s.mode /\ s2.running = s.running
    BY DEF Alike
  <1>2. ASSUME NEW i \in Slots, IsProbe(ws2[i], k)
        PROVE  ws2[i].generation <= s2.generation
    BY <1>1, <1>2 DEF Fencing, Shrinks
  <1>3. ASSUME NEW i \in Slots, NEW j \in Slots,
               IsProbe(ws2[i], k), ws2[i].generation = s2.generation,
               IsProbe(ws2[j], k), ws2[j].generation = s2.generation
        PROVE  i = j
    BY <1>1, <1>3 DEF Fencing, Shrinks
  <1>4. ASSUME NEW i \in Slots, IsProbe(ws2[i], k), ws2[i].generation = s2.generation
        PROVE  Guarded(k, s2, p2, ws2[i], todo2, local2)
    <2>1. Guarded(k, s, p, ws[i], todo, local)
      BY <1>1, <1>4 DEF Fencing, Shrinks
    <2>2. ws2[i].pc = "promote" => ws[i].pc = "promote" \/ LatestHandshake(p2) > 0
      BY <1>4 DEF Shrinks
    <2> QED BY <1>1, <2>1, <2>2 DEF Guarded
  <1> QED BY <1>2, <1>3, <1>4 DEF Fencing

\* The generation moves on, or the state is new: no probe is up to date.
LEMMA Bumped ==
    ASSUME NEW k, NEW p, NEW ws, NEW todo, NEW local, NEW s2 \in PeerStates,
           \A i \in Slots : IsProbe(ws[i], k) =>
               ws[i].generation \in Nat /\ ws[i].generation < s2.generation
    PROVE  Fencing(k, s2, p, ws, todo, local)
  BY DEF Fencing, PeerStates

\* A probe is launched where none is up to date.
LEMMA Launched ==
    ASSUME NEW k, NEW p, NEW ws \in [Slots -> Workers \cup {NoWorker}], NEW todo, NEW local,
           NEW s2 \in PeerStates, NEW f \in Slots, s2.running, k \notin todo,
           \A i \in Slots : IsProbe(ws[i], k) => ws[i].generation < s2.generation
    PROVE  Fencing(k, s2, p, [ws EXCEPT ![f] = Probe(k, s2.generation)], todo, local)
  <1> DEFINE ws2 == [ws EXCEPT ![f] = Probe(k, s2.generation)]
  <1>1. /\ ws2[f] = Probe(k, s2.generation)
        /\ \A i \in Slots : i # f => ws2[i] = ws[i]
    OBVIOUS
  <1>2. ws2[f].generation = s2.generation /\ ws2[f].pc = "start"
    BY <1>1 DEF Probe
  <1>3. s2.generation \in Nat
    BY DEF PeerStates
  <1>4. \A i \in Slots : IsProbe(ws[i], k) => ws[i].generation \in Nat
    BY DEF IsProbe, Workers
  <1> HIDE DEF ws2
  <1>5. ASSUME NEW i \in Slots, IsProbe(ws2[i], k)
        PROVE  /\ ws2[i].generation <= s2.generation
               /\ ws2[i].generation = s2.generation => i = f
    BY <1>1, <1>2, <1>3, <1>4, <1>5
  <1>6. Guarded(k, s2, p, ws2[f], todo, local)
    BY <1>2 DEF Guarded
  <1>7. Fencing(k, s2, p, ws2, todo, local)
    BY <1>5, <1>6 DEF Fencing
  <1> QED BY <1>7 DEF ws2

\* The up-to-date probe ends: none is left, whatever becomes of the rest.
LEMMA Ended ==
    ASSUME NEW k, NEW s \in PeerStates, NEW p, NEW ws, NEW todo, NEW local,
           NEW s2 \in PeerStates, NEW p2, NEW ws2, NEW todo2, NEW local2, NEW i \in Slots,
           Fencing(k, s, p, ws, todo, local), Shrinks(k, p2, ws, ws2),
           IsProbe(ws[i], k), ws[i].generation = s.generation, ~IsProbe(ws2[i], k),
           s2.generation = s.generation
    PROVE  Fencing(k, s2, p2, ws2, todo2, local2)
  <1>1. s # NoState
    BY EmptyAssumption
  <1>2. ASSUME NEW j \in Slots, IsProbe(ws2[j], k)
        PROVE  ws2[j].generation <= s2.generation /\ ws2[j].generation # s2.generation
    BY <1>1, <1>2 DEF Fencing, Shrinks
  <1> QED BY <1>2 DEF Fencing

\* The pass finds the server direct: what is up to date is stopped.
LEMMA FoundDirect ==
    ASSUME NEW k, NEW s \in PeerStates, NEW p, NEW ws, NEW todo, NEW local,
           NEW s2 \in PeerStates, NEW p2, NEW todo2, NEW local2,
           Fencing(k, s, p, ws, todo, local), s2.generation = s.generation,
           s2.mode = "direct", ~s2.running, k \notin todo2,
           Routed(p2) \/ (k \in todo /\ Routed(local) /\ p2 = p)
    PROVE  Fencing(k, s2, p2, ws, todo2, local2)
  <1>1. s # NoState
    BY EmptyAssumption
  <1>2. ASSUME NEW i \in Slots, IsProbe(ws[i], k), ws[i].generation = s2.generation
        PROVE  Guarded(k, s2, p2, ws[i], todo2, local2)
    <2>1. Guarded(k, s, p, ws[i], todo, local)
      BY <1>1, <1>2 DEF Fencing
    <2>2. Routed(p2)
      BY <2>1 DEF Guarded
    <2> QED BY <2>2 DEF Guarded
  <1> QED BY <1>1, <1>2 DEF Fencing

\* A server that is not direct and has no probe running has none up to date.
LEMMA NoneUpToDate ==
    ASSUME NEW k, NEW s \in PeerStates, NEW p,
           NEW ws \in [Slots -> Workers \cup {NoWorker}], NEW todo, NEW local,
           Fencing(k, s, p, ws, todo, local), ~s.running,
           s.mode # "direct" \/ (k \in todo /\ ~Routed(local))
    PROVE  \A i \in Slots : IsProbe(ws[i], k) =>
               ws[i].generation \in Nat /\ ws[i].generation < s.generation
  <1> SUFFICES ASSUME NEW i \in Slots, IsProbe(ws[i], k)
               PROVE  ws[i].generation \in Nat /\ ws[i].generation < s.generation
    OBVIOUS
  <1>1. s # NoState /\ s.generation \in Nat
    BY EmptyAssumption DEF PeerStates
  <1>2. ws[i].generation \in Nat
    BY DEF IsProbe, Workers
  <1>3. ws[i].generation <= s.generation
    BY <1>1 DEF Fencing
  <1>4. ws[i].generation # s.generation
    <2> SUFFICES ASSUME ws[i].generation = s.generation PROVE FALSE
      OBVIOUS
    <2>1. Guarded(k, s, p, ws[i], todo, local)
      BY <1>1 DEF Fencing
    <2> QED BY <2>1 DEF Guarded
  <1> QED BY <1>1, <1>2, <1>3, <1>4

-----------------------------------------------------------------------------
(* The steps keep the fence *)

IInv == TypeInv /\ FenceInv /\ LoopInv

LEMMA TypedParts ==
    ASSUME TypeInv
    PROVE  /\ workers \in [Slots -> Workers \cup {NoWorker}]
           /\ states \in [Servers -> PeerStates \cup {NoState}]
           /\ wg \in [Servers -> KernelPeers \cup {NoPeer}]
           /\ pass \in Passes
  BY DEF TypeInv, TypeOK

LEMMA InitFence == Init => IInv
  <1> SUFFICES ASSUME Init PROVE IInv
    OBVIOUS
  <1>1. TypeInv
    BY InitTypes
  <1>2. FenceInv
    BY DEF Init, FenceInv, Fencing, NoStates
  <1>3. LoopInv
    BY DEF Init, LoopInv
  <1> QED BY <1>1, <1>2, <1>3 DEF IInv

LEMMA RemainingKeeps ==
    ASSUME NEW p
    PROVE  /\ Remaining(p).todo = p.todo
           /\ \A k \in Remaining(p).todo : Remaining(p).locals = p.locals
           /\ p.todo # {} => Remaining(p) = p
  BY DEF Remaining, NoPass

LEMMA BeginPassFence ==
    ASSUME IInv, BeginPass
    PROVE  FenceInv' /\ LoopInv'
  <1> DEFINE listed == {k \in Servers : announced[k].listing # "absent"}
             active == {k \in Servers : announced[k].listing = "online"}
             begun == [answer |-> announced, locals |-> wg, todo |-> active,
                       retire |-> (serverKeys \cup listed) \ active]
  <1>1. pass' = Remaining(begun) /\ begun.locals = wg
    BY DEF BeginPass
  <1>2. UNCHANGED <<states, wg, workers, reused, loop>> /\ loop = "running"
    BY DEF BeginPass, Waiting
  <1> HIDE DEF begun
  <1>3. \A k \in pass'.todo : pass'.locals = wg
    BY <1>1, RemainingKeeps
  <1>4. ASSUME NEW k \in Servers \ reused
        PROVE  Fencing(k, states[k], wg[k], workers, pass'.todo, pass'.locals[k])
    <2>1. Fencing(k, states[k], wg[k], workers, pass.todo, pass.locals[k])
      BY DEF IInv, FenceInv
    <2>2. Shrinks(k, wg[k], workers, workers) /\ Alike(states[k], states[k])
      BY DEF Shrinks, Alike
    <2>3. k \in pass'.todo => pass'.locals[k] = wg[k]
      BY <1>3
    <2> QED BY <2>1, <2>2, <2>3, Untouched
  <1> QED BY <1>2, <1>4 DEF FenceInv, LoopInv

LEMMA LoopFence ==
    ASSUME IInv,
           \/ FallBackStaleDirects \/ TunnelInactive \/ TunnelActive
           \/ TunnelChanges \/ Stop \/ StopDown \/ ClientCrashes
    PROVE  FenceInv' /\ LoopInv'
  <1>0. /\ workers \in [Slots -> Workers \cup {NoWorker}]
        /\ states \in [Servers -> PeerStates \cup {NoState}]
    BY TypedParts DEF IInv
  \* A new generation is ahead of every probe.
  <1>a. ASSUME NEW k \in Servers \ reused, NEW s2 \in PeerStates, NEW p2, NEW todo2, NEW local2,
               states[k] # NoState, s2.generation = states[k].generation + 1
        PROVE  Fencing(k, s2, p2, workers, todo2, local2)
    <2>1. Fencing(k, states[k], wg[k], workers, pass.todo, pass.locals[k])
      BY DEF IInv, FenceInv
    <2>2. ASSUME NEW i \in Slots, IsProbe(workers[i], k)
          PROVE  workers[i].generation \in Nat /\ workers[i].generation < s2.generation
      <3>1. states[k].generation \in Nat
        BY <1>0, <1>a DEF PeerStates
      <3>2. workers[i].generation \in Nat
        BY <1>0, <2>2 DEF IsProbe, Workers
      <3>3. workers[i].generation <= states[k].generation
        BY <2>1, <2>2, <1>a DEF Fencing
      <3> QED BY <3>1, <3>2, <3>3, <1>a
    <2> QED BY <2>2, Bumped
  <1>1. CASE FallBackStaleDirects
    <2> DEFINE dead == {k \in serverKeys : Dead(wg[k])}
    <2>1. PICK failed \in SUBSET dead :
             /\ wg' = Removed(dead, failed)
             /\ states' = [k \in Servers |-> IF k \in dead /\ states[k] # NoState
                                          THEN Restarted(states[k]) ELSE states[k]]
      BY <1>1 DEF FallBackStaleDirects
    <2>2. UNCHANGED <<workers, reused, loop, pass>> /\ loop = "running"
      BY <1>1 DEF FallBackStaleDirects, Waiting
    <2> HIDE DEF dead
    <2>3. ASSUME NEW k \in Servers \ reused
          PROVE  Fencing(k, states'[k], wg'[k], workers, pass.todo, pass.locals[k])
      <3>1. CASE states[k] = NoState
        BY <2>1, <3>1 DEF Fencing
      <3>2. CASE k \in dead /\ states[k] # NoState
        <4>1. states'[k] = Restarted(states[k]) /\ states[k] \in PeerStates
          BY <1>0, <2>1, <3>2
        <4> QED BY <4>1, <3>2, <1>a, StateTypes
      <3>3. CASE k \notin dead
        <4>1. states'[k] = states[k] /\ wg'[k] = wg[k]
          BY <2>1, <3>3 DEF Removed
        <4> QED BY <4>1 DEF IInv, FenceInv
      <3> QED BY <3>1, <3>2, <3>3
    <2> QED BY <2>2, <2>3 DEF FenceInv, LoopInv, IInv
  <1>2. CASE TunnelInactive \/ TunnelChanges \/ ClientCrashes
    <2>1. states' = NoStates /\ (loop' # "running" => pass' = NoPass)
      BY <1>2 DEF TunnelInactive, TunnelChanges, ClientCrashes, Waiting
    <2> QED BY <2>1 DEF FenceInv, LoopInv, Fencing, NoStates
  <1>3. CASE TunnelActive
    <2>1. states' = NoStates /\ loop' = "running"
      BY <1>3 DEF TunnelActive, IInv, LoopInv
    <2> QED BY <2>1 DEF FenceInv, LoopInv, Fencing, NoStates
  <1>4. CASE Stop
    <2>1. /\ UNCHANGED <<workers, reused, pass>> /\ pass = NoPass /\ loop' = "stopped"
          /\ states' = [k \in Servers |-> IF states[k] = NoState THEN NoState
                                          ELSE Silenced(states[k])]
      BY <1>4 DEF Stop, Waiting
    <2>2. ASSUME NEW k \in Servers \ reused
          PROVE  Fencing(k, states'[k], wg'[k], workers, pass.todo, pass.locals[k])
      <3>1. CASE states[k] = NoState
        BY <2>1, <3>1 DEF Fencing
      <3>2. CASE states[k] # NoState
        <4>1. states'[k] = Silenced(states[k]) /\ states[k] \in PeerStates
          BY <1>0, <2>1, <3>2
        <4> QED BY <4>1, <3>2, <1>a, StateTypes
      <3> QED BY <3>1, <3>2
    <2> QED BY <2>1, <2>2 DEF FenceInv, LoopInv
  <1>5. CASE StopDown
    <2>1. /\ UNCHANGED <<states, wg, workers, reused, pass>>
          /\ loop = "down" /\ loop' = "stopped"
      BY <1>5 DEF StopDown
    <2> QED BY <2>1 DEF IInv, FenceInv, LoopInv
  <1> QED BY <1>1, <1>2, <1>3, <1>4, <1>5

\* A step in which server k is left alone: state, kernel peer and goroutines.
LEMMA Elsewhere ==
    ASSUME IInv, NEW k \in Servers \ reused,
           states'[k] = states[k], wg'[k] = wg[k],
           Shrinks(k, wg[k], workers, workers'),
           k \in pass'.todo => k \in pass.todo /\ pass'.locals = pass.locals
    PROVE  Fencing(k, states'[k], wg'[k], workers', pass'.todo, pass'.locals[k])
  <1>1. Fencing(k, states[k], wg[k], workers, pass.todo, pass.locals[k])
    BY DEF IInv, FenceInv
  <1>2. Alike(states[k], states[k])
    BY DEF Alike
  <1> QED BY <1>1, <1>2, Untouched

LEMMA NotedKeeps ==
    ASSUME TypeInv, NEW k \in pass.todo, states[k] # NoState
    PROVE  /\ states[k] \in PeerStates
           /\ Noted(k).generation = states[k].generation
           /\ Noted(k).mode = states[k].mode /\ Noted(k).running = states[k].running
  <1> DEFINE a == pass.answer[k]
             instance == IF a.instance = NoInstance THEN states[k].instance ELSE a.instance
  <1>1. states[k] \in PeerStates
    BY DEF TypeInv, TypeOK, Passes
  <1>2. Noted(k) = [states[k] EXCEPT !.candidates = a.candidates, !.instance = instance]
    BY DEF Noted
  <1> HIDE DEF a, instance
  <1> QED BY <1>1, <1>2 DEF PeerStates

\* Reconciling k under the generation g of state s, which is ahead of every
\* probe, whether a probe is launched or not.
LEMMA ProceedFence ==
    ASSUME IInv, NEW k \in Servers, NEW s \in PeerStates, Settles(k, s) \/ Proceeds(k, s),
           k \notin pass'.todo,
           \A i \in Slots : IsProbe(workers[i], k) =>
               workers[i].generation \in Nat /\ workers[i].generation < s.generation
    PROVE  Fencing(k, states'[k], wg'[k], workers', pass'.todo, pass'.locals[k])
  <1>0. /\ workers \in [Slots -> Workers \cup {NoWorker}]
        /\ states \in [Servers -> PeerStates \cup {NoState}]
    BY TypedParts DEF IInv
  <1>1. CASE Settles(k, s)
    <2>1. states'[k] = s /\ workers' = workers
      BY <1>0, <1>1 DEF Settles
    <2> QED BY <2>1, Bumped
  <1>2. CASE Launches(k, s)
    <2> DEFINE s2 == [s EXCEPT !.mode = "probe", !.running = TRUE]
    <2>1. s2 \in PeerStates /\ s2.generation = s.generation /\ s2.running
      BY DEF PeerStates
    <2>2. states'[k] = s2
      BY <1>0, <1>2 DEF Launches
    <2>3. FreeSlot \in Slots
      BY <1>2 DEF Launches, FreeSlot, Free
    <2>4. workers' = [workers EXCEPT ![FreeSlot] = Probe(k, s2.generation)]
      BY <1>2, <2>1 DEF Launches
    <2> HIDE DEF s2
    <2>5. Fencing(k, s2, wg'[k], [workers EXCEPT ![FreeSlot] = Probe(k, s2.generation)],
                  pass'.todo, pass'.locals[k])
      BY <1>0, <2>1, <2>3, Launched
    <2> QED BY <2>2, <2>4, <2>5
  <1> QED BY <1>1, <1>2 DEF Proceeds

LEMMA ReconcileFence ==
    ASSUME IInv, NEW k \in Servers, ReconcilePeer(k)
    PROVE  FenceInv' /\ LoopInv'
  <1>0. /\ workers \in [Slots -> Workers \cup {NoWorker}]
        /\ states \in [Servers -> PeerStates \cup {NoState}]
        /\ wg \in [Servers -> KernelPeers \cup {NoPeer}]
        /\ pass \in Passes /\ k \in pass.todo /\ TypeInv
    BY TypedParts DEF IInv, ReconcilePeer
  <1>1. /\ pass'.todo = pass.todo \ {k}
        /\ \A j \in pass'.todo : pass'.locals = pass.locals
    <2> DEFINE rest == [pass EXCEPT !.todo = @ \ {k}]
    <2>1. rest.todo = pass.todo \ {k} /\ rest.locals = pass.locals
      BY <1>0 DEF Passes
    <2> HIDE DEF rest
    <2>2. pass' = Remaining(rest)
      BY DEF ReconcilePeer, rest
    <2> QED BY <2>1, <2>2, RemainingKeeps
  <1>2. LoopInv'
    <2>1. pass # NoPass /\ loop' = loop
      BY <1>0 DEF ReconcilePeer, NoPass
    <2> QED BY <2>1 DEF IInv, LoopInv
  <1>3. PICK s \in {Noted(k), Restarted(Noted(k)), Direct(Noted(k)),
                    Direct(Restarted(Noted(k))), DirectAtLast(Noted(k))} :
           Settles(k, s) \/ Proceeds(k, s)
    BY DEF ReconcilePeer, KeepsChanged, StartsAfresh, SeesDirect, FallsBack,
           PromotesInbound, MissesInbound, ProbesOn
  <1>4. Noted(k) \in PeerStates
    BY <1>0, NotedTypes
  <1>5. ASSUME NEW j \in Servers \ reused', j # k
        PROVE  Fencing(j, states'[j], wg'[j], workers', pass'.todo, pass'.locals[j])
    <2>1. j \notin reused
      BY <1>5 DEF ReconcilePeer
    <2>2. states'[j] = states[j]
      BY <1>0, <1>3, <1>5 DEF Settles, Proceeds, Launches
    <2>3. wg'[j] = wg[j]
      BY <1>0, <1>5 DEF ReconcilePeer, KeepsChanged, StartsAfresh, SeesDirect, FallsBack,
         PromotesInbound, MissesInbound, ProbesOn, Removed
    <2>4. Shrinks(j, wg[j], workers, workers')
      <3>1. CASE workers' = workers
        BY <3>1 DEF Shrinks
      <3>2. ASSUME NEW g, workers' = [workers EXCEPT ![FreeSlot] = Probe(k, g)]
            PROVE  Shrinks(j, wg[j], workers, workers')
        <4>1. Probe(k, g).key = k
          BY DEF Probe
        <4>2. \A i \in Slots : \/ workers'[i] = workers[i]
                               \/ workers'[i] = Probe(k, g)
          BY <1>0, <3>2
        <4> QED BY <1>5, <4>1, <4>2 DEF Shrinks, IsProbe
      <3> QED BY <1>3, <3>1, <3>2 DEF Settles, Proceeds, Launches
    <2> QED BY <1>1, <2>1, <2>2, <2>3, <2>4, Elsewhere
  <1>6. ASSUME k \notin reused'
        PROVE  Fencing(k, states'[k], wg'[k], workers', pass'.todo, pass'.locals[k])
    <2>0. k \notin pass'.todo
      BY <1>1
    <2>1. CASE states[k] = NoState
      <3>1. \A i \in Slots : ~IsProbe(workers[i], k)
        BY <1>6, <2>1 DEF ReconcilePeer, IsProbe
      <3>2. s \in PeerStates
        BY <1>3, <1>4, OutcomeTypes
      <3> QED BY <1>3, <2>0, <3>1, <3>2, ProceedFence
    <2>2. CASE states[k] # NoState
      <3>1. k \notin reused
        BY <1>6, <2>2 DEF ReconcilePeer
      <3>2. Fencing(k, states[k], wg[k], workers, pass.todo, pass.locals[k])
        BY <3>1 DEF IInv, FenceInv
      <3>3. /\ states[k] \in PeerStates
            /\ Noted(k).generation = states[k].generation
            /\ Noted(k).mode = states[k].mode /\ Noted(k).running = states[k].running
        BY <1>0, <2>2, NotedKeeps
      <3>4. \A i \in Slots : IsProbe(workers[i], k) =>
               workers[i].generation \in Nat
               /\ workers[i].generation < states[k].generation + 1
        <4> SUFFICES ASSUME NEW i \in Slots, IsProbe(workers[i], k)
                     PROVE  workers[i].generation \in Nat
                            /\ workers[i].generation < states[k].generation + 1
          OBVIOUS
        <4>1. states[k].generation \in Nat /\ workers[i].generation \in Nat
          BY <1>0, <3>3 DEF PeerStates, IsProbe, Workers
        <4>2. workers[i].generation <= states[k].generation
          BY <2>2, <3>2 DEF Fencing
        <4> QED BY <4>1, <4>2
      <3>5. CASE KeepsChanged(k) \/ StartsAfresh(k) \/ FallsBack(k)
        <4>1. PICK n \in {Restarted(Noted(k)), Direct(Restarted(Noted(k)))} :
                 Settles(k, n) \/ Proceeds(k, n)
          BY <3>5 DEF KeepsChanged, StartsAfresh, FallsBack
        <4>2. n \in PeerStates /\ n.generation = states[k].generation + 1
          BY <1>4, <3>3, <4>1, OutcomeTypes
        <4> QED BY <2>0, <3>4, <4>1, <4>2, ProceedFence
      <3>6. CASE SeesDirect(k) \/ PromotesInbound(k)
        <4>1. PICK n \in {Direct(Noted(k)), DirectAtLast(Noted(k))} : Settles(k, n)
          BY <3>6 DEF SeesDirect, PromotesInbound
        <4>2. /\ n \in PeerStates /\ n.generation = states[k].generation
              /\ n.mode = "direct" /\ ~n.running
          BY <1>4, <3>3, <4>1, OutcomeTypes
        <4>3. states'[k] = n /\ workers' = workers
          BY <1>0, <4>1 DEF Settles
        <4>4. Routed(wg'[k]) \/ (k \in pass.todo /\ Routed(pass.locals[k]) /\ wg'[k] = wg[k])
          <5>1. CASE SeesDirect(k)
            BY <1>0, <5>1 DEF SeesDirect, SeenHealthy, SeenDirect
          <5>2. CASE PromotesInbound(k)
            <6>1. pass.locals[k].endpoint \in Endpoints \cup {NoEndpoint}
              BY <5>2, ListsAssumption DEF PromotesInbound, SeenInbound
            <6>2. wg'[k] = Promoted(wg[k], pass.locals[k].endpoint)
              BY <1>0, <5>2 DEF PromotesInbound
            <6> QED BY <1>0, <6>1, <6>2, KernelTypes
          <5> QED BY <3>6, <5>1, <5>2
        <4> QED BY <2>0, <3>2, <3>3, <4>2, <4>3, <4>4, FoundDirect
      <3>7. CASE MissesInbound(k) \/ ProbesOn(k)
        <4>1. Proceeds(k, Noted(k)) /\ wg' = wg /\ ~Routed(pass.locals[k])
          BY <3>7 DEF MissesInbound, ProbesOn, SeenInbound, SeenDirect
        <4>2. CASE Launches(k, Noted(k))
          <5>1. ~states[k].running
            BY <4>2, <3>3 DEF Launches, MayLaunch
          <5>2. \A i \in Slots : IsProbe(workers[i], k) =>
                   workers[i].generation \in Nat
                   /\ workers[i].generation < states[k].generation
            BY <1>0, <3>2, <3>3, <4>1, <5>1, NoneUpToDate
          <5> QED BY <1>4, <2>0, <3>3, <4>1, <5>2, ProceedFence
        <4>3. CASE Settles(k, Noted(k))
          <5>1. states'[k] = Noted(k) /\ workers' = workers
            BY <1>0, <4>3 DEF Settles
          <5>2. Alike(states[k], states'[k])
            BY <2>2, <3>3, <5>1 DEF Alike
          <5>3. Shrinks(k, wg'[k], workers, workers')
            BY <5>1 DEF Shrinks
          <5> QED BY <2>0, <3>2, <4>1, <5>2, <5>3, Untouched
        <4> QED BY <4>1, <4>2, <4>3 DEF Proceeds
      <3> QED BY <3>5, <3>6, <3>7 DEF ReconcilePeer
    <2> QED BY <2>1, <2>2
  <1>7. FenceInv'
    BY <1>5, <1>6 DEF FenceInv
  <1> QED BY <1>2, <1>7

LEMMA RetireFence ==
    ASSUME IInv, NEW k \in Servers, RetirePeer(k)
    PROVE  FenceInv' /\ LoopInv'
  <1>0. /\ states \in [Servers -> PeerStates \cup {NoState}]
        /\ wg \in [Servers -> KernelPeers \cup {NoPeer}]
        /\ pass \in Passes /\ k \in pass.retire
    BY TypedParts DEF IInv, RetirePeer
  <1>1. pass'.todo = {}
    <2> DEFINE rest == [pass EXCEPT !.retire = @ \ {k}]
    <2>1. rest.todo = {}
      BY <1>0 DEF Passes, RetirePeer
    <2> HIDE DEF rest
    <2>2. pass' = Remaining(rest)
      BY DEF RetirePeer, rest
    <2> QED BY <2>1, <2>2, RemainingKeeps
  <1>2. LoopInv'
    <2>1. pass # NoPass /\ loop' = loop
      BY <1>0 DEF RetirePeer, NoPass
    <2> QED BY <2>1 DEF IInv, LoopInv
  <1>3. ASSUME NEW j \in Servers \ reused
        PROVE  Fencing(j, states'[j], wg'[j], workers', pass'.todo, pass'.locals[j])
    <2>1. CASE j = k
      BY <1>0, <2>1 DEF RetirePeer, Fencing
    <2>2. CASE j # k
      <3>1. states'[j] = states[j] /\ wg'[j] = wg[j] /\ workers' = workers
        BY <1>0, <2>2 DEF RetirePeer, Removed
      <3>2. Shrinks(j, wg[j], workers, workers')
        BY <3>1 DEF Shrinks
      <3> QED BY <1>1, <3>1, <3>2, Elsewhere
    <2> QED BY <2>1, <2>2
  <1>4. reused' = reused
    BY DEF RetirePeer
  <1> QED BY <1>2, <1>3, <1>4 DEF FenceInv

LEMMA FoundFields ==
    ASSUME NEW w \in Workers, NEW pc, NEW e
    PROVE  /\ Found(w, pc, e).key = w.key /\ Found(w, pc, e).generation = w.generation
           /\ Found(w, pc, e).pc = pc
  BY DEF Found, Workers

\* What a step of goroutine i leaves as it is.
LEMMA WorkerFrame ==
    ASSUME NEW i \in Slots, WorkerStep(i)
    PROVE  /\ workers[i] # NoWorker
           /\ UNCHANGED <<serverKeys, reused, loop, pass, announced, handshakes, changes>>
           /\ \E v : Becomes(i, v)
  BY DEF WorkerStep, Fenced, ProbeStarts, ProbeCancelled, ProbeReadsBaseline, ProbeArms,
     ProbeSeesHandshake, ProbeWindowEnds, ProbePromotes, ProbeExhausted,
     WatchSeesHandshake, WatchEnds, WatchPromotes, At, Ends, OnlyMoves, MainRests

LEMMA GoroutineFence ==
    ASSUME IInv, NEW i \in Slots, WorkerStep(i)
    PROVE  FenceInv' /\ LoopInv'
  <1> DEFINE w == workers[i]
             k == w.key
             s == states[k]
             p == wg[k]
             Goal == Fencing(k, states'[k], wg'[k], workers', pass.todo, pass.locals[k])
  <1>0. /\ workers \in [Slots -> Workers \cup {NoWorker}]
        /\ states \in [Servers -> PeerStates \cup {NoState}]
        /\ wg \in [Servers -> KernelPeers \cup {NoPeer}]
        /\ TypeInv
    BY TypedParts DEF IInv
  <1>1. w \in Workers /\ w \in EquippedWorkers /\ k \in Servers /\ w # NoWorker
    BY <1>0, WorkerFrame DEF Workers, TypeInv
  <1>t. p \in KernelPeers \cup {NoPeer} /\ s \in PeerStates \cup {NoState}
    BY <1>0, <1>1
  <1>2. UNCHANGED <<reused, loop, pass>> /\ \E v : Becomes(i, v)
    BY WorkerFrame
  \* The goroutine that moves is one of server k, before and after.
  <1>3. workers'[i] # NoWorker => workers'[i].key = k
    <2>1. ASSUME NEW pc, NEW v, Successor(w, v, pc), Becomes(i, v)
          PROVE  workers'[i].key = k
      BY <1>0, <2>1 DEF Becomes, Successor
    <2>2. ASSUME Becomes(i, NextCandidate(w)), w.pc = "poll" \/ w.pc = "arm"
          PROVE  workers'[i].key = k
      BY <1>0, <1>1, <2>1, <2>2, WorkerTypes
    <2>3. CASE Ends(i)
      BY <1>0, <2>3 DEF Ends, Becomes
    <2>4. CASE ProbeStarts(i)
      BY <1>1, <1>0, <2>4 DEF ProbeStarts, Becomes, Workers
    <2>5. CASE ProbeReadsBaseline(i)
      BY <1>1, <1>0, <2>5 DEF ProbeReadsBaseline, Becomes, Workers
    <2>6. CASE ProbeArms(i)
      BY <1>1, <1>0, <2>2, <2>6 DEF ProbeArms, Becomes, Workers, At
    <2>7. CASE ProbeWindowEnds(i)
      BY <2>2, <2>7 DEF ProbeWindowEnds, At
    <2>8. CASE ProbeSeesHandshake(i) \/ WatchSeesHandshake(i)
      BY <1>1, <1>0, <2>8, FoundFields DEF ProbeSeesHandshake, WatchSeesHandshake, Becomes
    <2>9. CASE ProbeExhausted(i)
      <3>1. Successor(w, Watcher(w), "watch")
        BY <1>1, GoroutineUpdates
      <3>2. Becomes(i, Watcher(w)) \/ Becomes(i, NoWorker)
        BY <2>9 DEF ProbeExhausted
      <3> QED BY <1>0, <2>1, <3>1, <3>2 DEF Becomes
    <2> QED BY <2>3, <2>4, <2>5, <2>6, <2>7, <2>8, <2>9 DEF WorkerStep, Fenced,
            ProbeCancelled, ProbePromotes, WatchEnds, WatchPromotes
  \* It only touches the state and the kernel peer of k.
  <1>4. /\ \A j \in Servers : j # k => states'[j] = states[j] /\ wg'[j] = wg[j]
        /\ s = NoState => states' = states
    <2>1. CASE UNCHANGED <<states, wg>>
      BY <2>1
    <2>2. CASE ProbeCancelled(i)
      BY <1>0, <2>2 DEF ProbeCancelled
    <2>3. CASE ProbeArms(i)
      BY <1>0, <2>3 DEF ProbeArms
    <2>4. CASE ProbePromotes(i) \/ WatchPromotes(i)
      BY <1>0, <2>4 DEF ProbePromotes, WatchPromotes, Current, Armed
    <2>5. CASE ProbeExhausted(i)
      BY <1>0, <2>5 DEF ProbeExhausted, Current
    <2> QED BY <2>1, <2>2, <2>3, <2>4, <2>5 DEF WorkerStep, Fenced, ProbeStarts,
            ProbeReadsBaseline, ProbeSeesHandshake, ProbeWindowEnds, WatchSeesHandshake,
            WatchEnds, OnlyMoves
  <1>5. LoopInv'
    BY <1>1, <1>2, <1>4 DEF IInv, LoopInv, NoStates
  <1>6. ASSUME NEW j \in Servers \ reused, j # k
        PROVE  Fencing(j, states'[j], wg'[j], workers', pass'.todo, pass'.locals[j])
    <2>1. \A m \in Slots : workers'[m] = workers[m] \/ m = i
      BY <1>0, <1>2 DEF Becomes
    <2>2. Shrinks(j, wg[j], workers, workers')
      BY <1>3, <1>6, <2>1 DEF Shrinks, IsProbe
    <2> QED BY <1>2, <1>4, <1>6, <2>2, Elsewhere
  <1>7. ASSUME k \notin reused PROVE Goal
    <2>1. Fencing(k, s, p, workers, pass.todo, pass.locals[k])
      BY <1>1, <1>7 DEF IInv, FenceInv
    <2>2. \A m \in Slots : m # i => workers'[m] = workers[m]
      BY <1>0, <1>2 DEF Becomes
    \* Steps that leave the state of k alone.
    <2>a. ASSUME NEW v, Becomes(i, v), states' = states,
                 IsProbe(v, k) => /\ IsProbe(w, k) /\ v.generation = w.generation
                                  /\ v.pc = "promote" => LatestHandshake(wg'[k]) > 0,
                 wg'[k] = p \/ \E e \in Endpoints : wg'[k] = Aimed(p, e)
          PROVE  Goal
      <3>1. workers'[i] = v
        BY <1>0, <2>a DEF Becomes
      <3>2. Shrinks(k, wg'[k], workers, workers')
        BY <2>2, <2>a, <3>1 DEF Shrinks
      <3>3. /\ Routed(p) => Routed(wg'[k])
            /\ LatestHandshake(p) > 0 => LatestHandshake(wg'[k]) > 0
        <4>1. ASSUME NEW e \in Endpoints
              PROVE  /\ Routed(Aimed(p, e)) <=> Routed(p)
                     /\ LatestHandshake(Aimed(p, e)) = LatestHandshake(p)
          BY <1>t, KernelTypes
        <4> QED BY <2>a, <4>1
      <3>4. Alike(s, s)
        BY DEF Alike
      <3> QED BY <2>1, <2>a, <3>2, <3>3, <3>4, Untouched
    \* Steps that end the probe, which is up to date.
    <2>b. ASSUME NEW v, Becomes(i, v), ~IsProbe(v, k), IsProbe(w, k), s # NoState,
                 w.generation = s.generation, states'[k] \in PeerStates,
                 states'[k].generation = s.generation
          PROVE  Goal
      <3>1. workers'[i] = v
        BY <1>0, <2>b DEF Becomes
      <3>2. Shrinks(k, wg'[k], workers, workers')
        BY <2>2, <2>b, <3>1 DEF Shrinks
      <3>3. s \in PeerStates
        BY <1>t, <2>b
      <3> QED BY <2>1, <2>b, <3>1, <3>2, <3>3, Ended
    <2>n. ~IsProbe(NoWorker, k)
      BY DEF IsProbe
    <2> HIDE DEF Goal
    <2>3. CASE Fenced(i) \/ WatchEnds(i)
      BY <2>3, <2>a, <2>n DEF Fenced, WatchEnds, Ends, OnlyMoves
    <2>4. ASSUME NEW v, NEW pc \in Pcs, Successor(w, v, pc), Becomes(i, v), states' = states,
                 pc # "promote" \/ LatestHandshake(wg'[k]) > 0,
                 pc \notin {"watch", "adopt"} => w.pc \notin {"watch", "adopt"},
                 wg'[k] = p \/ \E e \in Endpoints : wg'[k] = Aimed(p, e)
          PROVE  Goal
      BY <1>1, <2>4, <2>a DEF Successor, IsProbe
    <2>5. CASE ProbeStarts(i)
      <3>1. w.pc = "start" /\ states' = states /\ wg' = wg
        BY <2>5 DEF ProbeStarts, At, OnlyMoves
      <3>2. CASE Current(w)
        <4> DEFINE v == [w EXCEPT !.pc = "baseline", !.candidates = s.candidates]
        <4>1. Becomes(i, v)
          BY <2>5, <3>2 DEF ProbeStarts
        <4>2. s.candidates \in CandidateLists
          BY <1>t, <3>2 DEF Current, PeerStates
        <4>3. Successor(w, v, "baseline")
          BY <1>1, <4>2, GoroutineUpdates DEF Pcs
        <4> HIDE DEF v
        <4> QED BY <2>4, <3>1, <4>1, <4>3 DEF Pcs
      <3>3. CASE ~Current(w)
        <4> DEFINE v == [w EXCEPT !.pc = "cancel"]
        <4>1. Becomes(i, v)
          BY <2>5, <3>3 DEF ProbeStarts
        <4>2. Successor(w, v, "cancel")
          BY <1>1, GoroutineUpdates DEF Pcs
        <4> HIDE DEF v
        <4> QED BY <2>4, <3>1, <4>1, <4>2 DEF Pcs
      <3> QED BY <3>2, <3>3
    <2>6. CASE ProbeCancelled(i)
      <3>1. w.pc = "cancel" /\ Becomes(i, NoWorker) /\ wg' = wg
        BY <2>6 DEF ProbeCancelled, At, Ends
      <3>2. CASE states' = states
        BY <3>1, <3>2, <2>a, <2>n
      <3>3. CASE states' # states
        <4>1. /\ s # NoState /\ w.generation = s.generation
              /\ states'[k] = Cancelled(s)
          BY <1>0, <1>1, <2>6, <3>3 DEF ProbeCancelled
        <4>2. Cancelled(s) \in PeerStates /\ Cancelled(s).generation = s.generation
          BY <1>t, <4>1, StateTypes
        <4>3. IsProbe(w, k)
          BY <1>1, <3>1 DEF IsProbe
        <4> QED BY <2>b, <2>n, <3>1, <4>1, <4>2, <4>3
      <3> QED BY <3>2, <3>3
    <2>7. CASE ProbeReadsBaseline(i)
      <3>1. /\ w.pc = "baseline" /\ states' = states /\ wg' = wg
        BY <2>7 DEF ProbeReadsBaseline, At
      <3>2. PICK failed \in {0, 1} :
               Becomes(i, [w EXCEPT !.pc = "arm", !.baseline =
                              IF failed = 1 THEN 0 ELSE LatestHandshake(p)])
        BY <2>7 DEF ProbeReadsBaseline
      <3> DEFINE b == IF failed = 1 THEN 0 ELSE LatestHandshake(p)
                 v == [w EXCEPT !.pc = "arm", !.baseline = b]
      <3>3. b \in Nat
        BY <1>t, KernelTypes
      <3>4. Successor(w, v, "arm")
        <4> HIDE DEF b
        <4> QED BY <1>1, <3>3, GoroutineUpdates DEF Pcs
      <3>5. Becomes(i, v)
        BY <3>2
      <3> HIDE DEF v
      <3> QED BY <2>4, <3>1, <3>4, <3>5 DEF Pcs
    <2>8. CASE ProbeArms(i)
      <3> DEFINE e == w.candidates[w.next]
      <3>1. w.pc = "arm" /\ states' = states
        BY <2>8 DEF ProbeArms, At
      <3>2. CASE wg' = [wg EXCEPT ![k] = Aimed(@, e)] /\ Becomes(i, [w EXCEPT !.pc = "poll"])
        <4> DEFINE v == [w EXCEPT !.pc = "poll"]
        <4>1. e \in Endpoints
          <5>1. w.candidates \in Seq(Endpoints) /\ w.next \in 1..Len(w.candidates)
            BY <1>1, <3>1, ListsAssumption DEF EquippedWorkers, Equipped
          <5> QED BY <5>1
        <4> HIDE DEF e
        <4>2. wg'[k] = Aimed(p, e)
          BY <1>0, <1>1, <3>2
        <4>3. Successor(w, v, "poll") /\ Becomes(i, v)
          BY <1>1, <3>2, GoroutineUpdates DEF Pcs
        <4> HIDE DEF v
        <4> QED BY <2>4, <3>1, <4>1, <4>2, <4>3 DEF Pcs
      <3>3. CASE Becomes(i, NextCandidate(w)) /\ UNCHANGED wg
        <4>1. PICK pc \in {"baseline", "exhausted"} : Successor(w, NextCandidate(w), pc)
          BY <1>0, <1>1, <3>1, WorkerTypes
        <4> QED BY <2>4, <3>1, <3>3, <4>1 DEF Pcs
      <3> QED BY <2>8, <3>2, <3>3 DEF ProbeArms
    <2>9. CASE ProbeWindowEnds(i)
      <3>1. w.pc = "poll" /\ states' = states /\ wg' = wg /\ Becomes(i, NextCandidate(w))
        BY <2>9 DEF ProbeWindowEnds, At, OnlyMoves
      <3>2. PICK pc \in {"baseline", "exhausted"} : Successor(w, NextCandidate(w), pc)
        BY <1>0, <1>1, <3>1, WorkerTypes
      <3> QED BY <2>4, <3>1, <3>2 DEF Pcs
    <2>10. CASE ProbeSeesHandshake(i)
      <3>1. /\ w.pc = "poll" /\ states' = states /\ wg' = wg
            /\ Becomes(i, Found(w, "promote", p.endpoint))
            /\ LatestHandshake(p) > w.baseline
        BY <2>10 DEF ProbeSeesHandshake, At, OnlyMoves
      <3>2. LatestHandshake(p) > 0
        <4>1. w.baseline \in Nat /\ LatestHandshake(p) \in Nat
          BY <1>1, <1>t, KernelTypes DEF Workers
        <4> QED BY <3>1, <4>1
      <3>3. p.endpoint \in Endpoints \cup {NoEndpoint}
        BY <1>t, <3>2 DEF LatestHandshake, KernelPeers
      <3>4. Successor(w, Found(w, "promote", p.endpoint), "promote")
        BY <1>1, <3>3, GoroutineUpdates DEF Pcs
      <3> QED BY <2>4, <3>1, <3>2, <3>4 DEF Pcs
    <2>11. CASE WatchSeesHandshake(i)
      <3>1. /\ states' = states /\ wg' = wg
            /\ Becomes(i, Found(w, "adopt", p.endpoint))
        BY <2>11 DEF WatchSeesHandshake, OnlyMoves
      <3>2. ~IsProbe(Found(w, "adopt", p.endpoint), k)
        BY <1>1, FoundFields DEF IsProbe
      <3> QED BY <2>a, <3>1, <3>2
    <2>12. CASE ProbePromotes(i)
      <3>1. /\ w.pc = "promote" /\ Becomes(i, NoWorker)
            /\ s # NoState /\ s.generation = w.generation
        BY <2>12 DEF ProbePromotes, At, Ends, Current
      <3>2. IsProbe(w, k) /\ s \in PeerStates
        BY <1>1, <1>t, <3>1 DEF IsProbe
      <3>3. states'[k] \in {s, DirectAtLast(s)}
        BY <1>0, <1>1, <2>12 DEF ProbePromotes
      <3>4. states'[k] \in PeerStates /\ states'[k].generation = s.generation
        BY <3>2, <3>3, StateTypes
      <3> QED BY <2>b, <2>n, <3>1, <3>2, <3>4
    <2>13. CASE WatchPromotes(i)
      <3>1. /\ w.pc = "adopt" /\ Becomes(i, NoWorker)
            /\ s # NoState /\ s.mode = "passive6" /\ ~s.running
        BY <2>13 DEF WatchPromotes, At, Ends, Armed
      <3>2. s \in PeerStates
        BY <1>t, <3>1
      <3>3. \A m \in Slots : IsProbe(workers[m], k) =>
               workers[m].generation \in Nat /\ workers[m].generation < s.generation
        BY <1>0, <2>1, <3>1, <3>2, NoneUpToDate
      <3>4. \A m \in Slots : workers'[m] \in {workers[m], NoWorker}
        BY <1>0, <3>1 DEF Becomes
      <3>5. states'[k] \in {s, DirectAtLast(s)}
        BY <1>0, <1>1, <2>13 DEF WatchPromotes
      <3>6. states'[k] \in PeerStates /\ states'[k].generation = s.generation
        BY <3>2, <3>5, StateTypes
      <3>7. \A m \in Slots : IsProbe(workers'[m], k) =>
               workers'[m].generation \in Nat
               /\ workers'[m].generation < states'[k].generation
        BY <2>n, <3>3, <3>4, <3>6
      <3> QED BY <3>6, <3>7, Bumped DEF Goal
    <2>14. CASE ProbeExhausted(i)
      <3>1. w.pc = "exhausted" /\ s # NoState /\ s.generation = w.generation
        BY <2>14 DEF ProbeExhausted, At, Current
      <3>2. PICK v \in {Watcher(w), NoWorker}, mode \in {"passive6", "idle"} :
               /\ Becomes(i, v)
               /\ states' = [states EXCEPT ![k] =
                     [@ EXCEPT !.mode = mode, !.retryDue = FALSE, !.running = FALSE]]
        BY <2>14 DEF ProbeExhausted
      <3>3. s \in PeerStates
        BY <1>t, <3>1
      <3> DEFINE s2 == [s EXCEPT !.mode = mode, !.retryDue = FALSE, !.running = FALSE]
      <3>4. s2 \in PeerStates /\ s2.generation = s.generation
        BY <3>3 DEF PeerStates
      <3>5. states'[k] = s2
        BY <1>0, <1>1, <3>2
      <3>6. ~IsProbe(v, k)
        BY <1>1, <2>n, GoroutineUpdates DEF Successor, IsProbe
      <3>7. IsProbe(w, k)
        BY <1>1, <3>1 DEF IsProbe
      <3> HIDE DEF s2
      <3> QED BY <2>b, <3>1, <3>2, <3>4, <3>5, <3>6, <3>7
    <2> QED BY <2>3, <2>5, <2>6, <2>7, <2>8, <2>9, <2>10, <2>11, <2>12, <2>13, <2>14
            DEF WorkerStep
  <1>8. FenceInv'
    BY <1>1, <1>2, <1>6, <1>7 DEF FenceInv
  <1> QED BY <1>5, <1>8

LEMMA EnvironmentFence ==
    ASSUME IInv, NEW k \in Servers,
           \/ \E e \in Endpoints : WgHandshake(k, e)
           \/ HandshakeAges(k) \/ RetryElapses(k)
           \/ \E a \in Announcements : AnnouncementChanges(k, a)
    PROVE  FenceInv' /\ LoopInv'
  <1>0. /\ states \in [Servers -> PeerStates \cup {NoState}]
        /\ wg \in [Servers -> KernelPeers \cup {NoPeer}] /\ handshakes \in Nat
    BY TypedParts DEF IInv, TypeInv, TypeOK
  <1>1. UNCHANGED <<workers, reused, loop, pass>>
    BY DEF WgHandshake, HandshakeAges, RetryElapses, AnnouncementChanges
  <1>2. ASSUME NEW j \in Servers
        PROVE  Alike(states[j], states'[j])
    <2>1. CASE states' = states
      BY <2>1 DEF Alike
    <2>2. CASE RetryElapses(k)
      <3> DEFINE s == [states[k] EXCEPT !.retryDue = TRUE]
      <3>1. states[k] # NoState /\ states[k] \in PeerStates /\ states' = [states EXCEPT ![k] = s]
        BY <1>0, <2>2 DEF RetryElapses
      <3>2. /\ s.generation = states[k].generation /\ s.mode = states[k].mode
            /\ s.running = states[k].running
        BY <3>1 DEF PeerStates
      <3> HIDE DEF s
      <3> QED BY <1>0, <3>1, <3>2 DEF Alike
    <2> QED BY <2>1, <2>2 DEF WgHandshake, HandshakeAges, AnnouncementChanges
  <1>3. ASSUME NEW j \in Servers
        PROVE  /\ Routed(wg[j]) => Routed(wg'[j])
               /\ LatestHandshake(wg[j]) > 0 => LatestHandshake(wg'[j]) > 0
    <2>1. CASE wg' = wg
      BY <2>1
    <2>2. CASE \E e \in Endpoints : WgHandshake(k, e)
      <3>1. PICK e \in Endpoints : WgHandshake(k, e)
        BY <2>2
      <3> DEFINE n == handshakes + 1
                 p == [wg[k] EXCEPT !.handshake = n, !.age = "new", !.endpoint = e]
      <3>2. wg[k] \in KernelPeers /\ n > 0 /\ n \in Nat
        <4>1. wg[k] # NoPeer
          BY <3>1 DEF WgHandshake
        <4> QED BY <1>0, <4>1
      <3>3. wg' = [wg EXCEPT ![k] = p]
        BY <3>1 DEF WgHandshake
      <3>4. p \in KernelPeers /\ p.route = wg[k].route /\ p.handshake = n
        <4> HIDE DEF n
        <4> QED BY <3>2 DEF KernelPeers
      <3> HIDE DEF p, n
      <3>5. wg'[j] = IF j = k THEN p ELSE wg[j]
        BY <1>0, <3>3
      <3> QED BY <3>2, <3>4, <3>5, EmptyAssumption DEF Routed, LatestHandshake
    <2>3. CASE HandshakeAges(k)
      <3> DEFINE age == IF wg[k].age = "new" THEN "fresh" ELSE "stale"
                 p == [wg[k] EXCEPT !.age = age]
      <3>1. wg[k] \in KernelPeers /\ wg' = [wg EXCEPT ![k] = p]
        BY <1>0, <2>3 DEF HandshakeAges
      <3>2. p \in KernelPeers /\ p.route = wg[k].route /\ p.handshake = wg[k].handshake
        BY <3>1 DEF KernelPeers
      <3> HIDE DEF p
      <3>3. wg'[j] = IF j = k THEN p ELSE wg[j]
        BY <1>0, <3>1
      <3> QED BY <3>1, <3>2, <3>3, EmptyAssumption DEF Routed, LatestHandshake
    <2> QED BY <2>1, <2>2, <2>3 DEF RetryElapses, AnnouncementChanges
  <1>4. ASSUME NEW j \in Servers \ reused
        PROVE  Fencing(j, states'[j], wg'[j], workers, pass.todo, pass.locals[j])
    <2>1. Fencing(j, states[j], wg[j], workers, pass.todo, pass.locals[j])
      BY DEF IInv, FenceInv
    <2>2. Shrinks(j, wg'[j], workers, workers)
      BY DEF Shrinks
    <2> QED BY <1>2, <1>3, <2>1, <2>2, Untouched
  <1>5. LoopInv'
    <2>1. loop = "down" => states' = states
      BY DEF IInv, LoopInv, NoStates, RetryElapses, WgHandshake, HandshakeAges,
         AnnouncementChanges
    <2> QED BY <1>1, <2>1 DEF IInv, LoopInv
  <1> QED BY <1>1, <1>4, <1>5 DEF FenceInv

LEMMA StepFence == IInv /\ [Next]_vars => IInv'
  <1> SUFFICES ASSUME IInv, [Next]_vars PROVE IInv'
    OBVIOUS
  <1>0. TypeInv'
    BY StepTypes DEF IInv
  <1>1. CASE MainStep
    BY <1>0, <1>1, BeginPassFence, LoopFence, ReconcileFence, RetireFence DEF MainStep, IInv
  <1>2. CASE TunnelInactive \/ TunnelChanges \/ Stop \/ StopDown \/ ClientCrashes
    BY <1>0, <1>2, LoopFence DEF IInv
  <1>3. CASE \E i \in Slots : WorkerStep(i)
    BY <1>0, <1>3, GoroutineFence DEF IInv
  <1>4. CASE \/ \E k \in Servers, e \in Endpoints : WgHandshake(k, e)
             \/ \E k \in Servers : HandshakeAges(k) \/ RetryElapses(k)
             \/ \E k \in Servers, a \in Announcements : AnnouncementChanges(k, a)
    BY <1>0, <1>4, EnvironmentFence DEF IInv
  <1>5. CASE UNCHANGED vars
    BY <1>0, <1>5 DEF vars, IInv, FenceInv, LoopInv
  <1> QED BY <1>1, <1>2, <1>3, <1>4, <1>5 DEF Next

\* At most one probe acts on a server, for any number of goroutines: the
\* generation fences off the others (probe.go 249-345, main.go 386-391).
THEOREM ClientSingleActor == Spec => []SingleActor
  <1>1. IInv => SingleActor
    <2> SUFFICES ASSUME IInv, NEW i \in Slots, NEW j \in Slots, Probing(i), Probing(j),
                        workers[i].key = workers[j].key, workers[i].key \notin reused
                 PROVE  i = j
      BY DEF SingleActor
    <2> DEFINE k == workers[i].key
    <2>1. workers[i] \in Workers /\ k \in Servers
      BY TypedParts DEF IInv, Probing, Workers
    <2>2. Fencing(k, states[k], wg[k], workers, pass.todo, pass.locals[k])
      BY <2>1 DEF IInv, FenceInv
    <2>3. /\ IsProbe(workers[i], k) /\ IsProbe(workers[j], k) /\ states[k] # NoState
          /\ workers[i].generation = states[k].generation
          /\ workers[j].generation = states[k].generation
      BY DEF Probing, IsProbe, Current
    <2> HIDE DEF k
    <2> QED BY <2>2, <2>3 DEF Fencing
  <1> QED BY <1>1, InitFence, StepFence, PTL DEF Spec

\* A probe only routes a kernel peer that made a handshake, although it looks at
\* the kernel without the lock (probe.go 297-331).
THEOREM PromotesSeen == Spec => PromotesWhatItSaw
  <1>1. IInv /\ [Next]_vars =>
          [\A i \in Slots :
              (At(i, "promote") /\ workers'[i] = NoWorker /\ wg' # wg
               /\ workers[i].key \notin reused)
              => LatestHandshake(wg[workers[i].key]) > 0]_vars
    <2> SUFFICES ASSUME IInv, Next, NEW i \in Slots, At(i, "promote"),
                        workers'[i] = NoWorker, wg' # wg, workers[i].key \notin reused
                 PROVE  LatestHandshake(wg[workers[i].key]) > 0
      BY DEF vars
    <2> DEFINE k == workers[i].key
    <2>1. /\ workers \in [Slots -> Workers \cup {NoWorker}]
          /\ workers[i] # NoWorker /\ workers[i].pc = "promote"
      BY TypedParts DEF IInv, At
    <2>2. k \in Servers
      BY <2>1 DEF Workers
    <2>3. CASE ProbePromotes(i)
      <3>1. /\ states[k] # NoState /\ states[k].generation = workers[i].generation
            /\ states[k].running
        BY <2>3 DEF ProbePromotes, Current
      <3>2. Fencing(k, states[k], wg[k], workers, pass.todo, pass.locals[k])
        BY <2>2 DEF IInv, FenceInv
      <3>3. IsProbe(workers[i], k)
        BY <2>1 DEF IsProbe
      <3>4. Guarded(k, states[k], wg[k], workers[i], pass.todo, pass.locals[k])
        BY <3>1, <3>2, <3>3 DEF Fencing
      <3> QED BY <2>1, <3>1, <3>4 DEF Guarded
    <2>4. CASE workers' = workers
      BY <2>1, <2>4
    <2>5. ASSUME NEW j \in Servers, ReconcilePeer(j) PROVE FALSE
      <3>1. \/ workers' = workers
            \/ \E g : workers' = [workers EXCEPT ![FreeSlot] = Probe(j, g)] /\ Free # {}
        BY <2>5 DEF ReconcilePeer, KeepsChanged, StartsAfresh, SeesDirect, FallsBack,
           PromotesInbound, MissesInbound, ProbesOn, Proceeds, Settles, Launches
      <3>2. Free # {} => FreeSlot # i
        BY <2>1 DEF FreeSlot, Free
      <3> QED BY <2>1, <3>1, <3>2
    <2>6. ASSUME NEW j \in Slots, WorkerStep(j), j # i PROVE FALSE
      <3>1. PICK v : Becomes(j, v)
        BY <2>6, WorkerFrame
      <3> QED BY <2>1, <2>6, <3>1 DEF Becomes
    <2>7. CASE WorkerStep(i)
      BY <2>1, <2>3, <2>7 DEF WorkerStep, Fenced, ProbeStarts, ProbeCancelled,
         ProbeReadsBaseline, ProbeArms, ProbeSeesHandshake, ProbeWindowEnds,
         ProbeExhausted, WatchSeesHandshake, WatchEnds, WatchPromotes, At, OnlyMoves
    <2>8. CASE ClientCrashes
      BY <2>8 DEF ClientCrashes
    <2> QED BY <2>4, <2>5, <2>6, <2>7, <2>8 DEF Next, MainStep, BeginPass,
            FallBackStaleDirects, TunnelActive, RetirePeer, TunnelInactive, TunnelChanges,
            Stop, StopDown, WgHandshake, HandshakeAges, RetryElapses, AnnouncementChanges
  <1> QED BY <1>1, InitFence, StepFence, PTL DEF Spec, PromotesWhatItSaw

-----------------------------------------------------------------------------
(* After cleanup.  The fence of a watcher is the generation too, and cleanup *)
(* moves every generation on; nothing creates a state any more.              *)

\* No goroutine is ahead of the state of its server, and after cleanup each is
\* behind it.
Behind(s, w) ==
    /\ w.generation <= s.generation
    /\ loop = "stopped" => w.generation # s.generation

StopInv ==
    \A k \in Servers \ reused, i \in Slots :
        (states[k] # NoState /\ workers[i] # NoWorker /\ workers[i].key = k)
            => Behind(states[k], workers[i])

\* Goroutines go on or end, states go or get later generations.
Ageing ==
    /\ reused' = reused
    /\ loop' = "stopped" => loop = "stopped"
    /\ \A i \in Slots : workers'[i] # NoWorker =>
           /\ workers[i] # NoWorker /\ workers'[i].key = workers[i].key
           /\ workers'[i].generation = workers[i].generation
    /\ \A k \in Servers : states'[k] # NoState =>
           states[k] # NoState /\ states[k].generation <= states'[k].generation

LEMMA GenerationTypes ==
    ASSUME TypeInv
    PROVE  /\ \A k \in Servers : states[k] # NoState =>
                  states[k] \in PeerStates /\ states[k].generation \in Nat
           /\ \A i \in Slots : workers[i] # NoWorker =>
                  /\ workers[i] \in Workers /\ workers[i].generation \in Nat
                  /\ workers[i].key \in Servers
  BY TypedParts DEF PeerStates, Workers

LEMMA AgeingKeepsStop ==
    ASSUME TypeInv, TypeInv', StopInv, Ageing
    PROVE  StopInv'
  <1> SUFFICES ASSUME NEW k \in Servers \ reused, NEW i \in Slots, states'[k] # NoState,
                      workers'[i] # NoWorker, workers'[i].key = k
               PROVE  /\ workers'[i].generation <= states'[k].generation
                      /\ loop' = "stopped" => workers'[i].generation # states'[k].generation
    BY DEF StopInv, Behind, Ageing
  <1>1. /\ states[k] # NoState /\ workers[i] # NoWorker /\ workers[i].key = k
        /\ workers'[i].generation = workers[i].generation
        /\ states[k].generation <= states'[k].generation
        /\ loop' = "stopped" => loop = "stopped"
    BY DEF Ageing
  <1>2. Behind(states[k], workers[i])
    BY <1>1 DEF StopInv
  <1>3. states'[k].generation \in Nat
    BY DEF TypeInv, TypeOK, PeerStates
  <1>4. states[k].generation \in Nat /\ workers[i].generation \in Nat
    BY <1>1, GenerationTypes
  <1> QED BY <1>1, <1>2, <1>3, <1>4 DEF Behind

\* Every goroutine keeps its server and its generation, and the generation of
\* its server.
LEMMA GoroutineAges ==
    ASSUME TypeInv, NEW i \in Slots, WorkerStep(i)
    PROVE  Ageing
  <1> DEFINE w == workers[i]
             k == w.key
             s == states[k]
  <1>0. /\ workers \in [Slots -> Workers \cup {NoWorker}]
        /\ states \in [Servers -> PeerStates \cup {NoState}]
        /\ wg \in [Servers -> KernelPeers \cup {NoPeer}]
    BY TypedParts
  <1>1. /\ w \in Workers /\ w \in EquippedWorkers /\ w # NoWorker /\ k \in Servers
        /\ UNCHANGED <<reused, loop>>
    BY <1>0, WorkerFrame DEF Workers, TypeInv
  <1>2. workers'[i] # NoWorker => workers'[i].key = k /\ workers'[i].generation = w.generation
    <2>1. ASSUME NEW pc, NEW v, Successor(w, v, pc), Becomes(i, v)
          PROVE  workers'[i].key = k /\ workers'[i].generation = w.generation
      BY <1>0, <2>1 DEF Becomes, Successor
    <2>2. ASSUME Becomes(i, NextCandidate(w)), w.pc = "poll" \/ w.pc = "arm"
          PROVE  workers'[i].key = k /\ workers'[i].generation = w.generation
      <3>1. PICK pc \in {"baseline", "exhausted"} : Successor(w, NextCandidate(w), pc)
        BY <1>0, <1>1, <2>2, WorkerTypes
      <3> QED BY <2>1, <2>2, <3>1
    <2>3. CASE Ends(i)
      BY <1>0, <2>3 DEF Ends, Becomes
    <2>4. CASE ProbeStarts(i)
      BY <1>1, <1>0, <2>4 DEF ProbeStarts, Becomes, Workers
    <2>5. CASE ProbeReadsBaseline(i)
      BY <1>1, <1>0, <2>5 DEF ProbeReadsBaseline, Becomes, Workers
    <2>6. CASE ProbeArms(i)
      BY <1>1, <1>0, <2>2, <2>6 DEF ProbeArms, Becomes, Workers, At
    <2>7. CASE ProbeWindowEnds(i)
      BY <2>2, <2>7 DEF ProbeWindowEnds, At
    <2>8. CASE ProbeSeesHandshake(i) \/ WatchSeesHandshake(i)
      BY <1>1, <1>0, <2>8, FoundFields DEF ProbeSeesHandshake, WatchSeesHandshake, Becomes
    <2>9. CASE ProbeExhausted(i)
      <3>1. Successor(w, Watcher(w), "watch")
        BY <1>1, GoroutineUpdates
      <3>2. Becomes(i, Watcher(w)) \/ Becomes(i, NoWorker)
        BY <2>9 DEF ProbeExhausted
      <3> QED BY <1>0, <2>1, <3>1, <3>2 DEF Becomes
    <2> QED BY <2>3, <2>4, <2>5, <2>6, <2>7, <2>8, <2>9 DEF WorkerStep, Fenced,
            ProbeCancelled, ProbePromotes, WatchEnds, WatchPromotes
  <1>3. \A m \in Slots : m # i => workers'[m] = workers[m]
    BY <1>0, WorkerFrame DEF Becomes
  <1>4. \/ states' = states
        \/ /\ s # NoState
           /\ \E s2 \in PeerStates : s2.generation = s.generation
                                     /\ states' = [states EXCEPT ![k] = s2]
    <2>1. CASE s = NoState
      BY <2>1 DEF WorkerStep, Fenced, ProbeStarts, ProbeCancelled, ProbeReadsBaseline,
         ProbeArms, ProbeSeesHandshake, ProbeWindowEnds, ProbePromotes, ProbeExhausted,
         WatchSeesHandshake, WatchEnds, WatchPromotes, OnlyMoves, Current, Armed
    <2>2. CASE s # NoState
      <3>1. s \in PeerStates
        BY <1>0, <1>1, <2>2
      <3>2. CASE ProbeCancelled(i)
        BY <2>2, <3>1, <3>2, StateTypes DEF ProbeCancelled
      <3>3. CASE ProbePromotes(i) \/ WatchPromotes(i)
        BY <2>2, <3>1, <3>3, StateTypes DEF ProbePromotes, WatchPromotes
      <3>4. CASE ProbeExhausted(i)
        <4>1. PICK mode \in {"passive6", "idle"} :
                 states' = [states EXCEPT ![k] =
                     [@ EXCEPT !.mode = mode, !.retryDue = FALSE, !.running = FALSE]]
          BY <3>4 DEF ProbeExhausted
        <4> DEFINE s2 == [s EXCEPT !.mode = mode, !.retryDue = FALSE, !.running = FALSE]
        <4>2. s2 \in PeerStates /\ s2.generation = s.generation
          BY <3>1 DEF PeerStates
        <4>3. states' = [states EXCEPT ![k] = s2]
          BY <4>1
        <4> HIDE DEF s2
        <4> QED BY <2>2, <4>2, <4>3
      <3> QED BY <3>2, <3>3, <3>4 DEF WorkerStep, Fenced, ProbeStarts, ProbeReadsBaseline,
              ProbeArms, ProbeSeesHandshake, ProbeWindowEnds, WatchSeesHandshake, WatchEnds,
              OnlyMoves
    <2> QED BY <2>1, <2>2
  <1>5. ASSUME NEW j \in Servers, states'[j] # NoState
        PROVE  states[j] # NoState /\ states[j].generation <= states'[j].generation
    <2>1. states[j] # NoState /\ states'[j].generation = states[j].generation
      BY <1>0, <1>1, <1>4, <1>5
    <2>2. states[j].generation \in Nat
      BY <2>1, GenerationTypes
    <2> QED BY <2>1, <2>2
  <1> QED BY <1>1, <1>2, <1>3, <1>5 DEF Ageing

\* A new state meets no old goroutine, or the server is marked reused; a probe
\* is launched under the generation of the state.
LEMMA ReconcileKeepsStop ==
    ASSUME IInv, StopInv, NEW k \in Servers, ReconcilePeer(k)
    PROVE  StopInv'
  <1>0. /\ workers \in [Slots -> Workers \cup {NoWorker}]
        /\ states \in [Servers -> PeerStates \cup {NoState}]
        /\ k \in pass.todo /\ TypeInv
    BY TypedParts DEF IInv, ReconcilePeer
  <1>1. loop' # "stopped"
    BY <1>0 DEF IInv, LoopInv, NoPass, ReconcilePeer
  <1>2. PICK s \in {Noted(k), Restarted(Noted(k)), Direct(Noted(k)),
                    Direct(Restarted(Noted(k))), DirectAtLast(Noted(k))} :
           Settles(k, s) \/ Proceeds(k, s)
    BY DEF ReconcilePeer, KeepsChanged, StartsAfresh, SeesDirect, FallsBack,
           PromotesInbound, MissesInbound, ProbesOn
  <1>3. Noted(k) \in PeerStates
    BY <1>0, NotedTypes
  <1>4. /\ s \in PeerStates
        /\ s.generation \in {Noted(k).generation, Noted(k).generation + 1}
    BY <1>2, <1>3, OutcomeTypes, StateTypes
  <1>5. \E s2 \in PeerStates : s2.generation = s.generation
                               /\ states' = [states EXCEPT ![k] = s2]
    <2> DEFINE s2 == [s EXCEPT !.mode = "probe", !.running = TRUE]
    <2>1. s2 \in PeerStates /\ s2.generation = s.generation
      BY <1>4 DEF PeerStates
    <2>2. states' = [states EXCEPT ![k] = s] \/ states' = [states EXCEPT ![k] = s2]
      BY <1>2 DEF Settles, Proceeds, Launches
    <2> HIDE DEF s2
    <2> QED BY <1>4, <2>1, <2>2
  <1>6. /\ states'[k].generation = s.generation
        /\ \A j \in Servers : j # k => states'[j] = states[j]
    BY <1>0, <1>5
  <1>7. \A i \in Slots : \/ workers'[i] = workers[i]
                         \/ workers'[i].key = k /\ workers'[i].generation = s.generation
    <2>1. CASE workers' = workers
      BY <2>1
    <2>2. CASE workers' = [workers EXCEPT ![FreeSlot] = Probe(k, s.generation)]
      <3>1. /\ Probe(k, s.generation).key = k
            /\ Probe(k, s.generation).generation = s.generation
        BY DEF Probe
      <3>2. \A i \in Slots : \/ workers'[i] = workers[i]
                             \/ workers'[i] = Probe(k, s.generation)
        BY <1>0, <2>2
      <3> QED BY <3>1, <3>2
    <2> QED BY <1>2, <2>1, <2>2 DEF Settles, Proceeds, Launches
  <1>8. /\ \A j \in Servers : j # k /\ j \notin reused' => j \notin reused
        /\ k \notin reused' /\ states[k] # NoState => k \notin reused
        /\ k \notin reused' /\ states[k] = NoState =>
               \A i \in Slots : ~(workers[i] # NoWorker /\ workers[i].key = k)
    BY DEF ReconcilePeer
  <1> SUFFICES ASSUME NEW j \in Servers \ reused', NEW i \in Slots, states'[j] # NoState,
                      workers'[i] # NoWorker, workers'[i].key = j
               PROVE  workers'[i].generation <= states'[j].generation
    BY <1>1 DEF StopInv, Behind
  <1>9. CASE j # k
    <2>1. states'[j] = states[j] /\ workers'[i] = workers[i] /\ j \notin reused
      BY <1>6, <1>7, <1>8, <1>9
    <2> QED BY <2>1 DEF StopInv, Behind
  <1>10. CASE j = k /\ workers'[i] # workers[i]
    <2>1. workers'[i].generation = s.generation /\ s.generation \in Nat
      BY <1>4, <1>7, <1>10 DEF PeerStates
    <2> QED BY <1>6, <1>10, <2>1
  <1>11. CASE j = k /\ workers'[i] = workers[i]
    <2>1. states[k] # NoState /\ k \notin reused
      BY <1>8, <1>11
    <2>2. Behind(states[k], workers[i])
      BY <1>11, <2>1 DEF StopInv
    <2>3. Noted(k).generation = states[k].generation
      BY <1>0, <2>1, NotedKeeps
    <2>4. states[k].generation \in Nat /\ workers[i].generation \in Nat
      BY <1>0, <1>11, <2>1, GenerationTypes
    <2> QED BY <1>4, <1>6, <1>11, <2>2, <2>3, <2>4 DEF Behind
  <1> QED BY <1>9, <1>10, <1>11

\* Cleanup moves every generation on.
LEMMA StopKeepsStop ==
    ASSUME IInv, StopInv, Stop
    PROVE  StopInv'
  <1>1. TypeInv
    BY DEF IInv
  <1> SUFFICES ASSUME NEW k \in Servers \ reused, NEW i \in Slots, states'[k] # NoState,
                      workers[i] # NoWorker, workers[i].key = k
               PROVE  /\ workers[i].generation <= states'[k].generation
                      /\ workers[i].generation # states'[k].generation
    BY DEF Stop, StopInv, Behind
  <1>2. states[k] # NoState /\ states'[k] = Silenced(states[k])
    BY DEF Stop
  <1>3. states[k] \in PeerStates /\ states[k].generation \in Nat
        /\ workers[i].generation \in Nat
    BY <1>1, <1>2, GenerationTypes
  <1>4. states'[k].generation = states[k].generation + 1
    BY <1>2, <1>3, StateTypes
  <1>5. workers[i].generation <= states[k].generation
    BY <1>2 DEF StopInv, Behind
  <1> QED BY <1>3, <1>4, <1>5

LEMMA NextStop == IInv /\ IInv' /\ StopInv /\ [Next]_vars => StopInv'
  <1> SUFFICES ASSUME IInv, IInv', StopInv, [Next]_vars PROVE StopInv'
    OBVIOUS
  <1>1. TypeInv /\ TypeInv'
    BY DEF IInv
  <1>2. \A k \in Servers : states[k] # NoState => states[k].generation <= states[k].generation
    BY <1>1, GenerationTypes
  <1>3. ASSUME UNCHANGED <<states, workers, reused>>, loop' # "stopped" \/ loop' = loop
        PROVE  StopInv'
    BY <1>1, <1>2, <1>3, AgeingKeepsStop DEF Ageing
  <1>4. ASSUME states' = NoStates PROVE StopInv'
    BY <1>4 DEF StopInv, NoStates
  <1>5. CASE FallBackStaleDirects
    <2>1. /\ UNCHANGED <<workers, reused, loop>>
          /\ \A k \in Servers : states'[k] # NoState =>
                 states[k] # NoState /\ states'[k] \in {states[k], Restarted(states[k])}
      BY <1>5 DEF FallBackStaleDirects
    <2>2. ASSUME NEW k \in Servers, states'[k] # NoState
          PROVE  states[k].generation <= states'[k].generation
      <3>1. states[k] \in PeerStates /\ states[k].generation \in Nat
        BY <1>1, <2>1, <2>2, GenerationTypes
      <3>2. Restarted(states[k]).generation = states[k].generation + 1
        BY <3>1, StateTypes
      <3> QED BY <2>1, <2>2, <3>1, <3>2
    <2> QED BY <1>1, <2>1, <2>2, AgeingKeepsStop DEF Ageing
  <1>6. ASSUME NEW k \in Servers, RetirePeer(k) PROVE StopInv'
    <2>1. /\ UNCHANGED <<workers, reused, loop>>
          /\ \A j \in Servers : states'[j] # NoState => states'[j] = states[j]
      BY <1>1, <1>6, TypedParts DEF RetirePeer
    <2> QED BY <1>1, <1>2, <2>1, AgeingKeepsStop DEF Ageing
  <1>7. ASSUME NEW k \in Servers, RetryElapses(k) PROVE StopInv'
    <2>1. states[k] # NoState /\ states' = [states EXCEPT ![k].retryDue = TRUE]
          /\ UNCHANGED <<workers, reused, loop>>
      BY <1>7 DEF RetryElapses
    <2>2. states[k] \in PeerStates
      BY <1>1, <2>1, GenerationTypes
    <2>3. [states[k] EXCEPT !.retryDue = TRUE].generation = states[k].generation
      BY <2>2 DEF PeerStates
    <2>4. \A j \in Servers : states'[j] # NoState =>
              states[j] # NoState /\ states'[j].generation = states[j].generation
      BY <1>1, <2>1, <2>3, TypedParts
    <2> QED BY <1>1, <1>2, <2>1, <2>4, AgeingKeepsStop DEF Ageing
  <1>8. CASE StopDown
    BY <1>8 DEF StopDown, IInv, LoopInv, NoStates, StopInv
  <1>9. CASE MainStep
    BY <1>3, <1>5, <1>6, <1>9, ReconcileKeepsStop
    DEF MainStep, BeginPass, TunnelActive
  <1>10. CASE TunnelInactive \/ TunnelChanges \/ Stop \/ StopDown \/ ClientCrashes
    BY <1>4, <1>8, <1>10, StopKeepsStop DEF TunnelInactive, TunnelChanges, ClientCrashes
  <1>11. CASE \E i \in Slots : WorkerStep(i)
    BY <1>1, <1>11, GoroutineAges, AgeingKeepsStop
  <1>12. CASE \/ \E k \in Servers, e \in Endpoints : WgHandshake(k, e)
              \/ \E k \in Servers : HandshakeAges(k) \/ RetryElapses(k)
              \/ \E k \in Servers, a \in Announcements : AnnouncementChanges(k, a)
    BY <1>3, <1>7, <1>12 DEF WgHandshake, HandshakeAges, AnnouncementChanges
  <1>13. CASE UNCHANGED vars
    BY <1>3, <1>13 DEF vars
  <1> QED BY <1>9, <1>10, <1>11, <1>12, <1>13 DEF Next

\* The fences stop every goroutine before the kernel.
LEMMA StoppedGoroutineIsFenced ==
    ASSUME TypeInv, StopInv, loop = "stopped", NEW i \in Slots, WorkerStep(i),
           NEW k \in Servers \ reused
    PROVE  wg'[k] = wg[k]
  <1>0. /\ workers \in [Slots -> Workers \cup {NoWorker}]
        /\ wg \in [Servers -> KernelPeers \cup {NoPeer}]
        /\ workers[i] # NoWorker
    BY TypedParts, WorkerFrame
  <1>1. CASE workers[i].key = k
    <2>1. ~Current(workers[i]) /\ ~Armed(workers[i])
      BY <1>0, <1>1 DEF StopInv, Behind, Current, Armed
    <2> QED BY <2>1 DEF WorkerStep, Fenced, ProbeStarts, ProbeCancelled, ProbeReadsBaseline,
            ProbeArms, ProbeSeesHandshake, ProbeWindowEnds, ProbePromotes, ProbeExhausted,
            WatchSeesHandshake, WatchEnds, WatchPromotes, OnlyMoves
  <1>2. CASE workers[i].key # k
    BY <1>0, <1>2 DEF WorkerStep, Fenced, ProbeStarts, ProbeCancelled, ProbeReadsBaseline,
       ProbeArms, ProbeSeesHandshake, ProbeWindowEnds, ProbePromotes, ProbeExhausted,
       WatchSeesHandshake, WatchEnds, WatchPromotes, OnlyMoves
  <1> QED BY <1>1, <1>2

\* Once cleanup has run, no goroutine that still runs brings a dynamic peer or a
\* /32 route back, for any number of servers and goroutines: cleanup moves the
\* generation of every state on, and a watcher is fenced by it as a probe is.
THEOREM StoppedIsFinal == Spec => StoppedStaysDown
  <1>1. Init => StopInv
    BY DEF Init, StopInv, NoStates
  <1>2. IInv /\ StopInv /\ [Next]_vars =>
          [loop = "stopped" => \A k \in Servers \ reused :
               /\ wg'[k] # NoPeer => wg[k] # NoPeer
               /\ Routed(wg'[k]) => Routed(wg[k])]_vars
    <2> SUFFICES ASSUME IInv, StopInv, Next, loop = "stopped", NEW k \in Servers \ reused
                 PROVE  /\ wg'[k] # NoPeer => wg[k] # NoPeer
                        /\ Routed(wg'[k]) => Routed(wg[k])
      BY DEF vars
    <2>1. TypeInv /\ wg \in [Servers -> KernelPeers \cup {NoPeer}] /\ pass = NoPass
      BY TypedParts DEF IInv, LoopInv
    <2>2. ~MainStep
      BY <2>1 DEF MainStep, BeginPass, FallBackStaleDirects, TunnelActive, ReconcilePeer,
         RetirePeer, Waiting, NoPass
    <2>3. CASE \E i \in Slots : WorkerStep(i)
      BY <2>1, <2>3, StoppedGoroutineIsFenced
    <2>4. ASSUME NEW j \in Servers, NEW e \in Endpoints, WgHandshake(j, e)
          PROVE  /\ wg'[k] # NoPeer => wg[k] # NoPeer
                 /\ Routed(wg'[k]) => Routed(wg[k])
      BY <2>1, <2>4 DEF WgHandshake, Routed, KernelPeers
    <2>5. ASSUME NEW j \in Servers, HandshakeAges(j)
          PROVE  /\ wg'[k] # NoPeer => wg[k] # NoPeer
                 /\ Routed(wg'[k]) => Routed(wg[k])
      BY <2>1, <2>5 DEF HandshakeAges, Routed, KernelPeers
    <2>6. CASE wg' = wg
      BY <2>6
    <2>7. ~(TunnelInactive \/ TunnelChanges \/ Stop \/ StopDown \/ ClientCrashes)
      BY DEF TunnelInactive, TunnelChanges, Stop, StopDown, ClientCrashes, Waiting
    <2> QED BY <2>2, <2>3, <2>4, <2>5, <2>6, <2>7 DEF Next, RetryElapses, AnnouncementChanges
  <1> QED BY <1>1, <1>2, InitFence, StepFence, NextStop, PTL DEF Spec, StoppedStaysDown

=============================================================================
