------------------------- MODULE NotificationProofs -------------------------
(***************************************************************************)
(* Notifications are handed over at most once, for any number of them, of  *)
(* threads and of places in the cache, and for any skew the nonces are     *)
(* kept long enough for.                                                   *)
(***************************************************************************)
EXTENDS Notification, FiniteSetTheorems, TLAPS

-----------------------------------------------------------------------------
(* The inductive invariant *)

\* A thread that has checked a timestamp found it close to its own time.
InWindow ==
    \A t \in Threads : thread[t] # Idle =>
        LET n == thread[t].nonce
            now == thread[t].now IN
        n \in DOMAIN signed /\ now - signed[n] <= Skew /\ signed[n] - now <= Skew

\* What was accepted is remembered with a time in its window, unless it was
\* lost, or purged when it was no longer acceptable.
Remembered ==
    \A n \in accepted :
        \/ n \in lost \/ purged > signed[n] + Skew
        \/ n \in DOMAIN seen /\ signed[n] - seen[n] <= Skew

\* The conjuncts hold each other up: a consumption needs InWindow to keep Remembered.
Inv == Typed /\ InWindow /\ Remembered /\ AtMostOnce


\* The empty function is the first value of two variables.
LEMMA Empty ==
    ASSUME NEW T PROVE [n \in {} |-> 0] \in [{} -> T]
OBVIOUS

LEMMA InitTyped == Init => Typed
<1> SUFFICES ASSUME Init PROVE Typed
  OBVIOUS
<1>1. signed \in [{} -> Times] /\ seen \in [{} -> Times] /\ DOMAIN signed = {}
  BY Empty DEF Init
<1>2. clock \in Times /\ purged \in Times
  BY BoundsAssumption DEF Init, Times
<1> QED
  BY <1>1, <1>2 DEF Init, Typed, Requests

LEMMA InitInv == Init => Inv
BY InitTyped DEF Init, Inv, InWindow, Remembered, AtMostOnce

-----------------------------------------------------------------------------
(* Types *)

\* What one consumption does, with the names of consume_nonce.
LEMMA ConsumeTyped ==
    ASSUME Typed, InWindow, NEW t \in Threads, Consume(t) PROVE Typed'
<1> USE DEF Typed
<1> DEFINE n == thread[t].nonce
           now == thread[t].now
           live == Live(now)
<1>1. n \in DOMAIN signed /\ n \in Nonces /\ now \in Times
  BY DEF Consume, Requests, InWindow
<1>2. live \subseteq DOMAIN seen
  BY DEF Live
<1>3. CASE n \in live
  <2>1. seen' \in [live -> Times]
    BY <1>2, <1>3 DEF Consume
  <2>2. purged' \in Times /\ thread' \in [Threads -> Requests]
    BY <1>1 DEF Consume, Requests
  <2> QED
    BY <1>2, <1>3, <2>1, <2>2 DEF Consume
<1>4. CASE n \notin live
  <2>1. PICK out \in Evictable(live) :
           /\ seen' = [m \in (live \ out) \cup {n} |-> IF m = n THEN now ELSE seen[m]]
           /\ lost' = lost \cup out
    BY <1>4 DEF Consume
  <2>2. out \subseteq live
    BY DEF Evictable
  <2>3. seen' \in [(live \ out) \cup {n} -> Times]
    BY <1>1, <1>2, <2>1, <2>2
  <2>4. (live \ out) \cup {n} \subseteq DOMAIN signed /\ signed' = signed
    BY <1>1, <1>2 DEF Consume
  <2>5. lost' \subseteq Nonces
    BY <1>2, <2>1, <2>2
  <2>6. purged' \in Times /\ thread' \in [Threads -> Requests]
    BY <1>1 DEF Consume, Requests
  <2>7. twice' \subseteq accepted' /\ accepted' \subseteq DOMAIN signed'
    BY <1>1, <1>4 DEF Consume
  <2> QED
    BY <2>3, <2>4, <2>5, <2>6, <2>7 DEF Consume
<1> QED
  BY <1>3, <1>4

LEMMA NextTyped ==
    ASSUME Typed, InWindow, [Next]_vars PROVE Typed'
<1> USE DEF Typed
<1>1. ASSUME NEW n \in Nonces, NEW ts \in Times, SignedPost(n, ts) PROVE Typed'
  <2>1. signed' \in [DOMAIN signed \cup {n} -> Times]
    BY <1>1 DEF SignedPost
  <2> QED BY <1>1, <2>1 DEF SignedPost
<1>2. ASSUME NEW t \in Threads, NEW n \in Nonces, Verify(t, n) PROVE Typed'
  BY <1>2 DEF Verify, Requests
<1>3. ASSUME NEW t \in Threads, Consume(t) PROVE Typed'
  BY <1>3, ConsumeTyped
<1>4. CASE Restart
  <2>1. seen' \in [{} -> Times] /\ {} \subseteq DOMAIN signed'
    BY <1>4, Empty DEF Restart
  <2> QED BY <1>4, <2>1 DEF Restart, Requests
<1>5. ASSUME NEW time \in Times, Clock(time) PROVE Typed'
  BY <1>5 DEF Clock
<1>6. CASE UNCHANGED vars
  BY <1>6 DEF vars
<1> QED BY <1>1, <1>2, <1>3, <1>4, <1>5, <1>6 DEF Next

-----------------------------------------------------------------------------
(* The other conjuncts *)

LEMMA NextInWindow ==
    ASSUME Typed, InWindow, [Next]_vars PROVE InWindow'
<1> USE DEF Typed, InWindow
<1>1. ASSUME NEW n \in Nonces, NEW ts \in Times, SignedPost(n, ts) PROVE InWindow'
  <2>1. \A m \in DOMAIN signed : m \in DOMAIN signed' /\ signed'[m] = signed[m]
    BY <1>1 DEF SignedPost
  <2> QED BY <1>1, <2>1 DEF SignedPost
<1>2. ASSUME NEW t \in Threads, NEW n \in Nonces, Verify(t, n) PROVE InWindow'
  BY <1>2 DEF Verify
<1>3. ASSUME NEW t \in Threads, Consume(t) PROVE InWindow'
  BY <1>3 DEF Consume
<1>4. CASE Restart
  BY <1>4 DEF Restart
<1>5. ASSUME NEW time \in Times, Clock(time) PROVE InWindow'
  BY <1>5 DEF Clock
<1>6. CASE UNCHANGED vars
  BY <1>6 DEF vars
<1> QED BY <1>1, <1>2, <1>3, <1>4, <1>5, <1>6 DEF Next

\* The cache forgets nothing that may be accepted at the times it was purged for.
LEMMA ConsumeRemembers ==
    ASSUME Inv, NEW t \in Threads, Consume(t) PROVE Remembered' /\ AtMostOnce'
<1> USE DEF Inv, Typed
<1> DEFINE n == thread[t].nonce
           now == thread[t].now
           live == Live(now)
<1>1. /\ n \in DOMAIN signed /\ now \in Times /\ signed' = signed
      /\ now - signed[n] <= Skew /\ signed[n] - now <= Skew
  BY DEF Consume, Requests, InWindow
<1>2. purged' >= now /\ purged' >= purged /\ purged \in Int /\ purged' \in Int
  BY <1>1 DEF Consume, Times
<1>3. ASSUME NEW m \in accepted, m \notin lost, purged' <= signed[m] + Skew
      PROVE m \in live /\ signed[m] - seen[m] <= Skew
  <2>1. signed[m] \in Int /\ now \in Int /\ m \in DOMAIN signed
    BY <1>1 DEF Times
  <2>2. ~(purged > signed[m] + Skew)
    BY <1>2, <1>3, <2>1, WindowAssumption
  <2>3. m \in DOMAIN seen /\ signed[m] - seen[m] <= Skew
    BY <1>3, <2>2 DEF Remembered
  <2>4. seen[m] \in Int
    BY <2>3 DEF Times
  <2>5. seen[m] >= now - Ttl
    BY <1>2, <1>3, <2>1, <2>3, <2>4, WindowAssumption
  <2> QED BY <2>3, <2>5 DEF Live
<1>4. CASE n \in live
  <2>1. /\ seen' = [m \in live |-> seen[m]]
        /\ accepted' = accepted /\ twice' = twice /\ lost' = lost
    BY <1>4 DEF Consume
  <2>2. Remembered'
    <3> SUFFICES ASSUME NEW m \in accepted, m \notin lost, ~(purged' > signed[m] + Skew)
                 PROVE m \in DOMAIN seen' /\ signed[m] - seen'[m] <= Skew
      BY <1>1, <2>1 DEF Remembered
    <3>1. signed[m] \in Int
      BY DEF Times
    <3>2. purged' <= signed[m] + Skew
      BY <1>2, <3>1, WindowAssumption
    <3> QED BY <1>3, <2>1, <3>2
  <2>3. AtMostOnce'
    <3> SUFFICES ASSUME NEW m \in twice, m \notin lost PROVE purged' > signed[m] + Skew
      BY <1>1, <2>1 DEF AtMostOnce
    <3>1. signed[m] \in Int /\ purged > signed[m] + Skew
      BY DEF AtMostOnce, Times
    <3> QED BY <1>2, <3>1, WindowAssumption
  <2> QED BY <2>2, <2>3
<1>5. CASE n \notin live
  <2>1. PICK out \in Evictable(live) :
           /\ seen' = [m \in (live \ out) \cup {n} |-> IF m = n THEN now ELSE seen[m]]
           /\ lost' = lost \cup out
    BY <1>5 DEF Consume
  <2>2. accepted' = accepted \cup {n} /\ twice' = twice \cup ({n} \cap accepted)
    BY <1>5 DEF Consume
  <2>3. Remembered'
    <3> SUFFICES ASSUME NEW m \in accepted', m \notin lost', ~(purged' > signed[m] + Skew)
                 PROVE m \in DOMAIN seen' /\ signed[m] - seen'[m] <= Skew
      BY <1>1 DEF Remembered
    <3>1. CASE m = n
      BY <1>1, <2>1, <3>1
    <3>2. CASE m # n
      <4>1. m \in accepted /\ m \notin lost /\ m \notin out
        BY <2>1, <2>2, <3>2
      <4>2. signed[m] \in Int
        BY <4>1 DEF Times
      <4>3. purged' <= signed[m] + Skew
        BY <1>2, <4>2, WindowAssumption
      <4>4. m \in live /\ signed[m] - seen[m] <= Skew
        BY <1>3, <4>1, <4>3
      <4> QED BY <2>1, <3>2, <4>1, <4>4
    <3> QED BY <3>1, <3>2
  <2>4. AtMostOnce'
    <3> SUFFICES ASSUME NEW m \in twice', m \notin lost' PROVE purged' > signed[m] + Skew
      BY <1>1 DEF AtMostOnce
    <3>1. m \in DOMAIN signed /\ m \notin lost /\ signed[m] \in Int
      BY <1>1, <2>1, <2>2 DEF Times
    <3>2. CASE m \in twice
      <4>1. purged > signed[m] + Skew
        BY <3>1, <3>2 DEF AtMostOnce
      <4> QED BY <1>2, <3>1, <4>1, WindowAssumption
    <3>3. CASE m \notin twice
      <4>1. m = n /\ m \in accepted
        BY <2>2, <3>3
      <4>2. ~(purged' <= signed[m] + Skew)
        BY <1>3, <1>5, <3>1, <4>1
      <4> QED BY <1>2, <3>1, <4>2, WindowAssumption
    <3> QED BY <3>2, <3>3
  <2> QED BY <2>3, <2>4
<1> QED BY <1>4, <1>5

LEMMA NextRemembers ==
    ASSUME Inv, [Next]_vars PROVE Remembered' /\ AtMostOnce'
<1> USE DEF Inv, Typed, Remembered, AtMostOnce
<1>1. ASSUME NEW n \in Nonces, NEW ts \in Times, SignedPost(n, ts)
      PROVE Remembered' /\ AtMostOnce'
  <2>1. \A m \in DOMAIN signed : signed'[m] = signed[m]
    BY <1>1 DEF SignedPost
  <2> QED BY <1>1, <2>1 DEF SignedPost
<1>2. ASSUME NEW t \in Threads, NEW n \in Nonces, Verify(t, n) PROVE Remembered' /\ AtMostOnce'
  BY <1>2 DEF Verify
<1>3. ASSUME NEW t \in Threads, Consume(t) PROVE Remembered' /\ AtMostOnce'
  BY <1>3, ConsumeRemembers
<1>4. CASE Restart
  BY <1>4 DEF Restart
<1>5. ASSUME NEW time \in Times, Clock(time) PROVE Remembered' /\ AtMostOnce'
  BY <1>5 DEF Clock
<1>6. CASE UNCHANGED vars
  BY <1>6 DEF vars
<1> QED BY <1>1, <1>2, <1>3, <1>4, <1>5, <1>6 DEF Next

LEMMA NextInv == Inv /\ [Next]_vars => Inv'
BY NextTyped, NextInWindow, NextRemembers DEF Inv

LEMMA Invariance == Spec => []Inv
<1>1. Init => Inv
  BY InitInv
<1>2. Inv /\ [Next]_vars => Inv'
  BY NextInv
<1> QED BY <1>1, <1>2, PTL DEF Spec

-----------------------------------------------------------------------------
(* The limit of the cache *)

\* The cache stays a finite set within its limit.
LEMMA NextBounded ==
    ASSUME Typed, Typed', CacheBounded, [Next]_vars PROVE CacheBounded'
<1> USE DEF CacheBounded
<1>1. ASSUME NEW t \in Threads, Consume(t) PROVE CacheBounded'
  <2> DEFINE n == thread[t].nonce
             live == Live(thread[t].now)
  <2>1. IsFiniteSet(DOMAIN seen)
    BY NoncesAssumption, FS_Subset DEF Typed
  <2>2. live \subseteq DOMAIN seen
    BY DEF Live
  <2>3. /\ IsFiniteSet(live) /\ Cardinality(live) \in Nat
        /\ Cardinality(live) <= Cardinality(DOMAIN seen) /\ Cardinality(DOMAIN seen) \in Nat
    BY <2>1, <2>2, FS_Subset, FS_CardinalityType
  <2>4. CASE n \in live
    <3>1. DOMAIN seen' = live
      BY <1>1, <2>4 DEF Consume
    <3> QED BY <2>3, <3>1, BoundsAssumption
  <2>5. CASE n \notin live
    <3>1. PICK out \in Evictable(live) : DOMAIN seen' = (live \ out) \cup {n}
      BY <1>1, <2>5 DEF Consume
    <3>2. CASE Cardinality(live) >= MaxSeen
      <4>1. PICK m \in live : out = {m}
        BY <3>2 DEF Evictable
      <4>2. IsFiniteSet(live \ {m}) /\ Cardinality(live \ {m}) = Cardinality(live) - 1
        BY <2>3, <4>1, FS_RemoveElement
      <4>3. Cardinality((live \ {m}) \cup {n}) = Cardinality(live \ {m}) + 1
        BY <2>5, <4>2, FS_AddElement
      <4> QED BY <2>3, <3>1, <4>1, <4>2, <4>3, BoundsAssumption
    <3>3. CASE ~(Cardinality(live) >= MaxSeen)
      <4>1. out = {}
        BY <3>3 DEF Evictable
      <4>2. Cardinality(live \cup {n}) = Cardinality(live) + 1
        BY <2>3, <2>5, FS_AddElement
      <4>3. DOMAIN seen' = live \cup {n}
        BY <3>1, <4>1
      <4> QED BY <2>3, <3>3, <4>2, <4>3, BoundsAssumption
    <3> QED BY <3>2, <3>3
  <2> QED BY <2>4, <2>5
<1>2. CASE Restart
  <2>1. Cardinality(DOMAIN seen') = 0
    BY <1>2, FS_EmptySet DEF Restart
  <2> QED BY <2>1, BoundsAssumption
<1>3. CASE UNCHANGED seen
  BY <1>3
<1> QED BY <1>1, <1>2, <1>3 DEF Next, SignedPost, Verify, Clock, vars

-----------------------------------------------------------------------------
(* Theorems *)

\* verify_signed_notification hands a notification over once, within what the
\* memory of its cache allows.
THEOREM HandedOverOnce == Spec => []AtMostOnce
BY Invariance, PTL DEF Inv

\* The variables keep their types, and consume_nonce keeps SEEN_NONCES within
\* MAX_SEEN_NONCES.
THEOREM TypeCorrect == Spec => []TypeOK
<1>1. Init => CacheBounded
  BY FS_EmptySet, BoundsAssumption DEF Init, CacheBounded
<1>2. Inv /\ Inv' /\ CacheBounded /\ [Next]_vars => CacheBounded'
  BY NextBounded DEF Inv
<1>3. Inv /\ CacheBounded => TypeOK
  BY DEF Inv, TypeOK
<1> QED BY <1>1, <1>2, <1>3, Invariance, PTL DEF Spec

=============================================================================
