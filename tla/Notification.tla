---------------------------- MODULE Notification ----------------------------
(***************************************************************************)
(* The notifications of the Coordinator, as an Agent receives them         *)
(* (signed_post in peers_api.py, verify_signed_notification and            *)
(* consume_nonce in p2p_agent.py).                                         *)
(*                                                                         *)
(* A notification carries the second it was signed in and a nonce.  It may *)
(* arrive late, again, or several times at once, each time in a thread of  *)
(* the Agent's HTTP server that reads the clock, checks the timestamp and  *)
(* only then takes the lock of the nonce cache.  The two hosts have clocks *)
(* of their own, and the Agent's may be set back.                          *)
(***************************************************************************)
EXTENDS Integers, FiniteSets

CONSTANTS
    Nonces,     \* the notifications, by their nonces
    Threads,    \* of the Agent's HTTP server
    Skew,       \* NOTIFICATION_MAX_SKEW
    Ttl,        \* NONCE_TTL
    MaxSeen,    \* MAX_SEEN_NONCES
    MaxTime     \* bound: clock

Times == 0..MaxTime

\* The nonces are kept as long as a timestamp may be accepted (81, 82).
ASSUME WindowAssumption == Skew \in Nat /\ Ttl \in Nat /\ Ttl >= 2 * Skew
ASSUME BoundsAssumption == MaxSeen \in Nat \ {0} /\ MaxTime \in Nat
ASSUME NoncesAssumption == IsFiniteSet(Nonces)

-----------------------------------------------------------------------------
(* State *)

VARIABLES
    signed,     \* nonce -> its timestamp, for the notifications posted so far
    clock,      \* the Agent's
    seen,       \* nonce -> time.  SEEN_NONCES
    thread,     \* thread -> the request it has checked but not yet consumed
    accepted,   \* history: notifications handed to the handlers
    twice,      \* history: those handed over more than once
    purged,     \* history: the latest time the cache was purged for
    lost        \* history: nonces evicted from a full cache, or lost by a restart

vars == <<signed, clock, seen, thread, accepted, twice, purged, lost>>

Idle == [pc |-> "idle"]

Requests == {Idle} \cup [pc : {"consume"}, nonce : Nonces, now : Times]

Typed ==
    /\ \E N \in SUBSET Nonces : signed \in [N -> Times]
    /\ clock \in Times
    /\ \E N \in SUBSET DOMAIN signed : seen \in [N -> Times]
    /\ thread \in [Threads -> Requests]
    /\ twice \subseteq accepted /\ accepted \subseteq DOMAIN signed
    /\ purged \in Times /\ lost \subseteq Nonces

\* The cache does not outgrow its limit, whatever the threads consume.  (393-395)
CacheBounded == Cardinality(DOMAIN seen) <= MaxSeen

TypeOK == Typed /\ CacheBounded

Init ==
    /\ signed = [n \in {} |-> 0] /\ seen = [n \in {} |-> 0]
    /\ clock = 0 /\ purged = 0
    /\ thread = [t \in Threads |-> Idle]
    /\ accepted = {} /\ twice = {} /\ lost = {}

-----------------------------------------------------------------------------
(* The Coordinator *)

\* signed_post.  Its clock is not the Agent's.
SignedPost(n, ts) ==
    /\ n \notin DOMAIN signed
    /\ signed' = [m \in DOMAIN signed \cup {n} |-> IF m = n THEN ts ELSE signed[m]]
    /\ UNCHANGED <<clock, seen, thread, accepted, twice, purged, lost>>

-----------------------------------------------------------------------------
(* The Agent *)

\* A request arrives: its timestamp and its signature are checked.
Verify(t, n) ==
    /\ thread[t] = Idle /\ n \in DOMAIN signed
    /\ clock - signed[n] <= Skew /\ signed[n] - clock <= Skew
    /\ thread' = [thread EXCEPT ![t] = [pc |-> "consume", nonce |-> n, now |-> clock]]
    /\ UNCHANGED <<signed, clock, seen, accepted, twice, purged, lost>>

\* A mistake: a nonce whose time is just up is forgotten as well.
LiveButLast(now) == {n \in DOMAIN seen : seen[n] > now - Ttl}

\* The nonces a purge at time now leaves.
Live(now) == {n \in DOMAIN seen : seen[n] >= now - Ttl}

\* A mistake: the cache may grow beyond its size by one.
EvictableLate(live) ==
    IF Cardinality(live) > MaxSeen
    THEN {{n} : n \in {m \in live : \A k \in live : seen[m] <= seen[k]}} ELSE {{}}

\* What may be evicted to make room: an oldest nonce of a full cache.
Evictable(live) ==
    IF Cardinality(live) >= MaxSeen
    THEN {{n} : n \in {m \in live : \A k \in live : seen[m] <= seen[k]}} ELSE {{}}

\* consume_nonce, then the handler.
Consume(t) ==
    LET n == thread[t].nonce
        now == thread[t].now
        live == Live(now) IN
    /\ thread[t] # Idle
    /\ purged' = IF now > purged THEN now ELSE purged
    /\ thread' = [thread EXCEPT ![t] = Idle]
    /\ \/ /\ n \in live
          /\ seen' = [m \in live |-> seen[m]]
          /\ UNCHANGED <<accepted, twice, lost>>
       \/ /\ n \notin live
          /\ \E out \in Evictable(live) :
                /\ seen' = [m \in (live \ out) \cup {n} |-> IF m = n THEN now ELSE seen[m]]
                /\ lost' = lost \cup out
          /\ accepted' = accepted \cup {n}
          /\ twice' = twice \cup ({n} \cap accepted)
    /\ UNCHANGED <<signed, clock>>

\* The cache is in memory only.
Restart ==
    /\ seen' = [n \in {} |-> 0] /\ lost' = lost \cup DOMAIN seen
    /\ thread' = [t \in Threads |-> Idle]
    /\ UNCHANGED <<signed, clock, accepted, twice, purged>>

\* Time passes, or the clock is set.
Clock(time) ==
    /\ clock' = time
    /\ UNCHANGED <<signed, seen, thread, accepted, twice, purged, lost>>

-----------------------------------------------------------------------------

Next ==
    \/ \E n \in Nonces, ts \in Times : SignedPost(n, ts)
    \/ \E t \in Threads : Consume(t) \/ \E n \in Nonces : Verify(t, n)
    \/ Restart \/ \E time \in Times : Clock(time)

Spec == Init /\ [][Next]_vars

-----------------------------------------------------------------------------
(* Properties *)

\* A notification is handed to the handlers once, however often and however
\* late it arrives and whatever the clocks show: unless its nonce was evicted
\* from a full cache or lost by a restart, or it was consumed, or the clock set
\* back, after another request had purged the cache for a time at which it was
\* no longer acceptable.  (384-419)
AtMostOnce ==
    \A n \in twice : n \in lost \/ purged > signed[n] + Skew

=============================================================================
