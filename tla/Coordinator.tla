------------------------------ MODULE Coordinator ------------------------------
(***************************************************************************)
(* The Coordinator on the VPS, wireguard-p2p/vps/peers_api.py, the nodes   *)
(* that sync with it, and the agents of the servers it pushes to.          *)
(*                                                                         *)
(* Nodes POST /sync, /connect or /announce every few seconds; one HTTP     *)
(* thread serves each request.  coordinate_client gives the node a session *)
(* and pushes an offer of it to every server that has not acknowledged     *)
(* this very offer lately; it waits for the answers holding                *)
(* COORDINATE_LOCK.  A new session first removes the one it supersedes     *)
(* from the servers.  /disconnect and the reaper take sessions away        *)
(* without COORDINATE_LOCK and push removals of their own.                 *)
(*                                                                         *)
(* A pushed message is in `net` until the agent handles it.  The push      *)
(* times out after PUSH_TIMEOUT while the agent may be waiting for its     *)
(* STATE_LOCK: a message given up on may still be handled, at any time     *)
(* later or never.  One action is one critical section of STATE_LOCK, a    *)
(* push to all servers, or the handling of one message by an agent.        *)
(*                                                                         *)
(* Sessions are numbered by their session_started_ns, taken to be strictly *)
(* increasing also over restarts of the Coordinator.  `candidates` stands  *)
(* for all that offer_fingerprint covers of the node (candidates, LAN and  *)
(* observed endpoint).  Every departure from the ordinary course (a time   *)
(* out, an expiry, a restart, a move of a node) counts as a fault, and     *)
(* there are at most MaxFaults.                                            *)
(***************************************************************************)
EXTENDS Naturals, FiniteSets

CONSTANTS
    Initiators,    \* nodes that sync: clients, and servers that initiate
    Servers,       \* nodes with the role "server"
    Address,       \* node -> its overlay address as a number
    Candidates,    \* what a node can advertise
    Threads,       \* bound: HTTP threads, requests served at a time
    MaxFaults,     \* bound: faults
    AgentsForget,  \* whether agents lose sessions (lease over, restart)
    NoCandidates, NoSession, NoRequest, NoThread

Nodes == Initiators \cup Servers

ASSUME NodesAssumption == /\ IsFiniteSet(Nodes) /\ Address \in [Nodes -> Nat]
                          /\ AgentsForget \in BOOLEAN /\ MaxFaults \in Nat
ASSUME NullsAssumption == /\ NoCandidates \notin Candidates
                          /\ NoThread \notin Threads

-----------------------------------------------------------------------------
(* State *)

VARIABLES
    nodes,           \* the nodes: up or not, instance, candidates, /disconnect on its way
    sessions,        \* SESSIONS
    started,         \* the last session_started_ns given out
    known,           \* NODE_CANDIDATES and LAN_CANDIDATES
    requests,        \* the HTTP threads that serve a request
    coordinateLock,  \* COORDINATE_LOCK: the thread that holds it
    net,             \* pushed messages no agent has handled yet
    held,            \* server -> node -> session and candidates in the agent's STATES
    faults           \* faults so far

vars == <<nodes, sessions, started, known, requests, coordinateLock, net, held, faults>>

MaybeCandidates == Candidates \cup {NoCandidates}

NodeStates == [up : BOOLEAN, instance : Nat, candidates : Candidates, bye : BOOLEAN]

\* acked[s] is what s acknowledged in this session (fingerprints), or
\* NoCandidates when that was never or is OFFER_REFRESH ago (last_push).
Sessions == [id : Nat, instance : Nat, acked : [Servers -> MaybeCandidates]]

\* pc: waiting for the lock, for removals to be answered, for offers to be
\* answered.  awaited: the node still waits for the reply.
Requests ==
    [node : Initiators, instance : Nat, candidates : Candidates, awaited : BOOLEAN,
     pc : {"queued", "removing", "pushing"}, session : Nat, pending : SUBSET Servers,
     waiting : SUBSET Servers, answers : [Servers -> MaybeCandidates]]

\* A message is an offer, or a removal named by its reason; thread is the one
\* that waits for the answer.
Messages ==
    [kind : {"offer"}, server : Servers, node : Initiators, session : Nat,
     candidates : Candidates, thread : Threads \cup {NoThread}]
    \cup
    [kind : {"superseded", "disconnect", "expired"}, server : Servers, node : Initiators,
     session : Nat, candidates : {NoCandidates}, thread : Threads \cup {NoThread}]

Holdings == [session : Nat, candidates : Candidates]

ASSUME RecordsAssumption == /\ NoSession \notin Sessions \cup Holdings
                            /\ NoRequest \notin Requests

TypeOK ==
    /\ nodes \in [Nodes -> NodeStates]
    /\ sessions \in [Initiators -> Sessions \cup {NoSession}]
    /\ started \in Nat
    /\ known \in [Nodes -> MaybeCandidates]
    /\ requests \in [Threads -> Requests \cup {NoRequest}]
    /\ coordinateLock \in Threads \cup {NoThread}
    /\ net \in SUBSET Messages
    /\ held \in [Servers -> [Initiators -> Holdings \cup {NoSession}]]
    /\ faults \in Nat

Init ==
    /\ \E advertised \in [Nodes -> Candidates] :
           nodes = [n \in Nodes |-> [up |-> TRUE, instance |-> 0,
                                     candidates |-> advertised[n], bye |-> FALSE]]
    /\ sessions = [c \in Initiators |-> NoSession]
    /\ started = 0
    /\ known = [n \in Nodes |-> NoCandidates]
    /\ requests = [t \in Threads |-> NoRequest]
    /\ coordinateLock = NoThread
    /\ net = {}
    /\ held = [s \in Servers |-> [c \in Initiators |-> NoSession]]
    /\ faults = 0

-----------------------------------------------------------------------------
(* Helpers *)

Fault == faults < MaxFaults /\ faults' = faults + 1

NoAnswers == [s \in Servers |-> NoCandidates]

\* server_initiator_owns_pair: of two servers the lower address initiates.
OwnsPair(c, s) == c # s /\ Address[c] < Address[s]

\* initiator_servers: whom c's session is offered to.
Targets(c) == {s \in Servers \ {c} : c \in Servers => OwnsPair(c, s)}

Message(kind, s, c, session, candidates, t) ==
    [kind |-> kind, server |-> s, node |-> c, session |-> session,
     candidates |-> candidates, thread |-> t]

\* push_remove: to every server but the node itself.
Removals(c, reason, t) ==
    IF sessions[c] = NoSession THEN {} ELSE
    {Message(reason, s, c, sessions[c].id, NoCandidates, t) : s \in Servers \ {c}}

\* A mistake: the candidates of the servers go with any session.
KnownWithoutServers(c) ==
    [n \in Nodes |-> IF n = c \/ n \in Servers THEN NoCandidates ELSE known[n]]

\* The candidates of the servers go with the last session.
KnownWithout(c) ==
    [n \in Nodes |->
        IF n = c \/ (n \in Servers /\ \A d \in Initiators \ {c} : sessions[d] = NoSession)
        THEN NoCandidates ELSE known[n]]

\* c's session is taken away without COORDINATE_LOCK.
CloseSession(c, reason) ==
    /\ sessions' = [sessions EXCEPT ![c] = NoSession]
    /\ known' = KnownWithout(c)
    /\ net' = net \cup Removals(c, reason, NoThread)
    /\ UNCHANGED <<started, requests, coordinateLock, held>>

-----------------------------------------------------------------------------
(* A request of a node: do_POST and coordinate_client *)

\* The node has one request out at a time; threads it gave up on go on.
Begin(t, c) ==
    /\ requests[t] = NoRequest
    /\ nodes[c].up
    /\ \A u \in Threads : requests[u] # NoRequest /\ requests[u].node = c => ~requests[u].awaited
    /\ requests' = [requests EXCEPT ![t] =
           [node |-> c, instance |-> nodes[c].instance, candidates |-> nodes[c].candidates,
            awaited |-> TRUE, pc |-> "queued", session |-> 0, pending |-> {},
            waiting |-> {}, answers |-> NoAnswers]]
    /\ known' = [known EXCEPT ![c] = nodes[c].candidates]
    /\ UNCHANGED <<nodes, sessions, started, coordinateLock, net, held, faults>>

\* A mistake: a node that started anew goes on with its old session.
IsNewNode(c, instance) == sessions[c] = NoSession

IsNewSession(c, instance) ==
    sessions[c] = NoSession \/ sessions[c].instance # instance

\* A mistake: the new session inherits what was acknowledged for the old one.
OpenedKeepingAcks(c, instance) ==
    [id |-> started + 1, instance |-> instance,
     acked |-> IF sessions[c] = NoSession THEN NoAnswers ELSE sessions[c].acked]

Opened(c, instance) ==
    [id |-> started + 1, instance |-> instance, acked |-> NoAnswers]

\* A mistake: COORDINATE_LOCK is not taken.
LockForAll(t) == coordinateLock' = t

AcquireLock(t) == coordinateLock = NoThread /\ coordinateLock' = t

\* With COORDINATE_LOCK: find or open the session, and tell the servers that
\* the session it supersedes is over.
Enter(t) ==
    LET r == requests[t]
        c == r.node
        new == IsNewSession(c, r.instance)
        session == IF new THEN Opened(c, r.instance) ELSE sessions[c]
        removals == IF new THEN Removals(c, "superseded", t) ELSE {} IN
    /\ r # NoRequest /\ r.pc = "queued"
    /\ AcquireLock(t)
    /\ sessions' = [sessions EXCEPT ![c] = session]
    /\ started' = IF new THEN started + 1 ELSE started
    /\ net' = net \cup removals
    /\ requests' = [requests EXCEPT ![t] =
           [@ EXCEPT !.pc = "removing", !.session = session.id,
                     !.pending = {s \in Targets(c) : session.acked[s] # r.candidates},
                     !.waiting = {m.server : m \in removals}]]
    /\ UNCHANGED <<nodes, known, held, faults>>

\* Push the offer to the servers that have not acknowledged it.
Push(t) ==
    LET r == requests[t] IN
    /\ r # NoRequest /\ r.pc = "removing" /\ r.waiting = {}
    /\ net' = net \cup {Message("offer", s, r.node, r.session, r.candidates, t) : s \in r.pending}
    /\ requests' = [requests EXCEPT ![t] = [@ EXCEPT !.pc = "pushing", !.waiting = r.pending]]
    /\ UNCHANGED <<nodes, sessions, started, known, coordinateLock, held, faults>>

\* All pushes are answered or given up: record the acknowledgements, unless
\* the session is gone meanwhile, release the lock and reply.
Record(t) ==
    LET r == requests[t]
        c == r.node
        answered == {s \in r.pending : r.answers[s] # NoCandidates}
        current == sessions[c] # NoSession /\ sessions[c].id = r.session IN
    /\ r # NoRequest /\ r.pc = "pushing" /\ r.waiting = {}
    /\ sessions' = IF ~current THEN sessions ELSE
           [sessions EXCEPT ![c].acked =
               [s \in Servers |-> IF s \in answered THEN r.candidates ELSE @[s]]]
    /\ known' = IF ~current THEN known ELSE
           [n \in Nodes |-> IF n \in answered THEN r.answers[n] ELSE known[n]]
    /\ coordinateLock' = NoThread
    /\ requests' = [requests EXCEPT ![t] = NoRequest]
    /\ UNCHANGED <<nodes, started, net, held, faults>>

-----------------------------------------------------------------------------
(* /disconnect, the reaper, and the passing of time *)

\* The node said good-bye; its request may be late.
Disconnect(c) ==
    /\ nodes[c].bye
    /\ nodes' = [nodes EXCEPT ![c].bye = FALSE]
    /\ CloseSession(c, "disconnect")
    /\ UNCHANGED faults

InProgress(c) == \E t \in Threads : requests[t] # NoRequest /\ requests[t].node = c

Silent(c) == ~nodes[c].up /\ ~InProgress(c)

\* A mistake: only a session that some server acknowledged is reaped.
ReapAcked(c) ==
    /\ sessions[c] # NoSession /\ Silent(c)
    /\ sessions[c].acked # NoAnswers
    /\ CloseSession(c, "expired")
    /\ UNCHANGED <<nodes, faults>>

\* The node has been silent for SESSION_TTL.
Reap(c) ==
    /\ sessions[c] # NoSession /\ Silent(c)
    /\ CloseSession(c, "expired")
    /\ UNCHANGED <<nodes, faults>>

\* last_seen is the time the last request came in, not the time it was
\* served: when pushes or the wait for the lock are slow, the session of a
\* node that is up expires, even while a thread is pushing it.
ReapBusy(c) ==
    /\ sessions[c] # NoSession /\ ~Silent(c)
    /\ CloseSession(c, "expired")
    /\ Fault
    /\ UNCHANGED nodes

\* OFFER_REFRESH has passed since the last push, or s has a new endpoint.
RefreshDue(c, s) ==
    /\ sessions[c] # NoSession /\ sessions[c].acked[s] # NoCandidates
    /\ sessions' = [sessions EXCEPT ![c].acked[s] = NoCandidates]
    /\ UNCHANGED <<nodes, started, known, requests, coordinateLock, net, held, faults>>

\* A pass of the reaper that finds no session drops what servers announced.
ReapEmpty ==
    /\ \A c \in Initiators : sessions[c] = NoSession
    /\ known' = [n \in Nodes |-> IF n \in Servers THEN NoCandidates ELSE known[n]]
    /\ UNCHANGED <<nodes, sessions, started, requests, coordinateLock, net, held, faults>>

\* Nobody tells or asks for n's candidates in the ordinary course.
Unrefreshed(n) ==
    ~nodes[n].up \/ \A c \in Initiators : n \in Targets(c) => Silent(c)

\* peer_payload drops what n announced, or a server answered, ANNOUNCE_TTL
\* ago.  That is longer than OFFER_REFRESH: no acknowledgement counts any more.
AnnouncementExpires(n) ==
    /\ known[n] # NoCandidates
    /\ n \in Initiators => Silent(n)
    /\ n \in Servers => \A c \in Initiators :
           sessions[c] # NoSession => sessions[c].acked[n] = NoCandidates
    /\ known' = [known EXCEPT ![n] = NoCandidates]
    /\ (Unrefreshed(n) /\ UNCHANGED faults) \/ (~Unrefreshed(n) /\ Fault)
    /\ UNCHANGED <<nodes, sessions, started, requests, coordinateLock, net, held>>

\* The push of m is given up after PUSH_TIMEOUT, whether or not the agent
\* gets to handle it.
PushTimesOut(m) ==
    /\ m.thread # NoThread
    /\ net' = (net \ {m}) \cup {[m EXCEPT !.thread = NoThread]}
    /\ requests' = [requests EXCEPT ![m.thread].waiting = @ \ {m.server}]
    /\ Fault
    /\ UNCHANGED <<nodes, sessions, started, known, coordinateLock, held>>

\* The server is down: no answer will come.
PushFails(m) ==
    /\ m.thread # NoThread /\ ~nodes[m.server].up
    /\ net' = net \ {m}
    /\ requests' = [requests EXCEPT ![m.thread].waiting = @ \ {m.server}]
    /\ UNCHANGED <<nodes, sessions, started, known, coordinateLock, held, faults>>

\* The Coordinator dies and starts again with nothing.
CoordinatorRestarts ==
    /\ sessions' = [c \in Initiators |-> NoSession]
    /\ known' = [n \in Nodes |-> NoCandidates]
    /\ requests' = [t \in Threads |-> NoRequest]
    /\ coordinateLock' = NoThread
    /\ net' = {[m EXCEPT !.thread = NoThread] : m \in net}
    /\ Fault
    /\ UNCHANGED <<nodes, started, held>>

-----------------------------------------------------------------------------
(* The agents: handle_offer and handle_remove as far as sessions go *)

Accepts(h, m) == h # NoSession => h.session <= m.session

\* A mistake: the candidates of the offer are forgotten.
AfterOfferBare(h, m) ==
    IF Accepts(h, m) THEN [session |-> m.session, candidates |-> NoCandidates] ELSE h

AfterOffer(h, m) ==
    IF Accepts(h, m) THEN [session |-> m.session, candidates |-> m.candidates] ELSE h

\* A mistake: a removal is applied to whatever session the agent has.
AfterAnyRemove(h, m) == {NoSession}

\* A removal of another session is ignored; a healthy direct outlives the
\* expiry of its session.
AfterRemove(h, m) ==
    IF h = NoSession \/ h.session # m.session THEN {h} ELSE
    IF m.kind = "expired" THEN {h, NoSession} ELSE {NoSession}

\* The request that waits for m gets its answer; to an offer the server
\* answers with its own candidates.
Answered(r, m) ==
    [r EXCEPT !.waiting = @ \ {m.server},
              !.answers = IF m.kind = "offer"
                          THEN [@ EXCEPT ![m.server] = nodes[m.server].candidates] ELSE @]

\* An agent handles m.  Whoever still waits for it gets the answer, an "ok"
\* also when the message was ignored.
Deliver(m) ==
    LET s == m.server IN
    /\ nodes[s].up
    /\ \E h \in IF m.kind = "offer" THEN {AfterOffer(held[s][m.node], m)}
                                    ELSE AfterRemove(held[s][m.node], m) :
           held' = [held EXCEPT ![s][m.node] = h]
    /\ net' = net \ {m}
    /\ requests' = IF m.thread = NoThread THEN requests
                   ELSE [requests EXCEPT ![m.thread] = Answered(@, m)]
    /\ UNCHANGED <<nodes, sessions, started, known, coordinateLock, faults>>

\* The agent's lease is over, or it lost its state file.
AgentForgets(s, c) ==
    /\ AgentsForget /\ held[s][c] # NoSession
    /\ held' = [held EXCEPT ![s][c] = NoSession]
    /\ Fault
    /\ UNCHANGED <<nodes, sessions, started, known, requests, coordinateLock, net>>

-----------------------------------------------------------------------------
(* The nodes *)

\* Requests of c whose reply nobody waits for any more.
Abandoned(c) ==
    [t \in Threads |-> IF requests[t] # NoRequest /\ requests[t].node = c
                       THEN [requests[t] EXCEPT !.awaited = FALSE] ELSE requests[t]]

\* The node's HTTP client times out; the thread of the Coordinator goes on.
GivesUp(c) ==
    /\ \E t \in Threads : requests[t] # NoRequest /\ requests[t].node = c /\ requests[t].awaited
    /\ requests' = Abandoned(c)
    /\ Fault
    /\ UNCHANGED <<nodes, sessions, started, known, coordinateLock, net, held>>

\* A node stops, with a /disconnect or without.
Leaves(n) ==
    /\ nodes[n].up
    /\ \E bye \in {nodes[n].bye, n \in Initiators} :
           nodes' = [nodes EXCEPT ![n] = [@ EXCEPT !.up = FALSE, !.bye = bye]]
    /\ requests' = Abandoned(n)
    /\ Fault
    /\ UNCHANGED <<sessions, started, known, coordinateLock, net, held>>

\* It starts again, as a new instance unless it is a client without instances.
Returns(n) ==
    /\ ~nodes[n].up
    /\ \E i \in {nodes[n].instance, nodes[n].instance + 1} :
           nodes' = [nodes EXCEPT ![n] = [@ EXCEPT !.up = TRUE, !.instance = i]]
    /\ UNCHANGED <<sessions, started, known, requests, coordinateLock, net, held, faults>>

\* Its network changes.
Roams(c) ==
    /\ \E x \in Candidates \ {nodes[c].candidates} :
           nodes' = [nodes EXCEPT ![c].candidates = x]
    /\ Fault
    /\ UNCHANGED <<sessions, started, known, requests, coordinateLock, net, held>>

-----------------------------------------------------------------------------

Next ==
    \/ \E t \in Threads : (\E c \in Initiators : Begin(t, c)) \/ Enter(t) \/ Push(t) \/ Record(t)
    \/ \E c \in Initiators : \/ Disconnect(c) \/ Reap(c) \/ ReapBusy(c)
                             \/ GivesUp(c) \/ Roams(c)
    \/ \E s \in Servers, c \in Initiators : RefreshDue(c, s) \/ AgentForgets(s, c)
    \/ \E m \in net : Deliver(m) \/ PushTimesOut(m) \/ PushFails(m)
    \/ \E n \in Nodes : AnnouncementExpires(n) \/ Leaves(n) \/ Returns(n)
    \/ ReapEmpty \/ CoordinatorRestarts

Spec == Init /\ [][Next]_vars

\* A node that is up keeps syncing, and there is always a thread for it in the
\* program (the finite Threads make this strong fairness).  The lock is free
\* again and again, a waiting thread gets it some time.  The reaper and the
\* refresh run on the clock.  A push ends: once timeouts are used up, with an
\* answer.  Nothing is assumed of messages nobody waits for.
Fairness ==
    /\ \A t \in Threads : SF_vars(Enter(t)) /\ WF_vars(Push(t)) /\ WF_vars(Record(t))
    /\ \A c \in Initiators : SF_vars(\E t \in Threads : Begin(t, c)) /\ WF_vars(Reap(c))
    /\ \A s \in Servers, c \in Initiators : WF_vars(RefreshDue(c, s))
    /\ WF_vars(\E m \in net : m.thread # NoThread /\ (Deliver(m) \/ PushFails(m)))

FairSpec == Spec /\ Fairness

-----------------------------------------------------------------------------
(* Safety *)

\* No offer that coordinate_client waits for is stale at its server: the
\* Coordinator takes the "ok" of an agent that ignored a stale offer for an
\* acknowledgement, so only one it has given up on may be ignored.
AwaitedOffersAreNew ==
    \A m \in net :
        m.kind = "offer" /\ m.thread # NoThread /\ held[m.server][m.node] # NoSession
            => held[m.server][m.node].session <= m.session

\* A server that acknowledged the offer of a live session has that session:
\* delayed offers and removals of earlier sessions, expiries during a push and
\* restarts do not take it away.  (The candidates may be older ones, by a late
\* push of the same session, until the next refresh.)
AckedIsHeld ==
    ~AgentsForget =>
        \A c \in Initiators, s \in Servers :
            sessions[c] # NoSession /\ sessions[c].acked[s] # NoCandidates
                => held[s][c] # NoSession /\ held[s][c].session = sessions[c].id

\* c's session counts an acknowledgement of server s.
Counted(c, s) == sessions[c] # NoSession /\ sessions[c].acked[s] # NoCandidates

\* A server that initiates says good-bye, or its session ends.
LeavesItself(s) ==
    /\ s \in Initiators
    /\ \/ sessions[s] # NoSession /\ sessions'[s] = NoSession
       \/ nodes[s].bye /\ ~nodes'[s].bye

\* What a live session counts as acknowledged has its answer on record: no
\* acknowledgement is counted without the candidates of the server, and as long
\* as it counts, nothing but the server's own good-bye or expiry takes them away
\* from the replies, whichever other sessions end or announcements expire.  (652-675,
\* 712-719, 731-741)
AnswersStay ==
    [][\A c \in Initiators, s \in Servers :
           Counted(c, s)' /\ (Counted(c, s) => known[s] # NoCandidates)
               => known'[s] # NoCandidates \/ LeavesItself(s)]_vars

\* What the registry sees of the state.
Live == [c \in Initiators |-> IF sessions[c] = NoSession THEN 0 ELSE sessions[c].id]

Holds == [s \in Servers |-> [c \in Initiators |->
             IF held[s][c] = NoSession THEN 0 ELSE held[s][c].session]]

Registry == INSTANCE SessionRegistry WITH live <- Live, opened <- started, holds <- Holds

\* The promise of the control plane: SESSIONS, the clock and the agents behave
\* like the registry, in which sessions at servers only move on and a live
\* session is not dropped.
ImplementsRegistry == Registry!Spec

-----------------------------------------------------------------------------
(* Liveness *)

\* The servers that run have what the node last told, under its session.
Settled(c) ==
    /\ sessions[c] # NoSession /\ sessions[c].instance = nodes[c].instance
    /\ known[c] = nodes[c].candidates
    /\ \A s \in Targets(c) : nodes[s].up =>
           /\ held[s][c] = [session |-> sessions[c].id, candidates |-> nodes[c].candidates]
           /\ known[s] # NoCandidates

\* Faults are finitely many.  After them, whatever requests, offers and
\* removals are still under way, a node that stays up settles for good.
Convergence == \A c \in Initiators : <>[]nodes[c].up => <>[]Settled(c)

\* The session of a node that left for good goes, with or without its
\* /disconnect, and also when that overtook a request still waiting.
GoneIsForgotten ==
    \A c \in Initiators : <>[]~nodes[c].up => <>[](sessions[c] = NoSession)
================================================================================
