--------------------------- MODULE CoordinatorProofs ---------------------------
(***************************************************************************)
(* Theorems about Coordinator, for any number of nodes, servers, threads   *)
(* and faults.                                                             *)
(***************************************************************************)
EXTENDS Coordinator, TLAPS

-----------------------------------------------------------------------------
(* The inductive invariant *)

\* The thread of t has been through Enter.
Entered(t) == requests[t] # NoRequest /\ requests[t].pc # "queued"

Awaited(m) == m.thread # NoThread

\* coordinate_client runs under COORDINATE_LOCK from Enter to Record.
LockInv == \A t \in Threads : Entered(t) => coordinateLock = t

\* An awaited message belongs to the thread that pushed it, which waits for
\* its server: a removal while it removes, an offer of its own session while
\* it pushes.
AwaitInv ==
    \A m \in net : Awaited(m) =>
        /\ Entered(m.thread)
        /\ requests[m.thread].node = m.node
        /\ m.server \in requests[m.thread].waiting
        /\ m.kind = "offer" => /\ requests[m.thread].pc = "pushing"
                               /\ requests[m.thread].session = m.session

\* It awaits one message per server.
UniqueInv ==
    \A m1, m2 \in net :
        Awaited(m1) /\ m2.thread = m1.thread /\ m2.server = m1.server => m1 = m2

\* A live session is one that was opened.
SessionInv ==
    \A c \in Initiators : sessions[c] # NoSession => sessions[c].id \in 1 .. started

\* The session a thread works for was opened; if its node has a live session,
\* it is that one, because only the holder of the lock opens another.
RequestInv ==
    \A t \in Threads : Entered(t) =>
        /\ requests[t].session \in 1 .. started
        /\ sessions[requests[t].node] # NoSession
               => sessions[requests[t].node].id = requests[t].session

\* n is no later than the live session of c and than the one being pushed.
NotLater(n, c) ==
    /\ n \in 1 .. started
    /\ sessions[c] # NoSession => n <= sessions[c].id
    /\ \A t \in Threads : Entered(t) /\ requests[t].node = c => n <= requests[t].session

\* Messages are of sessions that are not later; removals of earlier ones.
Fenced(m) ==
    /\ NotLater(m.session, m.node)
    /\ m.kind # "offer" /\ sessions[m.node] # NoSession
           => m.session # sessions[m.node].id

NetInv == \A m \in net : Fenced(m)

\* So are the sessions the agents hold.
HeldInv ==
    \A s \in Servers, c \in Initiators :
        held[s][c] # NoSession => NotLater(held[s][c].session, c)

FenceInv ==
    TypeOK /\ LockInv /\ AwaitInv /\ UniqueInv /\ SessionInv /\ RequestInv /\ NetInv /\ HeldInv

-----------------------------------------------------------------------------
(* Types *)

\* The parts of the state that most actions put together have their types.
LEMMA PartTypes ==
    ASSUME TypeOK, NEW c \in Initiators, NEW reason \in {"superseded", "disconnect", "expired"},
           NEW t \in Threads \cup {NoThread}, NEW i \in Nat
    PROVE  /\ NoAnswers \in [Servers -> MaybeCandidates]
           /\ Removals(c, reason, t) \in SUBSET Messages
           /\ Opened(c, i) \in Sessions
           /\ KnownWithout(c) \in [Nodes -> MaybeCandidates]
           /\ Targets(c) \in SUBSET Servers
  <1>1. NoAnswers \in [Servers -> MaybeCandidates]
    BY DEF NoAnswers, MaybeCandidates
  <1>2. Removals(c, reason, t) \in SUBSET Messages
    BY DEF TypeOK, Removals, Message, Messages, Sessions, MaybeCandidates
  <1>3. Opened(c, i) \in Sessions
    BY <1>1 DEF TypeOK, Opened, Sessions
  <1>4. KnownWithout(c) \in [Nodes -> MaybeCandidates]
    BY DEF TypeOK, KnownWithout, MaybeCandidates
  <1> QED BY <1>1, <1>2, <1>3, <1>4 DEF Targets

LEMMA BeginKeepsType ==
    ASSUME TypeOK, NEW t \in Threads, NEW c \in Initiators, Begin(t, c)
    PROVE  TypeOK'
  <1>1. c \in Nodes
    BY DEF Nodes
  <1>2. nodes[c] \in NodeStates
    BY <1>1 DEF TypeOK
  <1>3. requests'[t] \in Requests
    BY <1>2, PartTypes DEF Begin, TypeOK, Requests, NodeStates
  <1>4. known' \in [Nodes -> MaybeCandidates]
    BY <1>1, <1>2 DEF Begin, TypeOK, NodeStates, MaybeCandidates
  <1> QED BY <1>3, <1>4 DEF Begin, TypeOK

LEMMA EnterKeepsType ==
    ASSUME TypeOK, NEW t \in Threads, Enter(t)
    PROVE  TypeOK' /\ requests'[t] \in Requests
  <1> DEFINE r == requests[t]
             c == r.node
             new == IsNewSession(c, r.instance)
             session == IF new THEN Opened(c, r.instance) ELSE sessions[c]
             removals == IF new THEN Removals(c, "superseded", t) ELSE {}
  <1>1. r \in Requests /\ c \in Initiators /\ r.instance \in Nat
    BY DEF Enter, TypeOK, Requests
  <1>2. session \in Sessions
    BY <1>1, PartTypes DEF TypeOK, IsNewSession
  <1>3. removals \in SUBSET Messages
    BY <1>1, PartTypes
  <1>4. Targets(c) \in SUBSET Servers
    BY DEF Targets
  <1>5. sessions' = [sessions EXCEPT ![c] = session] /\ net' = net \cup removals
    BY DEF Enter
  <1>6. requests' = [requests EXCEPT ![t] =
           [r EXCEPT !.pc = "removing", !.session = session.id,
                     !.pending = {s \in Targets(c) : session.acked[s] # r.candidates},
                     !.waiting = {m.server : m \in removals}]]
    BY DEF Enter
  <1>7. session.id \in Nat /\ {m.server : m \in removals} \in SUBSET Servers
    BY <1>2, <1>3 DEF Sessions, Messages
  <1> HIDE DEF r, c, new, session, removals
  <1>8. requests' \in [Threads -> Requests \cup {NoRequest}] /\ requests'[t] \in Requests
    BY <1>1, <1>4, <1>6, <1>7 DEF TypeOK, Requests
  <1>9. sessions' \in [Initiators -> Sessions \cup {NoSession}] /\ net' \in SUBSET Messages
    BY <1>1, <1>2, <1>3, <1>5 DEF TypeOK
  <1>10. started' \in Nat /\ coordinateLock' \in Threads \cup {NoThread}
    BY DEF Enter, AcquireLock, TypeOK
  <1> QED BY <1>8, <1>9, <1>10 DEF Enter, TypeOK

LEMMA PushKeepsType ==
    ASSUME TypeOK, NEW t \in Threads, Push(t)
    PROVE  TypeOK'
  <1> DEFINE r == requests[t]
  <1>1. r \in Requests
    BY DEF Push, TypeOK
  <1>2. {Message("offer", s, r.node, r.session, r.candidates, t) : s \in r.pending}
           \in SUBSET Messages
    BY <1>1 DEF Requests, Message, Messages, MaybeCandidates
  <1>3. [r EXCEPT !.pc = "pushing", !.waiting = r.pending] \in Requests
    BY <1>1 DEF Requests
  <1> QED BY <1>2, <1>3 DEF Push, TypeOK

\* What Record writes: acknowledgements of the session it worked for, if live.
LEMMA RecordedAcks ==
    ASSUME TypeOK, NEW t \in Threads, Record(t), sessions' # sessions
    PROVE  \E acked \in [Servers -> MaybeCandidates] :
               sessions' = [sessions EXCEPT ![requests[t].node] = [@ EXCEPT !.acked = acked]]
  <1> DEFINE r == requests[t]
             c == r.node
             answered == {s \in r.pending : r.answers[s] # NoCandidates}
             acked == [s \in Servers |-> IF s \in answered THEN r.candidates
                                                           ELSE sessions[c].acked[s]]
  <1>1. r \in Requests /\ c \in Initiators /\ r.candidates \in MaybeCandidates
    BY DEF Record, TypeOK, Requests, MaybeCandidates
  <1>2. sessions[c] \in Sessions
    BY <1>1 DEF Record, TypeOK
  <1>3. acked \in [Servers -> MaybeCandidates]
    BY <1>1, <1>2 DEF Sessions
  <1>4. sessions' = [sessions EXCEPT ![c] = [@ EXCEPT !.acked = acked]]
    BY DEF Record
  <1> QED BY <1>3, <1>4

LEMMA RecordKeepsType ==
    ASSUME TypeOK, NEW t \in Threads, Record(t)
    PROVE  TypeOK'
  <1> DEFINE r == requests[t]
             c == r.node
             answered == {s \in r.pending : r.answers[s] # NoCandidates}
  <1>1. r \in Requests
    BY DEF Record, TypeOK
  <1>2. c \in Initiators /\ answered \in SUBSET Servers /\ r.candidates \in MaybeCandidates
        /\ r.answers \in [Servers -> MaybeCandidates]
    BY <1>1 DEF Requests, MaybeCandidates
  <1>3. known' \in [Nodes -> MaybeCandidates]
    BY <1>2 DEF Record, TypeOK, Nodes
  <1>4. sessions' \in [Initiators -> Sessions \cup {NoSession}]
    <2>1. CASE sessions' = sessions
      BY <2>1 DEF TypeOK
    <2>2. CASE sessions' # sessions
      <3>1. PICK acked \in [Servers -> MaybeCandidates] :
               sessions' = [sessions EXCEPT ![c] = [@ EXCEPT !.acked = acked]]
        BY <2>2, RecordedAcks
      <3>2. sessions[c] \in Sessions
        BY <1>2, <2>2 DEF Record, TypeOK
      <3>3. [sessions[c] EXCEPT !.acked = acked] \in Sessions
        BY <3>1, <3>2 DEF Sessions
      <3> QED BY <1>2, <3>1, <3>3 DEF TypeOK
    <2> QED BY <2>1, <2>2
  <1> QED BY <1>3, <1>4 DEF Record, TypeOK

\* Taking a session away without COORDINATE_LOCK (/disconnect, the reaper).
LEMMA CloseKeepsType ==
    ASSUME TypeOK, NEW c \in Initiators, NEW reason \in {"disconnect", "expired"},
           CloseSession(c, reason)
    PROVE  /\ sessions' \in [Initiators -> Sessions \cup {NoSession}]
           /\ started' \in Nat
           /\ known' \in [Nodes -> MaybeCandidates]
           /\ requests' \in [Threads -> Requests \cup {NoRequest}]
           /\ coordinateLock' \in Threads \cup {NoThread}
           /\ net' \in SUBSET Messages
           /\ held' \in [Servers -> [Initiators -> Holdings \cup {NoSession}]]
  BY PartTypes DEF CloseSession, TypeOK

LEMMA ClosingKeepsType ==
    ASSUME TypeOK, NEW c \in Initiators, Disconnect(c) \/ Reap(c) \/ ReapBusy(c)
    PROVE  TypeOK'
  <1>1. CASE Disconnect(c)
    <2>1. nodes' \in [Nodes -> NodeStates]
      BY <1>1 DEF Disconnect, TypeOK, NodeStates
    <2> QED BY <1>1, <2>1, CloseKeepsType DEF Disconnect, TypeOK
  <1>2. CASE Reap(c)
    BY <1>2, CloseKeepsType DEF Reap, TypeOK
  <1>3. CASE ReapBusy(c)
    BY <1>3, CloseKeepsType DEF ReapBusy, Fault, TypeOK
  <1> QED BY <1>1, <1>2, <1>3

LEMMA RefreshKeepsType ==
    ASSUME TypeOK, NEW c \in Initiators, NEW s \in Servers, RefreshDue(c, s)
    PROVE  TypeOK'
  <1>1. sessions[c] \in Sessions
    BY DEF RefreshDue, TypeOK
  <1>2. [sessions[c] EXCEPT !.acked[s] = NoCandidates] \in Sessions
    BY <1>1 DEF Sessions, MaybeCandidates
  <1> QED BY <1>2 DEF RefreshDue, TypeOK

\* A message given up on is still a message.
LEMMA GivenUpIsMessage ==
    ASSUME NEW m \in Messages
    PROVE  [m EXCEPT !.thread = NoThread] \in Messages
  BY DEF Messages

LEMMA PushEndsKeepsType ==
    ASSUME TypeOK, AwaitInv, NEW m \in net, PushTimesOut(m) \/ PushFails(m)
    PROVE  TypeOK'
  <1>1. m \in Messages /\ m.thread \in Threads /\ m.server \in Servers
    BY DEF TypeOK, Messages, PushTimesOut, PushFails
  <1>2. requests' = [requests EXCEPT ![m.thread].waiting = @ \ {m.server}]
    BY DEF PushTimesOut, PushFails
  <1>3. requests[m.thread] \in Requests
    BY <1>1 DEF AwaitInv, Awaited, Entered, TypeOK, PushTimesOut, PushFails
  <1>4. [requests[m.thread] EXCEPT !.waiting = @ \ {m.server}] \in Requests
    BY <1>3 DEF Requests
  <1>5. net' \in SUBSET Messages
    BY <1>1, GivenUpIsMessage DEF PushTimesOut, PushFails, TypeOK
  <1> QED BY <1>1, <1>2, <1>4, <1>5 DEF PushTimesOut, PushFails, Fault, TypeOK

LEMMA RestartKeepsType ==
    ASSUME TypeOK, CoordinatorRestarts
    PROVE  TypeOK'
  <1>1. net' \in SUBSET Messages
    BY GivenUpIsMessage DEF CoordinatorRestarts, TypeOK
  <1>2. known' \in [Nodes -> MaybeCandidates]
    BY DEF CoordinatorRestarts, MaybeCandidates
  <1> QED BY <1>1, <1>2 DEF CoordinatorRestarts, Fault, TypeOK

\* What an agent holds after a message.
LEMMA HandledTypes ==
    ASSUME NEW h \in Holdings \cup {NoSession}, NEW m \in Messages,
           m.kind = "offer" => m.candidates \in Candidates
    PROVE  /\ m.kind = "offer" => AfterOffer(h, m) \in Holdings \cup {NoSession}
           /\ AfterRemove(h, m) \in SUBSET (Holdings \cup {NoSession})
  BY DEF AfterOffer, AfterRemove, Holdings, Messages

LEMMA AnsweredType ==
    ASSUME TypeOK, NEW r \in Requests, NEW m \in Messages
    PROVE  Answered(r, m) \in Requests
  <1> DEFINE answers == IF m.kind = "offer"
                        THEN [r.answers EXCEPT ![m.server] = nodes[m.server].candidates]
                        ELSE r.answers
  <1>1. m.server \in Servers /\ m.server \in Nodes
    BY DEF Messages, Nodes
  <1>2. nodes[m.server].candidates \in MaybeCandidates
    BY <1>1 DEF TypeOK, NodeStates, MaybeCandidates
  <1>3. answers \in [Servers -> MaybeCandidates]
    BY <1>1, <1>2 DEF Requests
  <1>4. Answered(r, m) = [r EXCEPT !.waiting = @ \ {m.server}, !.answers = answers]
    BY DEF Answered
  <1> HIDE DEF answers
  <1> QED BY <1>3, <1>4 DEF Requests

LEMMA DeliverKeepsType ==
    ASSUME TypeOK, AwaitInv, NEW m \in net, Deliver(m)
    PROVE  TypeOK'
  <1> DEFINE s == m.server
  <1>1. m \in Messages /\ s \in Servers /\ m.node \in Initiators /\ s \in Nodes
    BY DEF TypeOK, Messages, Nodes
  <1>2. m.kind = "offer" => m.candidates \in Candidates
    BY <1>1 DEF Messages
  <1>3. held[s][m.node] \in Holdings \cup {NoSession}
    BY <1>1 DEF TypeOK
  <1>4. PICK h \in IF m.kind = "offer" THEN {AfterOffer(held[s][m.node], m)}
                                       ELSE AfterRemove(held[s][m.node], m) :
           held' = [held EXCEPT ![s][m.node] = h]
    BY DEF Deliver
  <1>5. h \in Holdings \cup {NoSession}
    BY <1>1, <1>2, <1>3, <1>4, HandledTypes
  <1>6. held' \in [Servers -> [Initiators -> Holdings \cup {NoSession}]]
    BY <1>1, <1>4, <1>5 DEF TypeOK
  <1>7. requests' \in [Threads -> Requests \cup {NoRequest}]
    <2>1. CASE m.thread = NoThread
      BY <2>1 DEF Deliver, TypeOK
    <2>2. CASE m.thread # NoThread
      <3>1. m.thread \in Threads /\ requests[m.thread] \in Requests
        BY <1>1, <2>2 DEF AwaitInv, Awaited, Entered, TypeOK, Messages
      <3>2. Answered(requests[m.thread], m) \in Requests
        BY <1>1, <3>1, AnsweredType
      <3> QED BY <2>2, <3>1, <3>2 DEF Deliver, TypeOK
    <2> QED BY <2>1, <2>2
  <1> QED BY <1>6, <1>7 DEF Deliver, TypeOK

\* The agents' and the nodes' own steps, and the end of an announcement.
LEMMA NodesKeepType ==
    ASSUME TypeOK, NEW c \in Nodes,
           \/ GivesUp(c) \/ Leaves(c) \/ Returns(c) \/ Roams(c)
           \/ \E s \in Servers, d \in Initiators : AgentForgets(s, d)
    PROVE  TypeOK'
  <1>1. c \in Nodes
    BY DEF Nodes
  <1>2. nodes[c] \in NodeStates
    BY <1>1 DEF TypeOK
  <1>3. Abandoned(c) \in [Threads -> Requests \cup {NoRequest}]
    <2>1. ASSUME NEW r \in Requests PROVE [r EXCEPT !.awaited = FALSE] \in Requests
      BY DEF Requests
    <2> QED BY <2>1 DEF Abandoned, TypeOK
  <1>4. CASE GivesUp(c)
    BY <1>3, <1>4 DEF GivesUp, Fault, TypeOK
  <1>5. CASE Leaves(c)
    <2>1. PICK bye \in {nodes[c].bye, c \in Initiators} :
              nodes' = [nodes EXCEPT ![c] = [@ EXCEPT !.up = FALSE, !.bye = bye]]
      BY <1>5 DEF Leaves
    <2>2. [nodes[c] EXCEPT !.up = FALSE, !.bye = bye] \in NodeStates
      <3>1. bye \in BOOLEAN
        <4>1. nodes[c].bye \in BOOLEAN
          BY <1>2 DEF NodeStates
        <4>2. (c \in Initiators) \in BOOLEAN
          OBVIOUS
        <4> QED BY <2>1, <4>1, <4>2, Zenon
      <3> QED BY <1>2, <3>1 DEF NodeStates
    <2>3. nodes' \in [Nodes -> NodeStates]
      BY <1>1, <2>1, <2>2 DEF TypeOK
    <2> QED BY <1>3, <1>5, <2>3 DEF Leaves, Fault, TypeOK
  <1>6. CASE Returns(c)
    <2>1. PICK i \in {nodes[c].instance, nodes[c].instance + 1} :
              nodes' = [nodes EXCEPT ![c] = [@ EXCEPT !.up = TRUE, !.instance = i]]
      BY <1>6 DEF Returns
    <2>2. [nodes[c] EXCEPT !.up = TRUE, !.instance = i] \in NodeStates
      <3>1. i \in Nat
        BY <1>2 DEF NodeStates
      <3> QED BY <1>2, <3>1 DEF NodeStates
    <2>3. nodes' \in [Nodes -> NodeStates]
      BY <1>1, <2>1, <2>2 DEF TypeOK
    <2> QED BY <1>6, <2>3 DEF Returns, TypeOK
  <1>7. CASE Roams(c)
    <2>1. PICK x \in Candidates : nodes' = [nodes EXCEPT ![c].candidates = x]
      BY <1>7 DEF Roams
    <2>2. [nodes[c] EXCEPT !.candidates = x] \in NodeStates
      BY <1>2 DEF NodeStates
    <2>3. nodes' \in [Nodes -> NodeStates]
      BY <1>1, <2>1, <2>2 DEF TypeOK
    <2> QED BY <1>7, <2>3 DEF Roams, Fault, TypeOK
  <1>8. CASE \E s \in Servers, d \in Initiators : AgentForgets(s, d)
    BY <1>8 DEF AgentForgets, Fault, TypeOK
  <1> QED BY <1>4, <1>5, <1>6, <1>7, <1>8

\* What the Coordinator knows of candidates is dropped.
Drops == ReapEmpty \/ \E n \in Nodes : AnnouncementExpires(n)

LEMMA DropsKeepType ==
    ASSUME TypeOK, Drops
    PROVE  TypeOK'
  <1>1. known' \in [Nodes -> MaybeCandidates]
    BY DEF Drops, ReapEmpty, AnnouncementExpires, TypeOK, MaybeCandidates
  <1> QED BY <1>1 DEF Drops, ReapEmpty, AnnouncementExpires, Fault, TypeOK

-----------------------------------------------------------------------------
(* Sessions *)

\* Steps that open no session and hand none to an agent.
Shrinks ==
    /\ started' = started
    /\ \A t \in Threads : Entered(t)' =>
           /\ Entered(t) /\ coordinateLock' = coordinateLock
           /\ requests'[t].node = requests[t].node
           /\ requests'[t].session = requests[t].session
    /\ \A c \in Initiators : sessions'[c] # NoSession =>
           sessions[c] # NoSession /\ sessions'[c].id = sessions[c].id
    /\ \A s \in Servers, c \in Initiators : held'[s][c] # NoSession =>
           held[s][c] # NoSession /\ held'[s][c].session = held[s][c].session

\* Steps after which every awaited message was awaited before, by a request
\* that stands where it stood and still waits for it.
KeepsWaiting ==
    \A m \in net' : Awaited(m) =>
        /\ m \in net /\ Entered(m.thread)'
        /\ requests'[m.thread].node = requests[m.thread].node
        /\ requests'[m.thread].session = requests[m.thread].session
        /\ requests'[m.thread].pc = requests[m.thread].pc
        /\ m.server \in requests'[m.thread].waiting

\* m repeats a message that was there, for whomever it is.
Repeats(m) ==
    \E old \in net : m.session = old.session /\ m.node = old.node /\ m.kind = old.kind

LEMMA ShrinkingKeepsFence ==
    ASSUME FenceInv, Shrinks
    PROVE  /\ LockInv' /\ SessionInv' /\ RequestInv' /\ HeldInv'
           /\ \A m \in net : Fenced(m)'
  <1>1. \A t \in Threads : Entered(t) => requests[t].node \in Initiators
    BY DEF FenceInv, TypeOK, Entered, Requests
  <1>2. \A m \in net : m.node \in Initiators
    BY DEF FenceInv, TypeOK, Messages
  <1>3. ASSUME NEW n, NEW c \in Initiators, NotLater(n, c) PROVE NotLater(n, c)'
    BY <1>3 DEF NotLater, Shrinks
  <1>4. LockInv' /\ SessionInv'
    BY DEF FenceInv, LockInv, SessionInv, Shrinks
  <1>5. RequestInv'
    BY <1>1 DEF FenceInv, RequestInv, Shrinks
  <1>6. HeldInv'
    <2> SUFFICES ASSUME NEW s \in Servers, NEW c \in Initiators, held'[s][c] # NoSession
                 PROVE  NotLater(held[s][c].session, c)'
      BY DEF HeldInv
    <2>1. held[s][c] # NoSession /\ held'[s][c].session = held[s][c].session
      BY DEF Shrinks
    <2>2. NotLater(held[s][c].session, c)
      BY <2>1 DEF FenceInv, HeldInv
    <2> QED BY <2>1, <2>2 DEF NotLater, Shrinks
  <1>7. ASSUME NEW m \in net PROVE Fenced(m)'
    <2>1. Fenced(m) /\ m.node \in Initiators
      BY <1>2 DEF FenceInv, NetInv
    <2> QED BY <1>3, <2>1 DEF Fenced, Shrinks
  <1> QED BY <1>4, <1>5, <1>6, <1>7

LEMMA RepeatsAreFenced ==
    ASSUME FenceInv, Shrinks, NEW m, Repeats(m)
    PROVE  Fenced(m)'
  <1>1. PICK old \in net : m.session = old.session /\ m.node = old.node /\ m.kind = old.kind
    BY DEF Repeats
  <1>2. Fenced(old)'
    BY ShrinkingKeepsFence
  <1> QED BY <1>1, <1>2 DEF Fenced, NotLater

LEMMA WaitingIsKept ==
    ASSUME FenceInv, KeepsWaiting
    PROVE  AwaitInv' /\ UniqueInv'
  <1>1. AwaitInv'
    BY DEF FenceInv, AwaitInv, KeepsWaiting, Awaited
  <1>2. UniqueInv'
    BY DEF FenceInv, UniqueInv, KeepsWaiting, Awaited
  <1> QED BY <1>1, <1>2

\* Together: a step that only shrinks keeps the invariant.
LEMMA QuietStepKeepsFence ==
    ASSUME FenceInv, TypeOK', Shrinks, KeepsWaiting, \A m \in net' : Repeats(m)
    PROVE  FenceInv'
  <1>1. NetInv'
    BY RepeatsAreFenced DEF NetInv
  <1> QED BY <1>1, ShrinkingKeepsFence, WaitingIsKept DEF FenceInv

\* Recording acknowledgements, and forgetting them, leaves sessions what they are.
LEMMA RecordKeepsIds ==
    ASSUME FenceInv, NEW t \in Threads, Record(t), NEW c \in Initiators
    PROVE  sessions'[c] = sessions[c] \/
               (sessions[c] # NoSession /\ sessions'[c] # NoSession /\ sessions'[c].id = sessions[c].id)
  <1>1. CASE sessions' = sessions
    BY <1>1
  <1>2. CASE sessions' # sessions
    <2>1. sessions[requests[t].node] # NoSession /\ requests[t].node \in Initiators
      BY <1>2 DEF Record, FenceInv, TypeOK, Requests
    <2>2. sessions[requests[t].node] \in Sessions
      BY <2>1 DEF FenceInv, TypeOK
    <2>3. PICK acked \in [Servers -> MaybeCandidates] :
             sessions' = [sessions EXCEPT ![requests[t].node] = [@ EXCEPT !.acked = acked]]
      BY <1>2, RecordedAcks DEF FenceInv
    <2>4. [sessions[requests[t].node] EXCEPT !.acked = acked] \in Sessions
      BY <2>2, <2>3 DEF Sessions
    <2> QED BY <2>1, <2>2, <2>3, <2>4, RecordsAssumption DEF FenceInv, TypeOK, Sessions
  <1> QED BY <1>1, <1>2

LEMMA RefreshKeepsIds ==
    ASSUME FenceInv, NEW c \in Initiators, NEW s \in Servers, RefreshDue(c, s), NEW d \in Initiators
    PROVE  sessions'[d] = sessions[d] \/
               (sessions[d] # NoSession /\ sessions'[d] # NoSession /\ sessions'[d].id = sessions[d].id)
  <1>1. sessions[c] \in Sessions
    BY DEF RefreshDue, FenceInv, TypeOK
  <1>2. [sessions[c] EXCEPT !.acked[s] = NoCandidates] \in Sessions
        /\ [sessions[c] EXCEPT !.acked[s] = NoCandidates].id = sessions[c].id
    BY <1>1 DEF Sessions, MaybeCandidates
  <1> QED BY <1>1, <1>2, RecordsAssumption DEF RefreshDue, FenceInv, TypeOK

LEMMA BeginKeepsFence ==
    ASSUME FenceInv, NEW t \in Threads, NEW c \in Initiators, Begin(t, c)
    PROVE  FenceInv'
  <1>1. TypeOK'
    BY BeginKeepsType DEF FenceInv
  <1>2. \A u \in Threads : Entered(u)' => u # t
    BY DEF Begin, FenceInv, TypeOK, Entered
  <1>3. \A u \in Threads : u # t => requests'[u] = requests[u]
    BY DEF Begin, FenceInv, TypeOK
  <1>4. Shrinks
    BY <1>2, <1>3 DEF Begin, Shrinks, Entered
  <1>5. \A m \in net : Awaited(m) => m.thread \in Threads /\ m.thread # t
    BY DEF FenceInv, TypeOK, AwaitInv, Awaited, Entered, Begin, Messages
  <1>6. KeepsWaiting
    BY <1>3, <1>5 DEF KeepsWaiting, Begin, FenceInv, AwaitInv, Entered
  <1>7. \A m \in net' : Repeats(m)
    BY DEF Repeats, Begin
  <1> QED BY <1>1, <1>4, <1>6, <1>7, QuietStepKeepsFence

\* Before Enter nobody has the lock: no thread has entered, no message is
\* awaited.  After it, t has, for a session that is not before any other.
LEMMA EnterKeepsFence ==
    ASSUME FenceInv, NEW t \in Threads, Enter(t)
    PROVE  FenceInv'
  <1> DEFINE r == requests[t]
             c == r.node
             new == IsNewSession(c, r.instance)
             session == IF new THEN Opened(c, r.instance) ELSE sessions[c]
             removals == IF new THEN Removals(c, "superseded", t) ELSE {}
  <1>1. TypeOK'
    BY EnterKeepsType DEF FenceInv
  <1>2. r \in Requests /\ c \in Initiators /\ started \in Nat
    BY DEF Enter, FenceInv, TypeOK, Requests
  <1>3. \A u \in Threads : ~Entered(u)
    BY NullsAssumption DEF FenceInv, LockInv, Enter, AcquireLock
  <1>4. \A m \in net : ~Awaited(m)
    BY <1>3 DEF FenceInv, AwaitInv, Awaited, TypeOK, Messages
  <1>5. /\ sessions' = [sessions EXCEPT ![c] = session] /\ net' = net \cup removals
        /\ started' = (IF new THEN started + 1 ELSE started)
        /\ coordinateLock' = t /\ held' = held
    BY DEF Enter, AcquireLock
  <1>6. /\ requests'[t].node = c /\ requests'[t].session = session.id
        /\ requests'[t].waiting = {m.server : m \in removals}
        /\ requests'[t].pc = "removing" /\ Entered(t)'
    <2>1. requests'[t] =
             [r EXCEPT !.pc = "removing", !.session = session.id,
                       !.pending = {s \in Targets(c) : session.acked[s] # r.candidates},
                       !.waiting = {m.server : m \in removals}]
      BY DEF Enter, FenceInv, TypeOK
    <2>2. requests'[t] # NoRequest
      BY EnterKeepsType, RecordsAssumption DEF FenceInv
    <2> HIDE DEF session, removals
    <2> QED BY <1>2, <2>1, <2>2 DEF Requests, Entered
  <1>7. \A u \in Threads : Entered(u)' => u = t
    BY <1>3 DEF Enter, FenceInv, TypeOK, Entered
  <1>8. /\ session.id \in 1 .. started'
        /\ new => session.id = started + 1
        /\ ~new => sessions[c] # NoSession /\ session = sessions[c]
    BY <1>2, <1>5 DEF Opened, IsNewSession, FenceInv, SessionInv
  <1>9. /\ sessions'[c] = session
        /\ \A d \in Initiators : d # c => sessions'[d] = sessions[d]
    BY <1>2, <1>5 DEF FenceInv, TypeOK
  <1>10. \A m \in removals :
            /\ m.thread = t /\ m.node = c /\ m.kind = "superseded" /\ new
            /\ sessions[c] # NoSession /\ m.session = sessions[c].id
    BY DEF Removals, Message
  <1>11. \A m1, m2 \in removals : m1.server = m2.server => m1 = m2
    BY DEF Removals, Message
  <1> HIDE DEF r, c, new, session, removals
  <1>12. LockInv' /\ SessionInv' /\ RequestInv'
    <2>1. LockInv'
      BY <1>5, <1>7 DEF LockInv
    <2>2. SessionInv'
      BY <1>2, <1>5, <1>8, <1>9 DEF FenceInv, SessionInv
    <2>3. RequestInv'
      BY <1>6, <1>7, <1>8, <1>9 DEF RequestInv
    <2> QED BY <2>1, <2>2, <2>3
  <1>13. AwaitInv' /\ UniqueInv'
    <2>1. \A m \in net' : Awaited(m) => m \in removals
      BY <1>4, <1>5
    <2>2. AwaitInv'
      BY <1>6, <1>10, <2>1 DEF AwaitInv, Awaited
    <2>3. UniqueInv'
      BY <1>10, <1>11, <2>1 DEF UniqueInv, Awaited
    <2> QED BY <2>2, <2>3
  <1>14. ASSUME NEW n, NEW d \in Initiators, NotLater(n, d) PROVE NotLater(n, d)'
    <2>1. n \in 1 .. started /\ n \in 1 .. started'
      BY <1>2, <1>5, <1>14 DEF NotLater
    <2>2. d = c => n <= session.id
      BY <1>2, <1>8, <1>14, <2>1 DEF NotLater
    <2> QED BY <1>6, <1>7, <1>9, <1>14, <2>1, <2>2 DEF NotLater
  <1>15. HeldInv'
    BY <1>5, <1>14 DEF FenceInv, HeldInv
  <1>16. NetInv'
    <2> SUFFICES ASSUME NEW m \in net' PROVE Fenced(m)'
      BY DEF NetInv
    <2>1. CASE m \in net
      <3>1. Fenced(m) /\ m.node \in Initiators
        BY <2>1 DEF FenceInv, NetInv, TypeOK, Messages
      <3>2. m.node = c /\ new => m.session # session.id
        BY <1>2, <1>8, <3>1 DEF Fenced, NotLater
      <3> QED BY <1>8, <1>9, <1>14, <3>1, <3>2 DEF Fenced
    <2>2. CASE m \in removals
      <3>1. m.session \in 1 .. started /\ m.node = c /\ m.session # session.id
            /\ m.session <= session.id /\ m.session \in 1 .. started'
        BY <1>2, <1>5, <1>8, <1>10, <2>2 DEF FenceInv, SessionInv
      <3> QED BY <1>6, <1>7, <1>9, <3>1 DEF Fenced, NotLater
    <2> QED BY <1>5, <2>1, <2>2
  <1> QED BY <1>1, <1>12, <1>13, <1>15, <1>16 DEF FenceInv

LEMMA PushKeepsFence ==
    ASSUME FenceInv, NEW t \in Threads, Push(t)
    PROVE  FenceInv'
  <1> DEFINE r == requests[t]
             offers == {Message("offer", s, r.node, r.session, r.candidates, t) : s \in r.pending}
  <1>1. TypeOK'
    BY PushKeepsType DEF FenceInv
  <1>2. r \in Requests /\ Entered(t) /\ r.node \in Initiators
    BY DEF Push, FenceInv, TypeOK, Requests, Entered
  <1>3. net' = net \cup offers /\ requests' = [requests EXCEPT ![t] =
            [r EXCEPT !.pc = "pushing", !.waiting = r.pending]]
    BY DEF Push
  <1>4. /\ requests'[t].node = r.node /\ requests'[t].session = r.session
        /\ requests'[t].waiting = r.pending /\ requests'[t].pc = "pushing" /\ Entered(t)'
        /\ \A u \in Threads : u # t => requests'[u] = requests[u]
    <2>1. [r EXCEPT !.pc = "pushing", !.waiting = r.pending] \in Requests
      BY <1>2 DEF Requests
    <2>2. /\ requests'[t] = [r EXCEPT !.pc = "pushing", !.waiting = r.pending]
          /\ \A u \in Threads : u # t => requests'[u] = requests[u]
      BY <1>3 DEF FenceInv, TypeOK
    <2> QED BY <1>2, <2>1, <2>2, RecordsAssumption DEF Requests, Entered
  <1>5. \A u \in Threads : Entered(u) => u = t
    BY <1>2 DEF FenceInv, LockInv
  <1>6. Shrinks
    BY <1>2, <1>4 DEF Push, Shrinks, Entered
  <1>7. \A m \in net : ~Awaited(m)
    BY <1>5 DEF FenceInv, AwaitInv, Awaited, Push, TypeOK, Messages
  <1>8. \A m \in offers : /\ m.thread = t /\ m.node = r.node /\ m.session = r.session
                          /\ m.server \in r.pending
    BY DEF Message
  <1>9. \A m1, m2 \in offers : m1.server = m2.server => m1 = m2
    BY DEF Message
  <1>10. \A m \in offers : m.kind = "offer"
    BY DEF Message
  <1> HIDE DEF offers
  <1>11. AwaitInv' /\ UniqueInv'
    <2>1. \A m \in net' : Awaited(m) => m \in offers
      BY <1>3, <1>7
    <2>2. AwaitInv'
      BY <1>4, <1>8, <2>1 DEF AwaitInv, Awaited
    <2>3. UniqueInv'
      BY <1>8, <1>9, <2>1 DEF UniqueInv, Awaited
    <2> QED BY <2>2, <2>3
  <1>12. \A u \in Threads : Entered(u)' => u = t
    BY <1>4, <1>5 DEF Entered
  <1>13. ASSUME NEW m \in offers PROVE Fenced(m)'
    <2>1. r.session \in 1 .. started'
          /\ (sessions'[r.node] # NoSession => sessions'[r.node].id = r.session)
      BY <1>2 DEF FenceInv, RequestInv, Push
    <2> QED BY <1>2, <1>4, <1>8, <1>10, <1>12, <2>1 DEF Fenced, NotLater
  <1>14. NetInv'
    BY <1>3, <1>6, <1>13, ShrinkingKeepsFence DEF NetInv
  <1> QED BY <1>1, <1>6, <1>11, <1>14, ShrinkingKeepsFence DEF FenceInv

LEMMA RecordKeepsFence ==
    ASSUME FenceInv, NEW t \in Threads, Record(t)
    PROVE  FenceInv'
  <1>1. TypeOK'
    BY RecordKeepsType DEF FenceInv
  <1>2. Entered(t) /\ requests[t] \in Requests
    BY DEF Record, Entered, FenceInv, TypeOK
  <1>3. \A u \in Threads : Entered(u) => u = t
    BY <1>2 DEF FenceInv, LockInv
  <1>4. \A u \in Threads : ~Entered(u)'
    BY <1>3 DEF Record, FenceInv, TypeOK, Entered
  <1>5. \A c \in Initiators : sessions'[c] # NoSession =>
           sessions[c] # NoSession /\ sessions'[c].id = sessions[c].id
    BY RecordKeepsIds
  <1>6. Shrinks
    BY <1>4, <1>5 DEF Record, Shrinks
  <1>7. \A m \in net : ~Awaited(m)
    BY <1>3 DEF FenceInv, AwaitInv, Awaited, Record, TypeOK, Messages
  <1>8. KeepsWaiting
    BY <1>7 DEF KeepsWaiting, Record
  <1>9. \A m \in net' : Repeats(m)
    BY DEF Repeats, Record
  <1> QED BY <1>1, <1>6, <1>8, <1>9, QuietStepKeepsFence

\* The removals of a session taken away are pushed when it is no longer live.
LEMMA CloseKeepsFence ==
    ASSUME FenceInv, TypeOK', NEW c \in Initiators, NEW reason \in {"disconnect", "expired"},
           CloseSession(c, reason)
    PROVE  FenceInv'
  <1> DEFINE removals == Removals(c, reason, NoThread)
  <1>1. /\ sessions' = [sessions EXCEPT ![c] = NoSession] /\ net' = net \cup removals
        /\ UNCHANGED <<started, requests, coordinateLock, held>>
    BY DEF CloseSession
  <1>2. \A d \in Initiators : sessions'[d] # NoSession => sessions'[d] = sessions[d]
    BY <1>1 DEF FenceInv, TypeOK
  <1>3. Shrinks
    BY <1>1, <1>2 DEF Shrinks, Entered
  <1>4. \A m \in removals : /\ m.thread = NoThread /\ m.node = c /\ sessions[c] # NoSession
                            /\ m.session = sessions[c].id
    BY DEF Removals, Message
  <1> HIDE DEF removals
  <1>5. KeepsWaiting
    BY <1>1, <1>4 DEF KeepsWaiting, FenceInv, AwaitInv, Awaited, Entered
  <1>6. sessions'[c] = NoSession
    BY <1>1 DEF FenceInv, TypeOK
  <1>7. ASSUME NEW m \in removals PROVE Fenced(m)'
    <2>1. m.session \in 1 .. started' /\ m.node = c
      BY <1>1, <1>4, <1>7 DEF FenceInv, SessionInv
    <2>2. \A t \in Threads : Entered(t)' /\ requests'[t].node = c => m.session <= requests'[t].session
      <3> SUFFICES ASSUME NEW t \in Threads, Entered(t), requests[t].node = c
                   PROVE  m.session <= requests[t].session
        BY <1>1 DEF Entered
      <3>1. m.session = requests[t].session /\ requests[t].session \in 1 .. started
        BY <1>4, <1>7 DEF FenceInv, RequestInv
      <3> QED BY <3>1 DEF FenceInv, TypeOK
    <2> QED BY <1>6, <2>1, <2>2 DEF Fenced, NotLater
  <1>8. NetInv'
    BY <1>1, <1>3, <1>7, ShrinkingKeepsFence DEF NetInv
  <1> QED BY <1>3, <1>5, <1>8, ShrinkingKeepsFence, WaitingIsKept DEF FenceInv

LEMMA RefreshKeepsFence ==
    ASSUME FenceInv, NEW c \in Initiators, NEW s \in Servers, RefreshDue(c, s)
    PROVE  FenceInv'
  <1>1. TypeOK'
    BY RefreshKeepsType DEF FenceInv
  <1>4. Shrinks
    BY RefreshKeepsIds DEF RefreshDue, Shrinks, Entered
  <1>5. KeepsWaiting
    BY DEF KeepsWaiting, RefreshDue, FenceInv, AwaitInv, Entered
  <1>6. \A m \in net' : Repeats(m)
    BY DEF Repeats, RefreshDue
  <1> QED BY <1>1, <1>4, <1>5, <1>6, QuietStepKeepsFence

\* One awaited message less, for its thread and for nobody else.
LEMMA AnswerKeepsOthersWaiting ==
    ASSUME FenceInv, NEW m \in net, Awaited(m), NEW q,
           requests' = [requests EXCEPT ![m.thread] = q],
           q.node = requests[m.thread].node, q.session = requests[m.thread].session,
           q.pc = requests[m.thread].pc, q.waiting = requests[m.thread].waiting \ {m.server},
           q # NoRequest,
           \A n \in net' : Awaited(n) => n \in net \ {m}
    PROVE  KeepsWaiting
  <1> SUFFICES ASSUME NEW n \in net', Awaited(n)
               PROVE  /\ n \in net /\ Entered(n.thread)'
                      /\ requests'[n.thread].node = requests[n.thread].node
                      /\ requests'[n.thread].session = requests[n.thread].session
                      /\ requests'[n.thread].pc = requests[n.thread].pc
                      /\ n.server \in requests'[n.thread].waiting
    BY DEF KeepsWaiting
  <1>1. n \in net /\ n # m /\ n.thread \in Threads /\ m.thread \in Threads
    BY DEF FenceInv, TypeOK, Messages, Awaited
  <1>2. Entered(n.thread) /\ n.server \in requests[n.thread].waiting
    BY <1>1 DEF FenceInv, AwaitInv
  <1>3. CASE n.thread = m.thread
    <2>1. n.server # m.server
      BY <1>1, <1>3 DEF FenceInv, UniqueInv
    <2> QED BY <1>1, <1>2, <1>3, <2>1 DEF FenceInv, TypeOK, Entered
  <1>4. CASE n.thread # m.thread
    BY <1>1, <1>2, <1>4 DEF FenceInv, TypeOK, Entered
  <1> QED BY <1>3, <1>4

LEMMA PushEndsKeepsFence ==
    ASSUME FenceInv, NEW m \in net, PushTimesOut(m) \/ PushFails(m)
    PROVE  FenceInv'
  <1> DEFINE q == [requests[m.thread] EXCEPT !.waiting = @ \ {m.server}]
  <1>1. TypeOK'
    BY PushEndsKeepsType DEF FenceInv
  <1>2. Awaited(m) /\ m.thread \in Threads /\ m \in Messages
    BY DEF Awaited, PushTimesOut, PushFails, FenceInv, TypeOK, Messages
  <1>3. requests[m.thread] \in Requests /\ Entered(m.thread)
    BY <1>2 DEF FenceInv, AwaitInv, Entered, TypeOK
  <1>4. requests' = [requests EXCEPT ![m.thread] = q]
    BY DEF PushTimesOut, PushFails
  <1>5. q \in Requests
    BY <1>3 DEF Requests
  <1>6. /\ q.node = requests[m.thread].node /\ q.session = requests[m.thread].session
        /\ q.pc = requests[m.thread].pc /\ q.waiting = requests[m.thread].waiting \ {m.server}
        /\ q # NoRequest
    BY <1>3, <1>5, RecordsAssumption DEF Requests
  <1> HIDE DEF q
  <1>7. \A n \in net' : Awaited(n) => n \in net \ {m}
    <2>1. ~Awaited([m EXCEPT !.thread = NoThread])
      BY <1>2 DEF Awaited, Messages
    <2> QED BY <2>1 DEF PushTimesOut, PushFails
  <1>8. KeepsWaiting
    BY <1>2, <1>4, <1>6, <1>7, AnswerKeepsOthersWaiting
  <1>9. Shrinks
    BY <1>2, <1>3, <1>4, <1>6 DEF Shrinks, Entered, PushTimesOut, PushFails, FenceInv, TypeOK
  <1>10. \A n \in net' : Repeats(n)
    <2>1. Repeats([m EXCEPT !.thread = NoThread])
      BY <1>2 DEF Repeats, Messages
    <2> QED BY <2>1 DEF Repeats, PushTimesOut, PushFails
  <1> QED BY <1>1, <1>8, <1>9, <1>10, QuietStepKeepsFence

LEMMA RestartKeepsFence ==
    ASSUME FenceInv, CoordinatorRestarts
    PROVE  FenceInv'
  <1>1. TypeOK'
    BY RestartKeepsType DEF FenceInv
  <1>2. Shrinks
    BY DEF CoordinatorRestarts, Shrinks, Entered
  <1>3. \A m \in net : m \in Messages
    BY DEF FenceInv, TypeOK
  <1>4. KeepsWaiting
    BY <1>3 DEF KeepsWaiting, CoordinatorRestarts, Awaited, Messages
  <1>5. \A m \in net' : Repeats(m)
    BY <1>3 DEF Repeats, CoordinatorRestarts, Messages
  <1> QED BY <1>1, <1>2, <1>4, <1>5, QuietStepKeepsFence

LEMMA NodesKeepFence ==
    ASSUME FenceInv, NEW c \in Nodes,
           \/ GivesUp(c) \/ Leaves(c) \/ Returns(c) \/ Roams(c)
           \/ \E s \in Servers, d \in Initiators : AgentForgets(s, d)
    PROVE  FenceInv'
  <1>1. TypeOK'
    BY NodesKeepType DEF FenceInv
  <1>2. \A t \in Threads : /\ Entered(t)' <=> Entered(t)
                           /\ Entered(t) => /\ requests'[t].node = requests[t].node
                                            /\ requests'[t].session = requests[t].session
                                            /\ requests'[t].pc = requests[t].pc
                                            /\ requests'[t].waiting = requests[t].waiting
    <2>1. CASE requests' = requests
      BY <2>1 DEF Entered
    <2>2. CASE requests' = Abandoned(c)
      <3> SUFFICES ASSUME NEW t \in Threads
                   PROVE  /\ Entered(t)' <=> Entered(t)
                          /\ Entered(t) => /\ requests'[t].node = requests[t].node
                                           /\ requests'[t].session = requests[t].session
                                           /\ requests'[t].pc = requests[t].pc
                                           /\ requests'[t].waiting = requests[t].waiting
        OBVIOUS
      <3>1. CASE requests'[t] = requests[t]
        BY <3>1 DEF Entered
      <3>2. CASE requests'[t] # requests[t]
        <4>1. requests[t] \in Requests /\ requests'[t] = [requests[t] EXCEPT !.awaited = FALSE]
          BY <2>2, <3>2 DEF Abandoned, FenceInv, TypeOK
        <4>2. [requests[t] EXCEPT !.awaited = FALSE] \in Requests
          BY <4>1 DEF Requests
        <4> QED BY <4>1, <4>2, RecordsAssumption DEF Entered, Requests
      <3> QED BY <3>1, <3>2
    <2> QED BY <2>1, <2>2 DEF GivesUp, Leaves, Returns, Roams, AgentForgets
  <1>3. UNCHANGED <<sessions, started, coordinateLock, net>>
    BY DEF GivesUp, Leaves, Returns, Roams, AgentForgets
  <1>4. \A d \in Servers, e \in Initiators : held'[d][e] # NoSession => held'[d][e] = held[d][e]
    BY DEF GivesUp, Leaves, Returns, Roams, AgentForgets, FenceInv, TypeOK
  <1>5. Shrinks
    BY <1>2, <1>3, <1>4 DEF Shrinks
  <1>6. \A m \in net : Awaited(m) => m.thread \in Threads
    BY DEF FenceInv, TypeOK, Messages, Awaited
  <1>7. KeepsWaiting
    BY <1>2, <1>3, <1>6 DEF KeepsWaiting, FenceInv, AwaitInv
  <1>8. \A m \in net' : Repeats(m)
    BY <1>3 DEF Repeats
  <1> QED BY <1>1, <1>5, <1>7, <1>8, QuietStepKeepsFence

LEMMA DropsKeepFence ==
    ASSUME FenceInv, Drops
    PROVE  FenceInv'
  <1>1. TypeOK'
    BY DropsKeepType DEF FenceInv
  <1>2. UNCHANGED <<sessions, started, requests, coordinateLock, net, held>>
    BY DEF Drops, ReapEmpty, AnnouncementExpires
  <1> QED BY <1>1, <1>2 DEF FenceInv, LockInv, AwaitInv, UniqueInv, SessionInv, RequestInv,
                            NetInv, HeldInv, Entered, Fenced, NotLater

\* What an agent holds after m, for the peer m is about: as before, nothing, or
\* m's session; for others as before.
LEMMA DeliverHolds ==
    ASSUME FenceInv, NEW m \in net, Deliver(m)
    PROVE  /\ m \in Messages
           /\ \A s \in Servers, c \in Initiators :
                  <<s, c>> # <<m.server, m.node>> => held'[s][c] = held[s][c]
           /\ \/ held' = held
              \/ /\ m.kind = "offer" /\ held'[m.server][m.node] # NoSession
                 /\ held'[m.server][m.node].session = m.session
                 /\ held[m.server][m.node] # NoSession =>
                        held[m.server][m.node].session <= m.session
              \/ /\ m.kind # "offer" /\ held'[m.server][m.node] = NoSession
                 /\ held[m.server][m.node] # NoSession
                 /\ held[m.server][m.node].session = m.session
  <1> DEFINE old == held[m.server][m.node]
  <1>1. m \in Messages /\ m.server \in Servers /\ m.node \in Initiators
    BY DEF FenceInv, TypeOK, Messages
  <1>2. PICK h \in IF m.kind = "offer" THEN {AfterOffer(old, m)} ELSE AfterRemove(old, m) :
           held' = [held EXCEPT ![m.server][m.node] = h]
    BY DEF Deliver
  <1>3. /\ held \in [Servers -> [Initiators -> Holdings \cup {NoSession}]]
        /\ held'[m.server][m.node] = h
        /\ \A s \in Servers, c \in Initiators :
                  <<s, c>> # <<m.server, m.node>> => held'[s][c] = held[s][c]
    BY <1>1, <1>2 DEF FenceInv, TypeOK
  <1>4. h = old => held' = held
    BY <1>1, <1>2, <1>3
  <1>5. CASE m.kind = "offer"
    <2>1. CASE Accepts(old, m)
      <3>1. h = [session |-> m.session, candidates |-> m.candidates] /\ m.candidates \in Candidates
            /\ m.session \in Nat
        BY <1>1, <1>2, <1>5, <2>1 DEF AfterOffer, Messages
      <3>2. h \in Holdings /\ h.session = m.session
        BY <3>1 DEF Holdings
      <3> QED BY <1>1, <1>3, <1>5, <2>1, <3>2, RecordsAssumption DEF Accepts
    <2>2. CASE ~Accepts(old, m)
      BY <1>1, <1>2, <1>3, <1>4, <1>5, <2>2 DEF AfterOffer
    <2> QED BY <2>1, <2>2
  <1>6. CASE m.kind # "offer"
    BY <1>1, <1>2, <1>3, <1>4, <1>6 DEF AfterRemove
  <1> QED BY <1>5, <1>6

LEMMA DeliverKeepsFence ==
    ASSUME FenceInv, NEW m \in net, Deliver(m)
    PROVE  FenceInv'
  <1>1. TypeOK'
    BY DeliverKeepsType DEF FenceInv
  <1>2. UNCHANGED <<sessions, started, coordinateLock>> /\ net' = net \ {m}
    BY DEF Deliver
  <1>3. m \in Messages /\ m.node \in Initiators
    BY DeliverHolds DEF Messages
  <1>4. /\ KeepsWaiting
        /\ \A t \in Threads : /\ Entered(t)' <=> Entered(t)
                              /\ Entered(t) => /\ requests'[t].node = requests[t].node
                                               /\ requests'[t].session = requests[t].session
    <2>1. CASE m.thread = NoThread
      BY <2>1 DEF Deliver, KeepsWaiting, FenceInv, AwaitInv, Entered, Awaited
    <2>2. CASE m.thread # NoThread
      <3> DEFINE q == Answered(requests[m.thread], m)
      <3>1. requests[m.thread] \in Requests /\ m.thread \in Threads
        BY <1>3, <2>2 DEF FenceInv, AwaitInv, Awaited, Entered, TypeOK, Messages
      <3>2. q \in Requests
        BY <1>3, <3>1, AnsweredType DEF FenceInv
      <3>3. requests' = [requests EXCEPT ![m.thread] = q]
        BY <2>2 DEF Deliver
      <3>4. /\ q.node = requests[m.thread].node /\ q.session = requests[m.thread].session
            /\ q.pc = requests[m.thread].pc /\ q.waiting = requests[m.thread].waiting \ {m.server}
            /\ q # NoRequest /\ requests[m.thread] # NoRequest
        BY <3>1, <3>2, RecordsAssumption DEF Answered, Requests
      <3> HIDE DEF q
      <3>5. KeepsWaiting
        BY <1>2, <2>2, <3>3, <3>4, AnswerKeepsOthersWaiting DEF Awaited
      <3> QED BY <3>1, <3>3, <3>4, <3>5 DEF FenceInv, TypeOK, Entered
    <2> QED BY <2>1, <2>2
  <1>5. \A t \in Threads : Entered(t) => requests[t].node \in Initiators
    BY DEF FenceInv, TypeOK, Entered, Requests
  <1>6. ASSUME NEW n, NEW c \in Initiators, NotLater(n, c) PROVE NotLater(n, c)'
    BY <1>2, <1>4, <1>6 DEF NotLater
  <1>7. LockInv' /\ SessionInv' /\ RequestInv'
    BY <1>2, <1>4, <1>5 DEF FenceInv, LockInv, SessionInv, RequestInv
  <1>8. NetInv'
    <2> SUFFICES ASSUME NEW n \in net PROVE Fenced(n)'
      BY <1>2 DEF NetInv
    <2>1. Fenced(n) /\ n.node \in Initiators
      BY DEF FenceInv, NetInv, TypeOK, Messages
    <2> QED BY <1>2, <1>6, <2>1 DEF Fenced
  <1>9. HeldInv'
    <2> SUFFICES ASSUME NEW s \in Servers, NEW c \in Initiators, held'[s][c] # NoSession
                 PROVE  NotLater(held[s][c].session, c)'
      BY DEF HeldInv
    <2>1. CASE held'[s][c] = held[s][c]
      <3>1. NotLater(held[s][c].session, c)
        BY <2>1 DEF FenceInv, HeldInv
      <3> QED BY <1>6, <2>1, <3>1 DEF NotLater
    <2>2. CASE held'[s][c] # held[s][c]
      <3>1. c = m.node /\ held'[s][c].session = m.session
        BY <2>2, DeliverHolds
      <3>2. NotLater(m.session, c)'
        BY <1>3, <1>6, <3>1 DEF FenceInv, NetInv, Fenced
      <3> QED BY <3>1, <3>2 DEF NotLater
    <2> QED BY <2>1, <2>2
  <1> QED BY <1>1, <1>4, <1>7, <1>8, <1>9, WaitingIsKept DEF FenceInv

LEMMA InitFence == Init => FenceInv
  <1> SUFFICES ASSUME Init PROVE FenceInv
    OBVIOUS
  <1>1. nodes \in [Nodes -> NodeStates]
    BY DEF Init, NodeStates
  <1>2. TypeOK
    BY <1>1 DEF Init, TypeOK, MaybeCandidates
  <1> QED
    BY <1>2 DEF Init, FenceInv, LockInv, AwaitInv, UniqueInv, SessionInv, RequestInv, NetInv,
                HeldInv, Entered

LEMMA NextFence == FenceInv /\ [Next]_vars => FenceInv'
  <1>1. ASSUME FenceInv, Next PROVE FenceInv'
    <2>1. ASSUME NEW t \in Threads,
                 (\E c \in Initiators : Begin(t, c)) \/ Enter(t) \/ Push(t) \/ Record(t)
          PROVE  FenceInv'
      BY <1>1, <2>1, BeginKeepsFence, EnterKeepsFence, PushKeepsFence, RecordKeepsFence
    <2>2. ASSUME NEW c \in Initiators, Disconnect(c) \/ Reap(c) \/ ReapBusy(c)
          PROVE  FenceInv'
      <3>1. TypeOK'
        BY <1>1, <2>2, ClosingKeepsType DEF FenceInv
      <3> QED BY <1>1, <2>2, <3>1, CloseKeepsFence DEF Disconnect, Reap, ReapBusy
    <2>3. ASSUME NEW c \in Initiators, NEW s \in Servers, RefreshDue(c, s) \/ AgentForgets(s, c)
          PROVE  FenceInv'
      BY <1>1, <2>3, RefreshKeepsFence, NodesKeepFence DEF Nodes
    <2>4. ASSUME NEW n \in Nodes, GivesUp(n) \/ Leaves(n) \/ Returns(n) \/ Roams(n)
          PROVE  FenceInv'
      BY <1>1, <2>4, NodesKeepFence
    <2>5. ASSUME NEW m \in net, Deliver(m) \/ PushTimesOut(m) \/ PushFails(m)
          PROVE  FenceInv'
      BY <1>1, <2>5, DeliverKeepsFence, PushEndsKeepsFence
    <2>6. ASSUME Drops PROVE FenceInv'
      BY <1>1, <2>6, DropsKeepFence
    <2> QED BY <1>1, <2>1, <2>2, <2>3, <2>4, <2>5, <2>6, RestartKeepsFence
        DEF Next, Drops, Nodes
  <1>2. ASSUME FenceInv, UNCHANGED vars PROVE FenceInv'
    BY <1>2 DEF vars, FenceInv, TypeOK, LockInv, AwaitInv, UniqueInv, SessionInv, RequestInv,
                NetInv, HeldInv, Entered, Fenced, NotLater
  <1> QED BY <1>1, <1>2

-----------------------------------------------------------------------------
(* Theorems *)

\* The variables have their types, through faults and restarts.
THEOREM CoordinatorTyped == Spec => []TypeOK
  <1>1. FenceInv => TypeOK
    BY DEF FenceInv
  <1> QED BY <1>1, InitFence, NextFence, PTL DEF Spec

\* coordinate_client never waits for an offer its server will take for stale:
\* only the holder of COORDINATE_LOCK pushes, for the latest session of its
\* node, and whatever else is on its way is of an earlier one.
THEOREM OffersAreNew == Spec => []AwaitedOffersAreNew
  <1>1. FenceInv => AwaitedOffersAreNew
    <2> SUFFICES ASSUME FenceInv, NEW m \in net, m.kind = "offer", m.thread # NoThread,
                        held[m.server][m.node] # NoSession
                 PROVE  held[m.server][m.node].session <= m.session
      BY DEF AwaitedOffersAreNew
    <2>1. m.server \in Servers /\ m.node \in Initiators /\ m.thread \in Threads
      BY DEF FenceInv, TypeOK, Messages
    <2>2. NotLater(held[m.server][m.node].session, m.node)
      BY <2>1 DEF FenceInv, HeldInv
    <2>3. /\ Entered(m.thread) /\ requests[m.thread].node = m.node
          /\ requests[m.thread].session = m.session
      BY DEF FenceInv, AwaitInv, Awaited
    <2> QED BY <2>1, <2>2, <2>3 DEF NotLater
  <1> QED BY <1>1, InitFence, NextFence, PTL DEF Spec

LEMMA RegistryInit == Init => Registry!Init
  BY DEF Init, Registry!Init, Live, Holds

\* Steps of which the registry sees nothing.
RegistryStutters == Live' = Live /\ started' = started /\ Holds' = Holds

LEMMA SameSessionsStutter ==
    ASSUME UNCHANGED <<started, held>>,
           \A c \in Initiators : sessions'[c] = sessions[c] \/
               (sessions[c] # NoSession /\ sessions'[c] # NoSession /\ sessions'[c].id = sessions[c].id)
    PROVE  RegistryStutters
  BY DEF RegistryStutters, Live, Holds

LEMMA EnterRefines ==
    ASSUME FenceInv, NEW t \in Threads, Enter(t)
    PROVE  Registry!Next \/ RegistryStutters
  <1> DEFINE c == requests[t].node
             new == IsNewSession(c, requests[t].instance)
  <1>1. c \in Initiators /\ started \in Nat
    BY DEF Enter, FenceInv, TypeOK, Requests
  <1>2. CASE new
    <2>1. started' = started + 1 /\ held' = held
          /\ sessions' = [sessions EXCEPT ![c] = Opened(c, requests[t].instance)]
      BY <1>2 DEF Enter
    <2>2. Opened(c, requests[t].instance) \in Sessions
      BY <1>1, PartTypes DEF Enter, FenceInv, TypeOK, Requests
    <2>3. Live' = [Live EXCEPT ![c] = started']
      BY <1>1, <2>1, <2>2, RecordsAssumption DEF Live, Opened, FenceInv, TypeOK
    <2>4. Registry!Open(c)
      BY <2>1, <2>3 DEF Registry!Open, Holds
    <2> QED BY <1>1, <2>4 DEF Registry!Next
  <1>3. CASE ~new
    BY <1>1, <1>3, SameSessionsStutter DEF Enter, FenceInv, TypeOK
  <1> QED BY <1>2, <1>3

LEMMA CloseRefines ==
    ASSUME FenceInv, NEW c \in Initiators, NEW reason, CloseSession(c, reason)
    PROVE  Registry!Next \/ RegistryStutters
  <1>1. sessions' = [sessions EXCEPT ![c] = NoSession] /\ UNCHANGED <<started, held>>
    BY DEF CloseSession
  <1>2. CASE sessions[c] = NoSession
    BY <1>1, <1>2, SameSessionsStutter DEF FenceInv, TypeOK
  <1>3. CASE sessions[c] # NoSession
    <2>1. Live' = [Live EXCEPT ![c] = 0] /\ Holds' = Holds
      BY <1>1 DEF Live, Holds, FenceInv, TypeOK
    <2>2. Live[c] # 0
      BY <1>3 DEF Live, FenceInv, TypeOK, SessionInv
    <2> QED BY <1>1, <2>1, <2>2 DEF Registry!Next, Registry!Close
  <1> QED BY <1>2, <1>3

\* One entry of a table of tables changes.
LEMMA EntryUpdated ==
    ASSUME NEW S, NEW f \in [Servers -> [Initiators -> S]], NEW g \in [Servers -> [Initiators -> S]],
           NEW s \in Servers, NEW c \in Initiators,
           \A a \in Servers, b \in Initiators : <<a, b>> # <<s, c>> => g[a][b] = f[a][b]
    PROVE  g = [f EXCEPT ![s][c] = g[s][c]]
  <1>1. \A a \in Servers : a # s => g[a] = f[a]
    OBVIOUS
  <1>2. g[s] = [f[s] EXCEPT ![c] = g[s][c]]
    OBVIOUS
  <1> QED BY <1>1, <1>2

LEMMA HoldsTyped ==
    ASSUME TypeOK
    PROVE  /\ Holds \in [Servers -> [Initiators -> Nat]]
           /\ \A s \in Servers, c \in Initiators :
                  Holds[s][c] = IF held[s][c] = NoSession THEN 0 ELSE held[s][c].session
  BY DEF TypeOK, Holds, Holdings

LEMMA DeliverUpdatesHolds ==
    ASSUME FenceInv, NEW m \in net, Deliver(m)
    PROVE  Holds' = [Holds EXCEPT ![m.server][m.node] = Holds'[m.server][m.node]]
  <1>1. TypeOK /\ TypeOK'
    BY DeliverKeepsType DEF FenceInv
  <1>2. Holds \in [Servers -> [Initiators -> Nat]] /\ Holds' \in [Servers -> [Initiators -> Nat]]
    BY <1>1, HoldsTyped DEF Holds, TypeOK, Holdings
  <1>3. m.server \in Servers /\ m.node \in Initiators
    BY <1>1 DEF TypeOK, Messages
  <1>4. \A s \in Servers, c \in Initiators :
            <<s, c>> # <<m.server, m.node>> => Holds'[s][c] = Holds[s][c]
    BY DeliverHolds DEF Holds
  <1> DEFINE after == Holds'
             a == m.server
             b == m.node
  <1>5. /\ after \in [Servers -> [Initiators -> Nat]]
        /\ \A s \in Servers, c \in Initiators : <<s, c>> # <<a, b>> => after[s][c] = Holds[s][c]
    BY <1>2, <1>4
  <1>6. a \in Servers /\ b \in Initiators
    BY <1>3
  <1> HIDE DEF after, a, b
  <1>7. after = [Holds EXCEPT ![a][b] = after[a][b]]
    BY <1>2, <1>5, <1>6, EntryUpdated
  <1> QED BY <1>7 DEF after, a, b

LEMMA DeliverRefines ==
    ASSUME FenceInv, NEW m \in net, Deliver(m)
    PROVE  Registry!Next \/ RegistryStutters
  <1> DEFINE s == m.server
             c == m.node
  <1>1. s \in Servers /\ c \in Initiators /\ m.session \in 1 .. started
    BY DEF FenceInv, TypeOK, Messages, NetInv, Fenced, NotLater
  <1>2. UNCHANGED <<sessions, started>> /\ Live' = Live
    BY DEF Deliver, Live
  <1>3. CASE held' = held
    BY <1>2, <1>3, SameSessionsStutter
  <1>4. CASE /\ m.kind = "offer" /\ held'[s][c] # NoSession /\ held'[s][c].session = m.session
             /\ held[s][c] # NoSession => held[s][c].session <= m.session
    <2>1. Holds' = [Holds EXCEPT ![s][c] = m.session]
      <3>1. Holds'[s][c] = m.session
        BY <1>1, <1>4 DEF Holds
      <3> QED BY <3>1, DeliverUpdatesHolds
    <2>2. CASE Holds[s][c] = m.session
      <3>1. Holds' = Holds
        <4>1. Holds \in [Servers -> [Initiators -> Nat]]
          BY HoldsTyped DEF FenceInv
        <4>2. Holds = [Holds EXCEPT ![s][c] = Holds[s][c]]
          BY <1>1, <4>1, EntryUpdated
        <4> QED BY <2>1, <2>2, <4>2
      <3> QED BY <1>2, <3>1 DEF RegistryStutters
    <2>3. CASE Holds[s][c] # m.session
      <3>1. m.session \in Holds[s][c] + 1 .. started
        <4>1. Holds[s][c] \in Nat /\ m.session \in 1 .. started /\ started \in Nat
          BY <1>1, HoldsTyped DEF FenceInv, TypeOK
        <4>2. Holds[s][c] <= m.session
          BY <1>1, <1>4, <4>1, HoldsTyped DEF FenceInv
        <4> QED BY <2>3, <4>1, <4>2
      <3>2. Registry!MoveOn(s, c)
        BY <1>2, <2>1, <3>1 DEF Registry!MoveOn
      <3> QED BY <1>1, <3>2 DEF Registry!Next
    <2> QED BY <2>2, <2>3
  <1>5. CASE /\ m.kind # "offer" /\ held'[s][c] = NoSession
             /\ held[s][c] # NoSession /\ held[s][c].session = m.session
    <2>1. Holds' = [Holds EXCEPT ![s][c] = 0]
      <3>1. Holds'[s][c] = 0
        BY <1>1, <1>5 DEF Holds
      <3> QED BY <3>1, DeliverUpdatesHolds
    <2>2. Holds[s][c] # Live[c]
      BY <1>1, <1>5 DEF Holds, Live, FenceInv, NetInv, Fenced
    <2>3. Registry!LetGo(s, c)
      BY <1>2, <2>1, <2>2 DEF Registry!LetGo
    <2> QED BY <1>1, <2>3 DEF Registry!Next
  <1> QED BY <1>3, <1>4, <1>5, DeliverHolds

LEMMA ForgetRefines ==
    ASSUME FenceInv, NEW s \in Servers, NEW c \in Initiators, AgentForgets(s, c)
    PROVE  Registry!Next
  <1>1. Live' = Live /\ started' = started /\ AgentsForget
    BY DEF AgentForgets, Live
  <1>2. Holds' = [Holds EXCEPT ![s][c] = 0]
    BY DEF AgentForgets, Holds, FenceInv, TypeOK
  <1>3. Registry!LetGo(s, c)
    BY <1>1, <1>2 DEF Registry!LetGo
  <1> QED BY <1>3 DEF Registry!Next

LEMMA RestartRefines ==
    ASSUME CoordinatorRestarts
    PROVE  Registry!Next
  BY DEF CoordinatorRestarts, Registry!Next, Registry!CloseAll, Live, Holds

LEMMA NextRefines == FenceInv /\ [Next]_vars => [Registry!Next]_Registry!vars
  <1> SUFFICES ASSUME FenceInv, [Next]_vars PROVE Registry!Next \/ RegistryStutters
    BY DEF RegistryStutters, Registry!vars
  <1>1. CASE UNCHANGED vars
    BY <1>1, SameSessionsStutter DEF vars
  <1>2. CASE Next
    <2>1. ASSUME NEW t \in Threads, NEW c \in Initiators, Begin(t, c)
          PROVE  RegistryStutters
      BY <2>1, SameSessionsStutter DEF Begin
    <2>2. ASSUME NEW t \in Threads, Push(t) PROVE RegistryStutters
      BY <2>2, SameSessionsStutter DEF Push
    <2>3. ASSUME NEW t \in Threads, Record(t) PROVE RegistryStutters
      BY <2>3, RecordKeepsIds, SameSessionsStutter DEF Record
    <2>4. ASSUME NEW c \in Initiators, Disconnect(c) \/ Reap(c) \/ ReapBusy(c)
          PROVE  Registry!Next \/ RegistryStutters
      BY <2>4, CloseRefines DEF Disconnect, Reap, ReapBusy
    <2>5. ASSUME NEW n \in Nodes, GivesUp(n) \/ Leaves(n) \/ Returns(n) \/ Roams(n)
          PROVE  RegistryStutters
      <3>1. UNCHANGED <<sessions, started, held>>
        BY <2>5 DEF GivesUp, Leaves, Returns, Roams
      <3> QED BY <3>1, SameSessionsStutter
    <2>6. ASSUME NEW c \in Initiators, NEW s \in Servers, RefreshDue(c, s)
          PROVE  RegistryStutters
      BY <2>6, RefreshKeepsIds, SameSessionsStutter DEF RefreshDue
    <2>7. ASSUME NEW m \in net, PushTimesOut(m) \/ PushFails(m)
          PROVE  RegistryStutters
      BY <2>7, SameSessionsStutter DEF PushTimesOut, PushFails
    <2>8. ASSUME Drops PROVE RegistryStutters
      BY <2>8, SameSessionsStutter DEF Drops, ReapEmpty, AnnouncementExpires
    <2> QED
      BY <1>2, <2>1, <2>2, <2>3, <2>4, <2>5, <2>6, <2>7, <2>8, EnterRefines, DeliverRefines,
         ForgetRefines, RestartRefines DEF Next, Drops, Nodes
  <1> QED BY <1>1, <1>2

\* The Coordinator and the agents together implement the registry: whatever is
\* delayed, lost, reaped or restarted, a server never returns to an earlier
\* session and never drops a live one at the Coordinator's word.
THEOREM RegistryImplemented == Spec => ImplementsRegistry
  BY RegistryInit, InitFence, NextFence, NextRefines, PTL DEF Spec, ImplementsRegistry, Registry!Spec

-----------------------------------------------------------------------------
(* Acknowledgements.  A server that acknowledged the offer of a live session *)
(* has that session, and its candidates are known.                           *)

Holding(s, c, n) == held[s][c] # NoSession /\ held[s][c].session = n

\* The servers in answers have the session their thread pushes, while it is
\* live: Record will count them as acknowledgements.
AnswerInv ==
    \A t \in Threads, s \in Servers :
        requests[t] # NoRequest /\ requests[t].answers[s] # NoCandidates =>
            /\ requests[t].pc = "pushing"
            /\ sessions[requests[t].node] # NoSession
                   => Holding(s, requests[t].node, requests[t].session)

AckInv == AckedIsHeld /\ (~AgentsForget => AnswerInv)

LEMMA InitAck == Init => AckInv
  BY DEF Init, AckInv, AckedIsHeld, AnswerInv

-----------------------------------------------------------------------------
(* What a step may do to acknowledgements, answers and holdings *)

\* An agent does not leave the live session.
HoldsLive ==
    \A s \in Servers, c \in Initiators :
        sessions[c] # NoSession /\ Holding(s, c, sessions[c].id) =>
            held'[s][c] # NoSession /\ held'[s][c].session = sessions[c].id

\* An acknowledgement was there before, or the server has the session.
AcksFounded ==
    \A c \in Initiators, s \in Servers :
        sessions'[c] # NoSession /\ sessions'[c].acked[s] # NoCandidates =>
            \/ /\ sessions[c] # NoSession /\ sessions'[c].id = sessions[c].id
               /\ sessions[c].acked[s] # NoCandidates
            \/ held'[s][c] # NoSession /\ held'[s][c].session = sessions'[c].id

\* So was an answer, unless the server has the session now.
AnswersFounded ==
    \A t \in Threads, s \in Servers :
        requests'[t] # NoRequest /\ requests'[t].answers[s] # NoCandidates =>
            /\ requests[t] # NoRequest
            /\ requests'[t].node = requests[t].node /\ requests'[t].session = requests[t].session
            /\ requests[t].pc = "pushing" => requests'[t].pc = "pushing"
            /\ sessions'[requests[t].node] # NoSession => sessions[requests[t].node] # NoSession
            /\ \/ requests[t].answers[s] # NoCandidates
               \/ /\ requests[t].pc = "pushing"
                  /\ held'[s][requests[t].node] # NoSession
                  /\ held'[s][requests[t].node].session = requests[t].session

LEMMA FoundedStepKeepsAcks ==
    ASSUME FenceInv, AckInv, ~AgentsForget => HoldsLive /\ AcksFounded /\ AnswersFounded
    PROVE  AckInv'
  <1> SUFFICES ASSUME ~AgentsForget PROVE AckInv'
    BY DEF AckInv, AckedIsHeld
  <1>1. AckedIsHeld'
    <2> SUFFICES ASSUME NEW c \in Initiators, NEW s \in Servers,
                        sessions'[c] # NoSession, sessions'[c].acked[s] # NoCandidates
                 PROVE  held'[s][c] # NoSession /\ held'[s][c].session = sessions'[c].id
      BY DEF AckedIsHeld
    <2>1. CASE /\ sessions[c] # NoSession /\ sessions'[c].id = sessions[c].id
               /\ sessions[c].acked[s] # NoCandidates
      BY <2>1 DEF AckInv, AckedIsHeld, HoldsLive, Holding
    <2> QED BY <2>1 DEF AcksFounded
  <1>2. AnswerInv'
    <2> SUFFICES ASSUME NEW t \in Threads, NEW s \in Servers,
                        requests'[t] # NoRequest, requests'[t].answers[s] # NoCandidates
                 PROVE  /\ requests'[t].pc = "pushing"
                        /\ sessions'[requests'[t].node] # NoSession =>
                               /\ held'[s][requests'[t].node] # NoSession
                               /\ held'[s][requests'[t].node].session = requests'[t].session
      BY DEF AnswerInv, Holding
    <2> DEFINE c == requests[t].node
    <2>1. /\ requests[t] # NoRequest /\ requests'[t].node = c
          /\ requests'[t].session = requests[t].session
          /\ requests[t].pc = "pushing" => requests'[t].pc = "pushing"
          /\ sessions'[c] # NoSession => sessions[c] # NoSession
      BY DEF AnswersFounded
    <2>2. CASE requests[t].answers[s] # NoCandidates
      <3>1. /\ requests[t].pc = "pushing"
            /\ sessions[c] # NoSession => Holding(s, c, requests[t].session)
        BY <2>1, <2>2 DEF AckInv, AnswerInv
      <3>2. c \in Initiators
        BY <2>1 DEF FenceInv, TypeOK, Requests
      <3>3. sessions[c] # NoSession => sessions[c].id = requests[t].session
        BY <2>1, <3>1 DEF FenceInv, RequestInv, Entered
      <3>4. sessions[c] # NoSession =>
                held'[s][c] # NoSession /\ held'[s][c].session = requests[t].session
        BY <3>1, <3>2, <3>3 DEF HoldsLive
      <3> QED BY <2>1, <3>1, <3>4
    <2>3. CASE requests[t].answers[s] = NoCandidates
      BY <2>1, <2>3 DEF AnswersFounded
    <2> QED BY <2>2, <2>3
  <1> QED BY <1>1, <1>2 DEF AckInv

LEMMA SameHeldHoldsLive ==
    ASSUME held' = held
    PROVE  HoldsLive
  BY DEF HoldsLive, Holding

LEMMA SameSessionsFounded ==
    ASSUME sessions' = sessions
    PROVE  AcksFounded
  BY DEF AcksFounded

\* A session that is closed takes its acknowledgements with it.
LEMMA FewerSessionsFounded ==
    ASSUME \A c \in Initiators : sessions'[c] \in {sessions[c], NoSession}
    PROVE  AcksFounded
  BY DEF AcksFounded

LEMMA SameRequestsFounded ==
    ASSUME TypeOK, requests' = requests,
           \A c \in Initiators : sessions'[c] # NoSession => sessions[c] # NoSession
    PROVE  AnswersFounded
  BY DEF AnswersFounded, TypeOK, Requests

\* Requests change in what waiting for them means, not in what they found out.
LEMMA SameAnswersFounded ==
    ASSUME TypeOK,
           \A t \in Threads : requests'[t] # NoRequest =>
               /\ requests[t] # NoRequest
               /\ requests'[t].node = requests[t].node
               /\ requests'[t].session = requests[t].session
               /\ requests'[t].answers = requests[t].answers
               /\ requests'[t].pc = requests[t].pc,
           \A c \in Initiators : sessions'[c] # NoSession => sessions[c] # NoSession
    PROVE  AnswersFounded
  BY DEF AnswersFounded, TypeOK, Requests

-----------------------------------------------------------------------------
(* The actions *)

LEMMA BeginKeepsAcks ==
    ASSUME FenceInv, AckInv, NEW t \in Threads, NEW c \in Initiators, Begin(t, c)
    PROVE  AckInv'
  <1> DEFINE new == [node |-> c, instance |-> nodes[c].instance,
                     candidates |-> nodes[c].candidates, awaited |-> TRUE, pc |-> "queued",
                     session |-> 0, pending |-> {}, waiting |-> {}, answers |-> NoAnswers]
  <1>1. requests' = [requests EXCEPT ![t] = new] /\ UNCHANGED <<sessions, held>>
    BY DEF Begin
  <1>2. \A s \in Servers : new.answers[s] = NoCandidates
    BY DEF NoAnswers
  <1> HIDE DEF new
  <1>3. \A u \in Threads : requests'[u] = IF u = t THEN new ELSE requests[u]
    BY <1>1 DEF FenceInv, TypeOK
  <1>4. AnswersFounded
    BY <1>1, <1>2, <1>3 DEF AnswersFounded
  <1> QED BY <1>1, <1>4, SameHeldHoldsLive, SameSessionsFounded, FoundedStepKeepsAcks

LEMMA EnterKeepsAcks ==
    ASSUME FenceInv, AckInv, NEW t \in Threads, Enter(t)
    PROVE  AckInv'
  <1> DEFINE r == requests[t]
             c == r.node
             new == IsNewSession(c, r.instance)
             session == IF new THEN Opened(c, r.instance) ELSE sessions[c]
             removals == IF new THEN Removals(c, "superseded", t) ELSE {}
             pending == {s \in Targets(c) : session.acked[s] # r.candidates}
             waiting == {m.server : m \in removals}
             id == session.id
             entered == [r EXCEPT !.pc = "removing", !.session = id, !.pending = pending,
                                  !.waiting = waiting]
  <1>1. /\ sessions' = [sessions EXCEPT ![c] = session] /\ held' = held
        /\ requests' = [requests EXCEPT ![t] = entered]
        /\ r # NoRequest /\ r.pc = "queued" /\ r \in Requests /\ c \in Initiators
    BY DEF Enter, FenceInv, TypeOK, Requests
  <1>2. \A u \in Threads : ~Entered(u)
    BY NullsAssumption DEF FenceInv, LockInv, Enter, AcquireLock
  <1>3. \A s \in Servers : new => session.acked[s] = NoCandidates
    BY DEF Opened, NoAnswers
  <1>4. ~new => session = sessions[c] /\ sessions[c] # NoSession
    BY DEF IsNewSession
  <1> HIDE DEF new, session, pending, waiting, id
  <1>5. AcksFounded
    BY <1>1, <1>3, <1>4 DEF AcksFounded, FenceInv, TypeOK
  <1>6. ~AgentsForget =>
           \A u \in Threads, s \in Servers : requests[u] # NoRequest => requests[u].answers[s] = NoCandidates
    BY <1>2 DEF AckInv, AnswerInv, Entered
  <1>7. entered.answers = r.answers
    BY <1>1 DEF Requests
  <1> HIDE DEF entered
  <1>8. ~AgentsForget => AnswersFounded
    BY <1>1, <1>6, <1>7 DEF AnswersFounded, FenceInv, TypeOK
  <1> QED BY <1>1, <1>5, <1>8, SameHeldHoldsLive, FoundedStepKeepsAcks

LEMMA PushKeepsAcks ==
    ASSUME FenceInv, AckInv, NEW t \in Threads, Push(t)
    PROVE  AckInv'
  <1> DEFINE r == requests[t]
             pending == r.pending
             pushing == [r EXCEPT !.pc = "pushing", !.waiting = pending]
  <1>1. /\ requests' = [requests EXCEPT ![t] = pushing] /\ UNCHANGED <<sessions, held>>
        /\ r # NoRequest /\ r \in Requests
    BY DEF Push, FenceInv, TypeOK
  <1> HIDE DEF pending
  <1>2. /\ pushing.answers = r.answers /\ pushing.node = r.node
        /\ pushing.session = r.session /\ pushing.pc = "pushing"
    BY <1>1 DEF Requests
  <1> HIDE DEF pushing
  <1>3. AnswersFounded
    BY <1>1, <1>2 DEF AnswersFounded, FenceInv, TypeOK
  <1> QED BY <1>1, <1>3, SameHeldHoldsLive, SameSessionsFounded, FoundedStepKeepsAcks

LEMMA RecordKeepsAcks ==
    ASSUME FenceInv, AckInv, NEW t \in Threads, Record(t)
    PROVE  AckInv'
  <1> DEFINE r == requests[t]
             c == r.node
             answered == {s \in r.pending : r.answers[s] # NoCandidates}
             acked == [s \in Servers |-> IF s \in answered THEN r.candidates
                                                           ELSE sessions[c].acked[s]]
  <1>1. /\ requests' = [requests EXCEPT ![t] = NoRequest] /\ held' = held
        /\ r # NoRequest /\ r \in Requests /\ c \in Initiators
    BY DEF Record, FenceInv, TypeOK, Requests
  <1>2. \A d \in Initiators : sessions'[d] # NoSession =>
            sessions[d] # NoSession /\ sessions'[d].id = sessions[d].id
    BY RecordKeepsIds
  <1>3. \A u \in Threads : requests'[u] # NoRequest => requests'[u] = requests[u]
    BY <1>1 DEF FenceInv, TypeOK
  <1>4. AnswersFounded
    <2>1. \A u \in Threads : requests[u] # NoRequest => requests[u].node \in Initiators
      BY DEF FenceInv, TypeOK, Requests
    <2> QED BY <1>2, <1>3, <2>1 DEF AnswersFounded
  <1>5. CASE sessions' = sessions
    BY <1>1, <1>4, <1>5, SameHeldHoldsLive, SameSessionsFounded, FoundedStepKeepsAcks
  <1>6. CASE sessions' # sessions
    <2>1. /\ sessions[c] # NoSession /\ sessions[c].id = r.session
          /\ sessions' = [sessions EXCEPT ![c].acked =
                 [s \in Servers |-> IF s \in answered THEN r.candidates ELSE @[s]]]
      BY <1>6 DEF Record
    <2>2. sessions[c] \in Sessions /\ [sessions[c] EXCEPT !.acked = acked].acked = acked
      BY <1>1, <2>1 DEF FenceInv, TypeOK, Sessions
    <2>3. /\ sessions'[c].acked = acked
          /\ \A d \in Initiators : d # c => sessions'[d] = sessions[d]
      BY <1>1, <2>1, <2>2 DEF FenceInv, TypeOK
    <2>4. ~AgentsForget => \A s \in answered \cap Servers : Holding(s, c, r.session)
      BY <1>1, <2>1 DEF AckInv, AnswerInv
    <2>5. ~AgentsForget => AcksFounded
      <3> SUFFICES ASSUME ~AgentsForget, NEW d \in Initiators, NEW s \in Servers,
                          sessions'[d] # NoSession, sessions'[d].acked[s] # NoCandidates
                   PROVE  \/ /\ sessions[d] # NoSession /\ sessions'[d].id = sessions[d].id
                             /\ sessions[d].acked[s] # NoCandidates
                          \/ held'[s][d] # NoSession /\ held'[s][d].session = sessions'[d].id
        BY DEF AcksFounded
      <3>1. CASE d # c
        BY <2>3, <3>1
      <3>2. CASE d = c /\ s \in answered
        BY <1>1, <1>2, <2>1, <2>4, <3>2 DEF Holding
      <3>3. CASE d = c /\ s \notin answered
        BY <1>2, <2>1, <2>3, <3>3
      <3> QED BY <3>1, <3>2, <3>3
    <2> QED BY <1>1, <1>4, <2>5, SameHeldHoldsLive, FoundedStepKeepsAcks
  <1> QED BY <1>5, <1>6

LEMMA CloseKeepsAcks ==
    ASSUME FenceInv, AckInv,
           \/ \E c \in Initiators : Disconnect(c) \/ Reap(c) \/ ReapBusy(c)
           \/ Drops
    PROVE  AckInv'
  <1>1. requests' = requests /\ held' = held
    BY DEF Disconnect, Reap, ReapBusy, CloseSession, Drops, ReapEmpty, AnnouncementExpires
  <1>2. \A d \in Initiators : sessions'[d] \in {sessions[d], NoSession}
    BY DEF Disconnect, Reap, ReapBusy, CloseSession, Drops, ReapEmpty, AnnouncementExpires,
           FenceInv, TypeOK
  <1>3. AnswersFounded
    BY <1>1, <1>2, SameRequestsFounded DEF FenceInv
  <1> QED BY <1>1, <1>2, <1>3, SameHeldHoldsLive, FewerSessionsFounded, FoundedStepKeepsAcks

LEMMA RefreshKeepsAcks ==
    ASSUME FenceInv, AckInv, NEW c \in Initiators, NEW s \in Servers, RefreshDue(c, s)
    PROVE  AckInv'
  <1> DEFINE acked == [sessions[c].acked EXCEPT ![s] = NoCandidates]
             refreshed == [sessions[c] EXCEPT !.acked = acked]
  <1>1. /\ requests' = requests /\ held' = held
        /\ sessions[c] # NoSession /\ sessions[c] \in Sessions
        /\ sessions' = [sessions EXCEPT ![c] = refreshed]
    BY DEF RefreshDue, FenceInv, TypeOK
  <1>2. /\ refreshed.id = sessions[c].id /\ refreshed.acked = acked
        /\ \A z \in Servers : acked[z] # NoCandidates => acked[z] = sessions[c].acked[z]
    BY <1>1 DEF Sessions
  <1> HIDE DEF acked, refreshed
  <1>3. AcksFounded
    BY <1>1, <1>2 DEF AcksFounded, FenceInv, TypeOK
  <1>4. \A d \in Initiators : sessions'[d] # NoSession => sessions[d] # NoSession
    BY <1>1 DEF FenceInv, TypeOK
  <1>5. AnswersFounded
    BY <1>1, <1>4, SameRequestsFounded DEF FenceInv
  <1> QED BY <1>1, <1>3, <1>5, SameHeldHoldsLive, FoundedStepKeepsAcks

LEMMA PushEndsKeepsAcks ==
    ASSUME FenceInv, AckInv, NEW m \in net, PushTimesOut(m) \/ PushFails(m)
    PROVE  AckInv'
  <1> DEFINE t == m.thread
             r == requests[t]
             waiting == r.waiting \ {m.server}
             after == [r EXCEPT !.waiting = waiting]
  <1>1. t \in Threads /\ r # NoRequest /\ r \in Requests
    BY DEF PushTimesOut, PushFails, FenceInv, AwaitInv, Awaited, Entered, TypeOK, Messages
  <1>2. requests' = [requests EXCEPT ![t] = after] /\ UNCHANGED <<sessions, held>>
    BY <1>1 DEF PushTimesOut, PushFails, FenceInv, TypeOK
  <1> HIDE DEF waiting
  <1>3. /\ after.answers = r.answers /\ after.node = r.node
        /\ after.session = r.session /\ after.pc = r.pc
    BY <1>1 DEF Requests
  <1> HIDE DEF after
  <1>4. AnswersFounded
    BY <1>1, <1>2, <1>3, SameAnswersFounded DEF FenceInv, TypeOK
  <1> QED BY <1>2, <1>4, SameHeldHoldsLive, SameSessionsFounded, FoundedStepKeepsAcks

LEMMA RestartKeepsAcks ==
    ASSUME CoordinatorRestarts
    PROVE  AckInv'
  BY DEF CoordinatorRestarts, AckInv, AckedIsHeld, AnswerInv

LEMMA NodesKeepAcks ==
    ASSUME FenceInv, AckInv, NEW c \in Nodes,
           \/ GivesUp(c) \/ Leaves(c) \/ Returns(c) \/ Roams(c)
           \/ \E s \in Servers, d \in Initiators : AgentForgets(s, d)
    PROVE  AckInv'
  <1>1. sessions' = sessions /\ (~AgentsForget => held' = held)
        /\ (requests' = requests \/ requests' = Abandoned(c))
    BY DEF GivesUp, Leaves, Returns, Roams, AgentForgets
  <1>2. AcksFounded /\ (~AgentsForget => HoldsLive)
    BY <1>1, SameSessionsFounded, SameHeldHoldsLive
  <1>3. CASE requests' = requests
    BY <1>1, <1>2, <1>3, SameRequestsFounded, FoundedStepKeepsAcks DEF FenceInv
  <1>4. CASE requests' = Abandoned(c)
    <2>1. \A t \in Threads : requests'[t] # NoRequest =>
              /\ requests[t] # NoRequest
              /\ requests'[t].node = requests[t].node
              /\ requests'[t].session = requests[t].session
              /\ requests'[t].answers = requests[t].answers
              /\ requests'[t].pc = requests[t].pc
      <3> SUFFICES ASSUME NEW t \in Threads, requests'[t] # NoRequest
                   PROVE  /\ requests[t] # NoRequest
                          /\ requests'[t].node = requests[t].node
                          /\ requests'[t].session = requests[t].session
                          /\ requests'[t].answers = requests[t].answers
                          /\ requests'[t].pc = requests[t].pc
        OBVIOUS
      <3>1. CASE requests'[t] = requests[t]
        BY <3>1
      <3>2. CASE requests'[t] # requests[t]
        <4>1. requests[t] # NoRequest /\ requests[t] \in Requests
              /\ requests'[t] = [requests[t] EXCEPT !.awaited = FALSE]
          BY <1>4, <3>2 DEF Abandoned, FenceInv, TypeOK
        <4> QED BY <4>1 DEF Requests
      <3> QED BY <3>1, <3>2
    <2>2. AnswersFounded
      BY <1>1, <2>1, SameAnswersFounded DEF FenceInv
    <2> QED BY <1>2, <2>2, FoundedStepKeepsAcks
  <1> QED BY <1>1, <1>3, <1>4

-----------------------------------------------------------------------------
(* Deliver *)

\* An offer that is waited for is accepted.
LEMMA AwaitedOfferIsTaken ==
    ASSUME FenceInv, NEW m \in net, Deliver(m), m.kind = "offer", Awaited(m)
    PROVE  held'[m.server][m.node] # NoSession /\ held'[m.server][m.node].session = m.session
  <1> DEFINE old == held[m.server][m.node]
             new == [session |-> m.session, candidates |-> m.candidates]
  <1>1. /\ m \in Messages /\ m.server \in Servers /\ m.node \in Initiators
        /\ m.thread \in Threads /\ m.candidates \in Candidates /\ m.session \in Nat
    BY DEF FenceInv, TypeOK, Messages, Awaited
  <1>2. old # NoSession => old.session <= m.session
    BY <1>1 DEF FenceInv, AwaitInv, HeldInv, NotLater
  <1>3. held' = [held EXCEPT ![m.server][m.node] = new]
    BY <1>2 DEF Deliver, AfterOffer, Accepts
  <1>4. new \in Holdings
    BY <1>1 DEF Holdings
  <1>5. held'[m.server][m.node] = new
    BY <1>1, <1>3 DEF FenceInv, TypeOK
  <1> QED BY <1>4, <1>5, RecordsAssumption

LEMMA DeliverHoldsLive ==
    ASSUME FenceInv, NEW m \in net, Deliver(m)
    PROVE  HoldsLive
  <1> SUFFICES ASSUME NEW s \in Servers, NEW c \in Initiators,
                      sessions[c] # NoSession, Holding(s, c, sessions[c].id)
               PROVE  held'[s][c] # NoSession /\ held'[s][c].session = sessions[c].id
    BY DEF HoldsLive
  <1>1. CASE <<s, c>> # <<m.server, m.node>> \/ held' = held
    BY <1>1, DeliverHolds DEF Holding
  <1>2. CASE <<s, c>> = <<m.server, m.node>> /\ held' # held
    <2>1. s = m.server /\ c = m.node
      BY <1>2
    <2>2. /\ m.session \in Nat /\ sessions[c].id \in Nat /\ m.session <= sessions[c].id
          /\ m.kind # "offer" => m.session # sessions[c].id
      BY <2>1 DEF FenceInv, NetInv, Fenced, NotLater, SessionInv, TypeOK
    <2> QED BY <1>2, <2>1, <2>2, DeliverHolds DEF Holding
  <1> QED BY <1>1, <1>2

LEMMA DeliverAnswersFounded ==
    ASSUME FenceInv, NEW m \in net, Deliver(m)
    PROVE  AnswersFounded
  <1>1. UNCHANGED sessions
    BY DEF Deliver
  <1>2. CASE m.thread = NoThread
    BY <1>1, <1>2, SameRequestsFounded DEF Deliver, FenceInv
  <1>3. CASE m.thread # NoThread
    <2> DEFINE t == m.thread
               r == requests[t]
               answers == IF m.kind = "offer"
                          THEN [r.answers EXCEPT ![m.server] = nodes[m.server].candidates]
                          ELSE r.answers
               after == Answered(r, m)
    <2>1. /\ t \in Threads /\ r # NoRequest /\ r \in Requests /\ Awaited(m)
          /\ requests' = [requests EXCEPT ![t] = after]
      BY <1>3 DEF Deliver, FenceInv, AwaitInv, Awaited, Entered, TypeOK, Messages
    <2>2. after = [r EXCEPT !.waiting = @ \ {m.server}, !.answers = answers]
      BY DEF Answered
    <2>3. \A z \in Servers : answers[z] = r.answers[z] \/ (m.kind = "offer" /\ z = m.server)
      BY <2>1 DEF Requests
    <2> HIDE DEF answers
    <2>4. /\ after.answers = answers /\ after.node = r.node
          /\ after.session = r.session /\ after.pc = r.pc
      BY <2>1, <2>2 DEF Requests
    <2>5. m.kind = "offer" =>
              /\ r.pc = "pushing" /\ r.node = m.node /\ r.session = m.session
              /\ held'[m.server][m.node] # NoSession
              /\ held'[m.server][m.node].session = m.session
      BY <2>1, AwaitedOfferIsTaken DEF FenceInv, AwaitInv
    <2>6. \A u \in Threads : requests'[u] = IF u = t THEN after ELSE requests[u]
      BY <2>1 DEF FenceInv, TypeOK
    <2> HIDE DEF after, r, t
    <2> SUFFICES ASSUME NEW u \in Threads, NEW z \in Servers,
                        requests'[u] # NoRequest, requests'[u].answers[z] # NoCandidates
                 PROVE  /\ requests[u] # NoRequest
                        /\ requests'[u].node = requests[u].node
                        /\ requests'[u].session = requests[u].session
                        /\ requests[u].pc = "pushing" => requests'[u].pc = "pushing"
                        /\ \/ requests[u].answers[z] # NoCandidates
                           \/ /\ requests[u].pc = "pushing"
                              /\ held'[z][requests[u].node] # NoSession
                              /\ held'[z][requests[u].node].session = requests[u].session
      BY <1>1 DEF AnswersFounded
    <2>7. CASE u # t
      BY <2>6, <2>7
    <2>8. CASE u = t
      BY <2>1, <2>3, <2>4, <2>5, <2>6, <2>8 DEF r
    <2> QED BY <2>7, <2>8
  <1> QED BY <1>2, <1>3

LEMMA DeliverKeepsAcks ==
    ASSUME FenceInv, AckInv, NEW m \in net, Deliver(m)
    PROVE  AckInv'
  <1>1. AcksFounded
    BY SameSessionsFounded DEF Deliver
  <1> QED BY <1>1, DeliverHoldsLive, DeliverAnswersFounded, FoundedStepKeepsAcks

-----------------------------------------------------------------------------

LEMMA NextAck == FenceInv /\ AckInv /\ [Next]_vars => AckInv'
  <1> SUFFICES ASSUME FenceInv, AckInv, [Next]_vars PROVE AckInv'
    OBVIOUS
  <1>1. CASE UNCHANGED vars
    BY <1>1, SameHeldHoldsLive, SameSessionsFounded, SameRequestsFounded, FoundedStepKeepsAcks
       DEF vars, FenceInv
  <1>2. CASE Next
    <2>1. ASSUME NEW t \in Threads,
                 (\E c \in Initiators : Begin(t, c)) \/ Enter(t) \/ Push(t) \/ Record(t)
          PROVE  AckInv'
      BY <2>1, BeginKeepsAcks, EnterKeepsAcks, PushKeepsAcks, RecordKeepsAcks
    <2>2. ASSUME NEW c \in Initiators, Disconnect(c) \/ Reap(c) \/ ReapBusy(c)
          PROVE  AckInv'
      BY <2>2, CloseKeepsAcks
    <2>3. ASSUME NEW c \in Initiators, NEW s \in Servers, RefreshDue(c, s) \/ AgentForgets(s, c)
          PROVE  AckInv'
      BY <2>3, RefreshKeepsAcks, NodesKeepAcks DEF Nodes
    <2>4. ASSUME NEW m \in net, Deliver(m) \/ PushTimesOut(m) \/ PushFails(m)
          PROVE  AckInv'
      BY <2>4, DeliverKeepsAcks, PushEndsKeepsAcks
    <2>5. CASE Drops
      BY <2>5, CloseKeepsAcks
    <2>6. ASSUME NEW n \in Nodes, GivesUp(n) \/ Leaves(n) \/ Returns(n) \/ Roams(n)
          PROVE  AckInv'
      BY <2>6, NodesKeepAcks
    <2> QED BY <1>2, <2>1, <2>2, <2>3, <2>4, <2>5, <2>6, RestartKeepsAcks DEF Next, Drops, Nodes
  <1> QED BY <1>1, <1>2

\* A server that acknowledged the offer of a live session has that session,
\* whatever offers and removals are still under way: `fingerprints` tells the
\* truth about sessions until the refresh, unless agents forget.
THEOREM AckedHeld == Spec => []AckedIsHeld
  <1>1. AckInv => AckedIsHeld
    BY DEF AckInv
  <1> QED BY <1>1, InitFence, NextFence, InitAck, NextAck, PTL DEF Spec

-----------------------------------------------------------------------------
(* The candidates of servers that acknowledged *)

\* What a step does to the acknowledgements that count and to the answers.
AnswerStays(c, s) ==
    Counted(c, s)' /\ (Counted(c, s) => known[s] # NoCandidates)
        => known'[s] # NoCandidates \/ LeavesItself(s)

AnswersStayPut == \A c \in Initiators, s \in Servers : AnswerStays(c, s)

\* Steps that count nothing new and drop nothing.
LEMMA NothingDropped ==
    ASSUME NEW c \in Initiators, NEW s \in Servers, Counted(c, s)' => Counted(c, s),
           known[s] # NoCandidates => known'[s] # NoCandidates
    PROVE  AnswerStays(c, s)
  BY DEF AnswerStays

LEMMA SameTablesKeepAnswers ==
    ASSUME UNCHANGED <<sessions, known>>
    PROVE  AnswersStayPut
  BY DEF AnswersStayPut, AnswerStays, Counted

\* A node that begins a request tells of itself.
LEMMA BeginKeepsAnswers ==
    ASSUME TypeOK, NEW t \in Threads, NEW c \in Initiators, Begin(t, c)
    PROVE  AnswersStayPut
  <1>1. sessions' = sessions /\ known' = [known EXCEPT ![c] = nodes[c].candidates]
    BY DEF Begin
  <1>2. nodes[c].candidates # NoCandidates
    BY NullsAssumption DEF TypeOK, NodeStates, Nodes
  <1>3. \A s \in Servers : known[s] # NoCandidates => known'[s] # NoCandidates
    BY <1>1, <1>2 DEF TypeOK, Nodes
  <1> QED BY <1>1, <1>3 DEF AnswersStayPut, AnswerStays, Counted

\* A new session begins with no acknowledgement.
LEMMA EnterKeepsAnswers ==
    ASSUME TypeOK, NEW t \in Threads, Enter(t)
    PROVE  AnswersStayPut
  <1> DEFINE c == requests[t].node
             i == requests[t].instance
  <1>1. c \in Initiators
    BY DEF Enter, TypeOK, Requests
  <1>2. known' = known
    BY DEF Enter
  <1>3. sessions' = [sessions EXCEPT ![c] = IF IsNewSession(c, i) THEN Opened(c, i)
                                                                   ELSE sessions[c]]
    BY DEF Enter
  <1>4. \A d \in Initiators : d # c => sessions'[d] = sessions[d]
    BY <1>3 DEF TypeOK
  <1>5. sessions'[c] = IF IsNewSession(c, i) THEN Opened(c, i) ELSE sessions[c]
    BY <1>1, <1>3 DEF TypeOK
  <1>6. \A s \in Servers : Opened(c, i).acked[s] = NoCandidates
    BY DEF Opened, NoAnswers
  <1> HIDE DEF c, i
  <1> QED BY <1>2, <1>4, <1>5, <1>6 DEF AnswersStayPut, AnswerStays, Counted

\* Record stores the answers with the acknowledgements they stand for.
LEMMA RecordKeepsAnswers ==
    ASSUME TypeOK, NEW t \in Threads, Record(t)
    PROVE  AnswersStayPut
  <1> DEFINE r == requests[t]
             c == r.node
             answered == {s \in r.pending : r.answers[s] # NoCandidates}
             acked == [s \in Servers |-> IF s \in answered THEN r.candidates
                                                           ELSE sessions[c].acked[s]]
  <1>1. c \in Initiators
    BY DEF Record, TypeOK, Requests
  <1>2. CASE sessions[c] = NoSession \/ sessions[c].id # r.session
    BY <1>2, SameTablesKeepAnswers DEF Record
  <1>3. CASE sessions[c] # NoSession /\ sessions[c].id = r.session
    <2>1. /\ sessions' = [sessions EXCEPT ![c] = [@ EXCEPT !.acked = acked]]
          /\ known' = [n \in Nodes |-> IF n \in answered THEN r.answers[n] ELSE known[n]]
      BY <1>3 DEF Record
    <2>2. \A s \in Servers : s \in answered => r.answers[s] # NoCandidates
      OBVIOUS
    <2>3. \A s \in Servers : acked[s] = IF s \in answered THEN r.candidates
                                                         ELSE sessions[c].acked[s]
      OBVIOUS
    <2>4. \A s \in Servers : known'[s] = IF s \in answered THEN r.answers[s] ELSE known[s]
      BY <2>1 DEF Nodes
    <2>5. \A d \in Initiators : d # c => sessions'[d] = sessions[d]
      BY <2>1 DEF TypeOK
    <2>6. sessions'[c].acked = acked
      <3>1. sessions[c] \in Sessions /\ sessions'[c] = [sessions[c] EXCEPT !.acked = acked]
        BY <1>1, <1>3, <2>1 DEF TypeOK
      <3> QED BY <3>1 DEF Sessions
    <2> HIDE DEF answered, acked, c, r
    <2> SUFFICES ASSUME NEW d \in Initiators, NEW s \in Servers PROVE AnswerStays(d, s)
      BY DEF AnswersStayPut
    <2>7. CASE s \in answered
      BY <2>2, <2>4, <2>7 DEF AnswerStays
    <2>8. CASE s \notin answered
      <3>1. Counted(d, s)' => Counted(d, s)
        BY <1>3, <2>3, <2>5, <2>6, <2>8 DEF Counted
      <3> QED BY <2>4, <2>8, <3>1, NothingDropped
    <2> QED BY <2>7, <2>8
  <1> QED BY <1>2, <1>3

\* The candidates of the servers go with the last session, and not before; those
\* of the node itself go because it says good-bye or was not heard of.
LEMMA CloseKeepsAnswers ==
    ASSUME TypeOK, NEW c \in Initiators, Disconnect(c) \/ Reap(c) \/ ReapBusy(c)
    PROVE  AnswersStayPut
  <1>1. sessions' = [sessions EXCEPT ![c] = NoSession] /\ known' = KnownWithout(c)
    BY DEF Disconnect, Reap, ReapBusy, CloseSession
  <1>2. c \in Servers => LeavesItself(c)
    <2>1. CASE Disconnect(c)
      <3>1. nodes[c].bye /\ nodes' = [nodes EXCEPT ![c].bye = FALSE]
        BY <2>1 DEF Disconnect
      <3>2. ~nodes'[c].bye
        BY <3>1 DEF TypeOK, Nodes, NodeStates
      <3> QED BY <3>1, <3>2 DEF LeavesItself
    <2>2. CASE Reap(c) \/ ReapBusy(c)
      BY <1>1, <2>2 DEF Reap, ReapBusy, LeavesItself, TypeOK
    <2> QED BY <2>1, <2>2
  <1> SUFFICES ASSUME NEW d \in Initiators, NEW s \in Servers PROVE AnswerStays(d, s)
    BY DEF AnswersStayPut
  <1>3. CASE s = c
    BY <1>2, <1>3 DEF AnswerStays
  <1>4. CASE s # c
    <2> SUFFICES ASSUME Counted(d, s)' PROVE Counted(d, s) /\ known'[s] = known[s]
      BY DEF AnswerStays
    <2>1. d # c /\ sessions'[d] = sessions[d] /\ sessions[d] # NoSession
      BY <1>1 DEF TypeOK, Counted
    <2>2. known'[s] = known[s]
      BY <1>1, <1>4, <2>1 DEF KnownWithout, Nodes
    <2> QED BY <2>1, <2>2 DEF Counted
  <1> QED BY <1>3, <1>4

LEMMA RefreshKeepsAnswers ==
    ASSUME TypeOK, NEW c \in Initiators, NEW s \in Servers, RefreshDue(c, s)
    PROVE  AnswersStayPut
  <1> DEFINE acked == [sessions[c].acked EXCEPT ![s] = NoCandidates]
  <1>1. known' = known /\ sessions' = [sessions EXCEPT ![c] = [@ EXCEPT !.acked = acked]]
    BY DEF RefreshDue
  <1>2. sessions[c] \in Sessions /\ sessions'[c] = [sessions[c] EXCEPT !.acked = acked]
    BY <1>1 DEF RefreshDue, TypeOK
  <1>3. sessions'[c].acked = acked /\ sessions[c].acked \in [Servers -> MaybeCandidates]
    BY <1>2 DEF Sessions
  <1>4. \A a \in Servers : acked[a] # NoCandidates => sessions[c].acked[a] # NoCandidates
    BY <1>3
  <1>5. \A d \in Initiators : d # c => sessions'[d] = sessions[d]
    BY <1>1 DEF TypeOK
  <1>6. sessions[c] # NoSession
    BY DEF RefreshDue
  <1> HIDE DEF acked
  <1> QED BY <1>1, <1>3, <1>4, <1>5, <1>6 DEF AnswersStayPut, AnswerStays, Counted

\* An announcement expires when no live session counts on it; the reaper drops
\* what servers announced when there is no session; a restart leaves none.
LEMMA DropsKeepAnswers ==
    ASSUME TypeOK, Drops \/ CoordinatorRestarts
    PROVE  AnswersStayPut
  <1>1. CASE CoordinatorRestarts
    BY <1>1 DEF CoordinatorRestarts, AnswersStayPut, AnswerStays, Counted
  <1>2. CASE ReapEmpty
    BY <1>2 DEF ReapEmpty, AnswersStayPut, AnswerStays, Counted
  <1>3. ASSUME NEW n \in Nodes, AnnouncementExpires(n) PROVE AnswersStayPut
    <2>1. sessions' = sessions /\ known' = [known EXCEPT ![n] = NoCandidates]
      BY <1>3 DEF AnnouncementExpires
    <2>2. \A s \in Servers : s # n => known'[s] = known[s]
      BY <2>1 DEF TypeOK, Nodes
    <2>3. n \in Servers => \A c \in Initiators : ~Counted(c, n)
      BY <1>3 DEF AnnouncementExpires, Counted
    <2> QED BY <2>1, <2>2, <2>3 DEF AnswersStayPut, AnswerStays, Counted
  <1> QED BY <1>1, <1>2, <1>3 DEF Drops

LEMMA NextKeepsAnswers == FenceInv /\ [Next]_vars => AnswersStayPut
  <1> SUFFICES ASSUME FenceInv, [Next]_vars PROVE AnswersStayPut
    OBVIOUS
  <1>1. TypeOK
    BY DEF FenceInv
  <1>2. CASE UNCHANGED vars
    BY <1>2, SameTablesKeepAnswers DEF vars
  <1>3. CASE Next
    <2>1. ASSUME NEW t \in Threads,
                 (\E c \in Initiators : Begin(t, c)) \/ Enter(t) \/ Push(t) \/ Record(t)
          PROVE  AnswersStayPut
      <3>1. Push(t) => UNCHANGED <<sessions, known>>
        BY DEF Push
      <3> QED BY <1>1, <2>1, <3>1, BeginKeepsAnswers, EnterKeepsAnswers, RecordKeepsAnswers,
                 SameTablesKeepAnswers
    <2>2. ASSUME NEW c \in Initiators, Disconnect(c) \/ Reap(c) \/ ReapBusy(c)
          PROVE  AnswersStayPut
      BY <1>1, <2>2, CloseKeepsAnswers
    <2>3. ASSUME NEW c \in Initiators, NEW s \in Servers, RefreshDue(c, s)
          PROVE  AnswersStayPut
      BY <1>1, <2>3, RefreshKeepsAnswers
    <2>4. ASSUME \/ \E s \in Servers, c \in Initiators : AgentForgets(s, c)
                 \/ \E n \in Nodes : GivesUp(n) \/ Leaves(n) \/ Returns(n) \/ Roams(n)
                 \/ \E m \in net : Deliver(m) \/ PushTimesOut(m) \/ PushFails(m)
          PROVE  AnswersStayPut
      <3>1. UNCHANGED <<sessions, known>>
        BY <2>4 DEF AgentForgets, GivesUp, Leaves, Returns, Roams, Deliver, PushTimesOut,
                    PushFails
      <3> QED BY <3>1, SameTablesKeepAnswers
    <2>5. CASE Drops \/ CoordinatorRestarts
      BY <1>1, <2>5, DropsKeepAnswers
    <2> QED BY <1>3, <2>1, <2>2, <2>3, <2>4, <2>5 DEF Next, Drops, Nodes
  <1> QED BY <1>2, <1>3

\* For every server, also those that sync and have sessions of their own: an
\* acknowledgement is not counted without the answer that came with it, and
\* while it counts, no other session that ends, no expiry and no pass of the
\* reaper takes the answer away, only the server's own good-bye or expiry.
THEOREM CountedAnswersStay == Spec => AnswersStay
  <1>1. FenceInv /\ [Next]_vars =>
            [\A c \in Initiators, s \in Servers :
                 Counted(c, s)' /\ (Counted(c, s) => known[s] # NoCandidates)
                     => known'[s] # NoCandidates \/ LeavesItself(s)]_vars
    BY NextKeepsAnswers DEF AnswersStayPut, AnswerStays
  <1> QED BY <1>1, InitFence, NextFence, PTL DEF Spec, AnswersStay

================================================================================
