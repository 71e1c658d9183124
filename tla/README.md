# Wireguard-p2p: specification and verification

TLA+ models of the programs in `src/p2p`, the TLC instances that check them,
and TLAPS proofs about them. Line numbers refer to
`src/p2p/wireguard-p2p/linux/p2p_agent.py` unless another file is named.

## 1. The system

Nodes of the overlay `10.0.0.0/24` talk to each other through a WireGuard hub,
the VPS. P2P is an addition to that: when two nodes manage a direct WireGuard
handshake, a `/32` route is installed beside the `/24` of the hub; when the
direct breaks, removing the dynamic peer falls back to the hub.

| Part | Code | State | Operations |
| --- | --- | --- | --- |
| Server Agent | `linux/p2p_agent.py` | `STATES` (per remote key: mode, session, instance, candidates, lease, generation, worker flag, retry time), its file, `LAST_GENERATION`, threads | `handle_offer`, `handle_remove`, `cleanup_initiator_states`, `monitor_once`, probe and confirm6 workers, `load_state`, `cleanup_orphans` |
| Coordinator | `vps/peers_api.py` | `SESSIONS`, `LAN_CANDIDATES`, `NODE_CANDIDATES`, push status | `/sync`, `/connect`, `/announce`, `/disconnect`, pushes of offers and removals, `session_reaper` |
| Client | `wireguard-p2p-client/*.go` | per server: mode, candidates, instance, retry time, generation, worker flag | main loop, `reconcilePeers`, `runProbeWorker`, `watchPassiveIPv6`, stale-direct fallback, cleanup |
| Candidates | `linux/candidates.py`, `candidate.go`, `vps/peers_api.py` | what is announced, recorded and offered | gathering, announcement, merging, offer, selection, signature |
| Port mapper | `linux/portmap.py`, `portmap_daemon.py` | `PortMapper`, the state file, the router's mappings | PCP / NAT-PMP / UPnP requests, renewal, back-off, writing and clearing the file |
| Notification auth | 362-420 | `SEEN_NONCES` | `verify_signed_notification`, `consume_nonce` |
| Reflexive IPv6 | 423-464 | cached address and its age | refresh, read |
| Manager | `manage/wireguard-p2p.py` | installed files, `updates/`, role registries | `update_vps`, `update_server`, `set_node_role` |
| Kernel | outside the repository | peers: endpoint, allowed-ips, latest handshake | `wg set`, `wg show dump` |
| GUI, installers, CI | `gui_*.go`, `*.sh` | - | presentation and set-up |

How they interact: a client (or a server acting as initiator) syncs with the
Coordinator over HTTP. The Coordinator keeps one session per overlay address
and pushes `/offer` to the servers, at most `OFFER_REFRESH` apart, and
`/remove` when a session is superseded, disconnected or expired. The agent of
each server probes the candidates of the offer against the kernel and promotes
the one that completes a handshake. The client does the same on its side from
the Coordinator's reply. All time limits (lease 30-180 s, `SESSION_TTL`,
`DIRECT_MAX_AGE`, retry delays) are independent of each other.

Hard behaviours, by part:

- *Agent*: offers, removals, passes and workers interleave; a worker sleeps and
  polls without the lock; `wg` commands and `save_state` can fail with or
  without effect and raise out of the middle of an operation; the process
  crashes while the kernel keeps its peers; one generation counter fences all
  of it. What makes it correct: generations are never reused, a superseded
  worker does nothing, no two threads act on one peer, a peer marked as being
  worked on has a thread, `STATES` and the kernel agree, no `/32` is left
  behind, healthy directs survive trouble in the control plane, stale ones fall
  back, old control sessions do not come back.
- *Coordinator*: requests wait for slow pushes while the reaper runs; removals
  are pushed outside `COORDINATE_LOCK`; a restart loses the sessions. Correct
  when at most one session per client is live, servers end up with the offer of
  the latest one, and a client that keeps syncing is not expired.
- *Client*: a pass looks at the kernel once and then takes the lock server by
  server, while probe and watcher goroutines look at the kernel without it; the
  tunnel goes down or is replaced, the Coordinator does not answer, commands
  fail. Correct when at most one probe acts on a server, what it promotes made a
  handshake, nothing comes back after the stop, stale directs fall back and
  probes are retried.
- *Candidates*: a host announces itself every few seconds, the Coordinator mixes
  what it was told with what it sees, and two kinds of peers learn of it in two
  ways, each with older data than the other in some respect; lists are cut twice.
  Correct when no offer is refused, the observed endpoint is among those probed,
  and peers come to probe where the host is now and nothing else.
- *Port mapper*: the router, the mapper, the file and its reader have a notion of
  the lease each; answers get lost, the host moves, the daemon is killed. Correct
  when what is advertised exists, without gaps while refreshes succeed.
- *Nonce cache*: threads check a timestamp and consume a nonce in two steps, by
  clocks that are set. Correct when no notification is handed over twice.
- *Updaters*: an update replaces files one by one on a running host, where systemd
  starts services that die, and publishes packages that servers fetch meanwhile;
  any step, the rollback included, may fail or be interrupted, and the last step
  of a rollback may fail unnoticed. Correct when an update is done or undone, no
  mixture of versions outlasts it, what is published is complete, and trying
  again gets the hosts to the latest release.
- *Roles*: a node has one role.

The list "hazards" of `PROJECT.json` names the worst of these at its line, with
the properties that cover it, or a note why none does. `Notification`,
`Candidates` and `Agent` model parts of one process, which share no state but
the candidates an accepted offer carries.

## 2. The models

| Module | What it is |
| --- | --- |
| `Agent.tla` | the Server Agent with the kernel it drives; its properties |
| `MCAgent.tla`, `MCAgent_*.cfg` | instances of `Agent` for TLC |
| `AgentProofs.tla` | theorems about `Agent`: its types, superseded threads |
| `AgentSafetyProofs.tla` | theorems about `Agent`: generations, routes, modes, threads |
| `SessionRegistry.tla` | what the control plane promises about sessions |
| `Coordinator.tla` | the Coordinator, the nodes that sync, the sessions of the agents it pushes to; implements `SessionRegistry` |
| `MCCoordinator.tla`, `MCCoordinator_*.cfg` | instances of `Coordinator` for TLC |
| `CoordinatorProofs.tla` | theorems about `Coordinator`, the refinement among them |
| `Client.tla` | the Go client with the kernel it drives; its properties |
| `MCClient.tla`, `MCClient_*.cfg` | instances of `Client` for TLC |
| `ClientProofs.tla` | theorems about `Client` |
| `Candidates.tla`, `MCCandidates.*` | the candidates of a host from where it gathers them to what its peers probe |
| `CandidatesProofs.tla` | theorems about `Candidates` |
| `PortMap.tla`, `MCPortMap.*` | the port mapper, its daemon and file, the router and the reader |
| `PortMapProofs.tla` | theorems about `PortMap` |
| `Notification.tla`, `MCNotification.*` | authenticated notifications and the nonce cache |
| `NotificationProofs.tla` | theorems about `Notification` |
| `Update.tla`, `MCUpdate.*` | `wireguard-p2p update` on the VPS and the servers |
| `UpdateProofs.tla` | theorems about `Update` |

### Agent

Variables: `states` is `STATES`; `saved` is the content of the state file; `wg`
the dynamic peers of the kernel; `workers` the threads that are alive; `monitor`
the pass of `monitor_once` in progress; `lastGeneration` is `LAST_GENERATION`;
`handshakes` counts completed handshakes and is the kernel's clock.

One action is one critical section of `STATE_LOCK` (or one look at the kernel
between two). `monitor_once` holds the lock over all peers; it is one step per
peer with `monitor.active` standing for the lock, so that a command that raises
in the middle (`MonitorFails`) loses exactly what the code loses. It acts on the
snapshot of the kernel taken when it began (`monitor.current`), as the code does.

| Actions | Code |
| --- | --- |
| `HandleOffer`: `OfferKeepsDirect`, `OfferStartsProbe`, `OfferRefreshes`, `OfferRemoveFails` | `handle_offer` 1068-1250 |
| `HandleRemove`: `RemovePreserves`, `RemoveDrops`, `RemoveFails` | `handle_remove` 1273-1333 |
| `CleanupInitiatorStates` | 519-537 |
| `MonitorBegin`, `MonitorPeer` (seven cases), `MonitorFails`, `MonitorEnd` | `monitor_once` 1336-1435 |
| `ProbeStart` ... `ProbeExhausted` | `_probe_worker` 877-1032 |
| `ConfirmRekeys` ... `ConfirmTimesOut` | `_confirmation_rekey_worker` 720-850 |
| `WorkerGivesUp`, `WorkerEnds` | early returns; `run_peer_worker` 678-713 |
| `Restart` | `load_state` 174-192, `cleanup_orphans` 1468-1477 |
| `WgHandshake`, `HandshakeAges`, `LeaseElapses`, `RetryElapses` | the kernel and the clocks |

Abstractions. A session is a number that stands for `session_id` and
`session_started_ns` together (two sessions with equal start times do not
occur). Candidate lists are those `select_probe_candidates` returned, so they
are not empty; their signature is the list itself. Endpoints are model values;
`Host6` are those whose candidate makes `should_confirmation_rekey` true. A
handshake is fresh when it is at most `DIRECT_MAX_AGE` old; the confirm6 poll,
which asks for five seconds, is taken to look at a handshake newer than the
re-created peer. Within one critical section (other than a pass) the kernel is
read and written in one step; several bumps of a generation in it are one bump.
A failing command is "failed" (no effect) or "timedout" (`run` gives up after
the kernel applied it). Failure counters only decide how long a retry delay is
and are left out with it. Looks of a worker at the kernel can raise when
commands can fail. Logging, overlay packets and the HTTP replies are left out.
Stopping the process is a crash; the clean-up of initiator states that `main`
adds on a regular stop is an ordinary `CleanupInitiatorStates` before it.

### Coordinator

Line numbers of this section are those of `vps/peers_api.py`.

Variables: `sessions` is `SESSIONS` and `known` the two candidate tables;
`started` is the last `session_started_ns`; `requests` are the HTTP threads in
`coordinate_client` and `coordinateLock` is `COORDINATE_LOCK`; `net` is the set
of pushed messages that no agent has handled; `held` is the session and the
candidates that each agent's `STATES` has for a node; `nodes` are the programs
that sync; `faults` counts what departed from the ordinary course.

| Actions | Code |
| --- | --- |
| `Begin` | `do_POST` up to the wait for the lock 871-906 |
| `Enter`, `Push`, `Record` | `coordinate_client`: session and removals 562-620, offers 622-636, results 637-680 |
| `Disconnect` | `disconnect_client` 711-724 |
| `Reap`, `ReapBusy`, `ReapEmpty` | `session_reaper` 727-746 |
| `RefreshDue`, `AnnouncementExpires` | the clock: `OFFER_REFRESH` 618, `ANNOUNCE_TTL` 356-363 |
| `PushTimesOut`, `PushFails` | the exceptions of 637-649 and 700-708 |
| `CoordinatorRestarts` | 953-961 with empty tables |
| `Deliver`, `AgentForgets` | `p2p_agent.py`: `handle_offer`, `handle_remove`, lease over 1363-1370 |
| `GivesUp`, `Leaves`, `Returns`, `Roams` | `main.go` 146-170, `apiSync`; the server-initiator loop of `p2p_agent.py` |

A thread takes three steps after it entered the lock: what it did with
`STATE_LOCK`, then, when the removals are answered or given up, the offers,
then, when these are, the results. `/disconnect` and the reaper take one step
each; their pushes are answered by nobody the model follows. A push is answered
only by the agent's handling it or ends with a time-out, and the message of a
timed-out push stays in `net`: the agent's handler may be waiting for its lock.
An answer, "ok" or not, is taken as "ok", because agents answer so also when
they ignore a message (1287-1293 and 1114-1120 of the agent).

Abstractions. Sessions are numbered in the order of their start times, which
are taken to increase strictly, also over restarts. `candidates` stands for all
that `offer_fingerprint` compares; that a server's own endpoint changed is
`RefreshDue`. Time is abstract: a node is silent when it is down with no request
under way; the expiry of a node that is not silent is a fault. Two identical
messages that were given up are one. The agents' part is reduced to which
session and which candidates they hold; that a healthy direct outlives an
`expired` removal is a choice (`Agent` has the details). The push statistics,
the peers in the reply and the files served are left out.

### Client

Files of this section are in `wireguard-p2p-client`.

Variables: `states` is `a.states` and `serverKeys` is `a.serverKeys`; `wg` the
dynamic peers of the kernel; `workers` the goroutines that are alive; `loop`
where the main goroutine is and `pass` its call of `reconcilePeers` in progress,
with the answer and the look at the kernel it works from; `announced` what the
Coordinator would answer now; `handshakes` the kernel's clock; `changes` and
`faults` count what the environment did. `reused` is history: the servers whose
state was created anew while a goroutine of the former state was alive.

One action is one critical section of `a.mu` or one look at the kernel outside
it. `reconcilePeers` takes the lock for each server anew, so goroutines run
between two servers of one pass, on what the pass saw before them.

| Actions | Code |
| --- | --- |
| `BeginPass` | `reconcilePeers` up to the first lock, `probe.go` 35-95 |
| `ReconcilePeer`: `KeepsChanged`, `StartsAfresh`, `SeesDirect`, `FallsBack`, `PromotesInbound`, `MissesInbound`, `ProbesOn` | its first loop, `probe.go` 80-222 |
| `RetirePeer` | its second loop, `probe.go` 224-247 |
| `FallBackStaleDirects` | `main.go` 367-397 |
| `TunnelInactive`, `TunnelActive`, `TunnelChanges` | `main.go` 174-193 |
| `Stop`, `StopDown` | `main.go` 165-170, `cleanup` 326-340 |
| `ClientCrashes` | start of `main` with what the kernel kept |
| `ProbeStarts`, `ProbeCancelled` | `probeSnapshot`, `finishProbeCancelled`, `probe.go` 376-403 |
| `ProbeReadsBaseline`, `ProbeArms`, `ProbeSeesHandshake`, `ProbeWindowEnds`, `ProbePromotes`, `ProbeExhausted` | `runProbeWorker`, `probe.go` 249-374 |
| `WatchSeesHandshake`, `WatchPromotes`, `WatchEnds` | `watchPassiveIPv6`, `passive6.go` 13-70 |
| `Fenced` | the early returns of both |
| `WgHandshake`, `HandshakeAges`, `RetryElapses`, `AnnouncementChanges` | the kernel, the clocks, the Coordinator |

Abstractions. A candidate list is what `buildProbeCandidates` makes of a reply,
its signature the list and the instance. `Endpoint`, `SelectedType`,
`CandidateSignature` and `Failures` are left out: they are written and logged, or
decide how long a delay is. A server in the reply is "online", when it is to be
probed, or "offline". A failing command has no effect. The peers of an interface
that was left are out of sight; a tunnel that takes over has none. Waits and
delays end at any time; a pass compares delays with the time at which it began,
in the model it may also see one elapse. A synchronisation that fails is
`FallBackStaleDirects`, or nothing when no direct is dead. After `Stop` the
goroutines still run, as they may until `main` returns. The regular clean-up of
a Windows console is the same `cleanup`.

### Candidates

Variables: `host` is the situation a host is in (its addresses, what the router
maps, where the VPS sees its socket) and `place` where its peers are;
`reflexive` is `REFLEXIVE6_ADDRESS`; `lan` and `stored` are what the Coordinator
has recorded of it; `synced` is what the last accepted announcement was
coordinated with; `offers` what the last offer each peer handled was made of.
One peer is pushed offers, which carry what was announced in the request; the
other one asks for the payload, which is made of the two tables as they are.

| Definitions | Code |
| --- | --- |
| `Gather`, `Discovered`, `ReflexiveFound`, `ReflexiveTooOld`, `DiscoveryFails` | `p2p_agent.py` 423-481, `gather_candidates` |
| `Sync`, `Recorded`, `Expire` | `p2p_agent.py` 484-504; `peers_api.py` 889-901, 351-363, 425-430 |
| `Observed`, `Predicted`, `Merged`, `Push`, `Ask` | `peers_api.py` 248-308, 365-394, 482-518; `p2p_agent.py` 556-586 |
| `Valid`, `Legacy`, `Deduped`, `Selected`, `Probes` | `p2p_agent.py` 314-351, 1080-1097; `candidates.py` 297-341, 374-390 |
| `Move` | the network |

Abstractions. The lists are sets, since their elements are distinct; `Before` is
the order they are sorted by, with numbers where the code compares strings.
(`merge_candidates` keeps the order of insertion among equal priorities, where
`First` goes by the endpoint; no property depends on it.) A
`/24` is the tens of an address. The `PORTMAP` file is what `PortMap` makes of
it: a mapping or none. An offer that was lost is one not yet pushed. The
candidates of the receiving peers, which do not move, are left out, and so is
the session an offer belongs to (`Coordinator`). The limits are scaled: 5
endpoints probed are 3, 16 candidates 6, the ports are 1 to 8.

Two subtleties that the properties state. A mapping whose endpoint is the one the
VPS observes (a port-preserving NAT) takes its place when endpoints are made
distinct, but `select_probe_candidates` looks for type `observed4` to give the
last place to (337): behind five better candidates neither is probed
(`ObservedIsProbed` excludes it). And an announcement of more than 16 candidates
is refused after its LAN address was recorded: for as long as the host has that
many, its peers work with the old list (`ProbesSettle` excludes it).

### PortMap

Line numbers are those of `portmap.py`, with `portmap_daemon.py` as "daemon".

Variables: `net` is the network the host is in, by its local address; `lease` the
time left to the mapping of each address in the router; `mapper` the
`PortMapper`; `file` the state file; `daemon` where its loop is. Points in time
are kept as the time left. `unsure` and `steady` are history.

| Actions | Code |
| --- | --- |
| `PollOnly`, `PollRefresh` | a round, daemon 100-131; `should_refresh` 312-318 |
| `RouterGrants`, `Refreshed`, `MethodRaises` | a request and its answer: `refresh` 320-349, `try_*` |
| `Succeeded`, `Failed`, `Publish` | 351-381; daemon 109-131 |
| `Stop`, `Crash`, `Start` | daemon 131-133, 94-98; systemd |
| `Roam`, `RouterRestarts`, `Tick` | the environment |
| `Mapped` | `mapped_candidate_from_state`, `candidates.py` 204-227 |

Abstractions. A method is tried in one request; its answer carries a lifetime or
it raises; UPnP is granted what was asked for. A missing gateway is a round of
failures. The router has one mapping per address. A shorter or refused grant
counts as a fault. Waits end in time, as the daemon does nothing else. That a
renewal over PCP uses a fresh nonce, which a strict router takes for another
client, is a failure like any other. With a lifetime of 15 s or less a mapping is
never advertised, and one below about 230 s has gaps, because a third of it must
cover the poll, the margin and the delay. The times of the run keep the order of
the code's defaults (lifetime 3600, retry and poll 60, margin 15, three methods
with time-outs), but the lifetime asked for is just long enough for that, and
two of the shorter grants are below the limits.

### Notification

Variables: `signed` the notifications by nonce with their timestamps, `clock`
the Agent's, `seen` is `SEEN_NONCES`, `thread` what each HTTP thread has checked
and not consumed; `accepted`, `twice`, `purged` and `lost` are history.

`SignedPost` is `signed_post` (`peers_api.py` 447-466), by a clock of its own;
`Verify` the checks of `verify_signed_notification` (399-418) and `Consume`
`consume_nonce` (384-396), which takes the lock after the clock was read;
`Clock` sets the clock to any time, `Restart` empties the cache. That a
signature is genuine is not modelled: requests are those the Coordinator signed,
late, again, or at once.

### Update

Line numbers are those of `manage/wireguard-p2p.py`.

Variables: `latest` is the release on GitHub; `installed` the files of each host,
by the version they come from; `running` the files its service was started from;
`releases` and `current` what is under `updates/` and where the link points;
`job` the attempt in progress on each host, with its backup. The rest is history:
`cut` and `spoiled` are hosts and releases an interrupted attempt left half way,
`unheard` the hosts whose services did not start after a rollback, and `stranded`
says that the link still points to a failed first publication.

| Actions | Code |
| --- | --- |
| `UpdateVps`, `UpdateServer`, `Fetches` | up to the try blocks: 299-362, 228-255 |
| `PublishesManifest`, `PublishesAssets`, `Switches` | 362-370 |
| `Copies`, `Restarts`, `Succeeds`, `Unhealthy` | 258-285, 372-390 |
| `StepRaises`, `RollbackRaises`, `Crashes` | the except blocks; the manager or host stops |
| `Restores`, `Relinks`, `Bounces`, `BouncesUnheard` | 287-296, 392-399; `systemctl` with `check=False` may fail |
| `SystemdStarts` | `Restart=` of `wireguard-p2p-agent.service` 13-14, `peers-api.service` 12-13 |
| `Release` | a new release |

Abstractions. Files are numbered in the order they are copied; the first carries
`VERSION`. Modes, `py_compile`, `daemon-reload` and unit rendering are part of
the step beside them. The services of a host are one, which loads files of
several versions or does not; systemd starts it from the files on the disk (a
unit replaced but not yet reloaded is not told apart from a reloaded one). It
starts a service that does not work as often as it likes; that one dies that
works is a fault. A release that lacks an asset is one whose files
are not all there: nothing is installed of it. One manager works on a host at a
time. A file being written may be torn by an interruption. The backup is taken
anew by each attempt and never read by another.

What the properties leave open, because the code does:

- A rollback leaves files in place that the failed version added
  (`restore_files` knows only what was backed up; a service does not load them).
- An attempt that is killed, or whose rollback raises, leaves a mix of files that
  the next one takes for current when the first of them is new: `DoneOrUndone`
  excludes such hosts (`cut`) until an attempt succeeds there.
- When the last step of a rollback fails (287-291, 398-399), the files are back
  but the service is down, or runs what was there before; nobody looks at it.
  `DoneOrUndone` claims the files of such a host (`unheard`) and not its service,
  until the manager's next start of it that is heard of succeeds.
- While files are copied or put back, a service that systemd starts then runs a
  mixture; `MixturesAreReplaced` says where it is gone.
- `UpdatesArrive` excludes hosts that were cut short or unheard and have the first
  file of the latest release, because that is all the manager looks at, or lost
  the manager or a unit to a torn write (`Abandoned`).
- The VPS rewrites the release it has published in place when it is forced to,
  and also in an ordinary attempt if the link was ahead of its own files: an
  earlier attempt was cut short after the switch (370), or failed before there
  was anything to link back to (393, `stranded`). Servers may then find it half
  way; interrupted, it stays incomplete (`spoiled`) until published again.
  `PublishedIsComplete` names these cases and allows no other.
- After a failed first publication servers may install the release that the VPS
  refused. Their own health check decides there.
- Because the names of packages carry no version, manifest and package may come
  from two releases; the checksum refuses that, and the model lets it happen.

### What the runs check

| Run | Instance | Shows |
| --- | --- | --- |
| core | 1 key, 2 endpoints, 2 sessions, 3 generations, 2 handshakes | `TypeOK`, `GenerationsFence`, `DirectMatchesKernel`, `ExpiredKeptForDirect` |
| confirm | host6 endpoint, two instance ids, both controllers, 3 generations | `SingleActor`, `StaleWorkerInert`, `HealthyDirectSurvives` with re-keys |
| faults | failing `wg` and `save_state`, crashes, old or lost state file, a list of two candidates, 2 generations | `NoOrphanRoute`, `StaleDirectFallsBack` |
| live | failing `wg`, host6, 2 generations | `RunningHasWorker`, `WorkersFinish`, `LeaseOverIsNoticed` |
| sessions | 2 clients and 1 server that all sync, 2 threads, 1 fault | `TypeOK`, `AwaitedOffersAreNew`, `AckedIsHeld`, `ImplementsRegistry`, `AnswersStay` |
| nodes | 1 client, 1 server, 2 sets of candidates, 2 threads, 2 faults, agents that forget | `Convergence`, `GoneIsForgotten` |
| client | 1 server announced in two ways, 2 goroutines, 1 handshake, 1 change, 1 failing command | `TypeOK`, `SingleActor`, `PromotesWhatItSaw`, `StoppedStaysDown`, `StaleDirectFallsBack`, `RetriesContinue` |
| client_stuck | the same | a probe that never ends (finding) |
| update | the VPS and 1 server, 2 files, 3 releases (one does not start, one adds a file), 2 faults | `TypeOK`, `MixturesAreReplaced`, `DoneOrUndone`, `PublishedIsComplete`, `UpdatesArrive` |
| notify | 3 notifications, 2 threads, a cache of 2, skew 1, 4 points in time | `TypeOK` with the limit of the cache, `AtMostOnce` |
| mapping | 2 networks, lifetimes 0, 1, 4 and 21, 3 faults | `TypeOK`, `AdvertisedIsMapped`, `StaysMapped`, `MappingArrives` |
| candidates | 8 situations of the host, 3 places, 2 moves | `TypeOK`, `OffersAccepted`, `ObservedIsProbed`, `ProbesSettle` |

Bounds of Agent. `MaxGeneration` bounds when new work may be begun (offers, removals,
elapsed retries); the steps that finish work are not bounded, so generations go
a little beyond it. Three generations are enough for a worker, its replacement
and the replacement's replacement to be alive together; two handshakes for a
promotion and a re-key or a stale direct that recovers; two sessions for an old
one that comes late. With the bounds reached the model may stop, as may a real
agent that is offered nothing: deadlock is not an error in these runs. Endpoints
are symmetric in `core`, which checks safety only.

Bounds of Coordinator. `Threads` bounds the requests served at a time: two let a
request wait while another holds the lock, and one that its node gave up on run
beside its successor. `MaxFaults` bounds time-outs, early expiries, restarts,
moves, departures and requests given up; sessions are opened only after one of
these, so it bounds them too. One fault lets a message of a session be delayed
while the next one is opened; all properties of `sessions` are proved for any
number. Candidates change in `nodes` only. Two faults
let what is to settle be disturbed while it settles. Pushes and refreshes are
not bounded. The system never stops: deadlock is checked.
In `sessions` the server has a session of its own, as every server of the program
does (`server_initiator_loop` starts unconditionally, `p2p_agent.py` 1598-1602);
three sessions are the least for one to end, one to count and one to be its own.
Threads and clients are symmetric in `sessions`, which checks safety only.

Bounds of Client. `Slots` bounds the goroutines alive at a time: two are a probe
and the one that replaces it, or a watcher and the retry beside it.
`MaxHandshake` bounds completed handshakes, `MaxChanges` what the announcements
and the tunnel do (one is a restart of the server, a server that leaves, a
tunnel that goes down or is replaced, or a crash) and `MaxFaults` the failing
commands. Servers meet in nothing but the fault and change counts, so one is
enough for what is checked; the proofs are for any number. The client may stop
for good, and does in the model: deadlock is not an error.

Bounds of the other modules. *Update*: three releases are a bad one between two
good ones; two faults an attempt that fails and whose rollback does, or is not
heard of, or a forced update that is interrupted; a bad release needs no fault to
be rolled back while systemd starts it; servers meet only in what is published, so one is
enough. The system stops when everything is current: deadlock is not an error.
*Notification*: three nonces fill a cache of two, two threads race for one of
them, and four points in time let a notification be accepted, forgotten and be
too old; nonces and threads are symmetric. *PortMap*: two networks are an old and
a new one; three faults a lost answer, a move and a restart; the lifetimes are
refused, shorter than the margin, short, and the one asked for. *Candidates*: the
situations are those that differ in what the lists are cut by: ports at both
ends of the range, a mapping at the observed endpoint and one elsewhere, as many
candidates as may be announced and one more. Two moves lead away and back, or
through a situation that is refused.

Fairness of Coordinator (`FairSpec`). A node that is up keeps syncing, and
`ThreadingHTTPServer` starts a thread for it, so some `Begin` is strongly fair
(in the model it waits for one of the finite `Threads`). The lock is released
again and again, and a waiting thread gets it some time: `Enter` is strongly
fair; the code has no queue that would make it so, the assumption is that the
operating system's lock does not starve one thread for ever. `Push`, `Record`,
the reaper and the refresh are weakly fair: nothing disables them but
themselves. Pushes have a time-out, so one that is waited for ends; when the
time-outs are used up it ends with the agent's answer or its refusal. Nothing
is assumed of messages nobody waits for, of `/disconnect` requests, of
departures or returns.

Fairness of Agent (`FairSpec`): the monitor loop keeps taking passes (`monitor_loop`
catches every exception, 1450-1465), so `MonitorStep` is weakly fair; a thread
that wants the lock gets it again and again, though not continuously, so the
workers are strongly fair. Nothing is assumed of remote peers, the Coordinator,
the clocks or the kernel. The liveness properties carry the premise
`FaultsStop`: no more crashes and no more passes cut short.

Fairness of Client (`FairSpec`). The main loop runs for ever with time-outs on
all it waits for, so `MainStep` is weakly fair; a goroutine sleeps and polls up
to a deadline, so each one's steps are weakly fair (Go's mutex does not starve a
waiter), and so is the end of a retry delay. Because a fruitless attempt to
synchronise is a stuttering step, the first of these also says that the
Coordinator answers again some time; `RetriesContinue` needs that, and
`StaleDirectFallsBack` holds with either way of falling back. Nothing is
assumed of tunnels, handshakes or announcements.

Fairness of the other modules. *Update*: a manager that was started runs on (its
waits have time-outs), and the administrator tries again (`UpdateVps`,
`UpdateServer` without --force); for a server strongly, since the VPS may be
down or publishing in between. Nobody is assumed to succeed with trying where the
manager itself or a unit was torn (`Usable`), nor is systemd assumed to start
anything in time. *PortMap*: the loop runs, systemd restarts it and
time passes; after the faults the router answers (`RouterGrants(Asked)`).
*Candidates*: `reflexive6_loop`, the announcements, the pushes (repeated while
they fail) and the initiator loop go on. `Notification` has no liveness.

What the Coordinator's properties leave open: after a late push of the same
session a server has older candidates until the next `OFFER_REFRESH`, which is
why `AckedIsHeld` speaks of sessions only and `Convergence` of candidates too.
`AnswersStay` is about steps because of the servers' own sessions: a server's
`/disconnect` or expiry (714-715, 736-737) takes its candidates away while other
nodes count its acknowledgements, and a sync of it that waited for the lock
meanwhile opens its session again without them; they are back with its next sync.
`AckedIsHeld` needs agents that do not forget (`AgentsForget` FALSE).

Where a property of `Agent` does not hold on a wider instance, and why.
`NoOrphanRoute` and `StaleDirectFallsBack` need agents that are not initiators:
`cleanup_initiator_states` swallows a failing `wg set peer remove` (531-534) and
deletes the state all the same (535), monitor passes look at `STATES` only and
`cleanup_orphans` runs at start only, so the `/32` stays. `RunningHasWorker` and
`WorkersFinish` need one key, or commands that do not fail: `monitor_once` marks
peers as probing (1424) and starts their threads after the pass (1434); when the
removal of another peer raises in between (1384) the launch is lost, and the
peer is skipped by passes (1411) and offers (1240) while offers renew its lease.
`ExpiredKeptForDirect` needs a host without re-keys: an expired peer whose re-key
times out (838) has no lease any more that would end it. `DirectMatchesKernel`
allows re-keys when commands do not fail; the re-key installs the `/32` before
the handshake it waits for (738-748), in a mode of its own, although
`docs/architecture.md:5` has it the other way. `HealthyDirectSurvives`,
`DirectMatchesKernel` and `ExpiredKeptForDirect` speak of a process that lives and
of commands that have no effect when they are reported as failed. Section 3 lists
what breaks each of them; TLC shows it on `core`, `confirm` and `live` with the
constants changed accordingly.

Where a property of `Client` needs a proviso: generations begin at 1 again when a
state is deleted (`RetirePeer`, a tunnel that changes) and created anew, so a
goroutine of the former state can pass the fence of the new one. `SingleActor`,
`PromotesWhatItSaw` and `StoppedStaysDown` leave out servers to which this
happened (`reused`); each of the three is violated without the proviso when the
environment makes two changes, the last one after `Stop` by a watcher of the
former state. It is listed as a hazard (`main.go:191`). A crash ends all goroutines and with them the old generations.

### Findings

1. *client_stuck* (code bug). `runProbeWorker` returns from a failed promotion
   without clearing `WorkerRunning` (`probe.go:328`): the server stays in mode
   probe and is not retried, against `docs/operations.md:84` ("Shared client
   Direct retry: 15 s, 30 s, 60 s, then 5 min.").

## 3. Proofs

Every invariant and every action property that a run checks is also a theorem,
for every value of the constants that satisfies the assumptions of the module
and, where this section names one, the hypothesis of the theorem. No bound of a
run is assumed anywhere.

### Agent

`AgentProofs.tla`:

- `TypeCorrect`: `Spec => []TypeOK`. `TypeOK` is not inductive: a visit of a
  pass needs a state to work on, and a worker a candidate. The invariant
  `TypeInv` adds `PassInv` (the peers still to visit are tracked, because
  whoever deletes one needs the lock the pass holds) and `WorkerData` (a worker
  in `setup`, `poll` or `promote` has a candidate and an endpoint). One lemma
  per operation shows that it keeps the types, two more that `Next` keeps the
  strengthenings.
- `StaleInert`: `Spec => StaleWorkerInert`. Every step of a worker that writes
  is guarded by the comparison of generations; the proof goes through them.

`AgentSafetyProofs.tla`, in five parts that build on each other. What a handler
does to one peer is stated once, in lemmas (`OfferEffect`, `RemoveEffect`,
`CleanupEffect`, `PeerVisited`, one for each worker step, `EnvironmentEffect`,
`RestartEffect`), and the invariants are proved from these.

1. `GenerationsAreFences` and `OneActorPerPeer`, without hypotheses. `FenceInv`
   strengthens `GenerationsFence` by: the launches of a pass have generations no
   thread has; a thread's generation is its own peer's or nobody's; and a probe
   whose generation has a confirm6 thread is in its finally block, which is why
   a promotion may start a second thread of the same generation. A step keeps
   generations, takes the next one for one peer (`RenewedFence`), or moves a
   thread on (`MovedFence`).
2. `NoRouteIsLost`. Inductive by itself, given the types. Hypothesis: the agent
   is no initiator, or commands do not fail without effect.
3. `HealthyDirectsSurvive`. `RouteInv`: a pass still sees the routes of the peers
   it has not visited (`PassSees`), a peer with a running probe has no `/32`
   (`ProbesUnrouted`), and once a confirmation has taken over no probe acts
   (`NotHandedOn`). So what a probe removes is no direct, and the pass acts on
   routes that are there. Without `Host6` there are no confirmations
   (`NoConfirms`).
4. `RecordedModesMatch` and `ExpiredPeersAreDirect`. `DirectInv` adds that the
   kernel peer a thread is about to make direct has its handshake still
   (`LandsAlive`), and that what a pass saw with a handshake has one still
   (`PassSeesShaken`). A re-key clears the handshake, but the probe of its
   generation is over (`RekeyLanding`, from the fence). `ExpiredInv`: a peer
   without a control session has a route and no probe, so only a pass takes the
   route out, and the peer with it.
5. `RunningPeersHaveWorkers`. `RunInv` adds that the launches of a pass are for
   peers it has visited; a pass that raises at a peer then loses the threads of
   other peers only.

The hypotheses of parts 2 to 5, and what happens without them. Each line was
tried with TLC on instances of one or two peers, and the property was violated:

| Theorem | Excluded | Because |
| --- | --- | --- |
| `NoRouteIsLost` | initiators with failing commands | `cleanup_initiator_states` drops the state of a peer it could not remove (531-535) |
| `HealthyDirectsSurvive` | restarts | without the state file `cleanup_orphans` (1468) takes healthy directs for orphans |
| | commands that time out | a removal that is reported as failed has taken the route out |
| | re-keys with failing commands | the peer is removed and not set again (738-748) |
| `RecordedModesMatch` | restarts, commands that time out | as above; the file is older than the kernel |
| | initiators with failing commands | an orphan route is found by the next offer of the peer |
| | re-keys with failing commands | the failed re-key leaves a route behind in mode idle |
| `ExpiredPeersAreDirect` | restarts, commands that time out | as above |
| | re-keys | a confirmation that times out (838) ends the direct and leaves the peer |
| `RunningPeersHaveWorkers` | failing saves | an offer that cannot save does not start its thread |
| | two peers with failing commands | a pass that raises loses its launches (1384, 1434) |

### Coordinator

`CoordinatorProofs.tla` proves about `Coordinator`, for any nodes, servers,
threads and any number of faults:

- `CoordinatorTyped`: `Spec => []TypeOK`.
- `OffersAreNew`: `Spec => []AwaitedOffersAreNew`.
- `RegistryImplemented`: `Spec => ImplementsRegistry`, the refinement.
- `AckedHeld`: `Spec => []AckedIsHeld`.
- `CountedAnswersStay`: `Spec => AnswersStay`.

The first three come from one inductive invariant, `FenceInv`. Sessions are
fenced by their numbers: no message and no holding of an agent is later than the
live session of its node, and no removal under way names the live session
(`NetInv`, `HeldInv`). This lasts because sessions are only opened and offered
with `COORDINATE_LOCK`: there is one thread between `Enter` and `Record`
(`LockInv`), it works for the session that is live, if one is (`RequestInv`),
and a message that is waited for is its own, one for each server (`AwaitInv`,
`UniqueInv`). The refinement needs it for `Deliver`: an offer that is accepted
carries a number the registry has opened, so holding it is a `MoveOn`; a removal
that is applied names a session that is no longer live, so dropping it is a
`LetGo`. The steps of threads that change neither leave the registry as it is.

An acknowledgement is recorded after the answer came, by another step, so for
`AckedHeld` the invariant `AckInv` also speaks of the answers a thread has
collected (`AnswerInv`): while the session it pushes is live, the servers that
answered have it. Every action either leaves the agents' live sessions alone
(`HoldsLive`) or is a message, which `FenceInv` keeps from doing harm; what a
thread then records is founded on what it holds.

`CountedAnswersStay` goes through the steps (`AnswersStayPut`), for all servers,
those that sync included. Most count nothing new and drop nothing; `Record`
counts servers whose answers it stores; those that drop tables drop the
acknowledgements with them (`AnnouncementExpires`, `ReapEmpty`, a restart) or are
the server's own end (`CloseKeepsAnswers`): another session that ends leaves the
answers, because the session that counts them is still there.

### Client

`ClientProofs.tla` proves about `Client`, for any servers, goroutines, candidate
lists and numbers of faults and changes:

- `ClientTyped`: `Spec => []TypeOK`.
- `ClientSingleActor`: `Spec => []SingleActor`.
- `PromotesSeen`: `Spec => PromotesWhatItSaw`.
- `StoppedIsFinal`: `Spec => []StoppedStaysDown`.

`TypeInv` strengthens `TypeOK` as in `Agent`: a goroutine that tries a candidate
has one (`Equipped`), and a pass reconciles only servers that announced some
(`Answered`). `SingleActor` alone is not inductive, because a probe that is
stopped by the flag only could be let through when the flag is set for another.
`FenceInv` says of every server that no probe is ahead of its generation, at
most one is up to date, and what is true of that one (`Guarded`): if the flag is
down, the server is direct and has a `/32`, and a pass that has still to
reconcile it saw the `/32`. From such a state the code starts no probe without
moving the generation, which is why stopped probes stay stopped. If it is about
to promote, the kernel peer has a handshake, since whoever removes the peer
moves the generation too; `PromotesSeen` is that conjunct. `LoopInv` adds that
without a tunnel there are no states and no pass. One lemma per group of actions
shows that it keeps the fence; four more say what a step may do to it:
`Untouched`, `Bumped`, `Launched` and `Elsewhere`.

`StopInv` extends the fence to watchers: no goroutine is ahead of the state of
its server, and after the clean-up, which moves every generation on, each is
behind it. From then on states go or get later generations (`Ageing`), so
nobody passes a fence any more.

### Candidates

`CandidatesProofs.tla` proves about `Candidates`, for any addresses, situations
of the host and limits:

- `CandidatesTyped`: `Spec => []TypeOK`.
- `NoOfferIsRefused`: `Spec => []OffersAccepted`.
- `ObservedEndpointIsProbed`: `Spec => []ObservedIsProbed`, if `MaxProbe >= 3`
  (the code has 5).

Lists are cut to the elements that few others come before, so everything rests
on the order: `BeforeIsOrder` shows it strict and total on what is gathered,
because the priority of a candidate tells its type; hence a non-empty finite set
has a first element (`FirstExists`), and what is kept of a set is finite and no
larger than the limit. One lemma per operator says what it returns (`GatherTypes`
to `SelectedTypes`). The invariant: what is recorded, coordinated or offered was
once gathered by the host, or is nothing. A candidate of type observed4 gets the
last place unless it is among the first ones (`ObservedIsSelected`). If the
observed endpoint is a lan4 candidate there is none of that type, and only other
lan4 candidates come before it: the LAN address of the offer and the one an
announcement may have (`BestAreSelected`, `PairIsSmall`), for which three places
are enough.

### PortMap

`PortMapProofs.tla` proves about `PortMap`, for any networks, lifetimes, margins
and delays shorter than the margin:

- `TypeCorrect`: `Spec => []TypeOK`.
- `AdvertisedMappingExists`: `Spec => []AdvertisedIsMapped`.
- `NoGap`: `Spec => []StaysMapped`, if `Spare > Poll + Delay + Margin`.

The invariant (`Inv`) says that neither the mapper nor the file is ahead of the
router by more than `Delay` unless the mapping is unsure (`NotAhead`), that a
grant on its way has lost no more of its time than the request has taken
(`GrantHolds`), and that a request is for an address and a file without one is
empty (`RealKeys`). A tick
takes the same from all of them; an answer turns the second fact into the first.

`Spare` is what is left of a mapping when its refresh is due. `SteadyInv` says
what is left at each place of the daemon's loop: at least `Spare` and the time
to the refresh; then no less than `Spare` but for the part of the round that has
passed; then a round and the time the request has taken less. With the code's
defaults `Spare` is 1200 s, against a poll of 60 s, a margin of 15 s and three
requests with time-outs of a few seconds.

### Notification

`NotificationProofs.tla` proves about `Notification`, for any notifications,
threads, limits and clocks:

- `TypeCorrect`: `Spec => []TypeOK`, the limit of the cache included.
- `HandedOverOnce`: `Spec => []AtMostOnce`.

That no nonce is forgotten too early needs three facts about a notification that
was handed over: the time it was, and every time a thread is about to consume it
by, is within the skew of its timestamp (`InWindow`), and it is still in the
cache with such a time unless it was evicted, lost, or purged for a time past its
window (`Remembered`). A purge for time `now` drops what is older than `now -
Ttl`; with `Ttl >= 2 * Skew` that is past the window, whatever the order in
which the threads purge. The assumption is what relates lines 81 and 82.

### Update

`UpdateProofs.tla` proves about `Update`, for any hosts, files, releases and
faults:

- `UpdateTyped`: `Spec => []TypeOK`.
- `MixturesAreGone`: `Spec => []MixturesAreReplaced`.
- `UpdatesAreAllOrNothing`: `Spec => []DoneOrUndone`.
- `PublishedReleasesAreComplete`: `Spec => []PublishedIsComplete`.

The invariant says of each place an attempt can be at what it has copied
(`Copied`) and, on hosts no attempt was cut short on, what it can go back to and
how far it has (`Undoable`): the record is the whole of a version that works, and
the files before the one to be restored are as recorded, but for those that were
not there. `Copied` holds on all hosts, which is why an attempt that succeeds
settles a host that an earlier one was cut short on, and why the health check
looks at whole files everywhere: systemd may start the service at any moment,
but between the restart and the check there is only one version to start.
`Settled` speaks of the service unless the host is `unheard`. `PublishedInv` adds
that the release an attempt would link back to stays complete while it writes
another one, and that the one it writes is complete when it switches the link.

`LinkInv`, proved on top of these, says when the VPS may write in place: unless
it was cut short or its link is `stranded`, the link points to the version it
has installed, or will go back to it (`was` is the version on record, or there is
no link). An attempt that is not forced then finds itself current, unless the
release was left half way before.

### Assumptions

Of Client: the servers are finitely many, lists are non-empty, the null values
differ from the records. Of Agent: `Keys` is finite (a restart counts the peers
it loads), candidate lists are non-empty, the null values differ from the
records, commands and saves can succeed. Of Coordinator: the nodes are finitely
many, the null values differ from the records. Of Notification: finitely many
notifications, `Ttl >= 2 * Skew`. Of PortMap: the times are natural numbers,
`Delay < Margin`, refreshes take less than the 15 s of the reader. Of
Candidates: the addresses are finitely many, of three disjoint kinds. Of Update:
there is a file and a release, the first release works, and every release has
the first file.

Only model-checked: what needs fairness, since liveness and ENABLED are beyond
the prover: `WorkersFinish`, `LeaseOverIsNoticed` and `StaleDirectFallsBack` of
Agent, `Convergence` and `GoneIsForgotten` of Coordinator,
`StaleDirectFallsBack` and `RetriesContinue` of Client, `UpdatesArrive`,
`MappingArrives` and `ProbesSettle`.

## 4. Plan

1. *Proofs*: the safety parts of the liveness properties (what a step towards
   the goal may not undo), as invariants and action properties with theorems;
   versions of the theorems about `Agent` that survive a restart after which the
   file and the kernel agree.
2. *ControlPlane*: the reply of a sync joined to `Coordinator`, and the session
   handling of `Agent` shown to be the one `SessionRegistry` allows its agents.
3. *Update*: the self-update of the Go client. *Roles*: the two registries and a
   Coordinator that reads them while they change.

Runs: one instance per actor count that can race (two clients or two servers
at most, one fault), the proofs for the rest.

## 5. Not modelled

GUI, installers and CI (no protocol state). Parsing and validation of requests
beyond their result; the packets of PCP, NAT-PMP and UPnP; HMAC and checksums
beyond what they tell apart. The contents of candidates in `Agent`. The HTTP
servers and their limits. `set_node_role`, which writes two files in a row under
one administrator: a crash in between leaves a node in both registries, where the
Coordinator takes it for relay-only (`peers_api.py` 145), or in none, where it is
a client, until the role is set again. The self-update of the Go
client: it replaces one executable and runs outside the protocol. `candidate.go`,
whose selection is that of `candidates.py`. The reply of a sync: one whose session
expired meanwhile carries no `session_started_ns`, and a server that initiates
then cleans up its peers (`p2p_agent.py:554`). Clocks set back at the
Coordinator. In the client, a pass that starts a probe on a direct promoted after
it looked (`probe.go:56`). `PROJECT.json` lists every part with its status.
