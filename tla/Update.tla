------------------------------- MODULE Update -------------------------------
(***************************************************************************)
(* `wireguard-p2p update` on the VPS and on the servers (update_vps and    *)
(* update_server of manage/wireguard-p2p.py).                              *)
(*                                                                         *)
(* The VPS takes the latest release, publishes its packages under          *)
(* updates/current for the servers, replaces its own files one by one,     *)
(* restarts its service and waits for it to report the new version.  A     *)
(* server takes what the VPS has published, in two requests, and does the  *)
(* same with its files.  When a step raises, the files, the link and the   *)
(* services are put back; what raises in there, or kills the manager, ends *)
(* the attempt where it is.  That the services do not start again then is  *)
(* not noticed.  Meanwhile systemd starts a service that has died from     *)
(* whatever files there are.                                               *)
(*                                                                         *)
(* Files are numbered in the order they are copied in; file 1 is the       *)
(* program that carries VERSION.  The content of a file is the version it  *)
(* comes from.  Everything that departs from the ordinary course (a step   *)
(* that raises, a crash, a service that works and dies, an update --force) *)
(* is a fault.                                                             *)
(***************************************************************************)
EXTENDS Naturals

CONSTANTS
    Vps, Servers,  \* the hosts
    MaxVersion,    \* bound: releases
    NumFiles,      \* files of a host
    FilesOf,       \* the files a version consists of; the manager installs all or none
    Broken,        \* versions whose service never becomes healthy
    MaxFaults      \* bound: faults

Hosts == Servers \cup {Vps}
Versions == 1..MaxVersion
Files == 1..NumFiles

\* A file that is not there, and one that was cut short.
Missing == 0
Torn == MaxVersion + 1
NoFiles == [f \in Files |-> Missing]

ASSUME VersionsAssumption ==
    /\ MaxVersion \in Nat \ {0} /\ NumFiles \in Nat \ {0} /\ MaxFaults \in Nat
    /\ Broken \subseteq Versions \ {1}
    /\ FilesOf \in [Versions -> SUBSET Files] /\ \A v \in Versions : 1 \in FilesOf[v]
ASSUME HostsAssumption == Vps \notin Servers

-----------------------------------------------------------------------------
(* State *)

VARIABLES
    latest,     \* the latest release on GitHub
    installed,  \* host -> its files
    running,    \* host -> the files its service was started from; NoFiles: it does not start
    releases,   \* updates/releases: what of a version is readable
    current,    \* the version updates/current points to, 0 when there is no link
    job,        \* host -> the attempt in progress
    faults,     \* faults so far
    cut,        \* history: hosts whose files an attempt left half way
    spoiled,    \* history: published versions whose rewriting was left half way
    unheard,    \* history: hosts whose services were not started after a rollback
    stranded    \* history: a failed first publication is what the link points to

history == <<cut, spoiled, unheard, stranded>>
vars == <<latest, installed, running, releases, current, job, faults, history>>

Contents == 0..Torn

\* record: backup_files; was: old_current; forced: --force, of the VPS.
Jobs ==
    [pc : {"idle", "fetch", "manifest", "assets", "switch", "copy", "restart", "health",
           "restore", "relink", "bounce"},
     target : Versions, file : Files, record : [Files -> Contents], was : {0} \cup Versions,
     forced : BOOLEAN]

NoJob == [pc |-> "idle", target |-> 1, file |-> 1, record |-> NoFiles, was |-> 0,
          forced |-> FALSE]

TypeOK ==
    /\ latest \in Versions /\ current \in {0} \cup Versions /\ faults \in 0..MaxFaults
    /\ installed \in [Hosts -> [Files -> Contents]]
    /\ running \in [Hosts -> [Files -> Contents]]
    /\ releases \in [Versions -> [manifest : BOOLEAN, assets : BOOLEAN]]
    /\ job \in [Hosts -> Jobs]
    /\ cut \subseteq Hosts /\ spoiled \subseteq Versions
    /\ unheard \subseteq Hosts /\ stranded \in BOOLEAN

FirstFiles == [f \in Files |-> IF f \in FilesOf[1] THEN 1 ELSE Missing]

\* Version 1 is installed everywhere; the VPS may not have published it.
Init ==
    /\ latest = 1 /\ current \in {0, 1} /\ faults = 0
    /\ cut = {} /\ spoiled = {} /\ unheard = {} /\ stranded = FALSE
    /\ installed = [h \in Hosts |-> FirstFiles] /\ running = installed
    /\ releases = [v \in Versions |-> [manifest |-> v = current, assets |-> v = current]]
    /\ job = [h \in Hosts |-> NoJob]

-----------------------------------------------------------------------------
(* Helpers *)

Fault == faults < MaxFaults /\ faults' = faults + 1

At(h, pc) == job[h].pc = pc

\* All files of the version that file 1 comes from.
Whole(files) ==
    files[1] \in Versions /\ \A f \in FilesOf[files[1]] : files[f] = files[1]

\* What a service runs after a start; files of several versions may work or not.
Loaded(files) ==
    IF Whole(files) THEN {files} ELSE
    IF files[1] \in Versions /\ \A f \in FilesOf[files[1]] : files[f] # Torn
    THEN {files, NoFiles} ELSE {NoFiles}

HealthyVersion(h) == running[h] # NoFiles /\ running[h][1] \notin Broken

\* A mistake: either is enough.
AlreadyCurrentEither(target) ==
    target = installed[Vps][1] \/ (current = target /\ releases[target].manifest)

\* The VPS has the release, and its cache is ready.
AlreadyCurrent(target) ==
    target = installed[Vps][1] /\ current = target /\ releases[target].manifest

\* verify_asset: the package is that of the manifest read before.
SameAsset(target) == current = target /\ releases[current].assets

\* The attempt goes on after a step that did not raise.
Goes(h, pc) == job' = [job EXCEPT ![h].pc = pc, ![h].file = 1]

Ends(h) == job' = [job EXCEPT ![h] = NoJob]

BackedUp(h) == installed[h]

\* The attempt on h begins with pc: backup_files, and what is to be put back.
Begins(h, target, pc, force) ==
    job' = [job EXCEPT ![h] =
        [pc |-> pc, target |-> target, file |-> 1, record |-> BackedUp(h), was |-> current,
         forced |-> force]]

\* A mistake: one file too many.
NextFileLate(h, pc, next) ==
    IF job[h].file > NumFiles THEN Goes(h, next) ELSE job' = [job EXCEPT ![h].file = @ + 1]

\* The next file to be copied or restored.
NextFile(h, pc, next) ==
    IF job[h].file = NumFiles THEN Goes(h, next) ELSE job' = [job EXCEPT ![h].file = @ + 1]

-----------------------------------------------------------------------------
(* How an attempt begins *)

Release ==
    /\ latest < MaxVersion /\ latest' = latest + 1
    /\ UNCHANGED <<installed, running, releases, current, job, faults, history>>

\* update_vps up to the first write into the release directory.
UpdateVps(force) ==
    /\ At(Vps, "idle") /\ FilesOf[latest] = Files
    /\ IF force THEN Fault ELSE UNCHANGED faults
    /\ force \/ ~AlreadyCurrent(latest)
    /\ Begins(Vps, latest, "manifest", force)
    /\ releases' = [releases EXCEPT ![latest].manifest = FALSE]
    /\ UNCHANGED <<latest, installed, running, current, history>>

\* update_server: the manifest, served by the Coordinator.
UpdateServer(s, force) ==
    /\ At(s, "idle") /\ HealthyVersion(Vps)
    /\ current # 0 /\ releases[current].manifest
    /\ IF force THEN Fault ELSE UNCHANGED faults
    /\ force \/ installed[s][1] # current
    /\ job' = [job EXCEPT ![s].pc = "fetch", ![s].target = current]
    /\ UNCHANGED <<latest, installed, running, releases, current, history>>

\* The package, by a second request: what is published by now.  When it is not
\* the one of the manifest, or lacks a file, the update ends before anything
\* was touched.
Fetches(s) ==
    /\ At(s, "fetch")
    /\ IF HealthyVersion(Vps) /\ current # 0 /\ SameAsset(job[s].target) /\ FilesOf[current] = Files
       THEN Begins(s, current, "copy", FALSE)
       ELSE Ends(s)
    /\ UNCHANGED <<latest, installed, running, releases, current, faults, history>>

-----------------------------------------------------------------------------
(* Publishing, by the VPS *)

\* A mistake: the link is switched when the manifest is there.
PublishesManifestOnly ==
    /\ At(Vps, "manifest")
    /\ releases' = [releases EXCEPT ![job[Vps].target] = [manifest |-> TRUE, assets |-> FALSE]]
    /\ Goes(Vps, "switch")
    /\ UNCHANGED <<latest, installed, running, current, faults, history>>

PublishesManifest ==
    /\ At(Vps, "manifest")
    /\ releases' = [releases EXCEPT ![job[Vps].target] = [manifest |-> TRUE, assets |-> FALSE]]
    /\ Goes(Vps, "assets")
    /\ UNCHANGED <<latest, installed, running, current, faults, history>>

PublishesAssets ==
    /\ At(Vps, "assets")
    /\ releases' = [releases EXCEPT ![job[Vps].target].assets = TRUE]
    /\ spoiled' = spoiled \ {job[Vps].target}
    /\ Goes(Vps, "switch")
    /\ UNCHANGED <<latest, installed, running, current, faults, cut, unheard, stranded>>

Switches ==
    /\ At(Vps, "switch")
    /\ current' = job[Vps].target
    /\ Goes(Vps, "copy")
    /\ UNCHANGED <<latest, installed, running, releases, faults, history>>

-----------------------------------------------------------------------------
(* Installing and starting *)

\* The service of h is started from the files that are there.
Starts(h) == \E files \in Loaded(installed[h]) : running' = [running EXCEPT ![h] = files]

\* The service has died, which one that works seldom does, and systemd starts
\* it again after a few seconds, whatever the manager is at.
SystemdStarts(h) ==
    /\ IF HealthyVersion(h) THEN Fault ELSE UNCHANGED faults
    /\ Starts(h)
    /\ UNCHANGED <<latest, installed, releases, current, job, history>>

Copies(h) ==
    /\ At(h, "copy")
    /\ installed' = [installed EXCEPT ![h][job[h].file] = job[h].target]
    /\ NextFile(h, "copy", "restart")
    /\ UNCHANGED <<latest, running, releases, current, faults, history>>

\* A mistake: "systemctl start", which leaves a service alone that runs.
StartsOnly(h) ==
    /\ At(h, "restart")
    /\ IF running[h] # NoFiles THEN UNCHANGED running ELSE Starts(h)
    /\ Goes(h, "health")
    /\ UNCHANGED <<latest, installed, releases, current, faults, history>>

Restarts(h) ==
    /\ At(h, "restart")
    /\ Starts(h)
    /\ Goes(h, "health")
    /\ UNCHANGED <<latest, installed, releases, current, faults, history>>

\* A mistake: any service that answers is the new one.
PassesAny(h) == running[h] # NoFiles

Passes(h) ==
    /\ HealthyVersion(h) /\ running[h][1] = job[h].target
    /\ h = Vps => current # 0 /\ releases[current].manifest

\* The service reports the new version: the update is done.
Succeeds(h) ==
    /\ At(h, "health") /\ Passes(h)
    /\ Ends(h)
    /\ cut' = cut \ {h} /\ unheard' = unheard \ {h} /\ stranded' = (stranded /\ h # Vps)
    /\ UNCHANGED <<latest, installed, running, releases, current, faults, spoiled>>

\* It did not within 12 seconds.
Unhealthy(h) ==
    /\ At(h, "health") /\ ~Passes(h)
    /\ Goes(h, "restore")
    /\ UNCHANGED <<latest, installed, running, releases, current, faults, history>>

\* The file being written when an attempt is interrupted.
Interrupted(h) ==
    IF At(h, "copy") \/ (At(h, "restore") /\ job[h].record[job[h].file] # Missing)
    THEN {installed, [installed EXCEPT ![h][job[h].file] = Torn]} ELSE {installed}

\* Whether an interrupted publication leaves the published release incomplete.
Spoils(h) ==
    IF h = Vps /\ job[h].pc \in {"manifest", "assets"} /\ job[h].target = current
    THEN {job[h].target} ELSE {}

\* A step of the try block raises; when it is the restart, the service may be
\* stopped by then.
StepRaises(h) ==
    /\ job[h].pc \in {"manifest", "assets", "switch", "copy", "restart", "health"}
    /\ Fault
    /\ installed' \in Interrupted(h)
    /\ running' \in {running} \cup
           (IF At(h, "restart") THEN {[running EXCEPT ![h] = NoFiles]} ELSE {})
    /\ spoiled' = spoiled \cup Spoils(h)
    /\ Goes(h, "restore")
    /\ UNCHANGED <<latest, releases, current, cut, unheard, stranded>>

-----------------------------------------------------------------------------
(* Putting everything back *)

\* restore_files leaves alone what was not there before.
Restored(h, f) == IF job[h].record[f] = Missing THEN installed[h][f] ELSE job[h].record[f]

Restores(h) ==
    /\ At(h, "restore")
    /\ installed' = [installed EXCEPT ![h][job[h].file] = Restored(h, job[h].file)]
    /\ NextFile(h, "restore", IF h = Vps THEN "relink" ELSE "bounce")
    /\ UNCHANGED <<latest, running, releases, current, faults, history>>

\* The rollback itself raises, and nothing more is done.
RollbackRaises(h) ==
    /\ job[h].pc \in {"restore", "relink"}
    /\ Fault
    /\ installed' \in Interrupted(h)
    /\ cut' = cut \cup {h}
    /\ Ends(h)
    /\ UNCHANGED <<latest, running, releases, current, spoiled, unheard, stranded>>

\* The link is taken back, if there was one.
Relinks ==
    /\ At(Vps, "relink")
    /\ current' = IF job[Vps].was = 0 THEN current ELSE job[Vps].was
    /\ stranded' = (stranded \/ (job[Vps].was = 0 /\ current # 0))
    /\ Goes(Vps, "bounce")
    /\ UNCHANGED <<latest, installed, running, releases, faults, cut, spoiled, unheard>>

\* The service is started from the restored files.
Bounces(h) ==
    /\ At(h, "bounce")
    /\ Starts(h)
    /\ Ends(h)
    /\ unheard' = unheard \ {h}
    /\ UNCHANGED <<latest, installed, releases, current, faults, cut, spoiled, stranded>>

\* daemon-reload or the restart fails, which nobody looks at: the service is
\* down, goes on as it was, or is started by what systemd knew of its files.
BouncesUnheard(h) ==
    /\ At(h, "bounce")
    /\ Fault
    /\ \E old \in SUBSET Files :
           LET files == [f \in Files |-> IF f \in old THEN running[h][f] ELSE installed[h][f]] IN
           running' \in {[running EXCEPT ![h] = files], [running EXCEPT ![h] = NoFiles]}
    /\ Ends(h)
    /\ unheard' = unheard \cup {h}
    /\ UNCHANGED <<latest, installed, releases, current, cut, spoiled, stranded>>

\* The manager is killed, or the host starts anew with what is on its disk.
Crashes(h) ==
    /\ ~At(h, "idle")
    /\ Fault
    /\ installed' \in Interrupted(h)
    /\ \E files \in {running[h]} \cup Loaded(installed'[h]) : running' = [running EXCEPT ![h] = files]
    /\ cut' = IF job[h].pc \notin {"fetch", "manifest", "assets", "switch"}
              THEN cut \cup {h} ELSE cut
    /\ spoiled' = spoiled \cup Spoils(h)
    /\ Ends(h)
    /\ UNCHANGED <<latest, releases, current, unheard, stranded>>

-----------------------------------------------------------------------------

\* A manager that is at work goes on.
Step(h) ==
    \/ Copies(h) \/ Restarts(h) \/ Succeeds(h) \/ Unhealthy(h) \/ Restores(h) \/ Bounces(h)
    \/ h \in Servers /\ Fetches(h)
    \/ h = Vps /\ (PublishesManifest \/ PublishesAssets \/ Switches \/ Relinks)

Next ==
    \/ Release
    \/ \E force \in BOOLEAN : UpdateVps(force) \/ \E s \in Servers : UpdateServer(s, force)
    \/ \E h \in Hosts : \/ Step(h) \/ StepRaises(h) \/ RollbackRaises(h) \/ BouncesUnheard(h)
                       \/ Crashes(h) \/ SystemdStarts(h)

Spec == Init /\ [][Next]_vars

\* The manager itself, and the units it reads, are among the files that follow
\* the program; one that was cut short does harm if the version needs it.
Usable(h) ==
    \A f \in Files \ {1} : installed[h][f] = Torn =>
        installed[h][1] \in Versions /\ f \notin FilesOf[installed[h][1]]

\* Managers run to their end, and updates are tried again and again.
FairSpec ==
    /\ Spec
    /\ \A h \in Hosts : WF_vars(Step(h))
    /\ WF_vars(Usable(Vps) /\ UpdateVps(FALSE))
    /\ \A s \in Servers : SF_vars(Usable(s) /\ UpdateServer(s, FALSE))

-----------------------------------------------------------------------------
(* Properties *)

\* A mixture of versions, which systemd starts when the service dies while files
\* are replaced, is gone when the health check looks, which it would pass with
\* the first file of the new version, and when the attempt is over.  Outside the
\* check it may live on where an attempt was cut short, or where a rollback could
\* not start the service and did not notice.  (258-267, 375, 287-291, 392-399)
MixturesAreReplaced ==
    \A h \in Hosts : running[h] # NoFiles /\ ~Whole(running[h]) =>
        \/ job[h].pc \in {"copy", "restart", "restore", "relink", "bounce"}
        \/ h \in cut \cup unheard /\ ~At(h, "health")

\* Between two attempts a host has all the files of one version that works: an
\* update is done or undone.  So is its service, started from these files,
\* unless that failed unnoticed after a rollback (291, 399).
DoneOrUndone ==
    \A h \in Hosts \ cut : At(h, "idle") =>
        /\ Whole(installed[h]) /\ installed[h][1] \notin Broken
        /\ h \notin unheard => /\ running[h][1] = installed[h][1] /\ Whole(running[h])
                              /\ HealthyVersion(h)

\* Servers find a complete release behind updates/current, also while the VPS
\* publishes another one and when it takes that back.  The VPS writes the
\* release that is published in place, so that servers may see it half way,
\* only when it is forced to or has not got to that release itself: an attempt
\* was cut short (after 370), or the first publication could not be taken back
\* (393).  If it is interrupted there, the release stays so.  (360-370, 393-397)
PublishedIsComplete ==
    current \notin {0} \cup spoiled =>
        \/ releases[current] = [manifest |-> TRUE, assets |-> TRUE]
        \/ /\ job[Vps].pc \in {"manifest", "assets"} /\ job[Vps].target = current
           /\ job[Vps].forced \/ Vps \in cut \/ stranded

\* A host where an attempt was cut short, or whose service did not start, and
\* where nothing will be tried again: it has the first file of the latest
\* release, or what the manager needs was left torn.
Abandoned(h) == h \in cut \cup unheard /\ (installed[h][1] = latest \/ ~Usable(h))

\* Once a release works and is the last one, trying again gets the VPS and the
\* servers to it, whatever failed before, also hosts that were cut short or
\* whose service did not start; only those that are taken for current stay as
\* they are, because file 1 decides whether there is anything to do, and those
\* that lost the means to try.  (229-232, 301-311)
UpdatesArrive ==
    <>[](/\ latest \notin Broken \cup spoiled /\ FilesOf[latest] = Files
         /\ ~Abandoned(Vps)) =>
        <>[](/\ running[Vps][1] = latest /\ current = latest
             /\ \A s \in Servers : ~Abandoned(s) => running[s][1] = latest)

=============================================================================
