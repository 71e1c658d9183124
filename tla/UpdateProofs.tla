---------------------------- MODULE UpdateProofs ----------------------------
(***************************************************************************)
(* Whatever files the releases consist of, whichever of them do not work,  *)
(* however often attempts fail or are interrupted and whenever systemd     *)
(* starts a service: no mixture of versions outlasts an attempt, an update *)
(* is done or undone, and what is published is whole.                      *)
(***************************************************************************)
EXTENDS Update, TLAPS

-----------------------------------------------------------------------------
(* The inductive invariants *)

\* The host has all the files of a version that works, and runs them unless it
\* could not start the service again.
Settled(h) ==
    /\ Whole(installed[h]) /\ installed[h][1] \notin Broken
    /\ h \notin unheard => Whole(running[h]) /\ running[h][1] = installed[h][1]

Before == {"idle", "fetch"}
Publishing == {"manifest", "assets", "switch"}

\* What an attempt has copied is of its target, also on a host that an earlier
\* attempt was cut short on.
Copied(h) ==
    /\ job[h].pc \notin Before => FilesOf[job[h].target] = Files
    /\ job[h].pc = "copy" => \A f \in Files : f < job[h].file => installed[h][f] = job[h].target
    /\ job[h].pc \in {"restart", "health"} => \A f \in Files : installed[h][f] = job[h].target
    /\ job[h].pc = "health" => running[h] = installed[h]

\* The file is as it was before the attempt; one that was not there then is left.
PutBack(h, f) == job[h].record[f] # Missing => installed[h][f] = job[h].record[f]

\* What an attempt can go back to, and how far it has: on hosts that no
\* attempt was cut short on.
Undoable(h) ==
    /\ job[h].pc \in Before \cup Publishing => Settled(h)
    /\ job[h].pc \in Publishing => job[h].record = installed[h]
    /\ job[h].pc \notin Before => Whole(job[h].record) /\ job[h].record[1] \notin Broken
    /\ job[h].pc = "restore" => \A f \in Files : f < job[h].file => PutBack(h, f)
    /\ job[h].pc \in {"relink", "bounce"} => \A f \in Files : PutBack(h, f)

HostsInv == \A h \in Hosts : Copied(h) /\ (h \notin cut => Undoable(h))

Complete(v) == releases[v] = [manifest |-> TRUE, assets |-> TRUE]

\* The VPS is writing this release.
Rewriting(v) == job[Vps].pc \in {"manifest", "assets"} /\ job[Vps].target = v

\* The published release is complete, so is the one an attempt goes back to,
\* and the one it publishes before it switches the link.
PublishedInv ==
    /\ \A v \in Versions \ spoiled :
           v = current \/ (job[Vps].pc # "idle" /\ v = job[Vps].was) => Complete(v) \/ Rewriting(v)
    /\ job[Vps].pc \in Publishing => job[Vps].was = current
    /\ job[Vps].pc = "assets" => releases[job[Vps].target] = [manifest |-> TRUE, assets |-> FALSE]
    /\ job[Vps].pc = "switch" => Complete(job[Vps].target)

Inv == TypeOK /\ HostsInv /\ PublishedInv

\* The link points to the release that the VPS has, or goes back to, unless it
\* was left behind; only then, or when it is forced to, or when the release was
\* left half way anyway, does the VPS write in place.
LinkInv ==
    /\ job[Vps].pc \in {"copy", "restart", "health"} => current = job[Vps].target
    /\ Vps \notin cut /\ ~stranded =>
           /\ job[Vps].pc \in Before \cup Publishing => current \in {0, installed[Vps][1]}
           /\ job[Vps].pc \notin Before \cup Publishing => job[Vps].was \in {0, job[Vps].record[1]}
           /\ job[Vps].pc = "bounce" => current \in {0, job[Vps].record[1]}
    /\ Rewriting(current) /\ current \notin spoiled =>
           job[Vps].forced \/ Vps \in cut \/ stranded

-----------------------------------------------------------------------------
(* Helpers *)

PCs == {"idle", "fetch", "manifest", "assets", "switch", "copy", "restart", "health",
        "restore", "relink", "bounce"}

LEMMA ConstantFacts ==
    /\ 1 \in Files /\ NumFiles \in Files /\ 1 \in Versions /\ Vps \in Hosts
    /\ 0 \in Contents /\ Torn \in Contents /\ Versions \subseteq Contents
    /\ Versions \subseteq Nat \ {0} /\ Files \subseteq Nat \ {0}
    /\ NoFiles \in [Files -> Contents] /\ NoJob \in Jobs
BY VersionsAssumption DEF Files, Versions, Hosts, Contents, Torn, NoFiles, Missing, NoJob, Jobs

\* The job of a host when its pc and file are assigned.
LEMMA MovesFacts ==
    ASSUME TypeOK, NEW h \in Hosts, NEW pc \in PCs, NEW n \in Files,
           job' = [job EXCEPT ![h].pc = pc, ![h].file = n]
    PROVE /\ job' \in [Hosts -> Jobs]
          /\ job'[h] \in Jobs
          /\ job'[h].pc = pc /\ job'[h].file = n
          /\ job'[h].target = job[h].target /\ job'[h].record = job[h].record
          /\ job'[h].was = job[h].was /\ job'[h].forced = job[h].forced
          /\ \A g \in Hosts \ {h} : job'[g] = job[g]
<1>1. job \in [Hosts -> Jobs] /\ job[h] \in Jobs
  BY DEF TypeOK
<1>2. job' = [job EXCEPT ![h] = [job[h] EXCEPT !.pc = pc, !.file = n]]
  BY <1>1
<1>3. [job[h] EXCEPT !.pc = pc, !.file = n] \in Jobs
  BY <1>1 DEF Jobs, PCs
<1>4. job'[h] = [job[h] EXCEPT !.pc = pc, !.file = n]
  BY <1>1, <1>2
<1> QED BY <1>1, <1>2, <1>3, <1>4 DEF Jobs

LEMMA GoesFacts ==
    ASSUME TypeOK, NEW h \in Hosts, NEW pc \in PCs, Goes(h, pc)
    PROVE /\ job' \in [Hosts -> Jobs]
          /\ job'[h] \in Jobs
          /\ job'[h].pc = pc /\ job'[h].file = 1
          /\ job'[h].target = job[h].target /\ job'[h].record = job[h].record
          /\ job'[h].was = job[h].was /\ job'[h].forced = job[h].forced
          /\ \A g \in Hosts \ {h} : job'[g] = job[g]
<1>1. 1 \in Files /\ job' = [job EXCEPT ![h].pc = pc, ![h].file = 1]
  BY ConstantFacts DEF Goes
<1> QED BY <1>1, MovesFacts

LEMMA EndsFacts ==
    ASSUME TypeOK, NEW h \in Hosts, Ends(h)
    PROVE /\ job' \in [Hosts -> Jobs]
          /\ job'[h] = NoJob /\ job'[h].pc = "idle"
          /\ \A g \in Hosts \ {h} : job'[g] = job[g]
BY ConstantFacts DEF TypeOK, Ends, NoJob

LEMMA BeginsFacts ==
    ASSUME TypeOK, NEW h \in Hosts, NEW target \in Versions, NEW pc \in PCs, NEW force \in BOOLEAN,
           Begins(h, target, pc, force)
    PROVE /\ job' \in [Hosts -> Jobs]
          /\ job'[h] = [pc |-> pc, target |-> target, file |-> 1, record |-> installed[h], was |-> current,
                   forced |-> force]
          /\ \A g \in Hosts \ {h} : job'[g] = job[g]
<1>1. [pc |-> pc, target |-> target, file |-> 1, record |-> installed[h], was |-> current,
                   forced |-> force] \in Jobs
  BY ConstantFacts DEF TypeOK, Jobs, PCs
<1> QED BY <1>1 DEF TypeOK, Begins, BackedUp

\* After a file, either there is a next one, or all are done.
LEMMA NextFileFacts ==
    ASSUME TypeOK, NEW h \in Hosts, NEW pc \in PCs, NEW next \in PCs, At(h, pc), NextFile(h, pc, next)
    PROVE /\ job' \in [Hosts -> Jobs]
          /\ job'[h] \in Jobs
          /\ \/ job[h].file = NumFiles /\ job'[h].pc = next
             \/ job'[h].pc = pc /\ job'[h].file = job[h].file + 1
          /\ job'[h].target = job[h].target /\ job'[h].record = job[h].record
          /\ job'[h].was = job[h].was /\ job'[h].forced = job[h].forced
          /\ \A g \in Hosts \ {h} : job'[g] = job[g]
<1>1. job \in [Hosts -> Jobs] /\ job[h] \in Jobs /\ job[h].file \in 1..NumFiles /\ job[h].pc = pc
  BY DEF TypeOK, Jobs, Files, At
<1>2. CASE job[h].file = NumFiles
  BY <1>1, <1>2, GoesFacts DEF NextFile
<1>3. CASE job[h].file # NumFiles
  <2>1. job' = [job EXCEPT ![h] = [job[h] EXCEPT !.file = job[h].file + 1]]
    BY <1>1, <1>3 DEF NextFile
  <2>2. job[h].file + 1 \in Files
    BY <1>1, <1>3, VersionsAssumption DEF Files
  <2>3. [job[h] EXCEPT !.file = job[h].file + 1] \in Jobs
    BY <1>1, <2>2 DEF Jobs
  <2>4. job'[h] = [job[h] EXCEPT !.file = job[h].file + 1]
    BY <1>1, <2>1
  <2> QED BY <1>1, <2>1, <2>3, <2>4 DEF Jobs
<1> QED BY <1>2, <1>3

\* Whatever a service is started from, it is of a known content; a whole
\* version is what it then runs.
LEMMA LoadedFacts ==
    ASSUME NEW files \in [Files -> Contents], NEW loaded \in Loaded(files)
    PROVE loaded \in [Files -> Contents] /\ (Whole(files) => loaded = files)
BY ConstantFacts DEF Loaded

LEMMA WholeRuns ==
    ASSUME NEW files, Whole(files)
    PROVE files # NoFiles
BY ConstantFacts, VersionsAssumption DEF Whole, NoFiles, Missing, Versions, Files

LEMMA AllCopied ==
    ASSUME NEW v \in Versions, FilesOf[v] = Files, NEW files, \A f \in Files : files[f] = v
    PROVE Whole(files)
<1>1. files[1] = v
  BY ConstantFacts
<1> QED BY <1>1 DEF Whole

LEMMA InterruptedType ==
    ASSUME TypeOK, NEW h \in Hosts, installed' \in Interrupted(h)
    PROVE /\ installed' \in [Hosts -> [Files -> Contents]]
          /\ \A g \in Hosts \ {h} : installed'[g] = installed[g]
          /\ job[h].pc \notin {"copy", "restore"} => installed' = installed
          /\ \A f \in Files \ {job[h].file} : installed'[h][f] = installed[h][f]
          /\ job[h].pc = "restore" /\ job[h].record[job[h].file] = Missing => installed' = installed
<1>1. job[h] \in Jobs /\ job[h].file \in Files /\ installed[h] \in [Files -> Contents]
  BY DEF TypeOK, Jobs
<1>2. installed' = installed \/ installed' = [installed EXCEPT ![h] = [installed[h] EXCEPT ![job[h].file] = Torn]]
  BY <1>1 DEF Interrupted, TypeOK
<1>3. [installed[h] EXCEPT ![job[h].file] = Torn] \in [Files -> Contents]
  BY <1>1, ConstantFacts
<1> QED BY <1>1, <1>2, <1>3 DEF TypeOK, Interrupted, At

\* A step of one host says nothing about the others.
LEMMA OtherHosts ==
    ASSUME HostsInv, NEW g \in Hosts, job'[g] = job[g], installed'[g] = installed[g],
           running'[g] = running[g], g \in cut <=> g \in cut', g \in unheard <=> g \in unheard'
    PROVE Copied(g)' /\ (g \notin cut' => Undoable(g)')
BY DEF HostsInv, Copied, Undoable, Settled, PutBack

\* Nor about the published release, unless it is a step of the VPS that
\* publishes one.
LEMMA PublishedQuiet ==
    ASSUME PublishedInv, releases' = releases, current' = current, spoiled \subseteq spoiled',
           \/ job'[Vps] = job[Vps]
           \/ /\ job[Vps].pc \in {"manifest", "assets"} =>
                     job[Vps].target # current \/ current \in spoiled'
              /\ job'[Vps].pc \notin Publishing
              /\ \/ job'[Vps].pc = "idle"
                 \/ job[Vps].pc # "idle" /\ job'[Vps].was = job[Vps].was
    PROVE PublishedInv'
BY DEF PublishedInv, Complete, Rewriting, Publishing

-----------------------------------------------------------------------------
(* Installing and starting *)

LEMMA CopiesKeeps ==
    ASSUME Inv, NEW h \in Hosts, Copies(h)
    PROVE Inv'
<1>1. TypeOK /\ HostsInv /\ PublishedInv /\ job[h].pc = "copy"
  BY DEF Inv, Copies, At
<1>2. /\ job[h] \in Jobs /\ job[h].file \in 1..NumFiles /\ job[h].target \in Versions
      /\ installed[h] \in [Files -> Contents] /\ NumFiles \in Nat
  BY <1>1, VersionsAssumption DEF TypeOK, Jobs, Files
<1>3. /\ job' \in [Hosts -> Jobs] /\ job'[h] \in Jobs
      /\ \/ job[h].file = NumFiles /\ job'[h].pc = "restart"
         \/ job'[h].pc = "copy" /\ job'[h].file = job[h].file + 1
      /\ job'[h].target = job[h].target /\ job'[h].record = job[h].record
      /\ job'[h].was = job[h].was
      /\ \A g \in Hosts \ {h} : job'[g] = job[g]
  <2>1. At(h, "copy") /\ NextFile(h, "copy", "restart") /\ "copy" \in PCs /\ "restart" \in PCs
    BY DEF Copies, PCs
  <2> QED BY <1>1, <2>1, NextFileFacts
<1>4. /\ installed' = [installed EXCEPT ![h] = [installed[h] EXCEPT ![job[h].file] = job[h].target]]
      /\ UNCHANGED <<latest, running, releases, current, faults, cut, spoiled,
                     unheard, stranded>>
  BY <1>1 DEF Copies, history, TypeOK
<1>5. installed' \in [Hosts -> [Files -> Contents]]
  BY <1>1, <1>2, <1>4, ConstantFacts DEF TypeOK
<1>6. /\ installed'[h] = [installed[h] EXCEPT ![job[h].file] = job[h].target]
      /\ \A g \in Hosts \ {h} : installed'[g] = installed[g]
  BY <1>1, <1>4 DEF TypeOK
<1>7. TypeOK'
  BY <1>1, <1>3, <1>4, <1>5 DEF TypeOK
<1>8. Copied(h)'
  <2>1. FilesOf[job'[h].target] = Files
    BY <1>1, <1>3 DEF HostsInv, Copied, Before
  <2>2. \A f \in Files : f < job[h].file => installed[h][f] = job[h].target
    BY <1>1 DEF HostsInv, Copied
  <2>3. \A f \in Files : f < job[h].file + 1 => installed'[h][f] = job[h].target
    BY <1>2, <1>6, <2>2 DEF Files
  <2> QED BY <1>2, <1>3, <2>1, <2>3 DEF Copied, Files
<1>9. h \notin cut' => Undoable(h)'
  BY <1>1, <1>3, <1>4 DEF HostsInv, Undoable, Before, Publishing
<1>10. HostsInv'
  BY <1>1, <1>3, <1>4, <1>6, <1>8, <1>9, OtherHosts DEF HostsInv
<1>11. PublishedInv'
  BY <1>1, <1>3, <1>4, PublishedQuiet, ConstantFacts DEF Publishing
<1> QED BY <1>7, <1>10, <1>11 DEF Inv

LEMMA RestartsKeeps ==
    ASSUME Inv, NEW h \in Hosts, Restarts(h)
    PROVE Inv'
<1>1. TypeOK /\ HostsInv /\ PublishedInv /\ job[h].pc = "restart"
  BY DEF Inv, Restarts, At
<1>2. /\ job[h] \in Jobs /\ job[h].target \in Versions /\ installed[h] \in [Files -> Contents]
      /\ FilesOf[job[h].target] = Files /\ \A f \in Files : installed[h][f] = job[h].target
  BY <1>1 DEF TypeOK, Jobs, HostsInv, Copied, Before
<1>3. Whole(installed[h])
  BY <1>2, AllCopied
<1>4. /\ running' = [running EXCEPT ![h] = installed[h]]
      /\ Goes(h, "health") /\ "health" \in PCs
      /\ UNCHANGED <<latest, installed, releases, current, faults, cut, spoiled,
                     unheard, stranded>>
  BY <1>2, <1>3, LoadedFacts DEF Restarts, Starts, history, PCs
<1>5. /\ job' \in [Hosts -> Jobs] /\ job'[h].pc = "health"
      /\ job'[h].target = job[h].target /\ job'[h].record = job[h].record
      /\ job'[h].was = job[h].was
      /\ \A g \in Hosts \ {h} : job'[g] = job[g]
  BY <1>1, <1>4, GoesFacts
<1>6. /\ running'[h] = installed[h] /\ running' \in [Hosts -> [Files -> Contents]]
      /\ \A g \in Hosts \ {h} : running'[g] = running[g]
  BY <1>1, <1>4 DEF TypeOK
<1>7. TypeOK'
  BY <1>1, <1>4, <1>5, <1>6 DEF TypeOK
<1>8. Copied(h)'
  BY <1>2, <1>4, <1>5, <1>6 DEF Copied
<1>9. h \notin cut' => Undoable(h)'
  BY <1>1, <1>3, <1>4, <1>5, <1>6 DEF HostsInv, Undoable, Before, Publishing
<1>10. HostsInv'
  BY <1>1, <1>4, <1>5, <1>6, <1>8, <1>9, OtherHosts DEF HostsInv
<1>11. PublishedInv'
  BY <1>1, <1>4, <1>5, PublishedQuiet, ConstantFacts DEF Publishing
<1> QED BY <1>7, <1>10, <1>11 DEF Inv

\* What ends well leaves a settled host, also one that was cut short before.
LEMMA SucceedsKeeps ==
    ASSUME Inv, NEW h \in Hosts, Succeeds(h)
    PROVE Inv'
<1>1. TypeOK /\ HostsInv /\ PublishedInv /\ job[h].pc = "health"
  BY DEF Inv, Succeeds, At
<1>2. /\ job[h].target \in Versions /\ FilesOf[job[h].target] = Files /\ running[h] = installed[h]
      /\ \A f \in Files : installed[h][f] = job[h].target
  BY <1>1 DEF TypeOK, Jobs, HostsInv, Copied, Before
<1>3. Whole(installed[h])
  BY <1>2, AllCopied
<1>4. /\ Ends(h) /\ cut' = cut \ {h} /\ running[h][1] \notin Broken
      /\ unheard' = unheard \ {h} /\ stranded' \in BOOLEAN
      /\ UNCHANGED <<latest, installed, running, releases, current, faults, spoiled>>
  BY <1>1 DEF Succeeds, Passes, HealthyVersion, TypeOK
<1>5. job' \in [Hosts -> Jobs] /\ job'[h].pc = "idle" /\ \A g \in Hosts \ {h} : job'[g] = job[g]
  BY <1>1, <1>4, EndsFacts
<1>6. TypeOK'
  BY <1>1, <1>4, <1>5 DEF TypeOK
<1>7. Copied(h)' /\ Undoable(h)'
  BY <1>2, <1>3, <1>4, <1>5 DEF Copied, Undoable, Settled, Before, Publishing
<1>8. HostsInv'
  BY <1>1, <1>4, <1>5, <1>7, OtherHosts DEF HostsInv
<1>9. PublishedInv'
  BY <1>1, <1>4, <1>5, PublishedQuiet, ConstantFacts DEF Publishing
<1> QED BY <1>6, <1>8, <1>9 DEF Inv

LEMMA UnhealthyKeeps ==
    ASSUME Inv, NEW h \in Hosts, Unhealthy(h)
    PROVE Inv'
<1>1. TypeOK /\ HostsInv /\ PublishedInv /\ job[h].pc = "health"
  BY DEF Inv, Unhealthy, At
<1>2. /\ Goes(h, "restore") /\ "restore" \in PCs
      /\ UNCHANGED <<latest, installed, running, releases, current, faults, cut, spoiled,
                     unheard, stranded>>
  BY DEF Unhealthy, history, PCs
<1>3. /\ job' \in [Hosts -> Jobs] /\ job'[h].pc = "restore" /\ job'[h].file = 1
      /\ job'[h].target = job[h].target /\ job'[h].record = job[h].record
      /\ job'[h].was = job[h].was
      /\ \A g \in Hosts \ {h} : job'[g] = job[g]
  BY <1>1, <1>2, GoesFacts
<1>4. TypeOK'
  BY <1>1, <1>2, <1>3 DEF TypeOK
<1>5. \A f \in Files : ~(f < 1)
  BY DEF Files
<1>6. Copied(h)' /\ (h \notin cut' => Undoable(h)')
  BY <1>1, <1>2, <1>3, <1>5 DEF HostsInv, Copied, Undoable, Before, Publishing
<1>7. HostsInv'
  BY <1>1, <1>2, <1>3, <1>6, OtherHosts DEF HostsInv
<1>8. PublishedInv'
  BY <1>1, <1>2, <1>3, PublishedQuiet, ConstantFacts DEF Publishing
<1> QED BY <1>4, <1>7, <1>8 DEF Inv

\* A step that raises: what can be put back still can.
LEMMA StepRaisesKeeps ==
    ASSUME Inv, NEW h \in Hosts, StepRaises(h)
    PROVE Inv'
<1>1. /\ TypeOK /\ HostsInv /\ PublishedInv
      /\ job[h].pc \in {"manifest", "assets", "switch", "copy", "restart", "health"}
  BY DEF Inv, StepRaises
<1>2. /\ Fault /\ Goes(h, "restore") /\ "restore" \in PCs /\ installed' \in Interrupted(h)
      /\ spoiled' = spoiled \cup Spoils(h)
      /\ UNCHANGED <<latest, releases, current, cut, unheard, stranded>>
      /\ running' = running \/ running' = [running EXCEPT ![h] = NoFiles]
  BY DEF StepRaises, PCs
<1>3. /\ job' \in [Hosts -> Jobs] /\ job'[h].pc = "restore" /\ job'[h].file = 1
      /\ job'[h].target = job[h].target /\ job'[h].record = job[h].record
      /\ job'[h].was = job[h].was
      /\ \A g \in Hosts \ {h} : job'[g] = job[g]
  BY <1>1, <1>2, GoesFacts
<1>4. /\ installed' \in [Hosts -> [Files -> Contents]]
      /\ \A g \in Hosts \ {h} : installed'[g] = installed[g]
  BY <1>1, <1>2, InterruptedType
<1>5. /\ faults' \in 0..MaxFaults /\ Spoils(h) \subseteq Versions
      /\ running' \in [Hosts -> [Files -> Contents]]
      /\ \A g \in Hosts \ {h} : running'[g] = running[g]
  <2>1. faults' \in 0..MaxFaults /\ Spoils(h) \subseteq Versions
    BY <1>1, <1>2, VersionsAssumption DEF Fault, Spoils, TypeOK, Jobs
  <2>2. running \in [Hosts -> [Files -> Contents]]
    BY <1>1 DEF TypeOK
  <2> QED BY <1>2, <2>1, <2>2, ConstantFacts
<1>6. TypeOK'
  BY <1>1, <1>2, <1>3, <1>4, <1>5 DEF TypeOK
<1>7. \A f \in Files : ~(f < 1)
  BY DEF Files
<1>8. Copied(h)' /\ (h \notin cut' => Undoable(h)')
  <2>1. Copied(h)'
    BY <1>1, <1>3 DEF HostsInv, Copied, Before
  <2>2. ASSUME h \notin cut PROVE Whole(job[h].record) /\ job[h].record[1] \notin Broken
    BY <1>1, <2>2 DEF HostsInv, Undoable, Before
  <2> QED BY <1>2, <1>3, <1>7, <2>1, <2>2 DEF Undoable, Before, Publishing
<1>9. HostsInv'
  BY <1>1, <1>2, <1>3, <1>4, <1>5, <1>8, OtherHosts DEF HostsInv
<1>10. PublishedInv'
  <2>1. CASE h = Vps
    <3>1. job[Vps].pc \in {"manifest", "assets"} => job[Vps].target # current \/ current \in spoiled'
      BY <1>2, <2>1 DEF Spoils
    <3> QED BY <1>1, <1>2, <1>3, <2>1, <3>1, PublishedQuiet DEF Publishing
  <2>2. CASE h # Vps
    <3>1. job'[Vps] = job[Vps]
      BY <1>3, <2>2, ConstantFacts
    <3> QED BY <1>1, <1>2, <3>1, PublishedQuiet
  <2> QED BY <2>1, <2>2
<1> QED BY <1>6, <1>9, <1>10 DEF Inv

\* systemd starts a service: from whole files, whenever that matters.
LEMMA SystemdStartsKeeps ==
    ASSUME Inv, NEW h \in Hosts, SystemdStarts(h)
    PROVE Inv'
<1>1. /\ TypeOK /\ HostsInv /\ PublishedInv /\ installed[h] \in [Files -> Contents]
      /\ UNCHANGED <<latest, installed, releases, current, job, cut, spoiled,
                     unheard, stranded>>
  BY DEF Inv, SystemdStarts, TypeOK, history
<1>2. PICK files \in Loaded(installed[h]) : running' = [running EXCEPT ![h] = files]
  BY DEF SystemdStarts, Starts
<1>3. files \in [Files -> Contents] /\ (Whole(installed[h]) => files = installed[h])
  BY <1>1, LoadedFacts
<1>4. /\ running'[h] = files /\ running' \in [Hosts -> [Files -> Contents]]
      /\ \A g \in Hosts \ {h} : running'[g] = running[g]
  BY <1>1, <1>2, <1>3 DEF TypeOK
<1>5. faults' \in 0..MaxFaults
  BY <1>1, VersionsAssumption DEF SystemdStarts, Fault, TypeOK
<1>6. TypeOK'
  BY <1>1, <1>4, <1>5 DEF TypeOK
<1>7. Copied(h)'
  <2>1. ASSUME job[h].pc = "health" PROVE Whole(installed[h])
    <3>1. /\ job[h].target \in Versions /\ FilesOf[job[h].target] = Files
          /\ \A f \in Files : installed[h][f] = job[h].target
      BY <1>1, <2>1 DEF TypeOK, Jobs, HostsInv, Copied, Before
    <3> QED BY <3>1, AllCopied
  <2> QED BY <1>1, <1>3, <1>4, <2>1 DEF HostsInv, Copied
<1>8. h \notin cut' => Undoable(h)'
  <2> SUFFICES ASSUME h \notin cut PROVE Undoable(h)'
    BY <1>1
  <2>1. Undoable(h)
    BY <1>1 DEF HostsInv
  <2>2. Settled(h) => Settled(h)'
    BY <1>1, <1>3, <1>4 DEF Settled
  <2> QED BY <1>1, <2>1, <2>2 DEF Undoable, PutBack
<1>9. HostsInv'
  BY <1>1, <1>4, <1>7, <1>8, OtherHosts DEF HostsInv
<1>10. PublishedInv'
  BY <1>1, PublishedQuiet
<1> QED BY <1>6, <1>9, <1>10 DEF Inv

-----------------------------------------------------------------------------
(* Putting everything back *)

\* When every file that was there is back, the host has the version that it had.
LEMMA AllPutBack ==
    ASSUME NEW h \in Hosts, Whole(job[h].record), \A f \in Files : PutBack(h, f), TypeOK
    PROVE Whole(installed[h]) /\ installed[h][1] = job[h].record[1]
<1>1. /\ job[h].record[1] \in Versions
      /\ \A f \in FilesOf[job[h].record[1]] : job[h].record[f] = job[h].record[1]
  BY DEF Whole
<1>2. \A v \in Versions : v # Missing /\ FilesOf[v] \subseteq Files
  BY VersionsAssumption DEF Versions, Missing
<1>3. installed[h][1] = job[h].record[1]
  BY <1>1, <1>2, ConstantFacts DEF PutBack
<1>4. \A f \in FilesOf[job[h].record[1]] : installed[h][f] = job[h].record[1]
  BY <1>1, <1>2 DEF PutBack
<1> QED BY <1>1, <1>3, <1>4 DEF Whole

LEMMA RestoresKeeps ==
    ASSUME Inv, NEW h \in Hosts, Restores(h)
    PROVE Inv'
<1> DEFINE next == IF h = Vps THEN "relink" ELSE "bounce"
<1>1. TypeOK /\ HostsInv /\ PublishedInv /\ job[h].pc = "restore"
  BY DEF Inv, Restores, At
<1>2. /\ job[h] \in Jobs /\ job[h].file \in 1..NumFiles /\ job[h].record \in [Files -> Contents]
      /\ installed[h] \in [Files -> Contents] /\ NumFiles \in Nat
  BY <1>1, VersionsAssumption DEF TypeOK, Jobs, Files
<1>3. /\ job' \in [Hosts -> Jobs] /\ job'[h] \in Jobs
      /\ \/ job[h].file = NumFiles /\ job'[h].pc \in {"relink", "bounce"}
         \/ job'[h].pc = "restore" /\ job'[h].file = job[h].file + 1
      /\ job'[h].target = job[h].target /\ job'[h].record = job[h].record
      /\ job'[h].was = job[h].was
      /\ \A g \in Hosts \ {h} : job'[g] = job[g]
  <2>1. At(h, "restore") /\ NextFile(h, "restore", next) /\ "restore" \in PCs /\ next \in PCs
    BY DEF Restores, PCs
  <2> QED BY <1>1, <2>1, NextFileFacts
<1>4. /\ installed' = [installed EXCEPT ![h] =
                           [installed[h] EXCEPT ![job[h].file] = Restored(h, job[h].file)]]
      /\ UNCHANGED <<latest, running, releases, current, faults, cut, spoiled,
                     unheard, stranded>>
  BY <1>1 DEF Restores, history, TypeOK
<1>5. Restored(h, job[h].file) \in Contents
  BY <1>2 DEF Restored, Files
<1>6. /\ installed'[h] = [installed[h] EXCEPT ![job[h].file] = Restored(h, job[h].file)]
      /\ installed' \in [Hosts -> [Files -> Contents]]
      /\ \A g \in Hosts \ {h} : installed'[g] = installed[g]
  BY <1>1, <1>2, <1>4, <1>5 DEF TypeOK
<1>7. TypeOK'
  BY <1>1, <1>3, <1>4, <1>6 DEF TypeOK
<1>8. Copied(h)'
  BY <1>1, <1>3 DEF HostsInv, Copied, Before
<1>9. h \notin cut' => Undoable(h)'
  <2> SUFFICES ASSUME h \notin cut PROVE Undoable(h)'
    BY <1>4
  <2>1. /\ Whole(job[h].record) /\ job[h].record[1] \notin Broken
        /\ \A f \in Files : f < job[h].file => PutBack(h, f)
    BY <1>1 DEF HostsInv, Undoable, Before
  <2>2. \A f \in Files : f < job[h].file + 1 => PutBack(h, f)'
    <3> SUFFICES ASSUME NEW f \in Files, f < job[h].file + 1
                 PROVE job[h].record[f] # Missing => installed'[h][f] = job[h].record[f]
      BY <1>3 DEF PutBack
    <3>1. CASE f = job[h].file
      BY <1>2, <1>6, <3>1 DEF Restored, Files
    <3>2. CASE f # job[h].file
      BY <1>2, <1>6, <2>1, <3>2 DEF PutBack, Files
    <3> QED BY <3>1, <3>2
  <2>3. job[h].file = NumFiles => \A f \in Files : PutBack(h, f)'
    BY <1>2, <2>2 DEF Files
  <2> QED BY <1>3, <1>4, <2>1, <2>2, <2>3 DEF Undoable, Before, Publishing
<1>10. HostsInv'
  BY <1>1, <1>3, <1>4, <1>6, <1>8, <1>9, OtherHosts DEF HostsInv
<1>11. PublishedInv'
  BY <1>1, <1>3, <1>4, PublishedQuiet, ConstantFacts DEF Publishing
<1> QED BY <1>7, <1>10, <1>11 DEF Inv

LEMMA RollbackRaisesKeeps ==
    ASSUME Inv, NEW h \in Hosts, RollbackRaises(h)
    PROVE Inv'
<1>1. TypeOK /\ HostsInv /\ PublishedInv /\ job[h].pc \in {"restore", "relink"}
  BY DEF Inv, RollbackRaises
<1>2. /\ Fault /\ Ends(h) /\ installed' \in Interrupted(h) /\ cut' = cut \cup {h}
      /\ UNCHANGED <<latest, running, releases, current, spoiled, unheard, stranded>>
  BY DEF RollbackRaises
<1>3. job' \in [Hosts -> Jobs] /\ job'[h].pc = "idle" /\ \A g \in Hosts \ {h} : job'[g] = job[g]
  BY <1>1, <1>2, EndsFacts
<1>4. /\ installed' \in [Hosts -> [Files -> Contents]]
      /\ \A g \in Hosts \ {h} : installed'[g] = installed[g]
  BY <1>1, <1>2, InterruptedType
<1>5. faults' \in 0..MaxFaults
  BY <1>1, <1>2, VersionsAssumption DEF Fault, TypeOK
<1>6. TypeOK'
  BY <1>1, <1>2, <1>3, <1>4, <1>5 DEF TypeOK
<1>7. Copied(h)' /\ h \in cut'
  BY <1>2, <1>3 DEF Copied, Before
<1>8. HostsInv'
  BY <1>1, <1>2, <1>3, <1>4, <1>7, OtherHosts DEF HostsInv
<1>9. PublishedInv'
  BY <1>1, <1>2, <1>3, PublishedQuiet, ConstantFacts DEF Publishing
<1> QED BY <1>6, <1>8, <1>9 DEF Inv

LEMMA BouncesKeeps ==
    ASSUME Inv, NEW h \in Hosts, Bounces(h)
    PROVE Inv'
<1>1. TypeOK /\ HostsInv /\ PublishedInv /\ job[h].pc = "bounce"
  BY DEF Inv, Bounces, At
<1>2. /\ Ends(h) /\ unheard' = unheard \ {h}
      /\ UNCHANGED <<latest, installed, releases, current, faults, cut, spoiled, stranded>>
      /\ installed[h] \in [Files -> Contents]
  BY <1>1 DEF Bounces, TypeOK
<1>3. PICK files \in Loaded(installed[h]) : running' = [running EXCEPT ![h] = files]
  BY DEF Bounces, Starts
<1>4. files \in [Files -> Contents] /\ (Whole(installed[h]) => files = installed[h])
  BY <1>2, LoadedFacts
<1>5. /\ running'[h] = files /\ running' \in [Hosts -> [Files -> Contents]]
      /\ \A g \in Hosts \ {h} : running'[g] = running[g]
  BY <1>1, <1>3, <1>4 DEF TypeOK
<1>6. job' \in [Hosts -> Jobs] /\ job'[h].pc = "idle" /\ \A g \in Hosts \ {h} : job'[g] = job[g]
  BY <1>1, <1>2, EndsFacts
<1>7. TypeOK'
  BY <1>1, <1>2, <1>5, <1>6 DEF TypeOK
<1>8. h \notin cut => Settled(h)'
  <2> SUFFICES ASSUME h \notin cut PROVE Settled(h)'
    OBVIOUS
  <2>1. Whole(job[h].record) /\ job[h].record[1] \notin Broken /\ \A f \in Files : PutBack(h, f)
    BY <1>1 DEF HostsInv, Undoable, Before
  <2>2. Whole(installed[h]) /\ installed[h][1] = job[h].record[1]
    BY <1>1, <2>1, AllPutBack
  <2> QED BY <1>2, <1>4, <1>5, <2>1, <2>2 DEF Settled
<1>9. Copied(h)' /\ (h \notin cut' => Undoable(h)')
  BY <1>2, <1>6, <1>8 DEF Copied, Undoable, Settled, Before, Publishing
<1>10. HostsInv'
  BY <1>1, <1>2, <1>5, <1>6, <1>9, OtherHosts DEF HostsInv
<1>11. PublishedInv'
  BY <1>1, <1>2, <1>6, PublishedQuiet, ConstantFacts DEF Publishing
<1> QED BY <1>7, <1>10, <1>11 DEF Inv

\* The files are back, and whatever the service is, the host is marked.
LEMMA BouncesUnheardKeeps ==
    ASSUME Inv, NEW h \in Hosts, BouncesUnheard(h)
    PROVE Inv'
<1>1. /\ TypeOK /\ HostsInv /\ PublishedInv /\ job[h].pc = "bounce"
      /\ installed[h] \in [Files -> Contents] /\ running[h] \in [Files -> Contents]
  BY DEF Inv, BouncesUnheard, At, TypeOK
<1>2. /\ Fault /\ Ends(h) /\ unheard' = unheard \cup {h}
      /\ UNCHANGED <<latest, installed, releases, current, cut, spoiled, stranded>>
  BY DEF BouncesUnheard
<1>3. PICK files \in [Files -> Contents] : running' = [running EXCEPT ![h] = files]
  <2>1. PICK old \in SUBSET Files :
            LET files == [f \in Files |-> IF f \in old THEN running[h][f] ELSE installed[h][f]] IN
            running' \in {[running EXCEPT ![h] = files], [running EXCEPT ![h] = NoFiles]}
    BY DEF BouncesUnheard
  <2>2. [f \in Files |-> IF f \in old THEN running[h][f] ELSE installed[h][f]] \in [Files -> Contents]
    BY <1>1
  <2> QED BY <2>1, <2>2, ConstantFacts
<1>4. /\ running' \in [Hosts -> [Files -> Contents]]
      /\ \A g \in Hosts \ {h} : running'[g] = running[g]
  BY <1>1, <1>3 DEF TypeOK
<1>5. job' \in [Hosts -> Jobs] /\ job'[h].pc = "idle" /\ \A g \in Hosts \ {h} : job'[g] = job[g]
  BY <1>1, <1>2, EndsFacts
<1>6. TypeOK'
  BY <1>1, <1>2, <1>4, <1>5, VersionsAssumption DEF TypeOK, Fault
<1>7. h \notin cut => Settled(h)'
  <2> SUFFICES ASSUME h \notin cut PROVE Settled(h)'
    OBVIOUS
  <2>1. Whole(job[h].record) /\ job[h].record[1] \notin Broken /\ \A f \in Files : PutBack(h, f)
    BY <1>1 DEF HostsInv, Undoable, Before
  <2>2. Whole(installed[h]) /\ installed[h][1] = job[h].record[1]
    BY <1>1, <2>1, AllPutBack
  <2> QED BY <1>2, <2>1, <2>2 DEF Settled
<1>8. Copied(h)' /\ (h \notin cut' => Undoable(h)')
  BY <1>2, <1>5, <1>7 DEF Copied, Undoable, Settled, Before, Publishing
<1>9. HostsInv'
  BY <1>1, <1>2, <1>4, <1>5, <1>8, OtherHosts DEF HostsInv
<1>10. PublishedInv'
  BY <1>1, <1>2, <1>5, PublishedQuiet, ConstantFacts DEF Publishing
<1> QED BY <1>6, <1>9, <1>10 DEF Inv

\* A crash before the first file is touched leaves a settled host, and one
\* after that a host that is marked as cut short.
LEMMA CrashesKeeps ==
    ASSUME Inv, NEW h \in Hosts, Crashes(h)
    PROVE Inv'
<1>1. TypeOK /\ HostsInv /\ PublishedInv /\ job[h] \in Jobs
  BY DEF Inv, TypeOK
<1>2. /\ Fault /\ Ends(h) /\ installed' \in Interrupted(h)
      /\ cut' = IF job[h].pc \notin {"fetch", "manifest", "assets", "switch"} THEN cut \cup {h} ELSE cut
      /\ spoiled' = spoiled \cup Spoils(h)
      /\ UNCHANGED <<latest, releases, current, unheard, stranded>> /\ job[h].pc # "idle"
  BY DEF Crashes, At
<1>3. PICK files \in {running[h]} \cup Loaded(installed'[h]) : running' = [running EXCEPT ![h] = files]
  BY DEF Crashes
<1>4. job' \in [Hosts -> Jobs] /\ job'[h].pc = "idle" /\ \A g \in Hosts \ {h} : job'[g] = job[g]
  BY <1>1, <1>2, EndsFacts
<1>5. /\ installed' \in [Hosts -> [Files -> Contents]] /\ installed'[h] \in [Files -> Contents]
      /\ \A g \in Hosts \ {h} : installed'[g] = installed[g]
      /\ job[h].pc \notin {"copy", "restore"} => installed' = installed
  BY <1>1, <1>2, InterruptedType
<1>6. files \in [Files -> Contents] /\ (Whole(installed'[h]) => files \in {running[h], installed'[h]})
  BY <1>1, <1>3, <1>5, LoadedFacts DEF TypeOK
<1>7. /\ running'[h] = files /\ running' \in [Hosts -> [Files -> Contents]]
      /\ \A g \in Hosts \ {h} : running'[g] = running[g]
  BY <1>1, <1>3, <1>6 DEF TypeOK
<1>8. faults' \in 0..MaxFaults /\ Spoils(h) \subseteq Versions
  BY <1>1, <1>2, VersionsAssumption DEF Fault, Spoils, TypeOK, Jobs
<1>9. TypeOK'
  BY <1>1, <1>2, <1>4, <1>5, <1>7, <1>8 DEF TypeOK
<1>10. h \notin cut' => Settled(h)'
  <2> SUFFICES ASSUME h \notin cut' PROVE Settled(h)'
    OBVIOUS
  <2>1. /\ h \notin cut /\ job[h].pc \in {"fetch", "manifest", "assets", "switch"}
        /\ UNCHANGED <<installed, unheard>>
    BY <1>2, <1>5
  <2>2. Settled(h)
    BY <1>1, <2>1 DEF HostsInv, Undoable, Before, Publishing
  <2> QED BY <1>6, <1>7, <2>1, <2>2 DEF Settled
<1>11. Copied(h)' /\ (h \notin cut' => Undoable(h)')
  BY <1>4, <1>10 DEF Copied, Undoable, Settled, Before, Publishing
<1>12. HostsInv'
  BY <1>1, <1>2, <1>4, <1>5, <1>7, <1>11, OtherHosts DEF HostsInv
<1>13. PublishedInv'
  <2>1. CASE h = Vps
    <3>1. job[Vps].pc \in {"manifest", "assets"} => job[Vps].target # current \/ current \in spoiled'
      BY <1>2, <2>1 DEF Spoils
    <3> QED BY <1>1, <1>2, <1>4, <2>1, <3>1, PublishedQuiet DEF Publishing
  <2>2. CASE h # Vps
    <3>1. job'[Vps] = job[Vps]
      BY <1>4, <2>2, ConstantFacts
    <3> QED BY <1>1, <1>2, <3>1, PublishedQuiet
  <2> QED BY <2>1, <2>2
<1> QED BY <1>9, <1>12, <1>13 DEF Inv

-----------------------------------------------------------------------------
(* How an attempt begins, and what the VPS publishes *)

\* On a settled host an attempt begins with what it needs to go back.
LEMMA BeginsHosts ==
    ASSUME Inv, NEW h \in Hosts, NEW target \in Versions, FilesOf[target] = Files,
           NEW pc \in {"manifest", "copy"}, NEW force \in BOOLEAN, job[h].pc \in Before, Begins(h, target, pc, force),
           UNCHANGED <<installed, running, cut, unheard>>
    PROVE job' \in [Hosts -> Jobs] /\ HostsInv'
<1>1. TypeOK /\ HostsInv /\ pc \in PCs
  BY DEF Inv, PCs
<1>2. /\ job' \in [Hosts -> Jobs]
      /\ job'[h] = [pc |-> pc, target |-> target, file |-> 1, record |-> installed[h], was |-> current,
                   forced |-> force]
      /\ \A g \in Hosts \ {h} : job'[g] = job[g]
  BY <1>1, BeginsFacts
<1>3. \A f \in Files : ~(f < 1)
  BY DEF Files
<1>4. Copied(h)' /\ (h \notin cut' => Undoable(h)')
  <2>1. Copied(h)'
    BY <1>2, <1>3 DEF Copied, Before
  <2>2. ASSUME h \notin cut PROVE Undoable(h)'
    <3>1. Settled(h)
      BY <1>1, <2>2 DEF HostsInv, Undoable
    <3> QED BY <1>2, <3>1 DEF Undoable, Settled, Before, Publishing
  <2> QED BY <2>1, <2>2
<1>5. HostsInv'
  BY <1>1, <1>2, <1>4, OtherHosts DEF HostsInv
<1> QED BY <1>2, <1>5

LEMMA UpdateVpsKeeps ==
    ASSUME Inv, NEW force \in BOOLEAN, UpdateVps(force)
    PROVE Inv'
<1>1. /\ TypeOK /\ HostsInv /\ PublishedInv /\ job[Vps].pc = "idle" /\ FilesOf[latest] = Files
      /\ Begins(Vps, latest, "manifest", force) /\ "manifest" \in PCs /\ latest \in Versions /\ Vps \in Hosts
      /\ releases' = [releases EXCEPT ![latest].manifest = FALSE]
      /\ UNCHANGED <<latest, installed, running, current, cut, spoiled, unheard, stranded>>
  BY ConstantFacts DEF Inv, UpdateVps, At, TypeOK, PCs, history
<1>2. job' \in [Hosts -> Jobs] /\ HostsInv'
  BY <1>1, BeginsHosts DEF Before
<1>3. job'[Vps] = [pc |-> "manifest", target |-> latest, file |-> 1, record |-> installed[Vps],
                   was |-> current, forced |-> force]
  BY <1>1, BeginsFacts
<1>4. faults' \in 0..MaxFaults
  BY <1>1, VersionsAssumption DEF UpdateVps, Fault, TypeOK
<1>5. /\ releases' = [releases EXCEPT ![latest] = [releases[latest] EXCEPT !.manifest = FALSE]]
      /\ releases[latest] \in [manifest : BOOLEAN, assets : BOOLEAN]
  BY <1>1 DEF TypeOK
<1>6. releases' \in [Versions -> [manifest : BOOLEAN, assets : BOOLEAN]]
  BY <1>1, <1>5 DEF TypeOK
<1>7. TypeOK'
  BY <1>1, <1>2, <1>4, <1>6 DEF TypeOK
<1>8. \A v \in Versions \ {latest} : releases'[v] = releases[v]
  BY <1>1 DEF TypeOK
<1>9. PublishedInv'
  BY <1>1, <1>3, <1>8 DEF PublishedInv, Complete, Rewriting, Publishing
<1> QED BY <1>2, <1>7, <1>9 DEF Inv

LEMMA UpdateServerKeeps ==
    ASSUME Inv, NEW s \in Servers, NEW force \in BOOLEAN, UpdateServer(s, force)
    PROVE Inv'
<1>1. /\ TypeOK /\ HostsInv /\ PublishedInv /\ job[s].pc = "idle" /\ current \in Versions
      /\ s \in Hosts /\ s # Vps /\ job[s] \in Jobs
      /\ job' = [job EXCEPT ![s].pc = "fetch", ![s].target = current]
      /\ UNCHANGED <<latest, installed, running, releases, current, cut, spoiled,
                     unheard, stranded>>
  BY HostsAssumption DEF Inv, UpdateServer, At, TypeOK, Hosts, history
<1>2. job' = [job EXCEPT ![s] = [job[s] EXCEPT !.pc = "fetch", !.target = current]]
  BY <1>1 DEF TypeOK
<1>3. [job[s] EXCEPT !.pc = "fetch", !.target = current] \in Jobs
  BY <1>1 DEF Jobs
<1>4. /\ job' \in [Hosts -> Jobs] /\ job'[s].pc = "fetch"
      /\ \A g \in Hosts \ {s} : job'[g] = job[g]
  BY <1>1, <1>2, <1>3 DEF TypeOK, Jobs
<1>5. faults' \in 0..MaxFaults
  BY <1>1, VersionsAssumption DEF UpdateServer, Fault, TypeOK
<1>6. TypeOK'
  BY <1>1, <1>4, <1>5 DEF TypeOK
<1>7. Copied(s)' /\ (s \notin cut' => Undoable(s)')
  BY <1>1, <1>4 DEF HostsInv, Copied, Undoable, Settled, Before, Publishing
<1>8. HostsInv'
  BY <1>1, <1>4, <1>7, OtherHosts DEF HostsInv
<1>9. PublishedInv'
  BY <1>1, <1>4, PublishedQuiet, ConstantFacts
<1> QED BY <1>6, <1>8, <1>9 DEF Inv

LEMMA FetchesKeeps ==
    ASSUME Inv, NEW s \in Servers, Fetches(s)
    PROVE Inv'
<1>1. /\ TypeOK /\ HostsInv /\ PublishedInv /\ job[s].pc = "fetch"
      /\ s \in Hosts /\ Vps \in Hosts /\ s # Vps /\ "copy" \in PCs
      /\ UNCHANGED <<latest, installed, running, releases, current, faults, cut, spoiled,
                     unheard, stranded>>
  BY HostsAssumption DEF Inv, Fetches, At, Hosts, PCs, history
<1>2. CASE Begins(s, current, "copy", FALSE) /\ current # 0 /\ FilesOf[current] = Files
  <2>1. current \in Versions
    BY <1>1, <1>2 DEF TypeOK
  <2>2. job' \in [Hosts -> Jobs] /\ HostsInv'
    BY <1>1, <1>2, <2>1, BeginsHosts DEF Before
  <2>3. job'[Vps] = job[Vps]
    BY <1>1, <1>2, <2>1, BeginsFacts
  <2> QED BY <1>1, <2>2, <2>3, PublishedQuiet DEF Inv, TypeOK
<1>3. CASE Ends(s)
  <2>1. job' \in [Hosts -> Jobs] /\ job'[s].pc = "idle" /\ \A g \in Hosts \ {s} : job'[g] = job[g]
    BY <1>1, <1>3, EndsFacts
  <2>2. Copied(s)' /\ (s \notin cut' => Undoable(s)')
    BY <1>1, <2>1 DEF HostsInv, Copied, Undoable, Settled, Before, Publishing
  <2>3. HostsInv'
    BY <1>1, <2>1, <2>2, OtherHosts DEF HostsInv
  <2> QED BY <1>1, <2>1, <2>3, PublishedQuiet DEF Inv, TypeOK
<1> QED BY <1>2, <1>3 DEF Fetches

\* The VPS publishes or goes back with its files as they are.
LEMMA PublishingHosts ==
    ASSUME Inv, NEW pc \in {"assets", "switch", "copy", "bounce"}, Goes(Vps, pc),
           pc = "bounce" => job[Vps].pc = "relink", pc # "bounce" => job[Vps].pc \in Publishing,
           UNCHANGED <<installed, running, cut, unheard>>
    PROVE job' \in [Hosts -> Jobs] /\ HostsInv'
<1>1. TypeOK /\ HostsInv /\ pc \in PCs /\ Vps \in Hosts
  BY ConstantFacts DEF Inv, PCs
<1>2. /\ job' \in [Hosts -> Jobs] /\ job'[Vps].pc = pc /\ job'[Vps].file = 1
      /\ job'[Vps].target = job[Vps].target /\ job'[Vps].record = job[Vps].record
      /\ \A g \in Hosts \ {Vps} : job'[g] = job[g]
  BY <1>1, GoesFacts
<1>3. \A f \in Files : ~(f < 1)
  BY DEF Files
<1>4. Copied(Vps)' /\ (Vps \notin cut' => Undoable(Vps)')
  <2>1. Copied(Vps)'
    BY <1>1, <1>2, <1>3 DEF HostsInv, Copied, Before, Publishing
  <2>2. ASSUME Vps \notin cut PROVE Undoable(Vps)'
    <3>1. Undoable(Vps)
      BY <1>1, <2>2 DEF HostsInv
    <3> QED BY <1>2, <3>1 DEF Undoable, Settled, PutBack, Before, Publishing
  <2> QED BY <2>1, <2>2
<1>5. HostsInv'
  BY <1>1, <1>2, <1>4, OtherHosts DEF HostsInv
<1> QED BY <1>2, <1>5

LEMMA PublishesManifestKeeps ==
    ASSUME Inv, PublishesManifest
    PROVE Inv'
<1>1. /\ TypeOK /\ HostsInv /\ PublishedInv /\ job[Vps].pc = "manifest" /\ Vps \in Hosts
      /\ Goes(Vps, "assets") /\ "assets" \in PCs /\ job[Vps].target \in Versions
      /\ releases' = [releases EXCEPT ![job[Vps].target] = [manifest |-> TRUE, assets |-> FALSE]]
      /\ UNCHANGED <<latest, installed, running, current, faults, cut, spoiled,
                     unheard, stranded>>
  BY ConstantFacts DEF Inv, PublishesManifest, At, TypeOK, Jobs, PCs, history
<1>2. job' \in [Hosts -> Jobs] /\ HostsInv'
  <2>1. job[Vps].pc \in Publishing /\ UNCHANGED <<installed, running, cut, unheard>>
    BY <1>1 DEF Publishing
  <2> QED BY <1>1, <2>1, PublishingHosts
<1>3. /\ job'[Vps].pc = "assets" /\ job'[Vps].target = job[Vps].target
      /\ job'[Vps].was = job[Vps].was
  BY <1>1, GoesFacts
<1>4. /\ releases' \in [Versions -> [manifest : BOOLEAN, assets : BOOLEAN]]
      /\ releases'[job[Vps].target] = [manifest |-> TRUE, assets |-> FALSE]
      /\ \A v \in Versions \ {job[Vps].target} : releases'[v] = releases[v]
  BY <1>1 DEF TypeOK
<1>5. TypeOK'
  BY <1>1, <1>2, <1>4 DEF TypeOK
<1>6. PublishedInv'
  <2> DEFINE t == job[Vps].target
  <2>1. \A v \in Versions \ spoiled :
            v = current \/ (job'[Vps].pc # "idle" /\ v = job'[Vps].was) =>
                v = t \/ releases'[v] = [manifest |-> TRUE, assets |-> TRUE]
    <3> SUFFICES ASSUME NEW v \in Versions \ spoiled, v = current \/ v = job[Vps].was, v # t
                 PROVE releases'[v] = [manifest |-> TRUE, assets |-> TRUE]
      BY <1>3
    <3>1. Complete(v) \/ Rewriting(v)
      BY <1>1 DEF PublishedInv
    <3>2. Complete(v)
      BY <3>1 DEF Rewriting
    <3> QED BY <1>4, <3>2 DEF Complete
  <2>2. job'[Vps].was = current
    BY <1>1, <1>3 DEF PublishedInv, Publishing
  <2>3. Rewriting(t)'
    BY <1>3 DEF Rewriting
  <2> QED BY <1>1, <1>3, <1>4, <2>1, <2>2, <2>3 DEF PublishedInv, Complete, Publishing
<1> QED BY <1>2, <1>5, <1>6 DEF Inv

LEMMA AssetsOf ==
    ASSUME NEW m, NEW a, NEW b
    PROVE [[manifest |-> m, assets |-> a] EXCEPT !.assets = b] = [manifest |-> m, assets |-> b]
OBVIOUS

\* A function changed at one argument: its values and its type.
LEMMA ChangedAt ==
    ASSUME NEW S, NEW T, NEW f \in [S -> T], NEW x \in S, NEW v \in T
    PROVE /\ [f EXCEPT ![x] = v] \in [S -> T]
          /\ [f EXCEPT ![x] = v][x] = v
          /\ \A y \in S \ {x} : [f EXCEPT ![x] = v][y] = f[y]
OBVIOUS

LEMMA PublishesAssetsKeeps ==
    ASSUME Inv, PublishesAssets
    PROVE Inv'
<1>1. /\ TypeOK /\ HostsInv /\ PublishedInv /\ job[Vps].pc = "assets" /\ Vps \in Hosts
      /\ Goes(Vps, "switch") /\ "switch" \in PCs /\ job[Vps].target \in Versions
      /\ releases' = [releases EXCEPT ![job[Vps].target].assets = TRUE]
      /\ spoiled' = spoiled \ {job[Vps].target}
      /\ UNCHANGED <<latest, installed, running, current, faults, cut, unheard, stranded>>
  BY ConstantFacts DEF Inv, PublishesAssets, At, TypeOK, Jobs, PCs
<1>2. job' \in [Hosts -> Jobs] /\ HostsInv'
  <2>1. job[Vps].pc \in Publishing /\ UNCHANGED <<installed, running, cut, unheard>>
    BY <1>1 DEF Publishing
  <2> QED BY <1>1, <2>1, PublishingHosts
<1>3. /\ job'[Vps].pc = "switch" /\ job'[Vps].target = job[Vps].target
      /\ job'[Vps].was = job[Vps].was
  BY <1>1, GoesFacts
<1>4. releases[job[Vps].target] = [manifest |-> TRUE, assets |-> FALSE]
  BY <1>1 DEF PublishedInv
<1>5. releases' = [releases EXCEPT ![job[Vps].target] = [manifest |-> TRUE, assets |-> TRUE]]
  <2>1. [[manifest |-> TRUE, assets |-> FALSE] EXCEPT !.assets = TRUE] = [manifest |-> TRUE, assets |-> TRUE]
    BY AssetsOf
  <2>2. releases' = [releases EXCEPT ![job[Vps].target] = [releases[job[Vps].target] EXCEPT !.assets = TRUE]]
    BY <1>1 DEF TypeOK
  <2> QED BY <1>4, <2>1, <2>2
<1>6. /\ releases' \in [Versions -> [manifest : BOOLEAN, assets : BOOLEAN]]
      /\ releases'[job[Vps].target] = [manifest |-> TRUE, assets |-> TRUE]
      /\ \A v \in Versions \ {job[Vps].target} : releases'[v] = releases[v]
  <2> DEFINE R == [manifest : BOOLEAN, assets : BOOLEAN]
             whole == [manifest |-> TRUE, assets |-> TRUE]
  <2>1. releases \in [Versions -> R] /\ whole \in R
    BY <1>1 DEF TypeOK
  <2> HIDE DEF R, whole
  <2>2. /\ [releases EXCEPT ![job[Vps].target] = whole] \in [Versions -> R]
        /\ [releases EXCEPT ![job[Vps].target] = whole][job[Vps].target] = whole
        /\ \A v \in Versions \ {job[Vps].target} :
              [releases EXCEPT ![job[Vps].target] = whole][v] = releases[v]
    BY <1>1, <2>1, ChangedAt
  <2>3. releases' = [releases EXCEPT ![job[Vps].target] = whole]
    BY <1>5 DEF whole
  <2> QED BY ONLY <2>2, <2>3 DEF R, whole
<1>7. TypeOK'
  BY <1>1, <1>2, <1>6 DEF TypeOK
<1>8. PublishedInv'
  <2> DEFINE t == job[Vps].target
  <2>1. \A v \in Versions \ spoiled' : v = current \/ v = job[Vps].was => Complete(v)'
    <3> SUFFICES ASSUME NEW v \in Versions \ spoiled', v = current \/ v = job[Vps].was
                 PROVE releases'[v] = [manifest |-> TRUE, assets |-> TRUE]
      BY DEF Complete
    <3>1. CASE v = t
      BY <1>6, <3>1
    <3>2. CASE v # t
      <4>1. v \in Versions \ spoiled
        BY <1>1, <3>2
      <4>2. Complete(v)
        BY <1>1, <3>2, <4>1 DEF PublishedInv, Rewriting
      <4> QED BY <1>6, <3>2, <4>2 DEF Complete
    <3> QED BY <3>1, <3>2
  <2>2. job'[Vps].was = current
    BY <1>1, <1>3 DEF PublishedInv, Publishing
  <2> QED BY <1>1, <1>3, <1>6, <2>1, <2>2 DEF PublishedInv, Complete
<1> QED BY <1>2, <1>7, <1>8 DEF Inv

LEMMA SwitchesKeeps ==
    ASSUME Inv, Switches
    PROVE Inv'
<1>1. /\ TypeOK /\ HostsInv /\ PublishedInv /\ job[Vps].pc = "switch" /\ Vps \in Hosts
      /\ Goes(Vps, "copy") /\ "copy" \in PCs /\ job[Vps].target \in Versions
      /\ current' = job[Vps].target
      /\ UNCHANGED <<latest, installed, running, releases, faults, cut, spoiled,
                     unheard, stranded>>
  BY ConstantFacts DEF Inv, Switches, At, TypeOK, Jobs, PCs, history
<1>2. job' \in [Hosts -> Jobs] /\ HostsInv'
  <2>1. job[Vps].pc \in Publishing /\ UNCHANGED <<installed, running, cut, unheard>>
    BY <1>1 DEF Publishing
  <2> QED BY <1>1, <2>1, PublishingHosts
<1>3. job'[Vps].pc = "copy" /\ job'[Vps].was = job[Vps].was
  BY <1>1, GoesFacts
<1>4. TypeOK'
  BY <1>1, <1>2 DEF TypeOK
<1>5. PublishedInv'
  BY <1>1, <1>3 DEF PublishedInv, Complete, Rewriting, Publishing
<1> QED BY <1>2, <1>4, <1>5 DEF Inv

LEMMA RelinksKeeps ==
    ASSUME Inv, Relinks
    PROVE Inv'
<1>1. /\ TypeOK /\ HostsInv /\ PublishedInv /\ job[Vps].pc = "relink" /\ Vps \in Hosts
      /\ Goes(Vps, "bounce") /\ "bounce" \in PCs /\ job[Vps].was \in {0} \cup Versions
      /\ current' = IF job[Vps].was = 0 THEN current ELSE job[Vps].was
      /\ stranded' \in BOOLEAN
      /\ UNCHANGED <<latest, installed, running, releases, faults, cut, spoiled, unheard>>
  BY ConstantFacts DEF Inv, Relinks, At, TypeOK, Jobs, PCs
<1>2. job' \in [Hosts -> Jobs] /\ HostsInv'
  BY <1>1, PublishingHosts
<1>3. job'[Vps].pc = "bounce" /\ job'[Vps].was = job[Vps].was
  BY <1>1, GoesFacts
<1>4. TypeOK'
  BY <1>1, <1>2 DEF TypeOK
<1>5. PublishedInv'
  BY <1>1, <1>3 DEF PublishedInv, Complete, Rewriting, Publishing
<1> QED BY <1>2, <1>4, <1>5 DEF Inv

LEMMA ReleaseKeeps ==
    ASSUME Inv, Release
    PROVE Inv'
<1>1. /\ TypeOK /\ HostsInv /\ PublishedInv
      /\ UNCHANGED <<installed, running, releases, current, job, faults, cut, spoiled,
                     unheard, stranded>>
  BY DEF Inv, Release, history
<1>2. latest' \in Versions
  BY <1>1, VersionsAssumption DEF Release, TypeOK, Versions
<1>3. TypeOK'
  BY <1>1, <1>2 DEF TypeOK
<1>4. HostsInv'
  BY <1>1, OtherHosts DEF HostsInv
<1> QED BY <1>1, <1>3, <1>4, PublishedQuiet DEF Inv

-----------------------------------------------------------------------------
(* The invariant holds *)

LEMMA InvInit == Init => Inv
<1> SUFFICES ASSUME Init PROVE Inv
  OBVIOUS
<1>1. /\ latest = 1 /\ current \in {0, 1} /\ faults = 0 /\ cut = {} /\ spoiled = {}
      /\ unheard = {} /\ stranded = FALSE
      /\ installed = [h \in Hosts |-> FirstFiles] /\ running = installed
      /\ releases = [v \in Versions |-> [manifest |-> v = current, assets |-> v = current]]
      /\ job = [h \in Hosts |-> NoJob]
  BY DEF Init
<1>2. FirstFiles \in [Files -> Contents]
  BY ConstantFacts DEF FirstFiles, Missing
<1>3. Whole(FirstFiles) /\ FirstFiles[1] = 1 /\ 1 \notin Broken
  BY ConstantFacts, VersionsAssumption DEF Whole, FirstFiles
<1>4. releases \in [Versions -> [manifest : BOOLEAN, assets : BOOLEAN]]
  BY <1>1
<1>5. TypeOK
  <2>1. stranded \in BOOLEAN
    BY <1>1
  <2> QED BY <1>1, <1>2, <1>4, <2>1, ConstantFacts, VersionsAssumption DEF TypeOK
<1>6. \A h \in Hosts : Copied(h) /\ Undoable(h)
  BY <1>1, <1>3 DEF Copied, Undoable, Settled, NoJob, Before, Publishing
<1>7. PublishedInv
  BY <1>1, ConstantFacts DEF PublishedInv, Complete, NoJob, Publishing
<1> QED BY <1>5, <1>6, <1>7 DEF Inv, HostsInv

LEMMA InvNext == Inv /\ [Next]_vars => Inv'
<1> SUFFICES ASSUME Inv, [Next]_vars PROVE Inv'
  OBVIOUS
<1>1. CASE Release
  BY <1>1, ReleaseKeeps
<1>2. ASSUME NEW force \in BOOLEAN, UpdateVps(force) PROVE Inv'
  BY <1>2, UpdateVpsKeeps
<1>3. ASSUME NEW force \in BOOLEAN, NEW s \in Servers, UpdateServer(s, force) PROVE Inv'
  BY <1>3, UpdateServerKeeps
<1>4. ASSUME NEW h \in Hosts, Step(h) PROVE Inv'
  <2>1. CASE Copies(h)
    BY <2>1, CopiesKeeps
  <2>2. CASE Restarts(h)
    BY <2>2, RestartsKeeps
  <2>3. CASE Succeeds(h) \/ Unhealthy(h)
    BY <2>3, SucceedsKeeps, UnhealthyKeeps
  <2>4. CASE Restores(h) \/ Bounces(h)
    BY <2>4, RestoresKeeps, BouncesKeeps
  <2>5. CASE h \in Servers /\ Fetches(h)
    BY <2>5, FetchesKeeps
  <2>6. CASE PublishesManifest \/ PublishesAssets
    BY <2>6, PublishesManifestKeeps, PublishesAssetsKeeps
  <2>7. CASE Switches \/ Relinks
    BY <2>7, SwitchesKeeps, RelinksKeeps
  <2> QED BY <1>4, <2>1, <2>2, <2>3, <2>4, <2>5, <2>6, <2>7 DEF Step
<1>5. ASSUME NEW h \in Hosts,
             \/ StepRaises(h) \/ RollbackRaises(h) \/ BouncesUnheard(h)
             \/ Crashes(h) \/ SystemdStarts(h)
      PROVE Inv'
  BY <1>5, StepRaisesKeeps, RollbackRaisesKeeps, BouncesUnheardKeeps, CrashesKeeps,
     SystemdStartsKeeps
<1>6. CASE UNCHANGED vars
  BY <1>6, OtherHosts DEF vars, history, Inv, TypeOK, HostsInv, PublishedInv, Complete, Rewriting, Publishing
<1> QED BY <1>1, <1>2, <1>3, <1>4, <1>5, <1>6 DEF Next

LEMMA InvHolds == Spec => []Inv
<1> QED BY InvInit, InvNext, PTL DEF Spec

-----------------------------------------------------------------------------
(* The link *)

\* What the VPS does not do leaves the link as it is.
LEMMA LinkQuiet ==
    ASSUME LinkInv, UNCHANGED <<current, spoiled, stranded>>, Vps \in cut <=> Vps \in cut',
           installed'[Vps] = installed[Vps], job'[Vps] = job[Vps]
    PROVE LinkInv'
BY DEF LinkInv, Rewriting

\* Nor do the steps between the switch and the end of the attempt.
LEMMA LinkMoves ==
    ASSUME LinkInv, UNCHANGED <<current, stranded>>, Vps \in cut <=> Vps \in cut',
           job[Vps].pc \notin Before \cup Publishing,
           job'[Vps].pc \notin Before \cup Publishing \cup {"bounce"},
           job'[Vps].pc \in {"copy", "restart", "health"} =>
               job[Vps].pc \in {"copy", "restart", "health"},
           job'[Vps].target = job[Vps].target, job'[Vps].record = job[Vps].record,
           job'[Vps].was = job[Vps].was
    PROVE LinkInv'
BY DEF LinkInv, Rewriting, Publishing

\* The attempt of the VPS ends after files were touched, and it is marked.
LEMMA LinkCut ==
    ASSUME Vps \in cut', job'[Vps].pc = "idle"
    PROVE LinkInv'
BY DEF LinkInv, Rewriting, Before, Publishing

\* An attempt that is not forced writes in place only what was left half way.
LEMMA LinkUpdateVps ==
    ASSUME Inv, LinkInv, NEW force \in BOOLEAN, UpdateVps(force)
    PROVE LinkInv'
<1>1. /\ TypeOK /\ HostsInv /\ PublishedInv /\ job[Vps].pc = "idle" /\ latest \in Versions
      /\ Begins(Vps, latest, "manifest", force) /\ "manifest" \in PCs /\ Vps \in Hosts
      /\ UNCHANGED <<installed, current, cut, spoiled, stranded>>
      /\ force \/ ~AlreadyCurrent(latest)
  BY ConstantFacts DEF Inv, UpdateVps, At, TypeOK, PCs, history
<1>2. job'[Vps] = [pc |-> "manifest", target |-> latest, file |-> 1, record |-> installed[Vps],
                   was |-> current, forced |-> force]
  BY <1>1, BeginsFacts
<1>3. Vps \notin cut /\ ~stranded => current \in {0, installed[Vps][1]}
  BY <1>1 DEF LinkInv, Before
<1>4. latest = current /\ current \notin spoiled => force \/ Vps \in cut \/ stranded
  <2> SUFFICES ASSUME latest = current, current \notin spoiled, Vps \notin cut, ~stranded
               PROVE force
    OBVIOUS
  <2>1. Complete(current)
    BY <1>1 DEF PublishedInv, Rewriting
  <2>2. current = installed[Vps][1]
    BY <1>1, <1>3, ConstantFacts
  <2> QED BY <1>1, <2>1, <2>2 DEF AlreadyCurrent, Complete
<1> QED BY <1>1, <1>2, <1>3, <1>4 DEF LinkInv, Rewriting, Before, Publishing

\* Publishing, and the switch of the link.
LEMMA LinkPublishes ==
    ASSUME Inv, LinkInv, PublishesManifest \/ PublishesAssets \/ Switches
    PROVE LinkInv'
<1>1. TypeOK /\ Vps \in Hosts /\ {"assets", "switch", "copy"} \subseteq PCs
  BY ConstantFacts DEF Inv, PCs
<1>2. UNCHANGED <<installed, cut, stranded>>
  BY DEF PublishesManifest, PublishesAssets, Switches, history
<1>3. CASE PublishesManifest
  <2>1. job[Vps].pc = "manifest" /\ Goes(Vps, "assets") /\ UNCHANGED <<current, spoiled>>
    BY <1>3 DEF PublishesManifest, At, history
  <2>2. /\ job'[Vps].pc = "assets" /\ job'[Vps].target = job[Vps].target
        /\ job'[Vps].forced = job[Vps].forced
    BY <1>1, <2>1, GoesFacts
  <2> QED BY <1>2, <2>1, <2>2 DEF LinkInv, Rewriting, Before, Publishing
<1>4. CASE PublishesAssets
  <2>1. job[Vps].pc = "assets" /\ Goes(Vps, "switch") /\ UNCHANGED current
    BY <1>4 DEF PublishesAssets, At
  <2>2. job'[Vps].pc = "switch"
    BY <1>1, <2>1, GoesFacts
  <2> QED BY <1>2, <2>1, <2>2 DEF LinkInv, Rewriting, Before, Publishing
<1>5. CASE Switches
  <2>1. job[Vps].pc = "switch" /\ Goes(Vps, "copy") /\ current' = job[Vps].target
    BY <1>5 DEF Switches, At
  <2>2. /\ job'[Vps].pc = "copy" /\ job'[Vps].target = job[Vps].target
        /\ job'[Vps].record = job[Vps].record /\ job'[Vps].was = job[Vps].was
    BY <1>1, <2>1, GoesFacts
  <2>3. job[Vps].was = current
    BY <2>1 DEF Inv, PublishedInv, Publishing
  <2>4. Vps \notin cut => job[Vps].record = installed[Vps]
    BY <1>1, <2>1 DEF Inv, HostsInv, Undoable, Publishing
  <2> QED BY <1>2, <2>1, <2>2, <2>3, <2>4 DEF LinkInv, Rewriting, Before, Publishing
<1> QED BY <1>3, <1>4, <1>5

\* The files of the VPS, and its service.
LEMMA LinkInstalls ==
    ASSUME Inv, LinkInv,
           Copies(Vps) \/ Restarts(Vps) \/ Succeeds(Vps) \/ Unhealthy(Vps) \/ Restores(Vps) \/ Bounces(Vps)
           \/ BouncesUnheard(Vps)
    PROVE LinkInv'
<1>1. TypeOK /\ HostsInv /\ Vps \in Hosts /\ {"copy", "restart", "health", "restore", "relink"} \subseteq PCs
  BY ConstantFacts DEF Inv, PCs
<1>2. CASE Copies(Vps) \/ Restores(Vps)
  <2>1. UNCHANGED <<current, stranded, cut>>
    BY <1>2 DEF Copies, Restores, history
  <2>2. CASE Copies(Vps)
    <3>1. At(Vps, "copy") /\ NextFile(Vps, "copy", "restart")
      BY <2>2 DEF Copies
    <3>2. /\ job'[Vps].pc \in {"copy", "restart"} /\ job'[Vps].target = job[Vps].target
          /\ job'[Vps].record = job[Vps].record /\ job'[Vps].was = job[Vps].was
      BY <1>1, <3>1, NextFileFacts
    <3> QED BY <2>1, <3>1, <3>2, LinkMoves DEF At, Before, Publishing
  <2>3. CASE Restores(Vps)
    <3>1. At(Vps, "restore") /\ NextFile(Vps, "restore", "relink")
      BY <2>3 DEF Restores
    <3>2. /\ job'[Vps].pc \in {"restore", "relink"} /\ job'[Vps].target = job[Vps].target
          /\ job'[Vps].record = job[Vps].record /\ job'[Vps].was = job[Vps].was
      BY <1>1, <3>1, NextFileFacts
    <3> QED BY <2>1, <3>1, <3>2, LinkMoves DEF At, Before, Publishing
  <2> QED BY <1>2, <2>2, <2>3
<1>3. CASE Restarts(Vps) \/ Unhealthy(Vps)
  <2>1. PICK pc \in {"health", "restore"} :
            /\ Goes(Vps, pc) /\ (pc = "health" => job[Vps].pc = "restart")
            /\ job[Vps].pc \in {"restart", "health"} /\ UNCHANGED <<current, stranded, cut>>
    BY <1>3 DEF Restarts, Unhealthy, At, history
  <2>2. /\ job'[Vps].pc = pc /\ job'[Vps].target = job[Vps].target
        /\ job'[Vps].record = job[Vps].record /\ job'[Vps].was = job[Vps].was
    BY <1>1, <2>1, GoesFacts
  <2> QED BY <2>1, <2>2, LinkMoves DEF Before, Publishing
<1>4. CASE Succeeds(Vps)
  <2>1. job[Vps].pc = "health" /\ Ends(Vps) /\ UNCHANGED <<installed, current>>
    BY <1>4 DEF Succeeds, At
  <2>2. job'[Vps].pc = "idle"
    BY <1>1, <2>1, EndsFacts
  <2>3. current = installed[Vps][1]
    BY <1>1, <2>1, ConstantFacts DEF LinkInv, HostsInv, Copied
  <2> QED BY <2>1, <2>2, <2>3 DEF LinkInv, Rewriting, Before, Publishing
<1>5. CASE Bounces(Vps) \/ BouncesUnheard(Vps)
  <2>1. /\ job[Vps].pc = "bounce" /\ Ends(Vps)
        /\ UNCHANGED <<installed, current, stranded, cut, spoiled>>
    BY <1>5 DEF Bounces, BouncesUnheard, At
  <2>2. job'[Vps].pc = "idle"
    BY <1>1, <2>1, EndsFacts
  <2>3. Vps \notin cut => installed[Vps][1] = job[Vps].record[1]
    BY <1>1, <2>1, AllPutBack DEF HostsInv, Undoable, Before
  <2> QED BY <2>1, <2>2, <2>3 DEF LinkInv, Rewriting, Before, Publishing
<1> QED BY <1>2, <1>3, <1>4, <1>5

\* The link is taken back, or stays behind.
LEMMA LinkRelinks ==
    ASSUME Inv, LinkInv, Relinks
    PROVE LinkInv'
<1>1. /\ TypeOK /\ Vps \in Hosts /\ "bounce" \in PCs /\ job[Vps].pc = "relink" /\ Goes(Vps, "bounce")
      /\ current' = IF job[Vps].was = 0 THEN current ELSE job[Vps].was
      /\ stranded' = (stranded \/ (job[Vps].was = 0 /\ current # 0)) /\ UNCHANGED cut
  BY ConstantFacts DEF Inv, Relinks, At, PCs
<1>2. /\ job'[Vps].pc = "bounce" /\ job'[Vps].record = job[Vps].record
      /\ job'[Vps].was = job[Vps].was
  BY <1>1, GoesFacts
<1>3. Vps \notin cut /\ ~stranded => job[Vps].was \in {0, job[Vps].record[1]}
  BY <1>1 DEF LinkInv, Before, Publishing
<1> QED BY <1>1, <1>2, <1>3 DEF LinkInv, Rewriting, Before, Publishing

\* What departs from the ordinary course on the VPS.
LEMMA LinkFaults ==
    ASSUME Inv, LinkInv, StepRaises(Vps) \/ RollbackRaises(Vps) \/ Crashes(Vps)
    PROVE LinkInv'
<1>1. TypeOK /\ HostsInv /\ PublishedInv /\ Vps \in Hosts /\ "restore" \in PCs /\ job[Vps] \in Jobs
  BY ConstantFacts DEF Inv, PCs, TypeOK
<1>2. CASE StepRaises(Vps)
  <2>1. /\ Goes(Vps, "restore") /\ UNCHANGED <<current, stranded, cut>>
        /\ job[Vps].pc \in {"copy", "restart", "health"} \cup Publishing
    BY <1>2 DEF StepRaises, Publishing
  <2>2. /\ job'[Vps].pc = "restore" /\ job'[Vps].target = job[Vps].target
        /\ job'[Vps].record = job[Vps].record /\ job'[Vps].was = job[Vps].was
    BY <1>1, <2>1, GoesFacts
  <2>3. CASE job[Vps].pc \in {"copy", "restart", "health"}
    BY <2>1, <2>2, <2>3, LinkMoves DEF Before, Publishing
  <2>4. CASE job[Vps].pc \in Publishing
    <3>1. job[Vps].was = current /\ (Vps \notin cut => job[Vps].record = installed[Vps])
      BY <1>1, <2>4 DEF PublishedInv, HostsInv, Undoable
    <3> QED BY <2>1, <2>2, <2>4, <3>1 DEF LinkInv, Rewriting, Before, Publishing
  <2> QED BY <2>1, <2>3, <2>4
<1>3. CASE RollbackRaises(Vps)
  <2>1. Ends(Vps) /\ Vps \in cut'
    BY <1>3 DEF RollbackRaises
  <2> QED BY <1>1, <2>1, EndsFacts, LinkCut
<1>4. CASE Crashes(Vps)
  <2>1. /\ Ends(Vps) /\ UNCHANGED <<current, stranded>> /\ installed' \in Interrupted(Vps)
        /\ cut' = IF job[Vps].pc \notin {"fetch", "manifest", "assets", "switch"}
                  THEN cut \cup {Vps} ELSE cut
    BY <1>4 DEF Crashes
  <2>2. job'[Vps].pc = "idle"
    BY <1>1, <2>1, EndsFacts
  <2>3. CASE job[Vps].pc \notin {"fetch", "manifest", "assets", "switch"}
    BY <2>1, <2>2, <2>3, LinkCut
  <2>4. CASE job[Vps].pc \in {"fetch", "manifest", "assets", "switch"}
    <3>1. installed' = installed
      BY <1>1, <2>1, <2>4, InterruptedType
    <3> QED BY <2>1, <2>2, <2>4, <3>1 DEF LinkInv, Rewriting, Before, Publishing
  <2> QED BY <2>3, <2>4
<1> QED BY <1>2, <1>3, <1>4

\* A server does nothing to the link.
LEMMA LinkServers ==
    ASSUME Inv, LinkInv, NEW s \in Servers,
           \/ Step(s) \/ StepRaises(s) \/ RollbackRaises(s) \/ BouncesUnheard(s) \/ Crashes(s)
           \/ \E force \in BOOLEAN : UpdateServer(s, force)
    PROVE LinkInv'
<1>1. TypeOK /\ s \in Hosts /\ Vps \in Hosts /\ s # Vps
  BY HostsAssumption, ConstantFacts DEF Inv, Hosts
<1>2. UNCHANGED <<current, stranded>> /\ (Vps \in cut <=> Vps \in cut')
  <2>1. CASE Succeeds(s)
    <3>1. stranded' = stranded
      BY <1>1, <2>1 DEF Succeeds, TypeOK
    <3> QED BY <1>1, <2>1, <3>1 DEF Succeeds
  <2>2. CASE ~Succeeds(s)
    BY <1>1, <2>2 DEF Step, Copies, Restarts, Unhealthy, Restores, Bounces, Fetches, StepRaises,
        RollbackRaises, BouncesUnheard, Crashes, UpdateServer, history
  <2> QED BY <2>1, <2>2
<1>3. spoiled' = spoiled
  BY <1>1 DEF Step, Copies, Restarts, Succeeds, Unhealthy, Restores, Bounces, Fetches, StepRaises,
        RollbackRaises, BouncesUnheard, Crashes, UpdateServer, Spoils, history
<1>4. installed'[Vps] = installed[Vps]
  <2>1. CASE StepRaises(s) \/ RollbackRaises(s) \/ Crashes(s)
    <3>1. installed' \in Interrupted(s)
      BY <2>1 DEF StepRaises, RollbackRaises, Crashes
    <3> QED BY <1>1, <3>1, InterruptedType
  <2>2. CASE Step(s) \/ BouncesUnheard(s) \/ \E force \in BOOLEAN : UpdateServer(s, force)
    BY <1>1, <2>2 DEF Step, Copies, Restarts, Succeeds, Unhealthy, Restores, Bounces, Fetches,
        BouncesUnheard, UpdateServer, TypeOK
  <2> QED BY <2>1, <2>2
<1>5. job'[Vps] = job[Vps]
  BY <1>1 DEF Step, Copies, Restarts, Succeeds, Unhealthy, Restores, Bounces, Fetches, StepRaises,
        RollbackRaises, BouncesUnheard, Crashes, UpdateServer, Goes, Ends, Begins, NextFile, TypeOK
<1> QED BY <1>2, <1>3, <1>4, <1>5, LinkQuiet

LEMMA LinkNext == Inv /\ LinkInv /\ [Next]_vars => LinkInv'
<1> SUFFICES ASSUME Inv, LinkInv, [Next]_vars PROVE LinkInv'
  OBVIOUS
<1>1. CASE Release \/ UNCHANGED vars \/ \E h \in Hosts : SystemdStarts(h)
  <2>1. UNCHANGED <<current, spoiled, stranded, cut, installed, job>>
    BY <1>1 DEF Release, SystemdStarts, vars, history
  <2> QED BY <2>1, LinkQuiet
<1>2. ASSUME NEW force \in BOOLEAN, UpdateVps(force) PROVE LinkInv'
  BY <1>2, LinkUpdateVps
<1>3. ASSUME NEW s \in Servers,
             \/ Step(s) \/ StepRaises(s) \/ RollbackRaises(s) \/ BouncesUnheard(s) \/ Crashes(s)
             \/ \E force \in BOOLEAN : UpdateServer(s, force)
      PROVE LinkInv'
  BY <1>3, LinkServers
<1>4. CASE Step(Vps)
  <2>1. \/ Copies(Vps) \/ Restarts(Vps) \/ Succeeds(Vps) \/ Unhealthy(Vps) \/ Restores(Vps)
        \/ Bounces(Vps) \/ PublishesManifest \/ PublishesAssets \/ Switches \/ Relinks
    BY <1>4, HostsAssumption DEF Step
  <2> QED BY <2>1, LinkInstalls, LinkPublishes, LinkRelinks
<1>5. CASE StepRaises(Vps) \/ RollbackRaises(Vps) \/ Crashes(Vps)
  BY <1>5, LinkFaults
<1>6. CASE BouncesUnheard(Vps)
  BY <1>6, LinkInstalls
<1> QED BY <1>1, <1>2, <1>3, <1>4, <1>5, <1>6 DEF Next, Hosts

LEMMA LinkHolds == Spec => []LinkInv
<1>1. Init => LinkInv
  <2> SUFFICES ASSUME Init PROVE LinkInv
    OBVIOUS
  <2>1. job[Vps].pc = "idle" /\ current \in {0, 1} /\ installed[Vps][1] = 1
    BY ConstantFacts, VersionsAssumption DEF Init, NoJob, FirstFiles
  <2> QED BY <2>1 DEF LinkInv, Rewriting, Before, Publishing
<1> QED BY <1>1, InvHolds, LinkNext, PTL DEF Spec

-----------------------------------------------------------------------------
(* The theorems *)

\* Every variable keeps its type.
THEOREM UpdateTyped == Spec => []TypeOK
<1>1. Inv => TypeOK
  BY DEF Inv
<1> QED BY <1>1, InvHolds, PTL

\* Whatever the releases consist of and however attempts fail: a service that
\* systemd started from a mixture of files runs it until the manager's next
\* start of it at the latest, so that neither the health check sees one nor an
\* attempt leaves one behind; except on hosts where an attempt was cut short or
\* the start after a rollback failed, and there not while the check looks.
THEOREM MixturesAreGone == Spec => []MixturesAreReplaced
<1>1. Inv => MixturesAreReplaced
  <2> SUFFICES ASSUME Inv, NEW h \in Hosts, running[h] # NoFiles, ~Whole(running[h]),
                      job[h].pc \notin {"copy", "restart", "restore", "relink", "bounce"}
               PROVE h \in cut \cup unheard /\ ~At(h, "health")
    BY DEF MixturesAreReplaced
  <2>1. Copied(h) /\ (h \notin cut => Undoable(h)) /\ job[h] \in Jobs
    BY DEF Inv, HostsInv, TypeOK
  <2>2. job[h].pc # "health"
    <3> SUFFICES ASSUME job[h].pc = "health" PROVE Whole(running[h])
      OBVIOUS
    <3>1. /\ job[h].target \in Versions /\ FilesOf[job[h].target] = Files
          /\ \A f \in Files : installed[h][f] = job[h].target
          /\ running[h] = installed[h]
      BY <2>1 DEF Copied, Before, Jobs
    <3> QED BY <3>1, AllCopied
  <2>3. job[h].pc \in Before \cup Publishing
    BY <2>1, <2>2 DEF Jobs, Before, Publishing
  <2> QED BY <2>1, <2>2, <2>3 DEF Undoable, Settled, At
<1> QED BY <1>1, InvHolds, PTL

\* Between two attempts a host that none was cut short on has one version,
\* whole, that works: the update is done, or all of it is undone.  Its service
\* runs it, unless the start after a rollback failed, which nobody looks at.
THEOREM UpdatesAreAllOrNothing == Spec => []DoneOrUndone
<1>1. Inv => DoneOrUndone
  <2> SUFFICES ASSUME Inv, NEW h \in Hosts \ cut, At(h, "idle")
               PROVE /\ Whole(installed[h]) /\ installed[h][1] \notin Broken
                     /\ h \notin unheard => /\ running[h][1] = installed[h][1]
                                           /\ Whole(running[h]) /\ HealthyVersion(h)
    BY DEF DoneOrUndone
  <2>1. Settled(h)
    BY DEF Inv, HostsInv, Undoable, At, Before
  <2> QED BY <2>1, WholeRuns DEF Settled, HealthyVersion
<1> QED BY <1>1, InvHolds, PTL

\* What updates/current points to is complete, also when the VPS takes a
\* release back, unless it was left half way or the VPS is writing that very
\* release again: by force, after an attempt that was cut short, or after a
\* failed first publication whose link stayed.
THEOREM PublishedReleasesAreComplete == Spec => []PublishedIsComplete
<1>1. Inv /\ LinkInv => PublishedIsComplete
  BY DEF Inv, TypeOK, PublishedInv, LinkInv, PublishedIsComplete, Complete, Rewriting
<1> QED BY <1>1, InvHolds, LinkHolds, PTL

=============================================================================
