----------------------------- MODULE DeltaScan -----------------------------
(***************************************************************************)
(* The life of one telemetry run as the delta protocol sees it             *)
(* (internal/telemetry/telemetry.go and delta.go): load the baseline, scan,*)
(* partition the results into bodies, unchanged refs and removals, upload, *)
(* and commit the new baseline, with the file operations of internal/state *)
(* and the ways each of them fails.  Runs of one machine are serialised by *)
(* the instance lock, so there is one run at a time; a run may die between *)
(* any two steps.                                                          *)
(*                                                                         *)
(* The upload itself is one step here, with every outcome the protocol in  *)
(* UploadProtocol can produce.  The backend is external: it stores bodies, *)
(* keeps what a ref names, drops what is reported removed, and replaces    *)
(* everything on a legacy snapshot.                                        *)
(*                                                                         *)
(* First the delta baseline kept in scan-state.json                        *)
(* (internal/state/state.go): its value, and the pure functions that read  *)
(* and update it.  A state file remembers, for every project path and      *)
(* every package manager with global packages, the hash of the inventory   *)
(* last shipped and the execution that shipped its body.  Projects and     *)
(* globals share one map here: a global is an item that is never reported  *)
(* as removed.  Timestamps that only order scans (FirstSeenAt,             *)
(* LastVerifiedAt) and package-manager versions are left out;              *)
(* LastFullSyncAt is kept, in days.                                        *)
(***************************************************************************)
EXTENDS Integers, FiniteSets

CONSTANTS
    Project,     \* project paths, npm and Python together
    Global,      \* package managers with a global package set
    Python,      \* the projects that are Python's, not Node's
    Hash,        \* inventory hashes
    NoHash,      \* the absent inventory
    Device,      \* device identities
    NoDevice,    \* the identity of a file written before ForDevice existed
    Version,     \* agent versions
    Horizon      \* DefaultFullSyncHorizon, in days

Item == Project \cup Global

\* What a run can enable separately, and what each item is of.
Ecosystem == {"npm", "python"}
EcoOf == [i \in Item |-> IF i \in Python THEN "python" ELSE "npm"]

ASSUME ScanStateAssumption ==
    /\ Project \cap Global = {}
    /\ NoHash \notin Hash
    /\ NoDevice \notin Device
    /\ Horizon \in Nat \ {0}

Entry == [hash : Hash \cup {NoHash}, exec : Nat]
NoEntry == [hash |-> NoHash, exec |-> 0]

State == [device  : Device \cup {NoDevice},
          version : Version,
          fullAt  : Nat,                    \* 0: the zero time
          entry   : [Item -> Entry],
          pending : SUBSET Project]         \* RemovedPendingAck

New(v) == [device |-> NoDevice, version |-> v, fullAt |-> 0,
           entry |-> [i \in Item |-> NoEntry], pending |-> {}]

ForDeviceFresh(s, d, v) == [New(v) EXCEPT !.device = d]     \* mutant
ForDevice(s, d, v) ==
    IF s.device = d THEN s ELSE [New(v) EXCEPT !.device = d]

IsFullSyncDue(s, now, v) ==
    \/ s.version # v
    \/ s.fullAt = 0
    \/ now - s.fullAt >= Horizon

-----------------------------------------------------------------------------
(* A run's scan results: a function from the items that produced a record  *)
(* to [ok |-> ExitCode = 0, hash |-> hash].                                *)

Record == [ok : BOOLEAN, hash : Hash]
Records == UNION {[S -> Record] : S \in SUBSET Item}

Tracked(s) == {i \in Item : s.entry[i].hash # NoHash}

\* Partition and PartitionGlobals: the records whose body must be sent.
Changed(s, records, full) ==
    {i \in DOMAIN records :
        \/ full
        \/ ~records[i].ok
        \/ s.entry[i].hash # records[i].hash}

\* Reconcile: what the baseline tracks in an ecosystem that discovery, in
\* the same ecosystem, no longer finds.
RemovedGlobals(s, enabled, discovered) ==                   \* mutant
    {p \in Tracked(s) \ discovered : EcoOf[p] \in enabled}
RemovedDisabled(s, enabled, discovered) ==                  \* mutant
    (Tracked(s) \cap Project) \ discovered
Removed(s, enabled, discovered) ==
    {p \in (Tracked(s) \cap Project) \ discovered : EcoOf[p] \in enabled}

MarkRemovedPending(s, paths) == [s EXCEPT !.pending = @ \cup paths]

\* removedRefsFor: pending removals, without the paths that reappeared.
RemovedRefs(s, enabled, discovered) ==
    {p \in s.pending \ discovered : EcoOf[p] \in enabled}

CommitEntryFailed(prev, r, exec, full) ==                   \* mutant
    IF ~full /\ prev.hash = r.hash /\ prev.exec # 0
    THEN prev
    ELSE [hash |-> r.hash, exec |-> exec]
CommitEntryRestamped(prev, r, exec, full) ==                \* mutant
    IF ~r.ok THEN prev ELSE [hash |-> r.hash, exec |-> exec]
CommitEntry(prev, r, exec, full) ==
    IF ~r.ok \/ (~full /\ prev.hash = r.hash /\ prev.exec # 0)
    THEN prev
    ELSE [hash |-> r.hash, exec |-> exec]

CommitAfterUpload(s, records, exec, v, full, now) ==
    [s EXCEPT !.version = v,
              !.fullAt = IF full THEN now ELSE @,
              !.entry = [i \in Item |->
                  IF i \in DOMAIN records
                  THEN CommitEntry(s.entry[i], records[i], exec, full)
                  ELSE s.entry[i]]]

\* AckRemovals followed by DropRemovedFromProjects.
AckAndDrop(s, refs) ==
    [s EXCEPT !.pending = @ \ refs,
              !.entry = [i \in Item |->
                  IF i \in refs THEN NoEntry ELSE s.entry[i]]]

-----------------------------------------------------------------------------
CONSTANTS
    Environments,   \* what may go wrong: the sets of perils to consider
    MaxExec,        \* bound on the number of runs
    MaxDay          \* bound on the days that pass

(* Beside "ok", the modes in which the file system may serve a run.        *)
Modes == {"busy", "lockedDir", "readonly"}

Perils == Modes \cup {
    "optOut",       \* the run-config may leave delta uploads off
    "noHome",       \* a run may be started with --install-dir= (empty)
    "dump",         \* a run may be a --telemetry-out dump
    "loseAck",      \* a stored upload may look like a failure to the agent
    "loseQueued",   \* a queued upload may never be stored
    "unreadable",   \* a walk may be refused directories, and goes past them
    "failSave",     \* writing the new baseline may fail
    "crash" }       \* a run may die between two steps

ASSUME DeltaScanAssumption ==
    /\ Environments \subseteq SUBSET Perils
    /\ MaxExec \in Nat /\ MaxDay \in Nat \ {0}

VARIABLES
    perils,     \* what may go wrong around this machine
    actual,     \* the machine: the inventory hash of every item, or NoHash
    hidden,     \* the projects below a directory the walk goes past
    now,        \* the day
    version,    \* the installed agent version
    device,     \* the identity the agent runs under
    file,       \* scan-state.json: "none", "bad" (empty or corrupt) or "ok"
    base,       \* its contents when file = "ok"
    marker,     \* scan-state.json.invalid exists
    pc,         \* where the current run is
    exec,       \* the current execution id
    run,        \* [mode, full, home] of the current run
    mem,        \* the state the run holds in memory
    records,    \* its scan records
    removed,    \* the removals its payload reports
    bodies,     \* backend: <<device, item, hash, exec>> of every stored body
    view,       \* backend: the inventory it holds for every device
    lastLegacy  \* backend: the execution of the last stored legacy snapshot

env     == <<perils, actual, hidden, now, version, device>>
disk    == <<file, base, marker>>
scan    == <<run, mem, records, removed>>
backend == <<bodies, view, lastLegacy>>
vars    == <<env, disk, pc, exec, scan, backend>>

NoRun == [mode |-> "legacy", full |-> FALSE, home |-> TRUE]
NoRecords == [i \in {} |-> [ok |-> TRUE, hash |-> NoHash]]
Absent == [i \in Item |-> NoHash]
AccessMode == {"ok"} \cup (perils \cap Modes)

Init ==
    /\ perils \in Environments
    /\ actual \in [Item -> Hash \cup {NoHash}]
    /\ hidden = {}
    /\ now = 1
    /\ version \in Version
    /\ device \in Device
    /\ file = "none" /\ base = New(version) /\ marker = FALSE
    /\ pc = "idle" /\ exec = 0
    /\ run = NoRun /\ mem = New(version)
    /\ records = NoRecords /\ removed = {}
    /\ bodies = {}
    /\ view = [d \in Device |-> Absent]
    /\ lastLegacy = [d \in Device |-> 0]

-----------------------------------------------------------------------------
(* The machine, between runs or while one is still scanning.               *)

\* A project or a global package set appears, changes or goes away.
Edit(i, h) ==
    /\ pc \in {"idle", "scanning"}
    /\ actual' = [actual EXCEPT ![i] = h]
    /\ UNCHANGED <<perils, hidden, now, version, device, disk, pc, exec, scan, backend>>

\* A directory above a project becomes one the walk cannot read, or must not
\* (macOS asks the user first), or is opened again.
Obscure(p) ==
    /\ pc \in {"idle", "scanning"} /\ "unreadable" \in perils
    /\ hidden' = IF p \in hidden THEN hidden \ {p} ELSE hidden \cup {p}
    /\ UNCHANGED <<perils, actual, now, version, device, disk, pc, exec, scan, backend>>

NextDay ==
    /\ now < MaxDay
    /\ now' = now + 1
    /\ UNCHANGED <<perils, actual, hidden, version, device, disk, pc, exec, scan, backend>>

Upgrade(v) ==
    /\ pc = "idle"
    /\ version' = v
    /\ UNCHANGED <<perils, actual, hidden, now, device, disk, pc, exec, scan, backend>>

\* The serial number resolves differently, or the disk is cloned.
ChangeIdentity(d) ==
    /\ pc = "idle"
    /\ device' = d
    /\ UNCHANGED <<perils, actual, hidden, now, version, disk, pc, exec, scan, backend>>

-----------------------------------------------------------------------------
(* The state file.  "busy" is a Windows sharing violation, "lockedDir" a   *)
(* directory, "readonly" a directory and a file, this user may not write.  *)

CanRemove(m)    == m = "ok"                        \* and rename, in the directory
CanTruncate(m)  == m \in {"ok", "lockedDir"}       \* the file opens for writing
CanCreate(m)    == m \in {"ok", "busy"}            \* a new file in the directory

LoadUnflagged(m) ==                                         \* mutant
    IF file = "ok" /\ CanTruncate(m) THEN base ELSE New(version)
Load(m) ==
    IF file = "ok" /\ ~marker /\ CanTruncate(m) THEN base ELSE New(version)

\* What Invalidate leaves of the file and its marker.
Invalidated(m) ==
    CASE file = "none"  -> <<"none", marker>>
      [] file # "none" /\ CanRemove(m)   -> <<"none", marker>>
      [] file # "none" /\ ~CanRemove(m) /\ CanTruncate(m) -> <<"bad", marker>>
      [] file # "none" /\ ~CanRemove(m) /\ ~CanTruncate(m) /\ CanCreate(m)
                        -> <<file, TRUE>>
      [] OTHER          -> <<file, marker>>        \* warned about, and ignored

-----------------------------------------------------------------------------
(* The run.                                                                *)

EndRun ==
    /\ pc' = "idle"
    /\ run' = NoRun /\ mem' = New(version)
    /\ records' = NoRecords /\ removed' = {}

StartRun(optIn, home, m) ==
    LET delta == optIn /\ home
        loaded == ForDevice(Load(m), device, version)
    IN
    /\ pc = "idle" /\ exec < MaxExec
    /\ home \/ "noHome" \in perils
    /\ optIn \/ "optOut" \in perils
    /\ pc' = "scanning"
    /\ exec' = exec + 1
    /\ run' = [mode |-> IF delta THEN "delta" ELSE "legacy",
               full |-> delta /\ IsFullSyncDue(loaded, now, version),
               home |-> home]
    /\ mem' = IF delta THEN loaded ELSE New(version)
    /\ UNCHANGED <<env, disk, records, removed, backend>>

\* Only npm projects and globals carry an exit code; a Python project whose
\* scan failed yields no record at all.
CanRecordFailure(i) == i \in Global \/ EcoOf[i] = "npm"

\* What the walks of the enabled ecosystems can come across.  An error on the
\* way is not one of the scan: the walk goes on beside it and nobody is told.
Visible == [i \in Item |-> IF i \in hidden THEN NoHash ELSE actual[i]]
Found(enabled) == {i \in Item : Visible[i] # NoHash /\ EcoOf[i] \in enabled}

\* withKnownPaths: a discovery that was cut short proves nothing removed.  One
\* that went past a directory was not cut short.
DiscoveredPartly(s, seen, cut) == seen                      \* mutant
Discovered(s, seen, cut) == seen \cup {i \in Tracked(s) : EcoOf[i] \in cut}

(* The scans of the enabled ecosystems, of which those in cut were         *)
(* cancelled before discovery finished: they found `seen`, they produced   *)
(* records for `scanned`, and the package manager failed for `failed`.     *)
(* buildDeltaSnapshot then reconciles the results with the state.          *)
Scan(enabled, cut, seen, scanned, failed) ==
    LET complete == {i \in Found(enabled) : EcoOf[i] \notin cut}
        discovered == Discovered(mem, seen, cut)
        marked == MarkRemovedPending(mem, Removed(mem, enabled, discovered))
    IN
    /\ pc = "scanning"
    /\ cut \subseteq enabled
    /\ seen \subseteq Found(enabled) /\ complete \subseteq seen
    /\ scanned \subseteq seen
    /\ failed \subseteq {i \in scanned : CanRecordFailure(i)}
    /\ records' = [i \in scanned |-> [ok |-> i \notin failed, hash |-> actual[i]]]
    /\ mem' = IF run.mode = "delta" THEN marked ELSE mem
    /\ removed' = IF run.mode = "delta"
                  THEN RemovedRefs(marked, enabled, discovered) ELSE {}
    /\ pc' = IF run.mode = "delta" THEN "ready" ELSE "invalidate"
    /\ UNCHANGED <<env, disk, exec, run, backend>>

InvalidateNothing(m) ==                                     \* mutant
    /\ pc = "invalidate"
    /\ pc' = "ready"
    /\ UNCHANGED <<env, disk, exec, scan, backend>>

\* A legacy run discards the baseline before it uploads; with the install
\* dir disabled there is no path to discard.
InvalidateBaseline(m) ==
    /\ pc = "invalidate"
    /\ IF run.home
       THEN /\ file' = Invalidated(m)[1]
            /\ marker' = Invalidated(m)[2]
       ELSE UNCHANGED <<file, marker>>
    /\ base' = IF file' = "ok" THEN base ELSE New(version)
    /\ pc' = "ready"
    /\ UNCHANGED <<env, exec, scan, backend>>

-----------------------------------------------------------------------------
(* The upload.                                                             *)

Bodies == IF run.mode = "delta"
          THEN Changed(mem, records, run.full) ELSE DOMAIN records
Refs   == DOMAIN records \ Bodies

\* External: the inventory the backend holds after it stored the payload.
Stored ==
    [i \in Item |->
        CASE i \in Bodies /\ records[i].ok -> records[i].hash
          [] i \in removed                 -> NoHash
          [] OTHER -> IF run.mode = "legacy" THEN NoHash ELSE view[device][i]]

Store ==
    /\ bodies' = bodies \cup
           {<<device, i, records[i].hash, exec>> :
               i \in {j \in Bodies : records[j].ok}}
    /\ view' = [view EXCEPT ![device] = Stored]
    /\ lastLegacy' = IF run.mode = "legacy"
                     THEN [lastLegacy EXCEPT ![device] = exec] ELSE lastLegacy

Proceed == pc' = "commit" /\ UNCHANGED scan
Finish(committing) ==
    IF committing /\ run.mode = "delta" THEN Proceed ELSE EndRun

\* The payload is stored; the agent learns so, is only told it was queued,
\* or sees an error because the answer was lost.
UploadStored(answer) ==
    /\ pc = "ready"
    /\ answer = "lost" => "loseAck" \in perils
    /\ Store
    /\ Finish(answer # "lost")
    /\ UNCHANGED <<env, disk, exec>>

\* The payload is never stored; the upload failed, the backend refused it,
\* or it was queued and lost.
UploadDropped(answer) ==
    /\ pc = "ready"
    /\ answer = "queued" => "loseQueued" \in perils
    /\ Finish(answer = "queued")
    /\ UNCHANGED <<env, disk, exec, backend>>

\* --telemetry-out: the payload goes to a local file and counts as uploaded.
Dump ==
    /\ pc = "ready" /\ "dump" \in perils
    /\ Finish(TRUE)
    /\ UNCHANGED <<env, disk, exec, backend>>

-----------------------------------------------------------------------------
(* commitDeltaSnapshot: update the state in memory, then State.Save.       *)

Commit ==
    /\ pc = "commit"
    /\ mem' = AckAndDrop(
                 CommitAfterUpload(mem, records, exec, version, run.full, now),
                 removed)
    /\ pc' = "save"
    /\ UNCHANGED <<env, disk, exec, run, records, removed, backend>>

\* The temporary file cannot be written: the old file is untouched.
SaveFails ==
    /\ pc = "save" /\ "failSave" \in perils
    /\ EndRun
    /\ UNCHANGED <<env, disk, exec, backend>>

\* The temporary file is complete; the old file is removed first.
SaveRemove(m) ==
    /\ pc = "save" /\ CanCreate(m)
    /\ IF CanRemove(m)
       THEN file' = "none" /\ base' = New(version)
       ELSE UNCHANGED <<file, base>>
    /\ pc' = "rename"
    /\ UNCHANGED <<env, marker, exec, scan, backend>>

SaveRename(m) ==
    /\ pc = "rename" /\ CanRemove(m)
    /\ file' = "ok" /\ base' = mem
    /\ pc' = "unmark"
    /\ UNCHANGED <<env, marker, exec, scan, backend>>

RenameFails ==
    /\ pc = "rename" /\ "failSave" \in perils
    /\ EndRun
    /\ UNCHANGED <<env, disk, exec, backend>>

SaveUnmark(m) ==
    /\ pc = "unmark"
    /\ marker' = (marker /\ ~CanRemove(m))
    /\ EndRun
    /\ UNCHANGED <<env, file, base, exec, backend>>

Crash ==
    /\ pc # "idle" /\ "crash" \in perils
    /\ EndRun
    /\ UNCHANGED <<env, disk, exec, backend>>

Next ==
    \/ \E i \in Item, h \in Hash \cup {NoHash} : Edit(i, h)
    \/ \E p \in Project : Obscure(p)
    \/ NextDay
    \/ \E v \in Version : Upgrade(v)
    \/ \E d \in Device : ChangeIdentity(d)
    \/ \E optIn, home \in BOOLEAN, m \in AccessMode : StartRun(optIn, home, m)
    \/ \E enabled, cut \in SUBSET Ecosystem :
          \E seen, scanned, failed \in SUBSET Item :
             Scan(enabled, cut, seen, scanned, failed)
    \/ \E m \in AccessMode : InvalidateBaseline(m)
    \/ \E answer \in {"processed", "queued", "lost"} : UploadStored(answer)
    \/ \E answer \in {"error", "rejected", "queued"} : UploadDropped(answer)
    \/ Dump
    \/ Commit
    \/ SaveFails
    \/ \E m \in AccessMode : SaveRemove(m)
    \/ \E m \in AccessMode : SaveRename(m)
    \/ RenameFails
    \/ \E m \in AccessMode : SaveUnmark(m)
    \/ Crash

Spec == Init /\ [][Next]_vars
-----------------------------------------------------------------------------
(* Properties.  The operators marked "mutant" above are the plausible bugs *)
(* each property is tested against; no action uses them.                   *)

\* Every variable holds a value of its type.
TypeOK ==
    /\ perils \in Environments
    /\ actual \in [Item -> Hash \cup {NoHash}]
    /\ hidden \in SUBSET Project
    /\ now \in 1 .. MaxDay
    /\ version \in Version /\ device \in Device
    /\ file \in {"none", "bad", "ok"} /\ base \in State /\ marker \in BOOLEAN
    /\ pc \in {"idle", "scanning", "invalidate", "ready", "commit", "save",
               "rename", "unmark"}
    /\ exec \in 0 .. MaxExec
    /\ run \in [mode : {"delta", "legacy"}, full : BOOLEAN, home : BOOLEAN]
    /\ mem \in State
    /\ records \in Records
    /\ removed \in SUBSET Project
    /\ bodies \subseteq Device \X Item \X Hash \X (0 .. MaxExec)
    /\ view \in [Device -> [Item -> Hash \cup {NoHash}]]
    /\ lastLegacy \in [Device -> 0 .. MaxExec]

\* The payload is assembled and is a delta.
Shipping == pc = "ready" /\ run.mode = "delta"

\* An unchanged ref names an execution whose stored payload carried that
\* very body: buildDeltaSnapshot never refers to an upload that shipped a
\* ref only, was refused, or failed (delta.go, commitProjects), as long as
\* what the agent is told is accepted is stored.
Trusted == perils \cap {"dump", "loseQueued"} = {}
RefsResolve ==
    Trusted /\ Shipping => \A i \in Refs :
        <<device, i, records[i].hash, mem.entry[i].exec>> \in bodies

\* No delta ref reaches back past a legacy snapshot, which may have replaced
\* the inventory the ref names (telemetry.go, the call of Invalidate).
LegacyCutsRefs ==
    Shipping => \A i \in Refs : mem.entry[i].exec > lastLegacy[device]

\* That is so wherever the baseline's path is known and, if it can neither be
\* removed nor emptied, can at least be marked invalid.
NoRefAcrossLegacy ==
    perils \cap {"noHome", "readonly"} = {} => LegacyCutsRefs

\* A project that is on disk where the walk can see it is never reported
\* removed, whatever was disabled, cancelled or left pending by an earlier
\* run: only one below a directory the walk goes past is taken for one that is
\* gone.  No report says of a project both what is in it and that it is gone.
NoFalseRemoval ==
    \A p \in removed :
        /\ actual[p] = NoHash \/ p \in hidden
        /\ p \notin DOMAIN records
        /\ Shipping => p \in Tracked(mem)

\* state.go says of a pending removal that it "survives across runs until
\* AckRemovals drops it": marked by MarkRemovedPending, it would stay in memory
\* or be saved until the commit that acknowledges it.  The code saves nothing
\* but what a commit leaves, so it does not.
PendingSurvives ==
    [][\A p \in mem.pending :
          pc = "commit" \/ p \in mem'.pending \/ p \in base'.pending]_vars

\* What holds instead: the pending removals on disk are always empty, and a
\* removal survives a failed upload because its entry stays in the baseline.
NothingPendingAtRest ==
    file = "ok" => base.pending = {}

\* A tracked item is held by the backend with the tracked hash, so a ref may
\* stand for the body, as long as no answer is lost, no save fails and no run
\* dies.  It spans legacy runs: they discard the baseline.
TrackedMatchesBackend ==
    (perils \subseteq {"optOut", "unreadable"} /\ pc = "idle" /\ file = "ok" /\ ~marker) =>
        \A i \in Tracked(base) :
            view[base.device][i] = base.entry[i].hash

\* Conversely, while the tenant stays opted in, whatever the backend learned
\* is still tracked: its disappearance will be reported.  A removal that was
\* false takes the entry with it, so that the project is sent again, in full,
\* as soon as a walk comes across it.
NothingForgotten ==
    perils \subseteq {"unreadable"} /\ pc = "idle" =>
        \A i \in Item : view[device][i] # NoHash =>
            file = "ok" /\ base.device = device /\ i \in Tracked(base)
-----------------------------------------------------------------------------
(* The inductive strengthening of the properties above, for the proofs.    *)

\* Nothing pending outlives the run that marked it.
PendingInv ==
    /\ base.pending = {}
    /\ pc \in {"scanning", "invalidate", "save", "rename", "unmark"} =>
           mem.pending = {}
    /\ pc \in {"ready", "commit"} => mem.pending \subseteq removed

RemovalInv ==
    /\ pc \in {"idle", "scanning", "invalidate"} => removed = {}
    /\ \A p \in removed : Visible[p] = NoHash
    /\ removed \cap DOMAIN records = {}
    /\ pc = "ready" => removed \subseteq Tracked(mem)

\* Every entry of a state names a stored body of that hash.
Resolves(s) ==
    \A i \in Tracked(s) :
        <<s.device, i, s.entry[i].hash, s.entry[i].exec>> \in bodies

RefInv ==
    /\ pc # "idle" => exec # 0
    /\ \A d \in Device, i \in Item, h \in Hash : <<d, i, h, 0>> \notin bodies
    /\ Resolves(base)
    /\ pc # "idle" /\ run.mode = "delta" => mem.device = device /\ Resolves(mem)
    /\ pc \in {"commit", "save", "rename"} => run.mode = "delta"
    /\ pc = "commit" => \A i \in Bodies : records[i].ok =>
           <<device, i, records[i].hash, exec>> \in bodies

-----------------------------------------------------------------------------
\* Every delta report leaves the backend as a full snapshot of the same scan
\* would: refs and removals are only a compression of it.  The machine the
\* reports are about is the one the walks can see.
Snapshots == INSTANCE Inventory WITH
    actual  <- Visible,
    claimed <- {i \in DOMAIN records : records[i].ok},
    gone    <- removed,
    whole   <- run.mode = "legacy"
DeltaIsCompression == Snapshots!Spec


(* While nothing fails the baseline and the backend are in step, in both    *)
(* directions.                                                              *)
InStep == TrackedMatchesBackend /\ NothingForgotten
=============================================================================
