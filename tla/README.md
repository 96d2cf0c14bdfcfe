# Verification of dev-machine-guard

dev-machine-guard is an agent that a scheduler wakes on developer machines. It
inventories AI agents, IDEs, extensions, MCP servers and packages, sends the
inventory to a backend, and enforces what the backend asks for: hooks in AI
agents, and policies on editors and package managers. This directory holds TLA+
models of the parts of it that decide something under concurrency, failure or
restarts, the TLC runs that check them, and TLAPS proofs of what matters most.

Paths below are relative to the repository; `I/` stands for `src/internal/`.
`PROJECT.json` maps every definition to the lines it models.

## 1. Inventory of the system

One wakeup of the agent runs, in order:

    heartbeat (last-run.json) -> run gate (check-in) -> execution watchdog
      -> telemetry.Run: instance lock, "started" post, scan phases,
         delta snapshot, upload, commit of the baseline, full-run stamp
      -> policy reconcilers (IDE, npm, PyPI, Go, Maven, ...)
      -> hooks reconciler

Everything that must survive a run is a file in the agent's home directory, and
every one of those files is rewritten by the next run, by a run of another
user, or by an older or newer release. That is where the hard behaviour is.

| Component | State it keeps | Operations | Interacts with | Hard because | Correct when |
|---|---|---|---|---|---|
| delta scan state (`I/state`, `I/telemetry/delta.go`) | scan-state.json, its `.invalid` marker | Load, ForDevice, Reconcile, Partition, MarkRemovedPending, CommitAfterUpload, AckRemovals, Save, Invalidate | scan results in, payload out, backend inventory | crash between file operations; lost answers; opt-out and back; identity changes | a ref only stands for a body the backend has; nothing a walk can see is reported gone; nothing gone is forgotten |
| node project scan (`I/detector/nodescan*.go`) | node-scan-cache.json; ranks in the baseline | ScanProjects, scanProjectsConcurrent, loadScanCache, save, prune | the user's edits, the package managers, the baseline | results reused across runs; worker pool; two caps | no stale inventory is claimed; no project is starved |
| upload (`uploadToS3`) | none | URL request, PUT, confirm, notify, each with retries | proxy, S3, backend | lost answers, a body that lands late, a proxy that says 200 | the caller concludes only what holds |
| run status (`I/telemetry/telemetry.go`, `run_status.go`, watchdogs) | goroutines, a one-slot channel, a once-only flag | phase posts, heartbeat, worker, signal handler, watchdog, deferred shutdown | backend row | five goroutines that end one another | one failure report, no snapshot lost, an end |
| run gate, heartbeat, instance lock (`I/rungate`, `I/heartbeat`, `I/lock`) | last-run.json, the lock | Write, Evaluate, decideOffline, recordCheckin, StampLastFullRun, Acquire | backend check-in, clock, scheduler | unlocked read-modify-write, clock set back, identity changes | a cached skip is justified, and scanning never stops for good |
| editor policy (`I/devicepolicy/reconcile.go`, settings writer) | the user's settings.json and its ownership record | enforceManaged, clearManaged, verify-only channel | user edits, MDM, backend directive | write, read back, record, roll back: four steps that can each fail | nothing the agent wrote is left without a record; drift and compliance are true |
| ownership file (`I/devicepolicy/cache.go`, `statelock*.go`) | device-policy-state.json, its lock | WriteAppliedState, ClearAppliedTarget | every policy category, other processes, other releases | cross-process rewrite with a bounded wait | each rewrite is an atomic change of one entry |
| package policies (npm, PyPI, Go, Maven) | rc files, netrc credential, records | converge, clear, coordinators | share one credential | partial success over several files | a credential stays only where it is used |
| AI-agent hooks (`I/aiagents`) | hooks-state.json, agents' settings | Reconcile, install, uninstall, hook Run | the agents call back | cache ahead of the adapters | the agents' settings reach the directive |
| hook runtime (`I/aiagents/hook`, `event`, `redact`, `enrich`, `ingest`) | an error log | parse, redact, classify, enrich, send, answer | the coding agent waits, the backend is told | limits within limits, a panic, secrets in free text | the agent is never held up or told no; nothing leaves unredacted |
| scan and payload of a run (`I/telemetry/telemetry.go`, `phase_deadline.go`) | the locals of `Run` | phases, delta or full payload, dump or upload, commit, stamp | every detector, the baseline, the run gate | budgets and a deadline that cut, phases that rest on others | what was left out is not taken for what is not there |
| device identity (`I/device`) | a machine-wide and a per-user file | resolve, generate | every other component | root and user runs generate at once | one identity |
| log capture (`I/telemetry/logcapture.go`) | a pipe, a ring | tee, Sync, Finalize | run status | goroutine and pipe | no hang, the tail is complete |
| agent plugin inventory (`I/detector/plugins*.go`) | none | Claude, Codex and Copilot adapters, coherence recheck, caps, replacement of walker findings | metadata that agents rewrite at any time | a second look under one deadline, budgets, caps | one moment per context; what is called complete leaves nothing out |
| package inventories (`cargoscan.go`, `goscan.go`, `nugetscan.go`, `composerscan.go`) | none | walk, manifests, lockfiles, stores | file system, limits, deadline | the backend takes a complete source for the whole truth | every omission shows on the source that would have held it |
| agent skills and commands (`skills*.go`, `claudeprojects.go`) | none | skill roots, project discovery, lock files, commands, recorded uses | file system, home walk, protected directories, limits | five walks under one deadline, each with limits of its own | a report that misses something says it is not whole |
| file primitives (`I/secureuserfile`, npm's twin, `I/atomicfile`) | one user file, its backups | Read, Commit, Remove, Restore, Lock | the user, who edits, links and moves it | root in a directory of the user's; steps that fail; rollback | no half-written file; what is displaced was just checked or is in a backup |
| other detectors, rules, credentials | none across runs | read | file system | volume | what is there is found |
| schedulers, installation, configuration (`I/launchd`, `I/systemd`, `I/schtasks`, `I/config`, `main.go`) | plists, units and tasks, config.json | install, upgrade, uninstall, configure; one run around its scan | the operating system, installers, the run it starts | an old installation that does not go away; a first scan beside the scheduler's; several writers of config.json | what is reported installed is what is started; a run enforces what it must whatever became of its scan |
| WSL, executors, command line, output | the OS's | run commands, print | OS | I/O | - |

### What is hard in it

`PROJECT.json` lists the hazards, each at its line, with the properties that
would notice it going wrong. In short: a file is removed before its successor
is renamed over it (baseline, last-run.json); a baseline is trusted after the
backend forgot what it names; an inventory is reused after the project changed;
several goroutines race to be the one that reports a failure; a settings write
and its ownership record cannot be made together; a lock may be missing or busy
for too long; two lanes share one credential; a user edits the very file the agent
is rewriting; a limit or the deadline cuts a scan short just where nobody looks.

## 2. The modules

| Module | Models | Role |
|---|---|---|
| `DeltaScan` | `I/state` (the baseline and its pure functions, first part of the module) and one run after another over scan-state.json, with every file operation a step | component |
| `Inventory` | what reporting promises without the delta protocol | abstract; `DeltaScan` implements it |
| `NodeScan` | `ScanProjects`, its cache, and the ranks it gets from the baseline | component |
| `UploadProtocol` | `uploadToS3` | component |
| `UploadOutcome` | what the caller of an upload may conclude | abstract; `UploadProtocol` implements it, `DeltaScan` uses exactly its outcomes |
| `RunStatus` | the goroutines of `telemetry.Run`, the signal handler, both watchdogs | component |
| `RunGate` | wakeups through heartbeat, check-in, lock, scan and stamp | component |
| `SettingsPolicy` | cycles of the managed multi-key lane of `Reconciler` | component |
| `PolicyOwnership` | what enforcement promises to the owner of the file | abstract; `SettingsPolicy` implements it |
| `StateStore` | rewrites of device-policy-state.json under the lock | component |
| `OwnershipStore` | an atomic map of records | abstract; `StateStore` implements it, the policy modules rely on it |
| `PackagePolicy` | cycles of the PyPI and Go lanes over the credential they share | component |
| `TextLines`, `NpmrcText`, `PipText`, `UvText`, `GoEnvText`, `NetrcText` | what each package-manager writer makes of the lines of its file, and what the tool then reads | pure operators |
| `PackageFiles` | the owner's edits between the agent's Write and Clear of one of those files | component over the five text modules, run beside `SettingsPolicy` |
| `FileReplace` | `secureuserfile.File` and its twin in `npmrc.go`, one system call a step | component |
| `Hooks` | hooks reconciler, both adapters with their text edits, `hooks install` and `uninstall` by hand, the gate of the hot path | component |
| `HookRun` | one `_hook` call from its arguments to the answer | component |
| `DeviceID` | probes, shared and per-user file, minting | component |
| `Deployment` | install, upgrade and uninstall over three schedulers, config.json, one run around its scan | component |
| `LogCapture` | pipe, tee, ring, `Sync`, `Finalize` | component |
| `Plugins` | the three plugin adapters, the phase around them, the caps, the replacement of walker findings | component |
| `Directories` | a tree of named directories | used by the scanners |
| `CargoScan`, `GoScan`, `NuGetScan`, `ComposerScan` | the four package inventories | components |
| `SkillScan` | `DetectSkills`: roots, walk for projects, locks, commands, uses, limits | component |
| `ScanRun` | the main thread of `telemetry.Run`: phases, payload, delivery, what is recorded | component |
| `ScanWorlds` | the machines those scanners, `Plugins` and `ScanRun` are run on | values for TLC |
| `MCSettings` | `SettingsPolicy`, `PackageFiles` | composition |
| `MCHost` | `StateStore`, `UploadProtocol`, `DeviceID`, `LogCapture`, `Plugins` | composition |
| `MCScans` | `NodeScan`, the four inventories, `SkillScan`, `ScanRun` | composition |
| `MCAgent` | `RunStatus`, `FileReplace`, `Deployment` and `HookRun` | composition |
| `DeltaScanProofs`, `RunGateProofs`, `SettingsProofs`, `PackagePolicyProofs` | | theorems, one module per component |
| `RunStatusProofs` | | theorems about `RunStatus`, and about an instance of `Deployment` beside it |
| `StateStoreProofs` | | theorems about `StateStore`, and about an instance of `FileReplace` beside it |
| `NodeScanProofs` | | theorems about `NodeScan`, and about an instance of `ScanRun` beside it |
| `HostProofs` | | theorems about `DeviceID`, and about an instance of `UploadProtocol` beside it |

The four compositions put components side by side that share no state. A
variable `part` says which of them moves, so a run explores the sum of their
states and not the product, which would show nothing more.

Conventions. What may go wrong around the program is a set of *perils*; a
component takes a set of such sets, and a behaviour lives in one of them for
good. That keeps the properties honest: a property that holds only without some
failure names the perils it excludes, and the same run checks it with and
without them. Where failures only need to be few, a budget (`Mishaps`,
`MaxTouches`, `Disturbances`) bounds them instead. External parties (the user,
the backend, the file system, other releases) are actions of their own. A
definition whose comment ends in "mutant" is a plausible bug that no action
uses; the property it is meant for fails when it takes the place of the
definition it is named after.

### Correspondence with the code

**DeltaScan.** `file`, `base` and `marker` are scan-state.json, its contents
and `scan-state.json.invalid`; `mem`, `records` and `removed` are the locals of
`Run` (`scanState`, the scan records of the snapshot, its `removed` list);
`hidden` holds the projects below a directory the walk goes past, because it cannot
read it or macOS would ask the user first;
`bodies`, `view` and `lastLegacy` are what the backend holds, and are external
(`I/model/model.go:215-230` says what it does with refs, removals and legacy
snapshots). Actions follow a run: `StartRun` (load, `ForDevice`,
`IsFullSyncDue`), `Scan` (discovery, complete or cut short, and
`buildDeltaSnapshot`), `InvalidateBaseline`, `UploadStored`, `UploadDropped` or
`Dump`, `Commit`, then the four file steps of `Save`. The mode of a step says
what the file system allows: a locked file (`busy`), a directory
(`lockedDir`), or both (`readonly`) that this user may not write. Projects and
global package sets share one map; one result stands for a path. Timestamps
other than `LastFullSyncAt` are left out here and are the subject of `NodeScan`.

**NodeScan.** `cache` is node-scan-cache.json; `newer` holds the projects one
of whose three mtimes is later than `LastScanUnix` of their entry, `touched`
those that will be so for the entry this run is going to write, and `verified`
ranks the baseline's `LastVerifiedAt`. `plan`, `next` and `slot` are the locals
of `scanProjectsConcurrent`. `StartRun` discovers, orders and caps, `Check` is
one iteration of the lookup loop, `ScanDone` and `ScanSkipped` are what a worker
leaves in a slot, `WriteBack` is the write of the fresh entries, the pruning
and the save, `Commit` is `commitDeltaSnapshot` as far as the ranks go, and
`Cancel` is the deadline of the phase. Times are abstracted to the comparisons
the code makes; a run is assumed to outlast the second in which it took its
stamp. Package managers and parsers are one result per content. The mtimes the
entry records (`PackageJSONMtime` and so on) are never compared by the code and
are left out.

**UploadProtocol.** `pc` is the request in progress and `attempt` its try.
`inFlight` is a body the agent stopped waiting for, which may land later. Each
request has a refused, a broken, a lost and an answered outcome; the context may
expire at any moment.

**RunStatus.** One program counter per goroutine: `pc` (main, with the deferred
calls of `Run`), `beat`, `worker`, `handler`, `watchdog`. `phaseCh` is the
one-slot channel, `claimed` the compare-and-swap of `reportFailedOnce`. A
snapshot is the number of phases it shows. Budgets and intervals are moments
that may come at any time. Attaching and throttling the log tail is left out.

**RunGate.** `file` is the `run_gate` section of last-run.json, and each of the
four updates of it (`beat`, `bind`, `note`, `stamp`) is a read and change, a
removal and a replacement, with no lock between processes. A time stamp is its
age on the device's clock, capped, and negative after the clock was set back.
`ran` and `told` are what the backend and an observer know. Left out: the other
switches that ride on the check-in, the skip beacon, and how an identity is
resolved (it is an input that may change or be unknown).

**SettingsPolicy.** `disk` is the managed keys of settings.json, `record` the
entry of device-policy-state.json, `job` the locals of a cycle. `Read`,
`AlreadyApplied`, `WriteRefused`, `Apply`, `Readback`, `Persist`,
`PersistFails`, `Restore` and `RestoreFails` are `enforceManaged` in order;
`ReadToClear`, `RemoveOwned`, `DropRecord` are `clearManaged`. `author` (who
gave a key its value), `cause` (why file and record may differ) and `quiet`
(nothing changes any more) are ghosts. A policy is its map of settings with a
collision-free hash. The load and the store inside `ApplyManaged` are one step.

**StateStore.** `file` is device-policy-state.json with the status
`readStateFile` gives it, `holder` the advisory lock. Each call is acquire or
give up, read or refuse, replace. Others may damage the file, take its
permissions away, or rewrite it as a newer release.

**PackagePolicy.** `cred` is the token in the managed block of .netrc, `block`
the managed block of pip.conf, uv.toml and the Go env file, `rec` what the
ownership file says. `run` is the cycle of one lane with the tasks it still has
(`todo`): `apply` for the credential, `apply` or `clear` for each client,
`settle` (keep or take back the credential that this cycle brought), `report`;
a clear has `clear` tasks and then `release`. Every file write is a step of its own
and may be refused, and the agent may be killed between any two. `run.touched`,
`inForce` and `found` are ghosts: which files somebody else changed since the
cycle looked, which clients were seen in force, and the credential the cycle
found. Both lanes are of one tenant, and the preflight for an `NETRC` override is
part of "refused".

**PackageFiles** and the text modules. A file is a sequence of lines of the few
kinds its writer distinguishes (a marker, an assignment, a header, a
continuation, anything else). `Write` and `Clear` are the writers' functions of
the same names, from the scan of the markers to the text they hand to the file
primitives; what the tool itself reads from a file (`NpmSees` and its like) is
external. `own` is what the owner wrote, `before` what the agent found when it
last took the file over.

**FileReplace.** `disk` is every inode and what each directory holds, `run` the
call with its open descriptors and snapshots; an action is one system call, or
several whose order no other process can tell. `kind` chooses between
`secureuserfile` and npm's twin, which differ in what they check after the
rename and in how they restore.

**Hooks.** `text` is the settings of each coding agent and `flag` the hooks
feature in Codex's config.toml, `backups` what the backups hold of the user's,
`cache` is hooks-state.json, `server` the backend's directive, `proc` the
scheduled and the manual process with what each has read and not yet written.
The edits of the adapters are operators on a list of groups of entries.

**HookRun.** `call` is what is asked on which machine, `at` the stage to come,
`left` the seconds left of `CapHook`, `ev` the event as it grows, `out` what the
agent reads, `sent` what reached the backend. Text is a sequence of items (a
word, a line break, a value under a name), and an item says what the rules of the
redaction look at; the regular expressions themselves are not modelled. A stage
takes its time, fails, or panics as the call allows.

**ScanRun.** `at` is the place in the order of the phases, `late` the scan
deadline, `done` what the tracker has as completed, `got` how much of each section
was found, `proj` the results of the two ecosystems with a delta, those of them that
have an inventory, and the discovered paths, `snap` and `payload` what is captured and assembled, `kept` what the
machine keeps. A phase finds its context sound to the end, expired on the way or
expired before; what a detector makes of that is all or a part of its section. Of
the projects on the disk of a machine some are `hidden` from the walk, in `excess`
of a cap (of number or of bytes, whose line in the log is one per ecosystem here),
`foreign` (their package manager is not installed), or `bare` (a venv without an
inventory).

**DeviceID.** `shared` and `own` are the two files, `proc` one process with what
its probes and reads gave it; root and user processes interleave at every file
operation. **LogCapture.** Bytes are numbers, the marker three that no log
contains; `tee` and `main` are the two goroutines.

**Deployment.** `os` is what the scheduler holds: a plist and the job loaded
from it (macOS), unit files, the enabled and the running timer (Linux), the two
tasks and their time limit (Windows). An installation stands for its version, and
0 for none. `conf` is config.json in each directory it may lie in, `job` the two
processes (a command, the cycle the scheduler started) at the system call or
configuration access they are about to make, `lock` the instance lock. A
call may fail (`faults`), a process may be killed, the machine restarted, and the
configuration rewritten from another terminal. A process carries the version it
installs or was started from, so that who held the lock can be told. The scan is one step here, and the
gate and the policies are the other modules'; what is kept of them is whether and
in which order they run, and what the exit code says. `SchedulesFit` compares the
schedules themselves, hour by hour over two months, when TLC starts.

**Plugins.** A run `r` holds the context under construction, the stamps of the
metadata it read, the budgets and the tasks left; a task of an adapter is an
operator on `r` and the view of the machine at that moment. Between any two
tasks a file may move and the deadline may strike.

**The package scanners.** A directory stands for its path and holds at most one
document of each kind. Each module follows its scanner: roots, walk, candidates,
documents, stores, assembly. `world` is the machine with its limits; file
formats appear as sound, partly sound, broken or unreadable.

**SkillScan.** `info` is the report's own account (truncated, errors, limits) and
`disc` that of the discovery of projects; `queue`, `stack` and `root` are the
walk of `enumerateRoot`, `walk` the one through the home directory. `pc` follows
`DetectSkills`: global roots, registry, walk, merge, project roots, locks,
commands, shadows, uses, report. A link is a directory that leads to another, a
`SKILL.md` a few kinds of lines. The deadline or a panic may come at any step.

## 3. The runs

Every pass run finishes within five minutes on two workers. Together they take
every action of every module.

| Run | Bounds | Distinct states | Shows |
|---|---|---|---|
| `delta_steady` | 1 project, 1 global set, 2 hashes, 3 runs, 2 days; tenants that stay or opt out, directories that close and open | 576k | `DeltaScan` implements `Inventory`; the baseline and the backend agree, and nothing the backend holds is forgotten |
| `delta_faulty` | 1 project, 2 hashes, 2 identities, 2 versions, 3 runs; every peril in two combinations | 805k | refs resolve, no ref reaches across a legacy snapshot, no removal of what a walk can see |
| `delta_pending` | 1 project, 1 hash, 3 runs, no peril | violation | a removal whose upload failed is no longer pending, against the comment in `state.go` |
| `nodescan` | Node: 3 projects, 2 places, 4 contents, sizes 1 and 2, 2 versions, 6 scenarios; the four inventories and the skills on every machine of `ScanWorlds` with the deadline at any point; a run on 14 machines, one budget exceeded, the deadline at any point | 455k | reports are fresh, every project that can be verified is verified again and again; whatever an inventory leaves out shows on its source, in the report of the skills, or in the payload; the walk stays out of protected directories |
| `nodescan_full` | one project, blind edits | violation | a full sync ships a cached body |
| `host` | store: 2 processes, 2 entries, 2 hashes, with locks; upload: all retry limits as in the code, 2 networks; identity: 5 kinds of machine, 2 processes each, 1 mishap; capture: 4 logs, 2 syncs, ring 3, pipe 2; plugins: the machines of `ScanWorlds` | 86k | rewrites are atomic and honest, an upload is never reported without an object and implements `UploadOutcome`, identities agree and settle, logs show, plugin reports are honest, calls return |
| `status` | 3 phases; quiet, signalled and lossy runs, both watchdogs, hangs; 10 disks for a file, 1–2 calls, 1–2 moves of the user, 1 mishap; 8 kinds of machine to install on, 2 commands, 2 restarts or firings, 1 fault; the calls of a hook in `MCAgent` | 846k | reports are told once and are true, nothing is left behind, an order of posts, an end; a user's file is replaced safely; what is installed is what runs; a hook answers in time, sends one redacted event or none |
| `status_tick_race` | a run with a heartbeat | violation | an older snapshot lands after a newer one |
| `gate` | 2 overlapping wakeups, 2 identities, interval 1, staleness 2, 5 environments | 766k | cached skips are justified, the offline cadence is kept, scans recur |
| `settings` | 2 keys, 2 values, 2 policies, 4 environments; 5 package-manager files, up to 3 lines of the owner's, 2 or 3 edits | 391k | implements `PolicyOwnership`, truthful drift and compliance, convergence; in the package managers' files the owner's text survives and what the writer calls converged is what the tool resolves; in both, nothing is stranded or left |
| `package_policy` | 2 tokens, 3 policies, 1 touch, 1 kill | 846k | compliance is true of the files, an unused credential is taken back, a lane never loses it to the other, both converge |
| `hooks` | 2 coding agents, 2 processes, 3 disturbances, 2 backups | 495k | no edit of the user is lost beyond the backups, the hooks end up as the backend wants |

Why these bounds are enough. A run of the agent only ever looks at what the
previous one left, so three runs (leave something behind, act on it, and be
judged) reach every distinction `DeltaScan` draws; the theorems of section 5
remove the bound for the safety properties. Items do not influence one another
in the baseline, and one project and one global set are the two kinds there are.
In `NodeScan` three projects for two places make the caps bite in every run; a
fourth kind of content adds nothing, since `u` has no lockfile and `x` always
fails. In `RunGate` a staleness window longer than the interval lets a cadence
outlive its stamp and the other way round. Two policies, one of which sets a key
that the other does not have, are what makes the agent give a key back. Two
processes are all that can meet in one critical section. In `PackagePolicy` the
third policy comes after an apply and a change of it, and one touch can fall
between any two writes of a cycle, which is where every accident the code guards
against begins. In `PackageFiles` three lines are one before, one after and one
that conflicts with the block; the sets of lines hold, for every branch of a
writer, a line that takes it. `Disturbances` = 3 in `Hooks` is an edit of the
user, a run by hand and a fault, in any order and any mix; `MaxBackups` is one
less than in the code so that rotation drops something. Each machine of
`ScanWorlds` puts one kind of trouble beside sound projects (a limit, an
unreadable directory, a document that moves, a nested root); it is the deadline
that multiplies them. The counters are bounded by `MaxExec`, `MaxDay`, `OldAge`,
`Ahead`, `Phases`, `MaxCommands`, `MaxTurns`, `Logs`, `Syncs`, `MaxEdits`,
`MaxPolicies`, `MaxCuts`, `MaxFileItems`, `MaxErrorLog` and the budgets; each
stands in a guard, except that ages saturate at `OldAge`, above which no
comparison of the code distinguishes them.

`CHECK_DEADLOCK FALSE` is set where the modelled system stops: after `MaxExec`
runs (`delta_*`), when the budget of `hooks` is spent and everything has
settled, and in the compositions, whose parts end (an upload has returned, the
process has exited, an inventory is complete).

### Fairness

- `UploadProtocol`: the call in progress ends, because every request carries a
  client timeout (`WF(Step)`). The context is not assumed to expire.
- `RunStatus`: every goroutine that is not wedged goes on, because phases have
  budgets and requests have timeouts. `StopBeat` is strongly fair: Go's
  `select` picks among ready cases at random, so a ticker cannot always win
  over `runCtx.Done()`. The ticker and the signals owe nothing. Where a
  goroutine may hang, only the watchdog is fair; it is a timer of its own.
- `RunGate`: time passes, the scheduler wakes the agent again, a run goes on.
  Recurrence is claimed only once kills and clock changes cease.
- `SettingsPolicy`: cycles run again and again and proceed (`WF(Cycle)`);
  convergence is claimed once the world is quiet, from any state before that.
- `PackagePolicy`: the same of the two lanes, which a run takes one after the
  other (`WF(Step)`).
- `StateStore`: a process with a call to finish keeps running. Nothing is
  assumed about ever getting the lock.
- `NodeScan`: the agent is woken and a run proceeds (`WF(Step)`); which run it
  is, and whether the user keeps editing, is left open.
- `Hooks`: the scheduler wakes the reconciler and a process that has begun goes
  on (`WF(Step(p))`). Convergence is claimed for a directive that stays.
- `DeviceID`: runs keep being started on the machine (`WF` per process that
  lives there). `LogCapture`: the tee and the calling goroutine go on, the
  reader of the old stderr owes nothing.
- `HookRun`: a stage ends (`WF(Step)`), because every wait but two has a limit:
  `HookEnds` takes out the agent that never closes stdin, and reading a transcript
  is taken to end. A panic owes nothing.
- The compositions restate the fairness of the part that moves.
- `DeltaScan`, `PackageFiles`, `Plugins`, `FileReplace`, `Deployment`, `ScanRun`, `SkillScan` and the
  package scanners have none: they are passes that end by themselves, or calls that promise no
  end, and are checked for safety only.

## 4. What the checks show

The properties hold as stated, and the mutants in `PROJECT.json` show each of
them failing on a plausible bug. Observations worth a maintainer's time follow;
where a property is stated outside a case, the case is one of these.

Three disagreements between a comment or document and the code are exhibited by a
run and listed as `findings`: a heartbeat's older snapshot can land after a newer
one (`status_tick_race`), a full sync reuses cached scan results
(`nodescan_full`), and a pending removal does not survive the run that marked it
(`delta_pending`).

*Baseline and scan.*

- Removals survive failed uploads because the entry stays in the baseline, not
  because they are queued: `removed_pending_ack` is empty in every file ever
  saved (`NothingPending`), although `state.go:51-53` says that an entry of it
  survives across runs. `delta_pending` shows the shortest such behaviour.
- **A directory that cannot be read makes projects look removed.** Both walks
  return nil on any error (`nodescan.go:444-446`) and go past what macOS protects;
  the context stays sound, so `withKnownPaths` is not applied
  (`telemetry.go:1022-1024`, 888-890), the known projects below the directory are
  reported removed, and their entries go with them. Nothing in the log tells.
  When the directory can be read again the next scan sends the bodies as new, so
  the loss lasts as long as the trouble. `NoFalseRemoval` and `DeltaIsTrue` are
  therefore stated of what a walk can reach; `Inventory` takes a full report of
  the same walk as its measure.
- `NoRefAcrossLegacy` leaves out a baseline that can be neither removed, emptied
  nor marked invalid, and `RefsResolve` a payload that was accepted and queued but
  never stored (`Trusted`): the agent has no means to learn of it.
- What the backend holds and the baseline does not know (after a lost answer
  for a new project that then vanishes, a lost baseline, or a legacy run) is
  never reported removed; an identity that changes and changes back forgets in
  the same way. `InStep` claims the converse for a tenant that stays opted in
  and loses nothing, the theorem for a machine that keeps its identity.
- A legacy run with an empty `--install-dir=` leaves the old baseline on disk,
  and one that cannot discard it uploads all the same (`telemetry.go:1357-1361`
  against `docs/delta-rollout.md:13`), so that a later run which can write the
  file emits refs older than the legacy snapshot. `NoRefAcrossLegacy` excludes
  both.
- Rotation through a capped project list needs fewer than `maxNodeProjects`
  projects that always fail: a failed project is never verified and so keeps
  its place at the front. One result above the whole byte limit ends the list
  at its place in every run (`break` in `ScanProjects`). mtimes and stamps are
  whole seconds compared with `<=`, so an edit after the scan but within the
  second of the stamp stays unseen until the next edit. `NoStarvation` and
  `ReportIsFresh` are stated outside these cases.
- "save failed - next run will full-sync" is logged although the old baseline
  survives a failed write (`telemetry.go:1379`, 1422; `state.go:148`).

*Run.*

- The signal handler may exit with 130 while the failure report that won the
  race is still being posted (`telemetry.go:380` against 367-368).
- last-run.json is removed before the new one is renamed over it
  (`heartbeat.go:200` against 17-18).
- A `Sync` that times out leaves its marker in the pipe; the late acknowledgement
  may end the next `Sync` early, so `SyncShows` is stated for a `Sync` whose
  predecessor's marker has arrived. The write of the marker has no timeout: with
  a full pipe and a tee stuck on the old stderr it blocks (`logcapture.go:29`
  says the capture can never wedge the caller). What is logged between
  `Finalize`'s close and the restoring of stderr is lost.
- Two racing first root runs may overwrite the serial with the machine-id (on
  Windows with the fallback). When all probes fail at once for another reason
  than the deadline, an identity is minted that a later run replaces by the
  hardware's. On Windows a user's runs without the shared file may flip between
  serial and MachineGuid. `IdentityAgreed` and `IdentitySettles` say when not.

*Installation.*

- A launchd job that is not torn down in time makes the upgrade report failure
  with the new plist in place: the old version stays loaded until the next
  restart, and the new one comes then. A systemd upgrade stops the run in progress.
- An uninstall takes an agent whose plist is there but not loaded for not
  configured (`launchd.go:301`): after an install that could not load it, it
  reports success and leaves the plist, which launchd loads at the next login.
  `UninstallHolds` therefore asks that the install went well.
- A failed logon task or settings patch on Windows is a warning: the hourly task
  then keeps Task Scheduler's 72 hours. `WatchdogIsFirst`
  therefore speaks of installs without a failed call.
- Two writers of config.json lose each other's update, and the prompts hold what
  they read for as long as the operator thinks. `KeepsKeys` says who may cost the
  credentials: an operator, and a limit recorded over a newer file.
- On Windows the file is written in place when its rename is refused; cut short
  there, it is unreadable for every later run, which then reports that it is not
  configured. A timer every 5 hours fires at 0, 5, 10, 15, 20: the last gap of a
  day is shorter, never longer (`SchedulesFit`).
- The policies on editors and hooks are skipped when a scheduled scan fails; the
  package lanes are not.

*Policies.*

- A kill between a settings write and its record, followed by a clear, leaves
  the value behind. The code accepts this (`reconcile.go:858-860`), so
  `NothingStranded` excludes kills, while `Settles` includes them.
- On a file system without advisory locks (`statelock.go:143`) the ownership file
  is rewritten unlocked, and one process can drop another's record, against
  `cache.go:349-352`. `StateStore`'s theorems assume `Locking`.
- PyPI's clear removes the credential even when a client's clear failed; Go's
  stops before. A kill between the credential and the first client leaves a
  credential that later cycles take for converged: `CycleIsHonest` speaks of a
  completed cycle that had found none. A PyPI clear with neither record nor block
  returns an error in every cycle.
- netrc: removing the block joins two lines if the user's file had no final
  newline and a tool appended after the end marker (`TightLanes` excludes it). An
  empty .netrc is removed by a clear.
- pip: convergence is judged by the body of the block, so a section header put
  between `[global]` and the block scopes it away; a second `[global]` makes pip
  refuse the file. pip's `Clear`, and uv's `Write` and `Clear`, refuse for good
  when the user adds again a key that the agent commented out (`DriftRepairable`
  leaves uv and netrc out). uv's `Clear` keeps its backups when nothing changed.
- npm adds a final newline, and its backup is of the bytes read earlier.

*Files.*

- npm's restore of a file whose mode was not 0600 puts the bytes back and then
  reports failure, since the check after it always asks for 0600
  (`npmrc.go:805-810`).
- `Remove` of a file that is not there leaves a snapshot without identity; a later
  restore removes whatever the user created meanwhile (`file.go` 883-889).
- A rollback after a failed check writes the old bytes over whatever was swapped
  in, without a backup; `SameFile` does not see an edit in place. A temporary file
  of a killed process is never removed. After the user repointed the link, the
  old leaf keeps block and backups. A directory made by root whose metadata
  failed stays root's, and later calls refuse it. The failing metadata step of
  `OpenLock` may remove a lock another process just made.

*Hooks.*

- Under a scheduled run as root hooks-state.json is root's, or in another home, so
  the hook process of the user takes the default: there the switch works only
  through the removal of the entries (`QuietInTheEnd` says `~AsRoot`).
- Claude's adapter may leave two entries; an agent that is not on the path is
  neither installed nor removed; an inline `features` table makes Codex's install
  fail for good; two replacements within a second overwrite each other's backup.

- One hook call: reading stdin and the transcript is not under the limit that the
  package comment gives every stage; the 30 seconds for the scan of secrets never
  bite below the 15 of the whole call. Once the 15 are spent the event is dropped
  with a line in the log. The comment that a panic leaves stdout empty does not see
  that the deferred answer is written all the same. The last redaction covers the
  payload; the registry's answer, the working directory and the name of the event go
  out as they are. Of a line of JSON only the first pair is judged by how random it
  looks, and a line with one redacted value is not judged at all.

*Inventories.*

- A run: of the projects without a result some leave a line in the log (the caps),
  but those no walk comes across (see above) and those whose package manager is
  not installed do not, and they are missing from the search for skills and plugins
  too: `OmissionsShow` excuses the two sections on machines that have such projects.
  A venv without an inventory is counted in the metrics but sent neither as a body
  nor as a ref under delta (`delta.go:143-147`), so that `DeltaIsTrue` compares count
  and payload only where there is none. The upload is the one phase whose budget
  ends the run (`telemetry.go:1401-1412`); the scan is then repeated by a later run.
- A run: the five configuration audits belong to no phase, so that neither status
  nor log says when the deadline cut them short (`OmissionsShow` leaves them out).
  A phase that rests on another (extensions on the editors, skills and plugins on
  the projects) is whole by its own account when only the other was cut: the reader
  must know which rest on which, as `Section` does. A phase the deadline ended is
  logged as over its own budget. A failed plugin scan is a recorded phase without
  a section.

- Claude: a skill directory or synced plugin whose manifest is refused is skipped
  without degrading the report, and so is a refused default hooks file (Claude,
  Codex). Listings and stats are not stamped by the snapshot. Contexts beyond the
  cap are not reported as cut. A deadline after assembly makes the recheck fail
  and the second attempt read nothing.
- Cargo: a manifest beside a `.cargo-checksum.json` makes its *parent* a directory
  source, and every manifest below that is dropped while the sources stay
  complete; a package listed by two workspaces goes to the first only.
- Cargo, Go, Composer: a search root inside another one but below a skipped
  directory is folded into the outer root and neither walked nor reported.
- Skills: a search root that is refused because one of its ancestors cannot be
  listed leaves an error in the report but not `truncated` (`skills.go:1061-1097`);
  `Visible` leaves it out. The marker probe of the home walk lists the
  marker directory without consulting `ShouldSkip`.
- Composer: a vendored manifest can mark any directory as a vendor tree and hide
  its manifests; `entry_limit` is not noted when the directory that was cut is
  itself a vendor tree. NuGet: a shared file may be complete although one of its
  consumers lies in a directory that could not be listed (its root is partial).

## 5. What is proved

TLAPS checks these for all values of the constants. No theorem assumes more of
the constants than the `ASSUME` of its module, which TLC evaluates in the runs,
and the hypotheses named here.

**DeltaScanProofs.** One lemma per function of `I/state` says what it maps a
state to; every inductive step has one case per action.

- `TypeCorrect`: `Spec => []TypeOK`.
- `NothingPending` and `NoRemovalOfPresent`. The first says of every run what
  `delta_pending` shows of one: no file ever saved holds a pending removal.
  `NothingPendingAtRest` is not
  inductive, since it says nothing of the state in memory that will be saved.
  `PendingInv` adds that a run only carries pending removals from `Scan` to
  `Commit`, and there only those it reports. `RemovalInv` adds that reported
  removals are off the disk or out of the walk's reach, which later steps cannot
  undo because the machine is not edited once scanning is over.
- `RefsAlwaysResolve`: `RefInv` says that every tracked entry, of the baseline
  on disk and of the state in memory, names a body that was stored under the
  same identity, and that execution 0 never stored anything. It is preserved by
  `Commit` because an accepted upload was stored (`Trusted`).
- `LegacySnapshotsCutRefs`: `LegacyInv` follows the baseline from the legacy run
  that discards or marks it. Whatever a later run may load of it was stored after
  the snapshot, or is marked and loads as empty.
- `TrackedIsHeld`, and `BaselineAndBackendInStep` for a machine with one
  identity, where answers arrive, saves succeed and runs end. `RecordInv` ties a
  run's records to the disk, `HeldInv` the tracked entries to the backend's view
  of their identity, `CoverInv` the view to the entries; the three with the types
  are `SteadyInv` and its converse half.
- `DeltaLosesNothing`: in the same environments `DeltaScan` implements
  `Inventory`. A stored payload is the only step that is not a stutter; there
  `SteadyInv` turns refs into the bodies they stand for.

**NodeScanProofs.**

- `ReportsAreFresh`, for any set of projects, every machine, both caps and every
  number of runs. `ReportIsFresh` alone says nothing of a cache entry until a run
  uses it. `FreshInv` adds that what a project holds now was seen by the run's
  ghost (`Witnessed`), that an entry the mtimes still vouch for holds what the
  project holds (`CacheIsTrue`), that so does a result of this run unless the
  project was touched since (`ScanIsTrue`), and that a claim was witnessed when
  it was made (`ClaimsAreTrue`). The write-back turns `ScanIsTrue` into
  `CacheIsTrue` exactly because the entry's stamp is the start of the run and not
  its end; with the other choice (`NewerThanWrite`) that step fails.
- `TypeCorrect`, where `Project` is finite: the ranks of the baseline are counted
  with `Cardinality`, and the plan is a sequence without repetitions.
- `RunsAreHonest`, of an instance of `ScanRun`, for any machines and any number of
  budgets exceeded: `TypeOK`, `OmissionsShow`, `DeltaIsTrue`, `KeptAfterDelivery`
  and `DeadlineOnlyCuts`, all that `nodescan` checks of the main thread of a run.
  The assumption is `RunAssumption`: no ecosystem is scanned for projects but the
  two there are. The properties speak of a payload; `RunInv` of the way there.
  `Sectioned`: a section cut short has its line in the log or is `Excused`, one past the phase it
  is `Due` in holds something, and a section with a phase of its own is filled
  exactly when the tracker has that phase. `Seen`: an ecosystem past its scan was
  read as a whole (`ReadWhole`: all within reach is discovered, and has a result
  unless it is foreign or a cap has its line) or its phase is in the log, and where a
  delta will be made no known project within reach is missing from what counts as
  discovered. `Sealed`: from the
  snapshot on, log and tracker say what was captured, and the payload is made of
  what the run still holds, for nothing it is made of moves any more. `Delivered`:
  baseline and stamp are the old ones until the last step, and a full snapshot has
  voided the baseline before it may be handed over. There is one lemma per phase;
  all but a few fill the one section they own and are cases of `PhaseFinds`.

**HostProofs**, for any machines (on which a Mac has no source but its serial),
any root and user processes, any number of mishaps, and any networks.

- `IdentitiesAgree`, all of `IdentityAgreed`, from one invariant per question.
  `OneInv`: what a process reported is what it caches, and a cached identity is
  never resolved again. `MintInv`: while no source failed by itself, a process
  that has one comes to `generatedID` only past its deadline, and the files it
  reads hold nothing minted. The file of the users is in it only where they can
  read a source themselves: on Linux with a serial alone they mint, and root does
  not. `StoredInv`: on a machine without a source nobody writes but who creates,
  so what is in a file stays, and nobody knows what is not in a file of theirs.
- `IdentityNeverFlips`, which is `NoFlip`. `FlipInv`: only root comes to write,
  with what it probed, and only if what it read does not settle the question; a
  hardware probe on a Mac that answered is the serial because there is no other.
- `UploadTypeCorrect`; `UploadedIsThere` (`ObjectInv` adds that what the backend
  persisted came from the bucket, which nothing leaves again); `OutcomeIsHonest`,
  the refinement of `UploadOutcome`.

**RunStatusProofs**, for every number of phases.

- `ReportsAreTrue`: `ClaimInv` says that whoever reports or has reported holds
  the once-only flag, `RowInv` that the row exists before the heartbeat and the
  first snapshot start, `ErrorInv` that where nothing interferes the main
  goroutine alone claims the failure and has posted it before it returns.
- `NothingIsLeftBehind`: `LeaveInv` (when the worker may leave, the main
  goroutine has cancelled the context and sends no more) and `LastInv` (without a heartbeat the last
  snapshot is in the channel, with the worker, or told).
- `ProgressIsMonotonic`: `OrderInv` orders row, worker, channel and scan.

- `CommandsAreHonest`, of an instance of `Deployment`, for any machines and any
  numbers of commands, failing calls and restarts: `StatesHold` and `KeepsKeys`,
  which is what `CommandsHold` says of it. The assumption is
  `DeploymentAssumption`. The properties speak of a command that has ended;
  `DeployInv` of every call on the way. `Ordered`: which command can be at which
  call. `Doing`: what a run has enforced by then. `Holding`: from the call that
  puts the new version in place, what the scheduler holds is the version being
  installed, and stays so between commands. `Clean`: as long as nothing failed, the
  scheduler holds nothing or a whole installation between commands, which is what
  lets an uninstall trust `isConfigured`. `Fresh`: versions are handed out in
  order, and up to `StartTimer` an install's version is in no timer that runs and
  no cycle, so whoever has the lock at its first scan is another version's; on
  Linux that needs `Enable` without `--now`. `Locked`: the lock belongs to a
  process at its scan. `Limited`: every limit in a file, in a prompt or in a
  process is none or the one of the machine, so the limit Task Scheduler was given
  is the later one. `KeepsKeys` needs `Sorted` alone.

**RunGateProofs**, for any wakeups and identities, any cadence and floor.

- `TypeCorrect`, `SkipsAreJustified`, and `GateStaysJust`, which is `GateIsJust`.
  `ForwardInv`: where the clock is not set back, a stamp in the file, in a buffer
  about to become the file, or read by a wakeup is no younger than the last full
  run of its identity. `LandInv`: where every update lands and wakeups do not
  overlap, the stamps of the file, or of the buffer about to become it, are
  exactly the last run and the last directive. `KeepInv`: on a device that is only
  ever offline, file and buffers keep the run and the cadence they were given.

**SettingsProofs**, for any keys, values and policies.

- `EverythingHasACause`: `KindInv` says which directive a cycle past its
  fetch acts on. `QuietInv`: in a cycle that nobody interrupts, what was read
  still stands, or the policy's patch has been applied to it. `CauseInv`: a file
  that differs from the record has a reason to, and so had the file a cycle read.
  With `NothingStranded` they are `OwnershipInv`, which is inductive.
- `CyclesOwnWhatTheyRecord`: under `OwnershipInv` each cycle implements one
  atomic take-over, release or forget of `PolicyOwnership`.
- `ReportsNameWhatIsApplied` (`NamedIsApplied`). The assumption is that a
  policy's content hash determines it.

**StateStoreProofs**, of `StateStore` where `Locking`, and of an instance of
`FileReplace` for any disks, paths, records and numbers of calls, moves and
mishaps.

- `TypeCorrect`, `RewritesAreAtomic` (the refinement of `OwnershipStore`) and
  `RewritesStayHonest`. `LockInv` says that whoever reads or replaces holds the
  lock, and that the file has not changed since a replacer read it (up to its
  permissions, which others may change meanwhile). It makes the last step of a
  rewrite an edit of the current contents.
- `FilesStaySound`, `NothingIsDisplaced`, `LittleIsLeft` and `CallsTellTheTruth` of
  `FileReplace`: the parts `RootsStayPut` and `LeafIsWhole`, `NeverAstray`,
  `LittleLeft` and `OutcomeHolds` of `FilesAreSafe`. `FilesStaySafe` is all of it:
  what `status` checks on its disks (`MCAgent!FilesAreSafe`), for any. The
  assumption is `FileAssumption`: no disk begins in the middle of a call, with the
  directory a call makes or with backups where the path does not lead. The first
  three rest on `Inv`. `DiskOK`: what is not for the user, root's lines and half a file, is
  in no file of the user's, and half a file has no name. `RunOK`: what a call has
  read or will write is the user's, and a lock file is the agent's own or was
  checked. `Known`: from its look at the leaf to its rename, removal or undoing a
  call knows what is at the leaf unless another moved an entry. For that, a
  snapshot that names no file to look for must be of a call that found none
  (`SnapOK`), or a restore could replace a file it never saw. `Temps`: while
  nobody was killed, every temporary file belongs to the call in progress.
- The last two need `Whole` beside it, which follows a call nobody disturbed from
  step to step. `Roles`: which call can be at which step, and what it then has in
  hand. `Calm`, as long as nobody moved: the path leads where the call found it to
  lead (`Led`), the leaf shows what it showed at the start until the rename or the
  removal (`Untouched`), what was read is what was there (`Read`), what is renamed
  is the text that was asked for under private metadata (`Wrote`), an undoing or a
  restore puts back what was (`Sure`), and the result says so (`Outcome`).
  `MadeOnly`: the directory a call made holds nothing unless the path leads there,
  and is the user's once the call has kept it. `Beside`: as long as nobody moved,
  backups are only where the path leads, and a clear leaves none. A restore makes
  this long: it may follow any call, or a rename or removal of its own call that
  could not be read back, and it must find the leaf that call left.

**PackagePolicyProofs**, for any tokens, policies, refusals, overrides, edits and
kills. The assumption is that a token is not the 0 of a missing one and `None`
nothing else.

- `CyclesAreHonest`. `CycleIsHonest` only speaks of a cycle whose tasks are done;
  `Inv` says what is true on the way there. `Shape`: which tasks are ahead, in
  which order; a clear has only clears, an enforcement starts with the credential
  and settles it before it reports. `Kept`: as long as all went well, the files
  whose task is done and that nobody touched are as wanted. `Told`: a report of
  this cycle's policy follows from good states. `Brought`: a credential that was
  not there when the cycle began has a client in force once it is settled.
  `Used`: a client counted as in force holds the wanted block.
- `SiblingIsSafe`: the credential is removed only by `release`, which looks at the
  other lane in the same step, or by `settle`, which takes back what this cycle
  brought.

### Only model-checked

- Every liveness property (`Settles`, `Recurs`, `NoStarvation`, `RunEnds`,
  `ConvergesInTheEnd`, `OneInTheEnd` of the identity, `CallsReturn`): liveness
  under fairness and `ENABLED` are out of the prover's reach.
- The text modules, `PackageFiles`, `Hooks` and the package scanners are built
  from functions that are recursive over sequences (folds, closures of a
  directory tree); what such a definition computes for every input needs
  induction over data, which none of the installed provers can do here.
- `HookRun` and `SkillScan`, whose values and walks are recursive too.
- `LogCapture` and `Plugins`, which are folds over sequences of bytes and of
  directory entries.

## 6. What is not modelled

The detectors other than those above and the rule and credential scanners (each
one result per context in `ScanRun`) read once and decide nothing under
concurrency. Output, progress and statistics print. Of the installation, log
directories, access lists and the Windows launcher are left out, and so are the
legacy leftovers `main` warns of. The WSL host starts guests and does not wait
for them. Inside the modelled parts: what package managers and parsers return
(one result per content), the Windows security descriptors, Copilot's editor
contexts, the census of a skill's files, the ordering of version labels, the
single-value lanes of `Reconciler` (npm's and Maven's), the regular expressions
of the redaction, what a detector's own budget leaves out beside the section's
own account of it, the throttle of the log tail. `I/aiagents/policy` is not
called by anything.
`PROJECT.json` gives the reason for each part.

## 7. Plan

1. `EditsSettle` and `BothOrNeither` of `Hooks`, from what an edit does to one
   group; what is left of the lemmas over sequences stays with TLC.
2. Two whole cycles at once in `SettingsPolicy`, over `OwnershipStore`, and the
   single-value lanes beside the managed one.
