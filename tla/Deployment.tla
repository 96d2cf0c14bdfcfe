----------------------------- MODULE Deployment -----------------------------
(***************************************************************************)
(* How the agent gets onto a machine and into its scheduler: the install   *)
(* and uninstall commands over launchd, systemd and Task Scheduler, the    *)
(* configuration they leave for the runs the scheduler starts, and what a  *)
(* run does around its scan (main.go).  Two processes: a command someone   *)
(* types or an installer runs, and the cycle the scheduler started.        *)
(*                                                                         *)
(* Any call to the operating system may fail and a process may be killed   *)
(* between two steps.  A program is its version; a schedule is the version *)
(* it starts.  Wording, log directories and access lists are left out.     *)
(***************************************************************************)
EXTENDS Integers, FiniteSets

CONSTANTS
    Machines,      \* [os, who, env, ignore, target, may]: the platform, the account a command runs as, the limit its
                   \* caller set (minutes, 0 for none), whether a failed scan is to be ignored, whether a user is on,
                   \* and the commands that are given
    MaxCommands,   \* bound: commands
    MaxFaults,     \* bound: failing calls
    MaxTurns,      \* bound: restarts of the machine, or logins, and firings of the scheduler
    Hours          \* the scan frequencies whose schedules are compared

VARIABLES
    box,       \* the machine
    os,        \* what the scheduler holds
    conf,      \* config.json by directory
    asked,     \* what an operator who is asked for a configuration was shown
    job,       \* the two processes
    lock,      \* who holds the instance lock
    last,      \* how each process ended
    calls, faults, turns,
    tidy       \* ghost: the last install succeeded and no call failed since it began

vars == <<box, os, conf, asked, job, lock, last, calls, faults, turns, tidy>>

Processes == {"command", "cycle"}
Dirs == {"machine", "admin", "user"}
Torn == -1

Commands == {"install", "uninstall", "scan", "configure", "prompt"}
\* The limit that is switched off.
Off == -2

DeploymentAssumption ==
    /\ Machines \subseteq [os : {"darwin", "linux", "windows"}, who : {"user", "admin", "system"}, env : Nat \cup {Off},
                           ignore : BOOLEAN, target : BOOLEAN, may : SUBSET Commands]
    /\ {MaxCommands, MaxFaults, MaxTurns} \subseteq Nat
    /\ Hours \subseteq Int

-----------------------------------------------------------------------------
(* Schedules.                                                              *)

\* The configured frequency, or the default when it is none (Install).
Frequency(h) == IF h <= 0 THEN 4 ELSE h

\* What Task Scheduler is asked for: [unit, every].
scheduleFor(h) ==
    IF h >= 24
    THEN [unit |-> "DAILY", every |-> LET d == h \div 24 IN IF d > 365 THEN 365 ELSE d]
    ELSE [unit |-> "HOURLY", every |-> IF h < 1 THEN 1 ELSE h]

\* The hours of the day, and the days of the month, a systemd timer fires at.
onCalendarFor(h) ==
    IF h >= 24
    THEN [hours |-> {0}, days |-> LET d == IF h \div 24 > 31 THEN 31 ELSE h \div 24
                                  IN {n \in 1..31 : (n - 1) % d = 0}]
    ELSE [hours |-> IF h <= 1 THEN 0..23 ELSE {n \in 0..23 : n % h = 0}, days |-> 1..31]

\* The hours, from the first of a month of 31 days, at which each fires.
TaskFires(h) ==
    LET s == scheduleFor(h)
        step == IF s.unit = "DAILY" THEN 24 * s.every ELSE s.every
    IN {t \in 0..(61 * 24) : t % step = 0}
TimerFires(h) ==
    LET c == onCalendarFor(h)
    IN {t \in 0..(61 * 24) : t % 24 \in c.hours /\ ((t \div 24) % 31) + 1 \in c.days}
LaunchdFires(h) == {t \in 0..(61 * 24) : t % h = 0}

\* The minutes of a limit: set by the caller, configured, or the default; 0
\* where none is set, Off for one that is switched off.
ExecutionDeadline(env, configured) ==
    IF env # 0 THEN env ELSE IF configured # 0 THEN configured ELSE 240
BareLimit(max) == IF max = Off THEN 360 ELSE max  \* no margin: mutant
executionTimeLimit(max) == IF max = Off THEN 360 ELSE max + 30

-----------------------------------------------------------------------------
(* The configuration.                                                      *)

NoFile == [there |-> FALSE, torn |-> FALSE, creds |-> 0, limit |-> 0]

\* The home of an account, and whether it is elevated.
HomeOf(who) == IF who = "user" THEN "user" ELSE "admin"
Elevated(who) == who # "user"

readConfigDir(c, who) ==
    IF box.os = "windows" /\ c["machine"].there THEN "machine"
    ELSE IF box.os = "windows" THEN HomeOf(who) ELSE "user"
writeConfigDir(who) ==
    IF box.os # "windows" THEN "user" ELSE IF Elevated(who) THEN "machine" ELSE "user"

\* What Load gives a process: the credentials and the limit; nothing when the
\* file is absent or cannot be parsed.
Load(who) ==
    LET f == conf[readConfigDir(conf, who)]
    IN IF f.there /\ ~f.torn THEN f ELSE NoFile
ConfigInvalid(who) == conf[readConfigDir(conf, who)].torn

\* save replaces the file; on Windows, where another process may hold it open,
\* it is then written in place.
Saved(who, f) == [conf EXCEPT ![writeConfigDir(who)] = [f EXCEPT !.there = TRUE, !.torn = FALSE]]

-----------------------------------------------------------------------------
(* The state.                                                              *)

Nothing == [plist |-> 0, job |-> 0, dying |-> FALSE, service |-> 0, timer |-> 0, enabled |-> FALSE, active |-> 0,
            hourly |-> 0, limit |-> 0, logon |-> 0]
Unasked == [open |-> FALSE, file |-> NoFile]
\* new: the version a command installs, or a cycle was started from; seen: the
\* configuration an install read; busy: a run of its own version was scanning.
Rest == [pc |-> "idle", cmd |-> "none", new |-> 0, tries |-> 0, seen |-> NoFile, by |-> "none", telemetry |-> "none",
         did |-> {}, busy |-> FALSE, warned |-> FALSE, recorded |-> FALSE]
Unended == [cmd |-> "none", new |-> 0, code |-> 0, killed |-> FALSE, telemetry |-> "none", did |-> {},
            busy |-> FALSE, warned |-> FALSE, recorded |-> FALSE]

Init ==
    /\ box \in Machines
    /\ os = Nothing
    /\ conf \in {[d \in Dirs |-> IF d = at THEN [NoFile EXCEPT !.there = TRUE, !.creds = 1] ELSE NoFile] :
                     at \in IF box.os = "windows" THEN Dirs ELSE {"user"}}
    /\ asked = Unasked
    /\ job = [p \in Processes |-> Rest]
    /\ lock = "free"
    /\ last = [p \in Processes |-> Unended]
    /\ calls = MaxCommands /\ faults = MaxFaults /\ turns = MaxTurns
    /\ tidy = FALSE

At(p, l) == job[p].pc = l
Who(p) == IF p = "command" THEN box.who ELSE "user"
Go(p, l) == job' = [job EXCEPT ![p].pc = l]
Same == UNCHANGED <<box, asked, calls, turns>>

\* A call that works, and one that does not.
Works == UNCHANGED <<faults, tidy>>
Fault == faults > 0 /\ faults' = faults - 1 /\ tidy' = FALSE

\* A process ends with an exit code.
Ended(p, code, j) ==
    /\ job' = [job EXCEPT ![p] = Rest]
    /\ last' = [last EXCEPT ![p] = [cmd |-> j.cmd, new |-> j.new, code |-> code, killed |-> FALSE,
                                    telemetry |-> j.telemetry, did |-> j.did, busy |-> j.busy, warned |-> j.warned,
                                    recorded |-> j.recorded]]
Exit(p, code) == Ended(p, code, job[p])

\* What the scheduler would start: in this session, and after a restart.
Live(o) == CASE box.os = "darwin" -> IF o.dying THEN 0 ELSE o.job
             [] box.os = "linux" -> o.active
             [] OTHER -> IF o.hourly # 0 THEN o.hourly ELSE o.logon
Lasting(o) == CASE box.os = "darwin" -> o.plist
                [] box.os = "linux" -> IF o.enabled THEN o.timer ELSE 0
                [] OTHER -> IF o.hourly # 0 THEN o.hourly ELSE o.logon

\* A cycle the scheduler starts from a schedule, unless one is running.
Started(j, v) == [j EXCEPT !["cycle"] = IF @.pc = "idle" THEN [Rest EXCEPT !.pc = "enterprise", !.cmd = "send-telemetry",
                                                                         !.new = v, !.by = "scheduler"]
                                        ELSE @]

-----------------------------------------------------------------------------
(* The commands begin.                                                     *)

IsConfigured(o) == CASE box.os = "darwin" -> o.plist # 0 /\ o.job # 0
                     [] box.os = "linux" -> o.active # 0
                     [] OTHER -> o.hourly # 0

\* main refuses to install without credentials, and systemd for root.
Given(c) == c \in box.may /\ calls > 0 /\ calls' = calls - 1
Begins(c) == At("command", "idle") /\ Given(c)
Install ==
    /\ Begins("install")
    /\ IF Load(box.who).creds = 0 \/ (box.os = "linux" /\ Elevated(box.who))
       THEN /\ Ended("command", 1, [Rest EXCEPT !.cmd = "install"])
            /\ UNCHANGED tidy
       ELSE /\ job' = [job EXCEPT !["command"] =
                          [Rest EXCEPT !.pc = "query", !.cmd = "install", !.new = MaxCommands - calls + 1,
                                !.seen = Load(box.who)]]
            /\ tidy' = TRUE
            /\ UNCHANGED last
    /\ UNCHANGED <<box, os, conf, asked, lock, faults, turns>>

\* A scan someone starts by hand, on a machine with credentials.
ScanByHand ==
    /\ Begins("scan")
    /\ Load(box.who).creds # 0
    /\ job' = [job EXCEPT !["command"] = [Rest EXCEPT !.pc = "gate", !.cmd = "scan"]]
    /\ UNCHANGED <<box, os, conf, asked, lock, last, faults, turns, tidy>>

Uninstall ==
    /\ Begins("uninstall")
    /\ job' = [job EXCEPT !["command"] = [Rest EXCEPT !.pc = "query", !.cmd = "uninstall"]]
    /\ UNCHANGED <<box, os, conf, asked, lock, last, faults, turns, tidy>>

\* What follows when there is no old installation, or it has been removed.
Removed == IF job["command"].cmd = "install" THEN Go("command", "write") /\ UNCHANGED last ELSE Exit("command", 0)

\* isConfigured: a query that fails counts as no.
Query ==
    /\ At("command", "query")
    /\ \/ Works /\ IF IsConfigured(os) THEN Go("command", "remove") /\ UNCHANGED last ELSE Removed
       \/ Fault /\ Removed
    /\ UNCHANGED <<os, conf, lock>> /\ Same

-----------------------------------------------------------------------------
(* launchd.                                                                *)

Darwin(l) == box.os = "darwin" /\ At("command", l)

\* Bootout returns before the service is gone; when it fails, the service
\* stays and its plist is removed all the same.
Bootout ==
    /\ Darwin("remove")
    /\ \/ Works /\ os.job # 0 /\ os' = [os EXCEPT !.dying = TRUE] /\ Go("command", "await")
       \/ Works /\ os.job = 0 /\ Go("command", "unlink") /\ UNCHANGED os
       \/ Fault /\ Go("command", "unlink") /\ UNCHANGED os
    /\ UNCHANGED <<conf, lock, last>> /\ Same

\* waitForBootout gives up after a while.
waitForBootout ==
    /\ Darwin("await") /\ Go("command", "unlink")
    /\ \/ Works /\ os.job = 0
       \/ Fault /\ os.job # 0
    /\ UNCHANGED <<os, conf, lock, last>> /\ Same

TornDown ==
    /\ os.dying
    /\ os' = [os EXCEPT !.job = 0, !.dying = FALSE]
    /\ UNCHANGED <<conf, job, lock, last>> /\ Works /\ Same

UnlinkPlist ==
    /\ Darwin("unlink")
    /\ \/ Works /\ os' = [os EXCEPT !.plist = 0]
       \/ Fault /\ UNCHANGED os
    /\ Removed
    /\ UNCHANGED <<conf, lock>> /\ Same

\* The plist is created empty and filled.
WritePlist ==
    /\ Darwin("write")
    /\ \/ Works /\ os' = [os EXCEPT !.plist = Torn] /\ Go("command", "fill") /\ UNCHANGED last
       \/ Fault /\ Exit("command", 1) /\ UNCHANGED os
    /\ UNCHANGED <<conf, lock>> /\ Same
FillPlist ==
    /\ Darwin("fill")
    /\ \/ Works /\ os' = [os EXCEPT !.plist = job["command"].new] /\ Go("command", "load") /\ UNCHANGED last
       \/ Fault /\ Exit("command", 1) /\ UNCHANGED os
    /\ UNCHANGED <<conf, lock>> /\ Same

\* While the old service is known, launchd answers 5 or 37 and bootstrap tries
\* again, five times.  Loading the plist runs the agent at once (RunAtLoad).
MaxTries == 5
bootstrap ==
    /\ Darwin("load")
    /\ \/ /\ Works /\ os.job = 0
          /\ os' = [os EXCEPT !.job = os.plist]
          /\ job' = Started([job EXCEPT !["command"].pc = "persist"], os.plist)
          /\ UNCHANGED last
       \/ /\ Works /\ os.job # 0 /\ job["command"].tries < MaxTries
          /\ job' = [job EXCEPT !["command"].tries = @ + 1]
          /\ UNCHANGED <<os, last>>
       \/ /\ \/ Fault
             \/ UNCHANGED faults /\ tidy' = FALSE /\ os.job # 0 /\ job["command"].tries = MaxTries
          /\ Exit("command", 1)
          /\ UNCHANGED os
    /\ UNCHANGED <<conf, lock>> /\ Same

-----------------------------------------------------------------------------
(* systemd.  Removing an installation ignores every failure.               *)

Linux(l) == box.os = "linux" /\ At("command", l)

Disable ==
    /\ Linux("remove") /\ Go("command", "stop")
    /\ \/ Works /\ os' = [os EXCEPT !.enabled = FALSE, !.active = 0]
       \/ Fault /\ UNCHANGED os
    /\ UNCHANGED <<conf, lock, last>> /\ Same

\* Stopping the service kills the run it started.
Freed(p) == IF lock = p THEN "free" ELSE lock
StopService ==
    /\ Linux("stop")
    /\ \/ /\ Works
          /\ job' = [job EXCEPT !["command"].pc = "unlink",
                                !["cycle"] = IF @.by = "scheduler" THEN Rest ELSE @]
          /\ lock' = IF job["cycle"].by = "scheduler" THEN Freed("cycle") ELSE lock
       \/ Fault /\ Go("command", "unlink") /\ UNCHANGED lock
    /\ UNCHANGED <<os, conf, last>> /\ Same

UnlinkUnits ==
    /\ Linux("unlink")
    /\ \/ Works /\ os' = [os EXCEPT !.service = 0, !.timer = 0]
       \/ Fault /\ \E f \in {"service", "timer"} : os' = [os EXCEPT ![f] = 0]
    /\ Removed
    /\ UNCHANGED <<conf, lock>> /\ Same

\* The service, then the timer; a write that fails leaves the file cut short.
WriteService ==
    /\ Linux("write")
    /\ \/ Works /\ os' = [os EXCEPT !.service = job["command"].new] /\ Go("command", "fill") /\ UNCHANGED last
       \/ Fault /\ Exit("command", 1) /\ \E v \in {os.service, Torn} : os' = [os EXCEPT !.service = v]
    /\ UNCHANGED <<conf, lock>> /\ Same
WriteTimer ==
    /\ Linux("fill")
    /\ \/ Works /\ os' = [os EXCEPT !.timer = job["command"].new] /\ Go("command", "load") /\ UNCHANGED last
       \/ Fault /\ Exit("command", 1) /\ \E v \in {os.timer, Torn} : os' = [os EXCEPT !.timer = v]
    /\ UNCHANGED <<conf, lock>> /\ Same

\* daemon-reload and enable, without --now: the timer starts after the scan.
EnabledNow(o) == [o EXCEPT !.enabled = TRUE, !.active = o.timer]  \* enable --now: mutant
Enabled(o) == [o EXCEPT !.enabled = TRUE]
Enable ==
    /\ Linux("load")
    /\ \/ Works /\ os' = Enabled(os) /\ Go("command", "persist") /\ UNCHANGED last
       \/ Fault /\ Exit("command", 1) /\ UNCHANGED os
    /\ UNCHANGED <<conf, lock>> /\ Same

StartTimer ==
    /\ Linux("start")
    /\ \/ Works /\ os' = [os EXCEPT !.active = os.timer] /\ Go("command", "package")
       \/ Fault /\ job' = [job EXCEPT !["command"].pc = "package", !["command"].warned = TRUE] /\ UNCHANGED os
    /\ UNCHANGED <<conf, lock, last>> /\ Same

-----------------------------------------------------------------------------
(* Task Scheduler: the hourly task, and one that fires at logon.           *)

Windows(l) == box.os = "windows" /\ At("command", l)

\* A task that cannot be deleted ends an uninstall, and an install goes on.
DeleteHourly ==
    /\ Windows("remove")
    /\ \/ Works /\ os' = [os EXCEPT !.hourly = 0, !.limit = 0] /\ Go("command", "unlink") /\ UNCHANGED last
       \/ /\ Fault /\ UNCHANGED os
          /\ IF job["command"].cmd = "install" THEN Removed ELSE Exit("command", 1)
    /\ UNCHANGED <<conf, lock>> /\ Same
DeleteLogon ==
    /\ Windows("unlink")
    /\ \/ Works /\ os' = [os EXCEPT !.logon = 0]
       \/ Fault /\ UNCHANGED os
    /\ Removed
    /\ UNCHANGED <<conf, lock>> /\ Same

\* /create /f replaces a task; it comes with a limit of 72 hours.
CreateHourly ==
    /\ Windows("write")
    /\ \/ /\ Works /\ os' = [os EXCEPT !.hourly = job["command"].new, !.limit = 72 * 60]
          /\ Go("command", "tune") /\ UNCHANGED last
       \/ Fault /\ Exit("command", 1) /\ UNCHANGED os
    /\ UNCHANGED <<conf, lock>> /\ Same

\* applyBatterySettings reads the task back, edits it and imports it again;
\* on any failure the task keeps its defaults.
Tuned(o, limit) == [o EXCEPT !.limit = executionTimeLimit(limit)]
Tune ==
    /\ Windows("tune") /\ Go("command", "logon")
    /\ \/ Works /\ os' = Tuned(os, ExecutionDeadline(box.env, job["command"].seen.limit))
       \/ Fault /\ UNCHANGED os
    /\ UNCHANGED <<conf, lock, last>> /\ Same
CreateLogon ==
    /\ Windows("logon") /\ Go("command", "persist")
    /\ \/ Works /\ os' = [os EXCEPT !.logon = job["command"].new]
       \/ Fault /\ UNCHANGED os
    /\ UNCHANGED <<conf, lock, last>> /\ Same

-----------------------------------------------------------------------------
(* After the scheduler: the limit for the runs it starts.                  *)

\* Where an install goes on: only an account that has a developer's profile
\* scans inline, and launchd has started the scan already.
Onward == CASE box.os = "darwin" -> "hooks"
            [] box.os = "windows" /\ box.who = "system" -> "trigger"
            [] OTHER -> "gate"

\* PersistMaxExecutionDuration reads the file and leaves one it cannot parse.
Persist ==
    /\ At("command", "persist")
    /\ IF box.env = 0 \/ ConfigInvalid(box.who) \/ Load(box.who).limit = box.env
       THEN job' = [job EXCEPT !["command"].pc = Onward,
                               !["command"].recorded = ~ConfigInvalid(box.who)]
       ELSE job' = [job EXCEPT !["command"].pc = "save", !["command"].seen = Load(box.who)]
    /\ UNCHANGED <<os, conf, lock, last, faults, tidy>> /\ Same

Replaced(f) == [NoFile EXCEPT !.limit = box.env]  \* written afresh: mutant
Merged(f) == [f EXCEPT !.limit = box.env]

Save ==
    /\ At("command", "save")
    /\ \/ /\ Works
          /\ conf' = Saved(box.who, Merged(job["command"].seen))
          /\ job' = [job EXCEPT !["command"].pc = Onward, !["command"].recorded = TRUE]
       \/ Fault /\ Go("command", Onward) /\ UNCHANGED conf
       \/ /\ Fault /\ box.os = "windows"
          /\ conf' = [conf EXCEPT ![writeConfigDir(box.who)] = [@ EXCEPT !.there = TRUE, !.torn = TRUE]]
          /\ Go("command", "inplace")
    /\ UNCHANGED <<os, lock, last>> /\ Same
SaveInPlace ==
    /\ At("command", "inplace")
    /\ \/ /\ Works
          /\ conf' = Saved(box.who, Merged(job["command"].seen))
          /\ job' = [job EXCEPT !["command"].pc = Onward, !["command"].recorded = TRUE]
       \/ Fault /\ Go("command", Onward) /\ UNCHANGED conf
    /\ UNCHANGED <<os, lock, last>> /\ Same

\* An MSI's install has the task run under whoever is logged on, if anyone.
RunNow ==
    /\ At("command", "trigger")
    /\ \/ Works /\ job' = Started([job EXCEPT !["command"].pc = "hooks"], os.hourly)
       \/ Works /\ Go("command", "hooks")
       \/ Fault /\ Go("command", "hooks")
    /\ UNCHANGED <<os, conf, lock, last>> /\ Same

-----------------------------------------------------------------------------
(* One run, of the scheduler's or an install's.                            *)

\* What the scheduler starts needs credentials.
Enterprise ==
    /\ At("cycle", "enterprise")
    /\ IF Load("user").creds = 0 THEN Exit("cycle", 1) ELSE Go("cycle", "gate") /\ UNCHANGED last
    /\ UNCHANGED <<os, conf, lock, faults, tidy>> /\ Same

Installing(p) == job[p].cmd = "install"
AfterScan(p) == IF Installing(p) /\ box.os = "linux" THEN "start" ELSE "package"

\* The run gate (RunGate): a run it skips ends at once, an install goes on.
Gate(p) ==
    /\ At(p, "gate")
    /\ \/ Go(p, "scan") /\ UNCHANGED last
       \/ Installing(p) /\ Go(p, AfterScan(p)) /\ UNCHANGED last
       \/ ~Installing(p) /\ Exit(p, 0)
    /\ UNCHANGED <<os, conf, lock, faults, tidy>> /\ Same

Scan(p) ==
    /\ At(p, "scan")
    /\ IF lock = "free"
       THEN lock' = p /\ Go(p, "scanning")
       ELSE /\ job' = [job EXCEPT ![p].pc = AfterScan(p), ![p].telemetry = "failed",
                                  ![p].busy = (job[lock].new = job[p].new)]
            /\ UNCHANGED lock
    /\ UNCHANGED <<os, conf, last, faults, tidy>> /\ Same
Scanned(p) ==
    /\ At(p, "scanning") /\ lock' = "free"
    /\ \/ Works /\ job' = [job EXCEPT ![p].pc = AfterScan(p), ![p].telemetry = "ok"]
       \/ /\ faults > 0 /\ faults' = faults - 1 /\ UNCHANGED tidy
          /\ job' = [job EXCEPT ![p].pc = AfterScan(p), ![p].telemetry = "failed"]
    /\ UNCHANGED <<os, conf, last>> /\ Same

\* The package lanes run whatever became of the scan if there is a user whose
\* files they are, but an elevated install on Windows finds the wrong home.
\* A lane that fails is logged, and the next one runs.
Lanes(p) == IF ~box.target \/ (Installing(p) /\ box.os = "windows") THEN {} ELSE {"package"}
EnforcePackages(p) ==
    /\ At(p, "package")
    /\ job' = [job EXCEPT ![p].pc = "verdict", ![p].did = @ \cup Lanes(p)]
    /\ UNCHANGED <<os, conf, lock, last, faults, tidy>> /\ Same

\* A failed scan ends the process, unless an installer asked otherwise; a
\* scan by hand does no more.
Fatal(p) == job[p].telemetry = "failed" /\ ~(Installing(p) /\ box.ignore)
Verdict(p) ==
    /\ At(p, "verdict")
    /\ IF Fatal(p) THEN Exit(p, 1)
       ELSE IF job[p].cmd = "scan" THEN Exit(p, 0) ELSE Go(p, "hooks") /\ UNCHANGED last
    /\ UNCHANGED <<os, conf, lock, faults, tidy>> /\ Same

\* The hooks (Hooks), then the editors' policy (SettingsPolicy).
ReconcileHooks(p) ==
    /\ At(p, "hooks")
    /\ LET j == [job[p] EXCEPT !.did = @ \cup {"hooks"}]
       IN IF p = "command" /\ Onward # "gate" THEN Ended(p, 0, j)
          ELSE job' = [job EXCEPT ![p] = [j EXCEPT !.pc = "ide"]] /\ UNCHANGED last
    /\ UNCHANGED <<os, conf, lock, faults, tidy>> /\ Same
EnforceEditors(p) ==
    /\ At(p, "ide")
    /\ Ended(p, 0, [job[p] EXCEPT !.did = IF box.target THEN @ \cup {"ide"} ELSE @])
    /\ UNCHANGED <<os, conf, lock, faults, tidy>> /\ Same

-----------------------------------------------------------------------------
(* The world.                                                              *)

Fire ==
    /\ Live(os) # 0 /\ At("cycle", "idle") /\ turns > 0 /\ turns' = turns - 1
    /\ job' = Started(job, Live(os))
    /\ UNCHANGED <<box, os, conf, asked, lock, last, calls>> /\ Works

\* A killed process leaves what it has done; the lock goes with it.
Gone(p) == [last EXCEPT ![p] = [Unended EXCEPT !.cmd = job[p].cmd, !.new = job[p].new, !.killed = TRUE]]
Kill(p) ==
    /\ ~At(p, "idle") /\ faults > 0 /\ faults' = faults - 1
    /\ job' = [job EXCEPT ![p] = Rest]
    /\ last' = Gone(p)
    /\ lock' = Freed(p)
    /\ tidy' = (tidy /\ p = "cycle")
    /\ UNCHANGED <<os, conf>> /\ Same

\* A restart of the machine between two commands: launchd loads the plists it
\* finds, systemd starts the timers that are enabled.
Boot ==
    /\ turns > 0 /\ turns' = turns - 1
    /\ \A p \in Processes : At(p, "idle")
    /\ os' = CASE box.os = "darwin" -> [os EXCEPT !.dying = FALSE, !.job = IF os.plist = Torn THEN 0 ELSE os.plist]
               [] box.os = "linux" -> [os EXCEPT !.active = IF os.enabled /\ os.timer # Torn THEN os.timer ELSE 0]
               [] OTHER -> os
    /\ UNCHANGED <<box, conf, asked, job, lock, last, calls, faults, tidy>>

\* RunConfigureNonInteractive with a new key: it merges what it can read into
\* what it was given; a file it cannot parse is set aside.
Reconfigured(f) ==
    /\ conf' = Saved(box.who, f)
    /\ last' = [last EXCEPT !["command"].recorded = FALSE]
    /\ job' = [job EXCEPT !["command"].recorded = FALSE]
    /\ UNCHANGED <<box, os, lock, faults, turns, tidy>>
Configure ==
    /\ Given("configure")
    /\ Reconfigured([Load(box.who) EXCEPT !.creds = 2])
    /\ UNCHANGED asked

\* RunConfigure reads the file, asks, and saves all of it: the key that was
\* shown, another or none.
Prompt ==
    /\ asked = Unasked /\ Given("prompt")
    /\ asked' = [open |-> TRUE, file |-> Load(box.who)]
    /\ UNCHANGED <<box, os, conf, job, lock, last, faults, turns, tidy>>
Answer ==
    /\ asked.open
    /\ \E key \in {asked.file.creds, 2, 0} : Reconfigured([asked.file EXCEPT !.creds = key])
    /\ asked' = Unasked
    /\ UNCHANGED calls

Step(p) ==
    Gate(p) \/ Scan(p) \/ Scanned(p) \/ EnforcePackages(p) \/ Verdict(p) \/ ReconcileHooks(p) \/ EnforceEditors(p)
DarwinStep == Bootout \/ waitForBootout \/ UnlinkPlist \/ WritePlist \/ FillPlist \/ bootstrap
LinuxStep == Disable \/ StopService \/ UnlinkUnits \/ WriteService \/ WriteTimer \/ Enable \/ StartTimer
WindowsStep == DeleteHourly \/ DeleteLogon \/ CreateHourly \/ Tune \/ CreateLogon \/ RunNow
Next ==
    \/ Install \/ Uninstall \/ ScanByHand \/ Query \/ DarwinStep \/ LinuxStep \/ WindowsStep \/ Persist \/ Save \/ SaveInPlace
    \/ Enterprise \/ (\E p \in Processes : Step(p) \/ Kill(p))
    \/ TornDown \/ Fire \/ Boot \/ Configure \/ Prompt \/ Answer

Spec == Init /\ [][Next]_vars

-----------------------------------------------------------------------------
(* Properties.                                                             *)

TypeOK ==
    /\ os.limit \in Nat /\ lock \in Processes \cup {"free"}
    /\ \A p \in Processes : job[p].did \subseteq {"package", "hooks", "ide"}

\* How the last command ended, while no other runs.
Finished(c, code) == At("command", "idle") /\ last["command"].cmd = c /\ last["command"].code = code /\ ~last["command"].killed

(* Once an install has reported success, and even when only its first scan *)
(* failed, the version it installed is what the scheduler starts, now and  *)
(* after a restart; a warning about the timer leaves only the restart.     *)
InstallHolds ==
    LET l == last["command"]
        scheduled == l.code = 0 \/ l.telemetry = "failed"
    IN At("command", "idle") /\ l.cmd = "install" /\ ~l.killed /\ scheduled =>
           Lasting(os) = l.new /\ (l.warned \/ Live(os) = l.new)

(* An uninstall that reports success, after an install in which nothing    *)
(* failed and without a failing call of its own, leaves nothing that could *)
(* start the agent again, nor a file of the scheduler's.                   *)
UninstallHolds ==
    tidy /\ Finished("uninstall", 0) => os = Nothing

(* Whatever fails, the timer of an installation never starts a run before  *)
(* the install's own scan has had the lock (issue 62).                     *)
FirstScanIsOurs ==
    box.os = "linux" /\ last["command"].cmd = "install" => ~last["command"].busy

(* A task Windows would end early is a run no watchdog reports: as long as *)
(* the limit an install recorded is the one in the configuration the runs  *)
(* read, Task Scheduler's own limit is later than the watchdog's.          *)
WatchdogIsFirst ==
    LET l == last["command"]
        limit == ExecutionDeadline(0, Load("user").limit)
    IN /\ tidy /\ box.os = "windows" /\ Finished("install", 0) /\ l.recorded
       /\ readConfigDir(conf, "user") = writeConfigDir(box.who)
       => limit = Off \/ os.limit > limit

(* What a run that ended has done: the policies on packages were enforced   *)
(* whenever it scanned or tried to, so that an unassignment arrives even    *)
(* when telemetry fails; the hooks and the editors only after a scheduled   *)
(* scan that worked, and a failed one shows in the exit code.               *)
RunsAreWhole ==
    \A p \in Processes :
        LET l == last[p]
            policy(steps) == IF box.target THEN steps ELSE {}
        IN l.cmd \in {"send-telemetry", "scan"} =>
               /\ l.telemetry # "none" => policy({"package"}) \subseteq l.did
               /\ l.telemetry = "ok" =>
                      /\ l.code = 0
                      /\ l.did = policy({"package"}) \cup IF p = "cycle" THEN {"hooks"} \cup policy({"ide"}) ELSE {}
               /\ l.telemetry = "failed" => l.code = 1 /\ l.did = policy({"package"})

(* Only an operator takes the credentials away.  Recording the limit costs  *)
(* none, unless somebody configured new ones since it read the file, or     *)
(* Windows refused the rename and the write in place was cut short.         *)
Key(c) == IF c.there /\ ~c.torn THEN c.creds ELSE 0
KeepsKeys ==
    \A d \in Dirs : Key(conf'[d]) < Key(conf[d]) =>
        \/ asked.open /\ ~asked'.open
        \/ /\ At("command", "save") \/ At("command", "inplace")
           /\ job["command"].seen.creds < Key(conf[d]) \/ (box.os = "windows" /\ conf'[d].torn)
KeysAreKept == [][KeepsKeys]_<<conf, asked>>

(* Every configured frequency fits the scheduler, and no gap between two    *)
(* runs is longer than it, whichever scheduler it is.                       *)
NoLater(fires, h) == \A t \in fires : t + h > 61 * 24 \/ \E u \in fires : t < u /\ u <= t + h
SchedulesFit ==
    \A i \in Hours :
        LET h == Frequency(i)
            s == scheduleFor(h)
        IN /\ s.every \in IF s.unit = "DAILY" THEN 1..365 ELSE 1..23
           /\ NoLater(TaskFires(h), h) /\ NoLater(TimerFires(h), h) /\ NoLater(LaunchdFires(h), h)

StatesHold == TypeOK /\ InstallHolds /\ UninstallHolds /\ FirstScanIsOurs /\ WatchdogIsFirst /\ RunsAreWhole
=============================================================================
