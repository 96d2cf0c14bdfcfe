------------------------------ MODULE ScanRun -------------------------------
(***************************************************************************)
(* The main thread of telemetry.Run: the phases of a scan one after        *)
(* another, each under a budget of its own and all under one deadline, the *)
(* payload assembled from whatever they found, its delivery, and what is   *)
(* recorded afterwards.  The goroutines beside it are RunStatus's, the     *)
(* protocol of an upload UploadProtocol's, the baseline DeltaScan's.       *)
(*                                                                         *)
(* Of the deadline and the budgets only the upload's own fails a run; the  *)
(* others leave parts of the inventory out.  What the module is about is   *)
(* that nobody mistakes what was left out for what is not there, and which *)
(* omissions nobody is told of.                                            *)
(***************************************************************************)
EXTENDS Integers, Sequences, FiniteSets

CONSTANTS Runs,     \* machines with their configuration
          MaxCuts   \* budgets exceeded in one run

Eco == {"npm", "python"}
RunAssumption ==                                \* assumed where it is instantiated
    MaxCuts \in Nat /\ \A r \in Runs : r.scanned \subseteq Eco

Order == <<"lock", "scheduler_info", "device_info", "wsl_scan", "ide_scan", "extension_scan",
           "ai_tools_scan", "mcp_config_scan", "malicious_file_scan", "brew_scan", "python_scan",
           "syspkg_scan", "node_scan", "tidy", "agent_skills_scan", "agent_plugins_scan",
           "credentials_scan", "browser_extensions_scan", "go_scan", "cargo_scan", "composer_scan",
           "nuget_scan", "audits", "snapshot", "assemble", "invalidate", "deliver", "settle">>
\* The sections of the payload, each with the phases it is made in or from.
\* Of those in the log that are no phases, one tells that a project scan was
\* truncated, at its number of projects or at its bytes.
Capped == [npm |-> "npm_cap", python |-> "python_cap"]
Caps == {Capped[e] : e \in Eco}
Section == [ides |-> {"ide_scan"}, extensions |-> {"ide_scan", "extension_scan"}, ai |-> {"ai_tools_scan"},
            mcp |-> {"mcp_config_scan", "agent_plugins_scan"}, rules |-> {"malicious_file_scan"},
            brew |-> {"brew_scan"}, pythonGlobals |-> {"python_scan"}, system |-> {"syspkg_scan"},
            nodeGlobals |-> {"node_scan"}, skills |-> {"agent_skills_scan", "node_scan", "python_scan"} \cup Caps,
            plugins |-> {"agent_skills_scan", "agent_plugins_scan", "node_scan", "python_scan"} \cup Caps,
            credentials |-> {"credentials_scan"}, browser |-> {"browser_extensions_scan"}, go |-> {"go_scan"},
            cargo |-> {"cargo_scan"}, composer |-> {"composer_scan"}, nuget |-> {"nuget_scan"},
            audits |-> {}]
Lists == {"brew", "pythonGlobals", "system", "nodeGlobals"}
Optional == {"rules", "plugins", "credentials", "browser"}

VARIABLES run,      \* the machine
          at,       \* the place in Order
          late,     \* the deadline of the scan is past
          cuts,     \* budgets exceeded
          done,     \* the phases the tracker has as completed
          log,      \* what the captured log tells: phases cut, scans truncated, the usage line
          got,      \* section -> "nil", "empty", "part", "all"
          proj,     \* ecosystem -> the results, those with an inventory in them, what discovery saw
          snap,     \* what is captured when the scan is over
          payload,  \* what is to be delivered
          out,      \* what became of it
          kept      \* what this machine keeps: baseline, stamp, and how the run ended
vars == <<run, at, late, cuts, done, log, got, proj, snap, payload, out, kept>>

Nothing == [results |-> {}, records |-> {}, discovered |-> {}]
Init ==
    /\ run \in Runs /\ at = 1 /\ late = FALSE /\ cuts = 0 /\ done = <<>> /\ log = {}
    /\ got = [s \in DOMAIN Section |-> "nil"] /\ proj = [e \in Eco |-> Nothing]
    /\ snap = {} /\ payload = {} /\ out = "none"
    /\ kept = [baseline |-> "old", stamped |-> FALSE, end |-> "no"]

-----------------------------------------------------------------------------
(* Phases and their contexts.                                              *)
Stage(s) == kept.end = "no" /\ at <= Len(Order) /\ Order[at] = s
Go_on == at' = at + 1 /\ UNCHANGED run
End(how) == kept' = [kept EXCEPT !.end = how] /\ at' = at /\ UNCHANGED run

OneContext(ctx) == late                         \* mutant
\* The one deadline; only what hangs on the scan's context feels it.
Expired(ctx) == ctx = "scan" /\ late
Budgeted(p) == p \notin run.untimed

\* How a phase finds its context: sound to the end, expired on the way, or
\* expired before.
Context(p, c) ==
    \/ c = "sound" /\ ~Expired("scan") /\ UNCHANGED <<late, cuts>>
    \/ c = "dead" /\ Expired("scan") /\ UNCHANGED <<late, cuts>>
    \/ c = "cut" /\ ~Expired("scan") /\ run.deadline /\ late' = TRUE /\ UNCHANGED cuts
    \/ c = "cut" /\ ~Expired("scan") /\ Budgeted(p) /\ cuts < MaxCuts /\ cuts' = cuts + 1 /\ UNCHANGED late
CutInSilence(p, c) == {}                        \* mutant
Exceeded(p, c) == IF c = "sound" THEN {} ELSE {p}
\* What the phase has told already, and that it exceeded its budget.
Ended(p, c, told) == done' = Append(done, p) /\ log' = log \cup told \cup Exceeded(p, c)
endPhase(p, c) == Ended(p, c, {})
Skip == UNCHANGED <<late, cuts, done, log, got, proj>>
Rest == UNCHANGED <<snap, payload, out, kept>>

\* A phase that fills sections: find says with what, given its context.
Phase(p, runs, find(_)) ==
    /\ Stage(p) /\ Go_on /\ Rest
    /\ \/ ~runs /\ Skip
       \/ runs /\ \E c \in {"sound", "cut", "dead"} :
                     Context(p, c) /\ endPhase(p, c) /\ got' \in find(c) /\ UNCHANGED proj
Found(c) == IF c = "sound" THEN "all" ELSE "part"
Sound(s) == got[s] = "all"

\* The deadline passes between two phases.
Expire == /\ kept.end = "no" /\ run.deadline /\ ~late /\ late' = TRUE
          /\ UNCHANGED <<run, at, cuts, done, log, got, proj>> /\ Rest
\* A detector panics; the deferred recovery reports it.  Or somebody ends the process.
Panic == /\ kept.end = "no" /\ run.mishap = "panic" /\ End("panicked")
         /\ UNCHANGED <<late, cuts, done, log, got, proj, snap, payload, out>>
Kill == /\ kept.end = "no" /\ run.mishap = "kill" /\ End("killed")
        /\ UNCHANGED <<late, cuts, done, log, got, proj, snap, payload, out>>

-----------------------------------------------------------------------------
(* Before the scan.                                                        *)
AcquireLock ==
    /\ Stage("lock") /\ UNCHANGED <<late, cuts, done, log, got, proj, snap, payload, out>>
    /\ IF run.locked THEN End("refused") ELSE Go_on /\ UNCHANGED kept

SchedulerInfo == LET Same(c) == {got} IN Phase("scheduler_info", TRUE, Same)

Answers(c) == (c = "sound" /\ run.id # "none") \/ (c = "cut" /\ run.id = "fast")
\* An identity that the budget left no time for is asked for once more, as
\* long as the scan may go on.  A guest takes its host's and asks nobody.
DeviceInfo ==
    /\ Stage("device_info")
    /\ \E c \in {"sound", "cut", "dead"} :
          /\ Context("device_info", c)
          /\ IF run.guest \/ Answers(c) \/ (run.id # "none" /\ ~late')
             THEN endPhase("device_info", c) /\ Go_on /\ UNCHANGED kept
             ELSE End("nameless") /\ UNCHANGED <<done, log>>
    /\ UNCHANGED <<got, proj, snap, payload, out>>
WSL == LET Same(c) == {got} IN Phase("wsl_scan", run.wsl, Same)

\* Only a run the backend opted in looks at the baseline.
Delta == run.delta /\ run.home

-----------------------------------------------------------------------------
(* The scan.                                                               *)
IDEs == LET Find(c) == {[got EXCEPT !.ides = Found(c)]} IN Phase("ide_scan", TRUE, Find)
\* Extensions are looked for in the editors that were found.
Extensions ==
    LET Find(c) == {[got EXCEPT !.extensions = IF Sound("ides") THEN Found(c) ELSE "part"]}
    IN Phase("extension_scan", TRUE, Find)
AITools == LET Find(c) == {[got EXCEPT !.ai = Found(c)]} IN Phase("ai_tools_scan", TRUE, Find)
MCPConfigs == LET Find(c) == {[got EXCEPT !.mcp = Found(c)]} IN Phase("mcp_config_scan", TRUE, Find)

\* Without rules there is no phase: that it is recorded is what says the
\* machine was looked at.
MaliciousFiles ==
    LET Find(c) == {[got EXCEPT !.rules = Found(c)]}
    IN Phase("malicious_file_scan", run.rules /\ ~Expired("scan"), Find)
Brew == LET Find(c) == {[got EXCEPT !.brew = Found(c)]} IN Phase("brew_scan", run.brew, Find)

TakenForWhole(e, c, seen) == seen               \* mutant
\* Under a context that held, discovery sees what is not below a directory the
\* walk goes past; one that was cut stands for nothing, and must not make a
\* known project look removed.
Discovered(e, c, seen) == IF c # "sound" /\ Delta THEN seen \cup run.known[e] ELSE seen
Reach(e) == run.disk[e] \ run.hidden

\* A venv may have a result without an inventory.
Kept(e, results) == IF e = "python" THEN results \ run.bare ELSE results
\* The caps leave out some of the projects in excess of them, and a project
\* whose package manager is not installed has no result.  What the context w of
\* this work cut short is less, in any way; the phase's may also expire once all
\* of the work is done.
Projects(p, e, globals) ==
    /\ Stage(p) /\ Go_on /\ Rest
    /\ IF e \notin run.scanned THEN Skip
       ELSE \E c \in {"sound", "cut", "dead"} : \E w \in IF c = "cut" THEN {"sound", "cut"} ELSE {c},
               seen \in SUBSET Reach(e), left \in SUBSET run.excess :
            /\ Context(p, c) /\ got' = [got EXCEPT ![globals] = Found(c)]
            /\ left \subseteq seen /\ Ended(p, c, IF left = {} THEN {} ELSE {Capped[e]})
            /\ \E results \in SUBSET ((seen \ left) \ run.foreign), records \in SUBSET seen :
                  /\ records \subseteq Kept(e, results)
                  /\ w = "sound" \/ e = "npm" => records = Kept(e, results)
                  /\ w = "sound" => seen = Reach(e) /\ results = (seen \ left) \ run.foreign
                  /\ proj' = [proj EXCEPT ![e] = [results |-> results, records |-> records,
                                                  discovered |-> Discovered(e, w, seen)]]
Python == Projects("python_scan", "python", "pythonGlobals")
SystemPackages ==
    LET Find(c) == {[got EXCEPT !.system = Found(c)]} IN Phase("syspkg_scan", run.linux, Find)
Node == Projects("node_scan", "npm", "nodeGlobals")

\* No list goes out as null.
Tidy ==
    /\ Stage("tidy") /\ Go_on /\ Rest /\ UNCHANGED <<late, cuts, done, log, proj>>
    /\ got' = [s \in DOMAIN got |-> IF s \in Lists /\ got[s] = "nil" THEN "empty" ELSE got[s]]

\* Skills and plugins are also looked for in the projects of the two scans.
collectProjectRoots == UNION {proj[e].results : e \in Eco}
RootsSound == collectProjectRoots = UNION {run.disk[e] : e \in run.scanned}
\* What no discovery comes across and what has no result is told nobody.
Untold == (UNION {run.disk[e] : e \in run.scanned}) \cap (run.hidden \cup run.foreign)
Skills ==
    LET Find(c) == {[got EXCEPT !.skills = IF RootsSound THEN Found(c) ELSE "part"]}
    IN Phase("agent_skills_scan", TRUE, Find)
\* A failure leaves the section out, and the walker's findings as they were.
Plugins ==
    LET Find(c) == {got} \cup {[got EXCEPT !.plugins = IF Sound("skills") THEN Found(c) ELSE "part",
                                            !.mcp = IF Sound("mcp") THEN "split" ELSE got.mcp]}
    IN Phase("agent_plugins_scan", TRUE, Find)

collectCredentials ==
    LET Find(c) == {[got EXCEPT !.credentials = Found(c)]} IN Phase("credentials_scan", ~run.noCredentials, Find)
\* A service account is nobody whose browsers could be described.
BrowserExtensions ==
    LET Find(c) == {IF run.user THEN [got EXCEPT !.browser = Found(c)] ELSE got}
    IN Phase("browser_extensions_scan", TRUE, Find)
GoModules == LET Find(c) == {[got EXCEPT !.go = Found(c)]} IN Phase("go_scan", TRUE, Find)
Cargo == LET Find(c) == {[got EXCEPT !.cargo = Found(c)]} IN Phase("cargo_scan", TRUE, Find)
Composer == LET Find(c) == {[got EXCEPT !.composer = Found(c)]} IN Phase("composer_scan", TRUE, Find)
NuGet == LET Find(c) == {[got EXCEPT !.nuget = Found(c)]} IN Phase("nuget_scan", TRUE, Find)
\* The audits of npm's and the other tools' settings are no phase.
Audits ==
    /\ Stage("audits") /\ Go_on /\ Rest /\ UNCHANGED <<cuts, done, log, proj>>
    /\ late' \in {late, late \/ run.deadline}
    /\ got' = [got EXCEPT !.audits = IF late' THEN "part" ELSE "all"]

-----------------------------------------------------------------------------
(* The payload.                                                            *)
\* What the log and the tracker tell when the scan is over.
Captured == [status |-> done, log |-> log']
Snapshot ==
    /\ Stage("snapshot") /\ Go_on /\ log' = log \cup {"usage"} /\ snap' = Captured
    /\ UNCHANGED <<late, cuts, done, got, proj, payload, out, kept>>

\* A delta run ships the bodies that changed, refs to the others, and what is
\* gone; a scan that was switched off is evidence of nothing, nor is a result
\* without an inventory.
Sent(e) == IF Delta THEN proj[e].records ELSE proj[e].results
Refs(e) == IF Delta /\ ~run.full THEN (Sent(e) \cap run.known[e]) \ run.edited ELSE {}
Bodies(e) == Sent(e) \ Refs(e)
Removed(e) == IF Delta /\ e \in run.scanned THEN run.known[e] \ proj[e].discovered ELSE {}
\* The numbers describe the scan and not what of it has to be sent.
CountSent(e) == Cardinality(Bodies(e))          \* mutant
Metrics(e) == Cardinality(proj[e].results)
Assemble ==
    /\ Stage("assemble") /\ Go_on /\ out' = "ready"
    /\ payload' = [status |-> snap.status, log |-> snap.log, sections |-> got,
                   bodies |-> [e \in Eco |-> Bodies(e)], refs |-> [e \in Eco |-> Refs(e)],
                   removed |-> [e \in Eco |-> Removed(e)], count |-> [e \in Eco |-> Metrics(e)]]
    /\ UNCHANGED <<late, cuts, done, log, got, proj, snap, kept>>

\* Whatever becomes of a full snapshot, the refs of the old baseline may mean
\* nothing afterwards.
InvalidateBaseline ==
    /\ Stage("invalidate") /\ Go_on
    /\ \/ (Delta \/ ~run.home) /\ UNCHANGED kept
       \/ ~Delta /\ run.home /\ kept' = [kept EXCEPT !.baseline = "void"]
       \/ ~Delta /\ run.home /\ run.readonly /\ kept' = [kept EXCEPT !.baseline = "stuck"]
    /\ UNCHANGED <<late, cuts, done, log, got, proj, snap, payload, out>>

-----------------------------------------------------------------------------
(* Delivery and what is recorded of it.                                    *)
\* The dump of a test run counts as an upload.
writeTelemetryFile ==
    /\ Stage("deliver") /\ run.dump # "no" /\ UNCHANGED <<late, cuts, done, log, got, proj, snap, payload>>
    /\ IF run.dump = "ok" THEN Go_on /\ out' = "dumped" /\ UNCHANGED kept ELSE End("undumped") /\ UNCHANGED out

\* The upload hangs on the run's context: what a cut scan found still goes out.
\* It has a budget of its own, and ends the run if it exceeds that.
Upload ==
    /\ Stage("deliver") /\ run.dump = "no" /\ UNCHANGED <<late, got, proj, snap, payload>>
    /\ \/ /\ ~Expired("run") /\ endPhase("telemetry_upload", "sound") /\ UNCHANGED cuts
          /\ out' \in {"accepted", "queued", "rejected"} /\ Go_on /\ UNCHANGED kept
       \/ /\ run.offline \/ Expired("run")
          /\ endPhase("telemetry_upload", "sound") /\ UNCHANGED cuts
          /\ out' \in {"lost", "unsent"} /\ End("failed")
       \/ /\ Budgeted("telemetry_upload") /\ cuts < MaxCuts /\ cuts' = cuts + 1
          /\ endPhase("telemetry_upload", "cut")
          /\ out' \in {"lost", "unsent"} /\ End("overdue")

Advancing == Delta                              \* mutant
Advances == Delta /\ out # "rejected"
\* The baseline moves on unless the backend refused the payload, the stamp in
\* any case; either may fail and is not missed.
Settle ==
    /\ Stage("settle") /\ UNCHANGED <<run, at, late, cuts, done, log, got, proj, snap, payload, out>>
    /\ \E saved, stamped \in {TRUE, ~run.readonly} :
          kept' = [baseline |-> IF saved /\ Advances THEN "new" ELSE kept.baseline,
                   stamped |-> stamped, end |-> "done"]

Next ==
    \/ Expire \/ Panic \/ Kill
    \/ AcquireLock \/ SchedulerInfo \/ DeviceInfo \/ WSL
    \/ IDEs \/ Extensions \/ AITools \/ MCPConfigs \/ MaliciousFiles \/ Brew \/ Python \/ SystemPackages \/ Node
    \/ Tidy \/ Skills \/ Plugins \/ collectCredentials \/ BrowserExtensions
    \/ GoModules \/ Cargo \/ Composer \/ NuGet \/ Audits
    \/ Snapshot \/ Assemble \/ InvalidateBaseline \/ writeTelemetryFile \/ Upload \/ Settle
Spec == Init /\ [][Next]_vars

-----------------------------------------------------------------------------
Phases == {Order[i] : i \in 1 .. Len(Order)} \cup {"telemetry_upload"}
TypeOK ==
    /\ run \in Runs /\ at \in 1 .. Len(Order) + 1 /\ late \in BOOLEAN /\ cuts \in 0 .. MaxCuts
    /\ done \in Seq(Phases) /\ log \subseteq Phases \cup Caps \cup {"usage"}
    /\ got \in [DOMAIN Section -> {"nil", "empty", "part", "all", "split"}]
    /\ \A e \in Eco : proj[e].results \subseteq Reach(e) /\ proj[e].records \subseteq proj[e].results
    /\ out \in {"none", "ready", "dumped", "accepted", "queued", "rejected", "lost", "unsent"}
    /\ kept \in [baseline : {"old", "void", "stuck", "new"}, stamped : BOOLEAN,
                 end : {"no", "done", "refused", "nameless", "panicked", "killed", "undumped", "failed", "overdue"}]

Given == out # "none"
Sections(value) == {s \in DOMAIN Section : payload.sections[s] = value}
Recorded(p) == \E i \in DOMAIN payload.status : payload.status[i] = p

\* Whoever holds the payload can tell what was left out of a section from what
\* is not on the machine: one that a budget or the deadline cut short, or that
\* rests on one that was, comes with a line in the log; one whose phase was
\* switched off is empty and its phase not recorded; one that is absent was
\* never looked at.  Findings moved out of a section are in the one they were
\* moved to.  Only of the projects no walk comes across, or whose package
\* manager is missing, nothing tells that they were not searched for skills.
OmissionsShow ==
    Given =>
       /\ \A s \in Sections("part") \ {"audits"} :
             Section[s] \cap payload.log # {} \/ (s \in {"skills", "plugins"} /\ Untold # {})
       /\ \A s \in Sections("empty") : s \in Lists /\ \A p \in Section[s] : ~Recorded(p)
       /\ Sections("nil") \subseteq Optional
       /\ \A s \in {"rules", "credentials"} : s \in Sections("nil") <=> \A p \in Section[s] : ~Recorded(p)
       /\ "mcp" \in Sections("split") => "plugins" \notin Sections("nil")
       /\ "usage" \in payload.log /\ ~Recorded("telemetry_upload")

\* Nothing that a walk can reach is called removed, however the scan was cut or
\* truncated; what it cannot reach is, on the machine or not, unless nobody
\* looked or the log says that the look was cut.  What was read goes out once,
\* as a body or as a ref to a body that still holds, and is less than what is
\* in reach only where the log says so, but for what has no package manager
\* and, in a delta, the venvs without an inventory.
Looked(e) == e \in run.scanned /\ (IF e = "npm" THEN "node_scan" ELSE "python_scan") \notin payload.log
Mute(e) == run.foreign \cup (IF Delta /\ e = "python" THEN run.bare ELSE {})
DeltaIsTrue ==
    Given => \A e \in Eco :
       /\ payload.removed[e] \subseteq run.known[e] \ Reach(e)
       /\ Looked(e) /\ Delta => run.known[e] \ Reach(e) \subseteq payload.removed[e]
       /\ payload.refs[e] \subseteq run.known[e] \ run.edited /\ payload.refs[e] \cap payload.bodies[e] = {}
       /\ Looked(e) /\ Capped[e] \notin payload.log
             => payload.bodies[e] \cup payload.refs[e] = Reach(e) \ Mute(e)
       /\ e = "npm" \/ ~Delta \/ (Looked(e) /\ run.bare = {})
             => payload.count[e] = Cardinality(payload.bodies[e] \cup payload.refs[e])

\* What the machine keeps follows what was delivered: no baseline and no stamp
\* without a delivery, no baseline from a payload that was refused, and no full
\* snapshot handed over while an old baseline could still be believed.
KeptAfterDelivery ==
    /\ kept.baseline = "new" => Delta /\ out \in {"dumped", "accepted", "queued"}
    /\ kept.stamped => out \in {"dumped", "accepted", "queued", "rejected"}
    /\ out \notin {"none", "ready"} /\ ~Delta /\ run.home => kept.baseline = "void" \/ (run.readonly /\ kept.baseline = "stuck")

\* The deadline and the budgets cost a run its payload only where they leave no
\* time to learn whose it is, and where the upload exceeds its own: the payload
\* is complete then, and a later run has to deliver another one.
DeadlineOnlyCuts ==
    /\ kept.end = "nameless" => ~run.guest /\ (late \/ run.id = "none")
    /\ kept.end = "failed" => run.offline
    /\ kept.end = "overdue" => Budgeted("telemetry_upload") /\ Given /\ kept.baseline # "new"
    /\ kept.end = "panicked" => run.mishap = "panic"
=============================================================================
