------------------------------ MODULE NodeScan ------------------------------
(***************************************************************************)
(* The scan of a machine's Node projects (internal/detector/nodescan.go,   *)
(* nodescan_cache.go): which projects a run looks at and in which order,   *)
(* when it reuses the result cached by an earlier run, what it leaves in   *)
(* node-scan-cache.json, and how the baseline's LastVerifiedAt turns the   *)
(* order into a rotation.  The user edits projects all the while.          *)
(*                                                                         *)
(* Times are kept as far as the code's comparisons tell them apart: newer  *)
(* holds the projects whose three mtimes do not all predate LastScanUnix   *)
(* of their cache entry, touched those that will not predate the stamp of  *)
(* the current run, and verified ranks the known projects by               *)
(* LastVerifiedAt.  A run outlasts the second in which it took its stamp.  *)
(***************************************************************************)
EXTENDS FiniteSetsExt, Functions, Sequences, Integers

CONSTANTS
    Project,        \* project directories
    Content,        \* what a project can hold
    Gone,           \* nothing: the directory has no package.json
    Manager,        \* package managers
    PM,             \* the package manager each content's lockfile names
    Unlocked,       \* contents without a lockfile
    Broken,         \* contents the package manager fails on
    Weight,         \* the size of the scan result of a content
    Version,        \* agent versions
    Cap,            \* maxNodeProjects
    Room,           \* getMaxProjectScanBytes
    Scenarios       \* what may go wrong, what the projects hold at first, and
                    \* what the user may make of each

Perils == {
    "blind",        \* an edit may leave all three mtimes as they were
    "sameSecond",   \* or be faster than the resolution of an mtime
    "fail",         \* a scan may fail or panic, or the phase be cancelled
    "legacy",       \* the tenant may not have opted in to delta
    "drop",         \* an upload may fail
    "failSave",     \* the cache may not be writable
    "upgrade",      \* the agent may be upgraded
    "crash",        \* a run may die
    "bypass" }      \* STEPSEC_NODE_SCAN_CACHE_BYPASS=1

ASSUME NodeScanAssumption ==
    /\ IsFiniteSet(Project) /\ Version # {} /\ Gone \notin Content
    /\ PM \in [Content \cup {Gone} -> Manager]
    /\ Unlocked \subseteq Content /\ Broken \subseteq Content
    /\ Weight \in [Content \cup {Gone} -> Nat]
    /\ Cap \in Nat \ {0} /\ Room \in Nat
    /\ Scenarios \subseteq [perils : SUBSET Perils,
                             content : [Project -> Content \cup {Gone}],
                             edits : [Project -> SUBSET (Content \cup {Gone})]]

VARIABLES
    scene,          \* one of the Scenarios
    agent,          \* the installed version
    content,        \* the machine
    cache,          \* node-scan-cache.json: an entry for some projects
    newer, touched, \* see above
    verified,       \* the baseline: 0 for a project it does not know
    sync,           \* its last commit: none in time ("due"), "full" or "delta"
    syncedBy,       \* the agent version of that commit
    pc, kind,       \* the run, and its way of uploading
    found,          \* the projects it discovered
    plan, next,     \* those it will scan, in order, and the next to look up
    slot,           \* what it has of each
    cut,            \* its phase was cancelled
    ticked,         \* the second of its stamp is over
    during          \* ghost: what each project held since the run began

machine == <<scene, agent, content>>
base    == <<verified, sync, syncedBy>>
run     == <<kind, found, cut, plan, next, slot, ticked>>
vars    == <<machine, cache, newer, touched, base, pc, run, during>>

perils   == scene.perils
Held     == Content \cup {Gone}
Present  == {p \in Project : content[p] # Gone}
Entry    == [pm : Manager, agent : Version, result : Held]
Nothing  == [how |-> "none", ok |-> FALSE, pm |-> PM[Gone], result |-> Gone]
Slot     == [how : {"none", "cached", "queued", "scanned"}, ok : BOOLEAN,
             pm : Manager, result : Held]

Init ==
    /\ scene \in Scenarios /\ content = scene.content
    /\ agent = CHOOSE v \in Version : TRUE
    /\ cache = [p \in {} |-> [pm |-> PM[Gone], agent |-> agent, result |-> Gone]]
    /\ newer = {} /\ touched = {}
    /\ verified = [p \in Project |-> 0] /\ sync = "due" /\ syncedBy = agent
    /\ pc = "idle" /\ kind = "delta" /\ found = {} /\ cut = FALSE
    /\ plan = <<>> /\ next = 1 /\ ticked = TRUE
    /\ slot = [p \in Project |-> Nothing]
    /\ during = [p \in Project |-> {}]

-----------------------------------------------------------------------------
(* The machine.                                                            *)

Scanned(p) == slot[p].how = "scanned"

\* A visible edit moves one of the three mtimes.  In the second of the stamp,
\* after the project was read, it cannot be told from an edit before it.
Edit(p, c, visible) ==
    /\ c \in scene.edits[p]
    /\ visible \/ "blind" \in perils
    /\ Scanned(p) /\ ~ticked => "sameSecond" \in perils
    /\ content' = [content EXCEPT ![p] = c]
    /\ newer' = IF visible THEN newer \cup {p} ELSE newer
    /\ touched' = IF visible /\ ticked /\ pc # "idle"
                  THEN touched \cup {p} ELSE touched
    /\ during' = IF pc = "idle" THEN during
                 ELSE [during EXCEPT ![p] = @ \cup {c}]
    /\ UNCHANGED <<scene, agent, cache, base, pc, run>>

Upgrade(v) ==
    /\ "upgrade" \in perils /\ pc = "idle"
    /\ agent' = v
    /\ UNCHANGED <<scene, content, cache, newer, touched, base, pc, run, during>>

\* DefaultFullSyncHorizon spans several runs.
HorizonPasses ==
    /\ sync = "delta"
    /\ sync' = "due"
    /\ UNCHANGED <<machine, cache, newer, touched, verified, syncedBy, pc, run,
                   during>>

Tick ==
    /\ ~ticked
    /\ ticked' = TRUE
    /\ UNCHANGED <<machine, cache, newer, touched, base, pc, kind, found, cut,
                   plan, next, slot, during>>

-----------------------------------------------------------------------------
(* Planning: orderScanProjects and the cap on the number of projects.      *)

UnrankedPlan(k, dirs, q) == TRUE                             \* mutant

\* A delta run takes the unknown projects first and then the known ones,
\* those verified longest ago first; a full sync or a legacy run has no ranks
\* to go by and follows the mtimes, which may be in any order.
RankedPlan(k, dirs, q) ==
    k = "delta" =>
        /\ \A i, j \in DOMAIN q : i < j => verified[q[i]] <= verified[q[j]]
        /\ \A p \in dirs \ Range(q), i \in DOMAIN q :
               verified[q[i]] <= verified[p]

Plans(k, dirs) ==
    LET n == Cardinality(dirs)
        length == IF n > Cap THEN Cap ELSE n
    IN {q \in [1 .. length -> dirs] : IsInjective(q) /\ RankedPlan(k, dirs, q)}

FullSyncDue == sync = "due" \/ syncedBy # agent

Known == {p \in Project : verified[p] > 0}

(* The run discovers the projects (some, when its phase is cancelled        *)
(* meanwhile), orders them, loads the cache and takes its stamp.            *)
StartRun(k, dirs, q) ==
    /\ k = "legacy" => "legacy" \in perils
    /\ k = "full" => FullSyncDue
    /\ k = "delta" => ~FullSyncDue
    /\ pc' = "checking" /\ kind' = k
    /\ cut' = (dirs # Present)
    /\ found' = IF cut' THEN dirs \cup Known ELSE dirs
    /\ plan' = q /\ next' = 1
    /\ slot' = [p \in Project |-> Nothing]
    /\ ticked' = FALSE /\ touched' = {}
    /\ during' = [p \in Project |-> {content[p]}]
    /\ UNCHANGED <<machine, cache, newer, base>>

Start ==
    /\ pc = "idle"
    /\ \E k \in {"delta", "full", "legacy"},
          dirs \in IF "fail" \in perils THEN SUBSET Present ELSE {Present} :
              \E q \in Plans(k, dirs) : StartRun(k, dirs, q)

\* The deadline of the phase or of the run: what the baseline knows counts as
\* discovered, so that nothing is taken for removed.
Cancel ==
    /\ "fail" \in perils /\ pc \in {"checking", "scanning"} /\ ~cut
    /\ cut' = TRUE /\ found' = found \cup Known
    /\ UNCHANGED <<machine, cache, newer, touched, base, pc, kind, plan, next,
                   slot, ticked, during>>

-----------------------------------------------------------------------------
(* scanProjectsConcurrent.                                                 *)

\* cacheValidFor: package manager, version, a lockfile, and the mtimes.
Valid(p) ==
    /\ "bypass" \notin perils
    /\ p \in DOMAIN cache
    /\ cache[p].pm = PM[content[p]]
    /\ cache[p].agent = agent
    /\ content[p] \notin Unlocked \cup {Gone}
    /\ p \notin newer

\* The next project of the plan is looked up in the cache.
Check ==
    LET p == plan[next]
        hit == Valid(p)
    IN
    /\ pc = "checking" /\ next \in DOMAIN plan
    /\ next' = next + 1
    /\ slot' = [slot EXCEPT ![p] =
           [how    |-> IF hit THEN "cached" ELSE "queued",
            ok     |-> hit,
            pm     |-> PM[content[p]],
            result |-> IF hit THEN cache[p].result ELSE Gone]]
    /\ UNCHANGED <<machine, cache, newer, touched, base, pc, kind, found, cut,
                   plan, ticked, during>>

Dispatch ==
    /\ pc = "checking" /\ next \notin DOMAIN plan
    /\ pc' = "scanning"
    /\ UNCHANGED <<machine, cache, newer, touched, base, run, during>>

Fill(p, s) ==
    /\ pc = "scanning" /\ slot[p].how = "queued"
    /\ slot' = [slot EXCEPT ![p] = s]
    /\ UNCHANGED <<machine, cache, newer, touched, base, pc, kind, found, cut,
                   plan, next, ticked, during>>

\* Some worker of the pool scans the project; workers finish in any order.  A
\* directory that went away is an empty result when it is read from disk.
ScanDone(p, ok) ==
    /\ content[p] \in Broken \/ cut => ~ok
    /\ ~ok => content[p] \in Broken \cup {Gone} \/ "fail" \in perils
    /\ Fill(p, [how |-> "scanned", ok |-> ok, pm |-> slot[p].pm,
                result |-> content[p]])

\* The package manager is not installed, or the walk was cancelled.
ScanSkipped(p) ==
    /\ "fail" \in perils
    /\ Fill(p, Nothing)

\* What a fresh success leaves in the cache, with the stamp of the run.
Fresh == {p \in Range(plan) : Scanned(p) /\ slot[p].ok}

NewerThanWrite(old) == old \ Fresh                           \* mutant
NewerThanEntry(old) ==
    (old \ Fresh) \cup (Fresh \cap touched)

\* The cache, with the fresh entries, pruned to the projects of this run.
Written ==
    [p \in Range(plan) \cap (DOMAIN cache \cup Fresh) |->
        IF p \in Fresh
        THEN [pm |-> slot[p].pm, agent |-> agent, result |-> slot[p].result]
        ELSE cache[p]]

Filled == pc = "scanning" /\ \A p \in Project : slot[p].how # "queued"

WriteBack ==
    /\ Filled
    /\ cache' = Written
    /\ newer' = NewerThanEntry(newer)
    /\ pc' = "report"
    /\ UNCHANGED <<machine, touched, base, run, during>>

SaveFails ==
    /\ Filled /\ "failSave" \in perils
    /\ pc' = "report"
    /\ UNCHANGED <<machine, cache, newer, touched, base, run, during>>

-----------------------------------------------------------------------------
(* The report, and what the baseline learns from it.                       *)

HasResult(p) == slot[p].how \in {"cached", "scanned"}

Size(i) ==
    MapThenSumSet(LAMBDA j : Weight[slot[plan[j]].result],
                  {j \in 1 .. i : HasResult(plan[j])})

\* The results that fit: the first that does not ends the list.
Reported == {plan[i] : i \in {j \in DOMAIN plan :
                                  HasResult(plan[j]) /\ Size(j) <= Room}}

Verified == {p \in Reported : slot[p].ok}

RerankedOnTop == [p \in Project |->                           \* mutant
    IF p \in Verified THEN Cardinality(Project) + 1 ELSE verified[p]]

\* The known projects, the verified ones last; those gone are dropped.
Reranked ==
    LET last == Cardinality(Project) + 1
        rank(p) == CASE p \in Verified -> last
                     [] p \notin Verified /\ p \notin found -> 0
                     [] OTHER -> verified[p]
    IN [p \in Project |->
           Cardinality({rank(q) : q \in {r \in Project : rank(r) > 0
                                                       /\ rank(r) <= rank(p)}})]

EndRun ==
    /\ pc' = "idle"
    /\ kind' = "delta" /\ found' = {} /\ cut' = FALSE
    /\ plan' = <<>> /\ next' = 1 /\ ticked' = TRUE
    /\ slot' = [p \in Project |-> Nothing]
    /\ touched' = {} /\ during' = [p \in Project |-> {}]

\* commitDeltaSnapshot, after the upload.
Commit ==
    /\ pc = "report" /\ kind # "legacy" /\ ticked
    /\ verified' = Reranked
    /\ sync' = IF kind = "delta" /\ sync = "due" THEN "due" ELSE kind
    /\ syncedBy' = agent
    /\ EndRun
    /\ UNCHANGED <<machine, cache, newer>>

\* A legacy run has discarded the baseline before its upload.
EndLegacy ==
    /\ pc = "report" /\ kind = "legacy" /\ ticked
    /\ verified' = [p \in Project |-> 0]
    /\ sync' = "due" /\ UNCHANGED syncedBy
    /\ EndRun
    /\ UNCHANGED <<machine, cache, newer>>

UploadFails ==
    /\ pc = "report" /\ kind # "legacy" /\ ticked /\ "drop" \in perils
    /\ EndRun
    /\ UNCHANGED <<machine, cache, newer, base>>

Crash ==
    /\ pc # "idle" /\ ticked /\ "crash" \in perils
    /\ EndRun
    /\ UNCHANGED <<machine, cache, newer, base>>

Scan == \E p \in Project :
    \/ \E ok \in BOOLEAN : ScanDone(p, ok)
    \/ ScanSkipped(p)

Step ==
    \/ Start
    \/ Check \/ Dispatch \/ Scan
    \/ WriteBack \/ SaveFails
    \/ Commit \/ EndLegacy \/ UploadFails
    \/ Tick

Next ==
    \/ \E p \in Project, c \in Held, visible \in BOOLEAN : Edit(p, c, visible)
    \/ \E v \in Version : Upgrade(v)
    \/ HorizonPasses
    \/ Cancel
    \/ Step
    \/ Crash

\* The scheduler keeps waking the agent, and a run proceeds.
Fairness == WF_vars(Step)

Spec == Init /\ [][Next]_vars /\ Fairness
-----------------------------------------------------------------------------
(* Properties.  The operators marked "mutant" are the plausible bugs they  *)
(* are tested against.                                                     *)

\* Every variable holds a value of its type.
TypeOK ==
    /\ scene \in Scenarios
    /\ agent \in Version /\ syncedBy \in Version
    /\ content \in [Project -> Held]
    /\ DOMAIN cache \subseteq Project /\ Range(cache) \subseteq Entry
    /\ newer \subseteq Project /\ touched \subseteq Project
    /\ verified \in [Project -> 0 .. Cardinality(Project)]
    /\ sync \in {"due", "full", "delta"}
    /\ pc \in {"idle", "checking", "scanning", "report"}
    /\ kind \in {"delta", "full", "legacy"}
    /\ found \subseteq Project /\ cut \in BOOLEAN
    /\ plan \in Seq(Project) /\ next \in 1 .. Len(plan) + 1
    /\ slot \in [Project -> Slot]
    /\ ticked \in BOOLEAN
    /\ during \in [Project -> SUBSET Held]

\* The inventory a run claims for a project is one the project had while the
\* run was on, also when it comes from the cache of an earlier run and the
\* user was editing through both (scanProjectsConcurrent, cacheValidFor).
FreshResults == \A p \in Reported : slot[p].ok => slot[p].result \in during[p]
Discernible  == perils \cap {"blind", "sameSecond"} = {} \/ "bypass" \in perils
ReportIsFresh == pc = "report" /\ Discernible => FreshResults

\* "The caller passes true during forced full syncs so the wire-shipped bodies
\* match what the PM CLI sees right now" (nodescan_cache.go, cacheValidFor).
FullSyncIsFresh == pc = "report" /\ kind = "full" => FreshResults

\* The stalest come first, so under a cap on the number and on the size of
\* the results every project is verified again and again (orderScanProjects),
\* if fewer than Cap fail for good and each one fits with those.
Verifiable(p) == {content[p]} \cup scene.edits[p] \subseteq Content \ Broken
Rechecked(p) == pc = "report" /\ p \in Verified
NoStarvation ==
    perils \subseteq {"blind", "sameSecond", "bypass"} =>
        \A p \in Project : Verifiable(p) => []<>Rechecked(p)

=============================================================================
