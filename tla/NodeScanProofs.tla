--------------------------- MODULE NodeScanProofs ---------------------------
(***************************************************************************)
(* Theorems about NodeScan, for every set of projects, contents, package   *)
(* managers and scenarios, every cap and every number of runs; and about   *)
(* the run that carries its inventory (ScanRun), for every set of machines *)
(* and every number of budgets exceeded.                                   *)
(***************************************************************************)
EXTENDS NodeScan, FiniteSetTheorems, SequenceTheorems, TLAPS

(* Why a report is fresh: what the cache may still use is what the project *)
(* holds, and what a run has scanned is too, unless an edit since then     *)
(* will make the entry look old.                                           *)
Telling == perils \cap {"blind", "sameSecond"} = {}

Shape ==
    /\ DOMAIN content = Project /\ DOMAIN during = Project
    /\ DOMAIN slot = Project
    /\ Range(plan) \subseteq Project

Witnessed ==
    /\ pc # "idle" => \A p \in Project : content[p] \in during[p]
    /\ pc = "idle" => \A p \in Project : slot[p] = Nothing

CacheIsTrue ==
    Telling => \A p \in Project \cap DOMAIN cache :
                   p \notin newer => cache[p].result = content[p]

ScanIsTrue ==
    Telling => \A p \in Project :
                   Scanned(p) /\ p \notin touched => slot[p].result = content[p]

ClaimsAreTrue ==
    Discernible => \A p \in Project :
                       slot[p].ok => slot[p].result \in during[p]

FreshInv == Shape /\ Witnessed /\ CacheIsTrue /\ ScanIsTrue /\ ClaimsAreTrue

-----------------------------------------------------------------------------
LEMMA NothingClaimed == Nothing.ok = FALSE /\ Nothing.how = "none"
BY DEF Nothing

LEMMA FreshInit == Init => FreshInv
<1>. SUFFICES ASSUME Init PROVE FreshInv
  OBVIOUS
<1>1. Shape
  BY NodeScanAssumption DEF Init, Shape, Range, perils
<1>2. Witnessed
  BY DEF Init, Witnessed
<1>3. CacheIsTrue
  BY DEF Init, CacheIsTrue
<1>4. ScanIsTrue /\ ClaimsAreTrue
  BY NothingClaimed DEF Init, ScanIsTrue, ClaimsAreTrue, Scanned
<1>. QED
  BY <1>1, <1>2, <1>3, <1>4 DEF FreshInv

\* A visible edit outdates the entry it finds and the one this run may write.
LEMMA EditKeepsFresh ==
    ASSUME FreshInv, NEW p \in Project, NEW c, NEW visible \in BOOLEAN,
           Edit(p, c, visible)
    PROVE  FreshInv'
<1>. USE DEF FreshInv, Edit, run
<1>1. Shape' /\ Witnessed'
  BY DEF Shape, Witnessed, Nothing
<1>2. CacheIsTrue'
  BY DEF Shape, CacheIsTrue, Telling, perils
<1>3. ScanIsTrue'
  <2>. SUFFICES ASSUME Telling, NEW q \in Project, Scanned(q), q \notin touched'
                PROVE  slot[q].result = content'[q]
    BY DEF ScanIsTrue, Telling, perils, Scanned
  <2>1. pc # "idle"
    BY NothingClaimed DEF Witnessed, Scanned
  <2>2. q # p
    BY <2>1 DEF Telling
  <2>. QED
    BY <2>1, <2>2 DEF Shape, ScanIsTrue
<1>4. ClaimsAreTrue'
  BY NothingClaimed DEF Shape, Witnessed, ClaimsAreTrue, Discernible, perils
<1>. QED
  BY <1>1, <1>2, <1>3, <1>4

LEMMA StartKeepsFresh == FreshInv /\ Start => FreshInv'
<1>. SUFFICES ASSUME FreshInv, NEW k, NEW dirs \in SUBSET Present,
                     NEW q \in Plans(k, dirs), StartRun(k, dirs, q)
              PROVE  FreshInv'
  BY DEF Start
<1>. USE DEF StartRun, machine, base
<1>1. Range(q) \subseteq Project
  BY DEF Plans, Present, Range
<1>2. Shape'
  BY <1>1 DEF FreshInv, Shape
<1>3. Witnessed' /\ ClaimsAreTrue' /\ ScanIsTrue'
  BY NothingClaimed DEF Witnessed, ClaimsAreTrue, ScanIsTrue, Scanned
<1>4. CacheIsTrue'
  BY DEF FreshInv, CacheIsTrue, Telling, perils
<1>. QED
  BY <1>2, <1>3, <1>4 DEF FreshInv

\* A cache hit repeats what the project holds at that moment.
LEMMA CheckKeepsFresh == FreshInv /\ Check => FreshInv'
<1>. SUFFICES ASSUME FreshInv, Check PROVE FreshInv'
  OBVIOUS
<1>. DEFINE p == plan[next]
<1>. USE DEF FreshInv, Check, machine, base
<1>1. p \in Project
  BY DEF Shape, Range
<1>2. Shape' /\ Witnessed'
  BY DEF Shape, Witnessed
<1>3. CacheIsTrue' /\ ScanIsTrue'
  BY DEF Shape, CacheIsTrue, ScanIsTrue, Telling, perils, Scanned
<1>4. ASSUME Discernible, Valid(p) PROVE cache[p].result \in during[p]
  BY <1>1, <1>4 DEF Valid, Discernible, Telling, CacheIsTrue, Witnessed
<1>5. ClaimsAreTrue'
  BY <1>1, <1>4 DEF Shape, ClaimsAreTrue, Discernible, perils
<1>. QED
  BY <1>2, <1>3, <1>5

\* A worker reports what it saw, which the project held during the run.
LEMMA ScanKeepsFresh == FreshInv /\ Scan => FreshInv'
<1>. USE DEF FreshInv, Fill, machine, base
<1>1. ASSUME FreshInv, NEW p \in Project, NEW ok \in BOOLEAN, ScanDone(p, ok)
      PROVE  FreshInv'
  <2>1. Shape' /\ Witnessed' /\ CacheIsTrue'
    BY <1>1 DEF ScanDone, Shape, Witnessed, CacheIsTrue, Telling, perils
  <2>2. ScanIsTrue'
    BY <1>1 DEF ScanDone, Shape, ScanIsTrue, Telling, perils, Scanned
  <2>3. ClaimsAreTrue'
    BY <1>1 DEF ScanDone, Shape, Witnessed, ClaimsAreTrue, Discernible, perils
  <2>. QED
    BY <2>1, <2>2, <2>3
<1>2. ASSUME FreshInv, NEW p \in Project, ScanSkipped(p) PROVE FreshInv'
  <2>1. Shape' /\ Witnessed' /\ CacheIsTrue'
    BY <1>2 DEF ScanSkipped, Shape, Witnessed, CacheIsTrue, Telling, perils
  <2>2. ScanIsTrue' /\ ClaimsAreTrue'
    BY <1>2, NothingClaimed DEF ScanSkipped, Shape, ScanIsTrue, ClaimsAreTrue,
                                Telling, Discernible, perils, Scanned
  <2>. QED
    BY <2>1, <2>2
<1>. QED
  BY <1>1, <1>2 DEF Scan

\* An entry is left current only if nothing changed since it was scanned.
LEMMA WriteBackKeepsFresh == FreshInv /\ WriteBack => FreshInv'
<1>. SUFFICES ASSUME FreshInv, WriteBack PROVE FreshInv'
  OBVIOUS
<1>. USE DEF FreshInv, WriteBack, machine, base, run
<1>1. Shape' /\ Witnessed'
  BY DEF Shape, Witnessed, Filled
<1>2. ScanIsTrue' /\ ClaimsAreTrue'
  BY DEF ScanIsTrue, ClaimsAreTrue, Telling, Discernible, perils, Scanned
<1>3. ASSUME Telling, NEW p \in Project \cap DOMAIN cache', p \notin newer'
      PROVE  cache'[p].result = content[p]
  <2>1. CASE p \in Fresh
    BY <1>3, <2>1 DEF NewerThanEntry, Written, Fresh, ScanIsTrue
  <2>2. CASE p \notin Fresh
    BY <1>3, <2>2 DEF NewerThanEntry, Written, CacheIsTrue
  <2>. QED
    BY <2>1, <2>2
<1>4. CacheIsTrue'
  BY <1>3 DEF CacheIsTrue, Telling, perils
<1>. QED
  BY <1>1, <1>2, <1>4

LEMMA EndRunKeepsFresh ==
    ASSUME FreshInv, EndRun, UNCHANGED <<machine, cache, newer>>
    PROVE  FreshInv'
<1>. USE DEF EndRun, machine
<1>1. Shape'
  BY DEF FreshInv, Shape, Range
<1>2. Witnessed' /\ ScanIsTrue' /\ ClaimsAreTrue'
  BY NothingClaimed DEF Witnessed, ScanIsTrue, ClaimsAreTrue, Scanned
<1>3. CacheIsTrue'
  BY DEF FreshInv, CacheIsTrue, Telling, perils
<1>. QED
  BY <1>1, <1>2, <1>3 DEF FreshInv

\* Steps that touch neither the projects, the cache nor the results.
LEMMA IdleKeepsFresh ==
    ASSUME FreshInv, pc' = pc \/ (pc # "idle" /\ pc' # "idle"),
           UNCHANGED <<scene, content, cache, newer, touched, plan, slot, during>>
    PROVE  FreshInv'
BY DEF FreshInv, Shape, Witnessed, CacheIsTrue, ScanIsTrue, ClaimsAreTrue,
       Telling, Discernible, perils, Scanned

LEMMA FreshStep == FreshInv /\ [Next]_vars => FreshInv'
<1>. SUFFICES ASSUME FreshInv, [Next]_vars PROVE FreshInv'
  OBVIOUS
<1>1. ASSUME NEW p \in Project, NEW c \in Held, NEW visible \in BOOLEAN,
             Edit(p, c, visible)
      PROVE  FreshInv'
  BY <1>1, EditKeepsFresh
<1>2. ASSUME \/ \E v \in Version : Upgrade(v)
             \/ HorizonPasses \/ Cancel \/ Tick
      PROVE  FreshInv'
  BY <1>2, IdleKeepsFresh DEF Upgrade, HorizonPasses, Cancel, Tick, machine, run
<1>3. ASSUME Dispatch \/ SaveFails PROVE FreshInv'
  BY <1>3, IdleKeepsFresh DEF Dispatch, SaveFails, Filled, machine, run
<1>4. ASSUME Start \/ Check \/ Scan \/ WriteBack PROVE FreshInv'
  BY <1>4, StartKeepsFresh, CheckKeepsFresh, ScanKeepsFresh, WriteBackKeepsFresh
<1>5. ASSUME Commit \/ EndLegacy \/ UploadFails \/ Crash PROVE FreshInv'
  BY <1>5, EndRunKeepsFresh DEF Commit, EndLegacy, UploadFails, Crash
<1>6. ASSUME UNCHANGED vars PROVE FreshInv'
  BY <1>6, IdleKeepsFresh DEF vars, machine, run
<1>. QED
  BY <1>1, <1>2, <1>3, <1>4, <1>5, <1>6 DEF Next, Step

(* No run claims an inventory the project did not have while the run was   *)
(* on, although results are reused across runs, upgrades, failures and     *)
(* kills and the user edits throughout (scanProjectsConcurrent).           *)
THEOREM ReportsAreFresh == Spec => []ReportIsFresh
<1>1. FreshInv => ReportIsFresh
  <2>. SUFFICES ASSUME FreshInv, Discernible, NEW p \in Reported, slot[p].ok
                PROVE  slot[p].result \in during[p]
    BY DEF ReportIsFresh, FreshResults
  <2>1. p \in Project
    BY DEF Reported, FreshInv, Shape, Range
  <2>. QED
    BY <2>1 DEF FreshInv, ClaimsAreTrue
<1>. QED
  BY <1>1, FreshInit, FreshStep, PTL DEF Spec

-----------------------------------------------------------------------------
(* Every variable keeps its type; the ranks of the baseline stay within    *)
(* the number of projects.                                                 *)
LEMMA RanksAreBounded ==
    ASSUME TypeOK
    PROVE  Reranked \in [Project -> 0 .. Cardinality(Project)]
<1>. DEFINE last == Cardinality(Project) + 1
            rank(p) == CASE p \in Verified -> last
                         [] p \notin Verified /\ p \notin found -> 0
                         [] OTHER -> verified[p]
            R(p) == {r \in Project : rank(r) > 0 /\ rank(r) <= rank(p)}
            T(p) == {rank(q) : q \in R(p)}
<1>1. Reranked = [p \in Project |-> Cardinality(T(p))]
  BY DEF Reranked
<1>. HIDE DEF rank
<1>2. ASSUME NEW p \in Project PROVE Cardinality(T(p)) \in 0 .. Cardinality(Project)
  <2>1. IsFiniteSet(R(p)) /\ Cardinality(R(p)) <= Cardinality(Project) /\ Cardinality(Project) \in Nat
    BY NodeScanAssumption, FS_Subset, FS_CardinalityType
  <2>2. ExistsSurjection(R(p), T(p))
    <3>. DEFINE g == [q \in R(p) |-> rank(q)]
    <3>1. g \in [R(p) -> T(p)] /\ \A t \in T(p) : \E q \in R(p) : g[q] = t
      OBVIOUS
    <3>. QED
      BY <3>1 DEF ExistsSurjection, Surjection
  <2>. HIDE DEF R, T
  <2>3. IsFiniteSet(T(p)) /\ Cardinality(T(p)) <= Cardinality(R(p))
    <3>1. PICK g : g \in Surjection(R(p), T(p))
      BY <2>2 DEF ExistsSurjection
    <3>. QED
      BY <2>1, <3>1, FS_Surjection
  <2>4. Cardinality(T(p)) \in Nat /\ Cardinality(R(p)) \in Nat
    BY <2>1, <2>3, FS_CardinalityType
  <2>. QED
    BY <2>1, <2>3, <2>4
<1>. QED
  BY <1>1, <1>2

LEMMA NothingType == Nothing \in Slot
BY NodeScanAssumption DEF Nothing, Slot, Held

LEMMA EndRunType ==
    ASSUME TypeOK, EndRun
    PROVE  /\ pc' = "idle" /\ kind' \in {"delta", "full", "legacy"} /\ found' \subseteq Project /\ cut' \in BOOLEAN
           /\ plan' \in Seq(Project) /\ next' \in 1 .. Len(plan') + 1 /\ ticked' \in BOOLEAN
           /\ slot' \in [Project -> Slot] /\ touched' \subseteq Project /\ during' \in [Project -> SUBSET Held]
<1>1. slot' \in [Project -> Slot] /\ during' \in [Project -> SUBSET Held]
  BY NothingType DEF EndRun
<1>2. plan' = <<>> /\ next' = 1 /\ Len(<<>>) = 0 /\ <<>> \in Seq(Project)
  BY DEF EndRun
<1>3. plan' \in Seq(Project) /\ next' \in 1 .. Len(plan') + 1
  BY <1>2
<1>4. cut' = FALSE /\ ticked' = TRUE
  BY DEF EndRun
<1>5. cut' \in BOOLEAN /\ ticked' \in BOOLEAN
  BY <1>4, Zenon
<1>. QED
  BY <1>1, <1>3, <1>5 DEF EndRun

LEMMA TypeInit == Init => TypeOK
<1>. SUFFICES ASSUME Init PROVE TypeOK
  OBVIOUS
<1>1. agent \in Version /\ syncedBy \in Version
  BY NodeScanAssumption DEF Init
<1>2. content \in [Project -> Held]
  BY NodeScanAssumption DEF Init, Held
<1>3. Cardinality(Project) \in Nat
  BY NodeScanAssumption, FS_CardinalityType
<1>4. DOMAIN cache \subseteq Project /\ Range(cache) \subseteq Entry
  BY DEF Init, Range
<1>5. plan \in Seq(Project) /\ next \in 1 .. Len(plan) + 1
  BY DEF Init
<1>6. cut \in BOOLEAN /\ ticked \in BOOLEAN
  BY Zenon DEF Init
<1>7. slot \in [Project -> Slot] /\ during \in [Project -> SUBSET Held]
  BY NothingType DEF Init
<1>8. verified \in [Project -> 0 .. Cardinality(Project)]
  BY <1>3 DEF Init
<1>. QED
  BY <1>1, <1>2, <1>4, <1>5, <1>6, <1>7, <1>8 DEF Init, TypeOK

LEMMA StartType ==
    ASSUME TypeOK, NEW k \in {"delta", "full", "legacy"}, NEW dirs \in SUBSET Present, NEW q \in Plans(k, dirs),
           StartRun(k, dirs, q)
    PROVE  TypeOK'
<1>1. dirs \subseteq Project /\ Present \subseteq Project /\ Known \subseteq Project
  BY DEF Present, Known
<1>2. IsFiniteSet(dirs) /\ Cardinality(dirs) \in Nat
  BY <1>1, NodeScanAssumption, FS_Subset, FS_CardinalityType
<1>3. q \in Seq(Project)
  <2>1. PICK n \in Nat : q \in [1 .. n -> dirs]
    BY <1>2, NodeScanAssumption DEF Plans
  <2>2. q \in [1 .. n -> Project]
    BY <1>1, <2>1
  <2>. QED
    BY <2>2
<1>4. plan' \in Seq(Project) /\ next' \in 1 .. Len(plan') + 1
  <2>1. plan' = q /\ next' = 1 /\ Len(q) \in Nat
    BY <1>3 DEF StartRun
  <2>. QED
    BY <1>3, <2>1
<1>5. slot' \in [Project -> Slot] /\ during' \in [Project -> SUBSET Held]
  BY NothingType DEF StartRun, TypeOK
<1>6. found' \subseteq Project /\ cut' \in BOOLEAN
  <2>1. cut' \in BOOLEAN
    BY DEF StartRun
  <2>. QED
    BY <1>1, <2>1 DEF StartRun
<1>. QED
  BY <1>4, <1>5, <1>6 DEF StartRun, TypeOK, machine, base

LEMMA CheckType == TypeOK /\ Check => TypeOK'
<1>. SUFFICES ASSUME TypeOK, Check PROVE TypeOK'
  OBVIOUS
<1>. DEFINE p == plan[next]
<1>1. p \in Project /\ next' \in 1 .. Len(plan) + 1
  BY DEF TypeOK, Check
<1>2. Valid(p) => cache[p].result \in Held
  BY DEF Valid, TypeOK, Range, Entry
<1>3. PM[content[p]] \in Manager /\ Valid(p) \in BOOLEAN
  BY <1>1, NodeScanAssumption DEF TypeOK, Held, Valid
<1>. DEFINE s == [how |-> IF Valid(p) THEN "cached" ELSE "queued", ok |-> Valid(p), pm |-> PM[content[p]],
                  result |-> IF Valid(p) THEN cache[p].result ELSE Gone]
<1>4. s \in Slot /\ slot' = [slot EXCEPT ![p] = s]
  <2>1. (IF Valid(p) THEN cache[p].result ELSE Gone) \in Held
    BY <1>2 DEF Held
  <2>. HIDE DEF p
  <2>2. s \in Slot
    BY <1>3, <2>1 DEF Slot
  <2>. QED
    BY <2>2 DEF Check, p
<1>. HIDE DEF s
<1>5. slot' \in [Project -> Slot]
  BY <1>1, <1>4 DEF TypeOK
<1>. QED
  BY <1>1, <1>5 DEF Check, TypeOK, machine, base

LEMMA FillType ==
    ASSUME TypeOK, NEW p \in Project, NEW s \in Slot, Fill(p, s)
    PROVE  TypeOK'
BY DEF Fill, TypeOK, machine, base

LEMMA WriteBackType == TypeOK /\ WriteBack => TypeOK'
<1>. SUFFICES ASSUME TypeOK, WriteBack PROVE TypeOK'
  OBVIOUS
<1>1. Range(plan) \subseteq Project
  BY DEF TypeOK, Range
<1>2. DOMAIN Written \subseteq Project
  BY <1>1 DEF Written
<1>3. ASSUME NEW p \in DOMAIN Written PROVE Written[p] \in Entry
  <2>1. p \in Project /\ slot[p] \in Slot /\ agent \in Version
    BY <1>2, <1>3 DEF TypeOK
  <2>2. [pm |-> slot[p].pm, agent |-> agent, result |-> slot[p].result] \in Entry
    BY <2>1 DEF Slot, Entry
  <2>3. p \in DOMAIN cache => cache[p] \in Entry
    BY DEF TypeOK, Range
  <2>. QED
    BY <1>3, <2>2, <2>3 DEF Written
<1>4. Range(Written) \subseteq Entry
  BY <1>3 DEF Range
<1>5. NewerThanEntry(newer) \subseteq Project
  BY DEF NewerThanEntry, TypeOK
<1>. HIDE DEF Written
<1>. QED
  BY <1>2, <1>4, <1>5 DEF WriteBack, TypeOK, machine, base, run

LEMMA TypeStep == TypeOK /\ [Next]_vars => TypeOK'
<1>. SUFFICES ASSUME TypeOK, [Next]_vars PROVE TypeOK'
  OBVIOUS
<1>. USE DEF machine, base, run
<1>1. ASSUME NEW p \in Project, NEW c \in Held, NEW visible \in BOOLEAN, Edit(p, c, visible) PROVE TypeOK'
  BY <1>1 DEF Edit, TypeOK
<1>2. ASSUME NEW v \in Version, Upgrade(v) PROVE TypeOK'
  BY <1>2 DEF Upgrade, TypeOK
<1>3. CASE HorizonPasses \/ Tick \/ Dispatch \/ SaveFails
  BY <1>3 DEF HorizonPasses, Tick, Dispatch, SaveFails, TypeOK
<1>4. CASE Cancel
  BY <1>4 DEF Cancel, Known, TypeOK
<1>5. CASE Start
  <2>1. Present \in SUBSET Present
    OBVIOUS
  <2>2. \E k \in {"delta", "full", "legacy"}, dirs \in SUBSET Present : \E q \in Plans(k, dirs) : StartRun(k, dirs, q)
    BY <1>5, <2>1 DEF Start
  <2>. QED
    BY <2>2, StartType
<1>6. CASE Check
  BY <1>6, CheckType
<1>7. CASE Scan
  <2>1. ASSUME NEW p \in Project, NEW ok \in BOOLEAN, ScanDone(p, ok) PROVE TypeOK'
    <3>1. [how |-> "scanned", ok |-> ok, pm |-> slot[p].pm, result |-> content[p]] \in Slot
      BY DEF TypeOK, Slot
    <3>. QED
      BY <2>1, <3>1, FillType DEF ScanDone
  <2>2. ASSUME NEW p \in Project, ScanSkipped(p) PROVE TypeOK'
    BY <2>2, FillType, NothingType DEF ScanSkipped
  <2>. QED
    BY <1>7, <2>1, <2>2 DEF Scan
<1>8. CASE WriteBack
  BY <1>8, WriteBackType
<1>9. CASE Commit
  <2>1. sync' \in {"due", "full", "delta"} /\ syncedBy' \in Version /\ verified' \in [Project -> 0 .. Cardinality(Project)]
    BY <1>9, RanksAreBounded DEF Commit, TypeOK
  <2>. QED
    BY <1>9, <2>1, EndRunType DEF Commit, TypeOK
<1>10. CASE EndLegacy
  <2>1. Cardinality(Project) \in Nat
    BY NodeScanAssumption, FS_CardinalityType
  <2>. QED
    BY <1>10, <2>1, EndRunType DEF EndLegacy, TypeOK
<1>11. CASE UploadFails \/ Crash
  BY <1>11, EndRunType DEF UploadFails, Crash, TypeOK
<1>12. CASE UNCHANGED vars
  BY <1>12 DEF vars, TypeOK
<1>. QED
  BY <1>1, <1>2, <1>3, <1>4, <1>5, <1>6, <1>7, <1>8, <1>9, <1>10, <1>11, <1>12 DEF Next, Step

\* Every variable keeps its type: ranks stay within the number of projects
\* and the cursor within the plan, for any number of projects.
THEOREM TypeCorrect == Spec => []TypeOK
BY TypeInit, TypeStep, PTL DEF Spec

-----------------------------------------------------------------------------
(* The run that carries the inventories (ScanRun), for every set of        *)
(* machines and every number of budgets exceeded.                          *)
CONSTANTS Runs, MaxCuts
VARIABLES host, at, late, cuts, done, log, got, proj, snap, payload, out, kept
Main == INSTANCE ScanRun WITH run <- host

Names == DOMAIN Main!Section
Marked(q) == {q[i] : i \in DOMAIN q}

(* Why nothing is left out in silence: what each section has been through  *)
(* by the time it is due, and what the log and the tracker have of it.     *)
Due == [ides |-> 5, extensions |-> 6, ai |-> 7, mcp |-> 8, rules |-> 29, brew |-> 14, pythonGlobals |-> 14,
        system |-> 14, nodeGlobals |-> 14, skills |-> 15, plugins |-> 29, credentials |-> 29, browser |-> 29,
        go |-> 19, cargo |-> 20, composer |-> 21, nuget |-> 22, audits |-> 23]
Phased == Main!Lists \cup {"rules", "credentials"}

Ends == {"no", "done", "refused", "nameless", "panicked", "killed", "undumped", "failed", "overdue"}
Values == {"nil", "empty", "part", "all", "split"}
Placed ==
    /\ host \in Runs /\ at \in 1 .. 29 /\ late \in BOOLEAN
    /\ done \in Seq(Main!Phases) /\ kept \in [baseline : {"old", "void", "stuck", "new"}, stamped : BOOLEAN, end : Ends]
    /\ out \in {"none", "ready", "dumped", "accepted", "queued", "rejected", "lost", "unsent"}
    /\ got \in [Names -> Values] /\ DOMAIN proj = Main!Eco

\* The sections that may be short of what no walk comes across.
Excused(s) == s \in {"skills", "plugins"} /\ Main!Untold # {}
Sectioned ==
    /\ \A s \in Names \ {"audits"} : got[s] = "part" => Main!Section[s] \cap log # {} \/ Excused(s)
    /\ \A s \in Names : got[s] = "nil" => at <= Due[s]
    /\ \A s \in Names : got[s] \in {"nil", "empty", "part", "all"} \/ (s = "mcp" /\ got[s] = "split")
    /\ \A s \in Names : got[s] = "empty" => s \in Main!Lists
    /\ \A s \in Phased : got[s] \in {"nil", "empty"} <=> Main!Section[s] \cap Marked(done) = {}
    /\ got["mcp"] = "split" => got["plugins"] # "nil"

ScanOf(e) == IF e = "npm" THEN "node_scan" ELSE "python_scan"
PlaceOf(e) == IF e = "npm" THEN 13 ELSE 11
\* What a scan has that nothing cut short: all in reach, but for the caps.
ReadWhole(e) ==
    /\ proj[e].discovered = Main!Reach(e) /\ proj[e].records = Main!Kept(e, proj[e].results)
    /\ Main!Capped[e] \notin log => proj[e].results = Main!Reach(e) \ host.foreign
Seen == \A e \in Main!Eco :
    /\ proj[e].results \subseteq Main!Reach(e) /\ proj[e].records \subseteq proj[e].results
    /\ e = "npm" => proj[e].records = proj[e].results
    /\ e \notin host.scanned => proj[e].results = {}
    /\ at > PlaceOf(e) /\ e \in host.scanned =>
          /\ Main!Delta => host.known[e] \cap Main!Reach(e) \subseteq proj[e].discovered
          /\ ScanOf(e) \notin log => ReadWhole(e)

\* The line of the upload itself comes too late for the payload.
Logged == \A p : p # "telemetry_upload" => (p \in snap.log <=> p \in log)
Sealed ==
    /\ at <= 27 /\ kept.end = "no" => "telemetry_upload" \notin Marked(done)
    /\ at > 24 => /\ Marked(snap.status) = Marked(done) \ {"telemetry_upload"}
                  /\ Logged /\ "usage" \in log
    /\ out = "none" <=> at <= 25
    /\ at > 25 => payload = [status |-> snap.status, log |-> snap.log, sections |-> got,
                             bodies |-> [e \in Main!Eco |-> Main!Bodies(e)], refs |-> [e \in Main!Eco |-> Main!Refs(e)],
                             removed |-> [e \in Main!Eco |-> Main!Removed(e)],
                             count |-> [e \in Main!Eco |-> Main!Metrics(e)]]

Delivered ==
    /\ kept.end = "no" => /\ kept.baseline # "new" /\ ~kept.stamped
                          /\ at <= 27 => out \in {"none", "ready"}
                          /\ at = 28 => out \in {"dumped", "accepted", "queued", "rejected"}
    /\ kept.end # "done" => kept.baseline # "new" /\ ~kept.stamped
    /\ at > 26 /\ ~Main!Delta /\ host.home => kept.baseline = "void" \/ (host.readonly /\ kept.baseline = "stuck")
    /\ out \notin {"none", "ready"} => at > 26
    /\ kept.baseline = "new" => Main!Delta /\ out \in {"dumped", "accepted", "queued"}
    /\ kept.stamped => out \in {"dumped", "accepted", "queued", "rejected"}

RunInv == Placed /\ Sectioned /\ Seen /\ Sealed /\ Delivered /\ Main!DeadlineOnlyCuts

-----------------------------------------------------------------------------
\* Where in the order a step is taken.
LEMMA Places ==
    ASSUME at \in 1 .. 29, NEW s, Main!Stage(s)
    PROVE  /\ at \in 1 .. 28 /\ kept.end = "no" /\ s \in Main!Phases
           /\ (s = "lock" => at = 1) /\ (s = "scheduler_info" => at = 2) /\ (s = "device_info" => at = 3)
           /\ (s = "wsl_scan" => at = 4) /\ (s = "ide_scan" => at = 5)
           /\ (s = "extension_scan" => at = 6) /\ (s = "ai_tools_scan" => at = 7)
           /\ (s = "mcp_config_scan" => at = 8) /\ (s = "malicious_file_scan" => at = 9)
           /\ (s = "brew_scan" => at = 10) /\ (s = "python_scan" => at = 11)
           /\ (s = "syspkg_scan" => at = 12) /\ (s = "node_scan" => at = 13) /\ (s = "tidy" => at = 14)
           /\ (s = "agent_skills_scan" => at = 15) /\ (s = "agent_plugins_scan" => at = 16)
           /\ (s = "credentials_scan" => at = 17) /\ (s = "browser_extensions_scan" => at = 18)
           /\ (s = "go_scan" => at = 19) /\ (s = "cargo_scan" => at = 20)
           /\ (s = "composer_scan" => at = 21) /\ (s = "nuget_scan" => at = 22)
           /\ (s = "audits" => at = 23) /\ (s = "snapshot" => at = 24) /\ (s = "assemble" => at = 25)
           /\ (s = "invalidate" => at = 26) /\ (s = "deliver" => at = 27) /\ (s = "settle" => at = 28)
<1>1. /\ at \in 1 .. 28 /\ Main!Order[at] = s /\ kept.end = "no" /\ Len(Main!Order) = 28
  <2>1. Len(Main!Order) = 28
    BY DEF Main!Order
  <2> QED BY <2>1 DEF Main!Stage
<1>2. \A i \in 1 .. 28 : Main!Order[i] = s =>
        /\ (s = "lock" => i = 1) /\ (s = "scheduler_info" => i = 2) /\ (s = "device_info" => i = 3)
        /\ (s = "wsl_scan" => i = 4) /\ (s = "ide_scan" => i = 5) /\ (s = "extension_scan" => i = 6)
        /\ (s = "ai_tools_scan" => i = 7) /\ (s = "mcp_config_scan" => i = 8)
        /\ (s = "malicious_file_scan" => i = 9) /\ (s = "brew_scan" => i = 10)
        /\ (s = "python_scan" => i = 11) /\ (s = "syspkg_scan" => i = 12) /\ (s = "node_scan" => i = 13)
        /\ (s = "tidy" => i = 14) /\ (s = "agent_skills_scan" => i = 15)
        /\ (s = "agent_plugins_scan" => i = 16) /\ (s = "credentials_scan" => i = 17)
        /\ (s = "browser_extensions_scan" => i = 18) /\ (s = "go_scan" => i = 19)
        /\ (s = "cargo_scan" => i = 20) /\ (s = "composer_scan" => i = 21)
        /\ (s = "nuget_scan" => i = 22) /\ (s = "audits" => i = 23) /\ (s = "snapshot" => i = 24)
        /\ (s = "assemble" => i = 25) /\ (s = "invalidate" => i = 26) /\ (s = "deliver" => i = 27)
        /\ (s = "settle" => i = 28)
  BY DEF Main!Order
<1>3. s \in Main!Phases
  BY <1>1 DEF Main!Phases
<1> QED BY <1>1, <1>2, <1>3

\* The sections and when they are due.
LEMMA Sections ==
    /\ Names = {"ides", "extensions", "ai", "mcp", "rules", "brew", "pythonGlobals", "system", "nodeGlobals", "skills",
                "plugins", "credentials", "browser", "go", "cargo", "composer", "nuget", "audits"}
    /\ DOMAIN Due = Names /\ Due \in [Names -> 1 .. 29]
    /\ Phased = {"brew", "pythonGlobals", "system", "nodeGlobals", "rules", "credentials"} /\ Phased \subseteq Names
BY DEF Names, Main!Section, Due, Phased, Main!Lists

LEMMA Marks ==
    ASSUME NEW q \in Seq(Main!Phases), NEW p \in Main!Phases
    PROVE  Append(q, p) \in Seq(Main!Phases) /\ Marked(Append(q, p)) = Marked(q) \cup {p}
<1>1. Len(Append(q, p)) = Len(q) + 1 /\ Append(q, p) \in Seq(Main!Phases) /\ Len(q) \in Nat
  BY AppendProperties, LenProperties
<1>2. \A i \in 1 .. Len(q) : Append(q, p)[i] = q[i]
  BY AppendProperties
<1>3. Append(q, p)[Len(q) + 1] = p
  BY AppendProperties
<1>4. DOMAIN Append(q, p) = 1 .. Len(q) + 1 /\ DOMAIN q = 1 .. Len(q)
  BY <1>1, LenProperties
<1>5. ASSUME NEW x \in Marked(Append(q, p)) PROVE x \in Marked(q) \cup {p}
  <2>1. PICK i \in 1 .. Len(q) + 1 : x = Append(q, p)[i]
    BY <1>4, <1>5 DEF Marked
  <2>2. CASE i = Len(q) + 1
    BY <2>1, <2>2, <1>3
  <2>3. CASE i # Len(q) + 1
    <3>1. i \in 1 .. Len(q)
      BY <2>3, <1>1
    <3> QED BY <2>1, <3>1, <1>4, <1>2 DEF Marked
  <2> QED BY <2>2, <2>3
<1>6. ASSUME NEW x \in Marked(q) PROVE x \in Marked(Append(q, p))
  <2>1. PICK i \in 1 .. Len(q) : x = q[i]
    BY <1>4, <1>6 DEF Marked
  <2>2. i \in DOMAIN Append(q, p) /\ x = Append(q, p)[i]
    BY <2>1, <1>1, <1>2, <1>4
  <2> QED BY <2>2 DEF Marked
<1>7. p \in Marked(Append(q, p))
  <2>1. Len(q) + 1 \in DOMAIN Append(q, p)
    BY <1>1, <1>4
  <2> QED BY <2>1, <1>3 DEF Marked
<1> QED BY <1>1, <1>5, <1>6, <1>7

\* What a phase does to its context and to the records of it.
LEMMA WorkRecorded ==
    ASSUME RunInv, NEW p \in Main!Phases, NEW c \in {"sound", "cut", "dead"}, NEW told,
           Main!Context(p, c), Main!Ended(p, c, told)
    PROVE  /\ late' \in BOOLEAN /\ (late => late') /\ done' \in Seq(Main!Phases) /\ Marked(done') = Marked(done) \cup {p}
           /\ log \subseteq log' /\ told \subseteq log' /\ (c # "sound" => p \in log')
BY Marks DEF RunInv, Placed, Main!Context, Main!Ended, Main!Exceeded

LEMMA PhaseRecorded ==
    ASSUME RunInv, NEW p \in Main!Phases, NEW c \in {"sound", "cut", "dead"}, Main!Context(p, c), Main!endPhase(p, c)
    PROVE  /\ late' \in BOOLEAN /\ (late => late') /\ done' \in Seq(Main!Phases) /\ Marked(done') = Marked(done) \cup {p}
           /\ log \subseteq log' /\ (c # "sound" => p \in log')
BY WorkRecorded DEF Main!endPhase

LEMMA ExcusedKept == ASSUME host' = host, NEW s PROVE Excused(s)' <=> Excused(s)
BY DEF Excused, Main!Untold

\* Before the snapshot, a step that moves on keeps all that is not about
\* sections and projects.
Moves == at \in 1 .. 23 /\ at' = at + 1 /\ kept.end = "no" /\ host' = host /\ UNCHANGED <<snap, payload, out, kept>>
LEMMA MovesOn ==
    ASSUME RunInv, Moves, late' \in BOOLEAN, late => late', done' \in Seq(Main!Phases),
           "telemetry_upload" \in Marked(done') => "telemetry_upload" \in Marked(done),
           got' \in [Names -> Values], DOMAIN proj' = Main!Eco, Sectioned', Seen'
    PROVE  RunInv'
<1>0. /\ at' = at + 1 /\ at \in 1 .. 23 /\ host' = host /\ snap' = snap /\ payload' = payload
      /\ out' = out /\ kept' = kept /\ kept.end = "no"
  BY DEF Moves
<1>1. Placed'
  <2>1. host' \in Runs
    BY <1>0 DEF RunInv, Placed
  <2>2. at' \in 1 .. 29
    BY <1>0 DEF RunInv, Placed
  <2>3. kept' \in [baseline : {"old", "void", "stuck", "new"}, stamped : BOOLEAN, end : Ends]
    BY <1>0 DEF RunInv, Placed
  <2>4. out' \in {"none", "ready", "dumped", "accepted", "queued", "rejected", "lost", "unsent"}
    BY <1>0 DEF RunInv, Placed
  <2> QED BY <2>1, <2>2, <2>3, <2>4 DEF Placed
<1>2. Sealed'
  <2>1. at <= 27 /\ at' <= 24 /\ ~(at' > 24) /\ ~(at' > 25) /\ at' <= 25 /\ at <= 25
    BY <1>0
  <2>2. out' = "none" /\ "telemetry_upload" \notin Marked(done')
    BY <1>0, <2>1 DEF RunInv, Sealed
  <2> QED BY <2>1, <2>2 DEF Sealed
<1>3. Delivered'
  <2>1. /\ at <= 27 /\ at' <= 27 /\ at' # 28 /\ ~(at' > 26)
        /\ kept' = kept /\ kept.end = "no" /\ out' = out
    BY <1>0
  <2>2. kept.baseline # "new" /\ ~kept.stamped /\ out \in {"none", "ready"}
    BY <2>1 DEF RunInv, Delivered
  <2> QED BY <2>1, <2>2 DEF Delivered
<1>4. Main!DeadlineOnlyCuts'
  BY <1>0 DEF RunInv, Main!DeadlineOnlyCuts, Main!Given, Main!Budgeted
<1> QED BY <1>1, <1>2, <1>3, <1>4 DEF RunInv

\* What has been scanned keeps as long as the log only grows.
LEMMA SeenStays ==
    ASSUME Seen, host' = host, proj' = proj, log \subseteq log',
           \A e \in Main!Eco : at' > PlaceOf(e) => at > PlaceOf(e)
    PROVE  Seen'
<1>1. Main!Delta' = Main!Delta /\ \A e \in Main!Eco : Main!Reach(e)' = Main!Reach(e)
  BY DEF Main!Delta, Main!Reach
<1>2. ASSUME NEW e \in Main!Eco, ReadWhole(e) PROVE ReadWhole(e)'
  BY <1>1, <1>2 DEF ReadWhole, Main!Kept
<1> QED BY <1>1, <1>2 DEF Seen

\* Nothing else happens to the projects of an ecosystem than its own scan.
LEMMA SeenKept ==
    ASSUME RunInv, Moves, at \notin {11, 13}, proj' = proj, log \subseteq log'
    PROVE  Seen'
<1>1. \A e \in Main!Eco : at' > PlaceOf(e) => at > PlaceOf(e)
  BY DEF Moves, PlaceOf
<1> QED BY <1>1, SeenStays DEF RunInv, Moves

LEMMA SectionFilled ==
    ASSUME RunInv, Moves, NEW p, NEW s \in Names, NEW v \in {"part", "all"},
           got' = [got EXCEPT ![s] = v], log \subseteq log',
           Marked(done') = Marked(done) \cup {p} \/ (done' = done /\ s \notin Phased),
           v = "part" /\ s # "audits" => Main!Section[s] \cap log' # {} \/ Excused(s),
           s \in Phased => p \in Main!Section[s],
           \A t \in Phased \ {s} : p \notin Main!Section[t],
           \A t \in Names \ {s} : Due[t] # at
    PROVE  Sectioned' /\ got' \in [Names -> Values]
<1>1. /\ got' \in [Names -> Values] /\ got'[s] = v /\ \A t \in Names \ {s} : got'[t] = got[t]
  <2>1. got \in [Names -> Values] /\ v \in Values
    BY DEF RunInv, Placed, Values
  <2> QED BY <2>1
<1>2. \A t \in Names : got'[t] = "nil" => at' <= Due[t]
  BY <1>1, Sections DEF RunInv, Sectioned, Moves
<1>3. \A t \in Phased : got'[t] \in {"nil", "empty"} <=> Main!Section[t] \cap Marked(done') = {}
  BY <1>1, Sections DEF RunInv, Sectioned
<1>4. got'["mcp"] = "split" => got'["plugins"] # "nil"
  BY <1>1, Sections DEF RunInv, Sectioned
<1>5. \A t \in Names \ {"audits"} : got'[t] = "part" => Main!Section[t] \cap log' # {} \/ Excused(t)'
  BY <1>1, ExcusedKept DEF RunInv, Sectioned, Moves
<1> QED BY <1>1, <1>2, <1>3, <1>4, <1>5 DEF RunInv, Sectioned

LEMMA SectionsKept ==
    ASSUME RunInv, Moves, NEW p, got' = got, log \subseteq log',
           \/ done' = done
           \/ Marked(done') = Marked(done) \cup {p} /\ \A t \in Phased : p \notin Main!Section[t],
           \A t \in Names : Due[t] # at
    PROVE  Sectioned' /\ got' \in [Names -> Values]
<1>1. \A t \in Names : got'[t] = "nil" => at' <= Due[t]
  BY Sections DEF RunInv, Sectioned, Moves
<1>2. \A t \in Phased : got'[t] \in {"nil", "empty"} <=> Main!Section[t] \cap Marked(done') = {}
  BY DEF RunInv, Sectioned
<1>3. \A t \in Names \ {"audits"} : got'[t] = "part" => Main!Section[t] \cap log' # {} \/ Excused(t)'
  BY ExcusedKept DEF RunInv, Sectioned, Moves
<1> QED BY <1>1, <1>2, <1>3 DEF RunInv, Sectioned, Placed

Early == at \in 1 .. 23 /\ at \notin {11, 13}
Passes(p) == Main!Stage(p) /\ Main!Go_on /\ Main!Rest /\ UNCHANGED proj

LEMMA PassMoves == ASSUME RunInv, Early, NEW p, Passes(p) PROVE Moves
BY DEF RunInv, Placed, Early, Passes, Moves, Main!Stage, Main!Go_on, Main!Rest

\* A phase that has nothing to do, or leaves the sections as they are.
Keeps(p) ==
    /\ p # "telemetry_upload" /\ Passes(p) /\ Early /\ got' = got
    /\ \A t \in Names : Due[t] # at
    /\ \/ Main!Skip
       \/ /\ \A t \in Phased : p \notin Main!Section[t]
          /\ \E c \in {"sound", "cut", "dead"} : Main!Context(p, c) /\ Main!endPhase(p, c)
LEMMA PhaseKeeps == ASSUME RunInv, NEW p, Keeps(p) PROVE RunInv'
<1> USE DEF Keeps
<1>0. p \in Main!Phases
  BY Places DEF Passes, RunInv, Placed
<1>1. Moves /\ proj' = proj
  BY PassMoves DEF Passes
<1>2. DOMAIN proj' = Main!Eco
  BY <1>1 DEF RunInv, Placed
<1>3. CASE Main!Skip
  <2>1. late' = late /\ done' = done /\ log' = log /\ late \in BOOLEAN /\ done \in Seq(Main!Phases)
    BY <1>3 DEF Main!Skip, RunInv, Placed
  <2>2. Sectioned' /\ got' \in [Names -> Values]
    BY <1>1, <2>1, SectionsKept
  <2>3. Seen'
    BY <1>1, <2>1, SeenKept DEF Early
  <2> QED BY <1>1, <1>2, <2>1, <2>2, <2>3, MovesOn
<1>4. CASE /\ \A t \in Phased : p \notin Main!Section[t]
           /\ \E c \in {"sound", "cut", "dead"} : Main!Context(p, c) /\ Main!endPhase(p, c)
  <2>1. PICK c \in {"sound", "cut", "dead"} : Main!Context(p, c) /\ Main!endPhase(p, c)
    BY <1>4
  <2>2. /\ late' \in BOOLEAN /\ (late => late') /\ done' \in Seq(Main!Phases) /\ Marked(done') = Marked(done) \cup {p}
        /\ log \subseteq log'
    BY <1>0, <2>1, PhaseRecorded
  <2>3. Sectioned' /\ got' \in [Names -> Values]
    BY <1>1, <1>4, <2>2, SectionsKept
  <2>4. Seen'
    BY <1>1, <2>2, SeenKept DEF Early
  <2> QED BY <1>1, <1>2, <2>2, <2>3, <2>4, MovesOn
<1> QED BY <1>3, <1>4

\* A phase that fills a section, as far as its context and what it rests on allow.
Fills(p, s, c, v) ==
    /\ p # "telemetry_upload" /\ Passes(p) /\ Early /\ c \in {"sound", "cut", "dead"}
    /\ s \in Names /\ p \in Main!Section[s]
    /\ \A t \in Names \ {s} : Due[t] # at
    /\ \A t \in Phased \ {s} : p \notin Main!Section[t]
    /\ Main!Context(p, c) /\ Main!endPhase(p, c)
    /\ v \in {"part", "all"} /\ got' = [got EXCEPT ![s] = v]
    /\ v = "part" => c # "sound" \/ Main!Section[s] \cap log # {} \/ Excused(s)
LEMMA PhaseFills == ASSUME RunInv, NEW p, NEW s, NEW c, NEW v, Fills(p, s, c, v) PROVE RunInv'
<1> USE DEF Fills
<1>0. p \in Main!Phases
  BY Places DEF Passes, RunInv, Placed
<1>1. Moves /\ proj' = proj
  BY PassMoves DEF Passes
<1>2. /\ late' \in BOOLEAN /\ (late => late') /\ done' \in Seq(Main!Phases) /\ Marked(done') = Marked(done) \cup {p}
      /\ log \subseteq log' /\ (c # "sound" => p \in log')
  BY <1>0, PhaseRecorded
<1>3. v = "part" /\ s # "audits" => Main!Section[s] \cap log' # {} \/ Excused(s)
  BY <1>2
<1>4. Sectioned' /\ got' \in [Names -> Values]
  BY <1>1, <1>2, <1>3, SectionFilled
<1>5. Seen'
  BY <1>1, <1>2, SeenKept DEF Early
<1>6. DOMAIN proj' = Main!Eco
  BY <1>1 DEF RunInv, Placed
<1> QED BY <1>1, <1>2, <1>4, <1>5, <1>6, MovesOn


\* A phase, its place, and the section that is its own.
Owns(p, s) ==
    /\ p # "telemetry_upload" /\ Early /\ s \in Names /\ p \in Main!Section[s]
    /\ \A t \in Names \ {s} : Due[t] # at
    /\ \A t \in Phased \ {s} : p \notin Main!Section[t]
Finds(p, s) ==
    /\ Passes(p)
    /\ \/ Main!Skip /\ Due[s] # at
       \/ \E c \in {"sound", "cut", "dead"} :
              Main!Context(p, c) /\ Main!endPhase(p, c) /\ got' = [got EXCEPT ![s] = Main!Found(c)]
LEMMA PhaseFinds == ASSUME RunInv, NEW p, NEW s, Owns(p, s), Finds(p, s) PROVE RunInv'
<1>1. CASE Main!Skip /\ Due[s] # at
  <2>1. Keeps(p)
    BY <1>1 DEF Keeps, Owns, Finds, Main!Skip
  <2> QED BY <2>1, PhaseKeeps
<1>2. ASSUME NEW c \in {"sound", "cut", "dead"}, Main!Context(p, c), Main!endPhase(p, c),
             got' = [got EXCEPT ![s] = Main!Found(c)]
      PROVE  RunInv'
  <2>1. Main!Found(c) \in {"part", "all"} /\ (Main!Found(c) = "part" => c # "sound")
    BY DEF Main!Found
  <2>2. Fills(p, s, c, Main!Found(c))
    BY <1>2, <2>1, Zenon DEF Fills, Owns, Finds
  <2> QED BY <2>2, PhaseFills
<1> QED BY <1>1, <1>2 DEF Finds

LEMMA IDEsStep == ASSUME RunInv, Main!IDEs PROVE RunInv'
<1>1. Main!Stage("ide_scan") /\ at = 5
  BY Places DEF Main!IDEs, Main!Phase, RunInv, Placed
<1>2. Owns("ide_scan", "ides")
  BY <1>1, Sections DEF Owns, Early, Due, Main!Section
<1>3. Finds("ide_scan", "ides")
  BY <1>1 DEF Main!IDEs, Main!Phase, Finds, Passes, Main!Skip
<1> QED BY <1>2, <1>3, PhaseFinds

LEMMA AIToolsStep == ASSUME RunInv, Main!AITools PROVE RunInv'
<1>1. Main!Stage("ai_tools_scan") /\ at = 7
  BY Places DEF Main!AITools, Main!Phase, RunInv, Placed
<1>2. Owns("ai_tools_scan", "ai")
  BY <1>1, Sections DEF Owns, Early, Due, Main!Section
<1>3. Finds("ai_tools_scan", "ai")
  BY <1>1 DEF Main!AITools, Main!Phase, Finds, Passes, Main!Skip
<1> QED BY <1>2, <1>3, PhaseFinds

LEMMA MCPConfigsStep == ASSUME RunInv, Main!MCPConfigs PROVE RunInv'
<1>1. Main!Stage("mcp_config_scan") /\ at = 8
  BY Places DEF Main!MCPConfigs, Main!Phase, RunInv, Placed
<1>2. Owns("mcp_config_scan", "mcp")
  BY <1>1, Sections DEF Owns, Early, Due, Main!Section
<1>3. Finds("mcp_config_scan", "mcp")
  BY <1>1 DEF Main!MCPConfigs, Main!Phase, Finds, Passes, Main!Skip
<1> QED BY <1>2, <1>3, PhaseFinds

LEMMA MaliciousFilesStep == ASSUME RunInv, Main!MaliciousFiles PROVE RunInv'
<1>1. Main!Stage("malicious_file_scan") /\ at = 9
  BY Places DEF Main!MaliciousFiles, Main!Phase, RunInv, Placed
<1>2. Owns("malicious_file_scan", "rules")
  BY <1>1, Sections DEF Owns, Early, Due, Main!Section
<1>3. Finds("malicious_file_scan", "rules")
  BY <1>1 DEF Main!MaliciousFiles, Main!Phase, Finds, Passes, Main!Skip, Due
<1> QED BY <1>2, <1>3, PhaseFinds

LEMMA BrewStep == ASSUME RunInv, Main!Brew PROVE RunInv'
<1>1. Main!Stage("brew_scan") /\ at = 10
  BY Places DEF Main!Brew, Main!Phase, RunInv, Placed
<1>2. Owns("brew_scan", "brew")
  BY <1>1, Sections DEF Owns, Early, Due, Main!Section
<1>3. Finds("brew_scan", "brew")
  BY <1>1 DEF Main!Brew, Main!Phase, Finds, Passes, Main!Skip, Due
<1> QED BY <1>2, <1>3, PhaseFinds

LEMMA SystemPackagesStep == ASSUME RunInv, Main!SystemPackages PROVE RunInv'
<1>1. Main!Stage("syspkg_scan") /\ at = 12
  BY Places DEF Main!SystemPackages, Main!Phase, RunInv, Placed
<1>2. Owns("syspkg_scan", "system")
  BY <1>1, Sections DEF Owns, Early, Due, Main!Section
<1>3. Finds("syspkg_scan", "system")
  BY <1>1 DEF Main!SystemPackages, Main!Phase, Finds, Passes, Main!Skip, Due
<1> QED BY <1>2, <1>3, PhaseFinds

LEMMA collectCredentialsStep == ASSUME RunInv, Main!collectCredentials PROVE RunInv'
<1>1. Main!Stage("credentials_scan") /\ at = 17
  BY Places DEF Main!collectCredentials, Main!Phase, RunInv, Placed
<1>2. Owns("credentials_scan", "credentials")
  BY <1>1, Sections DEF Owns, Early, Due, Main!Section
<1>3. Finds("credentials_scan", "credentials")
  BY <1>1 DEF Main!collectCredentials, Main!Phase, Finds, Passes, Main!Skip, Due
<1> QED BY <1>2, <1>3, PhaseFinds

LEMMA GoModulesStep == ASSUME RunInv, Main!GoModules PROVE RunInv'
<1>1. Main!Stage("go_scan") /\ at = 19
  BY Places DEF Main!GoModules, Main!Phase, RunInv, Placed
<1>2. Owns("go_scan", "go")
  BY <1>1, Sections DEF Owns, Early, Due, Main!Section
<1>3. Finds("go_scan", "go")
  BY <1>1 DEF Main!GoModules, Main!Phase, Finds, Passes, Main!Skip
<1> QED BY <1>2, <1>3, PhaseFinds

LEMMA CargoStep == ASSUME RunInv, Main!Cargo PROVE RunInv'
<1>1. Main!Stage("cargo_scan") /\ at = 20
  BY Places DEF Main!Cargo, Main!Phase, RunInv, Placed
<1>2. Owns("cargo_scan", "cargo")
  BY <1>1, Sections DEF Owns, Early, Due, Main!Section
<1>3. Finds("cargo_scan", "cargo")
  BY <1>1 DEF Main!Cargo, Main!Phase, Finds, Passes, Main!Skip
<1> QED BY <1>2, <1>3, PhaseFinds

LEMMA ComposerStep == ASSUME RunInv, Main!Composer PROVE RunInv'
<1>1. Main!Stage("composer_scan") /\ at = 21
  BY Places DEF Main!Composer, Main!Phase, RunInv, Placed
<1>2. Owns("composer_scan", "composer")
  BY <1>1, Sections DEF Owns, Early, Due, Main!Section
<1>3. Finds("composer_scan", "composer")
  BY <1>1 DEF Main!Composer, Main!Phase, Finds, Passes, Main!Skip
<1> QED BY <1>2, <1>3, PhaseFinds

LEMMA NuGetStep == ASSUME RunInv, Main!NuGet PROVE RunInv'
<1>1. Main!Stage("nuget_scan") /\ at = 22
  BY Places DEF Main!NuGet, Main!Phase, RunInv, Placed
<1>2. Owns("nuget_scan", "nuget")
  BY <1>1, Sections DEF Owns, Early, Due, Main!Section
<1>3. Finds("nuget_scan", "nuget")
  BY <1>1 DEF Main!NuGet, Main!Phase, Finds, Passes, Main!Skip
<1> QED BY <1>2, <1>3, PhaseFinds

LEMMA SchedulerInfoStep == ASSUME RunInv, Main!SchedulerInfo PROVE RunInv'
<1>1. Main!Stage("scheduler_info") /\ at = 2
  BY Places DEF Main!SchedulerInfo, Main!Phase, RunInv, Placed
<1>2. Keeps("scheduler_info")
  BY <1>1, Sections DEF Keeps, Early, Due, Main!Section, Passes, Main!SchedulerInfo, Main!Phase, Main!Skip
<1> QED BY <1>2, PhaseKeeps

LEMMA WSLStep == ASSUME RunInv, Main!WSL PROVE RunInv'
<1>1. Main!Stage("wsl_scan") /\ at = 4
  BY Places DEF Main!WSL, Main!Phase, RunInv, Placed
<1>2. Keeps("wsl_scan")
  BY <1>1, Sections DEF Keeps, Early, Due, Main!Section, Passes, Main!WSL, Main!Phase, Main!Skip
<1> QED BY <1>2, PhaseKeeps

\* What a section that is due has become.
LEMMA DueSections ==
    ASSUME RunInv, NEW s \in Names, at > Due[s]
    PROVE  got[s] # "nil" /\ (s \notin Main!Lists \cup {"mcp"} => got[s] \in {"part", "all"})
<1>1. Due[s] \in 1 .. 29 /\ at \in 1 .. 29
  BY Sections DEF RunInv, Placed
<1>2. got[s] # "nil"
  <2>1. got[s] = "nil" => at <= Due[s]
    BY DEF RunInv, Sectioned
  <2> QED BY <1>1, <2>1
<1>3. /\ got[s] \in {"nil", "empty", "part", "all"} \/ (s = "mcp" /\ got[s] = "split")
      /\ got[s] = "empty" => s \in Main!Lists
  BY DEF RunInv, Sectioned
<1> QED BY <1>2, <1>3

LEMMA ExtensionsStep == ASSUME RunInv, Main!Extensions PROVE RunInv'
<1>1. Main!Stage("extension_scan") /\ at = 6
  BY Places DEF Main!Extensions, Main!Phase, RunInv, Placed
<1>2. Owns("extension_scan", "extensions")
  BY <1>1, Sections DEF Owns, Early, Due, Main!Section
<1> DEFINE v(c) == IF Main!Sound("ides") THEN Main!Found(c) ELSE "part"
<1>3. PICK c \in {"sound", "cut", "dead"} :
          /\ Main!Context("extension_scan", c) /\ Main!endPhase("extension_scan", c)
          /\ got' = [got EXCEPT !["extensions"] = v(c)]
  BY DEF Main!Extensions, Main!Phase
<1>4. ~Main!Sound("ides") => Main!Section["extensions"] \cap log # {}
  <2>1. at > Due["ides"] /\ "ides" \in Names \ {"audits"} /\ "ides" \notin Main!Lists \cup {"mcp"}
    BY <1>1, Sections DEF Due, Main!Lists
  <2>2. got["ides"] \in {"part", "all"}
    BY <2>1, DueSections
  <2>3. got["ides"] = "part" => Main!Section["ides"] \cap log # {}
    BY <2>1 DEF RunInv, Sectioned, Excused
  <2>4. Main!Section["ides"] \subseteq Main!Section["extensions"]
    BY DEF Main!Section
  <2> QED BY <2>2, <2>3, <2>4 DEF Main!Sound
<1>5. v(c) \in {"part", "all"} /\ (v(c) = "part" => c # "sound" \/ Main!Section["extensions"] \cap log # {})
  BY <1>4 DEF Main!Found
<1>6. Passes("extension_scan")
  BY DEF Main!Extensions, Main!Phase, Passes
<1> HIDE DEF v
<1>7. Fills("extension_scan", "extensions", c, v(c))
  BY <1>2, <1>3, <1>5, <1>6, Zenon DEF Fills, Owns
<1> QED BY <1>7, PhaseFills

LEMMA BrowserExtensionsStep == ASSUME RunInv, Main!BrowserExtensions PROVE RunInv'
<1>1. Main!Stage("browser_extensions_scan") /\ at = 18
  BY Places DEF Main!BrowserExtensions, Main!Phase, RunInv, Placed
<1>2. Owns("browser_extensions_scan", "browser") /\ Due["browser"] # at
  BY <1>1, Sections DEF Owns, Early, Due, Main!Section
<1>3. CASE host.user
  <2>1. Finds("browser_extensions_scan", "browser")
    BY <1>3 DEF Main!BrowserExtensions, Main!Phase, Finds, Passes
  <2> QED BY <1>2, <2>1, PhaseFinds
<1>4. CASE ~host.user
  <2>1. \A t \in Phased : "browser_extensions_scan" \notin Main!Section[t]
    BY Sections DEF Main!Section
  <2>2. \A t \in Names : Due[t] # at
    BY <1>2 DEF Owns
  <2>3. /\ Passes("browser_extensions_scan") /\ got' = got
        /\ \E c \in {"sound", "cut", "dead"} :
              Main!Context("browser_extensions_scan", c) /\ Main!endPhase("browser_extensions_scan", c)
    BY <1>4 DEF Main!BrowserExtensions, Main!Phase, Passes
  <2>4. Keeps("browser_extensions_scan")
    BY <1>2, <2>1, <2>2, <2>3, Zenon DEF Keeps, Owns
  <2> QED BY <2>4, PhaseKeeps
<1> QED BY <1>3, <1>4

\* The projects of an ecosystem that was scanned are all there unless the log
\* says that the scan was cut or truncated, or no walk comes across them.
LEMMA RootsMissing ==
    ASSUME Main!RunAssumption, RunInv, at > 13, ~Main!RootsSound
    PROVE  ({"node_scan", "python_scan"} \cup Main!Caps) \cap log # {} \/ Main!Untold # {}
<1>1. SUFFICES ASSUME "node_scan" \notin log, "python_scan" \notin log, Main!Caps \cap log = {}, Main!Untold = {}
               PROVE  Main!RootsSound
  OBVIOUS
<1>2. host.scanned \subseteq Main!Eco
  BY DEF Main!RunAssumption, RunInv, Placed
<1>3. \A e \in Main!Eco : proj[e].results = IF e \in host.scanned THEN Main!Reach(e) \ host.foreign ELSE {}
  <2>1. \A e \in Main!Eco : at > PlaceOf(e) /\ ScanOf(e) \notin log /\ Main!Capped[e] \notin log
    <3>1. at \in 1 .. 29
      BY DEF RunInv, Placed
    <3> QED BY <3>1, <1>1 DEF ScanOf, PlaceOf, Main!Caps
  <2> QED BY <2>1 DEF RunInv, Seen, ReadWhole
<1>4. ASSUME NEW e \in host.scanned PROVE proj[e].results = host.disk[e]
  <2>1. e \in Main!Eco /\ proj[e].results = (host.disk[e] \ host.hidden) \ host.foreign
    BY <1>2, <1>3, <1>4 DEF Main!Reach
  <2>2. ASSUME NEW x \in host.disk[e] PROVE x \notin host.hidden \cup host.foreign
    <3>1. x \in UNION {host.disk[f] : f \in host.scanned}
      BY <1>4, <2>2
    <3> QED BY <1>1, <3>1 DEF Main!Untold
  <2> QED BY <2>1, <2>2
<1>5. \A e \in Main!Eco \ host.scanned : proj[e].results = {}
  BY <1>3
<1>6. UNION {proj[e].results : e \in Main!Eco} = UNION {host.disk[e] : e \in host.scanned}
  <2>1. ASSUME NEW e \in Main!Eco, NEW x \in proj[e].results PROVE x \in UNION {host.disk[f] : f \in host.scanned}
    <3>1. e \in host.scanned /\ x \in host.disk[e]
      BY <1>4, <1>5, <2>1
    <3> QED BY <3>1
  <2>2. ASSUME NEW e \in host.scanned, NEW x \in host.disk[e] PROVE x \in UNION {proj[f].results : f \in Main!Eco}
    <3>1. e \in Main!Eco /\ x \in proj[e].results
      BY <1>2, <1>4, <2>2
    <3> QED BY <3>1
  <2> QED BY <2>1, <2>2
<1> QED BY <1>6 DEF Main!RootsSound, Main!collectProjectRoots

LEMMA SkillsStep == ASSUME Main!RunAssumption, RunInv, Main!Skills PROVE RunInv'
<1>1. Main!Stage("agent_skills_scan") /\ at = 15
  BY Places DEF Main!Skills, Main!Phase, RunInv, Placed
<1>2. Owns("agent_skills_scan", "skills")
  BY <1>1, Sections DEF Owns, Early, Due, Main!Section
<1> DEFINE v(c) == IF Main!RootsSound THEN Main!Found(c) ELSE "part"
<1>3. PICK c \in {"sound", "cut", "dead"} :
          /\ Main!Context("agent_skills_scan", c) /\ Main!endPhase("agent_skills_scan", c)
          /\ got' = [got EXCEPT !["skills"] = v(c)]
  BY DEF Main!Skills, Main!Phase
<1>4. ~Main!RootsSound => Main!Section["skills"] \cap log # {} \/ Excused("skills")
  <2>1. {"node_scan", "python_scan"} \cup Main!Caps \subseteq Main!Section["skills"]
    BY DEF Main!Section
  <2> QED BY <2>1, <1>1, RootsMissing DEF Excused
<1>5. v(c) \in {"part", "all"} /\ (v(c) = "part" => c # "sound" \/ Main!Section["skills"] \cap log # {} \/ Excused("skills"))
  BY <1>4 DEF Main!Found
<1>6. Passes("agent_skills_scan")
  BY DEF Main!Skills, Main!Phase, Passes
<1> HIDE DEF v
<1>7. Fills("agent_skills_scan", "skills", c, v(c))
  BY <1>2, <1>3, <1>5, <1>6, Zenon DEF Fills, Owns
<1> QED BY <1>7, PhaseFills

LEMMA PluginsStep == ASSUME RunInv, Main!Plugins PROVE RunInv'
<1>1. Main!Stage("agent_plugins_scan") /\ at = 16
  BY Places DEF Main!Plugins, Main!Phase, RunInv, Placed
<1>2. Owns("agent_plugins_scan", "plugins") /\ Due["plugins"] # at /\ Due["mcp"] # at /\ at > Due["skills"]
  BY <1>1, Sections DEF Owns, Early, Due, Main!Section
<1>3. /\ "agent_plugins_scan" \in Main!Section["mcp"] /\ {"mcp", "skills", "plugins"} \subseteq Names
      /\ Main!Section["skills"] \subseteq Main!Section["plugins"]
      /\ \A t \in Phased : "agent_plugins_scan" \notin Main!Section[t]
      /\ {"mcp", "skills", "plugins"} \cap Main!Lists = {} /\ {"mcp", "plugins"} \cap Phased = {}
  BY Sections DEF Main!Section, Main!Lists
<1>4. Passes("agent_plugins_scan") /\ Moves /\ proj' = proj
  <2>1. Passes("agent_plugins_scan")
    BY DEF Main!Plugins, Main!Phase, Passes
  <2> QED BY <2>1, <1>2, PassMoves DEF Owns, Passes
<1> DEFINE v(c) == IF Main!Sound("skills") THEN Main!Found(c) ELSE "part"
           m == IF Main!Sound("mcp") THEN "split" ELSE got.mcp
<1>5. PICK c \in {"sound", "cut", "dead"} :
          /\ Main!Context("agent_plugins_scan", c) /\ Main!endPhase("agent_plugins_scan", c)
          /\ got' = got \/ got' = [got EXCEPT !["plugins"] = v(c), !["mcp"] = m]
  BY DEF Main!Plugins, Main!Phase
<1>6. CASE got' = got
  <2>1. \A t \in Names : Due[t] # at
    BY <1>2 DEF Owns
  <2>2. Keeps("agent_plugins_scan")
    BY <1>2, <1>3, <1>4, <1>5, <1>6, <2>1, Zenon DEF Keeps, Owns
  <2> QED BY <2>2, PhaseKeeps
<1>7. CASE got' = [got EXCEPT !["plugins"] = v(c), !["mcp"] = m]
  <2>1. /\ late' \in BOOLEAN /\ (late => late') /\ done' \in Seq(Main!Phases)
        /\ Marked(done') = Marked(done) \cup {"agent_plugins_scan"}
        /\ log \subseteq log' /\ (c # "sound" => "agent_plugins_scan" \in log')
    <3>1. "agent_plugins_scan" \in Main!Phases
      BY <1>1, Places DEF RunInv, Placed
    <3> QED BY <3>1, <1>5, PhaseRecorded
  <2>2. v(c) \in {"part", "all"} /\ (v(c) = "part" => Main!Section["plugins"] \cap log' # {} \/ Excused("plugins"))
    <3>1. got["skills"] \in {"part", "all"}
      BY <1>2, <1>3, DueSections
    <3>2. got["skills"] = "part" => Main!Section["skills"] \cap log # {} \/ Excused("plugins")
      BY <1>3 DEF RunInv, Sectioned, Excused
    <3>3. "agent_plugins_scan" \in Main!Section["plugins"]
      BY <1>2 DEF Owns
    <3> QED BY <2>1, <3>1, <3>2, <3>3, <1>3 DEF Main!Found, Main!Sound
  <2>3. m = got["mcp"] \/ m = "split"
    OBVIOUS
  <2> HIDE DEF v, m
  <2>4. /\ got' \in [Names -> Values] /\ got'["plugins"] = v(c) /\ got'["mcp"] = m
        /\ \A t \in Names \ {"plugins", "mcp"} : got'[t] = got[t]
    <3>1. got \in [Names -> Values]
      BY DEF RunInv, Placed
    <3>2. m \in Values /\ v(c) \in Values
      BY <1>3, <2>2, <2>3, <3>1 DEF Values
    <3> QED BY <1>7, <1>3, <3>1, <3>2
  <2>5. Sectioned'
    <3>1. \A t \in Names : got'[t] = "nil" => at' <= Due[t]
      BY <1>2, <1>4, <2>2, <2>3, <2>4, Sections DEF RunInv, Sectioned, Moves, Owns
    <3>2. \A t \in Phased : got'[t] \in {"nil", "empty"} <=> Main!Section[t] \cap Marked(done') = {}
      BY <1>3, <2>1, <2>4, Sections DEF RunInv, Sectioned
    <3>3. got'["plugins"] # "nil"
      BY <2>2, <2>4
    <3>4. \A t \in Names \ {"audits"} : got'[t] = "part" => Main!Section[t] \cap log' # {} \/ Excused(t)'
      BY <1>4, <2>1, <2>2, <2>3, <2>4, ExcusedKept DEF RunInv, Sectioned, Moves
    <3>5. /\ \A t \in Names : got'[t] \in {"nil", "empty", "part", "all"} \/ (t = "mcp" /\ got'[t] = "split")
          /\ \A t \in Names : got'[t] = "empty" => t \in Main!Lists
      BY <1>3, <2>2, <2>3, <2>4 DEF RunInv, Sectioned
    <3> QED BY <3>1, <3>2, <3>3, <3>4, <3>5 DEF Sectioned
  <2>6. Seen'
    BY <1>2, <1>4, <2>1, SeenKept DEF Owns, Early
  <2>7. DOMAIN proj' = Main!Eco
    BY <1>4 DEF RunInv, Placed
  <2> QED BY <1>4, <2>1, <2>4, <2>5, <2>6, <2>7, MovesOn
<1> QED BY <1>5, <1>6, <1>7

LEMMA AuditsStep == ASSUME RunInv, Main!Audits PROVE RunInv'
<1>1. Main!Stage("audits") /\ at = 23 /\ kept.end = "no"
  BY Places DEF Main!Audits, RunInv, Placed
<1>2. /\ Moves /\ done' = done /\ log' = log /\ proj' = proj /\ late' \in BOOLEAN /\ (late => late')
      /\ got' = [got EXCEPT !["audits"] = IF late' THEN "part" ELSE "all"]
  <2>1. late \in BOOLEAN /\ late' \in {late, late \/ host.deadline}
    BY DEF Main!Audits, RunInv, Placed
  <2>2. (late \/ host.deadline) \in BOOLEAN /\ (late => (late \/ host.deadline))
    OBVIOUS
  <2>3. late' \in BOOLEAN /\ (late => late')
    <3>1. CASE late' = late
      BY <2>1, <3>1
    <3>2. CASE late' = (late \/ host.deadline)
      BY <2>2, <3>2, Zenon
    <3> QED BY <2>1, <3>1, <3>2
  <2> QED BY <1>1, <2>3 DEF Main!Audits, Main!Go_on, Main!Rest, Moves
<1>3. /\ "audits" \in Names \ Phased /\ \A t \in Names \ {"audits"} : Due[t] # at
      /\ \A t \in Phased \ {"audits"} : "audits" \notin Main!Section[t]
  BY <1>1, Sections DEF Due, Main!Section
<1>4. PICK v \in {"part", "all"} : got' = [got EXCEPT !["audits"] = v]
  BY <1>2
<1>5. Sectioned' /\ got' \in [Names -> Values]
  BY <1>2, <1>3, <1>4, SectionFilled
<1>6. Seen'
  BY <1>1, <1>2, SeenKept
<1>7. DOMAIN proj' = Main!Eco /\ done' \in Seq(Main!Phases)
  BY <1>2 DEF RunInv, Placed
<1> QED BY <1>2, <1>5, <1>6, <1>7, MovesOn

LEMMA TidyStep == ASSUME RunInv, Main!Tidy PROVE RunInv'
<1>1. Main!Stage("tidy") /\ at = 14 /\ kept.end = "no"
  BY Places DEF Main!Tidy, RunInv, Placed
<1>2. /\ Moves /\ done' = done /\ log' = log /\ proj' = proj /\ late' = late
      /\ got' = [s \in DOMAIN got |-> IF s \in Main!Lists /\ got[s] = "nil" THEN "empty" ELSE got[s]]
  BY <1>1 DEF Main!Tidy, Main!Go_on, Main!Rest, Moves
<1>3. /\ \A t \in Names : Due[t] = at => t \in Main!Lists
      /\ Main!Lists \subseteq Names /\ "plugins" \in Names \ Main!Lists /\ "mcp" \in Names \ Main!Lists
  BY <1>1, Sections DEF Due, Main!Lists
<1>4. /\ got' \in [Names -> Values]
      /\ \A s \in Names : got'[s] = IF s \in Main!Lists /\ got[s] = "nil" THEN "empty" ELSE got[s]
  <2>1. got \in [Names -> Values] /\ "empty" \in Values
    BY DEF RunInv, Placed, Values
  <2> QED BY <1>2, <2>1
<1>5. Sectioned'
  <2>1. \A t \in Names : got'[t] = "nil" => at' <= Due[t]
    BY <1>2, <1>3, <1>4, Sections DEF RunInv, Sectioned, Moves
  <2>2. \A t \in Phased : got'[t] \in {"nil", "empty"} <=> Main!Section[t] \cap Marked(done') = {}
    BY <1>2, <1>4, Sections DEF RunInv, Sectioned
  <2>3. \A t \in Names \ {"audits"} : got'[t] = "part" => Main!Section[t] \cap log' # {} \/ Excused(t)'
    BY <1>2, <1>4, ExcusedKept DEF RunInv, Sectioned, Moves
  <2>4. /\ \A t \in Names : got'[t] \in {"nil", "empty", "part", "all"} \/ (t = "mcp" /\ got'[t] = "split")
        /\ \A t \in Names : got'[t] = "empty" => t \in Main!Lists
    BY <1>4 DEF RunInv, Sectioned
  <2>5. got'["mcp"] = "split" => got'["plugins"] # "nil"
    BY <1>3, <1>4 DEF RunInv, Sectioned
  <2> QED BY <2>1, <2>2, <2>3, <2>4, <2>5 DEF Sectioned
<1>6. Seen'
  BY <1>1, <1>2, SeenKept
<1>7. DOMAIN proj' = Main!Eco /\ done' \in Seq(Main!Phases) /\ late' \in BOOLEAN
  BY <1>2 DEF RunInv, Placed
<1> QED BY <1>2, <1>4, <1>5, <1>6, <1>7, MovesOn

\* The scan of the projects of one ecosystem, with the globals beside them.
GlobalsOf(e) == IF e = "npm" THEN "nodeGlobals" ELSE "pythonGlobals"
ScannedTo(f) ==
    /\ proj'[f].results \subseteq Main!Reach(f) /\ proj'[f].records \subseteq proj'[f].results
    /\ f = "npm" => proj'[f].records = proj'[f].results
    /\ f \notin host.scanned => proj'[f].results = {}
    /\ at' > PlaceOf(f) /\ f \in host.scanned =>
          /\ Main!Delta => host.known[f] \cap Main!Reach(f) \subseteq proj'[f].discovered
          /\ ScanOf(f) \notin log' =>
                /\ proj'[f].discovered = Main!Reach(f) /\ proj'[f].records = Main!Kept(f, proj'[f].results)
                /\ Main!Capped[f] \notin log' => proj'[f].results = Main!Reach(f) \ host.foreign
LEMMA SeenByScan ==
    ASSUME RunInv, Moves, NEW e \in Main!Eco, at = PlaceOf(e), log \subseteq log', DOMAIN proj' = Main!Eco,
           \A f \in Main!Eco \ {e} : proj'[f] = proj[f], ScannedTo(e)
    PROVE  Seen'
<1>1. host' = host /\ at' = at + 1 /\ Main!Delta' = Main!Delta
  BY DEF Moves, Main!Delta
<1>2. \A f \in Main!Eco \ {e} : at' > PlaceOf(f) => at > PlaceOf(f)
  BY <1>1 DEF PlaceOf, Main!Eco
<1>3. \A f \in Main!Eco \ {e} : ScannedTo(f)
  BY <1>2 DEF RunInv, Seen, ReadWhole, ScannedTo
<1>4. \A f \in Main!Eco : ScannedTo(f)
  BY <1>3
<1> QED BY <1>1, <1>4 DEF Seen, ReadWhole, ScannedTo, Main!Reach, Main!Kept

LEMMA ProjectsStep ==
    ASSUME RunInv, NEW e \in Main!Eco, Main!Projects(ScanOf(e), e, GlobalsOf(e))
    PROVE  RunInv'
<1> DEFINE p == ScanOf(e)
           g == GlobalsOf(e)
<1>1. /\ at = PlaceOf(e) /\ at \in {11, 13} /\ kept.end = "no" /\ p \in Main!Phases \ {"telemetry_upload"}
  <2>1. Main!Stage(p) /\ at \in 1 .. 29
    BY DEF Main!Projects, RunInv, Placed
  <2> QED BY <2>1, Places DEF ScanOf, PlaceOf, Main!Eco
<1>2. /\ g \in Phased \ {"audits"} /\ g \in Names /\ p \in Main!Section[g] /\ \A t \in Names : Due[t] # at
      /\ \A t \in Phased \ {g} : p \notin Main!Section[t]
  BY <1>1, Sections DEF GlobalsOf, ScanOf, Main!Eco, Due, Main!Section
<1>3. Moves
  BY <1>1 DEF Main!Projects, Moves, Main!Go_on, Main!Rest
<1>4. CASE e \notin host.scanned
  <2>1. late' = late /\ done' = done /\ log' = log /\ got' = got /\ proj' = proj
    BY <1>4 DEF Main!Projects, Main!Skip
  <2>2. late' \in BOOLEAN /\ done' \in Seq(Main!Phases) /\ DOMAIN proj' = Main!Eco
    BY <2>1 DEF RunInv, Placed
  <2>3. Sectioned' /\ got' \in [Names -> Values]
    BY <1>2, <1>3, <2>1, SectionsKept
  <2>4. ScannedTo(e)
    BY <1>4, <2>1 DEF RunInv, Seen, ScannedTo
  <2>5. Seen'
    BY <1>1, <1>3, <2>1, <2>2, <2>4, SeenByScan
  <2> QED BY <1>3, <2>1, <2>2, <2>3, <2>5, MovesOn
<1>5. CASE e \in host.scanned
  <2>1. PICK c \in {"sound", "cut", "dead"}, w \in {"sound", "cut", "dead"},
             seen \in SUBSET Main!Reach(e), left \in SUBSET host.excess :
            /\ w = c \/ c = "cut"
            /\ Main!Context(p, c) /\ got' = [got EXCEPT ![g] = Main!Found(c)]
            /\ Main!Ended(p, c, IF left = {} THEN {} ELSE {Main!Capped[e]})
            /\ \E results \in SUBSET ((seen \ left) \ host.foreign), records \in SUBSET seen :
                  /\ records \subseteq Main!Kept(e, results)
                  /\ w = "sound" \/ e = "npm" => records = Main!Kept(e, results)
                  /\ w = "sound" => seen = Main!Reach(e) /\ results = (seen \ left) \ host.foreign
                  /\ proj' = [proj EXCEPT ![e] = [results |-> results, records |-> records,
                                                  discovered |-> Main!Discovered(e, w, seen)]]
    <3>1. PICK c \in {"sound", "cut", "dead"} : \E w \in IF c = "cut" THEN {"sound", "cut"} ELSE {c},
               seen \in SUBSET Main!Reach(e), left \in SUBSET host.excess :
            /\ Main!Context(p, c) /\ got' = [got EXCEPT ![g] = Main!Found(c)]
            /\ left \subseteq seen /\ Main!Ended(p, c, IF left = {} THEN {} ELSE {Main!Capped[e]})
            /\ \E results \in SUBSET ((seen \ left) \ host.foreign), records \in SUBSET seen :
                  /\ records \subseteq Main!Kept(e, results)
                  /\ w = "sound" \/ e = "npm" => records = Main!Kept(e, results)
                  /\ w = "sound" => seen = Main!Reach(e) /\ results = (seen \ left) \ host.foreign
                  /\ proj' = [proj EXCEPT ![e] = [results |-> results, records |-> records,
                                                  discovered |-> Main!Discovered(e, w, seen)]]
      BY <1>5, Zenon DEF Main!Projects
    <3>2. \A w \in IF c = "cut" THEN {"sound", "cut"} ELSE {c} : w \in {"sound", "cut", "dead"} /\ (w = c \/ c = "cut")
      OBVIOUS
    <3>3. PICK w \in IF c = "cut" THEN {"sound", "cut"} ELSE {c},
               seen \in SUBSET Main!Reach(e), left \in SUBSET host.excess :
            /\ Main!Context(p, c) /\ got' = [got EXCEPT ![g] = Main!Found(c)]
            /\ left \subseteq seen /\ Main!Ended(p, c, IF left = {} THEN {} ELSE {Main!Capped[e]})
            /\ \E results \in SUBSET ((seen \ left) \ host.foreign), records \in SUBSET seen :
                  /\ records \subseteq Main!Kept(e, results)
                  /\ w = "sound" \/ e = "npm" => records = Main!Kept(e, results)
                  /\ w = "sound" => seen = Main!Reach(e) /\ results = (seen \ left) \ host.foreign
                  /\ proj' = [proj EXCEPT ![e] = [results |-> results, records |-> records,
                                                  discovered |-> Main!Discovered(e, w, seen)]]
      BY <3>1, Zenon
    <3> QED BY <3>2, <3>3, Zenon
  <2>2. PICK results \in SUBSET ((seen \ left) \ host.foreign), records \in SUBSET seen :
            /\ records \subseteq Main!Kept(e, results)
            /\ w = "sound" \/ e = "npm" => records = Main!Kept(e, results)
            /\ w = "sound" => seen = Main!Reach(e) /\ results = (seen \ left) \ host.foreign
            /\ proj' = [proj EXCEPT ![e] = [results |-> results, records |-> records,
                                            discovered |-> Main!Discovered(e, w, seen)]]
    BY <2>1
  <2> HIDE DEF p, g
  <2>3. /\ late' \in BOOLEAN /\ (late => late') /\ done' \in Seq(Main!Phases) /\ Marked(done') = Marked(done) \cup {p}
        /\ log \subseteq log' /\ (c # "sound" => p \in log') /\ (left # {} => Main!Capped[e] \in log')
    BY <1>1, <2>1, WorkRecorded
  <2>4. Main!Found(c) \in {"part", "all"} /\ (Main!Found(c) = "part" => Main!Section[g] \cap log' # {})
    BY <1>2, <2>3 DEF Main!Found
  <2>5. Sectioned' /\ got' \in [Names -> Values]
    <3>1. PICK v \in {"part", "all"} : got' = [got EXCEPT ![g] = v] /\ (v = "part" => Main!Section[g] \cap log' # {})
      BY <2>1, <2>4
    <3> QED BY <1>2, <1>3, <2>3, <3>1, SectionFilled
  <2>6. /\ DOMAIN proj' = Main!Eco /\ \A f \in Main!Eco \ {e} : proj'[f] = proj[f]
        /\ proj'[e].results = results /\ proj'[e].records = records
        /\ proj'[e].discovered = Main!Discovered(e, w, seen)
    BY <2>2 DEF RunInv, Placed
  <2>7. ScannedTo(e)
    <3>1. results \subseteq Main!Reach(e) /\ Main!Kept(e, results) \subseteq results
      BY <2>2 DEF Main!Kept
    <3>2. w = "sound" => Main!Discovered(e, w, seen) = Main!Reach(e)
      BY <2>2 DEF Main!Discovered
    <3>3. w # "sound" /\ Main!Delta => host.known[e] \subseteq Main!Discovered(e, w, seen)
      BY DEF Main!Discovered
    <3>4. p \notin log' => w = "sound"
      BY <2>1, <2>3
    <3>5. w = "sound" /\ Main!Capped[e] \notin log' => results = Main!Reach(e) \ host.foreign
      BY <2>2, <2>3
    <3>6. e = "npm" => Main!Kept(e, results) = results
      BY DEF Main!Kept
    <3>7. p = ScanOf(e)
      BY DEF p
    <3> QED BY <1>5, <2>2, <2>6, <3>1, <3>2, <3>3, <3>4, <3>5, <3>6, <3>7 DEF ScannedTo
  <2>8. Seen'
    BY <1>1, <1>3, <2>3, <2>6, <2>7, SeenByScan
  <2> QED BY <1>1, <1>3, <2>3, <2>5, <2>6, <2>8, MovesOn
<1> QED BY <1>4, <1>5

\* What is sent of the projects depends on the machine and its projects alone.
LEMMA Frozen ==
    ASSUME host' = host, proj' = proj
    PROVE  /\ Main!Delta' = Main!Delta
           /\ \A e \in Main!Eco : /\ Main!Bodies(e)' = Main!Bodies(e) /\ Main!Refs(e)' = Main!Refs(e)
                                 /\ Main!Removed(e)' = Main!Removed(e) /\ Main!Metrics(e)' = Main!Metrics(e)
BY DEF Main!Bodies, Main!Refs, Main!Sent, Main!Removed, Main!Metrics, Main!Delta

\* A run that ends early, or is only told that its time is up.
Halts(how) == kept.end = "no" /\ kept' = [kept EXCEPT !.end = how] /\ how \in Ends \ {"no", "done"}
LEMMA StaysOrEnds ==
    ASSUME RunInv, late' \in BOOLEAN, late => late',
           UNCHANGED <<host, at, done, log, got, proj, snap, payload, out>>,
           kept' = kept \/ (\E how \in Ends : Halts(how)),
           Main!DeadlineOnlyCuts'
    PROVE  RunInv'
<1>1. /\ host' = host /\ at' = at /\ done' = done /\ log' = log /\ got' = got /\ proj' = proj /\ snap' = snap
      /\ payload' = payload /\ out' = out
  OBVIOUS
<1>2. /\ kept' \in [baseline : {"old", "void", "stuck", "new"}, stamped : BOOLEAN, end : Ends]
      /\ kept'.baseline = kept.baseline /\ kept'.stamped = kept.stamped
      /\ kept'.end = kept.end \/ (kept.end = "no" /\ kept'.end \notin {"no", "done"})
  BY DEF RunInv, Placed, Halts
<1>3. Placed'
  BY <1>1, <1>2 DEF RunInv, Placed
<1>4. Sectioned'
  BY <1>1, ExcusedKept DEF RunInv, Sectioned
<1>5. Seen'
  BY <1>1, SeenStays DEF RunInv
<1>6. Sealed'
  <2>1. kept'.end = "no" => kept.end = "no"
    BY <1>2
  <2> QED BY <1>1, <2>1, Frozen DEF RunInv, Sealed, Logged
<1>7. Delivered'
  <2>1. Main!Delta' = Main!Delta
    BY <1>1 DEF Main!Delta
  <2> QED BY <1>1, <1>2, <2>1 DEF RunInv, Delivered
<1> QED BY <1>3, <1>4, <1>5, <1>6, <1>7 DEF RunInv

LEMMA ExpireStep == ASSUME RunInv, Main!Expire PROVE RunInv'
<1>1. /\ late' = TRUE /\ kept' = kept /\ host' = host
      /\ UNCHANGED <<host, at, done, log, got, proj, snap, payload, out>>
  BY DEF Main!Expire, Main!Rest
<1>2. Main!DeadlineOnlyCuts'
  BY <1>1 DEF RunInv, Main!DeadlineOnlyCuts, Main!Given, Main!Budgeted
<1> QED BY <1>1, <1>2, StaysOrEnds

LEMMA PanicStep == ASSUME RunInv, Main!Panic PROVE RunInv'
<1>1. /\ late' = late /\ host' = host /\ UNCHANGED <<host, at, done, log, got, proj, snap, payload, out>>
      /\ Halts("panicked") /\ host.mishap = "panic" /\ late \in BOOLEAN
  BY DEF Main!Panic, Main!End, Halts, Ends, RunInv, Placed
<1>2. "panicked" \in Ends /\ kept'.end = "panicked"
  BY <1>1 DEF Ends, Halts, RunInv, Placed
<1>3. Main!DeadlineOnlyCuts'
  BY <1>1, <1>2 DEF Main!DeadlineOnlyCuts, Main!Given, Main!Budgeted
<1> QED BY <1>1, <1>2, <1>3, StaysOrEnds

LEMMA KillStep == ASSUME RunInv, Main!Kill PROVE RunInv'
<1>1. /\ late' = late /\ host' = host /\ UNCHANGED <<host, at, done, log, got, proj, snap, payload, out>>
      /\ Halts("killed") /\ late \in BOOLEAN
  BY DEF Main!Kill, Main!End, Halts, Ends, RunInv, Placed
<1>2. "killed" \in Ends /\ kept'.end = "killed"
  BY <1>1 DEF Ends, Halts, RunInv, Placed
<1>3. Main!DeadlineOnlyCuts'
  BY <1>1, <1>2 DEF Main!DeadlineOnlyCuts, Main!Given, Main!Budgeted
<1> QED BY <1>1, <1>2, <1>3, StaysOrEnds

LEMMA AcquireLockStep == ASSUME RunInv, Main!AcquireLock PROVE RunInv'
<1>1. Main!Stage("lock") /\ at = 1 /\ kept.end = "no" /\ late \in BOOLEAN
  BY Places DEF Main!AcquireLock, RunInv, Placed
<1>2. CASE host.locked
  <2>1. /\ late' = late /\ host' = host /\ UNCHANGED <<host, at, done, log, got, proj, snap, payload, out>>
        /\ Halts("refused")
    BY <1>1, <1>2 DEF Main!AcquireLock, Main!End, Halts, Ends
  <2>2. "refused" \in Ends /\ kept'.end = "refused"
    BY <2>1 DEF Ends, Halts, RunInv, Placed
  <2>3. Main!DeadlineOnlyCuts'
    BY <2>1, <2>2 DEF Main!DeadlineOnlyCuts, Main!Given, Main!Budgeted
  <2> QED BY <1>1, <2>1, <2>2, <2>3, StaysOrEnds
<1>3. CASE ~host.locked
  <2>1. Keeps("lock")
    BY <1>1, <1>3, Sections DEF Main!AcquireLock, Keeps, Early, Due, Passes, Main!Go_on, Main!Rest, Main!Skip
  <2> QED BY <2>1, PhaseKeeps
<1> QED BY <1>2, <1>3

LEMMA DeviceInfoStep == ASSUME RunInv, Main!DeviceInfo PROVE RunInv'
<1>1. Main!Stage("device_info") /\ at = 3 /\ kept.end = "no" /\ late \in BOOLEAN
  BY Places DEF Main!DeviceInfo, RunInv, Placed
<1>2. PICK c \in {"sound", "cut", "dead"} :
          /\ Main!Context("device_info", c)
          /\ IF host.guest \/ Main!Answers(c) \/ (host.id # "none" /\ ~late')
             THEN Main!endPhase("device_info", c) /\ Main!Go_on /\ UNCHANGED kept
             ELSE Main!End("nameless") /\ UNCHANGED <<done, log>>
  BY DEF Main!DeviceInfo
<1>3. UNCHANGED <<got, proj, snap, payload, out>>
  BY DEF Main!DeviceInfo
<1>4. CASE host.guest \/ Main!Answers(c) \/ (host.id # "none" /\ ~late')
  <2>1. Main!endPhase("device_info", c) /\ Main!Go_on /\ UNCHANGED kept
    BY <1>2, <1>4
  <2>2. Early /\ (\A t \in Names : Due[t] # at) /\ \A t \in Phased : "device_info" \notin Main!Section[t]
    BY <1>1, Sections DEF Early, Due, Main!Section
  <2>3. Passes("device_info")
    BY <1>1, <1>3, <2>1 DEF Passes, Main!Rest
  <2>4. Keeps("device_info")
    BY <1>2, <1>3, <2>1, <2>2, <2>3 DEF Keeps
  <2> QED BY <2>4, PhaseKeeps
<1>5. CASE ~(host.guest \/ Main!Answers(c) \/ (host.id # "none" /\ ~late'))
  <2>1. Main!End("nameless") /\ UNCHANGED <<done, log>>
    BY <1>2, <1>5
  <2>2. late' \in BOOLEAN /\ (late => late')
    <3>1. Main!Context("device_info", c)
      BY <1>2
    <3> QED BY <1>1, <3>1 DEF Main!Context
  <2>3. Halts("nameless") /\ host' = host /\ UNCHANGED <<host, at, done, log, got, proj, snap, payload, out>>
    BY <1>1, <1>3, <2>1 DEF Main!End, Halts, Ends
  <2>4. "nameless" \in Ends /\ kept'.end = "nameless"
    BY <2>3 DEF Ends, Halts, RunInv, Placed
  <2>5. Main!DeadlineOnlyCuts'
    BY <1>5, <2>2, <2>3, <2>4 DEF Main!DeadlineOnlyCuts, Main!Given, Main!Budgeted
  <2> QED BY <2>2, <2>3, <2>4, <2>5, StaysOrEnds
<1> QED BY <1>4, <1>5

-----------------------------------------------------------------------------
\* Once the scan is over the sections and the projects stay as they are.
LEMMA AfterScan ==
    ASSUME RunInv, at \in 24 .. 28, at' \in {at, at + 1}, host' = host, got' = got, proj' = proj, log \subseteq log',
           Marked(done') = Marked(done) \/ Marked(done') = Marked(done) \cup {"telemetry_upload"}
    PROVE  Sectioned' /\ Seen'
<1>1. \A t \in Names : got'[t] = "nil" => at' <= Due[t]
  <2>1. \A t \in Names : Due[t] = 29 \/ Due[t] < 24
    BY Sections DEF Due
  <2>2. \A t \in Names : got[t] = "nil" => Due[t] = 29
    BY <2>1, Sections DEF RunInv, Sectioned
  <2> QED BY <2>2
<1>2. \A t \in Phased : got'[t] \in {"nil", "empty"} <=> Main!Section[t] \cap Marked(done') = {}
  <2>1. \A t \in Phased : "telemetry_upload" \notin Main!Section[t]
    BY Sections DEF Main!Section
  <2> QED BY <2>1 DEF RunInv, Sectioned
<1>3. \A t \in Names \ {"audits"} : got'[t] = "part" => Main!Section[t] \cap log' # {} \/ Excused(t)'
  BY ExcusedKept DEF RunInv, Sectioned
<1>4. Sectioned'
  BY <1>1, <1>2, <1>3 DEF RunInv, Sectioned
<1>5. Seen'
  <2>1. \A e \in Main!Eco : at > PlaceOf(e)
    BY DEF PlaceOf
  <2> QED BY <2>1, SeenStays DEF RunInv
<1> QED BY <1>4, <1>5

LEMMA SnapshotStep == ASSUME RunInv, Main!Snapshot PROVE RunInv'
<1>1. Main!Stage("snapshot") /\ at = 24 /\ kept.end = "no"
  BY Places DEF Main!Snapshot, RunInv, Placed
<1>2. /\ at' = 25 /\ host' = host /\ log' = log \cup {"usage"} /\ snap' = [status |-> done, log |-> log']
      /\ late' = late /\ done' = done /\ got' = got /\ proj' = proj /\ payload' = payload /\ out' = out /\ kept' = kept
  BY <1>1 DEF Main!Snapshot, Main!Go_on, Main!Captured
<1>3. Sectioned' /\ Seen'
  BY <1>1, <1>2, AfterScan
<1>4. Placed'
  BY <1>2 DEF RunInv, Placed
<1>5. Sealed'
  <2>1. out = "none" /\ "telemetry_upload" \notin Marked(done)
    BY <1>1 DEF RunInv, Sealed
  <2>2. /\ Marked(snap'.status) = Marked(done') \ {"telemetry_upload"} /\ Logged' /\ "usage" \in log'
    BY <1>2, <2>1 DEF Logged
  <2> QED BY <1>2, <2>1, <2>2 DEF Sealed
<1>6. Delivered'
  BY <1>1, <1>2 DEF RunInv, Delivered
<1>7. Main!DeadlineOnlyCuts'
  BY <1>2 DEF RunInv, Main!DeadlineOnlyCuts, Main!Given, Main!Budgeted
<1> QED BY <1>3, <1>4, <1>5, <1>6, <1>7 DEF RunInv

LEMMA AssembleStep == ASSUME RunInv, Main!Assemble PROVE RunInv'
<1>1. Main!Stage("assemble") /\ at = 25 /\ kept.end = "no"
  BY Places DEF Main!Assemble, RunInv, Placed
<1>2. /\ at' = 26 /\ host' = host /\ out' = "ready"
      /\ late' = late /\ done' = done /\ log' = log /\ got' = got /\ proj' = proj /\ snap' = snap /\ kept' = kept
      /\ payload' = [status |-> snap.status, log |-> snap.log, sections |-> got,
                     bodies |-> [e \in Main!Eco |-> Main!Bodies(e)], refs |-> [e \in Main!Eco |-> Main!Refs(e)],
                     removed |-> [e \in Main!Eco |-> Main!Removed(e)],
                     count |-> [e \in Main!Eco |-> Main!Metrics(e)]]
  BY <1>1 DEF Main!Assemble, Main!Go_on
<1>3. Sectioned' /\ Seen'
  BY <1>1, <1>2, AfterScan
<1>4. Placed'
  BY <1>2 DEF RunInv, Placed
<1>5. Sealed'
  <2>1. /\ "telemetry_upload" \notin Marked(done)
        /\ Marked(snap.status) = Marked(done) \ {"telemetry_upload"} /\ Logged /\ "usage" \in log
    BY <1>1 DEF RunInv, Sealed
  <2>2. Logged' /\ "usage" \in log'
    BY <1>2, <2>1 DEF Logged
  <2> QED BY <1>2, <2>1, <2>2, Frozen DEF Sealed
<1>6. Delivered'
  BY <1>1, <1>2 DEF RunInv, Delivered
<1>7. Main!DeadlineOnlyCuts'
  BY <1>2 DEF RunInv, Main!DeadlineOnlyCuts, Main!Given, Main!Budgeted
<1> QED BY <1>3, <1>4, <1>5, <1>6, <1>7 DEF RunInv

\* Once there is a payload, only the tracker and the records move.
LEMMA AfterPayload ==
    ASSUME RunInv, at \in 26 .. 28, at' \in {at, at + 1}, UNCHANGED <<host, late, got, proj, snap, payload>>,
           log \subseteq log', log' \subseteq log \cup {"telemetry_upload"},
           \/ done' = done
           \/ at = 27 /\ done' = Append(done, "telemetry_upload") /\ (at' = 28 \/ kept'.end # "no"),
           out' # "none", Placed', Delivered', Main!DeadlineOnlyCuts',
           kept'.end = "no" => kept.end = "no"
    PROVE  RunInv'
<1>1. "telemetry_upload" \in Main!Phases /\ done \in Seq(Main!Phases)
  BY DEF Main!Phases, RunInv, Placed
<1>2. /\ Marked(done') = Marked(done) \/ Marked(done') = Marked(done) \cup {"telemetry_upload"}
      /\ Marked(done') # Marked(done) => at' = 28 \/ kept'.end # "no"
  BY <1>1, Marks
<1>3. Sectioned' /\ Seen'
  BY <1>2, AfterScan
<1>4. Sealed'
  <2>1. /\ Marked(snap.status) = Marked(done) \ {"telemetry_upload"} /\ Logged /\ "usage" \in log
        /\ at <= 27 /\ kept.end = "no" => "telemetry_upload" \notin Marked(done)
        /\ payload = [status |-> snap.status, log |-> snap.log, sections |-> got,
                      bodies |-> [e \in Main!Eco |-> Main!Bodies(e)], refs |-> [e \in Main!Eco |-> Main!Refs(e)],
                      removed |-> [e \in Main!Eco |-> Main!Removed(e)],
                      count |-> [e \in Main!Eco |-> Main!Metrics(e)]]
    BY DEF RunInv, Sealed
  <2>2. Marked(snap'.status) = Marked(done') \ {"telemetry_upload"}
    BY <1>2, <2>1
  <2>3. at' <= 27 /\ kept'.end = "no" => "telemetry_upload" \notin Marked(done')
    BY <1>2, <2>1
  <2>4. Logged' /\ "usage" \in log'
    BY <2>1 DEF Logged
  <2> QED BY <2>1, <2>2, <2>3, <2>4, Frozen DEF Sealed
<1> QED BY <1>3, <1>4 DEF RunInv

LEMMA InvalidateBaselineStep == ASSUME RunInv, Main!InvalidateBaseline PROVE RunInv'
<1>1. Main!Stage("invalidate") /\ at = 26 /\ kept.end = "no"
  BY Places DEF Main!InvalidateBaseline, RunInv, Placed
<1>2. /\ at' = 27 /\ host' = host /\ UNCHANGED <<host, late, log, got, proj, snap, payload>> /\ done' = done /\ out' = out
      /\ \/ (Main!Delta \/ ~host.home) /\ kept' = kept
         \/ ~Main!Delta /\ host.home /\ kept' = [kept EXCEPT !.baseline = "void"]
         \/ ~Main!Delta /\ host.home /\ host.readonly /\ kept' = [kept EXCEPT !.baseline = "stuck"]
  BY <1>1 DEF Main!InvalidateBaseline, Main!Go_on
<1>3. /\ kept'.end = kept.end /\ kept'.stamped = kept.stamped /\ (kept'.baseline = "new" => kept.baseline = "new")
      /\ kept' \in [baseline : {"old", "void", "stuck", "new"}, stamped : BOOLEAN, end : Ends]
      /\ ~Main!Delta /\ host.home => kept'.baseline = "void" \/ (host.readonly /\ kept'.baseline = "stuck")
  BY <1>2 DEF RunInv, Placed
<1>4. Placed'
  BY <1>1, <1>2, <1>3 DEF RunInv, Placed
<1>5. Delivered'
  <2>1. Main!Delta' = Main!Delta
    BY <1>2 DEF Main!Delta
  <2>2. kept.baseline # "new" /\ ~kept.stamped /\ out \in {"none", "ready"}
    BY <1>1 DEF RunInv, Delivered
  <2> QED BY <1>1, <1>2, <1>3, <2>1, <2>2 DEF Delivered
<1>6. Main!DeadlineOnlyCuts'
  BY <1>1, <1>2, <1>3 DEF RunInv, Main!DeadlineOnlyCuts, Main!Given, Main!Budgeted
<1>7. out' # "none"
  BY <1>1, <1>2 DEF RunInv, Sealed
<1> QED BY <1>1, <1>2, <1>3, <1>4, <1>5, <1>6, <1>7, AfterPayload

LEMMA DeliveryStep == ASSUME RunInv, Main!writeTelemetryFile \/ Main!Upload PROVE RunInv'
<1>1. Main!Stage("deliver") /\ at = 27 /\ kept.end = "no"
  BY Places DEF Main!writeTelemetryFile, Main!Upload, RunInv, Placed
<1>2. /\ kept.baseline # "new" /\ ~kept.stamped /\ out = "ready"
      /\ ~Main!Delta /\ host.home => kept.baseline = "void" \/ (host.readonly /\ kept.baseline = "stuck")
  BY <1>1 DEF RunInv, Delivered, Sealed
<1>3. /\ UNCHANGED <<host, late, got, proj, snap, payload>> /\ host' = host
      /\ log \subseteq log' /\ log' \subseteq log \cup {"telemetry_upload"}
      /\ done' = done \/ done' = Append(done, "telemetry_upload")
      /\ \/ at' = 28 /\ kept' = kept /\ out' \in {"dumped", "accepted", "queued", "rejected"}
         \/ at' = 27 /\ kept' = [kept EXCEPT !.end = "undumped"] /\ out' = out
         \/ at' = 27 /\ kept' = [kept EXCEPT !.end = "failed"] /\ out' \in {"lost", "unsent"} /\ host.offline
         \/ /\ at' = 27 /\ kept' = [kept EXCEPT !.end = "overdue"] /\ out' \in {"lost", "unsent"}
            /\ Main!Budgeted("telemetry_upload")
  <2>1. CASE Main!writeTelemetryFile
    BY <1>1, <2>1 DEF Main!writeTelemetryFile, Main!Go_on, Main!End
  <2>2. CASE Main!Upload
    <3>1. \E c \in {"sound", "cut"} : Main!endPhase("telemetry_upload", c)
      BY <2>2 DEF Main!Upload
    <3>2. /\ done' = Append(done, "telemetry_upload")
          /\ log \subseteq log' /\ log' \subseteq log \cup {"telemetry_upload"}
      BY <3>1 DEF Main!endPhase, Main!Ended, Main!Exceeded
    <3>3. UNCHANGED <<host, late, got, proj, snap, payload>> /\ host' = host
      BY <2>2 DEF Main!Upload, Main!Go_on, Main!End
    <3>4. \/ at' = 28 /\ kept' = kept /\ out' \in {"dumped", "accepted", "queued", "rejected"}
          \/ at' = 27 /\ kept' = [kept EXCEPT !.end = "failed"] /\ out' \in {"lost", "unsent"} /\ host.offline
          \/ /\ at' = 27 /\ kept' = [kept EXCEPT !.end = "overdue"] /\ out' \in {"lost", "unsent"}
             /\ Main!Budgeted("telemetry_upload")
      BY <1>1, <2>2 DEF Main!Upload, Main!Go_on, Main!End, Main!Expired
    <3> QED BY <3>2, <3>3, <3>4
  <2> QED BY <2>1, <2>2
<1>4. /\ kept'.baseline = kept.baseline /\ kept'.stamped = kept.stamped /\ at' \in {27, 28}
      /\ kept'.end = "no" <=> at' = 28
      /\ kept'.end \in {"no", "undumped", "failed", "overdue"} /\ (kept'.end = "failed" => host.offline)
      /\ kept'.end = "overdue" => Main!Budgeted("telemetry_upload") /\ out' # "none"
      /\ kept' \in [baseline : {"old", "void", "stuck", "new"}, stamped : BOOLEAN, end : Ends]
  BY <1>1, <1>3 DEF RunInv, Placed, Ends
<1>5. Placed'
  <2>1. done' \in Seq(Main!Phases)
    BY <1>3, Marks DEF RunInv, Placed, Main!Phases
  <2> QED BY <1>2, <1>3, <1>4, <2>1 DEF RunInv, Placed
<1>6. Delivered'
  <2>1. Main!Delta' = Main!Delta
    BY <1>3 DEF Main!Delta
  <2> QED BY <1>2, <1>3, <1>4, <2>1 DEF Delivered
<1>7. Main!DeadlineOnlyCuts'
  BY <1>2, <1>3, <1>4 DEF Main!DeadlineOnlyCuts, Main!Given, Main!Budgeted
<1>8. out' # "none"
  BY <1>2, <1>3
<1> QED BY <1>1, <1>3, <1>4, <1>5, <1>6, <1>7, <1>8, AfterPayload

LEMMA SettleStep == ASSUME RunInv, Main!Settle PROVE RunInv'
<1>1. Main!Stage("settle") /\ at = 28 /\ kept.end = "no"
  BY Places DEF Main!Settle, RunInv, Placed
<1>2. /\ kept.baseline # "new" /\ ~kept.stamped /\ out \in {"dumped", "accepted", "queued", "rejected"}
      /\ ~Main!Delta /\ host.home => kept.baseline = "void" \/ (host.readonly /\ kept.baseline = "stuck")
  BY <1>1 DEF RunInv, Delivered
<1>3. UNCHANGED <<host, late, log, got, proj, snap, payload>> /\ done' = done /\ at' = at /\ out' = out /\ host' = host
  BY DEF Main!Settle
<1>4. PICK saved \in {TRUE, ~host.readonly}, stamped \in {TRUE, ~host.readonly} :
          kept' = [baseline |-> IF saved /\ Main!Advances THEN "new" ELSE kept.baseline,
                   stamped |-> stamped, end |-> "done"]
  BY DEF Main!Settle
<1>5. /\ kept'.end = "done" /\ kept' \in [baseline : {"old", "void", "stuck", "new"}, stamped : BOOLEAN, end : Ends]
      /\ kept'.baseline = kept.baseline \/ (kept'.baseline = "new" /\ Main!Advances)
  <2>1. stamped \in BOOLEAN
    OBVIOUS
  <2> QED BY <1>4, <2>1 DEF RunInv, Placed, Ends
<1>6. Placed'
  BY <1>3, <1>5 DEF RunInv, Placed
<1>7. Delivered'
  <2>1. Main!Delta' = Main!Delta /\ (Main!Advances => Main!Delta /\ out # "rejected")
    BY <1>3 DEF Main!Delta, Main!Advances
  <2> QED BY <1>1, <1>2, <1>3, <1>5, <2>1 DEF Delivered
<1>8. Main!DeadlineOnlyCuts'
  BY <1>5 DEF Main!DeadlineOnlyCuts, Main!Given, Main!Budgeted
<1>9. out' # "none"
  BY <1>2, <1>3
<1> QED BY <1>1, <1>3, <1>5, <1>6, <1>7, <1>8, <1>9, AfterPayload

-----------------------------------------------------------------------------
LEMMA RunInit == ASSUME Main!Init PROVE RunInv
<1> USE DEF Main!Init
<1>1. Placed
  <2>1. <<>> \in Seq(Main!Phases)
    OBVIOUS
  <2>2. got \in [Names -> Values] /\ DOMAIN proj = Main!Eco
    <3>1. got = [s \in Names |-> "nil"] /\ "nil" \in Values /\ DOMAIN proj = Main!Eco
      BY DEF Names, Values
    <3> QED BY <3>1
  <2>3. kept \in [baseline : {"old", "void", "stuck", "new"}, stamped : BOOLEAN, end : Ends]
    BY DEF Ends
  <2>4. host \in Runs /\ at = 1 /\ late \in BOOLEAN /\ done \in Seq(Main!Phases) /\ out = "none"
    BY <2>1
  <2> HIDE DEF Main!Init
  <2> QED BY <2>2, <2>3, <2>4 DEF Placed
<1>2. Marked(done) = {} /\ at = 1 /\ \A s \in Names : got[s] = "nil"
  BY DEF Marked, Names
<1>3. Sectioned
  <2>1. \A s \in Names : Due[s] \in 1 .. 29
    BY Sections
  <2>2. "mcp" \in Names /\ Phased \subseteq Names
    BY Sections
  <2> HIDE DEF Main!Init
  <2> QED BY <1>2, <2>1, <2>2 DEF Sectioned
<1>4. Seen
  <2>1. at = 1 /\ \A e \in Main!Eco : proj[e].results = {} /\ proj[e].records = {}
    BY DEF Main!Nothing
  <2>2. \A e \in Main!Eco : ~(at > PlaceOf(e))
    BY <2>1 DEF PlaceOf
  <2> HIDE DEF Main!Init
  <2> QED BY <2>1, <2>2 DEF Seen
<1>5. Sealed
  BY <1>2 DEF Sealed
<1>6. Delivered
  BY DEF Delivered
<1>7. Main!DeadlineOnlyCuts
  BY DEF Main!DeadlineOnlyCuts, Main!Given, Main!Budgeted
<1> QED BY <1>1, <1>3, <1>4, <1>5, <1>6, <1>7 DEF RunInv

LEMMA RunStep == ASSUME Main!RunAssumption, RunInv, [Main!Next]_Main!vars PROVE RunInv'
<1>1. CASE UNCHANGED Main!vars
  <2>1. /\ UNCHANGED <<host, at, done, log, got, proj, snap, payload, out>> /\ late' = late /\ kept' = kept /\ host' = host
        /\ late \in BOOLEAN
    BY <1>1 DEF Main!vars, RunInv, Placed
  <2>2. Main!DeadlineOnlyCuts'
    BY <2>1 DEF RunInv, Main!DeadlineOnlyCuts, Main!Given, Main!Budgeted
  <2> QED BY <2>1, <2>2, StaysOrEnds
<1>2. CASE Main!Python
  <2>1. "python" \in Main!Eco /\ Main!Projects(ScanOf("python"), "python", GlobalsOf("python"))
    BY <1>2 DEF Main!Python, Main!Eco, ScanOf, GlobalsOf
  <2> QED BY <2>1, ProjectsStep
<1>3. CASE Main!Node
  <2>1. "npm" \in Main!Eco /\ Main!Projects(ScanOf("npm"), "npm", GlobalsOf("npm"))
    BY <1>3 DEF Main!Node, Main!Eco, ScanOf, GlobalsOf
  <2> QED BY <2>1, ProjectsStep
<1> QED BY <1>1, <1>2, <1>3, ExpireStep, PanicStep, KillStep, AcquireLockStep, SchedulerInfoStep, DeviceInfoStep, WSLStep,
           IDEsStep, ExtensionsStep, AIToolsStep, MCPConfigsStep, MaliciousFilesStep, BrewStep, SystemPackagesStep, TidyStep,
           SkillsStep, PluginsStep, collectCredentialsStep, BrowserExtensionsStep, GoModulesStep, CargoStep, ComposerStep,
           NuGetStep, AuditsStep, SnapshotStep, AssembleStep, InvalidateBaselineStep, DeliveryStep, SettleStep
        DEF Main!Next

\* The inductive invariant gives what is claimed of the payload.
LEMMA PayloadIs ==
    ASSUME RunInv, Main!Given
    PROVE  /\ at \in 26 .. 29 /\ payload.sections = got /\ "usage" \in payload.log
           /\ \A p : p # "telemetry_upload" => (p \in payload.log <=> p \in log)
           /\ Marked(payload.status) = Marked(done) \ {"telemetry_upload"}
           /\ \A p : Main!Recorded(p) <=> p \in Marked(done) \ {"telemetry_upload"}
           /\ \A e \in Main!Eco : /\ payload.bodies[e] = Main!Bodies(e) /\ payload.refs[e] = Main!Refs(e)
                                  /\ payload.removed[e] = Main!Removed(e) /\ payload.count[e] = Main!Metrics(e)
<1>1. at \in 26 .. 29
  BY DEF RunInv, Placed, Sealed, Main!Given
<1>2. /\ payload = [status |-> snap.status, log |-> snap.log, sections |-> got,
                    bodies |-> [e \in Main!Eco |-> Main!Bodies(e)], refs |-> [e \in Main!Eco |-> Main!Refs(e)],
                    removed |-> [e \in Main!Eco |-> Main!Removed(e)],
                    count |-> [e \in Main!Eco |-> Main!Metrics(e)]]
      /\ Logged /\ "usage" \in log /\ Marked(snap.status) = Marked(done) \ {"telemetry_upload"}
  BY <1>1 DEF RunInv, Sealed
<1>3. \A p : Main!Recorded(p) <=> p \in Marked(payload.status)
  BY DEF Main!Recorded, Marked
<1>4. "usage" \in payload.log /\ \A p : p # "telemetry_upload" => (p \in payload.log <=> p \in log)
  BY <1>2 DEF Logged
<1> QED BY <1>1, <1>2, <1>3, <1>4

LEMMA OmissionsShown == ASSUME RunInv PROVE Main!OmissionsShow
<1> SUFFICES ASSUME Main!Given PROVE Main!OmissionsShow
  BY DEF Main!OmissionsShow
<1> USE PayloadIs
<1>1. \A v : Main!Sections(v) = {s \in Names : got[s] = v}
  BY DEF Main!Sections, Names
<1>2. \A s \in Main!Sections("part") \ {"audits"} :
          Main!Section[s] \cap payload.log # {} \/ (s \in {"skills", "plugins"} /\ Main!Untold # {})
  <2>1. \A s \in Names : "telemetry_upload" \notin Main!Section[s]
    BY Sections DEF Main!Section, Main!Caps, Main!Capped, Main!Eco
  <2> QED BY <1>1, <2>1 DEF RunInv, Sectioned, Excused
<1>3. \A s \in Phased : \A p \in Main!Section[s] : p # "telemetry_upload"
  BY Sections DEF Main!Section
<1>4. \A s \in Phased : got[s] \in {"nil", "empty"} <=> \A p \in Main!Section[s] : ~Main!Recorded(p)
  BY <1>3 DEF RunInv, Sectioned
<1>5. \A s \in Main!Sections("empty") : s \in Main!Lists /\ \A p \in Main!Section[s] : ~Main!Recorded(p)
  BY <1>1, <1>4 DEF RunInv, Sectioned, Phased
<1>6. \A s \in Names : got[s] = "nil" => s \in Main!Optional
  <2>1. \A s \in Names : Due[s] < 26 \/ s \in Main!Optional
    BY Sections DEF Due, Main!Optional
  <2>2. \A s \in Names : Due[s] \in 1 .. 29
    BY Sections
  <2> QED BY <2>1, <2>2 DEF RunInv, Sectioned
<1>7. \A s \in {"rules", "credentials"} : s \in Main!Sections("nil") <=> \A p \in Main!Section[s] : ~Main!Recorded(p)
  <2>1. {"rules", "credentials"} \subseteq Phased \cap Names /\ {"rules", "credentials"} \cap Main!Lists = {}
    BY Sections DEF Main!Lists
  <2>2. \A s \in {"rules", "credentials"} : got[s] # "empty"
    BY <2>1 DEF RunInv, Sectioned
  <2> QED BY <1>1, <1>4, <2>1, <2>2
<1>8. "mcp" \in Main!Sections("split") => "plugins" \notin Main!Sections("nil")
  BY <1>1 DEF RunInv, Sectioned
<1> QED BY <1>1, <1>2, <1>5, <1>6, <1>7, <1>8 DEF Main!OmissionsShow

LEMMA DeltaTold == ASSUME RunInv PROVE Main!DeltaIsTrue
<1> SUFFICES ASSUME Main!Given, NEW e \in Main!Eco
             PROVE  /\ payload.removed[e] \subseteq host.known[e] \ Main!Reach(e)
                    /\ Main!Looked(e) /\ Main!Delta => host.known[e] \ Main!Reach(e) \subseteq payload.removed[e]
                    /\ payload.refs[e] \subseteq host.known[e] \ host.edited
                    /\ payload.refs[e] \cap payload.bodies[e] = {}
                    /\ Main!Looked(e) /\ Main!Capped[e] \notin payload.log
                          => payload.bodies[e] \cup payload.refs[e] = Main!Reach(e) \ Main!Mute(e)
                    /\ e = "npm" \/ ~Main!Delta \/ (Main!Looked(e) /\ host.bare = {})
                          => payload.count[e] = Main!Cardinality(payload.bodies[e] \cup payload.refs[e])
  BY DEF Main!DeltaIsTrue
<1>1. /\ payload.bodies[e] = Main!Bodies(e) /\ payload.refs[e] = Main!Refs(e)
      /\ \A p : p # "telemetry_upload" => (p \in payload.log <=> p \in log)
      /\ payload.removed[e] = Main!Removed(e) /\ payload.count[e] = Main!Metrics(e) /\ at \in 26 .. 29
  BY PayloadIs
<1>2. at > PlaceOf(e) /\ (Main!Capped[e] \in payload.log <=> Main!Capped[e] \in log)
  BY <1>1 DEF PlaceOf, Main!Capped, Main!Eco
<1>3. /\ e \in host.scanned /\ Main!Delta => host.known[e] \cap Main!Reach(e) \subseteq proj[e].discovered
      /\ Main!Looked(e) => e \in host.scanned /\ ReadWhole(e)
      /\ e = "npm" => proj[e].records = proj[e].results
  <2>1. Main!Looked(e) => e \in host.scanned /\ ScanOf(e) \notin log
    BY <1>1 DEF Main!Looked, ScanOf
  <2> QED BY <1>2, <2>1 DEF RunInv, Seen
<1>4. Main!Bodies(e) \cup Main!Refs(e) = Main!Sent(e) /\ Main!Refs(e) \cap Main!Bodies(e) = {}
      /\ Main!Refs(e) \subseteq host.known[e] \ host.edited
  BY DEF Main!Bodies, Main!Refs
<1>5. Main!Removed(e) \subseteq host.known[e] \ Main!Reach(e)
  BY <1>3 DEF Main!Removed
<1>6. Main!Looked(e) /\ Main!Delta => host.known[e] \ Main!Reach(e) \subseteq Main!Removed(e)
  BY <1>3 DEF Main!Removed, ReadWhole
<1>7. Main!Looked(e) /\ Main!Capped[e] \notin log => Main!Sent(e) = Main!Reach(e) \ Main!Mute(e)
  BY <1>3 DEF ReadWhole, Main!Sent, Main!Kept, Main!Mute
<1>8. e = "npm" \/ ~Main!Delta \/ (Main!Looked(e) /\ host.bare = {}) => Main!Sent(e) = proj[e].results
  BY <1>3 DEF ReadWhole, Main!Sent, Main!Kept
<1> QED BY <1>1, <1>2, <1>4, <1>5, <1>6, <1>7, <1>8 DEF Main!Metrics

LEMMA KeptRight == ASSUME RunInv PROVE Main!KeptAfterDelivery
<1>1. out \notin {"none", "ready"} => at > 26
  BY DEF RunInv, Delivered
<1> QED BY <1>1 DEF RunInv, Delivered, Main!KeptAfterDelivery

\* What counts and is logged along the way: a cut is a budget's, a line names a phase.
Counted == cuts \in 0 .. MaxCuts /\ log \subseteq Main!Phases \cup Main!Caps \cup {"usage"}
LEMMA CountedStep ==
    ASSUME Main!RunAssumption, at \in 1 .. 29, Counted, [Main!Next]_Main!vars
    PROVE  Counted'
<1> DEFINE Quiet == cuts' = cuts /\ log' \in {log, log \cup {"usage"}}
           Counts == cuts' = cuts \/ (cuts < MaxCuts /\ cuts' = cuts + 1)
           Spent(p) == /\ p \in Main!Phases /\ log' \subseteq log \cup Main!Caps \cup {p} /\ Counts
<1>1. Quiet => Counted'
  BY DEF Counted
<1>2. ASSUME NEW p, Spent(p) PROVE Counted'
  <2>1. MaxCuts \in Nat
    BY DEF Main!RunAssumption
  <2> QED BY <1>2, <2>1 DEF Counted
<1>3. CASE Main!Expire \/ Main!Panic \/ Main!Kill \/ Main!AcquireLock \/ Main!Tidy \/ Main!Audits \/ UNCHANGED Main!vars
  <2>1. Quiet
    BY <1>3 DEF Main!Expire, Main!Panic, Main!Kill, Main!AcquireLock, Main!Tidy, Main!Audits, Main!vars
  <2> QED BY <1>1, <2>1
<1>4. CASE \/ Main!Snapshot \/ Main!Assemble \/ Main!InvalidateBaseline \/ Main!writeTelemetryFile \/ Main!Settle
  <2>1. Quiet
    BY <1>4 DEF Main!Snapshot, Main!Assemble, Main!InvalidateBaseline, Main!writeTelemetryFile, Main!Settle
  <2> QED BY <1>1, <2>1
<1>w. ASSUME NEW p, Main!Stage(p), NEW c \in {"sound", "cut", "dead"}, NEW told \in SUBSET Main!Caps,
             Main!Context(p, c), Main!Ended(p, c, told)
      PROVE  Spent(p)
  <2>1. p \in Main!Phases
    BY <1>w, Places
  <2>2. Counts
    BY <1>w DEF Main!Context
  <2> QED BY <1>w, <2>1, <2>2 DEF Main!Ended, Main!Exceeded
<1>p. ASSUME NEW p, Main!Stage(p), NEW c \in {"sound", "cut", "dead"}, Main!Context(p, c), Main!endPhase(p, c)
      PROVE  Spent(p)
  BY <1>p, <1>w DEF Main!endPhase
<1>u. CASE Main!Upload
  <2>1. Spent("telemetry_upload")
    <3>1. "telemetry_upload" \in Main!Phases
      BY DEF Main!Phases
    <3>2. log' \subseteq log \cup {"telemetry_upload"}
      BY <1>u DEF Main!Upload, Main!endPhase, Main!Ended, Main!Exceeded
    <3>3. Counts
      BY <1>u DEF Main!Upload
    <3> QED BY <3>1, <3>2, <3>3
  <2> QED BY <1>2, <2>1
<1>5. CASE Main!DeviceInfo
  <2>1. PICK c \in {"sound", "cut", "dead"} :
            /\ Main!Context("device_info", c)
            /\ Main!endPhase("device_info", c) \/ UNCHANGED <<done, log>>
    BY <1>5 DEF Main!DeviceInfo
  <2>2. Main!Stage("device_info")
    BY <1>5 DEF Main!DeviceInfo
  <2>3. CASE Main!endPhase("device_info", c)
    BY <1>2, <1>p, <2>1, <2>2, <2>3
  <2>4. CASE UNCHANGED <<done, log>>
    <3>1. "device_info" \in Main!Phases /\ log' = log /\ Counts
      BY <2>1, <2>2, <2>4, Places DEF Main!Context
    <3>2. Spent("device_info")
      BY <3>1
    <3> QED BY <1>2, <3>2
  <2> QED BY <2>1, <2>3, <2>4
<1> HIDE DEF Quiet, Spent, Counts
<1>6. ASSUME NEW p, NEW e \in Main!Eco, NEW g, Main!Projects(p, e, g) PROVE (cuts' = cuts /\ log' = log) \/ Spent(p)
  <2>1. CASE Main!Skip
    BY <2>1 DEF Main!Skip
  <2>2. ASSUME ~Main!Skip PROVE Spent(p)
    <3>1. PICK c \in {"sound", "cut", "dead"}, told \in SUBSET Main!Caps : Main!Context(p, c) /\ Main!Ended(p, c, told)
      <4>1. PICK c \in {"sound", "cut", "dead"}, left \in SUBSET host.excess :
                Main!Context(p, c) /\ Main!Ended(p, c, IF left = {} THEN {} ELSE {Main!Capped[e]})
        BY <1>6, <2>2 DEF Main!Projects
      <4>2. (IF left = {} THEN {} ELSE {Main!Capped[e]}) \in SUBSET Main!Caps
        BY DEF Main!Caps
      <4> QED BY <4>1, <4>2
    <3>2. Main!Stage(p)
      BY <1>6 DEF Main!Projects
    <3> QED BY <1>w, <3>1, <3>2
  <2> QED BY <2>1, <2>2
<1>f. ASSUME NEW p, Main!Stage(p),
             Main!Skip \/ \E c \in {"sound", "cut", "dead"} : Main!Context(p, c) /\ Main!endPhase(p, c)
      PROVE  Counted'
  <2>1. CASE Main!Skip
    BY <1>1, <2>1 DEF Main!Skip, Quiet
  <2> QED BY <1>2, <1>f, <1>p, <2>1
<1>7. CASE Main!Python \/ Main!Node
  <2>1. "python" \in Main!Eco /\ "npm" \in Main!Eco
    BY DEF Main!Eco
  <2>2. \/ cuts' = cuts /\ log' = log
        \/ Spent("python_scan")
        \/ Spent("node_scan")
    BY <1>6, <1>7, <2>1 DEF Main!Python, Main!Node
  <2> QED BY <1>1, <1>2, <2>2 DEF Quiet
<1>8. CASE \/ Main!SchedulerInfo \/ Main!WSL \/ Main!IDEs \/ Main!Extensions \/ Main!AITools \/ Main!MCPConfigs
           \/ Main!MaliciousFiles \/ Main!Brew \/ Main!SystemPackages \/ Main!Skills \/ Main!Plugins \/ Main!collectCredentials
           \/ Main!BrowserExtensions \/ Main!GoModules \/ Main!Cargo \/ Main!Composer \/ Main!NuGet
  <2>1. Main!SchedulerInfo => Counted'
    BY <1>f DEF Main!SchedulerInfo, Main!Phase
  <2>2. Main!WSL => Counted'
    BY <1>f DEF Main!WSL, Main!Phase
  <2>3. Main!IDEs => Counted'
    BY <1>f DEF Main!IDEs, Main!Phase
  <2>4. Main!Extensions => Counted'
    BY <1>f DEF Main!Extensions, Main!Phase
  <2>5. Main!AITools => Counted'
    BY <1>f DEF Main!AITools, Main!Phase
  <2>6. Main!MCPConfigs => Counted'
    BY <1>f DEF Main!MCPConfigs, Main!Phase
  <2>7. Main!MaliciousFiles => Counted'
    BY <1>f DEF Main!MaliciousFiles, Main!Phase
  <2>8. Main!Brew => Counted'
    BY <1>f DEF Main!Brew, Main!Phase
  <2>9. Main!SystemPackages => Counted'
    BY <1>f DEF Main!SystemPackages, Main!Phase
  <2>10. Main!Skills => Counted'
    BY <1>f DEF Main!Skills, Main!Phase
  <2>11. Main!Plugins => Counted'
    BY <1>f DEF Main!Plugins, Main!Phase
  <2>12. Main!collectCredentials => Counted'
    BY <1>f DEF Main!collectCredentials, Main!Phase
  <2>13. Main!BrowserExtensions => Counted'
    BY <1>f DEF Main!BrowserExtensions, Main!Phase
  <2>14. Main!GoModules => Counted'
    BY <1>f DEF Main!GoModules, Main!Phase
  <2>15. Main!Cargo => Counted'
    BY <1>f DEF Main!Cargo, Main!Phase
  <2>16. Main!Composer => Counted'
    BY <1>f DEF Main!Composer, Main!Phase
  <2>17. Main!NuGet => Counted'
    BY <1>f DEF Main!NuGet, Main!Phase
  <2> QED BY <1>8, <2>1, <2>2, <2>3, <2>4, <2>5, <2>6, <2>7, <2>8, <2>9, <2>10, <2>11, <2>12, <2>13, <2>14, <2>15, <2>16, <2>17
<1> QED BY <1>3, <1>4, <1>5, <1>7, <1>8, <1>u DEF Main!Next

\* Whoever holds the payload of a run can tell what was left out of it from
\* what is not on the machine, nothing that a walk can reach is called removed,
\* the machine keeps a new baseline or a stamp only for what was delivered, and
\* budgets and the deadline cost a run its payload only through the budget of
\* the upload itself or where they leave no time to learn whose it is:
\* telemetry.Run, for every set of machines and every number of budgets exceeded.
THEOREM RunsAreHonest ==
    ASSUME Main!RunAssumption
    PROVE  Main!Spec => [](/\ Main!TypeOK /\ Main!OmissionsShow /\ Main!DeltaIsTrue
                           /\ Main!KeptAfterDelivery /\ Main!DeadlineOnlyCuts)
<1>1. Main!Init => RunInv /\ Counted
  <2>1. ASSUME Main!Init PROVE cuts = 0 /\ log = {} /\ MaxCuts \in Nat
    BY <2>1 DEF Main!Init, Main!RunAssumption
  <2> QED BY <2>1, RunInit DEF Counted
<1>2. RunInv /\ Counted /\ [Main!Next]_Main!vars => RunInv' /\ Counted'
  BY RunStep, CountedStep DEF RunInv, Placed
<1>3. RunInv /\ Counted => Main!TypeOK
  <2>1. Len(Main!Order) = 28
    BY DEF Main!Order
  <2>2. ASSUME RunInv
        PROVE  \A e \in Main!Eco : proj[e].results \subseteq Main!Reach(e) /\ proj[e].records \subseteq proj[e].results
    BY <2>2 DEF RunInv, Seen
  <2> QED BY <2>1, <2>2 DEF RunInv, Counted, Placed, Names, Ends, Values, Main!TypeOK
<1>4. RunInv => Main!OmissionsShow /\ Main!DeltaIsTrue /\ Main!KeptAfterDelivery /\ Main!DeadlineOnlyCuts
  BY OmissionsShown, DeltaTold, KeptRight DEF RunInv
<1> QED BY <1>1, <1>2, <1>3, <1>4, PTL DEF Main!Spec
=============================================================================
