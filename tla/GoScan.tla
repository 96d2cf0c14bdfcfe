------------------------------- MODULE GoScan -------------------------------
(***************************************************************************)
(* The inventory of a developer's Go modules (internal/detector/goscan.go, *)
(* checksums from gometadata.go): the go.mod and go.work files below the   *)
(* search roots, the vendor directories beside them, the binaries of       *)
(* GOBIN and the module cache.  A complete source is authoritative, so     *)
(* whatever is left out shows as a reason on it; and a checksum that is    *)
(* reported absent was looked for in every file that could record it.      *)
(*                                                                         *)
(* Directory d holds at most one go.mod, go.work, go.sum and go.work.sum;  *)
(* a source is named by its kind and its directory, a binary by its name.  *)
(***************************************************************************)
EXTENDS Directories

CONSTANT Worlds

FileState == {"ok", "partial", "broken", "missing", "denied", "big", "odd"}

VARIABLES
    world, late, pc,
    ledger,             \* sources, reasons of the report, rows left
    cands, walks, queue, entries,   \* discovery
    found,              \* the manifests of the walks: <<kind, dir, root>>
    project,            \* what is known of each module read
    jobs, items,        \* what is left to read, and what is left of the open one
    vendors,            \* vendor directories taken
    cache,              \* the walk of the module cache
    out                 \* the records: <<source, what>>

disc == <<cands, walks, queue, entries, found>>
vars == <<world, late, pc, ledger, disc, project, jobs, items, vendors, cache, out>>

-----------------------------------------------------------------------------
(* Sources and rows.                                                       *)
NoSource == <<"none", Nowhere>>
Known(led, id) == id \in DOMAIN led.sources
reasonsOf(led, id) == led.sources[id].reasons

goDegrade(led, id, whys) == [led EXCEPT !.sources[id].reasons = @ \cup whys]
unknown(led, id, whys) ==
    [led EXCEPT !.sources[id].reasons = @ \cup whys, !.sources[id].presence = "unknown"]
globalReason(led, why) == [led EXCEPT !.reasons = @ \cup {why}]

Enclosing(led, id) ==
    LET up[n \in Nat] == IF n = 0 THEN {id}
                         ELSE UNION {{s} \cup ({led.sources[s].parent} \ {NoSource}) : s \in up[n - 1]}
    IN up[Cardinality(DOMAIN led.sources)]

MissGlobally(led, id, n) ==                                      \* mutant
    IF n <= led.rows THEN [led EXCEPT !.rows = @ - n] ELSE [globalReason(led, "record_limit") EXCEPT !.rows = 0]
\* The first record that does not fit takes all the rows that are left.
charge(led, id, n) ==
    IF n <= led.rows THEN [led EXCEPT !.rows = @ - n]
    ELSE IF ~Known(led, id) THEN [globalReason(led, "record_limit") EXCEPT !.rows = 0]
    ELSE [led EXCEPT !.rows = 0,
                     !.sources = [s \in Enclosing(led, id) |->
                                     [@[s] EXCEPT !.reasons = @ \cup {"record_limit"}]] @@ @]

addSource(led, id, parent) ==
    LET owner == IF Known(led, parent) THEN parent ELSE NoSource
        paid == charge(led, owner, 1)
    IN IF Known(led, id) THEN led
       ELSE IF led.rows = 0 THEN paid
       ELSE [paid EXCEPT !.sources = (id :> [reasons |-> {}, presence |-> "present", parent |-> owner]) @@ @]

\* goRead: what the state of a file does to its source.
ReadReason(st) == CASE st = "denied" -> {"permission_denied"} [] st = "big" -> {"size_limit"}
                    [] st = "odd" -> {"unsupported_entry"} [] OTHER -> {}
goRead(led, id, st, targeted) ==
    IF st = "missing"
    THEN IF targeted THEN [led EXCEPT !.sources[id].presence = "absent"]
         ELSE unknown(led, id, {"changed_during_scan"})
    ELSE IF st = "denied" THEN unknown(led, id, ReadReason(st)) ELSE goDegrade(led, id, ReadReason(st))
Readable(st) == st \in {"ok", "partial", "broken"}

-----------------------------------------------------------------------------
(* Checksums.                                                              *)
NoSum(id) == [id |-> id, has |-> {}, failed |-> FALSE]

\* checksumFile: its failures count for the checksums, not for the owner.
checksumFile(led, id, parent, file) ==
    LET there == addSource(led, id, parent)
        got == goRead(there, id, file.st, TRUE)
    IN IF ~Known(there, id) THEN [led |-> there, sum |-> [NoSum(id) EXCEPT !.failed = TRUE]]
       ELSE [led |-> IF file.st \in {"partial", "broken"} THEN goDegrade(got, id, {"malformed_checksum_line"}) ELSE got,
             sum |-> [id |-> id, has |-> IF file.st \in {"ok", "partial"} THEN file.has ELSE {},
                      failed |-> file.st \notin {"ok", "missing"}]]

AbsentIfUnread(sums, r) ==                                       \* mutant
    IF \E s \in sums : r \in s.has THEN "recorded" ELSE "absent"
\* goChecksums, from goSumFailure and the exact matches.
goChecksums(sums, r) ==
    LET recorded == \E s \in sums : r \in s.has
        failed == \E s \in sums : s.failed
    IN CASE recorded /\ ~failed -> "recorded"
         [] recorded /\ failed -> "partial"
         [] ~recorded /\ ~failed -> "absent"
         [] OTHER -> "failed"
recordedIn(sums, reqs) == Cardinality({x \in sums \X reqs : x[2] \in x[1].has})

-----------------------------------------------------------------------------
(* Scan and scanProjects, up to the walks.                                 *)
NoCache == [left |-> 0, seen |-> {}, listed |-> {}, failed |-> {}, whole |-> TRUE]

Init ==
    /\ world \in Worlds /\ late = FALSE
    /\ pc = IF world.user THEN "roots" ELSE "finish"
    /\ ledger = [sources |-> <<>>, rows |-> world.records,
                 reasons |-> IF ~world.user THEN {"user_unresolved"}
                             ELSE IF Nowhere \in Range(world.roots) THEN {"path_unresolved"} ELSE {}]
    /\ cands = <<>> /\ walks = <<>> /\ queue = <<>> /\ entries = 0 /\ found = <<>>
    /\ project = <<>> /\ jobs = <<>> /\ items = <<>> /\ vendors = {} /\ cache = NoCache /\ out = {}

Expire ==
    /\ pc # "done" /\ ~late
    /\ late' = TRUE
    /\ UNCHANGED <<world, pc, ledger, disc, project, jobs, items, vendors, cache, out>>

phys(d) == world.phys[d]
Searched == SelectSeq(world.roots, LAMBDA d : d # Nowhere)
Root(d) == <<"project_search_root", d>>

\* One search root is looked at.
Candidate ==
    /\ pc = "roots" /\ Len(cands) < Len(Searched)
    /\ LET d == Searched[Len(cands) + 1]
           why == CASE world.guard[d] # "clear" -> "skipped_protected"
                    [] world.guard[d] = "clear" /\ late -> "deadline_exceeded"
                    [] world.guard[d] = "clear" /\ ~late /\ world.dir[d] = "denied" -> "permission_denied"
                    [] OTHER -> "none"
       IN cands' = Append(cands, [at |-> d, why |-> why, gone |-> why = "none" /\ world.dir[d] = "missing"])
    /\ UNCHANGED <<world, late, pc, ledger, walks, queue, entries, found, project, jobs, items, vendors, cache, out>>

Walkable(c) == c.why = "none" /\ ~c.gone
Folded(i) ==
    \/ \E j \in 1 .. i - 1 : cands[j].at = cands[i].at
    \/ /\ Walkable(cands[i])
       /\ \/ \E j \in 1 .. i - 1 : Walkable(cands[j]) /\ phys(cands[j].at) = phys(cands[i].at)
          \/ \E j \in DOMAIN cands : /\ Walkable(cands[j]) /\ phys(cands[j].at) # phys(cands[i].at)
                                     /\ Inside(phys(cands[i].at), phys(cands[j].at))

Admit(led, i) ==
    LET c == cands[i]
        id == Root(c.at)
        there == addSource(led, id, NoSource)
    IN IF Folded(i) \/ "record_limit" \in led.reasons \/ ~Known(there, id) THEN IF Folded(i) THEN led ELSE there
       ELSE IF c.gone THEN [there EXCEPT !.sources[id].presence = "absent"]
       ELSE IF c.why # "none" THEN unknown(there, id, {c.why}) ELSE there

\* Each root that no other one covers gets a source.
searchRoots ==
    /\ pc = "roots" /\ Len(cands) = Len(Searched)
    /\ ledger' = FoldLeft(Admit, ledger, [i \in DOMAIN cands |-> i])
    /\ LET open == SelectSeq([i \in DOMAIN cands |-> i],
                             LAMBDA i : Walkable(cands[i]) /\ ~Folded(i) /\ Known(ledger', Root(cands[i].at)))
       IN walks' = [i \in DOMAIN open |-> cands[open[i]].at]
    /\ pc' = "walk"
    /\ UNCHANGED <<world, late, cands, queue, entries, found, project, jobs, items, vendors, cache, out>>

-----------------------------------------------------------------------------
(* walkRoot.                                                               *)
walkRoot == Root(Head(walks))
Children(d) == {c \in Dir : Up[c] = d /\ world.dir[c] # "missing"}
manifests(d) == {x \in {<<"go.mod", d>>, <<"go.work", d>>} :
                    (IF x[1] = "go.mod" THEN world.mod[d] ELSE world.work[d]).st # "missing"}
Names(d) == {<<"dir", c>> : c \in Children(d)} \cup manifests(d)

WalkRoot ==
    /\ pc = "walk" /\ walks # <<>>
    /\ queue' = <<Head(walks)>> /\ entries' = world.entries
    /\ pc' = "walking"
    /\ UNCHANGED <<world, late, ledger, cands, walks, found, project, jobs, items, vendors, cache, out>>

Leave == walks' = Tail(walks) /\ queue' = <<>> /\ entries' = 0 /\ pc' = "walk"

Walked ==
    /\ pc = "walking" /\ (queue = <<>> \/ late)
    /\ ledger' = IF queue = <<>> THEN ledger ELSE goDegrade(ledger, walkRoot, {"deadline_exceeded"})
    /\ Leave
    /\ UNCHANGED <<world, late, cands, found, project, jobs, items, vendors, cache, out>>

WalkUnlisted ==
    /\ pc = "walking" /\ queue # <<>> /\ ~late /\ world.dir[Head(queue)] # "ok"
    /\ ledger' = IF Head(queue) = Head(walks) THEN unknown(ledger, walkRoot, {"permission_denied"})
                 ELSE goDegrade(ledger, walkRoot, {"permission_denied"})
    /\ queue' = Tail(queue)
    /\ UNCHANGED <<world, late, pc, cands, walks, entries, found, project, jobs, items, vendors, cache, out>>

IgnoreMounts(c, beside, deep) ==                                 \* mutant
    [follow |-> c \notin world.skip /\ world.guard[c] = "clear" /\ ~(c \in world.vendor /\ beside) /\ ~deep, whys |-> {}]
\* What becomes of a directory of the walk.
Descend(c, beside, deep) ==
    CASE c \in world.skip \/ (c \in world.vendor /\ beside) -> [follow |-> FALSE, whys |-> {}]
      [] c \notin world.skip /\ ~(c \in world.vendor /\ beside) /\ world.guard[c] # "clear" ->
            [follow |-> FALSE, whys |-> IF world.guard[c] = "volume" THEN {"skipped_protected"} ELSE {}]
      [] OTHER -> [follow |-> ~deep, whys |-> IF deep THEN {"depth_limit"} ELSE {}]

Listed(d) == {shown \in SUBSET Names(d) :
                 Cardinality(shown) = IF Cardinality(Names(d)) > entries THEN entries ELSE Cardinality(Names(d))}

WalkDir ==
    /\ pc = "walking" /\ queue # <<>> /\ ~late /\ world.dir[Head(queue)] = "ok"
    /\ LET d == Head(queue)
           deep == Cardinality(Ancestry[d]) - Cardinality(Ancestry[Head(walks)]) >= world.depth
       IN \E shown \in Listed(d) :
            LET here == shown \cap manifests(d)
                dirs == {c \in Dir : <<"dir", c>> \in shown}
                more == shown # Names(d)
                whys == UNION {Descend(c, here # {}, deep).whys : c \in dirs}
            IN /\ ledger' = goDegrade(ledger, walkRoot, whys \cup (IF more THEN {"entry_limit"} ELSE {}))
               /\ found' = found \o InOrder({Append(m, walkRoot) : m \in here})
               /\ IF more THEN Leave
                  ELSE /\ queue' = Tail(queue) \o InOrder({c \in dirs : Descend(c, here # {}, deep).follow})
                       /\ entries' = entries - Cardinality(shown)
                       /\ UNCHANGED <<walks, pc>>
    /\ UNCHANGED <<world, late, cands, project, jobs, items, vendors, cache, out>>

Discovered ==
    /\ pc = "walk" /\ walks = <<>>
    /\ jobs' = SelectSeq(found, LAMBDA f : f[1] = "go.mod") \o SelectSeq(found, LAMBDA f : f[1] = "go.work")
               \o << <<"alternate">>, <<"settle">> >>
    /\ pc' = "jobs"
    /\ UNCHANGED <<world, late, ledger, disc, project, items, vendors, cache, out>>

-----------------------------------------------------------------------------
(* Manifests.                                                              *)
Doing(kind) == pc = "jobs" /\ jobs # <<>> /\ Head(jobs)[1] = kind
at == Head(jobs)[2]

\* The source of a manifest, and why it is not read further.
Opened(led, id, parent, st, targeted) ==
    LET there == addSource(led, id, parent)
        got == goRead(there, id, st, targeted)
    IN IF ~Known(there, id) THEN there
       ELSE IF late THEN goDegrade(there, id, {"deadline_exceeded"})
       ELSE goDegrade(got, id, IF st = "broken" THEN {"parse_error"} ELSE {})
Sound(st) == ~late /\ st = "ok"
rows(n) == 1 + n
manifestId(d) == <<"project_manifest", d>>
workspaceId(d) == <<"workspace", d>>

\* goProjectFromModfile, its rows and its go.sum.
Module(reqs, sums, alternate) == [reqs |-> reqs, works |-> {}, sums |-> sums, own |-> sums, alternate |-> alternate]
Read(led, id, reqs, sumId, sumFile, alternate) ==
    LET n == rows(Cardinality(reqs))
        paid == charge(led, id, n)
        sum == checksumFile(paid, sumId, id, sumFile)
    IN IF n > led.rows THEN [led |-> paid, known |-> <<>>]
       ELSE [led |-> sum.led, known |-> (id :> Module(reqs, {sum.sum}, alternate))]

readManifest ==
    /\ Doing("go.mod")
    /\ LET id == manifestId(at)
           led == Opened(ledger, id, Head(jobs)[3], world.mod[at].st, FALSE)
           r == Read(led, id, world.mod[at].reqs, <<"go.sum", at>>, world.sum[at], FALSE)
       IN IF Known(led, id) /\ Sound(world.mod[at].st)
          THEN ledger' = r.led /\ project' = r.known @@ project
          ELSE ledger' = led /\ UNCHANGED project
    /\ jobs' = Tail(jobs)
    /\ UNCHANGED <<world, late, pc, disc, items, vendors, cache, out>>

\* A member that is not in scope, or was not discovered, is not linked.
linked(d) == {e \in world.work[d].members \ {Nowhere} : world.guard[e] = "clear" /\ manifestId(e) \in DOMAIN project}

ForgetWorkSum(known, d, sum) == [known EXCEPT !.works = @ \cup {d}]  \* mutant
Attach(known, d, sum) == [known EXCEPT !.works = @ \cup {d}, !.sums = @ \cup {sum}]

readWorkspace ==
    /\ Doing("go.work")
    /\ LET id == workspaceId(at)
           led == Opened(ledger, id, Head(jobs)[3], world.work[at].st, FALSE)
           sum == checksumFile(led, <<"go.work.sum", at>>, id, world.workSum[at])
           members == {manifestId(e) : e \in linked(at)}
           n == rows(Cardinality(world.work[at].members))
           record == <<"workspace", linked(at), world.work[at].members \ linked(at)>>
       IN IF ~Known(led, id) \/ ~Sound(world.work[at].st)
          THEN ledger' = led /\ jobs' = Tail(jobs) /\ UNCHANGED <<project, out>>
          ELSE /\ ledger' = charge(sum.led, id, n)
               /\ project' = [p \in members |-> Attach(project[p], at, sum.sum)] @@ project
               /\ IF n > sum.led.rows THEN jobs' = Tail(jobs) /\ UNCHANGED out
                  ELSE /\ out' = out \cup {<<id, record>>}
                       /\ jobs' = << <<"vendor", at, id, {sum.sum} \cup UNION {project[p].own : p \in members}>> >> \o Tail(jobs)
    /\ UNCHANGED <<world, late, pc, disc, items, vendors, cache>>

\* readAlternateManifest: the -modfile of GOFLAGS.
nearestProject(d) ==
    LET above == {e \in Ancestry[d] : manifestId(e) \in DOMAIN project}
    IN CHOOSE e \in above : \A f \in above : Inside(e, f)
alternateParent(d) ==
    IF \E e \in Ancestry[d] : manifestId(e) \in DOMAIN project THEN manifestId(nearestProject(d))
    ELSE IF \E e \in Ancestry[d] : Known(ledger, Root(e)) THEN Root(CHOOSE e \in Ancestry[d] : Known(ledger, Root(e)))
    ELSE NoSource

readAlternateManifest ==
    /\ Doing("alternate")
    /\ LET alt == world.alternate
           id == <<"alternate_manifest", alt.at>>
           led == Opened(ledger, id, alternateParent(alt.at), alt.st, TRUE)
           n == rows(Cardinality(alt.reqs))
           named == Read(led, id, alt.reqs, <<"alternate.sum", alt.at>>, alt.sum, TRUE)
       IN CASE alt.flag = "none" -> UNCHANGED <<ledger, project>>
            [] alt.flag = "unresolved" -> ledger' = globalReason(ledger, "alternate_manifest_unresolved") /\ UNCHANGED project
            [] alt.flag = "named" /\ (~Known(led, id) \/ ~Sound(alt.st)) -> ledger' = led /\ UNCHANGED project
            [] alt.flag = "named" /\ Known(led, id) /\ Sound(alt.st) ->
                  IF alt.suffix \/ n > led.rows THEN ledger' = named.led /\ project' = named.known @@ project
                  ELSE /\ ledger' = goDegrade(charge(led, id, n), id, {"unsupported_modfile_name"})
                       /\ project' = (id :> Module(alt.reqs, {}, TRUE)) @@ project
    /\ jobs' = Tail(jobs)
    /\ UNCHANGED <<world, late, pc, disc, items, vendors, cache, out>>

\* The workspaces and checksums found for a project are charged last.
enriched(sums, r) == IF sums = {} THEN "none" ELSE goChecksums(sums, r)
more(p) == Cardinality(p.works) + recordedIn(p.sums, p.reqs)
records(id) == {<<id, <<"project", project[id].works>>>>}
               \cup {<<id, <<"requires", r, enriched(project[id].sums, r)>>>> : r \in project[id].reqs}

settle ==
    /\ Doing("settle")
    /\ LET keep(g, id) == IF more(project[id]) > g.led.rows THEN [g EXCEPT !.led = charge(@, id, more(project[id]))]
                          ELSE [led |-> charge(g.led, id, more(project[id])), kept |-> Append(g.kept, id)]
           g == FoldLeft(keep, [led |-> ledger, kept |-> <<>>], InOrder(DOMAIN project))
           beside == SelectSeq(g.kept, LAMBDA id : ~project[id].alternate)
       IN /\ ledger' = g.led
          /\ out' = out \cup UNION {records(id) : id \in Range(g.kept)}
          /\ project' = [id \in Range(g.kept) |-> project[id]]
          /\ jobs' = [i \in DOMAIN beside |-> <<"vendor", beside[i][2], beside[i], project[beside[i]].own>>]
                     \o << <<"bin">>, <<"cache">> >>
    /\ UNCHANGED <<world, late, pc, disc, items, vendors, cache>>

-----------------------------------------------------------------------------
(* readVendor: modules.txt, then the directories of its packages.          *)
vendorId(d) == <<"vendor_root", d>>

openVendor ==
    /\ Doing("vendor")
    /\ LET id == vendorId(at)
           led == Opened(ledger, id, Head(jobs)[3], world.modules[at].st, FALSE)
       IN IF at \in vendors \/ world.modules[at].st = "missing"
          THEN jobs' = Tail(jobs) /\ UNCHANGED <<ledger, vendors, items, pc>>
          ELSE /\ vendors' = vendors \cup {at}
               /\ ledger' = led
               /\ IF Known(led, id) /\ ~late /\ Readable(world.modules[at].st)
                  THEN items' = world.modules[at].list /\ pc' = "items" /\ UNCHANGED jobs
                  ELSE jobs' = Tail(jobs) /\ UNCHANGED <<items, pc>>
    /\ UNCHANGED <<world, late, disc, project, cache, out>>

Open(kind) == pc = "items" /\ Head(jobs)[1] = kind

MissingMeansGone(st) == {}                                       \* mutant
\* A directory that could not be looked at is no proof that it is gone.
unchecked(st) == IF st = "denied" THEN {"permission_denied"} ELSE {}

readVendored ==
    /\ Open("vendor") /\ items # <<>>
    /\ LET id == vendorId(at)
           it == Head(items)
           record == <<"vendored", it.mod, goChecksums(Head(jobs)[4], it.mod)>>
           recorded == Cardinality({s \in Head(jobs)[4] : it.mod \in s.has})
           n == 2 + recorded
       IN CASE late -> ledger' = goDegrade(ledger, id, {"deadline_exceeded"}) /\ items' = <<>> /\ UNCHANGED out
            [] ~late /\ it.st # "ok" ->
                  ledger' = goDegrade(ledger, id, unchecked(it.st)) /\ items' = Tail(items) /\ UNCHANGED out
            [] ~late /\ it.st = "ok" ->
                  /\ ledger' = charge(ledger, id, n)
                  /\ IF n > ledger.rows THEN items' = <<>> /\ UNCHANGED out
                     ELSE items' = Tail(items) /\ out' = out \cup {<<id, record>>}
    /\ UNCHANGED <<world, late, pc, disc, project, jobs, vendors, cache>>

Close ==
    /\ pc = "items" /\ items = <<>> /\ Head(jobs)[1] # "cache"
    /\ jobs' = Tail(jobs) /\ pc' = "jobs"
    /\ UNCHANGED <<world, late, ledger, disc, project, items, vendors, cache, out>>

-----------------------------------------------------------------------------
(* goRootFS, scanBin and scanCache.                                        *)
goRootFS(led, id, d) ==
    LET led1 == goDegrade(led, id, IF world.redirect THEN {"root_redirect_unknown"} ELSE {})
    IN CASE late -> unknown(led, id, {"deadline_exceeded"})
         [] ~late /\ world.guard[d] # "clear" -> unknown(led1, id, {"skipped_protected"})
         [] ~late /\ world.guard[d] = "clear" /\ world.dir[d] = "missing" -> [led1 EXCEPT !.sources[id].presence = "absent"]
         [] ~late /\ world.guard[d] = "clear" /\ world.dir[d] = "denied" -> unknown(led1, id, {"permission_denied"})
         [] OTHER -> led1
Usable(d) == ~late /\ world.guard[d] = "clear" /\ world.dir[d] = "ok"

binId == <<"bin_root", world.bin.at>>
scanBin ==
    /\ Doing("bin")
    /\ LET led == addSource(ledger, binId, NoSource)
           cut == Len(world.bin.files) > world.entries
       IN IF world.bin.at = Nowhere
          THEN ledger' = globalReason(ledger, "path_unresolved") /\ jobs' = Tail(jobs) /\ UNCHANGED <<items, pc>>
          ELSE IF ~Known(led, binId) \/ ~Usable(world.bin.at)
          THEN /\ ledger' = IF Known(led, binId) THEN goRootFS(led, binId, world.bin.at) ELSE led
               /\ jobs' = Tail(jobs) /\ UNCHANGED <<items, pc>>
          ELSE /\ ledger' = goDegrade(goRootFS(led, binId, world.bin.at), binId, IF cut THEN {"entry_limit"} ELSE {})
               /\ items' = IF cut THEN SubSeq(world.bin.files, 1, world.entries) ELSE world.bin.files
               /\ pc' = "items" /\ UNCHANGED jobs
    /\ UNCHANGED <<world, late, disc, project, vendors, cache, out>>

\* A candidate is listed as a source; usable build information makes a tool.
readBinary ==
    /\ Open("bin") /\ items # <<>>
    /\ LET it == Head(items)
           id == <<"binary", it.name>>
           led == addSource(ledger, id, binId)
           got == goRead(led, id, it.st, FALSE)
           n == rows(it.deps)
       IN CASE late -> ledger' = goDegrade(ledger, binId, {"deadline_exceeded"}) /\ items' = <<>> /\ UNCHANGED out
            [] ~late /\ (it.st \in {"missing", "odd"} \/ (it.st # "denied" /\ ~it.executable)) ->
                  items' = Tail(items) /\ UNCHANGED <<ledger, out>>
            [] OTHER ->
                  IF ~Known(led, id) THEN ledger' = led /\ items' = <<>> /\ UNCHANGED out
                  ELSE IF ~Readable(it.st) \/ it.info = "none" THEN ledger' = got /\ items' = Tail(items) /\ UNCHANGED out
                  ELSE IF it.info = "unusable"
                  THEN ledger' = goDegrade(got, id, {"build_info_unusable"}) /\ items' = Tail(items) /\ UNCHANGED out
                  ELSE /\ ledger' = charge(got, id, n)
                       /\ IF n > got.rows THEN items' = <<>> /\ UNCHANGED out
                          ELSE items' = Tail(items) /\ out' = out \cup {<<id, "tool">>}
    /\ UNCHANGED <<world, late, pc, disc, project, jobs, vendors, cache>>

cacheId == <<"cache_root", world.cache.at>>
scanCache ==
    /\ Doing("cache")
    /\ LET led == addSource(ledger, cacheId, NoSource)
       IN IF world.cache.at = Nowhere
          THEN ledger' = globalReason(ledger, "path_unresolved") /\ pc' = "finish" /\ UNCHANGED <<items, cache>>
          ELSE IF ~Known(led, cacheId) \/ ~Usable(world.cache.at)
          THEN /\ ledger' = IF Known(led, cacheId) THEN goRootFS(led, cacheId, world.cache.at) ELSE led
               /\ pc' = "finish" /\ UNCHANGED <<items, cache>>
          ELSE /\ ledger' = goRootFS(led, cacheId, world.cache.at)
               /\ items' = world.cache.extracted /\ cache' = [NoCache EXCEPT !.left = world.entries]
               /\ pc' = "extracted"
    /\ UNCHANGED <<world, late, disc, project, jobs, vendors, out>>

\* goCacheWalk.walk, one directory: of the extracted tree, or of the
\* download tree, where it holds the versions of a module (listVersions).
Shown(mods) == IF Cardinality(mods) <= cache.left THEN {mods} ELSE kSubset(cache.left, mods)
down(t) == pc = "download" /\ t.versions

readTree ==
    /\ pc \in {"extracted", "download"} /\ items # <<>> /\ ~late
    /\ LET t == Head(items)
       IN IF t.st # "ok"
          THEN /\ ledger' = goDegrade(ledger, cacheId, {"permission_denied"})
               /\ cache' = IF down(t) THEN [cache EXCEPT !.failed = @ \cup t.mods]
                           ELSE [cache EXCEPT !.whole = pc = "extracted"]
               /\ items' = Tail(items)
          ELSE \E shown \in Shown(t.mods) :
                 LET cut == shown # t.mods
                 IN /\ ledger' = goDegrade(ledger, cacheId, (IF cut THEN {"entry_limit"} ELSE {})
                                                            \cup (IF t.odd THEN {"unsupported_entry"} ELSE {}))
                    /\ cache' = [cache EXCEPT !.left = @ - Cardinality(shown), !.seen = @ \cup {<<pc, m>> : m \in shown},
                                              !.listed = IF down(t) /\ ~cut THEN @ \cup t.mods ELSE @,
                                              !.failed = IF down(t) /\ cut THEN @ \cup t.mods ELSE @,
                                              !.whole = @ /\ ~(pc = "download" /\ cut /\ ~down(t))]
                    /\ items' = IF cut /\ ~down(t) THEN <<>> ELSE Tail(items)
    /\ UNCHANGED <<world, late, pc, disc, project, jobs, vendors, out>>

readTreeLate ==
    /\ pc \in {"extracted", "download"} /\ items # <<>> /\ late
    /\ ledger' = goDegrade(ledger, cacheId, {"deadline_exceeded"})
    /\ cache' = [cache EXCEPT !.whole = pc = "extracted"]
    /\ items' = <<>>
    /\ UNCHANGED <<world, late, pc, disc, project, jobs, vendors, out>>

has(m, f) == <<"download", m>> \in cache.seen /\ f \in world.cache.files[m]
Evidence == {m \in DOMAIN world.cache.files : <<"extracted", m>> \in cache.seen \/ has(m, "zip")}

TreeRead ==
    /\ pc \in {"extracted", "download"} /\ items = <<>>
    /\ pc' = IF pc = "extracted" THEN "download" ELSE "items"
    /\ items' = IF pc = "extracted" THEN world.cache.download ELSE InOrder(Evidence)
    /\ UNCHANGED <<world, late, ledger, disc, project, jobs, vendors, cache, out>>

ListedAnyway(m) == TRUE                                          \* mutant
\* The listing of the module's versions, if there was one, else of the tree.
known(m) == m \in cache.listed \/ (m \notin cache.failed /\ cache.whole)

\* record and zipStatus.
extractedAs(m) == IF m \in world.cache.toolchain \/ (known(m) /\ has(m, "ziphash") /\ ~has(m, "partial"))
                  THEN "present" ELSE "partial"
zipReason(st) == IF st = "missing" THEN {"changed_during_scan"}
                 ELSE IF st = "broken" THEN {"parse_error"} ELSE IF st = "partial" THEN {"entry_limit"} ELSE ReadReason(st)

recordModule ==
    /\ Open("cache") /\ items # <<>>
    /\ LET m == Head(items)
           extracted == IF <<"extracted", m>> \in cache.seen THEN extractedAs(m) ELSE "none"
           zip == has(m, "zip") /\ m \notin world.cache.toolchain
           whys == (IF extracted = "partial" /\ known(m) THEN {"extraction_incomplete"} ELSE {})
                   \cup (IF zip THEN zipReason(world.cache.zip[m]) ELSE {})
           led == goDegrade(ledger, cacheId, whys)
           sum == checksumFile(led, <<"ziphash", m>>, cacheId, world.cache.ziphash[m])
           got == IF has(m, "ziphash") THEN sum ELSE [led |-> led, sum |-> NoSum(<<"ziphash", m>>)]
           checksum == IF has(m, "ziphash") THEN goChecksums({got.sum}, m) ELSE IF known(m) THEN "absent" ELSE "unreadable"
           artifacts == {f \in {"extracted", "zip"} : IF f = "zip" THEN has(m, f) ELSE extracted # "none"}
           n == 1 + Cardinality(artifacts) + Cardinality({m} \cap got.sum.has)
       IN IF late THEN ledger' = goDegrade(ledger, cacheId, {"deadline_exceeded"}) /\ items' = <<>> /\ UNCHANGED out
          ELSE /\ ledger' = charge(got.led, cacheId, n)
               /\ IF n > got.led.rows THEN items' = <<>> /\ UNCHANGED out
                  ELSE items' = Tail(items) /\ out' = out \cup {<<cacheId, <<"cached", m, extracted, checksum>>>>}
    /\ UNCHANGED <<world, late, pc, disc, project, jobs, vendors, cache>>

CacheRecorded ==
    /\ Open("cache") /\ items = <<>>
    /\ pc' = "finish"
    /\ UNCHANGED <<world, late, ledger, disc, project, jobs, items, vendors, cache, out>>

\* finish, and the envelope of a report that is too large.
finish ==
    /\ pc = "finish"
    /\ IF world.big
       THEN ledger' = [ledger EXCEPT !.sources = <<>>, !.reasons = {"output_size_limit"}] /\ out' = {}
       ELSE UNCHANGED <<ledger, out>>
    /\ pc' = "done"
    /\ UNCHANGED <<world, late, disc, project, jobs, items, vendors, cache>>

Discovery == Candidate \/ searchRoots \/ WalkRoot \/ Walked \/ WalkUnlisted \/ WalkDir \/ Discovered
Manifests == readManifest \/ readWorkspace \/ readAlternateManifest \/ settle \/ openVendor \/ readVendored
Roots == Close \/ scanBin \/ readBinary \/ scanCache \/ readTree \/ readTreeLate \/ TreeRead \/ recordModule \/ CacheRecorded
Step == Discovery \/ Manifests \/ Roots \/ finish

Next == Step \/ Expire
Spec == Init /\ [][Next]_vars

-----------------------------------------------------------------------------
TypeOK ==
    /\ late \in BOOLEAN /\ ledger.rows \in 0 .. world.records /\ vendors \subseteq Dir
    /\ \A id \in DOMAIN ledger.sources :
          /\ ledger.sources[id].presence \in {"present", "absent", "unknown"}
          /\ ledger.sources[id].parent \in DOMAIN ledger.sources \cup {NoSource}

Complete(id) == Known(ledger, id) /\ ledger.sources[id].presence = "present" /\ reasonsOf(ledger, id) = {}
Over == pc = "done" /\ ~world.big

(* What a walk from r comes to when nothing stops it. *)
Reach(r) ==
    Closed(LAMBDA d : {c \in Children(d) : world.dir[d] = "ok" /\ c \notin world.skip /\ world.guard[c] = "clear"
                                          /\ ~(c \in world.vendor /\ manifests(d) # {})}, {r})

(* A complete search root has a source for every go.mod and go.work below.  *)
RootsAreWhole ==
    Over => \A id \in DOMAIN ledger.sources : id[1] = "project_search_root" /\ Complete(id) =>
        \A d \in Reach(id[2]) :
            /\ world.mod[d].st # "missing" => Known(ledger, manifestId(d))
            /\ world.work[d].st # "missing" => Known(ledger, workspaceId(d))

(* A complete manifest has its project with all requirements, a complete    *)
(* workspace its record, and both the vendor directory beside them.         *)
ManifestsAreWhole ==
    Over => \A d \in Dir :
        /\ Complete(manifestId(d)) =>
              /\ \E works \in SUBSET Dir : <<manifestId(d), <<"project", works>>>> \in out
              /\ \A r \in world.mod[d].reqs :
                    \E c \in {"recorded", "partial", "absent", "failed"} : <<manifestId(d), <<"requires", r, c>>>> \in out
        /\ Complete(workspaceId(d)) => \E rec \in out : rec[1] = workspaceId(d) /\ rec[2][2] \cup rec[2][3] = world.work[d].members
        /\ world.modules[d].st # "missing" /\ (Complete(manifestId(d)) \/ Complete(workspaceId(d))) => Known(ledger, vendorId(d))

Within(m, trees) == \E t \in Range(trees) : m \in t.mods

(* A complete vendor directory has every module whose package is on disk,   *)
(* a complete bin directory every binary, and a complete cache every module *)
(* with sources or an archive.                                              *)
StoresAreWhole ==
    Over =>
      /\ \A d \in Dir : Complete(vendorId(d)) => \A it \in Range(world.modules[d].list) :
            it.st \notin {"missing", "odd"} => \E rec \in out : rec[1] = vendorId(d) /\ rec[2][2] = it.mod
      /\ Complete(binId) => \A it \in Range(world.bin.files) :
            /\ it.st \notin {"missing", "odd"} /\ it.executable => Known(ledger, <<"binary", it.name>>)
            /\ Complete(<<"binary", it.name>>) /\ it.info = "go" => <<<<"binary", it.name>>, "tool">> \in out
      /\ Complete(cacheId) => \A m \in DOMAIN world.cache.files :
            Within(m, world.cache.extracted) \/ ("zip" \in world.cache.files[m] /\ Within(m, world.cache.download)) =>
                 \E rec \in out : rec[1] = cacheId /\ rec[2][2] = m

(* A checksum is reported absent only if every file that could record it    *)
(* was read whole and does not have it; and sources that another process is *)
(* still extracting are not reported present.                               *)
AbsenceIsProven ==
    \A rec \in out :
        /\ rec[1][1] = "project_manifest" /\ rec[2][1] = "requires" /\ rec[2][3] = "absent" =>
              LET files == {world.sum[rec[1][2]]} \cup {world.workSum[w] : w \in project[rec[1]].works}
              IN \A f \in files : f.st \in {"ok", "missing"} /\ (f.st = "ok" => rec[2][2] \notin f.has)
        /\ rec[1] = cacheId =>
              LET m == rec[2][2]
                  files == IF Within(m, world.cache.download) THEN world.cache.files[m] ELSE {}
                  hash == world.cache.ziphash[m]
              IN /\ rec[2][4] = "absent" /\ "ziphash" \in files => hash.st \in {"ok", "missing"} /\ (hash.st = "ok" => m \notin hash.has)
                 /\ rec[2][3] = "present" /\ m \notin world.cache.toolchain => "ziphash" \in files /\ "partial" \notin files

(* A workspace and its members name each other: a project knows of every    *)
(* workspace that links it, and of none that is not listed.                 *)
LinksAgree ==
    Over => \A d \in Dir, rec \in out :
        rec[1] = manifestId(d) /\ rec[2][1] = "project" =>
            /\ \A w \in rec[2][2] : Known(ledger, workspaceId(w)) /\ d \in world.work[w].members
            /\ \A other \in out : other[1][1] = "workspace" /\ d \in other[2][2] => other[1][2] \in rec[2][2]

(* Where the rows ran out, every enclosing source says so.                  *)
LimitsRise ==
    \A id \in DOMAIN ledger.sources : "record_limit" \in reasonsOf(ledger, id) =>
        \A up \in Enclosing(ledger, id) : "record_limit" \in reasonsOf(ledger, up)

OmissionsReported == RootsAreWhole /\ ManifestsAreWhole /\ StoresAreWhole /\ AbsenceIsProven /\ LinksAgree /\ LimitsRise
=============================================================================
