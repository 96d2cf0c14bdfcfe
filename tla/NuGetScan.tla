------------------------------ MODULE NuGetScan -----------------------------
(***************************************************************************)
(* The inventory of a developer's .NET projects, restore graphs, package   *)
(* caches and tools (internal/detector/nugetscan.go).  Unlike the Cargo    *)
(* inventory every failure marks all enclosing sources and the report, one *)
(* source may carry declarations of projects found elsewhere (the files    *)
(* Directory.Build.props and Directory.Packages.props), and a package that *)
(* a restore graph names may be declared absent.                           *)
(*                                                                         *)
(* Directory d holds at most one project, one restore graph, one lockfile  *)
(* and one shared file of each name.  Every record costs one unit of the   *)
(* output limit.                                                           *)
(***************************************************************************)
EXTENDS Directories

CONSTANT Worlds

FileState == {"ok", "partial", "broken", "missing", "denied", "big", "odd"}
Shared == {"build", "central"}      \* Directory.Build.props, Directory.Packages.props

VARIABLES
    world, late, pc,
    ledger,             \* sources, reasons of the report, rows and bytes left
    walks, queue, left, \* discovery: the roots, the directories, the entries and scripts left
    project,            \* what is known of each project found
    docs, graphs,       \* the other documents found, and the restore graphs
    imports,            \* the shared files: those seen and those loaded, as <<name, dir>>
    caches, done, index,\* package roots to read, those listed whole, what they hold
    items,              \* what is left to do in the present phase
    out                 \* the records: <<source, what>>

disc == <<walks, queue, left>>
vars == <<world, late, pc, ledger, disc, project, docs, graphs, imports, caches, done, index, items, out>>

Nearest(dirs) == CHOOSE d \in dirs : \A e \in dirs : Inside(d, e)
Sound(st) == st \in {"ok", "partial"}

-----------------------------------------------------------------------------
(* Sources.                                                                *)
NoSource == <<"none", Nowhere>>

Enclosing(led, id) ==
    LET up[n \in Nat] == IF n = 0 THEN {id} \cap DOMAIN led.sources
                         ELSE UNION {{s} \cup ({led.sources[s].parent} \cap DOMAIN led.sources) : s \in up[n - 1]}
    IN up[Cardinality(DOMAIN led.sources)]

DegradeOnly(led, id, whys) ==                                    \* mutant
    [led EXCEPT !.reasons = @ \cup whys,
                !.sources = [s \in {id} \cap DOMAIN @ |-> [@[s] EXCEPT !.reasons = @ \cup whys]] @@ @]
\* degrade, for any number of reasons: on the report and all that encloses.
degrade(led, id, whys) ==
    IF whys = {} THEN led
    ELSE [led EXCEPT !.reasons = @ \cup whys,
                     !.sources = [s \in Enclosing(led, id) |-> [@[s] EXCEPT !.reasons = @ \cup whys]] @@ @]

\* charge: the output limit, once met, stays met.
Fits(led) == led.rows > 0 /\ led.bytes > 0
charge(led, id) ==
    IF Fits(led) THEN [led EXCEPT !.rows = @ - 1, !.bytes = @ - 1]
    ELSE degrade(led, id, {IF led.rows = 0 THEN "record_limit" ELSE "output_size_limit"})

stopReason(led) ==
    CASE late -> {"deadline_exceeded"}
      [] ~late /\ led.bytes = 0 /\ "output_size_limit" \in led.reasons -> {"output_size_limit"}
      [] ~late /\ led.rows = 0 -> {"record_limit"}
      [] OTHER -> {}
stopped(led) == stopReason(led) # {}

presence(led, id, p) == [led EXCEPT !.sources[id].presence = p]
Known(led, id) == id \in DOMAIN led.sources

source(led, id, parent) ==
    LET owner == IF Known(led, parent) THEN parent ELSE NoSource
        paid == charge(led, owner)
    IN IF Known(led, id) THEN led
       ELSE IF ~Fits(led) THEN paid
       ELSE [paid EXCEPT !.sources = (id :> [reasons |-> {}, presence |-> "present", parent |-> owner]) @@ @]

\* read: what the failure to read a file in state st does to its source.
ReadReason(st) == CASE st = "denied" -> {"permission_denied"} [] st = "big" -> {"size_limit"}
                    [] st = "odd" -> {"unsupported_entry"} [] OTHER -> {}
ParseReason(st) == IF st \in {"broken", "partial"} THEN {"parse_error"} ELSE {}
read(led, id, st, targeted) ==
    CASE stopped(led) -> presence(degrade(led, id, stopReason(led)), id, "unknown")
      [] ~stopped(led) /\ st = "missing" ->
            IF targeted THEN presence(led, id, "absent")
            ELSE presence(degrade(led, id, {"changed_during_scan"}), id, "unknown")
      [] ~stopped(led) /\ st = "denied" -> presence(degrade(led, id, ReadReason(st)), id, "unknown")
      [] OTHER -> degrade(led, id, ReadReason(st) \cup ParseReason(st))

\* add: one record for each of what, as far as they fit.
add(g, id, what) ==
    FoldSet(LAMBDA p, h : [led |-> charge(h.led, id), out |-> IF Fits(h.led) THEN h.out \cup {<<id, p>>} ELSE h.out], g, what)
Into(g) == ledger' = g.led /\ out' = g.out
Now(led) == [led |-> led, out |-> out]

-----------------------------------------------------------------------------
(* Scan, up to the walk.                                                   *)
Init ==
    /\ world \in Worlds /\ late = FALSE
    /\ pc = IF world.user THEN "roots" ELSE "finish"
    /\ ledger = [sources |-> <<>>, rows |-> world.records, bytes |-> world.bytes,
                 reasons |-> IF ~world.user THEN {"user_unresolved"}
                             ELSE IF Nowhere \in Range(world.roots) THEN {"path_unresolved"} ELSE {}]
    /\ walks = <<>> /\ queue = <<>> /\ left = [entries |-> 0, scripts |-> 0, scanned |-> 0]
    /\ project = <<>> /\ docs = <<>> /\ graphs = <<>> /\ imports = [seen |-> {}, loaded |-> <<>>]
    /\ caches = InOrder(world.caches) /\ done = {} /\ index = {}
    /\ items = SelectSeq(world.roots, LAMBDA d : d # Nowhere) /\ out = {}

Expire ==
    /\ pc # "done" /\ ~late
    /\ late' = TRUE
    /\ UNCHANGED <<world, pc, ledger, disc, project, docs, graphs, imports, caches, done, index, items, out>>

phys(d) == world.phys[d]
Root(d) == <<"project_search_root", d>>

\* walkRoots: one root is registered and resolved.
Resolve ==
    /\ pc = "roots" /\ items # <<>>
    /\ LET d == Head(items)
           led == source(ledger, Root(d), NoSource)
       IN IF Known(ledger, Root(d)) \/ ~Known(led, Root(d)) THEN ledger' = led /\ UNCHANGED walks
          ELSE CASE stopped(led) ->
                      /\ ledger' = presence(degrade(led, Root(d), stopReason(led)), Root(d), "unknown")
                      /\ UNCHANGED walks
                 [] ~stopped(led) /\ world.dir[d] = "missing" ->
                      ledger' = presence(led, Root(d), "absent") /\ UNCHANGED walks
                 [] ~stopped(led) /\ (world.guard[d] # "clear" \/ world.dir[d] = "denied") ->
                      /\ ledger' = presence(degrade(led, Root(d), {"permission_denied"}), Root(d), "unknown")
                      /\ UNCHANGED walks
                 [] OTHER -> ledger' = led /\ walks' = Append(walks, d)
    /\ items' = Tail(items)
    /\ UNCHANGED <<world, late, pc, queue, left, project, docs, graphs, imports, caches, done, index, out>>

Covered(i) == \/ \E j \in 1 .. i - 1 : phys(walks[j]) = phys(walks[i])
              \/ \E j \in DOMAIN walks : phys(walks[j]) # phys(walks[i]) /\ Inside(phys(walks[i]), phys(walks[j]))

\* A root that another covers is forgotten.
Uncover ==
    /\ pc = "roots" /\ items = <<>>
    /\ LET covered == {walks[i] : i \in {i \in DOMAIN walks : Covered(i)}}
       IN /\ walks' = SelectSeq(walks, LAMBDA d : d \notin covered)
          /\ ledger' = [ledger EXCEPT !.sources = [id \in DOMAIN @ \ {Root(d) : d \in covered} |-> @[id]]]
    /\ pc' = "walk"
    /\ UNCHANGED <<world, late, queue, left, project, docs, graphs, imports, caches, done, index, items, out>>

-----------------------------------------------------------------------------
(* walk.                                                                   *)
inCache(d) == \E c \in world.pruned \cup Range(caches) : Inside(d, c)
Children(d) == {c \in Dir : Up[c] = d /\ world.dir[c] # "missing"}
has(d, kind) == CASE kind = "project" -> world.project[d].st # "missing"
                  [] kind = "graph"   -> world.graph[d].st # "missing"
                  [] OTHER -> \E i \in DOMAIN world.docs : world.docs[i].at = d /\ world.docs[i].kind = kind
Names(d) == {<<"dir", c>> : c \in Children(d)}
            \cup {<<n, d>> : n \in {n \in Shared : world.shared[n][d].st # "missing"}}
            \cup {<<k, d>> : k \in {k \in {"project", "graph", "legacy", "tools", "deps", "script"} : has(d, k)}}

walkRoot == Root(Head(walks))

WalkRoot ==
    /\ pc = "walk" /\ walks # <<>>
    /\ queue' = <<phys(Head(walks))>> /\ left' = [left EXCEPT !.entries = world.entries, !.scripts = world.scripts]
    /\ pc' = "walking"
    /\ UNCHANGED <<world, late, ledger, walks, project, docs, graphs, imports, caches, done, index, items, out>>

Leave == walks' = Tail(walks) /\ queue' = <<>> /\ pc' = "walk"

Walked ==
    /\ pc = "walking" /\ (queue = <<>> \/ stopped(ledger))
    /\ ledger' = IF queue = <<>> THEN ledger ELSE degrade(ledger, walkRoot, stopReason(ledger))
    /\ Leave
    /\ UNCHANGED <<world, late, left, project, docs, graphs, imports, caches, done, index, items, out>>

\* Caches and extracted packages are passed over; what cannot be listed is not.
PassOver ==
    /\ pc = "walking" /\ queue # <<>> /\ ~stopped(ledger)
    /\ LET d == Head(queue)
           whys == IF ~inCache(d) /\ world.dir[d] # "ok" THEN {"permission_denied"} ELSE {}
       IN /\ inCache(d) \/ world.dir[d] # "ok" \/ (d \in world.archive /\ ~has(d, "project"))
          /\ ledger' = degrade(ledger, walkRoot, whys)
    /\ queue' = Tail(queue)
    /\ UNCHANGED <<world, late, pc, walks, left, project, docs, graphs, imports, caches, done, index, items, out>>

\* project: registered, and read at once.
projectId(d) == <<"project_manifest", d>>
readProject(led, d, root) ==
    LET there == source(led, projectId(d), root)
    IN IF Known(there, projectId(d)) THEN read(there, projectId(d), world.project[d].st, FALSE) ELSE there
projectRead(led, d, root) ==
    LET there == source(led, projectId(d), root)
    IN Known(there, projectId(d)) /\ ~stopped(there) /\ Sound(world.project[d].st)

\* A directory of the walk below it: entered, or why not.
Descend(c, deep) ==
    CASE c \in world.skip \/ inCache(c) -> [follow |-> FALSE, whys |-> {}]
      [] c \notin world.skip /\ ~inCache(c) /\ world.guard[c] # "clear" ->
            [follow |-> FALSE, whys |-> {IF world.guard[c] = "volume" THEN "refused_network_volume" ELSE "skipped_protected"}]
      [] OTHER -> [follow |-> ~deep, whys |-> IF deep THEN {"depth_limit"} ELSE {}]

Listed(d) == {shown \in SUBSET Names(d) :
                 Cardinality(shown) = IF Cardinality(Names(d)) > left.entries THEN left.entries ELSE Cardinality(Names(d))}

WalkDir ==
    /\ pc = "walking" /\ queue # <<>> /\ ~stopped(ledger)
    /\ LET d == Head(queue)
           deep == Cardinality(Ancestry[d]) - Cardinality(Ancestry[phys(Head(walks))]) >= world.depth
       IN /\ ~inCache(d) /\ world.dir[d] = "ok"
          /\ \E shown \in Listed(d) :
               LET here == <<"project", d>> \in shown
                   dirs == {c \in Dir : <<"dir", c>> \in shown}
                   more == shown # Names(d)
                   script == <<"script", d>> \in shown
                   spent == script /\ left.scripts = 0
                   met == SelectSeq(world.docs, LAMBDA x : x.at = d /\ <<x.kind, d>> \in shown
                                                           /\ (x.kind = "script" => ~spent))
                   led1 == IF here /\ d \notin DOMAIN project THEN readProject(ledger, d, walkRoot) ELSE ledger
                   gid == <<"project_assets", d>>
                   led2 == IF <<"graph", d>> \in shown THEN source(led1, gid, walkRoot) ELSE led1
                   whys == UNION {Descend(c, deep).whys : c \in dirs} \cup (IF more \/ spent THEN {"entry_limit"} ELSE {})
               IN /\ d \in world.archive => here
                  /\ ledger' = degrade(led2, walkRoot, whys)
                  /\ project' = IF here /\ Known(led1, projectId(d)) /\ d \notin DOMAIN project
                                THEN (d :> [root |-> walkRoot, read |-> projectRead(ledger, d, walkRoot), graph |-> Nowhere, partial |-> FALSE])
                                     @@ project
                                ELSE project
                  /\ graphs' = IF Known(led2, gid) /\ ~Known(ledger, gid) THEN Append(graphs, d) ELSE graphs
                  /\ docs' = docs \o [i \in DOMAIN met |-> met[i] @@ ("root" :> walkRoot)]
                  /\ imports' = [imports EXCEPT !.seen = @ \cup {x \in shown : x[1] \in Shared}]
                  /\ left' = [left EXCEPT !.entries = @ - Cardinality(shown),
                                          !.scripts = @ - (IF script /\ ~spent THEN 1 ELSE 0)]
                  /\ IF more THEN Leave
                     ELSE queue' = Tail(queue) \o InOrder({c \in dirs : Descend(c, deep).follow}) /\ UNCHANGED <<walks, pc>>
    /\ UNCHANGED <<world, late, caches, done, index, items, out>>

Discovered ==
    /\ pc = "walk" /\ walks = <<>>
    /\ items' = InOrder(DOMAIN project) /\ pc' = "discover"
    /\ UNCHANGED <<world, late, ledger, disc, project, docs, graphs, imports, caches, done, index, out>>

-----------------------------------------------------------------------------
(* Shared files: only the nearest one of each name counts.                 *)
importId(x) == <<IF x[1] = "central" THEN "central_versions" ELSE "project_manifest.props", x[2]>>
nearestImport(d, name) ==
    LET above == {e \in Ancestry[d] : <<name, e>> \in imports.seen}
    IN IF above = {} THEN NoSource ELSE <<name, Nearest(above)>>

\* loadImport, on g.led and g.loaded: read once, and for good.
loadImport(g, x, root) ==
    LET led == source(g.led, importId(x), root)
        st == world.shared[x[1]][x[2]].st
        got == read(led, importId(x), st, FALSE)
        whys == IF ~stopped(led) /\ st = "ok" /\ x[1] = "build" /\ world.shared[x[1]][x[2]].deferred
                THEN {"unsupported_format"} ELSE {}
    IN IF x = NoSource \/ x \in DOMAIN g.loaded THEN g
       ELSE IF ~Known(led, importId(x)) THEN [g EXCEPT !.led = led]
       ELSE [led |-> degrade(got, importId(x), whys), loaded |-> (x :> (~stopped(led) /\ st = "ok")) @@ g.loaded]

Loaded(g, x) == x \in DOMAIN g.loaded
Deferred(g, x) == Loaded(g, x) /\ x[1] = "build" /\ g.loaded[x] /\ world.shared[x[1]][x[2]].deferred
LoadedOf(g, d) == {x \in {nearestImport(d, name) : name \in Shared} : Loaded(g, x)}
reasonsOf(led, id) == led.sources[id].reasons

ForgetConsumers(led, xs, whys) == led                            \* mutant
degradeImports(led, xs, whys) == FoldSet(LAMBDA x, l : degrade(l, importId(x), whys), led, xs)

\* discoverProjectAssets, for one project: the restore graph its literal output
\* path names.
discoverProjectAssets ==
    /\ pc = "discover" /\ items # <<>>
    /\ LET d == Head(items)
           im == nearestImport(d, "build")
           g == loadImport([led |-> ledger, loaded |-> imports.loaded], im, project[d].root)
           blind == Loaded(g, im) /\ ~g.loaded[im]
           led == IF blind THEN degrade(g.led, projectId(d), reasonsOf(g.led, importId(im))) ELSE g.led
           e == world.output[d]
           gid == <<"project_assets", e>>
           there == IF world.graph[e].st = "missing" THEN led
                    ELSE IF world.graph[e].st \in {"denied", "odd"} THEN degrade(led, projectId(d), ReadReason(world.graph[e].st))
                    ELSE source(led, gid, projectId(d))
       IN IF stopped(ledger) \/ ~project[d].read
          THEN /\ ledger' = degrade(ledger, projectId(d), stopReason(ledger))
               /\ UNCHANGED <<project, imports, graphs>>
          ELSE /\ imports' = [imports EXCEPT !.loaded = g.loaded]
               /\ project' = [project EXCEPT ![d].partial = @ \/ blind \/ d \in world.uncertain]
               /\ IF d \in world.uncertain THEN ledger' = degrade(led, projectId(d), {"path_unresolved"}) /\ UNCHANGED graphs
                  ELSE IF e = Nowhere \/ e \in Range(graphs) THEN ledger' = led /\ UNCHANGED graphs
                  ELSE IF stopped(led) THEN ledger' = degrade(led, projectId(d), stopReason(led)) /\ UNCHANGED graphs
                  ELSE /\ ledger' = there
                       /\ graphs' = IF Known(there, gid) /\ ~Known(led, gid) THEN Append(graphs, e) ELSE graphs
    /\ items' = Tail(items)
    /\ UNCHANGED <<world, late, pc, disc, docs, caches, done, index, out>>

ReadGraphs ==
    /\ pc = "discover" /\ items = <<>>
    /\ items' = graphs /\ graphs' = <<>> /\ pc' = "graphs"
    /\ UNCHANGED <<world, late, ledger, disc, project, docs, imports, caches, done, index, out>>

cacheRoots(dirs) == InOrder(dirs \ Range(caches))

\* readAssets, for one graph: its project and the package folders it names.
readAssets ==
    /\ pc = "graphs" /\ items # <<>>
    /\ LET e == Head(items)
           of == world.graph[e].of
           id == <<"project_assets", e>>
       IN /\ ledger' = read(ledger, id, world.graph[e].st, FALSE)
          /\ IF ~stopped(ledger) /\ Sound(world.graph[e].st)
             THEN /\ graphs' = Append(graphs, e)
                  /\ caches' = caches \o cacheRoots(world.graph[e].folders)
                  /\ project' = IF of \in DOMAIN project /\ project[of].graph = Nowhere
                                THEN [project EXCEPT ![of].graph = e] ELSE project
             ELSE UNCHANGED <<graphs, caches, project>>
    /\ items' = Tail(items)
    /\ UNCHANGED <<world, late, pc, disc, docs, imports, done, index, out>>

GraphsRead ==
    /\ pc = "graphs" /\ items = <<>>
    /\ items' = InOrder(DOMAIN project) /\ pc' = "projects"
    /\ UNCHANGED <<world, late, ledger, disc, project, docs, graphs, imports, caches, done, index, out>>

\* lock and locked: the lockfile of project d, if there is one.
lock(g, d) ==
    LET st == world.lock[d].st
        id == <<"lockfile", d>>
        led == source(g.led, id, projectId(d))
        got == read(led, id, st, TRUE)
    IN IF st \in {"missing", "odd"} THEN g
       ELSE IF st = "denied" THEN [g EXCEPT !.led = degrade(@, projectId(d), ReadReason(st))]
       ELSE IF ~Known(led, id) \/ Known(g.led, id) THEN [g EXCEPT !.led = led]
       ELSE IF stopped(led) \/ ~Sound(st) THEN [g EXCEPT !.led = got]
       ELSE add([g EXCEPT !.led = got], id, {<<"locked", p>> : p \in world.lock[d].pkgs})

\* emitProjects, for one project: first the shared files it imports.
importShared ==
    /\ pc = "projects" /\ items # <<>>
    /\ LET d == Head(items)
           id == projectId(d)
           build == nearestImport(d, "build")
           central == nearestImport(d, "central")
           load == loadImport(loadImport([led |-> ledger, loaded |-> imports.loaded], build, project[d].root), central, project[d].root)
           unsure == world.managed[d] = "unsure" /\ Loaded(load, central)
           why == IF unsure \/ Deferred(load, build) THEN {"unsupported_format"} ELSE {}
           marks == degrade(degrade(load.led, id, why), importId(central), IF unsure THEN why ELSE {})
       IN IF stopped(ledger)
          THEN /\ ledger' = degradeImports(degrade(ledger, id, stopReason(ledger)), DOMAIN imports.loaded, stopReason(ledger))
               /\ items' = Tail(items)
               /\ UNCHANGED <<pc, imports, project>>
          ELSE /\ ledger' = IF project[d].read THEN marks ELSE degradeImports(marks, LoadedOf(load, d), reasonsOf(marks, id))
               /\ imports' = [imports EXCEPT !.loaded = load.loaded]
               /\ project' = [project EXCEPT ![d].partial = @ \/ unsure \/ Deferred(load, build)]
               /\ pc' = "project"
               /\ UNCHANGED items
    /\ UNCHANGED <<world, late, disc, docs, graphs, caches, done, index, out>>

\* Then its lockfile, the project itself and what it declares.
emitProject ==
    /\ pc = "project"
    /\ LET d == Head(items)
           id == projectId(d)
           central == nearestImport(d, "central")
           h == lock(Now(ledger), d)
           named == add(h, id, {<<"project", d>>})
           declared == IF project[d].read THEN {<<"declared", p>> : p \in world.project[d].refs} ELSE {}
           globals == IF project[d].read /\ world.managed[d] = "on" /\ Loaded(imports, central) /\ imports.loaded[central]
                      THEN {<<"global", p>> : p \in world.shared["central"][central[2]].globals} ELSE {}
       IN IF Fits(h.led) THEN Into(add(add(named, id, declared), importId(central), globals))
          ELSE Into([named EXCEPT !.led = degradeImports(@, LoadedOf(imports, d), stopReason(@))])
    /\ items' = Tail(items) /\ pc' = "projects"
    /\ UNCHANGED <<world, late, disc, project, docs, graphs, imports, caches, done, index>>

ProjectsEmitted ==
    /\ pc = "projects" /\ items = <<>>
    /\ pc' = "caches"
    /\ UNCHANGED <<world, late, ledger, disc, project, docs, graphs, imports, caches, done, index, items, out>>

-----------------------------------------------------------------------------
(* Package caches: scanCaches, scanCache, packageDir and cachedPackage.    *)
cacheId(c) == <<"package_cache", c>>
Again == pc = "lastCaches"      \* the second call of scanCaches

\* One more package root is opened.
scanCache ==
    /\ pc \in {"caches", "lastCaches"} /\ left.scanned < Len(caches)
    /\ LET c == caches[left.scanned + 1]
           led == source(ledger, cacheId(c), NoSource)
           held == world.held[c]
           shown == IF Len(held) > world.entries THEN SubSeq(held, 1, world.entries) ELSE held
       IN IF Known(ledger, cacheId(c)) \/ ~Known(led, cacheId(c))
          THEN ledger' = led /\ left' = [left EXCEPT !.scanned = @ + 1] /\ UNCHANGED <<pc, items>>
          ELSE IF stopped(led) \/ world.dir[c] # "ok"
          THEN /\ ledger' = IF stopped(led) THEN presence(degrade(led, cacheId(c), stopReason(led)), cacheId(c), "unknown")
                           ELSE IF world.dir[c] = "missing" THEN presence(led, cacheId(c), "absent")
                           ELSE presence(degrade(led, cacheId(c), {"permission_denied"}), cacheId(c), "unknown")
               /\ left' = [left EXCEPT !.scanned = @ + 1]
               /\ UNCHANGED <<pc, items>>
          ELSE /\ ledger' = led
               /\ items' = [i \in DOMAIN shown |-> shown[i] @@ ("more" :> (shown # held))]
               /\ pc' = IF Again THEN "lastCache" ELSE "cache"
               /\ UNCHANGED left
    /\ UNCHANGED <<world, late, walks, queue, project, docs, graphs, imports, caches, done, index, out>>

\* cachedPackage: the identity the package directory proves.
cachedPackage ==
    /\ pc \in {"cache", "lastCache"} /\ items # <<>>
    /\ LET c == caches[left.scanned + 1]
           it == Head(items)
       IN IF stopped(ledger)
          THEN /\ ledger' = degrade(ledger, cacheId(c), stopReason(ledger))
               /\ UNCHANGED <<index, out>>
          ELSE IF it.st = "ok"
          THEN Into(add(Now(ledger), cacheId(c), {<<"cached", it.pkg>>})) /\ index' = index \cup {<<c, it.pkg>>}
          ELSE /\ ledger' = degrade(ledger, cacheId(c), IF it.st = "odd" THEN {"identity_mismatch"}
                                                       ELSE ReadReason(it.st) \cup ParseReason(it.st))
               /\ UNCHANGED <<index, out>>
    /\ items' = Tail(items)
    /\ UNCHANGED <<world, late, pc, disc, project, docs, graphs, imports, caches, done>>

TrustAnyCache(c, whole) == TRUE                                  \* mutant
\* cacheDone: the root was listed whole, and nothing in it was unreadable.
cacheDone(c, whole) == whole /\ reasonsOf(ledger, cacheId(c)) = {}

CacheRead ==
    /\ pc \in {"cache", "lastCache"} /\ items = <<>>
    /\ LET c == caches[left.scanned + 1]
           whole == Len(world.held[c]) <= world.entries
       IN /\ ledger' = degrade(ledger, cacheId(c), IF whole THEN {} ELSE {"entry_limit"})
          /\ done' = IF cacheDone(c, whole) THEN done \cup {c} ELSE done
    /\ left' = [left EXCEPT !.scanned = @ + 1]
    /\ pc' = IF pc = "cache" THEN "caches" ELSE "lastCaches"
    /\ UNCHANGED <<world, late, walks, queue, project, docs, graphs, imports, caches, index, items, out>>

-----------------------------------------------------------------------------
(* The other documents, one after the other.                               *)
Job(kind, at) == [kind |-> kind, at |-> at]
ofKind(kind) == SelectSeq(docs, LAMBDA x : x.kind = kind)

CachesRead ==
    /\ pc = "caches" /\ left.scanned = Len(caches)
    /\ queue' = ofKind("legacy") \o [i \in DOMAIN graphs |-> Job("graph", graphs[i])] \o world.stores
                \o ofKind("tools") \o <<Job("templates", Nowhere)>> \o ofKind("deps") \o ofKind("script")
    /\ pc' = "jobs"
    /\ UNCHANGED <<world, late, ledger, walks, left, project, docs, graphs, imports, caches, done, index, items, out>>

\* A document that is found, read, and emitted as a project and its packages.
Document(x, kind, asProject, records) ==
    LET id == <<kind, x.at>>
        led == source(ledger, id, x.root)
        got == read(led, id, x.st, FALSE)
        named == IF asProject THEN add(Now(got), id, {<<"project", x.at>>}) ELSE Now(got)
    IN IF Known(ledger, id) \/ ~Known(led, id) THEN Now(led)
       ELSE IF stopped(led) \/ ~Sound(x.st) THEN Now(got)
       ELSE IF asProject /\ ~Fits(got) THEN named
       ELSE add(named, id, records)

\* An entry of packages.config and, when its folder proves it, the package.
emitLegacy(x) ==
    LET id == <<"legacy_manifest", x.at>>
        g == Document(x, "legacy_manifest", TRUE, {<<"declared", p>> : p \in x.pkgs})
    IN IF ~Known(g.led, id) \/ stopped(g.led) \/ ~Sound(x.st) \/ x.installed = "missing" THEN g
       ELSE IF x.installed = "ok" THEN add(g, id, {<<"restored", p>> : p \in x.pkgs})
       ELSE [g EXCEPT !.led = degrade(@, id, IF x.installed = "odd" THEN {"identity_mismatch"}
                                            ELSE ReadReason(x.installed) \cup ParseReason(x.installed))]
emitDeps(x) == Document(x, "binary_metadata", FALSE, {<<"binary", p>> : p \in x.pkgs})

\* A tool manifest, with the resolver cache of the SDK as a source below it.
emitToolManifest(x) ==
    LET id == <<"tool_manifest", x.at>>
        rid == <<"tool_resolver_cache", x.at>>
        g == Document(x, "tool_manifest", TRUE, {})
        led == source(g.led, rid, id)
        resolved == IF x.installed = "missing" \/ stopped(g.led) THEN g.led
                    ELSE IF Known(led, rid) THEN read(led, rid, x.installed, TRUE) ELSE led
    IN IF ~Known(g.led, id) \/ stopped(g.led) \/ ~Sound(x.st) THEN g
       ELSE add([g EXCEPT !.led = resolved], id, {<<"tool", p>> : p \in x.pkgs})

\* A source file is a script only if it carries a package directive; one that
\* cannot be read marks the root it was found under.
emitScript(x) ==
    LET id == <<"script_manifest", x.at>>
        probe == CASE stopped(ledger) -> stopReason(ledger) [] ~stopped(ledger) /\ x.st = "missing" -> {"changed_during_scan"}
                   [] OTHER -> ReadReason(x.st)
    IN IF probe # {} THEN Now(degrade(ledger, x.root, probe))
       ELSE IF x.pkgs = {} THEN Now(ledger)
       ELSE Document(x, "script_manifest", TRUE, {<<"declared", p>> : p \in x.pkgs})

\* locate: a package is absent only if every folder was read to the end.
locate(e, p) ==
    LET folders == world.graph[e].folders
    IN IF \E c \in folders : <<c, p>> \in index THEN "present"
       ELSE IF folders # {} /\ folders \subseteq done THEN "absent" ELSE "unknown"
emitAssets(e) ==
    IF stopped(ledger) THEN Now(degrade(ledger, <<"project_assets", e>>, IF world.graph[e].pkgs = {} THEN {} ELSE stopReason(ledger)))
    ELSE add(Now(ledger), <<"project_assets", e>>, {<<"restored", p, locate(e, p)>> : p \in world.graph[e].pkgs})

\* toolStore and installedTool, the templates receipt: one entry at a time.
Entries(led, id, its) ==
    FoldLeft(LAMBDA g, it :
        CASE stopped(g.led) -> [g EXCEPT !.led = degrade(@, id, stopReason(@))]
          [] ~stopped(g.led) /\ it.st = "ok" -> add(g, id, {<<"installed", it.pkg>>})
          [] ~stopped(g.led) /\ it.st = "missing" -> g
          [] OTHER -> [g EXCEPT !.led = degrade(@, id, IF it.st = "odd" THEN {"extraction_incomplete"}
                                                      ELSE ReadReason(it.st) \cup ParseReason(it.st))], Now(led), its)

toolStore(x) ==
    LET id == <<"tool_store", x.at>>
        led == source(ledger, id, NoSource)
        cut == Len(x.tools) > world.entries
    IN CASE ~Known(led, id) -> Now(led)
         [] Known(led, id) /\ stopped(led) -> Now(presence(degrade(led, id, stopReason(led)), id, "unknown"))
         [] Known(led, id) /\ ~stopped(led) /\ world.dir[x.at] = "missing" -> Now(presence(led, id, "absent"))
         [] Known(led, id) /\ ~stopped(led) /\ world.dir[x.at] \notin {"missing", "ok"} ->
               Now(presence(degrade(led, id, {"permission_denied"}), id, "unknown"))
         [] OTHER -> IF cut THEN Entries(degrade(led, id, {"entry_limit"}), id, SubSeq(x.tools, 1, world.entries))
                     ELSE Entries(led, id, x.tools)

templates ==
    LET id == <<"template_receipt", Nowhere>>
        led == source(ledger, id, NoSource)
    IN IF ~Known(led, id) THEN Now(led)
       ELSE IF stopped(led) \/ ~Sound(world.templates.st) THEN Now(read(led, id, world.templates.st, TRUE))
       ELSE Entries(read(led, id, world.templates.st, TRUE), id, world.templates.entries)

DoJob ==
    /\ pc = "jobs" /\ queue # <<>>
    /\ LET job == Head(queue)
       IN /\ Into(CASE job.kind = "legacy" -> emitLegacy(job) [] job.kind = "graph" -> emitAssets(job.at)
                    [] job.kind = "store" -> toolStore(job) [] job.kind = "tools" -> emitToolManifest(job)
                    [] job.kind = "templates" -> templates [] job.kind = "deps" -> emitDeps(job)
                    [] job.kind = "script" -> emitScript(job))
          /\ caches' = IF job.kind \in {"legacy", "tools", "script"} /\ ~stopped(ledger) /\ Sound(job.st)
                       THEN caches \o cacheRoots(world.ambient[job.at]) ELSE caches
    /\ queue' = Tail(queue)
    /\ UNCHANGED <<world, late, pc, walks, left, project, docs, graphs, imports, done, index, items>>

JobsDone ==
    /\ pc = "jobs" /\ queue = <<>>
    /\ pc' = "lastCaches"
    /\ UNCHANGED <<world, late, ledger, disc, project, docs, graphs, imports, caches, done, index, items, out>>

LastCachesRead ==
    /\ pc = "lastCaches" /\ left.scanned = Len(caches)
    /\ pc' = "finish"
    /\ UNCHANGED <<world, late, ledger, disc, project, docs, graphs, imports, caches, done, index, items, out>>

\* finish, and the report that would be too large even so.
finish ==
    /\ pc = "finish"
    /\ IF world.big
       THEN ledger' = [ledger EXCEPT !.sources = <<>>, !.reasons = {"output_size_limit"}] /\ out' = {}
       ELSE UNCHANGED <<ledger, out>>
    /\ pc' = "done"
    /\ UNCHANGED <<world, late, disc, project, docs, graphs, imports, caches, done, index, items>>

Discovery == Resolve \/ Uncover \/ WalkRoot \/ Walked \/ PassOver \/ WalkDir \/ Discovered
Projects == discoverProjectAssets \/ ReadGraphs \/ readAssets \/ GraphsRead \/ importShared \/ emitProject \/ ProjectsEmitted
Caches == scanCache \/ cachedPackage \/ CacheRead \/ CachesRead \/ LastCachesRead
Step == Discovery \/ Projects \/ Caches \/ DoJob \/ JobsDone \/ finish

Next == Step \/ Expire
Spec == Init /\ [][Next]_vars

-----------------------------------------------------------------------------
TypeOK ==
    /\ late \in BOOLEAN /\ ledger.rows \in 0 .. world.records /\ ledger.bytes \in 0 .. world.bytes
    /\ \A id \in DOMAIN ledger.sources : ledger.sources[id].presence \in {"present", "absent", "unknown"}
    /\ DOMAIN project \subseteq Dir /\ Range(graphs) \subseteq Dir /\ done \subseteq Range(caches)

Complete(id) == Known(ledger, id) /\ ledger.sources[id].presence = "present" /\ reasonsOf(ledger, id) = {}
Over == pc = "done" /\ ~world.big

(* The directories a walk from r comes to, caches and packages apart.       *)
Reach(r) ==
    LET on(d) == {c \in Children(d) : world.dir[d] = "ok" /\ c \notin world.skip /\ ~inCache(c)
                                      /\ (d \in world.archive => has(d, "project"))}
    IN {d \in Closed(on, {r}) : d \in world.archive => has(d, "project")}

(* A complete root has every project and document below it, complete too,   *)
(* and each of these all of its records.                                    *)
RootsAreWhole ==
    Over => \A id \in DOMAIN ledger.sources : id[1] = "project_search_root" /\ Complete(id) =>
        \A d \in Reach(phys(id[2])) :
            /\ has(d, "project") =>
                 /\ Complete(projectId(d)) /\ <<projectId(d), <<"project", d>>>> \in out
                 /\ \A p \in world.project[d].refs : <<projectId(d), <<"declared", p>>>> \in out
            /\ \A x \in Range(world.docs) : x.at = d /\ x.kind # "script" =>
                 \E k \in {"legacy_manifest", "tool_manifest", "binary_metadata"} :
                    /\ Complete(<<k, d>>)
                    /\ \A p \in x.pkgs : \E how \in {"declared", "tool", "binary"} : <<<<k, d>>, <<how, p>>>> \in out

(* A complete shared file speaks for all the projects found that import it: *)
(* they were read, and its global references are there if one enables them. *)
SharedIsWhole ==
    Over => \A x \in DOMAIN imports.loaded : Complete(importId(x)) =>
        /\ \A d \in DOMAIN project : nearestImport(d, x[1]) = x => project[d].read /\ <<projectId(d), <<"project", d>>>> \in out
        /\ x[1] = "central" /\ (\E d \in DOMAIN project : nearestImport(d, x[1]) = x /\ world.managed[d] = "on") =>
              \A p \in world.shared["central"][x[2]].globals : <<importId(x), <<"global", p>>>> \in out

(* A complete cache lists what it holds, and a package reported absent is   *)
(* in none of the folders its project restores from.                        *)
AbsenceIsProven ==
    /\ Over => \A c \in Range(caches) : Complete(cacheId(c)) =>
           \A it \in Range(world.held[c]) : it.st # "missing" => <<cacheId(c), <<"cached", it.pkg>>>> \in out
    /\ \A e \in Dir, p \in UNION {world.graph[d].pkgs : d \in Dir} :
           <<<<"project_assets", e>>, <<"restored", p, "absent">>>> \in out =>
               \A c \in world.graph[e].folders : \A it \in Range(world.held[c]) : it.pkg = p => it.st = "missing"

(* What marks a source marks all that encloses it, and the report.          *)
ReasonsRise ==
    \A id \in DOMAIN ledger.sources :
        \A up \in Enclosing(ledger, id) : reasonsOf(ledger, id) \subseteq reasonsOf(ledger, up) \cap ledger.reasons

OmissionsReported == RootsAreWhole /\ SharedIsWhole /\ AbsenceIsProven /\ ReasonsRise
=============================================================================
