------------------------------ MODULE CargoScan -----------------------------
(***************************************************************************)
(* The inventory of a developer's Rust projects (internal/detector/        *)
(* cargoscan.go).  The backend reads a complete source as authoritative: a *)
(* package it does not list is gone.  So whatever the scan leaves out - an *)
(* unreadable directory, a limit reached, the deadline, a file that moved  *)
(* away under it - has to show as a reason on the source that would have   *)
(* held it, or on the whole inventory.                                     *)
(*                                                                         *)
(* Names stand for paths: dir d holds at most one Cargo.toml and one       *)
(* Cargo.lock, and a source is named by its kind and its directory.  A     *)
(* world is a machine: its files, the developer's environment and the      *)
(* limits of the collector.                                                *)
(***************************************************************************)
EXTENDS Directories

CONSTANT Worlds

\* The states of a file: present and sound, present with sound parts only
\* (m.invalid), or not to be had.
FileState == {"ok", "invalid", "broken", "missing", "denied", "big", "odd"}

VARIABLES
    world, late,    \* the machine, and whether the deadline has passed
    moved,          \* ghost: Cargo.toml files that vanished during the scan
    pc,
    ledger,         \* sources, global reasons and the budget
    cands, walks, queue, entries,       \* discovery
    order, man,     \* g.states: the manifests in order, and what is known of each
    vendored,       \* directory sources met by the walk, with their roots
    jobs, items,    \* lockfiles or stores still to be read, and the open one
    out             \* the records emitted: <<source, what>>

found == <<cands, walks, queue, entries>>
vars == <<world, late, moved, pc, ledger, found, order, man, vendored, jobs, items, out>>

-----------------------------------------------------------------------------
(* Paths.                                                                  *)
Above(d) == Ancestry[d]
Below(d) == {c \in Dir : Up[c] = d}

toml(d) == IF d \in moved THEN [world.toml[d] EXCEPT !.st = "missing"] ELSE world.toml[d]
IsPackage(d) == world.toml[d].pkg
IsWorkspace(d) == world.toml[d].ws

-----------------------------------------------------------------------------
(* Sources and the budget of records.                                      *)
NewSource(parent) == [reasons |-> {}, presence |-> "present", parent |-> parent]
NoSource == <<"none", Nowhere>>

degrade(led, id, why) == [led EXCEPT !.sources[id].reasons = @ \cup {why}]
globalReason(led, why) == [led EXCEPT !.reasons = @ \cup {why}]
presence(led, id, p) == [led EXCEPT !.sources[id].presence = p]

Enclosing(led, id) ==
    LET up[n \in Nat] == IF n = 0 THEN {id} \cap DOMAIN led.sources
                         ELSE UNION {{s} \cup ({led.sources[s].parent} \ {NoSource}) : s \in up[n - 1]}
    IN up[Cardinality(DOMAIN led.sources)]

ChargeOwnerOnly(led, id) ==                                      \* mutant
    IF led.budget > 0 THEN [led EXCEPT !.budget = @ - 1]
    ELSE IF id = NoSource THEN globalReason(led, "record_limit") ELSE degrade(led, id, "record_limit")

\* The first record that does not fit marks its source and all that enclose it.
Fits(led) == led.budget > 0
charge(led, id) ==
    IF Fits(led) THEN [led EXCEPT !.budget = @ - 1]
    ELSE IF id = NoSource THEN globalReason(led, "record_limit")
    ELSE [led EXCEPT !.sources =
             [s \in Enclosing(led, id) |-> [@[s] EXCEPT !.reasons = @ \cup {"record_limit"}]] @@ @]

\* register: once, under its parent if that one was registered.
register(led, id, src) ==
    LET parent == IF src.parent \in DOMAIN led.sources THEN src.parent ELSE NoSource
        paid == charge(led, parent)
    IN IF id \in DOMAIN led.sources THEN led
       ELSE IF ~Fits(led) THEN paid
       ELSE [paid EXCEPT !.sources = (id :> [src EXCEPT !.parent = parent]) @@ @]
addSource(led, id, parent) == register(led, id, NewSource(parent))

\* readFile and reason: why a file that is there cannot be read.
ReadReason(st) ==
    CASE st = "denied" -> {"permission_denied"} [] st = "big" -> {"size_limit"}
      [] st = "odd" -> {"unsupported_entry"} [] OTHER -> {}
ParseReason(st) == IF st \in {"broken", "invalid"} THEN {"parse_error"} ELSE {}

\* read: what becomes of a source whose file is in state st.  A targeted file
\* that is missing is absent, a discovered one has changed.
read(src, st, targeted) ==
    IF st = "missing"
    THEN IF targeted THEN [src EXCEPT !.presence = "absent"]
         ELSE [src EXCEPT !.presence = "unknown", !.reasons = @ \cup {"changed_during_scan"}]
    ELSE [src EXCEPT !.reasons = @ \cup ReadReason(st),
                     !.presence = IF st = "denied" THEN "unknown" ELSE @]

guardReason(d) == IF world.guard[d] = "volume" THEN "refused_network_volume" ELSE "skipped_protected"

unknown(src, why) == [src EXCEPT !.presence = "unknown", !.reasons = @ \cup {why}]
resolve(src, d) ==
    CASE world.dir[d] = "missing" -> [src EXCEPT !.presence = "absent"]
      [] world.dir[d] = "denied"  -> unknown(src, "permission_denied")
      [] OTHER -> src

\* rootFS without the file system it returns: the directory can be read.
rootFS(src, d) ==
    CASE late -> unknown(src, "deadline_exceeded")
      [] ~late /\ world.guard[d] # "clear" -> unknown(src, guardReason(d))
      [] OTHER -> resolve(src, d)
Readable(src) == src.presence = "present" /\ src.reasons = {}

-----------------------------------------------------------------------------
\* Scan's declined user and resolveHomes.
Init ==
    /\ world \in Worlds /\ late = FALSE /\ moved = {}
    /\ pc = IF world.user THEN "roots" ELSE "finish"
    /\ ledger = [sources |-> <<>>, budget |-> world.records,
                 reasons |-> (IF world.user THEN {} ELSE {"user_unresolved"})
                     \cup (IF world.user /\ world.verified /\ world.cargoHome = "relative"
                           THEN {"path_unresolved"} ELSE {})]
    /\ cands = <<>> /\ walks = <<>> /\ queue = <<>> /\ entries = 0
    /\ order = <<>> /\ man = <<>> /\ vendored = {}
    /\ jobs = <<>> /\ items = <<>> /\ out = {}

Expire ==
    /\ pc # "done" /\ ~late
    /\ late' = TRUE
    /\ UNCHANGED <<world, moved, pc, ledger, found, order, man, vendored, jobs, items, out>>

Vanish(d) ==
    /\ pc \in {"walk", "read"} /\ d \in world.fickle \ moved
    /\ moved' = moved \cup {d}
    /\ UNCHANGED <<world, late, pc, ledger, found, order, man, vendored, jobs, items, out>>

-----------------------------------------------------------------------------
(* Discovery: searchRoots and walkRoot.                                    *)
phys(d) == world.phys[d]

\* One search root is looked at.
lookAt(d) ==
    CASE world.guard[d] # "clear" -> unknown(NewSource(NoSource), guardReason(d))
      [] world.guard[d] = "clear" /\ late -> unknown(NewSource(NoSource), "deadline_exceeded")
      [] OTHER -> resolve(NewSource(NoSource), d)

Candidate ==
    /\ pc = "roots" /\ Len(cands) < Len(world.roots)
    /\ LET d == world.roots[Len(cands) + 1]
       IN cands' = Append(cands, [at |-> d, src |-> IF d = Nowhere THEN NewSource(NoSource) ELSE lookAt(d)])
    /\ UNCHANGED <<world, late, moved, pc, ledger, walks, queue, entries, order, man, vendored, jobs, items, out>>

Walkable(c) == c.at # Nowhere /\ Readable(c.src)
Folded(i) ==
    \/ \E j \in 1 .. i - 1 : cands[j].at = cands[i].at
    \/ /\ Walkable(cands[i])
       /\ \/ \E j \in 1 .. i - 1 : Walkable(cands[j]) /\ phys(cands[j].at) = phys(cands[i].at)
          \/ \E j \in DOMAIN cands : /\ Walkable(cands[j]) /\ phys(cands[j].at) # phys(cands[i].at)
                                     /\ Inside(phys(cands[i].at), phys(cands[j].at))

\* Each root that no other one covers gets a source, as long as the budget lasts.
searchRoots ==
    /\ pc = "roots" /\ Len(cands) = Len(world.roots)
    /\ LET Admit(led, i) ==
               LET c == cands[i]
                   id == <<"project_search_root", c.at>>
               IN IF c.at = Nowhere THEN globalReason(led, "path_unresolved")
                  ELSE IF Folded(i) \/ "record_limit" \in led.reasons THEN led
                  ELSE register(led, id, c.src)
           kept == FoldLeft(Admit, ledger, [i \in DOMAIN cands |-> i])
           open == SelectSeq(cands, LAMBDA c : Walkable(c) /\ <<"project_search_root", c.at>> \in DOMAIN kept.sources)
       IN /\ ledger' = kept
          /\ walks' = [i \in DOMAIN open |-> open[i].at]
    /\ pc' = "walk"
    /\ UNCHANGED <<world, late, moved, cands, queue, entries, order, man, vendored, jobs, items, out>>

\* enqueue, on what it changes: the ledger, the order and the manifests.
enqueue(g, d, parent) ==
    IF d = Nowhere \/ d \in DOMAIN g.man THEN g
    ELSE IF Len(g.order) >= world.records THEN [g EXCEPT !.led = globalReason(@, "record_limit")]
    ELSE [g EXCEPT !.order = Append(@, d),
                   !.man = (d :> [src |-> NewSource(parent), read |-> FALSE, root |-> Nowhere, unresolved |-> FALSE,
                                  members |-> {}, missing |-> {}, override |-> FALSE]) @@ @]
enqueueAll(g, dirs, parent) == FoldLeft(LAMBDA h, d : enqueue(h, d, parent), g, InOrder(dirs))
Queued == [led |-> ledger, order |-> order, man |-> man]
Queue(g) == ledger' = g.led /\ order' = g.order /\ man' = g.man

rootId == <<"project_search_root", Head(walks)>>
HasToml(d) == toml(d).st # "missing"
Names(d) == {<<"dir", c>> : c \in {c \in Below(d) : world.dir[c] # "missing"}}
            \cup (IF HasToml(d) THEN {<<"toml", d>>} ELSE {})
            \cup (IF world.sum[d] # "missing" THEN {<<"sum", d>>} ELSE {})

WalkRoot ==
    /\ pc = "walk" /\ walks # <<>>
    /\ queue' = <<phys(Head(walks))>> /\ entries' = world.entries
    /\ pc' = "walking"
    /\ UNCHANGED <<world, late, moved, ledger, cands, walks, order, man, vendored, jobs, items, out>>

LeaveRoot == walks' = Tail(walks) /\ queue' = <<>> /\ entries' = 0 /\ pc' = "walk"

WalkLate ==
    /\ pc = "walking" /\ queue # <<>> /\ late
    /\ ledger' = degrade(ledger, rootId, "deadline_exceeded")
    /\ LeaveRoot
    /\ UNCHANGED <<world, late, moved, cands, order, man, vendored, jobs, items, out>>

Walked ==
    /\ pc = "walking" /\ queue = <<>>
    /\ LeaveRoot
    /\ UNCHANGED <<world, late, moved, ledger, cands, order, man, vendored, jobs, items, out>>

WalkUnlisted ==
    /\ pc = "walking" /\ queue # <<>> /\ ~late /\ world.dir[Head(queue)] # "ok"
    /\ LET led == degrade(ledger, rootId, "permission_denied")
       IN ledger' = IF Head(queue) = phys(Head(walks)) THEN presence(led, rootId, "unknown") ELSE led
    /\ queue' = Tail(queue)
    /\ UNCHANGED <<world, late, moved, pc, cands, walks, entries, order, man, vendored, jobs, items, out>>

\* The names of a directory come as far as the entry limit goes.
Listed(d) == {shown \in SUBSET Names(d) :
                 Cardinality(shown) = IF Cardinality(Names(d)) > entries THEN entries ELSE Cardinality(Names(d))}

VendoredHere(d, shown) == d # phys(Head(walks)) /\ {<<"toml", d>>, <<"sum", d>>} \subseteq shown

WalkVendored ==
    /\ pc = "walking" /\ queue # <<>> /\ ~late
    /\ LET d == Head(queue)
       IN /\ world.dir[d] = "ok"
          /\ \E shown \in Listed(d) :
                 /\ VendoredHere(d, shown)
                 /\ vendored' = vendored \cup {<<Up[d], rootId>>}
                 /\ entries' = entries - Cardinality(shown)
    /\ queue' = Tail(queue)
    /\ UNCHANGED <<world, late, moved, pc, ledger, cands, walks, order, man, jobs, items, out>>

DescendQuietly(c, deep) ==                                       \* mutant
    [follow |-> world.guard[c] = "clear" /\ ~deep, reasons |-> {}]
Descend(c, deep) ==
    [follow  |-> world.guard[c] = "clear" /\ ~deep,
     reasons |-> IF world.guard[c] = "volume" THEN {"refused_network_volume"}
                 ELSE IF world.guard[c] = "clear" /\ deep THEN {"depth_limit"} ELSE {}]

WalkDir ==
    /\ pc = "walking" /\ queue # <<>> /\ ~late
    /\ LET d == Head(queue)
       IN /\ world.dir[d] = "ok"
          /\ \E shown \in Listed(d) :
                 LET deep == Cardinality(Above(d)) - Cardinality(Above(phys(Head(walks)))) >= world.depth
                     dirs == {c \in Dir \ world.skip : <<"dir", c>> \in shown}
                     more == shown # Names(d)
                     whys == UNION {Descend(c, deep).reasons : c \in dirs} \cup (IF more THEN {"entry_limit"} ELSE {})
                     read_ == [Queued EXCEPT !.led.sources[rootId].reasons = @ \cup whys]
                 IN /\ ~VendoredHere(d, shown)
                    /\ Queue(IF <<"toml", d>> \in shown THEN enqueue(read_, d, rootId) ELSE read_)
                    /\ IF more THEN LeaveRoot
                       ELSE /\ queue' = Tail(queue) \o InOrder({c \in dirs : Descend(c, deep).follow})
                            /\ entries' = entries - Cardinality(shown)
                            /\ UNCHANGED <<walks, pc>>
    /\ UNCHANGED <<world, late, moved, cands, vendored, jobs, items, out>>

-----------------------------------------------------------------------------
(* Manifests: readQueued, enqueueInherited and associate.                  *)
Unread(d) == ~man[d].read /\ Readable(man[d].src)
m(d) == world.toml[d]

refs(d) == (IF IsWorkspace(d) THEN m(d).members ELSE {}) \cup {m(d).ref} \cup m(d).deps \cup m(d).overrides

readQueued ==
    /\ (pc = "walk" /\ walks = <<>>) \/ pc = "read"
    /\ \E i \in DOMAIN order :
          LET d == order[i]
              targeted == man[d].src.parent \notin DOMAIN ledger.sources
              got == read(man[d].src, toml(d).st, targeted)
              sound == toml(d).st \in {"ok", "invalid"}
              src == IF late THEN unknown(man[d].src, "deadline_exceeded")
                     ELSE [got EXCEPT !.reasons = @ \cup ParseReason(toml(d).st)]
              known == [Queued EXCEPT !.man[d].src = src, !.man[d].read = ~late /\ sound]
          IN /\ Unread(d) /\ \A j \in 1 .. i - 1 : ~Unread(order[j])
             /\ Queue(IF ~late /\ sound THEN enqueueAll(known, refs(d), <<"manifest", d>>) ELSE known)
    /\ pc' = "read"
    /\ UNCHANGED <<world, late, moved, found, vendored, jobs, items, out>>

InheritedDep(d, root) ==
    IF m(d).inherits /\ root # Nowhere /\ IsWorkspace(root) THEN {m(root).table} \ {Nowhere} ELSE {}
pathDeps(d, root) == m(d).deps \cup InheritedDep(d, root)

\* The workspace root a package names, or the nearest ancestor that does not
\* exclude it; unresolved where one that may be it cannot be read.
excludes(r, d) == (\E e \in m(r).exclude : Inside(d, e)) /\ ~\E e \in m(r).members : Inside(d, e)
IsRoot(d) == d \in DOMAIN man /\ man[d].read /\ IsWorkspace(d)
Nearest(dirs) == CHOOSE d \in dirs : \A e \in dirs : Inside(d, e)

nominate(d) ==
    LET above == {a \in Above(d) \ {d} : a \in DOMAIN man}
        blind == {a \in above : ~man[a].read /\ man[a].src.presence # "absent"}
        stops == blind \cup {a \in above : IsRoot(a) /\ ~excludes(a, d)}
    IN CASE IsRoot(d) -> [root |-> d, unresolved |-> FALSE]
         [] ~IsRoot(d) /\ m(d).ref # Nowhere ->
               [root |-> IF IsRoot(m(d).ref) THEN m(d).ref ELSE Nowhere, unresolved |-> ~IsRoot(m(d).ref)]
         [] ~IsRoot(d) /\ m(d).ref = Nowhere /\ stops = {} -> [root |-> Nowhere, unresolved |-> FALSE]
         [] OTHER -> [root |-> IF Nearest(stops) \in blind THEN Nowhere ELSE Nearest(stops),
                      unresolved |-> Nearest(stops) \in blind]

\* The packages and workspace roots read.
contexts == {d \in DOMAIN man : man[d].read /\ (IsPackage(d) \/ IsWorkspace(d))}

\* resolveMembers: what a root admits, and what it lists and cannot have.
resolveMembers(mans, r) ==
    LET package(d) == d \in DOMAIN mans /\ mans[d].read /\ IsPackage(d)
        free(d) == package(d) /\ (d = r \/ ~excludes(r, d)) /\ mans[d].root \in {Nowhere, r}
        listed == {d \in m(r).members \cup {r} : free(d)}
                  \cup {d \in DOMAIN mans \ {r} : m(r).glob /\ Up[d] = r /\ free(d)}
        members == Closed(LAMBDA d : {e \in pathDeps(d, r) : Inside(e, r) /\ free(e)}, listed)
    IN (r :> [mans[r] EXCEPT !.members = members, !.missing = {e \in m(r).members : ~package(e)},
                             !.src.reasons = @ \cup (IF m(r).odd THEN {"workspace_unresolved"} ELSE {})])
       @@ [d \in members |-> [mans[d] EXCEPT !.root = r]] @@ mans

associate ==
    /\ pc \in {"walk", "read"} /\ (pc = "walk" => walks = <<>>)
    /\ \A d \in DOMAIN man : ~Unread(d)
    /\ LET fresh ==
               [d \in contexts |-> [man[d] EXCEPT !.members = {}, !.missing = {}, !.root = nominate(d).root,
                                                  !.unresolved = nominate(d).unresolved]] @@ man
           linked == FoldLeft(resolveMembers, fresh, SelectSeq(order, IsRoot))
           Stray(d) == LET r == linked[d].root IN r \notin {Nowhere, d} /\ d \notin linked[r].members
       IN man' = [d \in DOMAIN man |->
                    IF Stray(d) THEN [linked[d] EXCEPT !.root = Nowhere, !.unresolved = TRUE] ELSE linked[d]]
    /\ pc' = "associated"
    /\ UNCHANGED <<world, late, moved, ledger, found, order, vendored, jobs, items, out>>

Inherited == UNION {InheritedDep(d, man[d].root) : d \in {d \in DOMAIN man : man[d].read /\ man[d].root # Nowhere}}

enqueueInherited ==
    /\ pc = "associated"
    /\ LET step(g, d) == IF man[d].read /\ man[d].root # Nowhere
                         THEN enqueueAll(g, InheritedDep(d, man[d].root), <<"manifest", d>>) ELSE g
           g == FoldLeft(step, Queued, order)
       IN Queue(g) /\ pc' = IF Len(g.order) > Len(order) THEN "read" ELSE "detect"
    /\ UNCHANGED <<world, late, moved, found, vendored, jobs, items, out>>

\* The configuration of every context, as far as the scan uses it, and the
\* directories its path overrides name.
LocalPaths == UNION {world.config[d] : d \in contexts}

Detect ==
    /\ pc = "detect"
    /\ LET g == enqueueAll(Queued, LocalPaths, NoSource)
       IN /\ Queue([g EXCEPT !.man = [d \in DOMAIN @ |-> IF d \in DOMAIN man THEN @[d]
                                                         ELSE [@[d] EXCEPT !.override = TRUE]]])
          /\ pc' = IF Len(g.order) > Len(order) THEN "read" ELSE "register"
    /\ UNCHANGED <<world, late, moved, found, vendored, jobs, items, out>>

-----------------------------------------------------------------------------
(* Records: registerManifests and emitProjects.                            *)
SourceDirs == {v[1] : v \in vendored} \cup world.directory \cup {s.at : s \in {s \in Range(world.stores) : s.kind = "local_registry"}}

registerManifests ==
    /\ pc = "register"
    /\ LET step(g, d) ==
               LET id == <<"manifest", d>>
                   led == register(g.led, id, man[d].src)
               IN IF \E e \in SourceDirs : Inside(d, e) THEN g
                  ELSE IF id \notin DOMAIN led.sources THEN [g EXCEPT !.led = led]
                  ELSE [led |-> IF man[d].unresolved THEN degrade(led, id, "workspace_unresolved") ELSE led,
                        order |-> Append(g.order, d)]
           kept == FoldLeft(step, [led |-> ledger, order |-> <<>>], order)
           Rootless(d) == d \in Range(kept.order) /\ man[d].root \notin Range(kept.order) \cup {Nowhere}
       IN /\ order' = kept.order
          /\ man' = [d \in DOMAIN man |-> IF Rootless(d) THEN [man[d] EXCEPT !.root = Nowhere, !.unresolved = TRUE]
                                         ELSE man[d]]
          /\ ledger' = [kept.led EXCEPT !.sources = [id \in DOMAIN @ |->
                 IF id[1] = "manifest" /\ Rootless(id[2]) THEN [@[id] EXCEPT !.reasons = @ \cup {"workspace_unresolved"}]
                 ELSE @[id]]]
    /\ pc' = "projects"
    /\ UNCHANGED <<world, late, moved, found, vendored, jobs, items, out>>

\* addPackage and its like: a record, if the budget has room for it.
emit(g, id, what) == [led |-> charge(g.led, id), out |-> IF Fits(g.led) THEN g.out \cup {<<id, what>>} ELSE g.out]

Kept == Range(order)
inheritedEntry(d) == IF InheritedDep(d, man[d].root) = {} THEN {Nowhere} ELSE InheritedDep(d, man[d].root)
declarations(d) == {<<"dep", e>> : e \in m(d).deps \cup (IF m(d).inherits THEN inheritedEntry(d) ELSE {})}
workspaceRecord(d) == [members |-> man[d].members \cap Kept, missing |-> man[d].missing]

emitProjects ==
    /\ pc = "projects"
    /\ LET id(d) == <<"manifest", d>>
           project(g, d) == IF man[d].read THEN emit(g, id(d), <<"project", man[d].root>>) ELSE g
           workspace(g, d) ==
               LET h == [g EXCEPT !.led = IF man[d].missing = {} THEN @ ELSE degrade(@, id(d), "workspace_unresolved")]
               IN IF man[d].root = d THEN emit(h, id(d), <<"workspace", workspaceRecord(d)>>) ELSE g
           deps(g, d) == IF man[d].read /\ IsPackage(d)
                         THEN FoldLeft(LAMBDA h, e : emit(h, id(d), e), g, InOrder(declarations(d))) ELSE g
           g == FoldLeft(deps, FoldLeft(workspace, FoldLeft(project, [led |-> ledger, out |-> out], order), order), order)
       IN ledger' = g.led /\ out' = g.out
    /\ pc' = "locks"
    /\ UNCHANGED <<world, late, moved, found, order, man, vendored, jobs, items>>

-----------------------------------------------------------------------------
(* Lockfiles: emitLockfiles, readLockfile and localLockOrigin.             *)
Heads == {d \in Kept : /\ man[d].read
                       /\ \/ man[d].root = d
                          \/ man[d].root = Nowhere /\ IsPackage(d) /\ ~man[d].unresolved /\ ~man[d].override}
group(d) == {d} \cup (IF man[d].root = d THEN man[d].members ELSE {})
LockfilePath(h, d) == IF world.lockAt[d] = Nowhere THEN h ELSE world.lockAt[d]
LockfilePaths(h) == {LockfilePath(h, d) : d \in group(h) \cap Kept}

\* An entry without a source that names a member is kept only when a member
\* depends on it.
kept(h, e) == e \in group(h) => e \in UNION {pathDeps(d, man[d].root) : d \in group(h)}

emitLockfiles ==
    /\ pc = "locks"
    /\ jobs' = FlattenSeq([i \in DOMAIN order |->
          IF order[i] \in Heads
          THEN LET at == InOrder(LockfilePaths(order[i])) IN [k \in DOMAIN at |-> <<order[i], at[k]>>]
          ELSE <<>>])
    /\ pc' = "lock"
    /\ UNCHANGED <<world, late, moved, ledger, found, order, man, vendored, items, out>>

readLockfile ==
    /\ pc = "lock" /\ jobs # <<>>
    /\ LET h == Head(jobs)[1]
           at == Head(jobs)[2]
           id == <<"lockfile", at>>
           led == addSource(ledger, id, <<"manifest", h>>)
           got == IF late THEN unknown(led.sources[id], "deadline_exceeded")
                  ELSE LET r == read(led.sources[id], world.lock[at].st, TRUE)
                       IN [r EXCEPT !.reasons = @ \cup ParseReason(world.lock[at].st)]
           entered == {e \in world.lock[at].pkgs : kept(h, e)}
           start == [led |-> [led EXCEPT !.sources[id] = got], out |-> out]
           g == IF ~late /\ world.lock[at].st \in {"ok", "invalid"}
                THEN FoldLeft(LAMBDA x, e : emit(x, id, <<"locked", e>>), start, InOrder(entered)) ELSE start
       IN IF id \in DOMAIN ledger.sources \/ id \notin DOMAIN led.sources
          THEN ledger' = (IF id \in DOMAIN ledger.sources THEN ledger ELSE led) /\ UNCHANGED out
          ELSE ledger' = g.led /\ out' = g.out
    /\ jobs' = Tail(jobs)
    /\ UNCHANGED <<world, late, moved, pc, found, order, man, vendored, items>>

-----------------------------------------------------------------------------
(* Stores of packages: directory sources, local registries, and in each    *)
(* Cargo home its registry cache, its Git checkouts and its receipts.      *)
Store(kind, at, parent, its) == [kind |-> kind, at |-> at, parent |-> parent, receipt |-> "ok", detail |-> "ok", items |-> its]
children(d) == InOrder({c \in Below(d) : world.dir[c] # "missing"})
walkedFrom(d) ==
    LET ids == {v[2] : v \in {v \in vendored : v[1] = d}} IN IF ids = {} THEN NoSource ELSE CHOOSE id \in ids : TRUE
Sources(dirs) == [i \in DOMAIN dirs |-> Store("directory_source", dirs[i], walkedFrom(dirs[i]), children(dirs[i]))]

OpenStores ==
    /\ pc = "lock" /\ jobs = <<>>
    /\ LET walked == {v[1] : v \in vendored}
       IN jobs' = Sources(InOrder(walked)) \o Sources(InOrder(world.directory \ walked)) \o world.stores
    /\ pc' = "stores"
    /\ UNCHANGED <<world, late, moved, ledger, found, order, man, vendored, items, out>>

\* readInstallRoot before its loop: .crates.toml decides, .crates2.json adds.
receiptReasons(s) == ReadReason(s.receipt) \cup ParseReason(s.receipt)
                     \cup (IF s.receipt = "ok" THEN ReadReason(s.detail) \cup ParseReason(s.detail) ELSE {})

OpenStore ==
    /\ pc = "stores" /\ jobs # <<>>
    /\ LET s == Head(jobs)
           id == <<s.kind, s.at>>
           led == addSource(ledger, id, s.parent)
           src == rootFS(led.sources[id], s.at)
           cut == Len(s.items) > world.entries /\ s.kind # "install_root"
           whys == (IF world.dir[s.at] = "closed" THEN {"permission_denied"} ELSE {})
                   \cup (IF cut THEN {"entry_limit"} ELSE {}) \cup receiptReasons(s)
           opened == IF Readable(src) THEN [src EXCEPT !.reasons = whys] ELSE src
       IN IF id \notin DOMAIN led.sources
          THEN ledger' = led /\ jobs' = Tail(jobs) /\ UNCHANGED <<items, pc>>
          ELSE /\ ledger' = [led EXCEPT !.sources[id] = opened]
               /\ items' = IF ~Readable(src) \/ world.dir[s.at] # "ok" \/ s.receipt # "ok" THEN <<>>
                           ELSE IF cut THEN SubSeq(s.items, 1, world.entries) ELSE s.items
               /\ pc' = "store" /\ UNCHANGED jobs
    /\ UNCHANGED <<world, late, moved, found, order, man, vendored, out>>

Item(n, whys) == [records |-> n, reasons |-> whys]
Unsupported == Item(0, {"unsupported_entry"})
Sound(st) == st \in {"ok", "invalid"}

\* readVendored: its Cargo.toml, then its checksum.
vendoredItem(c) ==
    IF toml(c).st = "missing" THEN Item(0, {})
    ELSE IF ~Sound(toml(c).st) THEN Item(0, ReadReason(toml(c).st) \cup ParseReason(toml(c).st))
    ELSE IF ~IsPackage(c) THEN Item(0, {"parse_error"})
    ELSE Item(1, ReadReason(world.sum[c]) \cup (IF world.sum[c] = "broken" THEN {"parse_error"} ELSE {}))

\* archiveArtifact and probeArchive.
archive(st) == IF st = "missing" THEN {"changed_during_scan"}
               ELSE ReadReason(st) \cup (IF Sound(st) THEN {} ELSE ParseReason(st))
probe(st) == CASE st = "missing" -> {"changed_during_scan"} [] st = "odd" -> {"unsupported_entry"}
               [] st = "denied" -> {"permission_denied"} [] OTHER -> {}

\* cacheRecord: extracted sources name the package, else the archive does.
extracted(it) == IF it.toml = "missing" THEN {"extraction_incomplete"} ELSE ReadReason(it.toml) \cup
                 (IF Sound(it.toml) THEN {} ELSE ParseReason(it.toml))
cacheRecord(it) ==
    IF ~it.named THEN Unsupported
    ELSE Item(1, (IF "extracted" \in it.slot
                  THEN extracted(it) \cup (IF it.marker THEN {} ELSE {"extraction_incomplete"}) ELSE {})
                 \cup (IF "archive" \notin it.slot THEN {}
                       ELSE IF "extracted" \in it.slot /\ Sound(it.toml) THEN probe(it.crate) ELSE archive(it.crate)))

\* readCheckout: every manifest below the checkout is read before any is emitted.
readCheckout(it) ==
    Item(Len(SelectSeq(it.tomls, Sound)),
         (IF it.marker THEN {} ELSE {"extraction_incomplete"})
         \cup UNION {IF Sound(it.tomls[i]) THEN {} ELSE ReadReason(it.tomls[i]) \cup ParseReason(it.tomls[i]) : i \in DOMAIN it.tomls})

\* One package of .crates.toml, with the state of its binary.
installation(it) == IF ~it.named THEN Item(0, {"parse_error"}) ELSE Item(1, ReadReason(it.bin) \ {"size_limit", "unsupported_entry"})

itemOf(kind, it) ==
    CASE kind = "directory_source"  -> vendoredItem(it)
      [] kind = "local_registry"    -> IF it.named THEN Item(1, archive(it.crate)) ELSE Unsupported
      [] kind = "registry_cache"    -> cacheRecord(it)
      [] kind = "git_checkout_root" -> readCheckout(it)
      [] kind = "install_root"      -> installation(it)

ReadItem ==
    /\ pc = "store" /\ items # <<>>
    /\ LET s == Head(jobs)
           id == <<s.kind, s.at>>
           it == itemOf(s.kind, Head(items))
           rest(n) == [led |-> [ledger EXCEPT !.sources[id].reasons = @ \cup it.reasons], out |-> out]
           g == FoldLeft(LAMBDA x, n : emit(x, id, <<Head(items), n>>), rest(0), [n \in 1 .. it.records |-> n])
           stopped == late /\ s.kind # "install_root" /\ it # Unsupported
       IN /\ ledger' = IF stopped THEN degrade(ledger, id, "deadline_exceeded") ELSE g.led
          /\ out' = IF stopped THEN out ELSE g.out
          /\ items' = IF stopped \/ (it.records > 0 /\ ledger.budget < it.records) THEN <<>> ELSE Tail(items)
    /\ UNCHANGED <<world, late, moved, pc, found, order, man, vendored, jobs>>

StoreRead ==
    /\ pc = "store" /\ items = <<>>
    /\ jobs' = Tail(jobs) /\ pc' = "stores"
    /\ UNCHANGED <<world, late, moved, ledger, found, order, man, vendored, items, out>>

StoresRead ==
    /\ pc = "stores" /\ jobs = <<>>
    /\ pc' = "finish"
    /\ UNCHANGED <<world, late, moved, ledger, found, order, man, vendored, jobs, items, out>>

\* finish rolls the reasons up; too large a report is replaced by an empty one.
finish ==
    /\ pc = "finish"
    /\ IF world.big
       THEN /\ ledger' = [ledger EXCEPT !.sources = <<>>, !.reasons = {"output_size_limit"}]
            /\ out' = {}
       ELSE UNCHANGED <<ledger, out>>
    /\ pc' = "done"
    /\ UNCHANGED <<world, late, moved, found, order, man, vendored, jobs, items>>

Walk == WalkRoot \/ WalkLate \/ Walked \/ WalkUnlisted \/ WalkVendored \/ WalkDir
Manifests == readQueued \/ associate \/ enqueueInherited \/ Detect \/ registerManifests \/ emitProjects
Stores == OpenStores \/ OpenStore \/ ReadItem \/ StoreRead \/ StoresRead
Step == Candidate \/ searchRoots \/ Walk \/ Manifests \/ emitLockfiles \/ readLockfile \/ Stores \/ finish

Next == Step \/ Expire \/ \E d \in Dir : Vanish(d)

Spec == Init /\ [][Next]_vars

-----------------------------------------------------------------------------
TypeOK ==
    /\ late \in BOOLEAN /\ moved \subseteq Dir
    /\ ledger.budget \in 0 .. world.records
    /\ \A id \in DOMAIN ledger.sources :
          /\ ledger.sources[id].presence \in {"present", "absent", "unknown"}
          /\ ledger.sources[id].parent \in DOMAIN ledger.sources \cup {NoSource}
    /\ DOMAIN man = Range(order) \/ pc \notin {"walk", "walking", "read", "associated", "detect", "register"}

sources == DOMAIN ledger.sources
Complete(id) == id \in sources /\ ledger.sources[id].presence = "present" /\ ledger.sources[id].reasons = {}
Over == pc = "done" /\ ledger.reasons = {}

\* What a walk from r comes to see when nothing stops it.
Reach(r) ==
    LET open(d) == world.dir[d] = "ok"
        in(d) == d \notin world.skip /\ world.guard[d] = "clear" /\ world.dir[d] # "missing"
        vendoredDir(d) == d # r /\ HasToml(d) /\ world.sum[d] # "missing"
        on(d) == {c \in Below(d) : in(c) /\ open(d) /\ ~vendoredDir(d)}
    IN {d \in Closed(on, {r}) : ~vendoredDir(d)}

(* A complete search root has every manifest below it, save the package     *)
(* source inside vendored or configured directories.                        *)
RootsAreWhole ==
    Over => \A id \in sources : id[1] = "project_search_root" /\ Complete(id) =>
        \A d \in Reach(phys(id[2])) :
            HasToml(d) /\ d \notin moved /\ (\A e \in SourceDirs : ~Inside(d, e)) => <<"manifest", d>> \in sources

(* A complete manifest has its project, its declarations, its workspace     *)
(* with all members it lists, and its lockfile.                             *)
ManifestsAreWhole ==
    Over => \A d \in Dir : Complete(<<"manifest", d>>) =>
        LET id == <<"manifest", d>>
        IN /\ <<id, <<"project", man[d].root>>>> \in out
           /\ IsPackage(d) => \A e \in declarations(d) : <<id, e>> \in out
           /\ IsWorkspace(d) =>
                 \E w \in {workspaceRecord(d)} : /\ <<id, <<"workspace", w>>>> \in out
                                                 /\ w.missing = {}
           /\ d \in Heads => \A at \in LockfilePaths(d) : <<"lockfile", at>> \in sources
           /\ man[d].root = Nowhere /\ IsPackage(d) => ~man[d].unresolved

(* A complete lockfile has an entry for every package of some group that    *)
(* selects it, and a complete store every package in it.                    *)
StoresAreWhole ==
    Over =>
      /\ \A at \in Dir : Complete(<<"lockfile", at>>) =>
            \E h \in Heads : \A e \in world.lock[at].pkgs : (kept(h, e) => <<<<"lockfile", at>>, <<"locked", e>>>> \in out)
      /\ \A s \in Range(world.stores) : Complete(<<s.kind, s.at>>) /\ s.receipt = "ok" =>
            \A i \in DOMAIN s.items : \A n \in 1 .. itemOf(s.kind, s.items[i]).records :
                <<<<s.kind, s.at>>, <<s.items[i], n>>>> \in out
      /\ \A d \in Dir : Complete(<<"directory_source", d>>) =>
            \A c \in Below(d) : world.dir[c] # "missing" /\ vendoredItem(c).records = 1 =>
                <<<<"directory_source", d>>, <<c, 1>>>> \in out
      /\ \A v \in vendored : Complete(v[2]) => <<"directory_source", v[1]>> \in sources

(* Where the budget ran out, every enclosing source says so.                *)
LimitsRise ==
    \A id \in sources : "record_limit" \in ledger.sources[id].reasons =>
        \A up \in Enclosing(ledger, id) : "record_limit" \in ledger.sources[up].reasons

(* Whatever the scan leaves out shows as a reason where it would have been. *)
OmissionsReported == RootsAreWhole /\ ManifestsAreWhole /\ StoresAreWhole /\ LimitsRise

(* A package has one workspace root, and that root counts it as a member,   *)
(* whatever the order in which manifests turned up.                         *)
MembershipAgrees ==
    pc \in {"associated", "detect", "register"} =>
        \A d \in DOMAIN man :
            /\ man[d].root \notin {Nowhere, d} => d \in man[man[d].root].members
            /\ \A e \in man[d].members : man[e].root = d /\ man[e].read
=============================================================================
