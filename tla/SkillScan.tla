------------------------------ MODULE SkillScan -----------------------------
(***************************************************************************)
(* The inventory of a developer's agent skills and commands                *)
(* (internal/detector/skills.go, skills_lock.go, skills_frontmatter.go and *)
(* claudeprojects.go): the skill roots of the user and of every project,   *)
(* the projects themselves - registered, found by another scanner, or met  *)
(* on a walk through the home directory - the lock files that tell where a *)
(* skill came from, and the recorded uses of each.                         *)
(*                                                                         *)
(* A directory holds at most one SKILL.md; a link is a directory that      *)
(* leads to another.  Truncated, in the report, stands for "what is not    *)
(* here may still exist": without it the backend forgets what it no longer *)
(* sees.                                                                   *)
(***************************************************************************)
EXTENDS Directories

CONSTANT Worlds

VARIABLES
    world, late, pc,
    info, found, discovered,    \* the report's own account; the records of this root, and of those before
    disc,                       \* the account of project discovery
    queue, stack, root, visits, \* roots left, what is left of this one, the root, its directories read
    walk,                       \* the walk through the home: reads made, candidates, directories listed
    projects, commands, uses,   \* projects, commands, and the recorded uses
    report                      \* what is returned

vars == <<world, late, pc, info, found, discovered, disc, queue, stack, root, visits, walk, projects, commands, uses, report>>

-----------------------------------------------------------------------------
(* The machine.                                                            *)
\* tcc: the walk meets a protected directory itself, other paths may lie in it.
ShouldSkip(d, from) == d # from /\ d \in world.protected
WithinProtected(d) == d \in Dir /\ \E p \in world.protected : Inside(d, p)

real(d) == world.real[d]                         \* EvalSymlinks; Nowhere if it fails
resolvePath(d) == IF real(d) = Nowhere THEN d ELSE real(d)
DirExists(d) == real(d) # Nowhere
Listable(d) == DirExists(d) /\ real(d) \notin world.closed
Entries(d) == InOrder({c \in Dir : Up[c] = real(d) /\ world.kind[c] # "missing"})
Real(c) == world.kind[c] = "dir"
Role(c, role) == world.role[c] = role

\* findSkillMD: a regular file, so named.
IsSkill(d) == world.md[d].st \notin {"none", "special"}

\* splitFrontmatter: the lines between the fences, and those after; an
\* indented fence opens but does not close.
splitFrontmatter(text) ==
    LET content == {i \in DOMAIN text : text[i] # "blank"}
        first == IF content = {} THEN 0 ELSE Min(content)
        closing == {i \in DOMAIN text : i > first /\ text[i] = "fence"}
    IN IF first = 0 \/ text[first] \notin {"fence", "indented"} \/ closing = {}
       THEN [ok |-> FALSE, fm |-> {}, body |-> Range(text)]
       ELSE [ok |-> TRUE, fm |-> Range(SubSeq(text, first + 1, Min(closing) - 1)),
             body |-> Range(SubSeq(text, Min(closing) + 1, Len(text)))]

\* A directive runs when the skill is loaded, so only the body may hold one.
hasLoadTimeShellExec(body) == "directive" \in body
\* quoteFixYAML: a value with a bare colon ("colon") is quoted and read again.
parseYAMLMap(fm) == [ok |-> "invalid" \notin fm, name |-> "name" \in fm, description |-> {"description", "colon"} \cap fm # {}]

Parsed(name, hash, shell, error) == [name |-> name, hash |-> hash, shell |-> shell, error |-> error]
parseSkillMD(md) ==
    LET s == splitFrontmatter(md.text)
        shell == hasLoadTimeShellExec(s.body)
        yaml == parseYAMLMap(s.fm)
    IN CASE md.st = "big" -> Parsed("", FALSE, FALSE, "file_too_large")
         [] md.st \notin {"big", "ok"} -> Parsed("", FALSE, FALSE, "unreadable")
         [] md.st = "ok" /\ ~s.ok -> Parsed("", TRUE, shell, "missing_name")
         [] md.st = "ok" /\ s.ok /\ ~yaml.ok -> Parsed("", TRUE, shell, "invalid_yaml")
         [] OTHER -> Parsed(IF yaml.name THEN md.name ELSE "", TRUE, shell,
                            IF ~yaml.name THEN "missing_name" ELSE IF ~yaml.description THEN "missing_description" ELSE "")

\* addError: a bounded list.
addError(i, e) == IF Len(i.errors) < world.max.errors THEN [i EXCEPT !.errors = Append(@, e)] ELSE i
Truncate(i, e) == addError([i EXCEPT !.truncated = TRUE], e)
Account == [truncated |-> FALSE, errors |-> <<>>, commands |-> "unset", locks |-> 0]

Task(what, d, n) == [what |-> what, at |-> d, n |-> n]       \* n: its depth, or which file of d
Tasks(seq, what(_), n) == [i \in DOMAIN seq |-> Task(what(seq[i]), seq[i], n)]

-----------------------------------------------------------------------------
(* Skill roots.                                                            *)
SkillRoot(d, source, project, excluded) == [at |-> d, source |-> source, project |-> project, excluded |-> excluded]
NoRoot == SkillRoot(Nowhere, "none", Nowhere, Nowhere)
Present(r) == ~WithinProtected(r.at) /\ DirExists(r.at)
resolveGlobalRoots == SelectSeq(world.globals, LAMBDA r : Present(r))

Under(p, role) == {s \in Dir : Role(s, role) /\ Role(Up[s], "marker") /\ Up[Up[s]] = p}
resolveProjectRoots(p) ==
    LET seq == InOrder(Under(p, "skills"))
        roots == [i \in DOMAIN seq |-> SkillRoot(seq[i], world.source[Up[seq[i]]], p, Nowhere)]
    IN SelectSeq(roots, LAMBDA r : Present(r))

Init ==
    /\ world \in Worlds /\ late = FALSE /\ pc = "globals"
    /\ info = Account /\ disc = Account /\ found = <<>> /\ discovered = <<>>
    /\ queue = resolveGlobalRoots /\ stack = <<>> /\ root = NoRoot /\ visits = 0
    /\ walk = [reads |-> 0, stopped |-> FALSE, accepted |-> {}, from |-> Nowhere, candidates |-> <<>>, listed |-> {}]
    /\ projects = <<>> /\ commands = <<>> /\ uses = [given |-> FALSE, status |-> "none", counters |-> <<>>]
    /\ report = [given |-> FALSE, skills |-> <<>>, commands |-> <<>>, usage |-> {}, panicked |-> FALSE]

\* The budget of the phase runs out.
Expire ==
    /\ ~late /\ ~report.given
    /\ late' = TRUE
    /\ UNCHANGED <<world, pc, info, found, discovered, disc, queue, stack, root, visits, walk, projects, commands, uses, report>>

Enumerating == pc \in {"globals", "locals"}
Collected == discovered \o found

OpenRoot ==
    /\ Enumerating /\ stack = <<>> /\ queue # <<>>
    /\ root' = Head(queue) /\ queue' = Tail(queue)
    /\ stack' = <<Task("dir", Head(queue).at, 0)>> /\ visits' = 0
    /\ discovered' = Collected /\ found' = <<>>
    /\ UNCHANGED <<world, late, pc, info, disc, walk, projects, commands, uses, report>>

\* A walk that runs out of time leaves what it has not reached.
Abandon ==
    /\ pc \in {"globals", "locals", "walk"} /\ stack # <<>> /\ late
    /\ stack' = <<>>
    /\ UNCHANGED <<world, late, pc, info, found, discovered, disc, queue, root, visits, walk, projects, commands, uses, report>>

\* emitSkill, for the directory d met as task t.
emitSkill(d, t) ==
    IF Len(found) >= world.max.skills
    THEN info' = Truncate(info, <<"skills", root.at>>) /\ stack' = <<>> /\ UNCHANGED found
    ELSE LET meta == parseSkillMD(world.md[real(d)])
         IN /\ found' = Append(found, [dir |-> d, real |-> real(d), link |-> t.what # "dir", entry |-> t.at,
                                       name |-> IF meta.name = "" THEN world.base[t.at] ELSE meta.name, meta |-> meta,
                                       source |-> root.source, project |-> root.project, managed |-> Nowhere, slug |-> "none"])
            /\ stack' = Tail(stack) /\ UNCHANGED info

Failed(e) == info' = addError(info, e) /\ stack' = Tail(stack) /\ UNCHANGED found
PassBy == stack' = Tail(stack) /\ UNCHANGED <<info, found>>

\* A junction is a link on Windows, and elsewhere nothing.
Linked(c) == world.kind[c] = "link" \/ (world.kind[c] = "junction" /\ world.windows)
Wanted(c, t) ==
    /\ ~Role(c, "vcs") /\ (t.n = 0 => c # root.excluded) /\ t.n + 1 <= world.max.depth
    /\ Linked(c) \/ Real(c)

\* enumerateRoot, for one directory: a skill ends the way down.
EnterDir ==
    /\ Enumerating /\ stack # <<>> /\ ~late /\ Head(stack).what = "dir"
    /\ LET t == Head(stack)
           below == SelectSeq(Entries(t.at), LAMBDA c : Wanted(c, t))
       IN IF visits >= world.max.dirs THEN info' = Truncate(info, <<"dirs", root.at>>) /\ stack' = <<>> /\ UNCHANGED found
          ELSE IF ~Listable(t.at) THEN Failed(<<"read", t.at>>)
          ELSE IF t.n > 0 /\ IsSkill(real(t.at)) THEN emitSkill(t.at, t)
          ELSE /\ stack' = Tasks(below, LAMBDA c : world.kind[c], t.n + 1) \o Tail(stack)
               /\ UNCHANGED <<info, found>>
    /\ visits' = visits + 1
    /\ UNCHANGED <<world, late, pc, discovered, disc, queue, root, walk, projects, commands, uses, report>>

\* handleSymlinkEntry: followed once, inside the home or the root's own project.
Allowed(d) == \E a \in {world.home, root.at, root.project} : Inside(d, a)
FollowLink ==
    /\ Enumerating /\ stack # <<>> /\ ~late /\ Head(stack).what # "dir"
    /\ LET t == Head(stack)
           to == world.to[t.at]
       IN CASE to = "unread" -> IF t.what = "link" THEN Failed(<<"link", t.at>>) ELSE PassBy
            [] to # "unread" /\ WithinProtected(to) -> PassBy
            [] to # "unread" /\ ~WithinProtected(to) /\ (real(t.at) = Nowhere \/ ~Allowed(real(t.at))) -> Failed(<<"dangling", t.at>>)
            [] OTHER -> IF WithinProtected(real(t.at)) THEN PassBy
                        ELSE IF ~Listable(t.at) THEN Failed(<<"target", t.at>>)
                        ELSE IF IsSkill(real(t.at)) THEN emitSkill(real(t.at), t) ELSE PassBy
    /\ UNCHANGED <<world, late, pc, discovered, disc, queue, root, visits, walk, projects, commands, uses, report>>

-----------------------------------------------------------------------------
(* readClaudeState: projects and recorded uses, each of which may fail.     *)
state == world.state
stateCode == IF WithinProtected(world.home) THEN "unsafe_path"
             ELSE IF state.st \in {"ok", "absent"} THEN "none" ELSE state.st
registry == IF stateCode = "none" /\ state.st = "ok" /\ state.projectsOk THEN state.projects ELSE {}

\* The search roots are made absolute and put in order: an ancestor comes first.
SearchRoots == SelectSeq(world.search, LAMBDA d : ~WithinProtected(d))

ReadState ==
    /\ pc = "globals" /\ stack = <<>> /\ queue = <<>>
    /\ disc' = IF stateCode # "none" \/ (state.st = "ok" /\ ~state.projectsOk) THEN Truncate(disc, <<"registry", world.home>>) ELSE disc
    /\ discovered' = Collected /\ found' = <<>>
    /\ queue' = SearchRoots /\ pc' = "walk"
    /\ UNCHANGED <<world, late, info, stack, root, visits, walk, projects, commands, uses, report>>

-----------------------------------------------------------------------------
(* walkForProjectRoots.                                                     *)
Path(d) == SortSeq(InOrder(Ancestry[d]), LAMBDA x, y : x # y /\ Inside(y, x))
Spent(reads) == reads > world.max.reads
Stop(w) == [w EXCEPT !.stopped = TRUE, !.reads = IF @ > world.max.reads THEN @ ELSE world.max.reads]
OutOfReads(i) == Truncate(i, <<"walk", "reads">>)
Skipped(i, d) == addError(i, <<"skipped", d>>)

AnyRoot(d) == {}                                                 \* mutant
\* rootIsRealDir: the steps of the path at which it turns out not to be one.
\* Each is seen from the listing of the directory above, never by a look at it.
Above(path, i) == IF i = 1 THEN Top ELSE path[i - 1]
Refused(d) ==
    LET path == Path(d)
    IN {i \in DOMAIN path : WithinProtected(Above(path, i)) \/ Above(path, i) \in world.closed \/ ~Real(path[i])}

\* One search root is tested, and walked if it is a directory all the way down.
TestRoot ==
    /\ pc = "walk" /\ stack = <<>> /\ queue # <<>> /\ ~walk.stopped
    /\ LET d == Head(queue)
           path == Path(d)
           last == IF Refused(d) = {} THEN Len(path) ELSE Min(Refused(d))
           made == IF Refused(d) # {} /\ WithinProtected(Above(path, last)) THEN last - 1 ELSE last
           read == [walk EXCEPT !.reads = @ + made, !.listed = @ \cup {Above(path, i) : i \in 1 .. made}]
       IN IF \E a \in walk.accepted : Inside(d, a) THEN UNCHANGED <<disc, walk, stack>>
          ELSE IF Spent(read.reads) THEN walk' = Stop(walk) /\ disc' = Skipped(OutOfReads(disc), d) /\ UNCHANGED stack
          ELSE IF Refused(d) # {} THEN walk' = read /\ disc' = Skipped(disc, d) /\ UNCHANGED stack
          ELSE /\ walk' = [read EXCEPT !.accepted = @ \cup {d}, !.from = d]
               /\ stack' = <<Task("dir", d, 0)>> /\ UNCHANGED disc
    /\ queue' = Tail(queue)
    /\ UNCHANGED <<world, late, pc, info, found, discovered, root, visits, projects, commands, uses, report>>

Charged(d) == [walk EXCEPT !.reads = @ + 1, !.listed = @ \cup {d}]
Exhausted == walk' = Stop(walk) /\ disc' = OutOfReads(disc) /\ stack' = <<>>

\* The walk enters plain directories, looks into markers, and leaves the rest.
Entered(c, t) == Real(c) /\ (Role(c, "marker") \/ (world.role[c] \notin {"hidden", "vcs"} /\ t.n + 1 <= world.max.walkDepth))
WalkDir ==
    /\ pc = "walk" /\ stack # <<>> /\ ~late /\ Head(stack).what = "dir"
    /\ LET t == Head(stack)
           below == SelectSeq(Entries(t.at), LAMBDA c : Entered(c, t))
           failed == addError(disc, <<"read", t.at>>)
       IN IF ShouldSkip(t.at, walk.from) THEN stack' = Tail(stack) /\ UNCHANGED <<walk, disc>>
          ELSE IF Spent(walk.reads + 1) THEN Exhausted
          ELSE /\ walk' = Charged(t.at)
               /\ IF Listable(t.at)
                  THEN /\ stack' = Tasks(below, LAMBDA c : IF Role(c, "marker") THEN "marker" ELSE "dir", t.n + 1) \o Tail(stack)
                       /\ UNCHANGED disc
                  ELSE stack' = Tail(stack) /\ disc' = IF t.n = 0 THEN [failed EXCEPT !.truncated = TRUE] ELSE failed
    /\ UNCHANGED <<world, late, pc, info, found, discovered, queue, root, visits, projects, commands, uses, report>>

hasMarkerChild(m) == \E c \in Range(Entries(m)) : Role(c, "skills") /\ Real(c)

Probe ==
    /\ pc = "walk" /\ stack # <<>> /\ ~late /\ Head(stack).what = "marker"
    /\ LET m == Head(stack).at
           p == Up[m]
           read == Charged(m)
       IN IF Spent(walk.reads + 1) THEN Exhausted
          ELSE IF ~Listable(m) THEN walk' = read /\ disc' = addError(disc, <<"marker", m>>) /\ stack' = Tail(stack)
          ELSE IF ~hasMarkerChild(m) \/ p \in Range(walk.candidates) THEN walk' = read /\ stack' = Tail(stack) /\ UNCHANGED disc
          ELSE IF Len(walk.candidates) >= world.max.candidates
               THEN walk' = [read EXCEPT !.stopped = TRUE] /\ disc' = Truncate(disc, <<"walk", "candidates">>) /\ stack' = <<>>
          ELSE walk' = [read EXCEPT !.candidates = Append(@, p)] /\ stack' = Tail(stack) /\ UNCHANGED disc
    /\ UNCHANGED <<world, late, pc, info, found, discovered, queue, root, visits, projects, commands, uses, report>>

-----------------------------------------------------------------------------
(* discoverProjects: what is registered or scanned comes before the walk's. *)
Considered(g, p) ==
    LET to == resolvePath(p)
    IN IF WithinProtected(p) \/ to = resolvePath(world.home) \/ to \in g.seen THEN g
       ELSE [seen |-> g.seen \cup {to}, out |-> IF DirExists(to) THEN g.out \cup {to} ELSE g.out]
ConsiderAll(seen, ps) == FoldSet(LAMBDA p, g : Considered(g, p), [seen |-> seen, out |-> {}], ps)

Ranked(first, second) == InOrder(first \cup second)              \* mutant
Tiers(first, second) == InOrder(first) \o InOrder(second)
Merge(i, j) ==
    FoldLeft(addError, [i EXCEPT !.truncated = @ \/ j.truncated], j.errors)

discoverProjects ==
    /\ pc = "walk" /\ stack = <<>> /\ (queue = <<>> \/ walk.stopped)
    /\ LET first == ConsiderAll({}, registry \cup world.extra)
           second == ConsiderAll(first.seen, Range(walk.candidates))
           all == Tiers(first.out, second.out)
           cut == Len(all) > world.max.projects
           known == IF cut THEN SubSeq(all, 1, world.max.projects) ELSE all
           account == IF cut THEN Truncate(disc, <<"projects", Len(all)>>) ELSE disc
       IN /\ projects' = known /\ disc' = account /\ info' = Merge(info, account)
          /\ queue' = FlattenSeq([i \in DOMAIN known |-> resolveProjectRoots(known[i])])
    /\ pc' = "locals"
    /\ UNCHANGED <<world, late, found, discovered, stack, root, visits, walk, commands, uses, report>>

-----------------------------------------------------------------------------
(* applyLocks and loadLock: where a skill came from, one lock file at a     *)
(* time; the first entry that names a skill counts.                         *)
NoLock(p) == world.lock[p].st = "missing"
EnumeratedAll ==
    /\ pc = "locals" /\ stack = <<>> /\ queue = <<>>
    /\ discovered' = Collected /\ found' = <<>>
    /\ queue' = world.globalLocks \o SelectSeq(projects, LAMBDA p : ~NoLock(p))
    /\ pc' = "locks"
    /\ UNCHANGED <<world, late, info, disc, stack, root, visits, walk, projects, commands, uses, report>>

AnyKey(e) == TRUE                                                \* mutant
isSafeLockKey(e) == e.safe
enrichWithLock(rec, p, e) ==
    IF rec.managed # Nowhere THEN rec
    ELSE [rec EXCEPT !.managed = p, !.slug = IF e.local THEN "alias" ELSE "source"]

applyLock ==
    /\ pc = "locks" /\ queue # <<>>
    /\ LET p == Head(queue)
           lock == world.lock[p]
           entries == SelectSeq(lock.entries, isSafeLockKey)
           Named(i) == {k \in DOMAIN entries : resolvePath(entries[k].dir) = discovered[i].real}
       IN IF lock.st = "ok" /\ ~WithinProtected(p)
          THEN /\ discovered' = [i \in DOMAIN discovered |->
                      IF Named(i) = {} THEN discovered[i] ELSE enrichWithLock(discovered[i], p, entries[Min(Named(i))])]
               /\ info' = [info EXCEPT !.locks = @ + 1]
          ELSE /\ info' = IF lock.st \in {"missing", "denied", "ok"} THEN info ELSE addError(info, <<"lock", p>>)
               /\ UNCHANGED discovered
    /\ queue' = Tail(queue)
    /\ UNCHANGED <<world, late, pc, found, disc, stack, root, visits, walk, projects, commands, uses, report>>

-----------------------------------------------------------------------------
(* enumerateCommands: the commands of the user, then of each project.       *)
CommandRoot(d, source, project) == SkillRoot(d, source, project, Nowhere)
LocksApplied ==
    /\ pc = "locks" /\ queue = <<>>
    /\ queue' = <<CommandRoot(world.commandsAt, "claude_user", Nowhere)>>
                \o FlattenSeq([i \in DOMAIN projects |->
                      LET seq == InOrder({c \in Under(projects[i], "commands") : world.source[Up[c]] = "claude_project"})
                      IN [k \in DOMAIN seq |-> CommandRoot(seq[k], "claude_project", projects[i])]])
    /\ info' = [info EXCEPT !.commands = "complete"]
    /\ pc' = "commands"
    /\ UNCHANGED <<world, late, found, discovered, disc, stack, root, visits, walk, projects, commands, uses, report>>

Partly(i) == [i EXCEPT !.commands = "partial"]

OpenCommands ==
    /\ pc = "commands" /\ stack = <<>> /\ queue # <<>>
    /\ LET r == Head(queue)
           full == Len(commands) >= world.max.definitions
       IN /\ root' = r /\ visits' = 0
          /\ queue' = IF full THEN <<>> ELSE Tail(queue)
          /\ stack' = IF full \/ ~Present(r) THEN <<>> ELSE <<Task("dir", r.at, 0)>>
          /\ info' = IF full \/ WithinProtected(r.at) THEN Partly(info) ELSE info
    /\ UNCHANGED <<world, late, pc, found, discovered, disc, walk, projects, commands, uses, report>>

ListCommands ==
    /\ pc = "commands" /\ stack # <<>> /\ Head(stack).what = "dir"
    /\ LET t == Head(stack)
           beyond == late \/ t.n > world.max.depth
           files == world.files[real(t.at)]
       IN /\ visits' = IF beyond THEN visits ELSE visits + 1
          /\ IF beyond \/ visits >= world.max.dirs THEN info' = Partly(info) /\ stack' = Tail(stack)
             ELSE IF ~Listable(t.at) THEN info' = addError(Partly(info), <<"read", t.at>>) /\ stack' = Tail(stack)
             ELSE /\ stack' = [i \in DOMAIN files |-> Task("file", real(t.at), i)]
                              \o Tasks(SelectSeq(Entries(t.at), Real), LAMBDA c : "dir", t.n + 1) \o Tail(stack)
                  /\ UNCHANGED info
    /\ UNCHANGED <<world, late, pc, found, discovered, disc, queue, root, walk, projects, commands, uses, report>>

\* commandMetadata: a command is a row even where its file cannot be read.
parseCommandMD(f) == f.st = "ok"
ReadCommand ==
    /\ pc = "commands" /\ stack # <<>> /\ Head(stack).what = "file"
    /\ LET f == world.files[Head(stack).at][Head(stack).n]
       IN IF Len(commands) >= world.max.definitions
          THEN info' = Partly(info) /\ stack' = <<>> /\ UNCHANGED commands
          ELSE /\ commands' = Append(commands, [file |-> f, name |-> f.name, sound |-> parseCommandMD(f), source |-> root.source, project |-> root.project])
               /\ stack' = Tail(stack)
               /\ info' = IF parseCommandMD(f) THEN info ELSE Partly(info)
    /\ UNCHANGED <<world, late, pc, found, discovered, disc, queue, root, visits, walk, projects, uses, report>>

-----------------------------------------------------------------------------
(* usageSource and collectClaudeUsage: counters, each valid on its own.     *)
usageSource ==
    LET valid == SelectSeq(state.uses, LAMBDA u : u.ok)
        cut == Len(valid) > world.max.counters
    IN IF stateCode = "none" /\ state.st = "absent" THEN uses
       ELSE IF stateCode # "none" \/ ~state.usesOk THEN [given |-> TRUE, status |-> "error", counters |-> <<>>]
       ELSE [given |-> TRUE, status |-> IF cut \/ valid # state.uses THEN "partial" ELSE "complete",
             counters |-> IF cut THEN SubSeq(valid, 1, world.max.counters) ELSE valid]

CommandsRead ==
    /\ pc = "commands" /\ stack = <<>> /\ queue = <<>>
    /\ info' = IF late \/ disc.truncated \/ disc.errors # <<>> THEN Partly(info) ELSE info
    /\ uses' = usageSource
    /\ pc' = "finalize"
    /\ UNCHANGED <<world, late, found, discovered, disc, queue, stack, root, visits, walk, projects, commands, report>>

-----------------------------------------------------------------------------
(* finalizeSkills and collapseSymlinkShadows: one record for each physical  *)
(* directory, with the sources that lead to it.                             *)
Rank(source) == CHOOSE i \in DOMAIN world.sources : world.sources[i] = source
betterCanonical(a, b) == IF a.link # b.link THEN ~a.link ELSE Rank(a.source) < Rank(b.source)

Folded(recs, d) ==
    LET members == SelectSeq(recs, LAMBDA r : r.real = d)
        best == FoldLeft(LAMBDA x, y : IF betterCanonical(y, x) THEN y ELSE x, members[1], members)
    IN best @@ ("sources" :> ({r.source : r \in Range(members)} \ {best.source}))
Unfolded(recs) == {r @@ ("sources" :> {}) : r \in Range(recs)}   \* mutant
collapseSymlinkShadows(recs) == {Folded(recs, r.real) : r \in Range(recs)}
sortSkills(set) == SortSeq(InOrder(set), LAMBDA a, b : Rank(a.source) < Rank(b.source))

Capped(seq) == IF Len(seq) > world.max.total THEN SubSeq(seq, 1, world.max.total) ELSE seq
finalizeSkills(recs) == Capped(sortSkills(collapseSymlinkShadows(recs)))
TotalCut(recs, i) == IF Cardinality(collapseSymlinkShadows(recs)) > world.max.total THEN Truncate(i, <<"total", Nowhere>>) ELSE i

\* associateSkillUsage: a counter counts for the one definition that has its name.
Claude(r) == \E s \in {r.source} \cup r.sources : s \in {"claude_user", "claude_project"}
Candidate(identity, definition, names, bare, plugin) ==
    [identity |-> identity, definition |-> definition, names |-> names, bare |-> bare, plugin |-> plugin]
Own(definition, name) == Candidate(definition, definition, {name}, {}, FALSE)
Candidates(skills, cmds, parts) ==
    {Own(<<"skill", r.dir>>, r.name) : r \in {r \in Range(skills) : Claude(r)}}
    \cup {Own(<<"command", c.project, c.name>>, c.name) : c \in Range(cmds)}
    \cup {Candidate(<<"plugin", x.id>>, x.definition, x.names, x.bare, TRUE) : x \in parts}

FirstNamed(owners, name) == TRUE                                 \* mutant
Owned(owners, name) == Cardinality(owners[name]) = 1
associateSkillUsage(skills, cmds, parts) ==
    LET counters == Range(uses.counters)
        keys == {u.key : u \in counters}
        given == Candidates(skills, cmds, parts)
        claims(c) == {x.identity : x \in {x \in given : x.plugin /\ x.definition = c.definition}}
        all == {IF ~c.plugin /\ Cardinality(claims(c)) = 1 THEN [c EXCEPT !.identity = CHOOSE i \in claims(c) : TRUE] ELSE c : c \in given}
        matched(c) == IF c.names \cap keys = {} /\ c.plugin THEN c.bare \cap keys ELSE c.names \cap keys
        owners == [k \in keys |-> {c.identity : c \in {c \in all : k \in matched(c)}}]
        Best(ks) == CHOOSE u \in counters : u.key \in ks /\ \A v \in counters : v.key \in ks => v.count <= u.count
        shown(c) == LET mine == {k \in matched(c) : Owned(owners, k)}
                    IN IF mine # {} THEN Best(mine).key ELSE IF matched(c) # {} THEN "ambiguous" ELSE "unavailable"
    IN IF uses.given THEN {[definition |-> c.definition, key |-> shown(c)] : c \in all} ELSE {}

Unhurried(i) == i                                                \* mutant
\* What the deadline cut short is not the whole.
Deadline(i) == IF late THEN Truncate(i, <<"incomplete", Nowhere>>) ELSE i

Finalize ==
    /\ pc = "finalize"
    /\ LET skills == finalizeSkills(discovered)
       IN report' = [given |-> TRUE, skills |-> skills, commands |-> commands, panicked |-> FALSE,
                     usage |-> associateSkillUsage(skills, commands, {})]
    /\ info' = Deadline(TotalCut(discovered, info))
    /\ pc' = "plugins"
    /\ UNCHANGED <<world, late, found, discovered, disc, queue, stack, root, visits, walk, projects, commands, uses>>

Quietly(i) == addError(i, <<"panic", Nowhere>>)                  \* mutant
Panicked(i) == Truncate(i, <<"panic", Nowhere>>)
\* A read panics: what the roots before it gave is kept, and nothing follows.
Panic ==
    /\ ~report.given /\ pc # "finalize"
    /\ LET recs == IF stack = <<>> THEN Collected ELSE discovered
       IN /\ report' = [given |-> TRUE, skills |-> finalizeSkills(recs), commands |-> <<>>, panicked |-> TRUE, usage |-> {}]
          /\ info' = TotalCut(recs, Panicked(info))
    /\ pc' = "done" /\ stack' = <<>> /\ queue' = <<>>
    /\ UNCHANGED <<world, late, found, discovered, disc, root, visits, walk, projects, commands, uses>>

\* DetectPlugins has found the parts of plugins, which may be the same files.
Reassociate ==
    /\ pc = "plugins"
    /\ report' = [report EXCEPT !.usage = associateSkillUsage(report.skills, report.commands, world.parts)]
    /\ pc' = "done"
    /\ UNCHANGED <<world, late, info, found, discovered, disc, queue, stack, root, visits, walk, projects, commands, uses>>

Next ==
    \/ Expire \/ Panic \/ OpenRoot \/ Abandon \/ EnterDir \/ FollowLink
    \/ ReadState \/ TestRoot \/ WalkDir \/ Probe \/ discoverProjects
    \/ EnumeratedAll \/ applyLock \/ LocksApplied \/ OpenCommands \/ ListCommands \/ ReadCommand
    \/ CommandsRead \/ Finalize \/ Reassociate

Spec == Init /\ [][Next]_vars

-----------------------------------------------------------------------------
(* Properties.                                                             *)
TypeOK ==
    /\ late \in BOOLEAN /\ info.truncated \in BOOLEAN
    /\ info.commands \in {"unset", "complete", "partial"}
    /\ Len(info.errors) <= world.max.errors /\ Len(found) <= world.max.skills
    /\ walk.reads <= world.max.reads /\ Len(projects) <= world.max.projects
    /\ Len(report.skills) <= world.max.total

Told(e) == e \in Range(info.errors) \/ Len(info.errors) = world.max.errors

\* What the code means to find, said without the order it looks in.
Between(e, d) == {a \in Ancestry[e] : a # e /\ a # d /\ Inside(a, d)}
Within(e, d) == e # d /\ Inside(e, d)
Open(d) == d \notin world.closed
Passable(a, r) == Real(a) /\ Open(a) /\ ~IsSkill(a) /\ ~Role(a, "vcs")
\* The entries a root leads to.
Reached(r) ==
    LET d == real(r.at)
    IN {e \in Dir : /\ Within(e, d) /\ Open(d) /\ r.excluded \notin Ancestry[e] /\ ~Role(e, "vcs")
                    /\ Cardinality(Between(e, d)) < world.max.depth /\ \A a \in Between(e, d) : Passable(a, r)}
Exposed(r) ==
    {e \in Reached(r) : /\ real(e) # Nowhere /\ Open(real(e)) /\ IsSkill(real(e))
                        /\ Real(e) \/ (Linked(e) /\ world.to[e] # "unread" /\ ~WithinProtected(world.to[e]) /\ ~WithinProtected(real(e))
                                       /\ \E a \in {world.home, r.at, r.project} : Inside(real(e), a))}

\* The projects a walk comes by.
Walkable(a) == Real(a) /\ Open(a) /\ a \notin world.protected /\ world.role[a] \notin {"hidden", "vcs", "marker"}
Visible ==
    {p \in Dir : \E s \in Range(SearchRoots) :
        /\ Refused(s) = {} /\ Inside(p, s) /\ Walkable(p) /\ \A a \in Between(p, s) \cup {s} : Walkable(a)
        /\ Cardinality(Ancestry[p]) - Cardinality(Ancestry[s]) <= world.max.walkDepth
        /\ \E c \in Under(p, "skills") : Real(c) /\ Real(Up[c]) /\ Open(Up[c])}
Known == {resolvePath(p) : p \in {p \in registry \cup world.extra \cup Visible : ~WithinProtected(p)}} \ {resolvePath(world.home)}
Roots == Range(resolveGlobalRoots) \cup UNION {Range(resolveProjectRoots(p)) : p \in {p \in Known : DirExists(p)}}

\* A report that does not say it is truncated names every skill of every root,
\* under each source that leads to it, and every directory it could not read.
OmissionsReported ==
    report.given /\ ~info.truncated =>
       \A r \in Roots :
          /\ \A e \in Exposed(r) : \E s \in Range(report.skills) : s.real = real(e) /\ r.source \in {s.source} \cup s.sources
          /\ \A e \in Reached(r) : Real(e) /\ ~Open(e) => Told(<<"read", e>>)

\* So do the commands that are called complete.
CommandRoots == {world.commandsAt} \cup UNION {Under(p, "commands") : p \in Known}
Commanded(d) == \E c \in {c \in CommandRoots : DirExists(c)} :
                   Inside(d, real(c)) /\ \A a \in Between(d, real(c)) \cup {d} : Real(a) /\ Open(a)
CommandsComplete ==
    report.given /\ ~report.panicked /\ info.commands = "complete" =>
       \A d \in {d \in Dir : Commanded(d)} : \A f \in Range(world.files[d]) : \E c \in Range(report.commands) : c.file = f

\* A skill is one record however many links lead to it, and where one of its
\* roots holds the directory itself, that is the record's.
ShadowsFolded ==
    report.given => \A s, t \in Range(report.skills) :
       /\ s.real = t.real => s = t
       /\ s.link => \A d \in Range(discovered) : d.real = s.real => d.link

\* The walk never displaces a project that was registered or scanned.
TiersKept ==
    LET first == ConsiderAll({}, registry \cup world.extra).out
    IN pc = "finalize" /\ (\E p \in Range(projects) : p \notin first) => first \subseteq Range(projects)

\* What the walk lists lies, links followed, outside every protected directory.
WalkStaysOut ==
    pc = "walk" => \A d \in walk.listed \ {Top} : DirExists(d) => ~WithinProtected(real(d))

\* A lock file vouches only for what its own directory of skills leads to.
ProvenanceHolds ==
    report.given => \A s \in Range(report.skills) : s.managed # Nowhere =>
       LET lock == world.lock[s.managed]
       IN \E e \in Range(lock.entries) : e.safe /\ Up[e.dir] = lock.base /\ real(e.dir) = s.real

\* A recorded use is shown as the use of one definition: two that show it are
\* the same file, or parts of the same plugin.
SameDefinition(x, y) ==
    \/ x.definition = y.definition
    \/ \E a, b \in world.parts : a.id = b.id /\ a.definition = x.definition /\ b.definition = y.definition
UsageIsOwned ==
    \A x, y \in report.usage : x.key = y.key /\ x.key \notin {"ambiguous", "unavailable"} => SameDefinition(x, y)
=============================================================================
