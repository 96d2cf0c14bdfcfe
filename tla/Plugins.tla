------------------------------- MODULE Plugins ------------------------------
(***************************************************************************)
(* The inventory of agent plugins (internal/detector/plugins.go): Claude   *)
(* Code, Codex and Copilot are read one after the other under one deadline *)
(* and one set of budgets, each from metadata that agents may rewrite at   *)
(* any moment.  A context whose metadata changed while it was assembled is *)
(* assembled once more, then reported as partial.  The contexts are capped *)
(* into a report, and the servers it represents replace what the ordinary  *)
(* MCP walk found.                                                         *)
(*                                                                         *)
(* First what each coding agent's adapter makes of the files of its        *)
(* plugins (plugins_claude.go, plugins_codex.go, plugins_copilot.go): the  *)
(* tasks of one attempt, as operators on the run and on the view w of the  *)
(* machine at that moment.  A run r holds the context under construction   *)
(* (inst and market, its two coverage statuses, plugins, markets), what    *)
(* the adapter remembers (mem), the stamps of the metadata it read (reads, *)
(* mixed), the budgets shared by the phase (bud) and the tasks left.  A    *)
(* view says what every metadata file holds and what every directory is;   *)
(* after the deadline (late) every look is refused, and when it strikes    *)
(* inside a task (cut) the rest is.  A manifest stands with the parts it   *)
(* leads to, the defaults of its format included.                          *)
(***************************************************************************)
EXTENDS Directories
VARIABLE world          \* the machine: files, directories, limits

Rank(st) == CASE st = "complete" -> 0 [] st = "partial" -> 1 [] st = "unsupported" -> 2 [] st = "error" -> 3
degrade(st, to) == IF Rank(to) > Rank(st) THEN to ELSE st

Denied == [st |-> "denied"]
NoFile == "none"

\* readMetadata's stamps: a file read twice in one attempt must not differ.
Stamped(r, w, files) ==
    [r EXCEPT !.mixed = @ \/ \E f \in files \cap DOMAIN r.reads : r.reads[f] # w.file[f],
              !.reads = [f \in files |-> w.file[f]] @@ @]
Unread(x) == x.st \in {"denied", "broken", "big"}
InstPartial(r) == [r EXCEPT !.inst = degrade(@, "partial")]
MarketPartial(r) == [r EXCEPT !.market = degrade(@, "partial")]
fail(r) == InstPartial(MarketPartial(r))
Remember(r, field, value) == [r EXCEPT !.mem = field :> value @@ @]

children(w, d) == InOrder({c \in Dir : Up[c] = d /\ w.dir[c] = "dir"})
manifestThere(w, f) == w.file[f].st \notin {"absent", "denied"}

-----------------------------------------------------------------------------
(* Components of one plugin; a is [p, r], the plugin and the run.          *)
Lower(a, to) == [a EXCEPT !.p.status = degrade(@, to)]
Fault(a, to) == [a EXCEPT !.p.status = to]
Component(kind, at, name, st) == [kind |-> kind, at |-> at, name |-> name, status |-> st]
Identity(c) == <<c.kind, c.at, c.name>>

addComponent(a, c) ==
    IF \E other \in Range(a.p.parts) : Identity(other) = Identity(c) THEN a
    ELSE IF Len(a.p.parts) >= world.max.perPlugin \/ a.r.bud.components >= world.max.components THEN Lower(a, "partial")
    ELSE LET next == [a EXCEPT !.p.parts = Append(@, c), !.r.bud.components = @ + 1]
         IN IF c.status = "complete" THEN next ELSE Lower(next, "partial")

Spent(r) == r.bud.definitions >= world.max.definitions
Learnt(a, memo, real) ==
    IF real \in a.r.bud[memo] THEN a
    ELSE [a EXCEPT !.r.bud = [@ EXCEPT !.definitions = @ + 1, ![memo] = @ \cup {real}]]

skillComponent(a, w, x) ==
    LET unseen == w.cut \/ x.st \in {"denied", "missing"}
        spent == x.real \notin a.r.bud.memo /\ Spent(a.r)
    IN addComponent(IF unseen THEN a ELSE IF spent THEN Lower(a, "partial") ELSE Learnt(a, "memo", x.real),
                    Component("skill", x.at, "skill",
                              CASE unseen -> "error" [] ~unseen /\ spent -> "partial" [] OTHER -> IF x.st = "ok" THEN "complete" ELSE "error"))

commandComponent(a, w, x) ==
    LET unseen == w.cut \/ x.st = "denied" \/ (x.real \notin a.r.bud.commands /\ Spent(a.r))
    IN addComponent(IF unseen THEN a ELSE Learnt(a, "commands", x.real),
                    Component("command", x.at, "command", IF ~unseen /\ x.st = "ok" THEN "complete" ELSE "error"))

\* Agents, hooks, apps and language servers carry no payload; a path that
\* leaves the plugin, or a walk that met a limit, is only a status.
declared(a, w, x) ==
    IF x.st = "cut" THEN Lower(a, "partial")
    ELSE addComponent(a, Component("declared", x.at, x.at, IF x.st = "ok" /\ ~w.cut THEN "complete" ELSE "error"))

\* A default hook file is looked for, not required.
optional(a, w, x) == IF w.cut \/ x.st # "ok" THEN a ELSE declared(a, w, x)

mcpServerComponents(a, w, f, servers) ==
    LET one(b, name) ==
            IF b.p.stopped THEN b
            ELSE IF b.r.bud.servers >= world.max.servers \/ w.cut THEN [Lower(b, "partial") EXCEPT !.p.stopped = TRUE]
            ELSE addComponent([b EXCEPT !.r.bud.servers = @ + 1],
                              Component("mcp", f, name, IF servers[name] THEN "complete" ELSE "error"))
    IN [FoldLeft(one, [a EXCEPT !.p.stopped = FALSE], InOrder(DOMAIN servers)) EXCEPT !.p.stopped = FALSE]

mcpFileComponents(a, w, x) ==
    LET f == x.at
        next == [a EXCEPT !.r = Stamped(@, w, {f})]
        owned == [next EXCEPT !.r.bud.owned = @ \cup {f}]
    IN CASE w.file[f].st = "absent" /\ ~x.required -> next
         [] w.file[f].st = "ok" -> mcpServerComponents(owned, w, f, w.file[f].servers)
         [] OTHER -> addComponent(owned, Component("mcp", f, "file", "error"))

\* Copilot's mcpFile keeps the servers it understands and owns what it read.
copilotServers(a, w, f, servers) ==
    LET valid == {name \in DOMAIN servers : servers[name]}
    IN mcpServerComponents(IF valid # DOMAIN servers THEN Lower(a, "partial") ELSE a, w, f, [name \in valid |-> TRUE])
mcpFile(a, w, x) ==
    LET f == x.at
        next == [a EXCEPT !.r = Stamped(@, w, {f})]
    IN CASE w.file[f].st = "absent" -> IF x.required THEN Lower(next, "partial") ELSE next
         [] w.file[f].st = "ok" -> [copilotServers(next, w, f, w.file[f].servers) EXCEPT !.r.bud.owned = @ \cup {f}]
         [] OTHER -> Lower(next, "partial")

Part(a, w, x) ==
    CASE x.kind = "skill" -> skillComponent(a, w, x)
      [] x.kind = "command" -> commandComponent(a, w, x)
      [] x.kind \in {"declared", "optional"} -> IF x.kind = "optional" /\ a.r.agent # "copilot" THEN optional(a, w, x) ELSE declared(a, w, x)
      [] x.kind = "mcp" -> IF a.r.agent = "copilot" THEN mcpFile(a, w, x) ELSE mcpFileComponents(a, w, x)
      [] x.kind = "inline" -> IF a.r.agent = "copilot" THEN copilotServers(a, w, x.at, x.servers)
                              ELSE mcpServerComponents(a, w, x.at, x.servers)
Enumerate(a, w, parts) == FoldLeft(LAMBDA b, x : Part(b, w, x), a, parts)

suppress(a, d) == [a EXCEPT !.r.bud.suppressed = @ \cup {d}]

-----------------------------------------------------------------------------
(* Plugins.                                                                *)
newPlugin(native, kind, scope, project) ==
    [native |-> native, kind |-> kind, scope |-> scope, project |-> project, market |-> NoFile, remote |-> NoFile,
     path |-> Nowhere, source |-> Nowhere, link |-> FALSE, installed |-> "yes", present |-> "unknown", local |-> FALSE, named |-> FALSE,
     status |-> "complete", configured |-> "unknown", effective |-> "unknown", enabled |-> <<>>, parts |-> <<>>, stopped |-> FALSE]
origin(p) ==
    CASE p.kind = "marketplace" -> p.market
      [] p.kind = "account" -> IF p.remote # NoFile THEN p.remote ELSE p.native
      [] p.kind \in {"directory", "synced"} -> IF p.source # Nowhere THEN p.source ELSE p.path
      [] OTHER -> p.native
instanceID(p) == <<p.native, p.kind, p.scope, p.project, origin(p)>>

Added(r, p) == (p.scope \in {"project", "local"} => p.project # Nowhere) /\ \A q \in Range(r.plugins) : instanceID(q) # instanceID(p)
addPlugin(r, p) == IF Added(r, p) THEN [r EXCEPT !.plugins = Append(@, p)] ELSE InstPartial(r)

Present(w, d) == CASE w.dir[d] = "dir" -> "yes" [] w.dir[d] = "absent" -> "no" [] OTHER -> "unknown"

market(r, name) ==
    IF name \in DOMAIN r.markets THEN r
    ELSE [r EXCEPT !.markets = name :> [registered |-> FALSE, kind |-> NoFile, source |-> Nowhere, root |-> Nowhere, file |-> NoFile, err |-> FALSE,
                                        seed |-> Nowhere, entries |-> <<>>, prefs |-> <<>>, auto |-> "unknown"] @@ @]
Entry(m, name) == name \in DOMAIN m.entries

-----------------------------------------------------------------------------
(* Claude Code.                                                            *)
claudeTasks == <<"registry", "settings", "markets", "seeds">>
readRegistry(r, w) ==
    LET f == "installed"
        doc == w.file[f]
        q == Stamped(r, w, {f})
        records == IF doc.st = "ok" THEN doc.records ELSE <<>>
        worse == CASE doc.st \in {"absent", "ok"} -> q
                   [] doc.st = "future" -> [q EXCEPT !.inst = "unsupported"]
                   [] OTHER -> [q EXCEPT !.inst = "error"]
    IN [Remember(worse, "registry", records) EXCEPT
           !.todo = @ \o [i \in DOMAIN records |-> [do |-> "plugin", rec |-> records[i]]]
                      \o [i \in DOMAIN world.skillRoots |-> [do |-> "skills", rec |-> world.skillRoots[i]]]
                      \o <<[do |-> "synced"]>>]

\* readSettingsLayers and readSettings: managed, user, then each project's two.
Layer(w, l) ==
    LET doc == w.file[l.file]
        whole == [file |-> l.file, scope |-> l.scope, project |-> l.project, ok |-> TRUE, enabled |-> <<>>, markets |-> <<>>]
    IN CASE doc.st = "absent" -> whole
         [] doc.st = "ok" -> [whole EXCEPT !.ok = ~doc.odd, !.enabled = doc.enabled, !.markets = doc.markets]
         [] OTHER -> [whole EXCEPT !.ok = FALSE]
projectsOf(r) ==
    (world.projects \cup {rec.project : rec \in {rec \in Range(r.mem.registry) : rec.scope \in {"project", "local"}}}) \ {Nowhere}
readSettingsLayers(r, w) ==
    LET read == SelectSeq(world.layers, LAMBDA l : l.project = Nowhere \/ l.project \in projectsOf(r))
        layers == [i \in DOMAIN read |-> Layer(w, read[i])]
        q == Remember(Stamped(r, w, {l.file : l \in Range(read)}), "layers", layers)
    IN IF \A l \in Range(layers) : l.ok THEN q ELSE MarketPartial(q)

loadCatalog(r, w, name, at) ==
    LET f == world.catalog[at]
        q == Stamped(r, w, IF w.dir[at] = "dir" THEN {f} ELSE {})
        failed == MarketPartial([q EXCEPT !.markets[name].err = TRUE])
        placed(s) == [s EXCEPT !.markets[name] = [@ EXCEPT !.root = at, !.file = f]]
    IN CASE w.dir[at] # "dir" -> failed
         [] w.dir[at] = "dir" /\ w.file[f].st = "ok" ->
              [placed(q) EXCEPT !.markets[name] = [@ EXCEPT !.entries = w.file[f].entries @@ @, !.err = FALSE]]
         [] OTHER -> placed(failed)

Known(r, w, name, x) ==
    LET q == [market(r, name) EXCEPT !.markets[name] = [@ EXCEPT !.registered = TRUE, !.kind = x.kind, !.source = x.at]]
    IN IF x.at = Nowhere THEN q ELSE loadCatalog(q, w, name, x.at)

\* A marketplace the settings declare: the first declaration stands unless the
\* registry knows the name; every stated preference is kept.
DeclaredIn(r, w, l, name) ==
    LET doc == l.markets[name]
        m == market(r, name)
        fresh == m.markets[name].kind = NoFile
        q == IF ~fresh THEN m
             ELSE [m EXCEPT !.markets[name] = [@ EXCEPT !.registered = TRUE, !.kind = doc.kind, !.source = doc.at]]
        s == IF fresh /\ doc.kind = "directory" THEN loadCatalog(q, w, name, doc.at) ELSE q
    IN IF doc.auto = "unsaid" THEN s
       ELSE [s EXCEPT !.markets[name].prefs = Append(@, [scope |-> l.scope, on |-> doc.auto])]
Ambiguous(layers, name) ==
    \E i, j \in DOMAIN layers : /\ name \in DOMAIN layers[i].markets /\ name \in DOMAIN layers[j].markets
                                /\ <<layers[i].markets[name].kind, layers[i].markets[name].at>>
                                     # <<layers[j].markets[name].kind, layers[j].markets[name].at>>
autoUpdateScalar(prefs) ==
    LET managed == SelectSeq(prefs, LAMBDA x : x.scope = "system")
    IN IF managed # <<>> THEN Head(managed).on
       ELSE IF Cardinality({x.on : x \in Range(prefs)}) = 1 THEN Head(prefs).on ELSE "unknown"

readMarketplaces(r, w) ==
    LET f == "known"
        q == Stamped(r, w, {f})
        doc == w.file[f]
        named == IF doc.st = "ok" THEN doc.markets ELSE <<>>
        known == FoldLeft(LAMBDA s, name : Known(s, w, name, named[name]),
                          Remember(IF Unread(doc) THEN [q EXCEPT !.market = "error"] ELSE q, "unregistered", Unread(doc)), InOrder(DOMAIN named))
        said == FoldLeft(LAMBDA s, l : FoldLeft(LAMBDA t, name : DeclaredIn(t, w, l, name), s, InOrder(DOMAIN l.markets)), known, r.mem.layers)
        unclear == {name \in DOMAIN said.markets : Ambiguous(r.mem.layers, name)}
        settled == [said EXCEPT !.markets =
                       [name \in DOMAIN said.markets |->
                          LET m == [said.markets[name] EXCEPT !.auto = autoUpdateScalar(said.markets[name].prefs)]
                          IN IF name \in unclear
                             THEN [m EXCEPT !.entries = <<>>, !.root = Nowhere, !.file = NoFile, !.kind = NoFile, !.source = Nowhere, !.err = TRUE]
                             ELSE m]]
    IN IF unclear = {} THEN settled ELSE MarketPartial(settled)

\* readSeedMarketplaces: the first seed that lists a name provides it.
readSeedMarketplaces(r, w) ==
    LET one(s, seed) ==
            LET doc == w.file[seed.file]
                q == Stamped(s.r, w, {seed.file})
                take(t, name) ==
                    LET m == [market(t, name) EXCEPT !.markets[name] =
                                 [@ EXCEPT !.registered = TRUE, !.kind = "github", !.source = Nowhere, !.seed = seed.at, !.entries = <<>>, !.root = Nowhere]]
                    IN loadCatalog(m, w, name, doc.markets[name].at)
            IN CASE doc.st = "absent" -> [s EXCEPT !.r = q]
                 [] doc.st = "ok" -> [r |-> FoldLeft(take, q, InOrder(DOMAIN doc.markets \ s.seen)), seen |-> s.seen \cup DOMAIN doc.markets]
                 [] OTHER -> [s EXCEPT !.r = MarketPartial(q)]
    IN FoldLeft(one, [r |-> r, seen |-> {}], world.seeds).r

\* Precedence, lowest first; what holds is claimed only when every layer that
\* could say otherwise was readable.
Scopes == <<"user", "project", "local", "system">>
enablement(r, p) ==
    LET own == p.scope \in {"project", "local"}
        ofScope(scope) == SelectSeq(r.mem.layers, LAMBDA l : l.scope = scope /\ (l.project # Nowhere => own /\ l.project = p.project))
        relevant == FlattenSeq([i \in DOMAIN Scopes |-> ofScope(Scopes[i])])
        naming == SelectSeq(relevant, LAMBDA l : p.native \in DOMAIN l.enabled)
        mine == SelectSeq(naming, LAMBDA l : l.scope = p.scope)
        sure == /\ \A l \in Range(relevant) : l.ok
                /\ own => \E l \in Range(relevant) : l.scope = "project"
                /\ p.kind # "synced"
    IN [p EXCEPT !.enabled = [i \in DOMAIN naming |-> [scope |-> naming[i].scope, on |-> naming[i].enabled[p.native]]],
                 !.configured = IF mine = <<>> THEN "unknown" ELSE Last(mine).enabled[p.native],
                 !.effective = IF sure /\ naming # <<>> THEN Last(naming).enabled[p.native] ELSE "unknown"]

\* components, for Claude: the payload is the cache's, the catalog's own
\* directory, or what a link marker names.
claudePayload(a, w, entry) ==
    LET root == a.p.path
        m == a.r.markets[a.p.market]
        manifest == world.manifest[root].legacy[1]
        doc == w.file[manifest]
        next == [suppress(a, root) EXCEPT !.r = Stamped(@, w, {manifest})]
        parts == IF doc.st = "ok" THEN doc.parts ELSE world.bare[root]
        extra == IF entry = NoFile \/ m.entries[entry].strict THEN <<>> ELSE m.entries[entry].parts
    IN CASE Unread(doc) -> Fault(next, "error")
         [] doc.st = "ok" /\ entry # NoFile /\ ~m.entries[entry].strict /\ doc.decl -> Fault(next, "error")
         [] OTHER -> Enumerate([next EXCEPT !.p.named = doc.st = "ok"], w, parts \o extra)
claudeComponents(built, w, entry) ==
    LET sold == built.p.market # NoFile
        m == built.r.markets[built.p.market]
        unsure == IF sold /\ (m.err \/ (m.file = NoFile /\ built.r.mem.unregistered)) THEN Lower(built, "partial") ELSE built
        payload == IF sold /\ built.p.source # Nowhere /\ m.kind = "directory" /\ m.seed = Nowhere THEN built.p.source ELSE built.p.path
        next == [unsure EXCEPT !.p.path = payload]
        marker == world.marker[payload]
        linked == w.file[marker]
        c == [next EXCEPT !.r = Stamped(@, w, {marker})]
        keep(d) == [d EXCEPT !.p.path = built.p.path]
    IN IF payload # built.p.path /\ w.dir[payload] # "dir" THEN Fault(unsure, "partial")
       ELSE IF ~next.p.link \/ linked.st = "absent" THEN keep(claudePayload(IF next.p.link THEN c ELSE next, w, entry))
       ELSE IF linked.st = "ok" /\ w.dir[linked.target] = "dir"
       THEN keep(claudePayload([c EXCEPT !.p.path = linked.target, !.p.source = linked.target], w, entry))
       ELSE [Fault(c, "error") EXCEPT !.p.path = built.p.path]

\* Appending the plugin and enumerating the payload of the one appended.
WithParts(r, w, p, enumerate(_)) ==
    IF ~Added(r, p) THEN addPlugin(r, p)
    ELSE LET built == enumerate([p |-> p, r |-> r]) IN [built.r EXCEPT !.plugins = Append(@, built.p)]

registryPlugin(r, w, rec) ==
    LET sold == rec.market # NoFile
        q == IF sold THEN market(r, rec.market) ELSE r
        m == q.markets[rec.market]
        entry == IF sold /\ Entry(m, rec.name) THEN rec.name ELSE NoFile
        named == [newPlugin(rec.name, IF sold THEN "marketplace" ELSE "unknown", rec.scope,
                            IF rec.scope \in {"project", "local"} THEN rec.project ELSE Nowhere) EXCEPT
                     !.market = rec.market,
                     !.link = entry # NoFile /\ m.entries[entry].link,
                     !.source = IF entry # NoFile /\ m.root # Nowhere /\ m.entries[entry].at \notin {Nowhere, rec.path} THEN m.entries[entry].at ELSE Nowhere]
        seeded == IF sold /\ m.seed # Nowhere /\ w.dir[rec.seeded] = "dir" THEN rec.seeded ELSE rec.path
        present == IF seeded = Nowhere THEN "unknown" ELSE Present(w, seeded)
        p == enablement(q, [named EXCEPT !.path = seeded, !.present = present,
                               !.status = CASE seeded = Nowhere \/ present = "no" -> "error" [] present = "unknown" -> "partial" [] OTHER -> "complete"])
    IN IF w.late THEN InstPartial(r)
       ELSE WithParts(q, w, p, LAMBDA a : IF present = "yes" \/ p.source # Nowhere THEN claudeComponents(a, w, entry) ELSE a)

\* skillsDirPlugins, one root of it.
skillsDirPlugins(r, w, root) ==
    LET one(s, d) ==
            LET p == [enablement(s, [newPlugin(d, "directory", root.scope, root.project) EXCEPT !.path = d, !.present = "yes"]) EXCEPT
                         !.installed = IF root.scope = "project" THEN "unknown" ELSE "yes",
                         !.effective = IF root.scope = "project" THEN "unknown" ELSE @]
            IN WithParts(s, w, p, LAMBDA a : claudeComponents(a, w, NoFile))
    IN IF w.dir[root.at] = "denied" THEN InstPartial(r)
       ELSE FoldLeft(one, r, SelectSeq(children(w, root.at), LAMBDA d : manifestThere(w, world.manifest[d].legacy[1])))

\* syncedPlugins: packages lie one or two levels below the synced root.
syncedPlugins(r, w) ==
    LET packed(d) == manifestThere(w, world.manifest[d].legacy[1])
        tops == children(w, world.synced)
        groups == SelectSeq(tops, LAMBDA d : ~packed(d))
        payloads == SelectSeq(tops, packed) \o FlattenSeq([i \in DOMAIN groups |-> SelectSeq(children(w, groups[i]), packed)])
        one(s, d) == WithParts(s, w, enablement(s, [newPlugin(d, "synced", "user", Nowhere) EXCEPT !.path = d, !.present = "yes", !.installed = "unknown"]),
                               LAMBDA a : claudeComponents(a, w, NoFile))
        q == IF \E d \in Range(groups) : world.sealed = d \/ w.late THEN InstPartial(r) ELSE r
    IN IF w.dir[world.synced] = "denied" THEN InstPartial(r) ELSE FoldLeft(one, q, payloads)

-----------------------------------------------------------------------------
(* Codex.                                                                  *)
codexTasks == <<"configs", "catalogs", "store">>
Blank == [kind |-> NoFile, at |-> Nowhere]

\* readConfigs: the first layer to name a plugin or a marketplace decides; two
\* that disagree about a marketplace leave it blank.
readConfigs(r, w) ==
    LET read == SelectSeq(world.configs, LAMBDA l : w.file[l.file].st # "absent" /\ (l.project = Nowhere \/ l.project \in world.projects))
        layer(l) == LET doc == w.file[l.file]
                    IN [scope |-> l.scope, project |-> l.project, ok |-> doc.st = "ok",
                        plugins |-> IF doc.st = "ok" THEN doc.plugins ELSE <<>>, servers |-> IF doc.st = "ok" THEN doc.servers ELSE <<>>,
                        markets |-> IF doc.st = "ok" THEN doc.markets ELSE <<>>]
        layers == [i \in DOMAIN read |-> layer(read[i])]
        whole == \A l \in Range(layers) : l.ok
        clash(name) == Cardinality({l.markets[name] : l \in {l \in Range(layers) : name \in DOMAIN l.markets}}) > 1
        merged == FoldLeft(LAMBDA all, l : all @@ l.markets, <<>>, layers)
        cfg == [name \in DOMAIN merged |-> IF clash(name) THEN Blank ELSE merged[name]]
        q == Stamped(r, w, {l.file : l \in {l \in Range(world.configs) : l.project = Nowhere \/ l.project \in world.projects}})
        s == Remember(Remember(q, "layers", layers), "markets", cfg)
        t == IF whole THEN s ELSE fail(s)
    IN IF \E name \in DOMAIN cfg : clash(name) THEN MarketPartial(t) ELSE t

\* readMarketplaces, then discoverCatalogs: a catalog found at home or in a
\* project is known under the name it states, unless another has that name.
codexCatalog(r, w, name, at) ==
    LET f == world.catalog[at]
        q == Stamped(r, w, {f})
    IN CASE w.file[f].st = "absent" -> q
         [] w.file[f].st = "ok" -> [q EXCEPT !.markets[name] = [@ EXCEPT !.entries = w.file[f].entries, !.file = f]]
         [] OTHER -> MarketPartial(q)
configured(r, w, name) ==
    LET doc == r.mem.markets[name]
        m == [market(r, name) EXCEPT !.markets[name] = [@ EXCEPT !.registered = TRUE, !.kind = doc.kind, !.source = doc.at, !.root = doc.at]]
    IN IF doc.kind \notin {"directory", "github"} THEN m
       ELSE IF doc.at = Nowhere THEN MarketPartial(m) ELSE codexCatalog(m, w, name, doc.at)
discovered(r, w, at) ==
    LET f == world.catalog[at]
        q == Stamped(r, w, {f})
        name == w.file[f].name
    IN CASE w.file[f].st = "absent" -> q
         [] w.file[f].st # "ok" -> MarketPartial(q)
         [] w.file[f].st = "ok" /\ name \in DOMAIN q.markets -> IF q.markets[name].file = f THEN q ELSE MarketPartial(q)
         [] OTHER -> codexCatalog([market(q, name) EXCEPT !.markets[name] = [@ EXCEPT !.kind = "directory", !.source = at, !.root = at]], w, name, at)
readCatalogs(r, w) ==
    LET said == FoldLeft(LAMBDA s, name : configured(s, w, name), r, InOrder(DOMAIN r.mem.markets))
    IN FoldLeft(LAMBDA s, at : discovered(s, w, at), said, <<world.home>> \o InOrder(world.projects))

\* plugins: what is configured, and what the store holds.
plugins(r, w) ==
    LET names == UNION {DOMAIN l.plugins : l \in Range(r.mem.layers)}
        stored == IF w.dir[world.store] = "dir" THEN {id \in DOMAIN world.stored : w.dir[world.stored[id].base] # "absent"} ELSE {}
        ids == InOrder(names \cup stored)
        q == IF w.dir[world.store] = "denied" THEN InstPartial(r) ELSE r
    IN [q EXCEPT !.todo = @ \o [i \in DOMAIN ids |-> [do |-> "bundle", rec |-> ids[i]]]]

\* selectVersion: "local" wins, then the highest; versions are listed lowest
\* first.
selectVersion(w, id) ==
    LET there == SelectSeq(world.stored[id].versions, LAMBDA v : w.dir[v.at] = "dir")
        pinned == SelectSeq(there, LAMBDA v : v.label = "local")
    IN IF pinned # <<>> THEN Head(pinned).at ELSE IF there # <<>> THEN Last(there).at ELSE Nowhere

\* selectManifest: a root manifest counts by its schema; a malformed one that
\* is preferred is reported, never passed over.
FirstThere(w, files) ==
    LET there == SelectSeq(files, LAMBDA f : w.file[f].st # "absent") IN IF there = <<>> THEN NoFile ELSE Head(there)
Portable(x) == x.st = "ok" /\ x.schema = "portable"
selectManifest(w, d) ==
    LET top == world.manifest[d].root
        doc == w.file[top]
    IN IF Unread(doc) \/ (doc.st = "ok" /\ doc.schema # "none") THEN top ELSE FirstThere(w, world.manifest[d].legacy)
codexComponents(a, w) ==
    LET d == a.p.path
        f == selectManifest(w, d)
        read == {world.manifest[d].root} \cup (IF f = world.manifest[d].root THEN {} ELSE Range(world.manifest[d].legacy))
        next == [a EXCEPT !.r = Stamped(@, w, read)]
        doc == w.file[f]
        over == w.file[doc.overlay]
        layered == Portable(doc) /\ over.st # "absent"
        base == [next EXCEPT !.p.named = TRUE, !.r = IF Portable(doc) THEN Stamped(@, w, {doc.overlay}) ELSE @]
    IN IF f = NoFile THEN next
       ELSE CASE Unread(doc) \/ (Portable(doc) /\ ~doc.named) -> Fault(next, "error")
              [] doc.st = "ok" /\ doc.schema = "future" -> Fault(next, "unsupported")
              [] doc.st = "ok" /\ (doc.schema = "none" \/ (Portable(doc) /\ doc.named)) ->
                   Enumerate(IF layered /\ over.st # "ok" THEN Lower(base, "partial") ELSE base,
                             w, IF layered /\ over.st = "ok" THEN doc.parts \o over.parts ELSE doc.parts)

\* mcpEnablement: a layer that could not be read may disable any server.
mcpEnablement(r, p) ==
    IF (world.unfound \/ \E l \in Range(r.mem.layers) : ~l.ok) /\ \E c \in Range(p.parts) : c.kind = "mcp"
    THEN [p EXCEPT !.status = degrade(@, "partial"),
                   !.parts = [i \in DOMAIN @ |-> IF @[i].kind = "mcp" THEN [@[i] EXCEPT !.status = degrade(@, "partial")] ELSE @[i]]]
    ELSE p

codexPlugin(r, w, id) ==
    LET at == IF id \in DOMAIN world.stored /\ w.dir[world.stored[id].base] = "dir" THEN selectVersion(w, id) ELSE Nowhere
        marker == world.stored[id].marker
        doc == w.file[marker]
        q == Stamped(r, w, {marker})
        naming == SelectSeq(r.mem.layers, LAMBDA l : id \in DOMAIN l.plugins /\ l.plugins[id] # "unsaid")
        mine == SelectSeq(naming, LAMBDA l : l.scope = "user")
        said == [i \in DOMAIN naming |-> [scope |-> naming[i].scope, on |-> naming[i].plugins[id]]]
        sold == world.stored[id].market
        s == market(q, sold)
        entry == Entry(s.markets[sold], id)
        e == s.markets[sold].entries[id]
        base == [newPlugin(id, IF doc.st = "absent" THEN "marketplace" ELSE "account", "user", Nowhere) EXCEPT
                   !.path = at, !.present = "yes", !.enabled = said, !.configured = IF mine = <<>> THEN "unknown" ELSE Last(mine).plugins[id]]
        account == doc.st # "absent"
        strange == entry /\ e.strange
        p == IF account THEN [base EXCEPT !.installed = "unknown", !.remote = IF doc.st = "ok" THEN doc.id ELSE NoFile]
             ELSE [base EXCEPT !.market = sold, !.installed = IF strange THEN "unknown" ELSE "yes",
                               !.source = IF entry /\ s.markets[sold].root # Nowhere /\ e.at # at THEN e.at ELSE Nowhere]
        unsure == IF account THEN doc.st # "ok" \/ doc.id = NoFile ELSE strange
        before == IF account THEN q ELSE s
    IN IF w.late THEN InstPartial(r)
       ELSE IF at = Nowhere THEN IF id \in DOMAIN world.stored /\ w.dir[world.stored[id].base] = "denied" THEN InstPartial(r) ELSE r
       ELSE IF account \/ \E l \in Range(r.mem.layers) : id \in DOMAIN l.plugins
       THEN WithParts(IF unsure THEN InstPartial(before) ELSE before, w, p,
                      LAMBDA c : LET d == codexComponents(c, w) IN [d EXCEPT !.p = mcpEnablement(before, @)])
       ELSE q

-----------------------------------------------------------------------------
(* Copilot's command line.                                                 *)
copilotTasks == <<"options">>
copilotSettings(r, w) ==
    LET config == w.file["config"]
        read == SelectSeq(world.options, LAMBDA l : l.project = Nowhere \/ l.project \in world.projects)
        stand(l) == IF w.file[l.file].st = "absent" /\ l.scope = "user" /\ config.st = "ok" THEN config ELSE w.file[l.file]
        there == SelectSeq(read, LAMBDA l : stand(l).st = "ok")
        layer(l) == [file |-> l.file, scope |-> l.scope, project |-> l.project, enabled |-> stand(l).enabled, markets |-> stand(l).markets]
        layers == [i \in DOMAIN there |-> layer(there[i])]
        q == Stamped(r, w, {"config"} \cup {l.file : l \in Range(read)})
        sound == ~Unread(config) /\ \A l \in Range(read) : ~Unread(stand(l)) /\ (stand(l).st = "ok" => ~stand(l).odd)
        one(s, l, name) ==
            LET m == market(s, name)
                doc == l.markets[name]
                old == m.markets[name]
            IN IF old.kind # NoFile /\ <<old.kind, old.source>> # <<doc.kind, doc.at>>
               THEN fail([m EXCEPT !.markets[name] = [@ EXCEPT !.registered = TRUE, !.kind = "unknown"]])
               ELSE [m EXCEPT !.markets[name] = [@ EXCEPT !.registered = TRUE, !.kind = doc.kind, !.source = doc.at, !.root = doc.at]]
        s == FoldLeft(LAMBDA t, l : FoldLeft(LAMBDA u, name : one(u, l, name), t, InOrder(DOMAIN l.markets)),
                      IF sound THEN q ELSE fail(q), layers)
        rows == IF config.st = "ok" THEN config.rows ELSE <<>>
    IN [Remember(s, "layers", layers) EXCEPT
           !.todo = @ \o [i \in DOMAIN rows |-> [do |-> "row", rec |-> rows[i]]] \o <<[do |-> "live"]>>]

\* catalogEntry: <<found, run>>; the payloads a catalog lists are covered trees.
catalogEntry(r, w, name, native) ==
    LET at == r.markets[name].root
        f == world.catalog[at]
        doc == w.file[f]
        q == Stamped(r, w, {f})
        listed == [q EXCEPT !.markets[name].file = f,
                            !.bud.suppressed = @ \cup ({doc.entries[n].at : n \in DOMAIN doc.entries} \ {Nowhere, at})]
    IN IF w.dir[at] # "dir" THEN <<FALSE, fail(r)>>
       ELSE IF doc.st # "ok" THEN <<FALSE, fail([q EXCEPT !.markets[name].file = IF doc.st = "absent" THEN @ ELSE f])>>
       ELSE IF native \in DOMAIN doc.entries THEN <<TRUE, listed>> ELSE <<FALSE, fail(listed)>>

copilotComponents(a, w) ==
    LET d == a.p.path
        top == world.manifest[d].root
        said == w.file[top]
        f == IF said.st = "ok" /\ said.schema # "none" THEN top ELSE FirstThere(w, world.manifest[d].legacy \o <<top>>)
        next == [a EXCEPT !.r = Stamped(@, w, {top} \cup (IF f = top THEN {} ELSE Range(world.manifest[d].legacy)))]
        doc == w.file[f]
    IN IF Unread(said) THEN Lower(next, "partial")
       ELSE IF said.st = "ok" /\ said.schema = "future" THEN Fault(next, "unsupported")
       ELSE IF f = NoFile THEN Lower(next, "partial")
       ELSE IF Unread(doc) \/ ~doc.named THEN Lower(next, "partial")
       ELSE Enumerate([next EXCEPT !.p.named = TRUE], w, doc.parts)

\* finish: a payload is enumerated before its plugin is accepted.
finish(r, w, p) ==
    LET naming == SelectSeq(r.mem.layers, LAMBDA l : p.native \in DOMAIN l.enabled)
        said == [p EXCEPT !.enabled = @ \o [i \in DOMAIN naming |-> [scope |-> naming[i].scope, on |-> naming[i].enabled[p.native]]],
                          !.present = IF p.path = Nowhere THEN "unknown" ELSE Present(w, p.path)]
        built == IF said.present = "yes" THEN copilotComponents([p |-> said, r |-> r], w)
             ELSE [p |-> IF p.path = Nowhere THEN said ELSE [said EXCEPT !.status = degrade(@, "partial")], r |-> r]
    IN IF p.local /\ ~built.p.named THEN fail(built.r)
       ELSE addPlugin(IF said.present = "yes" /\ built.p.named THEN [built.r EXCEPT !.bud.suppressed = @ \cup {p.path}] ELSE built.r, built.p)

copilotRow(r, w, rec) ==
    LET sold == rec.market # NoFile
        q == IF sold THEN market(r, rec.market) ELSE r
        m == q.markets[rec.market]
        lost == sold /\ (m.root = Nowhere \/ m.kind \in {NoFile, "unknown"})
        e == catalogEntry(q, w, rec.market, rec.name)
        s == IF lost THEN MarketPartial(q) ELSE IF sold THEN e[2] ELSE q
        missed == lost \/ (sold /\ ~e[1])
        p == [newPlugin(rec.name, IF sold THEN "marketplace" ELSE "directory", "user", Nowhere) EXCEPT
                !.market = rec.market, !.path = rec.path, !.source = rec.source, !.configured = rec.on,
                !.enabled = IF rec.on = "unknown" THEN <<>> ELSE <<[scope |-> "user", on |-> rec.on]>>,
                !.status = IF missed \/ rec.path = Nowhere THEN "partial" ELSE "complete"]
    IN CASE w.late \/ ~rec.sound -> fail(r)
         [] rec.sound /\ rec.path = Nowhere -> finish(fail(s), w, p)
         [] OTHER -> finish(s, w, p)

\* liveSelections: a plugin switched on from a local catalog needs no install.
liveSelections(r, w) ==
    LET one(s, l, id) ==
            LET name == world.soldAt[id]
                known == name \in DOMAIN s.markets
                m == s.markets[name]
                registered == \E p \in Range(s.plugins) : p.native = id /\ ~p.local
                declaredFor == \E o \in Range(r.mem.layers) : name \in DOMAIN o.markets
                                  /\ (o.scope \in {"user", "system"} \/ (o.project = l.project /\ l.project # Nowhere))
                chosen == \E p \in Range(s.plugins) : p.native = id /\ p.local
                                  /\ (p.scope \in {"user", "system"} \/ p.project = l.project)
                e == catalogEntry(s, w, name, id)
                at == w.file[world.catalog[m.root]].entries[id].at
            IN IF w.late \/ Len(s.plugins) >= world.max.plugins THEN fail(s)
               ELSE IF registered THEN IF known /\ m.kind = "directory" THEN fail(s) ELSE s
               ELSE IF ~known \/ m.kind # "directory" \/ ~declaredFor THEN fail(s)
               ELSE IF chosen THEN s
               ELSE IF ~e[1] THEN e[2]
               ELSE IF at = Nowhere \/ w.dir[at] # "dir" THEN fail(e[2])
               ELSE finish(e[2], w, [newPlugin(id, "marketplace", l.scope, l.project) EXCEPT
                                       !.market = name, !.path = at, !.source = at, !.local = TRUE, !.configured = l.enabled[id]])
    IN FoldLeft(LAMBDA s, l : FoldLeft(LAMBDA t, id : one(t, l, id), s, InOrder(DOMAIN l.enabled)), r, r.mem.layers)

-----------------------------------------------------------------------------
CONSTANT Worlds         \* the machines explored

VARIABLES
    late,       \* the deadline has passed
    pc,
    moved,      \* the files rewritten so far
    moments,    \* moved, at every moment since the current agent's turn came
    agents,     \* the agents to come
    attempt,
    run,        \* the attempt under way
    saved,      \* the budgets as snapshotRetry captured them
    done,       \* the contexts assembled
    report,
    kept        \* the walker's findings left standing
vars == <<world, late, pc, moved, moments, agents, attempt, run, saved, done, report, kept>>

NoBudget == [components |-> 0, servers |-> 0, definitions |-> 0, memo |-> {}, commands |-> {}, owned |-> {}, suppressed |-> {}]
NoReport == [given |-> FALSE, contexts |-> <<>>]

Holds(f, edits) == IF f \in edits THEN world.later[f] ELSE world.file[f]
View(edits) == [late |-> FALSE, cut |-> FALSE, dir |-> world.dir, file |-> [f \in DOMAIN world.file |-> Holds(f, edits)]]
Refusing(w) == [w EXCEPT !.cut = TRUE, !.file = [f \in DOMAIN w.file |-> Denied]]
Closing(w) == [Refusing(w) EXCEPT !.late = TRUE, !.dir = [d \in DOMAIN w.dir |-> "denied"]]
Now == IF late THEN Closing(View(moved)) ELSE View(moved)

TasksOf(agent) == CASE agent = "claude" -> claudeTasks [] agent = "codex" -> codexTasks [] agent = "copilot" -> copilotTasks
newContext(agent, budget) ==
    [agent |-> agent, inst |-> "complete", market |-> "complete", plugins |-> <<>>, markets |-> <<>>, changed |-> FALSE,
     mem |-> <<>>, reads |-> <<>>, mixed |-> FALSE, bud |-> budget,
     todo |-> [i \in DOMAIN TasksOf(agent) |-> [do |-> TasksOf(agent)[i]]]]

TypeOK ==
    /\ late \in BOOLEAN /\ attempt \in 0 .. 1
    /\ pc \in {"detect", "run", "assembled", "finalize", "reconcile", "done"}
    /\ moved \subseteq world.movable /\ moved \in moments
    /\ \A c \in Range(done) \cup Range(report.contexts) : \A st \in {c.inst, c.market} \cup {p.status : p \in Range(c.plugins)} :
          st \in {"complete", "partial", "unsupported", "error"}
    /\ kept \subseteq world.found

Init ==
    /\ world \in Worlds
    /\ late = FALSE
    /\ pc = "detect"
    /\ moved = {}
    /\ moments = {{}}
    /\ agents = world.agents
    /\ attempt = 0
    /\ run = newContext("claude", NoBudget)
    /\ saved = NoBudget
    /\ done = <<>>
    /\ report = NoReport
    /\ kept = {}

-----------------------------------------------------------------------------
(* What happens meanwhile.                                                 *)
Scanning == pc \in {"detect", "run"} /\ UNCHANGED <<world, pc, agents, attempt, run, saved, done, report, kept>>
Expire == Scanning /\ world.hasty /\ ~late /\ late' = TRUE /\ UNCHANGED <<moved, moments>>
Edit == \E f \in world.movable \ moved :
           Scanning /\ moved' = moved \cup {f} /\ moments' = moments \cup {moved'} /\ UNCHANGED late

-----------------------------------------------------------------------------
(* One agent.                                                              *)
RootState(a) == IF late THEN "denied" ELSE world.dir[a.root]
Resolved(a) == ~a.estranged /\ (RootState(a) = "dir" \/ (a.agent = "copilot" /\ RootState(a) = "absent"))
Turn == pc = "detect" /\ agents # <<>> /\ agents' = Tail(agents) /\ UNCHANGED <<world, late, moved, report, kept>>

detect ==
    /\ Turn /\ Resolved(Head(agents))
    /\ pc' = "run"
    /\ attempt' = 0
    /\ moments' = {moved}
    /\ saved' = run.bud
    /\ run' = newContext(Head(agents).agent, run.bud)
    /\ UNCHANGED done

unresolvedContext ==
    /\ Turn /\ ~Resolved(Head(agents))
    /\ Head(agents).estranged \/ RootState(Head(agents)) # "absent" \/ Head(agents).env
    /\ done' = Append(done, [newContext(Head(agents).agent, NoBudget) EXCEPT !.inst = "error", !.market = "error"])
    /\ UNCHANGED <<pc, moments, attempt, run, saved>>

notInstalled ==
    /\ Turn /\ ~Resolved(Head(agents))
    /\ ~Head(agents).estranged /\ RootState(Head(agents)) = "absent" /\ ~Head(agents).env
    /\ UNCHANGED <<pc, moments, attempt, run, saved, done>>

\* One task sees the machine as it is, or is struck by the deadline.
Seen == {[late |-> late, w |-> Now]} \cup
        (IF world.hasty /\ ~late THEN {[late |-> TRUE, w |-> [Now EXCEPT !.cut = TRUE]], [late |-> TRUE, w |-> Refusing(Now)]} ELSE {})
Task(do) == /\ pc = "run" /\ run.todo # <<>> /\ Head(run.todo).do = do
            /\ UNCHANGED <<world, pc, moved, moments, agents, attempt, saved, done, report, kept>>
Rest == [run EXCEPT !.todo = Tail(@)]
Rec == Head(run.todo).rec

Registry == Task("registry") /\ \E s \in Seen : late' = s.late /\ run' = readRegistry(Rest, s.w)
Settings == Task("settings") /\ \E s \in Seen : late' = s.late /\ run' = readSettingsLayers(Rest, s.w)
Markets == Task("markets") /\ \E s \in Seen : late' = s.late /\ run' = readMarketplaces(Rest, s.w)
Seeds == Task("seeds") /\ \E s \in Seen : late' = s.late /\ run' = readSeedMarketplaces(Rest, s.w)
Plugin == Task("plugin") /\ \E s \in Seen : late' = s.late /\ run' = registryPlugin(Rest, s.w, Rec)
Skills == Task("skills") /\ \E s \in Seen : late' = s.late /\ run' = skillsDirPlugins(Rest, s.w, Rec)
Synced == Task("synced") /\ \E s \in Seen : late' = s.late /\ run' = syncedPlugins(Rest, s.w)
Configs == Task("configs") /\ \E s \in Seen : late' = s.late /\ run' = readConfigs(Rest, s.w)
Catalogs == Task("catalogs") /\ \E s \in Seen : late' = s.late /\ run' = readCatalogs(Rest, s.w)
Store == Task("store") /\ \E s \in Seen : late' = s.late /\ run' = plugins(Rest, s.w)
Bundle == Task("bundle") /\ \E s \in Seen : late' = s.late /\ run' = codexPlugin(Rest, s.w, Rec)
Options == Task("options") /\ \E s \in Seen : late' = s.late /\ run' = copilotSettings(Rest, s.w)
Row == Task("row") /\ \E s \in Seen : late' = s.late /\ run' = copilotRow(Rest, s.w, Rec)
Live == Task("live") /\ \E s \in Seen : late' = s.late /\ run' = liveSelections(Rest, s.w)

-----------------------------------------------------------------------------
(* Coherence, then the report.                                             *)
LowerAll(ps) == [i \in DOMAIN ps |-> [ps[i] EXCEPT !.status = degrade(@, "partial")]]
snapshotChanged(r, w) == r.mixed \/ \E f \in DOMAIN r.reads : r.reads[f] # w.file[f]
KeepServers == [saved EXCEPT !.servers = run.bud.servers]           \* mutant
restore == saved

Judging == pc = "run" /\ run.todo = <<>> /\ UNCHANGED <<world, late, moved, moments, agents, saved, done, report, kept>>
coherent == Judging /\ ~snapshotChanged(run, Now) /\ pc' = "assembled" /\ UNCHANGED <<attempt, run>>
again ==
    /\ Judging /\ snapshotChanged(run, Now) /\ attempt = 0
    /\ attempt' = 1 /\ run' = newContext(run.agent, restore) /\ UNCHANGED pc
sourceChanged ==
    /\ Judging /\ snapshotChanged(run, Now) /\ attempt = 1
    /\ pc' = "assembled" /\ run' = [fail(run) EXCEPT !.changed = TRUE, !.plugins = LowerAll(@)] /\ UNCHANGED attempt

Vanishes(c) == c.agent = "copilot" /\ ~world.homed /\ c.plugins = <<>> /\ c.markets = <<>> /\ c.inst = "complete" /\ c.market = "complete"
assembled ==
    /\ pc = "assembled"
    /\ pc' = "detect"
    /\ run' = [run EXCEPT !.bud.suppressed = @ \cup world.own[run.agent]]
    /\ done' = IF Vanishes(run) THEN done ELSE Append(done, run)
    /\ UNCHANGED <<world, late, moved, moments, agents, attempt, saved, report, kept>>

Upto(seq, n) == SubSeq(seq, 1, Min({Len(seq), Max({0, n})}))
finalizePluginScan(contexts) ==
    LET one(acc, c) ==
            LET d == IF world.unfound THEN fail(c) ELSE c
                names == InOrder(DOMAIN d.markets)
                sold == Range(Upto(names, world.max.markets - acc.markets))
                known == SelectSeq(d.plugins, LAMBDA p : p.market = NoFile \/ p.market \in sold)
                listed == Upto(known, world.max.plugins - acc.plugins)
                e == IF sold = Range(names) THEN d ELSE MarketPartial(d)
                whole == IF listed = d.plugins THEN e ELSE InstPartial(e)
            IN [contexts |-> Append(acc.contexts, [whole EXCEPT !.markets = [name \in sold |-> @[name]], !.plugins = listed]),
                markets |-> acc.markets + Cardinality(sold), plugins |-> acc.plugins + Len(listed)]
    IN FoldLeft(one, [contexts |-> <<>>, markets |-> 0, plugins |-> 0], Upto(contexts, world.max.contexts)).contexts

\* The room an encoded report takes, and what stripping its components leaves.
EncodedSize(contexts) == FoldLeft(LAMBDA n, c : FoldLeft(LAMBDA m, p : m + 1 + Len(p.parts), n + 1, c.plugins), 0, contexts)
Emptied(contexts) ==
    [i \in DOMAIN contexts |-> [contexts[i] EXCEPT !.plugins = LowerAll([j \in DOMAIN @ |-> [@[j] EXCEPT !.parts = <<>>]])]]

finalize ==
    /\ pc = "detect" /\ agents = <<>>
    /\ pc' = "reconcile"
    /\ LET all == finalizePluginScan(done)
           small == IF EncodedSize(all) > world.max.size THEN Emptied(all) ELSE all
       IN report' = IF done = <<>> \/ EncodedSize(small) > world.max.size THEN NoReport ELSE [given |-> TRUE, contexts |-> small]
    /\ UNCHANGED <<world, late, moved, moments, agents, attempt, run, saved, done, kept>>

representedMCPFiles ==
    {c.at : c \in UNION {{c \in Range(p.parts) : c.kind = "mcp" /\ c.status = "complete"} :
              p \in UNION {{p \in Range(c.plugins) : p.status = "complete"} : c \in Range(report.contexts)}}}
Covered(at) == \E d \in run.bud.suppressed : Inside(at, d)
replacesMCPConfig(x) ==
    ~x.explicit /\ IF x.file \in run.bud.owned THEN x.file \in representedMCPFiles ELSE Covered(x.at)

ReconcilePluginMCP ==
    /\ pc = "reconcile"
    /\ pc' = "done"
    /\ kept' = {x \in world.found : ~replacesMCPConfig(x)}
    /\ UNCHANGED <<world, late, moved, moments, agents, attempt, run, saved, done, report>>

Next ==
    \/ Expire \/ Edit
    \/ detect \/ unresolvedContext \/ notInstalled
    \/ Registry \/ Settings \/ Markets \/ Seeds \/ Plugin \/ Skills \/ Synced
    \/ Configs \/ Catalogs \/ Store \/ Bundle \/ Options \/ Row \/ Live
    \/ coherent \/ again \/ sourceChanged
    \/ assembled \/ finalize \/ ReconcilePluginMCP
Spec == Init /\ [][Next]_vars

-----------------------------------------------------------------------------
(* What the report may be relied on for.                                   *)
Moments == {View(edits) : edits \in moments}
Told(st) == st \in {"ok", "absent"}

\* The attempt made at one moment, with the budgets the phase had left.
Does(r, w) ==
    LET t == Head(r.todo)
        q == [r EXCEPT !.todo = Tail(@)]
    IN CASE t.do = "registry" -> readRegistry(q, w)
         [] t.do = "settings" -> readSettingsLayers(q, w)
         [] t.do = "markets" -> readMarketplaces(q, w)
         [] t.do = "seeds" -> readSeedMarketplaces(q, w)
         [] t.do = "plugin" -> registryPlugin(q, w, t.rec)
         [] t.do = "skills" -> skillsDirPlugins(q, w, t.rec)
         [] t.do = "synced" -> syncedPlugins(q, w)
         [] t.do = "configs" -> readConfigs(q, w)
         [] t.do = "catalogs" -> readCatalogs(q, w)
         [] t.do = "store" -> plugins(q, w)
         [] t.do = "bundle" -> codexPlugin(q, w, t.rec)
         [] t.do = "options" -> copilotSettings(q, w)
         [] t.do = "row" -> copilotRow(q, w, t.rec)
         [] t.do = "live" -> liveSelections(q, w)
Advance(r, w) == IF r.todo = <<>> THEN r ELSE Does(r, w)
Assembled(agent, budget, w) == FoldLeft(LAMBDA r, i : Advance(r, w), newContext(agent, budget), [i \in 1 .. world.tasks |-> i])
Outcome(r) == <<r.inst, r.market, r.plugins, r.markets, r.bud>>

\* A context that does not say its sources changed is what one moment of its
\* time gives, budgets included (plugins_claude.go:177, "one coherent
\* snapshot"): rewriting files while they are read mixes nothing.
OneMoment == pc = "assembled" /\ ~run.changed /\ ~late => \E w \in Moments : Outcome(run) = Outcome(Assembled(run.agent, saved, w))

\* The plugins an agent's records, directories and settings name at a moment,
\* and whether all of them could be read.
Listing(agent, w) ==
    CASE agent = "claude" -> [files |-> {"installed"}, dirs |-> {root.at : root \in Range(world.skillRoots)} \cup {world.synced}]
      [] agent = "codex" -> [files |-> {l.file : l \in Range(world.configs)}, dirs |-> {world.store}]
      [] agent = "copilot" -> [files |-> {"config"} \cup {l.file : l \in Range(world.options)}, dirs |-> {}]
Due(agent, w) ==
    CASE agent = "claude" ->
           {<<rec.name, rec.scope, rec.project>> : rec \in IF w.file["installed"].st = "ok" THEN Range(w.file["installed"].records) ELSE {}}
           \cup UNION {{<<d, root.scope, root.project>> : d \in {d \in Dir : Up[d] = root.at /\ w.file[world.manifest[d].legacy[1]].st = "ok"}} :
                         root \in Range(world.skillRoots)}
           \cup {<<d, "user", Nowhere>> : d \in {d \in Dir : Inside(d, world.synced) /\ w.file[world.manifest[d].legacy[1]].st = "ok"}}
      [] agent = "codex" ->
           {<<id, "user", Nowhere>> : id \in
               {id \in DOMAIN world.stored : LET s == world.stored[id]
                  IN /\ \E v \in Range(s.versions) : w.dir[s.base] = "dir" /\ w.dir[v.at] = "dir"
                     /\ \/ w.file[s.marker].st = "ok"
                        \/ \E l \in Range(world.configs) : w.file[l.file].st = "ok" /\ id \in DOMAIN w.file[l.file].plugins}}
      [] agent = "copilot" -> {<<rec.name, "user", Nowhere>> : rec \in IF w.file["config"].st = "ok" THEN Range(w.file["config"].rows) ELSE {}}
Listed(c) == {<<p.native, p.scope, p.project>> : p \in Range(c.plugins)}

\* A part a complete plugin must show, and the manifest that leads to it.
Shown(p, x, w) ==
    LET has(kind, at, name) == \E c \in Range(p.parts) : Identity(c) = <<kind, at, name>> /\ c.status = "complete"
    IN CASE x.kind \in {"skill", "command"} -> has(x.kind, x.at, x.kind)
         [] x.kind = "declared" -> x.st # "cut" /\ has("declared", x.at, x.at)
         [] x.kind = "optional" -> x.st = "ok" => has("declared", x.at, x.at)
         [] x.kind = "inline" -> \A name \in DOMAIN x.servers : has("mcp", x.at, name)
         [] x.kind = "mcp" -> CASE w.file[x.at].st = "ok" -> \A name \in DOMAIN w.file[x.at].servers : has("mcp", x.at, name)
                                [] w.file[x.at].st = "absent" -> ~x.required
                                [] OTHER -> FALSE
Governing(agent, d, w) ==
    CASE agent = "claude" -> world.manifest[d].legacy[1]
      [] agent = "codex" -> FirstThere(w, SelectSeq(<<world.manifest[d].root>> \o world.manifest[d].legacy,
                                                     LAMBDA f : f # world.manifest[d].root \/ w.file[f].st # "ok" \/ w.file[f].schema # "none"))
      [] agent = "copilot" -> LET top == world.manifest[d].root
                              IN IF w.file[top].st = "ok" /\ w.file[top].schema # "none" THEN top ELSE FirstThere(w, world.manifest[d].legacy \o <<top>>)
PartsAt(agent, d, w) ==
    LET f == Governing(agent, d, w)
    IN IF w.file[f].st = "ok" THEN w.file[f].parts ELSE IF agent = "claude" THEN world.bare[d] ELSE <<>>
Payload(agent, p, w) ==
    LET local == p.market # NoFile /\ run.markets[p.market].kind = "directory" /\ run.markets[p.market].seed = Nowhere
        linked == p.link /\ w.file[world.marker[p.path]].st = "ok"
    IN IF agent = "claude" /\ (linked \/ local) /\ p.source # Nowhere THEN p.source ELSE p.path
WholePlugin(agent, p, w) ==
    p.present = "yes" =>
       /\ Told(w.file[Governing(agent, Payload(agent, p, w), w)].st)
       /\ \A x \in Range(PartsAt(agent, Payload(agent, p, w), w)) : Shown(p, x, w)

\* What a context calls complete leaves nothing out: every plugin the agent's
\* records name, and every part a plugin's manifest leads to, although files
\* are denied, budgets run out and the deadline strikes.
CompleteMeansAll ==
    pc = "assembled" /\ ~run.changed =>
       /\ run.inst = "complete" =>
             \E w \in Moments :
                LET l == Listing(run.agent, w)
                IN (\A f \in l.files : Told(w.file[f].st)) /\ (\A d \in l.dirs : w.dir[d] # "denied") /\ Due(run.agent, w) \subseteq Listed(run)
       /\ \A p \in Range(run.plugins) : p.status = "complete" => \E w \in Moments : WholePlugin(run.agent, p, w)

\* Whatever a settings file that could not be read says, it cannot contradict
\* the state claimed for a Claude plugin.
Precedence == "user" :> 1 @@ "project" :> 2 @@ "local" :> 3 @@ "system" :> 4
EffectiveIsSure ==
    pc = "assembled" /\ run.agent = "claude" /\ ~run.changed =>
       \A p \in Range(run.plugins) : p.effective # "unknown" =>
          \E w \in Moments :
             LET mine == {l \in Range(world.layers) : l.project \in {Nowhere} \cup (IF p.scope \in {"project", "local"} THEN {p.project} ELSE {})}
                 clear(l) == w.file[l.file].st = "absent" \/ (w.file[l.file].st = "ok" /\ ~w.file[l.file].odd)
                 says(l, guess) == IF ~clear(l) THEN guess[l]
                                   ELSE IF w.file[l.file].st = "ok" /\ p.native \in DOMAIN w.file[l.file].enabled THEN w.file[l.file].enabled[p.native]
                                   ELSE "unsaid"
             IN \A guess \in [{l \in mine : ~clear(l)} -> {"on", "off", "unsaid"}] :
                   \E l \in mine : /\ says(l, guess) = p.effective
                                   /\ \A o \in mine : Precedence[o.scope] > Precedence[l.scope] => says(o, guess) = "unsaid"

\* Capping a report takes nothing away from what stays complete.
CapsReported ==
    report.given => \A i \in DOMAIN report.contexts :
       LET c == report.contexts[i]
           d == done[i]
       IN /\ c.inst = "complete" => d.inst = "complete" /\ Len(c.plugins) = Len(d.plugins)
          /\ c.market = "complete" => d.market = "complete" /\ DOMAIN c.markets = DOMAIN d.markets
          /\ \A p \in Range(c.plugins) : p.status = "complete" => p \in Range(d.plugins)

\* A server file the ordinary walk found is dropped only if the report names
\* every server it held, or no plugin was ever read to lead to it.
NoServerLost ==
    pc = "done" => \A x \in world.found \ kept :
       /\ ~x.explicit
       /\ \/ \E c \in Range(report.contexts) : \E p \in Range(c.plugins) : \E edits \in SUBSET moved :
                /\ Holds(x.file, edits).st = "ok"
                /\ \A name \in DOMAIN Holds(x.file, edits).servers : \E k \in Range(p.parts) : Identity(k) = <<"mcp", x.file, name>> /\ k.status = "complete"
          \/ x.file \notin run.bud.owned
=============================================================================
