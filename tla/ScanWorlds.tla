------------------------------ MODULE ScanWorlds ----------------------------
(***************************************************************************)
(* The machines the package scanners are explored on: for each scanner a   *)
(* few directories, and from a typical machine the ways it can differ, one *)
(* or two at a time - a file in every state, a limit at every size, a      *)
(* directory or volume that is closed, roots that overlap.                 *)
(***************************************************************************)
EXTENDS Sequences, Naturals, TLC

-----------------------------------------------------------------------------
(* Cargo.                                                                  *)
CrUp == "home" :> "top" @@ "app" :> "home" @@ "lib" :> "app" @@ "sub" :> "lib" @@ "ven" :> "app"
        @@ "crate" :> "ven" @@ "other" :> "home" @@ "alias" :> "top"
CrDir == DOMAIN CrUp

CrWorlds ==
    LET All(v) == [d \in CrDir |-> v]
        Lacking == [st |-> "missing", pkg |-> FALSE, ws |-> FALSE, members |-> {}, glob |-> FALSE, odd |-> FALSE,
                 exclude |-> {}, ref |-> "nowhere", deps |-> {}, inherits |-> FALSE, table |-> "nowhere", overrides |-> {}]
        Package == [Lacking EXCEPT !.st = "ok", !.pkg = TRUE]
        NoLock == [st |-> "missing", pkgs |-> {}]
        Store(kind, its) == [kind |-> kind, at |-> "other", parent |-> <<"none", "nowhere">>, receipt |-> "ok", detail |-> "ok", items |-> its]
        Stores(whole) ==
            << Store("local_registry", << [named |-> TRUE, crate |-> "ok"], [named |-> TRUE, crate |-> IF whole THEN "ok" ELSE "broken"] >>),
               Store("registry_cache", << [named |-> TRUE, slot |-> {"archive", "extracted"}, toml |-> "ok", marker |-> whole, crate |-> "ok"] >>),
               Store("git_checkout_root", << [marker |-> whole, tomls |-> <<"ok", IF whole THEN "ok" ELSE "denied">>] >>),
               Store("install_root", << [named |-> TRUE, bin |-> IF whole THEN "ok" ELSE "missing"] >>) >>
        Base == [user |-> TRUE, verified |-> TRUE, cargoHome |-> "unset", roots |-> <<"home">>,
                 phys |-> [d \in CrDir |-> IF d = "alias" THEN "home" ELSE d], dir |-> All("ok"), guard |-> All("clear"),
                 skip |-> {}, fickle |-> {}, sum |-> [All("missing") EXCEPT !["crate"] = "ok"],
                 toml |-> [All(Lacking) EXCEPT
                     !["app"] = [Package EXCEPT !.ws = TRUE, !.members = {"lib"}, !.deps = {"sub"}, !.table = "other"],
                     !["lib"] = [Package EXCEPT !.inherits = TRUE], !["sub"] = Package, !["crate"] = Package,
                     !["other"] = [Package EXCEPT !.deps = {"lib"}]],
                 lock |-> [All(NoLock) EXCEPT !["app"] = [st |-> "ok", pkgs |-> {"lib", "sub", "crate"}],
                                              !["other"] = [st |-> "ok", pkgs |-> {"lib"}]],
                 lockAt |-> All("nowhere"), config |-> All({}), directory |-> {}, stores |-> <<>>,
                 records |-> 99, entries |-> 99, depth |-> 9, big |-> FALSE]
        Tomls == {Base.toml, [Base.toml EXCEPT !["lib"].st = "big"], [Base.toml EXCEPT !["app"].st = "denied"],
                  [Base.toml EXCEPT !["sub"].ref = "lib", !["app"].odd = TRUE], [Base.toml EXCEPT !["app"].members = {"lib", "crate"}],
                  [Base.toml EXCEPT !["app"].members = {}, !["app"].glob = TRUE, !["app"].exclude = {"sub"},
                                    !["sub"].inherits = TRUE, !["app"].deps = {}]}
    IN {[Base EXCEPT !.records = n, !.stores = Stores(TRUE)] : n \in {0, 3, 5, 8, 10, 12, 14, 16, 18, 20, 22, 24, 99}}
       \cup {[Base EXCEPT !.toml = t, !.entries = e, !.depth = n, !.fickle = {"lib"}] : t \in Tomls, e \in {1, 3, 9}, n \in {1, 9}}
       \cup {[Base EXCEPT !.guard["lib"] = g] : g \in {"volume", "protected"}}
       \cup {[Base EXCEPT !.dir[d] = "closed"] : d \in {"lib", "home"}}
       \cup {[Base EXCEPT !.dir["home"] = "denied"], [Base EXCEPT !.user = FALSE], [Base EXCEPT !.cargoHome = "relative"],
             [Base EXCEPT !.big = TRUE], [Base EXCEPT !.stores = Stores(FALSE)],
             [Base EXCEPT !.config["app"] = {"other"}, !.roots = <<"app", "app", "nowhere">>, !.skip = {"sub"}],
             [Base EXCEPT !.roots = <<"alias", "home", "app">>],
             [Base EXCEPT !.directory = {"lib", "ven"}, !.lockAt["lib"] = "other", !.lockAt["app"] = "other"]}

-----------------------------------------------------------------------------
(* Go.                                                                     *)
GoUp == "home" :> "top" @@ "app" :> "home" @@ "lib" :> "app" @@ "ven" :> "app" @@ "deep" :> "lib" @@ "gopath" :> "home"
GoDir == DOMAIN GoUp

GoWorlds ==
    LET All(v) == [d \in GoDir |-> v]
        Lacking(what) == what @@ ("st" :> "missing")
        Sum(mods) == [st |-> "ok", has |-> mods]
        Binary(name, st, info) == [name |-> name, st |-> st, executable |-> TRUE, info |-> info, deps |-> 1]
        Extracted(mods) == [st |-> "ok", mods |-> mods, odd |-> FALSE, versions |-> FALSE]
        Versions(m) == [Extracted({m}) EXCEPT !.versions = TRUE]
        Mods == {"x", "y", "z", "t"}
        Cache == [at |-> "gopath", toolchain |-> {"t"}, extracted |-> <<Extracted({"x", "y"}), Extracted({"t"})>>,
                  download |-> <<Extracted({}), Versions("x"), Versions("y"), Versions("z")>>,
                  files |-> "x" :> {"zip", "ziphash"} @@ "y" :> {"ziphash"} @@ "z" :> {"zip"} @@ "t" :> {},
                  zip |-> [m \in Mods |-> "ok"], ziphash |-> [m \in Mods |-> Sum({m})]]
        Alternate == [flag |-> "none", at |-> "lib", st |-> "ok", suffix |-> TRUE, reqs |-> {"x"}, sum |-> Sum({"x"})]
        Base == [user |-> TRUE, roots |-> <<"home">>, phys |-> [d \in GoDir |-> d], dir |-> All("ok"), guard |-> All("clear"),
                 skip |-> {"gopath"}, vendor |-> {"ven"},
                 mod |-> [All(Lacking([reqs |-> {}])) EXCEPT !["app"] = [st |-> "ok", reqs |-> {"x", "y"}], !["lib"] = [st |-> "ok", reqs |-> {"y"}]],
                 work |-> [All(Lacking([members |-> {}])) EXCEPT !["app"] = [st |-> "ok", members |-> {"app", "lib", "deep", "nowhere"}]],
                 sum |-> [All(Lacking([has |-> {}])) EXCEPT !["app"] = Sum({"x"})],
                 workSum |-> [All(Lacking([has |-> {}])) EXCEPT !["app"] = Sum({"y"})],
                 modules |-> [All(Lacking([list |-> <<>>])) EXCEPT
                     !["app"] = [st |-> "ok", list |-> <<[mod |-> "x", st |-> "ok"], [mod |-> "y", st |-> "ok"]>>]],
                 alternate |-> Alternate, bin |-> [at |-> "nowhere", files |-> <<>>], cache |-> [Cache EXCEPT !.at = "nowhere"],
                 redirect |-> FALSE, records |-> 99, entries |-> 99, depth |-> 9, big |-> FALSE]
        Bin == [at |-> "gopath", files |-> <<Binary("go", "ok", "go"), Binary("c", "ok", "none"), Binary("u", "ok", "unusable"),
                                             Binary("no", "denied", "go"), [Binary("s", "ok", "none") EXCEPT !.executable = FALSE]>>]
        Full == [Base EXCEPT !.bin = Bin, !.cache = Cache, !.alternate.flag = "named"]
        Store == [Base EXCEPT !.mod = All(Lacking([reqs |-> {}])), !.work = All(Lacking([members |-> {}])), !.cache = Cache]
        States == {"ok", "partial", "broken", "missing", "denied", "big", "odd"}
    IN {[Full EXCEPT !.records = n] : n \in 0 .. 40}
       \cup {[Base EXCEPT !.mod["app"].st = s, !.work["app"].st = t] : s, t \in {"ok", "broken", "denied"}}
       \cup {[Base EXCEPT !.sum["app"].st = s, !.workSum["app"].st = t] : s \in {"ok", "missing", "denied"}, t \in States}
       \cup {[Base EXCEPT !.modules["app"].st = s] : s \in States}
       \cup {[Base EXCEPT !.modules["app"].list[1].st = s] : s \in {"missing", "denied", "odd"}}
       \cup {[Base EXCEPT !.dir[d] = s] : d \in {"lib", "home"}, s \in {"denied", "missing"}}
       \cup {[Base EXCEPT !.guard[d] = s] : s \in {"volume", "protected"}, d \in {"lib", "home"}}
       \cup {[Base EXCEPT !.entries = e, !.depth = n] : e \in {1, 2, 4, 9}, n \in {1, 9}}
       \cup {[Base EXCEPT !.alternate = [Alternate EXCEPT !.flag = f, !.st = s, !.suffix = x]] :
                f \in {"unresolved", "named"}, s \in {"ok", "broken", "missing"}, x \in BOOLEAN}
       \cup {[Store EXCEPT !.cache.extracted[1].st = s, !.cache.download[i].st = t] : s, t \in {"ok", "denied"}, i \in 1 .. 4}
       \cup {[Store EXCEPT !.cache.files["x"] = s, !.cache.zip["z"] = z] : s \in SUBSET {"zip", "ziphash", "partial"}, z \in {"ok", "missing", "denied"}}
       \cup {[Store EXCEPT !.cache.ziphash["x"].st = z, !.cache.extracted[1].odd = TRUE] : z \in States}
       \cup {[Store EXCEPT !.entries = n] : n \in 2 .. 6}
       \cup {[Full EXCEPT !.bin.files[1].st = s] : s \in States} \cup {[Full EXCEPT !.dir["gopath"] = s] : s \in {"missing", "denied"}}
       \cup {[Full EXCEPT !.guard["gopath"] = "protected"], [Base EXCEPT !.user = FALSE], [Base EXCEPT !.big = TRUE],
             [Full EXCEPT !.redirect = TRUE], [Base EXCEPT !.roots = <<"app", "nowhere", "home", "app">>],
             [Base EXCEPT !.roots = <<"lib", "app">>, !.phys["lib"] = "app"], [Full EXCEPT !.mod = Store.mod]}

-----------------------------------------------------------------------------
(* NuGet.                                                                  *)
NuUp == "home" :> "top" @@ "gone" :> "home" @@ "app" :> "home" @@ "lib" :> "app" @@ "pk" :> "app" @@ "cache" :> "home" @@ "other" :> "home"
NuDir == DOMAIN NuUp

NuWorlds ==
    LET All(v) == [d \in NuDir |-> v]
        ProjectFile(refs) == [st |-> "ok", refs |-> refs]
        NoShared == [st |-> "missing", deferred |-> FALSE, globals |-> {}]
        Doc(kind, at, pkgs, installed) == [kind |-> kind, at |-> at, st |-> "ok", pkgs |-> pkgs, installed |-> installed]
        Docs == <<Doc("legacy", "other", {"z"}, "ok"), Doc("tools", "other", {"t"}, "ok"),
                  Doc("deps", "other", {"b"}, "missing"), Doc("script", "lib", {"s"}, "missing")>>
        Item(pkg, st) == [pkg |-> pkg, st |-> st]
        Base == [user |-> TRUE, roots |-> <<"home">>, phys |-> [d \in NuDir |-> d], dir |-> [All("ok") EXCEPT !["gone"] = "missing"],
                 guard |-> All("clear"), skip |-> {}, archive |-> {"pk"}, pruned |-> {}, caches |-> {"cache"},
                 project |-> [All([ProjectFile({}) EXCEPT !.st = "missing"]) EXCEPT !["app"] = ProjectFile({"x"}), !["lib"] = ProjectFile({"y"})],
                 shared |-> [build |-> [All(NoShared) EXCEPT !["home"].st = "ok"],
                             central |-> [All(NoShared) EXCEPT !["app"] = [st |-> "ok", deferred |-> FALSE, globals |-> {"g"}]]],
                 graph |-> [d \in NuDir \cup {"nowhere"} |->
                               IF d = "app" THEN [st |-> "ok", of |-> "app", pkgs |-> {"x", "y"}, folders |-> {"cache"}]
                               ELSE [st |-> "missing", of |-> "nowhere", pkgs |-> {}, folders |-> {}]],
                 output |-> All("nowhere"), uncertain |-> {}, managed |-> [All("off") EXCEPT !["app"] = "on"],
                 lock |-> [All([st |-> "missing", pkgs |-> {}]) EXCEPT !["app"] = [st |-> "ok", pkgs |-> {"x"}]],
                 held |-> [All(<<>>) EXCEPT !["cache"] = <<Item("x", "ok"), Item("y", "ok")>>],
                 ambient |-> All({}), docs |-> <<>>, stores |-> <<>>, templates |-> [st |-> "missing", entries |-> <<>>],
                 records |-> 99, bytes |-> 99, entries |-> 99, depth |-> 9, scripts |-> 9, big |-> FALSE]
        Full == [Base EXCEPT !.docs = Docs, !.ambient["other"] = {"lib"},
                             !.stores = <<[kind |-> "store", at |-> "other", tools |-> <<Item("t", "ok"), Item("u", "odd")>>]>>,
                             !.templates = [st |-> "ok", entries |-> <<Item("e", "ok"), Item("f", "missing")>>]]
        States == {"ok", "partial", "broken", "missing", "denied", "big", "odd"}
    IN {[Full EXCEPT !.records = n] : n \in 0 .. 30}
       \cup {[Full EXCEPT !.bytes = n] : n \in {3, 9, 21}}
       \cup {[Base EXCEPT !.dir[d] = s] : d \in {"lib", "cache"}, s \in {"denied", "missing"}}
       \cup {[Base EXCEPT !.project["lib"].st = s] : s \in States \ {"missing"}}
       \cup {[Base EXCEPT !.shared["central"]["app"].st = s] : s \in States}
       \cup {[Base EXCEPT !.shared["build"]["home"].st = s, !.output["lib"] = "app"] : s \in {"ok", "broken", "denied"}}
       \cup {[Base EXCEPT !.graph["app"].st = s, !.output["app"] = "app"] : s \in States}
       \cup {[Base EXCEPT !.graph["app"].st = s, !.output["lib"] = "app", !.skip = {"app"}, !.roots = <<"lib">>] : s \in States}
       \cup {[Base EXCEPT !.lock["app"].st = s] : s \in States}
       \cup {[Base EXCEPT !.held["cache"][2].st = s] : s \in States}
       \cup {[Base EXCEPT !.entries = n, !.depth = m, !.scripts = 0, !.docs = Docs, !.templates.st = "broken"] : n \in {1, 2, 3, 5}, m \in {0, 1, 9}}
       \cup {[Full EXCEPT !.docs[i].st = s, !.docs[i].installed = t] : i \in 1 .. 4, s \in {"partial", "denied"}, t \in {"odd", "missing"}}
       \cup {[Full EXCEPT !.docs[i].installed = t] : i \in 1 .. 2, t \in {"odd", "denied", "missing"}}
       \cup {[Base EXCEPT !.user = FALSE], [Base EXCEPT !.roots = <<"gone">>], [Base EXCEPT !.big = TRUE],
             [Base EXCEPT !.shared["build"]["home"].deferred = TRUE], [Base EXCEPT !.managed["lib"] = "unsure"], [Base EXCEPT !.uncertain = {"lib"}],
             [Base EXCEPT !.roots = <<"app", "home", "nowhere", "app">>], [Base EXCEPT !.guard["lib"] = "volume"],
             [Base EXCEPT !.guard["home"] = "protected"], [Base EXCEPT !.archive = {"app", "lib"}, !.pruned = {"other"}],
             [Full EXCEPT !.dir["other"] = "denied"], [Full EXCEPT !.dir["other"] = "missing"]}

-----------------------------------------------------------------------------
(* Composer.                                                               *)
CoUp == "home" :> "top" @@ "chome" :> "home" @@ "chv" :> "chome" @@ "app" :> "home" @@ "vend" :> "app" @@ "dep" :> "vend"
        @@ "dv" :> "dep" @@ "lib" :> "app" @@ "cache" :> "home" @@ "gone" :> "home"
CoDir == DOMAIN CoUp

CoWorlds ==
    LET All(v) == [d \in CoDir |-> v]
        Manifest(pkgs, vendor) == [st |-> "ok", pkgs |-> pkgs, vendor |-> vendor, cache |-> {}, whole |-> TRUE]
        Lacking == [Manifest({}, "nowhere") EXCEPT !.st = "missing"]
        Receipt(pkgs) == [st |-> "ok", php |-> "missing", pkgs |-> pkgs]
        Base == [user |-> TRUE, roots |-> <<"home">>, phys |-> [d \in CoDir |-> d], dir |-> [All("ok") EXCEPT !["gone"] = "missing"],
                 guard |-> All("clear"), skip |-> {}, homes |-> <<"chome">>, caches |-> {"cache"}, alternate |-> "nowhere",
                 manifest |-> [All(Lacking) EXCEPT !["app"] = Manifest({"x"}, "nowhere"), !["dep"] = Manifest({"y"}, "nowhere"),
                                                !["lib"] = Manifest({"y"}, "vend")],
                 vendor |-> [All("gone") EXCEPT !["app"] = "vend", !["dep"] = "dv", !["chome"] = "chv"],
                 installed |-> [All([Receipt({}) EXCEPT !.st = "missing"]) EXCEPT !["vend"] = Receipt({"x", "y"}), !["chv"] = Receipt({"g"})],
                 lock |-> [All([st |-> "missing", pkgs |-> {}]) EXCEPT !["app"] = [st |-> "ok", pkgs |-> {"x", "y"}]],
                 placed |-> [x |-> "present", y |-> "absent", g |-> "unknown"],
                 records |-> 99, bytes |-> 99, entries |-> 99, depth |-> 9, big |-> FALSE]
        Alone == [Base EXCEPT !.manifest["lib"] = Lacking]     \* one project has the vendor directory to itself
        States == {"ok", "partial", "broken", "missing", "gone", "denied", "big", "odd"}
    IN {[w EXCEPT !.records = n] : n \in 0 .. 20, w \in {Base, Alone}}
       \cup {[Base EXCEPT !.bytes = n] : n \in 0 .. 14}
       \cup {[Base EXCEPT !.dir[d] = s] : d \in {"home", "chome", "app", "vend", "lib"}, s \in {"denied", "missing", "sealed"}}
       \cup {[Base EXCEPT !.guard[d] = s] : d \in {"home", "chome", "app", "vend"}, s \in {"volume", "protected"}}
       \cup {[Alone EXCEPT !.manifest[d].st = s] : d \in {"app", "dep", "chome"}, s \in States}
       \cup {[Base EXCEPT !.manifest["lib"].st = s] : s \in States}
       \cup {[w EXCEPT !.installed["vend"].st = s, !.installed["vend"].php = t] :
                s \in States, t \in {"missing", "ok", "denied"}, w \in {Alone, [Alone EXCEPT !.manifest["app"].st = "missing"]}}
       \cup {[Alone EXCEPT !.lock["app"].st = s] : s \in States}
       \cup {[w EXCEPT !.entries = n, !.depth = m] : n \in {1, 2, 3, 5, 9}, m \in {0, 1, 2, 9}, w \in {Base, Alone}}
       \cup {[Base EXCEPT !.user = FALSE], [Base EXCEPT !.roots = <<"gone", "app">>], [Base EXCEPT !.big = TRUE],
             [Base EXCEPT !.roots = <<"app", "home", "nowhere", "app">>], [Base EXCEPT !.roots = <<"lib", "app">>, !.alternate = "dep"],
             [Base EXCEPT !.roots = <<"lib", "gone">>, !.phys["lib"] = "vend"], [Alone EXCEPT !.skip = {"vend"}],
             [Alone EXCEPT !.manifest["app"].whole = FALSE], [Alone EXCEPT !.manifest["app"].cache = {"lib"}],
             [Base EXCEPT !.manifest["lib"].vendor = "app"],
             [Base EXCEPT !.manifest["dep"].vendor = "app", !.vendor["app"] = "dv", !.installed["vend"].st = "missing"],
             [Base EXCEPT !.homes = <<"chome", "gone", "lib">>, !.manifest["chome"] = Manifest({"g"}, "vend")]}

-----------------------------------------------------------------------------
(* Agent plugins.                                                          *)
PlUp == "home" :> "top" @@ "cfg" :> "home" @@ "cache" :> "cfg" @@ "pay" :> "cache" @@ "skills" :> "cfg" @@ "sk" :> "skills"
        @@ "synced" :> "cfg" @@ "syn" :> "synced" @@ "group" :> "synced" @@ "gsyn" :> "group" @@ "src" :> "home" @@ "spay" :> "src"
        @@ "seed" :> "home" @@ "proj" :> "home" @@ "base" :> "cache" @@ "v1" :> "base" @@ "v2" :> "base" @@ "gone" :> "home"
PlDir == DOMAIN PlUp

PlWorlds ==
    LET All(v) == [d \in PlDir |-> v]
        Gone_ == [st |-> "absent"]
        Denied_ == [st |-> "denied"]
        Skill(at) == [kind |-> "skill", at |-> at, real |-> at, st |-> "ok"]
        Command(at) == [kind |-> "command", at |-> at, real |-> at, st |-> "ok"]
        Declared(kind, at, st) == [kind |-> kind, at |-> at, st |-> st]
        Servers(f, required) == [kind |-> "mcp", at |-> f, required |-> required]
        Manifest(parts) == [st |-> "ok", parts |-> parts, decl |-> FALSE, named |-> TRUE, schema |-> "none", overlay |-> "none"]
        Config(names) == [st |-> "ok", odd |-> FALSE, enabled |-> names, markets |-> <<>>]
        Sold(d) == [at |-> d, link |-> FALSE, strict |-> TRUE, strange |-> FALSE, parts |-> <<>>]
        Market(kind, d) == [kind |-> kind, at |-> d, auto |-> "unsaid"]
        Record(name, m, scope, project, d) == [name |-> name, market |-> m, scope |-> scope, project |-> project, path |-> d, seeded |-> "seed"]
        Layer_(f, scope, project) == [file |-> f, scope |-> scope, project |-> project]
        Row_(name, m, d) == [name |-> name, market |-> m, path |-> d, source |-> "nowhere", on |-> "on", sound |-> TRUE]
        Empty_ == [f \in {"none", "installed", "known", "managed", "set", "pset", "plset", "cat", "seedknown", "link", "mf", "smf", "skmf", "synmf", "gsynmf",
                        "conf", "pconf", "rem", "vroot", "vleg", "over", "config", "uopt", "popt", "mcp", "vmcp"} |-> Gone_]
        Parts == <<Skill("s1"), Command("c1"), Declared("declared", "hooks", "ok"), Declared("optional", "hook2", "ok"), Servers("mcp", FALSE)>>
        Limits == [perPlugin |-> 99, components |-> 99, definitions |-> 99, servers |-> 99, plugins |-> 99, markets |-> 99, contexts |-> 99, size |-> 99]
        Agent(name, env) == [agent |-> name, root |-> "cfg", env |-> env, estranged |-> FALSE]
        Base == [agents |-> <<>>, hasty |-> FALSE, homed |-> TRUE, unfound |-> FALSE, tasks |-> 14, movable |-> {}, later |-> <<>>, max |-> Limits,
                 dir |-> [All("dir") EXCEPT !["gone"] = "absent", !["gsyn"] = "absent"] @@ "nowhere" :> "absent",
                 own |-> "claude" :> {"cache"} @@ "codex" :> {"cache"} @@ "copilot" :> {"cache"},
                 file |-> "mcp" :> [st |-> "ok", servers |-> "x" :> TRUE @@ "y" :> TRUE] @@ "vmcp" :> [st |-> "ok", servers |-> "z" :> TRUE] @@ Empty_,
                 layers |-> <<Layer_("managed", "system", "nowhere"), Layer_("set", "user", "nowhere"),
                              Layer_("pset", "project", "proj"), Layer_("plset", "local", "proj")>>,
                 projects |-> {}, skillRoots |-> <<[at |-> "skills", scope |-> "user", project |-> "nowhere"]>>, synced |-> "synced", sealed |-> "nowhere",
                 catalog |-> [All("none") EXCEPT !["src"] = "cat"] @@ "nowhere" :> "none",
                 manifest |-> [d \in PlDir \cup {"nowhere"} |->
                     CASE d = "pay" -> [root |-> "none", legacy |-> <<"mf">>] [] d = "spay" -> [root |-> "none", legacy |-> <<"smf">>]
                       [] d = "sk" -> [root |-> "none", legacy |-> <<"skmf">>] [] d = "syn" -> [root |-> "none", legacy |-> <<"synmf">>]
                       [] d = "gsyn" -> [root |-> "none", legacy |-> <<"gsynmf">>] [] d = "v2" -> [root |-> "vroot", legacy |-> <<"vleg">>]
                       [] OTHER -> [root |-> "none", legacy |-> <<"none">>]],
                 bare |-> [All(<<>>) EXCEPT !["pay"] = <<Servers("mcp", FALSE)>>],
                 marker |-> [All("none") EXCEPT !["pay"] = "link"] @@ "nowhere" :> "none",
                 seeds |-> <<[file |-> "seedknown", at |-> "seed"]>>, home |-> "home", store |-> "cache", stored |-> <<>>,
                 configs |-> <<Layer_("conf", "user", "nowhere"), Layer_("pconf", "project", "proj")>>,
                 options |-> <<Layer_("uopt", "user", "nowhere"), Layer_("popt", "project", "proj")>>, soldAt |-> "one" :> "m" @@ "two" :> "m",
                 found |-> {[file |-> "mcp", at |-> "pay", explicit |-> FALSE], [file |-> "vmcp", at |-> "v2", explicit |-> FALSE],
                            [file |-> "conf", at |-> "v1", explicit |-> TRUE]}]
        \* Claude: a plugin from a marketplace, one for a project, one in a skills directory.
        ClaudeFiles == "installed" :> [st |-> "ok", records |-> <<Record("one", "m", "user", "nowhere", "pay"), Record("two", "none", "project", "proj", "pay")>>]
                       @@ "known" :> [st |-> "ok", markets |-> "m" :> Market("github", "src")]
                       @@ "set" :> Config("one" :> "on") @@ "pset" :> Config("two" :> "off")
                       @@ "cat" :> [st |-> "ok", name |-> "m", entries |-> "one" :> Sold("nowhere") @@ "two" :> Sold("nowhere")]
                       @@ "mf" :> Manifest(Parts) @@ "smf" :> Manifest(<<Skill("s7")>>) @@ "skmf" :> Manifest(<<Skill("s1")>>) @@ "synmf" :> Manifest(<<>>)
        Claude_ == [Base EXCEPT !.agents = <<Agent("claude", FALSE)>>, !.file = ClaudeFiles @@ @]
        \* Codex: a stored plugin that a file configures.
        CodexFiles == "conf" :> [st |-> "ok", plugins |-> "one" :> "on", servers |-> <<>>, markets |-> "m" :> [kind |-> "directory", at |-> "src"]]
                      @@ "cat" :> [st |-> "ok", name |-> "m", entries |-> "one" :> Sold("spay")]
                      @@ "vroot" :> [Manifest(<<Skill("s2"), Servers("vmcp", FALSE)>>) EXCEPT !.schema = "portable", !.overlay = "over"]
                      @@ "vleg" :> Manifest(<<Servers("vmcp", TRUE)>>) @@ "over" :> Manifest(<<Declared("optional", "hook2", "ok")>>)
        Codex_ == [Base EXCEPT !.agents = <<Agent("codex", FALSE)>>, !.file = CodexFiles @@ @, !.projects = {"proj"},
                      !.stored = "one" :> [base |-> "base", versions |-> <<[at |-> "v1", label |-> "1"], [at |-> "v2", label |-> "2"]>>, marker |-> "rem", market |-> "m"]
                                 @@ "two" :> [base |-> "gone", versions |-> <<>>, marker |-> "none", market |-> "m"]]
        \* Copilot: a registered plugin, and one switched on from a local catalog.
        CopilotFiles == "config" :> ([rows |-> <<Row_("one", "none", "pay")>>] @@ Config(<<>>))
                        @@ "uopt" :> [Config("two" :> "on") EXCEPT !.markets = "m" :> Market("directory", "src")]
                        @@ "cat" :> [st |-> "ok", name |-> "m", entries |-> "one" :> Sold("pay") @@ "two" :> Sold("spay")]
                        @@ "mf" :> Manifest(Parts) @@ "smf" :> Manifest(<<Skill("s7")>>)
        Copilot_ == [Base EXCEPT !.agents = <<Agent("copilot", FALSE)>>, !.file = CopilotFiles @@ @, !.projects = {"proj"}]
        All3 == [Claude_ EXCEPT !.agents = <<Agent("claude", FALSE), Agent("codex", TRUE), Agent("copilot", FALSE)>>,
                                !.file = ClaudeFiles @@ CodexFiles @@ CopilotFiles @@ Base.file, !.stored = Codex_.stored, !.projects = {"proj"}]
        Files(w) == {f \in DOMAIN w.file : w.file[f].st = "ok"}
        File(w, f, v) == [w EXCEPT !.file[f] = v]
        Edited(w) == {[w EXCEPT !.movable = {f, g}, !.later = (f :> Gone_ @@ g :> Denied_)] : f, g \in Files(w) \ {"skmf", "synmf"}}
        Broken_(w) == {File(w, f, v) : f \in Files(w), v \in {Denied_, Gone_}}
        Parts2 == <<[Skill("s1") EXCEPT !.st = "missing"], Declared("declared", "out", "cut"), Servers("mcp", TRUE),
                    [kind |-> "inline", at |-> "mf", servers |-> "i" :> TRUE @@ "j" :> FALSE]>>
        Offer(e) == [st |-> "ok", name |-> "m", entries |-> "one" :> e]
        Linked == File(Claude_, "cat", Offer([Sold("spay") EXCEPT !.link = TRUE]))
        Loose == File(Claude_, "cat", Offer([Sold("pay") EXCEPT !.strict = FALSE, !.parts = <<Skill("s9")>>]))
        Chosen(kind, on) == [Config("one" :> on) EXCEPT !.markets = "m" :> [Market(kind, "src") EXCEPT !.auto = on]]
        ClaudeCases ==
            {File(Claude_, "known", [st |-> "ok", markets |-> "m" :> Market("directory", "src")]),
             File(File(Claude_, "known", [st |-> "ok", markets |-> "m" :> Market("directory", "src")]), "cat", Offer(Sold("spay"))),
             File(File(Claude_, "known", [st |-> "ok", markets |-> "m" :> Market("directory", "src")]), "cat", Offer(Sold("gone"))),
             Linked, File(Linked, "link", [st |-> "ok", target |-> "spay"]), File(Linked, "link", Denied_), File(Linked, "link", [st |-> "ok", target |-> "gone"]),
             Loose, File(Loose, "mf", [Manifest(Parts) EXCEPT !.decl = TRUE]),
             File(Claude_, "seedknown", [st |-> "ok", markets |-> "m" :> Market("github", "src")]), File(Claude_, "seedknown", Denied_),
             File(Claude_, "set", Chosen("github", "off")), File(File(Claude_, "set", Chosen("directory", "on")), "pset", Chosen("github", "off")),
             File(File(Claude_, "known", Gone_), "set", Chosen("directory", "on")), File(Claude_, "plset", [Config("two" :> "on") EXCEPT !.odd = TRUE]),
             File(Claude_, "managed", Config("one" :> "off")), File(Claude_, "managed", Denied_), File(Claude_, "plset", Config("two" :> "on")),
             File(Claude_, "installed", [st |-> "future"]), File(Claude_, "installed", [st |-> "broken"]),
             File(Claude_, "installed", [st |-> "ok", records |-> <<Record("one", "m", "user", "nowhere", "gone"), Record("one", "m", "user", "nowhere", "pay"),
                                                                 Record("two", "m", "local", "proj", "nowhere"), Record("six", "none", "project", "nowhere", "pay")>>]),
             [File(Claude_, "gsynmf", Manifest(<<Command("c5")>>)) EXCEPT !.dir["gsyn"] = "dir"], [Claude_ EXCEPT !.sealed = "group"],
             [Claude_ EXCEPT !.dir["synced"] = "denied"], [Claude_ EXCEPT !.dir["skills"] = "denied"], [Claude_ EXCEPT !.dir["src"] = "denied"], [Claude_ EXCEPT !.dir["pay"] = "denied"],
             [Claude_ EXCEPT !.skillRoots = Append(@, [at |-> "proj", scope |-> "project", project |-> "proj"])],
             File(Claude_, "mf", Manifest(Parts2)), File(File(Claude_, "mf", Manifest(Parts2)), "mcp", Gone_), File(Claude_, "mf", [st |-> "broken"])}
        Root(schema, named) == [CodexFiles["vroot"] EXCEPT !.schema = schema, !.named = named]
        Remote(id) == [st |-> "ok", id |-> id]
        CodexCases ==
            {File(Codex_, "rem", Remote("r")), File(Codex_, "rem", Remote("none")), File(Codex_, "rem", Denied_),
             File(Codex_, "vroot", Root("future", TRUE)), File(Codex_, "vroot", Root("none", TRUE)), File(Codex_, "vroot", Root("portable", FALSE)),
             File(Codex_, "vroot", [st |-> "broken"]), File(File(Codex_, "vroot", Gone_), "vmcp", Gone_), File(Codex_, "over", [st |-> "broken"]),
             File(Codex_, "cat", Offer([Sold("v2") EXCEPT !.strange = TRUE])), File(Codex_, "cat", [Offer(Sold("spay")) EXCEPT !.name = "other"]),
             File(Codex_, "pconf", [st |-> "ok", plugins |-> "one" :> "off" @@ "two" :> "on", servers |-> <<>>, markets |-> "m" :> [kind |-> "github", at |-> "nowhere"]]),
             File(Codex_, "pconf", Denied_), [Codex_ EXCEPT !.unfound = TRUE], [Codex_ EXCEPT !.dir["base"] = "denied"], [Codex_ EXCEPT !.dir["v2"] = "absent"],
             [Codex_ EXCEPT !.stored["one"].versions[1].label = "local"], [Codex_ EXCEPT !.dir["cache"] = "denied"],
             [Codex_ EXCEPT !.catalog["proj"] = "cat", !.catalog["src"] = "none"], [Codex_ EXCEPT !.catalog["home"] = "cat"]}
        Rows(seq) == [rows |-> seq] @@ Config(<<>>)
        CopilotCases ==
            {File(Copilot_, "config", Rows(<<Row_("one", "m", "pay")>>)), File(Copilot_, "config", Rows(<<Row_("two", "m", "pay"), Row_("two", "m", "pay")>>)),
             File(Copilot_, "config", Rows(<<Row_("one", "other", "pay"), [Row_("six", "none", "spay") EXCEPT !.sound = FALSE]>>)),
             File(Copilot_, "config", Rows(<<Row_("six", "m", "nowhere"), [Row_("one", "none", "gone") EXCEPT !.on = "unknown"]>>)),
             File(File(Copilot_, "config", Rows(<<Row_("one", "m", "pay")>>)), "cat", Denied_), [Copilot_ EXCEPT !.dir["src"] = "absent"],
             File(Copilot_, "popt", [Config("two" :> "on") EXCEPT !.markets = "m" :> Market("github", "src")]), File(Copilot_, "popt", Config("two" :> "off")),
             File(Copilot_, "uopt", Gone_), File(Copilot_, "popt", [Config(<<>>) EXCEPT !.odd = TRUE]), [Copilot_ EXCEPT !.dir["spay"] = "denied"],
             File(Copilot_, "mf", Manifest(Parts2)), File(File(Copilot_, "mf", Manifest(Parts2)), "mcp", Gone_), File(Copilot_, "mf", [Manifest(<<>>) EXCEPT !.named = FALSE])}
    IN {Claude_, Codex_, Copilot_}
       \cup {[w EXCEPT !.hasty = TRUE] : w \in {Claude_, Codex_, Copilot_}}
       \cup UNION {{v \in Edited(w) : \E f, g \in v.movable : f # g} : w \in {Claude_, Codex_, Copilot_}}
       \cup Broken_(Claude_) \cup Broken_(Codex_) \cup Broken_(Copilot_) \cup ClaudeCases \cup CodexCases \cup CopilotCases
       \cup {[All3 EXCEPT !.max.components = n] : n \in 0 .. 12}
       \cup {[All3 EXCEPT !.max.servers = n] : n \in 0 .. 6}
       \cup {[All3 EXCEPT !.max.definitions = n] : n \in 0 .. 5}
       \cup {[All3 EXCEPT !.max.plugins = n] : n \in 0 .. 6}
       \cup {[All3 EXCEPT !.max.markets = n] : n \in 0 .. 2}
       \cup {[All3 EXCEPT !.max.size = n] : n \in {0, 10, 20}}
       \cup {[All3 EXCEPT !.max.servers = n, !.movable = {"mf"}, !.later = "mf" :> Denied_] : n \in {2, 3, 4}}
       \cup {[All3 EXCEPT !.max.contexts = 2], [All3 EXCEPT !.max.perPlugin = 3], [All3 EXCEPT !.unfound = TRUE], [All3 EXCEPT !.dir["cfg"] = "absent"],
             [All3 EXCEPT !.dir["cfg"] = "denied"], [All3 EXCEPT !.agents[3].estranged = TRUE],
             [Copilot_ EXCEPT !.homed = FALSE, !.dir["cfg"] = "absent", !.file = Base.file]}

-----------------------------------------------------------------------------
(* Skills.                                                                 *)
SkUp == "home" :> "top" @@ "etc" :> "top" @@ "esk" :> "etc"
        @@ "agents" :> "home" @@ "askills" :> "agents" @@ "foo" :> "askills" @@ "cat" :> "askills" @@ "bar" :> "cat" @@ "inner" :> "bar"
        @@ "claude" :> "home" @@ "cskills" :> "claude" @@ "lfoo" :> "cskills" @@ "lost" :> "cskills" @@ "own" :> "cskills" @@ "cmds" :> "claude"
        @@ "codex" :> "home" @@ "xskills" :> "codex" @@ "xsys" :> "xskills" @@ "vendor" :> "xsys" @@ "git" :> "xskills" @@ "hook" :> "git"
        @@ "work" :> "home" @@ "proj" :> "work" @@ "pm" :> "proj" @@ "ps" :> "pm" @@ "baz" :> "ps" @@ "lbar" :> "ps" @@ "jown" :> "ps"
        @@ "lesk" :> "ps" @@ "pcmds" :> "pm" @@ "sub" :> "pcmds"
        @@ "other" :> "home" @@ "om" :> "other" @@ "os" :> "om" @@ "ofoo" :> "os" @@ "osk" :> "os"
        @@ "docs" :> "home" @@ "dproj" :> "docs" @@ "dm" :> "dproj" @@ "ds" :> "dm" @@ "dsk" :> "ds"
        @@ "ln" :> "home" @@ "lnproj" :> "ln"
SkDir == DOMAIN SkUp

SkWorlds ==
    LET All(v) == [d \in SkDir |-> v]
        Links == "lfoo" :> "foo" @@ "lost" :> "nowhere" @@ "lbar" :> "bar" @@ "jown" :> "own" @@ "lesk" :> "esk" @@ "ofoo" :> "foo" @@ "ln" :> "docs"
        Skill(name, text) == [st |-> "ok", name |-> name, text |-> text]
        Plain == <<"fence", "name", "description", "fence", "text">>
        Skills == {"esk", "foo", "bar", "inner", "own", "vendor", "hook", "baz", "osk", "dsk"}
        NoLock == [st |-> "missing", base |-> "nowhere", entries |-> <<>>]
        Entry(d, safe, local) == [dir |-> d, safe |-> safe, local |-> local]
        Lock(base, entries) == [st |-> "ok", base |-> base, entries |-> entries]
        Use(key, ok, count) == [key |-> key, ok |-> ok, count |-> count]
        Part(id, d, names) == [id |-> id, definition |-> <<"skill", d>>, names |-> names, bare |-> {"own"}]
        File(name, st) == [name |-> name, st |-> st]
        Limits == [errors |-> 99, skills |-> 99, dirs |-> 99, depth |-> 10, reads |-> 99, walkDepth |-> 12, candidates |-> 99,
                   projects |-> 99, total |-> 99, definitions |-> 99, counters |-> 99]
        Root(d, source, excluded) == [at |-> d, source |-> source, project |-> "nowhere", excluded |-> excluded]
        Base == [home |-> "home", windows |-> FALSE, protected |-> {"docs"}, closed |-> {},
                 kind |-> [d \in SkDir |-> IF d = "jown" THEN "junction" ELSE IF d \in DOMAIN Links THEN "link" ELSE "dir"],
                 to |-> Links @@ All("nowhere"), real |-> Links @@ ("lnproj" :> "dproj") @@ [d \in SkDir |-> d],
                 role |-> [d \in SkDir |-> CASE d \in {"agents", "claude", "codex", "pm", "om", "dm"} -> "marker"
                                             [] d \in {"askills", "cskills", "xskills", "ps", "os", "ds"} -> "skills"
                                             [] d \in {"cmds", "pcmds"} -> "commands" [] d = "git" -> "vcs" [] OTHER -> "plain"],
                 source |-> [d \in SkDir |-> IF d \in {"claude", "pm"} THEN "claude_project" ELSE "agents_project"],
                 sources |-> <<"agents_project", "agents_user", "claude_project", "claude_user", "codex_admin", "codex_system", "codex_user">>,
                 base |-> "lfoo" :> "foo" @@ "ofoo" :> "foo" @@ "lbar" :> "bar" @@ "jown" :> "own" @@ [d \in SkDir |-> d],
                 md |-> [d \in SkDir |-> IF d \in Skills THEN Skill(d, Plain) ELSE [st |-> "none", name |-> "", text |-> <<>>]],
                 globals |-> <<Root("cskills", "claude_user", "nowhere"), Root("askills", "agents_user", "nowhere"), Root("xskills", "codex_user", "xsys"),
                               Root("xsys", "codex_system", "nowhere"), Root("etc", "codex_admin", "nowhere")>>,
                 search |-> <<"home">>, extra |-> {}, commandsAt |-> "cmds",
                 state |-> [st |-> "ok", projectsOk |-> TRUE, projects |-> {"other"}, usesOk |-> TRUE,
                            uses |-> <<Use("own", TRUE, 3), Use("foo", TRUE, 1), Use("odd", FALSE, 0), Use("plug:own", TRUE, 5)>>],
                 lock |-> All(NoLock), globalLocks |-> <<"agents">>,
                 files |-> "cmds" :> <<File("do", "ok")>> @@ "pcmds" :> <<File("make", "ok")>> @@ "sub" :> <<File("sub:make", "ok")>> @@ All(<<>>),
                 parts |-> {Part("p", "own", {"plug:own"}), Part("p", "bar", {"plug:own"}), Part("q", "vendor", {"plug:none"})}, max |-> Limits]
        Locked == [Base EXCEPT !.lock["agents"] = Lock("askills", <<Entry("foo", TRUE, FALSE), Entry("own", FALSE, FALSE), Entry("cat", TRUE, TRUE)>>),
                               !.lock["proj"] = Lock("ps", <<Entry("lbar", TRUE, TRUE), Entry("baz", TRUE, FALSE)>>)]
        Text(t) == [Base EXCEPT !.md["own"].text = t, !.md["foo"].text = t]
    IN {Base, Locked, [Base EXCEPT !.windows = TRUE], [Base EXCEPT !.protected = {}, !.search = <<"docs">>]}
       \cup {[Base EXCEPT !.max.dirs = n] : n \in 0 .. 3} \cup {[Base EXCEPT !.max.skills = n] : n \in 0 .. 2}
       \cup {[Base EXCEPT !.max.reads = n] : n \in {0, 1, 2, 4, 6, 8, 10}} \cup {[Base EXCEPT !.max.depth = n] : n \in 1 .. 2}
       \cup {[Base EXCEPT !.max.walkDepth = n] : n \in 0 .. 2} \cup {[Base EXCEPT !.max.candidates = n, !.state.projects = {}] : n \in 0 .. 2}
       \cup {[Base EXCEPT !.max.projects = n] : n \in 0 .. 1} \cup {[Base EXCEPT !.max.total = n] : n \in {0, 2, 5, 8}}
       \cup {[Base EXCEPT !.max.definitions = n] : n \in 0 .. 2} \cup {[Base EXCEPT !.max.counters = 1, !.max.errors = 1, !.closed = {"cat", "pm"}]}
       \cup {[Base EXCEPT !.closed = {d}] : d \in {"top", "home", "work", "pm", "ps", "cskills", "foo", "cat", "xsys", "sub"}}
       \cup {[Base EXCEPT !.state.st = st] : st \in {"absent", "denied", "big", "broken"}}
       \cup {[Base EXCEPT !.state.projectsOk = FALSE], [Base EXCEPT !.state.usesOk = FALSE], [Base EXCEPT !.protected = {"home"}]}
       \cup {[Base EXCEPT !.search = s, !.state.projects = {}] : s \in {<<"lnproj">>, <<"docs", "work">>, <<"home", "work">>, <<"work", "other">>, <<>>}}
       \cup {[Base EXCEPT !.state.projects = ps, !.extra = {"other", "proj"}] : ps \in {{"lnproj", "home"}, {"dproj", "other"}, {"proj"}}}
       \cup {[Locked EXCEPT !.lock["agents"].st = st] : st \in {"broken", "big", "special"}} \cup {[Locked EXCEPT !.globalLocks = <<"docs", "agents">>, !.lock["docs"] = Lock("askills", <<Entry("foo", TRUE, TRUE)>>)]}
       \cup {[Base EXCEPT !.md["own"].st = st, !.files["cmds"][1].st = st] : st \in {"special", "denied", "big"}}
       \cup {Text(t) : t \in {<<"blank", "indented", "name", "indented", "colon", "fence">>, <<"text", "directive">>, <<"fence", "invalid", "fence", "directive">>, <<"fence", "name">>}}
       \cup {[Base EXCEPT !.role["work"] = "hidden"], [Base EXCEPT !.kind["ps"] = "missing"], [Base EXCEPT !.to["lost"] = "unread", !.to["jown"] = "unread", !.windows = TRUE],
             [Base EXCEPT !.md["baz"].name = "own"]}

-----------------------------------------------------------------------------
(* Runs of the agent: what is switched off, who is logged in, what the     *)
(* baseline knows that is gone, and what fails.                            *)
RunWorlds ==
    LET Base == [linux |-> TRUE, brew |-> TRUE, scanned |-> {"npm", "python"}, rules |-> TRUE, noCredentials |-> FALSE, wsl |-> FALSE,
                 user |-> TRUE, guest |-> FALSE, id |-> "fast", locked |-> FALSE, home |-> TRUE, delta |-> TRUE, full |-> FALSE,
                 readonly |-> FALSE, offline |-> FALSE, dump |-> "no", mishap |-> "none", deadline |-> TRUE, untimed |-> {},
                 disk |-> [npm |-> {"n1", "n2"}, python |-> {"v1"}], known |-> [npm |-> {"n1", "n3"}, python |-> {"v2"}], edited |-> {},
                 hidden |-> {}, excess |-> {}, foreign |-> {}, bare |-> {}]
    IN {Base, [Base EXCEPT !.delta = FALSE, !.readonly = TRUE, !.untimed = {"node_scan", "brew_scan", "telemetry_upload"}, !.foreign = {"n2"}, !.bare = {"v1"}],
        [Base EXCEPT !.full = TRUE, !.linux = FALSE, !.wsl = TRUE, !.id = "slow", !.excess = {"n2"}],
        [Base EXCEPT !.scanned = {"python"}, !.brew = FALSE, !.rules = FALSE, !.noCredentials = TRUE, !.bare = {"v1"}],
        [Base EXCEPT !.scanned = {"npm"}, !.user = FALSE, !.edited = {"n1"}, !.guest = TRUE, !.id = "none", !.deadline = FALSE],
        [Base EXCEPT !.home = FALSE, !.untimed = {"node_scan", "ide_scan"}, !.id = "none", !.guest = TRUE, !.deadline = FALSE, !.excess = {"n1", "v1"}],
        [Base EXCEPT !.offline = TRUE, !.deadline = FALSE, !.readonly = TRUE, !.hidden = {"n1"}, !.foreign = {"n2"}],
        [Base EXCEPT !.offline = TRUE, !.delta = FALSE, !.deadline = FALSE],
        [Base EXCEPT !.dump = "ok", !.deadline = FALSE], [Base EXCEPT !.dump = "broken", !.delta = FALSE, !.deadline = FALSE],
        [Base EXCEPT !.mishap = "panic", !.deadline = FALSE], [Base EXCEPT !.mishap = "kill", !.deadline = FALSE], [Base EXCEPT !.locked = TRUE], [Base EXCEPT !.id = "none"]}
=============================================================================
