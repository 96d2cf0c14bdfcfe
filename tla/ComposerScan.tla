---------------------------- MODULE ComposerScan ---------------------------
(***************************************************************************)
(* The inventory of a developer's PHP projects                             *)
(* (internal/detector/composerscan.go).  A dependency tree (vendor         *)
(* directory) is recognised by the receipt of its installation or because  *)
(* a manifest names it, and then neither walked nor taken for projects;    *)
(* one that is recognised late takes back what was registered inside it.   *)
(*                                                                         *)
(* A directory stands for its path, and a root that is a link for the      *)
(* directory it leads to.  Directory d holds at most one composer.json,    *)
(* one composer.lock and, as a vendor directory, one composer/installed.*. *)
(* Every record costs one unit of the output limit.                        *)
(***************************************************************************)
EXTENDS Directories

CONSTANT Worlds

\* "gone" is listed in its directory and not there when it is read.
FileState == {"ok", "partial", "broken", "missing", "gone", "denied", "big", "odd"}

VARIABLES
    world, late, pc,
    ledger,             \* byID, the report's reasons, rows and bytes left
    walks, queue, entries,
    known,              \* manifests: what was read of each
    trees,              \* receipts, vendors and caches
    items, out

disc == <<walks, queue, entries>>
vars == <<world, late, pc, ledger, disc, known, trees, items, out>>

Within(d, tops) == d \in Dir /\ Ancestry[d] \cap tops # {}
Sound(st) == st \in {"ok", "partial"}

-----------------------------------------------------------------------------
(* Sources.                                                                *)
NoSource == <<"none", Nowhere>>
Root(d) == <<"project_search_root", d>>
homeId(d) == <<"composer_home", d>>
manifestId(d) == <<"manifest", d>>
lockId(d) == <<"lockfile", d>>
receiptId(v) == <<"installed_metadata", v>>

Known(led, id) == id \in DOMAIN led.sources
reasonsOf(led, id) == led.sources[id].reasons
Enclosing(led, id) ==
    LET up[n \in Nat] == IF n = 0 THEN {id} \cap DOMAIN led.sources
                         ELSE UNION {{s} \cup ({led.sources[s].parent} \cap DOMAIN led.sources) : s \in up[n - 1]}
    IN up[Cardinality(DOMAIN led.sources)]

degrade(led, id, whys) ==
    IF whys = {} THEN led
    ELSE [led EXCEPT !.reasons = @ \cup whys,
                     !.sources = [s \in Enclosing(led, id) |-> [@[s] EXCEPT !.reasons = @ \cup whys]] @@ @]

Fits(led) == led.rows > 0 /\ led.bytes > 0
LoseQuietly(led, id) == IF Fits(led) THEN [led EXCEPT !.rows = @ - 1, !.bytes = @ - 1] ELSE led    \* mutant
charge(led, id) ==
    IF Fits(led) THEN [led EXCEPT !.rows = @ - 1, !.bytes = @ - 1]
    ELSE degrade(led, id, {IF led.rows = 0 THEN "record_limit" ELSE "output_size_limit"})

\* c.limited is an output limit that was met before.
stopReason(led) ==
    CASE late -> {"deadline_exceeded"}
      [] ~late /\ led.bytes = 0 /\ "output_size_limit" \in led.reasons -> {"output_size_limit"}
      [] ~late /\ led.rows = 0 -> {"record_limit"}
      [] OTHER -> {}
stopped(led) == stopReason(led) # {}

unknown(led, id, whys) == [degrade(led, id, whys) EXCEPT !.sources[id].presence = "unknown"]
absent(led, id) == [led EXCEPT !.sources[id].presence = "absent"]
forget(led, ids) == [led EXCEPT !.sources = [id \in DOMAIN @ \ ids |-> @[id]]]

source(led, id, parent) ==
    LET owner == IF Known(led, parent) THEN parent ELSE NoSource
        paid == charge(led, owner)
    IN IF Known(led, id) THEN led
       ELSE IF ~Fits(led) THEN paid
       ELSE [paid EXCEPT !.sources = (id :> [reasons |-> {}, presence |-> "present", parent |-> owner]) @@ @]

ReadReason(st) == CASE st = "denied" -> {"permission_denied"} [] st = "big" -> {"size_limit"}
                    [] st = "odd" -> {"unsupported_entry"} [] OTHER -> {}
ParseReason(st) == IF st \in {"broken", "partial"} THEN {"parse_error"} ELSE {}
reasonForGuard(d) == IF world.guard[d] = "volume" THEN "refused_network_volume" ELSE "skipped_protected"

\* read, and the reason a parser adds.
read(led, id, st, targeted) ==
    CASE stopped(led) -> unknown(led, id, stopReason(led))
      [] ~stopped(led) /\ st \in {"missing", "gone"} ->
            IF targeted THEN absent(led, id) ELSE unknown(led, id, {"changed_during_scan"})
      [] ~stopped(led) /\ st = "denied" -> unknown(led, id, ReadReason(st))
      [] OTHER -> degrade(led, id, ReadReason(st) \cup ParseReason(st))

add(g, id, what) ==
    FoldSet(LAMBDA p, h : [led |-> charge(h.led, id), out |-> IF Fits(h.led) THEN h.out \cup {<<id, p>>} ELSE h.out], g, what)

-----------------------------------------------------------------------------
(* Vendor trees and caches.                                                *)
inVendor(t, d) == Within(d, t.vendors)
inCache(t, d) == Within(d, t.caches)
skip(t, d) == inVendor(t, d) \/ inCache(t, d)

\* What a step works on: the ledger, the manifests and the trees.
Work == [led |-> ledger, known |-> known, trees |-> trees]
Worked(g) == ledger' = g.led /\ known' = g.known /\ trees' = g.trees

receipt(g, v, parent) ==
    LET led == source(g.led, receiptId(v), parent)
    IN IF v \in g.trees.receipts THEN [g EXCEPT !.trees.vendors = @ \cup {v}]
       ELSE [g EXCEPT !.led = led, !.trees.vendors = @ \cup {v},
                      !.trees.receipts = IF Known(led, receiptId(v)) THEN @ \cup {v} ELSE @]

\* The directories config.Project selects for the manifest of d.
vendorOf(d, st) == IF Sound(st) /\ world.manifest[d].vendor # Nowhere THEN world.manifest[d].vendor ELSE world.vendor[d]
PathsWhole(d, st) == world.manifest[d].whole /\ st \in {"ok", "partial", "missing", "gone"}

\* A manifest is read when it is registered; the rows for the project and its
\* requirements are taken at once and handed out by emit.
manifest(g, d, parent, scope, targeted) ==
    LET id == manifestId(d)
        st == world.manifest[d].st
        led == source(g.led, id, parent)
        got == read(led, id, st, targeted)
        seen == [g EXCEPT !.led = IF PathsWhole(d, st) THEN got ELSE degrade(got, parent, {"path_unresolved"}),
                          !.trees.caches = @ \cup (IF Sound(st) THEN world.manifest[d].cache ELSE {})]
        held == receipt(seen, vendorOf(d, st), parent)
        paid == charge(held.led, id)
        rows == FoldSet(LAMBDA p, h : [led |-> charge(h.led, id), pkgs |-> IF Fits(h.led) THEN h.pkgs \cup {p} ELSE h.pkgs],
                        [led |-> paid, pkgs |-> {}], world.manifest[d].pkgs)
        As(ok, vendor, pkgs) == (d :> [ok |-> ok, vendor |-> vendor, scope |-> scope, pkgs |-> pkgs]) @@ g.known
    IN IF d \in DOMAIN g.known \/ inVendor(g.trees, d) THEN g
       ELSE IF ~Known(led, id) THEN [g EXCEPT !.led = led]
       ELSE IF stopped(led) THEN [g EXCEPT !.led = got, !.known = As(FALSE, Nowhere, {})]
       ELSE IF ~Sound(st) THEN [held EXCEPT !.known = As(FALSE, vendorOf(d, st), {})]
       ELSE IF ~Fits(held.led) THEN [held EXCEPT !.led = paid, !.known = As(FALSE, vendorOf(d, st), {})]
       ELSE [held EXCEPT !.led = rows.led, !.known = As(TRUE, vendorOf(d, st), rows.pkgs)]

-----------------------------------------------------------------------------
\* Scan, up to the homes.
Init ==
    /\ world \in Worlds /\ late = FALSE
    /\ pc = IF world.user THEN "homes" ELSE "finish"
    /\ ledger = [sources |-> <<>>, rows |-> world.records, bytes |-> world.bytes,
                 reasons |-> IF ~world.user THEN {"user_unresolved"}
                             ELSE IF Nowhere \in Range(world.roots) THEN {"path_unresolved"} ELSE {}]
    /\ walks = <<>> /\ queue = <<>> /\ entries = 0
    /\ known = <<>> /\ trees = [receipts |-> {}, vendors |-> {}, caches |-> world.caches]
    /\ items = world.homes /\ out = {}

Expire ==
    /\ pc # "done" /\ ~late
    /\ late' = TRUE
    /\ UNCHANGED <<world, pc, ledger, disc, known, trees, items, out>>

\* A Composer home: its global manifest, or the receipt that outlives it.
Home ==
    /\ pc = "homes" /\ items # <<>>
    /\ LET h == Head(items)
           id == homeId(h)
           led == source(ledger, id, NoSource)
           there == manifest([Work EXCEPT !.led = led], h, id, "global", TRUE)
           bare == h \notin DOMAIN there.known \/ ~there.known[h].ok
       IN IF ~Known(led, id) THEN Worked([Work EXCEPT !.led = led])
          ELSE Worked(CASE stopped(led) -> [Work EXCEPT !.led = unknown(led, id, stopReason(led))]
                        [] ~stopped(led) /\ world.guard[h] # "clear" -> [Work EXCEPT !.led = unknown(led, id, {reasonForGuard(h)})]
                        [] ~stopped(led) /\ world.guard[h] = "clear" /\ world.dir[h] = "missing" -> [Work EXCEPT !.led = absent(led, id)]
                        [] ~stopped(led) /\ world.guard[h] = "clear" /\ world.dir[h] = "sealed" ->
                              [Work EXCEPT !.led = unknown(led, id, {"permission_denied"})]
                        [] OTHER -> IF bare THEN receipt(there, world.vendor[h], id) ELSE there)
    /\ items' = Tail(items)
    /\ UNCHANGED <<world, late, pc, disc, out>>

\* The manifest COMPOSER names.
Alternate ==
    /\ pc = "homes" /\ items = <<>>
    /\ Worked(IF world.alternate = Nowhere THEN Work ELSE manifest(Work, world.alternate, NoSource, "project", TRUE))
    /\ items' = SelectSeq(world.roots, LAMBDA d : d # Nowhere) /\ pc' = "roots"
    /\ UNCHANGED <<world, late, disc, out>>

-----------------------------------------------------------------------------
(* walkRoots and walk.                                                     *)
phys(d) == world.phys[d]

Resolve ==
    /\ pc = "roots" /\ items # <<>>
    /\ LET d == Head(items)
           led == source(ledger, Root(d), NoSource)
           why == CASE stopped(led) -> stopReason(led)
                    [] ~stopped(led) /\ world.guard[d] # "clear" -> {reasonForGuard(d)}
                    [] ~stopped(led) /\ world.guard[d] = "clear" /\ world.dir[d] = "sealed" -> {"permission_denied"}
                    [] OTHER -> {}
       IN IF Known(ledger, Root(d)) \/ ~Known(led, Root(d)) THEN ledger' = led /\ UNCHANGED walks
          ELSE IF why # {} THEN ledger' = unknown(led, Root(d), why) /\ UNCHANGED walks
          ELSE IF world.dir[d] = "missing" THEN ledger' = absent(led, Root(d)) /\ UNCHANGED walks
          ELSE ledger' = led /\ walks' = Append(walks, d)
    /\ items' = Tail(items)
    /\ UNCHANGED <<world, late, pc, queue, entries, known, trees, out>>

Covered(i) == \/ \E j \in 1 .. i - 1 : phys(walks[j]) = phys(walks[i])
              \/ \E j \in DOMAIN walks : phys(walks[j]) # phys(walks[i]) /\ Within(phys(walks[i]), {phys(walks[j])})

\* Of roots that overlap the outermost, or the first, is walked.
Uncover ==
    /\ pc = "roots" /\ items = <<>>
    /\ LET covered == {walks[i] : i \in {i \in DOMAIN walks : Covered(i)}}
       IN walks' = SelectSeq(walks, LAMBDA d : d \notin covered) /\ ledger' = forget(ledger, {Root(d) : d \in covered})
    /\ pc' = "walk"
    /\ UNCHANGED <<world, late, queue, entries, known, trees, items, out>>

WalkRoot ==
    /\ pc = "walk" /\ walks # <<>>
    /\ queue' = <<phys(Head(walks))>> /\ entries' = world.entries /\ pc' = "walking"
    /\ UNCHANGED <<world, late, ledger, walks, known, trees, items, out>>

walkRoot == Root(Head(walks))
Leave == walks' = Tail(walks) /\ queue' = <<>> /\ pc' = "walk"

Walked ==
    /\ pc = "walking" /\ (queue = <<>> \/ stopped(ledger))
    /\ ledger' = IF queue = <<>> THEN ledger ELSE degrade(ledger, walkRoot, stopReason(ledger))
    /\ Leave
    /\ UNCHANGED <<world, late, entries, known, trees, items, out>>

PassOver ==
    /\ pc = "walking" /\ queue # <<>> /\ ~stopped(ledger)
    /\ LET d == Head(queue)
       IN /\ skip(trees, d) \/ world.dir[d] # "ok"
          /\ ledger' = degrade(ledger, walkRoot, IF skip(trees, d) THEN {} ELSE {"permission_denied"})
    /\ queue' = Tail(queue)
    /\ UNCHANGED <<world, late, pc, walks, entries, known, trees, items, out>>

Children(d) == {c \in Dir : Up[c] = d /\ world.dir[c] # "missing"}
Names(d) == {<<"dir", c>> : c \in Children(d)}
            \cup (IF world.manifest[d].st # "missing" THEN {<<"composer.json", d>>} ELSE {})
            \cup (IF world.installed[d].st # "missing" \/ world.installed[d].php # "missing" THEN {<<"composer", d>>} ELSE {})
Listed(d) == {shown \in SUBSET Names(d) :
                 Cardinality(shown) = IF Cardinality(Names(d)) > entries THEN entries ELSE Cardinality(Names(d))}

\* The receipt of a directory, if either file is a regular one.
TrustJson(v) == [is |-> world.installed[v].st \in {"ok", "partial", "broken", "big"}, whys |-> {}]     \* mutant
probe(v) ==
    LET json == world.installed[v].st
        php == world.installed[v].php
        isJson == json \in {"ok", "partial", "broken", "big"}
    IN [is |-> isJson \/ php = "ok",
        whys |-> IF ~isJson /\ "denied" \in {json, php} THEN {"permission_denied"} ELSE {}]

PassGuarded(c, deep) == [follow |-> world.guard[c] = "clear" /\ ~deep, whys |-> IF deep THEN {"depth_limit"} ELSE {}]  \* mutant
Descend(c, deep) ==
    CASE world.guard[c] # "clear" -> [follow |-> FALSE, whys |-> {reasonForGuard(c)}]
      [] OTHER -> [follow |-> ~deep, whys |-> IF deep THEN {"depth_limit"} ELSE {}]

\* What one listed directory adds: its receipt, else its manifest.
Look(d, shown) ==
    LET dep == probe(d)
        marked == degrade(ledger, walkRoot, dep.whys)
        g == IF <<"composer", d>> \in shown
             THEN IF dep.is THEN receipt([Work EXCEPT !.led = marked], d, walkRoot) ELSE [Work EXCEPT !.led = marked]
             ELSE Work
    IN IF ~inVendor(g.trees, d) /\ <<"composer.json", d>> \in shown THEN manifest(g, d, walkRoot, "project", FALSE) ELSE g

WalkDir ==
    /\ pc = "walking" /\ queue # <<>> /\ ~stopped(ledger)
    /\ LET d == Head(queue)
           deep == Cardinality(Ancestry[d]) - Cardinality(Ancestry[phys(Head(walks))]) >= world.depth
       IN /\ ~skip(trees, d) /\ world.dir[d] = "ok"
          /\ \E shown \in Listed(d) : \E g \in {Look(d, shown)} :
               LET vendor == <<"composer", d>> \in shown /\ probe(d).is
                   more == shown # Names(d)
                   below == {c \in Children(d) : <<"dir", c>> \in shown /\ c \notin world.skip /\ ~skip(g.trees, c)}
                   whys == UNION {Descend(c, deep).whys : c \in below} \cup (IF more THEN {"entry_limit"} ELSE {})
               IN /\ Worked(IF vendor THEN g ELSE [g EXCEPT !.led = degrade(@, walkRoot, whys)])
                  /\ IF more /\ ~vendor THEN Leave
                     ELSE /\ queue' = Tail(queue) \o (IF vendor THEN <<>> ELSE InOrder({c \in below : Descend(c, deep).follow}))
                          /\ UNCHANGED <<walks, pc>>
                  /\ entries' = entries - Cardinality(shown)
    /\ UNCHANGED <<world, late, items, out>>

WalksDone ==
    /\ pc = "walk" /\ walks = <<>>
    /\ items' = InOrder(DOMAIN known) /\ pc' = "emit"
    /\ UNCHANGED <<world, late, ledger, disc, known, trees, out>>

-----------------------------------------------------------------------------
(* emit.                                                                   *)
\* packages: the records of a lockfile or a receipt.
packages(g, id, st, records) ==
    LET got == read(g.led, id, st, TRUE)
    IN IF stopped(g.led) \/ ~Sound(st) THEN [g EXCEPT !.led = got] ELSE add([g EXCEPT !.led = got], id, records)

\* A manifest inside a tree that was recognised after it is taken back.
EmitManifest ==
    /\ pc = "emit" /\ items # <<>>
    /\ LET d == Head(items)
           id == manifestId(d)
           rows == IF known[d].ok THEN {<<id, <<"project", known[d].scope>>>>} \cup {<<id, <<"declared", p>>>> : p \in known[d].pkgs} ELSE {}
           led == source(ledger, lockId(d), id)
           g == packages([led |-> led, out |-> out \cup rows], lockId(d), world.lock[d].st,
                         {<<"locked", p>> : p \in world.lock[d].pkgs})
       IN IF skip(trees, d) THEN ledger' = forget(ledger, {id}) /\ UNCHANGED out
          ELSE IF stopped(ledger) THEN ledger' = degrade(ledger, id, stopReason(ledger)) /\ out' = out \cup rows
          ELSE IF ~Known(led, lockId(d)) THEN ledger' = led /\ out' = out \cup rows
          ELSE ledger' = g.led /\ out' = g.out
    /\ items' = Tail(items)
    /\ UNCHANGED <<world, late, pc, disc, known, trees>>

ManifestsEmitted ==
    /\ pc = "emit" /\ items = <<>>
    /\ items' = InOrder(trees.receipts) /\ pc' = "receipts"
    /\ UNCHANGED <<world, late, ledger, disc, known, trees, out>>

\* The projects whose dependencies the tree v holds.
FirstOwner(v) == LET all == {d \in DOMAIN known : known[d].ok /\ known[d].vendor = v} IN IF all = {} THEN all ELSE {CHOOSE d \in all : TRUE} \* mutant
Owners(v) == {d \in DOMAIN known : known[d].ok /\ ~inVendor(trees, d) /\ known[d].vendor = v}

\* A receipt without a readable installed.json: installed.php is no evidence.
receiptAbsent(led, v) ==
    CASE world.installed[v].php = "ok"     -> degrade(led, receiptId(v), {"unsupported_format"})
      [] world.installed[v].php = "denied" -> unknown(led, receiptId(v), {"permission_denied"})
      [] OTHER -> led

EmitReceipt ==
    /\ pc = "receipts" /\ items # <<>>
    /\ LET v == Head(items)
           id == receiptId(v)
           owner == IF Cardinality(Owners(v)) = 1 THEN Owners(v) ELSE {}
           g == packages([led |-> ledger, out |-> out], id, world.installed[v].st,
                         {<<"installed", p, world.placed[p], owner>> : p \in world.installed[v].pkgs})
           bare == g.led.sources[id].presence = "absent" /\ reasonsOf(g.led, id) = {}
       IN IF inVendor(trees, Up[v]) \/ inCache(trees, v) THEN ledger' = forget(ledger, {id}) /\ UNCHANGED out
          ELSE ledger' = (IF bare THEN receiptAbsent(g.led, v) ELSE g.led) /\ out' = g.out
    /\ items' = Tail(items)
    /\ UNCHANGED <<world, late, pc, disc, known, trees>>

ReceiptsEmitted ==
    /\ pc = "receipts" /\ items = <<>>
    /\ pc' = "finish"
    /\ UNCHANGED <<world, late, ledger, disc, known, trees, items, out>>

\* finish, and the report that with its audit would be too large even so.
finish ==
    /\ pc = "finish"
    /\ IF world.big
       THEN ledger' = [ledger EXCEPT !.sources = <<>>, !.reasons = {"output_size_limit"}] /\ out' = {}
       ELSE /\ ledger' = [ledger EXCEPT !.sources = [id \in DOMAIN @ |->
                             [@[id] EXCEPT !.parent = IF Known(ledger, @) THEN @ ELSE NoSource]]]
            /\ UNCHANGED out
    /\ pc' = "done"
    /\ UNCHANGED <<world, late, disc, known, trees, items>>

Step == \/ Home \/ Alternate
        \/ Resolve \/ Uncover \/ WalkRoot \/ Walked \/ PassOver \/ WalkDir \/ WalksDone
        \/ EmitManifest \/ ManifestsEmitted \/ EmitReceipt \/ ReceiptsEmitted \/ finish
Next == Step \/ Expire
Spec == Init /\ [][Next]_vars

-----------------------------------------------------------------------------
TypeOK ==
    /\ late \in BOOLEAN /\ ledger.rows \in 0 .. world.records /\ ledger.bytes \in 0 .. world.bytes
    /\ \A id \in DOMAIN ledger.sources : ledger.sources[id].presence \in {"present", "absent", "unknown"}
    /\ DOMAIN known \subseteq Dir /\ trees.receipts \subseteq trees.vendors /\ trees.vendors \cup trees.caches \subseteq Dir

Complete(id) == Known(ledger, id) /\ ledger.sources[id].presence = "present" /\ reasonsOf(ledger, id) = {}
Over == pc = "done" /\ ~world.big

(* The directories below r outside trees and caches.                        *)
Reach(r) == Closed(LAMBDA d : {c \in Children(d) : c \notin world.skip /\ ~skip(trees, c)}, {r} \ {d \in Dir : skip(trees, d)})

(* Below a complete root no project and no dependency tree was missed, save *)
(* what lies in a tree or cache recognised by the end of the scan.          *)
RootsAreWhole ==
    Over => \A id \in DOMAIN ledger.sources : id[1] = "project_search_root" /\ Complete(id) =>
        /\ \A d \in Reach(phys(id[2])) :
              /\ world.dir[d] = "ok" /\ world.guard[d] = "clear"
              /\ world.manifest[d].st # "missing" => Known(ledger, manifestId(d))
        /\ \A v \in Dir : /\ Up[v] \in Reach(phys(id[2])) /\ v \notin world.skip /\ ~inCache(trees, v)
                          /\ world.dir[v] = "ok"
                          /\ world.installed[v].st \notin {"missing", "gone", "odd"} \/ world.installed[v].php # "missing"
                          => Known(ledger, receiptId(v))

(* A complete manifest, lockfile or receipt gives all it holds; one that is *)
(* absent is not there in either format.                                    *)
FilesAreWhole ==
    Over => \A d \in Dir :
        /\ Complete(manifestId(d)) /\ world.manifest[d].st # "missing" =>
              /\ <<manifestId(d), <<"project", known[d].scope>>>> \in out
              /\ \A p \in world.manifest[d].pkgs : <<manifestId(d), <<"declared", p>>>> \in out
              /\ Known(ledger, lockId(d))
        /\ Complete(lockId(d)) => \A p \in world.lock[d].pkgs : <<lockId(d), <<"locked", p>>>> \in out
        /\ Complete(receiptId(d)) =>
              \A p \in world.installed[d].pkgs : \E rec \in out : rec[1] = receiptId(d) /\ rec[2][1] = "installed" /\ rec[2][2] = p
        /\ Known(ledger, receiptId(d)) /\ ledger.sources[receiptId(d)].presence = "absent" /\ reasonsOf(ledger, receiptId(d)) = {} =>
              world.installed[d].st \in {"missing", "gone"} /\ world.installed[d].php = "missing"

(* A dependency is no project of the developer's, wherever its tree was     *)
(* recognised, and an installation belongs to the only project that can     *)
(* have made it, or to none.                                                *)
DependenciesApart ==
    Over => \A rec \in out :
        /\ rec[1][1] \in {"manifest", "lockfile"} => ~skip(trees, rec[1][2])
        /\ rec[2][1] = "installed" =>
              /\ ~inVendor(trees, Up[rec[1][2]])
              /\ \A d \in rec[2][4] : /\ ~skip(trees, d) \/ inCache(trees, d)
                                      /\ \A e \in DOMAIN known : known[e].ok /\ known[e].vendor = rec[1][2] /\ ~inVendor(trees, e) => e = d

(* What marks a source marks all that encloses it, and the report.          *)
ReasonsRise ==
    \A id \in DOMAIN ledger.sources :
        \A up \in Enclosing(ledger, id) : reasonsOf(ledger, id) \subseteq reasonsOf(ledger, up) \cap ledger.reasons

OmissionsReported == RootsAreWhole /\ FilesAreWhole /\ DependenciesApart /\ ReasonsRise
=============================================================================
