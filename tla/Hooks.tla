------------------------------- MODULE Hooks -------------------------------
(***************************************************************************)
(* The AI-agent hooks: the scheduled run asks the backend whether hooks    *)
(* are wanted, writes the answer to the cache the hot path reads, and then *)
(* installs or removes the hook entries of each coding agent               *)
(* (aiagents/state/reconciler.go, aiagents/cli, the two adapters); a       *)
(* person may run `hooks install` or `hooks uninstall` at the same time,   *)
(* and edits the very files the adapters edit.  Each adapter reads a file, *)
(* edits the copy and replaces the file, keeping a backup                  *)
(* (atomicfile.WriteAtomic); no lock spans the three.                      *)
(*                                                                         *)
(* First what the adapters make of a settings file                         *)
(* (adapter/claudecode/settings.go, codex/settings.go, configedit/toml.go).*)
(* The list of one hook event is a sequence of matcher groups, a group     *)
(* holds a sequence of entries; an entry is the user's or, by its command, *)
(* the agent's, with the binary it names.                                  *)
(***************************************************************************)
EXTENDS SequencesExt, FiniteSets, Naturals
All == "*"

User(u) == [ours |-> FALSE, cmd |-> u]
Ours(b) == [ours |-> TRUE, cmd |-> b]
Group(m, entries) == [matcher |-> m, hooks |-> entries]

IsManaged(e)  == e.ours
HasManaged(g) == \E i \in DOMAIN g.hooks : IsManaged(g.hooks[i])
NotManaged(e) == ~IsManaged(e)
Unmanaged(g)  == [g EXCEPT !.hooks = SelectSeq(@, NotManaged)]
Filled(g)     == g.hooks # <<>>

(* The first group an upsert puts or finds the entry in, 0 without one. *)
First(list, Claims(_)) ==
    IF \E i \in DOMAIN list : Claims(list[i])
    THEN CHOOSE i \in DOMAIN list : Claims(list[i]) /\ \A j \in 1..(i - 1) : ~Claims(list[j])
    ELSE 0

(* A mutant for the runs comes first: entries of an older binary stay.     *)
(* Claude Code: every entry of the agent is refreshed where it stands, and *)
(* without one before it the first group for all tools gets one.           *)
RefreshNothing(g, bin) == g
Refresh(g, bin) == [g EXCEPT !.hooks = [i \in DOMAIN @ |-> IF IsManaged(@[i]) THEN Ours(bin) ELSE @[i]]]
UpsertClaude(list, want, bin) ==
    LET Claims(g) == g.matcher = want \/ HasManaged(g)
        home      == First(list, Claims)
        Placed(i) == LET g == Refresh(list[i], bin)
                     IN  IF i = home /\ ~HasManaged(g) THEN [g EXCEPT !.hooks = Append(@, Ours(bin))] ELSE g
        kept      == SelectSeq([i \in DOMAIN list |-> Placed(i)], Filled)
    IN  IF home = 0 THEN Append(kept, Group(want, <<Ours(bin)>>)) ELSE kept

(* Of the entries of the agent in a group the first is kept. *)
OneManaged(g, bin) ==
    LET mine == {i \in DOMAIN g.hooks : IsManaged(g.hooks[i])}
        keep == IF mine = {} THEN 0 ELSE CHOOSE i \in mine : \A j \in mine : i <= j
        Kept(i) == IF i = keep THEN <<Ours(bin)>> ELSE IF i \in mine THEN <<>> ELSE <<g.hooks[i]>>
        left == FlattenSeq([i \in DOMAIN g.hooks |-> Kept(i)])
    IN  [g EXCEPT !.hooks = IF mine = {} THEN Append(left, Ours(bin)) ELSE left]

(* A mutant for the runs: an upsert that looks at its own group only. *)
UpsertCodexInPlace(list, want, bin) ==
    LET Claims(g) == g.matcher = want
        home      == First(list, Claims)
    IN  IF home = 0 THEN Append(list, Group(want, <<Ours(bin)>>))
        ELSE [list EXCEPT ![home] = OneManaged(@, bin)]

(* Codex: one entry, in the first group with the event's own matcher; those *)
(* under another matcher and all but the first are dropped.                 *)
UpsertCodex(list, want, bin) ==
    LET Claims(g) == g.matcher = want
        home      == First(list, Claims)
        Placed(i) == IF i = home THEN OneManaged(list[i], bin) ELSE Unmanaged(list[i])
        kept      == SelectSeq([i \in DOMAIN list |-> Placed(i)], Filled)
    IN  IF home = 0 THEN Append(kept, Group(want, <<Ours(bin)>>)) ELSE kept

(* removeManagedHooks: an event without an entry of the agent stays as it  *)
(* is, in any other the groups left empty go.                              *)
Installed(list) == \E i \in DOMAIN list : HasManaged(list[i])
RemoveManaged(list) ==
    IF Installed(list) THEN SelectSeq([i \in DOMAIN list |-> Unmanaged(list[i])], Filled) ELSE list

(* What of a list is the user's: the entries with their matcher, in order. *)
OfUser(list) ==
    FlattenSeq([i \in DOMAIN list |->
        LET mine == Unmanaged(list[i]).hooks IN [j \in DOMAIN mine |-> <<list[i].matcher, mine[j].cmd>>]])

Mine(list) ==
    FlattenSeq([i \in DOMAIN list |->
        LET own == SelectSeq(list[i].hooks, IsManaged) IN [j \in DOMAIN own |-> <<list[i].matcher, own[j].cmd>>]])

-----------------------------------------------------------------------------
(* EnsureCodexHooksFlag on the ways config.toml may hold the feature: no    *)
(* [features] table, one without the key, one that says no or yes, the      *)
(* table written inline so that the appended one would be its duplicate,    *)
(* or text that is no TOML.                                                 *)
Flags == {"none", "table", "off", "on", "inline", "broken"}
Refused == {"inline", "broken"}
EnsureFlag(f) == IF f \in {"none", "table", "off"} THEN "on" ELSE f

-----------------------------------------------------------------------------
CONSTANTS
    Other,          \* a matcher of the user's
    Wide,           \* the coding agents whose entry may stay under any matcher
    MaxBackups,     \* atomicfile.MaxBackups
    AsRoot,         \* the scheduled run is root's: the cache it writes is not the user's to read
    Disturbances    \* how many edits, faults, upgrades, runs by hand and changes of mind there are at most

\* The coding agents in the order of allAdapters, and the matcher the event
\* that is looked at has with each: Codex has some that are listed without one.
Order   == <<"claude", "codex">>
Matcher == [a \in Range(Order) |-> IF a = "claude" THEN "*" ELSE ""]
Agents  == Range(Order)
Procs  == {"tick", "cli"}

VARIABLES
    server,     \* the backend wants hooks
    cache,      \* hooks-state.json: "none", "on" or "off"
    text,       \* per coding agent its settings: [kind, list]
    flag,       \* the hooks feature in Codex' config.toml
    backups,    \* per coding agent what its backups hold of the user's, newest first
    bin,        \* the binary now installed
    onPath,     \* the coding agents whose command the scheduled run finds
    proc,       \* per process where it is
    saved,      \* what of the file is the user's, as the user last saved it
    since,      \* the replacements by the agent since then
    budget

vars == <<server, cache, text, flag, backups, bin, onPath, proc, saved, since, budget>>
files == <<text, flag, backups, saved, since>>

Absent == [kind |-> "absent", list |-> <<>>]
Bad    == [kind |-> "bad", list |-> <<>>]
Doc(l) == [kind |-> "doc", list |-> l]

Idle == [pc |-> "idle", on |-> FALSE, todo |-> <<>>, read |-> Absent, new |-> Absent, flip |-> FALSE]

Init ==
    /\ server \in BOOLEAN /\ cache = "none" /\ bin = 1 /\ onPath = Agents
    /\ text = [a \in Agents |-> IF a \in Wide THEN Doc(<<Group(Other, <<User(1)>>)>>) ELSE Absent]
    /\ flag \in {"off", "inline"}
    /\ backups = [a \in Agents |-> <<>>]
    /\ proc = [p \in Procs |-> Idle]
    /\ saved = [a \in Agents |-> OfUser(text[a].list)] /\ since = [a \in Agents |-> 0]
    /\ budget = Disturbances

Spend == budget > 0 /\ budget' = budget - 1
Goes(p, pc) == proc' = [proc EXCEPT ![p].pc = pc, ![p].read = Absent, ![p].new = Absent, ![p].flip = FALSE]
Ends(p) == proc' = [proc EXCEPT ![p] = Idle]
At(p, pc) == proc[p].pc = pc

-----------------------------------------------------------------------------
(* A mutant for the runs: an upsert that adds without looking. *)
UpsertAgain(a, l) == Append(l, Group(Matcher[a], <<Ours(bin)>>))

Upsert(a, l) ==
    IF a \in Wide THEN UpsertClaude(l, Matcher[a], bin) ELSE UpsertCodex(l, Matcher[a], bin)

Edited(a, on, l) == IF on THEN Upsert(a, l) ELSE RemoveManaged(l)

(* selectAdapters: the coding agents found on the path. *)
Detected == LET Found(a) == a \in onPath IN SelectSeq(Order, Found)

(* Reconcile: Fetch, then Write of the cache, then the adapters.  An error *)
(* ends the cycle where it occurs.                                         *)
Fetch ==
    /\ At("tick", "idle")
    /\ proc' = [proc EXCEPT !["tick"] = [Idle EXCEPT !.pc = "cache", !.on = server]]
    /\ UNCHANGED <<server, cache, files, bin, onPath, budget>>

(* A mutant for the runs: only an "on" is cached. *)
WriteCacheWhenOn ==
    /\ At("tick", "cache")
    /\ cache' = IF proc["tick"].on THEN "on" ELSE cache
    /\ proc' = [proc EXCEPT !["tick"].pc = "next", !["tick"].todo = Detected]
    /\ UNCHANGED <<server, files, bin, onPath, budget>>

WriteCache ==
    /\ At("tick", "cache")
    /\ cache' = IF proc["tick"].on THEN "on" ELSE "off"
    /\ proc' = [proc EXCEPT !["tick"].pc = "next", !["tick"].todo = Detected]
    /\ UNCHANGED <<server, files, bin, onPath, budget>>

(* `hooks install` and `hooks uninstall` with --agent. *)
Run(on, a) ==
    /\ At("cli", "idle") /\ Spend
    /\ proc' = [proc EXCEPT !["cli"] = [Idle EXCEPT !.pc = "next", !.on = on, !.todo = <<a>>]]
    /\ UNCHANGED <<server, cache, files, bin, onPath>>

(* A mutant for the runs: config.toml is only looked at when written. *)
FailsLate(p, a) == text[a].kind = "bad"

(* An adapter reads what it is to edit: the settings, and for an install    *)
(* of Codex config.toml; what it cannot parse or patch fails the adapter   *)
(* before anything is written, and the next one has its turn.              *)
Fails(p, a) ==
    \/ text[a].kind = "bad"
    \/ proc[p].on /\ a \notin Wide /\ flag \in Refused

Load(p, a) ==
    /\ At(p, "next") /\ proc[p].todo # <<>> /\ a = Head(proc[p].todo)
    /\ LET new == Edited(a, proc[p].on, text[a].list)
           on  == proc[p].on /\ a \notin Wide
       IN  proc' = [proc EXCEPT ![p] =
                [@ EXCEPT !.todo = Tail(@),
                          !.pc = IF Fails(p, a) THEN "next" ELSE a,
                          !.read = IF Fails(p, a) THEN Absent ELSE text[a],
                          !.new = IF Fails(p, a) THEN Absent
                                  ELSE IF new = text[a].list THEN text[a] ELSE Doc(new),
                          !.flip = ~Fails(p, a) /\ on /\ EnsureFlag(flag) # flag]]
    /\ UNCHANGED <<server, cache, files, bin, onPath, budget>>

(* Mutants for the runs: what was read is what is backed up; no backup is  *)
(* ever removed.                                                           *)
BackupOfRead(a) ==
    LET p == CHOOSE p \in Procs : proc[p].pc = a
        all == <<OfUser(proc[p].read.list)>> \o backups[a]
    IN  SubSeq(all, 1, IF Len(all) < MaxBackups THEN Len(all) ELSE MaxBackups)
BackupAll(a) == <<OfUser(text[a].list)>> \o backups[a]

(* TakeBackup: the file as it is now, not as it was read; the oldest go.   *)
Backup(a) ==
    LET all == <<OfUser(text[a].list)>> \o backups[a]
    IN  IF text[a].kind = "absent" THEN backups[a] ELSE SubSeq(all, 1, IF Len(all) < MaxBackups THEN Len(all) ELSE MaxBackups)

(* writeAtomic, writeHooksAtomic: an edit that changed nothing writes      *)
(* nothing; else the file is replaced, whatever became of it meanwhile.    *)
Replace(p, a) ==
    /\ At(p, a)
    /\ IF proc[p].new = proc[p].read THEN UNCHANGED files
       ELSE /\ backups' = [backups EXCEPT ![a] = Backup(a)]
            /\ text' = [text EXCEPT ![a] = proc[p].new]
            /\ since' = [since EXCEPT ![a] = IF @ > MaxBackups THEN @ ELSE @ + 1]
            /\ UNCHANGED <<flag, saved>>
    /\ Goes(p, IF proc[p].flip THEN "flag" ELSE "next")
    /\ UNCHANGED <<server, cache, bin, onPath, budget>>

(* Codex' second file, after the first. *)
WriteFlag(p) ==
    /\ At(p, "flag") /\ flag' = "on" /\ Goes(p, "next")
    /\ UNCHANGED <<server, cache, text, backups, saved, since, bin, onPath, budget>>

Finish(p) ==
    /\ At(p, "next") /\ proc[p].todo = <<>> /\ Ends(p)
    /\ UNCHANGED <<server, cache, files, bin, onPath, budget>>

(* The backend cannot be reached, the cache or a file cannot be written, a *)
(* root run finds no console user, the process is killed.                  *)
Abort(p) ==
    /\ ~At(p, "idle") /\ Spend /\ Ends(p)
    /\ UNCHANGED <<server, cache, files, bin, onPath>>
AdapterFails(p) ==
    /\ proc[p].pc \in Agents \union {"flag"} /\ Spend /\ Goes(p, "next")
    /\ UNCHANGED <<server, cache, files, bin, onPath>>

-----------------------------------------------------------------------------
Toggle ==
    /\ Spend /\ server' = ~server
    /\ UNCHANGED <<cache, files, bin, onPath, proc>>

Upgrade ==
    /\ Spend /\ bin' = bin + 1
    /\ UNCHANGED <<server, cache, files, onPath, proc>>

(* The command goes where the scheduled run does not look. *)
Vanish(a) ==
    /\ Spend /\ a \in onPath /\ onPath' = onPath \ {a}
    /\ UNCHANGED <<server, cache, files, bin, proc>>

(* What the user may make of a list: a hook of their own before or after   *)
(* the rest, no entry of the agent, its entry under another matcher.       *)
Rewritten(a, l) ==
    LET Moved(g) == IF HasManaged(g) THEN [g EXCEPT !.matcher = Other] ELSE g
    IN  {<<Group(Matcher[a], <<User(2)>>)>> \o l, Append(l, Group(Other, <<User(2)>>)), RemoveManaged(l),
         [i \in DOMAIN l |-> Moved(l[i])]}

Save(a) ==
    /\ Spend
    /\ \/ /\ text[a].kind # "bad"
          /\ \E l \in Rewritten(a, text[a].list) :
                /\ l # text[a].list
                /\ text' = [text EXCEPT ![a] = Doc(l)] /\ saved' = [saved EXCEPT ![a] = OfUser(l)]
       \/ text[a].kind # "bad" /\ text' = [text EXCEPT ![a] = Bad] /\ saved' = [saved EXCEPT ![a] = <<>>]
       \/ text[a].kind = "bad" /\ text' = [text EXCEPT ![a] = Doc(<<>>)] /\ saved' = [saved EXCEPT ![a] = <<>>]
    /\ since' = [since EXCEPT ![a] = 0]
    /\ UNCHANGED <<server, cache, flag, backups, bin, onPath, proc>>

Step(p) ==
    \/ p = "tick" /\ (Fetch \/ WriteCache)
    \/ \E a \in Agents : Load(p, a) \/ Replace(p, a)
    \/ WriteFlag(p)
    \/ Finish(p)

Next ==
    \/ \E p \in Procs : Step(p) \/ Abort(p) \/ AdapterFails(p)
    \/ \E on \in BOOLEAN, a \in Agents : Run(on, a)
    \/ Toggle \/ Upgrade
    \/ \E a \in Agents : Save(a) \/ Vanish(a)

(* The scheduler starts a run again and again, and a run goes on. *)
Spec == Init /\ [][Next]_vars /\ \A p \in Procs : WF_vars(Step(p))

-----------------------------------------------------------------------------
(* Run of the hook: an entry that names the binary starts it, Codex only   *)
(* with the feature on; it is silent when the cache it can read says so,   *)
(* and a cache it cannot read or parse counts as enabled.                  *)
CacheRead == IF AsRoot THEN "none" ELSE cache
Reports(a) ==
    /\ \E m \in Range(Mine(text[a].list)) : m[2] = bin
    /\ a \in Wide \/ flag = "on"
    /\ CacheRead # "off"

TypeOK ==
    /\ server \in BOOLEAN /\ cache \in {"none", "on", "off"} /\ flag \in Flags
    /\ \A a \in Agents : text[a].kind \in {"absent", "bad", "doc"} /\ Len(backups[a]) <= MaxBackups
    /\ \A p \in Procs : Range(proc[p].todo) \subseteq Agents /\ proc[p].pc \in Agents \union {"idle", "cache", "next", "flag"}

(* What the user last saved is in the file or in a backup, also when a     *)
(* process replaced the file with an edit of an older one: until later     *)
(* replacements have rotated the backup away.                              *)
EditRecoverable ==
    \A a \in Agents :
        \/ text[a].kind = "bad" \/ since[a] > MaxBackups
        \/ OfUser(text[a].list) = saved[a]
        \/ saved[a] \in Range(backups[a])

(* An edit changes nothing of the user's, and nothing at all the second    *)
(* time (reconciler.go: "install is a no-op when entries are already in    *)
(* place"); after a removal no entry is left.                              *)
EditsSettle ==
    \A a \in Agents : \A on \in BOOLEAN :
        LET new == Edited(a, on, text[a].list)
        IN  /\ OfUser(new) = OfUser(text[a].list)
            /\ Edited(a, on, new) = new
            /\ Installed(new) = on

(* Codex' settings hold at most one entry of the agent, under the event's  *)
(* own matcher, when an install that found them unchanged is through.      *)
CodexHasOne ==
    [][\A p \in Procs, a \in Agents \ Wide :
         proc[p].pc = a /\ text'[a] # text[a] /\ proc[p].on /\ proc'[p] # proc[p]
            => Len(Mine(text'[a].list)) = 1 /\ Mine(text'[a].list)[1][1] = Matcher[a]]_vars

(* config.toml that cannot be patched keeps hooks.json untouched too        *)
(* (codex/settings.go: "install can abort BEFORE hooks.json is touched").  *)
BothOrNeither == flag \in Refused => \A a \in Agents \ Wide : ~Installed(text[a].list)

(* Once the backend stays with "off", the hooks of a user's own install    *)
(* fall silent for good, whether or not the settings could be edited.      *)
QuietInTheEnd == ~AsRoot /\ <>[](~server) => <>[](\A a \in Agents : ~Reports(a))

(* Once it stays with "on", each coding agent whose files can be edited    *)
(* reports for good, from the binary now installed: after failures, edits, *)
(* upgrades and runs of the other process.                                 *)
Editable(a) == a \in onPath /\ text[a].kind # "bad" /\ (a \in Wide \/ flag \notin Refused)
CoveredInTheEnd == <>[](server) => \A a \in Agents : <>[](Editable(a) => Reports(a))

(* The user's settings are safe with the agent: what he saved is there or  *)
(* in a backup, an edit is done once and as a whole.                       *)
EditsAreSafe == [](TypeOK /\ EditRecoverable /\ EditsSettle /\ BothOrNeither) /\ CodexHasOne

(* Whatever the backend stays with comes true in the end.                  *)
ConvergesInTheEnd == QuietInTheEnd /\ CoveredInTheEnd
=============================================================================
