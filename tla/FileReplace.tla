----------------------------- MODULE FileReplace -----------------------------
(***************************************************************************)
(* How the agent, perhaps as root, reads and replaces one file of a user   *)
(* who may edit, save, link or move it at any time: File of                *)
(* internal/secureuserfile, which the pip, uv, netrc and Go writers use,   *)
(* and its near twin in devicepolicy/npmrc.go.  Every step is one system   *)
(* call or a run of calls whose order no other process can tell; a crash   *)
(* may come between any two.                                               *)
(***************************************************************************)
EXTENDS Integers, Sequences

CONSTANTS
    Worlds,      \* the writer, the managed path, the disk it starts on, what is
                 \* on record, and how many calls, moves of the user's and
                 \* mishaps, which are failures or a crash, there may be
    MaxBackups   \* maxBackups, 3 in the code

VARIABLES
    kind,      \* which of the two implementations
    path,      \* the directory of the managed path: the home, or one below it
    disk,      \* every inode, and what each directory holds
    run,       \* the call in progress
    pending,   \* the snapshot of the last call that succeeded, in memory
    rec,       \* the ownership record: was the file created, and where
    result,    \* how the last call ended
    was,       \* what the user had at the managed path when it began, or before
               \* the call that a restore undoes
    budget,    \* calls, moves and mishaps left, and moves and mishaps there were
    disturbed, \* the user moved since the last write or clear began
    swapped,   \* a directory entry moved since the agent last checked one
    astray,    \* the agent has displaced a file that it had not just checked
    crashed

vars == <<kind, path, disk, run, pending, rec, result, was, budget, disturbed, swapped, astray, crashed>>

(* An inode is a file, a link or something else, such as a FIFO.  The text *)
(* of a file is the version of the user's lines and that of the managed    *)
(* block in it; root's lines are not for the user, and a file may be half  *)
(* written.                                                                *)
Text(v, b) == [lines |-> v, block |-> b]
Roots   == -1
Half    == Text(-2, 0)
Nothing == Text(-3, 0)
File(t, who, private, by) == [kind |-> "file", text |-> t, owner |-> who, private |-> private, by |-> by, to |-> "nowhere"]
Link(to) == [kind |-> "link", text |-> Nothing, owner |-> "user", private |-> FALSE, by |-> "user", to |-> to]
Fifo == [Link("nowhere") EXCEPT !.kind = "fifo"]

Parties == {"user", "agent", "root"}
Texts   == [lines : Int, block : Nat]
Inodes  == [kind : {"file", "link", "fifo"}, text : Texts, owner : Parties, private : BOOLEAN, by : Parties,
            to : {"nowhere", "sub"}]
Dirs    == {"home", "sub", "other", "made"}
Disks   == [file : Seq(Inodes), entry : [Dirs -> Nat], temp : [Dirs -> Nat], bak : [Dirs -> Seq(Nat)],
            at : {"sub", "other", "made", "none"}, owner : [Dirs -> {"user", "agent", "none"}]]

(* A directory keeps its identity when another takes its place at the path *)
(* below the home: disk.at is the one there now.                           *)
Place(d, rel) == IF rel = "home" THEN "home" ELSE d.at
Leaf(d, rel)  == IF Place(d, rel) = "none" THEN 0 ELSE d.entry[Place(d, rel)]
KindOf(d, i)  == IF i = 0 THEN "none" ELSE d.file[i].kind

\* Where a managed path leads: to another directory if its leaf is a link.
Leading(d, p) == IF KindOf(d, Leaf(d, p)) = "link" THEN "sub" ELSE p

(* No world begins in the middle of a call, with lines of root's where the *)
(* agent has been, with the directory it will make, or with backups where  *)
(* the path does not lead.                                                 *)
Settled(d, p) ==
    /\ d \in Disks
    /\ \A i \in DOMAIN d.file : d.file[i].text.lines \notin {Roots, Half.lines}
    /\ \A x \in Dirs : d.entry[x] \in 0 .. Len(d.file) /\ d.temp[x] = 0 /\ Len(d.bak[x]) <= MaxBackups
    /\ d.at # "made" /\ d.entry["made"] = 0
    /\ \A x \in Dirs : d.bak[x] # <<>> => x = Place(d, Leading(d, p))
FileAssumption ==                                            \* assumed where it is instantiated
    /\ MaxBackups \in Nat \ {0}
    /\ \A w \in Worlds : /\ w.kind \in {"secure", "npm"} /\ w.path \in {"home", "sub"} /\ Settled(w.disk, w.path)
                         /\ {w.calls, w.moves, w.mishaps} \subseteq Nat

\* Resolution of the managed path: where it ends, and through which link.
Missing == [ok |-> FALSE, rel |-> "home", chain |-> 0]
resolveLeaf(d, gone) ==
    IF KindOf(d, Leaf(d, path)) # "link" THEN [ok |-> TRUE, rel |-> path, chain |-> 0]
    ELSE IF d.file[Leaf(d, path)].to = "nowhere" THEN Missing
    ELSE IF KindOf(d, Leaf(d, "sub")) = "link" \/ (Leaf(d, "sub") = 0 /\ ~gone) THEN Missing
    ELSE [ok |-> TRUE, rel |-> "sub", chain |-> Leaf(d, path)]

\* What a program of the user's finds at the managed path.
Target(d)  == IF resolveLeaf(d, FALSE).ok THEN Leaf(d, resolveLeaf(d, FALSE).rel) ELSE 0
Visible(d) == IF KindOf(d, Target(d)) = "file" THEN d.file[Target(d)].text ELSE Nothing

NoSnapshot == [rel |-> "none"]
Idle == [op |-> "none", pc |-> "idle", pass |-> 1, rel |-> "home", dir |-> "none", chain |-> 0, held |-> 0,
         old |-> Nothing, private |-> TRUE, seen |-> Nothing, want |-> Nothing, mode |-> TRUE, tmp |-> 0,
         known |-> 0, undo |-> FALSE, snap |-> NoSnapshot, how |-> "commit", created |-> FALSE]
NoRecord   == [leaf |-> "none", created |-> FALSE]

Init ==
    /\ \E w \in Worlds : kind = w.kind /\ path = w.path /\ disk = w.disk /\ rec = w.rec
                       /\ budget = [calls |-> w.calls, moves |-> w.moves, mishaps |-> w.mishaps, moved |-> 0, missed |-> 0]
    /\ run = Idle /\ pending = NoSnapshot /\ result = "none" /\ was = Nothing
    /\ disturbed = FALSE /\ swapped = FALSE /\ astray = FALSE /\ crashed = FALSE

\* The frame of a step of the agent that changes run, and maybe the disk.
At(pc) == run.pc = pc
Still  == UNCHANGED <<kind, path, pending, rec, result, was, budget, disturbed, swapped, astray, crashed>>
Quiet  == Still /\ UNCHANGED disk
Fault  == budget.mishaps > 0 /\ budget' = [budget EXCEPT !.mishaps = @ - 1, !.missed = @ + 1]
Goto(pc) == run' = [run EXCEPT !.pc = pc]

\* A failure, of the operation or, after ErrWriteUnverified, of its undoing.
End(how) ==
    /\ run' = Idle /\ result' = how
    /\ UNCHANGED <<kind, path, was, disturbed, swapped, astray, crashed>>
Failed == End(CASE run.op = "restore" -> "unrestored" [] run.undo -> "unverified" [] OTHER -> "failed") /\ UNCHANGED <<pending, rec>>
Refuse == Failed /\ UNCHANGED <<disk, budget>>
Broken == Failed /\ Fault
-----------------------------------------------------------------------------
(* Calls.  A new write or clear is another cycle's, with a writer of its   *)
(* own; a restore follows the call whose snapshot it is.                   *)

Begin(op) ==
    /\ At("idle") /\ budget.calls > 0
    /\ budget' = [budget EXCEPT !.calls = @ - 1]
    /\ op = "restore" => pending.rel # "none"
    /\ run' = [Idle EXCEPT !.op = op,
                 !.pc = IF op \in {"write", "lock", "probe"} /\ kind = "secure" /\ path = "sub" THEN "ensure"
                        ELSE IF op = "restore" /\ kind = "npm" /\ pending.removed THEN "pin" ELSE "resolve",
                 !.rel = IF op = "restore" THEN pending.rel ELSE "home",
                 !.undo = (op = "restore"), !.snap = pending]
    /\ op \in {"lock", "probe"} => kind = "secure"
    /\ pending' = NoSnapshot
    /\ was' = (IF op = "restore" THEN pending.old ELSE Visible(disk)) /\ disturbed' = (disturbed /\ op = "restore") /\ result' = "none"
    /\ UNCHANGED <<kind, path, disk, rec, swapped, astray, crashed>>

(* EnsureParent: the directory of the managed path, made if there is none. *)
\* A directory that another process put there is not the one made.
ensureExisting ==
    /\ At("ensure") /\ disk.at # "none"
    /\ IF disk.owner[disk.at] = "user" THEN Goto("resolve") /\ Quiet ELSE Refuse
Mkdir ==
    /\ At("ensure") /\ disk.at = "none"
    /\ \/ disk' = [disk EXCEPT !.at = "made", !.owner["made"] = "agent"] /\ Goto("made") /\ Still
       \/ Broken /\ UNCHANGED disk
CheckMade ==
    /\ At("made")
    /\ IF disk.at = "made" THEN Goto("adopt") /\ Quiet ELSE Refuse
removeCreatedParent(d) ==
    IF d.at = "made" /\ d.entry["made"] = 0 THEN [d EXCEPT !.at = "none"] ELSE d
Adopt ==
    /\ At("adopt")
    /\ IF disk.at # "made" THEN Refuse
       ELSE \/ disk' = [disk EXCEPT !.owner["made"] = "user"] /\ Goto("resolve") /\ Still
            \/ disk' = removeCreatedParent(disk) /\ Broken
-----------------------------------------------------------------------------
(* Resolving, pinning and reading.                                         *)

\* A clear, and a write of a File, keep to the leaf on record.
RequireResolvedPath(rel) ==
    rec.leaf # "none" /\ (run.op = "clear" \/ (run.op = "write" /\ kind = "secure")) /\ run.how # "remove" => rel = rec.leaf
SameChain(to) == run.op = "restore" => to.rel = run.snap.rel /\ (run.snap.removed => to.chain = run.snap.chain)
Resolve ==
    /\ At("resolve")
    /\ \E to \in {resolveLeaf(disk, run.op = "restore" /\ run.snap.removed)} :
        IF to.ok /\ RequireResolvedPath(to.rel) /\ SameChain(to)
        THEN run' = [run EXCEPT !.rel = to.rel, !.chain = to.chain, !.pc = "pin"] /\ Quiet
        ELSE Refuse

AfterPin == CASE run.op = "restore" -> "check" [] run.op = "lock" -> "lock" [] run.op = "probe" -> "probe" [] OTHER -> "lstat"
Pin ==
    /\ At("pin")
    /\ \E p \in {Place(disk, run.rel)} :
        IF p = "none" /\ run.op = "clear" /\ kind = "secure" /\ run.pass = 1
        THEN End("same") /\ UNCHANGED <<disk, pending, rec, budget>>
        ELSE IF p = "none" THEN Refuse
        ELSE IF kind = "secure" /\ disk.owner[p] # "user" THEN Refuse
        ELSE run' = [run EXCEPT !.dir = p, !.pc = AfterPin] /\ Quiet

\* The first look at the leaf, the open that follows a link swapped in since,
\* and the second look that must find what was opened.
Lstat ==
    /\ At("lstat")
    /\ \E e \in {disk.entry[run.dir]} :
        IF e = 0 THEN run' = [run EXCEPT !.old = Nothing, !.known = 0, !.pc = "read"] /\ swapped' = FALSE
                      /\ UNCHANGED <<kind, path, disk, pending, rec, result, was, budget, disturbed, astray, crashed>>
        ELSE IF disk.file[e].kind = "file" THEN Goto("open") /\ Quiet
        ELSE Refuse
Opened(e) == IF KindOf(disk, e) = "link" /\ disk.file[e].to = "sub" /\ run.dir = "home" THEN Leaf(disk, "sub") ELSE e
Open ==
    /\ At("open")
    /\ \E i \in {Opened(disk.entry[run.dir])} :
        IF KindOf(disk, i) \in {"file", "fifo"} THEN run' = [run EXCEPT !.held = i, !.pc = "verify"] /\ Quiet
        ELSE Refuse
IsOurs(i) == KindOf(disk, i) = "file" /\ disk.file[i].owner = "user"
Verify ==
    /\ At("verify")
    /\ IF disk.entry[run.dir] = run.held /\ IsOurs(run.held)
       THEN /\ run' = [run EXCEPT !.old = disk.file[run.held].text, !.private = disk.file[run.held].private,
                                  !.known = run.held, !.pc = "read"]
            /\ swapped' = FALSE
            /\ UNCHANGED <<kind, path, disk, pending, rec, result, was, budget, disturbed, astray, crashed>>
       ELSE Refuse

(* What the caller makes of what was read.  A File is read by the caller   *)
(* first and by Commit or Remove again; npm's writer reads once.           *)
Existed == run.old # Nothing
With(t)    == Text(IF t = Nothing THEN 0 ELSE t.lines, IF t.block = 1 THEN 2 ELSE 1)
Without(t) == Text(t.lines, 0)
Source     == IF kind = "secure" THEN run.seen ELSE run.old

Reread ==
    /\ At("read") /\ kind = "secure" /\ run.pass = 1
    /\ run.op = "write" \/ run.old.block # 0
    /\ run' = [run EXCEPT !.seen = run.old, !.pass = 2, !.pc = "resolve",
                 !.how = IF run.op = "clear" /\ rec.created /\ run.old.lines = 0 THEN "remove" ELSE "commit"]
    /\ Quiet
NothingToClear ==
    /\ At("read") /\ run.op = "clear" /\ run.old.block = 0 /\ run.pass = 1
    /\ run' = [run EXCEPT !.pc = "purge", !.how = "same"] /\ Quiet
Decide ==
    /\ At("read") /\ (kind = "npm" \/ run.pass = 2)
    /\ run.op = "write" \/ kind = "secure" \/ run.old.block # 0
    /\ \E removes \in {run.how = "remove" \/ (kind = "npm" /\ run.op = "clear" /\ rec.created /\ run.old.lines = 0)} :
        run' = [run EXCEPT !.how = IF removes THEN "remove" ELSE "commit",
                  !.want = IF run.op = "write" THEN With(Source) ELSE Without(Source),
                  !.pc = CASE removes /\ kind = "npm" -> "remove"
                           [] removes /\ ~Existed -> "keep"
                           [] ~removes /\ ~Existed -> "temp"
                           [] OTHER -> "backup"]
    /\ Quiet
-----------------------------------------------------------------------------
(* Replacing.                                                              *)

Made(t, private) == File(t, "user", private, "agent")
Add(d, f) == [d EXCEPT !.file = Append(@, f)]

rotateBackups(baks) == IF Len(baks) > MaxBackups THEN Tail(baks) ELSE baks
\* A backup that cannot be made stops nothing.
Backup ==
    /\ At("backup")
    /\ Goto(IF run.how = "remove" THEN "remove" ELSE "temp")
    /\ \/ /\ disk' = [Add(disk, Made(run.old, TRUE)) EXCEPT !.bak[run.dir] = rotateBackups(Append(@, Len(disk.file) + 1))]
          /\ Still
       \/ Fault /\ UNCHANGED <<disk, kind, path, pending, rec, result, was, disturbed, swapped, astray, crashed>>

createExclusive ==
    /\ At("temp")
    /\ \/ /\ disk' = [Add(disk, File(Half, "agent", TRUE, "agent")) EXCEPT !.temp[run.dir] = Len(disk.file) + 1]
          /\ run' = [run EXCEPT !.tmp = Len(disk.file) + 1, !.pc = "fill"] /\ Still
       \/ Broken /\ UNCHANGED disk
Cleaned == [disk EXCEPT !.temp[run.dir] = 0]
Mode == ~run.undo \/ run.private
Fill ==
    /\ At("fill")
    /\ \/ disk' = [disk EXCEPT !.file[run.tmp] = Made(run.want, Mode)] /\ Goto("rename") /\ Still
       \/ disk' = Cleaned /\ Broken

Displaces == disk.entry[run.dir] # run.known /\ ~swapped
Rename ==
    /\ At("rename")
    /\ \/ /\ disk' = [Cleaned EXCEPT !.entry[run.dir] = run.tmp]
          /\ run' = [run EXCEPT !.known = run.tmp, !.pc = "recheck"]
          /\ astray' = (astray \/ Displaces) /\ swapped' = FALSE
          /\ UNCHANGED <<kind, path, pending, rec, result, was, budget, disturbed, crashed>>
       \/ disk' = Cleaned /\ Broken

\* npm's commit also looks at the metadata it has just set, for 0600 always.
metadataSecure(i) == kind = "npm" => IsOurs(i) /\ disk.file[i].private
Committed == disk.entry[run.dir] = run.tmp /\ metadataSecure(run.tmp)
Rollback ==
    /\ run' = [run EXCEPT !.undo = TRUE, !.want = run.old, !.pc = IF Existed THEN "temp" ELSE "unmake"]
    /\ UNCHANGED <<kind, path, disk, pending, rec, result, was, disturbed, swapped, astray, crashed>>
UndoFails == End("unverified") /\ UNCHANGED <<disk, pending, rec>>
Undone == End(IF run.op = "restore" THEN "restored" ELSE "failed") /\ UNCHANGED <<disk, pending, rec, budget>>
afterFailedRollback == IF run.undo THEN UndoFails ELSE Rollback
Recheck ==
    /\ At("recheck")
    /\ IF ~Committed THEN afterFailedRollback /\ UNCHANGED budget
       ELSE IF kind = "npm" /\ run.undo THEN Undone
       ELSE Goto(IF kind = "npm" /\ run.op = "clear" THEN "keep" ELSE "readback") /\ Quiet

Readback ==
    /\ At("readback")
    /\ \E e \in {disk.entry[run.dir]} :
        IF (IsOurs(e) /\ (kind = "secure" => disk.file[e].text = run.want)) \/ (kind = "npm" /\ e = 0)
        THEN \/ Goto(IF kind = "secure" THEN "metadata" ELSE "keep") /\ Quiet
             \/ afterFailedRollback /\ Fault
        ELSE afterFailedRollback /\ UNCHANGED budget
\* MetadataSecure resolves the path again from the home.
MetadataSecure ==
    /\ At("metadata")
    /\ \E to \in {resolveLeaf(disk, FALSE)} : \E e \in {Leaf(disk, to.rel)} :
        IF to.ok /\ IsOurs(e) /\ disk.file[e].private = Mode
        THEN IF run.undo THEN Undone ELSE Goto("keep") /\ Quiet
        ELSE afterFailedRollback /\ UNCHANGED budget

Snapshot(removed, committed) ==
    [rel |-> run.rel, old |-> run.old, private |-> run.private, removed |-> removed, committed |-> committed,
     chain |-> run.chain]
\* The snapshot is kept and the ownership recorded: a file is ours to delete
\* if our first write made it.
Keep ==
    /\ At("keep") /\ pending' = Snapshot(FALSE, run.tmp)
    /\ UNCHANGED <<kind, path, disk, was, budget, disturbed, swapped, astray, crashed>>
    /\ IF run.op = "write"
       THEN /\ run' = Idle /\ result' = "written"
            /\ rec' = IF rec = NoRecord THEN [leaf |-> run.rel, created |-> ~Existed]
                      ELSE [rec EXCEPT !.leaf = IF kind = "npm" THEN run.rel ELSE @]
       ELSE Goto("purge") /\ UNCHANGED <<result, rec>>

Remove ==
    /\ At("remove")
    /\ \E e \in {disk.entry[run.dir]} :
        IF e = 0 \/ (kind = "npm" /\ ~(run.private /\ metadataSecure(e))) THEN Refuse
        ELSE \/ /\ disk' = [disk EXCEPT !.entry[run.dir] = 0]
                /\ pending' = Snapshot(TRUE, e)
                /\ astray' = (astray \/ Displaces) /\ Goto("purge")
                /\ UNCHANGED <<kind, path, rec, result, was, budget, disturbed, swapped, crashed>>
             \/ Broken /\ UNCHANGED disk

Cleared == IF run.how = "same" THEN "same" ELSE "cleared"
\* npm's writer makes nothing of backups it cannot remove.
purgeBackups ==
    /\ At("purge") /\ kind = "npm"
    /\ rec' = NoRecord /\ End(Cleared) /\ UNCHANGED pending
    /\ \/ disk' = [disk EXCEPT !.bak[run.dir] = <<>>] /\ UNCHANGED budget
       \/ Fault /\ UNCHANGED disk
\* A File's are looked for where the path leads now; if they cannot be removed
\* the clear is undone.
PurgeBackups ==
    /\ At("purge") /\ kind = "secure"
    /\ \E p \in {Place(disk, run.rel)} : \E sound \in {p # "none" /\ disk.owner[p] = "user"} :
        \/ /\ sound /\ disk' = [disk EXCEPT !.bak[p] = <<>>]
           /\ rec' = NoRecord /\ End(Cleared) /\ UNCHANGED <<pending, budget>>
        \/ /\ ~sound \/ budget.mishaps > 0
           /\ budget' = [budget EXCEPT !.mishaps = IF @ > 0 THEN @ - 1 ELSE 0, !.missed = @ + 1]
           /\ IF run.how = "same" THEN End("failed") /\ UNCHANGED <<disk, pending, rec>>
              ELSE /\ run' = [Idle EXCEPT !.op = "restore", !.pc = "resolve", !.undo = TRUE, !.snap = pending]
                   /\ pending' = NoSnapshot
                   /\ UNCHANGED <<kind, path, disk, rec, result, was, disturbed, swapped, astray, crashed>>
-----------------------------------------------------------------------------
(* RestoreSnapshot, and the undoing it shares with a failed commit.        *)

verifyAnything(e) == TRUE                                   \* mutant
verifyCommitted(e) ==
    IF run.snap.removed THEN e = 0
    ELSE run.snap.committed # 0 => e = run.snap.committed \/ (e = 0 /\ run.snap.old = Nothing)
Check ==
    /\ At("check")
    /\ \E e \in {disk.entry[run.dir]} :
        IF verifyCommitted(e)
        THEN /\ run' = [run EXCEPT !.old = run.snap.old, !.private = run.snap.private, !.want = run.snap.old,
                          !.known = IF run.snap.removed THEN 0 ELSE run.snap.committed, !.pc = IF run.snap.old = Nothing THEN "unmake" ELSE "temp"]
             /\ swapped' = FALSE
             /\ UNCHANGED <<kind, path, disk, pending, rec, result, was, budget, disturbed, astray, crashed>>
        ELSE Refuse
\* The snapshot of a Remove that found nothing names no file to check for: what
\* is at the path by then is deleted (file.go:807-810, 883-889).
FoundGone == run.op = "restore" /\ run.snap.committed = 0
Unmake ==
    /\ At("unmake")
    /\ \/ /\ disk' = [disk EXCEPT !.entry[run.dir] = 0]
          /\ astray' = (astray \/ (disk.entry[run.dir] # 0 /\ ~FoundGone /\ Displaces))
          /\ run' = Idle /\ result' = IF run.op = "restore" THEN "restored" ELSE "failed"
          /\ UNCHANGED <<kind, path, pending, rec, was, budget, disturbed, swapped, crashed>>
       \/ UndoFails /\ Fault
-----------------------------------------------------------------------------
(* OpenLock and ProbeWritable.                                             *)

OpenLock ==
    /\ At("lock")
    /\ \E e \in {disk.entry[run.dir]} :
        IF e = 0
        THEN /\ disk' = [Add(disk, File(Text(0, 0), "agent", TRUE, "agent")) EXCEPT !.entry[run.dir] = Len(disk.file) + 1]
             /\ run' = [run EXCEPT !.held = Len(disk.file) + 1, !.created = TRUE, !.pc = "lockCheck"] /\ Still
        ELSE IF disk.file[e].kind = "file" THEN run' = [run EXCEPT !.held = e, !.pc = "lockCheck"] /\ Quiet
        ELSE Refuse
LockCheck ==
    /\ At("lockCheck")
    /\ IF disk.entry[run.dir] = run.held /\ (run.created \/ IsOurs(run.held)) THEN Goto("lockMetadata") /\ Quiet
       ELSE Refuse
LockMetadata ==
    /\ At("lockMetadata")
    /\ \/ disk' = [disk EXCEPT !.file[run.held] = [@ EXCEPT !.owner = "user", !.private = TRUE]]
          /\ End("locked") /\ UNCHANGED <<pending, rec, budget>>
       \/ /\ disk' = IF run.created /\ disk.entry[run.dir] = run.held THEN [disk EXCEPT !.entry[run.dir] = 0] ELSE disk
          /\ Broken

Probe ==
    /\ At("probe")
    /\ \/ /\ disk' = [Add(disk, File(Text(0, 0), "agent", TRUE, "agent")) EXCEPT !.temp[run.dir] = Len(disk.file) + 1]
          /\ Goto("unprobe") /\ Still
       \/ Broken /\ UNCHANGED disk
Unprobe ==
    /\ At("unprobe") /\ disk' = Cleaned
    /\ \/ End("probed") /\ UNCHANGED <<pending, rec, budget>>
       \/ Broken
-----------------------------------------------------------------------------
(* The user, and the end of the process.                                   *)

Version == 2 + budget.moved
Moved(d, entries) ==
    /\ budget.moves > 0 /\ budget' = [budget EXCEPT !.moves = @ - 1, !.moved = @ + 1]
    /\ disk' = d /\ disturbed' = TRUE /\ swapped' = (swapped \/ entries)
    /\ UNCHANGED <<kind, path, run, pending, rec, result, was, astray, crashed>>

\* In place, or by an editor that renames a new file over the old.
Edit ==
    /\ KindOf(disk, Target(disk)) = "file" /\ disk.file[Target(disk)].owner = "user"
    /\ Moved([disk EXCEPT !.file[Target(disk)].text.lines = Version], FALSE)
Save ==
    /\ Place(disk, path) # "none" /\ KindOf(disk, Leaf(disk, path)) # "link" /\ disk.owner[Place(disk, path)] = "user"
    /\ Moved([Add(disk, File(Text(Version, IF Visible(disk).block > 0 THEN Visible(disk).block ELSE 0), "user", TRUE, "user"))
                 EXCEPT !.entry[Place(disk, path)] = Len(disk.file) + 1], TRUE)
Delete ==
    /\ Leaf(disk, path) # 0
    /\ Moved([disk EXCEPT !.entry[Place(disk, path)] = 0], TRUE)
Chmod ==
    /\ Target(disk) # 0 /\ disk.file[Target(disk)].private
    /\ Moved([disk EXCEPT !.file[Target(disk)].private = FALSE], FALSE)
Relink ==
    /\ path = "home"
    /\ \E to \in {"sub", "nowhere"} :
        Moved([Add(disk, Link(to)) EXCEPT !.entry["home"] = Len(disk.file) + 1], TRUE)
SwapDirectory == disk.at = "sub" /\ Moved([disk EXCEPT !.at = "other"], TRUE)
\* A tool run as root leaves a file of root's.
RootWrites ==
    /\ Place(disk, path) # "none"
    /\ Moved([Add(disk, File(Text(Roots, 0), "root", FALSE, "root")) EXCEPT !.entry[Place(disk, path)] = Len(disk.file) + 1], TRUE)

Crash ==
    /\ ~At("idle") /\ Fault /\ crashed' = TRUE
    /\ run' = Idle /\ pending' = NoSnapshot /\ result' = "none"
    /\ UNCHANGED <<kind, path, disk, rec, was, disturbed, swapped, astray>>

Next ==
    \/ \E op \in {"write", "clear", "restore", "lock", "probe"} : Begin(op)
    \/ ensureExisting \/ Mkdir \/ CheckMade \/ Adopt
    \/ Resolve \/ Pin \/ Lstat \/ Open \/ Verify \/ Reread \/ NothingToClear \/ Decide
    \/ Backup \/ createExclusive \/ Fill \/ Rename \/ Recheck \/ Readback \/ MetadataSecure \/ Keep \/ Remove
    \/ purgeBackups \/ PurgeBackups
    \/ Check \/ Unmake \/ OpenLock \/ LockCheck \/ LockMetadata \/ Probe \/ Unprobe
    \/ Edit \/ Save \/ Delete \/ Chmod \/ Relink \/ SwapDirectory \/ RootWrites
    \/ Crash

Spec == Init /\ [][Next]_vars
-----------------------------------------------------------------------------
(* Properties.                                                             *)

\* Nothing of root's is copied into a file the agent makes, whatever is linked
\* or swapped in while it reads (npmrc.go:453-469, 525-533).
RootsStayPut == \A i \in DOMAIN disk.file : disk.file[i].by = "agent" => disk.file[i].text.lines # Roots

\* No program of the user's ever finds a half written file, whenever the agent
\* is killed.
LeafIsWhole == \A d \in DOMAIN disk.entry : disk.entry[d] # 0 => disk.file[disk.entry[d]].text # Half

\* What a call says of itself is so, if nobody else moved meanwhile: a failed
\* one left the file as it was, and only one that says so left it in doubt.
OutcomeHolds ==
    At("idle") /\ ~disturbed =>
        /\ result = "written" => /\ Visible(disk).lines = (IF was = Nothing THEN 0 ELSE was.lines)
                                 /\ Visible(disk).block > 0 /\ Visible(disk).block # was.block
                                 /\ disk.file[Target(disk)].private /\ disk.file[Target(disk)].owner = "user"
        /\ result = "cleared" => (Visible(disk) = Nothing /\ was.lines = 0) \/ Visible(disk) = Without(was)
        /\ result \in {"failed", "same", "probed", "restored"} => Visible(disk) = was
        /\ result \in {"unverified", "unrestored"} => budget.missed > 0 \/ kind = "npm"

\* Unless the process was killed, nothing is left lying about but at most
\* MaxBackups backups; and once a clear has gone through, no copy of the block
\* it revokes is left beside the file, not even in those.
LittleLeft == At("idle") /\ ~crashed => \A d \in Dirs : disk.temp[d] = 0 /\ Len(disk.bak[d]) <= MaxBackups
NothingLeftAbout ==
    /\ LittleLeft
    /\ At("idle") /\ ~crashed =>
        /\ result = "cleared" /\ budget.moved = 0 /\ budget.missed = 0 => \A d \in DOMAIN disk.bak : disk.bak[d] = <<>>
        /\ budget.moved = 0 /\ disk.at = "made" => disk.owner["made"] = "user"

\* A file is only displaced if it is the one the agent has just looked at, or
\* was swapped in after that look: RestoreSnapshot leaves a file alone that
\* another saved since the call it undoes (npmrc.go:761-766), unless that
\* call was a removal that found nothing.
NeverAstray == ~astray

FilesAreSafe == RootsStayPut /\ LeafIsWhole /\ OutcomeHolds /\ NothingLeftAbout /\ NeverAstray
=============================================================================
