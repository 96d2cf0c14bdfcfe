-------------------------- MODULE StateStoreProofs --------------------------
(***************************************************************************)
(* Theorems about the two ways the agent replaces a file: one of its own,  *)
(* under a lock (StateStore), for every set of agents, entries and hashes, *)
(* where the file system has one; and one of a user's, who moves meanwhile *)
(* (FileReplace), for every disk, path, record and number of moves.        *)
(***************************************************************************)
EXTENDS StateStore, Integers, Sequences, TLAPS

CONSTANTS Worlds, MaxBackups
VARIABLES kind, path, disk, run, pending, rec, result, was, budget, disturbed, swapped, astray, crashed
F == INSTANCE FileReplace

USE StoreAssumption

-----------------------------------------------------------------------------
(* What a rewrite writes is a file.                                        *)
LEMMA FilesHaveEntries ==
    ASSUME NEW f \in Files
    PROVE  /\ f.entries \in [Entries -> Hashes \union {None}]
           /\ f.status \in {"readable", "unreadable", "future", "absent", "corrupt"}
           /\ f.status \in {"readable", "unreadable", "future"} => f.entries # Nothing
BY DEF Files, Nothing

LEMMA AbsentIsFile == Absent \in Files
BY DEF Absent, Files

LEMMA StatusMayChange ==
    ASSUME NEW f \in Files, f.status \in {"readable", "unreadable", "future"},
           NEW s \in {"readable", "unreadable", "future"}
    PROVE  [f EXCEPT !.status = s] \in Files
BY DEF Files

LEMMA EditIsFile ==
    ASSUME NEW f \in Files, NEW o \in Ops,
           [f.entries EXCEPT ![o.entry] = o.hash] # Nothing
    PROVE  [status |-> "readable", entries |-> [f.entries EXCEPT ![o.entry] = o.hash]] \in Files
<1>1. o.hash \in Hashes \union {None}
  BY DEF Ops
<1>2. [f.entries EXCEPT ![o.entry] = o.hash] \in [Entries -> Hashes \union {None}]
  BY <1>1, FilesHaveEntries
<1>. QED
  BY <1>2 DEF Files

-----------------------------------------------------------------------------
(* Every variable keeps its type.  A call under way is one of Ops.         *)
CallsAreOps == \A a \in Agents : pc[a] # "idle" => op[a] \in Ops
Typed == TypeOK /\ CallsAreOps

LEMMA ReturnTyped ==
    ASSUME Typed, NEW a \in Agents, NEW r \in {"none", "ok", "error"},
           Return(a, r), file' \in Files
    PROVE  Typed'
<1>1. /\ holder' \in Agents \union {None}
      /\ pc' \in [Agents -> {"idle", "waiting", "reading", "replacing"}]
      /\ op' \in [Agents -> Ops \union {Idle}]
  BY DEF Typed, TypeOK, Return
<1>2. seen' \in [Agents -> Files] /\ answer' \in [Agents -> {"none", "ok", "error"}]
  BY AbsentIsFile DEF Typed, TypeOK, Return
<1>3. CallsAreOps'
  BY DEF Typed, TypeOK, CallsAreOps, Return
<1>. QED
  BY <1>1, <1>2, <1>3 DEF Typed, TypeOK

LEMMA TypedStep == Typed /\ [Next]_vars => Typed'
<1>. SUFFICES ASSUME Typed, [Next]_vars PROVE Typed'
  OBVIOUS
<1>1. ASSUME NEW a \in Agents, NEW o \in Ops, Call(a, o) PROVE Typed'
  BY <1>1 DEF Typed, TypeOK, CallsAreOps, Call
<1>2. ASSUME NEW a \in Agents, Acquire(a) PROVE Typed'
  BY <1>2 DEF Typed, TypeOK, CallsAreOps, Acquire
<1>3. ASSUME NEW a \in Agents, ReadFile(a) PROVE Typed'
  BY <1>3 DEF Typed, TypeOK, CallsAreOps, ReadFile
<1>4. ASSUME NEW a \in Agents, GiveUp(a) \/ Refuse(a) \/ ReplaceFails(a) \/ Crash(a) PROVE Typed'
  <2>1. file' \in Files /\ \E r \in {"none", "ok", "error"} : Return(a, r)
    BY <1>4 DEF Typed, TypeOK, GiveUp, Refuse, ReplaceFails, Crash
  <2>. QED
    BY <2>1, ReturnTyped
<1>5. ASSUME NEW a \in Agents, Replace(a) PROVE Typed'
  <2>1. op[a] \in Ops /\ seen[a] \in Files /\ file \in Files
    BY <1>5 DEF Typed, TypeOK, CallsAreOps, Replace
  <2>2. file' \in Files
    BY <1>5, <2>1, EditIsFile, AbsentIsFile DEF Replace
  <2>. QED
    BY <1>5, <2>2, ReturnTyped DEF Replace
<1>6. ASSUME Damage \/ Chmod \/ NewerAgent PROVE Typed'
  <2>1. file' \in Files
    <3>1. CASE Damage
      BY <3>1 DEF Damage, Absent, Files
    <3>2. CASE Chmod
      BY <3>2, StatusMayChange DEF Chmod, Typed, TypeOK
    <3>3. CASE NewerAgent
      BY <3>3, StatusMayChange DEF NewerAgent, Typed, TypeOK
    <3>. QED
      BY <1>6, <3>1, <3>2, <3>3
  <2>. QED
    BY <1>6, <2>1 DEF Typed, TypeOK, CallsAreOps, Damage, Chmod, NewerAgent
<1>7. CASE UNCHANGED vars
  BY <1>7 DEF vars, Typed, TypeOK, CallsAreOps
<1>. QED
  BY <1>1, <1>2, <1>3, <1>4, <1>5, <1>6, <1>7 DEF Next, Step

LEMMA TypedInit == Init => Typed
BY AbsentIsFile DEF Init, Typed, TypeOK, CallsAreOps

LEMMA AlwaysTyped == Spec => []Typed
BY TypedInit, TypedStep, PTL DEF Spec

(* The file, the lock and every call keep their types: in particular no    *)
(* rewrite leaves an empty record behind where the file should be gone     *)
(* (persistStateFile, removeStateFile).                                    *)
THEOREM TypeCorrect == Spec => []TypeOK
<1>1. Typed => TypeOK
  BY DEF Typed
<1>. QED
  BY <1>1, AlwaysTyped, PTL

-----------------------------------------------------------------------------
(* An agent that has read the file holds the lock, and the file it will    *)
(* replace still holds the entries it read: it was neither edited, damaged *)
(* nor upgraded since; only its permissions may have changed.              *)
Unchanged(a) ==
    /\ seen[a].entries = file.entries
    /\ seen[a].status \in {"readable", "absent", "corrupt"}
    /\ seen[a].status = "readable" => file.status \in {"readable", "unreadable"}
    /\ seen[a].status # "readable" => file.status = seen[a].status

LockInv ==
    /\ \A a \in Agents : pc[a] \in {"reading", "replacing"} => holder = a
    /\ \A a \in Agents : pc[a] = "replacing" => Unchanged(a)

LEMMA LockInit == Init => LockInv
BY DEF Init, LockInv

(* Whoever returns was alone with the file, so its edit touches nobody.    *)
LEMMA LockReturn ==
    ASSUME Typed, LockInv, NEW a \in Agents, NEW r, Return(a, r),
           file' = file \/ pc[a] = "replacing"
    PROVE  LockInv'
<1>1. \A b \in Agents : pc'[b] \in {"reading", "replacing"} =>
          b # a /\ pc[b] = pc'[b] /\ seen'[b] = seen[b] /\ holder = b
  BY DEF Typed, TypeOK, Return, LockInv
<1>2. \A b \in Agents : pc'[b] \in {"reading", "replacing"} => holder' = b /\ file' = file
  BY <1>1 DEF Return, LockInv
<1>. QED
  BY <1>1, <1>2 DEF LockInv, Unchanged

LEMMA LockStep == Locking /\ Typed /\ LockInv /\ [Next]_vars => LockInv'
<1>. SUFFICES ASSUME Locking, Typed, LockInv, [Next]_vars PROVE LockInv'
  OBVIOUS
<1>1. ASSUME NEW a \in Agents, NEW o \in Ops, Call(a, o) PROVE LockInv'
  BY <1>1 DEF Typed, TypeOK, LockInv, Unchanged, Call
<1>2. ASSUME NEW a \in Agents, Acquire(a) PROVE LockInv'
  BY <1>2 DEF Typed, TypeOK, LockInv, Unchanged, Acquire
<1>3. ASSUME NEW a \in Agents, ReadFile(a) PROVE LockInv'
  <2>1. \A b \in Agents : pc'[b] = "replacing" => Unchanged(b)'
    <3>. SUFFICES ASSUME NEW b \in Agents, pc'[b] = "replacing" PROVE Unchanged(b)'
      OBVIOUS
    <3>1. CASE b = a
      BY <1>3, <3>1, FilesHaveEntries DEF Typed, TypeOK, Unchanged, ReadFile
    <3>2. CASE b # a
      BY <1>3, <3>2 DEF Typed, TypeOK, LockInv, Unchanged, ReadFile
    <3>. QED
      BY <3>1, <3>2
  <2>. QED
    BY <1>3, <2>1 DEF Typed, TypeOK, LockInv, ReadFile
<1>4. ASSUME NEW a \in Agents, GiveUp(a) \/ Refuse(a) \/ ReplaceFails(a) \/ Crash(a)
      PROVE LockInv'
  <2>1. file' = file /\ \E r : Return(a, r)
    BY <1>4 DEF GiveUp, Refuse, ReplaceFails, Crash
  <2>. QED
    BY <2>1, LockReturn
<1>5. ASSUME NEW a \in Agents, Replace(a) PROVE LockInv'
  BY <1>5, LockReturn DEF Replace
<1>6. CASE Damage
  BY <1>6 DEF LockInv, Damage
<1>7. CASE NewerAgent
  BY <1>7 DEF LockInv, NewerAgent, Typed, TypeOK
<1>8. CASE Chmod
  BY <1>8 DEF LockInv, Unchanged, Chmod, Typed, TypeOK, Files
<1>9. CASE UNCHANGED vars
  BY <1>9 DEF vars, LockInv, Unchanged
<1>. QED
  BY <1>1, <1>2, <1>3, <1>4, <1>5, <1>6, <1>7, <1>8, <1>9 DEF Next, Step

LEMMA AlwaysLocked == ASSUME Locking PROVE Spec => [](Typed /\ LockInv)
<1>1. Init => Typed /\ LockInv
  BY TypedInit, LockInit
<1>2. Typed /\ LockInv /\ [Next]_vars => (Typed /\ LockInv)'
  BY TypedStep, LockStep
<1>. QED
  BY <1>1, <1>2, PTL DEF Spec

-----------------------------------------------------------------------------
(* The only steps that change an entry are rewrites and damage.            *)
LEMMA WhoChangesEntries ==
    ASSUME Typed, Next, file'.entries # file.entries
    PROVE  Damage \/ \E a \in Agents : Replace(a)
<1>1. ASSUME Chmod \/ NewerAgent PROVE file'.entries = file.entries
  BY <1>1 DEF Typed, TypeOK, Files, Chmod, NewerAgent
<1>2. ASSUME NEW a \in Agents, Step(a) \/ Crash(a) \/ \E o \in Ops : Call(a, o)
      PROVE  file' = file \/ Replace(a)
  BY <1>2 DEF Step, Crash, Call, Acquire, GiveUp, ReadFile, Refuse, ReplaceFails
<1>. QED
  BY <1>1, <1>2 DEF Next

(* A rewrite is one change of the agent's own entry.                       *)
LEMMA ReplaceIsAtomic ==
    ASSUME Typed, LockInv, NEW a \in Agents, Replace(a)
    PROVE  file'.entries = [file.entries EXCEPT ![op[a].entry] = op[a].hash]
<1>1. op[a] \in Ops /\ seen[a].entries = file.entries
  BY DEF Typed, CallsAreOps, LockInv, Unchanged, Replace
<1>2. file.entries \in [Entries -> Hashes \union {None}]
  BY FilesHaveEntries DEF Typed, TypeOK
<1>3. CASE op[a].kind = "clear" /\ seen[a].status = "readable"
             /\ seen[a].entries[op[a].entry] = None
  <2>1. file' = file /\ op[a].hash = None
    BY <1>1, <1>3 DEF Replace, Ops
  <2>. QED
    BY <1>1, <1>2, <1>3, <2>1
<1>4. CASE ~(op[a].kind = "clear" /\ seen[a].status = "readable"
               /\ seen[a].entries[op[a].entry] = None)
  BY <1>1, <1>4 DEF Replace, Absent
<1>. QED
  BY <1>3, <1>4

(* However many agents rewrite the file, and wherever they are killed,     *)
(* each rewrite is one atomic change of its own entry: no agent can drop   *)
(* or revive what another recorded, as long as the file system has locks   *)
(* (withStateLock around WriteAppliedState and ClearAppliedState).         *)
THEOREM RewritesAreAtomic == ASSUME Locking PROVE Spec => ImplementsStore
<1>1. Init => Store!Init
  BY AbsentIsFile, FilesHaveEntries DEF Init, Store!Init
<1>2. Typed /\ LockInv /\ [Next]_vars => [Damage \/ Store!Next]_<<file.entries>>
  <2>. SUFFICES ASSUME Typed, LockInv, Next, file'.entries # file.entries, ~Damage
                PROVE  Store!Next
    BY DEF vars
  <2>1. PICK a \in Agents : Replace(a)
    BY WhoChangesEntries
  <2>2. op[a] \in Ops
    BY <2>1 DEF Typed, CallsAreOps, Replace
  <2>3. CASE op[a].kind = "write"
    BY <2>1, <2>2, <2>3, ReplaceIsAtomic DEF Store!Next, Store!Put, Ops
  <2>4. CASE op[a].kind = "clear"
    BY <2>1, <2>2, <2>4, ReplaceIsAtomic DEF Store!Next, Store!Drop, Ops
  <2>. QED
    BY <2>2, <2>3, <2>4 DEF Ops
<1>. QED
  BY <1>1, <1>2, AlwaysLocked, PTL DEF Spec, ImplementsStore

(* A call that reports success has recorded or dropped its entry, and left *)
(* no corrupt bytes behind (WriteAppliedState, ClearAppliedState).         *)
THEOREM SuccessHolds == ASSUME Locking PROVE Spec => SuccessIsDone
<1>1. Typed /\ LockInv /\ [Next]_vars =>
        \A a \in Agents : answer[a] = "none" /\ answer'[a] = "ok" =>
            /\ file'.entries[op[a].entry] = op[a].hash
            /\ file'.status # "corrupt"
  <2>. SUFFICES ASSUME Typed, LockInv, [Next]_vars,
                       NEW a \in Agents, answer[a] = "none", answer'[a] = "ok"
                PROVE  /\ file'.entries[op[a].entry] = op[a].hash
                       /\ file'.status # "corrupt"
    OBVIOUS
  <2>1. Replace(a)
    <3>1. ASSUME NEW b \in Agents, \E o \in Ops : Call(b, o) PROVE FALSE
      BY <3>1 DEF Typed, TypeOK, Call
    <3>2. ASSUME NEW b \in Agents, Step(b) \/ Crash(b), ~Replace(a) PROVE FALSE
      BY <3>2 DEF Typed, TypeOK, Step, Crash, Acquire, GiveUp, ReadFile, Refuse, Replace,
                  ReplaceFails, Return
    <3>3. ASSUME Damage \/ Chmod \/ NewerAgent \/ UNCHANGED vars PROVE FALSE
      BY <3>3 DEF Damage, Chmod, NewerAgent, vars
    <3>. QED
      BY <3>1, <3>2, <3>3 DEF Next
  <2>2. file.entries \in [Entries -> Hashes \union {None}] /\ op[a].entry \in Entries
    BY <2>1, FilesHaveEntries DEF Typed, TypeOK, CallsAreOps, Replace, Ops
  <2>3. file'.status # "corrupt"
    BY <2>1 DEF Replace, LockInv, Unchanged, Absent
  <2>. QED
    BY <2>1, <2>2, <2>3, ReplaceIsAtomic
<1>. QED
  BY <1>1, AlwaysLocked, PTL DEF Spec, SuccessIsDone

(* A file that a newer agent wrote is never replaced by an agent of this   *)
(* release, not even if it was upgraded while that one was waiting         *)
(* (readStateFile refuses it, under the lock).                             *)
THEOREM FutureFilesKept == ASSUME Locking PROVE Spec => FutureKept
<1>1. Typed /\ LockInv /\ [Next]_vars =>
        (file.status = "future" /\ file' # file => \A a \in Agents : pc'[a] = pc[a])
  <2>. SUFFICES ASSUME Typed, LockInv, Next, file.status = "future", file' # file
                PROVE  \A a \in Agents : pc'[a] = pc[a]
    BY DEF vars
  <2>1. ASSUME NEW b \in Agents, Replace(b) PROVE FALSE
    BY <2>1 DEF Replace, LockInv, Unchanged
  <2>2. ASSUME NEW b \in Agents, Step(b) \/ Crash(b) \/ \E o \in Ops : Call(b, o) PROVE FALSE
    BY <2>1, <2>2 DEF Step, Crash, Call, Acquire, GiveUp, ReadFile, Refuse, ReplaceFails
  <2>3. Damage \/ Chmod \/ NewerAgent
    BY <2>2 DEF Next
  <2>. QED
    BY <2>3 DEF Damage, Chmod, NewerAgent
<1>. QED
  BY <1>1, AlwaysLocked, PTL DEF Spec, FutureKept
-----------------------------------------------------------------------------
(* Both at once, as the runs check them: no rewrite destroys what a newer  *)
(* agent wrote, and none claims what it did not do.                        *)
THEOREM RewritesStayHonest == ASSUME Locking PROVE Spec => RewritesAreHonest
BY SuccessHolds, FutureFilesKept, PTL DEF RewritesAreHonest

-----------------------------------------------------------------------------
(* A user's file, replaced (FileReplace).  The parts of the invariant: of  *)
(* a disk, of a call, and of a snapshot.                                   *)

(* What is not for the user, root's lines and half a file, is in no inode  *)
(* of the user's, and half a file has no name but a temporary one.         *)
Clean   == {t \in F!Texts : t.lines \notin {F!Roots, F!Half.lines}}
Sane(f) == /\ f.kind = "file" /\ f.owner = "user" => f.text \in Clean
           /\ f.by = "agent" => f.text.lines # F!Roots
DiskOK(d) ==
    /\ d \in F!Disks
    /\ \A i \in 1 .. Len(d.file) : Sane(d.file[i])
    /\ \A x \in F!Dirs : d.entry[x] \in 0 .. Len(d.file)
    /\ \A x \in F!Dirs : d.entry[x] # 0 => d.file[d.entry[x]].text.lines # F!Half.lines
    /\ \A x \in F!Dirs : Len(d.bak[x]) <= MaxBackups

(* A snapshot that names no file to look for is of a call that found none. *)
Snaps     == [rel : {"home", "sub"}, old : Clean, private : BOOLEAN, removed : BOOLEAN, committed : Nat, chain : Nat]
SnapOK(s) == s = F!NoSnapshot \/ (s \in Snaps /\ (~s.removed /\ s.committed = 0 => s.old = F!Nothing))

(* Where in a call it is: before it has a directory, when it knows what is *)
(* at the leaf, and the rest.  Whatever it is about to write is clean.     *)
Loose  == {"idle", "ensure", "made", "adopt", "resolve", "pin"}
Making == {"fill", "rename", "recheck", "readback", "metadata"}
Looked == {"read", "backup", "temp", "fill", "rename", "recheck", "readback", "metadata", "remove"}
Later  == {"lstat", "open", "verify", "check", "unmake", "keep", "purge", "lock", "lockCheck", "lockMetadata", "probe",
           "unprobe"}
Pcs    == Loose \union Looked \union Later
Runs   == [op : {"none", "write", "clear", "restore", "lock", "probe"}, pc : Pcs, pass : {1, 2}, rel : {"home", "sub"},
           dir : F!Dirs \union {"none"}, chain : Nat, held : Nat, old : Clean, private : BOOLEAN, seen : Clean,
           want : Clean,
           mode : BOOLEAN, tmp : Nat, known : Nat, undo : BOOLEAN, snap : Snaps \union {F!NoSnapshot},
           how : {"commit", "remove", "same"}, created : BOOLEAN]
RunOK(r, f) ==
    /\ r \in Runs /\ SnapOK(r.snap)
    /\ r.pc \notin Loose => r.dir \in F!Dirs
    /\ r.held \in 0 .. Len(f) /\ r.tmp \in 0 .. Len(f)
    /\ r.pc \in Making => r.tmp # 0
    /\ r.pc = "rename" => f[r.tmp].text \in Clean
    /\ r.pc = "lockCheck" => r.held # 0 /\ (r.created => f[r.held].text \in Clean)
    /\ r.pc = "lockMetadata" => r.held # 0 /\ f[r.held].text \in Clean
    /\ r.created => r.pc \in {"lockCheck", "lockMetadata"}
    /\ r.op = "restore" => r.snap # F!NoSnapshot
    /\ r.pc = "check" => r.op = "restore"
    /\ r.pc = "keep" /\ r.tmp = 0 => r.old = F!Nothing

(* From its look at the leaf on, a call knows what is there unless another *)
(* moved an entry; and while nobody was killed every temporary file has a  *)
(* call that will deal with it.                                            *)
Known ==
    /\ ~swapped /\ run.pc \in Looked => disk.entry[run.dir] = run.known
    /\ ~swapped /\ run.pc = "unmake" => disk.entry[run.dir] \in {run.known, 0} \/ F!FoundGone
    /\ run.pc = "purge" /\ run.how # "same" => pending # F!NoSnapshot
Temps == ~crashed => \A d \in F!Dirs : disk.temp[d] # 0 => run.pc \in {"fill", "rename", "unprobe"} /\ d = run.dir

Budgets == [calls : Nat, moves : Nat, mishaps : Nat, moved : Nat, missed : Nat]
Scalars ==
    /\ kind \in {"secure", "npm"} /\ path \in {"home", "sub"}
    /\ budget \in Budgets
    /\ disturbed \in BOOLEAN /\ swapped \in BOOLEAN /\ astray = FALSE /\ crashed \in BOOLEAN

Inv == DiskOK(disk) /\ RunOK(run, disk.file) /\ SnapOK(pending) /\ Known /\ Temps /\ Scalars

-----------------------------------------------------------------------------
(* What the operators return.                                              *)
LEMMA CleanTexts ==
    /\ F!Nothing \in Clean /\ F!Text(0, 0) \in Clean
    /\ \A t \in Clean : F!With(t) \in Clean /\ F!Without(t) \in Clean
BY DEF Clean, F!Texts, F!Nothing, F!Text, F!With, F!Without, F!Roots, F!Half

LEMMA IdleOK == ASSUME NEW f \in Seq(F!Inodes) PROVE RunOK(F!Idle, f)
<1>1. F!Idle \in Runs
  BY CleanTexts DEF Runs, F!Idle, Pcs, Loose, F!NoSnapshot
<1>. QED
  BY <1>1 DEF RunOK, F!Idle, Loose, Making, SnapOK

LEMMA Resolved ==
    ASSUME DiskOK(disk), path \in {"home", "sub"}, NEW gone \in BOOLEAN
    PROVE  F!resolveLeaf(disk, gone) \in [ok : BOOLEAN, rel : {"home", "sub"}, chain : Nat]
BY DEF DiskOK, F!resolveLeaf, F!Missing, F!Leaf, F!Place, F!Disks, F!Dirs

LEMMA LeafIsThere ==
    ASSUME DiskOK(disk), NEW rel \in {"home", "sub"}
    PROVE  /\ F!Place(disk, rel) \in F!Dirs \union {"none"}
           /\ F!Leaf(disk, rel) \in 0 .. Len(disk.file)
           /\ F!Leaf(disk, rel) # 0 => F!Place(disk, rel) \in F!Dirs
<1>1. F!Place(disk, rel) \in F!Dirs \union {"none"}
  BY DEF DiskOK, F!Place, F!Disks, F!Dirs
<1>2. F!Place(disk, rel) # "none" => F!Leaf(disk, rel) = disk.entry[F!Place(disk, rel)]
  BY DEF F!Leaf
<1>3. F!Place(disk, rel) = "none" => F!Leaf(disk, rel) = 0
  BY DEF F!Leaf
<1>4. Len(disk.file) \in Nat
  BY DEF DiskOK, F!Disks
<1>. QED
  BY <1>1, <1>2, <1>3, <1>4 DEF DiskOK

LEMMA VisibleIsText == ASSUME DiskOK(disk), path \in {"home", "sub"} PROVE F!Visible(disk) \in F!Texts
                       /\ F!Target(disk) \in 0 .. Len(disk.file)
<1>1. F!Target(disk) \in 0 .. Len(disk.file)
  <2>1. F!resolveLeaf(disk, FALSE).rel \in {"home", "sub"}
    BY Resolved
  <2>2. Len(disk.file) \in Nat
    BY DEF DiskOK, F!Disks
  <2>3. F!Leaf(disk, F!resolveLeaf(disk, FALSE).rel) \in 0 .. Len(disk.file)
    BY <2>1, LeafIsThere
  <2>4. F!Target(disk) \in {F!Leaf(disk, F!resolveLeaf(disk, FALSE).rel), 0}
    BY Zenon DEF F!Target
  <2>5. 0 \in 0 .. Len(disk.file)
    BY <2>2
  <2>. QED
    BY <2>3, <2>4, <2>5, Zenon
<1>2. F!KindOf(disk, F!Target(disk)) = "file" => F!Target(disk) # 0
  BY DEF F!KindOf
<1>3. F!Nothing \in F!Texts
  BY CleanTexts DEF Clean
<1>4. F!Target(disk) # 0 => disk.file[F!Target(disk)].text \in F!Texts
  <2>1. disk.file \in Seq(F!Inodes)
    BY DEF DiskOK, F!Disks
  <2>2. F!Target(disk) # 0 => disk.file[F!Target(disk)] \in F!Inodes
    BY <1>1, <2>1
  <2>. QED
    BY <2>2 DEF F!Inodes
<1>. QED
  BY <1>1, <1>2, <1>3, <1>4 DEF F!Visible

-----------------------------------------------------------------------------
(* What is written on a disk leaves it sound, and the call with it.        *)
LEMMA AddOK ==
    ASSUME NEW d, DiskOK(d), NEW f \in F!Inodes, Sane(f)
    PROVE  /\ DiskOK(F!Add(d, f))
           /\ F!Add(d, f).file = Append(d.file, f) /\ Len(F!Add(d, f).file) = Len(d.file) + 1
           /\ \A r : RunOK(r, d.file) => RunOK(r, F!Add(d, f).file)
<1>1. /\ d.file \in Seq(F!Inodes) /\ Len(d.file) \in Nat /\ Len(Append(d.file, f)) = Len(d.file) + 1
      /\ \A i \in 1 .. Len(d.file) : Append(d.file, f)[i] = d.file[i]
      /\ Append(d.file, f)[Len(d.file) + 1] = f /\ Append(d.file, f) \in Seq(F!Inodes)
  BY DEF DiskOK, F!Disks
<1>2. /\ F!Add(d, f) \in F!Disks /\ F!Add(d, f).file = Append(d.file, f) /\ F!Add(d, f).entry = d.entry
      /\ F!Add(d, f).bak = d.bak
  BY <1>1 DEF DiskOK, F!Disks, F!Add
<1>3. DiskOK(F!Add(d, f))
  BY <1>1, <1>2 DEF DiskOK
<1>4. ASSUME NEW r, RunOK(r, d.file) PROVE RunOK(r, Append(d.file, f))
  BY <1>1, <1>4 DEF RunOK, Making
<1>. QED
  BY <1>1, <1>2, <1>3, <1>4

LEMMA EntryOK ==
    ASSUME NEW d, DiskOK(d), NEW x \in F!Dirs, NEW n \in 0 .. Len(d.file), n # 0 => d.file[n].text.lines # F!Half.lines
    PROVE  DiskOK([d EXCEPT !.entry[x] = n]) /\ [d EXCEPT !.entry[x] = n].file = d.file
<1>1. /\ [d EXCEPT !.entry[x] = n] \in F!Disks /\ [d EXCEPT !.entry[x] = n].file = d.file
      /\ [d EXCEPT !.entry[x] = n].entry = [d.entry EXCEPT ![x] = n] /\ [d EXCEPT !.entry[x] = n].bak = d.bak
  <2>1. Len(d.file) \in Nat
    BY DEF DiskOK, F!Disks
  <2>2. n \in Nat
    BY <2>1
  <2>. QED
    BY <2>2 DEF DiskOK, F!Disks
<1>2. \A y \in F!Dirs : [d.entry EXCEPT ![x] = n][y] = IF y = x THEN n ELSE d.entry[y]
  BY DEF DiskOK, F!Disks
<1>. QED
  BY <1>1, <1>2 DEF DiskOK

LEMMA TempOK ==
    ASSUME NEW d, DiskOK(d), NEW x \in F!Dirs, NEW n \in Nat
    PROVE  DiskOK([d EXCEPT !.temp[x] = n]) /\ [d EXCEPT !.temp[x] = n].file = d.file
BY DEF DiskOK, F!Disks

LEMMA BackupsOK ==
    ASSUME NEW d, DiskOK(d), NEW x \in F!Dirs, NEW s \in Seq(Nat), Len(s) <= MaxBackups
    PROVE  DiskOK([d EXCEPT !.bak[x] = s]) /\ [d EXCEPT !.bak[x] = s].file = d.file
BY DEF DiskOK, F!Disks

LEMMA PlaceOK ==
    ASSUME NEW d, DiskOK(d), NEW at \in {"sub", "other", "made", "none"}
    PROVE  DiskOK([d EXCEPT !.at = at]) /\ [d EXCEPT !.at = at].file = d.file
BY DEF DiskOK, F!Disks

LEMMA OwnerOK ==
    ASSUME NEW d, DiskOK(d), NEW who \in {"user", "agent", "none"}
    PROVE  DiskOK([d EXCEPT !.owner["made"] = who]) /\ [d EXCEPT !.owner["made"] = who].file = d.file
BY DEF DiskOK, F!Disks, F!Dirs

\* An inode gets other contents: clean ones, or of the same text.
LEMMA InodeOK ==
    ASSUME NEW d, DiskOK(d), NEW i \in 1 .. Len(d.file), NEW f \in F!Inodes, Sane(f),
           f.text \in Clean \/ f.text = d.file[i].text
    PROVE  /\ DiskOK([d EXCEPT !.file[i] = f])
           /\ \A r : RunOK(r, d.file) => RunOK(r, [d EXCEPT !.file[i] = f].file)
           /\ [d EXCEPT !.file[i] = f].file = [d.file EXCEPT ![i] = f] /\ Len([d.file EXCEPT ![i] = f]) = Len(d.file)
<1>1. /\ d.file \in Seq(F!Inodes) /\ Len(d.file) \in Nat /\ [d.file EXCEPT ![i] = f] \in Seq(F!Inodes)
      /\ Len([d.file EXCEPT ![i] = f]) = Len(d.file)
      /\ [d.file EXCEPT ![i] = f][i] = f
      /\ \A j \in 1 .. Len(d.file) : j # i => [d.file EXCEPT ![i] = f][j] = d.file[j]
  BY DEF DiskOK, F!Disks
<1>2. /\ [d EXCEPT !.file[i] = f] \in F!Disks /\ [d EXCEPT !.file[i] = f].file = [d.file EXCEPT ![i] = f]
      /\ [d EXCEPT !.file[i] = f].entry = d.entry /\ [d EXCEPT !.file[i] = f].bak = d.bak
  BY <1>1 DEF DiskOK, F!Disks
<1>3. f.text \in Clean => f.text.lines # F!Half.lines
  BY DEF Clean
<1>4. DiskOK([d EXCEPT !.file[i] = f])
  BY <1>1, <1>2, <1>3 DEF DiskOK
<1>5. ASSUME NEW r, RunOK(r, d.file) PROVE RunOK(r, [d.file EXCEPT ![i] = f])
  BY <1>1, <1>5 DEF RunOK, Making
<1>. QED
  BY <1>1, <1>2, <1>4, <1>5
-----------------------------------------------------------------------------
(* How a step may end.                                                     *)
Temporary == {"fill", "rename", "unprobe"}
NoTemps(d) == \A x \in F!Dirs : d.temp[x] = 0

LEMMA NoneLeft == Temps /\ run.pc \notin Temporary => (~crashed => NoTemps(disk))
BY DEF Temps, Temporary, NoTemps

LEMMA CleanedOK ==
    ASSUME Inv, run.pc \in Temporary
    PROVE  /\ DiskOK(F!Cleaned) /\ F!Cleaned.file = disk.file /\ F!Cleaned.entry = disk.entry
           /\ ~crashed => NoTemps(F!Cleaned)
<1>1. run.dir \in F!Dirs /\ disk \in F!Disks
  BY DEF Inv, RunOK, Temporary, Loose, DiskOK
<1>2. DiskOK(F!Cleaned) /\ F!Cleaned.file = disk.file
  BY <1>1, TempOK DEF Inv, F!Cleaned
<1>3. F!Cleaned.entry = disk.entry /\ F!Cleaned.temp = [disk.temp EXCEPT ![run.dir] = 0]
  BY <1>1 DEF F!Cleaned, F!Disks
<1>4. ~crashed => NoTemps(F!Cleaned)
  BY <1>1, <1>3 DEF NoTemps, Inv, Temps, F!Disks
<1>. QED
  BY <1>2, <1>3, <1>4

LEMMA FaultOK == ASSUME Inv, F!Fault PROVE budget' \in Budgets
<1>1. budget \in Budgets
  BY DEF Inv, Scalars
<1>2. budget.mishaps \in Nat /\ budget.missed \in Nat
  BY <1>1 DEF Budgets
<1>3. budget.mishaps - 1 \in Nat /\ budget.missed + 1 \in Nat
  BY <1>2 DEF F!Fault
<1>4. \A m, n \in Nat : [budget EXCEPT !.mishaps = m, !.missed = n] \in Budgets
  BY <1>1 DEF Budgets
<1>. QED
  BY <1>3, <1>4 DEF F!Fault

\* A call is over.
LEMMA Ended ==
    ASSUME Inv, NEW how, F!End(how), pending' = pending, DiskOK(disk'), budget' \in Budgets,
           ~crashed => NoTemps(disk')
    PROVE  Inv'
<1>1. disk'.file \in Seq(F!Inodes)
  BY DEF DiskOK, F!Disks
<1>2. RunOK(run', disk'.file)
  BY <1>1, IdleOK DEF F!End
<1>3. SnapOK(pending') /\ Scalars'
  BY DEF Inv, Scalars, F!End, Budgets
<1>4. Known' /\ Temps'
  BY DEF Inv, Scalars, Known, Temps, F!End, F!Idle, Looked, NoTemps
<1>. QED
  BY <1>2, <1>3, <1>4 DEF Inv

LEMMA Refused == ASSUME Inv, F!Refuse, run.pc \notin Temporary PROVE Inv'
<1>1. budget' \in Budgets /\ DiskOK(disk') /\ (~crashed => NoTemps(disk'))
  BY NoneLeft DEF F!Refuse, Inv, Scalars, Budgets
<1>. QED
  BY <1>1, Ended DEF F!Refuse, F!Failed

LEMMA BrokenOK ==
    ASSUME Inv, F!Broken, DiskOK(disk'), ~crashed => NoTemps(disk')
    PROVE  Inv'
BY FaultOK, Ended DEF F!Broken, F!Failed

\* A call goes on, the disk as it was.
LEMMA Quieted ==
    ASSUME Inv, F!Quiet, run.pc \notin Temporary, RunOK(run', disk.file), Known'
    PROVE  Inv'
<1>1. Temps'
  BY NoneLeft DEF Inv, F!Quiet, F!Still, Temps, NoTemps
<1>. QED
  BY <1>1 DEF Inv, F!Quiet, F!Still, Scalars

\* It only moves on to another place.
LEMMA GotoOK ==
    ASSUME Inv, NEW stage \in Pcs, F!Goto(stage), stage \notin Loose => run.dir \in F!Dirs,
           stage \in Making => run.tmp # 0,
           stage = "rename" => disk.file[run.tmp].text \in Clean,
           stage = "lockCheck" => run.held # 0 /\ (run.created => disk.file[run.held].text \in Clean),
           stage = "lockMetadata" => run.held # 0 /\ disk.file[run.held].text \in Clean,
           stage = "check" => run.op = "restore", stage = "keep" /\ run.tmp = 0 => run.old = F!Nothing,
           run.created => stage = "lockMetadata"
    PROVE  RunOK(run', disk.file)
<1>1. run \in Runs /\ run' = [run EXCEPT !.pc = stage]
  BY DEF Inv, RunOK, F!Goto
<1>2. run' \in Runs
  BY <1>1 DEF Runs
<1>3. /\ run'.pc = stage /\ run'.dir = run.dir /\ run'.held = run.held /\ run'.tmp = run.tmp
      /\ run'.op = run.op /\ run'.old = run.old /\ run'.snap = run.snap /\ run'.created = run.created
  BY <1>1 DEF Runs
<1>. QED
  BY <1>2, <1>3 DEF Inv, RunOK

\* It moves on with nothing that ties it to the leaf yet.
LEMMA Freely ==
    ASSUME Inv, F!Quiet, NEW stage \in Pcs \ (Looked \union {"unmake", "check", "keep", "purge", "lockCheck",
           "lockMetadata"}), F!Goto(stage),
           run.pc \notin Temporary \union {"lockCheck", "lockMetadata"}, stage \notin Loose => run.dir \in F!Dirs
    PROVE  Inv'
<1>1. RunOK(run', disk.file)
  BY GotoOK DEF Making, Looked, Inv, RunOK
<1>2. run'.pc = stage
  BY DEF Inv, RunOK, Runs, F!Goto
<1>3. Known'
  BY <1>2 DEF Known
<1>. QED
  BY <1>1, <1>3, Quieted

\* A call goes on, the disk changed.
LEMMA Changed ==
    ASSUME Inv, F!Still, DiskOK(disk'), RunOK(run', disk'.file), Known', Temps'
    PROVE  Inv'
BY DEF Inv, F!Still, Scalars

-----------------------------------------------------------------------------
(* Calls.                                                                  *)
LEMMA BeginStep == ASSUME Inv, NEW call \in {"write", "clear", "restore", "lock", "probe"}, F!Begin(call) PROVE Inv'
<1>1. PICK stage \in {"ensure", "pin", "resolve"}, rel \in {"home", "sub"}, undo \in BOOLEAN :
        run' = [F!Idle EXCEPT !.op = call, !.pc = stage, !.rel = rel, !.undo = undo, !.snap = pending]
  <2>1. call = "restore" => pending \in Snaps
    BY DEF F!Begin, Inv, SnapOK, F!NoSnapshot
  <2>2. call = "restore" => pending.rel \in {"home", "sub"}
    BY <2>1 DEF Snaps
  <2>. QED
    BY <2>2 DEF F!Begin
<1>2. F!Idle \in Runs
  BY IdleOK DEF Inv, DiskOK, F!Disks, RunOK
<1>3. pending \in Snaps \union {F!NoSnapshot}
  BY DEF Inv, SnapOK
<1>4. run' \in Runs
  <2>1. ASSUME NEW r \in Runs
        PROVE  [r EXCEPT !.op = call, !.pc = stage, !.rel = rel, !.undo = undo, !.snap = pending] \in Runs
    <3>1. call \in {"none", "write", "clear", "restore", "lock", "probe"} /\ stage \in Pcs
      BY DEF Pcs, Loose
    <3>2. [r EXCEPT !.op = call, !.pc = stage, !.rel = rel] \in Runs
      BY <2>1, <3>1 DEF Runs
    <3>3. \A q \in Runs : [q EXCEPT !.undo = undo, !.snap = pending] \in Runs
      BY <1>3 DEF Runs
    <3>. QED
      BY <3>2, <3>3
  <2>. QED
    BY <1>1, <1>2, <2>1, Zenon
<1>5. /\ run'.pc = stage /\ run'.op = call /\ run'.snap = pending /\ run'.held = 0 /\ run'.tmp = 0 /\ run'.created = FALSE
  BY <1>1, <1>2 DEF Runs, F!Idle
<1>6. call = "restore" => pending # F!NoSnapshot
  BY DEF F!Begin, F!NoSnapshot
<1>7. RunOK(run', disk'.file)
  <2>1. Len(disk.file) \in Nat
    BY DEF Inv, DiskOK, F!Disks
  <2>. QED
    BY <1>4, <1>5, <1>6, <2>1 DEF F!Begin, RunOK, Inv, Loose, Making
<1>8. Known'
  BY <1>5 DEF Known, Looked
<1>9. Temps'
  BY <1>5, NoneLeft DEF Inv, F!Begin, F!At, Temporary, Temps, NoTemps
<1>10. Scalars' /\ SnapOK(pending') /\ DiskOK(disk')
  <2>1. budget' \in Budgets
    BY DEF Inv, Scalars, Budgets, F!Begin
  <2>. QED
    BY <2>1 DEF Inv, Scalars, F!Begin, SnapOK
<1>. QED
  BY <1>7, <1>8, <1>9, <1>10 DEF Inv

LEMMA EnsureStep == ASSUME Inv, F!ensureExisting \/ F!Mkdir \/ F!CheckMade \/ F!Adopt PROVE Inv'
<1>0. run.pc \in {"ensure", "made", "adopt"} /\ run.pc \notin Temporary
  BY DEF F!ensureExisting, F!Mkdir, F!CheckMade, F!Adopt, F!At, Temporary
<1>1. CASE F!ensureExisting
  BY <1>0, <1>1, Refused, Freely DEF F!ensureExisting, Pcs, Loose, Looked
<1>2. CASE F!CheckMade
  BY <1>0, <1>2, Refused, Freely DEF F!CheckMade, Pcs, Loose, Looked
<1>3. CASE F!Mkdir
  <2>1. CASE disk' = [disk EXCEPT !.at = "made", !.owner["made"] = "agent"] /\ F!Goto("made") /\ F!Still
    <3>1. DiskOK(disk') /\ disk'.file = disk.file /\ disk'.temp = disk.temp
      BY <2>1 DEF Inv, DiskOK, F!Disks, F!Dirs
    <3>2. ~run.created /\ run'.pc = "made"
      BY <1>0, <2>1 DEF Inv, RunOK, Runs, F!Goto
    <3>3. RunOK(run', disk'.file)
      BY <2>1, <3>1, <3>2, GotoOK DEF Pcs, Loose, Making
    <3>. QED
      BY <1>0, <2>1, <3>1, <3>2, <3>3, Changed, NoneLeft DEF Inv, Known, Looked, Temps, NoTemps, F!Still
  <2>2. CASE F!Broken /\ UNCHANGED disk
    BY <1>0, <2>2, BrokenOK, NoneLeft DEF Inv
  <2>. QED
    BY <1>3, <2>1, <2>2 DEF F!Mkdir
<1>4. CASE F!Adopt
  <2>1. CASE F!Refuse
    BY <1>0, <2>1, Refused
  <2>2. CASE disk' = [disk EXCEPT !.owner["made"] = "user"] /\ F!Goto("resolve") /\ F!Still
    <3>1. DiskOK(disk') /\ disk'.file = disk.file /\ disk'.temp = disk.temp
      BY <2>2 DEF Inv, DiskOK, F!Disks, F!Dirs
    <3>2. ~run.created /\ run'.pc = "resolve"
      BY <1>0, <2>2 DEF Inv, RunOK, Runs, F!Goto
    <3>3. RunOK(run', disk'.file)
      BY <2>2, <3>1, <3>2, GotoOK DEF Pcs, Loose, Making
    <3>. QED
      BY <1>0, <2>2, <3>1, <3>2, <3>3, Changed, NoneLeft DEF Inv, Known, Looked, Temps, NoTemps, F!Still
  <2>3. CASE disk' = F!removeCreatedParent(disk) /\ F!Broken
    <3>1. DiskOK(disk') /\ disk'.temp = disk.temp
      BY <2>3 DEF Inv, DiskOK, F!Disks, F!Dirs, F!removeCreatedParent
    <3>. QED
      BY <1>0, <2>3, <3>1, BrokenOK, NoneLeft DEF Inv, NoTemps
  <2>. QED
    BY <1>4, <2>1, <2>2, <2>3 DEF F!Adopt
<1>. QED
  BY <1>1, <1>2, <1>3, <1>4

-----------------------------------------------------------------------------
(* Resolving, pinning and reading.                                         *)
LEMMA ResolveStep == ASSUME Inv, F!Resolve PROVE Inv'
<1>0. run.pc = "resolve" /\ run.pc \notin Temporary
  BY DEF F!Resolve, F!At, Temporary
<1>1. CASE F!Refuse
  BY <1>0, <1>1, Refused
<1>2. ASSUME NEW to \in {F!resolveLeaf(disk, run.op = "restore" /\ run.snap.removed)},
             run' = [run EXCEPT !.rel = to.rel, !.chain = to.chain, !.pc = "pin"], F!Quiet
      PROVE  Inv'
  <2>1. to.rel \in {"home", "sub"} /\ to.chain \in Nat
    BY Resolved DEF Inv, Scalars
  <2>2. run \in Runs
    BY DEF Inv, RunOK
  <2>3. run' \in Runs /\ run'.pc = "pin" /\ run'.op = run.op /\ run'.held = run.held /\ run'.tmp = run.tmp
        /\ run'.snap = run.snap /\ run'.created = run.created
    BY <1>2, <2>1, <2>2 DEF Runs, Pcs, Loose
  <2>4. RunOK(run', disk.file)
    BY <1>0, <2>3 DEF Inv, RunOK, Loose, Making
  <2>5. Known'
    BY <2>3 DEF Known, Looked
  <2>. QED
    BY <1>0, <1>2, <2>4, <2>5, Quieted
<1>. QED
  BY <1>1, <1>2 DEF F!Resolve

LEMMA PinStep == ASSUME Inv, F!Pin PROVE Inv'
<1>0. run.pc = "pin" /\ run.pc \notin Temporary
  BY DEF F!Pin, F!At, Temporary
<1>1. CASE F!Refuse
  BY <1>0, <1>1, Refused
<1>2. CASE F!End("same") /\ UNCHANGED <<disk, pending, rec, budget>>
  BY <1>0, <1>2, Ended, NoneLeft DEF Inv, Scalars
<1>3. ASSUME NEW p \in {F!Place(disk, run.rel)}, p # "none", run' = [run EXCEPT !.dir = p, !.pc = F!AfterPin], F!Quiet
      PROVE  Inv'
  <2>1. run \in Runs
    BY DEF Inv, RunOK
  <2>2. run.rel \in {"home", "sub"}
    BY <2>1 DEF Runs
  <2>3. p \in F!Dirs
    BY <1>3, <2>2, LeafIsThere DEF Inv
  <2>4. F!AfterPin \in {"check", "lock", "probe", "lstat"} /\ (F!AfterPin = "check" => run.op = "restore")
    BY DEF F!AfterPin
  <2>5. F!AfterPin \in Pcs
    BY <2>4 DEF Pcs, Later
  <2>6. /\ run' \in Runs /\ run'.pc = F!AfterPin /\ run'.op = run.op /\ run'.held = run.held /\ run'.tmp = run.tmp
        /\ run'.snap = run.snap /\ run'.created = run.created /\ run'.dir = p
    BY <1>3, <2>1, <2>3, <2>5 DEF Runs
  <2>7. RunOK(run', disk.file)
    BY <1>0, <2>3, <2>4, <2>6 DEF Inv, RunOK, Making
  <2>8. Known'
    BY <2>4, <2>6 DEF Known, Looked
  <2>. QED
    BY <1>0, <1>3, <2>7, <2>8, Quieted
<1>. QED
  BY <1>1, <1>2, <1>3 DEF F!Pin

LEMMA LstatStep == ASSUME Inv, F!Lstat PROVE Inv'
<1>0. run.pc = "lstat" /\ run.pc \notin Temporary /\ run.dir \in F!Dirs /\ run \in Runs
  BY DEF F!Lstat, F!At, Temporary, Inv, RunOK, Loose
<1>1. CASE F!Refuse
  BY <1>0, <1>1, Refused
<1>2. CASE F!Goto("open") /\ F!Quiet
  BY <1>0, <1>2, Freely DEF Pcs, Later, Looked
<1>3. CASE /\ disk.entry[run.dir] = 0 /\ run' = [run EXCEPT !.old = F!Nothing, !.known = 0, !.pc = "read"]
              /\ swapped' = FALSE
           /\ UNCHANGED <<kind, path, disk, pending, rec, result, was, budget, disturbed, astray, crashed>>
  <2>1. /\ run' \in Runs /\ run'.pc = "read" /\ run'.op = run.op /\ run'.held = run.held /\ run'.tmp = run.tmp
        /\ run'.snap = run.snap /\ run'.created = run.created /\ run'.dir = run.dir /\ run'.known = 0
    BY <1>0, <1>3, CleanTexts DEF Runs, Pcs, Looked
  <2>2. RunOK(run', disk'.file)
    BY <1>0, <1>3, <2>1 DEF Inv, RunOK, Making
  <2>3. Known'
    BY <1>3, <2>1 DEF Known
  <2>4. Temps'
    BY <1>0, <1>3, NoneLeft DEF Inv, Temps, NoTemps
  <2>. QED
    BY <1>3, <2>2, <2>3, <2>4 DEF Inv, Scalars
<1>. QED
  BY <1>1, <1>2, <1>3 DEF F!Lstat

LEMMA OpenStep == ASSUME Inv, F!Open PROVE Inv'
<1>0. run.pc = "open" /\ run.pc \notin Temporary /\ run.dir \in F!Dirs /\ run \in Runs
  BY DEF F!Open, F!At, Temporary, Inv, RunOK, Loose
<1>1. CASE F!Refuse
  BY <1>0, <1>1, Refused
<1>2. ASSUME NEW i \in {F!Opened(disk.entry[run.dir])}, run' = [run EXCEPT !.held = i, !.pc = "verify"], F!Quiet
      PROVE  Inv'
  <2>1. i \in 0 .. Len(disk.file)
    <3>1. F!Leaf(disk, "sub") \in 0 .. Len(disk.file) /\ disk.entry[run.dir] \in 0 .. Len(disk.file)
      BY <1>0, LeafIsThere DEF Inv, DiskOK
    <3>. QED
      BY <3>1 DEF F!Opened
  <2>2. i \in Nat
    BY <2>1 DEF Inv, DiskOK, F!Disks
  <2>3. /\ run' \in Runs /\ run'.pc = "verify" /\ run'.op = run.op /\ run'.held = i /\ run'.tmp = run.tmp
        /\ run'.snap = run.snap /\ run'.created = run.created /\ run'.dir = run.dir
    BY <1>0, <1>2, <2>2 DEF Runs, Pcs, Later
  <2>4. RunOK(run', disk.file)
    BY <1>0, <2>1, <2>3 DEF Inv, RunOK, Making
  <2>5. Known'
    BY <2>3 DEF Known, Looked
  <2>. QED
    BY <1>0, <1>2, <2>4, <2>5, Quieted
<1>. QED
  BY <1>1, <1>2 DEF F!Open

\* A file of the user's is clean.
LEMMA OursIsClean ==
    ASSUME Inv, NEW i \in 0 .. Len(disk.file), F!IsOurs(i)
    PROVE  i # 0 /\ disk.file[i] \in F!Inodes /\ disk.file[i].text \in Clean
<1>1. i # 0 /\ disk.file[i].kind = "file" /\ disk.file[i].owner = "user"
  BY DEF F!IsOurs, F!KindOf
<1>. QED
  BY <1>1 DEF Inv, DiskOK, F!Disks, Sane

LEMMA VerifyStep == ASSUME Inv, F!Verify PROVE Inv'
<1>0. run.pc = "verify" /\ run.pc \notin Temporary /\ run.dir \in F!Dirs /\ run \in Runs
      /\ run.held \in 0 .. Len(disk.file)
  BY DEF F!Verify, F!At, Temporary, Inv, RunOK, Loose
<1>1. CASE F!Refuse
  BY <1>0, <1>1, Refused
<1>2. CASE /\ disk.entry[run.dir] = run.held /\ F!IsOurs(run.held)
           /\ run' = [run EXCEPT !.old = disk.file[run.held].text, !.private = disk.file[run.held].private,
                                  !.known = run.held, !.pc = "read"]
           /\ swapped' = FALSE
           /\ UNCHANGED <<kind, path, disk, pending, rec, result, was, budget, disturbed, astray, crashed>>
  <2>1. disk.file[run.held].text \in Clean /\ disk.file[run.held].private \in BOOLEAN /\ run.held \in Nat
    BY <1>0, <1>2, OursIsClean DEF F!Inodes, Runs
  <2>2. /\ run' \in Runs /\ run'.pc = "read" /\ run'.op = run.op /\ run'.held = run.held /\ run'.tmp = run.tmp
        /\ run'.snap = run.snap /\ run'.created = run.created /\ run'.dir = run.dir /\ run'.known = run.held
    BY <1>0, <1>2, <2>1 DEF Runs, Pcs, Looked
  <2>3. RunOK(run', disk'.file)
    BY <1>0, <1>2, <2>2 DEF Inv, RunOK, Making
  <2>4. Known'
    BY <1>2, <2>2 DEF Known
  <2>5. Temps'
    BY <1>0, <1>2, NoneLeft DEF Inv, Temps, NoTemps
  <2>. QED
    BY <1>2, <2>3, <2>4, <2>5 DEF Inv, Scalars
<1>. QED
  BY <1>1, <1>2 DEF F!Verify

LEMMA ReadStep == ASSUME Inv, F!Reread \/ F!NothingToClear \/ F!Decide PROVE Inv'
<1>0. run.pc = "read" /\ run.pc \notin Temporary /\ run.dir \in F!Dirs /\ run \in Runs /\ F!Quiet
  BY DEF F!Reread, F!NothingToClear, F!Decide, F!At, Temporary, Inv, RunOK, Loose
<1>1. CASE F!Reread
  <2>1. run.old \in Clean
    BY <1>0 DEF Runs
  <2>2. PICK how \in {"remove", "commit"} : run' = [run EXCEPT !.seen = run.old, !.pass = 2, !.pc = "resolve",
             !.how = how]
    BY <1>1 DEF F!Reread
  <2>3. /\ run' \in Runs /\ run'.pc = "resolve" /\ run'.op = run.op /\ run'.held = run.held /\ run'.tmp = run.tmp
        /\ run'.snap = run.snap /\ run'.created = run.created /\ run'.dir = run.dir
    BY <1>0, <2>1, <2>2 DEF Runs, Pcs, Loose
  <2>4. RunOK(run', disk.file) /\ Known'
    BY <1>0, <2>3 DEF Inv, RunOK, Making, Known, Looked
  <2>. QED
    BY <1>0, <2>4, Quieted
<1>2. CASE F!NothingToClear
  <2>1. /\ run' \in Runs /\ run'.pc = "purge" /\ run'.op = run.op /\ run'.held = run.held /\ run'.tmp = run.tmp
        /\ run'.snap = run.snap /\ run'.created = run.created /\ run'.dir = run.dir /\ run'.how = "same"
    BY <1>0, <1>2 DEF F!NothingToClear, Runs, Pcs, Later
  <2>2. RunOK(run', disk.file) /\ Known'
    BY <1>0, <2>1 DEF Inv, RunOK, Making, Known, Looked
  <2>. QED
    BY <1>0, <2>2, Quieted
<1>3. CASE F!Decide
  <2>1. PICK how \in {"remove", "commit"}, stage \in {"remove", "keep", "temp", "backup"}, want \in {F!With(F!Source),
             F!Without(F!Source)} :
          /\ run' = [run EXCEPT !.how = how, !.want = want, !.pc = stage]
          /\ stage = "keep" => run.old = F!Nothing
    BY <1>3 DEF F!Decide, F!Existed
  <2>2. want \in Clean
    <3>1. F!Source \in Clean
      BY <1>0 DEF F!Source, Runs
    <3>. QED
      BY <2>1, <3>1, CleanTexts
  <2>3. stage \in Pcs
    BY DEF Pcs, Looked, Later
  <2>4. /\ run' \in Runs /\ run'.pc = stage /\ run'.op = run.op /\ run'.held = run.held /\ run'.tmp = run.tmp
        /\ run'.snap = run.snap /\ run'.created = run.created /\ run'.dir = run.dir /\ run'.old = run.old
           /\ run'.known = run.known
    BY <1>0, <2>1, <2>2, <2>3 DEF Runs
  <2>5. RunOK(run', disk.file)
    BY <1>0, <2>1, <2>4 DEF Inv, RunOK, Making
  <2>6. Known'
    BY <1>0, <2>4 DEF Inv, Known, Looked, F!Quiet, F!Still
  <2>. QED
    BY <1>0, <2>5, <2>6, Quieted
<1>. QED
  BY <1>1, <1>2, <1>3

-----------------------------------------------------------------------------
(* Replacing.                                                              *)
LEMMA MadeOK ==
    ASSUME NEW t \in Clean, NEW private \in BOOLEAN
    PROVE  F!Made(t, private) \in F!Inodes /\ Sane(F!Made(t, private)) /\ F!Made(t, private).text = t
BY DEF F!Made, F!File, F!Inodes, Sane, Clean, F!Parties

\* A call that moves on and leaves everything it knows as it is.
LEMMA Onward ==
    ASSUME Inv, NEW stage \in {"temp", "remove", "rename", "readback", "metadata", "keep", "purge"}, F!Goto(stage)
    PROVE  /\ run' \in Runs /\ run'.pc = stage /\ run'.op = run.op /\ run'.held = run.held /\ run'.tmp = run.tmp
           /\ run'.snap = run.snap /\ run'.created = run.created /\ run'.dir = run.dir /\ run'.old = run.old
              /\ run'.known = run.known /\ run'.how = run.how
BY DEF Inv, RunOK, Runs, Pcs, Looked, Later, F!Goto

LEMMA RotationOK ==
    ASSUME F!FileAssumption, NEW baks \in Seq(Nat), Len(baks) <= MaxBackups, NEW n \in Nat
    PROVE  F!rotateBackups(Append(baks, n)) \in Seq(Nat) /\ Len(F!rotateBackups(Append(baks, n))) <= MaxBackups
<1> DEFINE q == Append(baks, n)
<1>1. q \in Seq(Nat) /\ Len(q) = Len(baks) + 1 /\ Len(baks) \in Nat /\ MaxBackups \in Nat
  BY DEF F!FileAssumption
<1> HIDE DEF q
<1>2. Tail(q) \in Seq(Nat) /\ Len(Tail(q)) = Len(baks)
  BY <1>1
<1>3. F!rotateBackups(q) \in Seq(Nat) /\ Len(F!rotateBackups(q)) <= MaxBackups
  BY <1>1, <1>2 DEF F!rotateBackups
<1>. QED
  BY <1>3 DEF q

LEMMA BackupStep == ASSUME F!FileAssumption, Inv, F!Backup PROVE Inv'
<1>0. run.pc = "backup" /\ run.pc \notin Temporary /\ run.dir \in F!Dirs /\ run \in Runs
  BY DEF F!Backup, F!At, Temporary, Inv, RunOK, Loose
<1>1. PICK stage \in {"temp", "remove"} : F!Goto(stage)
  BY DEF F!Backup
<1>2. /\ run' \in Runs /\ run'.pc = stage /\ run'.op = run.op /\ run'.held = run.held /\ run'.tmp = run.tmp
      /\ run'.snap = run.snap /\ run'.created = run.created /\ run'.dir = run.dir /\ run'.old = run.old
         /\ run'.known = run.known
  BY <1>1, Onward
<1>3. ASSUME NEW f, RunOK(run, f) PROVE RunOK(run', f)
  BY <1>0, <1>2, <1>3 DEF RunOK, Making
<1>4. CASE F!Still /\ disk' = [F!Add(disk, F!Made(run.old, TRUE)) EXCEPT !.bak[run.dir] = F!rotateBackups(Append(@,
           Len(disk.file) + 1))]
  <2> DEFINE d == F!Add(disk, F!Made(run.old, TRUE))
             s == F!rotateBackups(Append(disk.bak[run.dir], Len(disk.file) + 1))
  <2>1. F!Made(run.old, TRUE) \in F!Inodes /\ Sane(F!Made(run.old, TRUE))
    BY <1>0, MadeOK DEF Runs
  <2>2. DiskOK(d) /\ RunOK(run', d.file)
    BY <1>3, <2>1, AddOK DEF Inv
  <2>3. d.entry = disk.entry /\ d.temp = disk.temp /\ d.bak = disk.bak /\ d \in F!Disks
    <3>1. d \in F!Disks
      BY <2>2 DEF DiskOK
    <3>. QED
      BY <3>1 DEF F!Add, Inv, DiskOK, F!Disks
  <2>4. s \in Seq(Nat) /\ Len(s) <= MaxBackups
    <3>1. disk.bak[run.dir] \in Seq(Nat) /\ Len(disk.bak[run.dir]) <= MaxBackups /\ Len(disk.file) + 1 \in Nat
      BY <1>0 DEF Inv, DiskOK, F!Disks
    <3>. QED
      BY <3>1, RotationOK
  <2>5. disk' = [d EXCEPT !.bak[run.dir] = s]
    BY <1>4, <2>3
  <2>6. DiskOK(disk') /\ disk'.file = d.file /\ disk'.entry = disk.entry /\ disk'.temp = disk.temp
    <3> HIDE DEF d, s
    <3>. QED
      BY <1>0, <2>2, <2>3, <2>4, <2>5, BackupsOK DEF F!Disks
  <2>7. Known' /\ Temps'
    BY <1>0, <1>2, <1>4, <2>6, NoneLeft DEF Inv, Known, Looked, F!Still, Temps, NoTemps
  <2>. QED
    BY <1>4, <2>2, <2>6, <2>7, Changed
<1>5. CASE F!Fault /\ UNCHANGED <<disk, kind, path, pending, rec, result, was, disturbed, swapped, astray, crashed>>
  <2>1. RunOK(run', disk'.file)
    BY <1>3, <1>5 DEF Inv
  <2>2. Known' /\ Temps'
    BY <1>0, <1>2, <1>5, NoneLeft DEF Inv, Known, Looked, Temps, NoTemps
  <2>3. budget' \in Budgets
    BY <1>5, FaultOK
  <2>. QED
    BY <1>5, <2>1, <2>2, <2>3 DEF Inv, Scalars
<1>. QED
  BY <1>4, <1>5 DEF F!Backup

LEMMA createExclusiveStep == ASSUME Inv, F!createExclusive PROVE Inv'
<1>0. run.pc = "temp" /\ run.pc \notin Temporary /\ run.dir \in F!Dirs /\ run \in Runs
  BY DEF F!createExclusive, F!At, Temporary, Inv, RunOK, Loose
<1>1. CASE F!Broken /\ UNCHANGED disk
  BY <1>0, <1>1, BrokenOK, NoneLeft DEF Inv
<1>2. CASE /\ disk' = [F!Add(disk, F!File(F!Half, "agent", TRUE, "agent")) EXCEPT !.temp[run.dir] = Len(disk.file) + 1]
           /\ run' = [run EXCEPT !.tmp = Len(disk.file) + 1, !.pc = "fill"] /\ F!Still
  <2> DEFINE f == F!File(F!Half, "agent", TRUE, "agent")
             d == F!Add(disk, f)
  <2>1. f \in F!Inodes /\ Sane(f)
    BY DEF F!File, F!Half, F!Text, F!Inodes, Sane, F!Texts, F!Roots, F!Parties
  <2>2. DiskOK(d) /\ RunOK(run, d.file) /\ Len(d.file) = Len(disk.file) + 1
    BY <2>1, AddOK DEF Inv
  <2>3. d.entry = disk.entry /\ d.temp = disk.temp
    BY <2>2 DEF F!Add, Inv, DiskOK, F!Disks
  <2>4. Len(disk.file) + 1 \in Nat
    BY DEF Inv, DiskOK, F!Disks
  <2> HIDE DEF d
  <2>5. DiskOK(disk') /\ disk'.file = d.file
    BY <1>0, <1>2, <2>2, <2>4, TempOK DEF d
  <2>6. disk'.entry = disk.entry /\ disk'.temp = [disk.temp EXCEPT ![run.dir] = Len(disk.file) + 1]
    BY <1>0, <1>2, <2>2, <2>3 DEF d, DiskOK, F!Disks
  <2>7. /\ run' \in Runs /\ run'.pc = "fill" /\ run'.op = run.op /\ run'.held = run.held /\ run'.tmp = Len(disk.file) + 1
        /\ run'.snap = run.snap /\ run'.created = run.created /\ run'.dir = run.dir /\ run'.old = run.old
           /\ run'.known = run.known
    BY <1>0, <1>2, <2>4 DEF Runs, Pcs, Looked
  <2>8. RunOK(run', disk'.file)
    BY <1>0, <2>2, <2>4, <2>5, <2>7 DEF RunOK, Making
  <2>9. Known'
    BY <1>0, <1>2, <2>6, <2>7 DEF Inv, Known, Looked, F!Still
  <2>10. Temps'
    <3>1. ~crashed => NoTemps(disk)
      BY <1>0, NoneLeft DEF Inv
    <3>2. \A x \in F!Dirs : x # run.dir => disk'.temp[x] = disk.temp[x]
      BY <1>0, <2>6 DEF Inv, DiskOK, F!Disks
    <3>3. crashed' = crashed
      BY <1>2 DEF F!Still
    <3>. QED
      BY <2>7, <3>1, <3>2, <3>3 DEF Temps, NoTemps
  <2>. QED
    BY <1>2, <2>5, <2>8, <2>9, <2>10, Changed
<1>. QED
  BY <1>1, <1>2 DEF F!createExclusive

LEMMA FillStep == ASSUME Inv, F!Fill PROVE Inv'
<1>0. run.pc = "fill" /\ run.pc \in Temporary /\ run.dir \in F!Dirs /\ run \in Runs /\ run.tmp \in 1 .. Len(disk.file)
  BY DEF F!Fill, F!At, Temporary, Inv, RunOK, Loose, Making, DiskOK, F!Disks
<1>1. CASE disk' = F!Cleaned /\ F!Broken
  BY <1>0, <1>1, BrokenOK, CleanedOK
<1>2. CASE disk' = [disk EXCEPT !.file[run.tmp] = F!Made(run.want, F!Mode)] /\ F!Goto("rename") /\ F!Still
  <2>1. /\ F!Made(run.want, F!Mode) \in F!Inodes /\ Sane(F!Made(run.want, F!Mode)) /\ F!Made(run.want,
           F!Mode).text = run.want
        /\ run.want \in Clean
    BY <1>0, MadeOK DEF Runs, F!Mode
  <2>2. DiskOK(disk') /\ RunOK(run, disk'.file) /\ disk'.file = [disk.file EXCEPT ![run.tmp] = F!Made(run.want, F!Mode)]
        /\ Len(disk'.file) = Len(disk.file)
    BY <1>0, <1>2, <2>1, InodeOK DEF Inv
  <2>3. disk'.entry = disk.entry /\ disk'.temp = disk.temp
    BY <1>2 DEF Inv, DiskOK, F!Disks
  <2>4. disk'.file[run.tmp].text \in Clean
    BY <1>0, <2>1, <2>2 DEF Inv, DiskOK, F!Disks
  <2>5. /\ run' \in Runs /\ run'.pc = "rename" /\ run'.op = run.op /\ run'.held = run.held /\ run'.tmp = run.tmp
        /\ run'.snap = run.snap /\ run'.created = run.created /\ run'.dir = run.dir /\ run'.old = run.old
           /\ run'.known = run.known
    BY <1>2, Onward
  <2>6. RunOK(run', disk'.file)
    BY <1>0, <2>2, <2>4, <2>5 DEF RunOK, Making
  <2>7. Known' /\ Temps'
    BY <1>0, <1>2, <2>3, <2>5 DEF Inv, Known, Looked, F!Still, Temps
  <2>. QED
    BY <1>2, <2>2, <2>6, <2>7, Changed
<1>. QED
  BY <1>1, <1>2 DEF F!Fill

LEMMA RenameStep == ASSUME Inv, F!Rename PROVE Inv'
<1>0. run.pc = "rename" /\ run.pc \in Temporary /\ run.dir \in F!Dirs /\ run \in Runs /\ run.tmp \in 1 .. Len(disk.file)
      /\ disk.file[run.tmp].text \in Clean
  BY DEF F!Rename, F!At, Temporary, Inv, RunOK, Loose, Making, DiskOK, F!Disks
<1>1. CASE disk' = F!Cleaned /\ F!Broken
  BY <1>0, <1>1, BrokenOK, CleanedOK
<1>2. CASE /\ disk' = [F!Cleaned EXCEPT !.entry[run.dir] = run.tmp]
           /\ run' = [run EXCEPT !.known = run.tmp, !.pc = "recheck"]
           /\ astray' = (astray \/ F!Displaces) /\ swapped' = FALSE
           /\ UNCHANGED <<kind, path, pending, rec, result, was, budget, disturbed, crashed>>
  <2>1. DiskOK(F!Cleaned) /\ F!Cleaned.file = disk.file /\ F!Cleaned.entry = disk.entry
        /\ (~crashed => NoTemps(F!Cleaned))
    BY <1>0, CleanedOK
  <2>2. disk.file[run.tmp].text.lines # F!Half.lines
    BY <1>0 DEF Clean
  <2>3. DiskOK(disk') /\ disk'.file = disk.file
    BY <1>0, <1>2, <2>1, <2>2, EntryOK
  <2>4. disk'.entry = [disk.entry EXCEPT ![run.dir] = run.tmp] /\ disk'.temp = F!Cleaned.temp
    BY <1>2, <2>1 DEF DiskOK, F!Disks
  <2>5. ~F!Displaces
    BY <1>0 DEF Inv, Known, Looked, F!Displaces
  <2>6. run.tmp \in Nat
    BY <1>0 DEF Runs
  <2>7. /\ run' \in Runs /\ run'.pc = "recheck" /\ run'.op = run.op /\ run'.held = run.held /\ run'.tmp = run.tmp
        /\ run'.snap = run.snap /\ run'.created = run.created /\ run'.dir = run.dir /\ run'.old = run.old
           /\ run'.known = run.tmp
    BY <1>0, <1>2, <2>6 DEF Runs, Pcs, Looked
  <2>8. RunOK(run', disk'.file)
    BY <1>0, <2>3, <2>7 DEF Inv, RunOK, Making
  <2>9. Known' /\ Temps'
    BY <1>0, <1>2, <2>1, <2>4, <2>7 DEF Inv, Known, Looked, Temps, NoTemps, DiskOK, F!Disks
  <2>. QED
    BY <1>2, <2>3, <2>5, <2>8, <2>9 DEF Inv, Scalars
<1>. QED
  BY <1>1, <1>2 DEF F!Rename

\* Undoing what was put there: it is still there unless an entry was moved.
LEMMA FailingOK ==
    ASSUME Inv, F!afterFailedRollback, budget' \in Budgets, run.pc \in {"recheck", "readback", "metadata"}
    PROVE  Inv'
<1>0. run.pc \notin Temporary /\ run.pc \in Looked /\ run.dir \in F!Dirs /\ run \in Runs
  BY DEF Temporary, Looked, Inv, RunOK, Loose
<1>1. CASE F!UndoFails
  BY <1>0, <1>1, Ended, NoneLeft DEF F!UndoFails, Inv
<1>2. CASE F!Rollback
  <2>1. PICK stage \in {"temp", "unmake"} : run' = [run EXCEPT !.undo = TRUE, !.want = run.old, !.pc = stage]
    BY <1>2 DEF F!Rollback
  <2>2. run.old \in Clean /\ stage \in Pcs
    BY <1>0 DEF Runs, Pcs, Looked, Later
  <2>3. /\ run' \in Runs /\ run'.pc = stage /\ run'.op = run.op /\ run'.held = run.held /\ run'.tmp = run.tmp
        /\ run'.snap = run.snap /\ run'.created = run.created /\ run'.dir = run.dir /\ run'.old = run.old
           /\ run'.known = run.known
    BY <1>0, <2>1, <2>2 DEF Runs
  <2>4. RunOK(run', disk'.file)
    BY <1>0, <1>2, <2>3 DEF Inv, RunOK, Making, F!Rollback
  <2>5. Known' /\ Temps'
    BY <1>0, <1>2, <2>3, NoneLeft DEF Inv, Known, Looked, F!Rollback, Temps, NoTemps
  <2>. QED
    BY <1>2, <2>4, <2>5 DEF F!Rollback, Inv, Scalars
<1>. QED
  BY <1>1, <1>2 DEF F!afterFailedRollback

LEMMA OverOK ==
    ASSUME Inv, NEW how, F!End(how), UNCHANGED <<disk, pending, budget>>, run.pc \notin Temporary
    PROVE  Inv'
BY Ended, NoneLeft DEF Inv, Scalars

\* A step on to where nothing but the temporary file's number is asked for.
LEMMA Verified ==
    ASSUME Inv, NEW stage \in {"readback", "metadata", "keep"}, F!Goto(stage), F!Quiet, run.pc \in {"recheck",
           "readback", "metadata"}
    PROVE  Inv'
<1>0. run.pc \notin Temporary /\ run.pc \in Looked /\ run.dir \in F!Dirs /\ run \in Runs /\ run.tmp # 0
  BY DEF Temporary, Looked, Inv, RunOK, Loose, Making
<1>1. /\ run' \in Runs /\ run'.pc = stage /\ run'.op = run.op /\ run'.held = run.held /\ run'.tmp = run.tmp
      /\ run'.snap = run.snap /\ run'.created = run.created /\ run'.dir = run.dir /\ run'.old = run.old
         /\ run'.known = run.known
  BY Onward
<1>2. RunOK(run', disk.file)
  BY <1>0, <1>1 DEF Inv, RunOK, Making
<1>3. Known'
  BY <1>0, <1>1 DEF Inv, Known, Looked, F!Quiet, F!Still
<1>. QED
  BY <1>0, <1>2, <1>3, Quieted

LEMMA RecheckStep == ASSUME Inv, F!Recheck \/ F!Readback \/ F!MetadataSecure PROVE Inv'
<1>0. run.pc \in {"recheck", "readback", "metadata"} /\ run.pc \notin Temporary /\ budget \in Budgets
  BY DEF F!Recheck, F!Readback, F!MetadataSecure, F!At, Temporary, Inv, Scalars
<1>1. CASE F!afterFailedRollback /\ UNCHANGED budget
  BY <1>0, <1>1, FailingOK
<1>2. CASE F!afterFailedRollback /\ F!Fault
  BY <1>0, <1>2, FailingOK, FaultOK
<1>3. CASE F!Undone
  BY <1>0, <1>3, OverOK DEF F!Undone
<1>4. ASSUME NEW stage \in {"readback", "metadata", "keep"}, F!Goto(stage), F!Quiet PROVE Inv'
  BY <1>0, <1>4, Verified
<1>5. CASE F!Recheck
  BY <1>1, <1>2, <1>3, <1>4, <1>5 DEF F!Recheck
<1>6. CASE F!Readback
  BY <1>1, <1>2, <1>3, <1>4, <1>6 DEF F!Readback
<1>7. CASE F!MetadataSecure
  BY <1>1, <1>2, <1>3, <1>4, <1>7 DEF F!MetadataSecure
<1>. QED
  BY <1>5, <1>6, <1>7

LEMMA SnapshotOK ==
    ASSUME NEW f, RunOK(run, f), NEW removed \in BOOLEAN, NEW n \in Nat,
           ~removed /\ n = 0 => run.old = F!Nothing
    PROVE  SnapOK(F!Snapshot(removed, n)) /\ F!Snapshot(removed, n) # F!NoSnapshot
<1>1. F!Snapshot(removed, n) \in Snaps
  BY DEF Snaps, F!Snapshot, RunOK, Runs
<1>2. F!Snapshot(removed, n).removed = removed /\ F!Snapshot(removed, n).committed = n /\ F!Snapshot(removed,
      n).old = run.old
  BY DEF F!Snapshot
<1>3. F!Snapshot(removed, n).rel # "none"
  BY DEF F!Snapshot, RunOK, Runs
<1>. QED
  BY <1>1, <1>2, <1>3 DEF SnapOK, F!NoSnapshot

LEMMA KeepStep == ASSUME Inv, F!Keep PROVE Inv'
<1>0. run.pc = "keep" /\ run.pc \notin Temporary /\ run.dir \in F!Dirs /\ run \in Runs /\ run.tmp \in Nat
  BY DEF F!Keep, F!At, Temporary, Inv, RunOK, Loose, Runs
<1>1. SnapOK(pending') /\ pending' # F!NoSnapshot
  BY <1>0, SnapshotOK DEF F!Keep, Inv, RunOK
<1>2. CASE run' = F!Idle
  <2>1. RunOK(run', disk'.file) /\ run'.pc = "idle"
    BY <1>2, IdleOK DEF F!Keep, Inv, DiskOK, F!Disks, F!Idle
  <2>2. Known' /\ Temps'
    BY <1>0, <2>1, NoneLeft DEF F!Keep, Inv, Known, Looked, Temps, NoTemps
  <2>. QED
    BY <1>1, <2>1, <2>2 DEF F!Keep, Inv, Scalars
<1>3. CASE F!Goto("purge")
  <2>1. /\ run' \in Runs /\ run'.pc = "purge" /\ run'.op = run.op /\ run'.held = run.held /\ run'.tmp = run.tmp
        /\ run'.snap = run.snap /\ run'.created = run.created /\ run'.dir = run.dir
    BY <1>3, Onward
  <2>2. RunOK(run', disk'.file)
    BY <1>0, <2>1 DEF F!Keep, Inv, RunOK, Making
  <2>3. Known' /\ Temps'
    BY <1>0, <1>1, <2>1, NoneLeft DEF F!Keep, Inv, Known, Looked, Temps, NoTemps
  <2>. QED
    BY <1>1, <2>2, <2>3 DEF F!Keep, Inv, Scalars
<1>. QED
  BY <1>2, <1>3 DEF F!Keep

LEMMA RemoveStep == ASSUME Inv, F!Remove PROVE Inv'
<1>0. run.pc = "remove" /\ run.pc \notin Temporary /\ run.dir \in F!Dirs /\ run \in Runs
  BY DEF F!Remove, F!At, Temporary, Inv, RunOK, Loose
<1>1. CASE F!Refuse
  BY <1>0, <1>1, Refused
<1>2. CASE F!Broken /\ UNCHANGED disk
  BY <1>0, <1>2, BrokenOK, NoneLeft DEF Inv
<1>3. CASE /\ disk' = [disk EXCEPT !.entry[run.dir] = 0]
           /\ pending' = F!Snapshot(TRUE, disk.entry[run.dir])
           /\ astray' = (astray \/ F!Displaces) /\ F!Goto("purge")
           /\ UNCHANGED <<kind, path, rec, result, was, budget, disturbed, swapped, crashed>>
  <2>1. 0 \in 0 .. Len(disk.file) /\ disk.entry[run.dir] \in Nat
    BY <1>0 DEF Inv, DiskOK, F!Disks
  <2>2. DiskOK(disk') /\ disk'.file = disk.file
    BY <1>0, <1>3, <2>1, EntryOK DEF Inv
  <2>3. disk'.temp = disk.temp
    BY <1>3 DEF Inv, DiskOK, F!Disks
  <2>4. SnapOK(pending') /\ pending' # F!NoSnapshot
    BY <1>3, <2>1, SnapshotOK DEF Inv
  <2>5. ~F!Displaces
    BY <1>0 DEF Inv, Known, Looked, F!Displaces
  <2>6. /\ run' \in Runs /\ run'.pc = "purge" /\ run'.op = run.op /\ run'.held = run.held /\ run'.tmp = run.tmp
        /\ run'.snap = run.snap /\ run'.created = run.created /\ run'.dir = run.dir
    BY <1>3, Onward
  <2>7. RunOK(run', disk'.file)
    BY <1>0, <2>2, <2>6 DEF Inv, RunOK, Making
  <2>8. Known' /\ Temps'
    BY <1>0, <1>3, <2>3, <2>4, <2>6, NoneLeft DEF Inv, Known, Looked, Temps, NoTemps
  <2>. QED
    BY <1>3, <2>2, <2>4, <2>5, <2>7, <2>8 DEF Inv, Scalars
<1>. QED
  BY <1>1, <1>2, <1>3 DEF F!Remove

LEMMA EmptiedOK ==
    ASSUME F!FileAssumption, Inv, NEW x \in F!Dirs
    PROVE  DiskOK([disk EXCEPT !.bak[x] = <<>>]) /\ [disk EXCEPT !.bak[x] = <<>>].temp = disk.temp
<1>1. \A y \in F!Dirs : Len(disk.bak[y]) <= MaxBackups
  BY DEF Inv, DiskOK
<1>2. <<>> \in Seq(Nat) /\ Len(<<>>) <= MaxBackups
  BY DEF F!FileAssumption
<1>. QED
  BY <1>2, BackupsOK DEF Inv, DiskOK, F!Disks

LEMMA PurgeStep == ASSUME F!FileAssumption, Inv, F!purgeBackups \/ F!PurgeBackups PROVE Inv'
<1>0. run.pc = "purge" /\ run.pc \notin Temporary /\ run.dir \in F!Dirs /\ run \in Runs
  BY DEF F!purgeBackups, F!PurgeBackups, F!At, Temporary, Inv, RunOK, Loose
<1>1. ASSUME NEW x \in F!Dirs, disk' = [disk EXCEPT !.bak[x] = <<>>], UNCHANGED <<pending, budget>>, NEW how, F!End(how)
      PROVE  Inv'
  BY <1>0, <1>1, EmptiedOK, Ended, NoneLeft DEF NoTemps, Inv, Scalars
<1>2. CASE F!purgeBackups
  <2>1. CASE disk' = [disk EXCEPT !.bak[run.dir] = <<>>] /\ UNCHANGED budget
    BY <1>0, <1>1, <1>2, <2>1 DEF F!purgeBackups
  <2>2. CASE F!Fault /\ UNCHANGED disk
    BY <1>0, <1>2, <2>2, FaultOK, Ended, NoneLeft DEF F!purgeBackups, Inv
  <2>. QED
    BY <1>2, <2>1, <2>2 DEF F!purgeBackups
<1>3. CASE F!PurgeBackups
  <2>1. ASSUME NEW p \in {F!Place(disk, run.rel)}, p # "none", disk' = [disk EXCEPT !.bak[p] = <<>>], F!End(F!Cleared),
               UNCHANGED <<pending, budget>>
        PROVE  Inv'
    <3>1. run.rel \in {"home", "sub"}
      BY <1>0 DEF Runs
    <3>2. p \in F!Dirs
      BY <2>1, <3>1, LeafIsThere DEF Inv
    <3>. QED
      BY <1>1, <2>1, <3>2
  <2>2. CASE budget' = [budget EXCEPT !.mishaps = IF @ > 0 THEN @ - 1 ELSE 0, !.missed = @ + 1]
             /\ (run.how = "same" => F!End("failed") /\ UNCHANGED <<disk, pending, rec>>)
             /\ (run.how # "same" =>
                   /\ run' = [F!Idle EXCEPT !.op = "restore", !.pc = "resolve", !.undo = TRUE, !.snap = pending]
                   /\ pending' = F!NoSnapshot
                   /\ UNCHANGED <<kind, path, disk, rec, result, was, disturbed, swapped, astray, crashed>>)
    <3>1. budget' \in Budgets
      <4>1. budget \in Budgets /\ budget.mishaps \in Nat /\ budget.missed \in Nat
        BY DEF Inv, Scalars, Budgets
      <4>2. (IF budget.mishaps > 0 THEN budget.mishaps - 1 ELSE 0) \in Nat /\ budget.missed + 1 \in Nat
        BY <4>1
      <4>3. \A m, n \in Nat : [budget EXCEPT !.mishaps = m, !.missed = n] \in Budgets
        BY <4>1 DEF Budgets
      <4>. QED
        BY <2>2, <4>2, <4>3
    <3>2. CASE run.how = "same"
      BY <1>0, <2>2, <3>1, <3>2, Ended, NoneLeft DEF Inv
    <3>3. CASE run.how # "same"
      <4>1. F!Idle \in Runs
        BY IdleOK DEF Inv, DiskOK, F!Disks, RunOK
      <4>2. pending \in Snaps \union {F!NoSnapshot} /\ pending # F!NoSnapshot
        BY <1>0, <3>3 DEF Inv, SnapOK, Known
      <4>3. [F!Idle EXCEPT !.op = "restore", !.pc = "resolve"] \in Runs
        BY <4>1 DEF Runs, Pcs, Loose
      <4>4. \A r \in Runs : [r EXCEPT !.undo = TRUE, !.snap = pending] \in Runs
        BY <4>2 DEF Runs
      <4>5. run' \in Runs
        BY <2>2, <3>3, <4>3, <4>4
      <4>6. run'.pc = "resolve" /\ run'.snap = pending /\ run'.held = 0 /\ run'.tmp = 0 /\ run'.created = FALSE
        <5>1. F!Idle.held = 0 /\ F!Idle.tmp = 0 /\ F!Idle.created = FALSE
          BY DEF F!Idle
        <5>. QED
          BY <2>2, <3>3, <4>1, <5>1 DEF Runs
      <4>7. RunOK(run', disk'.file)
        <5>1. Len(disk.file) \in Nat
          BY DEF Inv, DiskOK, F!Disks
        <5>. QED
          BY <2>2, <3>3, <4>2, <4>5, <4>6, <5>1 DEF RunOK, Inv, Loose, Making
      <4>8. Known' /\ Temps'
        BY <1>0, <2>2, <3>3, <4>6, NoneLeft DEF Inv, Known, Looked, Temps, NoTemps
      <4>. QED
        BY <2>2, <3>1, <3>3, <4>7, <4>8 DEF Inv, Scalars, SnapOK
    <3>. QED
      BY <3>2, <3>3
  <2>. QED
    BY <1>3, <2>1, <2>2 DEF F!PurgeBackups
<1>. QED
  BY <1>2, <1>3

-----------------------------------------------------------------------------
(* RestoreSnapshot.                                                        *)
LEMMA CheckStep == ASSUME Inv, F!Check PROVE Inv'
<1>0. run.pc = "check" /\ run.pc \notin Temporary /\ run.dir \in F!Dirs /\ run \in Runs
      /\ run.op = "restore" /\ run.snap \in Snaps /\ SnapOK(run.snap) /\ run.snap # F!NoSnapshot
  BY DEF F!Check, F!At, Temporary, Inv, RunOK, Loose, SnapOK
<1>1. CASE F!Refuse
  BY <1>0, <1>1, Refused
<1>2. CASE /\ F!verifyCommitted(disk.entry[run.dir])
           /\ run' = [run EXCEPT !.old = run.snap.old, !.private = run.snap.private, !.want = run.snap.old,
                          !.known = IF run.snap.removed THEN 0 ELSE run.snap.committed,
                          !.pc = IF run.snap.old = F!Nothing THEN "unmake" ELSE "temp"]
           /\ swapped' = FALSE
           /\ UNCHANGED <<kind, path, disk, pending, rec, result, was, budget, disturbed, astray, crashed>>
  <2> DEFINE known == IF run.snap.removed THEN 0 ELSE run.snap.committed
             stage == IF run.snap.old = F!Nothing THEN "unmake" ELSE "temp"
  <2>1. run.snap.old \in Clean /\ run.snap.private \in BOOLEAN /\ known \in Nat /\ stage \in {"unmake", "temp"}
    BY <1>0 DEF Snaps
  <2>2. stage \in Pcs
    BY <2>1 DEF Pcs, Later, Looked
  <2> HIDE DEF known, stage
  <2>3. run' = [run EXCEPT !.old = run.snap.old, !.private = run.snap.private, !.want = run.snap.old, !.known = known,
        !.pc = stage]
    BY <1>2 DEF known, stage
  <2>4. \A r \in Runs : [r EXCEPT !.old = run.snap.old, !.private = run.snap.private, !.want = run.snap.old] \in Runs
    BY <2>1 DEF Runs
  <2>5. \A r \in Runs : [r EXCEPT !.known = known, !.pc = stage] \in Runs
    BY <2>1, <2>2 DEF Runs
  <2>6. run' \in Runs
    BY <1>0, <2>3, <2>4, <2>5
  <2>7. /\ run'.pc = stage /\ run'.op = run.op /\ run'.held = run.held /\ run'.tmp = run.tmp
        /\ run'.snap = run.snap /\ run'.created = run.created /\ run'.dir = run.dir /\ run'.known = known
    BY <1>0, <2>3 DEF Runs
  <2>8. RunOK(run', disk'.file)
    BY <1>0, <1>2, <2>1, <2>6, <2>7 DEF Inv, RunOK, Making
  <2>9. ASSUME stage = "temp" PROVE Known'
    <3>1. run.snap.removed \/ run.snap.committed # 0
      BY <1>0, <2>9 DEF stage, SnapOK
    <3>2. disk.entry[run.dir] = known
      BY <1>2, <2>9, <3>1 DEF stage, known, F!verifyCommitted
    <3>. QED
      BY <1>2, <2>7, <2>9, <3>2 DEF Known
  <2>10. ASSUME stage = "unmake" PROVE Known'
    <3>1. disk.entry[run.dir] \in {known, 0} \/ run.snap.committed = 0
      BY <1>2, <2>10 DEF stage, known, F!verifyCommitted
    <3>2. run.snap.committed = 0 => F!FoundGone'
      BY <1>0, <2>7 DEF F!FoundGone
    <3>. QED
      BY <1>2, <2>7, <2>10, <3>1, <3>2 DEF Known, Looked
  <2>11. Temps'
    BY <1>0, <1>2, NoneLeft DEF Inv, Temps, NoTemps
  <2>. QED
    BY <1>2, <2>1, <2>8, <2>9, <2>10, <2>11 DEF Inv, Scalars
<1>. QED
  BY <1>1, <1>2 DEF F!Check

LEMMA UnmakeStep == ASSUME Inv, F!Unmake PROVE Inv'
<1>0. run.pc = "unmake" /\ run.pc \notin Temporary /\ run.dir \in F!Dirs /\ run \in Runs
  BY DEF F!Unmake, F!At, Temporary, Inv, RunOK, Loose
<1>1. CASE F!UndoFails /\ F!Fault
  BY <1>0, <1>1, FaultOK, Ended, NoneLeft DEF F!UndoFails, Inv
<1>2. CASE /\ disk' = [disk EXCEPT !.entry[run.dir] = 0]
           /\ astray' = (astray \/ (disk.entry[run.dir] # 0 /\ ~F!FoundGone /\ F!Displaces))
           /\ run' = F!Idle
           /\ UNCHANGED <<kind, path, pending, rec, was, budget, disturbed, swapped, crashed>>
  <2>1. 0 \in 0 .. Len(disk.file)
    BY DEF Inv, DiskOK, F!Disks
  <2>2. DiskOK(disk') /\ disk'.file = disk.file /\ disk'.temp = disk.temp
    <3>1. DiskOK(disk') /\ disk'.file = disk.file
      BY <1>0, <1>2, <2>1, EntryOK DEF Inv
    <3>2. disk'.temp = disk.temp
      BY <1>2 DEF Inv, DiskOK, F!Disks
    <3>. QED
      BY <3>1, <3>2
  <2>3. ~(disk.entry[run.dir] # 0 /\ ~F!FoundGone /\ F!Displaces)
    BY <1>0 DEF Inv, Known, F!Displaces
  <2>4. RunOK(run', disk'.file) /\ run'.pc = "idle"
    BY <1>2, <2>2, IdleOK DEF DiskOK, F!Disks, F!Idle
  <2>5. Known' /\ Temps'
    BY <1>0, <1>2, <2>2, <2>4, NoneLeft DEF Inv, Known, Looked, Temps, NoTemps
  <2>. QED
    BY <1>2, <2>2, <2>3, <2>4, <2>5 DEF Inv, Scalars
<1>. QED
  BY <1>1, <1>2 DEF F!Unmake

-----------------------------------------------------------------------------
(* OpenLock and ProbeWritable.                                             *)
LEMMA NewOK == F!File(F!Text(0, 0), "agent", TRUE, "agent") \in F!Inodes /\ Sane(F!File(F!Text(0, 0), "agent", TRUE,
               "agent"))
               /\ F!File(F!Text(0, 0), "agent", TRUE, "agent").text \in Clean
BY CleanTexts DEF F!File, F!Inodes, Sane, F!Texts, F!Text, F!Roots, F!Parties

LEMMA OpenLockStep == ASSUME Inv, F!OpenLock PROVE Inv'
<1>0. run.pc = "lock" /\ run.pc \notin Temporary /\ run.dir \in F!Dirs /\ run \in Runs
      /\ disk.entry[run.dir] \in 0 .. Len(disk.file) /\ Len(disk.file) \in Nat
  BY DEF F!OpenLock, F!At, Temporary, Inv, RunOK, Loose, DiskOK, F!Disks
<1>1. CASE F!Refuse
  BY <1>0, <1>1, Refused
<1>2. CASE disk.entry[run.dir] # 0 /\ run' = [run EXCEPT !.held = disk.entry[run.dir], !.pc = "lockCheck"] /\ F!Quiet
  <2>1. disk.entry[run.dir] \in Nat
    BY <1>0
  <2>2. /\ run' \in Runs /\ run'.pc = "lockCheck" /\ run'.op = run.op /\ run'.held = disk.entry[run.dir]
           /\ run'.tmp = run.tmp
        /\ run'.snap = run.snap /\ run'.dir = run.dir /\ run'.created = run.created
    BY <1>0, <1>2, <2>1 DEF Runs, Pcs, Later
  <2>3. RunOK(run', disk.file) /\ Known'
    BY <1>0, <1>2, <2>2 DEF Inv, RunOK, Making, Known, Looked
  <2>. QED
    BY <1>0, <1>2, <2>3, Quieted
<1>3. CASE /\ disk.entry[run.dir] = 0
           /\ disk' = [F!Add(disk, F!File(F!Text(0, 0), "agent", TRUE,
              "agent")) EXCEPT !.entry[run.dir] = Len(disk.file) + 1]
           /\ run' = [run EXCEPT !.held = Len(disk.file) + 1, !.created = TRUE, !.pc = "lockCheck"] /\ F!Still
  <2> DEFINE f == F!File(F!Text(0, 0), "agent", TRUE, "agent")
             d == F!Add(disk, f)
             n == Len(disk.file) + 1
  <2>1. f \in F!Inodes /\ Sane(f) /\ f.text \in Clean
    BY NewOK
  <2>2. DiskOK(d) /\ RunOK(run, d.file) /\ Len(d.file) = n /\ d.file = Append(disk.file, f)
    BY <2>1, AddOK DEF Inv
  <2>3. d.temp = disk.temp
    BY DEF F!Add, Inv, DiskOK, F!Disks
  <2> HIDE DEF f, d
  <2>4. n \in Nat /\ n # 0 /\ n \in 0 .. Len(d.file)
    BY <1>0, <2>2
  <2>5. d.file[n] = f
    BY <1>0, <2>1, <2>2 DEF Inv, DiskOK, F!Disks
  <2>6. d.file[n].text.lines # F!Half.lines
    BY <2>1, <2>5 DEF Clean
  <2>7. disk' = [d EXCEPT !.entry[run.dir] = n] /\ run' = [run EXCEPT !.held = n, !.created = TRUE, !.pc = "lockCheck"]
    BY <1>3 DEF d, f
  <2> HIDE DEF n
  <2>8. DiskOK(disk') /\ disk'.file = d.file
    BY <1>0, <2>2, <2>4, <2>6, <2>7, EntryOK
  <2>9. disk'.temp = disk.temp
    BY <2>2, <2>3, <2>7 DEF DiskOK, F!Disks
  <2>10. /\ run' \in Runs /\ run'.pc = "lockCheck" /\ run'.op = run.op /\ run'.held = n /\ run'.tmp = run.tmp
         /\ run'.snap = run.snap /\ run'.dir = run.dir
    BY <1>0, <2>4, <2>7 DEF Runs, Pcs, Later
  <2>11. RunOK(run', disk'.file)
    BY <1>0, <2>1, <2>2, <2>4, <2>5, <2>8, <2>10 DEF RunOK, Making
  <2>12. Known' /\ Temps'
    BY <1>0, <1>3, <2>9, <2>10, NoneLeft DEF Inv, Known, Looked, Temps, NoTemps, F!Still
  <2>. QED
    BY <1>3, <2>8, <2>11, <2>12, Changed
<1>. QED
  BY <1>1, <1>2, <1>3 DEF F!OpenLock

LEMMA LockCheckStep == ASSUME Inv, F!LockCheck PROVE Inv'
<1>0. run.pc = "lockCheck" /\ run.pc \notin Temporary /\ run.dir \in F!Dirs /\ run \in Runs
      /\ run.held \in 0 .. Len(disk.file)
      /\ run.held # 0 /\ (run.created => disk.file[run.held].text \in Clean)
  BY DEF F!LockCheck, F!At, Temporary, Inv, RunOK, Loose
<1>1. CASE F!Refuse
  BY <1>0, <1>1, Refused
<1>2. CASE (run.created \/ F!IsOurs(run.held)) /\ F!Goto("lockMetadata") /\ F!Quiet
  <2>1. disk.file[run.held].text \in Clean
    BY <1>0, <1>2, OursIsClean
  <2>2. RunOK(run', disk.file)
    BY <1>0, <1>2, <2>1, GotoOK DEF Pcs, Later, Making
  <2>3. Known'
    BY <1>0, <1>2 DEF F!Goto, Runs, Known, Looked
  <2>. QED
    BY <1>0, <1>2, <2>2, <2>3, Quieted
<1>. QED
  BY <1>1, <1>2 DEF F!LockCheck

LEMMA LockMetadataStep == ASSUME Inv, F!LockMetadata PROVE Inv'
<1>0. run.pc = "lockMetadata" /\ run.pc \notin Temporary /\ run.dir \in F!Dirs /\ run \in Runs
      /\ run.held \in 1 .. Len(disk.file)
      /\ disk.file[run.held].text \in Clean
  BY DEF F!LockMetadata, F!At, Temporary, Inv, RunOK, Loose, DiskOK, F!Disks
<1>1. CASE /\ disk' = [disk EXCEPT !.file[run.held] = [@ EXCEPT !.owner = "user", !.private = TRUE]]
           /\ F!End("locked") /\ UNCHANGED <<pending, rec, budget>>
  <2> DEFINE f == [disk.file[run.held] EXCEPT !.owner = "user", !.private = TRUE]
  <2>1. disk.file[run.held] \in F!Inodes /\ Sane(disk.file[run.held])
    BY <1>0 DEF Inv, DiskOK, F!Disks
  <2>2. f \in F!Inodes /\ f.text = disk.file[run.held].text /\ f.by = disk.file[run.held].by
    BY <2>1 DEF F!Inodes, F!Parties
  <2>3. Sane(f)
    BY <1>0, <2>1, <2>2 DEF Sane
  <2>4. disk' = [disk EXCEPT !.file[run.held] = f]
    BY <1>1
  <2>5. DiskOK(disk') /\ disk'.temp = disk.temp
    <3> HIDE DEF f
    <3>. QED
      <4>1. DiskOK(disk')
        BY <1>0, <2>2, <2>3, <2>4, InodeOK DEF Inv
      <4>2. disk'.temp = disk.temp
        BY <2>4 DEF Inv, DiskOK, F!Disks
      <4>. QED
        BY <4>1, <4>2
  <2>. QED
    BY <1>0, <1>1, <2>5, Ended, NoneLeft DEF NoTemps, Inv, Scalars
<1>2. CASE /\ disk' = IF run.created /\ disk.entry[run.dir] = run.held THEN [disk EXCEPT !.entry[run.dir] = 0] ELSE disk
           /\ F!Broken
  <2>1. 0 \in 0 .. Len(disk.file)
    BY <1>0
  <2>2. DiskOK([disk EXCEPT !.entry[run.dir] = 0]) /\ [disk EXCEPT !.entry[run.dir] = 0].temp = disk.temp
    <3>1. DiskOK([disk EXCEPT !.entry[run.dir] = 0])
      BY <1>0, <2>1, EntryOK DEF Inv
    <3>2. [disk EXCEPT !.entry[run.dir] = 0].temp = disk.temp
      BY DEF Inv, DiskOK, F!Disks
    <3>. QED
      BY <3>1, <3>2
  <2>. QED
    BY <1>0, <1>2, <2>2, BrokenOK, NoneLeft DEF NoTemps, Inv
<1>. QED
  BY <1>1, <1>2 DEF F!LockMetadata

LEMMA ProbeStep == ASSUME Inv, F!Probe \/ F!Unprobe PROVE Inv'
<1>0. run.dir \in F!Dirs /\ run \in Runs
  BY DEF F!Probe, F!Unprobe, F!At, Inv, RunOK, Loose
<1>1. CASE F!Probe
  <2>0. run.pc = "probe" /\ run.pc \notin Temporary
    BY <1>1 DEF F!Probe, F!At, Temporary
  <2>1. CASE F!Broken /\ UNCHANGED disk
    BY <2>0, <2>1, BrokenOK, NoneLeft DEF Inv
  <2>2. CASE /\ disk' = [F!Add(disk, F!File(F!Text(0, 0), "agent", TRUE,
                "agent")) EXCEPT !.temp[run.dir] = Len(disk.file) + 1]
             /\ F!Goto("unprobe") /\ F!Still
    <3> DEFINE d == F!Add(disk, F!File(F!Text(0, 0), "agent", TRUE, "agent"))
    <3>1. DiskOK(d) /\ RunOK(run, d.file)
      BY NewOK, AddOK DEF Inv
    <3>2. d.temp = disk.temp /\ Len(disk.file) + 1 \in Nat
      BY DEF F!Add, Inv, DiskOK, F!Disks
    <3>3. disk' = [d EXCEPT !.temp[run.dir] = Len(disk.file) + 1]
      BY <2>2
    <3> HIDE DEF d
    <3>4. DiskOK(disk') /\ disk'.file = d.file
      BY <1>0, <3>1, <3>2, <3>3, TempOK
    <3>5. \A x \in F!Dirs : x # run.dir => disk'.temp[x] = disk.temp[x]
      BY <1>0, <3>1, <3>2, <3>3 DEF DiskOK, F!Disks
    <3>6. /\ run' \in Runs /\ run'.pc = "unprobe" /\ run'.op = run.op /\ run'.held = run.held /\ run'.tmp = run.tmp
          /\ run'.snap = run.snap /\ run'.dir = run.dir /\ run'.created = run.created
      BY <1>0, <2>2 DEF F!Goto, Runs, Pcs, Later
    <3>7. RunOK(run', disk'.file) /\ Known'
      BY <1>0, <2>0, <3>1, <3>4, <3>6 DEF RunOK, Making, Known, Looked
    <3>8. Temps'
      <4>1. ~crashed => NoTemps(disk)
        BY <2>0, NoneLeft DEF Inv
      <4>2. crashed' = crashed
        BY <2>2 DEF F!Still
      <4>. QED
        BY <3>5, <3>6, <4>1, <4>2 DEF Temps, NoTemps
    <3>. QED
      BY <2>2, <3>4, <3>7, <3>8, Changed
  <2>. QED
    BY <1>1, <2>1, <2>2 DEF F!Probe
<1>2. CASE F!Unprobe
  <2>1. run.pc \in Temporary /\ disk' = F!Cleaned
    BY <1>2 DEF F!Unprobe, F!At, Temporary
  <2>2. CASE F!End("probed") /\ UNCHANGED <<pending, rec, budget>>
    BY <2>1, <2>2, CleanedOK, Ended DEF Inv, Scalars
  <2>3. CASE F!Broken
    BY <2>1, <2>3, CleanedOK, BrokenOK
  <2>. QED
    BY <1>2, <2>2, <2>3 DEF F!Unprobe
<1>. QED
  BY <1>1, <1>2

-----------------------------------------------------------------------------
(* The user, and the end of the process.                                   *)
LEMMA MovedOK ==
    ASSUME Inv, NEW d, NEW entries \in BOOLEAN, F!Moved(d, entries), DiskOK(d), RunOK(run, d.file), d.temp = disk.temp,
           ~entries => d.entry = disk.entry
    PROVE  Inv'
<1>1. budget' \in Budgets
  <2>1. budget \in Budgets /\ budget.moves \in Nat /\ budget.moved \in Nat
    BY DEF Inv, Scalars, Budgets
  <2>2. budget.moves - 1 \in Nat /\ budget.moved + 1 \in Nat
    BY <2>1 DEF F!Moved
  <2>3. \A m, n \in Nat : [budget EXCEPT !.moves = m, !.moved = n] \in Budgets
    BY <2>1 DEF Budgets
  <2>. QED
    BY <2>2, <2>3 DEF F!Moved
<1>2. Known' /\ Temps'
  BY DEF F!Moved, Inv, Known, F!FoundGone, Temps
<1>. QED
  BY <1>1, <1>2 DEF F!Moved, Inv, Scalars

\* A new inode takes the place of what a directory held.
LEMMA PutOK ==
    ASSUME Inv, NEW x \in F!Dirs, NEW f \in F!Inodes, Sane(f), f.text.lines # F!Half.lines,
           F!Moved([F!Add(disk, f) EXCEPT !.entry[x] = Len(disk.file) + 1], TRUE)
    PROVE  Inv'
<1> DEFINE d == F!Add(disk, f)
           n == Len(disk.file) + 1
<1>1. DiskOK(d) /\ RunOK(run, d.file) /\ Len(d.file) = n /\ d.file = Append(disk.file, f)
  BY AddOK DEF Inv
<1>2. d.temp = disk.temp
  BY DEF F!Add, Inv, DiskOK, F!Disks
<1>3. F!Moved([d EXCEPT !.entry[x] = n], TRUE)
  OBVIOUS
<1> HIDE DEF d
<1>4. n \in 0 .. Len(d.file) /\ d.file[n] = f
  BY <1>1 DEF Inv, DiskOK, F!Disks
<1> HIDE DEF n
<1>5. DiskOK([d EXCEPT !.entry[x] = n]) /\ [d EXCEPT !.entry[x] = n].file = d.file
  BY <1>1, <1>4, EntryOK
<1>6. [d EXCEPT !.entry[x] = n].temp = disk.temp
  BY <1>1, <1>2 DEF DiskOK, F!Disks
<1>. QED
  BY <1>1, <1>3, <1>5, <1>6, MovedOK

\* An inode's contents or mode change.
LEMMA WroteOK ==
    ASSUME Inv, NEW i \in 1 .. Len(disk.file), NEW f \in F!Inodes, Sane(f), f.text \in Clean
           \/ f.text = disk.file[i].text,
           F!Moved([disk EXCEPT !.file[i] = f], FALSE)
    PROVE  Inv'
<1>1. DiskOK([disk EXCEPT !.file[i] = f]) /\ RunOK(run, [disk EXCEPT !.file[i] = f].file)
  BY InodeOK DEF Inv
<1>2. [disk EXCEPT !.file[i] = f].temp = disk.temp /\ [disk EXCEPT !.file[i] = f].entry = disk.entry
  BY DEF Inv, DiskOK, F!Disks
<1>. QED
  BY <1>1, <1>2, MovedOK

LEMMA UserStep == ASSUME Inv, F!Edit \/ F!Save \/ F!Delete \/ F!Chmod \/ F!Relink \/ F!SwapDirectory
                  \/ F!RootWrites PROVE Inv'
<1>1. F!Version \in Int /\ F!Version >= 2
  BY DEF F!Version, Inv, Scalars, Budgets
<1>2. /\ F!Target(disk) \in 0 .. Len(disk.file) /\ path \in {"home", "sub"} /\ disk \in F!Disks
      /\ F!Place(disk, path) \in F!Dirs \union {"none"} /\ (F!Leaf(disk, path) # 0 => F!Place(disk, path) \in F!Dirs)
      /\ F!Visible(disk) \in F!Texts
  BY VisibleIsText, LeafIsThere DEF Inv, Scalars, DiskOK
<1>3. CASE F!Edit
  <2> DEFINE i == F!Target(disk)
             f == [disk.file[i] EXCEPT !.text = [disk.file[i].text EXCEPT !.lines = F!Version]]
  <2>1. i \in 1 .. Len(disk.file)
    BY <1>2, <1>3 DEF F!Edit, F!KindOf, F!Disks
  <2>2. disk.file[i] \in F!Inodes /\ Sane(disk.file[i])
    BY <1>2, <2>1 DEF Inv, DiskOK, F!Disks
  <2>3. [disk.file[i].text EXCEPT !.lines = F!Version] \in Clean
    BY <1>1, <2>2 DEF F!Inodes, F!Texts, Clean, F!Roots, F!Half, F!Text
  <2>4. f \in F!Inodes /\ f.text \in Clean
    BY <2>2, <2>3 DEF F!Inodes, Clean
  <2>5. Sane(f)
    BY <2>4 DEF Sane, Clean
  <2>6. F!Moved([disk EXCEPT !.file[i] = f], FALSE)
    BY <1>3 DEF F!Edit
  <2>. QED
    BY <2>1, <2>4, <2>5, <2>6, WroteOK
<1>4. CASE F!Save
  <2> DEFINE b == IF F!Visible(disk).block > 0 THEN F!Visible(disk).block ELSE 0
             f == F!File(F!Text(F!Version, b), "user", TRUE, "user")
  <2>1. b \in Nat
    BY <1>2 DEF F!Texts
  <2>2. F!Text(F!Version, b) \in Clean
    BY <1>1, <2>1 DEF F!Text, Clean, F!Texts, F!Roots, F!Half
  <2>3. f \in F!Inodes /\ Sane(f) /\ f.text.lines # F!Half.lines
    BY <2>2 DEF F!File, F!Inodes, Sane, Clean, F!Parties
  <2>4. F!Place(disk, path) \in F!Dirs
    BY <1>2, <1>4 DEF F!Save
  <2>5. F!Moved([F!Add(disk, f) EXCEPT !.entry[F!Place(disk, path)] = Len(disk.file) + 1], TRUE)
    BY <1>4 DEF F!Save
  <2>. QED
    BY <2>3, <2>4, <2>5, PutOK
<1>5. CASE F!Delete
  <2>1. F!Place(disk, path) \in F!Dirs /\ 0 \in 0 .. Len(disk.file)
    BY <1>2, <1>5 DEF F!Delete, F!Disks
  <2>2. DiskOK([disk EXCEPT !.entry[F!Place(disk, path)] = 0]) /\ [disk EXCEPT !.entry[F!Place(disk,
        path)] = 0].file = disk.file
    BY <2>1, EntryOK DEF Inv
  <2>3. [disk EXCEPT !.entry[F!Place(disk, path)] = 0].temp = disk.temp
    BY <1>2 DEF F!Disks
  <2>4. RunOK(run, [disk EXCEPT !.entry[F!Place(disk, path)] = 0].file)
    BY <2>2 DEF Inv
  <2>. QED
    BY <1>5, <2>2, <2>3, <2>4, MovedOK DEF F!Delete
<1>6. CASE F!Chmod
  <2> DEFINE i == F!Target(disk)
             f == [disk.file[i] EXCEPT !.private = FALSE]
  <2>1. i \in 1 .. Len(disk.file)
    BY <1>2, <1>6 DEF F!Chmod, F!Disks
  <2>2. disk.file[i] \in F!Inodes /\ Sane(disk.file[i])
    BY <1>2, <2>1 DEF Inv, DiskOK, F!Disks
  <2>3. f \in F!Inodes /\ Sane(f) /\ f.text = disk.file[i].text
    BY <2>2 DEF F!Inodes, Sane
  <2>4. F!Moved([disk EXCEPT !.file[i] = f], FALSE)
    BY <1>6 DEF F!Chmod
  <2>. QED
    BY <2>1, <2>3, <2>4, WroteOK
<1>7. CASE F!Relink
  <2>1. PICK to \in {"sub", "nowhere"} : F!Moved([F!Add(disk, F!Link(to)) EXCEPT !.entry["home"] = Len(disk.file) + 1],
             TRUE)
    BY <1>7 DEF F!Relink
  <2>2. F!Link(to) \in F!Inodes /\ Sane(F!Link(to)) /\ F!Link(to).text.lines # F!Half.lines
    BY DEF F!Link, F!Inodes, Sane, F!Parties, F!Nothing, F!Text, F!Texts, F!Half, F!Roots
  <2>. QED
    BY <2>1, <2>2, PutOK DEF F!Dirs
<1>8. CASE F!SwapDirectory
  <2>1. DiskOK([disk EXCEPT !.at = "other"]) /\ [disk EXCEPT !.at = "other"].file = disk.file
    BY PlaceOK DEF Inv
  <2>2. [disk EXCEPT !.at = "other"].temp = disk.temp
    BY <1>2 DEF F!Disks
  <2>. QED
    BY <1>8, <2>1, <2>2, MovedOK DEF F!SwapDirectory, Inv
<1>9. CASE F!RootWrites
  <2>1. F!Place(disk, path) \in F!Dirs
    BY <1>2, <1>9 DEF F!RootWrites
  <2>2. F!File(F!Text(F!Roots, 0), "root", FALSE, "root") \in F!Inodes /\ Sane(F!File(F!Text(F!Roots, 0), "root",
        FALSE, "root"))
        /\ F!File(F!Text(F!Roots, 0), "root", FALSE, "root").text.lines # F!Half.lines
    BY DEF F!File, F!Inodes, Sane, F!Parties, F!Text, F!Texts, F!Half, F!Roots
  <2>. QED
    BY <1>9, <2>1, <2>2, PutOK DEF F!RootWrites
<1>. QED
  BY <1>3, <1>4, <1>5, <1>6, <1>7, <1>8, <1>9

LEMMA CrashStep == ASSUME Inv, F!Crash PROVE Inv'
<1>1. RunOK(run', disk'.file) /\ run'.pc = "idle"
  BY IdleOK DEF F!Crash, Inv, DiskOK, F!Disks, F!Idle
<1>2. budget' \in Budgets
  BY FaultOK DEF F!Crash
<1>3. Known' /\ Temps'
  BY <1>1 DEF F!Crash, Known, Looked, Temps
<1>. QED
  BY <1>1, <1>2, <1>3 DEF F!Crash, Inv, Scalars, SnapOK

-----------------------------------------------------------------------------
(* The whole.                                                              *)
LEMMA InvInit == ASSUME F!FileAssumption, F!Init PROVE Inv
<1>1. PICK w \in Worlds : kind = w.kind /\ path = w.path /\ disk = w.disk
                       /\ budget = [calls |-> w.calls, moves |-> w.moves, mishaps |-> w.mishaps, moved |-> 0,
                          missed |-> 0]
  BY DEF F!Init
<1>2. w.kind \in {"secure", "npm"} /\ w.path \in {"home", "sub"} /\ F!Settled(w.disk, w.path) /\ {w.calls, w.moves,
      w.mishaps} \subseteq Nat
  BY DEF F!FileAssumption
<1>3. disk \in F!Disks /\ disk.file \in Seq(F!Inodes)
  BY <1>1, <1>2 DEF F!Settled, F!Disks
<1>4. \A i \in 1 .. Len(disk.file) : disk.file[i] \in F!Inodes /\ disk.file[i].text \in F!Texts
      /\ disk.file[i].text \in Clean
  <2>1. ASSUME NEW i \in 1 .. Len(disk.file) PROVE disk.file[i] \in F!Inodes
               /\ disk.file[i].text.lines \notin {F!Roots, F!Half.lines}
    BY <1>1, <1>2, <1>3 DEF F!Settled
  <2>. QED
    BY <2>1 DEF F!Inodes, Clean
<1>5. DiskOK(disk)
  BY <1>1, <1>2, <1>3, <1>4 DEF DiskOK, F!Settled, Sane, Clean
<1>6. RunOK(run, disk.file) /\ run.pc = "idle"
  BY <1>3, IdleOK DEF F!Init, F!Idle
<1>7. Known /\ Temps
  BY <1>1, <1>2, <1>6 DEF Known, Looked, Temps, F!Settled
<1>8. budget \in Budgets
  BY <1>1, <1>2 DEF Budgets
<1>. QED
  BY <1>1, <1>2, <1>5, <1>6, <1>7, <1>8 DEF F!Init, Inv, Scalars, SnapOK

LEMMA InvStep == F!FileAssumption /\ Inv /\ [F!Next]_(F!vars) => Inv'
<1>. SUFFICES ASSUME F!FileAssumption, Inv, [F!Next]_(F!vars) PROVE Inv'
  OBVIOUS
<1>1. CASE \E call \in {"write", "clear", "restore", "lock", "probe"} : F!Begin(call)
  BY <1>1, BeginStep
<1>2. CASE F!ensureExisting \/ F!Mkdir \/ F!CheckMade \/ F!Adopt
  BY <1>2, EnsureStep
<1>3. CASE F!Resolve \/ F!Pin \/ F!Lstat \/ F!Open \/ F!Verify
  BY <1>3, ResolveStep, PinStep, LstatStep, OpenStep, VerifyStep
<1>4. CASE F!Reread \/ F!NothingToClear \/ F!Decide
  BY <1>4, ReadStep
<1>5. CASE F!Backup \/ F!createExclusive \/ F!Fill \/ F!Rename
  BY <1>5, BackupStep, createExclusiveStep, FillStep, RenameStep
<1>6. CASE F!Recheck \/ F!Readback \/ F!MetadataSecure \/ F!Keep \/ F!Remove
  BY <1>6, RecheckStep, KeepStep, RemoveStep
<1>7. CASE F!purgeBackups \/ F!PurgeBackups
  BY <1>7, PurgeStep
<1>8. CASE F!Check \/ F!Unmake
  BY <1>8, CheckStep, UnmakeStep
<1>9. CASE F!OpenLock \/ F!LockCheck \/ F!LockMetadata
  BY <1>9, OpenLockStep, LockCheckStep, LockMetadataStep
<1>10. CASE F!Probe \/ F!Unprobe
  BY <1>10, ProbeStep
<1>11. CASE F!Edit \/ F!Save \/ F!Delete \/ F!Chmod \/ F!Relink \/ F!SwapDirectory \/ F!RootWrites
  BY <1>11, UserStep
<1>12. CASE F!Crash
  BY <1>12, CrashStep
<1>13. CASE UNCHANGED F!vars
  BY <1>13 DEF F!vars, Inv, Known, F!FoundGone, Temps, Scalars
<1>. QED
  BY <1>1, <1>2, <1>3, <1>4, <1>5, <1>6, <1>7, <1>8, <1>9, <1>10, <1>11, <1>12, <1>13 DEF F!Next

LEMMA AlwaysInv == ASSUME F!FileAssumption PROVE F!Spec => []Inv
<1>1. F!Init => Inv
  BY InvInit
<1>2. Inv /\ [F!Next]_(F!vars) => Inv'
  BY InvStep
<1>. QED
  BY <1>1, <1>2, PTL DEF F!Spec

\* However the user edits, links and moves what is at the path meanwhile, and
\* wherever a call fails or is killed, nothing of root's is copied into a file
\* the agent makes, and nobody finds half a file (readLeaf, Commit, and
\* commitReplacement in npmrc.go).
THEOREM FilesStaySound == ASSUME F!FileAssumption PROVE F!Spec => [](F!RootsStayPut /\ F!LeafIsWhole)
<1>1. Inv => F!RootsStayPut /\ F!LeafIsWhole
  <2>. SUFFICES ASSUME Inv PROVE F!RootsStayPut /\ F!LeafIsWhole
    OBVIOUS
  <2>1. F!RootsStayPut
    BY DEF F!RootsStayPut, Inv, DiskOK, F!Disks, Sane
  <2>2. F!LeafIsWhole
    BY DEF F!LeafIsWhole, Inv, DiskOK, F!Disks
  <2>. QED
    BY <2>1, <2>2
<1>2. F!Spec => []Inv
  BY AlwaysInv
<1>. QED
  BY <1>1, <1>2, PTL

\* No file is displaced but the one just looked at, or one swapped in after
\* that look: neither by a commit, nor by its undoing, nor by a restore, but
\* for the restore of a removal that had found nothing (RestoreSnapshot).
THEOREM NothingIsDisplaced == ASSUME F!FileAssumption PROVE F!Spec => []F!NeverAstray
<1>1. Inv => F!NeverAstray
  BY DEF F!NeverAstray, Inv, Scalars
<1>2. F!Spec => []Inv
  BY AlwaysInv
<1>. QED
  BY <1>1, <1>2, PTL

\* Between calls of an agent that was not killed there is no temporary file
\* in any directory, however the last call failed, and never more than
\* MaxBackups backups.
THEOREM LittleIsLeft == ASSUME F!FileAssumption PROVE F!Spec => []F!LittleLeft
<1>1. Inv => F!LittleLeft
  BY DEF F!LittleLeft, F!At, Inv, DiskOK, Temps
<1>2. F!Spec => []Inv
  BY AlwaysInv
<1>. QED
  BY <1>1, <1>2, PTL

-----------------------------------------------------------------------------
(* What a call says of itself (OutcomeHolds).  Where the managed path p    *)
(* leads on a disk, through which link, and what is found there.           *)
Leads(d, p, rel) ==
    \/ rel = p /\ F!KindOf(d, F!Leaf(d, p)) # "link"
    \/ /\ p = "home" /\ rel = "sub" /\ F!KindOf(d, F!Leaf(d, "home")) = "link"
       /\ d.file[F!Leaf(d, "home")].to = "sub" /\ F!KindOf(d, F!Leaf(d, "sub")) # "link"
Chain(d, p)   == IF F!KindOf(d, F!Leaf(d, p)) = "link" THEN F!Leaf(d, p) ELSE 0
Found(d, rel) == IF F!KindOf(d, F!Leaf(d, rel)) = "file" THEN d.file[F!Leaf(d, rel)].text ELSE F!Nothing
Seen(d, p)    == IF Leads(d, p, "home") THEN Found(d, "home")
                 ELSE IF Leads(d, p, "sub") THEN Found(d, "sub") ELSE F!Nothing

(* The stages of a call, and who comes to them.                            *)
Unled   == {"idle", "ensure", "made", "adopt", "resolve"}
Placed  == {"recheck", "readback", "metadata"}
Writing == {"temp", "fill", "rename"} \union Placed
Told    == Writing \union {"read", "backup", "remove", "keep", "unmake"}
Editing == {"lstat", "open", "verify", "read", "backup", "remove", "keep", "purge"}
Roles ==
    /\ run.pc \in {"ensure", "made", "adopt"} => run.op \in {"write", "lock", "probe"} /\ path = "sub"
    /\ run.pc \in Editing => run.op \in {"write", "clear"}
    /\ run.pc \in {"remove", "purge"} => run.op = "clear"
    /\ run.pc = "remove" => run.how = "remove"
    /\ run.pc \in Writing \union {"unmake"} => run.op \in {"write", "clear", "restore"}
    /\ run.op = "restore" => run.undo
    /\ run.undo => run.op = "restore" \/ run.pc \in Writing \union {"unmake"}
    /\ run.pc = "unmake" => run.undo
    /\ run.pc = "readback" /\ kind = "npm" => ~run.undo
    /\ run.created => run.op = "lock"
    /\ run.pc # "idle" => run.op # "none"
    /\ run.pc \in {"lock", "lockCheck", "lockMetadata"} => run.op = "lock"
    /\ run.pc \in {"probe", "unprobe"} => run.op = "probe"
    /\ run.how = "remove" => run.op = "clear"
    /\ run.how = "same" => run.pc = "purge"
    /\ run.how = "remove" /\ kind = "npm" => run.pc \in {"remove", "purge"}
    /\ run.pc \notin {"idle", "purge"} => pending = F!NoSnapshot

(* The path still leads where the call found it to lead.                   *)
Led ==
    /\ run.pc \notin Unled => Leads(disk, path, run.rel)
    /\ run.pc \notin Loose => run.dir = F!Place(disk, run.rel)
    /\ run.pc \in {"open", "verify"} => F!KindOf(disk, disk.entry[run.dir]) = "file"
    /\ run.pc = "verify" => run.held = disk.entry[run.dir]
    /\ run.pc \in {"idle", "purge"} /\ pending # F!NoSnapshot => Leads(disk, path, pending.rel)

(* Until a call has renamed or removed, what was there is there.           *)
Untouched ==
    /\ ~run.undo /\ ~run.created /\ run.pc \notin Placed \union {"idle", "keep", "purge"} => Seen(disk, path) = was
    /\ run.created => was = F!Nothing /\ disk.entry[run.dir] = run.held /\ F!KindOf(disk, run.held) = "file"
    /\ run.pc = "purge" /\ run.how = "same" => Seen(disk, path) = was
    /\ run.pc = "fill" => \A x \in F!Dirs : disk.entry[x] # run.tmp

(* What it has read is what was there, when it began or when the call that *)
(* it undoes did.                                                          *)
Read ==
    /\ run.pc \in Told => run.old = was
    /\ run.op = "restore" => run.snap.old = was
    /\ run.pass = 2 => run.seen = was /\ (run.op = "clear" => was.block # 0)
    /\ run.how = "remove" => was.lines = 0 /\ (kind = "secure" => run.pass = 2)
    /\ run.pc = "purge" /\ run.how # "same" => pending.old = was

(* What it writes, and has written.                                        *)
Wanted == IF run.undo THEN was ELSE IF run.op = "write" THEN F!With(was) ELSE F!Without(was)
Wrote ==
    /\ run.pc \in Writing \union {"backup"} => run.want = Wanted
    /\ run.pc = "unmake" => was = F!Nothing
    /\ run.pc \in Placed \union {"rename"} => disk.file[run.tmp] = F!Made(run.want, F!Mode)
    /\ run.pc \in Placed \union {"keep"} => disk.entry[run.dir] = run.tmp
    /\ run.pc = "keep" => disk.file[run.tmp] = F!Made(Wanted, TRUE) /\ run.tmp # 0
    /\ run.pc = "purge" /\ run.how # "same" =>
          (Seen(disk, path) = F!Nothing /\ was.lines = 0) \/ Seen(disk, path) = F!Without(was)

(* A snapshot that names what is on the disk; without a mishap a File's    *)
(* call is then sure to succeed.                                           *)
Names(d, p, s) ==
    /\ Leads(d, p, s.rel) /\ s.chain = Chain(d, p)
    /\ F!Place(d, s.rel) # "none" /\ d.owner[F!Place(d, s.rel)] = "user"
    /\ d.entry[F!Place(d, s.rel)] = IF s.removed THEN 0 ELSE s.committed
    /\ ~s.removed => s.committed # 0
Sure ==
    kind = "secure" /\ budget.missed = 0 =>
       /\ run.undo => run.op = "restore"
       /\ run.pc \notin Loose => disk.owner[run.dir] = "user"
       /\ run.pc \notin Unled => run.chain = Chain(disk, path)
       /\ run.pc \in {"idle", "purge"} /\ pending # F!NoSnapshot => Names(disk, path, pending)
       /\ run.op = "restore" /\ run.pc \in {"resolve", "pin", "check"} => Names(disk, path, run.snap)
       /\ run.op = "restore" /\ run.pc # "resolve" => run.rel = run.snap.rel

(* How it ended.                                                           *)
Outcome ==
    run.pc = "idle" =>
       /\ result = "written" => \E rel \in {"home", "sub"} : /\ Leads(disk, path, rel) /\ F!Leaf(disk, rel) # 0
                                                             /\ disk.file[F!Leaf(disk, rel)] = F!Made(F!With(was), TRUE)
       /\ result = "cleared" => (Seen(disk, path) = F!Nothing /\ was.lines = 0) \/ Seen(disk, path) = F!Without(was)
       /\ result \in {"failed", "same", "probed", "restored"} => Seen(disk, path) = was
       /\ result \in {"unverified", "unrestored"} => budget.missed > 0 \/ kind = "npm"

Calm == ~disturbed => Led /\ Untouched /\ Read /\ Wrote /\ Sure /\ Outcome

(* The directory the agent makes is empty until then, and the user's once  *)
(* it is kept.  Backups are only where the path leads.                     *)
MadeOnly ==
    /\ disk.at # "made" => disk.entry["made"] = 0
    /\ run.pc \notin Loose /\ run.dir = "made" => disk.at = "made"
    /\ run.pc \in {"made", "adopt"} => disk.at = "made" /\ (budget.moved = 0 => disk.entry["made"] = 0)
    /\ disk.at = "made" /\ ~crashed /\ budget.moved = 0 => disk.owner["made"] = "user" \/ run.pc \in {"made", "adopt"}
Beside ==
    budget.moved = 0 =>
       /\ ~disturbed
       /\ \A x \in F!Dirs : disk.bak[x] # <<>> => /\ x = F!Place(disk, F!Leading(disk, path))
                                                /\ (x = "made" => run.pc \notin {"made", "adopt"})
       /\ run.pc = "idle" /\ result = "cleared" /\ budget.missed = 0 => \A x \in F!Dirs : disk.bak[x] = <<>>

Whole == Roles /\ Calm /\ MadeOnly /\ Beside

-----------------------------------------------------------------------------
(* What is seen on a disk.                                                 *)
Rels  == {"home", "sub"}

LEMMA Leaves ==
    ASSUME NEW d, DiskOK(d), NEW rel \in Rels
    PROVE  /\ F!Place(d, rel) \in F!Dirs \union {"none"}
           /\ F!Leaf(d, rel) \in 0 .. Len(d.file) /\ Len(d.file) \in Nat
           /\ F!Place(d, rel) # "none" => F!Leaf(d, rel) = d.entry[F!Place(d, rel)]
           /\ F!Leaf(d, rel) # 0 => F!Place(d, rel) # "none" /\ d.file[F!Leaf(d, rel)] \in F!Inodes
<1>1. F!Place(d, rel) \in F!Dirs \union {"none"}
  BY DEF DiskOK, F!Place, F!Disks, F!Dirs, Rels
<1>2. F!Place(d, rel) # "none" => F!Leaf(d, rel) = d.entry[F!Place(d, rel)]
  BY DEF F!Leaf
<1>3. F!Place(d, rel) = "none" => F!Leaf(d, rel) = 0
  BY DEF F!Leaf
<1>4. Len(d.file) \in Nat /\ d.file \in Seq(F!Inodes)
  BY DEF DiskOK, F!Disks
<1>. QED
  BY <1>1, <1>2, <1>3, <1>4 DEF DiskOK

\* The path leads to one place, and what is seen is what is found there.
LEMMA SeenThere ==
    ASSUME NEW d, NEW p \in Rels, NEW rel \in Rels, Leads(d, p, rel)
    PROVE  /\ Seen(d, p) = Found(d, rel) /\ rel = F!Leading(d, p)
           /\ F!KindOf(d, F!Leaf(d, rel)) # "link"
           /\ \A r \in Rels : Leads(d, p, r) => r = rel
BY DEF Leads, Seen, F!Leading, Rels

LEMMA VisibleIsSeen ==
    ASSUME DiskOK(disk), path \in Rels
    PROVE  /\ F!Visible(disk) = Seen(disk, path)
           /\ \A rel \in Rels : Leads(disk, path, rel) /\ F!Leaf(disk, rel) # 0 => F!Target(disk) = F!Leaf(disk, rel)
<1>1. CASE F!KindOf(disk, F!Leaf(disk, path)) # "link"
  <2>2. F!Target(disk) = F!Leaf(disk, path) /\ Leads(disk, path, path)
    <3>1. F!resolveLeaf(disk, FALSE).ok = TRUE /\ F!resolveLeaf(disk, FALSE).rel = path
      BY <1>1 DEF F!resolveLeaf
    <3>. QED
      BY <1>1, <3>1, Zenon DEF F!Target, Leads
  <2>3. Seen(disk, path) = Found(disk, path) /\ \A r \in Rels : Leads(disk, path, r) => r = path
    BY <2>2, SeenThere
  <2>. QED
    BY <2>2, <2>3 DEF F!Visible, Found
<1>2. CASE F!KindOf(disk, F!Leaf(disk, path)) = "link"
  <2>0. F!Leaf(disk, path) # 0 /\ disk.file[F!Leaf(disk, path)].to \in {"nowhere", "sub"}
    <3>1. F!Leaf(disk, path) # 0
      BY <1>2 DEF F!KindOf
    <3>. QED
      BY <3>1, Leaves DEF F!Inodes
  <2>1. CASE disk.file[F!Leaf(disk, path)].to = "nowhere" \/ F!KindOf(disk, F!Leaf(disk, "sub")) = "link"
    <3>1. ~F!resolveLeaf(disk, FALSE).ok
      BY <1>2, <2>1 DEF F!resolveLeaf, F!Missing
    <3>2. \A r \in Rels : ~Leads(disk, path, r)
      BY <1>2, <2>1 DEF Leads, Rels
    <3>3. F!Target(disk) = 0
      BY <3>1 DEF F!Target
    <3>. QED
      BY <3>2, <3>3 DEF F!Visible, Seen, F!KindOf, Rels
  <2>2. CASE disk.file[F!Leaf(disk, path)].to # "nowhere" /\ F!KindOf(disk, F!Leaf(disk, "sub")) # "link"
    <3>1. Leads(disk, path, "sub")
      BY <1>2, <2>0, <2>2 DEF Leads, Rels
    <3>2. Seen(disk, path) = Found(disk, "sub") /\ \A r \in Rels : Leads(disk, path, r) => r = "sub"
      BY <3>1, SeenThere DEF Rels
    <3>3. F!Target(disk) = F!Leaf(disk, "sub")
      <4>1. CASE F!Leaf(disk, "sub") = 0
        <5>1. ~F!resolveLeaf(disk, FALSE).ok
          BY <1>2, <2>2, <4>1 DEF F!resolveLeaf, F!Missing
        <5>. QED
          BY <4>1, <5>1 DEF F!Target
      <4>2. CASE F!Leaf(disk, "sub") # 0
        <5>1. F!resolveLeaf(disk, FALSE).ok = TRUE /\ F!resolveLeaf(disk, FALSE).rel = "sub"
          BY <1>2, <2>2, <4>2 DEF F!resolveLeaf
        <5>. QED
          BY <5>1, Zenon DEF F!Target
      <4>. QED
        BY <4>1, <4>2
    <3>. QED
      BY <3>2, <3>3 DEF F!Visible, Found
  <2>. QED
    BY <2>1, <2>2
<1>. QED
  BY <1>1, <1>2

\* A disk that has the same files at the same leaves looks the same.
LEMMA SameSeen ==
    ASSUME NEW d, NEW e, NEW p \in Rels, \A r \in Rels : F!Leaf(e, r) = F!Leaf(d, r),
           \A r \in Rels : F!Leaf(d, r) # 0 => e.file[F!Leaf(d, r)] = d.file[F!Leaf(d, r)]
    PROVE  /\ Seen(e, p) = Seen(d, p) /\ Chain(e, p) = Chain(d, p) /\ F!Leading(e, p) = F!Leading(d, p)
           /\ \A r \in Rels : Leads(e, p, r) = Leads(d, p, r) /\ Found(e, r) = Found(d, r)
<1>1. \A r \in Rels : F!KindOf(e, F!Leaf(e, r)) = F!KindOf(d, F!Leaf(d, r))
  BY DEF F!KindOf
<1>2. \A r \in Rels : Found(e, r) = Found(d, r)
  BY <1>1 DEF Found, F!KindOf
<1>3. \A r \in Rels : Leads(e, p, r) = Leads(d, p, r)
  <2>1. p = "home" /\ F!KindOf(d, F!Leaf(d, "home")) = "link" => F!Leaf(d, "home") # 0
    BY DEF F!KindOf
  <2>. QED
    BY <1>1, <2>1 DEF Leads, Rels
<1>4. Seen(e, p) = Seen(d, p)
  BY <1>2, <1>3 DEF Seen, Rels
<1>. QED
  BY <1>1, <1>2, <1>3, <1>4 DEF Chain, F!Leading

\* So does one with the same directories, whatever temporary files or backups.
LEMMA SameEntries ==
    ASSUME NEW d, NEW e, DiskOK(d), NEW p \in Rels, e.at = d.at, e.entry = d.entry,
           \A x \in F!Dirs : d.entry[x] # 0 => e.file[d.entry[x]] = d.file[d.entry[x]]
    PROVE  /\ Seen(e, p) = Seen(d, p) /\ Chain(e, p) = Chain(d, p) /\ F!Leading(e, p) = F!Leading(d, p)
           /\ \A r \in Rels : /\ Leads(e, p, r) = Leads(d, p, r) /\ Found(e, r) = Found(d, r)
                              /\ F!Place(e, r) = F!Place(d, r) /\ F!Leaf(e, r) = F!Leaf(d, r)
<1>1. \A r \in Rels : F!Place(e, r) = F!Place(d, r)
  BY DEF F!Place
<1>2. \A r \in Rels : F!Leaf(e, r) = F!Leaf(d, r)
  BY <1>1 DEF F!Leaf
<1>3. \A r \in Rels : F!Leaf(d, r) # 0 => e.file[F!Leaf(d, r)] = d.file[F!Leaf(d, r)]
  BY Leaves
<1>. QED
  BY <1>1, <1>2, <1>3, SameSeen

\* What is put where the path leads, or taken from there, leaves it leading
\* there.
LEMMA PutThere ==
    ASSUME NEW d, DiskOK(d), NEW p \in Rels, NEW rel \in Rels, Leads(d, p, rel), F!Place(d, rel) # "none",
           NEW e, e.at = d.at, NEW n, e.entry = [d.entry EXCEPT ![F!Place(d, rel)] = n], F!KindOf(e, n) # "link",
           \A x \in F!Dirs : d.entry[x] # 0 => e.file[d.entry[x]] = d.file[d.entry[x]]
    PROVE  /\ Leads(e, p, rel) /\ F!Leaf(e, rel) = n /\ Chain(e, p) = Chain(d, p) /\ F!Leading(e, p) = F!Leading(d, p)
           /\ Seen(e, p) = IF F!KindOf(e, n) = "file" THEN e.file[n].text ELSE F!Nothing
           /\ \A r \in Rels : F!Place(e, r) = F!Place(d, r)
<1>0. F!Place(d, rel) \in F!Dirs /\ d.entry \in [F!Dirs -> Nat] /\ d.at # "home"
  BY Leaves DEF DiskOK, F!Disks
<1>1. \A r \in Rels : F!Place(e, r) = F!Place(d, r)
  BY DEF F!Place
<1>2. F!Leaf(e, rel) = n
  BY <1>0, <1>1 DEF F!Leaf
<1>3. CASE rel = p /\ F!KindOf(d, F!Leaf(d, p)) # "link"
  <2>1. Leads(e, p, rel)
    BY <1>2, <1>3 DEF Leads
  <2>2. Chain(e, p) = Chain(d, p) /\ F!Leading(e, p) = F!Leading(d, p)
    BY <1>2, <1>3 DEF Chain, F!Leading
  <2>. QED
    BY <1>1, <1>2, <2>1, <2>2, SeenThere DEF Found
<1>4. CASE /\ p = "home" /\ rel = "sub" /\ F!KindOf(d, F!Leaf(d, "home")) = "link"
           /\ d.file[F!Leaf(d, "home")].to = "sub"
  <2>1. F!Place(d, "sub") = d.at /\ F!Place(d, "home") = "home" /\ F!Leaf(d, "home") = d.entry["home"]
    BY DEF F!Place, F!Leaf
  <2>2. e.entry["home"] = d.entry["home"]
    BY <1>0, <1>4, <2>1 DEF F!Dirs
  <2>3. F!Leaf(e, "home") = F!Leaf(d, "home") /\ F!Leaf(d, "home") # 0
    BY <1>4, <2>1, <2>2 DEF F!Leaf, F!Place, F!KindOf
  <2>4. e.file[F!Leaf(d, "home")] = d.file[F!Leaf(d, "home")]
    BY <2>1, <2>3 DEF F!Dirs
  <2>5. F!KindOf(e, F!Leaf(e, "home")) = "link"
    BY <1>4, <2>3, <2>4 DEF F!KindOf
  <2>6. Leads(e, p, rel)
    BY <1>2, <1>4, <2>3, <2>4, <2>5 DEF Leads
  <2>7. Chain(e, p) = Chain(d, p) /\ F!Leading(e, p) = F!Leading(d, p)
    BY <1>4, <2>3, <2>5 DEF Chain, F!Leading
  <2>. QED
    BY <1>1, <1>2, <2>6, <2>7, SeenThere DEF Found
<1>. QED
  BY <1>3, <1>4 DEF Leads

\* Resolution finds the place, and only fails where a leaf is missing.
LEMMA ResolvesThere ==
    ASSUME DiskOK(disk), path \in Rels, NEW gone \in BOOLEAN, NEW to, to = F!resolveLeaf(disk, gone)
    PROVE  /\ to.ok \in BOOLEAN
           /\ to.ok => to.rel \in Rels /\ Leads(disk, path, to.rel) /\ to.chain = Chain(disk, path)
           /\ \A rel \in Rels : Leads(disk, path, rel) /\ (gone \/ F!Leaf(disk, rel) # 0)
                                => to.ok /\ to.rel = rel /\ to.chain = Chain(disk, path)
<1>1. CASE F!KindOf(disk, F!Leaf(disk, path)) # "link"
  <2>1. to = [ok |-> TRUE, rel |-> path, chain |-> 0]
    BY <1>1 DEF F!resolveLeaf
  <2>. QED
    BY <1>1, <2>1, SeenThere DEF Leads, Chain, Rels
<1>2. CASE F!KindOf(disk, F!Leaf(disk, path)) = "link"
  <2>0. F!Leaf(disk, path) # 0 /\ disk.file[F!Leaf(disk, path)].to \in {"nowhere", "sub"}
    <3>1. F!Leaf(disk, path) # 0
      BY <1>2 DEF F!KindOf
    <3>. QED
      BY <3>1, Leaves DEF F!Inodes
  <2>1. CASE disk.file[F!Leaf(disk, path)].to = "nowhere" \/ F!KindOf(disk, F!Leaf(disk, "sub")) = "link"
    <3>1. to = F!Missing
      BY <1>2, <2>1 DEF F!resolveLeaf
    <3>2. \A r \in Rels : ~Leads(disk, path, r)
      BY <1>2, <2>1 DEF Leads, Rels
    <3>. QED
      BY <3>1, <3>2 DEF F!Missing
  <2>2. CASE disk.file[F!Leaf(disk, path)].to # "nowhere" /\ F!KindOf(disk, F!Leaf(disk, "sub")) # "link"
    <3>1. path = "home" /\ Leads(disk, path, "sub")
      BY <1>2, <2>0, <2>2 DEF Leads, Rels
    <3>2. \A r \in Rels : Leads(disk, path, r) => r = "sub"
      BY <3>1, SeenThere DEF Rels
    <3>3. CASE F!Leaf(disk, "sub") = 0 /\ ~gone
      <4>1. to = F!Missing
        BY <1>2, <3>3 DEF F!resolveLeaf
      <4>. QED
        BY <3>2, <3>3, <4>1 DEF F!Missing
    <3>4. CASE ~(F!Leaf(disk, "sub") = 0 /\ ~gone)
      <4>1. to = [ok |-> TRUE, rel |-> "sub", chain |-> F!Leaf(disk, path)]
        BY <1>2, <2>2, <3>4 DEF F!resolveLeaf
      <4>. QED
        BY <1>2, <3>1, <3>2, <4>1 DEF Chain, Rels
    <3>. QED
      BY <3>3, <3>4
  <2>. QED
    BY <2>1, <2>2
<1>. QED
  BY <1>1, <1>2

-----------------------------------------------------------------------------
(* How a step may end, for what the call says of itself.                   *)
LEMMA IdleFields ==
    /\ F!Idle.pc = "idle" /\ F!Idle.op = "none" /\ F!Idle.pass = 1 /\ F!Idle.undo = FALSE /\ F!Idle.how = "commit"
    /\ F!Idle.created = FALSE /\ F!Idle.dir = "none"
BY DEF F!Idle

LEMMA EndCalm ==
    ASSUME Inv, run' = F!Idle, UNCHANGED <<kind, path, was, disturbed>>,
           ~disturbed /\ result' = "written" =>
              \E rel \in Rels : Leads(disk', path, rel) /\ F!Leaf(disk', rel) # 0
                                /\ disk'.file[F!Leaf(disk', rel)] = F!Made(F!With(was), TRUE),
           ~disturbed /\ result' = "cleared" =>
              (Seen(disk', path) = F!Nothing /\ was.lines = 0) \/ Seen(disk', path) = F!Without(was),
           ~disturbed /\ result' \in {"failed", "same", "probed", "restored"} => Seen(disk', path) = was,
           ~disturbed /\ result' \in {"unverified", "unrestored"} => budget'.missed > 0 \/ kind = "npm",
           ~disturbed /\ pending' # F!NoSnapshot =>
              /\ Leads(disk', path, pending'.rel)
              /\ kind = "secure" /\ budget'.missed = 0 => Names(disk', path, pending')
    PROVE  Roles' /\ Calm'
<1>1. /\ run'.pc = "idle" /\ run'.op = "none" /\ run'.pass = 1 /\ run'.undo = FALSE /\ run'.how = "commit"
      /\ run'.created = FALSE
  BY IdleFields
<1>2. Roles'
  BY <1>1 DEF Roles, Editing, Writing, Placed
<1>3. ASSUME ~disturbed' PROVE Led' /\ Untouched' /\ Read' /\ Wrote' /\ Sure' /\ Outcome'
  <2>1. ~disturbed
    BY <1>3
  <2>2. Led' /\ Untouched'
    BY <1>1, <2>1 DEF Led, Untouched, Unled, Loose
  <2>3. Read' /\ Wrote'
    BY <1>1, <2>1 DEF Read, Wrote, Told, Writing, Placed
  <2>4. Sure'
    BY <1>1, <2>1 DEF Sure, Unled, Loose
  <2>5. Outcome'
    BY <1>1, <2>1 DEF Outcome, Rels
  <2>. QED
    BY <2>2, <2>3, <2>4, <2>5
<1>. QED
  BY <1>2, <1>3 DEF Calm

\* A call fails.
LEMMA FailCalm ==
    ASSUME Inv, Roles, F!Failed, run.pc \notin {"idle", "purge"},
           ~disturbed /\ ~run.undo => Seen(disk', path) = was,
           ~disturbed /\ run.undo => budget'.missed > 0 \/ kind = "npm"
    PROVE  Roles' /\ Calm'
<1>1. pending' = F!NoSnapshot
  BY DEF Roles, F!Failed
<1>2. /\ run' = F!Idle /\ UNCHANGED <<kind, path, was, disturbed>>
      /\ result' = CASE run.op = "restore" -> "unrestored" [] run.undo -> "unverified" [] OTHER -> "failed"
  BY DEF F!Failed, F!End
<1>3. run.undo \in BOOLEAN
  BY DEF Inv, RunOK, Runs
<1>4. IF run.undo THEN result' \in {"unverified", "unrestored"} ELSE result' = "failed"
  BY <1>2, <1>3 DEF Roles
<1>. QED
  BY <1>1, <1>2, <1>4, EndCalm

\* The rest of the invariant, where the disk keeps its directories.
LEMMA FrameRest ==
    ASSUME Inv, MadeOnly, Beside, disk'.at = disk.at, disk'.owner = disk.owner, disk'.bak = disk.bak,
           UNCHANGED <<path, disturbed, crashed>>, budget'.moved = budget.moved,
           \/ disk'.entry = disk.entry
           \/ run.pc \notin Loose /\ \E n : disk'.entry = [disk.entry EXCEPT ![run.dir] = n],
           budget.moved = 0 => F!Leading(disk', path) = F!Leading(disk, path),
           run.pc \notin {"made", "adopt"}, run'.pc \notin {"made", "adopt"},
           run'.pc \notin Loose /\ run'.dir = "made" => disk.at = "made",
           ~(run'.pc = "idle" /\ result' = "cleared")
    PROVE  MadeOnly' /\ Beside'
<1>1. disk'.at # "made" => disk'.entry["made"] = 0
  <2>1. disk.entry \in [F!Dirs -> Nat]
    BY DEF Inv, DiskOK, F!Disks
  <2>2. "made" \in F!Dirs
    BY DEF F!Dirs
  <2>. QED
    BY <2>1, <2>2 DEF MadeOnly
<1>2. MadeOnly'
  BY <1>1 DEF MadeOnly
<1>3. \A r \in Rels : F!Place(disk', r) = F!Place(disk, r)
  BY DEF F!Place
<1>4. F!Leading(disk, path) \in Rels
  BY DEF F!Leading, Rels, Inv, Scalars
<1>5. Beside'
  BY <1>3, <1>4 DEF Beside
<1>. QED
  BY <1>2, <1>5

LEMMA Shapes ==
    ASSUME Inv
    PROVE  /\ run \in Runs /\ disk \in F!Disks /\ DiskOK(disk) /\ path \in Rels /\ run.rel \in Rels
           /\ run.pc \notin Loose => run.dir \in F!Dirs
           /\ budget.missed \in Nat /\ budget.moved \in Nat
BY DEF Inv, RunOK, Scalars, Runs, Budgets, DiskOK, Rels

\* A call is refused, or breaks, before it has touched the file.
LEMMA RefuseWhole ==
    ASSUME Inv, Whole, F!Refuse, run.pc \notin Placed \union {"idle", "purge", "keep", "made", "adopt"},
           ~disturbed /\ run.created => FALSE,
           ~disturbed /\ kind = "secure" /\ budget.missed = 0 => ~run.undo
    PROVE  Whole'
<1>0. run' = F!Idle /\ run'.pc = "idle" /\ result' # "cleared" /\ kind \in {"secure", "npm"} /\ path \in Rels
  BY IdleFields DEF F!Refuse, F!Failed, F!End, Inv, Scalars, Rels
<1>1. UNCHANGED <<kind, path, was, disturbed, crashed, disk, budget>>
  BY DEF F!Refuse, F!Failed, F!End
<1>2. ~disturbed /\ ~run.undo => Seen(disk', path) = was
  BY <1>1 DEF Whole, Calm, Untouched
<1>3. Roles' /\ Calm'
  BY <1>0, <1>1, <1>2, FailCalm, Shapes DEF Whole, F!Refuse
<1>4. MadeOnly' /\ Beside'
  BY <1>0, <1>1, FrameRest DEF Whole, Loose
<1>. QED
  BY <1>3, <1>4 DEF Whole

\* After a mishap a failed undoing may say so.
LEMMA BrokenWhole ==
    ASSUME Inv, Whole, F!Broken, run.pc \notin Placed \union {"idle", "purge", "keep", "made", "adopt"}, ~run.created,
           disk'.at = disk.at, disk'.owner = disk.owner, disk'.bak = disk.bak, disk'.entry = disk.entry,
           \A x \in F!Dirs : disk.entry[x] # 0 => disk'.file[disk.entry[x]] = disk.file[disk.entry[x]]
    PROVE  Whole'
<1>0. run' = F!Idle /\ run'.pc = "idle" /\ result' # "cleared" /\ path \in Rels
  BY IdleFields DEF F!Broken, F!Failed, F!End, Inv, Scalars, Rels
<1>1. UNCHANGED <<kind, path, was, disturbed, crashed>> /\ budget'.missed > 0 /\ budget'.moved = budget.moved
  <2>1. budget'.missed = budget.missed + 1 /\ budget'.moved = budget.moved
    BY DEF F!Broken, F!Fault, Inv, Scalars, Budgets
  <2>. QED
    BY <2>1, Shapes DEF F!Broken, F!Failed, F!End
<1>2. Seen(disk', path) = Seen(disk, path) /\ F!Leading(disk', path) = F!Leading(disk, path)
  BY <1>0, Shapes, SameEntries
<1>3. ~disturbed /\ ~run.undo => Seen(disk', path) = was
  BY <1>2 DEF Whole, Calm, Untouched
<1>4. Roles' /\ Calm'
  BY <1>1, <1>3, FailCalm DEF Whole, F!Broken
<1>5. MadeOnly' /\ Beside'
  BY <1>0, <1>1, <1>2, FrameRest DEF Whole, Loose
<1>. QED
  BY <1>4, <1>5 DEF Whole

\* A step that leaves the disk and the rest alone.
LEMMA QuietRest ==
    ASSUME Inv, Whole, F!Quiet, run.pc \notin {"made", "adopt"}, run'.pc \notin {"made", "adopt", "idle"},
           run'.pc \notin Loose => run'.dir = run.dir /\ run.pc \notin Loose
    PROVE  MadeOnly' /\ Beside'
BY FrameRest DEF Whole, F!Quiet, F!Still, MadeOnly

\* Only where the call is changes.
LEMMA OnlyPc ==
    ASSUME Inv, NEW stage, F!Goto(stage)
    PROVE  /\ run'.pc = stage /\ run'.op = run.op /\ run'.pass = run.pass /\ run'.rel = run.rel /\ run'.dir = run.dir
           /\ run'.chain = run.chain /\ run'.held = run.held /\ run'.old = run.old /\ run'.private = run.private
           /\ run'.seen = run.seen /\ run'.want = run.want /\ run'.tmp = run.tmp /\ run'.known = run.known
           /\ run'.undo = run.undo /\ run'.snap = run.snap /\ run'.how = run.how /\ run'.created = run.created
BY DEF Inv, RunOK, Runs, F!Goto

-----------------------------------------------------------------------------
LEMMA BeginWhole ==
    ASSUME Inv, Whole, NEW call \in {"write", "clear", "restore", "lock", "probe"}, F!Begin(call) PROVE Whole'
<1>0. run.pc = "idle" /\ result' = "none" /\ pending' = F!NoSnapshot /\ UNCHANGED <<kind, path, disk, crashed>>
      /\ disturbed' = (disturbed /\ call = "restore") /\ budget'.moved = budget.moved /\ budget'.missed = budget.missed
  BY DEF F!Begin, F!At, Inv, Scalars, Budgets
<1>1. /\ run'.op = call /\ run'.snap = pending /\ run'.pass = 1 /\ run'.how = "commit" /\ run'.created = FALSE
      /\ run'.undo = (call = "restore") /\ run'.rel = (IF call = "restore" THEN pending.rel ELSE "home")
      /\ run'.pc = IF call \in {"write", "lock", "probe"} /\ kind = "secure" /\ path = "sub" THEN "ensure"
                   ELSE IF call = "restore" /\ kind = "npm" /\ pending.removed THEN "pin" ELSE "resolve"
  BY DEF F!Begin, F!Idle
<1>2. call = "restore" => pending # F!NoSnapshot /\ was' = pending.old
  BY DEF F!Begin, F!NoSnapshot
<1>3. call # "restore" => was' = Seen(disk, path)
  BY VisibleIsSeen, Shapes DEF F!Begin
<1>4. Roles'
  BY <1>0, <1>1 DEF Roles, Editing, Writing, Placed
<1>5. ASSUME ~disturbed' PROVE Led' /\ Untouched' /\ Read' /\ Wrote' /\ Sure' /\ Outcome'
  <2>1. call = "restore" => Calm /\ ~disturbed
    BY <1>0, <1>5 DEF Whole
  <2>2. Led'
    BY <1>0, <1>1, <1>2, <2>1 DEF Led, Unled, Loose, Calm
  <2>3. Untouched'
    BY <1>0, <1>1, <1>3 DEF Untouched
  <2>4. Read' /\ Wrote'
    BY <1>0, <1>1, <1>2 DEF Read, Wrote, Told, Writing, Placed
  <2>5. Sure' /\ Outcome'
    BY <1>0, <1>1, <1>2, <2>1 DEF Sure, Unled, Loose, Calm, Outcome, Led
  <2>. QED
    BY <2>2, <2>3, <2>4, <2>5
<1>6. MadeOnly'
  BY <1>0, <1>1 DEF Whole, MadeOnly, Loose
<1>7. Beside'
  BY <1>0, <1>1 DEF Whole, Beside
<1>. QED
  BY <1>4, <1>5, <1>6, <1>7 DEF Whole, Calm

LEMMA EnsureWhole == ASSUME Inv, Whole, F!ensureExisting \/ F!Mkdir \/ F!CheckMade \/ F!Adopt PROVE Whole'
<1>0. /\ run.pc \in {"ensure", "made", "adopt"} /\ path = "sub" /\ run.op \in {"write", "lock", "probe"}
      /\ ~run.undo /\ ~run.created /\ run.pc \notin Placed \union {"idle", "purge", "keep"}
  <2>1. run.pc \in {"ensure", "made", "adopt"}
    BY DEF F!ensureExisting, F!Mkdir, F!CheckMade, F!Adopt, F!At
  <2>. QED
    BY <2>1 DEF Whole, Roles, Placed, Writing, Inv, RunOK
<1>1. ASSUME NEW stage \in {"resolve", "made", "adopt"}, F!Goto(stage), F!Still, disk' = disk \/ Seen(disk', path) = Seen(disk, path)
      PROVE  Roles' /\ Calm'
  <2>0. /\ run'.pc = stage /\ run'.op = run.op /\ run'.pass = run.pass /\ run'.how = run.how /\ run'.seen = run.seen
        /\ run'.undo = run.undo /\ run'.snap = run.snap /\ run'.created = run.created /\ run'.rel = run.rel
    BY <1>1, OnlyPc
  <2>1. Roles'
    BY <1>0, <1>1, <2>0 DEF Whole, Roles, F!Still, Editing, Writing, Placed
  <2>2. ASSUME ~disturbed' PROVE Led' /\ Untouched' /\ Read' /\ Wrote' /\ Sure' /\ Outcome'
    <3>1. Calm /\ ~disturbed
      BY <1>1, <2>2 DEF Whole, F!Still
    <3>2. Led' /\ Untouched'
      BY <1>0, <1>1, <2>0, <3>1 DEF Calm, Led, Untouched, Unled, Loose, F!Still
    <3>3. Read' /\ Wrote' /\ Sure' /\ Outcome'
      BY <1>0, <1>1, <2>0, <3>1 DEF Calm, Read, Wrote, Sure, Outcome, Told, Writing, Placed, Unled, Loose, F!Still
    <3>. QED
      BY <3>2, <3>3
  <2>. QED
    BY <2>1, <2>2 DEF Calm
<1>2. ASSUME NEW d, d.file = disk.file, d.entry = disk.entry, d.at # disk.at, {d.at, disk.at} = {"none", "made"}, disk.entry["made"] = 0
      PROVE  Seen(d, path) = Seen(disk, path)
  <2>1. \A r \in Rels : F!Leaf(d, r) = F!Leaf(disk, r)
    BY <1>2 DEF F!Leaf, F!Place, Rels
  <2>. QED
    BY <1>2, <2>1, SameSeen, Shapes
<1>3. CASE F!ensureExisting
  <2>1. CASE F!Refuse
    BY <1>0, <1>3, <2>1, RefuseWhole DEF F!ensureExisting, F!At
  <2>2. CASE F!Goto("resolve") /\ F!Quiet
    <3>1. run'.pc = "resolve" /\ run.pc = "ensure"
      BY <1>3, <2>2, OnlyPc DEF F!ensureExisting, F!At
    <3>2. MadeOnly' /\ Beside'
      BY <2>2, <3>1, QuietRest DEF Loose
    <3>. QED
      BY <1>1, <2>2, <3>2 DEF Whole, F!Quiet
  <2>. QED
    BY <1>3, <2>1, <2>2 DEF F!ensureExisting
<1>4. CASE F!Mkdir
  <2>0. run.pc = "ensure" /\ disk.at = "none" /\ disk.entry["made"] = 0
    BY <1>4 DEF F!Mkdir, F!At, Whole, MadeOnly
  <2>1. CASE F!Broken /\ UNCHANGED disk
    BY <1>0, <2>0, <2>1, BrokenWhole
  <2>2. CASE disk' = [disk EXCEPT !.at = "made", !.owner["made"] = "agent"] /\ F!Goto("made") /\ F!Still
    <3>1. /\ disk'.file = disk.file /\ disk'.entry = disk.entry /\ disk'.at = "made" /\ disk'.bak = disk.bak
      BY <2>2, Shapes DEF F!Disks
    <3>2. run'.pc = "made"
      BY <2>2, OnlyPc
    <3>3. Roles' /\ Calm'
      BY <1>1, <1>2, <2>0, <2>2, <3>1
    <3>4. MadeOnly'
      BY <2>0, <2>2, <3>1, <3>2 DEF MadeOnly, F!Still, Loose
    <3>5. budget.moved = 0 => \A x \in F!Dirs : disk.bak[x] = <<>>
      <4>1. F!Leading(disk, path) = "sub"
        BY <1>0 DEF F!Leading
      <4>2. F!Place(disk, "sub") = "none"
        BY <2>0 DEF F!Place
      <4>. QED
        BY <4>1, <4>2 DEF Whole, Beside, F!Dirs
    <3>6. Beside'
      BY <2>2, <3>1, <3>2, <3>5 DEF Whole, Beside, F!Still
    <3>. QED
      BY <3>3, <3>4, <3>6 DEF Whole
  <2>. QED
    BY <1>4, <2>1, <2>2 DEF F!Mkdir
<1>5. CASE F!CheckMade
  <2>0. run.pc = "made" /\ disk.at = "made"
    BY <1>5 DEF F!CheckMade, F!At, Whole, MadeOnly
  <2>1. F!Goto("adopt") /\ F!Quiet
    BY <1>5, <2>0 DEF F!CheckMade
  <2>2. run'.pc = "adopt"
    BY <2>1, OnlyPc
  <2>3. MadeOnly' /\ Beside'
    BY <2>0, <2>1, <2>2 DEF Whole, MadeOnly, Beside, F!Quiet, F!Still, Loose
  <2>. QED
    BY <1>1, <2>1, <2>3 DEF Whole, F!Quiet
<1>6. CASE F!Adopt
  <2>0. run.pc = "adopt" /\ disk.at = "made"
    BY <1>6 DEF F!Adopt, F!At, Whole, MadeOnly
  <2>1. CASE disk' = [disk EXCEPT !.owner["made"] = "user"] /\ F!Goto("resolve") /\ F!Still
    <3>1. /\ disk'.file = disk.file /\ disk'.entry = disk.entry /\ disk'.at = disk.at /\ disk'.bak = disk.bak
          /\ disk'.owner["made"] = "user"
      BY <2>1, Shapes DEF F!Disks, F!Dirs
    <3>2. run'.pc = "resolve"
      BY <2>1, OnlyPc
    <3>3. Seen(disk', path) = Seen(disk, path) /\ F!Leading(disk', path) = F!Leading(disk, path)
      BY <3>1, SameEntries, Shapes
    <3>4. Roles' /\ Calm'
      BY <1>1, <2>1, <3>3
    <3>5. MadeOnly'
      BY <2>0, <2>1, <3>1, <3>2 DEF MadeOnly, F!Still, Loose, Whole
    <3>6. Beside'
      <4>1. \A r \in Rels : F!Place(disk', r) = F!Place(disk, r)
        BY <3>1 DEF F!Place
      <4>2. F!Leading(disk, path) \in Rels
        BY Shapes DEF F!Leading, Rels
      <4>. QED
        BY <2>1, <3>1, <3>2, <3>3, <4>1, <4>2 DEF Whole, Beside, F!Still
    <3>. QED
      BY <3>4, <3>5, <3>6 DEF Whole
  <2>2. CASE disk' = F!removeCreatedParent(disk) /\ F!Broken
    <3>1. /\ disk'.file = disk.file /\ disk'.entry = disk.entry /\ disk'.bak = disk.bak
          /\ disk'.at = IF disk.entry["made"] = 0 THEN "none" ELSE "made"
      BY <2>0, <2>2, Shapes DEF F!removeCreatedParent, F!Disks
    <3>2. Seen(disk', path) = Seen(disk, path)
      <4>1. CASE disk.entry["made"] = 0
        BY <1>2, <2>0, <3>1, <4>1
      <4>2. CASE disk.entry["made"] # 0
        BY <2>0, <3>1, <4>2, SameEntries, Shapes
      <4>. QED
        BY <4>1, <4>2
    <3>3. /\ UNCHANGED <<kind, path, was, disturbed, crashed>> /\ budget'.missed = budget.missed + 1
          /\ budget'.moved = budget.moved /\ run' = F!Idle /\ result' # "cleared"
      BY <2>2 DEF F!Broken, F!Failed, F!End, F!Fault, Inv, Scalars, Budgets
    <3>4. Roles' /\ Calm'
      <4>1. ~disturbed => Seen(disk', path) = was
        BY <1>0, <3>2 DEF Whole, Calm, Untouched
      <4>. QED
        BY <1>0, <2>2, <4>1, FailCalm DEF Whole, F!Broken
    <3>5. MadeOnly'
      BY <2>0, <3>1, <3>3, IdleFields DEF MadeOnly, Loose, Whole
    <3>6. Beside'
      <4>1. budget.moved = 0 => \A x \in F!Dirs : disk.bak[x] = <<>>
        <5>1. F!Leading(disk, path) = "sub" /\ F!Place(disk, "sub") = "made"
          BY <1>0, <2>0 DEF F!Leading, F!Place
        <5>. QED
          BY <2>0, <5>1 DEF Whole, Beside
      <4>. QED
        BY <3>1, <3>3, <4>1 DEF Whole, Beside
    <3>. QED
      BY <3>4, <3>5, <3>6 DEF Whole
  <2>. QED
    BY <1>6, <2>0, <2>1, <2>2 DEF F!Adopt
<1>. QED
  BY <1>3, <1>4, <1>5, <1>6

LEMMA ResolveWhole == ASSUME Inv, Whole, F!Resolve PROVE Whole'
<1>0. run.pc = "resolve" /\ run.pc \notin Loose \ {"resolve"} /\ ~run.created
  BY DEF F!Resolve, F!At, Whole, Roles, Loose, Inv, RunOK
<1> DEFINE gone == run.op = "restore" /\ run.snap.removed
           to == F!resolveLeaf(disk, gone)
<1>1. gone \in BOOLEAN
  <2>1. run.op = "restore" => run.snap \in Snaps
    BY DEF Inv, RunOK, SnapOK
  <2>. QED
    BY <2>1 DEF Snaps
<1>2. /\ to.ok \in BOOLEAN
      /\ to.ok => to.rel \in Rels /\ Leads(disk, path, to.rel) /\ to.chain = Chain(disk, path)
      /\ \A rel \in Rels : Leads(disk, path, rel) /\ (gone \/ F!Leaf(disk, rel) # 0)
                           => to.ok /\ to.rel = rel /\ to.chain = Chain(disk, path)
  BY <1>1, ResolvesThere, Shapes
<1>3. CASE F!Refuse /\ ~(to.ok /\ F!RequireResolvedPath(to.rel) /\ F!SameChain(to))
  <2>1. ASSUME ~disturbed, kind = "secure", budget.missed = 0, run.undo PROVE FALSE
    <3>1. run.op = "restore" /\ Names(disk, path, run.snap)
      BY <1>0, <2>1 DEF Whole, Calm, Sure
    <3>2. run.snap.rel \in Rels
      BY <3>1 DEF Inv, RunOK, SnapOK, Snaps, Rels
    <3>3. gone \/ F!Leaf(disk, run.snap.rel) # 0
      BY <3>1, <3>2, Leaves, Shapes DEF Names
    <3>4. to.ok /\ to.rel = run.snap.rel /\ to.chain = run.snap.chain
      BY <1>2, <3>1, <3>2, <3>3 DEF Names
    <3>5. F!RequireResolvedPath(to.rel) /\ F!SameChain(to)
      BY <3>1, <3>4 DEF F!RequireResolvedPath, F!SameChain
    <3>. QED
      BY <1>3, <3>4, <3>5
  <2>. QED
    BY <1>0, <1>3, <2>1, RefuseWhole DEF Placed
<1>4. CASE /\ to.ok /\ F!SameChain(to)
           /\ run' = [run EXCEPT !.rel = to.rel, !.chain = to.chain, !.pc = "pin"] /\ F!Quiet
  <2>0. /\ run'.pc = "pin" /\ run'.op = run.op /\ run'.pass = run.pass /\ run'.how = run.how /\ run'.seen = run.seen
        /\ run'.undo = run.undo /\ run'.snap = run.snap /\ run'.created = run.created /\ run'.rel = to.rel
        /\ run'.chain = to.chain
    BY <1>4, Shapes DEF Runs
  <2>1. Roles'
    BY <1>0, <1>4, <2>0 DEF Whole, Roles, F!Quiet, F!Still, Editing, Writing, Placed
  <2>2. ASSUME ~disturbed' PROVE Led' /\ Untouched' /\ Read' /\ Wrote' /\ Sure' /\ Outcome'
    <3>1. Calm /\ ~disturbed
      BY <1>4, <2>2 DEF Whole, F!Quiet, F!Still
    <3>2. Led'
      BY <1>2, <1>4, <2>0, <3>1 DEF Calm, Led, Unled, Loose, F!Quiet, F!Still
    <3>5. Untouched'
      BY <1>0, <1>4, <2>0, <3>1 DEF Calm, Untouched, F!Quiet, F!Still, Placed
    <3>3. Read' /\ Wrote' /\ Outcome'
      BY <1>0, <1>4, <2>0, <3>1 DEF Calm, Read, Wrote, Outcome, Told, Writing, Placed, F!Quiet, F!Still
    <3>4. Sure'
      BY <1>0, <1>2, <1>4, <2>0, <3>1 DEF Calm, Sure, Unled, Loose, F!Quiet, F!Still, F!SameChain
    <3>. QED
      BY <3>2, <3>3, <3>4, <3>5
  <2>3. MadeOnly' /\ Beside'
    BY <1>0, <1>4, <2>0, QuietRest DEF Loose
  <2>. QED
    BY <2>1, <2>2, <2>3 DEF Whole, Calm
<1>. QED
  BY <1>2, <1>3, <1>4 DEF F!Resolve

LEMMA PinWhole == ASSUME Inv, Whole, F!Pin PROVE Whole'
<1>0. run.pc = "pin" /\ ~run.created /\ run.pc \notin Placed /\ kind \in {"secure", "npm"}
  BY DEF F!Pin, F!At, Inv, RunOK, Placed, Scalars
<1> DEFINE p == F!Place(disk, run.rel)
<1>1. p \in F!Dirs \union {"none"} /\ (p # "none" => F!Leaf(disk, run.rel) = disk.entry[p])
  BY Leaves, Shapes
<1>2. ~disturbed /\ kind = "secure" /\ budget.missed = 0 /\ run.undo => p # "none" /\ disk.owner[p] = "user"
  <2>1. ~disturbed /\ kind = "secure" /\ budget.missed = 0 /\ run.undo =>
          run.op = "restore" /\ Names(disk, path, run.snap) /\ run.rel = run.snap.rel
    BY <1>0 DEF Whole, Calm, Sure
  <2>. QED
    BY <2>1 DEF Names
<1>3. CASE F!End("same") /\ UNCHANGED <<disk, pending, rec, budget>> /\ run.op = "clear"
  <2>1. ~run.undo
    BY <1>0, <1>3 DEF Whole, Roles, Writing, Placed
  <2>2. ~disturbed => Seen(disk', path) = was
    BY <1>0, <1>3, <2>1 DEF Whole, Calm, Untouched
  <2>3. pending' = F!NoSnapshot
    BY <1>0, <1>3 DEF Whole, Roles
  <2>4. Roles' /\ Calm'
    BY <1>3, <2>2, <2>3, EndCalm DEF F!End
  <2>5. MadeOnly' /\ Beside'
    BY <1>0, <1>3, FrameRest, IdleFields DEF F!End, Whole, Loose
  <2>. QED
    BY <2>4, <2>5 DEF Whole
<1>4. CASE F!Refuse /\ (p = "none" \/ (kind = "secure" /\ disk.owner[p] # "user"))
  BY <1>0, <1>2, <1>4, RefuseWhole
<1>5. CASE /\ p # "none" /\ (kind = "secure" => disk.owner[p] = "user")
           /\ run' = [run EXCEPT !.dir = p, !.pc = F!AfterPin] /\ F!Quiet
  <2>0. /\ run'.pc = F!AfterPin /\ run'.op = run.op /\ run'.pass = run.pass /\ run'.how = run.how /\ run'.seen = run.seen
        /\ run'.undo = run.undo /\ run'.snap = run.snap /\ run'.created = run.created /\ run'.rel = run.rel
        /\ run'.chain = run.chain /\ run'.dir = p
    BY <1>5, Shapes DEF Runs
  <2>1. /\ F!AfterPin \in {"check", "lock", "probe", "lstat"}
        /\ F!AfterPin = "lstat" => run.op \notin {"restore", "lock", "probe"}
        /\ F!AfterPin = "lock" => run.op = "lock"
        /\ F!AfterPin = "probe" => run.op = "probe"
        /\ run.op = "restore" => F!AfterPin = "check"
    BY DEF F!AfterPin
  <2>2. run.op \in {"write", "clear", "restore", "lock", "probe"}
    <3>1. run.op \in {"none", "write", "clear", "restore", "lock", "probe"} 
      BY Shapes DEF Runs
    <3>. QED
      BY <1>0, <3>1 DEF Whole, Roles
  <2>3. Roles'
    BY <1>0, <1>5, <2>0, <2>1, <2>2 DEF Whole, Roles, F!Quiet, F!Still, Editing, Writing, Placed
  <2>4. ASSUME ~disturbed' PROVE Led' /\ Untouched' /\ Read' /\ Wrote' /\ Sure' /\ Outcome'
    <3>1. Calm /\ ~disturbed
      BY <1>5, <2>4 DEF Whole, F!Quiet, F!Still
    <3>2. Led'
      BY <1>0, <1>5, <2>0, <2>1, <3>1 DEF Calm, Led, Unled, Loose, F!Quiet, F!Still
    <3>3. Untouched'
      BY <1>0, <1>5, <2>0, <2>1, <3>1 DEF Calm, Untouched, F!Quiet, F!Still, Placed
    <3>4. Read' /\ Wrote' /\ Outcome'
      BY <1>0, <1>5, <2>0, <2>1, <3>1 DEF Calm, Read, Wrote, Outcome, Told, Writing, Placed, F!Quiet, F!Still
    <3>5. Sure'
      BY <1>0, <1>5, <2>0, <2>1, <3>1 DEF Calm, Sure, Unled, Loose, F!Quiet, F!Still
    <3>. QED
      BY <3>2, <3>3, <3>4, <3>5
  <2>5. MadeOnly' /\ Beside'
    <3>1. p = "made" => disk.at = "made"
      BY DEF F!Place
    <3>. QED
      BY <1>0, <1>5, <2>0, <2>1, <3>1, FrameRest DEF Whole, F!Quiet, F!Still
  <2>. QED
    BY <2>3, <2>4, <2>5 DEF Whole, Calm
<1>. QED
  BY <1>3, <1>4, <1>5 DEF F!Pin

\* What the call finds in its directory is what is seen there.
LEMMA Here ==
    ASSUME Inv, Led, run.pc \notin Loose
    PROVE  /\ Leads(disk, path, run.rel) /\ F!Place(disk, run.rel) = run.dir /\ run.dir \in F!Dirs
           /\ F!Leaf(disk, run.rel) = disk.entry[run.dir] /\ run.rel = F!Leading(disk, path)
           /\ F!KindOf(disk, disk.entry[run.dir]) # "link"
           /\ Seen(disk, path) = IF F!KindOf(disk, disk.entry[run.dir]) = "file" THEN disk.file[disk.entry[run.dir]].text
                                 ELSE F!Nothing
<1>1. run.pc \notin Unled /\ run.dir \in F!Dirs /\ path \in Rels /\ run.rel \in Rels
  BY Shapes DEF Unled, Loose
<1>2. Leads(disk, path, run.rel) /\ F!Place(disk, run.rel) = run.dir
  BY <1>1 DEF Led
<1>3. F!Leaf(disk, run.rel) = disk.entry[run.dir]
  BY <1>1, <1>2 DEF F!Leaf, F!Dirs
<1>. QED
  BY <1>1, <1>2, <1>3, SeenThere DEF Found

\* A look at the leaf leaves the disk and the rest alone.
LEMMA LookRest ==
    ASSUME Inv, Whole, UNCHANGED <<kind, path, disk, pending, rec, result, was, budget, disturbed, crashed>>,
           run.pc \notin {"made", "adopt"}, run'.pc \notin {"made", "adopt", "idle"},
           run'.pc \notin Loose => run'.dir = run.dir /\ run.pc \notin Loose
    PROVE  MadeOnly' /\ Beside'
BY FrameRest DEF Whole, MadeOnly

LEMMA LstatWhole == ASSUME Inv, Whole, F!Lstat PROVE Whole'
<1>0. run.pc = "lstat" /\ run.pc \notin Loose \union Placed /\ ~run.created /\ ~run.undo
  <2>1. run.pc = "lstat"
    BY DEF F!Lstat, F!At
  <2>. QED
    BY <2>1 DEF Whole, Roles, Editing, Writing, Placed, Loose, Inv, RunOK
<1> DEFINE e == disk.entry[run.dir]
<1>1. CASE F!Refuse
  BY <1>0, <1>1, RefuseWhole
<1>2. CASE e = 0 /\ run' = [run EXCEPT !.old = F!Nothing, !.known = 0, !.pc = "read"]
           /\ UNCHANGED <<kind, path, disk, pending, rec, result, was, budget, disturbed, astray, crashed>>
  <2>0. /\ run'.pc = "read" /\ run'.op = run.op /\ run'.pass = run.pass /\ run'.how = run.how /\ run'.seen = run.seen
        /\ run'.undo = run.undo /\ run'.snap = run.snap /\ run'.created = run.created /\ run'.rel = run.rel
        /\ run'.chain = run.chain /\ run'.dir = run.dir /\ run'.old = F!Nothing
    BY <1>2, Shapes DEF Runs
  <2>1. Roles'
    BY <1>0, <1>2, <2>0 DEF Whole, Roles, Editing, Writing, Placed
  <2>2. ASSUME ~disturbed' PROVE Led' /\ Untouched' /\ Read' /\ Wrote' /\ Sure' /\ Outcome'
    <3>1. Calm /\ ~disturbed /\ Led
      BY <1>2, <2>2 DEF Whole, Calm
    <3>2. Seen(disk, path) = F!Nothing
      BY <1>0, <1>2, <3>1, Here DEF F!KindOf
    <3>3. Led'
      BY <1>0, <1>2, <2>0, <3>1 DEF Calm, Led, Unled, Loose
    <3>4. Untouched'
      BY <1>0, <1>2, <2>0, <3>1 DEF Calm, Untouched, Placed
    <3>5. was = F!Nothing
      BY <1>0, <3>1, <3>2 DEF Calm, Untouched, Placed
    <3>6. Read'
      BY <1>0, <1>2, <2>0, <3>1, <3>5 DEF Calm, Read, Whole, Roles, Editing
    <3>7. Wrote' /\ Outcome'
      BY <1>0, <1>2, <2>0, <3>1 DEF Calm, Wrote, Outcome, Writing, Placed
    <3>8. Sure'
      BY <1>0, <1>2, <2>0, <3>1 DEF Calm, Sure, Unled, Loose
    <3>. QED
      BY <3>3, <3>4, <3>6, <3>7, <3>8
  <2>3. MadeOnly' /\ Beside'
    BY <1>0, <1>2, <2>0, LookRest
  <2>. QED
    BY <2>1, <2>2, <2>3 DEF Whole, Calm
<1>3. CASE e # 0 /\ disk.file[e].kind = "file" /\ F!Goto("open") /\ F!Quiet
  <2>0. /\ run'.pc = "open" /\ run'.op = run.op /\ run'.pass = run.pass /\ run'.how = run.how /\ run'.seen = run.seen
        /\ run'.undo = run.undo /\ run'.snap = run.snap /\ run'.created = run.created /\ run'.rel = run.rel
        /\ run'.chain = run.chain /\ run'.dir = run.dir
    BY <1>3, OnlyPc
  <2>1. Roles'
    BY <1>0, <1>3, <2>0 DEF Whole, Roles, Editing, Writing, Placed, F!Quiet, F!Still
  <2>2. ASSUME ~disturbed' PROVE Led' /\ Untouched' /\ Read' /\ Wrote' /\ Sure' /\ Outcome'
    <3>1. Calm /\ ~disturbed
      BY <1>3, <2>2 DEF Whole, F!Quiet, F!Still
    <3>2. F!KindOf(disk, e) = "file"
      BY <1>3 DEF F!KindOf
    <3>3. Led'
      BY <1>0, <1>3, <2>0, <3>1, <3>2 DEF Calm, Led, Unled, Loose, F!Quiet, F!Still
    <3>4. Untouched'
      BY <1>0, <1>3, <2>0, <3>1 DEF Calm, Untouched, Placed, F!Quiet, F!Still
    <3>6. Read' /\ Wrote' /\ Outcome'
      BY <1>0, <1>3, <2>0, <3>1 DEF Calm, Read, Wrote, Outcome, Told, Writing, Placed, F!Quiet, F!Still
    <3>8. Sure'
      BY <1>0, <1>3, <2>0, <3>1 DEF Calm, Sure, Unled, Loose, F!Quiet, F!Still
    <3>. QED
      BY <3>3, <3>4, <3>6, <3>8
  <2>3. MadeOnly' /\ Beside'
    BY <1>0, <1>3, <2>0, LookRest DEF F!Quiet, F!Still
  <2>. QED
    BY <2>1, <2>2, <2>3 DEF Whole, Calm
<1>. QED
  BY <1>1, <1>2, <1>3 DEF F!Lstat

LEMMA OpenWhole == ASSUME Inv, Whole, F!Open PROVE Whole'
<1>0. run.pc = "open" /\ run.pc \notin Loose \union Placed /\ ~run.created /\ ~run.undo
  <2>1. run.pc = "open"
    BY DEF F!Open, F!At
  <2>. QED
    BY <2>1 DEF Whole, Roles, Editing, Writing, Placed, Loose, Inv, RunOK
<1> DEFINE i == F!Opened(disk.entry[run.dir])
<1>1. CASE F!Refuse
  BY <1>0, <1>1, RefuseWhole
<1>2. CASE run' = [run EXCEPT !.held = i, !.pc = "verify"] /\ F!Quiet
  <2>0. /\ run'.pc = "verify" /\ run'.op = run.op /\ run'.pass = run.pass /\ run'.how = run.how /\ run'.seen = run.seen
        /\ run'.undo = run.undo /\ run'.snap = run.snap /\ run'.created = run.created /\ run'.rel = run.rel
        /\ run'.chain = run.chain /\ run'.dir = run.dir /\ run'.held = i
    BY <1>2, Shapes DEF Runs
  <2>1. Roles'
    BY <1>0, <1>2, <2>0 DEF Whole, Roles, Editing, Writing, Placed, F!Quiet, F!Still
  <2>2. ASSUME ~disturbed' PROVE Led' /\ Untouched' /\ Read' /\ Wrote' /\ Sure' /\ Outcome'
    <3>1. Calm /\ ~disturbed /\ Led
      BY <1>2, <2>2 DEF Whole, Calm, F!Quiet, F!Still
    <3>2. i = disk.entry[run.dir]
      BY <1>0, <3>1, Here DEF F!Opened
    <3>3. Led'
      BY <1>0, <1>2, <2>0, <3>1, <3>2 DEF Led, Unled, Loose, F!Quiet, F!Still
    <3>4. Untouched'
      BY <1>0, <1>2, <2>0, <3>1 DEF Calm, Untouched, Placed, F!Quiet, F!Still
    <3>6. Read' /\ Wrote' /\ Outcome'
      BY <1>0, <1>2, <2>0, <3>1 DEF Calm, Read, Wrote, Outcome, Told, Writing, Placed, F!Quiet, F!Still
    <3>8. Sure'
      BY <1>0, <1>2, <2>0, <3>1 DEF Calm, Sure, Unled, Loose, F!Quiet, F!Still
    <3>. QED
      BY <3>3, <3>4, <3>6, <3>8
  <2>3. MadeOnly' /\ Beside'
    BY <1>0, <1>2, <2>0, LookRest DEF F!Quiet, F!Still
  <2>. QED
    BY <2>1, <2>2, <2>3 DEF Whole, Calm
<1>. QED
  BY <1>1, <1>2 DEF F!Open

LEMMA VerifyWhole == ASSUME Inv, Whole, F!Verify PROVE Whole'
<1>0. run.pc = "verify" /\ run.pc \notin Loose \union Placed /\ ~run.created /\ ~run.undo
  <2>1. run.pc = "verify"
    BY DEF F!Verify, F!At
  <2>. QED
    BY <2>1 DEF Whole, Roles, Editing, Writing, Placed, Loose, Inv, RunOK
<1>1. CASE F!Refuse
  BY <1>0, <1>1, RefuseWhole
<1>2. CASE /\ disk.entry[run.dir] = run.held /\ F!IsOurs(run.held)
           /\ run' = [run EXCEPT !.old = disk.file[run.held].text, !.private = disk.file[run.held].private,
                                 !.known = run.held, !.pc = "read"]
           /\ UNCHANGED <<kind, path, disk, pending, rec, result, was, budget, disturbed, astray, crashed>>
  <2>0. /\ run'.pc = "read" /\ run'.op = run.op /\ run'.pass = run.pass /\ run'.how = run.how /\ run'.seen = run.seen
        /\ run'.undo = run.undo /\ run'.snap = run.snap /\ run'.created = run.created /\ run'.rel = run.rel
        /\ run'.chain = run.chain /\ run'.dir = run.dir /\ run'.old = disk.file[run.held].text
    BY <1>2, Shapes DEF Runs
  <2>1. Roles'
    BY <1>0, <1>2, <2>0 DEF Whole, Roles, Editing, Writing, Placed
  <2>2. ASSUME ~disturbed' PROVE Led' /\ Untouched' /\ Read' /\ Wrote' /\ Sure' /\ Outcome'
    <3>1. Calm /\ ~disturbed /\ Led
      BY <1>2, <2>2 DEF Whole, Calm
    <3>2. Seen(disk, path) = disk.file[run.held].text
      BY <1>0, <1>2, <3>1, Here DEF F!IsOurs
    <3>3. Led'
      BY <1>0, <1>2, <2>0, <3>1 DEF Led, Unled, Loose
    <3>4. Untouched'
      BY <1>0, <1>2, <2>0, <3>1 DEF Calm, Untouched, Placed
    <3>5. was = run'.old
      BY <1>0, <2>0, <3>1, <3>2 DEF Calm, Untouched, Placed
    <3>6. Read'
      BY <1>0, <1>2, <2>0, <3>1, <3>5 DEF Calm, Read, Whole, Roles, Editing
    <3>7. Wrote' /\ Outcome'
      BY <1>0, <1>2, <2>0, <3>1 DEF Calm, Wrote, Outcome, Writing, Placed
    <3>8. Sure'
      BY <1>0, <1>2, <2>0, <3>1 DEF Calm, Sure, Unled, Loose
    <3>. QED
      BY <3>3, <3>4, <3>5, <3>6, <3>7, <3>8
  <2>3. MadeOnly' /\ Beside'
    BY <1>0, <1>2, <2>0, LookRest
  <2>. QED
    BY <2>1, <2>2, <2>3 DEF Whole, Calm
<1>. QED
  BY <1>1, <1>2 DEF F!Verify

\* What the caller makes of what was read.
LEMMA ReadWhole == ASSUME Inv, Whole, F!Reread \/ F!NothingToClear \/ F!Decide PROVE Whole'
<1>0. /\ run.pc = "read" /\ run.pc \notin Loose \union Placed /\ ~run.created /\ ~run.undo /\ run.op \in {"write", "clear"}
      /\ F!Quiet /\ pending = F!NoSnapshot /\ kind \in {"secure", "npm"} /\ run.pass \in {1, 2} /\ run.how # "same"
      /\ (kind = "npm" => run.how # "remove")
  <2>1. run.pc = "read" /\ F!Quiet
    BY DEF F!Reread, F!NothingToClear, F!Decide, F!At
  <2>. QED
    BY <2>1, Shapes DEF Whole, Roles, Editing, Writing, Placed, Loose, Inv, RunOK, Scalars, Runs
<1>1. ~disturbed => Calm /\ Led /\ run.old = was /\ Seen(disk, path) = was
  BY <1>0 DEF Whole, Calm, Read, Told, Untouched
<1>2. CASE F!Reread
  <2>0. /\ run'.pc = "resolve" /\ run'.op = run.op /\ run'.pass = 2 /\ run'.seen = run.old
        /\ run'.undo = run.undo /\ run'.snap = run.snap /\ run'.created = run.created /\ run'.rel = run.rel
        /\ run'.how = IF run.op = "clear" /\ rec.created /\ run.old.lines = 0 THEN "remove" ELSE "commit"
        /\ (run.op = "write" \/ run.old.block # 0) /\ kind = "secure"
    BY <1>2, Shapes DEF Runs, F!Reread
  <2>1. Roles'
    BY <1>0, <2>0 DEF Whole, Roles, Editing, Writing, Placed, F!Quiet, F!Still
  <2>2. ASSUME ~disturbed' PROVE Led' /\ Untouched' /\ Read' /\ Wrote' /\ Sure' /\ Outcome'
    <3>1. Calm /\ ~disturbed
      BY <1>0, <2>2 DEF Whole, F!Quiet, F!Still
    <3>3. Led' /\ Untouched'
      BY <1>0, <1>1, <2>0, <3>1 DEF Led, Untouched, Unled, Loose, Placed, F!Quiet, F!Still
    <3>4. Read'
      BY <1>0, <1>1, <2>0, <3>1 DEF Calm, Read, Told, Writing, Placed, F!Quiet, F!Still
    <3>5. Wrote' /\ Sure' /\ Outcome'
      BY <1>0, <1>1, <2>0, <3>1 DEF Wrote, Sure, Outcome, Unled, Loose, Writing, Placed, F!Quiet, F!Still
    <3>. QED
      BY <3>3, <3>4, <3>5
  <2>3. MadeOnly' /\ Beside'
    BY <1>0, <2>0, LookRest DEF F!Quiet, F!Still, Loose
  <2>. QED
    BY <2>1, <2>2, <2>3 DEF Whole, Calm
<1>3. CASE F!NothingToClear
  <2>0. /\ run'.pc = "purge" /\ run'.op = run.op /\ run'.pass = run.pass /\ run'.seen = run.seen /\ run'.dir = run.dir
        /\ run'.undo = run.undo /\ run'.snap = run.snap /\ run'.created = run.created /\ run'.rel = run.rel
        /\ run'.how = "same" /\ run'.chain = run.chain /\ run.op = "clear" /\ run.pass = 1
    BY <1>3, Shapes DEF Runs, F!NothingToClear
  <2>1. Roles'
    BY <1>0, <2>0 DEF Whole, Roles, Editing, Writing, Placed, F!Quiet, F!Still
  <2>2. ASSUME ~disturbed' PROVE Led' /\ Untouched' /\ Read' /\ Wrote' /\ Sure' /\ Outcome'
    <3>1. Calm /\ ~disturbed
      BY <1>0, <2>2 DEF Whole, F!Quiet, F!Still
    <3>3. Led' /\ Untouched'
      BY <1>0, <1>1, <2>0, <3>1 DEF Led, Untouched, Unled, Loose, Placed, F!Quiet, F!Still
    <3>4. Read'
      BY <1>0, <1>1, <2>0, <3>1 DEF Calm, Read, Told, Writing, Placed, F!Quiet, F!Still
    <3>5. Wrote' /\ Sure' /\ Outcome'
      BY <1>0, <1>1, <2>0, <3>1 DEF Calm, Wrote, Sure, Outcome, Unled, Loose, Writing, Placed, F!Quiet, F!Still
    <3>. QED
      BY <3>3, <3>4, <3>5
  <2>3. MadeOnly' /\ Beside'
    BY <1>0, <2>0, LookRest DEF F!Quiet, F!Still
  <2>. QED
    BY <2>1, <2>2, <2>3 DEF Whole, Calm
<1>4. CASE F!Decide
  <2>1. PICK removes \in BOOLEAN :
          /\ removes = (run.how = "remove" \/ (kind = "npm" /\ run.op = "clear" /\ rec.created /\ run.old.lines = 0))
          /\ run' = [run EXCEPT !.how = IF removes THEN "remove" ELSE "commit",
                       !.want = IF run.op = "write" THEN F!With(F!Source) ELSE F!Without(F!Source),
                       !.pc = CASE removes /\ kind = "npm" -> "remove"
                                [] removes /\ ~F!Existed -> "keep"
                                [] ~removes /\ ~F!Existed -> "temp"
                                [] OTHER -> "backup"]
          /\ (kind = "npm" \/ run.pass = 2)
    <3> DEFINE b == run.how = "remove" \/ (kind = "npm" /\ run.op = "clear" /\ rec.created /\ run.old.lines = 0)
    <3>1. CASE b
      BY <1>4, <3>1 DEF F!Decide
    <3>2. CASE ~b
      BY <1>4, <3>2 DEF F!Decide
    <3>. QED
      BY <3>1, <3>2
  <2>0. /\ run'.op = run.op /\ run'.pass = run.pass /\ run'.seen = run.seen /\ run'.dir = run.dir /\ run'.old = run.old
        /\ run'.undo = run.undo /\ run'.snap = run.snap /\ run'.created = run.created /\ run'.rel = run.rel
        /\ run'.how = (IF removes THEN "remove" ELSE "commit") /\ run'.chain = run.chain
        /\ run'.want = IF run.op = "write" THEN F!With(F!Source) ELSE F!Without(F!Source)
        /\ run'.pc = CASE removes /\ kind = "npm" -> "remove"
                       [] removes /\ ~F!Existed -> "keep"
                       [] ~removes /\ ~F!Existed -> "temp"
                       [] OTHER -> "backup"
    BY <2>1, Shapes DEF Runs
  <2>2. /\ run'.pc \in {"remove", "keep", "temp", "backup"} /\ (run'.pc = "remove" => removes)
        /\ run'.pc = "keep" => removes /\ kind = "secure" /\ run.old = F!Nothing
    <3>1. CASE removes /\ kind = "npm"
      <4>1. F!Existed
        <5>1. run.old.lines = 0
          BY <1>0, <2>1, <3>1
        <5>2. F!Nothing.lines = -3
          BY DEF F!Nothing, F!Text
        <5>. QED
          BY <5>1, <5>2 DEF F!Existed
      <4>. QED
        BY <2>0, <3>1, <4>1
    <3>2. CASE removes /\ kind # "npm" /\ run.old = F!Nothing
      BY <1>0, <2>0, <3>2 DEF F!Existed
    <3>3. CASE removes /\ kind # "npm" /\ run.old # F!Nothing
      BY <2>0, <3>3 DEF F!Existed
    <3>4. CASE ~removes /\ run.old = F!Nothing
      BY <2>0, <3>4 DEF F!Existed
    <3>5. CASE ~removes /\ run.old # F!Nothing
      BY <2>0, <3>5 DEF F!Existed
    <3>. QED
      BY <3>1, <3>2, <3>3, <3>4, <3>5
  <2>3. removes => run.op = "clear"
    BY <2>1 DEF Whole, Roles
  <2>4. Roles'
    BY <1>0, <2>0, <2>2, <2>3 DEF Whole, Roles, Editing, Writing, Placed, F!Quiet, F!Still
  <2>5. ASSUME ~disturbed' PROVE Led' /\ Untouched' /\ Read' /\ Wrote' /\ Sure' /\ Outcome'
    <3>1. Calm /\ ~disturbed
      BY <1>0, <2>5 DEF Whole, F!Quiet, F!Still
    <3>2. F!Source = was
      BY <1>0, <1>1, <2>1, <3>1 DEF F!Source, Calm, Read
    <3>3. run'.pc # "keep"
      <4>1. F!Nothing.block = 0
        BY DEF F!Nothing, F!Text
      <4>. QED
        BY <1>0, <1>1, <2>1, <2>2, <2>3, <3>1, <4>1 DEF Calm, Read
    <3>4. Led' /\ Untouched'
      BY <1>0, <1>1, <2>0, <2>2, <3>1 DEF Led, Untouched, Unled, Loose, Placed, F!Quiet, F!Still
    <3>5. Read'
      <4>1. removes => was.lines = 0 /\ (kind = "secure" => run.pass = 2)
        BY <1>1, <2>1, <3>1 DEF Calm, Read
      <4>2. run'.how = "remove" => removes
        BY <2>0
      <4>. QED
        BY <1>0, <1>1, <2>0, <2>2, <3>1, <4>1, <4>2 DEF Calm, Read, F!Quiet, F!Still
    <3>6. Wrote'
      BY <1>0, <1>1, <2>0, <2>2, <3>1, <3>2, <3>3 DEF Wrote, Wanted, Writing, Placed, F!Quiet, F!Still
    <3>7. Sure' /\ Outcome'
      BY <1>0, <1>1, <2>0, <2>2, <3>1 DEF Calm, Sure, Outcome, Unled, Loose, F!Quiet, F!Still
    <3>. QED
      BY <3>4, <3>5, <3>6, <3>7
  <2>6. MadeOnly' /\ Beside'
    BY <1>0, <2>0, <2>2, LookRest DEF F!Quiet, F!Still
  <2>. QED
    BY <2>4, <2>5, <2>6 DEF Whole, Calm
<1>. QED
  BY <1>2, <1>3, <1>4

\* A new inode is at no place where one was.
LEMMA AddThere ==
    ASSUME Inv, NEW f
    PROVE  /\ F!Add(disk, f).file = Append(disk.file, f) /\ F!Add(disk, f).entry = disk.entry /\ F!Add(disk, f).at = disk.at
           /\ F!Add(disk, f).owner = disk.owner /\ F!Add(disk, f).bak = disk.bak /\ F!Add(disk, f).temp = disk.temp
           /\ \A i \in 1 .. Len(disk.file) : Append(disk.file, f)[i] = disk.file[i]
           /\ Append(disk.file, f)[Len(disk.file) + 1] = f /\ Len(disk.file) \in Nat
           /\ \A x \in F!Dirs : disk.entry[x] \in 0 .. Len(disk.file)
<1>1. disk.file \in Seq(F!Inodes) /\ \A x \in F!Dirs : disk.entry[x] \in 0 .. Len(disk.file)
  BY DEF Inv, DiskOK, F!Disks
<1>2. disk \in F!Disks
  BY Shapes
<1>3. /\ F!Add(disk, f).file = Append(disk.file, f) /\ F!Add(disk, f).entry = disk.entry /\ F!Add(disk, f).at = disk.at
      /\ F!Add(disk, f).owner = disk.owner /\ F!Add(disk, f).bak = disk.bak /\ F!Add(disk, f).temp = disk.temp
  BY <1>2 DEF F!Add, F!Disks
<1>4. /\ \A i \in 1 .. Len(disk.file) : Append(disk.file, f)[i] = disk.file[i]
      /\ Append(disk.file, f)[Len(disk.file) + 1] = f /\ Len(disk.file) \in Nat
  BY <1>1
<1>. QED
  BY <1>1, <1>3, <1>4

LEMMA BackupWhole == ASSUME Inv, Whole, F!Backup PROVE Whole'
<1>0. run.pc = "backup" /\ run.pc \notin Loose \union Placed /\ ~run.created /\ ~run.undo /\ run.op \in {"write", "clear"}
  <2>1. run.pc = "backup"
    BY DEF F!Backup, F!At
  <2>. QED
    BY <2>1 DEF Whole, Roles, Editing, Writing, Placed, Loose, Inv, RunOK
<1>1. /\ run'.pc = (IF run.how = "remove" THEN "remove" ELSE "temp") /\ run'.op = run.op /\ run'.pass = run.pass
      /\ run'.rel = run.rel /\ run'.dir = run.dir /\ run'.chain = run.chain /\ run'.old = run.old /\ run'.seen = run.seen
      /\ run'.want = run.want /\ run'.undo = run.undo /\ run'.snap = run.snap /\ run'.how = run.how
      /\ run'.created = run.created
  BY OnlyPc DEF F!Backup
<1>2. /\ UNCHANGED <<kind, path, pending, rec, result, was, disturbed, swapped, astray, crashed>>
      /\ budget'.moved = budget.moved /\ (budget' = budget \/ budget'.missed > 0)
      /\ disk'.entry = disk.entry /\ disk'.at = disk.at /\ disk'.owner = disk.owner
      /\ \A x \in F!Dirs : disk.entry[x] # 0 => disk'.file[disk.entry[x]] = disk.file[disk.entry[x]]
      /\ \A x \in F!Dirs : x # run.dir => disk'.bak[x] = disk.bak[x]
  <2>1. CASE /\ disk' = [F!Add(disk, F!Made(run.old, TRUE)) EXCEPT !.bak[run.dir] =
                            F!rotateBackups(Append(@, Len(disk.file) + 1))]
             /\ F!Still
    <3> DEFINE d == F!Add(disk, F!Made(run.old, TRUE))
               s == F!rotateBackups(Append(d.bak[run.dir], Len(disk.file) + 1))
    <3>1. disk' = [d EXCEPT !.bak[run.dir] = s]
      BY <2>1
    <3>2. /\ d.file = Append(disk.file, F!Made(run.old, TRUE)) /\ d.entry = disk.entry /\ d.at = disk.at
          /\ d.owner = disk.owner /\ d.bak = disk.bak
          /\ \A x \in F!Dirs : disk.entry[x] # 0 => d.file[disk.entry[x]] = disk.file[disk.entry[x]]
      <4> DEFINE f == F!Made(run.old, TRUE)
      <4> HIDE DEF f
      <4>1. /\ F!Add(disk, f).file = Append(disk.file, f) /\ F!Add(disk, f).entry = disk.entry
            /\ F!Add(disk, f).at = disk.at /\ F!Add(disk, f).owner = disk.owner /\ F!Add(disk, f).bak = disk.bak
            /\ \A x \in F!Dirs : disk.entry[x] # 0 => Append(disk.file, f)[disk.entry[x]] = disk.file[disk.entry[x]]
        BY AddThere
      <4>. QED
        BY <4>1 DEF f
    <3>3. d = [disk EXCEPT !.file = Append(@, F!Made(run.old, TRUE))] /\ disk \in F!Disks
      BY Shapes DEF F!Add
    <3> HIDE DEF s
    <3>4. /\ disk'.file = d.file /\ disk'.entry = d.entry /\ disk'.at = d.at /\ disk'.owner = d.owner
          /\ \A x \in F!Dirs : x # run.dir => disk'.bak[x] = d.bak[x]
      BY <3>1, <3>3 DEF F!Disks
    <3>. QED
      BY <2>1, <3>2, <3>4 DEF F!Still
  <2>2. CASE F!Fault /\ UNCHANGED <<disk, kind, path, pending, rec, result, was, disturbed, swapped, astray, crashed>>
    <3>1. budget'.missed = budget.missed + 1 /\ budget'.moved = budget.moved
      BY <2>2 DEF F!Fault, Inv, Scalars, Budgets
    <3>. QED
      BY <2>2, <3>1, Shapes
  <2>. QED
    BY <2>1, <2>2 DEF F!Backup
<1>3. /\ Seen(disk', path) = Seen(disk, path) /\ Chain(disk', path) = Chain(disk, path)
      /\ F!Leading(disk', path) = F!Leading(disk, path)
      /\ \A r \in Rels : Leads(disk', path, r) = Leads(disk, path, r) /\ F!Place(disk', r) = F!Place(disk, r)
  BY <1>2, Shapes, SameEntries
<1>4. Roles'
  BY <1>0, <1>1, <1>2 DEF Whole, Roles, Editing, Writing, Placed
<1>5. ASSUME ~disturbed' PROVE Led' /\ Untouched' /\ Read' /\ Wrote' /\ Sure' /\ Outcome'
  <2>1. Calm /\ ~disturbed
    BY <1>2, <1>5 DEF Whole
  <2>2. Led' /\ Untouched'
    BY <1>0, <1>1, <1>2, <1>3, <2>1, Shapes DEF Calm, Led, Untouched, Unled, Loose, Placed
  <2>3. Read'
    BY <1>0, <1>1, <1>2, <2>1 DEF Calm, Read, Told, Writing, Placed
  <2>4. Wrote' /\ Outcome'
    BY <1>0, <1>1, <1>2, <2>1 DEF Calm, Wrote, Wanted, Outcome, Writing, Placed
  <2>5. Sure'
    BY <1>0, <1>1, <1>2, <1>3, <2>1 DEF Calm, Sure, Unled, Loose
  <2>. QED
    BY <2>2, <2>3, <2>4, <2>5
<1>6. MadeOnly'
  BY <1>0, <1>1, <1>2 DEF Whole, MadeOnly, Loose
<1>7. Beside'
  <2>1. ASSUME budget.moved = 0 PROVE run.dir = F!Place(disk, F!Leading(disk, path)) /\ ~disturbed
    BY <1>0, <2>1, Here DEF Whole, Beside, Calm
  <2>2. F!Place(disk', F!Leading(disk', path)) = F!Place(disk, F!Leading(disk, path))
    BY <1>3, Shapes DEF F!Leading, Rels
  <2>. QED
    BY <1>0, <1>1, <1>2, <2>1, <2>2 DEF Whole, Beside
<1>. QED
  BY <1>4, <1>5, <1>6, <1>7 DEF Whole, Calm

LEMMA CleanedDisk ==
    ASSUME Inv, run.pc \notin Loose
    PROVE  /\ F!Cleaned.file = disk.file /\ F!Cleaned.entry = disk.entry /\ F!Cleaned.at = disk.at
           /\ F!Cleaned.owner = disk.owner /\ F!Cleaned.bak = disk.bak
BY Shapes DEF F!Cleaned, F!Disks

LEMMA createExclusiveWhole == ASSUME Inv, Whole, F!createExclusive PROVE Whole'
<1>0. run.pc = "temp" /\ run.pc \notin Loose \union Placed /\ ~run.created /\ run.op \in {"write", "clear", "restore"}
  <2>1. run.pc = "temp"
    BY DEF F!createExclusive, F!At
  <2>. QED
    BY <2>1 DEF Whole, Roles, Editing, Writing, Placed, Loose, Inv, RunOK
<1>1. CASE F!Broken /\ UNCHANGED disk
  BY <1>0, <1>1, BrokenWhole DEF Placed
<1>2. CASE /\ disk' = [F!Add(disk, F!File(F!Half, "agent", TRUE, "agent")) EXCEPT !.temp[run.dir] = Len(disk.file) + 1]
           /\ run' = [run EXCEPT !.tmp = Len(disk.file) + 1, !.pc = "fill"] /\ F!Still
  <2>0. /\ run'.pc = "fill" /\ run'.op = run.op /\ run'.pass = run.pass /\ run'.rel = run.rel /\ run'.dir = run.dir
        /\ run'.chain = run.chain /\ run'.old = run.old /\ run'.seen = run.seen /\ run'.want = run.want
        /\ run'.undo = run.undo /\ run'.snap = run.snap /\ run'.how = run.how /\ run'.created = run.created
        /\ run'.tmp = Len(disk.file) + 1
    BY <1>2, Shapes DEF Runs
  <2>1. /\ disk'.entry = disk.entry /\ disk'.at = disk.at /\ disk'.owner = disk.owner /\ disk'.bak = disk.bak
        /\ \A x \in F!Dirs : disk.entry[x] # 0 => disk'.file[disk.entry[x]] = disk.file[disk.entry[x]]
        /\ \A x \in F!Dirs : disk.entry[x] # Len(disk.file) + 1
    <3> DEFINE f == F!File(F!Half, "agent", TRUE, "agent")
    <3>1. disk' = [F!Add(disk, f) EXCEPT !.temp[run.dir] = Len(disk.file) + 1]
      BY <1>2
    <3> HIDE DEF f
    <3>2. F!Add(disk, f) = [disk EXCEPT !.file = Append(@, f)] /\ disk \in F!Disks
      BY Shapes DEF F!Add
    <3>3. /\ disk'.entry = disk.entry /\ disk'.at = disk.at /\ disk'.owner = disk.owner /\ disk'.bak = disk.bak
          /\ disk'.file = Append(disk.file, f)
      BY <3>1, <3>2 DEF F!Disks
    <3>4. /\ \A x \in F!Dirs : disk.entry[x] # 0 => Append(disk.file, f)[disk.entry[x]] = disk.file[disk.entry[x]]
          /\ \A x \in F!Dirs : disk.entry[x] # Len(disk.file) + 1
      BY AddThere
    <3>. QED
      BY <3>3, <3>4
  <2>2. /\ Seen(disk', path) = Seen(disk, path) /\ Chain(disk', path) = Chain(disk, path)
        /\ F!Leading(disk', path) = F!Leading(disk, path)
        /\ \A r \in Rels : Leads(disk', path, r) = Leads(disk, path, r) /\ F!Place(disk', r) = F!Place(disk, r)
    BY <2>1, Shapes, SameEntries
  <2>3. Roles'
    BY <1>0, <1>2, <2>0 DEF Whole, Roles, Editing, Writing, Placed, F!Still
  <2>4. ASSUME ~disturbed' PROVE Led' /\ Untouched' /\ Read' /\ Wrote' /\ Sure' /\ Outcome'
    <3>1. Calm /\ ~disturbed
      BY <1>2, <2>4 DEF Whole, F!Still
    <3>2. Led' /\ Untouched'
      BY <1>0, <1>2, <2>0, <2>1, <2>2, <3>1, Shapes DEF Calm, Led, Untouched, Unled, Loose, Placed, F!Still
    <3>3. Read'
      BY <1>0, <1>2, <2>0, <3>1 DEF Calm, Read, Told, Writing, Placed, F!Still
    <3>4. Wrote' /\ Outcome'
      BY <1>0, <1>2, <2>0, <3>1 DEF Calm, Wrote, Wanted, Outcome, Writing, Placed, F!Still
    <3>5. Sure'
      BY <1>0, <1>2, <2>0, <2>1, <2>2, <3>1 DEF Calm, Sure, Unled, Loose, F!Still
    <3>. QED
      BY <3>2, <3>3, <3>4, <3>5
  <2>5. MadeOnly' /\ Beside'
    BY <1>0, <1>2, <2>0, <2>1, <2>2, FrameRest DEF Whole, MadeOnly, F!Still
  <2>. QED
    BY <2>3, <2>4, <2>5 DEF Whole, Calm
<1>. QED
  BY <1>1, <1>2 DEF F!createExclusive

LEMMA FillWhole == ASSUME Inv, Whole, F!Fill PROVE Whole'
<1>0. /\ run.pc = "fill" /\ run.pc \notin Loose \union Placed /\ ~run.created /\ run.op \in {"write", "clear", "restore"}
      /\ run.tmp \in 1 .. Len(disk.file)
  <2>1. run.pc = "fill"
    BY DEF F!Fill, F!At
  <2>. QED
    BY <2>1 DEF Whole, Roles, Editing, Writing, Placed, Loose, Inv, RunOK, Making, DiskOK, F!Disks
<1>1. CASE disk' = F!Cleaned /\ F!Broken
  BY <1>0, <1>1, BrokenWhole, CleanedDisk DEF Placed
<1>2. CASE disk' = [disk EXCEPT !.file[run.tmp] = F!Made(run.want, F!Mode)] /\ F!Goto("rename") /\ F!Still
  <2>0. /\ run'.pc = "rename" /\ run'.op = run.op /\ run'.pass = run.pass /\ run'.rel = run.rel /\ run'.dir = run.dir
        /\ run'.chain = run.chain /\ run'.old = run.old /\ run'.seen = run.seen /\ run'.want = run.want
        /\ run'.undo = run.undo /\ run'.snap = run.snap /\ run'.how = run.how /\ run'.created = run.created
        /\ run'.tmp = run.tmp /\ run'.private = run.private
    BY <1>2, OnlyPc
  <2>1. /\ disk'.entry = disk.entry /\ disk'.at = disk.at /\ disk'.owner = disk.owner /\ disk'.bak = disk.bak
        /\ disk'.file = [disk.file EXCEPT ![run.tmp] = F!Made(run.want, F!Mode)]
    BY <1>2, Shapes DEF F!Disks
  <2>2. /\ disk'.file[run.tmp] = F!Made(run.want, F!Mode)
        /\ \A i \in 1 .. Len(disk.file) : i # run.tmp => disk'.file[i] = disk.file[i]
    BY <1>0, <2>1 DEF Inv, DiskOK, F!Disks
  <2>3. Roles'
    BY <1>0, <1>2, <2>0 DEF Whole, Roles, Editing, Writing, Placed, F!Still
  <2>4. ASSUME ~disturbed
        PROVE  /\ Seen(disk', path) = Seen(disk, path) /\ Chain(disk', path) = Chain(disk, path)
               /\ F!Leading(disk', path) = F!Leading(disk, path)
               /\ \A r \in Rels : Leads(disk', path, r) = Leads(disk, path, r) /\ F!Place(disk', r) = F!Place(disk, r)
    <3>1. \A x \in F!Dirs : disk.entry[x] # run.tmp
      BY <1>0, <2>4 DEF Whole, Calm, Untouched
    <3>2. \A x \in F!Dirs : disk.entry[x] \in 0 .. Len(disk.file) /\ Len(disk.file) \in Nat
      BY DEF Inv, DiskOK, F!Disks
    <3>3. \A x \in F!Dirs : disk.entry[x] # 0 => disk'.file[disk.entry[x]] = disk.file[disk.entry[x]]
      BY <2>2, <3>1, <3>2
    <3>4. disk'.at = disk.at /\ disk'.entry = disk.entry /\ DiskOK(disk) /\ path \in Rels
      BY <2>1, Shapes
    <3>. QED
      BY <3>3, <3>4, SameEntries
  <2>5. ASSUME ~disturbed' PROVE Led' /\ Untouched' /\ Read' /\ Wrote' /\ Sure' /\ Outcome'
    <3>1. Calm /\ ~disturbed
      BY <1>2, <2>5 DEF Whole, F!Still
    <3>2. Led' /\ Untouched'
      BY <1>0, <1>2, <2>0, <2>1, <2>4, <3>1, Shapes DEF Calm, Led, Untouched, Unled, Loose, Placed, F!Still
    <3>3. Read'
      BY <1>0, <1>2, <2>0, <3>1 DEF Calm, Read, Told, Writing, Placed, F!Still
    <3>4. F!Mode' = F!Mode
      BY <2>0 DEF F!Mode
    <3>5. Wrote' /\ Outcome'
      BY <1>0, <1>2, <2>0, <2>2, <3>1, <3>4 DEF Calm, Wrote, Wanted, Outcome, Writing, Placed, F!Still
    <3>6. Sure'
      BY <1>0, <1>2, <2>0, <2>1, <2>4, <3>1 DEF Calm, Sure, Unled, Loose, F!Still
    <3>. QED
      BY <3>2, <3>3, <3>5, <3>6
  <2>6. MadeOnly' /\ Beside'
    <3>1. budget.moved = 0 => F!Leading(disk', path) = F!Leading(disk, path)
      BY <2>4 DEF Whole, Beside
    <3>. QED
      BY <1>0, <1>2, <2>0, <2>1, <3>1, FrameRest DEF Whole, MadeOnly, F!Still
  <2>. QED
    BY <2>3, <2>5, <2>6 DEF Whole, Calm
<1>. QED
  BY <1>1, <1>2 DEF F!Fill

LEMMA RenameWhole == ASSUME Inv, Whole, F!Rename PROVE Whole'
<1>0. /\ run.pc = "rename" /\ run.pc \notin Loose \union Placed /\ ~run.created /\ run.op \in {"write", "clear", "restore"}
      /\ run.tmp \in 1 .. Len(disk.file)
  <2>1. run.pc = "rename"
    BY DEF F!Rename, F!At
  <2>. QED
    BY <2>1 DEF Whole, Roles, Editing, Writing, Placed, Loose, Inv, RunOK, Making, DiskOK, F!Disks
<1>1. CASE disk' = F!Cleaned /\ F!Broken
  BY <1>0, <1>1, BrokenWhole, CleanedDisk DEF Placed
<1>2. CASE /\ disk' = [F!Cleaned EXCEPT !.entry[run.dir] = run.tmp]
           /\ run' = [run EXCEPT !.known = run.tmp, !.pc = "recheck"]
           /\ UNCHANGED <<kind, path, pending, rec, result, was, budget, disturbed, crashed>>
  <2>0. /\ run'.pc = "recheck" /\ run'.op = run.op /\ run'.pass = run.pass /\ run'.rel = run.rel /\ run'.dir = run.dir
        /\ run'.chain = run.chain /\ run'.old = run.old /\ run'.seen = run.seen /\ run'.want = run.want
        /\ run'.undo = run.undo /\ run'.snap = run.snap /\ run'.how = run.how /\ run'.created = run.created
        /\ run'.tmp = run.tmp /\ run'.private = run.private
    BY <1>2, Shapes DEF Runs
  <2>1. /\ disk'.entry = [disk.entry EXCEPT ![run.dir] = run.tmp] /\ disk'.at = disk.at /\ disk'.owner = disk.owner
        /\ disk'.bak = disk.bak /\ disk'.file = disk.file
    <3>1. F!Cleaned = [disk EXCEPT !.temp[run.dir] = 0] /\ disk \in F!Disks
      BY Shapes DEF F!Cleaned
    <3>. QED
      BY <1>2, <3>1 DEF F!Disks
  <2>2. disk'.entry[run.dir] = run.tmp
    BY <1>0, <2>1, Shapes DEF F!Disks
  <2>3. Roles'
    BY <1>0, <1>2, <2>0 DEF Whole, Roles, Editing, Writing, Placed
  <2>4. ASSUME ~disturbed
        PROVE  /\ Leads(disk', path, run.rel) /\ Chain(disk', path) = Chain(disk, path)
               /\ F!Leading(disk', path) = F!Leading(disk, path)
               /\ \A r \in Rels : F!Place(disk', r) = F!Place(disk, r)
               /\ disk'.file[run.tmp] = F!Made(run.want, F!Mode)
    <3>1. disk.file[run.tmp] = F!Made(run.want, F!Mode) /\ Led
      BY <1>0, <2>4 DEF Whole, Calm, Wrote
    <3>2. F!KindOf(disk', run.tmp) # "link"
      BY <1>0, <2>1, <3>1 DEF F!KindOf, F!Made, F!File
    <3>3. Leads(disk, path, run.rel) /\ F!Place(disk, run.rel) = run.dir /\ run.dir \in F!Dirs /\ run.dir # "none"
      BY <1>0, <3>1, Here DEF F!Dirs
    <3>4. \A x \in F!Dirs : disk.entry[x] # 0 => disk'.file[disk.entry[x]] = disk.file[disk.entry[x]]
      BY <2>1
    <3>. QED
      BY <2>1, <3>1, <3>2, <3>3, <3>4, Shapes, PutThere
  <2>5. ASSUME ~disturbed' PROVE Led' /\ Untouched' /\ Read' /\ Wrote' /\ Sure' /\ Outcome'
    <3>1. Calm /\ ~disturbed
      BY <1>2, <2>5 DEF Whole
    <3>2. Led' /\ Untouched'
      BY <1>0, <1>2, <2>0, <2>1, <2>4, <3>1, Shapes DEF Calm, Led, Untouched, Unled, Loose, Placed
    <3>3. Read'
      BY <1>0, <1>2, <2>0, <3>1 DEF Calm, Read, Told, Writing, Placed
    <3>4. F!Mode' = F!Mode
      BY <2>0 DEF F!Mode
    <3>5. Wrote' /\ Outcome'
      BY <1>0, <1>2, <2>0, <2>2, <2>4, <3>1, <3>4 DEF Calm, Wrote, Wanted, Outcome, Writing, Placed
    <3>6. Sure'
      BY <1>0, <1>2, <2>0, <2>1, <2>4, <3>1 DEF Calm, Sure, Unled, Loose
    <3>. QED
      BY <3>2, <3>3, <3>5, <3>6
  <2>6. MadeOnly' /\ Beside'
    <3>1. budget.moved = 0 => F!Leading(disk', path) = F!Leading(disk, path)
      BY <2>4 DEF Whole, Beside
    <3>. QED
      BY <1>0, <1>2, <2>0, <2>1, <3>1, FrameRest DEF Whole, MadeOnly
  <2>. QED
    BY <2>3, <2>5, <2>6 DEF Whole, Calm
<1>. QED
  BY <1>1, <1>2 DEF F!Rename

-----------------------------------------------------------------------------
(* After the rename: the call looks at what it has done, and undoes it if  *)
(* that is not what it did.                                                *)

\* What has been put in its place is what is seen there.
LEMMA PlacedThere ==
    ASSUME Inv, Whole, run.pc \in Placed, ~disturbed
    PROVE  /\ disk.entry[run.dir] = run.tmp /\ disk.file[run.tmp] = F!Made(Wanted, F!Mode) /\ run.want = Wanted
           /\ run.tmp # 0 /\ run.old = was /\ Leads(disk, path, run.rel) /\ F!Leaf(disk, run.rel) = run.tmp
           /\ F!IsOurs(run.tmp) /\ Seen(disk, path) = Wanted
<1>1. Led /\ Read /\ Wrote /\ run.pc \notin Loose /\ run.pc \in Told \intersect Writing /\ run.pc \in Making
  BY DEF Whole, Calm, Placed, Loose, Told, Writing, Making
<1>2. /\ disk.entry[run.dir] = run.tmp /\ disk.file[run.tmp] = F!Made(run.want, F!Mode) /\ run.want = Wanted
      /\ run.old = was /\ run.tmp # 0
  BY <1>1 DEF Wrote, Read, Inv, RunOK
<1>3. disk.file[run.tmp].kind = "file" /\ disk.file[run.tmp].text = Wanted /\ disk.file[run.tmp].owner = "user"
  BY <1>2 DEF F!Made, F!File
<1>4. F!KindOf(disk, run.tmp) = "file" /\ F!IsOurs(run.tmp)
  BY <1>2, <1>3 DEF F!KindOf, F!IsOurs
<1>. QED
  BY <1>1, <1>2, <1>3, <1>4, Here

LEMMA PlacedRoles ==
    ASSUME Inv, Whole, run.pc \in Placed
    PROVE  /\ run.op \in {"write", "clear", "restore"} /\ pending = F!NoSnapshot /\ ~run.created /\ run.undo \in BOOLEAN
           /\ (run.op = "restore" => run.undo) /\ run.pc \notin Loose \union {"made", "adopt"} /\ run.how # "same"
           /\ run.pc \in Told
           /\ (run.how = "remove" => kind = "secure")
<1>1. run.pc \in Writing \union Placed /\ run.pc \notin {"lockCheck", "lockMetadata", "idle", "purge", "remove"}
  BY DEF Placed, Writing
<1>. QED
  BY <1>1, Shapes DEF Whole, Roles, Inv, RunOK, Runs, Scalars, Placed, Loose, Told, Writing

LEMMA UndoWhole ==
    ASSUME Inv, Whole, run.pc \in Placed, F!afterFailedRollback, budget'.moved = budget.moved,
           ~disturbed => budget'.missed > 0 \/ kind = "npm"
    PROVE  Whole'
<1>0. UNCHANGED <<kind, path, disk, pending, rec, was, disturbed, swapped, astray, crashed>>
  BY DEF F!afterFailedRollback, F!UndoFails, F!Rollback, F!End
<1>1. CASE F!UndoFails
  <2>1. run' = F!Idle /\ result' = "unverified" /\ pending' = F!NoSnapshot
    BY <1>1, PlacedRoles DEF F!UndoFails, F!End
  <2>2. Roles' /\ Calm'
    BY <1>0, <2>1, EndCalm
  <2>3. MadeOnly' /\ Beside'
    BY <1>0, <2>1, PlacedRoles, IdleFields, FrameRest DEF Whole, Loose
  <2>. QED
    BY <2>2, <2>3 DEF Whole
<1>2. CASE F!Rollback
  <2>0. /\ run'.pc = (IF F!Existed THEN "temp" ELSE "unmake") /\ run'.op = run.op /\ run'.pass = run.pass
        /\ run'.rel = run.rel /\ run'.dir = run.dir /\ run'.chain = run.chain /\ run'.old = run.old
        /\ run'.seen = run.seen /\ run'.want = run.old /\ run'.undo = TRUE /\ run'.snap = run.snap
        /\ run'.how = run.how /\ run'.created = run.created
    BY <1>2, Shapes DEF Runs, F!Rollback
  <2>1. Roles'
    <3>1. run'.pc \in {"temp", "unmake"}
      BY <2>0
    <3>. QED
      BY <1>0, <2>0, <3>1, PlacedRoles DEF Whole, Roles, Editing, Writing, Placed
  <2>2. ASSUME ~disturbed' PROVE Led' /\ Untouched' /\ Read' /\ Wrote' /\ Sure' /\ Outcome'
    <3>1. Calm /\ ~disturbed
      BY <1>0, <2>2 DEF Whole
    <3>2. run'.pc \in {"temp", "unmake"} /\ run.old = was /\ (run'.pc = "unmake" => was = F!Nothing)
      BY <2>0, <3>1, PlacedThere DEF F!Existed
    <3>3. Led' /\ Untouched'
      BY <1>0, <2>0, <3>1, <3>2, PlacedRoles DEF Calm, Led, Untouched, Unled, Loose, Placed
    <3>4. Read'
      BY <1>0, <2>0, <3>1, <3>2, PlacedRoles DEF Calm, Read
    <3>5. Wrote'
      BY <1>0, <2>0, <3>2 DEF Wrote, Wanted, Placed
    <3>6. Sure' /\ Outcome'
      BY <1>0, <2>0, <3>1, <3>2 DEF Sure, Outcome
    <3>. QED
      BY <3>3, <3>4, <3>5, <3>6
  <2>3. MadeOnly' /\ Beside'
    BY <1>0, <2>0, PlacedRoles, FrameRest DEF Whole, MadeOnly
  <2>. QED
    BY <2>1, <2>2, <2>3 DEF Whole, Calm
<1>. QED
  BY <1>1, <1>2 DEF F!afterFailedRollback

LEMMA UndoneWhole == ASSUME Inv, Whole, run.pc \in Placed, run.undo, F!Undone PROVE Whole'
<1>0. /\ UNCHANGED <<kind, path, disk, pending, rec, was, budget, disturbed, swapped, astray, crashed>>
      /\ run' = F!Idle /\ result' \in {"restored", "failed"} /\ pending' = F!NoSnapshot
  BY PlacedRoles DEF F!Undone, F!End
<1>1. ~disturbed => Seen(disk', path) = was
  BY <1>0, PlacedThere DEF Wanted
<1>2. Roles' /\ Calm'
  BY <1>0, <1>1, EndCalm
<1>3. MadeOnly' /\ Beside'
  BY <1>0, PlacedRoles, IdleFields, FrameRest DEF Whole, Loose
<1>. QED
  BY <1>2, <1>3 DEF Whole

\* It goes on to its next look, or has looked enough.
LEMMA LookedWhole ==
    ASSUME Inv, Whole, run.pc \in Placed, NEW stage \in {"readback", "metadata", "keep"}, F!Goto(stage), F!Quiet,
           stage = "keep" => ~run.undo, stage = "readback" /\ kind = "npm" => ~run.undo
    PROVE  Whole'
<1>0. /\ run'.pc = stage /\ run'.op = run.op /\ run'.pass = run.pass /\ run'.rel = run.rel /\ run'.dir = run.dir
      /\ run'.chain = run.chain /\ run'.old = run.old /\ run'.seen = run.seen /\ run'.want = run.want
      /\ run'.undo = run.undo /\ run'.snap = run.snap /\ run'.how = run.how /\ run'.created = run.created
      /\ run'.tmp = run.tmp /\ run'.private = run.private
  BY OnlyPc
<1>1. Roles'
  BY <1>0, PlacedRoles DEF Whole, Roles, Editing, Writing, Placed, F!Quiet, F!Still
<1>2. ASSUME ~disturbed' PROVE Led' /\ Untouched' /\ Read' /\ Wrote' /\ Sure' /\ Outcome'
  <2>1. Calm /\ ~disturbed
    BY <1>2 DEF Whole, F!Quiet, F!Still
  <2>2. Led' /\ Untouched'
    BY <1>0, <2>1, PlacedRoles DEF Calm, Led, Untouched, Unled, Loose, Placed, F!Quiet, F!Still
  <2>3. Read'
    BY <1>0, <2>1, PlacedRoles DEF Calm, Read, Told, F!Quiet, F!Still
  <2>4. F!Mode' = F!Mode /\ Wanted' = Wanted /\ (~run.undo => F!Mode = TRUE)
    BY <1>0 DEF F!Mode, Wanted, F!Quiet, F!Still
  <2>5. Wrote'
    BY <1>0, <2>1, <2>4, PlacedThere DEF Wrote, F!Quiet, F!Still
  <2>6. Sure' /\ Outcome'
    BY <1>0, <2>1, PlacedRoles DEF Calm, Sure, Outcome, Unled, Loose, F!Quiet, F!Still
  <2>. QED
    BY <2>2, <2>3, <2>5, <2>6
<1>3. MadeOnly' /\ Beside'
  BY <1>0, PlacedRoles, LookRest DEF F!Quiet, F!Still
<1>. QED
  BY <1>1, <1>2, <1>3 DEF Whole, Calm

LEMMA RecheckWhole == ASSUME Inv, Whole, F!Recheck \/ F!Readback \/ F!MetadataSecure PROVE Whole'
<1>0. run.pc \in Placed /\ kind \in {"secure", "npm"}
  BY DEF F!Recheck, F!Readback, F!MetadataSecure, F!At, Placed, Inv, Scalars
<1>1. CASE F!Recheck
  <2>0. run.pc = "recheck"
    BY <1>1 DEF F!Recheck, F!At
  <2>1. CASE ~F!Committed /\ F!afterFailedRollback /\ UNCHANGED budget
    <3>1. ~disturbed => kind = "npm"
      BY <1>0, <2>1, PlacedThere DEF F!Committed, F!metadataSecure
    <3>. QED
      BY <1>0, <2>1, <3>1, UndoWhole
  <2>2. CASE kind = "npm" /\ run.undo /\ F!Undone
    BY <1>0, <2>2, UndoneWhole
  <2>3. CASE /\ ~(kind = "npm" /\ run.undo) /\ F!Quiet
             /\ F!Goto(IF kind = "npm" /\ run.op = "clear" THEN "keep" ELSE "readback")
    <3>1. CASE kind = "npm" /\ run.op = "clear"
      <4>1. F!Goto("keep")
        BY <2>3, <3>1
      <4>. QED
        BY <1>0, <2>3, <3>1, <4>1, LookedWhole, PlacedRoles
    <3>2. CASE ~(kind = "npm" /\ run.op = "clear")
      <4>1. F!Goto("readback")
        BY <2>3, <3>2
      <4>. QED
        BY <1>0, <2>3, <3>2, <4>1, LookedWhole, PlacedRoles
    <3>. QED
      BY <3>1, <3>2
  <2>. QED
    BY <1>1, <2>1, <2>2, <2>3 DEF F!Recheck
<1>2. CASE F!Readback
  <2>0. run.pc = "readback" /\ (kind = "npm" => ~run.undo)
    BY <1>2 DEF F!Readback, F!At, Whole, Roles
  <2>1. CASE F!Goto(IF kind = "secure" THEN "metadata" ELSE "keep") /\ F!Quiet
    <3>1. CASE kind = "secure"
      <4>1. F!Goto("metadata")
        BY <2>1, <3>1
      <4>. QED
        BY <1>0, <2>1, <4>1, LookedWhole
    <3>2. CASE kind # "secure"
      <4>1. F!Goto("keep")
        BY <2>1, <3>2
      <4>. QED
        BY <1>0, <2>0, <2>1, <3>2, <4>1, LookedWhole
    <3>. QED
      BY <3>1, <3>2
  <2>2. CASE F!afterFailedRollback /\ F!Fault
    <3>1. budget'.missed = budget.missed + 1 /\ budget'.moved = budget.moved /\ budget.missed \in Nat
      BY <2>2 DEF F!Fault, Inv, Scalars, Budgets
    <3>. QED
      BY <1>0, <2>2, <3>1, UndoWhole
  <2>3. CASE /\ F!afterFailedRollback /\ UNCHANGED budget
             /\ ~(F!IsOurs(disk.entry[run.dir]) /\ (kind = "secure" => disk.file[disk.entry[run.dir]].text = run.want))
    <3>1. disturbed
      <4>. SUFFICES ASSUME ~disturbed PROVE FALSE
        OBVIOUS
      <4>1. F!IsOurs(run.tmp) /\ disk.entry[run.dir] = run.tmp /\ disk.file[run.tmp].text = run.want
        BY <1>0, PlacedThere DEF F!Made, F!File
      <4>. QED
        BY <2>3, <4>1
    <3>. QED
      BY <1>0, <2>3, <3>1, UndoWhole
  <2>. QED
    BY <1>2, <2>1, <2>2, <2>3 DEF F!Readback
<1>3. CASE F!MetadataSecure
  <2>0. run.pc = "metadata"
    BY <1>3 DEF F!MetadataSecure, F!At
  <2>1. CASE run.undo /\ F!Undone
    BY <1>0, <2>1, UndoneWhole
  <2>2. CASE ~run.undo /\ F!Goto("keep") /\ F!Quiet
    BY <1>0, <2>2, LookedWhole
  <2> DEFINE to == F!resolveLeaf(disk, FALSE)
             e  == F!Leaf(disk, to.rel)
  <2>3. CASE F!afterFailedRollback /\ UNCHANGED budget /\ ~(to.ok /\ F!IsOurs(e) /\ disk.file[e].private = F!Mode)
    <3>1. disturbed
      <4>. SUFFICES ASSUME ~disturbed PROVE FALSE
        OBVIOUS
      <4>1. /\ F!IsOurs(run.tmp) /\ disk.file[run.tmp].private = F!Mode /\ Leads(disk, path, run.rel)
            /\ F!Leaf(disk, run.rel) = run.tmp /\ run.tmp # 0
        BY <1>0, PlacedThere DEF F!Made, F!File
      <4>2. to.ok /\ to.rel = run.rel
        BY <4>1, Shapes, ResolvesThere
      <4>. QED
        BY <2>3, <4>1, <4>2
    <3>. QED
      BY <1>0, <2>3, <3>1, UndoWhole
  <2>. QED
    BY <1>3, <2>1, <2>2, <2>3 DEF F!MetadataSecure
<1>. QED
  BY <1>1, <1>2, <1>3

-----------------------------------------------------------------------------
(* Keeping, removing, and what is left beside the file.                    *)
LEMMA KeepWhole == ASSUME Inv, Whole, F!Keep PROVE Whole'
<1>0. /\ run.pc = "keep" /\ run.pc \notin Loose \union Placed \union Unled /\ ~run.created /\ ~run.undo
      /\ run.op \in {"write", "clear"} /\ run.how # "same" /\ run.pc \in Told
  <2>1. run.pc = "keep"
    BY DEF F!Keep, F!At
  <2>. QED
    BY <2>1 DEF Whole, Roles, Editing, Writing, Placed, Loose, Unled, Told, Inv, RunOK
<1>1. UNCHANGED <<kind, path, disk, was, budget, disturbed, swapped, astray, crashed>>
  BY DEF F!Keep
<1>2. /\ pending' = F!Snapshot(FALSE, run.tmp) /\ pending'.rel = run.rel /\ pending'.old = run.old /\ pending'.removed = FALSE
      /\ pending'.committed = run.tmp /\ pending'.chain = run.chain
  BY DEF F!Keep, F!Snapshot
<1>3. ASSUME ~disturbed
      PROVE  /\ Leads(disk, path, run.rel) /\ F!Leaf(disk, run.rel) = run.tmp /\ run.tmp # 0 /\ run.old = was
             /\ disk.file[run.tmp] = F!Made(Wanted, TRUE) /\ Seen(disk, path) = Wanted /\ run.dir = F!Place(disk, run.rel)
             /\ disk.entry[run.dir] = run.tmp /\ run.dir # "none"
             /\ kind = "secure" /\ budget.missed = 0 => disk.owner[run.dir] = "user" /\ run.chain = Chain(disk, path)
  <2>1. Led /\ Read /\ Wrote /\ Sure
    BY <1>3 DEF Whole, Calm
  <2>2. /\ disk.entry[run.dir] = run.tmp /\ disk.file[run.tmp] = F!Made(Wanted, TRUE) /\ run.tmp # 0 /\ run.old = was
    BY <1>0, <2>1 DEF Wrote, Read
  <2>3. F!KindOf(disk, run.tmp) = "file" /\ disk.file[run.tmp].text = Wanted
    BY <2>2 DEF F!KindOf, F!Made, F!File
  <2>4. kind = "secure" /\ budget.missed = 0 => disk.owner[run.dir] = "user" /\ run.chain = Chain(disk, path)
    BY <1>0, <2>1 DEF Sure
  <2>. QED
    BY <1>0, <2>1, <2>2, <2>3, <2>4, Here DEF F!Dirs
<1>4. ~disturbed => Leads(disk', path, pending'.rel) /\ (kind = "secure" /\ budget'.missed = 0 => Names(disk', path, pending'))
  BY <1>1, <1>2, <1>3 DEF Names
<1>5. CASE run.op = "write"
  <2>1. run' = F!Idle /\ result' = "written"
    BY <1>5 DEF F!Keep
  <2>2. ~disturbed => \E rel \in Rels : Leads(disk', path, rel) /\ F!Leaf(disk', rel) # 0
                                        /\ disk'.file[F!Leaf(disk', rel)] = F!Made(F!With(was), TRUE)
    BY <1>0, <1>1, <1>3, <1>5, Shapes DEF Wanted
  <2>3. Roles' /\ Calm'
    BY <1>1, <1>4, <2>1, <2>2, EndCalm
  <2>4. MadeOnly' /\ Beside'
    BY <1>0, <1>1, <2>1, IdleFields, FrameRest DEF Whole, Loose
  <2>. QED
    BY <2>3, <2>4 DEF Whole
<1>6. CASE run.op # "write"
  <2>0. /\ run'.pc = "purge" /\ run'.op = "clear" /\ run'.pass = run.pass /\ run'.rel = run.rel /\ run'.dir = run.dir
        /\ run'.chain = run.chain /\ run'.seen = run.seen /\ run'.undo = run.undo /\ run'.snap = run.snap
        /\ run'.how = run.how /\ run'.created = run.created /\ UNCHANGED <<result, rec>> /\ run.op = "clear"
    BY <1>0, <1>6, OnlyPc DEF F!Keep
  <2>1. Roles'
    BY <1>0, <1>1, <2>0 DEF Whole, Roles, Editing, Writing, Placed
  <2>2. ASSUME ~disturbed' PROVE Led' /\ Untouched' /\ Read' /\ Wrote' /\ Sure' /\ Outcome'
    <3>1. Calm /\ ~disturbed
      BY <1>1, <2>2 DEF Whole
    <3>2. Led' /\ Untouched'
      BY <1>0, <1>1, <1>2, <1>3, <2>0, <3>1 DEF Calm, Led, Untouched, Unled, Loose, Placed
    <3>3. Read'
      <4>1. pending'.old = was /\ UNCHANGED <<was, kind>>
        BY <1>1, <1>2, <1>3, <3>1
      <4>. QED
        BY <1>0, <2>0, <3>1, <4>1 DEF Calm, Read, Told, Writing, Placed
    <3>4. Wrote' /\ Outcome'
      BY <1>0, <1>1, <1>3, <1>6, <2>0, <3>1 DEF Wrote, Wanted, Outcome, Writing, Placed
    <3>5. Sure'
      BY <1>0, <1>1, <1>3, <1>4, <2>0, <3>1 DEF Calm, Sure, Unled, Loose
    <3>. QED
      BY <3>2, <3>3, <3>4, <3>5
  <2>3. MadeOnly' /\ Beside'
    BY <1>0, <1>1, <2>0, FrameRest DEF Whole, MadeOnly
  <2>. QED
    BY <2>1, <2>2, <2>3 DEF Whole, Calm
<1>. QED
  BY <1>5, <1>6

\* What leaves the entry of the call's directory empty.
LEMMA TakenThere ==
    ASSUME Inv, Whole, run.pc \notin Loose, disk' = [disk EXCEPT !.entry[run.dir] = 0]
    PROVE  /\ disk'.entry = [disk.entry EXCEPT ![run.dir] = 0] /\ disk'.at = disk.at /\ disk'.owner = disk.owner
           /\ disk'.bak = disk.bak /\ disk'.file = disk.file /\ disk'.entry[run.dir] = 0 /\ run.dir \in F!Dirs
           /\ ~disturbed => /\ Leads(disk', path, run.rel) /\ Chain(disk', path) = Chain(disk, path)
                            /\ F!Leading(disk', path) = F!Leading(disk, path) /\ Seen(disk', path) = F!Nothing
                            /\ \A r \in Rels : F!Place(disk', r) = F!Place(disk, r)
<1>1. /\ disk'.entry = [disk.entry EXCEPT ![run.dir] = 0] /\ disk'.at = disk.at /\ disk'.owner = disk.owner
      /\ disk'.bak = disk.bak /\ disk'.file = disk.file /\ disk'.entry[run.dir] = 0 /\ run.dir \in F!Dirs
  BY Shapes DEF F!Disks
<1>2. ASSUME ~disturbed
      PROVE  /\ Leads(disk', path, run.rel) /\ Chain(disk', path) = Chain(disk, path)
             /\ F!Leading(disk', path) = F!Leading(disk, path) /\ Seen(disk', path) = F!Nothing
             /\ \A r \in Rels : F!Place(disk', r) = F!Place(disk, r)
  <2>1. Leads(disk, path, run.rel) /\ F!Place(disk, run.rel) = run.dir /\ run.dir # "none"
    BY <1>2, Here DEF Whole, Calm, F!Dirs
  <2>2. F!KindOf(disk', 0) = "none"
    BY DEF F!KindOf
  <2>3. /\ \A x \in F!Dirs : disk.entry[x] # 0 => disk'.file[disk.entry[x]] = disk.file[disk.entry[x]]
        /\ disk'.at = disk.at /\ disk'.entry = [disk.entry EXCEPT ![F!Place(disk, run.rel)] = 0]
        /\ F!Place(disk, run.rel) # "none"
    BY <1>1, <2>1
  <2>4. DiskOK(disk) /\ path \in Rels /\ run.rel \in Rels
    BY Shapes
  <2> DEFINE e == disk'
             n == 0
  <2>5. F!KindOf(e, n) # "link" /\ e.at = disk.at /\ e.entry = [disk.entry EXCEPT ![F!Place(disk, run.rel)] = n]
    BY <2>2, <2>3
  <2>6. \A x \in F!Dirs : disk.entry[x] # 0 => e.file[disk.entry[x]] = disk.file[disk.entry[x]]
    BY <2>3
  <2>7. F!KindOf(e, n) = "none"
    BY <2>2
  <2> HIDE DEF e, n
  <2>8. /\ Leads(e, path, run.rel) /\ Chain(e, path) = Chain(disk, path) /\ F!Leading(e, path) = F!Leading(disk, path)
        /\ Seen(e, path) = IF F!KindOf(e, n) = "file" THEN e.file[n].text ELSE F!Nothing
        /\ \A r \in Rels : F!Place(e, r) = F!Place(disk, r)
    BY <2>1, <2>3, <2>4, <2>5, <2>6, PutThere
  <2>. QED
    BY <2>7, <2>8 DEF e
<1>. QED
  BY <1>1, <1>2

LEMMA RemoveWhole == ASSUME Inv, Whole, F!Remove PROVE Whole'
<1>0. /\ run.pc = "remove" /\ run.pc \notin Loose \union Placed \union Unled /\ ~run.created /\ ~run.undo
      /\ run.op = "clear" /\ run.how = "remove" /\ run.pc \in Told
  <2>1. run.pc = "remove"
    BY DEF F!Remove, F!At
  <2>. QED
    BY <2>1 DEF Whole, Roles, Editing, Writing, Placed, Loose, Unled, Told, Inv, RunOK
<1>1. CASE F!Refuse
  BY <1>0, <1>1, RefuseWhole
<1>2. CASE F!Broken /\ UNCHANGED disk
  BY <1>0, <1>2, BrokenWhole
<1>3. CASE /\ disk' = [disk EXCEPT !.entry[run.dir] = 0]
           /\ pending' = F!Snapshot(TRUE, disk.entry[run.dir]) /\ F!Goto("purge")
           /\ UNCHANGED <<kind, path, rec, result, was, budget, disturbed, swapped, crashed>>
  <2>0. /\ run'.pc = "purge" /\ run'.op = "clear" /\ run'.pass = run.pass /\ run'.rel = run.rel /\ run'.dir = run.dir
        /\ run'.chain = run.chain /\ run'.seen = run.seen /\ run'.undo = run.undo /\ run'.snap = run.snap
        /\ run'.how = run.how /\ run'.created = run.created
    BY <1>0, <1>3, OnlyPc
  <2>1. /\ pending'.rel = run.rel /\ pending'.old = run.old /\ pending'.removed = TRUE /\ pending'.chain = run.chain
    BY <1>3 DEF F!Snapshot
  <2>2. /\ disk'.entry = [disk.entry EXCEPT ![run.dir] = 0] /\ disk'.at = disk.at /\ disk'.owner = disk.owner
        /\ disk'.bak = disk.bak /\ disk'.entry[run.dir] = 0 /\ run.dir \in F!Dirs
        /\ ~disturbed => /\ Leads(disk', path, run.rel) /\ Chain(disk', path) = Chain(disk, path)
                         /\ F!Leading(disk', path) = F!Leading(disk, path) /\ Seen(disk', path) = F!Nothing
                         /\ \A r \in Rels : F!Place(disk', r) = F!Place(disk, r)
    BY <1>0, <1>3, TakenThere
  <2>3. Roles'
    BY <1>0, <1>3, <2>0 DEF Whole, Roles, Editing, Writing, Placed
  <2>4. ASSUME ~disturbed' PROVE Led' /\ Untouched' /\ Read' /\ Wrote' /\ Sure' /\ Outcome'
    <3>1. Calm /\ ~disturbed
      BY <1>3, <2>4 DEF Whole
    <3>0. UNCHANGED <<kind, path, was>> /\ run.rel \in Rels
      BY <1>3, Shapes
    <3>9. run.dir = F!Place(disk, run.rel)
      BY <1>0, <3>1 DEF Calm, Led
    <3>2. Led' /\ Untouched'
      BY <1>0, <2>0, <2>1, <2>2, <3>0, <3>1, <3>9 DEF Led, Untouched, Unled, Loose, Placed
    <3>3. Read'
      <4>1. run.old = was
        BY <1>0, <3>1 DEF Calm, Read
      <4>. QED
        BY <1>0, <2>0, <2>1, <3>0, <3>1, <4>1 DEF Calm, Read, Told, Writing, Placed
    <3>4. Wrote' /\ Outcome'
      BY <1>0, <1>3, <2>0, <2>2, <3>1 DEF Calm, Read, Wrote, Outcome, Writing, Placed
    <3>5. kind = "secure" /\ budget.missed = 0 => disk.owner[run.dir] = "user" /\ run.chain = Chain(disk, path)
      BY <1>0, <3>1 DEF Calm, Sure
    <3>6. run.dir = F!Place(disk', run.rel) /\ run.dir # "none"
      BY <1>0, <2>2, <3>1, Shapes DEF Calm, Led, F!Dirs
    <3>7. kind = "secure" /\ budget.missed = 0 => Names(disk', path, pending')
      BY <2>1, <2>2, <3>1, <3>5, <3>6 DEF Names
    <3>8. Sure'
      BY <1>0, <1>3, <2>0, <2>2, <3>1, <3>5, <3>7 DEF Sure
    <3>. QED
      BY <3>2, <3>3, <3>4, <3>8
  <2>5. MadeOnly' /\ Beside'
    <3>1. budget.moved = 0 => F!Leading(disk', path) = F!Leading(disk, path)
      BY <2>2 DEF Whole, Beside
    <3>. QED
      BY <1>0, <1>3, <2>0, <2>2, <3>1, FrameRest DEF Whole, MadeOnly
  <2>. QED
    BY <2>3, <2>4, <2>5 DEF Whole, Calm
<1>. QED
  BY <1>1, <1>2, <1>3 DEF F!Remove

\* The backups of the directory where the path leads are all there are.
LEMMA PurgedRest ==
    ASSUME Inv, Whole, run.pc = "purge", NEW x \in F!Dirs, run' = F!Idle,
           UNCHANGED <<path, disturbed, crashed>>, budget'.moved = budget.moved,
           disk' = [disk EXCEPT !.bak[x] = <<>>], ~disturbed => x = F!Place(disk, run.rel)
    PROVE  MadeOnly' /\ Beside'
<1>1. /\ disk'.at = disk.at /\ disk'.entry = disk.entry /\ disk'.owner = disk.owner /\ disk'.file = disk.file
      /\ disk'.bak[x] = <<>> /\ \A y \in F!Dirs : y # x => disk'.bak[y] = disk.bak[y]
  BY Shapes DEF F!Disks
<1>2. MadeOnly'
  BY <1>1, IdleFields DEF Whole, MadeOnly, Loose
<1>3. /\ F!Leading(disk', path) = F!Leading(disk, path)
      /\ F!Place(disk', F!Leading(disk', path)) = F!Place(disk, F!Leading(disk, path))
  BY <1>1 DEF F!Leading, F!Place, F!Leaf, F!KindOf
<1>4. budget.moved = 0 => x = F!Place(disk, F!Leading(disk, path))
  BY Here DEF Whole, Beside, Calm, Loose
<1>5. \A y \in F!Dirs : disk'.bak[y] # <<>> => disk.bak[y] # <<>> /\ y # x
  BY <1>1
<1>6. run'.pc = "idle"
  BY IdleFields
<1>7. Beside'
  BY <1>1, <1>3, <1>4, <1>5, <1>6 DEF Whole, Beside
<1>. QED
  BY <1>2, <1>7

LEMMA DoneRest ==
    ASSUME Inv, Whole, run.pc = "purge", run' = F!Idle, UNCHANGED <<path, disk, disturbed, crashed>>,
           budget'.moved = budget.moved, budget'.missed > 0
    PROVE  MadeOnly' /\ Beside'
<1>1. run'.pc = "idle" /\ run.pc \notin {"made", "adopt"} /\ budget'.missed # 0
  BY IdleFields
<1>2. MadeOnly'
  BY <1>1 DEF Whole, MadeOnly, Loose
<1>3. Beside'
  BY <1>1 DEF Whole, Beside
<1>. QED
  BY <1>2, <1>3

LEMMA PurgeWhole == ASSUME Inv, Whole, F!purgeBackups \/ F!PurgeBackups PROVE Whole'
<1>0. /\ run.pc = "purge" /\ run.pc \notin Loose \union Placed \union Unled /\ ~run.created /\ ~run.undo /\ run.dir \in F!Dirs
      /\ run.op = "clear" /\ kind \in {"secure", "npm"} /\ (run.how # "same" => pending # F!NoSnapshot)
  <2>1. run.pc = "purge"
    BY DEF F!purgeBackups, F!PurgeBackups, F!At
  <2>. QED
    BY <2>1 DEF Whole, Roles, Editing, Writing, Placed, Loose, Unled, Inv, RunOK, Known, Scalars
<1>1. ASSUME ~disturbed
      PROVE  /\ run.dir = F!Place(disk, run.rel) /\ (pending # F!NoSnapshot => Leads(disk, path, pending.rel))
             /\ run.how = "same" => Seen(disk, path) = was
             /\ run.how # "same" => (Seen(disk, path) = F!Nothing /\ was.lines = 0) \/ Seen(disk, path) = F!Without(was)
             /\ run.how # "same" => pending.old = was
             /\ pending # F!NoSnapshot /\ kind = "secure" /\ budget.missed = 0 => Names(disk, path, pending)
  BY <1>0, <1>1 DEF Whole, Calm, Led, Untouched, Wrote, Read, Sure
<1>2. ASSUME F!End(F!Cleared), UNCHANGED pending, budget'.moved = budget.moved, budget'.missed >= budget.missed,
             \/ \E x \in F!Dirs : disk' = [disk EXCEPT !.bak[x] = <<>>] /\ (~disturbed => x = F!Place(disk, run.rel))
             \/ UNCHANGED disk /\ budget'.missed > 0
      PROVE  Whole'
  <2>0. run' = F!Idle /\ UNCHANGED <<kind, path, was, disturbed, crashed>> /\ result' = F!Cleared
    BY <1>2 DEF F!End
  <2>1. disk'.at = disk.at /\ disk'.entry = disk.entry /\ disk'.owner = disk.owner /\ disk'.file = disk.file
    BY <1>2, Shapes DEF F!Disks
  <2>2. /\ Seen(disk', path) = Seen(disk, path) /\ Chain(disk', path) = Chain(disk, path)
        /\ \A r \in Rels : Leads(disk', path, r) = Leads(disk, path, r) /\ F!Place(disk', r) = F!Place(disk, r)
    BY <2>1, Shapes, SameEntries
  <2>3. pending # F!NoSnapshot => pending.rel \in Rels
    BY DEF Inv, SnapOK, Snaps, Rels
  <2>4. ~disturbed /\ pending' # F!NoSnapshot =>
          Leads(disk', path, pending'.rel) /\ (kind = "secure" /\ budget'.missed = 0 => Names(disk', path, pending'))
    <3>1. budget'.missed = 0 => budget.missed = 0
      BY <1>2, Shapes
    <3>. QED
      BY <1>1, <1>2, <2>1, <2>2, <2>3, <3>1 DEF Names
  <2>5. /\ ~disturbed /\ result' = "cleared" =>
             (Seen(disk', path) = F!Nothing /\ was.lines = 0) \/ Seen(disk', path) = F!Without(was)
        /\ ~disturbed /\ result' = "same" => Seen(disk', path) = was
        /\ result' \in {"same", "cleared"}
    BY <1>1, <2>0, <2>2 DEF F!Cleared
  <2>6. Roles' /\ Calm'
    BY <2>0, <2>4, <2>5, EndCalm
  <2>7. MadeOnly' /\ Beside'
    <3>1. CASE \E x \in F!Dirs : disk' = [disk EXCEPT !.bak[x] = <<>>] /\ (~disturbed => x = F!Place(disk, run.rel))
      BY <1>0, <1>2, <2>0, <3>1, PurgedRest
    <3>2. CASE UNCHANGED disk /\ budget'.missed > 0
      BY <1>0, <1>2, <2>0, <3>2, DoneRest
    <3>. QED
      BY <1>2, <3>1, <3>2
  <2>. QED
    BY <2>6, <2>7 DEF Whole
<1>3. CASE F!purgeBackups
  <2>1. F!End(F!Cleared) /\ UNCHANGED pending
    BY <1>3 DEF F!purgeBackups
  <2>2. CASE disk' = [disk EXCEPT !.bak[run.dir] = <<>>] /\ UNCHANGED budget
    <3>1. budget'.missed >= budget.missed /\ budget'.moved = budget.moved
      BY <2>2, Shapes
    <3>2. \E x \in F!Dirs : disk' = [disk EXCEPT !.bak[x] = <<>>] /\ (~disturbed => x = F!Place(disk, run.rel))
      BY <1>0, <1>1, <2>2
    <3>. QED
      BY <1>2, <2>1, <3>1, <3>2
  <2>3. CASE F!Fault /\ UNCHANGED disk
    <3>1. budget'.missed = budget.missed + 1 /\ budget'.moved = budget.moved
      BY <2>3 DEF F!Fault, Inv, Scalars, Budgets
    <3>. QED
      BY <1>2, <2>1, <2>3, <3>1, Shapes
  <2>. QED
    BY <1>3, <2>2, <2>3 DEF F!purgeBackups
<1>4. CASE F!PurgeBackups
  <2> DEFINE p == F!Place(disk, run.rel)
             sound == p # "none" /\ disk.owner[p] = "user"
  <2>1. CASE sound /\ disk' = [disk EXCEPT !.bak[p] = <<>>] /\ F!End(F!Cleared) /\ UNCHANGED <<pending, budget>>
    <3>1. p \in F!Dirs
      BY <2>1, Leaves, Shapes
    <3>. QED
      BY <1>2, <2>1, <3>1, Shapes
  <2>2. CASE /\ budget' = [budget EXCEPT !.mishaps = IF @ > 0 THEN @ - 1 ELSE 0, !.missed = @ + 1]
             /\ run.how = "same" /\ F!End("failed") /\ UNCHANGED <<disk, pending, rec>>
    <3>0. run' = F!Idle /\ UNCHANGED <<kind, path, was, disturbed, crashed>> /\ result' = "failed"
      BY <2>2 DEF F!End
    <3>1. budget'.missed > 0 /\ budget'.moved = budget.moved
      BY <2>2 DEF Inv, Scalars, Budgets
    <3>2. Roles' /\ Calm'
      BY <1>1, <2>2, <3>0, <3>1, EndCalm
    <3>3. MadeOnly' /\ Beside'
      BY <1>0, <2>2, <3>0, <3>1, DoneRest
    <3>. QED
      BY <3>2, <3>3 DEF Whole
  <2>3. CASE /\ budget' = [budget EXCEPT !.mishaps = IF @ > 0 THEN @ - 1 ELSE 0, !.missed = @ + 1]
             /\ run.how # "same" /\ pending' = F!NoSnapshot
             /\ run' = [F!Idle EXCEPT !.op = "restore", !.pc = "resolve", !.undo = TRUE, !.snap = pending]
             /\ UNCHANGED <<kind, path, disk, rec, result, was, disturbed, swapped, astray, crashed>>
    <3>1. budget'.missed > 0 /\ budget'.moved = budget.moved
      BY <2>3 DEF Inv, Scalars, Budgets
    <3>2. /\ run'.pc = "resolve" /\ run'.op = "restore" /\ run'.undo = TRUE /\ run'.snap = pending /\ run'.pass = 1
          /\ run'.how = "commit" /\ run'.created = FALSE
      BY <2>3 DEF F!Idle
    <3>3. Roles'
      BY <2>3, <3>2 DEF Roles, Editing, Writing, Placed
    <3>4. ASSUME ~disturbed' PROVE Led' /\ Untouched' /\ Read' /\ Wrote' /\ Sure' /\ Outcome'
      <4>1. ~disturbed
        BY <2>3, <3>4
      <4>2. Led' /\ Untouched'
        BY <2>3, <3>2 DEF Led, Untouched, Unled, Loose
      <4>3. Read' /\ Wrote'
        BY <1>1, <2>3, <3>2, <4>1 DEF Read, Wrote, Told, Writing, Placed
      <4>4. Sure' /\ Outcome'
        BY <3>1, <3>2 DEF Sure, Outcome
      <4>. QED
        BY <4>2, <4>3, <4>4
    <3>5. MadeOnly' /\ Beside'
      BY <2>3, <3>1, <3>2, <1>0, FrameRest DEF Whole, Loose
    <3>. QED
      BY <3>3, <3>4, <3>5 DEF Whole, Calm
  <2>. QED
    BY <1>4, <2>1, <2>2, <2>3 DEF F!PurgeBackups
<1>. QED
  BY <1>3, <1>4

-----------------------------------------------------------------------------
(* Restoring, locking and probing.                                         *)
LEMMA CheckWhole == ASSUME Inv, Whole, F!Check PROVE Whole'
<1>0. /\ run.pc = "check" /\ run.pc \notin Loose \union Placed \union Unled /\ ~run.created /\ run.op = "restore" /\ run.undo
      /\ run.how # "same" /\ pending = F!NoSnapshot /\ (kind = "npm" => run.how # "remove")
  <2>1. run.pc = "check"
    BY DEF F!Check, F!At
  <2>. QED
    BY <2>1 DEF Whole, Roles, Editing, Writing, Placed, Loose, Unled, Inv, RunOK
<1> DEFINE e == disk.entry[run.dir]
<1>1. ASSUME F!Refuse, ~F!verifyCommitted(e) PROVE Whole'
  <2>1. ASSUME ~disturbed, kind = "secure", budget.missed = 0 PROVE FALSE
    <3>1. Names(disk, path, run.snap) /\ run.rel = run.snap.rel /\ run.dir = F!Place(disk, run.rel)
      BY <1>0, <2>1 DEF Whole, Calm, Sure, Led
    <3>2. e = IF run.snap.removed THEN 0 ELSE run.snap.committed
      BY <3>1 DEF Names
    <3>. QED
      BY <1>1, <3>2 DEF F!verifyCommitted
  <2>. QED
    BY <1>0, <1>1, <2>1, RefuseWhole
<1>2. CASE /\ run' = [run EXCEPT !.old = run.snap.old, !.private = run.snap.private, !.want = run.snap.old,
                           !.known = IF run.snap.removed THEN 0 ELSE run.snap.committed,
                           !.pc = IF run.snap.old = F!Nothing THEN "unmake" ELSE "temp"]
           /\ UNCHANGED <<kind, path, disk, pending, rec, result, was, budget, disturbed, astray, crashed>>
  <2>0. /\ run'.pc = (IF run.snap.old = F!Nothing THEN "unmake" ELSE "temp") /\ run'.op = run.op /\ run'.pass = run.pass
        /\ run'.rel = run.rel /\ run'.dir = run.dir /\ run'.chain = run.chain /\ run'.old = run.snap.old
        /\ run'.seen = run.seen /\ run'.want = run.snap.old /\ run'.undo = run.undo /\ run'.snap = run.snap
        /\ run'.how = run.how /\ run'.created = run.created
    BY <1>2, Shapes DEF Runs
  <2>1. run'.pc \in {"unmake", "temp"} /\ (run'.pc = "unmake" => run.snap.old = F!Nothing)
    BY <2>0
  <2>2. Roles'
    BY <1>0, <1>2, <2>0, <2>1 DEF Whole, Roles, Editing, Writing, Placed
  <2>3. ASSUME ~disturbed' PROVE Led' /\ Untouched' /\ Read' /\ Wrote' /\ Sure' /\ Outcome'
    <3>1. Calm /\ ~disturbed
      BY <1>2, <2>3 DEF Whole
    <3>2. run.snap.old = was
      BY <1>0, <3>1 DEF Calm, Read
    <3>3. Led' /\ Untouched'
      BY <1>0, <1>2, <2>0, <2>1, <3>1 DEF Calm, Led, Untouched, Unled, Loose, Placed
    <3>4. Read'
      BY <1>0, <1>2, <2>0, <2>1, <3>1, <3>2 DEF Calm, Read
    <3>5. Wrote'
      BY <1>0, <1>2, <2>0, <2>1, <3>2 DEF Wrote, Wanted, Placed
    <3>6. Sure' /\ Outcome'
      BY <1>0, <1>2, <2>0, <2>1, <3>1 DEF Calm, Sure, Outcome, Unled, Loose
    <3>. QED
      BY <3>3, <3>4, <3>5, <3>6
  <2>4. MadeOnly' /\ Beside'
    BY <1>0, <1>2, <2>0, <2>1, LookRest
  <2>. QED
    BY <2>2, <2>3, <2>4 DEF Whole, Calm
<1>. QED
  BY <1>1, <1>2 DEF F!Check

LEMMA UnmakeWhole == ASSUME Inv, Whole, F!Unmake PROVE Whole'
<1>0. /\ run.pc = "unmake" /\ run.pc \notin Loose \union Placed \union Unled /\ ~run.created /\ run.undo
      /\ pending = F!NoSnapshot
  <2>1. run.pc = "unmake"
    BY DEF F!Unmake, F!At
  <2>. QED
    BY <2>1 DEF Whole, Roles, Editing, Writing, Placed, Loose, Unled, Inv, RunOK
<1>1. CASE F!UndoFails /\ F!Fault
  <2>1. budget'.missed > 0 /\ budget'.moved = budget.moved
    BY <1>1 DEF F!Fault, Inv, Scalars, Budgets
  <2>2. run' = F!Idle /\ result' = "unverified" /\ UNCHANGED <<kind, path, was, disturbed, crashed, disk, pending>>
    BY <1>1 DEF F!UndoFails, F!End
  <2>3. Roles' /\ Calm'
    BY <1>0, <2>1, <2>2, EndCalm
  <2>4. MadeOnly' /\ Beside'
    BY <1>0, <2>1, <2>2, IdleFields, FrameRest DEF Whole, Loose
  <2>. QED
    BY <2>3, <2>4 DEF Whole
<1>2. CASE /\ disk' = [disk EXCEPT !.entry[run.dir] = 0]
           /\ run' = F!Idle /\ result' = IF run.op = "restore" THEN "restored" ELSE "failed"
           /\ UNCHANGED <<kind, path, pending, rec, was, budget, disturbed, swapped, crashed>>
  <2>1. result' \in {"restored", "failed"}
    BY <1>2
  <2>2. /\ disk'.entry = [disk.entry EXCEPT ![run.dir] = 0] /\ disk'.at = disk.at /\ disk'.owner = disk.owner
        /\ disk'.bak = disk.bak
        /\ ~disturbed => F!Leading(disk', path) = F!Leading(disk, path) /\ Seen(disk', path) = F!Nothing
    BY <1>0, <1>2, TakenThere
  <2>3. ~disturbed => Seen(disk', path) = was
    BY <1>0, <2>2 DEF Whole, Calm, Wrote
  <2>4. Roles' /\ Calm'
    BY <1>0, <1>2, <2>1, <2>3, EndCalm
  <2>5. MadeOnly' /\ Beside'
    <3>1. budget.moved = 0 => F!Leading(disk', path) = F!Leading(disk, path)
      BY <2>2 DEF Whole, Beside
    <3>. QED
      BY <1>0, <1>2, <2>1, <2>2, <3>1, IdleFields, FrameRest DEF Whole, Loose
  <2>. QED
    BY <2>4, <2>5 DEF Whole
<1>. QED
  BY <1>1, <1>2 DEF F!Unmake

LEMMA OpenLockWhole == ASSUME Inv, Whole, F!OpenLock PROVE Whole'
<1>0. /\ run.pc = "lock" /\ run.pc \notin Loose \union Placed \union Unled /\ ~run.created /\ ~run.undo
      /\ run.op = "lock" /\ run.how # "same"
  <2>1. run.pc = "lock"
    BY DEF F!OpenLock, F!At
  <2>. QED
    BY <2>1 DEF Whole, Roles, Editing, Writing, Placed, Loose, Unled, Inv, RunOK
<1> DEFINE e == disk.entry[run.dir]
<1>1. CASE F!Refuse
  BY <1>0, <1>1, RefuseWhole
<1>2. CASE e # 0 /\ run' = [run EXCEPT !.held = e, !.pc = "lockCheck"] /\ F!Quiet
  <2>0. /\ run'.pc = "lockCheck" /\ run'.op = run.op /\ run'.pass = run.pass /\ run'.rel = run.rel /\ run'.dir = run.dir
        /\ run'.chain = run.chain /\ run'.seen = run.seen /\ run'.undo = run.undo /\ run'.snap = run.snap
        /\ run'.how = run.how /\ run'.created = run.created
    BY <1>2, Shapes DEF Runs
  <2>1. Roles'
    BY <1>0, <1>2, <2>0 DEF Whole, Roles, Editing, Writing, Placed, F!Quiet, F!Still
  <2>2. ASSUME ~disturbed' PROVE Led' /\ Untouched' /\ Read' /\ Wrote' /\ Sure' /\ Outcome'
    <3>1. Calm /\ ~disturbed
      BY <1>2, <2>2 DEF Whole, F!Quiet, F!Still
    <3>2. Led' /\ Untouched'
      BY <1>0, <1>2, <2>0, <3>1 DEF Calm, Led, Untouched, Unled, Loose, Placed, F!Quiet, F!Still
    <3>3. Read' /\ Wrote' /\ Outcome'
      BY <1>0, <1>2, <2>0, <3>1 DEF Calm, Read, Wrote, Outcome, Told, Writing, Placed, F!Quiet, F!Still
    <3>4. Sure'
      BY <1>0, <1>2, <2>0, <3>1 DEF Calm, Sure, Unled, Loose, F!Quiet, F!Still
    <3>. QED
      BY <3>2, <3>3, <3>4
  <2>3. MadeOnly' /\ Beside'
    BY <1>0, <1>2, <2>0, LookRest DEF F!Quiet, F!Still
  <2>. QED
    BY <2>1, <2>2, <2>3 DEF Whole, Calm
<1>3. CASE /\ e = 0
           /\ disk' = [F!Add(disk, F!File(F!Text(0, 0), "agent", TRUE, "agent")) EXCEPT !.entry[run.dir] = Len(disk.file) + 1]
           /\ run' = [run EXCEPT !.held = Len(disk.file) + 1, !.created = TRUE, !.pc = "lockCheck"] /\ F!Still
  <2>0. /\ run'.pc = "lockCheck" /\ run'.op = run.op /\ run'.pass = run.pass /\ run'.rel = run.rel /\ run'.dir = run.dir
        /\ run'.chain = run.chain /\ run'.seen = run.seen /\ run'.undo = run.undo /\ run'.snap = run.snap
        /\ run'.how = run.how /\ run'.created = TRUE /\ run'.held = Len(disk.file) + 1
    BY <1>3, Shapes DEF Runs
  <2>1. /\ disk'.entry = [disk.entry EXCEPT ![run.dir] = Len(disk.file) + 1] /\ disk'.at = disk.at
        /\ disk'.owner = disk.owner /\ disk'.bak = disk.bak /\ disk'.entry[run.dir] = Len(disk.file) + 1
        /\ F!KindOf(disk', Len(disk.file) + 1) = "file"
        /\ \A x \in F!Dirs : disk.entry[x] # 0 => disk'.file[disk.entry[x]] = disk.file[disk.entry[x]]
    <3> DEFINE f == F!File(F!Text(0, 0), "agent", TRUE, "agent")
               n == Len(disk.file) + 1
    <3>1. f.kind = "file"
      BY DEF F!File
    <3>2. disk' = [F!Add(disk, f) EXCEPT !.entry[run.dir] = n]
      BY <1>3
    <3> HIDE DEF f
    <3>3. /\ F!Add(disk, f) = [disk EXCEPT !.file = Append(@, f)] /\ disk \in F!Disks /\ run.dir \in F!Dirs
      BY <1>0, Shapes DEF F!Add
    <3>4. /\ \A x \in F!Dirs : disk.entry[x] # 0 => Append(disk.file, f)[disk.entry[x]] = disk.file[disk.entry[x]]
          /\ Append(disk.file, f)[n] = f /\ n # 0
      BY AddThere
    <3> HIDE DEF n
    <3>5. /\ disk'.entry = [disk.entry EXCEPT ![run.dir] = n] /\ disk'.at = disk.at /\ disk'.owner = disk.owner
          /\ disk'.bak = disk.bak /\ disk'.file = Append(disk.file, f) /\ disk'.entry[run.dir] = n
      BY <3>2, <3>3 DEF F!Disks
    <3>6. F!KindOf(disk', n) = "file"
      BY <3>1, <3>4, <3>5 DEF F!KindOf
    <3>. QED
      BY <3>4, <3>5, <3>6 DEF n
  <2>2. ASSUME ~disturbed
        PROVE  /\ Leads(disk', path, run.rel) /\ Chain(disk', path) = Chain(disk, path)
               /\ F!Leading(disk', path) = F!Leading(disk, path) /\ was = F!Nothing
               /\ \A r \in Rels : F!Place(disk', r) = F!Place(disk, r)
    <3>1. /\ Leads(disk, path, run.rel) /\ F!Place(disk, run.rel) = run.dir /\ run.dir # "none"
          /\ Seen(disk, path) = F!Nothing
      BY <1>0, <1>3, <2>2, Here DEF Whole, Calm, F!Dirs, F!KindOf
    <3>2. was = F!Nothing
      BY <1>0, <2>2, <3>1 DEF Whole, Calm, Untouched
    <3> DEFINE n == Len(disk.file) + 1
    <3>3. /\ disk'.entry = [disk.entry EXCEPT ![F!Place(disk, run.rel)] = n] /\ disk'.at = disk.at
          /\ F!KindOf(disk', n) # "link" /\ F!Place(disk, run.rel) # "none"
          /\ \A x \in F!Dirs : disk.entry[x] # 0 => disk'.file[disk.entry[x]] = disk.file[disk.entry[x]]
      BY <2>1, <3>1
    <3> HIDE DEF n
    <3>4. DiskOK(disk) /\ path \in Rels /\ run.rel \in Rels
      BY Shapes
    <3>5. /\ Leads(disk', path, run.rel) /\ Chain(disk', path) = Chain(disk, path)
          /\ F!Leading(disk', path) = F!Leading(disk, path)
          /\ \A r \in Rels : F!Place(disk', r) = F!Place(disk, r)
      BY <3>1, <3>3, <3>4, PutThere
    <3>. QED
      BY <3>2, <3>5
  <2>3. Roles'
    BY <1>0, <1>3, <2>0 DEF Whole, Roles, Editing, Writing, Placed, F!Still
  <2>4. ASSUME ~disturbed' PROVE Led' /\ Untouched' /\ Read' /\ Wrote' /\ Sure' /\ Outcome'
    <3>1. Calm /\ ~disturbed
      BY <1>3, <2>4 DEF Whole, F!Still
    <3>5. UNCHANGED <<kind, path, was, pending, budget>> /\ run.rel \in Rels /\ run.dir = F!Place(disk, run.rel)
      BY <1>0, <1>3, <3>1, Shapes DEF Calm, Led, F!Still
    <3>6. Led'
      BY <1>0, <2>0, <2>1, <2>2, <3>1, <3>5 DEF Led, Unled, Loose
    <3>7. Untouched'
      BY <1>0, <2>0, <2>1, <2>2, <3>1, <3>5 DEF Untouched, Placed
    <3>2. Led' /\ Untouched'
      BY <3>6, <3>7
    <3>3. Read' /\ Wrote' /\ Outcome'
      BY <1>0, <1>3, <2>0, <3>1 DEF Calm, Read, Wrote, Outcome, Told, Writing, Placed, F!Still
    <3>4. Sure'
      BY <1>0, <2>0, <2>1, <2>2, <3>1, <3>5 DEF Calm, Sure, Unled, Loose
    <3>. QED
      BY <3>2, <3>3, <3>4
  <2>5. MadeOnly' /\ Beside'
    <3>1. budget.moved = 0 => F!Leading(disk', path) = F!Leading(disk, path)
      BY <2>2 DEF Whole, Beside
    <3>. QED
      BY <1>0, <1>3, <2>0, <2>1, <3>1, FrameRest DEF Whole, MadeOnly, F!Still
  <2>. QED
    BY <2>3, <2>4, <2>5 DEF Whole, Calm
<1>. QED
  BY <1>1, <1>2, <1>3 DEF F!OpenLock

LEMMA LockCheckWhole == ASSUME Inv, Whole, F!LockCheck PROVE Whole'
<1>0. /\ run.pc = "lockCheck" /\ run.pc \notin Loose \union Placed \union Unled /\ ~run.undo
      /\ run.op = "lock" /\ run.how # "same"
  <2>1. run.pc = "lockCheck"
    BY DEF F!LockCheck, F!At
  <2>. QED
    BY <2>1 DEF Whole, Roles, Editing, Writing, Placed, Loose, Unled
<1>1. CASE F!Refuse /\ ~(disk.entry[run.dir] = run.held /\ (run.created \/ F!IsOurs(run.held)))
  <2>1. ~disturbed /\ run.created => FALSE
    BY <1>1 DEF Whole, Calm, Untouched
  <2>. QED
    BY <1>0, <1>1, <2>1, RefuseWhole
<1>2. CASE F!Goto("lockMetadata") /\ F!Quiet
  <2>0. /\ run'.pc = "lockMetadata" /\ run'.op = run.op /\ run'.pass = run.pass /\ run'.rel = run.rel /\ run'.dir = run.dir
        /\ run'.chain = run.chain /\ run'.seen = run.seen /\ run'.undo = run.undo /\ run'.snap = run.snap
        /\ run'.how = run.how /\ run'.created = run.created /\ run'.held = run.held
    BY <1>2, OnlyPc
  <2>1. Roles'
    BY <1>0, <1>2, <2>0 DEF Whole, Roles, Editing, Writing, Placed, F!Quiet, F!Still
  <2>2. ASSUME ~disturbed' PROVE Led' /\ Untouched' /\ Read' /\ Wrote' /\ Sure' /\ Outcome'
    <3>1. Calm /\ ~disturbed
      BY <1>2, <2>2 DEF Whole, F!Quiet, F!Still
    <3>2. Led' /\ Untouched'
      BY <1>0, <1>2, <2>0, <3>1 DEF Calm, Led, Untouched, Unled, Loose, Placed, F!Quiet, F!Still
    <3>3. Read' /\ Wrote' /\ Outcome'
      BY <1>0, <1>2, <2>0, <3>1 DEF Calm, Read, Wrote, Outcome, Told, Writing, Placed, F!Quiet, F!Still
    <3>4. Sure'
      BY <1>0, <1>2, <2>0, <3>1 DEF Calm, Sure, Unled, Loose, F!Quiet, F!Still
    <3>. QED
      BY <3>2, <3>3, <3>4
  <2>3. MadeOnly' /\ Beside'
    BY <1>0, <1>2, <2>0, LookRest DEF F!Quiet, F!Still
  <2>. QED
    BY <2>1, <2>2, <2>3 DEF Whole, Calm
<1>. QED
  BY <1>1, <1>2 DEF F!LockCheck

LEMMA LockMetadataWhole == ASSUME Inv, Whole, F!LockMetadata PROVE Whole'
<1>0. /\ run.pc = "lockMetadata" /\ run.pc \notin Loose \union Placed \union Unled /\ ~run.undo /\ pending = F!NoSnapshot
      /\ run.op = "lock" /\ run.held \in 1 .. Len(disk.file)
  <2>1. run.pc = "lockMetadata"
    BY DEF F!LockMetadata, F!At
  <2>. QED
    BY <2>1 DEF Whole, Roles, Editing, Writing, Placed, Loose, Unled, Inv, RunOK, DiskOK, F!Disks
<1>1. CASE /\ disk' = [disk EXCEPT !.file[run.held] = [@ EXCEPT !.owner = "user", !.private = TRUE]]
           /\ F!End("locked") /\ UNCHANGED <<pending, rec, budget>>
  <2>0. run' = F!Idle /\ result' = "locked" /\ UNCHANGED <<kind, path, was, disturbed, crashed, pending>>
    BY <1>1 DEF F!End
  <2>1. /\ disk'.at = disk.at /\ disk'.entry = disk.entry /\ disk'.owner = disk.owner /\ disk'.bak = disk.bak
        /\ disk'.file = [disk.file EXCEPT ![run.held] = [@ EXCEPT !.owner = "user", !.private = TRUE]]
    BY <1>1, Shapes DEF F!Disks
  <2>2. \A i \in 1 .. Len(disk.file) : disk'.file[i].kind = disk.file[i].kind
    <3>1. disk.file \in Seq(F!Inodes) /\ disk.file[run.held] \in F!Inodes
      BY <1>0 DEF Inv, DiskOK, F!Disks
    <3>2. [disk.file[run.held] EXCEPT !.owner = "user", !.private = TRUE].kind = disk.file[run.held].kind
      BY <3>1 DEF F!Inodes
    <3>. QED
      BY <1>0, <2>1, <3>1, <3>2
  <2>3. F!Leading(disk', path) = F!Leading(disk, path)
    <3>1. F!Leaf(disk', path) = F!Leaf(disk, path) /\ F!Leaf(disk, path) \in 0 .. Len(disk.file) /\ Len(disk.file) \in Nat
      BY <2>1, Shapes, Leaves DEF F!Leaf, F!Place
    <3>2. F!Leaf(disk, path) # 0 => F!Leaf(disk, path) \in 1 .. Len(disk.file)
      BY <3>1
    <3>. QED
      BY <2>2, <3>1, <3>2 DEF F!Leading, F!KindOf
  <2>4. Roles' /\ Calm'
    BY <1>0, <2>0, EndCalm
  <2>5. MadeOnly' /\ Beside'
    BY <1>0, <1>1, <2>0, <2>1, <2>3, IdleFields, FrameRest DEF Whole, Loose
  <2>. QED
    BY <2>4, <2>5 DEF Whole
<1>2. CASE /\ disk' = IF run.created /\ disk.entry[run.dir] = run.held THEN [disk EXCEPT !.entry[run.dir] = 0] ELSE disk
           /\ F!Broken
  <2>0. /\ run' = F!Idle /\ UNCHANGED <<kind, path, was, disturbed, crashed>> /\ budget'.moved = budget.moved
        /\ result' # "cleared" /\ F!Failed
    BY <1>2 DEF F!Broken, F!Failed, F!End, F!Fault, Inv, Scalars, Budgets
  <2>1. CASE run.created /\ disk.entry[run.dir] = run.held
    <3>1. /\ disk'.entry = [disk.entry EXCEPT ![run.dir] = 0] /\ disk'.at = disk.at /\ disk'.owner = disk.owner
          /\ disk'.bak = disk.bak
          /\ ~disturbed => F!Leading(disk', path) = F!Leading(disk, path) /\ Seen(disk', path) = F!Nothing
      <4>1. disk' = [disk EXCEPT !.entry[run.dir] = 0]
        BY <1>2, <2>1
      <4>. QED
        BY <1>0, <4>1, TakenThere
    <3>2. ~disturbed => Seen(disk', path) = was
      BY <2>1, <3>1 DEF Whole, Calm, Untouched
    <3>3. Roles' /\ Calm'
      BY <1>0, <2>0, <3>2, FailCalm DEF Whole
    <3>4. budget.moved = 0 => F!Leading(disk', path) = F!Leading(disk, path)
      BY <3>1 DEF Whole, Beside
    <3>5. MadeOnly' /\ Beside'
      BY <1>0, <2>0, <3>1, <3>4, IdleFields, FrameRest DEF Whole, Loose
    <3>. QED
      BY <3>3, <3>5 DEF Whole
  <2>2. CASE ~(run.created /\ disk.entry[run.dir] = run.held)
    <3>1. disk' = disk
      BY <1>2, <2>2
    <3>2. ~disturbed => Seen(disk', path) = was
      BY <1>0, <2>2, <3>1 DEF Whole, Calm, Untouched
    <3>3. Roles' /\ Calm'
      BY <1>0, <2>0, <3>2, FailCalm DEF Whole
    <3>4. MadeOnly' /\ Beside'
      BY <1>0, <2>0, <3>1, IdleFields, FrameRest DEF Whole, Loose
    <3>. QED
      BY <3>3, <3>4 DEF Whole
  <2>. QED
    BY <2>1, <2>2
<1>. QED
  BY <1>1, <1>2 DEF F!LockMetadata

LEMMA ProbeWhole == ASSUME Inv, Whole, F!Probe \/ F!Unprobe PROVE Whole'
<1>0. /\ run.pc \in {"probe", "unprobe"} /\ run.pc \notin Loose \union Placed \union Unled /\ ~run.undo /\ ~run.created
      /\ pending = F!NoSnapshot /\ run.op = "probe" /\ run.how # "same"
  <2>1. run.pc \in {"probe", "unprobe"}
    BY DEF F!Probe, F!Unprobe, F!At
  <2>. QED
    BY <2>1 DEF Whole, Roles, Editing, Writing, Placed, Loose, Unled, Inv, RunOK
<1>1. CASE F!Broken /\ (disk' = F!Cleaned \/ UNCHANGED disk)
  BY <1>0, <1>1, CleanedDisk, BrokenWhole
<1>2. CASE /\ disk' = [F!Add(disk, F!File(F!Text(0, 0), "agent", TRUE, "agent")) EXCEPT !.temp[run.dir] = Len(disk.file) + 1]
           /\ F!Goto("unprobe") /\ F!Still
  <2>0. /\ run'.pc = "unprobe" /\ run'.op = run.op /\ run'.pass = run.pass /\ run'.rel = run.rel /\ run'.dir = run.dir
        /\ run'.chain = run.chain /\ run'.seen = run.seen /\ run'.undo = run.undo /\ run'.snap = run.snap
        /\ run'.how = run.how /\ run'.created = run.created
    BY <1>2, OnlyPc
  <2>1. /\ disk'.entry = disk.entry /\ disk'.at = disk.at /\ disk'.owner = disk.owner /\ disk'.bak = disk.bak
        /\ \A x \in F!Dirs : disk.entry[x] # 0 => disk'.file[disk.entry[x]] = disk.file[disk.entry[x]]
    <3> DEFINE f == F!File(F!Text(0, 0), "agent", TRUE, "agent")
    <3>1. disk' = [F!Add(disk, f) EXCEPT !.temp[run.dir] = Len(disk.file) + 1]
      BY <1>2
    <3> HIDE DEF f
    <3>2. F!Add(disk, f) = [disk EXCEPT !.file = Append(@, f)] /\ disk \in F!Disks
      BY Shapes DEF F!Add
    <3>3. /\ disk'.entry = disk.entry /\ disk'.at = disk.at /\ disk'.owner = disk.owner /\ disk'.bak = disk.bak
          /\ disk'.file = Append(disk.file, f)
      BY <3>1, <3>2 DEF F!Disks
    <3>4. \A x \in F!Dirs : disk.entry[x] # 0 => Append(disk.file, f)[disk.entry[x]] = disk.file[disk.entry[x]]
      BY AddThere
    <3>. QED
      BY <3>3, <3>4
  <2>2. /\ Seen(disk', path) = Seen(disk, path) /\ Chain(disk', path) = Chain(disk, path)
        /\ F!Leading(disk', path) = F!Leading(disk, path)
        /\ \A r \in Rels : Leads(disk', path, r) = Leads(disk, path, r) /\ F!Place(disk', r) = F!Place(disk, r)
    BY <2>1, Shapes, SameEntries
  <2>3. UNCHANGED <<kind, path, was, pending, budget, result, rec, disturbed, crashed>>
    BY <1>2 DEF F!Still
  <2>4. Roles'
    BY <1>0, <2>0, <2>3 DEF Whole, Roles, Editing, Writing, Placed
  <2>5. ASSUME ~disturbed' PROVE Led' /\ Untouched' /\ Read' /\ Wrote' /\ Sure' /\ Outcome'
    <3>1. Calm /\ ~disturbed
      BY <2>3, <2>5 DEF Whole
    <3>2. Led'
      BY <1>0, <2>0, <2>2, <2>3, <3>1, Shapes DEF Calm, Led, Unled, Loose
    <3>3. Untouched'
      BY <1>0, <2>0, <2>2, <2>3, <3>1 DEF Calm, Untouched, Placed
    <3>4. Read' /\ Wrote' /\ Outcome'
      BY <1>0, <2>0, <2>3, <3>1 DEF Calm, Read, Wrote, Outcome, Told, Writing, Placed
    <3>5. Sure'
      BY <1>0, <2>0, <2>1, <2>2, <2>3, <3>1 DEF Calm, Sure, Unled, Loose
    <3>. QED
      BY <3>2, <3>3, <3>4, <3>5
  <2>6. MadeOnly' /\ Beside'
    BY <1>0, <2>0, <2>1, <2>2, <2>3, FrameRest DEF Whole, MadeOnly
  <2>. QED
    BY <2>4, <2>5, <2>6 DEF Whole, Calm
<1>3. CASE disk' = F!Cleaned /\ F!End("probed") /\ UNCHANGED <<pending, rec, budget>>
  <2>0. run' = F!Idle /\ result' = "probed" /\ UNCHANGED <<kind, path, was, disturbed, crashed, pending, budget>>
    BY <1>3 DEF F!End
  <2>1. /\ disk'.entry = disk.entry /\ disk'.at = disk.at /\ disk'.owner = disk.owner /\ disk'.bak = disk.bak
        /\ disk'.file = disk.file
    BY <1>0, <1>3, CleanedDisk
  <2>2. Seen(disk', path) = Seen(disk, path) /\ F!Leading(disk', path) = F!Leading(disk, path)
    BY <2>1, Shapes, SameEntries
  <2>3. ~disturbed => Seen(disk', path) = was
    BY <1>0, <2>2 DEF Whole, Calm, Untouched
  <2>4. Roles' /\ Calm'
    BY <1>0, <2>0, <2>3, EndCalm
  <2>5. MadeOnly' /\ Beside'
    BY <1>0, <2>0, <2>1, <2>2, IdleFields, FrameRest DEF Whole, Loose
  <2>. QED
    BY <2>4, <2>5 DEF Whole
<1>. QED
  BY <1>1, <1>2, <1>3 DEF F!Probe, F!Unprobe

-----------------------------------------------------------------------------
(* The user, and the end of the process.  Nothing is claimed of what a     *)
(* call reports once the user has moved, only where the made one may be.   *)
LEMMA MovedWhole ==
    ASSUME Inv, Whole, NEW d, NEW entries, F!Moved(d, entries),
           d.at # "made" => d.entry["made"] = 0,
           d.at # disk.at => disk.at # "made"
    PROVE  Whole'
<1>0. /\ UNCHANGED <<kind, path, run, pending, rec, result, was, astray, crashed>>
      /\ disk' = d /\ disturbed' = TRUE /\ budget'.moved = budget.moved + 1 /\ budget.moved \in Nat
  BY DEF F!Moved, Inv, Scalars, Budgets
<1>1. budget'.moved # 0
  BY <1>0
<1>2. Roles' /\ Calm'
  BY <1>0 DEF Whole, Roles, Calm
<1>3. MadeOnly'
  BY <1>0, <1>1 DEF Whole, MadeOnly
<1>4. Beside'
  BY <1>1 DEF Beside
<1>. QED
  BY <1>2, <1>3, <1>4 DEF Whole

LEMMA UserWhole == ASSUME Inv, Whole, F!Edit \/ F!Save \/ F!Delete \/ F!Chmod \/ F!Relink \/ F!SwapDirectory
                          \/ F!RootWrites PROVE Whole'
<1>0. disk \in F!Disks /\ F!Dirs = {"home", "sub", "other", "made"} /\ (disk.at # "made" => disk.entry["made"] = 0)
  BY Shapes DEF F!Dirs, Whole, MadeOnly
<1>2. ASSUME NEW x, x = F!Place(disk, path) \/ x = "home", NEW n, NEW f
      PROVE  /\ [F!Add(disk, f) EXCEPT !.entry[x] = n].at = disk.at /\ [disk EXCEPT !.entry[x] = n].at = disk.at
             /\ disk.at # "made" => /\ [F!Add(disk, f) EXCEPT !.entry[x] = n].entry["made"] = 0
                                    /\ [disk EXCEPT !.entry[x] = n].entry["made"] = 0
  <2>1. F!Add(disk, f) = [disk EXCEPT !.file = Append(@, f)]
    BY DEF F!Add
  <2>2. disk.at # "made" => x # "made"
    BY <1>2 DEF F!Place
  <2>. QED
    BY <1>0, <2>1, <2>2 DEF F!Disks
<1>3. CASE F!Edit \/ F!Chmod
  <2>1. PICK i, f : F!Moved([disk EXCEPT !.file[i] = f], FALSE)
    BY <1>3 DEF F!Edit, F!Chmod
  <2>2. [disk EXCEPT !.file[i] = f].at = disk.at /\ [disk EXCEPT !.file[i] = f].entry = disk.entry
    BY <1>0 DEF F!Disks
  <2>. QED
    BY <1>0, <2>1, <2>2, MovedWhole
<1>4. CASE F!Save \/ F!RootWrites \/ F!Relink
  <2>1. PICK x, f : /\ x = F!Place(disk, path) \/ x = "home"
                    /\ F!Moved([F!Add(disk, f) EXCEPT !.entry[x] = Len(disk.file) + 1], TRUE)
    BY <1>4 DEF F!Save, F!RootWrites, F!Relink
  <2> DEFINE d == [F!Add(disk, f) EXCEPT !.entry[x] = Len(disk.file) + 1]
  <2>2. d.at = disk.at /\ (disk.at # "made" => d.entry["made"] = 0)
    BY <1>2, <2>1
  <2>3. F!Moved(d, TRUE)
    BY <2>1
  <2>. HIDE DEF d
  <2>. QED
    BY <2>2, <2>3, MovedWhole
<1>5. CASE F!Delete
  <2> DEFINE d == [disk EXCEPT !.entry[F!Place(disk, path)] = 0]
  <2>1. F!Moved(d, TRUE)
    BY <1>5 DEF F!Delete
  <2>2. d.at = disk.at /\ (disk.at # "made" => d.entry["made"] = 0)
    BY <1>2
  <2>. HIDE DEF d
  <2>. QED
    BY <2>1, <2>2, MovedWhole
<1>6. CASE F!SwapDirectory
  <2>1. F!Moved([disk EXCEPT !.at = "other"], TRUE) /\ disk.at = "sub"
    BY <1>6 DEF F!SwapDirectory
  <2>2. [disk EXCEPT !.at = "other"].entry = disk.entry
    BY <1>0 DEF F!Disks
  <2>. QED
    BY <1>0, <2>1, <2>2, MovedWhole
<1>. QED
  BY <1>3, <1>4, <1>5, <1>6

LEMMA CrashWhole == ASSUME Inv, Whole, F!Crash PROVE Whole'
<1>0. /\ run' = F!Idle /\ pending' = F!NoSnapshot /\ result' = "none" /\ crashed'
      /\ UNCHANGED <<kind, path, disk, was, disturbed>> /\ budget'.moved = budget.moved /\ run'.pc = "idle"
  BY IdleFields DEF F!Crash, F!Fault, Inv, Scalars, Budgets
<1>1. Roles' /\ Calm'
  BY <1>0, EndCalm
<1>2. MadeOnly'
  BY <1>0 DEF Whole, MadeOnly, Loose
<1>3. Beside'
  BY <1>0 DEF Whole, Beside
<1>. QED
  BY <1>1, <1>2, <1>3 DEF Whole

-----------------------------------------------------------------------------
(* The whole of it.                                                        *)
LEMMA WholeInit == ASSUME F!FileAssumption, F!Init PROVE Whole
<1>1. PICK w \in Worlds : path = w.path /\ disk = w.disk
                       /\ budget = [calls |-> w.calls, moves |-> w.moves, mishaps |-> w.mishaps, moved |-> 0, missed |-> 0]
  BY DEF F!Init
<1>2. F!Settled(disk, path)
  BY <1>1 DEF F!FileAssumption
<1>3. run = F!Idle /\ pending = F!NoSnapshot /\ result = "none" /\ disturbed = FALSE /\ run.pc = "idle"
  BY IdleFields DEF F!Init
<1>4. Roles
  BY <1>3, IdleFields DEF Roles, Editing, Writing, Placed
<1>5. Led /\ Untouched /\ Read /\ Wrote /\ Sure /\ Outcome
  <2>1. Led /\ Untouched
    BY <1>3, IdleFields DEF Led, Untouched, Unled, Loose
  <2>2. Read /\ Wrote
    BY <1>3, IdleFields DEF Read, Wrote, Told, Writing, Placed
  <2>3. Sure /\ Outcome
    BY <1>3, IdleFields DEF Sure, Outcome, Unled, Loose
  <2>. QED
    BY <2>1, <2>2, <2>3
<1>6. MadeOnly /\ Beside
  BY <1>2, <1>3 DEF MadeOnly, Beside, F!Settled, Loose
<1>. QED
  BY <1>4, <1>5, <1>6 DEF Whole, Calm

LEMMA WholeStep == Inv /\ Whole /\ [F!Next]_(F!vars) => Whole'
<1>. SUFFICES ASSUME Inv, Whole, [F!Next]_(F!vars) PROVE Whole'
  OBVIOUS
<1>1. CASE \E call \in {"write", "clear", "restore", "lock", "probe"} : F!Begin(call)
  BY <1>1, BeginWhole
<1>2. CASE F!ensureExisting \/ F!Mkdir \/ F!CheckMade \/ F!Adopt
  BY <1>2, EnsureWhole
<1>3. CASE F!Resolve \/ F!Pin \/ F!Lstat \/ F!Open \/ F!Verify
  BY <1>3, ResolveWhole, PinWhole, LstatWhole, OpenWhole, VerifyWhole
<1>4. CASE F!Reread \/ F!NothingToClear \/ F!Decide
  BY <1>4, ReadWhole
<1>5. CASE F!Backup \/ F!createExclusive \/ F!Fill \/ F!Rename
  BY <1>5, BackupWhole, createExclusiveWhole, FillWhole, RenameWhole
<1>6. CASE F!Recheck \/ F!Readback \/ F!MetadataSecure \/ F!Keep \/ F!Remove
  BY <1>6, RecheckWhole, KeepWhole, RemoveWhole
<1>7. CASE F!purgeBackups \/ F!PurgeBackups
  BY <1>7, PurgeWhole
<1>8. CASE F!Check \/ F!Unmake
  BY <1>8, CheckWhole, UnmakeWhole
<1>9. CASE F!OpenLock \/ F!LockCheck \/ F!LockMetadata
  BY <1>9, OpenLockWhole, LockCheckWhole, LockMetadataWhole
<1>10. CASE F!Probe \/ F!Unprobe
  BY <1>10, ProbeWhole
<1>11. CASE F!Edit \/ F!Save \/ F!Delete \/ F!Chmod \/ F!Relink \/ F!SwapDirectory \/ F!RootWrites
  BY <1>11, UserWhole
<1>12. CASE F!Crash
  BY <1>12, CrashWhole
<1>13. CASE UNCHANGED F!vars
  <2>1. UNCHANGED <<kind, path, disk, run, pending, result, was, budget, disturbed, crashed>>
    BY <1>13 DEF F!vars
  <2>2. Roles' /\ MadeOnly' /\ Beside'
    BY <2>1 DEF Whole, Roles, MadeOnly, Beside
  <2>3. Calm'
    BY <2>1 DEF Whole, Calm, Led, Untouched, Read, Wrote, Wanted, Sure, Outcome, F!Mode
  <2>. QED
    BY <2>2, <2>3 DEF Whole
<1>. QED
  BY <1>1, <1>2, <1>3, <1>4, <1>5, <1>6, <1>7, <1>8, <1>9, <1>10, <1>11, <1>12, <1>13 DEF F!Next

LEMMA AlwaysWhole == ASSUME F!FileAssumption PROVE F!Spec => [](Inv /\ Whole)
<1>1. F!Init => Whole
  BY WholeInit
<1>2. Inv /\ Whole /\ [F!Next]_(F!vars) => Whole'
  BY WholeStep
<1>3. F!Spec => []Inv
  BY AlwaysInv
<1>. QED
  BY <1>1, <1>2, <1>3, PTL DEF F!Spec

\* How a call ends, seen as the user's programs see it.
LEMMA OutcomeSeen == ASSUME Inv, Whole PROVE F!OutcomeHolds
<1>. SUFFICES ASSUME run.pc = "idle", ~disturbed PROVE F!OutcomeHolds
  BY DEF F!OutcomeHolds, F!At
<1>1. Outcome
  BY DEF Whole, Calm
<1>2. /\ F!Visible(disk) = Seen(disk, path)
      /\ \A rel \in Rels : Leads(disk, path, rel) /\ F!Leaf(disk, rel) # 0 => F!Target(disk) = F!Leaf(disk, rel)
  BY VisibleIsSeen, Shapes
<1>3. ASSUME result = "written"
      PROVE  /\ F!Visible(disk).lines = (IF was = F!Nothing THEN 0 ELSE was.lines)
             /\ F!Visible(disk).block > 0 /\ F!Visible(disk).block # was.block
             /\ disk.file[F!Target(disk)].private /\ disk.file[F!Target(disk)].owner = "user"
  <2>1. PICK rel \in Rels : /\ Leads(disk, path, rel) /\ F!Leaf(disk, rel) # 0
                            /\ disk.file[F!Leaf(disk, rel)] = F!Made(F!With(was), TRUE)
    BY <1>1, <1>3 DEF Outcome, Rels
  <2>2. F!Target(disk) = F!Leaf(disk, rel)
    BY <1>2, <2>1
  <2>3. /\ disk.file[F!Target(disk)].kind = "file" /\ disk.file[F!Target(disk)].text = F!With(was)
        /\ disk.file[F!Target(disk)].private = TRUE /\ disk.file[F!Target(disk)].owner = "user"
    BY <2>1, <2>2 DEF F!Made, F!File
  <2>4. F!Visible(disk) = F!With(was)
    BY <2>1, <2>2, <2>3 DEF F!Visible, F!KindOf
  <2>5. /\ F!With(was).lines = (IF was = F!Nothing THEN 0 ELSE was.lines)
        /\ F!With(was).block = IF was.block = 1 THEN 2 ELSE 1
    BY DEF F!With, F!Text
  <2>6. F!With(was).block > 0 /\ F!With(was).block # was.block
    <3>1. CASE was.block = 1
      BY <2>5, <3>1
    <3>2. CASE was.block # 1
      BY <2>5, <3>2
    <3>. QED
      BY <3>1, <3>2
  <2>. QED
    BY <2>3, <2>4, <2>5, <2>6
<1>. QED
  BY <1>1, <1>2, <1>3 DEF Outcome, F!OutcomeHolds

\* What a call says of itself is so, unless somebody else moved meanwhile: a
\* write leaves the user's lines with a new block in a private file of theirs, a
\* clear the lines without it, a failed call what was there; and only after a
\* mishap, or in npm's writer, does a call leave that in doubt (File.Commit,
\* Remove and RestoreSnapshot, commitReplacement).
THEOREM CallsTellTheTruth == ASSUME F!FileAssumption PROVE F!Spec => []F!OutcomeHolds
<1>1. Inv /\ Whole => F!OutcomeHolds
  BY OutcomeSeen
<1>2. F!Spec => [](Inv /\ Whole)
  BY AlwaysWhole
<1>. QED
  BY <1>1, <1>2, PTL

\* All that the file is to be safe from: root's lines copied to the user, half
\* a file, a false report, a file or a backup or a directory of the agent's
\* left behind, and a file displaced that it had not just checked.
THEOREM FilesStaySafe == ASSUME F!FileAssumption PROVE F!Spec => []F!FilesAreSafe
<1>1. Inv /\ Whole => F!NothingLeftAbout
  <2>. SUFFICES ASSUME Inv, Whole PROVE F!NothingLeftAbout
    OBVIOUS
  <2>1. F!LittleLeft
    BY DEF F!LittleLeft, F!At, Inv, DiskOK, Temps
  <2>2. disk.bak \in [F!Dirs -> Seq(Nat)]
    BY Shapes DEF F!Disks
  <2>3. ASSUME run.pc = "idle", ~crashed
        PROVE  /\ result = "cleared" /\ budget.moved = 0 /\ budget.missed = 0 => \A d \in DOMAIN disk.bak : disk.bak[d] = <<>>
               /\ budget.moved = 0 /\ disk.at = "made" => disk.owner["made"] = "user"
    BY <2>2, <2>3 DEF Whole, MadeOnly, Beside
  <2>. QED
    BY <2>1, <2>3 DEF F!NothingLeftAbout, F!At
<1>2. F!Spec => [](Inv /\ Whole)
  BY AlwaysWhole
<1>3. F!Spec => [](F!RootsStayPut /\ F!LeafIsWhole)
  BY FilesStaySound
<1>4. F!Spec => []F!NeverAstray
  BY NothingIsDisplaced
<1>5. F!Spec => []F!OutcomeHolds
  BY CallsTellTheTruth
<1>6. F!RootsStayPut /\ F!LeafIsWhole /\ F!OutcomeHolds /\ F!NothingLeftAbout /\ F!NeverAstray => F!FilesAreSafe
  BY DEF F!FilesAreSafe
<1>. QED
  BY <1>1, <1>2, <1>3, <1>4, <1>5, <1>6, PTL
=============================================================================
