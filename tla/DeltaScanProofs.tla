-------------------------- MODULE DeltaScanProofs --------------------------
(***************************************************************************)
(* Theorems about DeltaScan, for every set of items, hashes, devices and   *)
(* versions, every file system and every number of runs.                   *)
(***************************************************************************)
EXTENDS DeltaScan, TLAPS

USE ScanStateAssumption, DeltaScanAssumption

-----------------------------------------------------------------------------
(* The functions of internal/state preserve the type of a state.           *)

LEMMA NewType ==
    ASSUME NEW v \in Version PROVE New(v) \in State
BY DEF New, State, Entry, NoEntry

LEMMA ForDeviceType ==
    ASSUME NEW s \in State, NEW d \in Device, NEW v \in Version
    PROVE  ForDevice(s, d, v) \in State /\ ForDevice(s, d, v).device = d
BY NewType DEF ForDevice, New, State, Entry, NoEntry

LEMMA MarkType ==
    ASSUME NEW s \in State, NEW P \in SUBSET Project
    PROVE  MarkRemovedPending(s, P) \in State
BY DEF MarkRemovedPending, State

LEMMA CommitType ==
    ASSUME NEW s \in State, NEW r \in Records, NEW e \in Nat,
           NEW v \in Version, NEW full \in BOOLEAN, NEW t \in Nat
    PROVE  CommitAfterUpload(s, r, e, v, full, t) \in State
<1>1. \A i \in Item : i \in DOMAIN r => r[i] \in Record
  BY DEF Records
<1>2. \A i \in Item : i \in DOMAIN r =>
          CommitEntry(s.entry[i], r[i], e, full) \in Entry
  BY <1>1 DEF CommitEntry, State, Entry, Record
<1>. QED
  BY <1>2 DEF CommitAfterUpload, State

LEMMA AckType ==
    ASSUME NEW s \in State, NEW P \in SUBSET Project
    PROVE  AckAndDrop(s, P) \in State
BY DEF AckAndDrop, State, Entry, NoEntry

LEMMA RemovedType ==
    ASSUME NEW s \in State, NEW E, NEW F
    PROVE  Removed(s, E, F) \in SUBSET Project /\ RemovedRefs(s, E, F) \in SUBSET Project
BY DEF Removed, RemovedRefs, State

LEMMA LoadType ==
    ASSUME TypeOK, NEW m PROVE Load(m) \in State
BY NewType DEF Load, TypeOK

LEMMA BodiesType ==
    ASSUME TypeOK
    PROVE  /\ Bodies \subseteq DOMAIN records
           /\ DOMAIN records \subseteq Item
           /\ \A i \in DOMAIN records : records[i] \in Record
BY DEF TypeOK, Records, Bodies, Changed

LEMMA NoRecordsType == NoRecords \in Records /\ DOMAIN NoRecords = {}
<1>1. NoRecords \in [{} -> Record] /\ DOMAIN NoRecords = {}
  BY DEF NoRecords
<1>2. {} \in SUBSET Item
  OBVIOUS
<1>3. [{} -> Record] \in {[S -> Record] : S \in SUBSET Item}
  BY <1>2
<1>4. NoRecords \in UNION {[S -> Record] : S \in SUBSET Item}
  BY <1>1, <1>3
<1>. QED
  BY <1>1, <1>4 DEF Records

\* What ending a run leaves is well typed.
LEMMA EndRunType ==
    ASSUME TypeOK, EndRun
    PROVE  /\ pc' = "idle"
           /\ run' \in [mode : {"delta", "legacy"}, full : BOOLEAN, home : BOOLEAN]
           /\ mem' \in State /\ records' \in Records /\ removed' \in SUBSET Project
BY NewType, NoRecordsType DEF EndRun, TypeOK, NoRun

LEMMA FinishType ==
    ASSUME TypeOK, NEW c \in BOOLEAN, Finish(c)
    PROVE  /\ pc' \in {"idle", "commit"}
           /\ run' \in [mode : {"delta", "legacy"}, full : BOOLEAN, home : BOOLEAN]
           /\ mem' \in State /\ records' \in Records /\ removed' \in SUBSET Project
BY EndRunType DEF Finish, Proceed, scan, TypeOK

LEMMA TypeInit == Init => TypeOK
<1>. SUFFICES ASSUME Init PROVE TypeOK
  OBVIOUS
<1>1. base \in State /\ mem \in State /\ records \in Records
  BY NewType, NoRecordsType DEF Init
<1>2. view \in [Device -> [Item -> Hash \cup {NoHash}]]
  BY DEF Init, Absent
<1>3. lastLegacy \in [Device -> 0 .. MaxExec]
  BY DEF Init
<1>4. run \in [mode : {"delta", "legacy"}, full : BOOLEAN, home : BOOLEAN]
  BY DEF Init, NoRun
<1>5. now \in 1 .. MaxDay /\ exec \in 0 .. MaxExec
  BY DEF Init
<1>6. bodies \subseteq Device \X Item \X Hash \X (0 .. MaxExec)
  BY DEF Init
<1>. QED
  BY <1>1, <1>2, <1>3, <1>4, <1>5, <1>6 DEF Init, TypeOK

LEMMA TypeStep == TypeOK /\ [Next]_vars => TypeOK'
<1>. SUFFICES ASSUME TypeOK, [Next]_vars PROVE TypeOK'
  OBVIOUS
<1>. USE DEF vars, env, disk, scan, backend
<1>1. CASE \E i \in Item, h \in Hash \cup {NoHash} : Edit(i, h)
  BY <1>1 DEF TypeOK, Edit
<1>2. CASE NextDay \/ \E p \in Project : Obscure(p)
  BY <1>2 DEF TypeOK, NextDay, Obscure
<1>3. CASE \E v \in Version : Upgrade(v)
  BY <1>3 DEF TypeOK, Upgrade
<1>4. CASE \E d \in Device : ChangeIdentity(d)
  BY <1>4 DEF TypeOK, ChangeIdentity
<1>5. ASSUME NEW optIn \in BOOLEAN, NEW home \in BOOLEAN, NEW m \in AccessMode,
             StartRun(optIn, home, m)
      PROVE  TypeOK'
  <2>1. ForDevice(Load(m), device, version) \in State
    BY LoadType, ForDeviceType DEF TypeOK
  <2>2. New(version) \in State
    BY NewType DEF TypeOK
  <2>. QED
    BY <1>5, <2>1, <2>2 DEF TypeOK, StartRun, IsFullSyncDue
<1>6. ASSUME NEW enabled \in SUBSET Ecosystem, NEW cut \in SUBSET Ecosystem,
             NEW seen \in SUBSET Item, NEW scanned \in SUBSET Item,
             NEW failed \in SUBSET Item,
             Scan(enabled, cut, seen, scanned, failed)
      PROVE  TypeOK'
  <2>. DEFINE discovered == Discovered(mem, seen, cut)
              marked == MarkRemovedPending(mem, Removed(mem, enabled, discovered))
  <2>1. marked \in State
    BY MarkType, RemovedType DEF TypeOK
  <2>2. RemovedRefs(marked, enabled, discovered) \in SUBSET Project
    BY <2>1, RemovedType
  <2>3. records' \in Records
    <3>1. \A i \in scanned : actual[i] \in Hash
      BY <1>6 DEF Scan, Found, Visible, TypeOK
    <3>2. records' \in [scanned -> Record]
      BY <1>6, <3>1 DEF Scan, Record
    <3>. QED
      BY <3>2 DEF Records
  <2>. QED
    BY <1>6, <2>1, <2>2, <2>3 DEF TypeOK, Scan
<1>7. ASSUME NEW m \in AccessMode, InvalidateBaseline(m) PROVE TypeOK'
  <2>1. New(version) \in State
    BY NewType DEF TypeOK
  <2>2. Invalidated(m)[1] \in {"none", "bad", "ok"} /\ Invalidated(m)[2] \in BOOLEAN
    BY DEF Invalidated, TypeOK
  <2>. QED
    BY <1>7, <2>1, <2>2 DEF TypeOK, InvalidateBaseline
<1>8. ASSUME NEW answer \in {"processed", "queued", "lost"}, UploadStored(answer)
      PROVE  TypeOK'
  <2>1. Stored \in [Item -> Hash \cup {NoHash}]
    BY BodiesType DEF Stored, TypeOK, Record
  <2>2. bodies' \subseteq Device \X Item \X Hash \X (0 .. MaxExec)
    BY <1>8, BodiesType DEF UploadStored, Store, TypeOK, Record
  <2>. QED
    BY <1>8, <2>1, <2>2, FinishType DEF TypeOK, UploadStored, Store
<1>9. ASSUME NEW answer \in {"error", "rejected", "queued"}, UploadDropped(answer)
      PROVE  TypeOK'
  BY <1>9, FinishType DEF TypeOK, UploadDropped
<1>10. CASE Dump
  BY <1>10, FinishType DEF TypeOK, Dump
<1>11. CASE Commit
  <2>1. CommitAfterUpload(mem, records, exec, version, run.full, now) \in State
    BY CommitType DEF TypeOK
  <2>2. mem' \in State
    BY <1>11, <2>1, AckType DEF Commit, TypeOK
  <2>. QED
    BY <1>11, <2>2 DEF TypeOK, Commit
<1>12. CASE SaveFails
  BY <1>12, EndRunType DEF TypeOK, SaveFails
<1>13. CASE \E m \in AccessMode : SaveRemove(m)
  BY <1>13, NewType DEF TypeOK, SaveRemove
<1>14. CASE \E m \in AccessMode : SaveRename(m)
  BY <1>14 DEF TypeOK, SaveRename
<1>15. CASE RenameFails
  BY <1>15, EndRunType DEF TypeOK, RenameFails
<1>16. CASE \E m \in AccessMode : SaveUnmark(m)
  BY <1>16, EndRunType DEF TypeOK, SaveUnmark, CanRemove
<1>17. CASE Crash
  BY <1>17, EndRunType DEF TypeOK, Crash
<1>18. CASE UNCHANGED vars
  BY <1>18 DEF TypeOK
<1>. QED
  BY <1>1, <1>2, <1>3, <1>4, <1>5, <1>6, <1>7, <1>8, <1>9, <1>10, <1>11,
     <1>12, <1>13, <1>14, <1>15, <1>16, <1>17, <1>18 DEF Next

\* Every variable keeps its type, for every value of the constants.
THEOREM TypeCorrect == Spec => []TypeOK
BY TypeInit, TypeStep, PTL DEF Spec

-----------------------------------------------------------------------------
(* Nothing pending at rest, and no false removal.                          *)

LEMMA PendingStep ==
    TypeOK /\ PendingInv /\ RemovalInv /\ [Next]_vars => PendingInv'
<1>. SUFFICES ASSUME TypeOK, PendingInv, RemovalInv, [Next]_vars PROVE PendingInv'
  OBVIOUS
<1>. USE DEF vars, env, disk, scan, backend, New
<1>1. CASE \E i \in Item, h \in Hash \cup {NoHash} : Edit(i, h)
  BY <1>1 DEF PendingInv, Edit
<1>2. CASE NextDay \/ \E p \in Project : Obscure(p)
  BY <1>2 DEF PendingInv, NextDay, Obscure
<1>3. CASE \E v \in Version : Upgrade(v)
  BY <1>3 DEF PendingInv, Upgrade
<1>4. CASE \E d \in Device : ChangeIdentity(d)
  BY <1>4 DEF PendingInv, ChangeIdentity
<1>5. ASSUME NEW optIn \in BOOLEAN, NEW home \in BOOLEAN, NEW m \in AccessMode,
             StartRun(optIn, home, m)
      PROVE  PendingInv'
  <2>1. ForDevice(Load(m), device, version).pending = {}
    BY DEF PendingInv, ForDevice, Load
  <2>. QED
    BY <1>5, <2>1 DEF PendingInv, StartRun
<1>6. ASSUME NEW enabled \in SUBSET Ecosystem, NEW cut \in SUBSET Ecosystem,
             NEW seen \in SUBSET Item, NEW scanned \in SUBSET Item,
             NEW failed \in SUBSET Item,
             Scan(enabled, cut, seen, scanned, failed)
      PROVE  PendingInv'
  <2>. DEFINE discovered == Discovered(mem, seen, cut)
              gone == Removed(mem, enabled, discovered)
              marked == MarkRemovedPending(mem, gone)
  <2>1. mem.pending = {} /\ mem \in State
    BY <1>6 DEF PendingInv, Scan, TypeOK
  <2>2. marked.pending = gone
    BY <2>1 DEF MarkRemovedPending, State
  <2>3. gone \subseteq RemovedRefs(marked, enabled, discovered)
    BY <2>2 DEF RemovedRefs, Removed
  <2>4. mem'.pending \subseteq removed'
    BY <1>6, <2>1, <2>2, <2>3 DEF Scan
  <2>5. pc' = "invalidate" => mem'.pending = {}
    BY <1>6, <2>1 DEF Scan
  <2>. QED
    BY <1>6, <2>4, <2>5 DEF PendingInv, Scan
<1>7. CASE \E m \in AccessMode : InvalidateBaseline(m)
  BY <1>7 DEF PendingInv, InvalidateBaseline
<1>8. CASE \E answer \in {"processed", "queued", "lost"} : UploadStored(answer)
  BY <1>8 DEF PendingInv, UploadStored, Finish, Proceed, EndRun
<1>9. CASE \E answer \in {"error", "rejected", "queued"} : UploadDropped(answer)
  BY <1>9 DEF PendingInv, UploadDropped, Finish, Proceed, EndRun
<1>10. CASE Dump
  BY <1>10 DEF PendingInv, Dump, Finish, Proceed, EndRun
<1>11. CASE Commit
  <2>1. mem'.pending = mem.pending \ removed
    BY <1>11 DEF Commit, CommitAfterUpload, AckAndDrop, TypeOK, State
  <2>. QED
    BY <1>11, <2>1 DEF PendingInv, Commit
<1>12. CASE SaveFails
  BY <1>12 DEF PendingInv, SaveFails, EndRun
<1>13. CASE \E m \in AccessMode : SaveRemove(m)
  BY <1>13 DEF PendingInv, SaveRemove
<1>14. CASE \E m \in AccessMode : SaveRename(m)
  BY <1>14 DEF PendingInv, SaveRename
<1>15. CASE RenameFails
  BY <1>15 DEF PendingInv, RenameFails, EndRun
<1>16. CASE \E m \in AccessMode : SaveUnmark(m)
  BY <1>16 DEF PendingInv, SaveUnmark, EndRun
<1>17. CASE Crash
  BY <1>17 DEF PendingInv, Crash, EndRun
<1>18. CASE UNCHANGED vars
  BY <1>18 DEF PendingInv
<1>. QED
  BY <1>1, <1>2, <1>3, <1>4, <1>5, <1>6, <1>7, <1>8, <1>9, <1>10, <1>11,
     <1>12, <1>13, <1>14, <1>15, <1>16, <1>17, <1>18 DEF Next

LEMMA RemovalStep ==
    TypeOK /\ PendingInv /\ RemovalInv /\ [Next]_vars => RemovalInv'
<1>. SUFFICES ASSUME TypeOK, PendingInv, RemovalInv, [Next]_vars PROVE RemovalInv'
  OBVIOUS
<1>. USE DEF vars, env, disk, scan, backend
<1>1. CASE \E i \in Item, h \in Hash \cup {NoHash} : Edit(i, h)
  BY <1>1 DEF RemovalInv, Edit, Visible
<1>0. CASE \E p \in Project : Obscure(p)
  BY <1>0 DEF RemovalInv, Obscure, Visible
<1>2. CASE NextDay \/ (\E v \in Version : Upgrade(v))
             \/ (\E d \in Device : ChangeIdentity(d))
  BY <1>2 DEF RemovalInv, NextDay, Upgrade, ChangeIdentity, Visible
<1>3. CASE \E optIn, home \in BOOLEAN, m \in AccessMode : StartRun(optIn, home, m)
  BY <1>3 DEF RemovalInv, StartRun, Visible
<1>4. ASSUME NEW enabled \in SUBSET Ecosystem, NEW cut \in SUBSET Ecosystem,
             NEW seen \in SUBSET Item, NEW scanned \in SUBSET Item,
             NEW failed \in SUBSET Item,
             Scan(enabled, cut, seen, scanned, failed)
      PROVE  RemovalInv'
  <2>. DEFINE discovered == Discovered(mem, seen, cut)
              gone == Removed(mem, enabled, discovered)
              marked == MarkRemovedPending(mem, gone)
  <2>1. mem.pending = {} /\ mem \in State
    BY <1>4 DEF PendingInv, Scan, TypeOK
  <2>2. marked.pending = gone /\ Tracked(marked) = Tracked(mem)
    BY <2>1 DEF MarkRemovedPending, State, Tracked
  <2>3. removed' \subseteq gone
    BY <1>4, <2>2 DEF Scan, RemovedRefs
  <2>4. \A p \in gone : p \in Tracked(mem) /\ Visible[p] = NoHash /\ p \notin seen
    <3>. SUFFICES ASSUME NEW p \in gone PROVE p \in Tracked(mem) /\ Visible[p] = NoHash /\ p \notin seen
      OBVIOUS
    <3>1. p \in Item /\ p \in Tracked(mem) /\ EcoOf[p] \in enabled /\ p \notin discovered
      BY DEF Removed, Tracked, Item
    <3>2. EcoOf[p] \notin cut /\ p \notin seen
      BY <3>1 DEF Discovered
    <3>. QED
      BY <1>4, <3>1, <3>2 DEF Scan, Found
  <2>5. run.mode = "delta" => mem' = marked
    BY <1>4 DEF Scan
  <2>6. run.mode # "delta" => removed' = {}
    BY <1>4 DEF Scan
  <2>7. DOMAIN records' \subseteq seen
    BY <1>4 DEF Scan
  <2>8. Visible' = Visible
    BY <1>4 DEF Scan, Visible
  <2>. QED
    BY <1>4, <2>2, <2>3, <2>4, <2>5, <2>6, <2>7, <2>8 DEF RemovalInv, Scan
<1>5. CASE \E m \in AccessMode : InvalidateBaseline(m)
  BY <1>5 DEF RemovalInv, InvalidateBaseline, Visible
<1>6. CASE \E answer \in {"processed", "queued", "lost"} : UploadStored(answer)
  BY <1>6, NoRecordsType DEF RemovalInv, UploadStored, Finish, Proceed, EndRun, Visible
<1>7. CASE \E answer \in {"error", "rejected", "queued"} : UploadDropped(answer)
  BY <1>7, NoRecordsType DEF RemovalInv, UploadDropped, Finish, Proceed, EndRun, Visible
<1>8. CASE Dump
  BY <1>8, NoRecordsType DEF RemovalInv, Dump, Finish, Proceed, EndRun, Visible
<1>9. CASE Commit
  BY <1>9 DEF RemovalInv, Commit, Visible
<1>10. CASE SaveFails \/ RenameFails \/ Crash
  BY <1>10, NoRecordsType DEF RemovalInv, SaveFails, RenameFails, Crash, EndRun, Visible
<1>11. CASE \E m \in AccessMode : SaveRemove(m)
  BY <1>11 DEF RemovalInv, SaveRemove, Visible
<1>12. CASE \E m \in AccessMode : SaveRename(m)
  BY <1>12 DEF RemovalInv, SaveRename, Visible
<1>13. CASE \E m \in AccessMode : SaveUnmark(m)
  BY <1>13, NoRecordsType DEF RemovalInv, SaveUnmark, EndRun, Visible
<1>14. CASE UNCHANGED vars
  BY <1>14 DEF RemovalInv, Visible
<1>. QED
  BY <1>0, <1>1, <1>2, <1>3, <1>4, <1>5, <1>6, <1>7, <1>8, <1>9, <1>10, <1>11,
     <1>12, <1>13, <1>14 DEF Next

LEMMA PendingInit == Init => PendingInv /\ RemovalInv
BY NoRecordsType DEF Init, PendingInv, RemovalInv, New

\* The baseline on disk never holds a pending removal: removals survive a
\* failed upload through the entries alone (delta.go:50-58, 349-362).
THEOREM NothingPending == Spec => []NothingPendingAtRest
<1>1. TypeOK /\ PendingInv /\ RemovalInv /\ [Next]_vars
         => (TypeOK /\ PendingInv /\ RemovalInv)'
  BY TypeStep, PendingStep, RemovalStep
<1>2. PendingInv => NothingPendingAtRest
  BY DEF PendingInv, NothingPendingAtRest
<1>. QED
  BY <1>1, <1>2, TypeInit, PendingInit, PTL DEF Spec

\* No report claims the removal of a project that is on disk where the walk
\* can see it, nor of one it describes.
THEOREM NoRemovalOfPresent == Spec => []NoFalseRemoval
<1>1. TypeOK /\ PendingInv /\ RemovalInv /\ [Next]_vars
         => (TypeOK /\ PendingInv /\ RemovalInv)'
  BY TypeStep, PendingStep, RemovalStep
<1>2. TypeOK /\ RemovalInv => NoFalseRemoval
  <2>. SUFFICES ASSUME TypeOK, RemovalInv PROVE NoFalseRemoval
    OBVIOUS
  <2>1. \A p \in removed : actual[p] = NoHash \/ p \in hidden
    BY DEF RemovalInv, Visible, TypeOK, Item
  <2>. QED
    BY <2>1 DEF RemovalInv, NoFalseRemoval, Shipping
<1>. QED
  BY <1>1, <1>2, TypeInit, PendingInit, PTL DEF Spec

-----------------------------------------------------------------------------
(* Refs resolve.                                                           *)

\* A commit keeps every entry on a stored body, when the bodies of this run
\* are stored: unchanged items keep the execution that shipped them.
LEMMA CommitResolves ==
    ASSUME TypeOK, RefInv, pc = "commit",
           NEW i \in Item,
           NEW s, s = CommitAfterUpload(mem, records, exec, version, run.full, now),
           s.entry[i].hash # NoHash
    PROVE  s.device = device /\
           <<device, i, s.entry[i].hash, s.entry[i].exec>> \in bodies
<1>1. s.device = mem.device /\ mem.device = device /\ run.mode = "delta" /\ exec # 0
  BY DEF RefInv, CommitAfterUpload, TypeOK, State
<1>2. s.entry[i] = IF i \in DOMAIN records
                   THEN CommitEntry(mem.entry[i], records[i], exec, run.full)
                   ELSE mem.entry[i]
  BY DEF CommitAfterUpload, TypeOK, State
<1>3. mem.entry[i].hash # NoHash =>
         <<device, i, mem.entry[i].hash, mem.entry[i].exec>> \in bodies
  BY <1>1 DEF RefInv, Resolves, Tracked
<1>4. CASE s.entry[i] = mem.entry[i]
  BY <1>1, <1>3, <1>4
<1>5. CASE s.entry[i] # mem.entry[i]
  <2>1. i \in DOMAIN records /\ records[i].ok
        /\ s.entry[i] = [hash |-> records[i].hash, exec |-> exec]
        /\ (run.full \/ mem.entry[i].hash # records[i].hash \/ mem.entry[i].exec = 0)
    BY <1>2, <1>5 DEF CommitEntry
  <2>2. records[i].hash \in Hash /\ device \in Device
    BY <2>1 DEF TypeOK, Records, Record
  <2>3. i \in Bodies
    <3>1. mem.entry[i].exec = 0 => mem.entry[i].hash # records[i].hash
      BY <1>3, <2>2 DEF RefInv
    <3>. QED
      BY <1>1, <2>1, <3>1 DEF Bodies, Changed
  <2>. QED
    BY <1>1, <2>1, <2>3 DEF RefInv
<1>. QED
  BY <1>4, <1>5

LEMMA RefStep ==
    TypeOK /\ Trusted /\ RefInv /\ [Next]_vars => RefInv'
<1>. SUFFICES ASSUME TypeOK, Trusted, RefInv, [Next]_vars PROVE RefInv'
  OBVIOUS
<1>. USE DEF vars, env, disk, scan, backend
<1>0. \A v \in Version : Tracked(New(v)) = {}
  BY DEF Tracked, New, NoEntry
<1>1. CASE \E i \in Item, h \in Hash \cup {NoHash} : Edit(i, h)
  BY <1>1 DEF RefInv, Edit, Resolves, Bodies
<1>2. CASE NextDay \/ \E p \in Project : Obscure(p)
  BY <1>2 DEF RefInv, NextDay, Obscure, Resolves, Bodies
<1>3. CASE \E v \in Version : Upgrade(v)
  BY <1>3 DEF RefInv, Upgrade, Resolves
<1>4. CASE \E d \in Device : ChangeIdentity(d)
  BY <1>4 DEF RefInv, ChangeIdentity, Resolves
<1>5. ASSUME NEW optIn \in BOOLEAN, NEW home \in BOOLEAN, NEW m \in AccessMode,
             StartRun(optIn, home, m)
      PROVE  RefInv'
  <2>. DEFINE s == ForDevice(Load(m), device, version)
  <2>1. s.device = device /\ s \in State
    BY LoadType, ForDeviceType DEF TypeOK
  <2>2. Resolves(Load(m))
    BY <1>0 DEF Load, Resolves, RefInv, TypeOK
  <2>3. Resolves(s)
    <3>1. CASE Load(m).device = device
      BY <2>2, <3>1 DEF ForDevice
    <3>2. CASE Load(m).device # device
      BY <3>2 DEF ForDevice, New, NoEntry, Resolves, Tracked
    <3>. QED
      BY <3>1, <3>2
  <2>4. exec' # 0
    BY <1>5 DEF StartRun, TypeOK
  <2>. QED
    BY <1>5, <2>1, <2>3, <2>4 DEF RefInv, StartRun, Resolves
<1>6. ASSUME NEW enabled \in SUBSET Ecosystem, NEW cut \in SUBSET Ecosystem,
             NEW seen \in SUBSET Item, NEW scanned \in SUBSET Item,
             NEW failed \in SUBSET Item,
             Scan(enabled, cut, seen, scanned, failed)
      PROVE  RefInv'
  <2>1. run.mode = "delta" => mem'.device = mem.device /\ mem'.entry = mem.entry
    BY <1>6 DEF Scan, MarkRemovedPending, TypeOK, State
  <2>. QED
    BY <1>6, <2>1 DEF RefInv, Scan, Resolves, Tracked
<1>7. CASE \E m \in AccessMode : InvalidateBaseline(m)
  BY <1>0, <1>7 DEF RefInv, InvalidateBaseline, Resolves, TypeOK
<1>8. ASSUME NEW answer \in {"processed", "queued", "lost"}, UploadStored(answer)
      PROVE  RefInv'
  <2>1. bodies \subseteq bodies'
        /\ \A i \in Bodies : records[i].ok =>
              <<device, i, records[i].hash, exec>> \in bodies'
    BY <1>8, BodiesType DEF UploadStored, Store
  <2>2. exec # 0
    BY <1>8 DEF RefInv, UploadStored
  <2>3. \A d \in Device, i \in Item, h \in Hash : <<d, i, h, 0>> \notin bodies'
    BY <1>8, <2>2 DEF RefInv, UploadStored, Store
  <2>4. Resolves(base)'
    BY <1>8, <2>1 DEF RefInv, UploadStored, Resolves
  <2>5. CASE pc' = "idle"
    BY <1>8, <2>3, <2>4, <2>5 DEF RefInv
  <2>6. CASE pc' = "commit" /\ run.mode = "delta" /\ UNCHANGED scan
    <3>1. Bodies' = Bodies
      BY <2>6 DEF Bodies
    <3>2. Resolves(mem)' /\ mem'.device = device'
      BY <1>8, <2>1, <2>6 DEF RefInv, UploadStored, Resolves
    <3>. QED
      BY <1>8, <2>1, <2>2, <2>3, <2>4, <2>6, <3>1, <3>2 DEF RefInv, UploadStored
  <2>. QED
    BY <1>8, <2>5, <2>6 DEF UploadStored, Finish, Proceed, EndRun
<1>9. CASE \E answer \in {"error", "rejected", "queued"} : UploadDropped(answer)
  BY <1>9 DEF RefInv, UploadDropped, Finish, EndRun, Resolves, Trusted
<1>10. CASE Dump
  BY <1>10 DEF Dump, Trusted
<1>11. CASE Commit
  <2>. DEFINE s == CommitAfterUpload(mem, records, exec, version, run.full, now)
  <2>1. mem'.device = s.device
        /\ \A i \in Item : mem'.entry[i] = NoEntry \/ mem'.entry[i] = s.entry[i]
    BY <1>11 DEF Commit, AckAndDrop, CommitAfterUpload, TypeOK, State
  <2>2. \A i \in Item : s.entry[i].hash # NoHash =>
           <<device, i, s.entry[i].hash, s.entry[i].exec>> \in bodies
    BY <1>11, CommitResolves DEF Commit
  <2>3. s.device = device
    BY <1>11 DEF Commit, RefInv, CommitAfterUpload, TypeOK, State
  <2>4. Resolves(mem)'
    BY <1>11, <2>1, <2>2, <2>3 DEF Resolves, Tracked, NoEntry, Commit
  <2>. QED
    BY <1>11, <2>1, <2>3, <2>4 DEF RefInv, Commit, Resolves
<1>12. CASE SaveFails \/ RenameFails \/ Crash
  BY <1>12 DEF RefInv, SaveFails, RenameFails, Crash, EndRun, Resolves
<1>13. CASE \E m \in AccessMode : SaveRemove(m)
  BY <1>0, <1>13 DEF RefInv, SaveRemove, Resolves, TypeOK
<1>14. CASE \E m \in AccessMode : SaveRename(m)
  BY <1>14 DEF RefInv, SaveRename, Resolves
<1>15. CASE \E m \in AccessMode : SaveUnmark(m)
  BY <1>15 DEF RefInv, SaveUnmark, EndRun, Resolves
<1>16. CASE UNCHANGED vars
  BY <1>16 DEF RefInv, Resolves, Bodies
<1>. QED
  BY <1>1, <1>2, <1>3, <1>4, <1>5, <1>6, <1>7, <1>8, <1>9, <1>10, <1>11,
     <1>12, <1>13, <1>14, <1>15, <1>16 DEF Next

\* What may go wrong around a machine never changes.
LEMMA PerilsStay == [Next]_vars => perils' = perils
BY DEF Next, Edit, Obscure, NextDay, Upgrade, ChangeIdentity, StartRun, Scan,
       InvalidateBaseline, UploadStored, UploadDropped, Dump, Commit, SaveFails,
       SaveRemove, SaveRename, RenameFails, SaveUnmark, Crash, vars, env

\* As long as every accepted payload is stored, each unchanged ref of each
\* delta upload names an execution that shipped that very body.
THEOREM RefsAlwaysResolve ==
    Spec => []RefsResolve
<1>. DEFINE Inv == TypeOK /\ (Trusted => RefInv)
<1>1. Init => Inv
  BY TypeInit DEF Init, RefInv, Resolves, Tracked, New, NoEntry
<1>2. Inv /\ [Next]_vars => Inv'
  BY TypeStep, RefStep, PerilsStay DEF Trusted
<1>3. TypeOK /\ RefInv => RefsResolve
  <2>. SUFFICES ASSUME TypeOK, RefInv, Shipping, NEW i \in Refs
                PROVE  <<device, i, records[i].hash, mem.entry[i].exec>> \in bodies
    BY DEF RefsResolve
  <2>1. i \in Item /\ records[i].hash \in Hash
    BY BodiesType DEF Refs, Record
  <2>2. mem.entry[i].hash = records[i].hash
    BY DEF Refs, Bodies, Changed, Shipping
  <2>. QED
    BY <2>1, <2>2 DEF RefInv, Resolves, Tracked, Shipping
<1>4. Inv => RefsResolve
  BY <1>3 DEF RefsResolve
<1>. HIDE DEF Inv
<1>. QED
  BY <1>1, <1>2, <1>4, PTL DEF Spec

-----------------------------------------------------------------------------
(* No ref reaches back past a legacy snapshot.                             *)

\* A run that starts now would build on the baseline.
Usable == file = "ok" /\ ~marker

\* Every entry of a state was shipped after the last legacy snapshot.
IsRecent(s) ==
    s.device \in Device => \A i \in Tracked(s) : s.entry[i].exec > lastLegacy[s.device]

\* Where the baseline can always be discarded or marked.
Discardable == perils \cap {"noHome", "readonly"} = {}

\* A legacy run has discarded the baseline before its snapshot goes out, and
\* what a delta run commits is of its own execution or was recent before.
LegacyInv ==
    /\ run.home
    /\ \A d \in Device : lastLegacy[d] <= exec /\ (pc # "idle" => lastLegacy[d] < exec)
    /\ pc # "idle" /\ run.mode = "delta" => mem.device = device /\ IsRecent(mem)
    /\ pc \in {"commit", "save", "rename", "unmark"} => run.mode = "delta"
    /\ pc = "ready" /\ run.mode = "legacy" => ~Usable
    /\ Usable \/ pc = "unmark" => IsRecent(base)

LEMMA NewUntracked == \A v \in Version : Tracked(New(v)) = {}
BY DEF Tracked, New, NoEntry

\* Discarding the baseline leaves nothing a later run would build on, unless
\* this user may write neither the file nor its directory.
LEMMA InvalidatedUnusable ==
    ASSUME TypeOK, Discardable, run.home, NEW m \in AccessMode, InvalidateBaseline(m)
    PROVE  ~Usable'
<1>1. m \in {"ok", "busy", "lockedDir"}
  BY DEF AccessMode, Discardable, Modes
<1>2. file' = Invalidated(m)[1] /\ marker' = Invalidated(m)[2]
  BY DEF InvalidateBaseline
<1>3. CASE m = "ok"
  BY <1>2, <1>3 DEF Invalidated, CanRemove, Usable, TypeOK
<1>4. CASE m = "busy"
  BY <1>2, <1>4 DEF Invalidated, CanRemove, CanTruncate, CanCreate, Usable, TypeOK
<1>5. CASE m = "lockedDir"
  BY <1>2, <1>5 DEF Invalidated, CanRemove, CanTruncate, Usable, TypeOK
<1>. QED
  BY <1>1, <1>3, <1>4, <1>5

\* The state a run starts from is the baseline, if that is usable and of this
\* device, or knows nothing.
LEMMA LoadedState ==
    ASSUME TypeOK, NEW m \in AccessMode, NEW s, s = ForDevice(Load(m), device, version)
    PROVE  /\ s \in State /\ s.device = device
           /\ Tracked(s) = {} \/ (Usable /\ s = base)
<1>1. s \in State /\ s.device = device
  BY LoadType, ForDeviceType DEF TypeOK
<1>2. Load(m) = New(version) \/ (Usable /\ Load(m) = base)
  BY DEF Load, Usable
<1>3. s = Load(m) \/ Tracked(s) = {}
  BY DEF ForDevice, New, NoEntry, Tracked
<1>. QED
  BY <1>1, <1>2, <1>3, NewUntracked DEF TypeOK

\* An entry after a commit is the old one or is of this execution.
LEMMA CommittedEntry ==
    ASSUME TypeOK, NEW i \in Item,
           NEW s, s = AckAndDrop(CommitAfterUpload(mem, records, exec, version, run.full, now), removed)
    PROVE  /\ s.device = mem.device
           /\ i \in removed => s.entry[i] = NoEntry
           /\ i \notin removed =>
                s.entry[i] = IF i \in DOMAIN records
                             THEN CommitEntry(mem.entry[i], records[i], exec, run.full)
                             ELSE mem.entry[i]
BY DEF AckAndDrop, CommitAfterUpload, TypeOK, State

LEMMA LegacyStep ==
    TypeOK /\ Discardable /\ LegacyInv /\ [Next]_vars => LegacyInv'
<1>. SUFFICES ASSUME TypeOK, Discardable, LegacyInv, [Next]_vars PROVE LegacyInv'
  OBVIOUS
<1>. USE DEF vars, env, disk, scan, backend
<1>0. NoRun.home /\ \A d \in Device : lastLegacy[d] \in Nat
  BY DEF NoRun, TypeOK
<1>1. CASE \E i \in Item, h \in Hash \cup {NoHash} : Edit(i, h)
  BY <1>1 DEF LegacyInv, Edit, Usable, IsRecent
<1>2. CASE NextDay \/ (\E v \in Version : Upgrade(v)) \/ (\E d \in Device : ChangeIdentity(d))
             \/ (\E p \in Project : Obscure(p))
  BY <1>2 DEF LegacyInv, NextDay, Obscure, Upgrade, ChangeIdentity, Usable, IsRecent
<1>3. ASSUME NEW optIn \in BOOLEAN, NEW home \in BOOLEAN, NEW m \in AccessMode,
             StartRun(optIn, home, m)
      PROVE  LegacyInv'
  <2>. DEFINE s == ForDevice(Load(m), device, version)
  <2>1. s.device = device /\ (Tracked(s) = {} \/ (Usable /\ s = base))
    BY LoadedState
  <2>2. home
    BY <1>3 DEF StartRun, Discardable
  <2>3. run'.mode = "delta" => mem' = s
    BY <1>3, <2>2 DEF StartRun
  <2>4. \A i \in Tracked(s) : s.entry[i].exec > lastLegacy[device]
    BY <2>1 DEF LegacyInv, IsRecent, TypeOK
  <2>5. \A d \in Device : lastLegacy'[d] < exec'
    BY <1>0, <1>3 DEF LegacyInv, StartRun, TypeOK
  <2>. QED
    BY <1>3, <2>1, <2>2, <2>3, <2>4, <2>5 DEF LegacyInv, StartRun, Usable, IsRecent, TypeOK
<1>4. ASSUME NEW enabled \in SUBSET Ecosystem, NEW cut \in SUBSET Ecosystem,
             NEW seen \in SUBSET Item, NEW scanned \in SUBSET Item,
             NEW failed \in SUBSET Item,
             Scan(enabled, cut, seen, scanned, failed)
      PROVE  LegacyInv'
  <2>1. run.mode = "delta" => mem'.device = mem.device /\ mem'.entry = mem.entry
    BY <1>4 DEF Scan, MarkRemovedPending, TypeOK, State
  <2>2. pc' = "ready" => run.mode = "delta"
    BY <1>4 DEF Scan
  <2>. QED
    BY <1>4, <2>1, <2>2 DEF LegacyInv, Scan, Usable, IsRecent, Tracked
<1>5. ASSUME NEW m \in AccessMode, InvalidateBaseline(m) PROVE LegacyInv'
  <2>1. ~Usable'
    BY <1>5, InvalidatedUnusable DEF LegacyInv
  <2>. QED
    BY <1>5, <2>1 DEF LegacyInv, InvalidateBaseline, IsRecent
<1>6. ASSUME NEW answer \in {"processed", "queued", "lost"}, UploadStored(answer)
      PROVE  LegacyInv'
  <2>1. CASE run.mode = "legacy"
    <3>1. ~Usable' /\ pc' = "idle" /\ run' = NoRun
      BY <1>6, <2>1 DEF LegacyInv, UploadStored, Finish, EndRun, Usable
    <3>2. \A d \in Device : lastLegacy'[d] <= exec'
      BY <1>0, <1>6, <2>1 DEF LegacyInv, UploadStored, Store, TypeOK
    <3>. QED
      BY <1>0, <3>1, <3>2 DEF LegacyInv
  <2>2. CASE run.mode # "legacy"
    BY <1>0, <1>6, <2>2
       DEF LegacyInv, UploadStored, Store, Finish, Proceed, EndRun, Usable, IsRecent, TypeOK
  <2>. QED
    BY <2>1, <2>2
<1>7. CASE \E answer \in {"error", "rejected", "queued"} : UploadDropped(answer)
  BY <1>0, <1>7 DEF LegacyInv, UploadDropped, Finish, Proceed, EndRun, Usable, IsRecent
<1>8. CASE Dump
  BY <1>0, <1>8 DEF LegacyInv, Dump, Finish, Proceed, EndRun, Usable, IsRecent
<1>9. CASE Commit
  <2>1. mem'.device = mem.device /\ mem.device = device /\ device \in Device
    BY <1>9, CommittedEntry DEF Commit, LegacyInv, TypeOK, AckAndDrop, CommitAfterUpload, State
  <2>2. ASSUME NEW i \in Item, mem'.entry[i].hash # NoHash
        PROVE  mem'.entry[i].exec > lastLegacy[device]
    <3>1. mem'.entry[i] = mem.entry[i] \/ mem'.entry[i].exec = exec
      <4>1. /\ i \in removed => mem'.entry[i] = NoEntry
            /\ i \notin removed =>
                 mem'.entry[i] = IF i \in DOMAIN records
                                 THEN CommitEntry(mem.entry[i], records[i], exec, run.full)
                                 ELSE mem.entry[i]
        BY <1>9, CommittedEntry DEF Commit
      <4>2. i \notin removed
        BY <2>2, <4>1 DEF NoEntry
      <4>. QED
        BY <4>1, <4>2 DEF CommitEntry
    <3>2. lastLegacy[device] < exec
      BY <1>9, <2>1 DEF LegacyInv, Commit
    <3>3. mem.entry[i].hash # NoHash => mem.entry[i].exec > lastLegacy[device]
      BY <1>9, <2>1 DEF LegacyInv, Commit, IsRecent, Tracked
    <3>. QED
      BY <1>0, <2>1, <2>2, <3>1, <3>2, <3>3 DEF TypeOK
  <2>3. IsRecent(mem)'
    BY <1>9, <2>1, <2>2 DEF IsRecent, Tracked, Commit
  <2>. QED
    BY <1>9, <2>1, <2>3 DEF LegacyInv, Commit, Usable, IsRecent
<1>10. CASE SaveFails \/ RenameFails \/ Crash
  BY <1>0, <1>10 DEF LegacyInv, SaveFails, RenameFails, Crash, EndRun, Usable, IsRecent
<1>11. CASE \E m \in AccessMode : SaveRemove(m)
  BY <1>11, NewUntracked DEF LegacyInv, SaveRemove, Usable, IsRecent, TypeOK
<1>12. CASE \E m \in AccessMode : SaveRename(m)
  BY <1>12 DEF LegacyInv, SaveRename, Usable, IsRecent
<1>13. CASE \E m \in AccessMode : SaveUnmark(m)
  BY <1>0, <1>13 DEF LegacyInv, SaveUnmark, EndRun, Usable, IsRecent
<1>14. CASE UNCHANGED vars
  BY <1>14 DEF LegacyInv, Usable, IsRecent
<1>. QED
  BY <1>1, <1>2, <1>3, <1>4, <1>5, <1>6, <1>7, <1>8, <1>9, <1>10, <1>11,
     <1>12, <1>13, <1>14 DEF Next

(* No ref of a delta report names an execution at or before the last legacy*)
(* snapshot of its device, wherever the baseline can be discarded or marked*)
(* (the Invalidate call of telemetry.go).                                  *)
THEOREM LegacySnapshotsCutRefs == Spec => []NoRefAcrossLegacy
<1>. DEFINE Inv == TypeOK /\ (Discardable => LegacyInv)
<1>1. Init => Inv
  BY TypeInit, NewUntracked DEF Init, LegacyInv, Usable, NoRun, TypeOK
<1>2. Inv /\ [Next]_vars => Inv'
  BY TypeStep, LegacyStep, PerilsStay DEF Discardable
<1>3. Inv => NoRefAcrossLegacy
  <2>. SUFFICES ASSUME TypeOK, LegacyInv, Shipping, NEW i \in Refs
                PROVE  mem.entry[i].exec > lastLegacy[device]
    BY DEF NoRefAcrossLegacy, LegacyCutsRefs, Discardable
  <2>1. i \in Item /\ records[i].hash \in Hash
    BY BodiesType DEF Refs, Record
  <2>2. mem.entry[i].hash = records[i].hash
    BY DEF Refs, Bodies, Changed, Shipping
  <2>. QED
    BY <2>1, <2>2 DEF LegacyInv, IsRecent, Tracked, Shipping, TypeOK
<1>. HIDE DEF Inv
<1>. QED
  BY <1>1, <1>2, <1>3, PTL DEF Spec

-----------------------------------------------------------------------------
(* While nothing is lost the baseline and the backend are in step.         *)

\* Nothing fails beyond what the run itself gets round.
Calm == perils \subseteq {"optOut", "busy", "lockedDir", "unreadable"}

\* The records are those of this run, of items that are as they say.
RecordInv ==
    /\ pc \in {"idle", "scanning"} => records = NoRecords
    /\ \A i \in DOMAIN records : records[i].hash = Visible[i]
    /\ pc = "idle" => run = NoRun

LEMMA RecordStep == TypeOK /\ RecordInv /\ [Next]_vars => RecordInv'
<1>. SUFFICES ASSUME TypeOK, RecordInv, [Next]_vars PROVE RecordInv'
  OBVIOUS
<1>. USE DEF vars, env, disk, scan, backend
<1>1. CASE pc' = "idle" /\ run' = NoRun /\ records' = NoRecords
  BY <1>1, NoRecordsType DEF RecordInv
<1>2. ASSUME NEW i \in Item, NEW h \in Hash \cup {NoHash}, Edit(i, h) PROVE RecordInv'
  BY <1>2, NoRecordsType DEF RecordInv, Edit
<1>3. CASE NextDay \/ (\E v \in Version : Upgrade(v)) \/ (\E d \in Device : ChangeIdentity(d))
  BY <1>3 DEF RecordInv, NextDay, Upgrade, ChangeIdentity, Visible
<1>10. CASE \E p \in Project : Obscure(p)
  BY <1>10, NoRecordsType DEF RecordInv, Obscure
<1>4. CASE \E optIn, home \in BOOLEAN, m \in AccessMode : StartRun(optIn, home, m)
  BY <1>4 DEF RecordInv, StartRun, Visible
<1>5. ASSUME NEW enabled \in SUBSET Ecosystem, NEW cut \in SUBSET Ecosystem,
             NEW seen \in SUBSET Item, NEW scanned \in SUBSET Item,
             NEW failed \in SUBSET Item,
             Scan(enabled, cut, seen, scanned, failed)
      PROVE  RecordInv'
  <2>1. \A i \in scanned : i \in Item /\ actual[i] = Visible[i]
    BY <1>5 DEF Scan, Found, Visible
  <2>2. Visible' = Visible
    BY <1>5 DEF Scan, Visible
  <2>. QED
    BY <1>5, <2>1, <2>2 DEF RecordInv, Scan
<1>6. CASE \E m \in AccessMode : InvalidateBaseline(m) \/ SaveRemove(m) \/ SaveRename(m)
  BY <1>6 DEF RecordInv, InvalidateBaseline, SaveRemove, SaveRename, Visible
<1>7. CASE Commit
  BY <1>7 DEF RecordInv, Commit, Visible
<1>8. CASE UNCHANGED <<records, actual, hidden, run>> /\ pc # "idle" /\ pc' \in {"commit", "idle", "ready"} /\ pc' # "idle"
  BY <1>8 DEF RecordInv, Visible
<1>9. CASE UNCHANGED vars
  BY <1>9 DEF RecordInv, Visible
<1>. QED
  BY <1>1, <1>2, <1>3, <1>4, <1>5, <1>6, <1>7, <1>8, <1>9, <1>10
     DEF Next, UploadStored, UploadDropped, Dump, SaveFails, RenameFails, SaveUnmark, Crash,
         Finish, Proceed, EndRun

\* The backend holds every entry of a state with the hash it tracks.
IsHeld(s) ==
    \A i \in Tracked(s) : s.device \in Device /\ view[s.device][i] = s.entry[i].hash

\* The baseline is held, except while the run that stored a payload has yet to
\* replace it, and what that run will save is held by then.
HeldInv ==
    /\ run.home
    /\ pc \in {"commit", "save", "rename", "unmark"} => run.mode = "delta"
    /\ pc = "invalidate" => run.mode = "legacy"
    /\ pc # "idle" /\ run.mode = "delta" => mem.device = device
    /\ pc = "ready" /\ run.mode = "legacy" => ~Usable
    /\ (Usable /\ pc \notin {"commit", "save", "rename"}) \/ pc = "unmark" => IsHeld(base)
    /\ pc \in {"scanning", "ready", "save", "rename"} /\ run.mode = "delta" => IsHeld(mem)
    /\ pc = "commit" => \A i \in Item :
          IF i \in Bodies /\ records[i].ok THEN view[device][i] = records[i].hash
          ELSE i \in Tracked(mem) \ removed => view[device][i] = mem.entry[i].hash

\* What a run scanned it does not report removed.
LEMMA PresentNotRemoved ==
    ASSUME TypeOK, RecordInv, RemovalInv
    PROVE  removed \cap DOMAIN records = {} /\ Bodies \subseteq DOMAIN records
BY BodiesType DEF RemovalInv

LEMMA HeldStep ==
    TypeOK /\ RecordInv /\ RemovalInv /\ Calm /\ HeldInv /\ [Next]_vars => HeldInv'
<1>. SUFFICES ASSUME TypeOK, RecordInv, RemovalInv, Calm, HeldInv, [Next]_vars PROVE HeldInv'
  OBVIOUS
<1>. USE DEF vars, env, disk, scan, backend
<1>0. NoRun.home /\ Discardable
  BY DEF NoRun, Discardable, Calm
<1>1. CASE \E i \in Item, h \in Hash \cup {NoHash} : Edit(i, h)
  BY <1>1 DEF HeldInv, Edit, Usable, IsHeld
<1>2. CASE NextDay \/ \E p \in Project : Obscure(p)
  BY <1>2 DEF HeldInv, NextDay, Obscure, Usable, IsHeld, Bodies
<1>3. CASE (\E v \in Version : Upgrade(v)) \/ (\E d \in Device : ChangeIdentity(d))
  BY <1>3 DEF HeldInv, Upgrade, ChangeIdentity, Usable, IsHeld
<1>4. ASSUME NEW optIn \in BOOLEAN, NEW home \in BOOLEAN, NEW m \in AccessMode,
             StartRun(optIn, home, m)
      PROVE  HeldInv'
  <2>. DEFINE s == ForDevice(Load(m), device, version)
  <2>1. s.device = device /\ (Tracked(s) = {} \/ (Usable /\ s = base))
    BY LoadedState
  <2>2. home
    BY <1>4 DEF StartRun, Calm
  <2>3. run'.mode = "delta" => mem' = s
    BY <1>4, <2>2 DEF StartRun
  <2>4. \A i \in Tracked(s) : view[device][i] = s.entry[i].hash
    BY <1>4, <2>1 DEF HeldInv, IsHeld, TypeOK, StartRun
  <2>. QED
    BY <1>4, <2>1, <2>2, <2>3, <2>4 DEF HeldInv, StartRun, Usable, IsHeld, TypeOK
<1>5. ASSUME NEW enabled \in SUBSET Ecosystem, NEW cut \in SUBSET Ecosystem,
             NEW seen \in SUBSET Item, NEW scanned \in SUBSET Item,
             NEW failed \in SUBSET Item,
             Scan(enabled, cut, seen, scanned, failed)
      PROVE  HeldInv'
  <2>1. run.mode = "delta" => mem'.device = mem.device /\ mem'.entry = mem.entry
    BY <1>5 DEF Scan, MarkRemovedPending, TypeOK, State
  <2>2. pc' = "ready" => run.mode = "delta"
    BY <1>5 DEF Scan
  <2>3. pc' = "invalidate" => run.mode = "legacy"
    BY <1>5 DEF Scan, TypeOK
  <2>. QED
    BY <1>5, <2>1, <2>2, <2>3 DEF HeldInv, Scan, Usable, IsHeld, Tracked
<1>6. ASSUME NEW m \in AccessMode, InvalidateBaseline(m) PROVE HeldInv'
  <2>1. ~Usable'
    BY <1>0, <1>6, InvalidatedUnusable DEF HeldInv
  <2>. QED
    BY <1>6, <2>1 DEF HeldInv, InvalidateBaseline
<1>7. ASSUME NEW answer \in {"processed", "queued", "lost"}, UploadStored(answer)
      PROVE  HeldInv'
  <2>1. CASE run.mode = "legacy"
    BY <1>0, <1>7, <2>1 DEF HeldInv, UploadStored, Finish, EndRun, Usable
  <2>2. CASE run.mode = "delta"
    <3>1. answer # "lost" /\ pc' = "commit" /\ UNCHANGED scan
      BY <1>7, <2>2 DEF UploadStored, Finish, Proceed, Calm
    <3>2. view'[device] = Stored /\ device' = device /\ Bodies' = Bodies
      BY <1>7, <3>1 DEF UploadStored, Store, TypeOK, Bodies
    <3>3. mem.device = device /\ device \in Device /\ IsHeld(mem)
      BY <1>7, <2>2 DEF HeldInv, UploadStored, TypeOK
    <3>4. ASSUME NEW i \in Item
          PROVE  IF i \in Bodies /\ records[i].ok THEN Stored[i] = records[i].hash
                 ELSE i \in Tracked(mem) \ removed => Stored[i] = mem.entry[i].hash
      <4>1. CASE i \in Bodies /\ records[i].ok
        BY <4>1, PresentNotRemoved DEF Stored
      <4>2. CASE ~(i \in Bodies /\ records[i].ok) /\ i \notin removed
        BY <2>2, <3>3, <4>2 DEF Stored, IsHeld
      <4>. QED
        BY <4>1, <4>2
    <3>5. \A i \in Item :
             (IF i \in Bodies /\ records[i].ok THEN view[device][i] = records[i].hash
              ELSE i \in Tracked(mem) \ removed => view[device][i] = mem.entry[i].hash)'
      BY <3>1, <3>2, <3>4
    <3>. QED
      BY <1>7, <2>2, <3>1, <3>3, <3>5 DEF HeldInv, UploadStored
  <2>. QED
    BY <2>1, <2>2 DEF TypeOK
<1>8. CASE \E answer \in {"error", "rejected", "queued"} : UploadDropped(answer)
  BY <1>0, <1>8 DEF HeldInv, UploadDropped, Finish, EndRun, Usable, IsHeld, Calm
<1>9. CASE Commit
  <2>1. mem'.device = mem.device /\ mem.device = device /\ device \in Device
    BY <1>9 DEF Commit, HeldInv, TypeOK, AckAndDrop, CommitAfterUpload, State
  <2>2. ASSUME NEW i \in Item, mem'.entry[i].hash # NoHash
        PROVE  view[device][i] = mem'.entry[i].hash
    <3>1. /\ i \in removed => mem'.entry[i] = NoEntry
          /\ i \notin removed =>
               mem'.entry[i] = IF i \in DOMAIN records
                               THEN CommitEntry(mem.entry[i], records[i], exec, run.full)
                               ELSE mem.entry[i]
      BY <1>9, CommittedEntry DEF Commit
    <3>2. i \notin removed
      BY <2>2, <3>1 DEF NoEntry
    <3>3. IF i \in Bodies /\ records[i].ok THEN view[device][i] = records[i].hash
          ELSE i \in Tracked(mem) => view[device][i] = mem.entry[i].hash
      BY <1>9, <3>2 DEF HeldInv, Commit
    <3>4. i \in Bodies <=> i \in DOMAIN records /\ (run.full \/ ~records[i].ok
                                                    \/ mem.entry[i].hash # records[i].hash)
      BY <1>9 DEF Bodies, Changed, HeldInv, Commit
    <3>5. i \in DOMAIN records => records[i].hash \in Hash /\ records[i].hash # NoHash
      BY DEF TypeOK, Records, Record
    <3>6. CASE mem'.entry[i] = mem.entry[i] /\ ~(i \in Bodies /\ records[i].ok)
      BY <2>2, <3>3, <3>6 DEF Tracked
    <3>7. CASE i \in DOMAIN records /\ records[i].ok
               /\ mem'.entry[i] = [hash |-> records[i].hash, exec |-> exec]
      BY <3>3, <3>4, <3>5, <3>7 DEF Tracked
    <3>8. CASE i \in Bodies /\ records[i].ok
      BY <3>1, <3>2, <3>4, <3>7, <3>8 DEF CommitEntry
    <3>. QED
      BY <3>1, <3>2, <3>6, <3>7, <3>8 DEF CommitEntry
  <2>3. IsHeld(mem)'
    BY <1>9, <2>1, <2>2 DEF IsHeld, Tracked, Commit
  <2>. QED
    BY <1>9, <2>1, <2>3 DEF HeldInv, Commit
<1>10. CASE Dump \/ SaveFails \/ RenameFails \/ Crash
  BY <1>10 DEF Dump, SaveFails, RenameFails, Crash, Calm
<1>11. CASE \E m \in AccessMode : SaveRemove(m)
  BY <1>11 DEF HeldInv, SaveRemove, IsHeld
<1>12. CASE \E m \in AccessMode : SaveRename(m)
  BY <1>12 DEF HeldInv, SaveRename, IsHeld
<1>13. CASE \E m \in AccessMode : SaveUnmark(m)
  BY <1>0, <1>13 DEF HeldInv, SaveUnmark, EndRun, Usable, IsHeld
<1>14. CASE UNCHANGED vars
  BY <1>14 DEF HeldInv, Usable, IsHeld, Bodies
<1>. QED
  BY <1>1, <1>2, <1>3, <1>4, <1>5, <1>6, <1>7, <1>8, <1>9, <1>10, <1>11,
     <1>12, <1>13, <1>14 DEF Next

\* What the backend learned of this device a state still tracks.
Covers(s) ==
    \A i \in Item : view[device][i] # NoHash => s.device = device /\ i \in Tracked(s)

\* While nothing at all goes wrong and the identity holds, that is the state
\* on disk, or after an upload the one about to be saved.
CoverInv ==
    /\ run.home /\ (pc # "idle" => run.mode = "delta")
    /\ ~marker /\ (file = "ok" \/ Tracked(base) = {})
    /\ pc \in {"commit", "save", "rename"} \/ Covers(base)
    /\ pc \in {"scanning", "ready", "save", "rename"} => Covers(mem)
    /\ pc = "commit" => \A i \in Item : view[device][i] # NoHash =>
          mem.device = device /\ i \notin removed /\ (i \in Tracked(mem) \/ (i \in Bodies /\ records[i].ok))

LEMMA CoverStep ==
    ASSUME \A d, e \in Device : d = e,
           TypeOK, RecordInv, RemovalInv, perils \subseteq {"unreadable"}, HeldInv, CoverInv, [Next]_vars
    PROVE  CoverInv'
<1>. USE DEF vars, env, disk, scan, backend
<1>0. NoRun.home /\ AccessMode = {"ok"} /\ CanRemove("ok") /\ CanTruncate("ok")
  BY DEF NoRun, AccessMode, Modes, CanRemove, CanTruncate
<1>1. CASE \E i \in Item, h \in Hash \cup {NoHash} : Edit(i, h)
  BY <1>1 DEF CoverInv, Edit, Covers
<1>2. CASE NextDay \/ \E p \in Project : Obscure(p)
  BY <1>2 DEF CoverInv, NextDay, Obscure, Covers, Bodies
<1>3. CASE \E v \in Version : Upgrade(v)
  BY <1>3 DEF CoverInv, Upgrade, Covers
<1>4. CASE \E d \in Device : ChangeIdentity(d)
  <2>1. device' = device
    BY <1>4 DEF ChangeIdentity, TypeOK
  <2>. QED
    BY <1>4, <2>1 DEF CoverInv, ChangeIdentity, Covers
<1>5. ASSUME NEW optIn \in BOOLEAN, NEW home \in BOOLEAN, NEW m \in AccessMode,
             StartRun(optIn, home, m)
      PROVE  CoverInv'
  <2>. DEFINE s == ForDevice(Load(m), device, version)
  <2>1. optIn /\ home /\ mem' = s /\ run'.mode = "delta" /\ run'.home
    BY <1>5 DEF StartRun
  <2>2. file = "ok" => Load(m) = base
    BY <1>0 DEF Load, CoverInv
  <2>3. Covers(base)
    BY <1>5 DEF CoverInv, StartRun
  <2>4. ASSUME NEW i \in Item, view[device][i] # NoHash PROVE s.device = device /\ i \in Tracked(s)
    BY <2>2, <2>3, <2>4 DEF Covers, CoverInv, ForDevice
  <2>. QED
    BY <1>5, <2>1, <2>3, <2>4 DEF CoverInv, StartRun, Covers
<1>6. ASSUME NEW enabled \in SUBSET Ecosystem, NEW cut \in SUBSET Ecosystem,
             NEW seen \in SUBSET Item, NEW scanned \in SUBSET Item,
             NEW failed \in SUBSET Item,
             Scan(enabled, cut, seen, scanned, failed)
      PROVE  CoverInv'
  <2>1. mem'.device = mem.device /\ mem'.entry = mem.entry /\ pc' = "ready"
    BY <1>6 DEF Scan, MarkRemovedPending, TypeOK, State, CoverInv
  <2>. QED
    BY <1>6, <2>1 DEF CoverInv, Scan, Covers, Tracked
<1>7. CASE \E m \in AccessMode : InvalidateBaseline(m)
  BY <1>7 DEF CoverInv, HeldInv, InvalidateBaseline
<1>8. ASSUME NEW answer \in {"processed", "queued", "lost"}, UploadStored(answer)
      PROVE  CoverInv'
  <2>1. answer # "lost" /\ pc' = "commit" /\ UNCHANGED scan
    BY <1>8 DEF UploadStored, Finish, Proceed, CoverInv
  <2>2. view'[device] = Stored /\ device' = device /\ Bodies' = Bodies
    BY <1>8, <2>1 DEF UploadStored, Store, TypeOK, Bodies
  <2>3. mem.device = device /\ Covers(mem) /\ run.mode = "delta"
    BY <1>8 DEF HeldInv, CoverInv, UploadStored
  <2>4. ASSUME NEW i \in Item, Stored[i] # NoHash
        PROVE  i \notin removed /\ (i \in Tracked(mem) \/ (i \in Bodies /\ records[i].ok))
    <3>1. CASE i \in Bodies /\ records[i].ok
      BY <3>1, PresentNotRemoved
    <3>2. CASE ~(i \in Bodies /\ records[i].ok)
      BY <2>3, <2>4, <3>2 DEF Stored, Covers
    <3>. QED
      BY <3>1, <3>2
  <2>. QED
    BY <1>8, <2>1, <2>2, <2>3, <2>4 DEF CoverInv, UploadStored
<1>9. CASE \E answer \in {"error", "rejected", "queued"} : UploadDropped(answer)
  BY <1>0, <1>9 DEF CoverInv, UploadDropped, Finish, EndRun, Covers
<1>10. CASE Commit
  <2>1. ASSUME NEW i \in Item, view[device][i] # NoHash
        PROVE  mem'.device = device /\ mem'.entry[i].hash # NoHash
    <3>1. mem'.device = mem.device /\ (i \notin removed =>
            mem'.entry[i] = IF i \in DOMAIN records
                            THEN CommitEntry(mem.entry[i], records[i], exec, run.full)
                            ELSE mem.entry[i])
      BY <1>10, CommittedEntry DEF Commit
    <3>2. mem.device = device /\ i \notin removed /\ (i \in Tracked(mem) \/ (i \in Bodies /\ records[i].ok))
      BY <1>10, <2>1 DEF CoverInv, Commit
    <3>3. i \in DOMAIN records => records[i].hash # NoHash
      BY DEF TypeOK, Records, Record
    <3>4. i \in Bodies => i \in DOMAIN records
                          /\ (run.full \/ ~records[i].ok \/ mem.entry[i].hash # records[i].hash)
      BY <1>10 DEF Bodies, Changed, CoverInv, Commit
    <3>. QED
      BY <3>1, <3>2, <3>3, <3>4 DEF CommitEntry, Tracked
  <2>. QED
    BY <1>10, <2>1 DEF CoverInv, Commit, Covers, Tracked
<1>11. CASE Dump \/ SaveFails \/ RenameFails \/ Crash
  BY <1>11 DEF Dump, SaveFails, RenameFails, Crash
<1>12. CASE \E m \in AccessMode : SaveRemove(m)
  BY <1>12, NewUntracked DEF CoverInv, SaveRemove, Covers, TypeOK
<1>13. CASE \E m \in AccessMode : SaveRename(m)
  BY <1>13 DEF CoverInv, SaveRename, Covers
<1>14. CASE \E m \in AccessMode : SaveUnmark(m)
  BY <1>0, <1>14 DEF CoverInv, SaveUnmark, EndRun, Covers
<1>15. CASE UNCHANGED vars
  BY <1>15 DEF CoverInv, Covers, Bodies
<1>. QED
  BY <1>1, <1>2, <1>3, <1>4, <1>5, <1>6, <1>7, <1>8, <1>9, <1>10, <1>11,
     <1>12, <1>13, <1>14, <1>15 DEF Next

\* The inductive invariant of the steady runs.
SteadyInv ==
    /\ TypeOK /\ PendingInv /\ RemovalInv /\ RecordInv
    /\ Calm => HeldInv

LEMMA SteadyInit == Init => SteadyInv
<1>. SUFFICES ASSUME Init PROVE SteadyInv
  OBVIOUS
<1>1. RecordInv
  BY NoRecordsType DEF Init, RecordInv
<1>2. HeldInv
  BY DEF Init, HeldInv, Usable, NoRun
<1>. QED
  BY <1>1, <1>2, TypeInit, PendingInit DEF SteadyInv

LEMMA SteadyStep == SteadyInv /\ [Next]_vars => SteadyInv'
BY TypeStep, PendingStep, RemovalStep, RecordStep, HeldStep, PerilsStay DEF SteadyInv, Calm

LEMMA SteadyAlways == Spec => []SteadyInv
BY SteadyInit, SteadyStep, PTL DEF Spec

(* A tracked item is held by the backend with the tracked hash between any *)
(* two runs, whatever legacy runs came in between, while no answer is lost,*)
(* no save fails and no run dies.                                          *)
THEOREM TrackedIsHeld == Spec => []TrackedMatchesBackend
<1>1. SteadyInv => TrackedMatchesBackend
  <2>. SUFFICES ASSUME SteadyInv, perils \subseteq {"optOut", "unreadable"}, pc = "idle", file = "ok", ~marker,
                       NEW i \in Tracked(base)
                PROVE  view[base.device][i] = base.entry[i].hash
    BY DEF TrackedMatchesBackend
  <2>1. HeldInv
    BY DEF SteadyInv, Calm
  <2>. QED
    BY <2>1 DEF HeldInv, Usable, IsHeld
<1>. QED
  BY <1>1, SteadyAlways, PTL

(* The converse: what the backend learned of a device is still tracked, so *)
(* that its disappearance will be reported.  A baseline belongs to one     *)
(* identity, so this needs the machine to keep its own (ForDevice discards *)
(* the baseline of another, and with it what is still to be reported gone).*)
THEOREM BaselineAndBackendInStep ==
    ASSUME \A d, e \in Device : d = e
    PROVE  Spec => []InStep
<1>. DEFINE Inv == SteadyInv /\ (perils \subseteq {"unreadable"} => CoverInv)
<1>1. Init => Inv
  <2>. SUFFICES ASSUME Init PROVE CoverInv
    BY SteadyInit
  <2>1. view[device] = Absent
    BY DEF Init
  <2>. QED
    BY <2>1, NewUntracked DEF Init, CoverInv, Covers, Absent, NoRun
<1>2. Inv /\ [Next]_vars => Inv'
  BY SteadyStep, CoverStep, PerilsStay DEF SteadyInv, Calm
<1>3. Inv => NothingForgotten
  <2>. SUFFICES ASSUME CoverInv, pc = "idle", NEW i \in Item, view[device][i] # NoHash
                PROVE  file = "ok" /\ base.device = device /\ i \in Tracked(base)
    BY DEF NothingForgotten
  <2>. QED
    BY DEF CoverInv, Covers
<1>. HIDE DEF Inv
<1>4. Spec => []NothingForgotten
  BY <1>1, <1>2, <1>3, PTL DEF Spec
<1>. QED
  BY <1>4, TrackedIsHeld, PTL DEF InStep

-----------------------------------------------------------------------------
(* A delta report is a compression of a full one.                          *)

Claimed == {i \in DOMAIN records : records[i].ok}

\* What the walks can see is a machine like any other.
LEMMA VisibleType == TypeOK => Visible \in [Item -> Hash \cup {NoHash}]
BY DEF TypeOK, Visible

LEMMA InitialInventory == Init => Snapshots!Init
<1>. SUFFICES ASSUME Init PROVE Snapshots!Init
  OBVIOUS
<1>1. Claimed = {}
  BY NoRecordsType DEF Init, Claimed
<1>2. (run.mode = "legacy") \in BOOLEAN
  OBVIOUS
<1>3. Visible \in [Item -> Hash \cup {NoHash}]
  BY TypeInit, VisibleType
<1>. QED
  BY <1>1, <1>2, <1>3 DEF Init, Snapshots!Init, Claimed, Absent

\* What the backend holds after a delta payload is what it would hold after
\* the full report of the same scan.
LEMMA StoredIsAfter ==
    ASSUME SteadyInv, Calm, pc = "ready"
    PROVE  Stored = Snapshots!After
<1>1. ASSUME NEW i \in Item PROVE Stored[i] = Snapshots!After[i]
  <2>1. removed \cap DOMAIN records = {} /\ Bodies \subseteq DOMAIN records
    BY PresentNotRemoved DEF SteadyInv
  <2>2. \A j \in DOMAIN records : records[j].hash = Visible[j]
    BY DEF SteadyInv, RecordInv
  <2>3. CASE i \in Bodies /\ records[i].ok
    BY <2>1, <2>2, <2>3 DEF Stored, Snapshots!After
  <2>4. CASE i \in Claimed /\ i \notin Bodies
    <3>1. run.mode = "delta" /\ mem.entry[i].hash = records[i].hash
      BY <2>4 DEF Bodies, Changed, Claimed, SteadyInv, TypeOK
    <3>2. mem.device = device /\ IsHeld(mem)
      BY <3>1 DEF SteadyInv, HeldInv
    <3>3. records[i].hash \in Hash
      BY <2>4 DEF Claimed, SteadyInv, TypeOK, Records, Record
    <3>4. view[device][i] = records[i].hash
      BY <3>1, <3>2, <3>3 DEF IsHeld, Tracked
    <3>. QED
      BY <2>1, <2>2, <2>4, <3>1, <3>4 DEF Stored, Snapshots!After, Claimed
  <2>5. CASE i \notin Claimed
    BY <2>1, <2>5 DEF Stored, Snapshots!After, Claimed
  <2>. QED
    BY <2>1, <2>3, <2>4, <2>5 DEF Claimed
<1>. QED
  BY <1>1 DEF Stored, Snapshots!After

LEMMA ForgottenAtEnd ==
    ASSUME EndRun
    PROVE  Snapshots!Forgotten
BY NoRecordsType DEF EndRun, Snapshots!Forgotten, NoRun

LEMMA InventoryStep ==
    ASSUME SteadyInv, Calm, [Next]_vars
    PROVE  Snapshots!Next \/ UNCHANGED Snapshots!vars
<1>. USE DEF vars, env, disk, scan, backend, SteadyInv
<1>0. pc \in {"idle", "scanning"} => Claimed = {} /\ removed = {}
  BY NoRecordsType DEF RecordInv, RemovalInv, Claimed
<1>1. ASSUME NEW i \in Item, NEW h \in Hash \cup {NoHash}, Edit(i, h) PROVE Snapshots!Edit
  <2>1. Visible' \in [Item -> Hash \cup {NoHash}]
    <3>1. TypeOK'
      BY TypeStep
    <3>. QED
      BY <3>1 DEF TypeOK, Visible
  <2>. QED
    BY <1>0, <1>1, <2>1 DEF Edit, Snapshots!Edit, Claimed
<1>15. ASSUME NEW p \in Project, Obscure(p) PROVE Snapshots!Edit
  <2>1. Visible' \in [Item -> Hash \cup {NoHash}]
    <3>1. TypeOK'
      BY TypeStep
    <3>. QED
      BY <3>1 DEF TypeOK, Visible
  <2>. QED
    BY <1>0, <1>15, <2>1 DEF Obscure, Snapshots!Edit, Claimed
<1>2. CASE NextDay \/ \E v \in Version : Upgrade(v)
  BY <1>2 DEF NextDay, Upgrade, Snapshots!vars, Visible
<1>3. ASSUME NEW d \in Device, ChangeIdentity(d) PROVE Snapshots!Begin
  BY <1>0, <1>3 DEF ChangeIdentity, Snapshots!Begin, Claimed, Visible
<1>4. CASE \E optIn, home \in BOOLEAN, m \in AccessMode : StartRun(optIn, home, m)
  <2>1. (run'.mode = "legacy") \in BOOLEAN
    OBVIOUS
  <2>2. UNCHANGED <<Visible, view, device, records, removed>> /\ device \in Device /\ pc = "idle"
    BY <1>4 DEF StartRun, TypeOK, Visible
  <2>3. Snapshots!Begin
    BY <1>0, <2>1, <2>2 DEF Snapshots!Begin, Claimed
  <2>. QED
    BY <2>3 DEF Snapshots!Next
<1>5. ASSUME NEW enabled \in SUBSET Ecosystem, NEW cut \in SUBSET Ecosystem,
             NEW seen \in SUBSET Item, NEW scanned \in SUBSET Item,
             NEW failed \in SUBSET Item,
             Scan(enabled, cut, seen, scanned, failed)
      PROVE  Snapshots!Observe
  <2>1. UNCHANGED <<Visible, device, view, run>> /\ pc = "scanning" /\ DOMAIN records' = scanned
    BY <1>5 DEF Scan, Visible
  <2>2. scanned \subseteq Snapshots!Present
    BY <1>5 DEF Scan, Found, Snapshots!Present
  <2>3. removed' \subseteq Item \ Snapshots!Present
    <3>1. TypeOK' /\ RemovalInv'
      BY SteadyStep
    <3>. QED
      BY <2>1, <3>1 DEF RemovalInv, Snapshots!Present, TypeOK, Item
  <2>. QED
    BY <1>0, <2>1, <2>2, <2>3 DEF Snapshots!Observe, Claimed
<1>6. CASE \E m \in AccessMode : InvalidateBaseline(m)
  BY <1>6 DEF InvalidateBaseline, Snapshots!vars, Visible
<1>7. ASSUME NEW answer \in {"processed", "queued", "lost"}, UploadStored(answer)
      PROVE  Snapshots!Deliver
  <2>1. view' = [view EXCEPT ![device] = Snapshots!After] /\ UNCHANGED <<Visible, device>>
    BY <1>7, StoredIsAfter DEF UploadStored, Store, Visible
  <2>2. EndRun \/ UNCHANGED scan
    BY <1>7 DEF UploadStored, Finish, Proceed
  <2>. QED
    BY <2>1, <2>2, ForgottenAtEnd DEF Snapshots!Deliver, Claimed
<1>8. ASSUME EndRun, UNCHANGED <<actual, hidden, device, view>> PROVE Snapshots!Drop
  BY <1>8, ForgottenAtEnd DEF Snapshots!Drop, Visible
<1>9. CASE \E answer \in {"error", "rejected", "queued"} : UploadDropped(answer)
  BY <1>8, <1>9 DEF UploadDropped, Finish, Proceed, Snapshots!vars, Visible, Snapshots!Next
<1>10. CASE Dump
  BY <1>8, <1>10 DEF Dump, Finish, Proceed, Snapshots!vars, Visible, Snapshots!Next
<1>11. CASE Commit
  BY <1>11 DEF Commit, Snapshots!vars, Visible
<1>12. CASE \E m \in AccessMode : SaveRemove(m) \/ SaveRename(m)
  BY <1>12 DEF SaveRemove, SaveRename, Snapshots!vars, Visible
<1>13. CASE SaveFails \/ RenameFails \/ Crash \/ \E m \in AccessMode : SaveUnmark(m)
  BY <1>8, <1>13 DEF SaveFails, RenameFails, Crash, SaveUnmark, Snapshots!Next
<1>14. CASE UNCHANGED vars
  BY <1>14 DEF Snapshots!vars, Visible
<1>. QED
  BY <1>15, <1>1, <1>2, <1>3, <1>4, <1>5, <1>6, <1>7, <1>9, <1>10, <1>11,
     <1>12, <1>13, <1>14 DEF Next, Snapshots!Next

(* Refs and removals lose nothing: in every environment in which answers   *)
(* arrive, saves succeed and runs end, each stored payload leaves the      *)
(* backend with the inventory a full report of the scan would have left.   *)
THEOREM DeltaLosesNothing ==
    ASSUME \A e \in Environments : e \subseteq {"optOut", "busy", "lockedDir", "unreadable"}
    PROVE  Spec => DeltaIsCompression
<1>1. SteadyInv /\ [Next]_vars => [Snapshots!Next]_(Snapshots!vars)
  BY InventoryStep DEF SteadyInv, TypeOK, Calm
<1>. QED
  BY <1>1, InitialInventory, SteadyAlways, PTL DEF Spec, DeltaIsCompression, Snapshots!Spec
=============================================================================
