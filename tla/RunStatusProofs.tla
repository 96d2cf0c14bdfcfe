-------------------------- MODULE RunStatusProofs --------------------------
(***************************************************************************)
(* Theorems about RunStatus, for any number of phases and whatever happens *)
(* around a run: what the backend is told is true and told once, and the   *)
(* scan's last snapshot is not left behind.  In the second half, theorems  *)
(* about Deployment, an instance over variables of its own: what is        *)
(* installed is what runs, for any machines, commands and failures.        *)
(***************************************************************************)
EXTENDS RunStatus, TLAPS

USE RunStatusAssumption

-----------------------------------------------------------------------------
(* Every variable keeps its type.  A run that scans has a phase to go.     *)
PhaseInv ==
    /\ pc = "scan" => completed < Phases
    /\ pc \in {"lock", "started"} => completed = 1

Typed == TypeOK /\ PhaseInv

\* The rows the backend may hold of a run.
Rows == [started : BOOLEAN, progress : 0 .. Phases, failed : SUBSET {"main", "handler", "watchdog"}]

LEMMA SnapshotType ==
    ASSUME TypeOK, NEW who \in {"main", "heartbeat"}
    PROVE  Snapshot(who) \in Snapshots
BY DEF TypeOK, Snapshot, Snapshots

LEMMA DeliveredType ==
    ASSUME TypeOK, NEW row, Delivered(row),
           row \in Rows
    PROVE  backend' \in Rows
BY DEF TypeOK, Delivered, Rows

LEMMA PostFailedType ==
    ASSUME TypeOK, NEW who \in {"main", "handler", "watchdog"}, PostFailed(who)
    PROVE  backend' \in Rows
<1>1. [backend EXCEPT !.failed = @ \union {who}] \in Rows
  BY DEF TypeOK, Rows
<1>. QED
  BY <1>1, DeliveredType DEF PostFailed

LEMMA TypedInit == Init => Typed
<1>. SUFFICES ASSUME Init PROVE Typed
  OBVIOUS
<1>1. {cancelled, signal, stopped} \subseteq BOOLEAN /\ err \in BOOLEAN
  BY Zenon DEF Init
<1>2. backend \in Rows
  BY DEF Init, Rows
<1>3. {mine, beatSnap, phaseCh, posting} \subseteq Snapshots \union {Empty}
  BY DEF Init
<1>. QED
  BY <1>1, <1>2, <1>3 DEF Init, Typed, TypeOK, PhaseInv, Rows

LEMMA TypedStep == Typed /\ [Next]_vars => Typed'
<1>. SUFFICES ASSUME Typed, [Next]_vars PROVE Typed'
  OBVIOUS
<1>. USE DEF Typed, PhaseInv, mainVars, beatVars, workerVars, endVars
<1>1. CASE LockRefused
  BY <1>1 DEF TypeOK, LockRefused, ClaimFailure
<1>2. CASE NoIdentity
  BY <1>2 DEF TypeOK, NoIdentity
<1>3. CASE LockTaken
  BY <1>3 DEF TypeOK, LockTaken
<1>4. CASE PostStarted
  <2>1. backend' \in Rows
    BY <1>4, DeliveredType DEF TypeOK, PostStarted, Rows
  <2>. QED
    BY <1>4, <2>1 DEF TypeOK, PostStarted, Rows
<1>5. CASE \E failed \in BOOLEAN : EndPhase(failed)
  BY <1>5 DEF TypeOK, EndPhase
<1>6. CASE Panic
  BY <1>6 DEF TypeOK, Panic
<1>7. CASE TakeSnapshot
  BY <1>7, SnapshotType DEF TypeOK, TakeSnapshot
<1>8. CASE SendSnapshot
  BY <1>8 DEF TypeOK, SendSnapshot
<1>9. CASE CancelRun
  BY <1>9 DEF TypeOK, CancelRun
<1>10. CASE Join
  BY <1>10 DEF TypeOK, Join
<1>11. CASE Recover
  BY <1>11 DEF TypeOK, Recover, ClaimFailure
<1>12. CASE Report
  BY <1>12, PostFailedType DEF TypeOK, Report, Rows
<1>13. CASE ExitMain
  BY <1>13 DEF TypeOK, ExitMain
<1>14. CASE Tick
  BY <1>14, SnapshotType DEF TypeOK, Tick
<1>15. CASE BeatStep
  BY <1>15 DEF TypeOK, BeatStep, SendBeat, StopBeat
<1>16. CASE Take \/ ExitWorker
  BY <1>16 DEF TypeOK, Take, ExitWorker
<1>17. CASE Post
  <2>1. posting.seen \in 0 .. Phases
    BY DEF TypeOK, Snapshots, Empty
  <2>2. backend' \in Rows
    BY <1>17, <2>1, DeliveredType DEF TypeOK, Post, Rows
  <2>. QED
    BY <1>17, <2>2 DEF TypeOK, Post, Rows
<1>18. CASE Signal
  BY <1>18 DEF TypeOK, Signal
<1>19. CASE Catch
  <2>1. {cancelled, signal, stopped}' \subseteq BOOLEAN
    BY <1>19, Zenon DEF TypeOK, Catch
  <2>. QED
    BY <1>19, <2>1 DEF TypeOK, Catch, ClaimFailure
<1>20. CASE ReportSignal
  BY <1>20, PostFailedType DEF TypeOK, ReportSignal, Rows
<1>21. CASE ExitSignal
  BY <1>21 DEF TypeOK, ExitSignal
<1>22. CASE StopHandler
  BY <1>22 DEF TypeOK, StopHandler
<1>23. CASE FireUnix
  <2>1. signal' \in BOOLEAN
    BY <1>23 DEF TypeOK, FireUnix
  <2>. QED
    BY <1>23, <2>1 DEF TypeOK, FireUnix
<1>24. CASE FireWindows
  BY <1>24 DEF TypeOK, FireWindows, ClaimFailure
<1>25. CASE ReportFatal
  BY <1>25, PostFailedType DEF TypeOK, ReportFatal, Rows
<1>26. CASE HardExit
  BY <1>26 DEF TypeOK, HardExit
<1>27. CASE UNCHANGED vars
  BY <1>27 DEF TypeOK, vars
<1>. QED
  BY <1>1, <1>2, <1>3, <1>4, <1>5, <1>6, <1>7, <1>8, <1>9, <1>10, <1>11, <1>12, <1>13, <1>14,
     <1>15, <1>16, <1>17, <1>18, <1>19, <1>20, <1>21, <1>22, <1>23, <1>24, <1>25, <1>26, <1>27
     DEF Next, MainStep, WorkerStep, HandlerStep, WatchdogStep

LEMMA AlwaysTyped == Spec => []Typed
BY TypedInit, TypedStep, PTL DEF Spec

LEMMA PerilsStay == [Next]_vars => perils' = perils
BY DEF Next, MainStep, LockRefused, NoIdentity, LockTaken, PostStarted, EndPhase, Panic, TakeSnapshot,
       SendSnapshot, CancelRun, Join, Recover, Report, ExitMain, Tick, BeatStep, SendBeat, StopBeat,
       WorkerStep, Take, Post, ExitWorker, Signal, HandlerStep, Catch, ReportSignal, ExitSignal,
       StopHandler, WatchdogStep, FireUnix, FireWindows, ReportFatal, HardExit,
       vars, mainVars, beatVars, workerVars, endVars

-----------------------------------------------------------------------------
(* One report of a failure: whoever posts one won the CompareAndSwap.      *)
ClaimInv ==
    /\ backend.failed \subseteq {claimed}
    /\ pc = "report" => claimed = "main"
    /\ handler = "reporting" => claimed = "handler"
    /\ watchdog = "reporting" => claimed = "watchdog"

\* A claim is never given up, and only its holder adds to the reports.
LEMMA PostClaimed ==
    ASSUME Typed, ClaimInv, NEW who \in {"main", "handler", "watchdog"}, claimed = who, PostFailed(who)
    PROVE  backend'.failed \subseteq {claimed}
BY DEF PostFailed, Delivered, ClaimInv, Typed, TypeOK

LEMMA Unclaimed ==
    ASSUME Typed, ClaimInv, claimed = "nobody" PROVE backend.failed = {}
BY DEF ClaimInv, Typed, TypeOK

LEMMA ClaimStep == Typed /\ ClaimInv /\ [Next]_vars => ClaimInv'
<1>. SUFFICES ASSUME Typed, ClaimInv, [Next]_vars PROVE ClaimInv'
  OBVIOUS
<1>. USE DEF ClaimInv, mainVars, beatVars, workerVars, endVars
<1>1. CASE LockRefused
  BY <1>1, Unclaimed DEF LockRefused, ClaimFailure
<1>2. CASE NoIdentity \/ LockTaken \/ Panic \/ TakeSnapshot
  BY <1>2 DEF NoIdentity, LockTaken, Panic, TakeSnapshot
<1>3. CASE PostStarted
  BY <1>3 DEF PostStarted, Delivered, Typed, TypeOK
<1>4. CASE \E failed \in BOOLEAN : EndPhase(failed)
  BY <1>4 DEF EndPhase
<1>5. CASE SendSnapshot \/ CancelRun \/ Join \/ ExitMain
  BY <1>5 DEF SendSnapshot, CancelRun, Join, ExitMain
<1>6. CASE Recover
  BY <1>6, Unclaimed DEF Recover, ClaimFailure
<1>7. CASE Report
  BY <1>7, PostClaimed DEF Report
<1>8. CASE Tick \/ BeatStep \/ Take \/ ExitWorker
  BY <1>8 DEF Tick, BeatStep, SendBeat, StopBeat, Take, ExitWorker
<1>9. CASE Post
  BY <1>9 DEF Post, Delivered, Typed, TypeOK
<1>10. CASE Signal \/ ExitSignal \/ StopHandler
  BY <1>10 DEF Signal, ExitSignal, StopHandler
<1>11. CASE Catch
  BY <1>11, Unclaimed DEF Catch, ClaimFailure
<1>12. CASE ReportSignal
  BY <1>12, PostClaimed DEF ReportSignal
<1>13. CASE FireUnix \/ HardExit
  BY <1>13 DEF FireUnix, HardExit
<1>14. CASE FireWindows
  BY <1>14, Unclaimed DEF FireWindows, ClaimFailure
<1>15. CASE ReportFatal
  BY <1>15, PostClaimed DEF ReportFatal
<1>16. CASE UNCHANGED vars
  BY <1>16 DEF vars
<1>. QED
  BY <1>1, <1>2, <1>3, <1>4, <1>5, <1>6, <1>7, <1>8, <1>9, <1>10, <1>11, <1>12, <1>13, <1>14, <1>15,
     <1>16
     DEF Next, MainStep, BeatStep, WorkerStep, HandlerStep, WatchdogStep

-----------------------------------------------------------------------------
(* The row exists before anything is sent to it: the heartbeat and the     *)
(* first snapshot start after the synchronous "started" post.              *)
RowInv ==
    Reliable =>
        /\ pc \in {"snap", "send", "scan", "cancel", "join"} \/ beat # "none" => backend.started
        /\ phaseCh # Empty \/ posting # Empty \/ backend.progress > 0 => backend.started

LEMMA ReportKeepsRow ==
    ASSUME Typed, NEW who, PostFailed(who)
    PROVE  backend'.started = backend.started /\ backend'.progress = backend.progress
BY DEF PostFailed, Delivered, Typed, TypeOK

LEMMA PostKeepsRow ==
    ASSUME Typed, Post
    PROVE  /\ backend'.started = backend.started /\ backend'.failed = backend.failed
           /\ backend'.progress \in {posting.seen, backend.progress}
           /\ Reliable => backend'.progress = posting.seen
BY DEF Post, Delivered, Typed, TypeOK

LEMMA RowStep == Typed /\ RowInv /\ [Next]_vars => RowInv'
<1>. SUFFICES ASSUME Typed, RowInv, [Next]_vars PROVE RowInv'
  OBVIOUS
<1>. USE DEF RowInv, mainVars, beatVars, workerVars, endVars, Reliable
<1>1. CASE LockRefused \/ NoIdentity \/ LockTaken \/ Recover \/ ExitMain
  BY <1>1 DEF LockRefused, NoIdentity, LockTaken, Recover, ExitMain, ClaimFailure
<1>2. CASE PostStarted
  BY <1>2 DEF PostStarted, Delivered, Typed, TypeOK
<1>3. CASE (\E failed \in BOOLEAN : EndPhase(failed)) \/ Panic \/ TakeSnapshot
  BY <1>3 DEF EndPhase, Panic, TakeSnapshot
<1>4. CASE SendSnapshot \/ CancelRun \/ Join
  BY <1>4 DEF SendSnapshot, CancelRun, Join
<1>5. CASE Report
  BY <1>5, ReportKeepsRow DEF Report
<1>6. CASE Tick \/ BeatStep
  BY <1>6 DEF Tick, BeatStep, SendBeat, StopBeat
<1>7. CASE Take \/ ExitWorker
  BY <1>7 DEF Take, ExitWorker
<1>8. CASE Post
  BY <1>8, PostKeepsRow DEF Post, Empty
<1>9. CASE Signal \/ Catch \/ ExitSignal \/ StopHandler
  BY <1>9 DEF Signal, Catch, ExitSignal, StopHandler, ClaimFailure
<1>10. CASE ReportSignal
  BY <1>10, ReportKeepsRow DEF ReportSignal
<1>11. CASE FireUnix \/ FireWindows \/ HardExit
  BY <1>11 DEF FireUnix, FireWindows, HardExit, ClaimFailure
<1>12. CASE ReportFatal
  BY <1>12, ReportKeepsRow DEF ReportFatal
<1>13. CASE UNCHANGED vars
  BY <1>13 DEF vars
<1>. QED
  BY <1>1, <1>2, <1>3, <1>4, <1>5, <1>6, <1>7, <1>8, <1>9, <1>10, <1>11, <1>12, <1>13
     DEF Next, MainStep, BeatStep, WorkerStep, HandlerStep, WatchdogStep

-----------------------------------------------------------------------------
(* Where nothing interferes, the main goroutine alone claims the failure,  *)
(* and a run that returns an error has posted it before.                   *)
ErrorInv ==
    perils \subseteq {"ticks"} =>
        /\ ~signal /\ handler \in {"waiting", "stopped"} /\ watchdog = "off"
        /\ claimed \in {"nobody", "main"}
        /\ claimed = "main" => pc = "report" \/ (pc \in {"recover", "returned"} /\ backend.failed # {})
        /\ pc = "returned" /\ err => claimed = "main"
        /\ exited = "error" => pc = "returned" /\ err

LEMMA ErrorStep == Typed /\ ClaimInv /\ ErrorInv /\ [Next]_vars => ErrorInv'
<1>. SUFFICES ASSUME Typed, ClaimInv, ErrorInv, [Next]_vars PROVE ErrorInv'
  OBVIOUS
<1>. USE DEF ErrorInv, mainVars, beatVars, workerVars, endVars
<1>1. CASE LockRefused
  BY <1>1 DEF LockRefused, ClaimFailure
<1>2. CASE NoIdentity \/ LockTaken
  BY <1>2 DEF NoIdentity, LockTaken
<1>3. CASE PostStarted
  BY <1>3 DEF PostStarted
<1>4. CASE (\E failed \in BOOLEAN : EndPhase(failed)) \/ Panic \/ TakeSnapshot
  BY <1>4 DEF EndPhase, Panic, TakeSnapshot
<1>5. CASE SendSnapshot \/ CancelRun \/ Join
  BY <1>5 DEF SendSnapshot, CancelRun, Join
<1>6. CASE Recover
  BY <1>6 DEF Recover, ClaimFailure
<1>7. CASE Report
  <2>1. perils \subseteq {"ticks"} => backend'.failed # {}
    BY <1>7 DEF Report, PostFailed, Delivered, Reliable, Typed, TypeOK
  <2>. QED
    BY <1>7, <2>1 DEF Report, ClaimInv
<1>8. CASE ExitMain
  BY <1>8 DEF ExitMain
<1>9. CASE Tick \/ BeatStep \/ Take \/ ExitWorker
  BY <1>9 DEF Tick, BeatStep, SendBeat, StopBeat, Take, ExitWorker
<1>10. CASE Post
  BY <1>10, PostKeepsRow DEF Post
<1>11. CASE Signal \/ Catch \/ ReportSignal \/ ExitSignal
  BY <1>11 DEF Signal, Catch, ReportSignal, ExitSignal
<1>12. CASE StopHandler
  BY <1>12 DEF StopHandler
<1>13. CASE FireUnix \/ FireWindows \/ ReportFatal \/ HardExit
  BY <1>13 DEF FireUnix, FireWindows, ReportFatal, HardExit
<1>14. CASE UNCHANGED vars
  BY <1>14 DEF vars
<1>. QED
  BY <1>1, <1>2, <1>3, <1>4, <1>5, <1>6, <1>7, <1>8, <1>9, <1>10, <1>11, <1>12, <1>13, <1>14
     DEF Next, MainStep, BeatStep, WorkerStep, HandlerStep, WatchdogStep

\* The reports of a run are true and told once: by one reporter, of a row that
\* exists, and never nothing of a failure that nobody interrupted
\* (reportFailedOnce, telemetry.go:256-264, 386-405, 572-581).
THEOREM ReportsAreTrue == Spec => []ReportsHold
<1>. DEFINE Inv == Typed /\ ClaimInv /\ RowInv /\ ErrorInv
<1>1. Init => Inv
  <2>1. Init => ClaimInv /\ RowInv
    BY DEF Init, ClaimInv, RowInv, Empty
  <2>2. Init => ErrorInv
    BY DEF Init, ErrorInv, Watched
  <2>. QED
    BY <2>1, <2>2, TypedInit
<1>2. Inv /\ [Next]_vars => Inv'
  BY TypedStep, ClaimStep, RowStep, ErrorStep
<1>3. Inv => ReportsHold
  BY DEF ReportsHold, Typed, ClaimInv, RowInv, ErrorInv, FailedOnce, ProgressAfterStarted, ErrorReported
<1>. QED
  BY <1>1, <1>2, <1>3, PTL DEF Spec

-----------------------------------------------------------------------------
(* Nothing of the scan is left behind: by the time the worker may leave,   *)
(* the main goroutine has cancelled the context and sends no more.         *)
LeaveInv ==
    /\ cancelled => pc \in {"join", "recover", "report", "returned"}
    /\ worker = "exited" => cancelled /\ phaseCh.from # "main"
    /\ pc # "send" => mine = Empty
    /\ beatSnap.from # "main"

LEMMA LeaveStep == Typed /\ LeaveInv /\ [Next]_vars => LeaveInv'
<1>. SUFFICES ASSUME Typed, LeaveInv, [Next]_vars PROVE LeaveInv'
  OBVIOUS
<1>. USE DEF LeaveInv, mainVars, beatVars, workerVars, endVars
<1>1. CASE LockRefused \/ NoIdentity \/ LockTaken
  BY <1>1 DEF LockRefused, NoIdentity, LockTaken, ClaimFailure
<1>2. CASE PostStarted \/ (\E failed \in BOOLEAN : EndPhase(failed)) \/ Panic \/ TakeSnapshot
  BY <1>2 DEF PostStarted, EndPhase, Panic, TakeSnapshot
<1>3. CASE SendSnapshot \/ CancelRun \/ Join
  BY <1>3 DEF SendSnapshot, CancelRun, Join
<1>4. CASE Recover \/ Report \/ ExitMain
  BY <1>4 DEF Recover, Report, ExitMain, ClaimFailure
<1>5. CASE Tick
  BY <1>5 DEF Tick, Snapshot
<1>6. CASE BeatStep
  BY <1>6 DEF BeatStep, SendBeat, StopBeat, Empty
<1>7. CASE Take \/ Post \/ ExitWorker
  BY <1>7 DEF Take, Post, ExitWorker, Empty
<1>8. CASE Signal \/ HandlerStep
  BY <1>8 DEF Signal, HandlerStep, Catch, ReportSignal, ExitSignal, StopHandler
<1>9. CASE WatchdogStep
  BY <1>9 DEF WatchdogStep, FireUnix, FireWindows, ReportFatal, HardExit
<1>10. CASE UNCHANGED vars
  BY <1>10 DEF vars
<1>. QED
  BY <1>1, <1>2, <1>3, <1>4, <1>5, <1>6, <1>7, <1>8, <1>9, <1>10
     DEF Next, MainStep, WorkerStep

\* Where the last snapshot of a run without a heartbeat is: about to be taken,
\* with the main goroutine, queued, with the worker, or at the backend.
Underway == pc \notin {"lock", "started", "scan", "snap", "send"}
LastIs ==
    \/ pc = "snap"
    \/ pc = "send" /\ mine.seen = Phases
    \/ Underway /\ phaseCh.seen = Phases
    \/ Underway /\ phaseCh = Empty /\ posting.seen = Phases
    \/ Underway /\ phaseCh = Empty /\ posting = Empty /\ backend.progress = Phases

LastInv ==
    /\ worker = "posting" <=> posting # Empty
    /\ "ticks" \notin perils => beat # "send" /\ (worker = "exited" => phaseCh = Empty)
    /\ completed = Phases /\ pc \in {"recover", "report", "returned"} => worker = "exited"
    /\ exited \in {"ok", "error"} => pc = "returned"
    /\ "ticks" \notin perils /\ Reliable /\ completed = Phases => LastIs

LEMMA LastStep == Typed /\ LeaveInv /\ LastInv /\ [Next]_vars => LastInv'
<1>. SUFFICES ASSUME Typed, LeaveInv, LastInv, [Next]_vars PROVE LastInv'
  OBVIOUS
<1>. USE DEF LeaveInv, LastInv, mainVars, beatVars, workerVars, endVars, Reliable, Typed, TypeOK, PhaseInv
<1>1. CASE LockRefused \/ NoIdentity \/ LockTaken
  BY <1>1 DEF LockRefused, NoIdentity, LockTaken, ClaimFailure, Alive, LastIs, Underway
<1>2. CASE PostStarted
  BY <1>2 DEF PostStarted, Alive, LastIs
<1>3. CASE \E failed \in BOOLEAN : EndPhase(failed)
  BY <1>3 DEF EndPhase, Alive, LastIs
<1>4. CASE Panic
  BY <1>4 DEF Panic, Alive
<1>5. CASE TakeSnapshot
  BY <1>5 DEF TakeSnapshot, Snapshot, Alive, LastIs, Underway
<1>6. CASE SendSnapshot
  <2>1. worker # "exited"
    BY <1>6 DEF SendSnapshot
  <2>. QED
    BY <1>6, <2>1 DEF SendSnapshot, Alive, LastIs, Underway
<1>7. CASE CancelRun
  BY <1>7 DEF CancelRun, Alive, LastIs, Underway
<1>8. CASE Join
  BY <1>8 DEF Join, Alive, LastIs, Underway
<1>9. CASE Recover
  BY <1>9 DEF Recover, ClaimFailure, Alive, LastIs, Underway
<1>10. CASE Report
  BY <1>10, ReportKeepsRow DEF Report, Alive, LastIs, Underway
<1>11. CASE ExitMain
  BY <1>11 DEF ExitMain, LastIs, Underway
<1>12. CASE Tick \/ BeatStep
  BY <1>12 DEF Tick, BeatStep, SendBeat, StopBeat, Alive, LastIs, Underway
<1>13. CASE Take
  BY <1>13 DEF Take, Alive, LastIs, Underway, Empty
<1>14. CASE Post
  BY <1>14, PostKeepsRow DEF Post, Alive, LastIs, Underway, Empty
<1>15. CASE ExitWorker
  BY <1>15 DEF ExitWorker, Alive, LastIs, Underway
<1>16. CASE Signal \/ Catch \/ StopHandler
  BY <1>16 DEF Signal, Catch, StopHandler, Alive, LastIs, Underway
<1>17. CASE ReportSignal
  BY <1>17, ReportKeepsRow DEF ReportSignal, Alive, LastIs, Underway
<1>18. CASE ExitSignal
  BY <1>18 DEF ExitSignal, LastIs, Underway
<1>19. CASE FireUnix \/ FireWindows
  BY <1>19 DEF FireUnix, FireWindows, Alive, LastIs, Underway
<1>20. CASE ReportFatal
  BY <1>20, ReportKeepsRow DEF ReportFatal, Alive, LastIs, Underway
<1>21. CASE HardExit
  BY <1>21 DEF HardExit, LastIs, Underway
<1>22. CASE UNCHANGED vars
  BY <1>22 DEF vars, LastIs, Underway
<1>. QED
  BY <1>1, <1>2, <1>3, <1>4, <1>5, <1>6, <1>7, <1>8, <1>9, <1>10, <1>11, <1>12, <1>13, <1>14, <1>15,
     <1>16, <1>17, <1>18, <1>19, <1>20, <1>21, <1>22
     DEF Next, MainStep, BeatStep, WorkerStep, HandlerStep, WatchdogStep

\* No snapshot of the scan stays in the channel when the worker leaves, and a
\* run that gets past its upload and is too short for a heartbeat leaves the
\* final one at the backend (telemetry.go:305-322, 1402-1411).
THEOREM NothingIsLeftBehind == Spec => []NothingLeftBehind
<1>. DEFINE Inv == Typed /\ LeaveInv /\ LastInv
<1>1. Init => Inv
  BY TypedInit DEF Init, LeaveInv, LastInv, Empty
<1>2. Inv /\ [Next]_vars => Inv'
  BY TypedStep, LeaveStep, LastStep
<1>3. Inv => NothingLeftBehind
  <2>. SUFFICES ASSUME Inv PROVE DrainedBeforeExit /\ FinalLands
    BY DEF NothingLeftBehind
  <2>1. DrainedBeforeExit
    BY DEF DrainedBeforeExit, LeaveInv
  <2>2. FinalLands
    BY DEF FinalLands, LastInv, LastIs, Empty, Typed, TypeOK
  <2>. QED
    BY <2>1, <2>2
<1>. QED
  BY <1>1, <1>2, <1>3, PTL DEF Spec

-----------------------------------------------------------------------------
(* Without a heartbeat, what is further on its way is never newer than     *)
(* what follows it.                                                        *)
OrderInv ==
    "ticks" \notin perils =>
        /\ backend.progress <= completed
        /\ mine # Empty => /\ backend.progress <= mine.seen /\ posting.seen <= mine.seen
                           /\ phaseCh.seen <= mine.seen /\ mine.seen <= completed
        /\ phaseCh # Empty => /\ backend.progress <= phaseCh.seen /\ posting.seen <= phaseCh.seen
                              /\ phaseCh.seen <= completed
        /\ posting # Empty => backend.progress <= posting.seen /\ posting.seen <= completed

\* What a snapshot tells is a number of phases; an empty slot tells none.
LEMMA SeenType ==
    ASSUME Typed, NEW s \in {mine, beatSnap, phaseCh, posting}
    PROVE  s.seen \in Nat /\ (s = Empty => s.seen = 0)
BY DEF Typed, TypeOK, Snapshots, Empty

LEMMA ProgressType == ASSUME Typed PROVE backend.progress \in Nat /\ completed \in Nat
BY DEF Typed, TypeOK

LEMMA OrderStep == Typed /\ LeaveInv /\ LastInv /\ OrderInv /\ [Next]_vars => OrderInv'
<1>. SUFFICES ASSUME Typed, LeaveInv, LastInv, OrderInv, [Next]_vars PROVE OrderInv'
  OBVIOUS
<1>. USE DEF OrderInv, mainVars, beatVars, workerVars, endVars
<1>1. CASE LockRefused \/ NoIdentity \/ LockTaken
  BY <1>1 DEF LockRefused, NoIdentity, LockTaken
<1>2. CASE PostStarted
  BY <1>2 DEF PostStarted, Delivered, Typed, TypeOK
<1>3. CASE \E failed \in BOOLEAN : EndPhase(failed)
  BY <1>3, SeenType, ProgressType DEF EndPhase
<1>4. CASE Panic \/ CancelRun \/ Join
  BY <1>4 DEF Panic, CancelRun, Join
<1>5. CASE TakeSnapshot
  BY <1>5, SeenType, ProgressType DEF TakeSnapshot, Snapshot, Typed, TypeOK
<1>6. CASE SendSnapshot
  BY <1>6, SeenType DEF SendSnapshot
<1>7. CASE Recover \/ ExitMain
  BY <1>7 DEF Recover, ExitMain
<1>8. CASE Report
  BY <1>8, ReportKeepsRow DEF Report
<1>9. CASE Tick \/ BeatStep
  BY <1>9 DEF Tick, BeatStep, SendBeat, StopBeat, LastInv
<1>10. CASE Take
  BY <1>10, SeenType, ProgressType DEF Take, Empty
<1>11. CASE Post
  <2>. SUFFICES ASSUME "ticks" \notin perils PROVE OrderInv'
    BY <1>11 DEF Post
  <2>1. backend.progress <= posting.seen /\ posting.seen <= completed /\ posting'.seen = 0
    BY <1>11 DEF Post, LastInv, Empty
  <2>2. backend'.progress <= posting.seen
    BY <2>1, <1>11, PostKeepsRow, SeenType, ProgressType
  <2>3. backend'.progress \in Nat
    BY <1>11, PostKeepsRow, SeenType, ProgressType
  <2>. QED
    BY <1>11, <2>1, <2>2, <2>3, SeenType, ProgressType DEF Post
<1>12. CASE ExitWorker
  BY <1>12 DEF ExitWorker
<1>13. CASE Signal \/ Catch \/ ExitSignal \/ StopHandler
  BY <1>13 DEF Signal, Catch, ExitSignal, StopHandler
<1>14. CASE ReportSignal
  BY <1>14, ReportKeepsRow DEF ReportSignal
<1>15. CASE FireUnix \/ FireWindows \/ HardExit
  BY <1>15 DEF FireUnix, FireWindows, HardExit
<1>16. CASE ReportFatal
  BY <1>16, ReportKeepsRow DEF ReportFatal
<1>17. CASE UNCHANGED vars
  BY <1>17 DEF vars
<1>. QED
  BY <1>1, <1>2, <1>3, <1>4, <1>5, <1>6, <1>7, <1>8, <1>9, <1>10, <1>11, <1>12, <1>13, <1>14, <1>15,
     <1>16, <1>17
     DEF Next, MainStep, BeatStep, WorkerStep, HandlerStep, WatchdogStep

\* A run too short for a heartbeat never shows the backend an older snapshot
\* after a newer one (the one-slot channel and its single worker,
\* telemetry.go:268-276); with a heartbeat it may, as the run
\* status_tick_race shows.
THEOREM ProgressIsMonotonic == Spec => ProgressNeverRegresses
<1>. DEFINE Inv == Typed /\ LeaveInv /\ LastInv /\ OrderInv
<1>1. Init => Inv
  BY TypedInit DEF Init, LeaveInv, LastInv, OrderInv, Empty
<1>2. Inv /\ [Next]_vars => Inv'
  BY TypedStep, LeaveStep, LastStep, OrderStep
<1>3. Inv /\ [Next]_vars => backend'.progress >= backend.progress \/ "ticks" \in perils
  <2>. SUFFICES ASSUME Inv, [Next]_vars, "ticks" \notin perils
                PROVE  backend'.progress >= backend.progress
    OBVIOUS
  <2>1. CASE Post
    BY <2>1, PostKeepsRow, SeenType, ProgressType DEF Post, LastInv, OrderInv
  <2>2. CASE PostStarted
    BY <2>2, ProgressType DEF PostStarted, Delivered, Typed, TypeOK
  <2>3. CASE Report \/ ReportSignal \/ ReportFatal
    BY <2>3, ReportKeepsRow, ProgressType DEF Report, ReportSignal, ReportFatal
  <2>4. CASE UNCHANGED backend
    BY <2>4, ProgressType
  <2>. QED
    BY <2>1, <2>2, <2>3, <2>4
       DEF Next, MainStep, LockRefused, NoIdentity, LockTaken, EndPhase, Panic, TakeSnapshot, SendSnapshot,
           CancelRun, Join, Recover, ExitMain, Tick, BeatStep, SendBeat, StopBeat, WorkerStep, Take,
           ExitWorker, Signal, HandlerStep, Catch, ExitSignal, StopHandler, WatchdogStep, FireUnix,
           FireWindows, HardExit, vars
<1>. HIDE DEF Inv
<1>. QED
  BY <1>1, <1>2, <1>3, PTL DEF Spec, ProgressNeverRegresses

-----------------------------------------------------------------------------
(* The commands that put the agent on a machine (Deployment), for every    *)
(* set of machines and any number of commands, failing calls and restarts. *)
CONSTANTS Machines, MaxCommands, MaxFaults, MaxTurns, Hours
VARIABLES box, os, conf, asked, job, lock, last, calls, faults, turns, tidy
Deploy == INSTANCE Deployment

HIDE RunStatusAssumption

(* Which step belongs to which command.                                    *)
Removing == {"query", "remove", "await", "stop", "unlink"}
Placing == {"write", "fill", "load", "tune", "logon"}
After == {"persist", "save", "inplace", "trigger", "start", "gate", "scan", "scanning", "package", "verdict", "hooks", "ide"}
Running == {"gate", "scan", "scanning", "package", "verdict", "hooks", "ide"}
Scanned == {"start", "package", "verdict", "hooks", "ide"}
Timed == {"package", "verdict", "hooks", "ide"}
Places == {"idle", "enterprise"} \cup Removing \cup Placing \cup After

Configs == [there : BOOLEAN, torn : BOOLEAN, creds : 0 .. 2, limit : Nat \cup {-2}]
Policies == {"package", "hooks", "ide"}
Given == {"none", "install", "uninstall", "scan", "send-telemetry"}
Jobs == [pc : Places, cmd : Given, new : Nat, tries : Nat, seen : Configs, by : {"none", "scheduler"},
         telemetry : {"none", "ok", "failed"}, did : SUBSET Policies, busy : BOOLEAN, warned : BOOLEAN,
         recorded : BOOLEAN]
Endings == [cmd : Given, new : Nat, code : {0, 1}, killed : BOOLEAN, telemetry : {"none", "ok", "failed"},
            did : SUBSET Policies, busy : BOOLEAN, warned : BOOLEAN, recorded : BOOLEAN]
Versions == Nat \cup {Deploy!Torn}
Stores == [plist : Versions, job : Nat, dying : BOOLEAN, service : Versions, timer : Versions, enabled : BOOLEAN,
           active : Nat, hourly : Nat, limit : Nat, logon : Nat]
Sorted ==
    /\ box \in Machines /\ os \in Stores /\ conf \in [Deploy!Dirs -> Configs]
    /\ asked \in [open : BOOLEAN, file : Configs]
    /\ job \in [Deploy!Processes -> Jobs] /\ last \in [Deploy!Processes -> Endings]
    /\ lock \in Deploy!Processes \cup {"free"}
    /\ calls \in 0 .. MaxCommands /\ faults \in Nat /\ turns \in Nat

Own == job["command"]
InOrder(p, j) ==
    /\ j.pc = "idle" => j.cmd = "none" /\ j.new = 0 /\ j.telemetry = "none"
    /\ j.pc # "idle" =>
          \/ p = "cycle" /\ j.cmd = "send-telemetry" /\ j.by = "scheduler" /\ j.pc \in Running \cup {"enterprise"}
          \/ p = "command" /\ j.cmd = "install" /\ j.new > 0 /\ j.pc \in Removing \cup Placing \cup After
          \/ p = "command" /\ j.cmd = "uninstall" /\ j.pc \in Removing
          \/ p = "command" /\ j.cmd = "scan" /\ j.pc \in {"gate", "scan", "scanning", "package", "verdict"}
    /\ j.telemetry # "none" => j.pc \in Scanned
Ordered == \A p \in Deploy!Processes : InOrder(p, job[p])

(* What a run has done by the time it is where it is.                      *)
For(steps) == IF box.target THEN steps ELSE {}
Done(j) == j.cmd \in {"send-telemetry", "scan"} =>
    /\ j.pc \notin Timed => j.did = {}
    /\ j.pc \in Timed => j.telemetry # "none"
    /\ j.pc = "package" => j.did = {}
    /\ j.pc = "verdict" => j.did = For({"package"})
    /\ j.pc = "hooks" => j.telemetry = "ok" /\ j.did = For({"package"})
    /\ j.pc = "ide" => j.telemetry = "ok" /\ j.did = For({"package"}) \cup {"hooks"}
Doing == \A p \in Deploy!Processes : Done(job[p])

(* What the scheduler holds while an install goes on, and afterwards.      *)
Held(n, warned) ==
    /\ box.os = "darwin" => os.plist = n /\ os.job = n /\ ~os.dying
    /\ box.os = "linux" => os.enabled /\ os.timer = n /\ (warned \/ os.active = n)
    /\ box.os = "windows" => os.hourly = n
Standing(l) == l.cmd = "install" /\ ~l.killed /\ (l.code = 0 \/ l.telemetry = "failed")
Holding ==
    /\ (os.dying => os.job # 0) /\ (Own.pc = "trigger" => box.os = "windows")
    /\ Own.cmd = "install" =>
          /\ box.os = "darwin" /\ Own.pc = "load" => os.plist = Own.new
          /\ box.os = "darwin" /\ Own.pc \in After => Held(Own.new, FALSE)
          /\ box.os = "linux" /\ Own.pc = "load" => os.timer = Own.new
          /\ box.os = "linux" /\ Own.pc \in After => os.timer = Own.new /\ os.enabled
          /\ box.os = "linux" /\ Own.pc \in Timed => Held(Own.new, Own.warned)
          /\ box.os = "windows" /\ Own.pc \in {"tune", "logon"} \cup After => Held(Own.new, FALSE)
    /\ Own.pc = "idle" /\ Standing(last["command"]) =>
          last["command"].new > 0 /\ Held(last["command"].new, last["command"].warned)

(* Only the process at its scan holds the lock.                            *)
Locked == \A p \in Deploy!Processes : lock = p => job[p].pc = "scanning"

(* What is left after commands in which nothing failed.                    *)
Bare(o) ==
    /\ o.plist = 0 /\ o.job = 0 /\ ~o.dying /\ o.service = 0 /\ o.timer = 0 /\ ~o.enabled /\ o.active = 0
    /\ o.hourly = 0 /\ o.limit = 0 /\ o.logon = 0
Settled ==
    /\ box.os = "darwin" => os.plist > 0 /\ os.job > 0 /\ ~os.dying
    /\ box.os = "linux" => os.enabled /\ os.timer > 0 /\ os.active > 0
    /\ box.os = "windows" => os.hourly > 0
Clean ==
    /\ box.os # "darwin" => os.plist = 0 /\ os.job = 0 /\ ~os.dying
    /\ box.os # "linux" => os.service = 0 /\ os.timer = 0 /\ ~os.enabled /\ os.active = 0
    /\ box.os # "windows" => os.hourly = 0 /\ os.limit = 0 /\ os.logon = 0
    /\ tidy /\ Own.cmd \notin {"install", "uninstall"} => Bare(os) \/ Settled
    /\ tidy /\ Own.cmd = "uninstall" /\ Own.pc = "query" => Bare(os) \/ Settled
    /\ tidy /\ Own.cmd \in {"install", "uninstall"} =>
          /\ box.os = "darwin" /\ Own.pc = "unlink" => os.job = 0
          /\ box.os = "linux" /\ Own.pc \in {"stop", "unlink"} => ~os.enabled /\ os.active = 0
          /\ box.os = "windows" /\ Own.pc = "unlink" => os.hourly = 0 /\ os.limit = 0
          /\ ~Own.warned
    /\ tidy /\ Deploy!Finished("uninstall", 0) => Bare(os)

(* No run is of the version that is being installed before its timer is    *)
(* started.                                                                *)
Used == MaxCommands - calls
Fresh ==
    /\ os.timer <= Used /\ os.active <= Used /\ os.plist <= Used /\ os.job <= Used /\ os.hourly <= Used /\ os.logon <= Used
    /\ \A p \in Deploy!Processes : job[p].new <= Used
    /\ box.os = "linux" /\ Own.cmd = "install" =>
          /\ Own.pc \notin {"start"} \cup Timed => os.active < Own.new /\ job["cycle"].new < Own.new
          /\ ~Own.busy
    /\ box.os = "linux" /\ last["command"].cmd = "install" => ~last["command"].busy

(* The limits: what Task Scheduler got, and what is in the configuration.  *)
Limit == IF box.env = 0 THEN 240 ELSE box.env
Limits == {0, box.env}
Recorded == \/ box.env = 0
            \/ Deploy!readConfigDir(conf, "user") = Deploy!writeConfigDir(box.who) => Deploy!Load("user").limit = box.env
Limited ==
    /\ \A d \in Deploy!Dirs : conf[d].limit \in Limits
    /\ asked.file.limit \in Limits /\ \A p \in Deploy!Processes : job[p].seen.limit \in Limits
    /\ box.os = "windows" /\ tidy /\ Own.cmd = "install" /\ Own.pc \in {"logon"} \cup After =>
          os.limit = Deploy!executionTimeLimit(Limit)
    /\ Own.recorded => Own.pc \in Running \cup {"trigger", "start"} /\ (box.os = "windows" => Recorded)
    /\ box.os = "windows" /\ tidy /\ Deploy!Finished("install", 0) =>
          /\ os.limit = Deploy!executionTimeLimit(Limit)
          /\ last["command"].recorded => Recorded

DeployInv == Sorted /\ Ordered /\ Doing /\ Deploy!RunsAreWhole /\ Holding /\ Locked /\ Clean /\ Fresh /\ Limited

-----------------------------------------------------------------------------
LEMMA FileType ==
    ASSUME NEW f \in Configs, NEW c \in 0 .. 2, NEW v \in Nat \cup {-2}, NEW a \in BOOLEAN, NEW b \in BOOLEAN
    PROVE  /\ [f EXCEPT !.there = a, !.torn = b] \in Configs
           /\ [f EXCEPT !.creds = c] \in Configs
           /\ [f EXCEPT !.limit = v] \in Configs
           /\ [f EXCEPT !.there = a, !.creds = c] \in Configs
BY DEF Configs

LEMMA DeployInit == ASSUME Deploy!DeploymentAssumption, Deploy!Init PROVE DeployInv
<1>1. box.env \in Nat \cup {-2} /\ box.who \in {"user", "admin", "system"} /\ box.os \in {"darwin", "linux", "windows"}
  BY DEF Deploy!Init, Deploy!DeploymentAssumption, Deploy!Off
<1>2. Deploy!NoFile \in Configs /\ [Deploy!NoFile EXCEPT !.there = TRUE, !.creds = 1] \in Configs
  <2>1. Deploy!NoFile \in Configs
    BY DEF Deploy!NoFile, Configs
  <2>2. 1 \in 0 .. 2 /\ TRUE \in BOOLEAN
    OBVIOUS
  <2> QED BY <2>1, <2>2, FileType, Zenon
<1>3. conf \in [Deploy!Dirs -> Configs]
  <2>1. PICK at \in Deploy!Dirs \cup {"user"} :
            conf = [d \in Deploy!Dirs |-> IF d = at THEN [Deploy!NoFile EXCEPT !.there = TRUE, !.creds = 1] ELSE Deploy!NoFile]
    BY DEF Deploy!Init
  <2> QED BY <1>2, <2>1
<1>4. Deploy!Rest \in Jobs
  BY <1>2 DEF Deploy!Rest, Jobs, Given, Policies, Places
<1>5. Deploy!Unended \in Endings /\ Deploy!Nothing \in Stores
  BY DEF Deploy!Unended, Deploy!Nothing, Endings, Stores, Versions, Given, Policies
<1>6. Sorted
  <2>1. asked \in [open : BOOLEAN, file : Configs]
    BY <1>2 DEF Deploy!Init, Deploy!Unasked
  <2>2. job \in [Deploy!Processes -> Jobs] /\ last \in [Deploy!Processes -> Endings] /\ os \in Stores /\ lock = "free"
    BY <1>4, <1>5 DEF Deploy!Init
  <2>3. calls \in 0 .. MaxCommands /\ faults \in Nat /\ turns \in Nat /\ box \in Machines
    BY DEF Deploy!Init, Deploy!DeploymentAssumption
  <2> QED BY <1>3, <2>1, <2>2, <2>3 DEF Sorted
<1>7. /\ job = [p \in Deploy!Processes |-> Deploy!Rest] /\ last = [p \in Deploy!Processes |-> Deploy!Unended]
      /\ os = Deploy!Nothing /\ tidy = FALSE
  BY DEF Deploy!Init
<1>8. Ordered /\ Doing /\ Holding
  BY <1>7 DEF Ordered, Doing, InOrder, Done, Holding, Deploy!Rest, Deploy!Unended, Deploy!Nothing, Own, Timed, Standing, Deploy!Processes
<1>13. Locked
  BY DEF Deploy!Init, Locked, Deploy!Processes
<1>9. Clean
  BY <1>7 DEF Clean, Bare, Deploy!Rest, Deploy!Unended, Deploy!Nothing, Own, Deploy!Processes, Deploy!Finished
<1>11. Limited
  <2>1. Deploy!NoFile.limit \in Limits /\ [Deploy!NoFile EXCEPT !.there = TRUE, !.creds = 1].limit \in Limits
    BY DEF Deploy!NoFile, Limits
  <2>2. \A d \in Deploy!Dirs : conf[d].limit \in Limits
    BY <2>1 DEF Deploy!Init
  <2>3. asked.file.limit \in Limits
    BY <2>1 DEF Deploy!Init, Deploy!Unasked
  <2> QED BY <1>7, <2>1, <2>2, <2>3 DEF Limited, Deploy!Rest, Deploy!Unended, Own, Deploy!Processes, Deploy!Finished
<1>10. Fresh
  <2>1. calls = MaxCommands /\ MaxCommands \in Nat
    BY DEF Deploy!Init, Deploy!DeploymentAssumption
  <2> QED BY <1>7, <2>1 DEF Fresh, Used, Deploy!Rest, Deploy!Unended, Deploy!Nothing, Own, Deploy!Processes
<1>12. Deploy!RunsAreWhole
  BY <1>7 DEF Deploy!RunsAreWhole, Deploy!Unended
<1> QED BY <1>6, <1>8, <1>9, <1>10, <1>11, <1>12, <1>13 DEF DeployInv

LEMMA RestType == Deploy!Rest \in Jobs /\ Deploy!NoFile \in Configs
<1>1. Deploy!NoFile \in Configs
  BY DEF Deploy!NoFile, Configs
<1> QED BY <1>1 DEF Deploy!Rest, Jobs, Given, Policies, Places

Jobbing == job \in [Deploy!Processes -> Jobs] /\ last \in [Deploy!Processes -> Endings]
LEMMA SetType ==
    ASSUME Jobbing, NEW p \in Deploy!Processes, NEW j \in Jobs, job' = [job EXCEPT ![p] = j]
    PROVE  job' \in [Deploy!Processes -> Jobs]
BY DEF Jobbing

LEMMA GoType ==
    ASSUME Jobbing, NEW p \in Deploy!Processes, NEW l \in Places, Deploy!Go(p, l)
    PROVE  job' \in [Deploy!Processes -> Jobs]
BY DEF Deploy!Go, Jobs, Jobbing

LEMMA EndedType ==
    ASSUME Jobbing, NEW p \in Deploy!Processes, NEW code \in {0, 1}, NEW j \in Jobs, Deploy!Ended(p, code, j)
    PROVE  job' \in [Deploy!Processes -> Jobs] /\ last' \in [Deploy!Processes -> Endings]
BY RestType DEF Deploy!Ended, Jobs, Endings, Jobbing

LEMMA ExitType ==
    ASSUME Jobbing, NEW p \in Deploy!Processes, NEW code \in {0, 1}, Deploy!Exit(p, code)
    PROVE  job' \in [Deploy!Processes -> Jobs] /\ last' \in [Deploy!Processes -> Endings]
BY EndedType DEF Deploy!Exit, Jobbing

LEMMA RemovedType ==
    ASSUME Jobbing, Deploy!Removed
    PROVE  job' \in [Deploy!Processes -> Jobs] /\ last' \in [Deploy!Processes -> Endings]
<1>1. "write" \in Places /\ "command" \in Deploy!Processes
  BY DEF Places, Placing, Deploy!Processes
<1> QED BY <1>1, ExitType, GoType DEF Deploy!Removed, Jobbing

LEMMA StartedType ==
    ASSUME NEW j \in [Deploy!Processes -> Jobs], NEW v \in Nat
    PROVE  Deploy!Started(j, v) \in [Deploy!Processes -> Jobs]
<1>1. "enterprise" \in Places /\ "send-telemetry" \in Given
  BY DEF Places, Given
<1>2. [Deploy!Rest EXCEPT !.pc = "enterprise", !.cmd = "send-telemetry", !.new = v, !.by = "scheduler"] \in Jobs
  BY <1>1, RestType DEF Jobs
<1> QED BY <1>2 DEF Deploy!Started

LEMMA TwoFields ==
    ASSUME NEW o \in Stores, NEW n \in Nat, NEW c \in Nat
    PROVE  /\ [o EXCEPT !.enabled = FALSE, !.active = n] \in Stores
           /\ [o EXCEPT !.service = n, !.timer = c] \in Stores
           /\ [o EXCEPT !.hourly = n, !.limit = c] \in Stores
           /\ [o EXCEPT !.job = n, !.dying = FALSE] \in Stores
           /\ [o EXCEPT !.dying = FALSE, !.job = n] \in Stores
<1>1. [o EXCEPT !.enabled = FALSE, !.active = n] \in Stores
  BY DEF Stores
<1>2. [o EXCEPT !.service = n, !.timer = c] \in Stores
  BY DEF Stores, Versions
<1>3. [o EXCEPT !.hourly = n, !.limit = c] \in Stores
  BY DEF Stores
<1>4. [o EXCEPT !.job = n, !.dying = FALSE] \in Stores
  BY DEF Stores
<1>5. [o EXCEPT !.dying = FALSE, !.job = n] \in Stores
  BY DEF Stores
<1> QED BY <1>1, <1>2, <1>3, <1>4, <1>5

LEMMA SavedType ==
    ASSUME conf \in [Deploy!Dirs -> Configs], NEW f \in Configs, Deploy!writeConfigDir(box.who) \in Deploy!Dirs
    PROVE  Deploy!Saved(box.who, f) \in [Deploy!Dirs -> Configs]
<1>1. [f EXCEPT !.there = TRUE, !.torn = FALSE] \in Configs
  BY DEF Configs
<1> QED BY <1>1 DEF Deploy!Saved

LEMMA CutType ==
    ASSUME conf \in [Deploy!Dirs -> Configs], NEW d \in Deploy!Dirs
    PROVE  [conf EXCEPT ![d] = [@ EXCEPT !.there = TRUE, !.torn = TRUE]] \in [Deploy!Dirs -> Configs]
<1>1. [conf[d] EXCEPT !.there = TRUE, !.torn = TRUE] \in Configs
  BY DEF Configs
<1> QED BY <1>1

LEMMA WhereType == Deploy!writeConfigDir(box.who) \in Deploy!Dirs
BY DEF Deploy!writeConfigDir, Deploy!Dirs

LEMMA PlacesAre ==
    /\ {"idle", "enterprise", "query", "remove", "await", "stop", "unlink", "write", "fill", "load", "tune", "logon"} \subseteq Places
    /\ {"persist", "save", "inplace", "trigger", "start", "gate", "scan", "scanning", "package", "verdict", "hooks", "ide"} \subseteq Places
BY DEF Places, Removing, Placing, After

LEMMA SortedAgain ==
    ASSUME Sorted, job' \in [Deploy!Processes -> Jobs], last' \in [Deploy!Processes -> Endings], os' \in Stores,
           box' = box, conf' = conf, asked' = asked, lock' \in Deploy!Processes \cup {"free"}, calls' = calls,
           faults' = faults \/ (faults > 0 /\ faults' = faults - 1), turns' = turns
    PROVE  Sorted'
BY DEF Sorted

LEMMA SortedStep ==
    ASSUME Deploy!DeploymentAssumption, Sorted, Ordered, Holding, [Deploy!Next]_Deploy!vars
    PROVE  Sorted'
<1>0. Jobbing /\ "command" \in Deploy!Processes /\ "cycle" \in Deploy!Processes
  BY DEF Sorted, Jobbing, Deploy!Processes
<1>x. /\ job["command"].new \in Nat /\ 72 * 60 \in Nat /\ job["command"] \in Jobs /\ job["cycle"] \in Jobs
      /\ job["command"].tries \in Nat
  BY <1>0 DEF Jobbing, Jobs
<1>1. CASE Deploy!Query
  <2>1. job' \in [Deploy!Processes -> Jobs] /\ last' \in [Deploy!Processes -> Endings]
    BY <1>1, <1>0, PlacesAre, GoType, ExitType, RemovedType DEF Deploy!Query, Jobbing
  <2> QED BY <1>1, <2>1, SortedAgain DEF Deploy!Query, Sorted, Deploy!Same, Deploy!Works, Deploy!Fault
<1>2. CASE Deploy!Bootout
  <2>1. job' \in [Deploy!Processes -> Jobs] /\ last' \in [Deploy!Processes -> Endings]
    BY <1>2, <1>0, PlacesAre, GoType, ExitType, RemovedType DEF Deploy!Bootout, Jobbing
  <2>2. os' \in Stores
    BY <1>2 DEF Deploy!Bootout, Sorted, Stores, Versions, Jobs, Deploy!Processes
  <2> QED BY <1>2, <2>1, <2>2, SortedAgain DEF Deploy!Bootout, Sorted, Deploy!Same, Deploy!Works, Deploy!Fault
<1>3. CASE Deploy!waitForBootout
  <2>1. job' \in [Deploy!Processes -> Jobs] /\ last' \in [Deploy!Processes -> Endings]
    BY <1>3, <1>0, PlacesAre, GoType, ExitType, RemovedType DEF Deploy!waitForBootout, Jobbing
  <2> QED BY <1>3, <2>1, SortedAgain DEF Deploy!waitForBootout, Sorted, Deploy!Same, Deploy!Works, Deploy!Fault
<1>4. CASE Deploy!UnlinkPlist
  <2>1. job' \in [Deploy!Processes -> Jobs] /\ last' \in [Deploy!Processes -> Endings]
    BY <1>4, <1>0, PlacesAre, GoType, ExitType, RemovedType DEF Deploy!UnlinkPlist, Jobbing
  <2>2. os' \in Stores
    BY <1>4 DEF Deploy!UnlinkPlist, Sorted, Stores, Versions, Jobs, Deploy!Processes
  <2> QED BY <1>4, <2>1, <2>2, SortedAgain DEF Deploy!UnlinkPlist, Sorted, Deploy!Same, Deploy!Works, Deploy!Fault
<1>5. CASE Deploy!WritePlist
  <2>1. job' \in [Deploy!Processes -> Jobs] /\ last' \in [Deploy!Processes -> Endings]
    BY <1>5, <1>0, PlacesAre, GoType, ExitType, RemovedType DEF Deploy!WritePlist, Jobbing
  <2>2. os' \in Stores
    BY <1>5 DEF Deploy!WritePlist, Sorted, Stores, Versions, Jobs, Deploy!Processes, Deploy!Torn
  <2> QED BY <1>5, <2>1, <2>2, SortedAgain DEF Deploy!WritePlist, Sorted, Deploy!Same, Deploy!Works, Deploy!Fault
<1>6. CASE Deploy!FillPlist
  <2>1. job' \in [Deploy!Processes -> Jobs] /\ last' \in [Deploy!Processes -> Endings]
    BY <1>6, <1>0, PlacesAre, GoType, ExitType, RemovedType DEF Deploy!FillPlist, Jobbing
  <2>2. os' \in Stores
    BY <1>6 DEF Deploy!FillPlist, Sorted, Stores, Versions, Jobs, Deploy!Processes
  <2> QED BY <1>6, <2>1, <2>2, SortedAgain DEF Deploy!FillPlist, Sorted, Deploy!Same, Deploy!Works, Deploy!Fault
<1>7. CASE Deploy!Disable
  <2>1. job' \in [Deploy!Processes -> Jobs] /\ last' \in [Deploy!Processes -> Endings]
    BY <1>7, <1>0, PlacesAre, GoType, ExitType, RemovedType DEF Deploy!Disable, Jobbing
  <2>2. [os EXCEPT !.enabled = FALSE, !.active = 0] \in Stores
    BY <1>0, TwoFields DEF Sorted
  <2> QED BY <1>7, <2>1, <2>2, SortedAgain DEF Deploy!Disable, Sorted, Deploy!Same, Deploy!Works, Deploy!Fault
<1>8. CASE Deploy!UnlinkUnits
  <2>1. job' \in [Deploy!Processes -> Jobs] /\ last' \in [Deploy!Processes -> Endings]
    BY <1>8, <1>0, PlacesAre, GoType, ExitType, RemovedType DEF Deploy!UnlinkUnits, Jobbing
  <2>2. os' \in Stores
    <3>1. [os EXCEPT !.service = 0, !.timer = 0] \in Stores
      BY TwoFields DEF Sorted
    <3>2. [os EXCEPT !.service = 0] \in Stores /\ [os EXCEPT !.timer = 0] \in Stores
      BY DEF Sorted, Stores, Versions
    <3> QED BY <1>8, <3>1, <3>2 DEF Deploy!UnlinkUnits
  <2> QED BY <1>8, <2>1, <2>2, SortedAgain DEF Deploy!UnlinkUnits, Sorted, Deploy!Same, Deploy!Works, Deploy!Fault
<1>9. CASE Deploy!WriteService
  <2>1. job' \in [Deploy!Processes -> Jobs] /\ last' \in [Deploy!Processes -> Endings]
    BY <1>9, <1>0, PlacesAre, GoType, ExitType, RemovedType DEF Deploy!WriteService, Jobbing
  <2>2. os' \in Stores
    BY <1>9 DEF Deploy!WriteService, Sorted, Stores, Versions, Jobs, Deploy!Processes, Deploy!Torn
  <2> QED BY <1>9, <2>1, <2>2, SortedAgain DEF Deploy!WriteService, Sorted, Deploy!Same, Deploy!Works, Deploy!Fault
<1>10. CASE Deploy!WriteTimer
  <2>1. job' \in [Deploy!Processes -> Jobs] /\ last' \in [Deploy!Processes -> Endings]
    BY <1>10, <1>0, PlacesAre, GoType, ExitType, RemovedType DEF Deploy!WriteTimer, Jobbing
  <2>2. os' \in Stores
    BY <1>10 DEF Deploy!WriteTimer, Sorted, Stores, Versions, Jobs, Deploy!Processes, Deploy!Torn
  <2> QED BY <1>10, <2>1, <2>2, SortedAgain DEF Deploy!WriteTimer, Sorted, Deploy!Same, Deploy!Works, Deploy!Fault
<1>11. CASE Deploy!Enable
  <2>1. job' \in [Deploy!Processes -> Jobs] /\ last' \in [Deploy!Processes -> Endings]
    BY <1>11, <1>0, PlacesAre, GoType, ExitType, RemovedType DEF Deploy!Enable, Jobbing
  <2>2. os' \in Stores
    BY <1>11 DEF Deploy!Enable, Sorted, Stores, Versions, Jobs, Deploy!Processes, Deploy!Enabled
  <2> QED BY <1>11, <2>1, <2>2, SortedAgain DEF Deploy!Enable, Sorted, Deploy!Same, Deploy!Works, Deploy!Fault
<1>12. CASE Deploy!DeleteHourly
  <2>1. job' \in [Deploy!Processes -> Jobs] /\ last' \in [Deploy!Processes -> Endings]
    BY <1>12, <1>0, PlacesAre, GoType, ExitType, RemovedType DEF Deploy!DeleteHourly, Jobbing
  <2>2. [os EXCEPT !.hourly = 0, !.limit = 0] \in Stores
    BY <1>0, TwoFields DEF Sorted
  <2> QED BY <1>12, <2>1, <2>2, SortedAgain DEF Deploy!DeleteHourly, Sorted, Deploy!Same, Deploy!Works, Deploy!Fault
<1>13. CASE Deploy!DeleteLogon
  <2>1. job' \in [Deploy!Processes -> Jobs] /\ last' \in [Deploy!Processes -> Endings]
    BY <1>13, <1>0, PlacesAre, GoType, ExitType, RemovedType DEF Deploy!DeleteLogon, Jobbing
  <2>2. os' \in Stores
    BY <1>13 DEF Deploy!DeleteLogon, Sorted, Stores, Versions, Jobs, Deploy!Processes
  <2> QED BY <1>13, <2>1, <2>2, SortedAgain DEF Deploy!DeleteLogon, Sorted, Deploy!Same, Deploy!Works, Deploy!Fault
<1>14. CASE Deploy!CreateHourly
  <2>1. job' \in [Deploy!Processes -> Jobs] /\ last' \in [Deploy!Processes -> Endings]
    BY <1>14, <1>0, PlacesAre, GoType, ExitType, RemovedType DEF Deploy!CreateHourly, Jobbing
  <2>2. [os EXCEPT !.hourly = job["command"].new, !.limit = 72 * 60] \in Stores
    BY <1>0, <1>x, TwoFields DEF Sorted
  <2> QED BY <1>14, <2>1, <2>2, SortedAgain DEF Deploy!CreateHourly, Sorted, Deploy!Same, Deploy!Works, Deploy!Fault
<1>15. CASE Deploy!CreateLogon
  <2>1. job' \in [Deploy!Processes -> Jobs] /\ last' \in [Deploy!Processes -> Endings]
    BY <1>15, <1>0, PlacesAre, GoType, ExitType, RemovedType DEF Deploy!CreateLogon, Jobbing
  <2>2. os' \in Stores
    BY <1>15 DEF Deploy!CreateLogon, Sorted, Stores, Versions, Jobs, Deploy!Processes
  <2> QED BY <1>15, <2>1, <2>2, SortedAgain DEF Deploy!CreateLogon, Sorted, Deploy!Same, Deploy!Works, Deploy!Fault
<1>16. CASE Deploy!Install
  <2>0. [Deploy!Rest EXCEPT !.cmd = "install"] \in Jobs
    BY RestType DEF Given, Jobs
  <2>1. box.who \in {"user", "admin", "system"} /\ calls' = calls - 1 /\ calls > 0
    BY <1>16 DEF Deploy!Install, Deploy!Begins, Deploy!Given, Sorted, Deploy!DeploymentAssumption
  <2>2. Deploy!Load(box.who) \in Configs
    BY RestType DEF Deploy!Load, Deploy!readConfigDir, Deploy!HomeOf, Deploy!Dirs, Sorted
  <2>3. MaxCommands - calls + 1 \in Nat
    BY DEF Sorted, Deploy!DeploymentAssumption
  <2>4. [Deploy!Rest EXCEPT !.pc = "query", !.cmd = "install", !.new = MaxCommands - calls + 1, !.seen = Deploy!Load(box.who)] \in Jobs
    BY <2>2, <2>3, PlacesAre, RestType DEF Given, Jobs
  <2>5. job' \in [Deploy!Processes -> Jobs] /\ last' \in [Deploy!Processes -> Endings]
    BY <1>16, <1>0, <2>0, <2>4, SetType, EndedType DEF Deploy!Install, Jobbing
  <2>6. calls' \in 0 .. MaxCommands
    BY <2>1 DEF Sorted, Deploy!DeploymentAssumption
  <2> QED BY <1>16, <2>5, <2>6 DEF Deploy!Install, Sorted
<1>17. CASE Deploy!ScanByHand
  <2>1. [Deploy!Rest EXCEPT !.pc = "gate", !.cmd = "scan"] \in Jobs
    BY PlacesAre, RestType DEF Given, Jobs
  <2>2. job' \in [Deploy!Processes -> Jobs] /\ last' \in [Deploy!Processes -> Endings]
    BY <1>17, <1>0, <2>1, SetType DEF Deploy!ScanByHand, Jobbing
  <2>3. calls' \in 0 .. MaxCommands
    BY <1>17 DEF Sorted, Deploy!ScanByHand, Deploy!Begins, Deploy!Given, Deploy!DeploymentAssumption
  <2> QED BY <1>17, <2>2, <2>3 DEF Deploy!ScanByHand, Sorted
<1>18. CASE Deploy!Uninstall
  <2>1. [Deploy!Rest EXCEPT !.pc = "query", !.cmd = "uninstall"] \in Jobs
    BY PlacesAre, RestType DEF Given, Jobs
  <2>2. job' \in [Deploy!Processes -> Jobs] /\ last' \in [Deploy!Processes -> Endings]
    BY <1>18, <1>0, <2>1, SetType DEF Deploy!Uninstall, Jobbing
  <2>3. calls' \in 0 .. MaxCommands
    BY <1>18 DEF Sorted, Deploy!Uninstall, Deploy!Begins, Deploy!Given, Deploy!DeploymentAssumption
  <2> QED BY <1>18, <2>2, <2>3 DEF Deploy!Uninstall, Sorted
<1>19. CASE Deploy!bootstrap
  <2>1. os.plist \in Nat /\ [os EXCEPT !.job = os.plist] \in Stores
    <3>1. os.plist = job["command"].new
      BY <1>19, <1>0 DEF Deploy!bootstrap, Deploy!Darwin, Deploy!At, Holding, Ordered, InOrder, Own, Deploy!Processes, Removing, Placing, After
    <3> QED BY <1>x, <3>1 DEF Sorted, Stores
  <2>2. [job["command"] EXCEPT !.pc = "persist"] \in Jobs /\ [job["command"] EXCEPT !.tries = @ + 1] \in Jobs
    BY <1>x, PlacesAre DEF Jobs
  <2>3. /\ [job EXCEPT !["command"].pc = "persist"] \in [Deploy!Processes -> Jobs]
        /\ [job EXCEPT !["command"].tries = @ + 1] \in [Deploy!Processes -> Jobs]
    BY <1>0, <2>2 DEF Jobbing
  <2>4. job' \in [Deploy!Processes -> Jobs] /\ last' \in [Deploy!Processes -> Endings]
    <3>1. \/ job' = Deploy!Started([job EXCEPT !["command"].pc = "persist"], os.plist) /\ last' = last
          \/ job' = [job EXCEPT !["command"].tries = @ + 1] /\ last' = last
          \/ Deploy!Exit("command", 1)
      BY <1>19 DEF Deploy!bootstrap
    <3>2. Deploy!Started([job EXCEPT !["command"].pc = "persist"], os.plist) \in [Deploy!Processes -> Jobs]
      BY <2>1, <2>3, StartedType
    <3> QED BY <1>0, <2>3, <3>1, <3>2, ExitType DEF Jobbing
  <2>5. os' \in Stores
    BY <1>19, <2>1 DEF Deploy!bootstrap, Sorted
  <2> QED BY <1>19, <2>4, <2>5, SortedAgain DEF Deploy!bootstrap, Sorted, Deploy!Same, Deploy!Works, Deploy!Fault
<1>20. CASE Deploy!StopService
  <2>1. [job["command"] EXCEPT !.pc = "unlink"] \in Jobs
    BY <1>x, PlacesAre DEF Jobs
  <2>2. [job EXCEPT !["command"].pc = "unlink", !["cycle"] = IF @.by = "scheduler" THEN Deploy!Rest ELSE @] \in [Deploy!Processes -> Jobs]
    BY <1>0, <2>1, RestType DEF Jobbing
  <2>3. job' \in [Deploy!Processes -> Jobs] /\ last' \in [Deploy!Processes -> Endings]
    BY <1>20, <1>0, <2>2, GoType, PlacesAre DEF Deploy!StopService, Jobbing
  <2> QED BY <1>20, <2>3, SortedAgain DEF Deploy!StopService, Sorted, Deploy!Same, Deploy!Works, Deploy!Fault, Deploy!Freed
<1>21. CASE Deploy!StartTimer
  <2>1. [job["command"] EXCEPT !.pc = "package", !.warned = TRUE] \in Jobs
    BY <1>x, PlacesAre DEF Jobs
  <2>2. [job EXCEPT !["command"].pc = "package", !["command"].warned = TRUE] \in [Deploy!Processes -> Jobs]
    BY <1>0, <2>1 DEF Jobbing
  <2>3. job' \in [Deploy!Processes -> Jobs] /\ last' \in [Deploy!Processes -> Endings]
    BY <1>21, <1>0, <2>2, GoType, PlacesAre DEF Deploy!StartTimer, Jobbing
  <2>4. os.timer = job["command"].new
    BY <1>21, <1>0 DEF Deploy!StartTimer, Deploy!Linux, Deploy!At, Holding, Ordered, InOrder, Own, Removing, Placing, After
  <2>5. os' \in Stores
    BY <1>21, <1>x, <2>4 DEF Deploy!StartTimer, Sorted, Stores
  <2> QED BY <1>21, <2>3, <2>5, SortedAgain DEF Deploy!StartTimer, Sorted, Deploy!Same, Deploy!Works, Deploy!Fault
<1>22. CASE Deploy!Tune
  <2>1. job' \in [Deploy!Processes -> Jobs] /\ last' \in [Deploy!Processes -> Endings]
    BY <1>22, <1>0, PlacesAre, GoType DEF Deploy!Tune, Jobbing
  <2>2. box.env \in Nat \cup {-2} /\ job["command"].seen.limit \in Nat \cup {-2}
    BY <1>x DEF Sorted, Jobs, Configs, Deploy!DeploymentAssumption, Deploy!Off
  <2>3. Deploy!ExecutionDeadline(box.env, job["command"].seen.limit) \in Nat \cup {-2}
    BY <2>2 DEF Deploy!ExecutionDeadline
  <2>4. Deploy!executionTimeLimit(Deploy!ExecutionDeadline(box.env, job["command"].seen.limit)) \in Nat
    BY <2>3 DEF Deploy!executionTimeLimit, Deploy!Off
  <2>5. os' \in Stores
    BY <1>22, <2>4 DEF Deploy!Tune, Deploy!Tuned, Sorted, Stores
  <2> QED BY <1>22, <2>1, <2>5, SortedAgain DEF Deploy!Tune, Sorted, Deploy!Same, Deploy!Works, Deploy!Fault
<1>23. CASE Deploy!RunNow
  <2>1. [job["command"] EXCEPT !.pc = "hooks"] \in Jobs /\ os.hourly \in Nat
    BY <1>x, PlacesAre DEF Jobs, Sorted, Stores
  <2>2. [job EXCEPT !["command"].pc = "hooks"] \in [Deploy!Processes -> Jobs]
    BY <1>0, <2>1 DEF Jobbing
  <2>3. job' \in [Deploy!Processes -> Jobs] /\ last' \in [Deploy!Processes -> Endings]
    BY <1>23, <1>0, <2>1, <2>2, StartedType, GoType, PlacesAre DEF Deploy!RunNow, Jobbing
  <2> QED BY <1>23, <2>3, SortedAgain DEF Deploy!RunNow, Sorted, Deploy!Same, Deploy!Works, Deploy!Fault
<1>24. CASE Deploy!Persist
  <2>1. box.who \in {"user", "admin", "system"} /\ Deploy!Onward \in {"hooks", "trigger", "gate"}
    BY DEF Sorted, Deploy!DeploymentAssumption, Deploy!Onward
  <2>2. Deploy!Load(box.who) \in Configs /\ Deploy!ConfigInvalid(box.who) \in BOOLEAN
    BY <2>1, RestType DEF Deploy!Load, Deploy!ConfigInvalid, Deploy!readConfigDir, Deploy!HomeOf, Deploy!Dirs, Sorted, Configs
  <2>3. /\ [job["command"] EXCEPT !.pc = Deploy!Onward, !.recorded = ~Deploy!ConfigInvalid(box.who)] \in Jobs
        /\ [job["command"] EXCEPT !.pc = "save", !.seen = Deploy!Load(box.who)] \in Jobs
    BY <1>x, <2>1, <2>2, PlacesAre DEF Jobs
  <2>4. job' \in [Deploy!Processes -> Jobs] /\ last' \in [Deploy!Processes -> Endings]
    BY <1>24, <1>0, <2>3, SetType DEF Deploy!Persist, Jobbing
  <2> QED BY <1>24, <2>4, SortedAgain DEF Deploy!Persist, Sorted, Deploy!Same, Deploy!Works, Deploy!Fault
<1>25. CASE Deploy!Save
  <2>1. /\ box.who \in {"user", "admin", "system"} /\ Deploy!Onward \in {"hooks", "trigger", "gate"}
        /\ box.env \in Nat \cup {-2} /\ job["command"].seen \in Configs
    BY <1>x DEF Sorted, Deploy!DeploymentAssumption, Deploy!Onward, Deploy!Off, Jobs
  <2>2. [job["command"] EXCEPT !.pc = Deploy!Onward, !.recorded = TRUE] \in Jobs
    BY <1>x, <2>1, PlacesAre DEF Jobs
  <2>3. job' \in [Deploy!Processes -> Jobs] /\ last' \in [Deploy!Processes -> Endings]
    BY <1>25, <1>0, <2>1, <2>2, SetType, GoType, PlacesAre DEF Deploy!Save, Jobbing
  <2>4. Deploy!writeConfigDir(box.who) \in Deploy!Dirs
    BY WhereType
  <2>5. Deploy!Merged(job["command"].seen) \in Configs
    BY <2>1 DEF Deploy!Merged, Configs
  <2>6. Deploy!Saved(box.who, Deploy!Merged(job["command"].seen)) \in [Deploy!Dirs -> Configs]
    BY <2>4, <2>5, SavedType DEF Sorted
  <2>7. [conf EXCEPT ![Deploy!writeConfigDir(box.who)] = [@ EXCEPT !.there = TRUE, !.torn = TRUE]] \in [Deploy!Dirs -> Configs]
    BY <2>4, CutType DEF Sorted
  <2>8. conf' \in [Deploy!Dirs -> Configs]
    BY <1>25, <2>6, <2>7 DEF Deploy!Save, Sorted
  <2> QED BY <1>25, <2>3, <2>8 DEF Deploy!Save, Sorted, Deploy!Same, Deploy!Works, Deploy!Fault
<1>26. CASE Deploy!SaveInPlace
  <2>1. /\ box.who \in {"user", "admin", "system"} /\ Deploy!Onward \in {"hooks", "trigger", "gate"}
        /\ box.env \in Nat \cup {-2} /\ job["command"].seen \in Configs
    BY <1>x DEF Sorted, Deploy!DeploymentAssumption, Deploy!Onward, Deploy!Off, Jobs
  <2>2. [job["command"] EXCEPT !.pc = Deploy!Onward, !.recorded = TRUE] \in Jobs
    BY <1>x, <2>1, PlacesAre DEF Jobs
  <2>3. job' \in [Deploy!Processes -> Jobs] /\ last' \in [Deploy!Processes -> Endings]
    BY <1>26, <1>0, <2>1, <2>2, SetType, GoType, PlacesAre DEF Deploy!SaveInPlace, Jobbing
  <2>4. Deploy!writeConfigDir(box.who) \in Deploy!Dirs
    BY WhereType
  <2>5. Deploy!Merged(job["command"].seen) \in Configs
    BY <2>1 DEF Deploy!Merged, Configs
  <2>6. Deploy!Saved(box.who, Deploy!Merged(job["command"].seen)) \in [Deploy!Dirs -> Configs]
    BY <2>4, <2>5, SavedType DEF Sorted
  <2>8. conf' \in [Deploy!Dirs -> Configs]
    BY <1>26, <2>6 DEF Deploy!SaveInPlace, Sorted
  <2> QED BY <1>26, <2>3, <2>8 DEF Deploy!SaveInPlace, Sorted, Deploy!Same, Deploy!Works, Deploy!Fault
<1>27. CASE Deploy!Enterprise
  <2>1. job' \in [Deploy!Processes -> Jobs] /\ last' \in [Deploy!Processes -> Endings]
    BY <1>27, <1>0, PlacesAre, GoType, ExitType DEF Deploy!Enterprise, Jobbing
  <2> QED BY <1>27, <2>1, SortedAgain DEF Deploy!Enterprise, Sorted, Deploy!Same, Deploy!Works, Deploy!Fault
<1>28. CASE Deploy!TornDown
  <2>1. os' \in Stores
    BY <1>28, TwoFields DEF Deploy!TornDown, Sorted
  <2> QED BY <1>28, <2>1 DEF Deploy!TornDown, Sorted, Deploy!Same, Deploy!Works, Deploy!Fault
<1>29. CASE Deploy!Fire
  <2>1. Deploy!Live(os) \in Nat
    BY DEF Deploy!Live, Sorted, Stores
  <2>2. job' \in [Deploy!Processes -> Jobs]
    BY <1>29, <2>1, StartedType DEF Deploy!Fire, Sorted
  <2> QED BY <1>29, <2>2 DEF Deploy!Fire, Sorted, Deploy!Same, Deploy!Works, Deploy!Fault
<1>30. CASE Deploy!Boot
  <2>1. (IF os.plist = Deploy!Torn THEN 0 ELSE os.plist) \in Nat /\ (IF os.enabled /\ os.timer # Deploy!Torn THEN os.timer ELSE 0) \in Nat
    BY DEF Sorted, Stores, Versions
  <2>2. os' \in Stores
    <3>1. CASE box.os = "darwin"
      BY <1>30, <3>1, <2>1, TwoFields DEF Deploy!Boot, Sorted
    <3>2. CASE box.os = "linux"
      BY <1>30, <3>2, <2>1 DEF Deploy!Boot, Sorted, Stores
    <3>3. CASE box.os \notin {"darwin", "linux"}
      BY <1>30, <3>3 DEF Deploy!Boot, Sorted
    <3> QED BY <3>1, <3>2, <3>3
  <2> QED BY <1>30, <2>2 DEF Deploy!Boot, Sorted
<1>31. CASE Deploy!Configure
  <2>1. box.who \in {"user", "admin", "system"} /\ calls' \in 0 .. MaxCommands
    BY <1>31 DEF Sorted, Deploy!DeploymentAssumption, Deploy!Configure, Deploy!Given
  <2>2. job' = [job EXCEPT !["command"].recorded = FALSE] /\ last' = [last EXCEPT !["command"].recorded = FALSE]
    BY <1>31 DEF Deploy!Configure, Deploy!Reconfigured
  <2>3. [job["command"] EXCEPT !.recorded = FALSE] \in Jobs
    BY <1>x DEF Jobs
  <2>4. job' \in [Deploy!Processes -> Jobs] /\ last' \in [Deploy!Processes -> Endings]
    BY <1>0, <2>2, <2>3 DEF Jobbing, Endings
  <2>5. Deploy!Load(box.who) \in Configs
    BY <2>1, RestType DEF Deploy!Load, Deploy!readConfigDir, Deploy!HomeOf, Deploy!Dirs, Sorted
  <2>6. [Deploy!Load(box.who) EXCEPT !.creds = 2] \in Configs
    BY <2>5 DEF Configs
  <2>7. conf' \in [Deploy!Dirs -> Configs]
    BY <1>31, <2>6, SavedType, WhereType DEF Deploy!Configure, Deploy!Reconfigured, Sorted
  <2> QED BY <1>31, <2>1, <2>4, <2>7 DEF Deploy!Configure, Deploy!Reconfigured, Sorted
<1>32. CASE Deploy!Prompt
  <2>1. box.who \in {"user", "admin", "system"} /\ calls' \in 0 .. MaxCommands
    BY <1>32 DEF Sorted, Deploy!DeploymentAssumption, Deploy!Prompt, Deploy!Given
  <2>2. Deploy!Load(box.who) \in Configs
    BY <2>1, RestType DEF Deploy!Load, Deploy!readConfigDir, Deploy!HomeOf, Deploy!Dirs, Sorted
  <2>3. asked' \in [open : BOOLEAN, file : Configs]
    BY <1>32, <2>2 DEF Deploy!Prompt
  <2> QED BY <1>32, <2>1, <2>3 DEF Deploy!Prompt, Sorted
<1>33. CASE Deploy!Answer
  <2>1. asked' \in [open : BOOLEAN, file : Configs] /\ asked.file \in Configs /\ calls' = calls
    BY <1>33, RestType DEF Deploy!Answer, Sorted, Deploy!Unasked
  <2>2. job' = [job EXCEPT !["command"].recorded = FALSE] /\ last' = [last EXCEPT !["command"].recorded = FALSE]
    BY <1>33 DEF Deploy!Answer, Deploy!Reconfigured
  <2>3. [job["command"] EXCEPT !.recorded = FALSE] \in Jobs
    BY <1>x DEF Jobs
  <2>4. job' \in [Deploy!Processes -> Jobs] /\ last' \in [Deploy!Processes -> Endings]
    BY <1>0, <2>2, <2>3 DEF Jobbing, Endings
  <2>5. PICK key \in {asked.file.creds, 2, 0} : conf' = Deploy!Saved(box.who, [asked.file EXCEPT !.creds = key])
    BY <1>33 DEF Deploy!Answer, Deploy!Reconfigured
  <2>6. [asked.file EXCEPT !.creds = key] \in Configs
    BY <2>1, <2>5 DEF Configs
  <2>7. conf' \in [Deploy!Dirs -> Configs]
    BY <2>5, <2>6, SavedType, WhereType DEF Sorted
  <2> QED BY <1>33, <2>1, <2>4, <2>7 DEF Deploy!Answer, Deploy!Reconfigured, Sorted
<1>34. ASSUME NEW p \in Deploy!Processes, Deploy!Gate(p) PROVE Sorted'
  <2>1. job' \in [Deploy!Processes -> Jobs] /\ last' \in [Deploy!Processes -> Endings]
    BY <1>34, <1>0, PlacesAre, GoType, ExitType DEF Deploy!Gate, Deploy!AfterScan, Jobbing
  <2> QED BY <1>34, <2>1, SortedAgain DEF Deploy!Gate, Sorted, Deploy!Same, Deploy!Works, Deploy!Fault
<1>35. ASSUME NEW p \in Deploy!Processes, Deploy!Scan(p) PROVE Sorted'
  <2>1. job[p] \in Jobs /\ Deploy!AfterScan(p) \in Places /\ (job[lock].new = job[p].new) \in BOOLEAN
    BY <1>0, PlacesAre DEF Jobbing, Deploy!AfterScan
  <2>2. [job[p] EXCEPT !.pc = Deploy!AfterScan(p), !.telemetry = "failed", !.busy = (job[lock].new = job[p].new)] \in Jobs
    BY <2>1 DEF Jobs
  <2>3. job' \in [Deploy!Processes -> Jobs] /\ last' \in [Deploy!Processes -> Endings]
    <3>1. last' = last
      BY <1>35 DEF Deploy!Scan
    <3>2. CASE lock = "free"
      BY <1>35, <1>0, <3>1, <3>2, GoType, PlacesAre DEF Deploy!Scan, Jobbing
    <3>3. CASE lock # "free"
      <4>1. job' = [job EXCEPT ![p] = [job[p] EXCEPT !.pc = Deploy!AfterScan(p), !.telemetry = "failed",
                                                     !.busy = (job[lock].new = job[p].new)]]
        BY <1>35, <3>3 DEF Deploy!Scan
      <4> QED BY <1>0, <2>2, <3>1, <4>1, SetType DEF Jobbing
    <3> QED BY <3>2, <3>3
  <2> QED BY <1>35, <2>3, SortedAgain DEF Deploy!Scan, Sorted, Deploy!Same, Deploy!Works, Deploy!Fault
<1>36. ASSUME NEW p \in Deploy!Processes, Deploy!Scanned(p) PROVE Sorted'
  <2>1. job[p] \in Jobs /\ Deploy!AfterScan(p) \in Places
    BY <1>0, PlacesAre DEF Jobbing, Deploy!AfterScan
  <2>2. /\ [job[p] EXCEPT !.pc = Deploy!AfterScan(p), !.telemetry = "failed"] \in Jobs
        /\ [job[p] EXCEPT !.pc = Deploy!AfterScan(p), !.telemetry = "ok"] \in Jobs
    BY <2>1 DEF Jobs
  <2>3. \/ job' = [job EXCEPT ![p] = [job[p] EXCEPT !.pc = Deploy!AfterScan(p), !.telemetry = "ok"]]
        \/ job' = [job EXCEPT ![p] = [job[p] EXCEPT !.pc = Deploy!AfterScan(p), !.telemetry = "failed"]]
    BY <1>36 DEF Deploy!Scanned
  <2>4. job' \in [Deploy!Processes -> Jobs]
    BY <1>0, <2>2, <2>3, SetType
  <2>5. last' \in [Deploy!Processes -> Endings]
    BY <1>36, <1>0 DEF Deploy!Scanned, Jobbing
  <2> QED BY <1>36, <2>4, <2>5, SortedAgain DEF Deploy!Scanned, Sorted, Deploy!Same, Deploy!Works, Deploy!Fault
<1>37. ASSUME NEW p \in Deploy!Processes, Deploy!EnforcePackages(p) PROVE Sorted'
  <2>1. job[p] \in Jobs /\ (job[p].did \cup Deploy!Lanes(p)) \in SUBSET Policies
    BY <1>0 DEF Jobbing, Jobs, Deploy!Lanes, Policies
  <2>2. [job[p] EXCEPT !.pc = "verdict", !.did = @ \cup Deploy!Lanes(p)] \in Jobs
    BY <2>1, PlacesAre DEF Jobs
  <2>3. job' \in [Deploy!Processes -> Jobs] /\ last' \in [Deploy!Processes -> Endings]
    BY <1>37, <1>0, <2>2, SetType DEF Deploy!EnforcePackages, Jobbing
  <2> QED BY <1>37, <2>3, SortedAgain DEF Deploy!EnforcePackages, Sorted, Deploy!Same, Deploy!Works, Deploy!Fault
<1>38. ASSUME NEW p \in Deploy!Processes, Deploy!Verdict(p) PROVE Sorted'
  <2>1. job' \in [Deploy!Processes -> Jobs] /\ last' \in [Deploy!Processes -> Endings]
    BY <1>38, <1>0, PlacesAre, GoType, ExitType DEF Deploy!Verdict, Jobbing
  <2> QED BY <1>38, <2>1, SortedAgain DEF Deploy!Verdict, Sorted, Deploy!Same, Deploy!Works, Deploy!Fault
<1>39. ASSUME NEW p \in Deploy!Processes, Deploy!ReconcileHooks(p) PROVE Sorted'
  <2> DEFINE j == [job[p] EXCEPT !.did = @ \cup {"hooks"}]
  <2>1. job[p] \in Jobs /\ (job[p].did \cup {"hooks"}) \in SUBSET Policies
    BY <1>0 DEF Jobbing, Jobs, Policies
  <2>2. j \in Jobs
    BY <2>1 DEF Jobs
  <2>3. [j EXCEPT !.pc = "ide"] \in Jobs
    BY <2>2, PlacesAre DEF Jobs
  <2>4. Deploy!Ended(p, 0, j) \/ (job' = [job EXCEPT ![p] = [j EXCEPT !.pc = "ide"]] /\ last' = last)
    BY <1>39 DEF Deploy!ReconcileHooks
  <2> HIDE DEF j
  <2>5. job' \in [Deploy!Processes -> Jobs] /\ last' \in [Deploy!Processes -> Endings]
    BY <1>0, <2>2, <2>3, <2>4, SetType, EndedType DEF Jobbing
  <2> QED BY <1>39, <2>5, SortedAgain DEF Deploy!ReconcileHooks, Sorted, Deploy!Same, Deploy!Works, Deploy!Fault
<1>40. ASSUME NEW p \in Deploy!Processes, Deploy!EnforceEditors(p) PROVE Sorted'
  <2> DEFINE d == IF box.target THEN job[p].did \cup {"ide"} ELSE job[p].did
  <2>1. job[p] \in Jobs /\ d \in SUBSET Policies
    BY <1>0 DEF Jobbing, Jobs, Policies
  <2>2. [job[p] EXCEPT !.did = d] \in Jobs
    BY <2>1 DEF Jobs
  <2>3. Deploy!Ended(p, 0, [job[p] EXCEPT !.did = d])
    BY <1>40 DEF Deploy!EnforceEditors
  <2>4. job' \in [Deploy!Processes -> Jobs] /\ last' \in [Deploy!Processes -> Endings]
    BY <1>0, <2>2, <2>3, EndedType
  <2> QED BY <1>40, <2>4, SortedAgain DEF Deploy!EnforceEditors, Sorted, Deploy!Same, Deploy!Works, Deploy!Fault
<1>41. ASSUME NEW p \in Deploy!Processes, Deploy!Kill(p) PROVE Sorted'
  <2>1. job' \in [Deploy!Processes -> Jobs] /\ last' \in [Deploy!Processes -> Endings]
    BY <1>41, <1>0, RestType DEF Deploy!Kill, Deploy!Gone, Deploy!Unended, Jobbing, Jobs, Endings, Given, Policies
  <2>2. lock' \in Deploy!Processes \cup {"free"}
    BY <1>41 DEF Deploy!Kill, Deploy!Freed, Sorted
  <2> QED BY <1>41, <2>1, <2>2 DEF Deploy!Kill, Sorted, Deploy!Same, Deploy!Works, Deploy!Fault
<1>42. CASE UNCHANGED Deploy!vars
  BY <1>42 DEF Deploy!vars, Sorted
<1> QED BY <1>1, <1>2, <1>3, <1>4, <1>5, <1>6, <1>7, <1>8, <1>9, <1>10, <1>11, <1>12, <1>13, <1>14, <1>15, <1>16, <1>17, <1>18, <1>19, <1>20, <1>21, <1>22, <1>23, <1>24, <1>25, <1>26, <1>27, <1>28, <1>29, <1>30, <1>31, <1>32, <1>33, <1>34, <1>35, <1>36, <1>37, <1>38, <1>39, <1>40, <1>41, <1>42 DEF Deploy!Next, Deploy!Step, Deploy!DarwinStep, Deploy!LinuxStep, Deploy!WindowsStep

-----------------------------------------------------------------------------
LEMMA OneMoves ==
    ASSUME Jobbing, Ordered, NEW p \in Deploy!Processes, NEW j, job' = [job EXCEPT ![p] = j], InOrder(p, j)
    PROVE  Ordered'
<1>1. \A q \in Deploy!Processes : job'[q] = IF q = p THEN j ELSE job[q]
  BY DEF Jobbing
<1> QED BY <1>1 DEF Ordered, InOrder

LEMMA GoOn ==
    ASSUME Jobbing, Ordered, NEW p \in Deploy!Processes, NEW l, Deploy!Go(p, l), InOrder(p, [job[p] EXCEPT !.pc = l])
    PROVE  Ordered'
BY OneMoves DEF Deploy!Go

LEMMA GoBack == 
    ASSUME Jobbing, Ordered, NEW p \in Deploy!Processes, NEW code, NEW j, Deploy!Ended(p, code, j)
    PROVE  Ordered'
<1>1. InOrder(p, Deploy!Rest)
  BY DEF InOrder, Deploy!Rest
<1> QED BY <1>1, OneMoves DEF Deploy!Ended

LEMMA GoOut ==
    ASSUME Jobbing, Ordered, NEW p \in Deploy!Processes, NEW code, Deploy!Exit(p, code)
    PROVE  Ordered'
BY GoBack DEF Deploy!Exit

LEMMA RemovedOn ==
    ASSUME Jobbing, Ordered, job["command"].pc \in Removing, Deploy!Removed
    PROVE  Ordered'
<1>1. "command" \in Deploy!Processes /\ job["command"] \in Jobs
  BY DEF Deploy!Processes, Jobbing
<1>2. ASSUME job["command"].cmd = "install" PROVE InOrder("command", [job["command"] EXCEPT !.pc = "write"])
  BY <1>1, <1>2 DEF Ordered, InOrder, Jobs, Removing, Placing, After, Scanned
<1> QED BY <1>1, <1>2, GoOn, GoOut DEF Deploy!Removed

LEMMA StartedOn ==
    ASSUME Jobbing, Ordered, NEW j, InOrder("command", j), NEW v, job' = Deploy!Started([job EXCEPT !["command"] = j], v)
    PROVE  Ordered'
<1>1. "command" \in Deploy!Processes /\ "cycle" \in Deploy!Processes
  BY DEF Deploy!Processes
<1>2. InOrder("cycle", [Deploy!Rest EXCEPT !.pc = "enterprise", !.cmd = "send-telemetry", !.new = v, !.by = "scheduler"])
  BY DEF InOrder, Deploy!Rest, Running, Scanned
<1>3. job'["command"] = j
  BY <1>1 DEF Deploy!Started, Jobbing
<1>4. InOrder("cycle", job'["cycle"])
  BY <1>1, <1>2 DEF Deploy!Started, Jobbing, Ordered
<1>5. \A q \in Deploy!Processes : InOrder(q, job'[q])
  BY <1>3, <1>4 DEF Deploy!Processes
<1> QED BY <1>5 DEF Ordered, InOrder

LEMMA StartedHere == ASSUME Jobbing PROVE job = [job EXCEPT !["command"] = job["command"]]
BY DEF Jobbing

LEMMA OrderedStep ==
    ASSUME Deploy!DeploymentAssumption, Sorted, Ordered, [Deploy!Next]_Deploy!vars
    PROVE  Ordered'
<1>0. /\ Jobbing /\ "command" \in Deploy!Processes /\ "cycle" \in Deploy!Processes
      /\ InOrder("command", job["command"]) /\ job["command"] \in Jobs
  BY DEF Sorted, Deploy!Processes, Jobbing, Ordered
<1>x. box.os \in {"darwin", "linux", "windows"} /\ box.who \in {"user", "admin", "system"} /\ Used \in Nat
  BY DEF Sorted, Deploy!DeploymentAssumption, Used
<1>1. CASE Deploy!Query
  <2>2. InOrder("command", [job["command"] EXCEPT !.pc = "remove"])
    BY <1>1, <1>0 DEF Deploy!Query, Deploy!At, InOrder, Jobs, Removing, Placing, After, Running, Scanned
  <2>3. Deploy!Removed => Ordered'
    BY <1>1, <1>0, RemovedOn DEF Deploy!Query, Deploy!At, Removing, Placing, After, Running, Scanned
  <2> QED BY <1>1, <1>0, <2>2, <2>3, GoOn, GoOut DEF Deploy!Query
<1>2. CASE Deploy!Bootout
  <2>2. InOrder("command", [job["command"] EXCEPT !.pc = "await"]) /\ InOrder("command", [job["command"] EXCEPT !.pc = "unlink"])
    BY <1>2, <1>0 DEF Deploy!Bootout, Deploy!Darwin, Deploy!At, InOrder, Jobs, Removing, Placing, After, Running, Scanned
  <2> QED BY <1>2, <1>0, <2>2, GoOn, GoOut DEF Deploy!Bootout
<1>3. CASE Deploy!waitForBootout
  <2>2. InOrder("command", [job["command"] EXCEPT !.pc = "unlink"])
    BY <1>3, <1>0 DEF Deploy!waitForBootout, Deploy!Darwin, Deploy!At, InOrder, Jobs, Removing, Placing, After, Running, Scanned
  <2> QED BY <1>3, <1>0, <2>2, GoOn, GoOut DEF Deploy!waitForBootout
<1>4. CASE Deploy!WritePlist
  <2>2. InOrder("command", [job["command"] EXCEPT !.pc = "fill"])
    BY <1>4, <1>0 DEF Deploy!WritePlist, Deploy!Darwin, Deploy!At, InOrder, Jobs, Removing, Placing, After, Running, Scanned
  <2> QED BY <1>4, <1>0, <2>2, GoOn, GoOut DEF Deploy!WritePlist
<1>5. CASE Deploy!FillPlist
  <2>2. InOrder("command", [job["command"] EXCEPT !.pc = "load"])
    BY <1>5, <1>0 DEF Deploy!FillPlist, Deploy!Darwin, Deploy!At, InOrder, Jobs, Removing, Placing, After, Running, Scanned
  <2> QED BY <1>5, <1>0, <2>2, GoOn, GoOut DEF Deploy!FillPlist
<1>6. CASE Deploy!Disable
  <2>2. InOrder("command", [job["command"] EXCEPT !.pc = "stop"])
    BY <1>6, <1>0 DEF Deploy!Disable, Deploy!Linux, Deploy!At, InOrder, Jobs, Removing, Placing, After, Running, Scanned
  <2> QED BY <1>6, <1>0, <2>2, GoOn, GoOut DEF Deploy!Disable
<1>7. CASE Deploy!WriteService
  <2>2. InOrder("command", [job["command"] EXCEPT !.pc = "fill"])
    BY <1>7, <1>0 DEF Deploy!WriteService, Deploy!Linux, Deploy!At, InOrder, Jobs, Removing, Placing, After, Running, Scanned
  <2> QED BY <1>7, <1>0, <2>2, GoOn, GoOut DEF Deploy!WriteService
<1>8. CASE Deploy!WriteTimer
  <2>2. InOrder("command", [job["command"] EXCEPT !.pc = "load"])
    BY <1>8, <1>0 DEF Deploy!WriteTimer, Deploy!Linux, Deploy!At, InOrder, Jobs, Removing, Placing, After, Running, Scanned
  <2> QED BY <1>8, <1>0, <2>2, GoOn, GoOut DEF Deploy!WriteTimer
<1>9. CASE Deploy!Enable
  <2>2. InOrder("command", [job["command"] EXCEPT !.pc = "persist"])
    BY <1>9, <1>0 DEF Deploy!Enable, Deploy!Linux, Deploy!At, InOrder, Jobs, Removing, Placing, After, Running, Scanned
  <2> QED BY <1>9, <1>0, <2>2, GoOn, GoOut DEF Deploy!Enable
<1>10. CASE Deploy!UnlinkPlist
  <2>3. Deploy!Removed => Ordered'
    BY <1>10, <1>0, RemovedOn DEF Deploy!UnlinkPlist, Deploy!Darwin, Deploy!At, Removing, Placing, After, Running, Scanned
  <2> QED BY <1>10, <1>0, <2>3, GoOn, GoOut DEF Deploy!UnlinkPlist
<1>11. CASE Deploy!UnlinkUnits
  <2>3. Deploy!Removed => Ordered'
    BY <1>11, <1>0, RemovedOn DEF Deploy!UnlinkUnits, Deploy!Linux, Deploy!At, Removing, Placing, After, Running, Scanned
  <2> QED BY <1>11, <1>0, <2>3, GoOn, GoOut DEF Deploy!UnlinkUnits
<1>12. CASE Deploy!DeleteHourly
  <2>2. InOrder("command", [job["command"] EXCEPT !.pc = "unlink"])
    BY <1>12, <1>0 DEF Deploy!DeleteHourly, Deploy!Windows, Deploy!At, InOrder, Jobs, Removing, Placing, After, Running, Scanned
  <2>3. Deploy!Removed => Ordered'
    BY <1>12, <1>0, RemovedOn DEF Deploy!DeleteHourly, Deploy!Windows, Deploy!At, Removing, Placing, After, Running, Scanned
  <2> QED BY <1>12, <1>0, <2>2, <2>3, GoOn, GoOut DEF Deploy!DeleteHourly
<1>13. CASE Deploy!DeleteLogon
  <2>3. Deploy!Removed => Ordered'
    BY <1>13, <1>0, RemovedOn DEF Deploy!DeleteLogon, Deploy!Windows, Deploy!At, Removing, Placing, After, Running, Scanned
  <2> QED BY <1>13, <1>0, <2>3, GoOn, GoOut DEF Deploy!DeleteLogon
<1>14. CASE Deploy!CreateHourly
  <2>2. InOrder("command", [job["command"] EXCEPT !.pc = "tune"])
    BY <1>14, <1>0 DEF Deploy!CreateHourly, Deploy!Windows, Deploy!At, InOrder, Jobs, Removing, Placing, After, Running, Scanned
  <2> QED BY <1>14, <1>0, <2>2, GoOn, GoOut DEF Deploy!CreateHourly
<1>15. CASE Deploy!Tune
  <2>2. InOrder("command", [job["command"] EXCEPT !.pc = "logon"])
    BY <1>15, <1>0 DEF Deploy!Tune, Deploy!Windows, Deploy!At, InOrder, Jobs, Removing, Placing, After, Running, Scanned
  <2> QED BY <1>15, <1>0, <2>2, GoOn, GoOut DEF Deploy!Tune
<1>16. CASE Deploy!CreateLogon
  <2>2. InOrder("command", [job["command"] EXCEPT !.pc = "persist"])
    BY <1>16, <1>0 DEF Deploy!CreateLogon, Deploy!Windows, Deploy!At, InOrder, Jobs, Removing, Placing, After, Running, Scanned
  <2> QED BY <1>16, <1>0, <2>2, GoOn, GoOut DEF Deploy!CreateLogon
<1>17. CASE Deploy!Install
  <2>1. InOrder("command", [Deploy!Rest EXCEPT !.pc = "query", !.cmd = "install", !.new = MaxCommands - calls + 1, !.seen = Deploy!Load(box.who)])
    BY <1>x DEF InOrder, Deploy!Rest, Used, Removing, Placing, After, Running, Scanned
  <2> QED BY <1>17, <1>0, <2>1, OneMoves, GoBack DEF Deploy!Install
<1>18. CASE Deploy!ScanByHand
  <2>1. InOrder("command", [Deploy!Rest EXCEPT !.pc = "gate", !.cmd = "scan"])
    BY DEF InOrder, Deploy!Rest, Removing, Placing, After, Running, Scanned
  <2> QED BY <1>18, <1>0, <2>1, OneMoves DEF Deploy!ScanByHand
<1>19. CASE Deploy!Uninstall
  <2>1. InOrder("command", [Deploy!Rest EXCEPT !.pc = "query", !.cmd = "uninstall"])
    BY DEF InOrder, Deploy!Rest, Removing, Placing, After, Running, Scanned
  <2> QED BY <1>19, <1>0, <2>1, OneMoves DEF Deploy!Uninstall
<1>20. CASE Deploy!bootstrap
  <2>1. /\ InOrder("command", [job["command"] EXCEPT !.pc = "persist"])
        /\ InOrder("command", [job["command"] EXCEPT !.tries = @ + 1])
    BY <1>20, <1>0 DEF Deploy!bootstrap, Deploy!Darwin, Deploy!At, InOrder, Jobs, Removing, Placing, After, Running, Scanned
  <2> QED BY <1>20, <1>0, <2>1, OneMoves, StartedOn, GoOut DEF Deploy!bootstrap
<1>21. CASE Deploy!RunNow
  <2>1. InOrder("command", [job["command"] EXCEPT !.pc = "hooks"])
    BY <1>21, <1>0 DEF Deploy!RunNow, Deploy!At, InOrder, Jobs, Removing, Placing, After, Running, Scanned
  <2> QED BY <1>21, <1>0, <2>1, GoOn, StartedOn DEF Deploy!RunNow
<1>22. CASE Deploy!StopService
  <2>1. InOrder("command", [job["command"] EXCEPT !.pc = "unlink"])
    BY <1>22, <1>0 DEF Deploy!StopService, Deploy!Linux, Deploy!At, InOrder, Jobs, Removing, Placing, After, Running, Scanned
  <2>2. InOrder("cycle", Deploy!Rest)
    BY DEF InOrder, Deploy!Rest
  <2>3. CASE Deploy!Go("command", "unlink")
    BY <1>0, <2>1, <2>3, GoOn
  <2>4. CASE job' = [job EXCEPT !["command"].pc = "unlink", !["cycle"] = IF @.by = "scheduler" THEN Deploy!Rest ELSE @]
    <3>1. \A q \in Deploy!Processes : InOrder(q, job'[q])
      BY <1>0, <2>1, <2>2, <2>4 DEF Deploy!Processes, Ordered, Jobbing
    <3> QED BY <3>1 DEF Ordered, InOrder
  <2> QED BY <1>22, <2>3, <2>4 DEF Deploy!StopService
<1>23. CASE Deploy!StartTimer
  <2>1. /\ InOrder("command", [job["command"] EXCEPT !.pc = "package"])
        /\ InOrder("command", [job["command"] EXCEPT !.pc = "package", !.warned = TRUE])
    BY <1>23, <1>0 DEF Deploy!StartTimer, Deploy!Linux, Deploy!At, InOrder, Jobs, Removing, Placing, After, Running, Scanned
  <2> QED BY <1>23, <1>0, <2>1, GoOn, OneMoves DEF Deploy!StartTimer
<1>24. CASE Deploy!Persist
  <2>1. Deploy!Onward \in {"hooks", "trigger", "gate"}
    BY DEF Deploy!Onward
  <2>2. /\ InOrder("command", [job["command"] EXCEPT !.pc = Deploy!Onward, !.recorded = ~Deploy!ConfigInvalid(box.who)])
        /\ InOrder("command", [job["command"] EXCEPT !.pc = "save", !.seen = Deploy!Load(box.who)])
    BY <1>24, <1>0, <2>1 DEF Deploy!Persist, Deploy!At, InOrder, Jobs, Removing, Placing, After, Running, Scanned
  <2>3. \/ job' = [job EXCEPT !["command"] = [job["command"] EXCEPT !.pc = Deploy!Onward, !.recorded = ~Deploy!ConfigInvalid(box.who)]]
        \/ job' = [job EXCEPT !["command"] = [job["command"] EXCEPT !.pc = "save", !.seen = Deploy!Load(box.who)]]
    BY <1>24 DEF Deploy!Persist
  <2> QED BY <1>0, <2>2, <2>3, OneMoves
<1>25. CASE Deploy!Save
  <2>1. Deploy!Onward \in {"hooks", "trigger", "gate"}
    BY DEF Deploy!Onward
  <2>2. /\ InOrder("command", [job["command"] EXCEPT !.pc = Deploy!Onward, !.recorded = TRUE])
        /\ InOrder("command", [job["command"] EXCEPT !.pc = Deploy!Onward])
        /\ InOrder("command", [job["command"] EXCEPT !.pc = "inplace"])
    BY <1>25, <1>0, <2>1 DEF Deploy!Save, Deploy!At, InOrder, Jobs, Removing, Placing, After, Running, Scanned
  <2> QED BY <1>25, <1>0, <2>2, GoOn, OneMoves DEF Deploy!Save
<1>26. CASE Deploy!SaveInPlace
  <2>1. Deploy!Onward \in {"hooks", "trigger", "gate"}
    BY DEF Deploy!Onward
  <2>2. /\ InOrder("command", [job["command"] EXCEPT !.pc = Deploy!Onward, !.recorded = TRUE])
        /\ InOrder("command", [job["command"] EXCEPT !.pc = Deploy!Onward])
        /\ InOrder("command", [job["command"] EXCEPT !.pc = "inplace"])
    BY <1>26, <1>0, <2>1 DEF Deploy!SaveInPlace, Deploy!At, InOrder, Jobs, Removing, Placing, After, Running, Scanned
  <2> QED BY <1>26, <1>0, <2>2, GoOn, OneMoves DEF Deploy!SaveInPlace
<1>27. CASE Deploy!Enterprise
  <2>1. InOrder("cycle", [job["cycle"] EXCEPT !.pc = "gate"])
    BY <1>27, <1>0 DEF Deploy!Enterprise, Deploy!At, InOrder, Jobs, Jobbing, Ordered, Removing, Placing, After, Running, Scanned
  <2> QED BY <1>27, <1>0, <2>1, GoOn, GoOut DEF Deploy!Enterprise
<1>28. CASE Deploy!TornDown
  <2> QED BY <1>28 DEF Deploy!TornDown, Ordered, InOrder
<1>29. CASE Deploy!Boot
  <2> QED BY <1>29 DEF Deploy!Boot, Ordered, InOrder
<1>30. CASE Deploy!Prompt
  <2> QED BY <1>30 DEF Deploy!Prompt, Ordered, InOrder
<1>31. CASE Deploy!Fire
  <2> QED BY <1>31, <1>0, StartedOn, StartedHere DEF Deploy!Fire
<1>32. CASE Deploy!Configure
  <2>1. InOrder("command", [job["command"] EXCEPT !.recorded = FALSE])
    BY <1>0 DEF InOrder, Jobs
  <2> QED BY <1>32, <1>0, <2>1, OneMoves DEF Deploy!Configure, Deploy!Reconfigured
<1>33. CASE Deploy!Answer
  <2>1. InOrder("command", [job["command"] EXCEPT !.recorded = FALSE])
    BY <1>0 DEF InOrder, Jobs
  <2> QED BY <1>33, <1>0, <2>1, OneMoves DEF Deploy!Answer, Deploy!Reconfigured
<1>34. ASSUME NEW p \in Deploy!Processes, Deploy!Gate(p) PROVE Ordered'
  <2>0. InOrder(p, job[p]) /\ job[p] \in Jobs
    BY <1>0 DEF Ordered, Jobbing
  <2>1. /\ InOrder(p, [job[p] EXCEPT !.pc = "scan"])
        /\ Deploy!Installing(p) => InOrder(p, [job[p] EXCEPT !.pc = Deploy!AfterScan(p)])
    BY <1>34, <2>0 DEF Deploy!Gate, Deploy!At, Deploy!AfterScan, Deploy!Installing, InOrder, Jobs, Removing, Placing, After, Running, Scanned
  <2> QED BY <1>34, <1>0, <2>1, GoOn, GoOut DEF Deploy!Gate
<1>35. ASSUME NEW p \in Deploy!Processes, Deploy!Scan(p) PROVE Ordered'
  <2>0. InOrder(p, job[p]) /\ job[p] \in Jobs
    BY <1>0 DEF Ordered, Jobbing
  <2>1. /\ InOrder(p, [job[p] EXCEPT !.pc = "scanning"])
        /\ InOrder(p, [job[p] EXCEPT !.pc = Deploy!AfterScan(p), !.telemetry = "failed", !.busy = (job[lock].new = job[p].new)])
    BY <1>35, <2>0 DEF Deploy!Scan, Deploy!At, Deploy!AfterScan, Deploy!Installing, InOrder, Jobs, Removing, Placing, After, Running, Scanned
  <2>2. CASE lock = "free"
    BY <1>35, <1>0, <2>1, <2>2, GoOn DEF Deploy!Scan
  <2>3. CASE lock # "free"
    <3>1. job' = [job EXCEPT ![p] = [job[p] EXCEPT !.pc = Deploy!AfterScan(p), !.telemetry = "failed",
                                                   !.busy = (job[lock].new = job[p].new)]]
      BY <1>35, <2>3 DEF Deploy!Scan
    <3> QED BY <1>0, <2>1, <3>1, OneMoves
  <2> QED BY <2>2, <2>3
<1>36. ASSUME NEW p \in Deploy!Processes, Deploy!Scanned(p) PROVE Ordered'
  <2>0. InOrder(p, job[p]) /\ job[p] \in Jobs
    BY <1>0 DEF Ordered, Jobbing
  <2>1. /\ InOrder(p, [job[p] EXCEPT !.pc = Deploy!AfterScan(p), !.telemetry = "ok"])
        /\ InOrder(p, [job[p] EXCEPT !.pc = Deploy!AfterScan(p), !.telemetry = "failed"])
    BY <1>36, <2>0 DEF Deploy!Scanned, Deploy!At, Deploy!AfterScan, Deploy!Installing, InOrder, Jobs, Removing, Placing, After, Running, Scanned
  <2> QED BY <1>36, <1>0, <2>1, OneMoves DEF Deploy!Scanned
<1>37. ASSUME NEW p \in Deploy!Processes, Deploy!EnforcePackages(p) PROVE Ordered'
  <2>0. InOrder(p, job[p]) /\ job[p] \in Jobs
    BY <1>0 DEF Ordered, Jobbing
  <2>1. InOrder(p, [job[p] EXCEPT !.pc = "verdict", !.did = @ \cup Deploy!Lanes(p)])
    BY <1>37, <2>0 DEF Deploy!EnforcePackages, Deploy!At, InOrder, Jobs, Removing, Placing, After, Running, Scanned
  <2> QED BY <1>37, <1>0, <2>1, OneMoves DEF Deploy!EnforcePackages
<1>38. ASSUME NEW p \in Deploy!Processes, Deploy!Verdict(p) PROVE Ordered'
  <2>0. InOrder(p, job[p]) /\ job[p] \in Jobs
    BY <1>0 DEF Ordered, Jobbing
  <2>1. job[p].cmd # "scan" => InOrder(p, [job[p] EXCEPT !.pc = "hooks"])
    BY <1>38, <2>0 DEF Deploy!Verdict, Deploy!At, InOrder, Jobs, Removing, Placing, After, Running, Scanned
  <2> QED BY <1>38, <1>0, <2>1, GoOn, GoOut DEF Deploy!Verdict
<1>39. ASSUME NEW p \in Deploy!Processes, Deploy!ReconcileHooks(p) PROVE Ordered'
  <2>0. InOrder(p, job[p]) /\ job[p] \in Jobs
    BY <1>0 DEF Ordered, Jobbing
  <2>1. InOrder(p, [[job[p] EXCEPT !.did = @ \cup {"hooks"}] EXCEPT !.pc = "ide"])
    BY <1>39, <2>0 DEF Deploy!ReconcileHooks, Deploy!At, InOrder, Jobs, Removing, Placing, After, Running, Scanned
  <2> QED BY <1>39, <1>0, <2>1, OneMoves, GoBack DEF Deploy!ReconcileHooks
<1>40. ASSUME NEW p \in Deploy!Processes, Deploy!EnforceEditors(p) PROVE Ordered'
  <2> QED BY <1>40, <1>0, GoBack DEF Deploy!EnforceEditors
<1>41. ASSUME NEW p \in Deploy!Processes, Deploy!Kill(p) PROVE Ordered'
  <2>1. InOrder(p, Deploy!Rest)
    BY DEF InOrder, Deploy!Rest
  <2> QED BY <1>41, <1>0, <2>1, OneMoves DEF Deploy!Kill
<1>42. CASE UNCHANGED Deploy!vars
  BY <1>42 DEF Deploy!vars, Ordered, InOrder
<1> QED BY <1>1, <1>2, <1>3, <1>4, <1>5, <1>6, <1>7, <1>8, <1>9, <1>10, <1>11, <1>12, <1>13, <1>14, <1>15, <1>16, <1>17, <1>18, <1>19, <1>20, <1>21, <1>22, <1>23, <1>24, <1>25, <1>26, <1>27, <1>28, <1>29, <1>30, <1>31, <1>32, <1>33, <1>34, <1>35, <1>36, <1>37, <1>38, <1>39, <1>40, <1>41, <1>42 DEF Deploy!Next, Deploy!Step, Deploy!DarwinStep, Deploy!LinuxStep, Deploy!WindowsStep

-----------------------------------------------------------------------------
LEMMA OneDoes ==
    ASSUME Jobbing, Doing, box' = box, NEW p \in Deploy!Processes, NEW j, job' = [job EXCEPT ![p] = j], Done(j)
    PROVE  Doing'
<1>1. \A q \in Deploy!Processes : job'[q] = IF q = p THEN j ELSE job[q]
  BY DEF Jobbing
<1> QED BY <1>1 DEF Doing, Done, For

LEMMA GoDoes ==
    ASSUME Jobbing, Doing, box' = box, NEW p \in Deploy!Processes, NEW l, Deploy!Go(p, l), Done([job[p] EXCEPT !.pc = l])
    PROVE  Doing'
BY OneDoes DEF Deploy!Go

LEMMA EndedDoes ==
    ASSUME Jobbing, Doing, box' = box, NEW p \in Deploy!Processes, NEW code, NEW j, Deploy!Ended(p, code, j)
    PROVE  Doing'
<1>1. Done(Deploy!Rest)
  BY DEF Done, Deploy!Rest
<1> QED BY <1>1, OneDoes DEF Deploy!Ended

LEMMA ExitDoes ==
    ASSUME Jobbing, Doing, box' = box, NEW p \in Deploy!Processes, NEW code, Deploy!Exit(p, code)
    PROVE  Doing'
BY EndedDoes DEF Deploy!Exit

LEMMA InstallDoes ==
    ASSUME Jobbing, Doing, box' = box, job["command"].cmd \in {"install", "uninstall"}, NEW l, Deploy!Go("command", l)
    PROVE  Doing'
<1>1. "command" \in Deploy!Processes /\ job["command"] \in Jobs
  BY DEF Deploy!Processes, Jobbing
<1>2. Done([job["command"] EXCEPT !.pc = l])
  BY <1>1 DEF Done, Jobs
<1> QED BY <1>1, <1>2, GoDoes

LEMMA RemovedDoes ==
    ASSUME Jobbing, Doing, box' = box, Deploy!Removed
    PROVE  Doing'
<1>1. "command" \in Deploy!Processes
  BY DEF Deploy!Processes
<1> QED BY <1>1, InstallDoes, ExitDoes DEF Deploy!Removed

LEMMA StartedDoes ==
    ASSUME Jobbing, Doing, box' = box, NEW j, Done(j), NEW v, job' = Deploy!Started([job EXCEPT !["command"] = j], v)
    PROVE  Doing'
<1>1. "command" \in Deploy!Processes /\ "cycle" \in Deploy!Processes
  BY DEF Deploy!Processes
<1>2. Done([Deploy!Rest EXCEPT !.pc = "enterprise", !.cmd = "send-telemetry", !.new = v, !.by = "scheduler"])
  BY DEF Done, Deploy!Rest, Timed
<1>3. job'["command"] = j
  BY <1>1 DEF Deploy!Started, Jobbing
<1>4. Done(job'["cycle"])
  BY <1>1, <1>2 DEF Deploy!Started, Jobbing, Doing
<1>5. \A q \in Deploy!Processes : Done(job'[q])
  BY <1>3, <1>4 DEF Deploy!Processes
<1> QED BY <1>5 DEF Doing, Done, For

LEMMA DoingStep ==
    ASSUME Deploy!DeploymentAssumption, Sorted, Ordered, Doing, [Deploy!Next]_Deploy!vars
    PROVE  Doing'
<1>0. /\ Jobbing /\ "command" \in Deploy!Processes /\ "cycle" \in Deploy!Processes
      /\ InOrder("command", job["command"]) /\ job["command"] \in Jobs
  BY DEF Sorted, Deploy!Processes, Jobbing, Ordered
<1>1. CASE Deploy!Query
  <2>1. job["command"].cmd \in {"install", "uninstall"}
    BY <1>1, <1>0 DEF Deploy!Query, Deploy!At, InOrder, Removing, Placing, After, Running
  <2> QED BY <1>1, <1>0, <2>1, InstallDoes, ExitDoes, RemovedDoes DEF Deploy!Query, Deploy!Same
<1>2. CASE Deploy!Bootout
  <2>1. job["command"].cmd \in {"install", "uninstall"}
    BY <1>2, <1>0 DEF Deploy!Bootout, Deploy!Darwin, Deploy!At, InOrder, Removing, Placing, After, Running
  <2> QED BY <1>2, <1>0, <2>1, InstallDoes, ExitDoes, RemovedDoes DEF Deploy!Bootout, Deploy!Same
<1>3. CASE Deploy!waitForBootout
  <2>1. job["command"].cmd \in {"install", "uninstall"}
    BY <1>3, <1>0 DEF Deploy!waitForBootout, Deploy!Darwin, Deploy!At, InOrder, Removing, Placing, After, Running
  <2> QED BY <1>3, <1>0, <2>1, InstallDoes, ExitDoes, RemovedDoes DEF Deploy!waitForBootout, Deploy!Same
<1>4. CASE Deploy!UnlinkPlist
  <2>1. job["command"].cmd \in {"install", "uninstall"}
    BY <1>4, <1>0 DEF Deploy!UnlinkPlist, Deploy!Darwin, Deploy!At, InOrder, Removing, Placing, After, Running
  <2> QED BY <1>4, <1>0, <2>1, InstallDoes, ExitDoes, RemovedDoes DEF Deploy!UnlinkPlist, Deploy!Same
<1>5. CASE Deploy!WritePlist
  <2>1. job["command"].cmd \in {"install", "uninstall"}
    BY <1>5, <1>0 DEF Deploy!WritePlist, Deploy!Darwin, Deploy!At, InOrder, Removing, Placing, After, Running
  <2> QED BY <1>5, <1>0, <2>1, InstallDoes, ExitDoes, RemovedDoes DEF Deploy!WritePlist, Deploy!Same
<1>6. CASE Deploy!FillPlist
  <2>1. job["command"].cmd \in {"install", "uninstall"}
    BY <1>6, <1>0 DEF Deploy!FillPlist, Deploy!Darwin, Deploy!At, InOrder, Removing, Placing, After, Running
  <2> QED BY <1>6, <1>0, <2>1, InstallDoes, ExitDoes, RemovedDoes DEF Deploy!FillPlist, Deploy!Same
<1>7. CASE Deploy!Disable
  <2>1. job["command"].cmd \in {"install", "uninstall"}
    BY <1>7, <1>0 DEF Deploy!Disable, Deploy!Linux, Deploy!At, InOrder, Removing, Placing, After, Running
  <2> QED BY <1>7, <1>0, <2>1, InstallDoes, ExitDoes, RemovedDoes DEF Deploy!Disable, Deploy!Same
<1>8. CASE Deploy!WriteService
  <2>1. job["command"].cmd \in {"install", "uninstall"}
    BY <1>8, <1>0 DEF Deploy!WriteService, Deploy!Linux, Deploy!At, InOrder, Removing, Placing, After, Running
  <2> QED BY <1>8, <1>0, <2>1, InstallDoes, ExitDoes, RemovedDoes DEF Deploy!WriteService, Deploy!Same
<1>9. CASE Deploy!WriteTimer
  <2>1. job["command"].cmd \in {"install", "uninstall"}
    BY <1>9, <1>0 DEF Deploy!WriteTimer, Deploy!Linux, Deploy!At, InOrder, Removing, Placing, After, Running
  <2> QED BY <1>9, <1>0, <2>1, InstallDoes, ExitDoes, RemovedDoes DEF Deploy!WriteTimer, Deploy!Same
<1>10. CASE Deploy!Enable
  <2>1. job["command"].cmd \in {"install", "uninstall"}
    BY <1>10, <1>0 DEF Deploy!Enable, Deploy!Linux, Deploy!At, InOrder, Removing, Placing, After, Running
  <2> QED BY <1>10, <1>0, <2>1, InstallDoes, ExitDoes, RemovedDoes DEF Deploy!Enable, Deploy!Same
<1>11. CASE Deploy!UnlinkUnits
  <2>1. job["command"].cmd \in {"install", "uninstall"}
    BY <1>11, <1>0 DEF Deploy!UnlinkUnits, Deploy!Linux, Deploy!At, InOrder, Removing, Placing, After, Running
  <2> QED BY <1>11, <1>0, <2>1, InstallDoes, ExitDoes, RemovedDoes DEF Deploy!UnlinkUnits, Deploy!Same
<1>12. CASE Deploy!DeleteHourly
  <2>1. job["command"].cmd \in {"install", "uninstall"}
    BY <1>12, <1>0 DEF Deploy!DeleteHourly, Deploy!Windows, Deploy!At, InOrder, Removing, Placing, After, Running
  <2> QED BY <1>12, <1>0, <2>1, InstallDoes, ExitDoes, RemovedDoes DEF Deploy!DeleteHourly, Deploy!Same
<1>13. CASE Deploy!DeleteLogon
  <2>1. job["command"].cmd \in {"install", "uninstall"}
    BY <1>13, <1>0 DEF Deploy!DeleteLogon, Deploy!Windows, Deploy!At, InOrder, Removing, Placing, After, Running
  <2> QED BY <1>13, <1>0, <2>1, InstallDoes, ExitDoes, RemovedDoes DEF Deploy!DeleteLogon, Deploy!Same
<1>14. CASE Deploy!CreateHourly
  <2>1. job["command"].cmd \in {"install", "uninstall"}
    BY <1>14, <1>0 DEF Deploy!CreateHourly, Deploy!Windows, Deploy!At, InOrder, Removing, Placing, After, Running
  <2> QED BY <1>14, <1>0, <2>1, InstallDoes, ExitDoes, RemovedDoes DEF Deploy!CreateHourly, Deploy!Same
<1>15. CASE Deploy!Tune
  <2>1. job["command"].cmd \in {"install", "uninstall"}
    BY <1>15, <1>0 DEF Deploy!Tune, Deploy!Windows, Deploy!At, InOrder, Removing, Placing, After, Running
  <2> QED BY <1>15, <1>0, <2>1, InstallDoes, ExitDoes, RemovedDoes DEF Deploy!Tune, Deploy!Same
<1>16. CASE Deploy!CreateLogon
  <2>1. job["command"].cmd \in {"install", "uninstall"}
    BY <1>16, <1>0 DEF Deploy!CreateLogon, Deploy!Windows, Deploy!At, InOrder, Removing, Placing, After, Running
  <2> QED BY <1>16, <1>0, <2>1, InstallDoes, ExitDoes, RemovedDoes DEF Deploy!CreateLogon, Deploy!Same
<1>17. CASE Deploy!Install
  <2>1. Done([Deploy!Rest EXCEPT !.pc = "query", !.cmd = "install", !.new = MaxCommands - calls + 1, !.seen = Deploy!Load(box.who)])
    BY DEF Done, Deploy!Rest
  <2> QED BY <1>17, <1>0, <2>1, OneDoes, EndedDoes DEF Deploy!Install
<1>18. CASE Deploy!ScanByHand
  <2>1. Done([Deploy!Rest EXCEPT !.pc = "gate", !.cmd = "scan"])
    BY DEF Done, Deploy!Rest, Timed
  <2> QED BY <1>18, <1>0, <2>1, OneDoes DEF Deploy!ScanByHand
<1>19. CASE Deploy!Uninstall
  <2>1. Done([Deploy!Rest EXCEPT !.pc = "query", !.cmd = "uninstall"])
    BY DEF Done, Deploy!Rest, Timed
  <2> QED BY <1>19, <1>0, <2>1, OneDoes DEF Deploy!Uninstall
<1>20. CASE Deploy!bootstrap
  <2>1. job["command"].cmd \in {"install", "uninstall"}
    BY <1>20, <1>0 DEF Deploy!bootstrap, Deploy!Darwin, Deploy!At, InOrder, Removing, Placing, After, Running
  <2>2. /\ Done([job["command"] EXCEPT !.pc = "persist"])
        /\ Done([job["command"] EXCEPT !.tries = @ + 1])
    BY <1>0, <2>1 DEF Done, Jobs
  <2> QED BY <1>20, <1>0, <2>2, OneDoes, StartedDoes, ExitDoes DEF Deploy!bootstrap, Deploy!Same
<1>21. CASE Deploy!RunNow
  <2>1. job["command"].cmd \in {"install", "uninstall"}
    BY <1>21, <1>0 DEF Deploy!RunNow, Deploy!At, InOrder, Removing, Placing, After, Running
  <2>2. Done([job["command"] EXCEPT !.pc = "hooks"])
    BY <1>0, <2>1 DEF Done, Jobs
  <2> QED BY <1>21, <1>0, <2>2, GoDoes, StartedDoes DEF Deploy!RunNow, Deploy!Same
<1>22. CASE Deploy!StopService
  <2>1. job["command"].cmd \in {"install", "uninstall"}
    BY <1>22, <1>0 DEF Deploy!StopService, Deploy!Linux, Deploy!At, InOrder, Removing, Placing, After, Running
  <2>2. CASE Deploy!Go("command", "unlink")
    BY <1>22, <1>0, <2>1, <2>2, InstallDoes DEF Deploy!StopService, Deploy!Same
  <2>3. CASE job' = [job EXCEPT !["command"].pc = "unlink", !["cycle"] = IF @.by = "scheduler" THEN Deploy!Rest ELSE @]
    <3>1. Done([job["command"] EXCEPT !.pc = "unlink"]) /\ Done(Deploy!Rest)
      BY <1>0, <2>1 DEF Done, Jobs, Deploy!Rest
    <3>2. \A q \in Deploy!Processes : Done(job'[q])
      BY <1>0, <2>3, <3>1 DEF Deploy!Processes, Doing, Jobbing
    <3>3. box' = box
      BY <1>22 DEF Deploy!StopService, Deploy!Same
    <3> QED BY <3>2, <3>3 DEF Doing, Done, For
  <2> QED BY <1>22, <2>2, <2>3 DEF Deploy!StopService
<1>23. CASE Deploy!StartTimer
  <2>1. job["command"].cmd \in {"install", "uninstall"}
    BY <1>23, <1>0 DEF Deploy!StartTimer, Deploy!Linux, Deploy!At, InOrder, Removing, Placing, After, Running
  <2>2. Done([job["command"] EXCEPT !.pc = "package", !.warned = TRUE])
    BY <1>0, <2>1 DEF Done, Jobs
  <2>3. \/ Deploy!Go("command", "package")
        \/ job' = [job EXCEPT !["command"] = [job["command"] EXCEPT !.pc = "package", !.warned = TRUE]]
    BY <1>23 DEF Deploy!StartTimer
  <2>4. box' = box
    BY <1>23 DEF Deploy!StartTimer, Deploy!Same
  <2> QED BY <1>0, <2>1, <2>2, <2>3, <2>4, InstallDoes, OneDoes
<1>24. CASE Deploy!Persist
  <2>1. job["command"].cmd \in {"install", "uninstall"}
    BY <1>24, <1>0 DEF Deploy!Persist, Deploy!At, InOrder, Removing, Placing, After, Running
  <2>2. /\ Done([job["command"] EXCEPT !.pc = Deploy!Onward, !.recorded = ~Deploy!ConfigInvalid(box.who)])
        /\ Done([job["command"] EXCEPT !.pc = "save", !.seen = Deploy!Load(box.who)])
    BY <1>0, <2>1 DEF Done, Jobs
  <2>3. \/ job' = [job EXCEPT !["command"] = [job["command"] EXCEPT !.pc = Deploy!Onward, !.recorded = ~Deploy!ConfigInvalid(box.who)]]
        \/ job' = [job EXCEPT !["command"] = [job["command"] EXCEPT !.pc = "save", !.seen = Deploy!Load(box.who)]]
    BY <1>24 DEF Deploy!Persist
  <2>4. box' = box
    BY <1>24 DEF Deploy!Persist, Deploy!Same
  <2> QED BY <1>0, <2>2, <2>3, <2>4, OneDoes
<1>25. CASE Deploy!Save
  <2>1. job["command"].cmd \in {"install", "uninstall"}
    BY <1>25, <1>0 DEF Deploy!Save, Deploy!At, InOrder, Removing, Placing, After, Running
  <2>2. Done([job["command"] EXCEPT !.pc = Deploy!Onward, !.recorded = TRUE])
    BY <1>0, <2>1 DEF Done, Jobs
  <2>3. \/ job' = [job EXCEPT !["command"] = [job["command"] EXCEPT !.pc = Deploy!Onward, !.recorded = TRUE]]
        \/ Deploy!Go("command", Deploy!Onward)
        \/ Deploy!Go("command", "inplace")
    BY <1>25 DEF Deploy!Save
  <2>4. box' = box
    BY <1>25 DEF Deploy!Save, Deploy!Same
  <2> QED BY <1>0, <2>1, <2>2, <2>3, <2>4, InstallDoes, OneDoes
<1>26. CASE Deploy!SaveInPlace
  <2>1. job["command"].cmd \in {"install", "uninstall"}
    BY <1>26, <1>0 DEF Deploy!SaveInPlace, Deploy!At, InOrder, Removing, Placing, After, Running
  <2>2. Done([job["command"] EXCEPT !.pc = Deploy!Onward, !.recorded = TRUE])
    BY <1>0, <2>1 DEF Done, Jobs
  <2>3. \/ job' = [job EXCEPT !["command"] = [job["command"] EXCEPT !.pc = Deploy!Onward, !.recorded = TRUE]]
        \/ Deploy!Go("command", Deploy!Onward)
    BY <1>26 DEF Deploy!SaveInPlace
  <2>4. box' = box
    BY <1>26 DEF Deploy!SaveInPlace, Deploy!Same
  <2> QED BY <1>0, <2>1, <2>2, <2>3, <2>4, InstallDoes, OneDoes
<1>27. CASE Deploy!Enterprise
  <2>1. Done([job["cycle"] EXCEPT !.pc = "gate"])
    BY <1>27, <1>0 DEF Deploy!Enterprise, Deploy!At, Done, Jobs, Jobbing, Doing, Timed
  <2> QED BY <1>27, <1>0, <2>1, GoDoes, ExitDoes DEF Deploy!Enterprise, Deploy!Same
<1>28. CASE Deploy!TornDown
  <2> QED BY <1>28 DEF Deploy!TornDown, Doing, Done, For, Deploy!Same
<1>29. CASE Deploy!Boot
  <2> QED BY <1>29 DEF Deploy!Boot, Doing, Done, For, Deploy!Same
<1>30. CASE Deploy!Prompt
  <2> QED BY <1>30 DEF Deploy!Prompt, Doing, Done, For, Deploy!Same
<1>31. CASE Deploy!Fire
  <2>1. Done(job["command"])
    BY <1>0 DEF Doing
  <2> QED BY <1>31, <1>0, <2>1, StartedDoes, StartedHere DEF Deploy!Fire
<1>32. CASE Deploy!Configure
  <2>1. Done([job["command"] EXCEPT !.recorded = FALSE])
    BY <1>0 DEF Doing, Done, Jobs
  <2> QED BY <1>32, <1>0, <2>1, OneDoes DEF Deploy!Configure, Deploy!Reconfigured
<1>33. CASE Deploy!Answer
  <2>1. Done([job["command"] EXCEPT !.recorded = FALSE])
    BY <1>0 DEF Doing, Done, Jobs
  <2> QED BY <1>33, <1>0, <2>1, OneDoes DEF Deploy!Answer, Deploy!Reconfigured
<1>34. ASSUME NEW p \in Deploy!Processes, Deploy!Gate(p) PROVE Doing'
  <2>0. InOrder(p, job[p]) /\ job[p] \in Jobs /\ Done(job[p]) /\ box' = box
    BY <1>34, <1>0 DEF Ordered, Doing, Jobbing, Deploy!Gate, Deploy!Same
  <2>1. /\ Done([job[p] EXCEPT !.pc = "scan"])
        /\ Deploy!Installing(p) => Done([job[p] EXCEPT !.pc = Deploy!AfterScan(p)])
    BY <1>34, <2>0 DEF Deploy!Gate, Deploy!At, Deploy!Installing, Done, Jobs, Timed
  <2> QED BY <1>34, <1>0, <2>0, <2>1, GoDoes, ExitDoes DEF Deploy!Gate
<1>35. ASSUME NEW p \in Deploy!Processes, Deploy!Scan(p) PROVE Doing'
  <2>0. InOrder(p, job[p]) /\ job[p] \in Jobs /\ Done(job[p]) /\ box' = box
    BY <1>35, <1>0 DEF Ordered, Doing, Jobbing, Deploy!Scan, Deploy!Same
  <2>1. /\ Done([job[p] EXCEPT !.pc = "scanning"])
        /\ Done([job[p] EXCEPT !.pc = Deploy!AfterScan(p), !.telemetry = "failed", !.busy = (job[lock].new = job[p].new)])
    BY <1>35, <2>0 DEF Deploy!Scan, Deploy!At, Deploy!AfterScan, Deploy!Installing, Done, Jobs, Timed
  <2>2. CASE lock = "free"
    BY <1>35, <1>0, <2>0, <2>1, <2>2, GoDoes DEF Deploy!Scan
  <2>3. CASE lock # "free"
    <3>1. job' = [job EXCEPT ![p] = [job[p] EXCEPT !.pc = Deploy!AfterScan(p), !.telemetry = "failed",
                                                   !.busy = (job[lock].new = job[p].new)]]
      BY <1>35, <2>3 DEF Deploy!Scan
    <3> QED BY <1>0, <2>0, <2>1, <3>1, OneDoes
  <2> QED BY <2>2, <2>3
<1>36. ASSUME NEW p \in Deploy!Processes, Deploy!Scanned(p) PROVE Doing'
  <2>0. InOrder(p, job[p]) /\ job[p] \in Jobs /\ Done(job[p]) /\ box' = box
    BY <1>36, <1>0 DEF Ordered, Doing, Jobbing, Deploy!Scanned, Deploy!Same
  <2>1. /\ Done([job[p] EXCEPT !.pc = Deploy!AfterScan(p), !.telemetry = "ok"])
        /\ Done([job[p] EXCEPT !.pc = Deploy!AfterScan(p), !.telemetry = "failed"])
    BY <1>36, <2>0 DEF Deploy!Scanned, Deploy!At, Deploy!AfterScan, Deploy!Installing, Done, Jobs, Timed
  <2>2. \/ job' = [job EXCEPT ![p] = [job[p] EXCEPT !.pc = Deploy!AfterScan(p), !.telemetry = "ok"]]
        \/ job' = [job EXCEPT ![p] = [job[p] EXCEPT !.pc = Deploy!AfterScan(p), !.telemetry = "failed"]]
    BY <1>36 DEF Deploy!Scanned
  <2> QED BY <1>0, <2>0, <2>1, <2>2, OneDoes
<1>37. ASSUME NEW p \in Deploy!Processes, Deploy!EnforcePackages(p) PROVE Doing'
  <2>0. InOrder(p, job[p]) /\ job[p] \in Jobs /\ Done(job[p]) /\ box' = box
    BY <1>37, <1>0 DEF Ordered, Doing, Jobbing, Deploy!EnforcePackages, Deploy!Same
  <2>1. Done([job[p] EXCEPT !.pc = "verdict", !.did = @ \cup Deploy!Lanes(p)])
    BY <1>37, <2>0 DEF Deploy!EnforcePackages, Deploy!At, Done, Jobs, Timed, Deploy!Lanes, Deploy!Installing, For
  <2> QED BY <1>37, <1>0, <2>0, <2>1, OneDoes DEF Deploy!EnforcePackages
<1>38. ASSUME NEW p \in Deploy!Processes, Deploy!Verdict(p) PROVE Doing'
  <2>0. InOrder(p, job[p]) /\ job[p] \in Jobs /\ Done(job[p]) /\ box' = box
    BY <1>38, <1>0 DEF Ordered, Doing, Jobbing, Deploy!Verdict, Deploy!Same
  <2>1. ~Deploy!Fatal(p) /\ job[p].cmd # "scan" => Done([job[p] EXCEPT !.pc = "hooks"])
    BY <1>38, <2>0 DEF Deploy!Verdict, Deploy!At, Done, Jobs, Timed, Deploy!Fatal, Deploy!Installing
  <2> QED BY <1>38, <1>0, <2>0, <2>1, GoDoes, ExitDoes DEF Deploy!Verdict
<1>39. ASSUME NEW p \in Deploy!Processes, Deploy!ReconcileHooks(p) PROVE Doing'
  <2>0. InOrder(p, job[p]) /\ job[p] \in Jobs /\ Done(job[p]) /\ box' = box
    BY <1>39, <1>0 DEF Ordered, Doing, Jobbing, Deploy!ReconcileHooks, Deploy!Same
  <2>1. Done([[job[p] EXCEPT !.did = @ \cup {"hooks"}] EXCEPT !.pc = "ide"])
    BY <1>39, <2>0 DEF Deploy!ReconcileHooks, Deploy!At, Done, Jobs, Timed
  <2> QED BY <1>39, <1>0, <2>0, <2>1, OneDoes, EndedDoes DEF Deploy!ReconcileHooks
<1>40. ASSUME NEW p \in Deploy!Processes, Deploy!EnforceEditors(p) PROVE Doing'
  <2>0. InOrder(p, job[p]) /\ job[p] \in Jobs /\ Done(job[p]) /\ box' = box
    BY <1>40, <1>0 DEF Ordered, Doing, Jobbing, Deploy!EnforceEditors, Deploy!Same
  <2> QED BY <1>40, <1>0, <2>0, EndedDoes DEF Deploy!EnforceEditors
<1>41. ASSUME NEW p \in Deploy!Processes, Deploy!Kill(p) PROVE Doing'
  <2>0. InOrder(p, job[p]) /\ job[p] \in Jobs /\ Done(job[p]) /\ box' = box
    BY <1>41, <1>0 DEF Ordered, Doing, Jobbing, Deploy!Kill, Deploy!Same
  <2>1. Done(Deploy!Rest)
    BY DEF Done, Deploy!Rest
  <2> QED BY <1>41, <1>0, <2>0, <2>1, OneDoes DEF Deploy!Kill
<1>42. CASE UNCHANGED Deploy!vars
  BY <1>42 DEF Deploy!vars, Doing, Done, For
<1> QED BY <1>1, <1>2, <1>3, <1>4, <1>5, <1>6, <1>7, <1>8, <1>9, <1>10, <1>11, <1>12, <1>13, <1>14, <1>15, <1>16, <1>17, <1>18, <1>19, <1>20, <1>21, <1>22, <1>23, <1>24, <1>25, <1>26, <1>27, <1>28, <1>29, <1>30, <1>31, <1>32, <1>33, <1>34, <1>35, <1>36, <1>37, <1>38, <1>39, <1>40, <1>41, <1>42 DEF Deploy!Next, Deploy!Step, Deploy!DarwinStep, Deploy!LinuxStep, Deploy!WindowsStep

-----------------------------------------------------------------------------
(* What a step does to the command and to what is known of its end.        *)
Alike(a, b) ==
    /\ a.cmd = b.cmd /\ a.new = b.new /\ a.telemetry = b.telemetry /\ a.seen = b.seen
    /\ a.busy = b.busy /\ a.warned = b.warned /\ a.recorded = b.recorded
AtRest(j) == j.pc = "idle" /\ j.cmd = "none" /\ j.new = 0 /\ j.telemetry = "none" /\ j.seen.limit = 0
             /\ ~j.busy /\ ~j.warned /\ ~j.recorded
Told(l, code, j) ==
    /\ l.cmd = j.cmd /\ l.new = j.new /\ l.code = code /\ ~l.killed /\ l.telemetry = j.telemetry /\ l.did = j.did
    /\ l.busy = j.busy /\ l.warned = j.warned /\ l.recorded = j.recorded

LEMMA GoMoves ==
    ASSUME Jobbing, NEW p \in Deploy!Processes, NEW l, Deploy!Go(p, l)
    PROVE  job'[p].pc = l /\ Alike(job'[p], job[p]) /\ \A q \in Deploy!Processes : q # p => job'[q] = job[q]
<1>1. job'[p] = [job[p] EXCEPT !.pc = l] /\ \A q \in Deploy!Processes : q # p => job'[q] = job[q]
  BY DEF Jobbing, Deploy!Go
<1>2. job[p] \in Jobs
  BY DEF Jobbing
<1> QED BY <1>1, <1>2 DEF Jobs, Alike

LEMMA RestRests == AtRest(Deploy!Rest)
BY DEF AtRest, Deploy!Rest, Deploy!NoFile

LEMMA EndedMoves ==
    ASSUME Jobbing, NEW p \in Deploy!Processes, NEW code, NEW j, Deploy!Ended(p, code, j)
    PROVE  /\ AtRest(job'[p]) /\ Told(last'[p], code, j)
           /\ \A q \in Deploy!Processes : q # p => job'[q] = job[q] /\ last'[q] = last[q]
<1>1. job'[p] = Deploy!Rest /\ \A q \in Deploy!Processes : q # p => job'[q] = job[q] /\ last'[q] = last[q]
  BY DEF Jobbing, Deploy!Ended
<1>2. last'[p] = [cmd |-> j.cmd, new |-> j.new, code |-> code, killed |-> FALSE, telemetry |-> j.telemetry, did |-> j.did,
                  busy |-> j.busy, warned |-> j.warned, recorded |-> j.recorded]
  BY DEF Jobbing, Deploy!Ended
<1>3. Told(last'[p], code, j)
  BY <1>2 DEF Told
<1> QED BY <1>1, <1>3, RestRests

LEMMA ExitMoves ==
    ASSUME Jobbing, NEW p \in Deploy!Processes, NEW code, Deploy!Exit(p, code)
    PROVE  /\ AtRest(job'[p]) /\ Told(last'[p], code, job[p])
           /\ \A q \in Deploy!Processes : q # p => job'[q] = job[q] /\ last'[q] = last[q]
BY EndedMoves DEF Deploy!Exit

LEMMA RemovedMoves ==
    ASSUME Jobbing, Deploy!Removed
    PROVE  /\ job'["cycle"] = job["cycle"] /\ last'["cycle"] = last["cycle"]
           /\ \/ job["command"].cmd = "install" /\ job'["command"].pc = "write" /\ Alike(job'["command"], job["command"]) /\ last' = last
              \/ job["command"].cmd # "install" /\ AtRest(job'["command"]) /\ Told(last'["command"], 0, job["command"])
<1>1. "command" \in Deploy!Processes /\ "cycle" \in Deploy!Processes
  BY DEF Deploy!Processes
<1> QED BY <1>1, GoMoves, ExitMoves DEF Deploy!Removed

-----------------------------------------------------------------------------
LEMMA WholeHere ==
    ASSUME Deploy!RunsAreWhole, box' = box, NEW p \in Deploy!Processes,
           \A q \in Deploy!Processes : q # p => last'[q] = last[q], last'[p].cmd \notin {"send-telemetry", "scan"}
    PROVE  Deploy!RunsAreWhole'
BY DEF Deploy!RunsAreWhole

LEMMA WholeOut ==
    ASSUME Jobbing, Deploy!RunsAreWhole, box' = box, job["command"].cmd \in {"install", "uninstall"}, NEW code, Deploy!Exit("command", code)
    PROVE  Deploy!RunsAreWhole'
<1>1. "command" \in Deploy!Processes
  BY DEF Deploy!Processes
<1> QED BY <1>1, ExitMoves, WholeHere DEF Told

LEMMA WholeRemoved ==
    ASSUME Jobbing, Deploy!RunsAreWhole, box' = box, job["command"].cmd \in {"install", "uninstall"}, Deploy!Removed
    PROVE  Deploy!RunsAreWhole'
<1>1. CASE last' = last
  BY <1>1 DEF Deploy!RunsAreWhole
<1>2. CASE Deploy!Exit("command", 0)
  BY <1>2, WholeOut
<1> QED BY <1>1, <1>2 DEF Deploy!Removed

LEMMA WholeSame == ASSUME Deploy!RunsAreWhole, box' = box, last' = last PROVE Deploy!RunsAreWhole'
BY DEF Deploy!RunsAreWhole

LEMMA WholeStep ==
    ASSUME Deploy!DeploymentAssumption, Sorted, Ordered, Doing, Deploy!RunsAreWhole, [Deploy!Next]_Deploy!vars
    PROVE  Deploy!RunsAreWhole'
<1>0. /\ Jobbing /\ "command" \in Deploy!Processes /\ "cycle" \in Deploy!Processes
      /\ InOrder("command", job["command"]) /\ job["command"] \in Jobs
  BY DEF Sorted, Deploy!Processes, Jobbing, Ordered
<1>1. CASE Deploy!Query
  <2>1. job["command"].cmd \in {"install", "uninstall"}
    BY <1>1, <1>0 DEF Deploy!Query, Deploy!At, InOrder, Removing, Placing, After, Running
  <2> QED BY <1>1, <1>0, <2>1, WholeOut, WholeRemoved, WholeSame DEF Deploy!Query, Deploy!Same
<1>2. CASE Deploy!UnlinkPlist
  <2>1. job["command"].cmd \in {"install", "uninstall"}
    BY <1>2, <1>0 DEF Deploy!UnlinkPlist, Deploy!Darwin, Deploy!At, InOrder, Removing, Placing, After, Running
  <2> QED BY <1>2, <1>0, <2>1, WholeOut, WholeRemoved, WholeSame DEF Deploy!UnlinkPlist, Deploy!Same
<1>3. CASE Deploy!WritePlist
  <2>1. job["command"].cmd \in {"install", "uninstall"}
    BY <1>3, <1>0 DEF Deploy!WritePlist, Deploy!Darwin, Deploy!At, InOrder, Removing, Placing, After, Running
  <2> QED BY <1>3, <1>0, <2>1, WholeOut, WholeRemoved, WholeSame DEF Deploy!WritePlist, Deploy!Same
<1>4. CASE Deploy!FillPlist
  <2>1. job["command"].cmd \in {"install", "uninstall"}
    BY <1>4, <1>0 DEF Deploy!FillPlist, Deploy!Darwin, Deploy!At, InOrder, Removing, Placing, After, Running
  <2> QED BY <1>4, <1>0, <2>1, WholeOut, WholeRemoved, WholeSame DEF Deploy!FillPlist, Deploy!Same
<1>5. CASE Deploy!WriteService
  <2>1. job["command"].cmd \in {"install", "uninstall"}
    BY <1>5, <1>0 DEF Deploy!WriteService, Deploy!Linux, Deploy!At, InOrder, Removing, Placing, After, Running
  <2> QED BY <1>5, <1>0, <2>1, WholeOut, WholeRemoved, WholeSame DEF Deploy!WriteService, Deploy!Same
<1>6. CASE Deploy!WriteTimer
  <2>1. job["command"].cmd \in {"install", "uninstall"}
    BY <1>6, <1>0 DEF Deploy!WriteTimer, Deploy!Linux, Deploy!At, InOrder, Removing, Placing, After, Running
  <2> QED BY <1>6, <1>0, <2>1, WholeOut, WholeRemoved, WholeSame DEF Deploy!WriteTimer, Deploy!Same
<1>7. CASE Deploy!Enable
  <2>1. job["command"].cmd \in {"install", "uninstall"}
    BY <1>7, <1>0 DEF Deploy!Enable, Deploy!Linux, Deploy!At, InOrder, Removing, Placing, After, Running
  <2> QED BY <1>7, <1>0, <2>1, WholeOut, WholeRemoved, WholeSame DEF Deploy!Enable, Deploy!Same
<1>8. CASE Deploy!UnlinkUnits
  <2>1. job["command"].cmd \in {"install", "uninstall"}
    BY <1>8, <1>0 DEF Deploy!UnlinkUnits, Deploy!Linux, Deploy!At, InOrder, Removing, Placing, After, Running
  <2> QED BY <1>8, <1>0, <2>1, WholeOut, WholeRemoved, WholeSame DEF Deploy!UnlinkUnits, Deploy!Same
<1>9. CASE Deploy!DeleteHourly
  <2>1. job["command"].cmd \in {"install", "uninstall"}
    BY <1>9, <1>0 DEF Deploy!DeleteHourly, Deploy!Windows, Deploy!At, InOrder, Removing, Placing, After, Running
  <2> QED BY <1>9, <1>0, <2>1, WholeOut, WholeRemoved, WholeSame DEF Deploy!DeleteHourly, Deploy!Same
<1>10. CASE Deploy!DeleteLogon
  <2>1. job["command"].cmd \in {"install", "uninstall"}
    BY <1>10, <1>0 DEF Deploy!DeleteLogon, Deploy!Windows, Deploy!At, InOrder, Removing, Placing, After, Running
  <2> QED BY <1>10, <1>0, <2>1, WholeOut, WholeRemoved, WholeSame DEF Deploy!DeleteLogon, Deploy!Same
<1>11. CASE Deploy!CreateHourly
  <2>1. job["command"].cmd \in {"install", "uninstall"}
    BY <1>11, <1>0 DEF Deploy!CreateHourly, Deploy!Windows, Deploy!At, InOrder, Removing, Placing, After, Running
  <2> QED BY <1>11, <1>0, <2>1, WholeOut, WholeRemoved, WholeSame DEF Deploy!CreateHourly, Deploy!Same
<1>12. CASE Deploy!bootstrap
  <2>1. job["command"].cmd \in {"install", "uninstall"}
    BY <1>12, <1>0 DEF Deploy!bootstrap, Deploy!Darwin, Deploy!At, InOrder, Removing, Placing, After, Running
  <2> QED BY <1>12, <1>0, <2>1, WholeOut, WholeRemoved, WholeSame DEF Deploy!bootstrap, Deploy!Same
<1>13. CASE Deploy!Bootout \/ Deploy!waitForBootout \/ Deploy!Disable \/ Deploy!Tune \/ Deploy!CreateLogon \/ Deploy!Uninstall \/ Deploy!ScanByHand \/ Deploy!StopService \/ Deploy!StartTimer \/ Deploy!RunNow \/ Deploy!Persist \/ Deploy!Save \/ Deploy!SaveInPlace \/ Deploy!TornDown \/ Deploy!Fire \/ Deploy!Boot \/ Deploy!Prompt
  BY <1>13, WholeSame DEF Deploy!Bootout, Deploy!waitForBootout, Deploy!Disable, Deploy!Tune, Deploy!CreateLogon, Deploy!Uninstall, Deploy!ScanByHand, Deploy!StopService, Deploy!StartTimer, Deploy!RunNow, Deploy!Persist, Deploy!Save, Deploy!SaveInPlace, Deploy!TornDown, Deploy!Fire, Deploy!Boot, Deploy!Prompt, Deploy!Same
<1>14. CASE Deploy!Install
  <2>1. CASE last' = last
    BY <1>14, <2>1, WholeSame DEF Deploy!Install
  <2>2. CASE Deploy!Ended("command", 1, [Deploy!Rest EXCEPT !.cmd = "install"])
    <3>1. last'["command"].cmd = "install" /\ \A q \in Deploy!Processes : q # "command" => last'[q] = last[q]
      BY <1>0, <2>2, EndedMoves DEF Told, Deploy!Rest
    <3> QED BY <1>14, <1>0, <3>1, WholeHere DEF Deploy!Install
  <2> QED BY <1>14, <2>1, <2>2 DEF Deploy!Install
<1>15. CASE Deploy!Configure
  <2>1. /\ box' = box /\ last'["cycle"] = last["cycle"] /\ last'["command"].code = last["command"].code
        /\ last'["command"].cmd = last["command"].cmd
        /\ last'["command"].telemetry = last["command"].telemetry /\ last'["command"].did = last["command"].did
    BY <1>15, <1>0 DEF Deploy!Configure, Deploy!Reconfigured, Jobbing, Endings
  <2> QED BY <2>1 DEF Deploy!RunsAreWhole, Deploy!Processes
<1>16. CASE Deploy!Answer
  <2>1. /\ box' = box /\ last'["cycle"] = last["cycle"] /\ last'["command"].code = last["command"].code
        /\ last'["command"].cmd = last["command"].cmd
        /\ last'["command"].telemetry = last["command"].telemetry /\ last'["command"].did = last["command"].did
    BY <1>16, <1>0 DEF Deploy!Answer, Deploy!Reconfigured, Jobbing, Endings
  <2> QED BY <2>1 DEF Deploy!RunsAreWhole, Deploy!Processes
<1>17. CASE Deploy!Enterprise
  <2>0. InOrder("cycle", job["cycle"]) /\ box' = box
    BY <1>17, <1>0 DEF Ordered, Deploy!Enterprise, Deploy!Same
  <2>1. job["cycle"].telemetry = "none"
    BY <1>17, <2>0 DEF Deploy!Enterprise, Deploy!At, InOrder, Scanned
  <2>2. CASE Deploy!Exit("cycle", 1)
    <3>1. last'["cycle"].telemetry = "none" /\ \A q \in Deploy!Processes : q # "cycle" => last'[q] = last[q]
      BY <1>0, <2>1, <2>2, ExitMoves DEF Told
    <3> QED BY <2>0, <3>1 DEF Deploy!RunsAreWhole
  <2> QED BY <1>17, <2>0, <2>2, WholeSame DEF Deploy!Enterprise
<1>18. ASSUME NEW p \in Deploy!Processes, Deploy!Gate(p) PROVE Deploy!RunsAreWhole'
  <2>0. InOrder(p, job[p]) /\ job[p] \in Jobs /\ Done(job[p]) /\ box' = box
    BY <1>18, <1>0 DEF Ordered, Doing, Jobbing, Deploy!Gate, Deploy!Same
  <2>1. job[p].telemetry = "none"
    BY <1>18, <2>0 DEF Deploy!Gate, Deploy!At, InOrder, Scanned
  <2>2. CASE Deploy!Exit(p, 0)
    <3>1. last'[p].telemetry = "none" /\ \A q \in Deploy!Processes : q # p => last'[q] = last[q]
      BY <1>0, <2>1, <2>2, ExitMoves DEF Told
    <3> QED BY <2>0, <3>1 DEF Deploy!RunsAreWhole
  <2> QED BY <1>18, <2>0, <2>2, WholeSame DEF Deploy!Gate
<1>19. ASSUME NEW p \in Deploy!Processes, Deploy!Scan(p) PROVE Deploy!RunsAreWhole'
  <2> QED BY <1>19, WholeSame DEF Deploy!Scan, Deploy!Same
<1>20. ASSUME NEW p \in Deploy!Processes, Deploy!Scanned(p) PROVE Deploy!RunsAreWhole'
  <2> QED BY <1>20, WholeSame DEF Deploy!Scanned, Deploy!Same
<1>21. ASSUME NEW p \in Deploy!Processes, Deploy!EnforcePackages(p) PROVE Deploy!RunsAreWhole'
  <2> QED BY <1>21, WholeSame DEF Deploy!EnforcePackages, Deploy!Same
<1>22. ASSUME NEW p \in Deploy!Processes, Deploy!Verdict(p) PROVE Deploy!RunsAreWhole'
  <2>0. InOrder(p, job[p]) /\ job[p] \in Jobs /\ Done(job[p]) /\ box' = box
    BY <1>22, <1>0 DEF Ordered, Doing, Jobbing, Deploy!Verdict, Deploy!Same
  <2>1. /\ p = "cycle" => job[p].cmd # "scan"
        /\ job[p].cmd \in {"send-telemetry", "scan"} => job[p].telemetry # "none" /\ job[p].did = For({"package"})
    BY <1>22, <2>0 DEF Deploy!Verdict, Deploy!At, InOrder, Done, Timed
  <2>2. ASSUME NEW code \in {0, 1}, Deploy!Exit(p, code), (code = 1) <=> Deploy!Fatal(p), code = 0 => job[p].cmd = "scan" PROVE Deploy!RunsAreWhole'
    <3>1. Told(last'[p], code, job[p]) /\ \A q \in Deploy!Processes : q # p => last'[q] = last[q]
      BY <1>0, <2>2, ExitMoves
    <3>2. job[p].cmd \in {"send-telemetry", "scan"} =>
              /\ job[p].telemetry = "failed" <=> code = 1
              /\ job[p].telemetry = "ok" => job[p].cmd = "scan"
      BY <2>0, <2>1, <2>2 DEF Deploy!Fatal, Deploy!Installing, Jobs
    <3> QED BY <2>0, <2>1, <3>1, <3>2 DEF Deploy!RunsAreWhole, Told, For, Deploy!Processes
  <2> QED BY <1>22, <2>0, <2>2, WholeSame DEF Deploy!Verdict
<1>23. ASSUME NEW p \in Deploy!Processes, Deploy!ReconcileHooks(p) PROVE Deploy!RunsAreWhole'
  <2>0. InOrder(p, job[p]) /\ job[p] \in Jobs /\ Done(job[p]) /\ box' = box
    BY <1>23, <1>0 DEF Ordered, Doing, Jobbing, Deploy!ReconcileHooks, Deploy!Same
  <2>1. CASE p = "command" /\ Deploy!Onward # "gate"
    <3>1. Deploy!Ended(p, 0, [job[p] EXCEPT !.did = @ \cup {"hooks"}]) /\ job[p].cmd = "install"
      BY <1>23, <2>0, <2>1 DEF Deploy!ReconcileHooks, Deploy!At, InOrder, Removing, Placing, After, Running
    <3>2. last'[p].cmd = "install" /\ \A q \in Deploy!Processes : q # p => last'[q] = last[q]
      BY <1>0, <2>0, <3>1, EndedMoves DEF Told, Jobs
    <3> QED BY <2>0, <3>2, WholeHere
  <2> QED BY <1>23, <2>0, <2>1, WholeSame DEF Deploy!ReconcileHooks
<1>24. ASSUME NEW p \in Deploy!Processes, Deploy!EnforceEditors(p) PROVE Deploy!RunsAreWhole'
  <2>0. InOrder(p, job[p]) /\ job[p] \in Jobs /\ Done(job[p]) /\ box' = box
    BY <1>24, <1>0 DEF Ordered, Doing, Jobbing, Deploy!EnforceEditors, Deploy!Same
  <2> DEFINE j == [job[p] EXCEPT !.did = IF box.target THEN @ \cup {"ide"} ELSE @]
  <2>1. /\ p = "command" => job[p].cmd = "install"
        /\ job[p].cmd \in {"send-telemetry", "scan"} => job[p].telemetry = "ok" /\ job[p].did = For({"package"}) \cup {"hooks"}
    BY <1>24, <2>0 DEF Deploy!EnforceEditors, Deploy!At, InOrder, Done, Removing, Placing, After, Running
  <2>2. Deploy!Ended(p, 0, j)
    BY <1>24 DEF Deploy!EnforceEditors
  <2>3. j.cmd = job[p].cmd /\ j.telemetry = job[p].telemetry /\ j.did = IF box.target THEN job[p].did \cup {"ide"} ELSE job[p].did
    BY <2>0 DEF Jobs
  <2> HIDE DEF j
  <2>4. Told(last'[p], 0, j) /\ \A q \in Deploy!Processes : q # p => last'[q] = last[q]
    BY <1>0, <2>2, EndedMoves
  <2>5. CASE p = "command"
    BY <2>0, <2>1, <2>3, <2>4, <2>5, WholeHere DEF Told
  <2>6. CASE p = "cycle"
    BY <2>0, <2>1, <2>3, <2>4, <2>6 DEF Deploy!RunsAreWhole, Told, For
  <2> QED BY <2>5, <2>6 DEF Deploy!Processes
<1>25. ASSUME NEW p \in Deploy!Processes, Deploy!Kill(p) PROVE Deploy!RunsAreWhole'
  <2>1. /\ box' = box /\ last'[p].telemetry = "none" /\ \A q \in Deploy!Processes : q # p => last'[q] = last[q]
    BY <1>25, <1>0 DEF Deploy!Kill, Deploy!Same, Deploy!Gone, Deploy!Unended, Jobbing
  <2> QED BY <2>1 DEF Deploy!RunsAreWhole
<1>26. CASE UNCHANGED Deploy!vars
  BY <1>26, WholeSame DEF Deploy!vars
<1> QED BY <1>1, <1>2, <1>3, <1>4, <1>5, <1>6, <1>7, <1>8, <1>9, <1>10, <1>11, <1>12, <1>13, <1>14, <1>15, <1>16, <1>17, <1>18, <1>19, <1>20, <1>21, <1>22, <1>23, <1>24, <1>25, <1>26 DEF Deploy!Next, Deploy!Step, Deploy!DarwinStep, Deploy!LinuxStep, Deploy!WindowsStep

-----------------------------------------------------------------------------
(* Steps that leave the machine and the command alone.                     *)
Quiet ==
    /\ box' = box /\ os' = os /\ conf' = conf /\ asked' = asked /\ calls' = calls
    /\ job'["command"] = job["command"] /\ last'["command"] = last["command"] /\ (tidy' => tidy)
    /\ job'["cycle"].new <= Used /\ job'["cycle"].seen.limit \in Limits
    /\ box.os = "linux" /\ Own.cmd = "install" /\ Own.pc \notin {"start"} \cup Timed => job'["cycle"].new < Own.new

LEMMA QuietHolding == ASSUME Quiet, Holding PROVE Holding'
BY DEF Quiet, Holding, Own, Held, Standing

LEMMA QuietClean == ASSUME Quiet, Clean PROVE Clean'
<1>1. /\ box' = box /\ os' = os /\ Own' = Own /\ last'["command"] = last["command"] /\ (tidy' => tidy)
      /\ (Deploy!Finished("uninstall", 0)' <=> Deploy!Finished("uninstall", 0)) /\ (Settled' <=> Settled)
  BY DEF Quiet, Own, Deploy!Finished, Deploy!At, Settled
<1> QED BY <1>1 DEF Clean

LEMMA QuietFresh == ASSUME Quiet, Fresh PROVE Fresh'
BY DEF Quiet, Fresh, Own, Used, Deploy!Processes

LEMMA QuietLimited == ASSUME Quiet, Limited PROVE Limited'
<1>1. /\ box' = box /\ os' = os /\ conf' = conf /\ asked' = asked /\ Own' = Own /\ last'["command"] = last["command"]
      /\ (tidy' => tidy) /\ (Deploy!Finished("install", 0)' <=> Deploy!Finished("install", 0)) /\ (Recorded' <=> Recorded)
      /\ Limits' = Limits /\ Limit' = Limit
  BY DEF Quiet, Own, Deploy!Finished, Deploy!At, Recorded, Limits, Limit, Deploy!readConfigDir, Deploy!writeConfigDir, Deploy!Load
<1>2. \A p \in Deploy!Processes : job'[p].seen.limit \in Limits
  BY DEF Quiet, Limited, Deploy!Processes
<1> QED BY <1>1, <1>2 DEF Limited

Upheld == Holding /\ Clean /\ Fresh /\ Limited
LEMMA QuietAll == ASSUME Quiet, Upheld PROVE Upheld'
BY QuietHolding, QuietClean, QuietFresh, QuietLimited DEF Upheld

LEMMA BoxIs == ASSUME Sorted, Deploy!DeploymentAssumption PROVE box.os \in {"darwin", "linux", "windows"} /\ box.env \in Nat \cup {-2}
BY DEF Sorted, Deploy!DeploymentAssumption, Deploy!Off

Plain == box' = box /\ os' = os /\ conf' = conf /\ asked' = asked /\ calls' = calls
LEMMA UsedIsNat == ASSUME Sorted, Deploy!DeploymentAssumption PROVE Used \in Nat
<1>1. MaxCommands \in Nat /\ calls \in 0 .. MaxCommands
  BY DEF Sorted, Deploy!DeploymentAssumption
<1> QED BY <1>1 DEF Used

LEMMA CycleSteps ==
    ASSUME Sorted, Ordered, Upheld, Deploy!DeploymentAssumption,
           Plain, last'["command"] = last["command"], job'["command"] = job["command"], tidy' => tidy,
           \/ AtRest(job'["cycle"])
           \/ job'["cycle"].new = job["cycle"].new /\ job'["cycle"].seen = job["cycle"].seen
    PROVE  Quiet
<1>0. 0 <= Used
  BY UsedIsNat
<1>1. job["cycle"].new <= Used /\ job["cycle"].seen.limit \in Limits /\ "cycle" \in Deploy!Processes
  BY DEF Upheld, Fresh, Limited, Deploy!Processes
<1>2. box.os = "linux" /\ Own.cmd = "install" /\ Own.pc \notin {"start"} \cup Timed => 0 < Own.new /\ job["cycle"].new < Own.new
  BY DEF Upheld, Fresh, Ordered, InOrder, Own, Deploy!Processes
<1> QED BY <1>0, <1>1, <1>2 DEF Plain, Quiet, AtRest, Limits

LEMMA KilledCycle == ASSUME Sorted, Ordered, Upheld, Deploy!DeploymentAssumption, Deploy!Kill("cycle") PROVE Quiet
<1>1. "cycle" \in Deploy!Processes /\ "command" \in Deploy!Processes /\ Jobbing
  BY DEF Deploy!Processes, Sorted, Jobbing
<1>2. AtRest(job'["cycle"]) /\ job'["command"] = job["command"] /\ last'["command"] = last["command"] /\ (tidy' => tidy)
  BY <1>1, RestRests DEF Deploy!Kill, Deploy!Gone, Jobbing
<1>3. Plain
  BY DEF Deploy!Kill, Deploy!Same, Plain
<1> QED BY <1>2, <1>3, CycleSteps

LEMMA FireQuiet == ASSUME Sorted, Ordered, Upheld, Deploy!DeploymentAssumption, Deploy!Fire PROVE Quiet
<1>1. "cycle" \in Deploy!Processes /\ "command" \in Deploy!Processes /\ Jobbing
  BY DEF Deploy!Processes, Sorted, Jobbing
<1>2. /\ job'["cycle"] = [Deploy!Rest EXCEPT !.pc = "enterprise", !.cmd = "send-telemetry", !.new = Deploy!Live(os), !.by = "scheduler"]
      /\ job'["command"] = job["command"] /\ last' = last /\ tidy' = tidy /\ Plain
  BY <1>1 DEF Deploy!Fire, Deploy!Started, Deploy!At, Jobbing, Deploy!Works, Plain
<1>3. job'["cycle"].new = Deploy!Live(os) /\ job'["cycle"].seen.limit = 0
  BY <1>2 DEF Deploy!Rest, Deploy!NoFile
<1>4. Deploy!Live(os) <= Used
  <2>1. /\ 0 <= Used /\ os.job <= Used /\ os.active <= Used /\ os.hourly <= Used /\ os.logon <= Used
    BY UsedIsNat DEF Upheld, Fresh
  <2> HIDE DEF Used
  <2> QED BY <2>1 DEF Deploy!Live
<1>5. box.os = "linux" => Deploy!Live(os) = os.active
  BY DEF Deploy!Live
<1> QED BY <1>2, <1>3, <1>4, <1>5 DEF Quiet, Plain, Upheld, Fresh, Limits

(* A step of a run: on to the next, or out.                                *)
Onto(p) ==
    /\ last' = last /\ job[p].pc \in Running /\ job'[p].pc \in Running \cup {"start"}
    /\ job'[p].cmd = job[p].cmd /\ job'[p].new = job[p].new /\ job'[p].seen = job[p].seen
    /\ job'[p].warned = job[p].warned /\ job'[p].recorded = job[p].recorded
    /\ box.os = "linux" /\ job[p].cmd = "install" /\ job[p].pc \notin Timed => job'[p].pc \notin Timed
    /\ job[p].pc \in Timed => job'[p].pc \in Timed
    /\ \/ job'[p].busy = job[p].busy
       \/ job[p].pc = "scan" /\ lock # "free" /\ (job'[p].busy => job[lock].new = job[p].new)
Said(l, j) == l.cmd = j.cmd /\ l.new = j.new /\ ~l.killed /\ l.telemetry = j.telemetry /\ l.busy = j.busy /\ l.warned = j.warned
              /\ l.recorded = j.recorded
Out(p) == AtRest(job'[p]) /\ Said(last'[p], job[p]) /\ job[p].pc \in Running /\ (job[p].pc \in Timed \/ job[p].cmd # "install")
RunMove(p) ==
    /\ Plain /\ tidy' = tidy /\ (Onto(p) \/ Out(p))
    /\ \A q \in Deploy!Processes : q # p => job'[q] = job[q] /\ last'[q] = last[q]

LEMMA MoveOn ==
    ASSUME Jobbing, NEW p \in Deploy!Processes, job[p].pc \in Running, NEW l \in Running \cup {"start"}, Deploy!Go(p, l), last' = last,
           box.os = "linux" /\ job[p].cmd = "install" /\ job[p].pc \notin Timed => l \notin Timed,
           job[p].pc \in Timed => l \in Timed
    PROVE  Onto(p) /\ \A q \in Deploy!Processes : q # p => job'[q] = job[q] /\ last'[q] = last[q]
<1>1. job'[p].pc = l /\ Alike(job'[p], job[p]) /\ \A q \in Deploy!Processes : q # p => job'[q] = job[q]
  BY GoMoves
<1> QED BY <1>1 DEF Onto, Alike

LEMMA MoveOut ==
    ASSUME Jobbing, NEW p \in Deploy!Processes, NEW code, NEW j, Deploy!Ended(p, code, j), job[p].pc \in Running,
           job[p].pc \in Timed \/ job[p].cmd # "install",
           j.cmd = job[p].cmd, j.new = job[p].new, j.telemetry = job[p].telemetry, j.busy = job[p].busy, j.warned = job[p].warned,
           j.recorded = job[p].recorded
    PROVE  Out(p) /\ \A q \in Deploy!Processes : q # p => job'[q] = job[q] /\ last'[q] = last[q]
<1>1. /\ AtRest(job'[p]) /\ Told(last'[p], code, j)
      /\ \A q \in Deploy!Processes : q # p => job'[q] = job[q] /\ last'[q] = last[q]
  BY EndedMoves
<1> QED BY <1>1 DEF Out, Said, Told

LEMMA MoveExit ==
    ASSUME Jobbing, NEW p \in Deploy!Processes, NEW code, Deploy!Exit(p, code), job[p].pc \in Running,
           job[p].pc \in Timed \/ job[p].cmd # "install"
    PROVE  Out(p) /\ \A q \in Deploy!Processes : q # p => job'[q] = job[q] /\ last'[q] = last[q]
BY MoveOut DEF Deploy!Exit

LEMMA RunMoves ==
    ASSUME Jobbing, Ordered, NEW p \in Deploy!Processes, Deploy!Step(p)
    PROVE  RunMove(p)
<1>0. job[p] \in Jobs /\ InOrder(p, job[p])
  BY DEF Jobbing, Ordered

<1>1. CASE Deploy!Gate(p)
  <2>0. Plain /\ tidy' = tidy
    BY <1>1 DEF Deploy!Gate, Deploy!Same, Deploy!Works, Plain
  <2>1. job[p].pc = "gate"
    BY <1>1 DEF Deploy!Gate, Deploy!At
  <2>2. CASE Deploy!Go(p, "scan") /\ last' = last
    BY <2>0, <2>1, <2>2, MoveOn DEF Running, Timed, RunMove
  <2>3. CASE Deploy!Installing(p) /\ Deploy!Go(p, Deploy!AfterScan(p)) /\ last' = last
    <3>1. Deploy!AfterScan(p) \in Running \cup {"start"} /\ (box.os = "linux" /\ job[p].cmd = "install" => Deploy!AfterScan(p) \notin Timed)
      BY DEF Deploy!AfterScan, Deploy!Installing, Running, Timed
    <3> QED BY <2>0, <2>1, <2>3, <3>1, MoveOn DEF Running, Timed, RunMove
  <2>4. CASE ~Deploy!Installing(p) /\ Deploy!Exit(p, 0)
    BY <2>0, <2>1, <2>4, MoveExit DEF Running, Deploy!Installing, RunMove
  <2> QED BY <1>1, <2>2, <2>3, <2>4 DEF Deploy!Gate
<1>2. CASE Deploy!Scan(p)
  <2>0. Plain /\ tidy' = tidy
    BY <1>2 DEF Deploy!Scan, Deploy!Same, Deploy!Works, Plain
  <2>1. job[p].pc = "scan"
    BY <1>2 DEF Deploy!Scan, Deploy!At
  <2>5. last' = last
    BY <1>2 DEF Deploy!Scan
  <2>2. CASE Deploy!Go(p, "scanning")
    BY <2>0, <2>1, <2>2, <2>5, MoveOn DEF Running, Timed, RunMove
  <2>3. CASE lock # "free" /\ job' = [job EXCEPT ![p].pc = Deploy!AfterScan(p), ![p].telemetry = "failed", ![p].busy = (job[lock].new = job[p].new)]
    <3>1. Deploy!AfterScan(p) \in Running \cup {"start"} /\ (box.os = "linux" /\ job[p].cmd = "install" => Deploy!AfterScan(p) \notin Timed)
      BY DEF Deploy!AfterScan, Deploy!Installing, Running, Timed
    <3>2. /\ job'[p] = [job[p] EXCEPT !.pc = Deploy!AfterScan(p), !.telemetry = "failed", !.busy = (job[lock].new = job[p].new)]
          /\ \A q \in Deploy!Processes : q # p => job'[q] = job[q]
      BY <2>3 DEF Jobbing
    <3>3. /\ job'[p].pc = Deploy!AfterScan(p) /\ (job'[p].busy => job[lock].new = job[p].new)
          /\ job'[p].cmd = job[p].cmd /\ job'[p].new = job[p].new /\ job'[p].seen = job[p].seen
          /\ job'[p].warned = job[p].warned /\ job'[p].recorded = job[p].recorded
      BY <1>0, <3>2 DEF Jobs
    <3>4. Onto(p)
      BY <2>1, <2>3, <2>5, <3>1, <3>3 DEF Onto, Running, Timed
    <3> QED BY <2>0, <2>5, <3>2, <3>4 DEF RunMove
  <2> QED BY <1>2, <2>2, <2>3 DEF Deploy!Scan
<1>3. CASE Deploy!Scanned(p)
  <2>0. Plain /\ tidy' = tidy
    BY <1>3 DEF Deploy!Scanned, Deploy!Same, Deploy!Works, Plain
  <2>1. job[p].pc = "scanning"
    BY <1>3 DEF Deploy!Scanned, Deploy!At
  <2>5. last' = last
    BY <1>3 DEF Deploy!Scanned
  <2>3. ASSUME NEW t, job' = [job EXCEPT ![p].pc = Deploy!AfterScan(p), ![p].telemetry = t] PROVE RunMove(p)
    <3>1. Deploy!AfterScan(p) \in Running \cup {"start"} /\ (box.os = "linux" /\ job[p].cmd = "install" => Deploy!AfterScan(p) \notin Timed)
      BY DEF Deploy!AfterScan, Deploy!Installing, Running, Timed
    <3>2. /\ job'[p] = [job[p] EXCEPT !.pc = Deploy!AfterScan(p), !.telemetry = t]
          /\ \A q \in Deploy!Processes : q # p => job'[q] = job[q]
      BY <2>3 DEF Jobbing
    <3>3. /\ job'[p].pc = Deploy!AfterScan(p) /\ job'[p].busy = job[p].busy
          /\ job'[p].cmd = job[p].cmd /\ job'[p].new = job[p].new /\ job'[p].seen = job[p].seen
          /\ job'[p].warned = job[p].warned /\ job'[p].recorded = job[p].recorded
      BY <1>0, <3>2 DEF Jobs
    <3>4. Onto(p)
      BY <2>1, <2>5, <3>1, <3>3 DEF Onto, Running, Timed
    <3> QED BY <2>0, <2>5, <3>2, <3>4 DEF RunMove
  <2> QED BY <1>3, <2>3 DEF Deploy!Scanned
<1>4. CASE Deploy!EnforcePackages(p)
  <2>0. Plain /\ tidy' = tidy
    BY <1>4 DEF Deploy!EnforcePackages, Deploy!Same, Deploy!Works, Plain
  <2>1. job[p].pc = "package"
    BY <1>4 DEF Deploy!EnforcePackages, Deploy!At
  <2>5. last' = last
    BY <1>4 DEF Deploy!EnforcePackages
  <2>2. /\ job'[p] = [job[p] EXCEPT !.pc = "verdict", !.did = @ \cup Deploy!Lanes(p)]
        /\ \A q \in Deploy!Processes : q # p => job'[q] = job[q]
    BY <1>4 DEF Deploy!EnforcePackages, Jobbing
  <2>3. /\ job'[p].pc = "verdict" /\ job'[p].busy = job[p].busy
        /\ job'[p].cmd = job[p].cmd /\ job'[p].new = job[p].new /\ job'[p].seen = job[p].seen
        /\ job'[p].warned = job[p].warned /\ job'[p].recorded = job[p].recorded
    BY <1>0, <2>2 DEF Jobs
  <2>4. Onto(p)
    BY <2>1, <2>5, <2>3 DEF Onto, Running, Timed
  <2> QED BY <2>0, <2>5, <2>2, <2>4 DEF RunMove
<1>5. CASE Deploy!Verdict(p)
  <2>0. Plain /\ tidy' = tidy
    BY <1>5 DEF Deploy!Verdict, Deploy!Same, Deploy!Works, Plain
  <2>1. job[p].pc = "verdict"
    BY <1>5 DEF Deploy!Verdict, Deploy!At
  <2>2. CASE Deploy!Go(p, "hooks") /\ last' = last
    BY <2>0, <2>1, <2>2, MoveOn DEF Running, Timed, RunMove
  <2>3. ASSUME NEW code, Deploy!Exit(p, code) PROVE RunMove(p)
    BY <2>0, <2>1, <2>3, MoveExit DEF Running, Timed, RunMove
  <2> QED BY <1>5, <2>2, <2>3 DEF Deploy!Verdict
<1>6. CASE Deploy!ReconcileHooks(p)
  <2>0. Plain /\ tidy' = tidy
    BY <1>6 DEF Deploy!ReconcileHooks, Deploy!Same, Deploy!Works, Plain
  <2>1. job[p].pc = "hooks"
    BY <1>6 DEF Deploy!ReconcileHooks, Deploy!At
  <2> DEFINE j == [job[p] EXCEPT !.did = @ \cup {"hooks"}]
  <2>2. /\ j.cmd = job[p].cmd /\ j.new = job[p].new /\ j.telemetry = job[p].telemetry /\ j.busy = job[p].busy /\ j.warned = job[p].warned
        /\ j.recorded = job[p].recorded /\ j.seen = job[p].seen
    BY <1>0 DEF Jobs
  <2>3. CASE Deploy!Ended(p, 0, j)
    <3> HIDE DEF j
    <3> QED BY <2>0, <2>1, <2>2, <2>3, MoveOut DEF Running, Timed, RunMove
  <2>4. CASE job' = [job EXCEPT ![p] = [j EXCEPT !.pc = "ide"]] /\ last' = last
    <3>2. job'[p] = [j EXCEPT !.pc = "ide"] /\ \A q \in Deploy!Processes : q # p => job'[q] = job[q]
      BY <2>4 DEF Jobbing
    <3>3. /\ job'[p].pc = "ide" /\ job'[p].busy = job[p].busy
          /\ job'[p].cmd = job[p].cmd /\ job'[p].new = job[p].new /\ job'[p].seen = job[p].seen
          /\ job'[p].warned = job[p].warned /\ job'[p].recorded = job[p].recorded
      BY <1>0, <3>2 DEF Jobs
    <3>4. Onto(p)
      BY <2>1, <2>4, <3>3 DEF Onto, Running, Timed
    <3> QED BY <2>0, <2>4, <3>2, <3>4 DEF RunMove
  <2> QED BY <1>6, <2>3, <2>4 DEF Deploy!ReconcileHooks
<1>7. CASE Deploy!EnforceEditors(p)
  <2>0. Plain /\ tidy' = tidy
    BY <1>7 DEF Deploy!EnforceEditors, Deploy!Same, Deploy!Works, Plain
  <2>1. job[p].pc = "ide"
    BY <1>7 DEF Deploy!EnforceEditors, Deploy!At
  <2> DEFINE j == [job[p] EXCEPT !.did = IF box.target THEN @ \cup {"ide"} ELSE @]
  <2>2. /\ j.cmd = job[p].cmd /\ j.new = job[p].new /\ j.telemetry = job[p].telemetry /\ j.busy = job[p].busy /\ j.warned = job[p].warned
        /\ j.recorded = job[p].recorded
    BY <1>0 DEF Jobs
  <2>3. Deploy!Ended(p, 0, j)
    BY <1>7 DEF Deploy!EnforceEditors
  <2> HIDE DEF j
  <2> QED BY <2>0, <2>1, <2>2, <2>3, MoveOut DEF Running, Timed, RunMove
<1> QED BY <1>1, <1>2, <1>3, <1>4, <1>5, <1>6, <1>7 DEF Deploy!Step

LEMMA CycleQuiet ==
    ASSUME Sorted, Ordered, Upheld, Deploy!DeploymentAssumption, Deploy!Step("cycle") \/ Deploy!Enterprise
    PROVE  Quiet
<1>1. "cycle" \in Deploy!Processes /\ "command" \in Deploy!Processes /\ Jobbing
  BY DEF Deploy!Processes, Sorted, Jobbing
<1>2. CASE Deploy!Step("cycle")
  <2>1. RunMove("cycle")
    BY <1>1, <1>2, RunMoves
  <2> QED BY <1>1, <2>1, CycleSteps DEF RunMove, Onto, Out
<1>3. CASE Deploy!Enterprise
  <2>1. Plain /\ tidy' = tidy
    BY <1>3 DEF Deploy!Enterprise, Deploy!Same, Plain
  <2>2. CASE Deploy!Exit("cycle", 1)
    <3>1. AtRest(job'["cycle"]) /\ job'["command"] = job["command"] /\ last'["command"] = last["command"]
      BY <1>1, <2>2, ExitMoves
    <3> QED BY <2>1, <3>1, CycleSteps
  <2>3. CASE Deploy!Go("cycle", "gate") /\ last' = last
    <3>1. Alike(job'["cycle"], job["cycle"]) /\ job'["command"] = job["command"] /\ last'["command"] = last["command"]
      BY <1>1, <2>3, GoMoves
    <3> QED BY <2>1, <3>1, CycleSteps DEF Alike
  <2> QED BY <1>3, <2>2, <2>3 DEF Deploy!Enterprise
<1> QED BY <1>2, <1>3

-----------------------------------------------------------------------------
(* The run of a command.                                                   *)
LEMMA FreshAlone ==
    ASSUME Sorted, Fresh, Deploy!DeploymentAssumption, Plain, job'["cycle"] = job["cycle"],
           job'["command"].new = job["command"].new \/ job'["command"].new = 0,
           box.os = "linux" /\ Own'.cmd = "install" =>
               /\ Own'.pc \notin {"start"} \cup Timed => os.active < Own'.new /\ job["cycle"].new < Own'.new
               /\ ~Own'.busy,
           box.os = "linux" /\ last'["command"].cmd = "install" => ~last'["command"].busy
    PROVE  Fresh'
<1>1. 0 <= Used /\ Used' = Used
  BY UsedIsNat DEF Used, Plain
<1>2. \A p \in Deploy!Processes : job'[p].new <= Used
  BY <1>1 DEF Fresh, Deploy!Processes
<1> HIDE DEF Used
<1> QED BY <1>1, <1>2 DEF Plain, Fresh

LEMMA LimitedAlone ==
    ASSUME Limited, Plain, job'["cycle"] = job["cycle"], tidy' => tidy,
           job'["command"].seen = job["command"].seen \/ job'["command"].seen.limit = 0,
           box.os = "windows" /\ tidy' /\ Own'.cmd = "install" /\ Own'.pc \in {"logon"} \cup After =>
               os.limit = Deploy!executionTimeLimit(Limit),
           Own'.recorded => Own'.pc \in Running \cup {"trigger", "start"} /\ (box.os = "windows" => Recorded),
           box.os = "windows" /\ tidy' /\ Deploy!Finished("install", 0)' =>
              /\ os.limit = Deploy!executionTimeLimit(Limit)
              /\ last'["command"].recorded => Recorded
    PROVE  Limited'
<1>1. /\ box' = box /\ os' = os /\ conf' = conf /\ asked' = asked /\ (Recorded' <=> Recorded) /\ Limits' = Limits /\ Limit' = Limit
  BY DEF Plain, Recorded, Limits, Limit, Deploy!readConfigDir, Deploy!writeConfigDir, Deploy!Load
<1>2. \A p \in Deploy!Processes : job'[p].seen.limit \in Limits
  BY DEF Limited, Deploy!Processes, Limits
<1> QED BY <1>1, <1>2 DEF Limited

LEMMA OntoHeld ==
    ASSUME Sorted, Ordered, Locked, Upheld, Deploy!DeploymentAssumption, RunMove("command"), Onto("command")
    PROVE  Upheld'
<1>1. /\ Plain /\ tidy' = tidy /\ job'["cycle"] = job["cycle"] /\ last' = last /\ "command" \in Deploy!Processes
      /\ "cycle" \in Deploy!Processes
  BY DEF RunMove, Onto, Deploy!Processes
<1>2. /\ Own.pc \in Running /\ Own'.pc \in Running \cup {"start"} /\ Own.pc \in After /\ Own'.pc \in After
      /\ Own'.cmd = Own.cmd /\ Own'.new = Own.new /\ Own'.seen = Own.seen /\ Own'.warned = Own.warned /\ Own'.recorded = Own.recorded
      /\ box.os = "linux" /\ Own.cmd = "install" /\ Own.pc \notin Timed => Own'.pc \notin Timed
  BY DEF Onto, Own, Running, After
<1>3. InOrder("command", Own) /\ Own.cmd \in {"install", "scan"}
  BY <1>1, <1>2 DEF Ordered, InOrder, Own, Running, Removing
<1>4. Holding'
  BY <1>1, <1>2 DEF Holding, Upheld, Held, Plain, Running, Timed, After
<1>5. Clean'
  BY <1>1, <1>2, <1>3 DEF Clean, Upheld, Plain, Settled, Running, Deploy!Finished, Deploy!At, Own
<1>6. box.os = "linux" /\ Own.cmd = "install" => ~Own'.busy
  <2>1. SUFFICES ASSUME box.os = "linux", Own.cmd = "install", Own.pc = "scan", lock # "free",
                        Own'.busy => job[lock].new = Own.new
                 PROVE  ~Own'.busy
    BY DEF Upheld, Fresh, Onto, Own
  <2>2. lock = "cycle"
    BY <2>1 DEF Sorted, Locked, Deploy!Processes, Own
  <2>3. job["cycle"].new < Own.new /\ job["cycle"].new \in Nat /\ Own.new \in Nat
    BY <1>1, <2>1 DEF Upheld, Fresh, Timed, Sorted, Jobs, Own
  <2> QED BY <2>1, <2>2, <2>3
<1>7. box.os = "linux" /\ Own'.cmd = "install" /\ Own'.pc \notin {"start"} \cup Timed => os.active < Own'.new /\ job["cycle"].new < Own'.new
  <2>1. SUFFICES ASSUME box.os = "linux", Own.cmd = "install", Own'.pc \notin {"start"} \cup Timed, Own.pc \in Timed PROVE FALSE
    BY <1>2 DEF Upheld, Fresh, Running, Timed
  <2>2. Own'.pc \in Timed
    BY <2>1 DEF Onto, Own
  <2> QED BY <2>1, <2>2
<1>8. Fresh'
  BY <1>1, <1>2, <1>6, <1>7, FreshAlone DEF Upheld, Fresh, Own
<1>9. Limited'
  BY <1>1, <1>2, LimitedAlone DEF Upheld, Limited, Own, Deploy!Finished, Deploy!At, Running
<1> QED BY <1>4, <1>5, <1>8, <1>9 DEF Upheld

LEMMA OutHeld ==
    ASSUME Sorted, Ordered, Upheld, Deploy!DeploymentAssumption, RunMove("command"), Out("command")
    PROVE  Upheld'
<1> DEFINE l == last'["command"]
<1>1. /\ Plain /\ tidy' = tidy /\ job'["cycle"] = job["cycle"] /\ "command" \in Deploy!Processes
  BY DEF RunMove, Deploy!Processes
<1>2. /\ Own.pc \in Running /\ Own.pc \in After /\ (Own.pc \in Timed \/ Own.cmd # "install") /\ AtRest(Own') /\ Said(l, Own)
  BY DEF Out, Own, Running, After
<1>3. Own.cmd \in {"install", "scan"} /\ Own.new \in Nat /\ (Own.cmd = "install" => Own.new > 0)
  BY <1>1, <1>2 DEF Ordered, InOrder, Own, Running, Removing, Sorted, Jobs
<1>4. Own.cmd = "install" => Held(Own.new, Own.warned)
  BY <1>2, <1>3, BoxIs DEF Upheld, Holding, Held
<1>5. Holding'
  BY <1>1, <1>2, <1>3, <1>4 DEF Holding, Upheld, Held, Plain, Said, AtRest, Standing
<1>6. tidy => Bare(os) \/ Settled
  BY <1>3, <1>4 DEF Upheld, Clean, Held, Settled
<1>7. Clean'
  BY <1>1, <1>2, <1>3, <1>6 DEF Clean, Upheld, Plain, Settled, Deploy!Finished, Deploy!At, Own, AtRest, Said
<1>8. Fresh'
  BY <1>1, <1>2, FreshAlone DEF Upheld, Fresh, Own, AtRest, Said
<1>9. Limited'
  BY <1>1, <1>2, <1>3, LimitedAlone DEF Upheld, Limited, Own, Deploy!Finished, Deploy!At, AtRest, Said
<1> QED BY <1>5, <1>7, <1>8, <1>9 DEF Upheld

LEMMA KilledHeld ==
    ASSUME Sorted, Ordered, Upheld, Deploy!DeploymentAssumption, Deploy!Kill("command")
    PROVE  Upheld'
<1> DEFINE l == last'["command"]
<1>0. Jobbing /\ "command" \in Deploy!Processes /\ "cycle" \in Deploy!Processes
  BY DEF Deploy!Processes, Sorted, Jobbing
<1>1. /\ Plain /\ ~tidy' /\ job'["cycle"] = job["cycle"]
  BY <1>0 DEF Deploy!Kill, Plain, Deploy!Same, Jobbing
<1>2. AtRest(Own') /\ l.killed /\ ~l.busy
  BY <1>0, RestRests DEF Deploy!Kill, Jobbing, Own, Deploy!Gone, Deploy!Unended
<1>3. Holding'
  BY <1>1, <1>2 DEF Holding, Upheld, Plain, Standing, AtRest
<1>4. Clean'
  BY <1>1, <1>2 DEF Clean, Upheld, Plain, Deploy!Finished
<1>5. Fresh'
  BY <1>1, <1>2, FreshAlone DEF Upheld, Own, AtRest
<1>6. Limited'
  BY <1>1, <1>2, LimitedAlone DEF Upheld, Limited, Own, AtRest
<1> QED BY <1>3, <1>4, <1>5, <1>6 DEF Upheld

-----------------------------------------------------------------------------
(* The steps of an installation or a removal.                              *)
Steady(o) ==
    /\ o.dying => o.job # 0
    /\ box.os # "darwin" => o.plist = 0 /\ o.job = 0 /\ ~o.dying
    /\ box.os # "linux" => o.service = 0 /\ o.timer = 0 /\ ~o.enabled /\ o.active = 0
    /\ box.os # "windows" => o.hourly = 0 /\ o.limit = 0 /\ o.logon = 0
    /\ o.timer <= Used /\ o.active <= Used /\ o.plist <= Used /\ o.job <= Used /\ o.hourly <= Used /\ o.logon <= Used
LEMMA SteadyNow == ASSUME Upheld PROVE Steady(os)
BY DEF Upheld, Holding, Clean, Fresh, Steady

\* What has to hold of the scheduler, o, when the command, j, comes to l.
Arrives(o, l, j) ==
    /\ box.os = "darwin" /\ l = "load" => o.plist = j.new
    /\ box.os = "darwin" /\ l \in After => o.plist = j.new /\ o.job = j.new /\ ~o.dying
    /\ box.os = "linux" /\ l = "load" => o.timer = j.new
    /\ box.os = "linux" /\ l \in After => o.timer = j.new /\ o.enabled
    /\ box.os = "linux" /\ l \in Timed => j.warned \/ o.active = j.new
    /\ box.os = "windows" /\ l \in {"tune", "logon"} \cup After => o.hourly = j.new
    /\ box.os = "linux" /\ l \notin {"start"} \cup Timed => o.active < j.new
Tidies(o, l, j) ==
    /\ box.os = "darwin" /\ l = "unlink" => o.job = 0
    /\ box.os = "linux" /\ l \in {"stop", "unlink"} => ~o.enabled /\ o.active = 0
    /\ box.os = "windows" /\ l = "unlink" => o.hourly = 0 /\ o.limit = 0
    /\ ~j.warned
    /\ box.os = "windows" /\ j.cmd = "install" /\ l \in {"logon"} \cup After => o.limit = Deploy!executionTimeLimit(Limit)

Around == box' = box /\ conf' = conf /\ asked' = asked /\ calls' = calls
Cycling ==
    /\ job'["cycle"].new <= Used /\ job'["cycle"].seen.limit \in Limits
    /\ box.os = "linux" /\ Own.cmd = "install" /\ Own'.pc \notin {"start"} \cup Timed => job'["cycle"].new < Own.new
LEMMA CycleSame ==
    ASSUME Upheld, job'["cycle"] = job["cycle"],
           box.os = "linux" /\ Own.cmd = "install" /\ Own.pc \in {"start"} \cup Timed => Own'.pc \in {"start"} \cup Timed
    PROVE  Cycling
BY DEF Upheld, Fresh, Limited, Cycling, Deploy!Processes

LEMMA GoesOnward ==
    ASSUME Upheld, box' = box, asked' = asked, calls' = calls, Cycling, tidy' => tidy, last'["command"] = last["command"],
           Own'.cmd = Own.cmd, Own'.new = Own.new, Own'.seen.limit \in Limits, Own'.busy = Own.busy,
           \A d \in Deploy!Dirs : conf'[d].limit \in Limits,
           Own'.recorded => Own'.pc \in Running \cup {"trigger", "start"} /\ (box.os = "windows" => Recorded'),
           Own.cmd \in {"install", "uninstall"}, Own'.pc \notin {"idle", "query"}, Own'.pc = "trigger" => box.os = "windows",
           Steady(os'), Own.cmd = "install" => Arrives(os', Own'.pc, Own'), tidy' => Tidies(os', Own'.pc, Own')
    PROVE  Upheld'
<1>0. Used' = Used
  BY DEF Used
<1>1. Holding'
  <2>1. Own.cmd = "install" =>
            /\ box.os = "darwin" /\ Own'.pc = "load" => os'.plist = Own'.new
            /\ box.os = "darwin" /\ Own'.pc \in After => os'.plist = Own'.new /\ os'.job = Own'.new /\ ~os'.dying
            /\ box.os = "linux" /\ Own'.pc = "load" => os'.timer = Own'.new
            /\ box.os = "linux" /\ Own'.pc \in After => os'.timer = Own'.new /\ os'.enabled
            /\ box.os = "linux" /\ Own'.pc \in Timed => Own'.warned \/ os'.active = Own'.new
            /\ box.os = "windows" /\ Own'.pc \in {"tune", "logon"} \cup After => os'.hourly = Own'.new
    BY DEF Arrives
  <2>2. Timed \subseteq After /\ (os'.dying => os'.job # 0) /\ Own'.pc # "idle"
    BY DEF Timed, After, Steady
  <2> HIDE DEF Timed, After
  <2> QED BY <1>0, <2>1, <2>2 DEF Holding, Held
<1>2. Clean'
  BY <1>0 DEF Clean, Tidies, Steady, Deploy!Finished, Deploy!At, Own
<1>3. Fresh'
  <2>1. \A p \in Deploy!Processes : job'[p].new <= Used
    BY DEF Upheld, Fresh, Cycling, Deploy!Processes, Own
  <2> HIDE DEF Used
  <2> QED BY <1>0, <2>1 DEF Fresh, Upheld, Steady, Cycling, Arrives
<1>4. Limited'
  <2>1. Limits' = Limits /\ Limit' = Limit
    BY <1>0 DEF Limits, Limit
  <2>2. \A p \in Deploy!Processes : job'[p].seen.limit \in Limits
    BY DEF Cycling, Deploy!Processes, Own
  <2>3. asked'.file.limit \in Limits
    BY DEF Upheld, Limited
  <2> HIDE DEF Limits, Limit, Recorded
  <2> QED BY <1>0, <2>1, <2>2, <2>3 DEF Limited, Tidies, Deploy!Finished, Deploy!At, Own
<1> QED BY <1>1, <1>2, <1>3, <1>4 DEF Upheld

LEMMA GoesOn ==
    ASSUME Upheld, Around, Cycling, tidy' => tidy, last'["command"] = last["command"],
           Own'.cmd = Own.cmd, Own'.new = Own.new, Own'.seen = Own.seen, Own'.busy = Own.busy, Own'.recorded = Own.recorded,
           Own.cmd \in {"install", "uninstall"}, Own'.pc \notin {"idle", "query", "trigger"}, Own.recorded => Own'.pc \in Running \cup {"start"},
           Steady(os'), Own.cmd = "install" => Arrives(os', Own'.pc, Own'), tidy' => Tidies(os', Own'.pc, Own')
    PROVE  Upheld'
<1>1. box' = box /\ conf' = conf /\ asked' = asked /\ calls' = calls
  BY DEF Around
<1>2. Recorded' <=> Recorded
  BY <1>1 DEF Recorded, Deploy!readConfigDir, Deploy!writeConfigDir, Deploy!Load
<1>3. (\A d \in Deploy!Dirs : conf'[d].limit \in Limits) /\ Own'.seen.limit \in Limits
  BY <1>1 DEF Upheld, Limited, Own, Deploy!Processes
<1>4. Own'.recorded => Own'.pc \in Running \cup {"trigger", "start"} /\ (box.os = "windows" => Recorded')
  BY <1>2 DEF Upheld, Limited
<1>5. Own'.pc \notin {"idle", "query"} /\ (Own'.pc = "trigger" => box.os = "windows")
  OBVIOUS
<1> HIDE DEF Limits, Recorded
<1> QED BY <1>1, <1>3, <1>4, <1>5, GoesOnward

\* The command ends: it failed, or it was an uninstall.
LEMMA Leaves ==
    ASSUME Sorted, Upheld, Deploy!DeploymentAssumption, Around, job'["cycle"] = job["cycle"], AtRest(Own'), Steady(os'),
           NEW code, Told(last'["command"], code, Own), Own.telemetry = "none", box.os = "linux" /\ Own.cmd = "install" => ~Own.busy,
           \/ code = 1 /\ ~tidy'
           \/ Own.cmd = "uninstall" /\ (tidy' => Bare(os'))
    PROVE  Upheld'
<1>0. box' = box /\ conf' = conf /\ asked' = asked /\ Used' = Used /\ 0 <= Used
  BY UsedIsNat DEF Around, Used
<1>1. Holding'
  BY <1>0 DEF Holding, AtRest, Told, Standing, Steady
<1>2. Clean'
  BY <1>0 DEF Clean, Steady, Deploy!Finished, AtRest
<1>3. Fresh'
  <2>1. \A p \in Deploy!Processes : job'[p].new <= Used
    BY <1>0 DEF Upheld, Fresh, AtRest, Deploy!Processes, Own
  <2> HIDE DEF Used
  <2> QED BY <1>0, <2>1 DEF Fresh, Steady, AtRest, Told
<1>4. Limited'
  <2>1. Limits' = Limits /\ Limit' = Limit
    BY <1>0 DEF Limits, Limit
  <2>2. \A p \in Deploy!Processes : job'[p].seen.limit \in Limits
    BY DEF Upheld, Limited, AtRest, Limits, Deploy!Processes, Own
  <2> QED BY <1>0, <2>1, <2>2 DEF Limited, Upheld, AtRest, Told, Deploy!Finished
<1> QED BY <1>1, <1>2, <1>3, <1>4 DEF Upheld

LEMMA Before ==
    ASSUME Sorted, Ordered, Upheld, Own.pc \in Removing \cup Placing
    PROVE  /\ Own.telemetry = "none" /\ Own.cmd \in {"install", "uninstall"} /\ ~Own.recorded /\ (tidy => ~Own.warned)
           /\ Own.pc \in Placing => Own.cmd = "install"
           /\ Own.cmd = "install" => Own.new > 0
           /\ box.os = "linux" /\ Own.cmd = "install" => ~Own.busy /\ os.active < Own.new /\ job["cycle"].new < Own.new
           /\ Jobbing /\ "command" \in Deploy!Processes /\ "cycle" \in Deploy!Processes
<1>1. Jobbing /\ "command" \in Deploy!Processes /\ "cycle" \in Deploy!Processes
  BY DEF Deploy!Processes, Sorted, Jobbing
<1>2. InOrder("command", Own)
  BY <1>1 DEF Ordered, Own
<1>3. Own.telemetry = "none" /\ Own.cmd \in {"install", "uninstall"} /\ (Own.pc \in Placing => Own.cmd = "install") /\ (Own.cmd = "install" => Own.new > 0)
  BY <1>2 DEF InOrder, Removing, Placing, Running, Scanned
<1>4. Own.pc \notin Running \cup {"trigger", "start"} \cup Timed
  BY DEF Removing, Placing, Running, Timed
<1>5. tidy => ~Own.warned
  BY <1>3 DEF Upheld, Clean
<1>6. ~Own.recorded
  BY <1>4 DEF Upheld, Limited
<1>7. box.os = "linux" /\ Own.cmd = "install" => ~Own.busy /\ os.active < Own.new /\ job["cycle"].new < Own.new
  BY <1>4 DEF Upheld, Fresh
<1> QED BY <1>1, <1>3, <1>5, <1>6, <1>7

LEMMA Proceeds ==
    ASSUME Sorted, Ordered, Upheld, Around, tidy' => tidy, last' = last, Own.pc \in Removing \cup Placing,
           NEW l \in (Removing \ {"query"}) \cup Placing \cup {"persist"}, Deploy!Go("command", l), Steady(os'),
           Own.cmd = "install" => Arrives(os', l, Own), tidy' => Tidies(os', l, Own)
    PROVE  Upheld'
<1>1. Own'.pc = l /\ Alike(Own', Own) /\ job'["cycle"] = job["cycle"]
  BY Before, GoMoves DEF Own
<1>2. Cycling
  <2>1. Own.pc \notin {"start"} \cup Timed
    BY DEF Removing, Placing, Timed
  <2> QED BY <1>1, <2>1, CycleSame
<1>3. Own'.pc \notin {"idle", "query", "trigger"}
  BY <1>1 DEF Removing, Placing
<1>4. (Own.cmd = "install" => Arrives(os', Own'.pc, Own')) /\ (tidy' => Tidies(os', Own'.pc, Own'))
  BY <1>1 DEF Alike, Arrives, Tidies
<1> QED BY <1>1, <1>2, <1>3, <1>4, Before, GoesOn DEF Alike

LEMMA Fails ==
    ASSUME Sorted, Ordered, Upheld, Deploy!DeploymentAssumption, Around, Deploy!Exit("command", 1), ~tidy',
           Own.pc \in Removing \cup Placing, Steady(os')
    PROVE  Upheld'
<1>1. AtRest(Own') /\ Told(last'["command"], 1, Own) /\ job'["cycle"] = job["cycle"]
  BY Before, ExitMoves DEF Own
<1> QED BY <1>1, Before, Leaves

LEMMA Removes ==
    ASSUME Sorted, Ordered, Upheld, Deploy!DeploymentAssumption, Around, Deploy!Removed, tidy' => tidy,
           Own.pc \in Removing, Steady(os'), tidy' /\ Own.cmd = "uninstall" => Bare(os'),
           box.os = "linux" /\ Own.cmd = "install" => os'.active < Own.new
    PROVE  Upheld'
<1>1. CASE Own.cmd = "install"
  <2>1. Deploy!Go("command", "write") /\ last' = last
    BY <1>1 DEF Deploy!Removed, Own
  <2>2. Arrives(os', "write", Own)
    BY <1>1 DEF Arrives, After, Timed
  <2>4. tidy' => ~Own.warned
    BY Before
  <2>5. "write" \notin {"logon"} \cup After
    BY DEF After
  <2>6. tidy' => Tidies(os', "write", Own)
    BY <2>4, <2>5 DEF Tidies
  <2>3. "write" \in Placing
    BY DEF Placing
  <2> QED BY <1>1, <2>1, <2>2, <2>3, <2>6, Proceeds
<1>2. CASE Own.cmd # "install"
  <2>1. AtRest(Own') /\ Told(last'["command"], 0, Own) /\ job'["cycle"] = job["cycle"]
    BY <1>2, Before, RemovedMoves DEF Own
  <2> QED BY <1>2, <2>1, Before, Leaves
<1> QED BY <1>1, <1>2

-----------------------------------------------------------------------------
(* Each step of the schedulers'.                                           *)
LEMMA StoreIs == ASSUME Sorted PROVE os \in Stores
BY DEF Sorted

LEMMA QueryHolds ==
    ASSUME Sorted, Ordered, Upheld, Deploy!DeploymentAssumption, Deploy!Query
    PROVE  Upheld'
<1>1. Own.pc = "query" /\ Around
  BY DEF Deploy!Query, Deploy!At, Deploy!Same, Own, Around
<1>2. Own.pc \in Removing /\ Own.pc \in Removing \cup Placing
  BY <1>1 DEF Removing, Placing
<1>3. /\ Own.telemetry = "none" /\ Own.cmd \in {"install", "uninstall"} /\ (tidy => ~Own.warned)
      /\ Own.pc \in Placing => Own.cmd = "install"
      /\ Own.cmd = "install" => Own.new > 0
      /\ box.os = "linux" /\ Own.cmd = "install" => os.active < Own.new
      /\ os \in Stores /\ Steady(os) /\ Own \in Jobs /\ Used \in Nat
  BY <1>2, Before, StoreIs, SteadyNow, UsedIsNat DEF Jobbing, Own
<1>4. CASE Deploy!Works /\ os' = os /\ Deploy!Go("command", "remove") /\ last' = last
  <2>1. "remove" \in (Removing \ {"query"}) \cup Placing \cup {"persist"}
    BY DEF Removing, Placing
  <2>6. tidy' => tidy
    BY <1>4 DEF Deploy!Works, Deploy!Fault
  <2>2. Steady(os')
    <3> HIDE DEF Used
    <3> QED BY <1>1, <1>3, <1>4 DEF Steady, Stores, Versions, Deploy!Torn, Deploy!Enabled, Deploy!Tuned
  <2>3. Own.cmd = "install" => Arrives(os', "remove", Own)
    BY <1>1, <1>2, <1>3, <1>4 DEF Arrives, Removing, Placing, After, Timed, Stores, Deploy!Enabled, Deploy!Tuned
  <2>4. tidy' => ~Own.warned
    BY <2>6, <1>3
  <2>5. tidy' => Tidies(os', "remove", Own)
    BY <2>4, <1>1, <1>2, <1>3, <1>4 DEF Tidies, Removing, Placing, After, Timed, Stores, Deploy!Works, Deploy!Fault, Deploy!Enabled, Deploy!Tuned
  <2> QED BY <1>1, <1>2, <1>4, <2>1, <2>2, <2>3, <2>5, <2>6, Proceeds
<1>5. CASE os' = os /\ Deploy!Works /\ ~Deploy!IsConfigured(os) /\ Deploy!Removed
  <2>1. Steady(os')
    <3> HIDE DEF Used
    <3> QED BY <1>1, <1>3, <1>5 DEF Steady, Stores, Versions
  <2>2. tidy' /\ Own.cmd = "uninstall" => Bare(os')
    BY <1>1, <1>2, <1>3, <1>5, BoxIs DEF Deploy!Works, Deploy!Fault, Steady, Stores, Bare, Upheld, Clean, Settled, Deploy!IsConfigured
  <2>3. (tidy' => tidy) /\ (box.os = "linux" /\ Own.cmd = "install" => os'.active < Own.new)
    BY <1>1, <1>3, <1>5 DEF Deploy!Works, Deploy!Fault, Stores
  <2> QED BY <1>1, <1>2, <1>5, <2>1, <2>2, <2>3, Removes
<1>6. CASE os' = os /\ Deploy!Fault /\ Deploy!Removed
  <2>1. Steady(os')
    <3> HIDE DEF Used
    <3> QED BY <1>1, <1>3, <1>6 DEF Steady, Stores, Versions
  <2>2. tidy' /\ Own.cmd = "uninstall" => Bare(os')
    BY <1>1, <1>2, <1>3, <1>6, BoxIs DEF Deploy!Works, Deploy!Fault, Steady, Stores, Bare
  <2>3. (tidy' => tidy) /\ (box.os = "linux" /\ Own.cmd = "install" => os'.active < Own.new)
    BY <1>1, <1>3, <1>6 DEF Deploy!Works, Deploy!Fault, Stores
  <2> QED BY <1>1, <1>2, <1>6, <2>1, <2>2, <2>3, Removes
<1>7. os' = os
  BY DEF Deploy!Query
<1> QED BY <1>4, <1>5, <1>6, <1>7 DEF Deploy!Query

LEMMA BootoutHolds ==
    ASSUME Sorted, Ordered, Upheld, Deploy!DeploymentAssumption, Deploy!Bootout
    PROVE  Upheld'
<1>1. Own.pc = "remove" /\ box.os = "darwin" /\ Around
  BY DEF Deploy!Bootout, Deploy!At, Deploy!Same, Own, Around, Deploy!Darwin
<1>2. Own.pc \in Removing /\ Own.pc \in Removing \cup Placing
  BY <1>1 DEF Removing, Placing
<1>3. /\ Own.telemetry = "none" /\ Own.cmd \in {"install", "uninstall"} /\ (tidy => ~Own.warned)
      /\ Own.pc \in Placing => Own.cmd = "install"
      /\ Own.cmd = "install" => Own.new > 0
      /\ box.os = "linux" /\ Own.cmd = "install" => os.active < Own.new
      /\ os \in Stores /\ Steady(os) /\ Own \in Jobs /\ Used \in Nat
  BY <1>2, Before, StoreIs, SteadyNow, UsedIsNat DEF Jobbing, Own
<1>4. CASE Deploy!Works /\ os.job # 0 /\ os' = [os EXCEPT !.dying = TRUE] /\ Deploy!Go("command", "await") /\ last' = last
  <2>1. "await" \in (Removing \ {"query"}) \cup Placing \cup {"persist"}
    BY DEF Removing, Placing
  <2>6. tidy' => tidy
    BY <1>4 DEF Deploy!Works, Deploy!Fault
  <2>2. Steady(os')
    <3> HIDE DEF Used
    <3> QED BY <1>1, <1>3, <1>4 DEF Steady, Stores, Versions, Deploy!Torn, Deploy!Enabled, Deploy!Tuned
  <2>3. Own.cmd = "install" => Arrives(os', "await", Own)
    BY <1>1, <1>2, <1>3, <1>4 DEF Arrives, Removing, Placing, After, Timed, Stores, Deploy!Enabled, Deploy!Tuned
  <2>4. tidy' => ~Own.warned
    BY <2>6, <1>3
  <2>5. tidy' => Tidies(os', "await", Own)
    BY <2>4, <1>1, <1>2, <1>3, <1>4 DEF Tidies, Removing, Placing, After, Timed, Stores, Deploy!Works, Deploy!Fault, Deploy!Enabled, Deploy!Tuned
  <2> QED BY <1>1, <1>2, <1>4, <2>1, <2>2, <2>3, <2>5, <2>6, Proceeds
<1>5. CASE Deploy!Works /\ os.job = 0 /\ os' = os /\ Deploy!Go("command", "unlink") /\ last' = last
  <2>1. "unlink" \in (Removing \ {"query"}) \cup Placing \cup {"persist"}
    BY DEF Removing, Placing
  <2>6. tidy' => tidy
    BY <1>5 DEF Deploy!Works, Deploy!Fault
  <2>2. Steady(os')
    <3> HIDE DEF Used
    <3> QED BY <1>1, <1>3, <1>5 DEF Steady, Stores, Versions, Deploy!Torn, Deploy!Enabled, Deploy!Tuned
  <2>3. Own.cmd = "install" => Arrives(os', "unlink", Own)
    BY <1>1, <1>2, <1>3, <1>5 DEF Arrives, Removing, Placing, After, Timed, Stores, Deploy!Enabled, Deploy!Tuned
  <2>4. tidy' => ~Own.warned
    BY <2>6, <1>3
  <2>5. tidy' => Tidies(os', "unlink", Own)
    BY <2>4, <1>1, <1>2, <1>3, <1>5 DEF Tidies, Removing, Placing, After, Timed, Stores, Deploy!Works, Deploy!Fault, Deploy!Enabled, Deploy!Tuned
  <2> QED BY <1>1, <1>2, <1>5, <2>1, <2>2, <2>3, <2>5, <2>6, Proceeds
<1>6. CASE Deploy!Fault /\ os' = os /\ Deploy!Go("command", "unlink") /\ last' = last
  <2>1. "unlink" \in (Removing \ {"query"}) \cup Placing \cup {"persist"}
    BY DEF Removing, Placing
  <2>6. tidy' => tidy
    BY <1>6 DEF Deploy!Works, Deploy!Fault
  <2>2. Steady(os')
    <3> HIDE DEF Used
    <3> QED BY <1>1, <1>3, <1>6 DEF Steady, Stores, Versions, Deploy!Torn, Deploy!Enabled, Deploy!Tuned
  <2>3. Own.cmd = "install" => Arrives(os', "unlink", Own)
    BY <1>1, <1>2, <1>3, <1>6 DEF Arrives, Removing, Placing, After, Timed, Stores, Deploy!Enabled, Deploy!Tuned
  <2>4. tidy' => ~Own.warned
    BY <2>6, <1>3
  <2>5. tidy' => Tidies(os', "unlink", Own)
    BY <2>4, <1>1, <1>2, <1>3, <1>6 DEF Tidies, Removing, Placing, After, Timed, Stores, Deploy!Works, Deploy!Fault, Deploy!Enabled, Deploy!Tuned
  <2> QED BY <1>1, <1>2, <1>6, <2>1, <2>2, <2>3, <2>5, <2>6, Proceeds
<1> QED BY <1>4, <1>5, <1>6 DEF Deploy!Bootout

LEMMA waitForBootoutHolds ==
    ASSUME Sorted, Ordered, Upheld, Deploy!DeploymentAssumption, Deploy!waitForBootout
    PROVE  Upheld'
<1>1. Own.pc = "await" /\ box.os = "darwin" /\ Around
  BY DEF Deploy!waitForBootout, Deploy!At, Deploy!Same, Own, Around, Deploy!Darwin
<1>2. Own.pc \in Removing /\ Own.pc \in Removing \cup Placing
  BY <1>1 DEF Removing, Placing
<1>3. /\ Own.telemetry = "none" /\ Own.cmd \in {"install", "uninstall"} /\ (tidy => ~Own.warned)
      /\ Own.pc \in Placing => Own.cmd = "install"
      /\ Own.cmd = "install" => Own.new > 0
      /\ box.os = "linux" /\ Own.cmd = "install" => os.active < Own.new
      /\ os \in Stores /\ Steady(os) /\ Own \in Jobs /\ Used \in Nat
  BY <1>2, Before, StoreIs, SteadyNow, UsedIsNat DEF Jobbing, Own
<1>5. CASE Deploy!Works /\ os.job = 0 /\ os' = os /\ Deploy!Go("command", "unlink") /\ last' = last
  <2>1. "unlink" \in (Removing \ {"query"}) \cup Placing \cup {"persist"}
    BY DEF Removing, Placing
  <2>6. tidy' => tidy
    BY <1>5 DEF Deploy!Works, Deploy!Fault
  <2>2. Steady(os')
    <3> HIDE DEF Used
    <3> QED BY <1>1, <1>3, <1>5 DEF Steady, Stores, Versions, Deploy!Torn, Deploy!Enabled, Deploy!Tuned
  <2>3. Own.cmd = "install" => Arrives(os', "unlink", Own)
    BY <1>1, <1>2, <1>3, <1>5 DEF Arrives, Removing, Placing, After, Timed, Stores, Deploy!Enabled, Deploy!Tuned
  <2>4. tidy' => ~Own.warned
    BY <2>6, <1>3
  <2>5. tidy' => Tidies(os', "unlink", Own)
    BY <2>4, <1>1, <1>2, <1>3, <1>5 DEF Tidies, Removing, Placing, After, Timed, Stores, Deploy!Works, Deploy!Fault, Deploy!Enabled, Deploy!Tuned
  <2> QED BY <1>1, <1>2, <1>5, <2>1, <2>2, <2>3, <2>5, <2>6, Proceeds
<1>6. CASE Deploy!Fault /\ os' = os /\ Deploy!Go("command", "unlink") /\ last' = last
  <2>1. "unlink" \in (Removing \ {"query"}) \cup Placing \cup {"persist"}
    BY DEF Removing, Placing
  <2>6. tidy' => tidy
    BY <1>6 DEF Deploy!Works, Deploy!Fault
  <2>2. Steady(os')
    <3> HIDE DEF Used
    <3> QED BY <1>1, <1>3, <1>6 DEF Steady, Stores, Versions, Deploy!Torn, Deploy!Enabled, Deploy!Tuned
  <2>3. Own.cmd = "install" => Arrives(os', "unlink", Own)
    BY <1>1, <1>2, <1>3, <1>6 DEF Arrives, Removing, Placing, After, Timed, Stores, Deploy!Enabled, Deploy!Tuned
  <2>4. tidy' => ~Own.warned
    BY <2>6, <1>3
  <2>5. tidy' => Tidies(os', "unlink", Own)
    BY <2>4, <1>1, <1>2, <1>3, <1>6 DEF Tidies, Removing, Placing, After, Timed, Stores, Deploy!Works, Deploy!Fault, Deploy!Enabled, Deploy!Tuned
  <2> QED BY <1>1, <1>2, <1>6, <2>1, <2>2, <2>3, <2>5, <2>6, Proceeds
<1> QED BY <1>5, <1>6 DEF Deploy!waitForBootout

LEMMA UnlinkPlistHolds ==
    ASSUME Sorted, Ordered, Upheld, Deploy!DeploymentAssumption, Deploy!UnlinkPlist
    PROVE  Upheld'
<1>1. Own.pc = "unlink" /\ box.os = "darwin" /\ Around
  BY DEF Deploy!UnlinkPlist, Deploy!At, Deploy!Same, Own, Around, Deploy!Darwin
<1>2. Own.pc \in Removing /\ Own.pc \in Removing \cup Placing
  BY <1>1 DEF Removing, Placing
<1>3. /\ Own.telemetry = "none" /\ Own.cmd \in {"install", "uninstall"} /\ (tidy => ~Own.warned)
      /\ Own.pc \in Placing => Own.cmd = "install"
      /\ Own.cmd = "install" => Own.new > 0
      /\ box.os = "linux" /\ Own.cmd = "install" => os.active < Own.new
      /\ os \in Stores /\ Steady(os) /\ Own \in Jobs /\ Used \in Nat
  BY <1>2, Before, StoreIs, SteadyNow, UsedIsNat DEF Jobbing, Own
<1>4. CASE Deploy!Works /\ os' = [os EXCEPT !.plist = 0] /\ Deploy!Removed
  <2>1. Steady(os')
    <3> HIDE DEF Used
    <3> QED BY <1>1, <1>3, <1>4 DEF Steady, Stores, Versions
  <2>2. tidy' /\ Own.cmd = "uninstall" => Bare(os')
    BY <1>1, <1>2, <1>3, <1>4, BoxIs DEF Deploy!Works, Deploy!Fault, Steady, Stores, Bare, Upheld, Clean
  <2>3. (tidy' => tidy) /\ (box.os = "linux" /\ Own.cmd = "install" => os'.active < Own.new)
    BY <1>1, <1>3, <1>4 DEF Deploy!Works, Deploy!Fault, Stores
  <2> QED BY <1>1, <1>2, <1>4, <2>1, <2>2, <2>3, Removes
<1>5. CASE Deploy!Fault /\ os' = os /\ Deploy!Removed
  <2>1. Steady(os')
    <3> HIDE DEF Used
    <3> QED BY <1>1, <1>3, <1>5 DEF Steady, Stores, Versions
  <2>2. tidy' /\ Own.cmd = "uninstall" => Bare(os')
    BY <1>1, <1>2, <1>3, <1>5, BoxIs DEF Deploy!Works, Deploy!Fault, Steady, Stores, Bare
  <2>3. (tidy' => tidy) /\ (box.os = "linux" /\ Own.cmd = "install" => os'.active < Own.new)
    BY <1>1, <1>3, <1>5 DEF Deploy!Works, Deploy!Fault, Stores
  <2> QED BY <1>1, <1>2, <1>5, <2>1, <2>2, <2>3, Removes
<1> QED BY <1>4, <1>5 DEF Deploy!UnlinkPlist

LEMMA WritePlistHolds ==
    ASSUME Sorted, Ordered, Upheld, Deploy!DeploymentAssumption, Deploy!WritePlist
    PROVE  Upheld'
<1>1. Own.pc = "write" /\ box.os = "darwin" /\ Around
  BY DEF Deploy!WritePlist, Deploy!At, Deploy!Same, Own, Around, Deploy!Darwin
<1>2. Own.pc \in Placing /\ Own.pc \in Removing \cup Placing
  BY <1>1 DEF Removing, Placing
<1>3. /\ Own.telemetry = "none" /\ Own.cmd \in {"install", "uninstall"} /\ (tidy => ~Own.warned)
      /\ Own.pc \in Placing => Own.cmd = "install"
      /\ Own.cmd = "install" => Own.new > 0
      /\ box.os = "linux" /\ Own.cmd = "install" => os.active < Own.new
      /\ os \in Stores /\ Steady(os) /\ Own \in Jobs /\ Used \in Nat
  BY <1>2, Before, StoreIs, SteadyNow, UsedIsNat DEF Jobbing, Own
<1>4. CASE Deploy!Works /\ os' = [os EXCEPT !.plist = Deploy!Torn] /\ Deploy!Go("command", "fill") /\ last' = last
  <2>1. "fill" \in (Removing \ {"query"}) \cup Placing \cup {"persist"}
    BY DEF Removing, Placing
  <2>6. tidy' => tidy
    BY <1>4 DEF Deploy!Works, Deploy!Fault
  <2>2. Steady(os')
    <3> HIDE DEF Used
    <3> QED BY <1>1, <1>3, <1>4 DEF Steady, Stores, Versions, Deploy!Torn, Deploy!Enabled, Deploy!Tuned
  <2>3. Own.cmd = "install" => Arrives(os', "fill", Own)
    BY <1>1, <1>2, <1>3, <1>4 DEF Arrives, Removing, Placing, After, Timed, Stores, Deploy!Enabled, Deploy!Tuned
  <2>4. tidy' => ~Own.warned
    BY <2>6, <1>3
  <2>5. tidy' => Tidies(os', "fill", Own)
    BY <2>4, <1>1, <1>2, <1>3, <1>4 DEF Tidies, Removing, Placing, After, Timed, Stores, Deploy!Works, Deploy!Fault, Deploy!Enabled, Deploy!Tuned
  <2> QED BY <1>1, <1>2, <1>4, <2>1, <2>2, <2>3, <2>5, <2>6, Proceeds
<1>5. CASE os' = os /\ Deploy!Fault /\ Deploy!Exit("command", 1)
  <2>1. Steady(os')
    <3> HIDE DEF Used
    <3> QED BY <1>1, <1>3, <1>5 DEF Steady, Stores, Versions, Deploy!Torn
  <2>2. ~tidy'
    BY <1>5 DEF Deploy!Fault
  <2> QED BY <1>1, <1>2, <1>5, <2>1, <2>2, Fails
<1> QED BY <1>4, <1>5 DEF Deploy!WritePlist

LEMMA FillPlistHolds ==
    ASSUME Sorted, Ordered, Upheld, Deploy!DeploymentAssumption, Deploy!FillPlist
    PROVE  Upheld'
<1>1. Own.pc = "fill" /\ box.os = "darwin" /\ Around
  BY DEF Deploy!FillPlist, Deploy!At, Deploy!Same, Own, Around, Deploy!Darwin
<1>2. Own.pc \in Placing /\ Own.pc \in Removing \cup Placing
  BY <1>1 DEF Removing, Placing
<1>3. /\ Own.telemetry = "none" /\ Own.cmd \in {"install", "uninstall"} /\ (tidy => ~Own.warned)
      /\ Own.pc \in Placing => Own.cmd = "install"
      /\ Own.cmd = "install" => Own.new > 0
      /\ box.os = "linux" /\ Own.cmd = "install" => os.active < Own.new
      /\ os \in Stores /\ Steady(os) /\ Own \in Jobs /\ Used \in Nat
  BY <1>2, Before, StoreIs, SteadyNow, UsedIsNat DEF Jobbing, Own
<1>7. Own.new <= Used /\ Own.new \in Nat
  BY DEF Upheld, Fresh, Deploy!Processes, Own, Sorted, Jobs
<1>8. Own = job["command"]
  BY DEF Own
<1>4. CASE Deploy!Works /\ os' = [os EXCEPT !.plist = Own.new] /\ Deploy!Go("command", "load") /\ last' = last
  <2>1. "load" \in (Removing \ {"query"}) \cup Placing \cup {"persist"}
    BY DEF Removing, Placing
  <2>6. tidy' => tidy
    BY <1>4 DEF Deploy!Works, Deploy!Fault
  <2>2. Steady(os')
    <3> HIDE DEF Used
    <3> QED BY <1>1, <1>3, <1>4, <1>7 DEF Steady, Stores, Versions, Deploy!Torn, Deploy!Enabled, Deploy!Tuned
  <2>3. Own.cmd = "install" => Arrives(os', "load", Own)
    BY <1>1, <1>2, <1>3, <1>4 DEF Arrives, Removing, Placing, After, Timed, Stores, Deploy!Enabled, Deploy!Tuned
  <2>4. tidy' => ~Own.warned
    BY <2>6, <1>3
  <2>5. tidy' => Tidies(os', "load", Own)
    BY <2>4, <1>1, <1>2, <1>3, <1>4 DEF Tidies, Removing, Placing, After, Timed, Stores, Deploy!Works, Deploy!Fault, Deploy!Enabled, Deploy!Tuned
  <2> QED BY <1>1, <1>2, <1>4, <2>1, <2>2, <2>3, <2>5, <2>6, Proceeds
<1>5. CASE os' = os /\ Deploy!Fault /\ Deploy!Exit("command", 1)
  <2>1. Steady(os')
    <3> HIDE DEF Used
    <3> QED BY <1>1, <1>3, <1>5 DEF Steady, Stores, Versions, Deploy!Torn
  <2>2. ~tidy'
    BY <1>5 DEF Deploy!Fault
  <2> QED BY <1>1, <1>2, <1>5, <2>1, <2>2, Fails
<1> QED BY <1>4, <1>5, <1>8 DEF Deploy!FillPlist

LEMMA DisableHolds ==
    ASSUME Sorted, Ordered, Upheld, Deploy!DeploymentAssumption, Deploy!Disable
    PROVE  Upheld'
<1>1. Own.pc = "remove" /\ box.os = "linux" /\ Around
  BY DEF Deploy!Disable, Deploy!At, Deploy!Same, Own, Around, Deploy!Linux
<1>2. Own.pc \in Removing /\ Own.pc \in Removing \cup Placing
  BY <1>1 DEF Removing, Placing
<1>3. /\ Own.telemetry = "none" /\ Own.cmd \in {"install", "uninstall"} /\ (tidy => ~Own.warned)
      /\ Own.pc \in Placing => Own.cmd = "install"
      /\ Own.cmd = "install" => Own.new > 0
      /\ box.os = "linux" /\ Own.cmd = "install" => os.active < Own.new
      /\ os \in Stores /\ Steady(os) /\ Own \in Jobs /\ Used \in Nat
  BY <1>2, Before, StoreIs, SteadyNow, UsedIsNat DEF Jobbing, Own
<1>4. CASE Deploy!Works /\ os' = [os EXCEPT !.enabled = FALSE, !.active = 0] /\ Deploy!Go("command", "stop") /\ last' = last
  <2>1. "stop" \in (Removing \ {"query"}) \cup Placing \cup {"persist"}
    BY DEF Removing, Placing
  <2>6. tidy' => tidy
    BY <1>4 DEF Deploy!Works, Deploy!Fault
  <2>2. Steady(os')
    <3> HIDE DEF Used
    <3> QED BY <1>1, <1>3, <1>4 DEF Steady, Stores, Versions, Deploy!Torn, Deploy!Enabled, Deploy!Tuned
  <2>3. Own.cmd = "install" => Arrives(os', "stop", Own)
    BY <1>1, <1>2, <1>3, <1>4 DEF Arrives, Removing, Placing, After, Timed, Stores, Deploy!Enabled, Deploy!Tuned
  <2>4. tidy' => ~Own.warned
    BY <2>6, <1>3
  <2>5. tidy' => Tidies(os', "stop", Own)
    BY <2>4, <1>1, <1>2, <1>3, <1>4 DEF Tidies, Removing, Placing, After, Timed, Stores, Deploy!Works, Deploy!Fault, Deploy!Enabled, Deploy!Tuned
  <2> QED BY <1>1, <1>2, <1>4, <2>1, <2>2, <2>3, <2>5, <2>6, Proceeds
<1>5. CASE Deploy!Fault /\ os' = os /\ Deploy!Go("command", "stop") /\ last' = last
  <2>1. "stop" \in (Removing \ {"query"}) \cup Placing \cup {"persist"}
    BY DEF Removing, Placing
  <2>6. tidy' => tidy
    BY <1>5 DEF Deploy!Works, Deploy!Fault
  <2>2. Steady(os')
    <3> HIDE DEF Used
    <3> QED BY <1>1, <1>3, <1>5 DEF Steady, Stores, Versions, Deploy!Torn, Deploy!Enabled, Deploy!Tuned
  <2>3. Own.cmd = "install" => Arrives(os', "stop", Own)
    BY <1>1, <1>2, <1>3, <1>5 DEF Arrives, Removing, Placing, After, Timed, Stores, Deploy!Enabled, Deploy!Tuned
  <2>4. tidy' => ~Own.warned
    BY <2>6, <1>3
  <2>5. tidy' => Tidies(os', "stop", Own)
    BY <2>4, <1>1, <1>2, <1>3, <1>5 DEF Tidies, Removing, Placing, After, Timed, Stores, Deploy!Works, Deploy!Fault, Deploy!Enabled, Deploy!Tuned
  <2> QED BY <1>1, <1>2, <1>5, <2>1, <2>2, <2>3, <2>5, <2>6, Proceeds
<1> QED BY <1>4, <1>5 DEF Deploy!Disable

LEMMA UnlinkUnitsHolds ==
    ASSUME Sorted, Ordered, Upheld, Deploy!DeploymentAssumption, Deploy!UnlinkUnits
    PROVE  Upheld'
<1>1. Own.pc = "unlink" /\ box.os = "linux" /\ Around
  BY DEF Deploy!UnlinkUnits, Deploy!At, Deploy!Same, Own, Around, Deploy!Linux
<1>2. Own.pc \in Removing /\ Own.pc \in Removing \cup Placing
  BY <1>1 DEF Removing, Placing
<1>3. /\ Own.telemetry = "none" /\ Own.cmd \in {"install", "uninstall"} /\ (tidy => ~Own.warned)
      /\ Own.pc \in Placing => Own.cmd = "install"
      /\ Own.cmd = "install" => Own.new > 0
      /\ box.os = "linux" /\ Own.cmd = "install" => os.active < Own.new
      /\ os \in Stores /\ Steady(os) /\ Own \in Jobs /\ Used \in Nat
  BY <1>2, Before, StoreIs, SteadyNow, UsedIsNat DEF Jobbing, Own
<1>4. CASE Deploy!Works /\ os' = [os EXCEPT !.service = 0, !.timer = 0] /\ Deploy!Removed
  <2>1. Steady(os')
    <3> HIDE DEF Used
    <3> QED BY <1>1, <1>3, <1>4 DEF Steady, Stores, Versions
  <2>2. tidy' /\ Own.cmd = "uninstall" => Bare(os')
    BY <1>1, <1>2, <1>3, <1>4, BoxIs DEF Deploy!Works, Deploy!Fault, Steady, Stores, Bare, Upheld, Clean
  <2>3. (tidy' => tidy) /\ (box.os = "linux" /\ Own.cmd = "install" => os'.active < Own.new)
    BY <1>1, <1>3, <1>4 DEF Deploy!Works, Deploy!Fault, Stores
  <2> QED BY <1>1, <1>2, <1>4, <2>1, <2>2, <2>3, Removes
<1>5. CASE Deploy!Fault /\ os' = [os EXCEPT !.service = 0] /\ Deploy!Removed
  <2>1. Steady(os')
    <3> HIDE DEF Used
    <3> QED BY <1>1, <1>3, <1>5 DEF Steady, Stores, Versions
  <2>2. tidy' /\ Own.cmd = "uninstall" => Bare(os')
    BY <1>1, <1>2, <1>3, <1>5, BoxIs DEF Deploy!Works, Deploy!Fault, Steady, Stores, Bare
  <2>3. (tidy' => tidy) /\ (box.os = "linux" /\ Own.cmd = "install" => os'.active < Own.new)
    BY <1>1, <1>3, <1>5 DEF Deploy!Works, Deploy!Fault, Stores
  <2> QED BY <1>1, <1>2, <1>5, <2>1, <2>2, <2>3, Removes
<1>6. CASE Deploy!Fault /\ os' = [os EXCEPT !.timer = 0] /\ Deploy!Removed
  <2>1. Steady(os')
    <3> HIDE DEF Used
    <3> QED BY <1>1, <1>3, <1>6 DEF Steady, Stores, Versions
  <2>2. tidy' /\ Own.cmd = "uninstall" => Bare(os')
    BY <1>1, <1>2, <1>3, <1>6, BoxIs DEF Deploy!Works, Deploy!Fault, Steady, Stores, Bare
  <2>3. (tidy' => tidy) /\ (box.os = "linux" /\ Own.cmd = "install" => os'.active < Own.new)
    BY <1>1, <1>3, <1>6 DEF Deploy!Works, Deploy!Fault, Stores
  <2> QED BY <1>1, <1>2, <1>6, <2>1, <2>2, <2>3, Removes
<1> QED BY <1>4, <1>5, <1>6 DEF Deploy!UnlinkUnits

LEMMA WriteServiceHolds ==
    ASSUME Sorted, Ordered, Upheld, Deploy!DeploymentAssumption, Deploy!WriteService
    PROVE  Upheld'
<1>1. Own.pc = "write" /\ box.os = "linux" /\ Around
  BY DEF Deploy!WriteService, Deploy!At, Deploy!Same, Own, Around, Deploy!Linux
<1>2. Own.pc \in Placing /\ Own.pc \in Removing \cup Placing
  BY <1>1 DEF Removing, Placing
<1>3. /\ Own.telemetry = "none" /\ Own.cmd \in {"install", "uninstall"} /\ (tidy => ~Own.warned)
      /\ Own.pc \in Placing => Own.cmd = "install"
      /\ Own.cmd = "install" => Own.new > 0
      /\ box.os = "linux" /\ Own.cmd = "install" => os.active < Own.new
      /\ os \in Stores /\ Steady(os) /\ Own \in Jobs /\ Used \in Nat
  BY <1>2, Before, StoreIs, SteadyNow, UsedIsNat DEF Jobbing, Own
<1>7. Own.new <= Used /\ Own.new \in Nat
  BY DEF Upheld, Fresh, Deploy!Processes, Own, Sorted, Jobs
<1>8. Own = job["command"]
  BY DEF Own
<1>4. CASE Deploy!Works /\ os' = [os EXCEPT !.service = Own.new] /\ Deploy!Go("command", "fill") /\ last' = last
  <2>1. "fill" \in (Removing \ {"query"}) \cup Placing \cup {"persist"}
    BY DEF Removing, Placing
  <2>6. tidy' => tidy
    BY <1>4 DEF Deploy!Works, Deploy!Fault
  <2>2. Steady(os')
    <3> HIDE DEF Used
    <3> QED BY <1>1, <1>3, <1>4, <1>7 DEF Steady, Stores, Versions, Deploy!Torn, Deploy!Enabled, Deploy!Tuned
  <2>3. Own.cmd = "install" => Arrives(os', "fill", Own)
    BY <1>1, <1>2, <1>3, <1>4 DEF Arrives, Removing, Placing, After, Timed, Stores, Deploy!Enabled, Deploy!Tuned
  <2>4. tidy' => ~Own.warned
    BY <2>6, <1>3
  <2>5. tidy' => Tidies(os', "fill", Own)
    BY <2>4, <1>1, <1>2, <1>3, <1>4 DEF Tidies, Removing, Placing, After, Timed, Stores, Deploy!Works, Deploy!Fault, Deploy!Enabled, Deploy!Tuned
  <2> QED BY <1>1, <1>2, <1>4, <2>1, <2>2, <2>3, <2>5, <2>6, Proceeds
<1>5. ASSUME NEW v \in {os.service, Deploy!Torn}, Deploy!Fault, Deploy!Exit("command", 1), os' = [os EXCEPT !.service = v] PROVE Upheld'
  <2>1. Steady(os')
    <3> HIDE DEF Used
    <3> QED BY <1>1, <1>3, <1>5 DEF Steady, Stores, Versions, Deploy!Torn
  <2>2. ~tidy'
    BY <1>5 DEF Deploy!Fault
  <2> QED BY <1>1, <1>2, <1>5, <2>1, <2>2, Fails
<1> QED BY <1>4, <1>5, <1>8 DEF Deploy!WriteService

LEMMA WriteTimerHolds ==
    ASSUME Sorted, Ordered, Upheld, Deploy!DeploymentAssumption, Deploy!WriteTimer
    PROVE  Upheld'
<1>1. Own.pc = "fill" /\ box.os = "linux" /\ Around
  BY DEF Deploy!WriteTimer, Deploy!At, Deploy!Same, Own, Around, Deploy!Linux
<1>2. Own.pc \in Placing /\ Own.pc \in Removing \cup Placing
  BY <1>1 DEF Removing, Placing
<1>3. /\ Own.telemetry = "none" /\ Own.cmd \in {"install", "uninstall"} /\ (tidy => ~Own.warned)
      /\ Own.pc \in Placing => Own.cmd = "install"
      /\ Own.cmd = "install" => Own.new > 0
      /\ box.os = "linux" /\ Own.cmd = "install" => os.active < Own.new
      /\ os \in Stores /\ Steady(os) /\ Own \in Jobs /\ Used \in Nat
  BY <1>2, Before, StoreIs, SteadyNow, UsedIsNat DEF Jobbing, Own
<1>7. Own.new <= Used /\ Own.new \in Nat
  BY DEF Upheld, Fresh, Deploy!Processes, Own, Sorted, Jobs
<1>8. Own = job["command"]
  BY DEF Own
<1>4. CASE Deploy!Works /\ os' = [os EXCEPT !.timer = Own.new] /\ Deploy!Go("command", "load") /\ last' = last
  <2>1. "load" \in (Removing \ {"query"}) \cup Placing \cup {"persist"}
    BY DEF Removing, Placing
  <2>6. tidy' => tidy
    BY <1>4 DEF Deploy!Works, Deploy!Fault
  <2>2. Steady(os')
    <3> HIDE DEF Used
    <3> QED BY <1>1, <1>3, <1>4, <1>7 DEF Steady, Stores, Versions, Deploy!Torn, Deploy!Enabled, Deploy!Tuned
  <2>3. Own.cmd = "install" => Arrives(os', "load", Own)
    BY <1>1, <1>2, <1>3, <1>4 DEF Arrives, Removing, Placing, After, Timed, Stores, Deploy!Enabled, Deploy!Tuned
  <2>4. tidy' => ~Own.warned
    BY <2>6, <1>3
  <2>5. tidy' => Tidies(os', "load", Own)
    BY <2>4, <1>1, <1>2, <1>3, <1>4 DEF Tidies, Removing, Placing, After, Timed, Stores, Deploy!Works, Deploy!Fault, Deploy!Enabled, Deploy!Tuned
  <2> QED BY <1>1, <1>2, <1>4, <2>1, <2>2, <2>3, <2>5, <2>6, Proceeds
<1>5. ASSUME NEW v \in {os.timer, Deploy!Torn}, Deploy!Fault, Deploy!Exit("command", 1), os' = [os EXCEPT !.timer = v] PROVE Upheld'
  <2>1. Steady(os')
    <3> HIDE DEF Used
    <3> QED BY <1>1, <1>3, <1>5 DEF Steady, Stores, Versions, Deploy!Torn
  <2>2. ~tidy'
    BY <1>5 DEF Deploy!Fault
  <2> QED BY <1>1, <1>2, <1>5, <2>1, <2>2, Fails
<1> QED BY <1>4, <1>5, <1>8 DEF Deploy!WriteTimer

LEMMA EnableHolds ==
    ASSUME Sorted, Ordered, Upheld, Deploy!DeploymentAssumption, Deploy!Enable
    PROVE  Upheld'
<1>1. Own.pc = "load" /\ box.os = "linux" /\ Around
  BY DEF Deploy!Enable, Deploy!At, Deploy!Same, Own, Around, Deploy!Linux
<1>2. Own.pc \in Placing /\ Own.pc \in Removing \cup Placing
  BY <1>1 DEF Removing, Placing
<1>3. /\ Own.telemetry = "none" /\ Own.cmd \in {"install", "uninstall"} /\ (tidy => ~Own.warned)
      /\ Own.pc \in Placing => Own.cmd = "install"
      /\ Own.cmd = "install" => Own.new > 0
      /\ box.os = "linux" /\ Own.cmd = "install" => os.active < Own.new
      /\ os \in Stores /\ Steady(os) /\ Own \in Jobs /\ Used \in Nat
  BY <1>2, Before, StoreIs, SteadyNow, UsedIsNat DEF Jobbing, Own
<1>4. CASE Deploy!Works /\ os' = Deploy!Enabled(os) /\ Deploy!Go("command", "persist") /\ last' = last
  <2>1. "persist" \in (Removing \ {"query"}) \cup Placing \cup {"persist"}
    BY DEF Removing, Placing
  <2>6. tidy' => tidy
    BY <1>4 DEF Deploy!Works, Deploy!Fault
  <2>2. Steady(os')
    <3> HIDE DEF Used
    <3> QED BY <1>1, <1>3, <1>4 DEF Steady, Stores, Versions, Deploy!Torn, Deploy!Enabled, Deploy!Tuned
  <2>3. Own.cmd = "install" => Arrives(os', "persist", Own)
    BY <1>1, <1>2, <1>3, <1>4 DEF Arrives, Removing, Placing, After, Timed, Stores, Deploy!Enabled, Deploy!Tuned, Upheld, Holding
  <2>4. tidy' => ~Own.warned
    BY <2>6, <1>3
  <2>5. tidy' => Tidies(os', "persist", Own)
    BY <2>4, <1>1, <1>2, <1>3, <1>4 DEF Tidies, Removing, Placing, After, Timed, Stores, Deploy!Works, Deploy!Fault, Deploy!Enabled, Deploy!Tuned
  <2> QED BY <1>1, <1>2, <1>4, <2>1, <2>2, <2>3, <2>5, <2>6, Proceeds
<1>5. CASE os' = os /\ Deploy!Fault /\ Deploy!Exit("command", 1)
  <2>1. Steady(os')
    <3> HIDE DEF Used
    <3> QED BY <1>1, <1>3, <1>5 DEF Steady, Stores, Versions, Deploy!Torn
  <2>2. ~tidy'
    BY <1>5 DEF Deploy!Fault
  <2> QED BY <1>1, <1>2, <1>5, <2>1, <2>2, Fails
<1> QED BY <1>4, <1>5 DEF Deploy!Enable

LEMMA DeleteHourlyHolds ==
    ASSUME Sorted, Ordered, Upheld, Deploy!DeploymentAssumption, Deploy!DeleteHourly
    PROVE  Upheld'
<1>1. Own.pc = "remove" /\ box.os = "windows" /\ Around
  BY DEF Deploy!DeleteHourly, Deploy!At, Deploy!Same, Own, Around, Deploy!Windows
<1>2. Own.pc \in Removing /\ Own.pc \in Removing \cup Placing
  BY <1>1 DEF Removing, Placing
<1>3. /\ Own.telemetry = "none" /\ Own.cmd \in {"install", "uninstall"} /\ (tidy => ~Own.warned)
      /\ Own.pc \in Placing => Own.cmd = "install"
      /\ Own.cmd = "install" => Own.new > 0
      /\ box.os = "linux" /\ Own.cmd = "install" => os.active < Own.new
      /\ os \in Stores /\ Steady(os) /\ Own \in Jobs /\ Used \in Nat
  BY <1>2, Before, StoreIs, SteadyNow, UsedIsNat DEF Jobbing, Own
<1>4. CASE Deploy!Works /\ os' = [os EXCEPT !.hourly = 0, !.limit = 0] /\ Deploy!Go("command", "unlink") /\ last' = last
  <2>1. "unlink" \in (Removing \ {"query"}) \cup Placing \cup {"persist"}
    BY DEF Removing, Placing
  <2>6. tidy' => tidy
    BY <1>4 DEF Deploy!Works, Deploy!Fault
  <2>2. Steady(os')
    <3> HIDE DEF Used
    <3> QED BY <1>1, <1>3, <1>4 DEF Steady, Stores, Versions, Deploy!Torn, Deploy!Enabled, Deploy!Tuned
  <2>3. Own.cmd = "install" => Arrives(os', "unlink", Own)
    BY <1>1, <1>2, <1>3, <1>4 DEF Arrives, Removing, Placing, After, Timed, Stores, Deploy!Enabled, Deploy!Tuned
  <2>4. tidy' => ~Own.warned
    BY <2>6, <1>3
  <2>5. tidy' => Tidies(os', "unlink", Own)
    BY <2>4, <1>1, <1>2, <1>3, <1>4 DEF Tidies, Removing, Placing, After, Timed, Stores, Deploy!Works, Deploy!Fault, Deploy!Enabled, Deploy!Tuned
  <2> QED BY <1>1, <1>2, <1>4, <2>1, <2>2, <2>3, <2>5, <2>6, Proceeds
<1>5. CASE Deploy!Fault /\ os' = os /\ Deploy!Removed
  <2>1. Steady(os')
    <3> HIDE DEF Used
    <3> QED BY <1>1, <1>3, <1>5 DEF Steady, Stores, Versions
  <2>2. tidy' /\ Own.cmd = "uninstall" => Bare(os')
    BY <1>1, <1>2, <1>3, <1>5, BoxIs DEF Deploy!Works, Deploy!Fault, Steady, Stores, Bare
  <2>3. (tidy' => tidy) /\ (box.os = "linux" /\ Own.cmd = "install" => os'.active < Own.new)
    BY <1>1, <1>3, <1>5 DEF Deploy!Works, Deploy!Fault, Stores
  <2> QED BY <1>1, <1>2, <1>5, <2>1, <2>2, <2>3, Removes
<1>6. CASE os' = os /\ Deploy!Fault /\ Deploy!Exit("command", 1)
  <2>1. Steady(os')
    <3> HIDE DEF Used
    <3> QED BY <1>1, <1>3, <1>6 DEF Steady, Stores, Versions, Deploy!Torn
  <2>2. ~tidy'
    BY <1>6 DEF Deploy!Fault
  <2> QED BY <1>1, <1>2, <1>6, <2>1, <2>2, Fails
<1> QED BY <1>4, <1>5, <1>6 DEF Deploy!DeleteHourly

LEMMA DeleteLogonHolds ==
    ASSUME Sorted, Ordered, Upheld, Deploy!DeploymentAssumption, Deploy!DeleteLogon
    PROVE  Upheld'
<1>1. Own.pc = "unlink" /\ box.os = "windows" /\ Around
  BY DEF Deploy!DeleteLogon, Deploy!At, Deploy!Same, Own, Around, Deploy!Windows
<1>2. Own.pc \in Removing /\ Own.pc \in Removing \cup Placing
  BY <1>1 DEF Removing, Placing
<1>3. /\ Own.telemetry = "none" /\ Own.cmd \in {"install", "uninstall"} /\ (tidy => ~Own.warned)
      /\ Own.pc \in Placing => Own.cmd = "install"
      /\ Own.cmd = "install" => Own.new > 0
      /\ box.os = "linux" /\ Own.cmd = "install" => os.active < Own.new
      /\ os \in Stores /\ Steady(os) /\ Own \in Jobs /\ Used \in Nat
  BY <1>2, Before, StoreIs, SteadyNow, UsedIsNat DEF Jobbing, Own
<1>4. CASE Deploy!Works /\ os' = [os EXCEPT !.logon = 0] /\ Deploy!Removed
  <2>1. Steady(os')
    <3> HIDE DEF Used
    <3> QED BY <1>1, <1>3, <1>4 DEF Steady, Stores, Versions
  <2>2. tidy' /\ Own.cmd = "uninstall" => Bare(os')
    BY <1>1, <1>2, <1>3, <1>4, BoxIs DEF Deploy!Works, Deploy!Fault, Steady, Stores, Bare, Upheld, Clean
  <2>3. (tidy' => tidy) /\ (box.os = "linux" /\ Own.cmd = "install" => os'.active < Own.new)
    BY <1>1, <1>3, <1>4 DEF Deploy!Works, Deploy!Fault, Stores
  <2> QED BY <1>1, <1>2, <1>4, <2>1, <2>2, <2>3, Removes
<1>5. CASE Deploy!Fault /\ os' = os /\ Deploy!Removed
  <2>1. Steady(os')
    <3> HIDE DEF Used
    <3> QED BY <1>1, <1>3, <1>5 DEF Steady, Stores, Versions
  <2>2. tidy' /\ Own.cmd = "uninstall" => Bare(os')
    BY <1>1, <1>2, <1>3, <1>5, BoxIs DEF Deploy!Works, Deploy!Fault, Steady, Stores, Bare
  <2>3. (tidy' => tidy) /\ (box.os = "linux" /\ Own.cmd = "install" => os'.active < Own.new)
    BY <1>1, <1>3, <1>5 DEF Deploy!Works, Deploy!Fault, Stores
  <2> QED BY <1>1, <1>2, <1>5, <2>1, <2>2, <2>3, Removes
<1> QED BY <1>4, <1>5 DEF Deploy!DeleteLogon

LEMMA CreateHourlyHolds ==
    ASSUME Sorted, Ordered, Upheld, Deploy!DeploymentAssumption, Deploy!CreateHourly
    PROVE  Upheld'
<1>1. Own.pc = "write" /\ box.os = "windows" /\ Around
  BY DEF Deploy!CreateHourly, Deploy!At, Deploy!Same, Own, Around, Deploy!Windows
<1>2. Own.pc \in Placing /\ Own.pc \in Removing \cup Placing
  BY <1>1 DEF Removing, Placing
<1>3. /\ Own.telemetry = "none" /\ Own.cmd \in {"install", "uninstall"} /\ (tidy => ~Own.warned)
      /\ Own.pc \in Placing => Own.cmd = "install"
      /\ Own.cmd = "install" => Own.new > 0
      /\ box.os = "linux" /\ Own.cmd = "install" => os.active < Own.new
      /\ os \in Stores /\ Steady(os) /\ Own \in Jobs /\ Used \in Nat
  BY <1>2, Before, StoreIs, SteadyNow, UsedIsNat DEF Jobbing, Own
<1>7. Own.new <= Used /\ Own.new \in Nat
  BY DEF Upheld, Fresh, Deploy!Processes, Own, Sorted, Jobs
<1>8. Own = job["command"]
  BY DEF Own
<1>4. CASE Deploy!Works /\ os' = [os EXCEPT !.hourly = Own.new, !.limit = 72 * 60] /\ Deploy!Go("command", "tune") /\ last' = last
  <2>1. "tune" \in (Removing \ {"query"}) \cup Placing \cup {"persist"}
    BY DEF Removing, Placing
  <2>6. tidy' => tidy
    BY <1>4 DEF Deploy!Works, Deploy!Fault
  <2>2. Steady(os')
    <3> HIDE DEF Used
    <3> QED BY <1>1, <1>3, <1>4, <1>7 DEF Steady, Stores, Versions, Deploy!Torn, Deploy!Enabled, Deploy!Tuned
  <2>3. Own.cmd = "install" => Arrives(os', "tune", Own)
    BY <1>1, <1>2, <1>3, <1>4 DEF Arrives, Removing, Placing, After, Timed, Stores, Deploy!Enabled, Deploy!Tuned
  <2>4. tidy' => ~Own.warned
    BY <2>6, <1>3
  <2>5. tidy' => Tidies(os', "tune", Own)
    BY <2>4, <1>1, <1>2, <1>3, <1>4 DEF Tidies, Removing, Placing, After, Timed, Stores, Deploy!Works, Deploy!Fault, Deploy!Enabled, Deploy!Tuned
  <2> QED BY <1>1, <1>2, <1>4, <2>1, <2>2, <2>3, <2>5, <2>6, Proceeds
<1>5. CASE os' = os /\ Deploy!Fault /\ Deploy!Exit("command", 1)
  <2>1. Steady(os')
    <3> HIDE DEF Used
    <3> QED BY <1>1, <1>3, <1>5 DEF Steady, Stores, Versions, Deploy!Torn
  <2>2. ~tidy'
    BY <1>5 DEF Deploy!Fault
  <2> QED BY <1>1, <1>2, <1>5, <2>1, <2>2, Fails
<1> QED BY <1>4, <1>5, <1>8 DEF Deploy!CreateHourly

LEMMA TuneHolds ==
    ASSUME Sorted, Ordered, Upheld, Deploy!DeploymentAssumption, Deploy!Tune
    PROVE  Upheld'
<1>1. Own.pc = "tune" /\ box.os = "windows" /\ Around
  BY DEF Deploy!Tune, Deploy!At, Deploy!Same, Own, Around, Deploy!Windows
<1>2. Own.pc \in Placing /\ Own.pc \in Removing \cup Placing
  BY <1>1 DEF Removing, Placing
<1>3. /\ Own.telemetry = "none" /\ Own.cmd \in {"install", "uninstall"} /\ (tidy => ~Own.warned)
      /\ Own.pc \in Placing => Own.cmd = "install"
      /\ Own.cmd = "install" => Own.new > 0
      /\ box.os = "linux" /\ Own.cmd = "install" => os.active < Own.new
      /\ os \in Stores /\ Steady(os) /\ Own \in Jobs /\ Used \in Nat
  BY <1>2, Before, StoreIs, SteadyNow, UsedIsNat DEF Jobbing, Own
<1>7. Deploy!ExecutionDeadline(box.env, Own.seen.limit) = Limit
  <2>1. Own.seen.limit \in Limits
    BY DEF Upheld, Limited, Deploy!Processes, Own
  <2> QED BY <2>1, BoxIs DEF Limits, Limit, Deploy!ExecutionDeadline
<1>8. Own = job["command"]
  BY DEF Own
<1>4. CASE Deploy!Works /\ os' = Deploy!Tuned(os, Limit) /\ Deploy!Go("command", "logon") /\ last' = last
  <2>1. "logon" \in (Removing \ {"query"}) \cup Placing \cup {"persist"}
    BY DEF Removing, Placing
  <2>6. tidy' => tidy
    BY <1>4 DEF Deploy!Works, Deploy!Fault
  <2>2. Steady(os')
    <3> HIDE DEF Used
    <3> QED BY <1>1, <1>3, <1>4 DEF Steady, Stores, Versions, Deploy!Torn, Deploy!Enabled, Deploy!Tuned
  <2>3. Own.cmd = "install" => Arrives(os', "logon", Own)
    BY <1>1, <1>2, <1>3, <1>4 DEF Arrives, Removing, Placing, After, Timed, Stores, Deploy!Enabled, Deploy!Tuned, Upheld, Holding, Held
  <2>4. tidy' => ~Own.warned
    BY <2>6, <1>3
  <2>5. tidy' => Tidies(os', "logon", Own)
    BY <2>4, <1>1, <1>2, <1>3, <1>4 DEF Tidies, Removing, Placing, After, Timed, Stores, Deploy!Works, Deploy!Fault, Deploy!Enabled, Deploy!Tuned
  <2> QED BY <1>1, <1>2, <1>4, <2>1, <2>2, <2>3, <2>5, <2>6, Proceeds
<1>5. CASE Deploy!Fault /\ os' = os /\ Deploy!Go("command", "logon") /\ last' = last
  <2>1. "logon" \in (Removing \ {"query"}) \cup Placing \cup {"persist"}
    BY DEF Removing, Placing
  <2>6. tidy' => tidy
    BY <1>5 DEF Deploy!Works, Deploy!Fault
  <2>2. Steady(os')
    <3> HIDE DEF Used
    <3> QED BY <1>1, <1>3, <1>5 DEF Steady, Stores, Versions, Deploy!Torn, Deploy!Enabled, Deploy!Tuned
  <2>3. Own.cmd = "install" => Arrives(os', "logon", Own)
    BY <1>1, <1>2, <1>3, <1>5 DEF Arrives, Removing, Placing, After, Timed, Stores, Deploy!Enabled, Deploy!Tuned, Upheld, Holding, Held
  <2>4. tidy' => ~Own.warned
    BY <2>6, <1>3
  <2>5. tidy' => Tidies(os', "logon", Own)
    BY <2>4, <1>1, <1>2, <1>3, <1>5 DEF Tidies, Removing, Placing, After, Timed, Stores, Deploy!Works, Deploy!Fault, Deploy!Enabled, Deploy!Tuned
  <2> QED BY <1>1, <1>2, <1>5, <2>1, <2>2, <2>3, <2>5, <2>6, Proceeds
<1> QED BY <1>4, <1>5, <1>7, <1>8 DEF Deploy!Tune

LEMMA CreateLogonHolds ==
    ASSUME Sorted, Ordered, Upheld, Deploy!DeploymentAssumption, Deploy!CreateLogon
    PROVE  Upheld'
<1>1. Own.pc = "logon" /\ box.os = "windows" /\ Around
  BY DEF Deploy!CreateLogon, Deploy!At, Deploy!Same, Own, Around, Deploy!Windows
<1>2. Own.pc \in Placing /\ Own.pc \in Removing \cup Placing
  BY <1>1 DEF Removing, Placing
<1>3. /\ Own.telemetry = "none" /\ Own.cmd \in {"install", "uninstall"} /\ (tidy => ~Own.warned)
      /\ Own.pc \in Placing => Own.cmd = "install"
      /\ Own.cmd = "install" => Own.new > 0
      /\ box.os = "linux" /\ Own.cmd = "install" => os.active < Own.new
      /\ os \in Stores /\ Steady(os) /\ Own \in Jobs /\ Used \in Nat
  BY <1>2, Before, StoreIs, SteadyNow, UsedIsNat DEF Jobbing, Own
<1>7. Own.new <= Used /\ Own.new \in Nat
  BY DEF Upheld, Fresh, Deploy!Processes, Own, Sorted, Jobs
<1>8. Own = job["command"]
  BY DEF Own
<1>4. CASE Deploy!Works /\ os' = [os EXCEPT !.logon = Own.new] /\ Deploy!Go("command", "persist") /\ last' = last
  <2>1. "persist" \in (Removing \ {"query"}) \cup Placing \cup {"persist"}
    BY DEF Removing, Placing
  <2>6. tidy' => tidy
    BY <1>4 DEF Deploy!Works, Deploy!Fault
  <2>2. Steady(os')
    <3> HIDE DEF Used
    <3> QED BY <1>1, <1>3, <1>4, <1>7 DEF Steady, Stores, Versions, Deploy!Torn, Deploy!Enabled, Deploy!Tuned
  <2>3. Own.cmd = "install" => Arrives(os', "persist", Own)
    BY <1>1, <1>2, <1>3, <1>4 DEF Arrives, Removing, Placing, After, Timed, Stores, Deploy!Enabled, Deploy!Tuned, Upheld, Holding, Held
  <2>4. tidy' => ~Own.warned
    BY <2>6, <1>3
  <2>5. tidy' => Tidies(os', "persist", Own)
    BY <2>4, <1>1, <1>2, <1>3, <1>4 DEF Tidies, Removing, Placing, After, Timed, Stores, Deploy!Works, Deploy!Fault, Deploy!Enabled, Deploy!Tuned, Upheld, Limited
  <2> QED BY <1>1, <1>2, <1>4, <2>1, <2>2, <2>3, <2>5, <2>6, Proceeds
<1>5. CASE Deploy!Fault /\ os' = os /\ Deploy!Go("command", "persist") /\ last' = last
  <2>1. "persist" \in (Removing \ {"query"}) \cup Placing \cup {"persist"}
    BY DEF Removing, Placing
  <2>6. tidy' => tidy
    BY <1>5 DEF Deploy!Works, Deploy!Fault
  <2>2. Steady(os')
    <3> HIDE DEF Used
    <3> QED BY <1>1, <1>3, <1>5 DEF Steady, Stores, Versions, Deploy!Torn, Deploy!Enabled, Deploy!Tuned
  <2>3. Own.cmd = "install" => Arrives(os', "persist", Own)
    BY <1>1, <1>2, <1>3, <1>5 DEF Arrives, Removing, Placing, After, Timed, Stores, Deploy!Enabled, Deploy!Tuned, Upheld, Holding, Held
  <2>4. tidy' => ~Own.warned
    BY <2>6, <1>3
  <2>5. tidy' => Tidies(os', "persist", Own)
    BY <2>4, <1>1, <1>2, <1>3, <1>5 DEF Tidies, Removing, Placing, After, Timed, Stores, Deploy!Works, Deploy!Fault, Deploy!Enabled, Deploy!Tuned
  <2> QED BY <1>1, <1>2, <1>5, <2>1, <2>2, <2>3, <2>5, <2>6, Proceeds
<1> QED BY <1>4, <1>5, <1>8 DEF Deploy!CreateLogon

LEMMA StartsAt ==
    ASSUME Jobbing, NEW l, NEW v, job' = Deploy!Started([job EXCEPT !["command"].pc = l], v)
    PROVE  /\ Own'.pc = l /\ Alike(Own', Own)
           /\ job'["cycle"] = job["cycle"] \/ (job'["cycle"].new = v /\ job'["cycle"].seen.limit = 0)
<1>1. "cycle" \in Deploy!Processes /\ "command" \in Deploy!Processes /\ Own \in Jobs
  BY DEF Deploy!Processes, Jobbing, Own
<1> DEFINE begun == [Deploy!Rest EXCEPT !.pc = "enterprise", !.cmd = "send-telemetry", !.new = v, !.by = "scheduler"]
<1>2. Own' = [Own EXCEPT !.pc = l] /\ (job'["cycle"] = job["cycle"] \/ job'["cycle"] = begun)
  BY <1>1 DEF Deploy!Started, Jobbing, Own
<1>3. begun.new = v /\ begun.seen.limit = 0
  BY DEF Deploy!Rest, Deploy!NoFile
<1>4. Own'.pc = l /\ Alike(Own', Own)
  BY <1>1, <1>2 DEF Jobs, Alike
<1> QED BY <1>2, <1>3, <1>4

LEMMA bootstrapHolds ==
    ASSUME Sorted, Ordered, Upheld, Deploy!DeploymentAssumption, Deploy!bootstrap
    PROVE  Upheld'
<1>1. Own.pc = "load" /\ box.os = "darwin" /\ Around
  BY DEF Deploy!bootstrap, Deploy!Darwin, Deploy!At, Deploy!Same, Own, Around
<1>2. Own.pc \in Removing \cup Placing /\ Own.pc \in Placing
  BY <1>1 DEF Placing
<1>3. /\ Own.cmd = "install" /\ (tidy => ~Own.warned) /\ Own.new > 0 /\ ~Own.recorded /\ Jobbing
      /\ os \in Stores /\ Steady(os) /\ Own \in Jobs /\ Used \in Nat
  BY <1>2, Before, StoreIs, SteadyNow, UsedIsNat DEF Jobbing, Own
<1>4. os.plist = Own.new
  BY <1>1, <1>3 DEF Upheld, Holding
<1>5. "cycle" \in Deploy!Processes /\ "command" \in Deploy!Processes
  BY DEF Deploy!Processes
<1>6. CASE Deploy!Works /\ os.job = 0 /\ os' = [os EXCEPT !.job = os.plist] /\ last' = last
           /\ job' = Deploy!Started([job EXCEPT !["command"].pc = "persist"], os.plist)
  <2>1. /\ Own'.pc = "persist" /\ Alike(Own', Own)
        /\ job'["cycle"] = job["cycle"] \/ (job'["cycle"].new = os.plist /\ job'["cycle"].seen.limit = 0)
    BY <1>3, <1>6, StartsAt
  <2>2. Steady(os')
    <3> HIDE DEF Used
    <3> QED BY <1>1, <1>3, <1>4, <1>6 DEF Steady, Stores, Versions, Deploy!Torn
  <2>3. Cycling
    BY <1>1, <1>5, <2>1 DEF Upheld, Fresh, Limited, Cycling, Limits
  <2>4. Arrives(os', Own'.pc, Own')
    BY <1>1, <1>3, <1>4, <1>6, <2>1 DEF Arrives, Stores, Alike, Steady
  <2>5. (tidy' => tidy) /\ (tidy' => ~Own'.warned)
    BY <1>3, <1>6, <2>1 DEF Alike, Deploy!Works
  <2>6. tidy' => Tidies(os', Own'.pc, Own')
    BY <2>5, <2>1, <1>1 DEF Tidies
  <2> QED BY <1>1, <1>3, <1>6, <2>1, <2>2, <2>3, <2>4, <2>5, <2>6, GoesOn DEF Alike
<1>7. CASE Deploy!Works /\ job' = [job EXCEPT !["command"].tries = @ + 1] /\ os' = os /\ last' = last
  <2>1. Own' = [Own EXCEPT !.tries = @ + 1] /\ job'["cycle"] = job["cycle"]
    BY <1>3, <1>5, <1>7 DEF Jobbing, Own
  <2>2. Own'.pc = "load" /\ Alike(Own', Own)
    BY <1>1, <1>3, <2>1 DEF Jobs, Alike
  <2>3. Cycling
    BY <1>1, <2>1, <2>2, CycleSame DEF Timed
  <2>4. Arrives(os', Own'.pc, Own')
    BY <1>1, <1>4, <1>7, <2>2 DEF Arrives, Alike, After
  <2>5. (tidy' => tidy) /\ (tidy' => ~Own'.warned)
    BY <1>3, <1>7, <2>2 DEF Alike, Deploy!Works
  <2>6. tidy' => Tidies(os', Own'.pc, Own')
    BY <2>5, <2>2, <1>1 DEF Tidies
  <2> QED BY <1>1, <1>3, <1>7, <2>2, <2>3, <2>4, <2>5, <2>6, GoesOn DEF Alike
<1>8. CASE ~tidy' /\ Deploy!Exit("command", 1) /\ os' = os
  BY <1>1, <1>2, <1>3, <1>8, Fails
<1> QED BY <1>6, <1>7, <1>8 DEF Deploy!bootstrap, Deploy!Fault

LEMMA StopServiceHolds ==
    ASSUME Sorted, Ordered, Upheld, Deploy!DeploymentAssumption, Deploy!StopService
    PROVE  Upheld'
<1>1. Own.pc = "stop" /\ box.os = "linux" /\ Around /\ os' = os /\ last' = last
  BY DEF Deploy!StopService, Deploy!Linux, Deploy!At, Deploy!Same, Own, Around
<1>2. Own.pc \in Removing \cup Placing
  BY <1>1 DEF Removing
<1>3. /\ Own.cmd \in {"install", "uninstall"} /\ (tidy => ~Own.warned) /\ ~Own.recorded /\ Jobbing
      /\ Own.cmd = "install" => os.active < Own.new /\ job["cycle"].new < Own.new /\ Own.new > 0
      /\ Steady(os) /\ Own \in Jobs /\ Used \in Nat
  BY <1>1, <1>2, Before, SteadyNow, UsedIsNat DEF Jobbing, Own
<1>5. "cycle" \in Deploy!Processes /\ "command" \in Deploy!Processes
  BY DEF Deploy!Processes
<1>6. /\ Own'.pc = "unlink" /\ Alike(Own', Own)
      /\ job'["cycle"] = job["cycle"] \/ (job'["cycle"].new = 0 /\ job'["cycle"].seen.limit = 0)
  <2>1. CASE Deploy!Go("command", "unlink")
    BY <1>3, <1>5, <2>1, GoMoves DEF Own
  <2>2. CASE job' = [job EXCEPT !["command"].pc = "unlink", !["cycle"] = IF @.by = "scheduler" THEN Deploy!Rest ELSE @]
    <3>1. Own' = [Own EXCEPT !.pc = "unlink"] /\ (job'["cycle"] = job["cycle"] \/ job'["cycle"] = Deploy!Rest)
      BY <1>3, <1>5, <2>2 DEF Jobbing, Own
    <3>2. Own'.pc = "unlink" /\ Alike(Own', Own)
      BY <1>3, <3>1 DEF Jobs, Alike
    <3> QED BY <3>1, <3>2, RestRests DEF AtRest
  <2> QED BY <2>1, <2>2 DEF Deploy!StopService
<1>7. Cycling
  <2>1. job["cycle"].new <= Used /\ job["cycle"].seen.limit \in Limits /\ 0 \in Limits
    BY <1>5 DEF Upheld, Fresh, Limited, Limits
  <2> HIDE DEF Used, Limits
  <2> QED BY <1>3, <1>6, <2>1 DEF Cycling
<1>8. Own.cmd = "install" => Arrives(os', Own'.pc, Own')
  BY <1>1, <1>3, <1>6 DEF Arrives, Alike, After, Timed
<1>9. (tidy' => tidy) /\ (tidy' => ~Own'.warned)
  BY <1>3, <1>6 DEF Alike, Deploy!Works, Deploy!Fault, Deploy!StopService
<1>10. tidy => ~os.enabled /\ os.active = 0
  BY <1>1, <1>3 DEF Upheld, Clean
<1>11. tidy' => Tidies(os', Own'.pc, Own')
  BY <1>1, <1>6, <1>9, <1>10 DEF Tidies
<1> QED BY <1>1, <1>3, <1>6, <1>7, <1>8, <1>9, <1>11, GoesOn DEF Alike

LEMMA Installs ==
    ASSUME Sorted, Ordered, Upheld, Own.pc \in {"start", "persist", "save", "inplace", "trigger"}
    PROVE  /\ Own.cmd = "install" /\ (tidy => ~Own.warned) /\ Own.new > 0 /\ Jobbing /\ Own.pc \in After
           /\ box.os = "linux" /\ Own.pc # "start" => os.active < Own.new /\ job["cycle"].new < Own.new
           /\ os \in Stores /\ Steady(os) /\ Own \in Jobs /\ "cycle" \in Deploy!Processes /\ "command" \in Deploy!Processes
<1>1. Jobbing /\ "command" \in Deploy!Processes /\ "cycle" \in Deploy!Processes /\ Own \in Jobs
  BY DEF Deploy!Processes, Sorted, Jobbing, Own
<1>2. InOrder("command", Own)
  BY <1>1 DEF Ordered, Own
<1>3. Own.cmd = "install" /\ Own.new > 0 /\ Own.pc \in After
  BY <1>2 DEF InOrder, Removing, After, Running
<1>4. tidy => ~Own.warned
  BY <1>3 DEF Upheld, Clean
<1>5. box.os = "linux" /\ Own.pc # "start" => os.active < Own.new /\ job["cycle"].new < Own.new
  BY <1>3 DEF Upheld, Fresh, Timed
<1> QED BY <1>1, <1>3, <1>4, <1>5, StoreIs, SteadyNow

LEMMA StartTimerHolds ==
    ASSUME Sorted, Ordered, Upheld, Deploy!DeploymentAssumption, Deploy!StartTimer
    PROVE  Upheld'
<1>1. Own.pc = "start" /\ box.os = "linux" /\ Around /\ last' = last
  BY DEF Deploy!StartTimer, Deploy!Linux, Deploy!At, Deploy!Same, Own, Around
<1>2. /\ Own.cmd = "install" /\ (tidy => ~Own.warned) /\ Own.new > 0 /\ Jobbing
      /\ os \in Stores /\ Steady(os) /\ Own \in Jobs /\ "command" \in Deploy!Processes
  BY <1>1, Installs
<1>3. os.timer = Own.new /\ os.enabled
  BY <1>1, <1>2 DEF Upheld, Holding, After
<1>4. /\ Own'.pc = "package" /\ job'["cycle"] = job["cycle"] /\ Own'.cmd = Own.cmd /\ Own'.new = Own.new /\ Own'.seen = Own.seen
      /\ Own'.busy = Own.busy /\ Own'.recorded = Own.recorded
      /\ \/ Deploy!Works /\ os' = [os EXCEPT !.active = os.timer] /\ Own'.warned = Own.warned
         \/ Deploy!Fault /\ os' = os /\ Own'.warned
  <2>1. CASE Deploy!Works /\ os' = [os EXCEPT !.active = os.timer] /\ Deploy!Go("command", "package")
    <3>1. Own'.pc = "package" /\ Alike(Own', Own) /\ job'["cycle"] = job["cycle"]
      BY <1>2, <2>1, GoMoves DEF Own, Deploy!Processes
    <3> QED BY <2>1, <3>1 DEF Alike
  <2>2. CASE Deploy!Fault /\ job' = [job EXCEPT !["command"].pc = "package", !["command"].warned = TRUE] /\ os' = os
    <3>1. Own' = [Own EXCEPT !.pc = "package", !.warned = TRUE] /\ job'["cycle"] = job["cycle"]
      BY <1>2, <2>2 DEF Jobbing, Own, Deploy!Processes
    <3> QED BY <1>2, <2>2, <3>1 DEF Jobs
  <2> QED BY <2>1, <2>2 DEF Deploy!StartTimer
<1>5. Cycling
  BY <1>4, CycleSame DEF Timed
<1>6. Steady(os')
  <2> HIDE DEF Used
  <2> QED BY <1>1, <1>2, <1>4 DEF Steady, Stores
<1>7. Arrives(os', Own'.pc, Own')
  BY <1>1, <1>2, <1>3, <1>4 DEF Arrives, Stores, Timed
<1>8. (tidy' => tidy) /\ (tidy' => ~Own'.warned)
  BY <1>2, <1>4 DEF Deploy!Works, Deploy!Fault
<1>9. tidy' => Tidies(os', Own'.pc, Own')
  BY <1>1, <1>4, <1>8 DEF Tidies
<1>10. Own'.pc \in Running /\ Own'.pc \notin {"idle", "query", "trigger"}
  BY <1>4 DEF Running
<1> QED BY <1>1, <1>2, <1>4, <1>5, <1>6, <1>7, <1>8, <1>9, <1>10, GoesOn

LEMMA RunNowHolds ==
    ASSUME Sorted, Ordered, Upheld, Deploy!DeploymentAssumption, Deploy!RunNow
    PROVE  Upheld'
<1>1. Own.pc = "trigger" /\ Around /\ last' = last /\ os' = os
  BY DEF Deploy!RunNow, Deploy!At, Deploy!Same, Own, Around
<1>2. /\ Own.cmd = "install" /\ (tidy => ~Own.warned) /\ Own.new > 0 /\ Jobbing
      /\ Steady(os) /\ Own \in Jobs /\ "command" \in Deploy!Processes /\ "cycle" \in Deploy!Processes
  BY <1>1, Installs
<1>3. box.os = "windows" /\ os.hourly = Own.new
  BY <1>1, <1>2 DEF Upheld, Holding, After, Held
<1>4. /\ Own'.pc = "hooks" /\ Alike(Own', Own)
      /\ job'["cycle"] = job["cycle"] \/ (job'["cycle"].new = os.hourly /\ job'["cycle"].seen.limit = 0)
  <2>1. CASE Deploy!Go("command", "hooks")
    BY <1>2, <2>1, GoMoves DEF Own
  <2>2. CASE job' = Deploy!Started([job EXCEPT !["command"].pc = "hooks"], os.hourly)
    BY <1>2, <2>2, StartsAt
  <2> QED BY <2>1, <2>2 DEF Deploy!RunNow
<1>5. Cycling
  BY <1>2, <1>3, <1>4 DEF Upheld, Fresh, Limited, Cycling, Limits
<1>7. Arrives(os', Own'.pc, Own')
  BY <1>1, <1>3, <1>4 DEF Arrives, Alike
<1>8. (tidy' => tidy) /\ (tidy' => ~Own'.warned)
  BY <1>2, <1>4 DEF Deploy!Works, Deploy!Fault, Deploy!RunNow, Alike
<1>9. tidy => os.limit = Deploy!executionTimeLimit(Limit)
  BY <1>1, <1>2, <1>3 DEF Upheld, Limited, After
<1>10. tidy' => Tidies(os', Own'.pc, Own')
  BY <1>1, <1>3, <1>4, <1>8, <1>9 DEF Tidies
<1>11. Own'.pc \in Running /\ Own'.pc \notin {"idle", "query", "trigger"}
  BY <1>4 DEF Running
<1> QED BY <1>1, <1>2, <1>4, <1>5, <1>7, <1>8, <1>10, <1>11, GoesOn DEF Alike

-----------------------------------------------------------------------------
(* The limit is recorded.                                                  *)
LEMMA OnwardIs ==
    ASSUME Sorted, Deploy!DeploymentAssumption
    PROVE  /\ Deploy!Onward \in {"hooks", "trigger", "gate"} /\ (box.os = "linux" => Deploy!Onward = "gate")
           /\ Deploy!Onward = "trigger" => box.os = "windows"
           /\ Deploy!Onward \in Running \cup {"trigger", "start"}
BY BoxIs DEF Deploy!Onward, Running

LEMMA Records ==
    ASSUME Sorted, Ordered, Upheld, Deploy!DeploymentAssumption, Own.pc \in {"persist", "save", "inplace"},
           box' = box, os' = os, asked' = asked, calls' = calls, job'["cycle"] = job["cycle"], last' = last, tidy' => tidy,
           Own'.pc \in {"save", "inplace", Deploy!Onward}, Own'.cmd = Own.cmd, Own'.new = Own.new, Own'.busy = Own.busy,
           Own'.warned = Own.warned, Own'.seen.limit \in Limits, \A d \in Deploy!Dirs : conf'[d].limit \in Limits,
           Own'.recorded => Own'.pc = Deploy!Onward /\ (box.os = "windows" => Recorded')
    PROVE  Upheld'
<1>1. /\ Own.cmd = "install" /\ (tidy => ~Own.warned) /\ Own.new > 0 /\ Own.pc \in After /\ Own.pc \notin {"start"} \cup Timed
      /\ box.os = "linux" => os.active < Own.new /\ job["cycle"].new < Own.new
      /\ Steady(os)
  BY Installs DEF Timed
<1>2. /\ Own'.pc \in {"save", "inplace", "hooks", "trigger", "gate"} /\ (box.os = "linux" => Own'.pc \in {"save", "inplace", "gate"})
      /\ Own'.pc = "trigger" => box.os = "windows"
      /\ Own'.recorded => Own'.pc \in Running \cup {"trigger", "start"}
  BY OnwardIs
<1>3. Cycling
  <2>1. Own.pc \notin {"start"} \cup Timed
    BY <1>1
  <2> QED BY <2>1, CycleSame
<1>4. Arrives(os', Own'.pc, Own')
  <2>1. /\ box.os = "darwin" => os.plist = Own.new /\ os.job = Own.new /\ ~os.dying
        /\ box.os = "linux" => os.timer = Own.new /\ os.enabled
        /\ box.os = "windows" => os.hourly = Own.new
    BY <1>1 DEF Upheld, Holding, Held
  <2>2. box.os = "linux" => Own'.pc \notin Timed
    BY <1>2 DEF Timed
  <2>3. Own'.pc # "load"
    BY <1>2
  <2> QED BY <1>1, <2>1, <2>2, <2>3 DEF Arrives
<1>5. tidy' => ~Own'.warned
  BY <1>1
<1>6. tidy /\ box.os = "windows" => os.limit = Deploy!executionTimeLimit(Limit)
  BY <1>1 DEF Upheld, Limited
<1>7. tidy' => Tidies(os', Own'.pc, Own')
  BY <1>2, <1>5, <1>6 DEF Tidies
<1>8. Own'.pc \notin {"idle", "query"}
  BY <1>2
<1> HIDE DEF Limits, Recorded
<1> QED BY <1>1, <1>2, <1>3, <1>4, <1>7, <1>8, GoesOnward

LEMMA LoadLimit ==
    ASSUME Sorted, Upheld, Deploy!DeploymentAssumption, NEW who \in {"user", "admin", "system"}
    PROVE  Deploy!Load(who).limit \in Limits /\ Deploy!readConfigDir(conf, who) \in Deploy!Dirs
<1>1. Deploy!readConfigDir(conf, who) \in Deploy!Dirs
  BY DEF Deploy!readConfigDir, Deploy!Dirs, Deploy!HomeOf
<1> QED BY <1>1 DEF Upheld, Limited, Deploy!Load, Deploy!NoFile, Limits

LEMMA WhoIs == ASSUME Sorted, Deploy!DeploymentAssumption PROVE box.who \in {"user", "admin", "system"}
BY DEF Sorted, Deploy!DeploymentAssumption

LEMMA PersistHolds ==
    ASSUME Sorted, Ordered, Upheld, Deploy!DeploymentAssumption, Deploy!Persist
    PROVE  Upheld'
<1>1. /\ Own.pc = "persist" /\ box' = box /\ os' = os /\ asked' = asked /\ calls' = calls /\ last' = last /\ conf' = conf
      /\ tidy' = tidy
  BY DEF Deploy!Persist, Deploy!At, Deploy!Same, Own
<1>2. Jobbing /\ Own \in Jobs /\ "cycle" \in Deploy!Processes /\ "command" \in Deploy!Processes
  BY <1>1, Installs
<1>3. /\ \A d \in Deploy!Dirs : conf'[d].limit \in Limits
      /\ Own.seen.limit \in Limits /\ Deploy!Load(box.who).limit \in Limits
  BY <1>1, <1>2, WhoIs, LoadLimit DEF Upheld, Limited, Own
<1>4. Recorded' <=> Recorded
  BY <1>1 DEF Recorded, Deploy!readConfigDir, Deploy!writeConfigDir, Deploy!Load
<1>5. CASE (box.env = 0 \/ Deploy!ConfigInvalid(box.who) \/ Deploy!Load(box.who).limit = box.env)
           /\ job' = [job EXCEPT !["command"].pc = Deploy!Onward, !["command"].recorded = ~Deploy!ConfigInvalid(box.who)]
  <2>1. Own' = [Own EXCEPT !.pc = Deploy!Onward, !.recorded = ~Deploy!ConfigInvalid(box.who)] /\ job'["cycle"] = job["cycle"]
    BY <1>2, <1>5 DEF Jobbing, Own
  <2>2. /\ Own'.pc = Deploy!Onward /\ Own'.cmd = Own.cmd /\ Own'.new = Own.new /\ Own'.busy = Own.busy /\ Own'.warned = Own.warned
        /\ Own'.seen = Own.seen
    BY <1>2, <2>1 DEF Jobs
  <2>3. Own'.recorded => ~Deploy!ConfigInvalid(box.who)
    BY <1>2, <2>1 DEF Jobs
  <2>4. ~Deploy!ConfigInvalid(box.who) => Recorded
    <3>1. SUFFICES ASSUME box.env # 0, Deploy!Load(box.who).limit = box.env,
                          Deploy!readConfigDir(conf, "user") = Deploy!writeConfigDir(box.who)
                   PROVE  Deploy!Load("user").limit = box.env
      BY <1>5 DEF Recorded
    <3>2. Deploy!readConfigDir(conf, "user") = Deploy!readConfigDir(conf, box.who)
      BY <3>1, BoxIs, WhoIs DEF Deploy!readConfigDir, Deploy!writeConfigDir, Deploy!HomeOf, Deploy!Elevated, Deploy!Load, Deploy!NoFile
    <3> QED BY <3>1, <3>2 DEF Deploy!Load
  <2>5. Own'.recorded => Recorded'
    BY <1>4, <2>3, <2>4
  <2> HIDE DEF Limits, Recorded
  <2> QED BY <1>1, <1>3, <2>1, <2>2, <2>5, Records
<1>6. CASE job' = [job EXCEPT !["command"].pc = "save", !["command"].seen = Deploy!Load(box.who)]
  <2>1. Own' = [Own EXCEPT !.pc = "save", !.seen = Deploy!Load(box.who)] /\ job'["cycle"] = job["cycle"]
    BY <1>2, <1>6 DEF Jobbing, Own
  <2>2. /\ Own'.pc = "save" /\ Own'.cmd = Own.cmd /\ Own'.new = Own.new /\ Own'.busy = Own.busy /\ Own'.warned = Own.warned
        /\ Own'.seen = Deploy!Load(box.who) /\ Own'.recorded = Own.recorded
    BY <1>2, <2>1 DEF Jobs
  <2>3. ~Own'.recorded
    BY <1>1, <2>2 DEF Upheld, Limited, Running
  <2> HIDE DEF Limits, Recorded
  <2> QED BY <1>1, <1>3, <2>1, <2>2, <2>3, Records
<1> QED BY <1>5, <1>6 DEF Deploy!Persist

\* A save, and the two ways it fails.
LEMMA Saves ==
    ASSUME Sorted, Ordered, Upheld, Deploy!DeploymentAssumption, Own.pc \in {"save", "inplace"},
           box' = box, os' = os, asked' = asked, calls' = calls, last' = last, tidy' => tidy,
           \/ /\ conf' = Deploy!Saved(box.who, Deploy!Merged(Own.seen))
              /\ job' = [job EXCEPT !["command"].pc = Deploy!Onward, !["command"].recorded = TRUE]
           \/ Deploy!Go("command", Deploy!Onward) /\ conf' = conf
           \/ /\ conf' = [conf EXCEPT ![Deploy!writeConfigDir(box.who)] = [@ EXCEPT !.there = TRUE, !.torn = TRUE]]
              /\ Deploy!Go("command", "inplace")
    PROVE  Upheld'
<1> DEFINE d == Deploy!writeConfigDir(box.who)
<1>1. Jobbing /\ Own \in Jobs /\ "cycle" \in Deploy!Processes /\ "command" \in Deploy!Processes
  BY Installs
<1>2. /\ \A e \in Deploy!Dirs : conf[e].limit \in Limits /\ conf[e] \in Configs
      /\ Own.seen.limit \in Limits /\ Own.seen \in Configs /\ conf \in [Deploy!Dirs -> Configs]
  BY <1>1 DEF Upheld, Limited, Own, Sorted, Jobs
<1>3. d \in Deploy!Dirs
  BY DEF Deploy!writeConfigDir, Deploy!Dirs
<1>4. ~Own.recorded
  BY DEF Upheld, Limited, Running
<1>5. CASE /\ conf' = Deploy!Saved(box.who, Deploy!Merged(Own.seen))
           /\ job' = [job EXCEPT !["command"].pc = Deploy!Onward, !["command"].recorded = TRUE]
  <2>1. Own' = [Own EXCEPT !.pc = Deploy!Onward, !.recorded = TRUE] /\ job'["cycle"] = job["cycle"]
    BY <1>1, <1>5 DEF Jobbing, Own
  <2>2. /\ Own'.pc = Deploy!Onward /\ Own'.cmd = Own.cmd /\ Own'.new = Own.new /\ Own'.busy = Own.busy /\ Own'.warned = Own.warned
        /\ Own'.seen = Own.seen
    BY <1>1, <2>1 DEF Jobs
  <2>3. conf'[d] = [Deploy!Merged(Own.seen) EXCEPT !.there = TRUE, !.torn = FALSE] /\ \A e \in Deploy!Dirs : e # d => conf'[e] = conf[e]
    BY <1>2, <1>3, <1>5 DEF Deploy!Saved
  <2>4. conf'[d].limit = box.env /\ conf'[d].there /\ ~conf'[d].torn
    BY <1>2, <2>3 DEF Deploy!Merged, Configs
  <2>5. \A e \in Deploy!Dirs : conf'[e].limit \in Limits
    BY <1>2, <2>3, <2>4 DEF Limits
  <2>6. Recorded'
    BY <2>4 DEF Recorded, Deploy!Load, Deploy!writeConfigDir
  <2> HIDE DEF Limits, Recorded, d
  <2> QED BY <1>2, <2>1, <2>2, <2>5, <2>6, Records
<1>6. CASE Deploy!Go("command", Deploy!Onward) /\ conf' = conf
  <2>1. Own'.pc = Deploy!Onward /\ Alike(Own', Own) /\ job'["cycle"] = job["cycle"]
    BY <1>1, <1>6, GoMoves DEF Own
  <2> HIDE DEF Limits, Recorded, d
  <2> QED BY <1>2, <1>4, <1>6, <2>1, Records DEF Alike
<1>7. CASE /\ conf' = [conf EXCEPT ![Deploy!writeConfigDir(box.who)] = [@ EXCEPT !.there = TRUE, !.torn = TRUE]]
           /\ Deploy!Go("command", "inplace")
  <2>1. Own'.pc = "inplace" /\ Alike(Own', Own) /\ job'["cycle"] = job["cycle"]
    BY <1>1, <1>7, GoMoves DEF Own
  <2>2. conf'[d] = [conf[d] EXCEPT !.there = TRUE, !.torn = TRUE] /\ \A e \in Deploy!Dirs : e # d => conf'[e] = conf[e]
    BY <1>2, <1>3, <1>7
  <2>3. conf'[d].limit = conf[d].limit
    BY <1>2, <1>3, <2>2 DEF Configs
  <2>4. \A e \in Deploy!Dirs : conf'[e].limit \in Limits
    <3> HIDE DEF Limits, d
    <3> QED BY <1>2, <1>3, <2>2, <2>3
  <2> HIDE DEF Limits, Recorded, d
  <2> QED BY <1>2, <1>4, <2>1, <2>4, Records DEF Alike
<1> QED BY <1>5, <1>6, <1>7

LEMMA SaveHolds ==
    ASSUME Sorted, Ordered, Upheld, Deploy!DeploymentAssumption, Deploy!Save \/ Deploy!SaveInPlace
    PROVE  Upheld'
<1>1. /\ Own.pc \in {"save", "inplace"} /\ box' = box /\ os' = os /\ asked' = asked /\ calls' = calls /\ last' = last
      /\ tidy' => tidy
  BY DEF Deploy!Save, Deploy!SaveInPlace, Deploy!At, Deploy!Same, Own, Deploy!Works, Deploy!Fault
<1> QED BY <1>1, Saves DEF Deploy!Save, Deploy!SaveInPlace, Own

-----------------------------------------------------------------------------
(* The world, and the commands as they begin.                              *)
LEMMA TornDownHolds == ASSUME Sorted, Upheld, Deploy!DeploymentAssumption, Deploy!TornDown PROVE Upheld'
<1>1. /\ box' = box /\ conf' = conf /\ asked' = asked /\ calls' = calls /\ job' = job /\ last' = last /\ tidy' = tidy /\ os.dying
      /\ Own' = Own
  BY DEF Deploy!TornDown, Deploy!Works, Deploy!Same, Own
<1>2. /\ os'.plist = os.plist /\ os'.job = 0 /\ ~os'.dying /\ os'.service = os.service /\ os'.timer = os.timer
      /\ os'.enabled = os.enabled /\ os'.active = os.active /\ os'.hourly = os.hourly /\ os'.limit = os.limit
      /\ os'.logon = os.logon
  BY StoreIs DEF Deploy!TornDown, Stores
<1>3. box.os = "darwin" /\ Used' = Used /\ Used \in Nat
  BY <1>1, UsedIsNat DEF Upheld, Clean, Used
<1>4. Holding'
  BY <1>1, <1>2, <1>3 DEF Upheld, Holding, Held, Standing
<1>5. Clean'
  BY <1>1, <1>2, <1>3 DEF Upheld, Clean, Bare, Settled, Deploy!Finished, Deploy!At
<1>6. Fresh'
  <2> HIDE DEF Used
  <2> QED BY <1>1, <1>2, <1>3 DEF Upheld, Fresh
<1>7. Limited'
  <2>1. Limits' = Limits /\ Limit' = Limit
    BY <1>1 DEF Limits, Limit
  <2>2. box'.os # "windows"
    BY <1>1, <1>3
  <2> HIDE DEF Limits, Limit
  <2> QED BY <1>1, <2>1, <2>2 DEF Upheld, Limited, Own
<1> QED BY <1>4, <1>5, <1>6, <1>7 DEF Upheld

LEMMA BootHolds == ASSUME Sorted, Ordered, Upheld, Deploy!DeploymentAssumption, Deploy!Boot PROVE Upheld'
<1>1. /\ box' = box /\ conf' = conf /\ asked' = asked /\ calls' = calls /\ job' = job /\ last' = last /\ tidy' = tidy
      /\ Own' = Own /\ Own.pc = "idle"
  BY DEF Deploy!Boot, Own, Deploy!Processes, Deploy!At
<1>2. Own.cmd = "none" /\ InOrder("command", Own)
  BY <1>1 DEF Ordered, InOrder, Own, Deploy!Processes
<1>3. /\ os'.plist = os.plist /\ os'.service = os.service /\ os'.timer = os.timer /\ os'.enabled = os.enabled
      /\ os'.hourly = os.hourly /\ os'.limit = os.limit /\ os'.logon = os.logon
      /\ IF box.os = "darwin" THEN ~os'.dying /\ os'.job = (IF os.plist = -1 THEN 0 ELSE os.plist)
                              ELSE os'.dying = os.dying /\ os'.job = os.job
      /\ IF box.os = "linux" THEN os'.active = (IF os.enabled /\ os.timer # -1 THEN os.timer ELSE 0) ELSE os'.active = os.active
  BY BoxIs, StoreIs DEF Deploy!Boot, Stores, Deploy!Torn
<1>4. Used' = Used /\ Used \in Nat
  BY <1>1, UsedIsNat DEF Used
<1>5. Holding'
  <2>1. Standing(last["command"]) => last["command"].new > 0 /\ Held(last["command"].new, last["command"].warned)
    BY <1>1 DEF Upheld, Holding
  <2>2. last["command"].new \in Nat /\ os \in Stores
    BY StoreIs DEF Sorted, Endings, Deploy!Processes
  <2>3. Standing(last'["command"]) => last'["command"].new > 0 /\ Held(last["command"].new, last["command"].warned)'
    BY <1>1, <1>3, <2>1, <2>2 DEF Held, Standing
  <2>4. os'.dying => os'.job # 0
    BY <1>3 DEF Upheld, Holding
  <2> QED BY <1>1, <1>2, <2>3, <2>4 DEF Holding, Standing, Held
<1>6. Clean'
  BY <1>1, <1>2, <1>3 DEF Upheld, Clean, Bare, Settled, Deploy!Finished, Deploy!At
<1>7. Fresh'
  <2> HIDE DEF Used
  <2> QED BY <1>1, <1>2, <1>3, <1>4 DEF Upheld, Fresh
<1>8. Limited'
  <2>1. Limits' = Limits /\ Limit' = Limit /\ (Recorded' <=> Recorded)
    BY <1>1 DEF Limits, Limit, Recorded, Deploy!readConfigDir, Deploy!writeConfigDir, Deploy!Load
  <2> HIDE DEF Limits, Limit, Recorded
  <2> QED BY <1>1, <1>3, <2>1 DEF Upheld, Limited, Own, Deploy!Finished, Deploy!At
<1> QED BY <1>5, <1>6, <1>7, <1>8 DEF Upheld

LEMMA OneMore ==
    ASSUME Sorted, Deploy!DeploymentAssumption, NEW c, Deploy!Given(c)
    PROVE  Used' = Used + 1 /\ Used \in Nat
<1>1. MaxCommands \in Nat /\ calls \in 0 .. MaxCommands /\ calls' = calls - 1
  BY DEF Sorted, Deploy!DeploymentAssumption, Deploy!Given
<1> QED BY <1>1 DEF Used

\* A command begins, or is refused, on a machine it finds at rest.
LEMMA Begun ==
    ASSUME Sorted, Ordered, Upheld, Deploy!DeploymentAssumption,
           box' = box, os' = os, conf' = conf, asked' = asked, Used' = Used + 1, job'["cycle"] = job["cycle"], Own.pc = "idle",
           \/ /\ Own'.pc = "query" /\ Own'.cmd = "install" /\ Own'.new = Used + 1 /\ ~Own'.busy /\ last' = last
           \/ /\ Own'.pc = "query" /\ Own'.cmd = "uninstall" /\ Own'.new = 0 /\ last' = last /\ tidy' = tidy
           \/ /\ Own'.pc = "gate" /\ Own'.cmd = "scan" /\ Own'.new = 0 /\ last' = last /\ tidy' = tidy
           \/ /\ AtRest(Own') /\ tidy' = tidy /\ last'["command"].cmd = "install" /\ last'["command"].code = 1
              /\ last'["command"].telemetry = "none" /\ ~last'["command"].busy,
           Own'.seen.limit \in Limits, ~Own'.recorded, ~Own'.warned
    PROVE  Upheld'
<1>1. Own.cmd = "none" /\ Used \in Nat
  BY UsedIsNat DEF Ordered, InOrder, Own, Deploy!Processes
<1>2. Holding'
  <2>1. (os'.dying => os'.job # 0) /\ Own'.pc # "trigger"
    BY DEF Upheld, Holding, AtRest
  <2>2. Own'.cmd = "install" => Own'.pc \notin {"load", "tune", "logon"} \cup After \cup Timed
    BY DEF AtRest, After, Timed
  <2>3. Own'.pc = "idle" => ~Standing(last'["command"])
    BY DEF Standing
  <2> HIDE DEF After, Timed
  <2> QED BY <2>1, <2>2, <2>3 DEF Holding, Standing
<1>3. Clean'
  BY <1>1 DEF Upheld, Clean, AtRest, Settled, Deploy!Finished, Deploy!At, Own
<1>4. Fresh'
  <2>1. /\ os.timer <= Used /\ os.active <= Used /\ os.plist <= Used /\ os.job <= Used /\ os.hourly <= Used /\ os.logon <= Used
        /\ job["cycle"].new <= Used /\ job["cycle"].new \in Nat /\ os \in Stores
        /\ box.os = "linux" /\ last["command"].cmd = "install" => ~last["command"].busy
    BY StoreIs DEF Upheld, Fresh, Deploy!Processes, Sorted, Jobs
  <2> HIDE DEF Used
  <2>2. \A p \in Deploy!Processes : job'[p].new <= Used + 1
    BY <1>1, <2>1 DEF Deploy!Processes, Own, AtRest
  <2>3. box.os = "linux" /\ last'["command"].cmd = "install" => ~last'["command"].busy
    BY <2>1
  <2>4. Own'.cmd = "install" => os.active < Own'.new /\ job["cycle"].new < Own'.new /\ ~Own'.busy
    BY <1>1, <2>1 DEF AtRest, Stores
  <2> QED BY <1>1, <2>1, <2>2, <2>3, <2>4 DEF Fresh, Stores, Versions, Deploy!Torn
<1>5. Limited'
  <2>1. Limits' = Limits /\ Limit' = Limit
    BY DEF Limits, Limit
  <2>2. \A p \in Deploy!Processes : job'[p].seen.limit \in Limits
    BY DEF Upheld, Limited, Deploy!Processes, Own
  <2>3. Own'.cmd # "install" \/ Own'.pc \notin {"logon"} \cup After
    BY DEF AtRest, After
  <2>4. ~(Deploy!Finished("install", 0)')
    BY DEF Deploy!Finished, Deploy!At, Own, AtRest
  <2> HIDE DEF Limits, Limit
  <2> QED BY <2>1, <2>2, <2>3, <2>4 DEF Upheld, Limited
<1> QED BY <1>2, <1>3, <1>4, <1>5 DEF Upheld

LEMMA InstallHolds ==
    ASSUME Sorted, Ordered, Upheld, Deploy!DeploymentAssumption, Deploy!Install PROVE Upheld'
<1>1. /\ box' = box /\ os' = os /\ conf' = conf /\ asked' = asked /\ Own.pc = "idle" /\ Deploy!Given("install")
      /\ "cycle" \in Deploy!Processes /\ "command" \in Deploy!Processes /\ Jobbing
  BY DEF Deploy!Install, Deploy!Begins, Deploy!At, Own, Deploy!Processes, Sorted, Jobbing
<1>2. Used' = Used + 1 /\ 0 \in Limits /\ Deploy!Load(box.who).limit \in Limits /\ MaxCommands - calls + 1 = Used + 1
  BY <1>1, OneMore, WhoIs, LoadLimit DEF Limits, Used
<1>3. CASE Deploy!Ended("command", 1, [Deploy!Rest EXCEPT !.cmd = "install"]) /\ tidy' = tidy
  <2>1. AtRest(Own') /\ Told(last'["command"], 1, [Deploy!Rest EXCEPT !.cmd = "install"]) /\ job'["cycle"] = job["cycle"]
    BY <1>1, <1>3, EndedMoves DEF Own
  <2>2. /\ last'["command"].cmd = "install" /\ last'["command"].code = 1
        /\ last'["command"].telemetry = "none" /\ ~last'["command"].busy
    BY <2>1 DEF Told, Deploy!Rest
  <2> HIDE DEF Used, Limits
  <2> QED BY <1>1, <1>2, <1>3, <2>1, <2>2, Begun DEF AtRest
<1>4. CASE /\ job' = [job EXCEPT !["command"] = [Deploy!Rest EXCEPT !.pc = "query", !.cmd = "install", !.new = MaxCommands - calls + 1,
                                                                   !.seen = Deploy!Load(box.who)]]
           /\ last' = last
  <2>1. /\ Own' = [Deploy!Rest EXCEPT !.pc = "query", !.cmd = "install", !.new = MaxCommands - calls + 1, !.seen = Deploy!Load(box.who)]
        /\ job'["cycle"] = job["cycle"]
    BY <1>1, <1>4 DEF Own, Jobbing
  <2>2. /\ Own'.pc = "query" /\ Own'.cmd = "install" /\ Own'.new = Used + 1 /\ ~Own'.busy /\ ~Own'.recorded /\ ~Own'.warned
        /\ Own'.seen.limit \in Limits
    BY <1>2, <2>1 DEF Deploy!Rest
  <2> HIDE DEF Used, Limits
  <2> QED BY <1>1, <1>2, <1>4, <2>1, <2>2, Begun
<1> QED BY <1>3, <1>4 DEF Deploy!Install

LEMMA BeginHolds ==
    ASSUME Sorted, Ordered, Upheld, Deploy!DeploymentAssumption, Deploy!Uninstall \/ Deploy!ScanByHand PROVE Upheld'
<1>1. /\ box' = box /\ os' = os /\ conf' = conf /\ asked' = asked /\ Own.pc = "idle" /\ last' = last /\ tidy' = tidy
      /\ Deploy!Given("uninstall") \/ Deploy!Given("scan")
      /\ "cycle" \in Deploy!Processes /\ "command" \in Deploy!Processes /\ Jobbing
  BY DEF Deploy!Uninstall, Deploy!ScanByHand, Deploy!Begins, Deploy!At, Own, Deploy!Processes, Sorted, Jobbing
<1>2. Used' = Used + 1 /\ 0 \in Limits
  BY <1>1, OneMore DEF Limits
<1>3. /\ \/ Own' = [Deploy!Rest EXCEPT !.pc = "query", !.cmd = "uninstall"]
         \/ Own' = [Deploy!Rest EXCEPT !.pc = "gate", !.cmd = "scan"]
      /\ job'["cycle"] = job["cycle"]
  BY <1>1 DEF Own, Jobbing, Deploy!Uninstall, Deploy!ScanByHand
<1>4. /\ (Own'.pc = "query" /\ Own'.cmd = "uninstall") \/ (Own'.pc = "gate" /\ Own'.cmd = "scan")
      /\ Own'.new = 0 /\ ~Own'.busy /\ ~Own'.recorded /\ ~Own'.warned /\ Own'.seen.limit \in Limits
  <2>1. CASE Own' = [Deploy!Rest EXCEPT !.pc = "query", !.cmd = "uninstall"]
    BY <1>2, <2>1 DEF Deploy!Rest, Deploy!NoFile
  <2>2. CASE Own' = [Deploy!Rest EXCEPT !.pc = "gate", !.cmd = "scan"]
    BY <1>2, <2>2 DEF Deploy!Rest, Deploy!NoFile
  <2> QED BY <1>3, <2>1, <2>2
<1> HIDE DEF Used, Limits
<1> QED BY <1>1, <1>2, <1>3, <1>4, Begun

\* An operator's configuration.
LEMMA Configured ==
    ASSUME Sorted, Ordered, Upheld, Deploy!DeploymentAssumption, NEW f, f.limit \in Limits, Deploy!Reconfigured(f), f \in Configs,
           Used' >= Used, Used' \in Nat, asked'.file.limit \in Limits
    PROVE  Upheld'
<1>1. /\ box' = box /\ os' = os /\ tidy' = tidy /\ Jobbing /\ "command" \in Deploy!Processes /\ "cycle" \in Deploy!Processes
      /\ Own \in Jobs /\ last["command"] \in Endings
  BY DEF Deploy!Reconfigured, Sorted, Jobbing, Deploy!Processes, Own
<1>2. Own' = [Own EXCEPT !.recorded = FALSE] /\ job'["cycle"] = job["cycle"]
      /\ last'["command"] = [last["command"] EXCEPT !.recorded = FALSE]
  BY <1>1 DEF Deploy!Reconfigured, Jobbing, Own
<1>3. /\ Own'.pc = Own.pc /\ Own'.cmd = Own.cmd /\ Own'.new = Own.new /\ Own'.busy = Own.busy /\ Own'.warned = Own.warned
      /\ Own'.seen = Own.seen /\ ~Own'.recorded
  BY <1>1, <1>2 DEF Jobs
<1>4. LET l == last["command"] m == last'["command"]
      IN  /\ m.cmd = l.cmd /\ m.new = l.new /\ m.code = l.code /\ m.killed = l.killed /\ m.telemetry = l.telemetry
          /\ m.busy = l.busy /\ m.warned = l.warned /\ ~m.recorded
  BY <1>1, <1>2 DEF Endings
<1>5. \A d \in Deploy!Dirs : conf'[d].limit \in Limits
  <2>1. conf \in [Deploy!Dirs -> Configs] /\ \A d \in Deploy!Dirs : conf[d].limit \in Limits
    BY DEF Sorted, Upheld, Limited
  <2>2. \A d \in Deploy!Dirs : conf'[d] = conf[d] \/ conf'[d] = [f EXCEPT !.there = TRUE, !.torn = FALSE]
    BY <2>1 DEF Deploy!Reconfigured, Deploy!Saved
  <2>3. [f EXCEPT !.there = TRUE, !.torn = FALSE].limit = f.limit
    BY DEF Configs
  <2> HIDE DEF Limits
  <2> QED BY <2>1, <2>2, <2>3
<1>6. Holding'
  BY <1>1, <1>3, <1>4 DEF Upheld, Holding, Standing, Held
<1>7. Clean'
  BY <1>1, <1>3, <1>4 DEF Upheld, Clean, Settled, Deploy!Finished, Deploy!At, Own
<1>8. Fresh'
  <2>1. /\ \A p \in Deploy!Processes : job'[p].new <= Used /\ job'[p].new \in Nat
        /\ os \in Stores /\ Used \in Nat
    BY <1>1, <1>2, <1>3, StoreIs, UsedIsNat DEF Upheld, Fresh, Sorted, Jobs, Deploy!Processes, Own, Jobbing
  <2> HIDE DEF Used
  <2> QED BY <1>1, <1>2, <1>3, <1>4, <2>1 DEF Upheld, Fresh, Stores, Versions, Deploy!Torn
<1>9. Limited'
  <2>1. Limits' = Limits /\ Limit' = Limit
    BY <1>1 DEF Limits, Limit
  <2>2. \A p \in Deploy!Processes : job'[p].seen.limit \in Limits
    BY <1>2, <1>3 DEF Upheld, Limited, Deploy!Processes, Own
  <2> HIDE DEF Limits, Limit, Recorded
  <2> QED BY <1>1, <1>3, <1>4, <1>5, <2>1, <2>2 DEF Upheld, Limited, Deploy!Finished, Deploy!At, Own
<1> QED BY <1>6, <1>7, <1>8, <1>9 DEF Upheld

LEMMA ConfigureHolds ==
    ASSUME Sorted, Ordered, Upheld, Deploy!DeploymentAssumption, Deploy!Configure \/ Deploy!Answer PROVE Upheld'
<1>1. asked.file.limit \in Limits /\ asked.file \in Configs /\ Deploy!Unasked.file.limit \in Limits
  BY DEF Upheld, Limited, Sorted, Deploy!Unasked, Deploy!NoFile, Limits
<1>2. Used \in Nat
  BY UsedIsNat
<1>3. CASE Deploy!Configure
  <2>1. Used' = Used + 1 /\ asked' = asked /\ Deploy!Reconfigured([Deploy!Load(box.who) EXCEPT !.creds = 2])
    BY <1>3, OneMore DEF Deploy!Configure
  <2>2. Deploy!Load(box.who) \in Configs /\ Deploy!Load(box.who).limit \in Limits
    <3>1. Deploy!readConfigDir(conf, box.who) \in Deploy!Dirs /\ Deploy!Load(box.who).limit \in Limits
      BY WhoIs, LoadLimit
    <3>2. Deploy!NoFile \in Configs
      BY DEF Deploy!NoFile, Configs
    <3>3. conf[Deploy!readConfigDir(conf, box.who)] \in Configs
      BY <3>1 DEF Sorted
    <3> QED BY <3>1, <3>2, <3>3 DEF Deploy!Load
  <2> DEFINE f == [Deploy!Load(box.who) EXCEPT !.creds = 2]
  <2>3. f \in Configs /\ f.limit = Deploy!Load(box.who).limit
    BY <2>2 DEF Configs
  <2>4. f.limit \in Limits /\ Deploy!Reconfigured(f) /\ Used' >= Used /\ Used' \in Nat /\ asked'.file.limit \in Limits
    BY <1>1, <1>2, <2>1, <2>2, <2>3
  <2> HIDE DEF f, Used, Limits
  <2> QED BY <2>3, <2>4, Configured
<1>4. CASE Deploy!Answer
  <2>1. PICK key \in {asked.file.creds, 2, 0} : Deploy!Reconfigured([asked.file EXCEPT !.creds = key])
    BY <1>4 DEF Deploy!Answer
  <2> DEFINE f == [asked.file EXCEPT !.creds = key]
  <2>2. f \in Configs /\ f.limit = asked.file.limit
    BY <1>1 DEF Configs
  <2>3. Used' = Used /\ asked' = Deploy!Unasked
    BY <1>4 DEF Deploy!Answer, Used
  <2>4. f.limit \in Limits /\ Deploy!Reconfigured(f) /\ Used' >= Used /\ Used' \in Nat /\ asked'.file.limit \in Limits
    BY <1>1, <1>2, <2>1, <2>2, <2>3
  <2> HIDE DEF f, Used, Limits
  <2> QED BY <2>2, <2>4, Configured
<1> QED BY <1>3, <1>4

LEMMA PromptHolds ==
    ASSUME Sorted, Ordered, Upheld, Deploy!DeploymentAssumption, Deploy!Prompt PROVE Upheld'
<1>1. /\ box' = box /\ os' = os /\ conf' = conf /\ job' = job /\ last' = last /\ tidy' = tidy /\ Own' = Own
      /\ asked'.file = Deploy!Load(box.who) /\ Deploy!Given("prompt")
  BY DEF Deploy!Prompt, Own
<1>2. Used' = Used + 1 /\ Used \in Nat /\ asked'.file.limit \in Limits
  BY <1>1, OneMore, WhoIs, LoadLimit
<1>3. Holding'
  BY <1>1 DEF Upheld, Holding, Standing, Held
<1>4. Clean'
  BY <1>1 DEF Upheld, Clean, Settled, Deploy!Finished, Deploy!At, Own
<1>5. Fresh'
  <2>1. /\ \A p \in Deploy!Processes : job[p].new <= Used /\ job[p].new \in Nat
        /\ os \in Stores
    BY StoreIs DEF Upheld, Fresh, Sorted, Jobs
  <2> HIDE DEF Used
  <2> QED BY <1>1, <1>2, <2>1 DEF Upheld, Fresh, Stores, Versions, Deploy!Torn
<1>6. Limited'
  <2>1. Limits' = Limits /\ Limit' = Limit /\ (Recorded' <=> Recorded)
    BY <1>1 DEF Limits, Limit, Recorded, Deploy!readConfigDir, Deploy!writeConfigDir, Deploy!Load
  <2> HIDE DEF Limits, Limit, Recorded
  <2> QED BY <1>1, <1>2, <2>1 DEF Upheld, Limited, Deploy!Finished, Deploy!At, Own
<1> QED BY <1>3, <1>4, <1>5, <1>6 DEF Upheld

LEMMA StutterHolds == ASSUME Sorted, Upheld, UNCHANGED Deploy!vars PROVE Upheld'
<1>1. Quiet
  BY DEF Deploy!vars, Quiet, Upheld, Fresh, Limited, Deploy!Processes, Own
<1> QED BY <1>1, QuietAll

LEMMA HeldStep ==
    ASSUME Deploy!DeploymentAssumption, Sorted, Ordered, Locked, Upheld, [Deploy!Next]_Deploy!vars
    PROVE  Upheld'
<1>0. Jobbing /\ "command" \in Deploy!Processes /\ Deploy!Processes = {"command", "cycle"}
  BY DEF Sorted, Jobbing, Deploy!Processes
<1>1. CASE Deploy!Install \/ Deploy!Uninstall \/ Deploy!ScanByHand \/ Deploy!Query
  BY <1>1, InstallHolds, BeginHolds, QueryHolds
<1>2. CASE Deploy!DarwinStep
  BY <1>2, BootoutHolds, waitForBootoutHolds, UnlinkPlistHolds, WritePlistHolds, FillPlistHolds, bootstrapHolds DEF Deploy!DarwinStep
<1>3. CASE Deploy!LinuxStep
  BY <1>3, DisableHolds, StopServiceHolds, UnlinkUnitsHolds, WriteServiceHolds, WriteTimerHolds, EnableHolds, StartTimerHolds
  DEF Deploy!LinuxStep
<1>4. CASE Deploy!WindowsStep
  BY <1>4, DeleteHourlyHolds, DeleteLogonHolds, CreateHourlyHolds, TuneHolds, CreateLogonHolds, RunNowHolds DEF Deploy!WindowsStep
<1>5. CASE Deploy!Persist \/ Deploy!Save \/ Deploy!SaveInPlace
  BY <1>5, PersistHolds, SaveHolds
<1>6. CASE Deploy!Step("command")
  <2>1. RunMove("command")
    BY <1>0, <1>6, RunMoves
  <2> QED BY <2>1, OntoHeld, OutHeld DEF RunMove
<1>7. CASE Deploy!Step("cycle") \/ Deploy!Enterprise \/ Deploy!Kill("cycle") \/ Deploy!Fire
  BY <1>7, CycleQuiet, KilledCycle, FireQuiet, QuietAll
<1>8. CASE Deploy!Kill("command")
  BY <1>8, KilledHeld
<1>9. CASE Deploy!TornDown \/ Deploy!Boot \/ Deploy!Configure \/ Deploy!Prompt \/ Deploy!Answer
  BY <1>9, TornDownHolds, BootHolds, ConfigureHolds, PromptHolds
<1>10. CASE UNCHANGED Deploy!vars
  BY <1>10, StutterHolds
<1> QED BY <1>0, <1>1, <1>2, <1>3, <1>4, <1>5, <1>6, <1>7, <1>8, <1>9, <1>10 DEF Deploy!Next

-----------------------------------------------------------------------------
LEMMA LockAside ==
    ASSUME Locked, lock' = lock, NEW p \in Deploy!Processes, job[p].pc # "scanning",
           \A q \in Deploy!Processes : q # p => job'[q] = job[q] \/ job[q].pc # "scanning"
    PROVE  Locked'
BY DEF Locked

LEMMA LockedStep ==
    ASSUME Deploy!DeploymentAssumption, Sorted, Ordered, Locked, [Deploy!Next]_Deploy!vars
    PROVE  Locked'
<1>0. Jobbing /\ "command" \in Deploy!Processes /\ "cycle" \in Deploy!Processes /\ Deploy!Processes = {"command", "cycle"} /\ "free" \notin Deploy!Processes
  BY DEF Sorted, Jobbing, Deploy!Processes
<1>1. ASSUME lock' = lock, job["command"].pc # "scanning",
             \/ \E l : Deploy!Go("command", l) 
             \/ Deploy!Exit("command", 0) \/ Deploy!Exit("command", 1)
             \/ job'["cycle"] = job["cycle"] \/ job["cycle"].pc = "idle"
      PROVE  Locked'
  <2>1. job'["cycle"] = job["cycle"] \/ job["cycle"].pc = "idle"
    BY <1>0, <1>1 DEF Deploy!Go, Deploy!Exit, Deploy!Ended, Jobbing
  <2> QED BY <1>0, <1>1, <2>1, LockAside
<1>2. CASE Deploy!Install \/ Deploy!Uninstall \/ Deploy!ScanByHand
  <2>1. lock' = lock /\ job["command"].pc # "scanning" /\ job'["cycle"] = job["cycle"]
    BY <1>0, <1>2 DEF Deploy!Install, Deploy!Uninstall, Deploy!ScanByHand, Deploy!Begins, Deploy!At, Deploy!Ended, Jobbing
  <2> QED BY <1>1, <2>1
<1>3. CASE Deploy!Query
  <2>1. lock' = lock /\ job["command"].pc # "scanning" /\ job'["cycle"] = job["cycle"]
    BY <1>0, <1>3 DEF Deploy!Query, Deploy!Removed, Deploy!Go, Deploy!Exit, Deploy!Ended, Jobbing, Deploy!Darwin, Deploy!Linux, Deploy!Windows, Deploy!At
  <2> QED BY <1>1, <2>1
<1>4. CASE Deploy!Bootout
  <2>1. lock' = lock /\ job["command"].pc # "scanning" /\ job'["cycle"] = job["cycle"]
    BY <1>0, <1>4 DEF Deploy!Bootout, Deploy!Removed, Deploy!Go, Deploy!Exit, Deploy!Ended, Jobbing, Deploy!Darwin, Deploy!Linux, Deploy!Windows, Deploy!At
  <2> QED BY <1>1, <2>1
<1>5. CASE Deploy!waitForBootout
  <2>1. lock' = lock /\ job["command"].pc # "scanning" /\ job'["cycle"] = job["cycle"]
    BY <1>0, <1>5 DEF Deploy!waitForBootout, Deploy!Removed, Deploy!Go, Deploy!Exit, Deploy!Ended, Jobbing, Deploy!Darwin, Deploy!Linux, Deploy!Windows, Deploy!At
  <2> QED BY <1>1, <2>1
<1>6. CASE Deploy!UnlinkPlist
  <2>1. lock' = lock /\ job["command"].pc # "scanning" /\ job'["cycle"] = job["cycle"]
    BY <1>0, <1>6 DEF Deploy!UnlinkPlist, Deploy!Removed, Deploy!Go, Deploy!Exit, Deploy!Ended, Jobbing, Deploy!Darwin, Deploy!Linux, Deploy!Windows, Deploy!At
  <2> QED BY <1>1, <2>1
<1>7. CASE Deploy!WritePlist
  <2>1. lock' = lock /\ job["command"].pc # "scanning" /\ job'["cycle"] = job["cycle"]
    BY <1>0, <1>7 DEF Deploy!WritePlist, Deploy!Removed, Deploy!Go, Deploy!Exit, Deploy!Ended, Jobbing, Deploy!Darwin, Deploy!Linux, Deploy!Windows, Deploy!At
  <2> QED BY <1>1, <2>1
<1>8. CASE Deploy!FillPlist
  <2>1. lock' = lock /\ job["command"].pc # "scanning" /\ job'["cycle"] = job["cycle"]
    BY <1>0, <1>8 DEF Deploy!FillPlist, Deploy!Removed, Deploy!Go, Deploy!Exit, Deploy!Ended, Jobbing, Deploy!Darwin, Deploy!Linux, Deploy!Windows, Deploy!At
  <2> QED BY <1>1, <2>1
<1>9. CASE Deploy!Disable
  <2>1. lock' = lock /\ job["command"].pc # "scanning" /\ job'["cycle"] = job["cycle"]
    BY <1>0, <1>9 DEF Deploy!Disable, Deploy!Removed, Deploy!Go, Deploy!Exit, Deploy!Ended, Jobbing, Deploy!Darwin, Deploy!Linux, Deploy!Windows, Deploy!At
  <2> QED BY <1>1, <2>1
<1>10. CASE Deploy!UnlinkUnits
  <2>1. lock' = lock /\ job["command"].pc # "scanning" /\ job'["cycle"] = job["cycle"]
    BY <1>0, <1>10 DEF Deploy!UnlinkUnits, Deploy!Removed, Deploy!Go, Deploy!Exit, Deploy!Ended, Jobbing, Deploy!Darwin, Deploy!Linux, Deploy!Windows, Deploy!At
  <2> QED BY <1>1, <2>1
<1>11. CASE Deploy!WriteService
  <2>1. lock' = lock /\ job["command"].pc # "scanning" /\ job'["cycle"] = job["cycle"]
    BY <1>0, <1>11 DEF Deploy!WriteService, Deploy!Removed, Deploy!Go, Deploy!Exit, Deploy!Ended, Jobbing, Deploy!Darwin, Deploy!Linux, Deploy!Windows, Deploy!At
  <2> QED BY <1>1, <2>1
<1>12. CASE Deploy!WriteTimer
  <2>1. lock' = lock /\ job["command"].pc # "scanning" /\ job'["cycle"] = job["cycle"]
    BY <1>0, <1>12 DEF Deploy!WriteTimer, Deploy!Removed, Deploy!Go, Deploy!Exit, Deploy!Ended, Jobbing, Deploy!Darwin, Deploy!Linux, Deploy!Windows, Deploy!At
  <2> QED BY <1>1, <2>1
<1>13. CASE Deploy!Enable
  <2>1. lock' = lock /\ job["command"].pc # "scanning" /\ job'["cycle"] = job["cycle"]
    BY <1>0, <1>13 DEF Deploy!Enable, Deploy!Removed, Deploy!Go, Deploy!Exit, Deploy!Ended, Jobbing, Deploy!Darwin, Deploy!Linux, Deploy!Windows, Deploy!At
  <2> QED BY <1>1, <2>1
<1>14. CASE Deploy!StartTimer
  <2>1. lock' = lock /\ job["command"].pc # "scanning" /\ job'["cycle"] = job["cycle"]
    BY <1>0, <1>14 DEF Deploy!StartTimer, Deploy!Removed, Deploy!Go, Deploy!Exit, Deploy!Ended, Jobbing, Deploy!Darwin, Deploy!Linux, Deploy!Windows, Deploy!At
  <2> QED BY <1>1, <2>1
<1>15. CASE Deploy!DeleteHourly
  <2>1. lock' = lock /\ job["command"].pc # "scanning" /\ job'["cycle"] = job["cycle"]
    BY <1>0, <1>15 DEF Deploy!DeleteHourly, Deploy!Removed, Deploy!Go, Deploy!Exit, Deploy!Ended, Jobbing, Deploy!Darwin, Deploy!Linux, Deploy!Windows, Deploy!At
  <2> QED BY <1>1, <2>1
<1>16. CASE Deploy!DeleteLogon
  <2>1. lock' = lock /\ job["command"].pc # "scanning" /\ job'["cycle"] = job["cycle"]
    BY <1>0, <1>16 DEF Deploy!DeleteLogon, Deploy!Removed, Deploy!Go, Deploy!Exit, Deploy!Ended, Jobbing, Deploy!Darwin, Deploy!Linux, Deploy!Windows, Deploy!At
  <2> QED BY <1>1, <2>1
<1>17. CASE Deploy!CreateHourly
  <2>1. lock' = lock /\ job["command"].pc # "scanning" /\ job'["cycle"] = job["cycle"]
    BY <1>0, <1>17 DEF Deploy!CreateHourly, Deploy!Removed, Deploy!Go, Deploy!Exit, Deploy!Ended, Jobbing, Deploy!Darwin, Deploy!Linux, Deploy!Windows, Deploy!At
  <2> QED BY <1>1, <2>1
<1>18. CASE Deploy!Tune
  <2>1. lock' = lock /\ job["command"].pc # "scanning" /\ job'["cycle"] = job["cycle"]
    BY <1>0, <1>18 DEF Deploy!Tune, Deploy!Removed, Deploy!Go, Deploy!Exit, Deploy!Ended, Jobbing, Deploy!Darwin, Deploy!Linux, Deploy!Windows, Deploy!At
  <2> QED BY <1>1, <2>1
<1>19. CASE Deploy!CreateLogon
  <2>1. lock' = lock /\ job["command"].pc # "scanning" /\ job'["cycle"] = job["cycle"]
    BY <1>0, <1>19 DEF Deploy!CreateLogon, Deploy!Removed, Deploy!Go, Deploy!Exit, Deploy!Ended, Jobbing, Deploy!Darwin, Deploy!Linux, Deploy!Windows, Deploy!At
  <2> QED BY <1>1, <2>1
<1>20. CASE Deploy!Persist
  <2>1. lock' = lock /\ job["command"].pc # "scanning" /\ job'["cycle"] = job["cycle"]
    BY <1>0, <1>20 DEF Deploy!Persist, Deploy!Removed, Deploy!Go, Deploy!Exit, Deploy!Ended, Jobbing, Deploy!Darwin, Deploy!Linux, Deploy!Windows, Deploy!At
  <2> QED BY <1>1, <2>1
<1>21. CASE Deploy!Save
  <2>1. lock' = lock /\ job["command"].pc # "scanning" /\ job'["cycle"] = job["cycle"]
    BY <1>0, <1>21 DEF Deploy!Save, Deploy!Removed, Deploy!Go, Deploy!Exit, Deploy!Ended, Jobbing, Deploy!Darwin, Deploy!Linux, Deploy!Windows, Deploy!At
  <2> QED BY <1>1, <2>1
<1>22. CASE Deploy!SaveInPlace
  <2>1. lock' = lock /\ job["command"].pc # "scanning" /\ job'["cycle"] = job["cycle"]
    BY <1>0, <1>22 DEF Deploy!SaveInPlace, Deploy!Removed, Deploy!Go, Deploy!Exit, Deploy!Ended, Jobbing, Deploy!Darwin, Deploy!Linux, Deploy!Windows, Deploy!At
  <2> QED BY <1>1, <2>1
<1>23. CASE Deploy!bootstrap
  <2>1. /\ lock' = lock /\ job["command"].pc # "scanning"
        /\ job' = Deploy!Started([job EXCEPT !["command"].pc = "persist"], os.plist) \/ Deploy!Exit("command", 1) \/ job' = [job EXCEPT !["command"].tries = @ + 1]
    BY <1>0, <1>23 DEF Deploy!bootstrap, Deploy!Darwin, Deploy!Linux, Deploy!Windows, Deploy!At
  <2>2. CASE job' = Deploy!Started([job EXCEPT !["command"].pc = "persist"], os.plist)
    <3>1. job'["cycle"] = job["cycle"] \/ job["cycle"].pc = "idle"
      BY <1>0, <2>2 DEF Deploy!Started, Jobbing
    <3> QED BY <1>1, <2>1, <3>1
  <2>3. CASE Deploy!Exit("command", 1) \/ job' = [job EXCEPT !["command"].tries = @ + 1]
    <3>1. job'["cycle"] = job["cycle"]
      BY <1>0, <2>3 DEF Jobbing, Deploy!Go, Deploy!Exit, Deploy!Ended
    <3> QED BY <1>1, <2>1, <3>1
  <2> QED BY <2>1, <2>2, <2>3
<1>24. CASE Deploy!RunNow
  <2>1. /\ lock' = lock /\ job["command"].pc # "scanning"
        /\ job' = Deploy!Started([job EXCEPT !["command"].pc = "hooks"], os.hourly) \/ Deploy!Go("command", "hooks")
    BY <1>0, <1>24 DEF Deploy!RunNow, Deploy!Darwin, Deploy!Linux, Deploy!Windows, Deploy!At
  <2>2. CASE job' = Deploy!Started([job EXCEPT !["command"].pc = "hooks"], os.hourly)
    <3>1. job'["cycle"] = job["cycle"] \/ job["cycle"].pc = "idle"
      BY <1>0, <2>2 DEF Deploy!Started, Jobbing
    <3> QED BY <1>1, <2>1, <3>1
  <2>3. CASE Deploy!Go("command", "hooks")
    <3>1. job'["cycle"] = job["cycle"]
      BY <1>0, <2>3 DEF Jobbing, Deploy!Go, Deploy!Exit, Deploy!Ended
    <3> QED BY <1>1, <2>1, <3>1
  <2> QED BY <2>1, <2>2, <2>3
<1>25. CASE Deploy!StopService
  <2>1. CASE Deploy!Go("command", "unlink") /\ lock' = lock
    <3>1. job["command"].pc # "scanning" /\ job'["cycle"] = job["cycle"]
      BY <1>0, <1>25, <2>1 DEF Deploy!StopService, Deploy!Linux, Deploy!At, Deploy!Go, Jobbing
    <3> QED BY <1>1, <2>1, <3>1
  <2>2. CASE /\ job' = [job EXCEPT !["command"].pc = "unlink", !["cycle"] = IF @.by = "scheduler" THEN Deploy!Rest ELSE @]
             /\ lock' = IF job["cycle"].by = "scheduler" THEN Deploy!Freed("cycle") ELSE lock
    <3>1. job["command"].pc = "stop" /\ lock # "command"
      BY <1>0, <1>25 DEF Deploy!StopService, Deploy!Linux, Deploy!At, Locked
    <3>2. (job'["cycle"] = job["cycle"] /\ lock' = lock) \/ lock' = "free" \/ (lock' = lock /\ lock # "cycle")
      BY <1>0, <2>2 DEF Jobbing, Deploy!Freed
    <3>3. lock' # "command" /\ (lock' = "cycle" => job'["cycle"] = job["cycle"] /\ lock = "cycle")
      BY <3>1, <3>2
    <3> QED BY <1>0, <3>3 DEF Locked
  <2> QED BY <1>25, <2>1, <2>2 DEF Deploy!StopService
<1>26. CASE Deploy!Enterprise
  <2>1. lock' = lock /\ job["cycle"].pc # "scanning" /\ job'["command"] = job["command"]
    BY <1>0, <1>26 DEF Deploy!Enterprise, Deploy!At, Deploy!Go, Deploy!Exit, Deploy!Ended, Jobbing
  <2> QED BY <1>0, <2>1, LockAside
<1>27. CASE Deploy!Fire
  <2>1. lock' = lock /\ job["cycle"].pc # "scanning" /\ job'["command"] = job["command"]
    BY <1>0, <1>27 DEF Deploy!Fire, Deploy!At, Deploy!Started, Jobbing
  <2> QED BY <1>0, <2>1, LockAside
<1>28. ASSUME NEW p \in Deploy!Processes, Deploy!Gate(p) \/ Deploy!EnforcePackages(p) \/ Deploy!Verdict(p) \/ Deploy!ReconcileHooks(p) \/ Deploy!EnforceEditors(p) PROVE Locked'
  <2>1. lock' = lock /\ job[p].pc # "scanning"
    BY <1>28 DEF Deploy!Gate, Deploy!EnforcePackages, Deploy!Verdict, Deploy!ReconcileHooks, Deploy!EnforceEditors, Deploy!At
  <2>2. RunMove(p)
    BY <1>0, <1>28, RunMoves DEF Deploy!Step
  <2> QED BY <2>1, <2>2, LockAside DEF RunMove
<1>29. ASSUME NEW p \in Deploy!Processes, Deploy!Scan(p) PROVE Locked'
  <2>1. RunMove(p) /\ job[p].pc = "scan"
    BY <1>0, <1>29, RunMoves DEF Deploy!Step, Deploy!Scan, Deploy!At
  <2>2. CASE lock' = p /\ Deploy!Go(p, "scanning")
    BY <1>0, <2>2, GoMoves DEF Locked
  <2>3. CASE lock' = lock
    BY <2>1, <2>3, LockAside DEF RunMove
  <2> QED BY <1>29, <2>2, <2>3 DEF Deploy!Scan
<1>30. ASSUME NEW p \in Deploy!Processes, Deploy!Scanned(p) PROVE Locked'
  BY <1>0, <1>30 DEF Deploy!Scanned, Locked
<1>31. ASSUME NEW p \in Deploy!Processes, Deploy!Kill(p) PROVE Locked'
  BY <1>0, <1>31 DEF Deploy!Kill, Deploy!Freed, Locked, Jobbing
<1>32. CASE Deploy!TornDown \/ Deploy!Boot \/ Deploy!Prompt \/ UNCHANGED Deploy!vars
  BY <1>32 DEF Deploy!TornDown, Deploy!Boot, Deploy!Prompt, Deploy!vars, Locked
<1>33. CASE Deploy!Configure \/ Deploy!Answer
  <2>1. lock' = lock /\ job' = [job EXCEPT !["command"].recorded = FALSE]
    BY <1>33 DEF Deploy!Configure, Deploy!Answer, Deploy!Reconfigured
  <2>2. Own' = [Own EXCEPT !.recorded = FALSE] /\ job'["cycle"] = job["cycle"] /\ Own \in Jobs
    BY <1>0, <2>1 DEF Jobbing, Own
  <2>3. Own'.pc = Own.pc
    BY <2>2 DEF Jobs
  <2> QED BY <1>0, <2>1, <2>2, <2>3 DEF Locked, Own
<1> QED BY <1>0, <1>2, <1>3, <1>4, <1>5, <1>6, <1>7, <1>8, <1>9, <1>10, <1>11, <1>12, <1>13, <1>14, <1>15, <1>16, <1>17, <1>18, <1>19, <1>20, <1>21, <1>22, <1>23, <1>24, <1>25, <1>26, <1>27, <1>28, <1>29, <1>30, <1>31, <1>32, <1>33  DEF Deploy!Next, Deploy!Step, Deploy!DarwinStep, Deploy!LinuxStep, Deploy!WindowsStep

-----------------------------------------------------------------------------
(* What the properties say of a state, and of a step.                      *)
LEMMA DeployStep ==
    ASSUME Deploy!DeploymentAssumption, DeployInv, [Deploy!Next]_Deploy!vars
    PROVE  DeployInv'
<1>1. Upheld'
  BY HeldStep DEF DeployInv, Upheld
<1> QED BY <1>1, SortedStep, OrderedStep, DoingStep, WholeStep, LockedStep DEF DeployInv, Upheld

LEMMA StatesAre ==
    ASSUME Deploy!DeploymentAssumption, DeployInv
    PROVE  Deploy!StatesHold
<1>1. /\ Sorted /\ Ordered /\ Holding /\ Clean /\ Fresh /\ Limited /\ Deploy!RunsAreWhole /\ os \in Stores
      /\ "command" \in Deploy!Processes
  BY StoreIs DEF DeployInv, Deploy!Processes
<1>2. Deploy!TypeOK
  BY <1>1 DEF Sorted, Jobs, Stores, Deploy!TypeOK, Policies
<1>3. Deploy!InstallHolds
  <2> DEFINE l == last["command"]
  <2>1. SUFFICES ASSUME Own.pc = "idle", l.cmd = "install", ~l.killed, l.code = 0 \/ l.telemetry = "failed"
                 PROVE  Deploy!Lasting(os) = l.new /\ (l.warned \/ Deploy!Live(os) = l.new)
    BY DEF Deploy!InstallHolds, Deploy!At, Own
  <2>2. l.new > 0 /\ Held(l.new, l.warned)
    BY <1>1, <2>1 DEF Holding, Standing
  <2> HIDE DEF l
  <2> QED BY <1>1, <2>2, BoxIs DEF Held, Deploy!Lasting, Deploy!Live
<1>4. Deploy!UninstallHolds
  <2>1. SUFFICES ASSUME Bare(os) PROVE os = Deploy!Nothing
    BY <1>1 DEF Deploy!UninstallHolds, Clean
  <2> QED BY <1>1, <2>1 DEF Bare, Stores, Deploy!Nothing
<1>5. Deploy!FirstScanIsOurs
  BY <1>1 DEF Deploy!FirstScanIsOurs, Fresh
<1>6. Deploy!WatchdogIsFirst
  <2> DEFINE l == last["command"]
             limit == Deploy!ExecutionDeadline(0, Deploy!Load("user").limit)
  <2>1. SUFFICES ASSUME tidy, box.os = "windows", Deploy!Finished("install", 0), l.recorded,
                        Deploy!readConfigDir(conf, "user") = Deploy!writeConfigDir(box.who)
                 PROVE  limit = Deploy!Off \/ os.limit > limit
    BY DEF Deploy!WatchdogIsFirst
  <2>2. os.limit = Deploy!executionTimeLimit(Limit) /\ Recorded /\ Deploy!Load("user").limit \in Limits
    BY <1>1, <2>1, LoadLimit DEF Limited, Upheld
  <2>3. Deploy!Load("user").limit = box.env
    BY <2>1, <2>2 DEF Recorded, Limits
  <2>4. box.env \in Nat \cup {-2}
    BY <1>1, BoxIs
  <2>5. CASE box.env = 0
    BY <2>2, <2>3, <2>5 DEF Limit, Deploy!executionTimeLimit, Deploy!ExecutionDeadline, Deploy!Off
  <2>6. CASE box.env = -2
    BY <2>3, <2>6 DEF Deploy!ExecutionDeadline, Deploy!Off
  <2>7. CASE box.env \in Nat /\ box.env # 0
    <3>1. limit = box.env
      BY <2>3, <2>7 DEF Deploy!ExecutionDeadline
    <3>2. os.limit = box.env + 30
      BY <2>2, <2>7 DEF Limit, Deploy!executionTimeLimit, Deploy!Off
    <3> HIDE DEF limit
    <3> QED BY <2>7, <3>1, <3>2
  <2> QED BY <2>4, <2>5, <2>6, <2>7
<1> QED BY <1>1, <1>2, <1>3, <1>4, <1>5, <1>6 DEF Deploy!StatesHold

LEMMA KeysAre ==
    ASSUME Deploy!DeploymentAssumption, DeployInv, Deploy!Next
    PROVE  Deploy!KeepsKeys
<1>1. /\ conf \in [Deploy!Dirs -> Configs] /\ Own.seen \in Configs /\ asked.file \in Configs
      /\ \A d \in Deploy!Dirs : Deploy!Key(conf[d]) \in 0 .. 2 /\ conf[d] \in Configs
  <2>1. conf \in [Deploy!Dirs -> Configs] /\ Own.seen \in Configs /\ asked.file \in Configs
    BY DEF DeployInv, Sorted, Own, Deploy!Processes, Jobs
  <2> QED BY <2>1 DEF Deploy!Key, Configs
<1>2. CASE conf' = conf
  <2>1. \A d \in Deploy!Dirs : ~(Deploy!Key(conf[d]) < Deploy!Key(conf[d]))
    BY <1>1
  <2> QED BY <1>2, <2>1 DEF Deploy!KeepsKeys
<1>3. CASE Deploy!Save \/ Deploy!SaveInPlace
  <2> DEFINE w == Deploy!writeConfigDir(box.who)
  <2>1. Deploy!At("command", "save") \/ Deploy!At("command", "inplace")
    BY <1>3 DEF Deploy!Save, Deploy!SaveInPlace
  <2>2. CASE conf' = Deploy!Saved(box.who, Deploy!Merged(Own.seen))
    <3>1. \A d \in Deploy!Dirs : conf'[d] = conf[d] \/ conf'[d] = [Deploy!Merged(Own.seen) EXCEPT !.there = TRUE, !.torn = FALSE]
      BY <1>1, <2>2 DEF Deploy!Saved
    <3>2. Deploy!Key([Deploy!Merged(Own.seen) EXCEPT !.there = TRUE, !.torn = FALSE]) = Own.seen.creds
      BY <1>1 DEF Deploy!Key, Deploy!Merged, Configs
    <3>3. ASSUME NEW d \in Deploy!Dirs, Deploy!Key(conf'[d]) < Deploy!Key(conf[d]) PROVE Own.seen.creds < Deploy!Key(conf[d])
      BY <1>1, <3>1, <3>2, <3>3
    <3> QED BY <2>1, <3>3 DEF Deploy!KeepsKeys, Own
  <2>3. CASE box.os = "windows" /\ conf' = [conf EXCEPT ![w] = [@ EXCEPT !.there = TRUE, !.torn = TRUE]]
    <3>1. \A d \in Deploy!Dirs : conf'[d] = conf[d] \/ conf'[d] = [conf[d] EXCEPT !.there = TRUE, !.torn = TRUE]
      BY <1>1, <2>3
    <3>2. ASSUME NEW d \in Deploy!Dirs, Deploy!Key(conf'[d]) < Deploy!Key(conf[d]) PROVE conf'[d].torn
      <4>1. conf'[d] # conf[d]
        BY <1>1, <3>2
      <4>2. conf'[d] = [conf[d] EXCEPT !.there = TRUE, !.torn = TRUE] /\ conf[d] \in Configs
        BY <1>1, <3>1, <4>1
      <4> QED BY <4>2 DEF Configs
    <3> QED BY <2>1, <2>3, <3>2 DEF Deploy!KeepsKeys
  <2> QED BY <1>2, <1>3, <2>2, <2>3 DEF Deploy!Save, Deploy!SaveInPlace, Own
<1>4. CASE Deploy!Configure
  <2>1. conf' = Deploy!Saved(box.who, [Deploy!Load(box.who) EXCEPT !.creds = 2])
    BY <1>4 DEF Deploy!Configure, Deploy!Reconfigured
  <2>2. Deploy!Load(box.who) \in Configs
    <3>1. Deploy!readConfigDir(conf, box.who) \in Deploy!Dirs
      BY WhoIs, LoadLimit DEF DeployInv, Upheld
    <3>2. Deploy!NoFile \in Configs
      BY DEF Deploy!NoFile, Configs
    <3> QED BY <1>1, <3>1, <3>2 DEF Deploy!Load
  <2> DEFINE f == [[Deploy!Load(box.who) EXCEPT !.creds = 2] EXCEPT !.there = TRUE, !.torn = FALSE]
  <2>3. Deploy!Key(f) = 2
    BY <2>2 DEF Deploy!Key, Configs
  <2>4. \A d \in Deploy!Dirs : conf'[d] = conf[d] \/ conf'[d] = f
    BY <1>1, <2>1 DEF Deploy!Saved
  <2>5. ASSUME NEW d \in Deploy!Dirs PROVE ~(Deploy!Key(conf'[d]) < Deploy!Key(conf[d]))
    <3> HIDE DEF f
    <3> QED BY <1>1, <2>3, <2>4
  <2> QED BY <2>5 DEF Deploy!KeepsKeys
<1>5. CASE Deploy!Answer
  BY <1>5 DEF Deploy!Answer, Deploy!Unasked, Deploy!KeepsKeys
<1>6. conf' = conf \/ Deploy!Save \/ Deploy!SaveInPlace \/ Deploy!Configure \/ Deploy!Answer
  BY DEF Deploy!Next, Deploy!Step, Deploy!DarwinStep, Deploy!LinuxStep, Deploy!WindowsStep, Deploy!Same, Deploy!Install, Deploy!Uninstall, Deploy!ScanByHand, Deploy!Query, Deploy!Bootout, Deploy!waitForBootout, Deploy!UnlinkPlist, Deploy!WritePlist, Deploy!FillPlist, Deploy!bootstrap, Deploy!Disable, Deploy!StopService, Deploy!UnlinkUnits, Deploy!WriteService, Deploy!WriteTimer, Deploy!Enable, Deploy!StartTimer, Deploy!DeleteHourly, Deploy!DeleteLogon, Deploy!CreateHourly, Deploy!Tune, Deploy!CreateLogon, Deploy!RunNow, Deploy!Persist, Deploy!Enterprise, Deploy!TornDown, Deploy!Fire, Deploy!Boot, Deploy!Prompt, Deploy!Gate, Deploy!Scan, Deploy!Scanned, Deploy!EnforcePackages, Deploy!Verdict, Deploy!ReconcileHooks, Deploy!EnforceEditors, Deploy!Kill
<1> QED BY <1>2, <1>3, <1>4, <1>5, <1>6

(* Whatever the machine, however many commands are given and wherever they *)
(* and the schedulers' calls fail: an installation that succeeded stands,  *)
(* an uninstall leaves nothing, the first scan is the install's own, the   *)
(* watchdog comes before Task Scheduler's limit, a run that ends has done  *)
(* what it had to, and no step but an operator's loses the credentials.    *)
THEOREM CommandsAreHonest ==
    ASSUME Deploy!DeploymentAssumption
    PROVE  Deploy!Spec => [](Deploy!StatesHold) /\ [][Deploy!KeepsKeys]_<<conf, asked>>
<1>1. Deploy!Init => DeployInv
  BY DeployInit
<1>2. DeployInv /\ [Deploy!Next]_Deploy!vars => DeployInv'
  BY DeployStep
<1>3. DeployInv => Deploy!StatesHold
  BY StatesAre
<1>4. DeployInv /\ [Deploy!Next]_Deploy!vars => [Deploy!KeepsKeys]_<<conf, asked>>
  BY KeysAre DEF Deploy!vars
<1> QED BY <1>1, <1>2, <1>3, <1>4, PTL DEF Deploy!Spec
=============================================================================
