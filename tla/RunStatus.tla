----------------------------- MODULE RunStatus -----------------------------
(***************************************************************************)
(* The goroutines of one telemetry.Run (internal/telemetry/telemetry.go)   *)
(* and what they tell the backend: the scan posts a snapshot of its        *)
(* progress at every phase boundary and a heartbeat does on a ticker, both *)
(* through a one-slot channel that drops the oldest; one worker POSTs what *)
(* it takes from it; the main goroutine, the signal handler and the        *)
(* watchdog may each report the run failed and end the process.            *)
(***************************************************************************)
EXTENDS Integers

CONSTANTS
    Phases,        \* a run's snapshots: after device_info, ..., after the upload
    Environments   \* what may happen around the run: sets of perils

Perils == {
    "ticks",       \* it lasts long enough for a heartbeat
    "signals",     \* SIGINT or SIGTERM may arrive
    "loss",        \* a POST may be lost, with all its retries
    "unix",        \* the Unix execution watchdog is armed
    "windows",     \* the Windows one is
    "wedge" }      \* any goroutine but the watchdog may hang

ASSUME RunStatusAssumption ==
    /\ Phases \in Nat /\ Phases > 1
    /\ \A e \in Environments : e \subseteq Perils /\ ~({"unix", "windows"} \subseteq e)

VARIABLES
    perils,     \* what may happen around this run
    pc,         \* the main goroutine
    err,        \* Run is returning an error
    completed,  \* phases the tracker holds
    mine,       \* the main goroutine's snapshot, between taking and sending it
    beat,       \* the heartbeat goroutine
    beatSnap,   \* its snapshot
    phaseCh,    \* the queued snapshot, or Empty
    worker,     \* the phase-post worker
    posting,    \* the snapshot it is posting
    cancelled,  \* runCtx is done
    claimed,    \* who won reportedFailed's CompareAndSwap
    handler,    \* the signal goroutine
    signal,     \* a signal waits in sigCh
    stopped,    \* signal.Stop was called and sigHandlerDone closed
    watchdog,   \* the execution watchdog
    backend,    \* the run-status row: started, last progress, failed reports
    exited      \* how the process ended

mainVars   == <<perils, pc, err, completed, mine>>
beatVars   == <<beat, beatSnap>>
workerVars == <<worker, posting>>
endVars    == <<handler, signal, stopped, watchdog>>
vars == <<mainVars, beatVars, phaseCh, workerVars, cancelled, claimed, endVars,
          backend, exited>>

Empty == [from |-> "nobody", seen |-> 0]
Snapshots == [from : {"main", "heartbeat"}, seen : 1 .. Phases]

Watched  == perils \cap {"unix", "windows"} # {}
Reliable == "loss" \notin perils

Init ==
    /\ perils \in Environments
    /\ pc = "lock" /\ err = FALSE /\ completed = 1 /\ mine = Empty
    /\ beat = "none" /\ beatSnap = Empty
    /\ phaseCh = Empty /\ worker = "idle" /\ posting = Empty
    /\ cancelled = FALSE /\ claimed = "nobody"
    /\ handler = "waiting" /\ signal = FALSE /\ stopped = FALSE
    /\ watchdog = (IF Watched THEN "armed" ELSE "off")
    /\ backend = [started |-> FALSE, progress |-> 0, failed |-> {}]
    /\ exited = "no"

Alive == exited = "no"

\* One POST with its retries: it lands, or every attempt of it is lost.
Delivered(row) == backend' = row \/ (~Reliable /\ UNCHANGED backend)

\* The snapshot the tracker gives a goroutine that asks now.
Snapshot(who) == [from |-> who, seen |-> completed]

\* reportFailedOnce: only the first caller goes on to post.
ClaimAlways(who, won, lost) ==                              \* mutant
    claimed' = who /\ won
ClaimFailure(who, won, lost) ==
    \/ claimed = "nobody" /\ claimed' = who /\ won
    \/ claimed # "nobody" /\ UNCHANGED claimed /\ lost

PostFailed(who) ==
    Delivered([backend EXCEPT !.failed = @ \union {who}])
-----------------------------------------------------------------------------
(* The main goroutine.                                                     *)

LockRefused ==
    /\ Alive /\ pc = "lock"
    /\ err' = TRUE
    /\ ClaimFailure("main", pc' = "report", pc' = "recover")
    /\ UNCHANGED <<perils, completed, mine, beatVars, phaseCh, workerVars, cancelled,
                   endVars, backend, exited>>

NoIdentity ==
    /\ Alive /\ pc = "lock"
    /\ err' = TRUE /\ pc' = "recover"
    /\ UNCHANGED <<perils, completed, mine, beatVars, phaseCh, workerVars, cancelled,
                   claimed, endVars, backend, exited>>

LockTaken ==
    /\ Alive /\ pc = "lock"
    /\ pc' = "started"
    /\ UNCHANGED <<perils, err, completed, mine, beatVars, phaseCh, workerVars, cancelled,
                   claimed, endVars, backend, exited>>

PostStartedInBackground ==                                  \* mutant
    /\ Alive /\ (pc = "started" \/ (pc = "scan" /\ ~backend.started))
    /\ IF pc = "started"
       THEN UNCHANGED backend
       ELSE Delivered([backend EXCEPT !.started = TRUE])
    /\ pc' = "snap"
    /\ UNCHANGED <<perils, err, completed, mine, beatVars, phaseCh, workerVars, cancelled,
                   claimed, endVars, exited>>
PostStarted ==
    /\ Alive /\ pc = "started"
    /\ Delivered([backend EXCEPT !.started = TRUE])
    /\ pc' = "snap"
    /\ UNCHANGED <<perils, err, completed, mine, beatVars, phaseCh, workerVars, cancelled,
                   claimed, endVars, exited>>

EndPhase(failed) ==
    /\ Alive /\ pc = "scan"
    /\ failed => completed + 1 = Phases
    /\ completed' = completed + 1
    /\ err' = failed /\ pc' = "snap"
    /\ UNCHANGED <<perils, mine, beatVars, phaseCh, workerVars, cancelled, claimed,
                   endVars, backend, exited>>

Panic ==
    /\ Alive /\ pc = "scan"
    /\ err' = TRUE /\ pc' = "cancel"
    /\ UNCHANGED <<perils, completed, mine, beatVars, phaseCh, workerVars, cancelled,
                   claimed, endVars, backend, exited>>

TakeSnapshot ==
    /\ Alive /\ pc = "snap"
    /\ mine' = Snapshot("main") /\ pc' = "send"
    /\ UNCHANGED <<perils, err, completed, beatVars, phaseCh, workerVars, cancelled,
                   claimed, endVars, backend, exited>>

SendOneTooMany ==                                           \* mutant
    /\ Alive /\ pc = "send"
    /\ phaseCh' = mine /\ mine' = Empty
    /\ pc' = (IF completed > Phases THEN "cancel" ELSE "scan")
    /\ beat' = (IF beat = "none" THEN "idle" ELSE beat)
    /\ UNCHANGED <<perils, err, completed, beatSnap, workerVars, cancelled, claimed,
                   endVars, backend, exited>>
\* sendSnapshot under phaseSendMu: drop what is queued, queue this.  The
\* first send also starts the heartbeat.
SendSnapshot ==
    /\ Alive /\ pc = "send"
    /\ phaseCh' = mine /\ mine' = Empty
    /\ pc' = (IF completed = Phases THEN "cancel" ELSE "scan")
    /\ beat' = (IF beat = "none" THEN "idle" ELSE beat)
    /\ UNCHANGED <<perils, err, completed, beatSnap, workerVars, cancelled, claimed,
                   endVars, backend, exited>>

\* The deferred shutdown: cancel, then wait for the heartbeat and the worker.
WaitThenCancel ==                                           \* mutant
    /\ Alive /\ pc = "cancel"
    /\ beat = "done" /\ worker = "exited"
    /\ cancelled' = TRUE /\ pc' = "join"
    /\ UNCHANGED <<perils, err, completed, mine, beatVars, phaseCh, workerVars, claimed,
                   endVars, backend, exited>>
CancelRun ==
    /\ Alive /\ pc = "cancel"
    /\ cancelled' = TRUE /\ pc' = "join"
    /\ UNCHANGED <<perils, err, completed, mine, beatVars, phaseCh, workerVars, claimed,
                   endVars, backend, exited>>

Join ==
    /\ Alive /\ pc = "join"
    /\ beat = "done" /\ worker = "exited"
    /\ pc' = "recover"
    /\ UNCHANGED <<perils, err, completed, mine, beatVars, phaseCh, workerVars, cancelled,
                   claimed, endVars, backend, exited>>

\* The deferred recovery stops the signal goroutine, then reports an error.
RecoverSilent ==                                            \* mutant
    /\ Alive /\ pc = "recover"
    /\ stopped' = TRUE
    /\ pc' = "returned" /\ UNCHANGED claimed
    /\ UNCHANGED <<perils, err, completed, mine, beatVars, phaseCh, workerVars, cancelled,
                   handler, signal, watchdog, backend, exited>>
Recover ==
    /\ Alive /\ pc = "recover"
    /\ stopped' = TRUE
    /\ IF err THEN ClaimFailure("main", pc' = "report", pc' = "returned")
       ELSE pc' = "returned" /\ UNCHANGED claimed
    /\ UNCHANGED <<perils, err, completed, mine, beatVars, phaseCh, workerVars, cancelled,
                   handler, signal, watchdog, backend, exited>>

Report ==
    /\ Alive /\ pc = "report"
    /\ PostFailed("main")
    /\ pc' = (IF stopped THEN "returned" ELSE "recover")
    /\ UNCHANGED <<perils, err, completed, mine, beatVars, phaseCh, workerVars, cancelled,
                   claimed, endVars, exited>>

ExitMain ==
    /\ Alive /\ pc = "returned"
    /\ exited' = (IF err THEN "error" ELSE "ok")
    /\ UNCHANGED <<mainVars, beatVars, phaseCh, workerVars, cancelled, claimed,
                   endVars, backend>>

MainStep ==
    \/ LockRefused \/ NoIdentity \/ LockTaken \/ PostStarted
    \/ (\E failed \in BOOLEAN : EndPhase(failed)) \/ Panic
    \/ TakeSnapshot \/ SendSnapshot
    \/ CancelRun \/ Join \/ Recover \/ Report \/ ExitMain
-----------------------------------------------------------------------------
(* The heartbeat and the worker.                                           *)

Tick ==
    /\ Alive /\ "ticks" \in perils /\ beat = "idle"
    /\ beatSnap' = Snapshot("heartbeat") /\ beat' = "send"
    /\ UNCHANGED <<mainVars, phaseCh, workerVars, cancelled, claimed, endVars,
                   backend, exited>>

SendBeatUnlocked ==                                         \* mutant
    /\ Alive /\ beat = "send"
    /\ phaseCh = Empty
    /\ phaseCh' = beatSnap /\ beatSnap' = Empty /\ beat' = "idle"
    /\ UNCHANGED <<mainVars, workerVars, cancelled, claimed, endVars, backend,
                   exited>>
SendBeat ==
    /\ Alive /\ beat = "send"
    /\ phaseCh' = beatSnap /\ beatSnap' = Empty /\ beat' = "idle"
    /\ UNCHANGED <<mainVars, workerVars, cancelled, claimed, endVars, backend,
                   exited>>

StopBeat ==
    /\ Alive /\ beat = "idle" /\ cancelled
    /\ beat' = "done"
    /\ UNCHANGED <<mainVars, beatSnap, phaseCh, workerVars, cancelled, claimed,
                   endVars, backend, exited>>

TakePreempting ==                                           \* mutant
    /\ Alive /\ worker # "exited" /\ phaseCh # Empty
    /\ posting' = phaseCh /\ phaseCh' = posting /\ worker' = "posting"
    /\ UNCHANGED <<mainVars, beatVars, cancelled, claimed, endVars, backend, exited>>
Take ==
    /\ Alive /\ worker = "idle" /\ phaseCh # Empty
    /\ posting' = phaseCh /\ phaseCh' = Empty /\ worker' = "posting"
    /\ UNCHANGED <<mainVars, beatVars, cancelled, claimed, endVars, backend, exited>>

Post ==
    /\ Alive /\ worker = "posting"
    /\ Delivered([backend EXCEPT !.progress = posting.seen])
    /\ posting' = Empty /\ worker' = "idle"
    /\ UNCHANGED <<mainVars, beatVars, phaseCh, cancelled, claimed, endVars, exited>>

\* The worker leaves only once the context is done and the channel drained.
ExitUndrained ==                                            \* mutant
    /\ Alive /\ worker = "idle" /\ cancelled
    /\ worker' = "exited"
    /\ UNCHANGED <<mainVars, beatVars, phaseCh, posting, cancelled, claimed, endVars,
                   backend, exited>>
ExitWorker ==
    /\ Alive /\ worker = "idle" /\ cancelled /\ phaseCh = Empty
    /\ worker' = "exited"
    /\ UNCHANGED <<mainVars, beatVars, phaseCh, posting, cancelled, claimed, endVars,
                   backend, exited>>

BeatStep   == SendBeat \/ StopBeat
WorkerStep == Take \/ Post \/ ExitWorker
-----------------------------------------------------------------------------
(* Signals and the execution watchdog.                                     *)

Signal ==
    /\ Alive /\ "signals" \in perils /\ ~stopped /\ ~signal /\ handler = "waiting"
    /\ signal' = TRUE
    /\ UNCHANGED <<mainVars, beatVars, phaseCh, workerVars, cancelled, claimed,
                   handler, stopped, watchdog, backend, exited>>

\* With a signal and sigHandlerDone both ready, select takes either.
Catch ==
    /\ Alive /\ handler = "waiting" /\ signal
    /\ signal' = FALSE
    /\ ClaimFailure("handler", handler' = "reporting", handler' = "exiting")
    /\ UNCHANGED <<mainVars, beatVars, phaseCh, workerVars, cancelled, stopped,
                   watchdog, backend, exited>>

ReportSignal ==
    /\ Alive /\ handler = "reporting"
    /\ PostFailed("handler")
    /\ handler' = "exiting"
    /\ UNCHANGED <<mainVars, beatVars, phaseCh, workerVars, cancelled, claimed,
                   signal, stopped, watchdog, exited>>

ExitSignal ==
    /\ Alive /\ handler = "exiting"
    /\ exited' = "cancelled"
    /\ UNCHANGED <<mainVars, beatVars, phaseCh, workerVars, cancelled, claimed,
                   endVars, backend>>

StopHandler ==
    /\ Alive /\ handler = "waiting" /\ stopped
    /\ handler' = "stopped"
    /\ UNCHANGED <<mainVars, beatVars, phaseCh, workerVars, cancelled, claimed,
                   signal, stopped, watchdog, backend, exited>>

\* Unix: SIGTERM to itself, which kills the process once signal.Stop has
\* restored the default disposition.  Windows: ReportFatal, a no-op once
\* Run has returned.
FireUnix ==
    /\ Alive /\ watchdog = "armed" /\ "unix" \in perils
    /\ watchdog' = "fired"
    /\ IF stopped THEN exited' = "killed" /\ UNCHANGED signal
       ELSE signal' = TRUE /\ UNCHANGED exited
    /\ UNCHANGED <<mainVars, beatVars, phaseCh, workerVars, cancelled, claimed,
                   handler, stopped, backend>>

FireWindows ==
    /\ Alive /\ watchdog = "armed" /\ "windows" \in perils
    /\ IF pc = "returned" THEN watchdog' = "fired" /\ UNCHANGED claimed
       ELSE ClaimFailure("watchdog", watchdog' = "reporting", watchdog' = "fired")
    /\ UNCHANGED <<mainVars, beatVars, phaseCh, workerVars, cancelled, handler,
                   signal, stopped, backend, exited>>

ReportFatal ==
    /\ Alive /\ watchdog = "reporting"
    /\ PostFailed("watchdog")
    /\ watchdog' = "fired"
    /\ UNCHANGED <<mainVars, beatVars, phaseCh, workerVars, cancelled, claimed,
                   handler, signal, stopped, exited>>

HardExitNever == FALSE                                      \* mutant
HardExit ==
    /\ Alive /\ watchdog = "fired"
    /\ exited' = "watchdog"
    /\ UNCHANGED <<mainVars, beatVars, phaseCh, workerVars, cancelled, claimed,
                   endVars, backend>>

HandlerStep  == Catch \/ ReportSignal \/ ExitSignal \/ StopHandler
WatchdogStep == FireUnix \/ FireWindows \/ ReportFatal \/ HardExit

Next == MainStep \/ Tick \/ BeatStep \/ WorkerStep \/ Signal \/ HandlerStep \/ WatchdogStep

(* The ticker and signals owe nothing; every goroutine that can go on      *)
(* does, since phases have budgets and requests have timeouts, unless it   *)
(* is wedged; the watchdog is a timer of its own.  A ticker cannot always  *)
(* win the heartbeat's select against runCtx.Done(), which picks among     *)
(* ready cases at random.                                                  *)
Sound == "wedge" \notin perils
Spec == /\ Init /\ [][Next]_vars
        /\ WF_vars(Sound /\ MainStep) /\ WF_vars(Sound /\ WorkerStep)
        /\ WF_vars(Sound /\ BeatStep) /\ SF_vars(Sound /\ StopBeat)
        /\ WF_vars(Sound /\ HandlerStep) /\ WF_vars(WatchdogStep)
-----------------------------------------------------------------------------
(* Properties.                                                             *)

TypeOK ==
    /\ perils \in Environments
    /\ pc \in {"lock", "started", "scan", "snap", "send", "cancel", "join",
               "recover", "report", "returned"}
    /\ err \in BOOLEAN /\ completed \in 1 .. Phases
    /\ {mine, beatSnap, phaseCh, posting} \subseteq Snapshots \union {Empty}
    /\ beat \in {"none", "idle", "send", "done"}
    /\ worker \in {"idle", "posting", "exited"}
    /\ {cancelled, signal, stopped} \subseteq BOOLEAN
    /\ claimed \in {"nobody", "main", "handler", "watchdog"}
    /\ handler \in {"waiting", "reporting", "exiting", "stopped"}
    /\ watchdog \in {"off", "armed", "reporting", "fired"}
    /\ backend \in [started : BOOLEAN, progress : 0 .. Phases,
                    failed : SUBSET {"main", "handler", "watchdog"}]
    /\ exited \in {"no", "ok", "error", "cancelled", "watchdog", "killed"}

\* At most one of the scan, the signal handler and the watchdog reports the
\* run failed, however they race (telemetry.go:256-264).
FailedOnce == \A a, b \in backend.failed : a = b

\* Nothing the scan posted is left behind by the worker when runCtx ends:
\* the final snapshot arrives after cancelRun (telemetry.go:305-322).
DrainedBeforeExit == worker = "exited" => phaseCh.from # "main" /\ mine = Empty

\* Progress is only posted once the backend has a row to upsert it into
\* (telemetry.go:572-581).
ProgressAfterStarted == Reliable /\ backend.progress > 0 => backend.started

\* A run that nothing else ends and that fails has told the backend, whatever
\* the heartbeat and the worker were doing (telemetry.go:386-405).
ErrorReported ==
    perils \subseteq {"ticks"} /\ exited = "error" => backend.failed # {}

\* A run too short for a heartbeat that gets past its upload, in success or
\* failure, leaves the snapshot that includes telemetry_upload at the backend
\* (telemetry.go:1402-1411, 1438-1443).
FinalLands ==
    Reliable /\ "ticks" \notin perils /\ exited \in {"ok", "error"}
        => (completed = Phases => backend.progress = Phases)

\* The backend never sees an older snapshot land after a newer one
\* (telemetry.go:268-276).
NoOlderAfterNewer == [][backend'.progress >= backend.progress]_vars

\* At least a run too short for a heartbeat keeps that order, and its
\* progress never regresses.
ProgressNeverRegresses ==
    [][backend'.progress >= backend.progress \/ "ticks" \in perils]_vars

\* Every run ends: the deferred shutdown waits for two goroutines that wait
\* for it, no send into the one-slot channel blocks, and if anything hangs
\* the watchdog, where there is one, ends the process.
Ends == Sound \/ Watched => <>(exited # "no")

\* What the backend is told of a run is true, and told once: by one reporter,
\* of a row that exists, and never nothing of a failure.
ReportsHold == TypeOK /\ FailedOnce /\ ProgressAfterStarted /\ ErrorReported

\* No snapshot of the scan is left behind, neither in the channel when the
\* worker leaves nor on the way when the process ends.
NothingLeftBehind == DrainedBeforeExit /\ FinalLands
=============================================================================
