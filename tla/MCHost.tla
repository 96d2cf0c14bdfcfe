------------------------------- MODULE MCHost -------------------------------
(***************************************************************************)
(* The parts of one agent that share no state, each explored on its own:   *)
(* the ownership file (StateStore, whose properties keep their names), one *)
(* upload, the identity of the machine, the log capture, and the inventory *)
(* of agent plugins.                                                       *)
(* part says which of them moves; the others rest where they start.        *)
(***************************************************************************)
EXTENDS StateStore, ScanWorlds, Integers

VARIABLE part

VARIABLES upPerils, upPc, upAttempt, upExpired, upObject, upInFlight, upStored, upAnswer
upVars == <<upPerils, upPc, upAttempt, upExpired, upObject, upInFlight, upStored, upAnswer>>
Upload == INSTANCE UploadProtocol WITH
    Networks <- {{"proxy"}, {"proxy", "oldBackend"}},
    perils <- upPerils, pc <- upPc, attempt <- upAttempt, expired <- upExpired, object <- upObject,
    inFlight <- upInFlight, stored <- upStored, answer <- upAnswer

VARIABLES idMachine, idShared, idOwn, idLastRun, idConfigured, idMinted, idProc, idTold, idLatest,
          idMishaps, idFlawed, idTampered
idVars == <<idMachine, idShared, idOwn, idLastRun, idConfigured, idMinted, idProc, idTold, idLatest,
          idMishaps, idFlawed, idTampered>>
Machine(os, serial, fallback, who) == [goos |-> os, serial |-> serial, fallback |-> fallback, who |-> who]
Typical == Machine("linux", TRUE, TRUE, {"root", "shell"})
Identity == INSTANCE DeviceID WITH
    Roots <- {"root"}, Users <- {"shell", "hook"}, Mishaps <- 1, Uses <- 2,
    Machines <- {Typical, Machine("linux", TRUE, FALSE, {"root", "shell"}), Machine("linux", FALSE, FALSE, {"shell", "hook"}),
                 Machine("windows", TRUE, TRUE, {"root", "shell"}), Machine("darwin", TRUE, FALSE, {"root", "shell"})},
    machine <- idMachine, shared <- idShared, own <- idOwn, lastRun <- idLastRun, configured <- idConfigured,
    minted <- idMinted, proc <- idProc, told <- idTold, latest <- idLatest, mishaps <- idMishaps,
    flawed <- idFlawed, tampered <- idTampered

VARIABLES logLogged, logPipe, logOpen, logTee, logRing, logEchoed, logAck, logMain, logSeen, logStale, logResult
logVars == <<logLogged, logPipe, logOpen, logTee, logRing, logEchoed, logAck, logMain, logSeen, logStale, logResult>>
Capture == INSTANCE LogCapture WITH
    Logs <- 4, Syncs <- 2, RingSize <- 3, PipeSize <- 2, ErrSize <- 1,
    logged <- logLogged, pipe <- logPipe, open <- logOpen, tee <- logTee, ring <- logRing, echoed <- logEchoed,
    ack <- logAck, main <- logMain, seen <- logSeen, stale <- logStale, result <- logResult

VARIABLES plWorld, plLate, plPc, plMoved, plMoments, plAgents, plAttempt, plRun, plSaved, plDone, plReport, plKept
plVars == <<plWorld, plLate, plPc, plMoved, plMoments, plAgents, plAttempt, plRun, plSaved, plDone, plReport, plKept>>
Plugin == INSTANCE Plugins WITH
    Dir <- PlDir, Up <- PlUp, Top <- "top", Nowhere <- "nowhere", Worlds <- PlWorlds,
    world <- plWorld, late <- plLate, pc <- plPc, moved <- plMoved, moments <- plMoments, agents <- plAgents,
    attempt <- plAttempt, run <- plRun, saved <- plSaved, done <- plDone, report <- plReport, kept <- plKept

ASSUME HostAssumption == Upload!UploadAssumption /\ Identity!DeviceAssumption /\ Capture!CaptureAssumption

allVars == <<part, vars, upVars, idVars, logVars, plVars>>

(* A part that rests is where the first of its initial states puts it; the *)
(* inventory of plugins has no variables then.                             *)
Unused(v) == v = {}
HostInit ==
    /\ part \in {"store", "upload", "identity", "capture", "plugins"}
    /\ Init /\ Upload!Init /\ Identity!Init /\ Capture!Init
    /\ part # "upload" => upPerils = {"proxy"}
    /\ \/ part = "plugins" /\ Plugin!Init
       \/ /\ part # "plugins"
          /\ Unused(plWorld) /\ Unused(plLate) /\ Unused(plPc) /\ Unused(plMoved) /\ Unused(plMoments) /\ Unused(plAgents)
          /\ Unused(plAttempt) /\ Unused(plRun) /\ Unused(plSaved) /\ Unused(plDone) /\ Unused(plReport) /\ Unused(plKept)
    /\ part # "identity" => idMachine = Typical /\ idLastRun = Identity!Unknown

Store_    == part = "store"    /\ Next          /\ UNCHANGED <<upVars, idVars, logVars, plVars>>
Upload_   == part = "upload"   /\ Upload!Next   /\ UNCHANGED <<vars, idVars, logVars, plVars>>
Identity_ == part = "identity" /\ Identity!Next /\ UNCHANGED <<vars, upVars, logVars, plVars>>
Capture_  == part = "capture"  /\ Capture!Next  /\ UNCHANGED <<vars, upVars, idVars, plVars>>
Plugins_  == part = "plugins"  /\ Plugin!Next   /\ UNCHANGED <<vars, upVars, idVars, logVars>>

HostNext == UNCHANGED part /\ (Store_ \/ Upload_ \/ Identity_ \/ Capture_ \/ Plugins_)

(* The fairness of the part that moves. *)
HostSpec ==
    /\ HostInit /\ [][HostNext]_allVars
    /\ \A a \in Agents : WF_vars(part = "store" /\ Step(a))
    /\ WF_upVars(part = "upload" /\ Upload!Step)
    /\ \A p \in Identity!Procs : WF_idVars(part = "identity" /\ p \in idMachine.who /\ Identity!Step(p))
    /\ WF_logVars(part = "capture" /\ Capture!Tee) /\ WF_logVars(part = "capture" /\ Capture!Call)

-----------------------------------------------------------------------------
(* Upload: what is reported as uploaded is in the bucket (UploadProtocol). *)
UploadedMeansObject == Upload!TypeOK /\ Upload!UploadedMeansObject

(* Upload: the caller may conclude what UploadOutcome promises.            *)
ImplementsOutcome == Upload!Outcome!Init /\ [][Upload!Outcome!Next]_<<upAnswer, upStored>>

(* Identity: one per process, none minted where only the deadline failed,  *)
(* and racing mints agree (DeviceID).                                      *)
IdentityAgreed == Identity!IdentityAgreed

(* Identity: a settled one is never displaced by a lesser one, and when    *)
(* mishaps end, all runs come to report the same.                          *)
IdentitySettles == Identity!NoFlip /\ (part = "identity" => Identity!OneInTheEnd)

(* Capture: nothing is lost, a Sync and a Finalize show what was logged    *)
(* (LogCapture).                                                           *)
LogShows == Capture!NothingLost /\ Capture!SyncShows /\ Capture!FinalizeShows

(* Nobody waits for ever: a rewrite of the ownership file, an upload, a     *)
(* Sync and a Finalize return.                                              *)
CallsReturn ==
    /\ part = "store" => Returns
    /\ part = "upload" => Upload!Terminates
    /\ part = "capture" => Capture!Returns

(* The plugin inventory tells one moment from another, calls complete only  *)
(* what leaves nothing out, claims no state a hidden file could deny, and   *)
(* drops no server the report does not name (Plugins).                      *)
PluginsAreHonest ==
    part = "plugins" =>
       /\ Plugin!TypeOK
       /\ Plugin!OneMoment
       /\ Plugin!CompleteMeansAll
       /\ Plugin!EffectiveIsSure
       /\ Plugin!CapsReported
       /\ Plugin!NoServerLost
=============================================================================
