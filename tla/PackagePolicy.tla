--------------------------- MODULE PackagePolicy ---------------------------
(***************************************************************************)
(* The PyPI and Go lanes of the device policy (devicepolicy/               *)
(* pypi_coordinator.go, go_coordinator.go), which share one credential in  *)
(* .netrc: a cycle of a lane writes the credential first and then its      *)
(* clients, takes the credential back when no client came to use it, and a *)
(* clear leaves the credential to the other lane while that one has a      *)
(* block.  The text of the files is PackageFiles' business; here a file    *)
(* has the agent's block or not, and its writer may refuse it.             *)
(***************************************************************************)
EXTENDS Naturals, Sequences, FiniteSets

CONSTANTS
    Toks,           \* the device tokens, numbers above 0
    Moods,          \* what may become of a file: "refused", "mdm", "overridden" and back
    MaxPolicies,    \* how many policies the backend sends at most
    MaxTouches,     \* how often user, administrator or disk interfere at most
    MaxKills,
    None

Lanes   == {"pypi", "go"}
Clients == [pypi |-> {"pip", "uv"}, go |-> {"env"}]
Files   == {"netrc", "pip", "uv", "env"}
Other(l) == IF l = "pypi" THEN "go" ELSE "pypi"
LaneFiles(l) == {"netrc"} \union Clients[l]
CredOf(l) == <<l, "netrc">>             \* the ownership record of a lane's credential
Owners  == UNION {{<<l, f>> : f \in LaneFiles(l)} : l \in Lanes}
Blocks  == {"none", "stale", "good"}

(* A token is not the 0 of a missing credential; None is nothing else.     *)
ASSUME PackagePolicyAssumption ==
    /\ Toks \subseteq Nat \ {0} /\ Toks # {}
    /\ \A l \in Lanes : None # l
    /\ \A S \in SUBSET Files : None # S
    /\ \A h \in [clients : SUBSET Files, tok : Toks] : None # h
    /\ \A v \in Toks \union {0}, d \in BOOLEAN : None # [held |-> v, drift |-> d]
    /\ \A v \in Blocks, d \in BOOLEAN : None # [held |-> v, drift |-> d]

VARIABLES
    want,       \* per lane None, or the clients to configure; none of them is a clear
    tok,        \* the token of the current policies
    cred,       \* the token in the managed block of .netrc, 0 without a block
    block,      \* per client file: the managed block is "none", "stale" or "good"
    mood,       \* per file "ok" or one of Moods
    storeOk,    \* the ownership file can be written
    rec,        \* the hash each ownership record holds
    run,        \* the cycle in progress
    report,     \* per lane the state last reported
    turn,       \* the lane whose cycle is next
    budget      \* what the bounds leave to happen

vars == <<want, tok, cred, block, mood, storeOk, rec, run, report, turn, budget>>
files == <<cred, block>>
world == <<want, tok, mood, storeOk, budget>>

Hash(l) == [clients |-> want[l], tok |-> tok]

Idle == [lane |-> None, todo |-> <<>>]
Task(op, f) == [op |-> op, f |-> f]

(* A mutant for the runs: only the record is asked for the host. *)
HostRecorded(l) == rec[CredOf(l)] # None

(* A clear needs the host whose entry is to go: without a record or a      *)
(* block to read it from the credential's component is unusable.           *)
HostKnown(l) == rec[CredOf(l)] # None \/ (cred # 0 /\ mood["netrc"] # "refused")

(* What a cycle carries: the policy it works on; the tasks ahead; whether  *)
(* the credential was in place, the credential and its record as found;    *)
(* the states its components reached and the files that hold the wanted    *)
(* block; the file just written as it was before; and what others touched  *)
(* since it began.                                                         *)
Cycle(l, todo) ==
    [lane |-> l, todo |-> todo, hash |-> Hash(l), host |-> HostKnown(l), was |-> cred = tok, found |-> cred,
     prior |-> rec[CredOf(l)], states |-> {}, inForce |-> {}, undo |-> None, touched |-> {}]

Ranked == <<"compliant", "drift", "not_applied", "write_failed", "verification_failed">>
Rank(s) == CHOOSE i \in DOMAIN Ranked : Ranked[i] = s
(* aggregatePyPIState, aggregateGoState: the worst counts. *)
Aggregate(S) == CHOOSE s \in S : \A t \in S : Rank(t) <= Rank(s)
Succeeded(s) == s \in {"compliant", "drift"}

-----------------------------------------------------------------------------
(* What the components see of their files: the marker, the wanted block    *)
(* (Converged), a file that cannot be read or written.                     *)
HasBlock(f) == IF f = "netrc" THEN cred # 0 ELSE block[f] # "none"
InPlace(f)  == IF f = "netrc" THEN cred = run.hash.tok ELSE block[f] = "good"
Refuses(f)  == mood[f] = "refused"

Holds(f)  == IF f = "netrc" THEN cred ELSE block[f]
Empty(f)  == IF f = "netrc" THEN 0 ELSE "none"
Wanted(f) == IF f = "netrc" THEN run.hash.tok ELSE "good"
SetFile(f, v) ==
    IF f = "netrc" THEN cred' = v /\ UNCHANGED block
    ELSE block' = [block EXCEPT ![f] = v] /\ UNCHANGED cred

(* observationState: another source may override what the file says. *)
Observed(f, s) == IF mood[f] = "overridden" THEN "not_applied" ELSE s

(* A mutant for the runs: a block that is not quite right is no sibling. *)
SiblingInForce(l) == cred # 0 /\ \E c \in Clients[Other(l)] : block[c] = "good"

(* hasGoSibling, hasPyPISibling: they read one client after the other, and *)
(* the credential only for the sake of a block found.                      *)
Sibling(l) == cred # 0 /\ \E c \in Clients[Other(l)] : HasBlock(c)
SiblingErr(l) ==
    \/ \E c \in Clients[Other(l)] : Refuses(c) /\ ~(c = "uv" /\ HasBlock("pip"))
    \/ Refuses("netrc") /\ \E c \in Clients[Other(l)] : HasBlock(c)

-----------------------------------------------------------------------------
(* The tasks of the clients in S, in the order the code takes them. *)
Each(op, S) ==
    (IF "pip" \in S THEN <<Task(op, "pip")>> ELSE <<>>) \o (IF "uv" \in S THEN <<Task(op, "uv")>> ELSE <<>>)
        \o (IF "env" \in S THEN <<Task(op, "env")>> ELSE <<>>)
(* A mutant for the runs: clients no longer selected are forgotten. *)
SelectedTasks(l) ==
    <<Task("apply", "netrc")>> \o Each("apply", want[l]) \o <<Task("settle", "netrc"), Task("report", "netrc")>>

EnforceTasks(l) ==
    <<Task("apply", "netrc")>> \o Each("clear", Clients[l] \ want[l]) \o Each("apply", want[l])
        \o <<Task("settle", "netrc"), Task("report", "netrc")>>
ClearTasks(l) == Each("clear", Clients[l]) \o <<Task("release", "netrc")>>

Now(op, f) == run # Idle /\ run.todo # <<>> /\ Head(run.todo) = Task(op, f)
Owner(f)   == <<run.lane, f>>
Clearing   == run.hash.clients = {}

(* The task is done.  Without a credential the clients are only looked at; *)
(* a clear of Go stops at the first error.                                 *)
Done(f, s, on) ==
    run' = [run EXCEPT
        !.states  = @ \union {s} \union (IF f = "netrc" /\ ~Succeeded(s) THEN {"not_applied"} ELSE {}),
        !.inForce = @ \union on,
        !.undo    = None,
        !.todo    = IF Clearing /\ ~Succeeded(s) /\ run.lane = "go" THEN <<>>
                    ELSE IF f = "netrc" /\ ~Succeeded(s) /\ ~Clearing THEN <<Task("report", "netrc")>>
                    ELSE Tail(@)]

(* Reconcile: verify-only under an MDM marker; Go, unlike PyPI, does not   *)
(* begin with a file it cannot read.                                       *)
VerifyOnly(l) == \E f \in LaneFiles(l) : mood[f] = "mdm"
MdmState(l) ==
    IF \E f \in LaneFiles(l) : Refuses(f) THEN "verification_failed"
    ELSE IF \A f \in {"netrc"} \union want[l] : mood[f] = "mdm" THEN "mdm_managed" ELSE "not_applied"
ReportOnly(l, s) ==
    /\ report' = [report EXCEPT ![l] = [state |-> s, hash |-> None]]
    /\ turn' = Other(l)
    /\ UNCHANGED run

Begin(l) ==
    /\ run = Idle /\ turn = l
    /\ IF want[l] = None THEN turn' = Other(l) /\ UNCHANGED <<run, report>>
       ELSE IF want[l] = {} THEN run' = Cycle(l, ClearTasks(l)) /\ UNCHANGED <<turn, report>>
       ELSE IF VerifyOnly(l) THEN ReportOnly(l, MdmState(l))
       ELSE IF l = "go" /\ \E f \in LaneFiles(l) : Refuses(f) THEN ReportOnly(l, "verification_failed")
       ELSE run' = Cycle(l, EnforceTasks(l)) /\ UNCHANGED <<turn, report>>
    /\ UNCHANGED <<files, rec, world>>

(* runComponent, over enforceSingle.  A block in place is adopted, if      *)
(* possible with its record; nothing is written that cannot be recorded.   *)
Apply(f) ==
    /\ Now("apply", f) /\ run.undo = None
    /\ IF Refuses(f) THEN Done(f, "verification_failed", {}) /\ UNCHANGED <<files, rec>>
       ELSE IF InPlace(f)
            THEN /\ Done(f, Observed(f, "compliant"), {f})
                 /\ rec' = IF storeOk THEN [rec EXCEPT ![Owner(f)] = run.hash] ELSE rec
                 /\ UNCHANGED files
       ELSE IF ~storeOk \/ mood[f] = "mdm" THEN Done(f, "write_failed", {}) /\ UNCHANGED <<files, rec>>
       ELSE /\ SetFile(f, Wanted(f))
            /\ run' = [run EXCEPT !.undo = [held |-> Holds(f), drift |-> rec[Owner(f)] = run.hash],
                                  !.touched = @ \ {f}]
            /\ UNCHANGED rec
    /\ UNCHANGED <<report, turn, world>>

(* Its record, or the file as it was; a file touched meanwhile stays. *)
Restorable(f) == f \notin run.touched /\ ~Refuses(f)
Record(f) ==
    /\ Now("apply", f) /\ run.undo # None
    /\ IF storeOk
       THEN /\ rec' = [rec EXCEPT ![Owner(f)] = run.hash]
            /\ IF Refuses(f) \/ ~InPlace(f)
               THEN Done(f, IF Refuses(f) THEN "verification_failed" ELSE "not_applied", {})
               ELSE Done(f, Observed(f, IF run.undo.drift THEN "drift" ELSE "compliant"), {f})
            /\ UNCHANGED files
       ELSE /\ UNCHANGED rec
            /\ IF Restorable(f) THEN Done(f, "write_failed", {}) /\ SetFile(f, run.undo.held)
               ELSE Done(f, "verification_failed", {}) /\ UNCHANGED files
    /\ UNCHANGED <<report, turn, world>>

(* runClear of a client: the block goes, then the record. *)
Clear(f) ==
    /\ Now("clear", f) /\ run.undo = None
    /\ IF Refuses(f) THEN Done(f, "write_failed", {}) /\ UNCHANGED files
       ELSE /\ SetFile(f, Empty(f))
            /\ run' = [run EXCEPT !.undo = [held |-> Holds(f), drift |-> FALSE]]
    /\ UNCHANGED <<rec, report, turn, world>>

DropRecord(f) ==
    IF storeOk THEN rec' = [rec EXCEPT ![Owner(f)] = None] /\ Done(f, "compliant", {})
    ELSE Done(f, "write_failed", {}) /\ UNCHANGED rec
ClearRecord(f) ==
    /\ Now("clear", f) /\ run.undo # None
    /\ DropRecord(f)
    /\ UNCHANGED <<files, report, turn, world>>

(* The end of a clear: a lane whose sibling has a block only gives up its  *)
(* own record of the credential.                                           *)
Stop == run' = [run EXCEPT !.todo = <<>>]
Release ==
    /\ Now("release", "netrc") /\ run.undo = None
    /\ IF SiblingErr(run.lane) THEN Stop /\ UNCHANGED <<files, rec>>
       ELSE IF Sibling(run.lane) THEN DropRecord("netrc") /\ UNCHANGED files
       ELSE IF ~run.host \/ Refuses("netrc") \/ mood["netrc"] = "mdm" THEN Stop /\ UNCHANGED <<files, rec>>
       ELSE /\ SetFile("netrc", 0)
            /\ run' = [run EXCEPT !.undo = [held |-> cred, drift |-> FALSE]]
            /\ UNCHANGED rec
    /\ UNCHANGED <<report, turn, world>>
ReleaseRecord ==
    /\ Now("release", "netrc") /\ run.undo # None
    /\ DropRecord("netrc")
    /\ UNCHANGED <<files, report, turn, world>>

(* The end of an enforcement: a credential this cycle brought goes back    *)
(* when no client holds its block, and its record with it.                 *)
UnusedByAnyone == ~run.was /\ run.inForce = {}     \* a mutant for the runs: itself included
Unused == ~run.was /\ run.inForce \subseteq {"netrc"}
Settle ==
    /\ Now("settle", "netrc") /\ run.undo = None
    /\ IF ~Unused THEN Done("pip", "compliant", {}) /\ UNCHANGED files
       ELSE IF Restorable("netrc")
            THEN /\ SetFile("netrc", run.found)
                 /\ run' = [run EXCEPT !.undo = [held |-> cred, drift |-> FALSE]]
       ELSE Done("pip", "verification_failed", {}) /\ UNCHANGED files
    /\ UNCHANGED <<rec, report, turn, world>>
SettleRecord ==
    /\ Now("settle", "netrc") /\ run.undo # None
    /\ IF storeOk
       THEN /\ rec' = [rec EXCEPT ![Owner("netrc")] = run.prior]
            /\ Done("pip", IF run.lane = "pypi" THEN "not_applied" ELSE "write_failed", {})
       ELSE Done("pip", "write_failed", {}) /\ UNCHANGED rec
    /\ UNCHANGED <<files, report, turn, world>>

Report ==
    /\ Now("report", "netrc")
    /\ LET s == Aggregate(run.states) IN
        report' = [report EXCEPT ![run.lane] =
                      [state |-> s, hash |-> IF Succeeded(s) THEN run.hash ELSE None]]
    /\ Stop
    /\ UNCHANGED <<files, rec, turn, world>>

End ==
    /\ run # Idle /\ run.todo = <<>>
    /\ run' = Idle /\ turn' = Other(run.lane)
    /\ UNCHANGED <<files, rec, report, world>>

Step ==
    \/ \E l \in Lanes : Begin(l)
    \/ \E f \in Files : Apply(f) \/ Record(f) \/ Clear(f) \/ ClearRecord(f)
    \/ Release \/ ReleaseRecord \/ Settle \/ SettleRecord \/ Report \/ End

-----------------------------------------------------------------------------
(* The world: the backend's policies, users and MDM at the files, the      *)
(* ownership file on a read-only or full disk, a kill.                     *)
Spend(k)  == budget[k] > 0 /\ budget' = [budget EXCEPT ![k] = @ - 1]
Notice(S) == run' = IF run = Idle THEN run ELSE [run EXCEPT !.touched = @ \union S]

Assigned(l, S) ==
    /\ Spend("policy") /\ want[l] # S
    /\ want' = [want EXCEPT ![l] = S]
    /\ UNCHANGED <<tok, files, mood, storeOk, rec, run, report, turn>>
Rotated(t) ==
    /\ Spend("policy") /\ t # tok
    /\ tok' = t
    /\ UNCHANGED <<want, files, mood, storeOk, rec, run, report, turn>>

Edited(f, v) ==
    /\ Spend("touch") /\ HasBlock(f) /\ v # Holds(f)
    /\ SetFile(f, v) /\ Notice({f})
    /\ UNCHANGED <<want, tok, mood, storeOk, rec, report, turn>>
Became(f, m) ==
    /\ Spend("touch") /\ mood[f] # m
    /\ m = "mdm" => ~HasBlock(f)
    /\ m = "overridden" => f # "netrc"
    /\ mood' = [mood EXCEPT ![f] = m] /\ Notice({f})
    /\ UNCHANGED <<want, tok, files, storeOk, rec, report, turn>>
StoreTurns ==
    /\ Spend("touch")
    /\ storeOk' = ~storeOk /\ Notice({"store"})
    /\ UNCHANGED <<want, tok, files, mood, rec, report, turn>>
Killed ==
    /\ Spend("kill") /\ run # Idle
    /\ run' = Idle
    /\ UNCHANGED <<want, tok, files, mood, storeOk, rec, report, turn>>

World ==
    \/ \E l \in Lanes, S \in SUBSET {"pip", "uv", "env"} : S \subseteq Clients[l] /\ Assigned(l, S)
    \/ \E t \in Toks : Rotated(t)
    \/ \E f \in Files : Edited(f, Empty(f)) \/ (f # "netrc" /\ Edited(f, "stale"))
    \/ \E f \in Files, m \in Moods \union {"ok"} : Became(f, m)
    \/ StoreTurns \/ Killed

Init ==
    /\ want = [l \in Lanes |-> None] /\ tok = CHOOSE t \in Toks : TRUE
    /\ cred = 0 /\ block = [c \in Files \ {"netrc"} |-> "none"]
    /\ mood = [f \in Files |-> "ok"] /\ storeOk = TRUE
    /\ rec = [o \in Owners |-> None] /\ run = Idle
    /\ report = [l \in Lanes |-> None] /\ turn = "pypi"
    /\ budget = [policy |-> MaxPolicies, touch |-> MaxTouches, kill |-> MaxKills]

Next == Step \/ World
Spec == Init /\ [][Next]_vars /\ WF_vars(Step)

-----------------------------------------------------------------------------
(* No lane takes the credential the other lane's clients use: a step of    *)
(* the agent removes it only where the other lane has no block, or to undo *)
(* what the same cycle brought.                                            *)
SiblingKeepsCredential ==
    [][Step /\ cred # 0 /\ cred' = 0 =>
          \/ \A c \in Clients[Other(run.lane)] : ~HasBlock(c)
          \/ ~Clearing /\ (run.found = 0 \/ (run.undo # None /\ run.undo.held = 0))]_vars

(* A credential is not left behind by an enforcement no client of which    *)
(* came to use it: the cycle brought it, so the cycle takes it back,       *)
(* unless it says that it could not.                                       *)
Ending == run # Idle /\ run.todo = <<>> /\ ~Clearing
NoUnusedCredential ==
    Ending /\ run.found = 0 /\ run.touched = {} /\ cred # 0 =>
        \E c \in Clients[run.lane] : block[c] = "good"

(* A compliant report is true of the files, when nobody touched them since *)
(* the cycle began: the credential, every selected client and no other.    *)
ComplianceIsReal ==
    Ending /\ run.touched = {} /\ report[run.lane].hash = run.hash =>
        /\ cred = run.hash.tok
        /\ \A c \in Clients[run.lane] : block[c] = IF c \in run.hash.clients THEN "good" ELSE "none"

(* When the world has come to rest and lets the agent work, every lane is  *)
(* as its policy says: in force and reported so, or gone with its records. *)
(* The credential goes with the last lane.                                 *)
AtRest == storeOk /\ \A f \in Files : mood[f] = "ok"
Enforced(l) ==
    /\ cred = tok
    /\ \A c \in Clients[l] : block[c] = IF c \in want[l] THEN "good" ELSE "none"
    /\ report[l] # None /\ report[l].hash = Hash(l)
Cleared(l) == \A c \in Clients[l] : block[c] = "none" /\ rec[<<l, c>>] = None /\ rec[CredOf(l)] = None
Settles ==
    <>[](AtRest =>
            /\ \A l \in Lanes : IF want[l] = {} THEN Cleared(l) ELSE want[l] # None => Enforced(l)
            /\ (\A l \in Lanes : want[l] = {}) => cred = 0)

(* What a finished cycle leaves and says agree: no credential for nobody,  *)
(* no compliance without the files.                                        *)
CycleIsHonest == NoUnusedCredential /\ ComplianceIsReal
=============================================================================
