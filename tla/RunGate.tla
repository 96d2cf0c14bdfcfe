------------------------------- MODULE RunGate -------------------------------
(***************************************************************************)
(* The run gate in front of a scan (internal/rungate, internal/heartbeat): *)
(* every wakeup stamps last-run.json, asks the backend whether a scan is   *)
(* due and falls back to the cadence cached in that file.  Wakeups overlap,*)
(* the file is rewritten without a lock between processes (removed, then   *)
(* replaced), the device may change its identity and its clock may be set. *)
(*                                                                         *)
(* A time stamp is kept as its age on the device's clock, which grows up   *)
(* to OldAge and can be negative after the clock was set back.             *)
(***************************************************************************)
EXTENDS Integers

CONSTANTS
    Wakeups,       \* agent processes that may overlap
    Devices,       \* identities this machine may report as
    Unknown,       \* the identity of a run that could not resolve one
    Interval,      \* the cadence the backend sets, in ticks
    Floor,         \* offlineCacheMinFloor
    Ahead,         \* how far into the future a stamp may get
    None,
    Environments   \* sets of perils, one of which a behaviour lives in

Perils == {
    "overlap",     \* a wakeup may start while another one runs
    "offline",     \* check-ins may fail
    "readonly",    \* last-run.json may refuse to be written
    "rename",      \* the device's configured identity may change
    "probe",       \* the identity may be unresolvable for a run
    "clock",       \* the clock may be set back
    "crash"}       \* a run may be killed

Staleness == IF 2 * Interval > Floor THEN 2 * Interval ELSE Floor
OldAge    == Staleness
MinAge    == -Ahead

ASSUME GateAssumption ==
    /\ Interval \in Nat \ {0} /\ Floor \in Nat /\ Ahead \in Nat
    /\ Environments \subseteq SUBSET Perils
    /\ None \notin Devices \union {Unknown} /\ Unknown \notin Devices
    /\ None \notin Wakeups /\ None \notin -Ahead .. OldAge /\ Devices # {}

VARIABLES
    perils,
    device,        \* the configured identity
    file,          \* the run_gate section of last-run.json
    holder,        \* the instance lock
    pc, id,        \* each run and the identity it resolved
    stage, buf,    \* how far its update of the file is, and what it will write
    now,           \* the time it took for its check-in or its stamp, as an age
    answer,        \* what it goes by: no cadence, the cached one, a directive
    ran, told      \* per identity, ages of the last full run and of the last
                   \* check-in, if that one had a directive that enables gating
runVars == <<pc, id, stage, buf, now, answer>>
ghosts  == <<ran, told>>
vars    == <<perils, device, file, holder, runVars, ghosts>>

(* Every update of the file lands; told is kept only where that is so.     *)
LandsAlways == perils \intersect {"overlap", "readonly", "crash"} = {}

Identities == Devices \union {Unknown}
Ages    == MinAge .. OldAge
Gate    == [id : Identities \union {None}, last : Ages \union {None}, gating : BOOLEAN,
            fetched : Ages \union {None}]
Empty   == [id |-> None, last |-> None, gating |-> FALSE, fetched |-> None]
Modes   == {"off", "full", "skip"}      \* what a directive may say
Updates == {"beat", "bind", "note", "stamp"}
Steps   == {"asleep", "gate", "ask", "lock", "scan"} \union Updates

Init ==
    /\ perils \in Environments
    /\ device = CHOOSE d \in Devices : TRUE    \* any: they are interchangeable
    /\ file = Empty /\ holder = None
    /\ pc = [w \in Wakeups |-> "asleep"] /\ id = [w \in Wakeups |-> None]
    /\ stage = [w \in Wakeups |-> "read"] /\ buf = [w \in Wakeups |-> Empty]
    /\ now = [w \in Wakeups |-> None] /\ answer = [w \in Wakeups |-> "none"]
    /\ ran = [d \in Identities |-> None] /\ told = ran

-----------------------------------------------------------------------------
(* The clock.                                                              *)
Aged(a, n) == IF a = None THEN None ELSE IF a + n > OldAge THEN OldAge ELSE a + n
GateAged(g, n) == [g EXCEPT !.last = Aged(@, n), !.fetched = Aged(@, n)]

TimeIs(n) ==
    /\ file' = GateAged(file, n)
    /\ buf'  = [w \in Wakeups |-> GateAged(buf[w], n)]
    /\ now'  = [w \in Wakeups |-> Aged(now[w], n)]
    /\ ran'  = [d \in Identities |-> Aged(ran[d], n)]
    /\ told' = [d \in Identities |-> Aged(told[d], n)]
    /\ UNCHANGED <<perils, device, holder, pc, id, stage, answer>>

Tick == TimeIs(1)

(* Only while no stamp would leave the modelled range of ages.             *)
Stamps == {file.last, file.fetched}
          \union {buf[w].last : w \in Wakeups} \union {buf[w].fetched : w \in Wakeups}
          \union {now[w] : w \in Wakeups}
          \union {ran[d] : d \in Identities} \union {told[d] : d \in Identities}
ClockSetBack ==
    /\ "clock" \in perils
    /\ \A a \in Stamps \ {None} : MinAge < a /\ a < OldAge
    /\ TimeIs(-1)

Rename ==
    /\ "rename" \in perils
    /\ \A w \in Wakeups : pc[w] = "asleep"    \* a run reads it once, when it starts
    /\ device' \in Devices \ {device}
    /\ UNCHANGED <<perils, file, holder, runVars, ghosts>>

-----------------------------------------------------------------------------
(* A run.                                                                  *)
Goto(w, step) == pc' = [pc EXCEPT ![w] = step]

(* The process exits: the kernel drops its lock.                           *)
EndHolding(w) ==                                                        \* mutant
    /\ Goto(w, "asleep")
    /\ id' = [id EXCEPT ![w] = None]
    /\ stage' = [stage EXCEPT ![w] = "read"] /\ buf' = [buf EXCEPT ![w] = Empty]
    /\ now' = [now EXCEPT ![w] = None] /\ answer' = [answer EXCEPT ![w] = "none"]
    /\ UNCHANGED holder
End(w) ==
    /\ Goto(w, "asleep")
    /\ id' = [id EXCEPT ![w] = None]
    /\ stage' = [stage EXCEPT ![w] = "read"] /\ buf' = [buf EXCEPT ![w] = Empty]
    /\ now' = [now EXCEPT ![w] = None] /\ answer' = [answer EXCEPT ![w] = "none"]
    /\ holder' = IF holder = w THEN None ELSE holder

Wake(w) ==
    /\ pc[w] = "asleep"
    /\ "overlap" \in perils \/ \A v \in Wakeups : pc[v] = "asleep"
    /\ Goto(w, "beat")
    /\ \E d \in {device} \union (IF "probe" \in perils THEN {Unknown} ELSE {}) :
           id' = [id EXCEPT ![w] = d]
    /\ UNCHANGED <<perils, device, file, holder, stage, buf, now, answer, ghosts>>

(* decideOffline: skip while the last full run is recent, by a cadence     *)
(* that is not stale.                                                      *)
WithinAge(a, limit) == a # None /\ 0 <= a /\ a < limit
DecideUnaged(g) == g.gating /\ WithinAge(g.last, Interval) /\ g.fetched # None  \* mutant
DecideOffline(g) ==
    /\ g.gating
    /\ WithinAge(g.fetched, Staleness)
    /\ WithinAge(g.last, Interval)

(* Without an identity nothing is asked and nothing is recorded.           *)
ReadState(w) ==
    /\ pc[w] = "gate"
    /\ Goto(w, IF id[w] = Unknown THEN "lock"
               ELSE IF id[w] = file.id THEN "ask" ELSE "bind")
    /\ IF id[w] = Unknown THEN UNCHANGED <<answer, now>>
       ELSE /\ answer' = [answer EXCEPT ![w] =
                             IF id[w] = file.id /\ DecideOffline(file) THEN "cached" ELSE "none"]
            /\ now' = [now EXCEPT ![w] = 0]
    /\ UNCHANGED <<perils, device, file, holder, id, stage, buf, ghosts>>

Scan(w, why) ==
    /\ Goto(w, "lock")
    /\ answer' = [answer EXCEPT ![w] = why] /\ now' = [now EXCEPT ![w] = None]
    /\ stage' = [stage EXCEPT ![w] = "read"] /\ buf' = [buf EXCEPT ![w] = Empty]
    /\ UNCHANGED <<holder, id>>

(* The check-in.  The backend says "skip" only of an identity whose last   *)
(* full run is recent.  Any run may turn out to be a forced one, which     *)
(* hears no cadence.                                                       *)
Ask(w) == pc[w] = "ask" /\ UNCHANGED <<perils, device, file, ran>>

AskForced(w) ==
    /\ Ask(w)
    /\ Scan(w, "forced")
    /\ UNCHANGED told

AskSilent(w) ==
    /\ Ask(w) /\ "offline" \in perils
    /\ IF answer[w] = "cached" THEN End(w) ELSE Scan(w, "none")
    /\ UNCHANGED told

AskAnswered(w, mode) ==
    /\ Ask(w)
    /\ mode = "skip" => WithinAge(ran[id[w]], Interval)
    /\ Goto(w, "note") /\ answer' = [answer EXCEPT ![w] = mode]
    /\ told' = [told EXCEPT ![id[w]] =
                   IF mode = "off" \/ ~LandsAlways THEN None ELSE now[w]]
    /\ UNCHANGED <<holder, id, stage, buf, now>>

AcquireByDevice(w) ==                                                   \* mutant
    /\ pc[w] = "lock"
    /\ IF holder = None
       THEN holder' = id[w] /\ Goto(w, "scan") /\ UNCHANGED <<id, stage, buf, now, answer>>
       ELSE End(w)
    /\ UNCHANGED <<perils, device, file, ghosts>>
Acquire(w) ==
    /\ pc[w] = "lock"
    /\ IF holder = None
       THEN holder' = w /\ Goto(w, "scan") /\ UNCHANGED <<id, stage, buf, now, answer>>
       ELSE End(w)
    /\ UNCHANGED <<perils, device, file, ghosts>>

ScanFails(w) == pc[w] = "scan" /\ End(w) /\ UNCHANGED <<perils, device, file, ghosts>>

ScanDone(w) ==
    /\ pc[w] = "scan"
    /\ Goto(w, "stamp")
    /\ now' = [now EXCEPT ![w] = 0] /\ ran' = [ran EXCEPT ![id[w]] = 0]
    /\ UNCHANGED <<perils, device, file, holder, id, stage, buf, answer, told>>

-----------------------------------------------------------------------------
(* Its updates of last-run.json: read and change, remove, replace.         *)

(* Cadence of another identity is discarded before anything is recorded.   *)
BindIdOnly(g, d) == [g EXCEPT !.id = d]                                 \* mutant
Bind(g, d) == IF g.id = d THEN g ELSE [Empty EXCEPT !.id = d]

AppliedBlind(up, g, w) ==                                               \* mutant
    CASE up = "beat"  -> Empty
      [] up = "bind"  -> Bind(g, id[w])
      [] up = "note"  -> [Bind(g, id[w]) EXCEPT !.gating = answer[w] # "off", !.fetched = now[w]]
      [] up = "stamp" -> [Bind(g, id[w]) EXCEPT !.last = now[w]]
Applied(up, g, w) ==
    CASE up = "beat"  -> g
      [] up = "bind"  -> Bind(g, id[w])
      [] up = "note"  -> [Bind(g, id[w]) EXCEPT !.gating = answer[w] # "off", !.fetched = now[w]]
      [] up = "stamp" -> [Bind(g, id[w]) EXCEPT !.last = now[w]]

(* Best-effort: the run goes on whether or not the update landed.          *)
Continue(w, up) ==
    CASE up = "stamp" \/ (up = "note" /\ answer[w] = "skip") -> End(w)
      [] up = "note" /\ answer[w] # "skip" -> Scan(w, "due")
      [] up \in {"beat", "bind"} ->
             /\ Goto(w, IF up = "beat" THEN "gate" ELSE "ask")
             /\ stage' = [stage EXCEPT ![w] = "read"] /\ buf' = [buf EXCEPT ![w] = Empty]
             /\ UNCHANGED <<holder, id, now, answer>>

Step(w, up, from, to) ==
    /\ pc[w] = up /\ stage[w] = from
    /\ stage' = [stage EXCEPT ![w] = to]
    /\ UNCHANGED <<perils, device, pc, holder, id, now, answer, ghosts>>

UpdateRead(w, up) ==
    /\ Step(w, up, "read", "drop")
    /\ buf' = [buf EXCEPT ![w] = Applied(up, file, w)]
    /\ UNCHANGED file

UpdateDrop(w, up) == Step(w, up, "drop", "put") /\ file' = Empty /\ UNCHANGED buf

UpdatePut(w, up) ==
    /\ pc[w] = up /\ stage[w] = "put"
    /\ file' = buf[w] /\ Continue(w, up)
    /\ UNCHANGED <<perils, device, ghosts>>

UpdateFails(w, up) ==
    /\ pc[w] = up /\ stage[w] = "drop" /\ "readonly" \in perils
    /\ Continue(w, up)
    /\ UNCHANGED <<perils, device, file, ghosts>>

Crash(w) ==
    /\ "crash" \in perils /\ pc[w] # "asleep"
    /\ End(w) /\ UNCHANGED <<perils, device, file, ghosts>>

Run(w) ==
    \/ ReadState(w)
    \/ AskForced(w) \/ AskSilent(w) \/ \E mode \in Modes : AskAnswered(w, mode)
    \/ Acquire(w) \/ ScanFails(w) \/ ScanDone(w)
    \/ \E up \in Updates :
           UpdateRead(w, up) \/ UpdateFails(w, up) \/ UpdateDrop(w, up) \/ UpdatePut(w, up)

Next ==
    \/ Tick \/ ClockSetBack \/ Rename
    \/ \E w \in Wakeups : Wake(w) \/ Run(w) \/ Crash(w)

(* The scheduler keeps waking the agent, a run keeps moving, time passes.  *)
Fairness == WF_vars(Tick) /\ \A w \in Wakeups : WF_vars(Run(w)) /\ WF_vars(Wake(w))

Spec == Init /\ [][Next]_vars /\ Fairness

-----------------------------------------------------------------------------
TypeOK ==
    /\ perils \in Environments /\ device \in Devices
    /\ file \in Gate /\ holder \in Wakeups \union {None}
    /\ pc \in [Wakeups -> Steps]
    /\ id \in [Wakeups -> Identities \union {None}]
    /\ stage \in [Wakeups -> {"read", "drop", "put"}] /\ buf \in [Wakeups -> Gate]
    /\ answer \in [Wakeups -> {"none", "cached", "forced", "due"} \union Modes]
    /\ now \in [Wakeups -> Ages \union {None}]
    /\ ran \in [Identities -> Ages \union {None}] /\ told \in [Identities -> Ages \union {None}]

(* A wakeup that decides to skip by the cache skips for an identity that   *)
(* really completed a full run within the interval: never on another       *)
(* identity's cadence, on a lost update's leftovers or on a stamp from the *)
(* future (heartbeat.go, RunGate: "never a wrong skip").  Where every      *)
(* update of the file lands, its last directive enabled gating too, within *)
(* the staleness window.                                                   *)
SkipJustified ==
    [][\A w \in Wakeups : answer[w] # "cached" /\ answer'[w] = "cached" =>
           /\ LandsAlways \/ "clock" \notin perils => WithinAge(ran[id[w]], Interval)
           /\ LandsAlways => WithinAge(told[id[w]], Staleness)]_vars

(* On a device that is only ever offline, an unforced run whose check-in   *)
(* was not answered never scans again within the interval of its last full *)
(* run: the stamp and the cadence survive every later rewrite of the file  *)
(* (heartbeat.Write: the RunGate cache survives).                          *)
CadenceKept ==
    [][\A w \in Wakeups : perils \subseteq {"offline"} /\ pc[w] = "lock" /\ pc'[w] = "scan"
           /\ answer[w] = "none" =>
              ~(WithinAge(ran[id[w]], Interval) /\ WithinAge(told[id[w]], Staleness))]_vars

(* Once runs are no longer killed and the clock no longer set back, scans  *)
(* keep happening: neither the cadence, a stale stamp, a lost update nor   *)
(* the instance lock suppresses them for good (directive.go: every failure *)
(* path fails open; state.go: a stale cache can only delay a scan).        *)
Calm   == <>[][~ClockSetBack /\ \A w \in Wakeups : ~Crash(w)]_vars
Recurs == Calm => []<>(\E w \in Wakeups : pc[w] = "scan")

(* Two wakeups never hold the lock or the file's states at odds, and no    *)
(* scan is left out without cause nor done again too soon.                 *)
GateIsJust == []TypeOK /\ SkipJustified /\ CadenceKept
=============================================================================
