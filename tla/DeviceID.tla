------------------------------ MODULE DeviceID ------------------------------
(***************************************************************************)
(* Which identity the runs on one machine report (internal/device/id.go,   *)
(* device.go, serial.go): root's runs probe the hardware and keep a file   *)
(* all can read, other users' runs read that file first, and who finds no  *)
(* source at all mints an identity and agrees on it with those who do so   *)
(* at the same time.  Each run resolves it once and uses it several times. *)
(***************************************************************************)
EXTENDS Naturals, FiniteSets

CONSTANTS
    Roots,      \* processes that run as root
    Users,      \* processes that run as some other user, all as the same one
    Machines,   \* what the machines have, and which processes run there: [goos, serial, fallback, who]
    Mishaps,    \* how often a probe, a read or a write goes wrong, a file is tampered with, a setting changes
    Uses        \* how often one process asks for the identity

(* A Mac's two probes find the same serial; it has no other source. *)
DeviceAssumption ==                                         \* assumed where it is instantiated
    /\ Roots \cap Users = {} /\ Mishaps \in Nat /\ Uses \in Nat \ {0}
    /\ \A m \in Machines :
         /\ m.goos \in {"linux", "darwin", "windows"} /\ m.serial \in BOOLEAN /\ m.fallback \in BOOLEAN
         /\ m.goos = "darwin" => ~m.fallback
         /\ m.who \subseteq Roots \union Users

Procs == Roots \union Users

\* "none" is what no usable identity looks like: a file that is missing or
\* holds a placeholder, a source that has nothing but one, "unknown".
Unknown     == <<"none", 0>>
Serial   == <<"serial", 0>>
Fallback == <<"fallback", 0>>         \* MachineGuid, /etc/machine-id
Planted  == <<"planted", 0>>
Override == <<"configured", 0>>
Minted(n) == <<"minted", n>>

VARIABLES
    machine,    \* its hardware and its system
    shared,     \* machineIDFile
    own,        \* userIDFile
    lastRun,    \* the identity in root's run-gate cache, Unknown when an override
    configured, \* config.DeviceID is set
    minted,     \* how many identities were drawn so far
    proc,       \* per process where it is
    told,       \* per process the usable identities it has reported
    latest,     \* per process the one its last run ended with
    mishaps,
    flawed,     \* some source failed for another reason than the deadline
    tampered    \* somebody else wrote or removed the shared file

ghosts == <<flawed, tampered>>
vars == <<machine, shared, own, lastRun, configured, minted, proc, told, latest, mishaps, ghosts>>
world == <<machine, shared, own, lastRun, configured, minted, mishaps, ghosts>>

Idle == [pc |-> "idle", id |-> Unknown, hardware |-> FALSE, stored |-> Unknown, cached |-> Unknown, expired |-> FALSE, left |-> 0]

Init ==
    /\ machine \in Machines
    /\ shared = Unknown /\ own = Unknown /\ lastRun \in {Unknown, Serial} /\ configured = FALSE
    /\ minted = 0 /\ proc = [p \in Procs |-> Idle]
    /\ told = [p \in Procs |-> {}] /\ latest = [p \in Procs |-> Unknown]
    /\ mishaps = Mishaps /\ flawed = FALSE /\ tampered = FALSE

At(p, pc) == proc[p].pc = pc
Set(p, r) == proc' = [proc EXCEPT ![p] = r]
Goto(p, pc) == Set(p, [proc[p] EXCEPT !.pc = pc])
Got(p, id) == Set(p, [proc[p] EXCEPT !.pc = "use", !.id = id])
Root(p) == p \in Roots
Mishap == mishaps > 0 /\ mishaps' = mishaps - 1
Smooth == UNCHANGED mishaps
Keeps == UNCHANGED <<told, latest>>

Start(p) ==
    /\ At(p, "idle")
    /\ Set(p, [Idle EXCEPT !.pc = "ask", !.left = Uses])
    /\ UNCHANGED world /\ Keeps

(* SerialNumber: the cached identity, else resolveID; only a usable one is *)
(* cached.  Not root, the shared file comes first.                         *)
AskProbing(p) ==                                                        \* mutant
    /\ At(p, "ask")
    /\ IF proc[p].cached # Unknown THEN Got(p, proc[p].cached)
       ELSE Set(p, [proc[p] EXCEPT !.pc = "probe", !.expired = FALSE])
    /\ UNCHANGED world /\ Keeps
AskAgain(p) ==                                                          \* mutant
    /\ At(p, "ask")
    /\ IF ~Root(p) /\ shared # Unknown THEN Got(p, shared) ELSE Set(p, [proc[p] EXCEPT !.pc = "probe", !.expired = FALSE])
    /\ UNCHANGED world /\ Keeps
Ask(p) ==
    /\ At(p, "ask")
    /\ IF proc[p].cached # Unknown THEN Got(p, proc[p].cached)
       ELSE IF ~Root(p) /\ shared # Unknown THEN Got(p, shared)
       ELSE Set(p, [proc[p] EXCEPT !.pc = "probe", !.expired = FALSE])
    /\ UNCHANGED world /\ Keeps

(* probeSerial: the serial, which Linux shows to root alone, else what the *)
(* installation has.  A source may fail by itself, or the deadline fails   *)
(* all that are left.                                                      *)
Readable(p) == machine.serial /\ (machine.goos = "linux" => Root(p))
Probed(serial, fallback) ==
    IF serial THEN Serial ELSE IF fallback THEN Fallback ELSE Unknown

ProbeFinds(p, serial, fallback, expired) ==
    LET id == Probed(serial, fallback)
        clean == serial = Readable(p) /\ fallback = machine.fallback /\ ~expired
    IN  /\ IF clean THEN Smooth ELSE Mishap
        /\ expired => ~serial
        /\ flawed' = (flawed \/ fallback # machine.fallback \/ (serial # Readable(p) /\ ~expired))
        /\ Set(p, [proc[p] EXCEPT !.id = id, !.expired = expired,
                                  !.hardware = serial \/ machine.goos = "darwin",
                                  !.pc = IF id = Unknown THEN "read own" ELSE IF Root(p) THEN "read shared" ELSE "use"])
        /\ UNCHANGED <<machine, shared, own, lastRun, configured, minted, tampered>> /\ Keeps

Probe(p) ==
    /\ At(p, "probe")
    /\ \E serial \in {Readable(p), FALSE}, fallback \in {machine.fallback, FALSE}, expired \in BOOLEAN :
           ProbeFinds(p, serial, fallback, expired)

ReadShared(p) ==
    /\ At(p, "read shared")
    /\ Set(p, [proc[p] EXCEPT !.stored = shared, !.pc = "decide"])
    /\ UNCHANGED world /\ Keeps

(* On Linux the serial is the identity only if root has reported it, or if *)
(* the stored one is neither the installation's nor beyond telling apart.  *)
Kept(p, mid) ==
    LET stored == proc[p].stored
    IN  IF ~(proc[p].hardware /\ machine.goos = "linux") THEN proc[p].id
        ELSE IF stored = Unknown THEN IF lastRun = proc[p].id \/ mid = Unknown THEN proc[p].id ELSE mid
        ELSE IF stored = mid \/ mid = Unknown THEN stored
        ELSE proc[p].id

(* A mutant for the runs: whatever was probed is stored. *)
DecideProbed(p) ==
    /\ At(p, "decide") /\ Smooth
    /\ Set(p, [proc[p] EXCEPT !.pc = "write"])
    /\ UNCHANGED <<machine, shared, own, lastRun, configured, minted, ghosts>> /\ Keeps
Decide(p) ==
    /\ At(p, "decide")
    /\ \E mid \in {IF machine.fallback THEN Fallback ELSE Unknown, Unknown} :
        /\ IF mid # Unknown \/ ~machine.fallback \/ machine.goos # "linux" THEN Smooth /\ UNCHANGED flawed
           ELSE Mishap /\ flawed' = TRUE
        /\ LET id == Kept(p, mid)
           IN  IF proc[p].stored = id THEN Got(p, id)
               ELSE IF proc[p].hardware \/ proc[p].stored = Unknown
                    THEN Set(p, [proc[p] EXCEPT !.id = id, !.pc = "write"])
               ELSE Got(p, proc[p].stored)
    /\ UNCHANGED <<machine, shared, own, lastRun, configured, minted, tampered>> /\ Keeps

(* Best effort: a write that fails changes nothing of the answer. *)
Write(p) ==
    /\ At(p, "write")
    /\ \/ Smooth /\ shared' = proc[p].id
       \/ Mishap /\ UNCHANGED shared
    /\ Goto(p, "use")
    /\ UNCHANGED <<machine, own, lastRun, configured, minted, ghosts>> /\ Keeps

-----------------------------------------------------------------------------
(* generatedID: root's in the shared file, anyone else's in their own.     *)
Stored(p) == IF Root(p) THEN shared ELSE own

(* Mutants for the runs: a deadline is taken for the absence of a source;  *)
(* the file is replaced, whoever created it.                               *)
ReadOwnExpired(p) ==
    /\ At(p, "read own")
    /\ IF Stored(p) # Unknown THEN Got(p, Stored(p)) ELSE Goto(p, "create")
    /\ UNCHANGED world /\ Keeps
ReadOwn(p) ==
    /\ At(p, "read own")
    /\ IF Stored(p) # Unknown THEN Got(p, Stored(p))
       ELSE IF proc[p].expired THEN Got(p, Unknown)
       ELSE Goto(p, "create")
    /\ UNCHANGED world /\ Keeps

Put(p, id) == IF Root(p) THEN shared' = id /\ UNCHANGED own ELSE own' = id /\ UNCHANGED shared

CreateOver(p) ==
    /\ At(p, "create") /\ Smooth
    /\ minted' = minted + 1 /\ Put(p, Minted(minted')) /\ Got(p, Minted(minted'))
    /\ UNCHANGED <<machine, lastRun, configured, ghosts>> /\ Keeps
Create(p) ==
    /\ At(p, "create")
    /\ \/ /\ Smooth /\ Stored(p) = Unknown
          /\ minted' = minted + 1 /\ Put(p, Minted(minted')) /\ Got(p, Minted(minted'))
       \/ /\ Smooth /\ Stored(p) # Unknown /\ Goto(p, "lost race") /\ UNCHANGED <<shared, own, minted>>
       \/ /\ Mishap /\ Got(p, Unknown) /\ UNCHANGED <<shared, own, minted>>
    /\ UNCHANGED <<machine, lastRun, configured, ghosts>> /\ Keeps

LoseRace(p) ==
    /\ At(p, "lost race") /\ Got(p, Stored(p))
    /\ UNCHANGED world /\ Keeps

-----------------------------------------------------------------------------
(* ID: the override, else the identity.  A root run's gate records what it *)
(* reported, without a file system that fails.                             *)
Reported(p) == IF configured THEN Override ELSE proc[p].id

UseConfigured(p) ==                                                     \* mutant
    /\ At(p, "use")
    /\ lastRun' = IF Root(p) /\ Reported(p) # Unknown THEN Reported(p) ELSE lastRun
    /\ Set(p, Idle) /\ latest' = [latest EXCEPT ![p] = proc[p].id]
    /\ UNCHANGED <<machine, shared, own, configured, minted, mishaps, ghosts, told>>
Use(p) ==
    LET last == proc[p].left = 1
    IN
    /\ At(p, "use")
    /\ told' = [told EXCEPT ![p] = IF last THEN {} ELSE @ \union ({proc[p].id} \ {Unknown})]
    /\ lastRun' = IF Root(p) /\ Reported(p) # Unknown THEN (IF configured THEN Unknown ELSE proc[p].id) ELSE lastRun
    /\ Set(p, IF last THEN Idle ELSE [Idle EXCEPT !.cached = proc[p].id, !.pc = "ask", !.left = proc[p].left - 1])
    /\ latest' = [latest EXCEPT ![p] = proc[p].id]
    /\ UNCHANGED <<machine, shared, own, configured, minted, mishaps, ghosts>>

Kill(p) ==
    /\ ~At(p, "idle") /\ Mishap
    /\ Set(p, Idle) /\ told' = [told EXCEPT ![p] = {}]
    /\ UNCHANGED <<machine, shared, own, lastRun, configured, minted, ghosts, latest>>

(* Somebody sets or unsets the override, or writes the shared file.        *)
Configure ==
    /\ Mishap /\ configured' = ~configured
    /\ UNCHANGED <<machine, shared, own, lastRun, minted, proc, told, latest, ghosts>>

Tamper(id) ==
    /\ Mishap /\ shared' = id /\ shared # id /\ tampered' = TRUE
    /\ UNCHANGED <<machine, own, lastRun, configured, minted, proc, told, latest, flawed>>

Step(p) ==
    \/ Start(p) \/ Ask(p) \/ Probe(p) \/ ReadShared(p) \/ Decide(p) \/ Write(p)
    \/ ReadOwn(p) \/ Create(p) \/ LoseRace(p) \/ Use(p)

Next ==
    \/ \E p \in machine.who : Step(p) \/ Kill(p)
    \/ Configure
    \/ \E id \in {Unknown, Planted} : Tamper(id)

(* The scheduler starts runs again and again, as root and as the user. *)
Spec == Init /\ [][Next]_vars /\ \A p \in Procs : WF_vars(p \in machine.who /\ Step(p))

-----------------------------------------------------------------------------
Ids == {Unknown, Serial, Fallback, Planted} \union {Minted(n) : n \in 1 .. minted}
TypeOK ==
    /\ {shared, own, lastRun} \subseteq Ids
    /\ \A p \in Procs : {proc[p].id, proc[p].cached, proc[p].stored, latest[p]} \union told[p] \subseteq Ids

(* The gate, the scan, the enforcers and the hooks of one process use one  *)
(* identity, whatever changes under it (device.go: "once per process, so   *)
(* the run gate, scan, enforcers and hooks can't disagree").               *)
OnePerProcess == \A p \in Procs : At(p, "use") => told[p] \subseteq {proc[p].id}

(* No identity is minted where only the deadline kept a source from        *)
(* answering (id.go: "isn't proof there is no ID").                        *)
Sourced(p) == Readable(p) \/ machine.fallback
NoMintOnTimeout ==
    ~flawed => \A p \in Procs : Sourced(p) => \A id \in told[p] : id[1] # "minted"

(* On a machine without a source, processes that mint at once settle for   *)
(* one identity: what any of them has reported is in its file and will be  *)
(* reported by the next (id.go: "so later runs (and racing processes)      *)
(* agree on it").                                                          *)
MintedIsStored ==
    ~machine.serial /\ ~machine.fallback /\ ~tampered =>
        \A p \in Procs : told[p] \union {latest[p]} \subseteq
            {Unknown, shared} \union (IF Root(p) THEN {} ELSE {own})

(* A run never displaces the identity it has seen in the shared file by a  *)
(* lesser one: the serial by anything, on Linux the installation's by the  *)
(* serial that only root can see, any by a fallback (id.go: "can't flip    *)
(* the identity", "would give the device a second identity").              *)
Settled(id) == id = Serial \/ (machine.goos = "linux" /\ id = Fallback)
NoFlip ==
    [][\A p \in Procs :
         At(p, "write") /\ ~At(p, "write")' /\ shared' # shared /\ shared = proc[p].stored
            => ~Settled(shared) /\ shared'[1] # "minted"]_vars

(* One identity per process, none minted where only the deadline failed,   *)
(* and racing mints agree.                                                 *)
IdentityAgreed == TypeOK /\ OnePerProcess /\ NoMintOnTimeout /\ MintedIsStored

(* When nothing goes wrong any more, all runs end up with one identity,    *)
(* root's and the users'.                                                  *)
OneInTheEnd == <>[](\A p, q \in machine.who : latest[p] = latest[q])
=============================================================================
