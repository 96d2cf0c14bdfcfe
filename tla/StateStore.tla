----------------------------- MODULE StateStore -----------------------------
(***************************************************************************)
(* device-policy-state.json, the one file in which every policy category   *)
(* records what it wrote on the device (internal/devicepolicy/cache.go and *)
(* statelock*.go), under agent processes that rewrite it at the same time. *)
(* Each rewrite is a read, an edit of one entry and a rename, inside a     *)
(* cross-process lock that is polled for a bounded time.                   *)
(***************************************************************************)
CONSTANTS
    Agents,     \* processes; cacheMu leaves one rewrite at a time in each
    Entries,    \* (category, target) pairs
    Hashes,     \* what an entry may record
    None,
    Locking     \* the file system implements advisory locks

ASSUME StoreAssumption == None \notin Hashes \union Agents /\ Locking \in BOOLEAN

VARIABLES
    file,       \* its readStatus, and the entries its bytes hold
    holder,     \* who has the lock
    pc,         \* where each agent is in its call
    op,         \* the call
    seen,       \* the file as the agent read it
    answer      \* what the agent's latest call returned

vars == <<file, holder, pc, op, seen, answer>>

Nothing == [e \in Entries |-> None]
Absent  == [status |-> "absent", entries |-> Nothing]
Files   == [status : {"readable", "unreadable", "future"},
            entries : [Entries -> Hashes \union {None}] \ {Nothing}]
           \union [status : {"absent", "corrupt"}, entries : {Nothing}]

Ops == [kind : {"write"}, entry : Entries, hash : Hashes]
       \union [kind : {"clear"}, entry : Entries, hash : {None}]
Idle == [kind |-> "none", entry |-> CHOOSE e \in Entries : TRUE, hash |-> None]

Init ==
    /\ file = Absent
    /\ holder = None
    /\ pc = [a \in Agents |-> "idle"]
    /\ op = [a \in Agents |-> Idle]
    /\ seen = [a \in Agents |-> Absent]
    /\ answer = [a \in Agents |-> "none"]

-----------------------------------------------------------------------------
(* The call returns and gives the lock up.                                 *)
Return(a, result) ==
    /\ pc' = [pc EXCEPT ![a] = "idle"]
    /\ op' = [op EXCEPT ![a] = Idle]
    /\ seen' = [seen EXCEPT ![a] = Absent]
    /\ answer' = [answer EXCEPT ![a] = result]
    /\ holder' = IF holder = a THEN None ELSE holder

Call(a, o) ==
    /\ pc[a] = "idle"
    /\ pc' = [pc EXCEPT ![a] = "waiting"]
    /\ op' = [op EXCEPT ![a] = o]
    /\ answer' = [answer EXCEPT ![a] = "none"]
    /\ UNCHANGED <<file, holder, seen>>

(* Where no lock exists the rewrite runs without one.                      *)
Acquire(a) ==
    /\ pc[a] = "waiting"
    /\ Locking => holder = None
    /\ holder' = IF Locking THEN a ELSE holder
    /\ pc' = [pc EXCEPT ![a] = "reading"]
    /\ UNCHANGED <<file, op, seen, answer>>

(* A lock that stays busy for stateLockWait fails the call.                *)
BargeIn(a) ==                                                           \* mutant
    /\ pc[a] = "waiting" /\ holder # None
    /\ pc' = [pc EXCEPT ![a] = "reading"]
    /\ UNCHANGED <<file, holder, op, seen, answer>>
KeepWaiting(a) ==                                                       \* mutant
    /\ pc[a] = "waiting" /\ holder # None
    /\ UNCHANGED vars
GiveUp(a) ==
    /\ pc[a] = "waiting" /\ holder # None
    /\ Return(a, "error")
    /\ UNCHANGED file

ReadAnything(a) ==                                                      \* mutant
    /\ pc[a] = "reading"
    /\ seen' = [seen EXCEPT ![a] = file]
    /\ pc' = [pc EXCEPT ![a] = "replacing"]
    /\ UNCHANGED <<file, holder, op, answer>>
ReadFile(a) ==
    /\ pc[a] = "reading"
    /\ file.status \notin {"unreadable", "future"}
    /\ seen' = [seen EXCEPT ![a] = file]
    /\ pc' = [pc EXCEPT ![a] = "replacing"]
    /\ UNCHANGED <<file, holder, op, answer>>

(* A file that could not be read, or that a newer agent wrote, is refused. *)
Refuse(a) ==
    /\ pc[a] = "reading"
    /\ file.status \in {"unreadable", "future"}
    /\ Return(a, "error")
    /\ UNCHANGED file

(* persistStateFile lands by rename; the last entry takes the file with it,*)
(* and a corrupt file is recreated by a write and removed by a clear.      *)
ReplaceEmptied(a) ==                                                    \* mutant
    /\ pc[a] = "replacing"
    /\ file' = [status |-> "readable", entries |-> [seen[a].entries EXCEPT ![op[a].entry] = op[a].hash]]
    /\ Return(a, "ok")
ReplaceParsed(a) ==                                                     \* mutant
    /\ pc[a] = "replacing"
    /\ LET next == [seen[a].entries EXCEPT ![op[a].entry] = op[a].hash]
       IN  file' = IF next = seen[a].entries THEN file
                   ELSE IF next = Nothing THEN Absent
                   ELSE [status |-> "readable", entries |-> next]
    /\ Return(a, "ok")
Replace(a) ==
    /\ pc[a] = "replacing"
    /\ LET o == op[a]
           next == [seen[a].entries EXCEPT ![o.entry] = o.hash]
       IN  file' = IF o.kind = "clear" /\ seen[a].status = "readable" /\ seen[a].entries[o.entry] = None
                   THEN file
                   ELSE IF next = Nothing THEN Absent
                   ELSE [status |-> "readable", entries |-> next]
    /\ Return(a, "ok")

ReplaceFails(a) ==
    /\ pc[a] = "replacing"
    /\ Return(a, "error")
    /\ UNCHANGED file

(* The system releases the lock of a process that dies.                    *)
Crash(a) ==
    /\ pc[a] # "idle"
    /\ Return(a, "none")
    /\ UNCHANGED file

-----------------------------------------------------------------------------
(* What others do to the file: damage it, take its permissions away and    *)
(* give them back, and rewrite it, under the lock, as a newer agent would. *)
Damage ==
    /\ file' \in {Absent, [status |-> "corrupt", entries |-> Nothing]}
    /\ holder = None /\ \A a \in Agents : pc[a] \notin {"reading", "replacing"}
    /\ UNCHANGED <<holder, pc, op, seen, answer>>

Chmod ==
    /\ \/ file.status = "readable" /\ file' = [file EXCEPT !.status = "unreadable"]
       \/ file.status = "unreadable" /\ file' = [file EXCEPT !.status = "readable"]
    /\ UNCHANGED <<holder, pc, op, seen, answer>>

NewerAgent ==
    /\ holder = None
    /\ \/ file.status = "readable" /\ file' = [file EXCEPT !.status = "future"]
       \/ file.status = "future" /\ file' = [file EXCEPT !.status = "readable"]
    /\ UNCHANGED <<holder, pc, op, seen, answer>>

Step(a) == Acquire(a) \/ GiveUp(a) \/ ReadFile(a) \/ Refuse(a) \/ Replace(a) \/ ReplaceFails(a)

Next ==
    \/ \E a \in Agents : Step(a) \/ Crash(a) \/ \E o \in Ops : Call(a, o)
    \/ Damage \/ Chmod \/ NewerAgent

(* A process keeps running while it has a call to finish.                  *)
Spec == Init /\ [][Next]_vars /\ \A a \in Agents : WF_vars(Step(a))

-----------------------------------------------------------------------------
TypeOK ==
    /\ file \in Files
    /\ holder \in Agents \union {None}
    /\ pc \in [Agents -> {"idle", "waiting", "reading", "replacing"}]
    /\ op \in [Agents -> Ops \union {Idle}]
    /\ seen \in [Agents -> Files]
    /\ answer \in [Agents -> {"none", "ok", "error"}]

(* However the rewrites of the agents interleave, each is one atomic       *)
(* change of its own entry (withStateLock, WriteAppliedState).             *)
Store == INSTANCE OwnershipStore WITH entries <- file.entries
ImplementsStore == Store!Init /\ [][Damage \/ Store!Next]_<<file.entries>>

(* A file of a newer schema is never replaced by one of ours.              *)
FutureKept ==
    [][file.status = "future" /\ file' # file => \A a \in Agents : pc'[a] = pc[a]]_vars

(* A call that reports success has done its work when it returns: the      *)
(* record is there, or it is gone together with any bytes a corrupt file   *)
(* still held.                                                             *)
SuccessIsDone ==
    [][\A a \in Agents : answer[a] = "none" /\ answer'[a] = "ok" =>
          /\ file'.entries[op[a].entry] = op[a].hash
          /\ file'.status # "corrupt"]_vars

(* So a rewrite neither destroys what it must keep nor claims what it did  *)
(* not do.                                                                 *)
RewritesAreHonest == FutureKept /\ SuccessIsDone

(* Nobody waits for ever: a call returns even if the lock never comes free *)
(* for it, as long as no file access blocks.                               *)
Returns == \A a \in Agents : pc[a] # "idle" ~> pc[a] = "idle"
=============================================================================
