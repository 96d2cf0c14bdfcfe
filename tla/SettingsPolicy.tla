--------------------------- MODULE SettingsPolicy ---------------------------
(***************************************************************************)
(* One agent enforcing the IDE-extension policy on the user's settings.json*)
(* (internal/devicepolicy: Reconciler with the managed settings writer).   *)
(* Each cycle fetches the policy and then reads, writes, reads back and    *)
(* records in separate steps; the user edits the file, the agent may be    *)
(* killed, and the file or the record may refuse a write.                  *)
(***************************************************************************)
CONSTANTS
    Keys, Values, None,
    Policies,       \* the settings maps the backend compiles
    Environments    \* sets of perils, one of which a behaviour lives in

Perils == {
    "stateDown",    \* the ownership record may refuse to be written
    "writeDown",    \* settings.json may refuse to be written
    "undoDown",     \* settings.json may refuse the rollback of a write
    "crash",        \* the agent may be killed in a cycle
    "race"}         \* the user may save the file in the middle of a cycle

ASSUME EnvironmentsAssumption == Environments \subseteq SUBSET Perils
ASSUME PoliciesAssumption ==
    /\ None \notin Values
    /\ \A p \in Policies : p.settings \in [Keys -> Values \union {None}] /\ p.hash # None
    /\ \A p, q \in Policies : p.hash = q.hash => p = q    \* "the backend's content hash", cache.go:72

VARIABLES
    perils, quiet,  \* what may go wrong, and that nothing does any more
    directive,      \* what run-config asks for
    managed,        \* an OS-level policy governs the editor
    broken,         \* settings.json is not parseable JSONC
    disk, author,   \* the managed settings in it, and who set them
    record,         \* the entry of device-policy-state.json
    pc, job,        \* the cycle in progress and its local variables
    report,         \* the compliance report of the latest cycle
    cause           \* why the file may differ from the record

agentVars == <<pc, job, report>>
fileVars  == <<disk, author>>
envVars   == <<perils, quiet, directive, managed, broken>>
vars      == <<envVars, fileVars, record, agentVars, cause>>

Settings == [Keys -> Values \union {None}]
NoRecord == [hash |-> None, settings |-> [k \in Keys |-> None]]
NoReport == [state |-> "none", applied |-> None]

Directives ==
    [channel : {"dmg", "mdm"}, kind : {"enforce"}, policy : Policies]
    \union [channel : {"dmg", "mdm"}, kind : {"absent", "clear"}, policy : {NoRecord}]

Absent == [channel |-> "dmg", kind |-> "absent", policy |-> NoRecord]
NoJob  == [ep |-> Absent, cur |-> NoRecord.settings, by |-> [k \in Keys |-> "user"],
           drifted |-> FALSE, match |-> FALSE, cause |-> {}]

Own == INSTANCE PolicyOwnership
Owns(k, d) == Own!Owns(record, d, k)

MayFail(peril) == peril \in perils /\ ~quiet

Init ==
    /\ perils \in Environments /\ quiet = FALSE
    /\ directive = Absent /\ managed = FALSE /\ broken = FALSE
    /\ disk \in Settings /\ author = [k \in Keys |-> "user"]
    /\ record = NoRecord /\ cause = {}
    /\ pc = "idle" /\ job = NoJob /\ report = NoReport

-----------------------------------------------------------------------------
(* The user, the backend and the administrator.                            *)
Editable == ~quiet /\ (pc = "idle" \/ "race" \in perils)

UserEdits(k, v) ==
    /\ Editable /\ ~broken /\ disk[k] # v
    /\ disk' = [disk EXCEPT ![k] = v]
    /\ author' = [author EXCEPT ![k] = "user"]
    /\ cause' = cause \union {"user"}
    /\ UNCHANGED <<envVars, record, agentVars>>

UserBreaks ==
    /\ Editable
    /\ broken' = ~broken
    /\ UNCHANGED <<perils, quiet, directive, managed, fileVars, record, agentVars, cause>>

Reassign(d) ==
    /\ ~quiet /\ pc = "idle" /\ d # directive
    /\ directive' = d
    /\ UNCHANGED <<perils, quiet, managed, broken, fileVars, record, agentVars, cause>>

Administer ==
    /\ ~quiet /\ pc = "idle"
    /\ managed' = ~managed
    /\ UNCHANGED <<perils, quiet, directive, broken, fileVars, record, agentVars, cause>>

CalmDown ==
    /\ ~quiet
    /\ quiet' = TRUE
    /\ UNCHANGED <<perils, directive, managed, broken, fileVars, record, agentVars, cause>>

-----------------------------------------------------------------------------
(* Ends of a cycle.                                                        *)
Finish(state, hash) ==
    /\ pc' = "idle" /\ job' = NoJob
    /\ report' = [state |-> state, applied |-> hash]
FinishSilently == pc' = "idle" /\ job' = NoJob /\ UNCHANGED report

Fetch ==
    /\ pc = "idle"
    /\ pc' = "fetched"
    /\ job' = [NoJob EXCEPT !.ep = directive]
    /\ report' = NoReport
    /\ UNCHANGED <<envVars, fileVars, record, cause>>

At(step, kind) == pc = step /\ job.ep.channel = "dmg" /\ job.ep.kind = kind

(* The mdm channel is verify-only: an active policy is probed and reported.*)
VerifyMDM ==
    /\ pc = "fetched" /\ job.ep.channel = "mdm"
    /\ IF job.ep.kind # "enforce" THEN FinishSilently
       ELSE \/ Finish(IF managed THEN "mdm_managed" ELSE "policy_not_applied", None)
            \/ ~quiet /\ Finish("verification_failed", None)
    /\ UNCHANGED <<envVars, fileVars, record, cause>>

NoDirective ==
    /\ At("fetched", "absent")
    /\ FinishSilently
    /\ UNCHANGED <<envVars, fileVars, record, cause>>

YieldToMDM ==
    /\ At("fetched", "enforce") /\ managed
    /\ Finish("mdm_managed", None)
    /\ UNCHANGED <<envVars, fileVars, record, cause>>

ReadFails ==
    /\ broken
    /\ \/ At("fetched", "enforce") /\ ~managed /\ Finish("verification_failed", None)
       \/ At("fetched", "clear") /\ FinishSilently
    /\ UNCHANGED <<envVars, fileVars, record, cause>>

-----------------------------------------------------------------------------
(* enforceManaged.                                                         *)
Sets(k)    == job.ep.policy.settings[k] # None
Removes(k) == ~Sets(k) /\ Owns(k, job.cur)

OpConverged(k, d) ==
    /\ Sets(k) => d[k] = job.ep.policy.settings[k]
    /\ Removes(k) => d[k] = None
ConvergedByHash(d) == record.hash = job.ep.policy.hash                  \* mutant
Converged(d) == \A k \in Keys : OpConverged(k, d)

DriftedFromPolicy(d) ==                                                 \* mutant
    record # NoRecord /\ \E k \in Keys : d[k] # record.settings[k]
Drifted(d) == \E k \in Keys : record.settings[k] # None /\ d[k] # record.settings[k]

Read ==
    /\ At("fetched", "enforce") /\ ~managed /\ ~broken
    /\ pc' = "read"
    /\ job' = [job EXCEPT !.cur = disk, !.by = author, !.cause = cause, !.drifted = Drifted(disk)]
    /\ UNCHANGED <<envVars, fileVars, record, report, cause>>

AlreadyApplied ==
    /\ pc = "read" /\ Converged(job.cur) /\ record.hash = job.ep.policy.hash
    /\ Finish("compliant", job.ep.policy.hash)
    /\ UNCHANGED <<envVars, fileVars, record, cause>>

ToWrite == pc = "read" /\ ~(Converged(job.cur) /\ record.hash = job.ep.policy.hash)

(* Nothing is written when the record could not follow (the preflight).    *)
WriteRefused ==
    /\ ToWrite
    /\ MayFail("stateDown") \/ MayFail("writeDown") \/ broken
    /\ Finish("write_failed", None)
    /\ UNCHANGED <<envVars, fileVars, record, cause>>

(* The patch loads the file again, and says by key what to set and remove. *)
PatchOnlySets(d) ==                                                     \* mutant
    [k \in Keys |-> IF Sets(k) THEN job.ep.policy.settings[k] ELSE d[k]]
PatchAll(d) == job.ep.policy.settings                                   \* mutant
Patch(d) == [k \in Keys |-> IF Sets(k) THEN job.ep.policy.settings[k]
                            ELSE IF Removes(k) THEN None ELSE d[k]]

Apply ==
    /\ ToWrite /\ ~broken
    /\ disk' = Patch(disk)
    /\ author' = [k \in Keys |-> IF Sets(k) THEN "agent"
                                 ELSE IF Removes(k) THEN "user" ELSE author[k]]
    /\ pc' = "stored" /\ cause' = {}
    /\ UNCHANGED <<envVars, record, job, report>>

Readback ==
    /\ pc = "stored"
    /\ IF broken THEN Finish("write_failed", None)
       ELSE /\ pc' = "verified" /\ UNCHANGED report
            /\ job' = [job EXCEPT !.match = Converged(disk)]
    /\ UNCHANGED <<envVars, fileVars, record, cause>>

PersistEchoing ==                                                       \* mutant
    /\ pc = "verified"
    /\ record' = job.ep.policy
    /\ Finish(IF ~job.match THEN "policy_not_applied"
              ELSE IF job.drifted THEN "drift_detected" ELSE "compliant", job.ep.policy.hash)
    /\ UNCHANGED <<envVars, fileVars, cause>>
Persist ==
    /\ pc = "verified"
    /\ record' = job.ep.policy
    /\ IF job.match
       THEN Finish(IF job.drifted THEN "drift_detected" ELSE "compliant", job.ep.policy.hash)
       ELSE Finish("policy_not_applied", None)
    /\ UNCHANGED <<envVars, fileVars, cause>>

PersistIgnored ==                                                       \* mutant
    /\ pc = "verified" /\ MayFail("stateDown")
    /\ Finish("write_failed", None)
    /\ UNCHANGED <<envVars, fileVars, record, cause>>
PersistFails ==
    /\ pc = "verified" /\ MayFail("stateDown")
    /\ pc' = "undoing"
    /\ UNCHANGED <<envVars, fileVars, record, job, report, cause>>

(* Every key the cycle read is put back, in one write.                     *)
Touched(k) == Sets(k) \/ record.settings[k] # None

Restore ==
    /\ pc = "undoing" /\ ~broken
    /\ disk'   = [k \in Keys |-> IF Touched(k) THEN job.cur[k] ELSE disk[k]]
    /\ author' = [k \in Keys |-> IF Touched(k) THEN job.by[k] ELSE author[k]]
    /\ cause' = cause \union job.cause
    /\ Finish("write_failed", None)
    /\ UNCHANGED <<envVars, record>>

RestoreFails ==
    /\ pc = "undoing" /\ (MayFail("undoDown") \/ broken)
    /\ Finish("verification_failed", None)
    /\ cause' = cause \union {"fault"}
    /\ UNCHANGED <<envVars, fileVars, record>>

-----------------------------------------------------------------------------
(* clearManaged.                                                           *)
ReadToClear ==
    /\ At("fetched", "clear") /\ ~broken
    /\ pc' = "clearing"
    /\ job' = [job EXCEPT !.cur = disk]
    /\ UNCHANGED <<envVars, fileVars, record, report, cause>>

RemoveRecorded ==                                                       \* mutant
    /\ pc = "clearing" /\ (broken => record = NoRecord)
    /\ disk' = [k \in Keys |-> IF record.settings[k] # None THEN None ELSE disk[k]]
    /\ author' = [k \in Keys |-> IF disk'[k] = None THEN "user" ELSE author[k]]
    /\ pc' = "dropping"
    /\ UNCHANGED <<envVars, record, job, report, cause>>
RemoveOwned ==
    /\ pc = "clearing" /\ (broken => \A k \in Keys : ~Removes(k))
    /\ disk' = [k \in Keys |-> IF Removes(k) THEN None ELSE disk[k]]
    /\ author' = [k \in Keys |-> IF Removes(k) THEN "user" ELSE author[k]]
    /\ cause' = IF disk' = disk THEN cause ELSE cause \union {"fault"}
    /\ pc' = "dropping"
    /\ UNCHANGED <<envVars, record, job, report>>

RemoveFailsUnnoticed ==                                                 \* mutant
    /\ pc = "clearing" /\ (broken \/ MayFail("writeDown")) /\ \E k \in Keys : Removes(k)
    /\ pc' = "dropping"
    /\ UNCHANGED <<envVars, fileVars, record, job, report, cause>>
RemoveFails ==
    /\ pc = "clearing" /\ (broken \/ MayFail("writeDown")) /\ \E k \in Keys : Removes(k)
    /\ FinishSilently
    /\ UNCHANGED <<envVars, fileVars, record, cause>>

KeepRecord ==                                                           \* mutant
    /\ pc = "dropping"
    /\ FinishSilently
    /\ UNCHANGED <<envVars, fileVars, record, cause>>
DropRecord ==
    /\ pc = "dropping"
    /\ record' = NoRecord /\ cause' = {}
    /\ FinishSilently
    /\ UNCHANGED <<envVars, fileVars>>

DropFails ==
    /\ pc = "dropping" /\ record # NoRecord /\ MayFail("stateDown")
    /\ FinishSilently
    /\ UNCHANGED <<envVars, fileVars, record, cause>>

-----------------------------------------------------------------------------
Crash ==
    /\ pc # "idle" /\ MayFail("crash")
    /\ FinishSilently
    /\ cause' = IF pc \in {"stored", "verified", "undoing"} THEN cause \union {"fault"} ELSE cause
    /\ UNCHANGED <<envVars, fileVars, record>>

Cycle ==
    \/ Fetch \/ VerifyMDM \/ NoDirective \/ YieldToMDM \/ ReadFails
    \/ Read \/ AlreadyApplied \/ WriteRefused \/ Apply \/ Readback
    \/ Persist \/ PersistFails \/ Restore \/ RestoreFails
    \/ ReadToClear \/ RemoveOwned \/ RemoveFails \/ DropRecord \/ DropFails

World ==
    \/ \E k \in Keys, v \in Values \union {None} : UserEdits(k, v)
    \/ UserBreaks \/ Administer \/ CalmDown \/ Crash
    \/ \E d \in Directives : Reassign(d)

Next == Cycle \/ World

(* The scheduler runs a cycle again and again, and once nothing fails any  *)
(* more every cycle that started runs to its end.                          *)
Spec == Init /\ [][Next]_vars /\ WF_vars(Cycle)

-----------------------------------------------------------------------------
TypeOK ==
    /\ perils \in Environments /\ {quiet, managed, broken} \subseteq BOOLEAN
    /\ directive \in Directives /\ disk \in Settings /\ author \in [Keys -> {"user", "agent"}]
    /\ record \in Policies \union {NoRecord} /\ cause \subseteq {"user", "fault"}
    /\ pc \in {"idle", "fetched", "read", "stored", "verified", "undoing", "clearing", "dropping"}
    /\ job \in [ep : Directives, cur : Settings, by : [Keys -> {"user", "agent"}],
                drifted : BOOLEAN, match : BOOLEAN, cause : SUBSET {"user", "fault"}]
    /\ pc = "idle" => job = NoJob
    /\ report.applied # None => report.state \in {"compliant", "drift_detected"}

(* Until the record follows it a write can still be taken back, so the     *)
(* file is seen as it was before: settings and record change together.     *)
Writing == pc \in {"stored", "verified", "undoing"}
Abs == INSTANCE PolicyOwnership WITH
    disk   <- IF Writing THEN job.cur ELSE disk,
    author <- IF Writing THEN job.by ELSE author

(* The window between a write and its record is where a kill, a failed     *)
(* rollback or the user's own save can part the two.                       *)
Undisturbed == perils \intersect {"crash", "undoDown", "race"} = {}

(* Enforcement of the settings, with its partial failures and rollbacks,   *)
(* implements PolicyOwnership: the agent takes over and records in one go, *)
(* removes only recorded values, and forgets only what it has given back   *)
(* (the contract of handleClear and enforceManaged).                       *)
ImplementsOwnership == Abs!Init /\ [][Undisturbed => Abs!Next]_<<Abs!vars>>

(* Every value the agent left in the user's file is one it has on record,  *)
(* so that a clear takes it back: nothing is stranded ("An enforced value  *)
(* with no ownership record is orphaned", enforceSingle).                  *)
NothingStranded == Undisturbed => Abs!NothingStranded

(* A report that names an applied policy is true when it is sent: every    *)
(* setting of that policy is in the file, and the record says so.          *)
AppliedIsApplied ==
    [][(report'.applied # None /\ report' # report /\ "race" \notin perils)
       => \E p \in Policies :
            /\ p.hash = report'.applied /\ record' = p
            /\ \A k \in Keys : p.settings[k] # None => disk'[k] = p.settings[k]]_vars

(* drift_detected accuses the user of having changed an enforced setting;  *)
(* it is not said of a file nobody touched and no failed cycle left behind.*)
DriftHasCause == job.drifted /\ "race" \notin perils => job.cause # {}

(* Once nothing changes and nothing fails, the cycles reach what the       *)
(* backend asked for and stay there, whatever failed or was killed before: *)
(* the policy in the file and on record, or after a clear nothing on       *)
(* record and, unless a write was torn before, nothing of the agent's left.*)
Settled ==
    LET asks(kind) == directive.channel = "dmg" /\ directive.kind = kind
        p == directive.policy
    IN  /\ asks("enforce") /\ ~managed /\ ~broken
             => /\ \A k \in Keys : p.settings[k] # None => disk[k] = p.settings[k]
                /\ record = p
        /\ asks("clear") /\ ~broken
             => /\ record = NoRecord
                /\ Undisturbed => \A k \in Keys : author[k] = "user"
Settles == quiet ~> []Settled

(* What the agent says of the settings and what it leaves in them has a    *)
(* cause: no drift without an edit, no value without a record.             *)
Accountable == TypeOK /\ DriftHasCause /\ NothingStranded
=============================================================================
