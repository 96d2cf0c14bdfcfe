--------------------------- MODULE SettingsProofs ---------------------------
(***************************************************************************)
(* Theorems about SettingsPolicy, for every set of settings, values and    *)
(* policies: the cycle implements PolicyOwnership, strands nothing, accuses*)
(* nobody without cause and names only policies that are in the file.      *)
(***************************************************************************)
EXTENDS SettingsPolicy, TLAPS

USE EnvironmentsAssumption, PoliciesAssumption

-----------------------------------------------------------------------------
(* Every variable keeps its type.                                          *)
Enforcing == pc \in {"read", "stored", "verified", "undoing"}
Clearing  == pc \in {"clearing", "dropping"}

\* What kind of directive a cycle that is past its fetch acts on.
KindInv ==
    /\ Enforcing => job.ep.kind = "enforce"
    /\ Clearing  => job.ep.kind = "clear"

Typed == TypeOK /\ KindInv

Jobs == [ep : Directives, cur : Settings, by : [Keys -> {"user", "agent"}],
         drifted : BOOLEAN, match : BOOLEAN, cause : SUBSET {"user", "fault"}]

LEMMA NoRecordType == NoRecord.settings \in Settings /\ \A k \in Keys : NoRecord.settings[k] = None
BY DEF NoRecord, Settings

LEMMA DirectiveType ==
    ASSUME NEW d \in Directives
    PROVE  /\ d.policy.settings \in Settings
           /\ d.kind = "enforce" => d.policy \in Policies
           /\ d.kind # "enforce" => d.policy = NoRecord
BY NoRecordType DEF Directives, Settings

LEMMA NoJobType == NoJob \in Jobs /\ NoJob.ep = Absent /\ NoJob.cause = {} /\ NoJob.drifted = FALSE
<1>1. Absent \in Directives
  BY DEF Absent, Directives
<1>. QED
  BY <1>1, NoRecordType DEF NoJob, Jobs

LEMMA RecordType ==
    ASSUME TypeOK
    PROVE  record.settings \in Settings
BY NoRecordType DEF TypeOK, Settings

LEMMA FinishTyped ==
    ASSUME Typed, NEW s, NEW h, h # None => s \in {"compliant", "drift_detected"}, Finish(s, h)
    PROVE  /\ pc' = "idle" /\ job' = NoJob /\ job' \in Jobs
           /\ report'.applied # None => report'.state \in {"compliant", "drift_detected"}
BY NoJobType DEF Finish

LEMMA FinishSilentlyTyped ==
    ASSUME Typed, FinishSilently
    PROVE  /\ pc' = "idle" /\ job' = NoJob /\ job' \in Jobs
           /\ report'.applied # None => report'.state \in {"compliant", "drift_detected"}
BY NoJobType DEF FinishSilently, Typed, TypeOK

LEMMA PatchType ==
    ASSUME TypeOK, NEW d \in Settings
    PROVE  Patch(d) \in Settings
BY DirectiveType DEF TypeOK, Patch, Settings

LEMMA TypedInit == Init => Typed
<1>. SUFFICES ASSUME Init PROVE Typed
  OBVIOUS
<1>1. job \in Jobs /\ directive \in Directives
  BY NoJobType DEF Init, Absent, Directives
<1>2. {quiet, managed, broken} \subseteq BOOLEAN
  BY Zenon DEF Init
<1>3. report.applied = None /\ author \in [Keys -> {"user", "agent"}]
  BY DEF Init, NoReport
<1>. QED
  BY <1>1, <1>2, <1>3 DEF Init, Typed, TypeOK, KindInv, Enforcing, Clearing, Jobs

LEMMA TypedStep == Typed /\ [Next]_vars => Typed'
<1>. SUFFICES ASSUME Typed, [Next]_vars PROVE Typed'
  OBVIOUS
<1>. USE DEF Typed, KindInv, Enforcing, Clearing, agentVars, fileVars, envVars
<1>1. ASSUME NEW k \in Keys, NEW v \in Values \union {None}, UserEdits(k, v) PROVE Typed'
  BY <1>1 DEF TypeOK, UserEdits, Settings
<1>2. CASE UserBreaks
  BY <1>2 DEF TypeOK, UserBreaks
<1>3. CASE Administer
  BY <1>3 DEF TypeOK, Administer
<1>4. CASE CalmDown
  BY <1>4 DEF TypeOK, CalmDown
<1>5. CASE \E d \in Directives : Reassign(d)
  BY <1>5 DEF TypeOK, Reassign
<1>6. CASE Crash
  BY <1>6, FinishSilentlyTyped DEF TypeOK, Crash, Jobs
<1>7. CASE Fetch
  <2>1. job' \in Jobs
    BY <1>7, NoJobType DEF TypeOK, Fetch, Jobs
  <2>2. report'.applied = None
    BY <1>7 DEF Fetch, NoReport
  <2>. QED
    BY <1>7, <2>1, <2>2 DEF TypeOK, Fetch, Jobs
<1>8. CASE VerifyMDM
  BY <1>8, FinishTyped, FinishSilentlyTyped DEF TypeOK, VerifyMDM, Jobs
<1>9. CASE NoDirective \/ YieldToMDM \/ ReadFails
  BY <1>9, FinishTyped, FinishSilentlyTyped DEF TypeOK, NoDirective, YieldToMDM, ReadFails, Jobs
<1>10. CASE Read
  BY <1>10 DEF TypeOK, Read, At, Drifted
<1>11. CASE AlreadyApplied \/ WriteRefused
  BY <1>11, FinishTyped DEF TypeOK, AlreadyApplied, WriteRefused, Jobs
<1>12. CASE Apply
  <2>1. disk' \in Settings
    BY <1>12, PatchType DEF TypeOK, Apply
  <2>2. author' \in [Keys -> {"user", "agent"}]
    BY <1>12 DEF TypeOK, Apply
  <2>. QED
    BY <1>12, <2>1, <2>2 DEF TypeOK, Apply, ToWrite
<1>13. CASE Readback
  <2>1. CASE broken
    BY <1>13, <2>1, FinishTyped DEF TypeOK, Readback, Jobs
  <2>2. CASE ~broken
    BY <1>13, <2>2 DEF TypeOK, Readback, Converged
  <2>. QED
    BY <2>1, <2>2
<1>14. CASE Persist
  <2>1. job.ep.policy \in Policies
    BY <1>14, DirectiveType DEF TypeOK, Persist
  <2>. QED
    BY <1>14, <2>1, FinishTyped DEF TypeOK, Persist, Jobs
<1>15. CASE PersistFails
  BY <1>15 DEF TypeOK, PersistFails
<1>16. CASE Restore
  <2>1. disk' \in Settings /\ author' \in [Keys -> {"user", "agent"}]
    BY <1>16 DEF TypeOK, Restore, Settings
  <2>2. cause' \subseteq {"user", "fault"}
    BY <1>16 DEF TypeOK, Restore
  <2>. QED
    BY <1>16, <2>1, <2>2, FinishTyped DEF TypeOK, Restore, Jobs
<1>17. CASE RestoreFails
  BY <1>17, FinishTyped DEF TypeOK, RestoreFails, Jobs
<1>18. CASE ReadToClear
  BY <1>18 DEF TypeOK, ReadToClear, At
<1>19. CASE RemoveOwned
  <2>1. disk' \in Settings /\ author' \in [Keys -> {"user", "agent"}]
    BY <1>19 DEF TypeOK, RemoveOwned, Settings
  <2>. QED
    BY <1>19, <2>1 DEF TypeOK, RemoveOwned
<1>20. CASE RemoveFails \/ DropRecord \/ DropFails
  BY <1>20, FinishSilentlyTyped DEF TypeOK, RemoveFails, DropRecord, DropFails, Jobs
<1>21. CASE UNCHANGED vars
  BY <1>21 DEF TypeOK, vars
<1>. QED
  BY <1>1, <1>2, <1>3, <1>4, <1>5, <1>6, <1>7, <1>8, <1>9, <1>10, <1>11, <1>12, <1>13, <1>14,
     <1>15, <1>16, <1>17, <1>18, <1>19, <1>20, <1>21 DEF Next, Cycle, World

LEMMA AlwaysTyped == Spec => []Typed
BY TypedInit, TypedStep, PTL DEF Spec

-----------------------------------------------------------------------------
(* Without edits in the middle of a cycle, what it read is what it changes.*)
Alone == "race" \notin perils

\* The file and the record in the middle of a cycle that nobody interrupts:
\* what was read still stands, or the patch of the policy has been applied.
QuietInv ==
    Alone =>
        /\ pc = "read" => job.cur = disk /\ job.by = author /\ job.cause = cause
        /\ Enforcing => ~broken
        /\ Writing => /\ disk = Own!Applied(job.ep.policy, record, job.cur)
                      /\ author = Own!AppliedBy(job.ep.policy, record, job.cur, job.by)
        /\ pc = "clearing" => job.cur = disk
        /\ pc = "dropping" => \A k \in Keys : ~Owns(k, disk)

\* The patch is the change PolicyOwnership describes, when the file is as read.
LEMMA PatchIsApplied ==
    ASSUME Typed
    PROVE  /\ Patch(job.cur) = Own!Applied(job.ep.policy, record, job.cur)
           /\ [k \in Keys |-> IF Sets(k) THEN "agent" ELSE IF Removes(k) THEN "user" ELSE job.by[k]]
                = Own!AppliedBy(job.ep.policy, record, job.cur, job.by)
BY DEF Patch, Sets, Removes, Owns, Own!Applied, Own!AppliedBy, Own!Owns

\* Undoing a write puts back every setting the write changed.
LEMMA RestoreUndoes ==
    ASSUME Typed, QuietInv, Alone, Restore
    PROVE  disk' = job.cur /\ author' = job.by
<1>1. /\ disk = Own!Applied(job.ep.policy, record, job.cur)
      /\ author = Own!AppliedBy(job.ep.policy, record, job.cur, job.by)
  BY DEF Restore, QuietInv, Writing
<1>2. job.cur \in Settings /\ job.by \in [Keys -> {"user", "agent"}]
  BY DEF Typed, TypeOK
<1>3. ASSUME NEW k \in Keys PROVE disk'[k] = job.cur[k] /\ author'[k] = job.by[k]
  BY <1>1 DEF Restore, Touched, Sets, Own!Applied, Own!AppliedBy, Own!Owns
<1>4. disk' = [k \in Keys |-> disk'[k]] /\ author' = [k \in Keys |-> author'[k]]
  BY DEF Restore
<1>. QED
  BY <1>2, <1>3, <1>4 DEF Settings

\* Removing what is owned is the release of PolicyOwnership, and leaves nothing owned.
LEMMA RemovalReleases ==
    ASSUME Typed, QuietInv, Alone, RemoveOwned
    PROVE  /\ disk' = Own!Applied(NoRecord, record, disk)
           /\ author' = Own!AppliedBy(NoRecord, record, disk, author)
           /\ \A k \in Keys : ~Own!Owns(record, disk', k)
<1>1. job.ep.policy = NoRecord /\ job.cur = disk
  BY DirectiveType DEF RemoveOwned, QuietInv, Typed, TypeOK, KindInv, Clearing
<1>2. \A k \in Keys : ~Sets(k)
  BY <1>1, NoRecordType DEF Sets
<1>3. \A k \in Keys : Removes(k) <=> Own!Owns(record, disk, k)
  BY <1>1, <1>2 DEF Removes, Owns
<1>4. disk' = Own!Applied(NoRecord, record, disk)
  BY <1>3, NoRecordType DEF RemoveOwned, Own!Applied
<1>5. author' = Own!AppliedBy(NoRecord, record, disk, author)
  BY <1>3, NoRecordType DEF RemoveOwned, Own!AppliedBy
<1>. QED
  BY <1>3, <1>4, <1>5, NoRecordType DEF Own!Applied, Own!Owns

LEMMA QuietStep == Typed /\ QuietInv /\ [Next]_vars => QuietInv'
<1>. SUFFICES ASSUME Typed, QuietInv, [Next]_vars PROVE QuietInv'
  OBVIOUS
<1>. USE DEF Typed, KindInv, Enforcing, Clearing, Writing, agentVars, fileVars, envVars, Alone
<1>0. perils' = perils
  BY DEF Next, Cycle, World, UserEdits, UserBreaks, Administer, CalmDown, Reassign, Crash, Fetch,
         VerifyMDM, NoDirective, YieldToMDM, ReadFails, Read, AlreadyApplied, WriteRefused, Apply,
         Readback, Persist, PersistFails, Restore, RestoreFails, ReadToClear, RemoveOwned,
         RemoveFails, DropRecord, DropFails, vars
<1>. SUFFICES ASSUME Alone PROVE QuietInv'
  BY <1>0 DEF QuietInv
<1>1. CASE pc' = "idle"
  BY <1>1 DEF QuietInv
<1>2. CASE \E k \in Keys, v \in Values \union {None} : UserEdits(k, v)
  BY <1>2 DEF QuietInv, UserEdits, Editable
<1>3. CASE UserBreaks \/ Administer \/ \E d \in Directives : Reassign(d)
  BY <1>3 DEF QuietInv, UserBreaks, Editable, Administer, Reassign
<1>4. CASE CalmDown \/ UNCHANGED vars
  BY <1>4 DEF QuietInv, CalmDown, vars, Owns
<1>5. CASE Fetch
  BY <1>5 DEF QuietInv, Fetch
<1>6. CASE Read
  BY <1>6 DEF QuietInv, Read, TypeOK
<1>7. CASE Apply
  BY <1>7, PatchIsApplied DEF QuietInv, Apply, ToWrite
<1>8. CASE Readback /\ pc' # "idle"
  BY <1>8 DEF QuietInv, Readback, Finish, TypeOK
<1>9. CASE PersistFails
  BY <1>9 DEF QuietInv, PersistFails
<1>10. CASE ReadToClear
  BY <1>10 DEF QuietInv, ReadToClear, TypeOK
<1>11. CASE RemoveOwned
  BY <1>11, RemovalReleases DEF QuietInv, RemoveOwned, Owns
<1>. QED
  BY <1>1, <1>2, <1>3, <1>4, <1>5, <1>6, <1>7, <1>8, <1>9, <1>10, <1>11
     DEF Next, Cycle, World, Crash, VerifyMDM, NoDirective, YieldToMDM, ReadFails, AlreadyApplied,
         WriteRefused, Readback, Persist, Restore, RestoreFails, RemoveFails, DropRecord, DropFails,
         Finish, FinishSilently

-----------------------------------------------------------------------------
(* A file that differs from the record has a reason to.                    *)

\* Without a cause on the books the file is as recorded, and so was the file
\* a cycle read if there was none at that time.
CauseInv ==
    Alone =>
        /\ ~Writing /\ cause = {} => ~Drifted(disk)
        /\ Enforcing /\ job.cause = {} => ~Drifted(job.cur)
        /\ job.drifted => Enforcing /\ Drifted(job.cur)

LEMMA CauseIsDriftCause == CauseInv => DriftHasCause
BY DEF CauseInv, DriftHasCause, Alone

LEMMA CauseStep == Typed /\ QuietInv /\ CauseInv /\ [Next]_vars => CauseInv'
<1>. SUFFICES ASSUME Typed, QuietInv, CauseInv, [Next]_vars PROVE CauseInv'
  OBVIOUS
<1>. USE DEF Typed, KindInv, Enforcing, Clearing, Writing, agentVars, fileVars, envVars, Alone
<1>0. perils' = perils
  BY DEF Next, Cycle, World, UserEdits, UserBreaks, Administer, CalmDown, Reassign, Crash, Fetch,
         VerifyMDM, NoDirective, YieldToMDM, ReadFails, Read, AlreadyApplied, WriteRefused, Apply,
         Readback, Persist, PersistFails, Restore, RestoreFails, ReadToClear, RemoveOwned,
         RemoveFails, DropRecord, DropFails, vars
<1>. SUFFICES ASSUME Alone PROVE CauseInv'
  BY <1>0 DEF CauseInv
<1>a. NoJob.drifted = FALSE
  BY DEF NoJob
<1>2. ASSUME NEW k \in Keys, NEW v \in Values \union {None}, UserEdits(k, v) PROVE CauseInv'
  <2>1. cause' # {} /\ ~Enforcing'
    BY <1>2 DEF UserEdits, Editable
  <2>. QED
    BY <1>2, <2>1 DEF CauseInv, UserEdits, Editable
<1>3. CASE UserBreaks \/ Administer \/ CalmDown \/ UNCHANGED vars
  BY <1>3 DEF CauseInv, UserBreaks, Administer, CalmDown, vars, Drifted
<1>4. CASE \E d \in Directives : Reassign(d)
  BY <1>4 DEF CauseInv, Reassign, Drifted
<1>5. CASE Fetch
  BY <1>5, <1>a DEF CauseInv, Fetch, Drifted, NoJob
<1>6. CASE Read
  BY <1>6 DEF CauseInv, Read, TypeOK, At, Drifted
<1>7. CASE Apply
  BY <1>7 DEF CauseInv, Apply, ToWrite, Drifted
<1>8. CASE Readback
  BY <1>8 DEF CauseInv, QuietInv, Readback, Finish, TypeOK, Drifted
<1>9. CASE Persist
  <2>1. \A k \in Keys : job.ep.policy.settings[k] # None => disk[k] = job.ep.policy.settings[k]
    BY <1>9 DEF QuietInv, Persist, Own!Applied
  <2>2. ~Drifted(disk)'
    BY <1>9, <2>1 DEF Drifted, Persist
  <2>. QED
    BY <1>9, <2>2, <1>a DEF CauseInv, Persist, Finish
<1>10. CASE PersistFails
  BY <1>10 DEF CauseInv, PersistFails, Drifted
<1>11. CASE Restore
  <2>1. disk' = job.cur
    BY <1>11, RestoreUndoes
  <2>2. cause' = {} => job.cause = {}
    BY <1>11 DEF Restore
  <2>. QED
    BY <1>11, <2>1, <2>2, <1>a DEF CauseInv, Restore, Finish, Drifted
<1>12. CASE RestoreFails
  BY <1>12, <1>a DEF CauseInv, RestoreFails, Finish
<1>13. CASE Crash
  BY <1>13, <1>a DEF CauseInv, Crash, FinishSilently, Drifted
<1>14. CASE ReadToClear
  BY <1>14 DEF CauseInv, ReadToClear, At, TypeOK, Drifted
<1>15. CASE RemoveOwned
  BY <1>15 DEF CauseInv, RemoveOwned, Drifted
<1>16. CASE DropRecord
  BY <1>16, <1>a, NoRecordType DEF CauseInv, DropRecord, FinishSilently, Drifted
<1>17. CASE VerifyMDM \/ NoDirective \/ YieldToMDM \/ ReadFails
  BY <1>17, <1>a DEF CauseInv, VerifyMDM, NoDirective, YieldToMDM, ReadFails, At, Finish, FinishSilently, Drifted
<1>18. CASE AlreadyApplied \/ WriteRefused \/ RemoveFails \/ DropFails
  BY <1>18, <1>a DEF CauseInv, AlreadyApplied, WriteRefused, ToWrite, RemoveFails, DropFails, Finish, FinishSilently, Drifted
<1>. QED
  BY <1>2, <1>3, <1>4, <1>5, <1>6, <1>7, <1>8, <1>9, <1>10, <1>11, <1>12, <1>13, <1>14,
     <1>15, <1>16, <1>17, <1>18 DEF Next, Cycle, World

-----------------------------------------------------------------------------
(* The cycle implements PolicyOwnership.                                   *)

\* What an owner of the file sees: a write counts once it is on record.
FileSeen   == IF Writing THEN job.cur ELSE disk
AuthorSeen == IF Writing THEN job.by ELSE author

LEMMA InitialOwnership == Init => Abs!Init
BY DEF Init, Abs!Init, Abs!NoRecord, Abs!Settings, NoRecord, Settings, Writing

LEMMA OwnershipStep ==
    ASSUME Typed, QuietInv, Undisturbed, [Next]_vars
    PROVE  Abs!Next \/ UNCHANGED Abs!vars
<1>. USE DEF Typed, agentVars, fileVars, envVars, Writing, FileSeen, AuthorSeen
<1>1. Alone
  BY DEF Undisturbed, Alone
<1>2. SUFFICES \/ Abs!Next
               \/ FileSeen' = FileSeen /\ AuthorSeen' = AuthorSeen /\ record' = record
  BY DEF Abs!vars
<1>3. ASSUME NEW k \in Keys, NEW v \in Values \union {None}, UserEdits(k, v) PROVE Abs!Next
  <2>1. ~Writing
    BY <1>1, <1>3 DEF UserEdits, Editable, Alone
  <2>2. Abs!Edit(k, v)
    BY <1>3, <2>1 DEF UserEdits, Abs!Edit
  <2>. QED
    BY <2>2 DEF Abs!Next
<1>4. CASE UserBreaks \/ Administer \/ CalmDown \/ \E d \in Directives : Reassign(d)
  BY <1>4 DEF UserBreaks, Administer, CalmDown, Reassign
<1>5. CASE UNCHANGED vars
  BY <1>5 DEF vars
<1>6. CASE Crash \/ RestoreFails
  <2>1. ~MayFail("crash") /\ ~MayFail("undoDown") /\ (pc = "undoing" => ~broken)
    BY <1>1 DEF Undisturbed, MayFail, QuietInv, Enforcing
  <2>. QED
    BY <1>6, <2>1 DEF Crash, RestoreFails
<1>7. CASE Fetch \/ VerifyMDM \/ NoDirective \/ YieldToMDM \/ ReadFails
  BY <1>7 DEF Fetch, VerifyMDM, NoDirective, YieldToMDM, ReadFails, At, Finish, FinishSilently
<1>8. CASE Read \/ AlreadyApplied \/ WriteRefused \/ ReadToClear
  BY <1>8 DEF Read, AlreadyApplied, WriteRefused, ToWrite, ReadToClear, At, Finish, FinishSilently
<1>9. CASE Apply
  BY <1>1, <1>9 DEF Apply, ToWrite, QuietInv
<1>10. CASE Readback
  <2>1. ~broken
    BY <1>1, <1>10 DEF Readback, QuietInv, Enforcing
  <2>2. FileSeen' = FileSeen /\ AuthorSeen' = AuthorSeen
    BY <1>10, <2>1 DEF Readback, TypeOK
  <2>. QED
    BY <1>10, <2>2 DEF Readback
<1>11. CASE Persist
  <2>1. job.ep.policy \in Policies /\ job.ep.policy = record'
    BY <1>11, DirectiveType DEF Persist, TypeOK, KindInv, Enforcing
  <2>2. /\ disk = Own!Applied(job.ep.policy, record, job.cur)
        /\ author = Own!AppliedBy(job.ep.policy, record, job.cur, job.by)
        /\ FileSeen = job.cur /\ AuthorSeen = job.by
    BY <1>1, <1>11 DEF Persist, QuietInv
  <2>3. FileSeen' = disk /\ AuthorSeen' = author
    BY <1>11 DEF Persist, Finish
  <2>4. Abs!Enforce(job.ep.policy)
    BY <2>1, <2>2, <2>3 DEF Abs!Enforce, Abs!Applied, Abs!AppliedBy, Abs!Owns,
                             Own!Applied, Own!AppliedBy, Own!Owns
  <2>. QED
    BY <2>1, <2>4 DEF Abs!Next
<1>12. CASE PersistFails
  BY <1>12 DEF PersistFails
<1>13. CASE Restore
  <2>1. disk' = job.cur /\ author' = job.by
    BY <1>1, <1>13, RestoreUndoes
  <2>. QED
    BY <1>13, <2>1 DEF Restore, Finish
<1>14. CASE RemoveOwned
  <2>1. ~Writing /\ ~Writing' /\ UNCHANGED record
    BY <1>14 DEF RemoveOwned
  <2>2. Abs!Release
    BY <1>1, <1>14, <2>1, RemovalReleases
       DEF Abs!Release, Abs!Applied, Abs!AppliedBy, Abs!Owns, Own!Applied, Own!AppliedBy, Own!Owns,
           Abs!NoRecord, NoRecord
  <2>. QED
    BY <2>2 DEF Abs!Next
<1>15. CASE DropRecord
  <2>1. \A k \in Keys : ~Owns(k, disk)
    BY <1>1, <1>15 DEF DropRecord, QuietInv
  <2>2. Abs!Forget
    BY <1>15, <2>1 DEF DropRecord, FinishSilently, Abs!Forget, Abs!Owns, Own!Owns, Owns,
                       Abs!NoRecord, NoRecord
  <2>. QED
    BY <2>2 DEF Abs!Next
<1>16. CASE RemoveFails \/ DropFails
  BY <1>16 DEF RemoveFails, DropFails, FinishSilently
<1>. QED
  BY <1>2, <1>3, <1>4, <1>5, <1>6, <1>7, <1>8, <1>9, <1>10, <1>11, <1>12, <1>13, <1>14,
     <1>15, <1>16 DEF Next, Cycle, World

-----------------------------------------------------------------------------
(* What the agent put into the file it can take back.                      *)

LEMMA OwnershipKeepsTrack ==
    ASSUME Typed, Abs!NothingStranded, Abs!Next \/ UNCHANGED Abs!vars
    PROVE  Abs!NothingStranded'
<1>. USE DEF Typed, FileSeen, AuthorSeen
<1>1. FileSeen \in Settings /\ AuthorSeen \in [Keys -> {"user", "agent"}]
  BY DEF TypeOK
<1>2. ASSUME NEW k \in Keys, NEW v \in Values \union {None}, Abs!Edit(k, v) PROVE Abs!NothingStranded'
  BY <1>1, <1>2 DEF Abs!Edit, Abs!NothingStranded, Abs!Owns, Settings
<1>3. ASSUME NEW p \in Policies, Abs!Enforce(p) PROVE Abs!NothingStranded'
  BY <1>1, <1>3 DEF Abs!Enforce, Abs!Applied, Abs!AppliedBy, Abs!NothingStranded, Abs!Owns
<1>4. CASE Abs!Release
  BY <1>1, <1>4 DEF Abs!Release, Abs!Applied, Abs!AppliedBy, Abs!NothingStranded, Abs!Owns, Abs!NoRecord
<1>5. CASE Abs!Forget
  BY <1>1, <1>5 DEF Abs!Forget, Abs!NothingStranded, Abs!Owns
<1>6. CASE UNCHANGED Abs!vars
  BY <1>6 DEF Abs!vars, Abs!NothingStranded, Abs!Owns
<1>. QED
  BY <1>2, <1>3, <1>4, <1>5, <1>6 DEF Abs!Next

\* The inductive invariant: types, the file in the middle of a cycle, the
\* causes of a difference, and no value without a record.
OwnershipInv == Typed /\ QuietInv /\ CauseInv /\ NothingStranded

LEMMA OwnershipInit == Init => OwnershipInv
<1>. SUFFICES ASSUME Init PROVE OwnershipInv
  OBVIOUS
<1>1. QuietInv
  BY DEF Init, QuietInv, Enforcing, Writing
<1>2. CauseInv
  BY NoRecordType DEF Init, CauseInv, Writing, Enforcing, Drifted, NoJob
<1>3. NothingStranded
  BY DEF Init, NothingStranded, Abs!NothingStranded, Writing
<1>. QED
  BY <1>1, <1>2, <1>3, TypedInit DEF OwnershipInv

LEMMA OwnershipInductive == OwnershipInv /\ [Next]_vars => OwnershipInv'
<1>. SUFFICES ASSUME OwnershipInv, [Next]_vars PROVE OwnershipInv'
  OBVIOUS
<1>1. Undisturbed' => Undisturbed
  BY DEF Undisturbed, envVars, Next, Cycle, World, UserEdits, UserBreaks, Administer, CalmDown,
         Reassign, Crash, Fetch, VerifyMDM, NoDirective, YieldToMDM, ReadFails, Read, AlreadyApplied,
         WriteRefused, Apply, Readback, Persist, PersistFails, Restore, RestoreFails, ReadToClear,
         RemoveOwned, RemoveFails, DropRecord, DropFails, vars
<1>2. NothingStranded'
  BY <1>1, OwnershipStep, OwnershipKeepsTrack DEF OwnershipInv, NothingStranded
<1>. QED
  BY <1>2, TypedStep, QuietStep, CauseStep DEF OwnershipInv

LEMMA OwnershipAlways == Spec => []OwnershipInv
BY OwnershipInit, OwnershipInductive, PTL DEF Spec

(* The agent accuses nobody of drift without an edit or a failed cycle, and*)
(* every value it left in settings.json is one it has on record, so that a *)
(* clear takes it back (handleClear, enforceManaged, driftedManaged).      *)
THEOREM EverythingHasACause == Spec => []Accountable
<1>1. OwnershipInv => Accountable
  BY CauseIsDriftCause DEF OwnershipInv, Typed, Accountable
<1>. QED
  BY <1>1, OwnershipAlways, PTL

(* The reads, writes, readbacks, records and rollbacks of a cycle amount to*)
(* the atomic take-over, release and forget of PolicyOwnership.            *)
THEOREM CyclesOwnWhatTheyRecord == Spec => ImplementsOwnership
<1>1. OwnershipInv /\ [Next]_vars => [Undisturbed => Abs!Next]_<<Abs!vars>>
  BY OwnershipStep DEF OwnershipInv
<1>. QED
  BY <1>1, InitialOwnership, OwnershipAlways, PTL DEF Spec, ImplementsOwnership

\* The body of AppliedIsApplied.
NamedIsApplied ==
    (report'.applied # None /\ report' # report /\ "race" \notin perils)
       => \E p \in Policies :
            /\ p.hash = report'.applied /\ record' = p
            /\ \A k \in Keys : p.settings[k] # None => disk'[k] = p.settings[k]

LEMMA NamedWhenApplied == OwnershipInv /\ [Next]_vars => [NamedIsApplied]_vars
<1>. SUFFICES ASSUME OwnershipInv, Next, report'.applied # None, report' # report, Alone
             PROVE  \E p \in Policies :
                      /\ p.hash = report'.applied /\ record' = p
                      /\ \A k \in Keys : p.settings[k] # None => disk'[k] = p.settings[k]
  BY DEF NamedIsApplied, Alone
<1>. USE DEF OwnershipInv, Typed, KindInv, Enforcing
<1>. DEFINE p == job.ep.policy
<1>1. AlreadyApplied \/ Persist
  BY DEF Next, Cycle, World, agentVars, UserEdits, UserBreaks, Administer, CalmDown, Reassign, Crash,
         Fetch, VerifyMDM, NoDirective, YieldToMDM, ReadFails, Read, WriteRefused, Apply, Readback,
         PersistFails, Restore, RestoreFails, ReadToClear, RemoveOwned, RemoveFails, DropRecord,
         DropFails, Finish, FinishSilently, NoReport
<1>2. p \in Policies /\ p.hash # None
  BY <1>1, DirectiveType DEF AlreadyApplied, Persist, TypeOK
<1>3. CASE AlreadyApplied
  <2>1. record = p
    BY <1>2, <1>3 DEF AlreadyApplied, TypeOK, NoRecord
  <2>2. \A k \in Keys : p.settings[k] # None => disk[k] = p.settings[k]
    BY <1>3 DEF AlreadyApplied, Converged, OpConverged, Sets, QuietInv
  <2>. QED
    BY <1>2, <1>3, <2>1, <2>2 DEF AlreadyApplied, Finish, fileVars
<1>4. CASE Persist
  <2>1. \A k \in Keys : p.settings[k] # None => disk[k] = p.settings[k]
    BY <1>4 DEF Persist, QuietInv, Writing, Own!Applied
  <2>2. report'.applied = p.hash /\ record' = p /\ disk' = disk
    BY <1>4 DEF Persist, Finish, fileVars
  <2>. QED
    BY <1>2, <2>1, <2>2
<1>. QED
  BY <1>1, <1>3, <1>4

(* A report that names a policy is sent when every setting of that policy  *)
(* is in the file and the record names it (enforceManaged's two ends).     *)
THEOREM ReportsNameWhatIsApplied == Spec => AppliedIsApplied
BY NamedWhenApplied, OwnershipAlways, PTL DEF Spec, AppliedIsApplied, NamedIsApplied
=============================================================================
