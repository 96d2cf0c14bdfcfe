----------------------------- MODULE LogCapture -----------------------------
(***************************************************************************)
(* The capture of stderr during a run (internal/telemetry/logcapture.go):  *)
(* what is logged goes into a pipe, a tee goroutine copies it to a ring    *)
(* of bounded size and to the stderr there was before.  Sync sends a       *)
(* marker down the pipe and waits, for a bounded time, until the tee has   *)
(* met it; Finalize closes the pipe and waits for the tee.                 *)
(***************************************************************************)
EXTENDS Integers, SequencesExt

CONSTANTS
    Logs,       \* how much is logged
    Syncs,      \* how often Sync is called
    RingSize,   \* captureRingCapacity
    PipeSize,   \* what the pipe holds before a writer blocks
    ErrSize     \* what the old stderr takes before the tee blocks

CaptureAssumption == {Logs, Syncs, RingSize, PipeSize, ErrSize} \subseteq Nat /\ RingSize > 0

\* A byte of the log is its number, the marker three bytes no log contains.
Marker   == <<-1, -2, -3>>
Keep     == Len(Marker) - 1
IsLog(b) == b > 0

VARIABLES
    logged,     \* how much was logged while the pipe was open
    pipe,       \* what is in the pipe
    open,       \* its write end is open
    tee,        \* the tee goroutine: [pc, data, out, acks, carry, eof]
    ring,       \* [data, start, size, full]
    echoed,     \* how much the old stderr has got, and how much of it waits there
    ack,        \* syncCh holds a signal
    main,       \* the goroutine that calls Sync and Finalize: [pc, syncs]
    seen,       \* what was logged when that goroutine called Sync
    stale,      \* a marker of an earlier Sync is still on its way
    result      \* what Finalize returned

vars == <<logged, pipe, open, tee, ring, echoed, ack, main, seen, stale, result>>

EmptyRing == [data |-> [i \in 0 .. (RingSize - 1) |-> 0], start |-> 0, size |-> 0, full |-> FALSE]
Reading(carry) == [pc |-> "reading", data |-> <<>>, acks |-> FALSE, carry |-> carry]

Init ==
    /\ logged = 0 /\ pipe = <<>> /\ open = TRUE
    /\ tee = Reading(<<>>) /\ ring = EmptyRing /\ echoed = [all |-> <<>>, waiting |-> 0]
    /\ ack = FALSE /\ main = [pc |-> "running", syncs |-> 0]
    /\ seen = 0 /\ stale = FALSE /\ result = <<>>

-----------------------------------------------------------------------------
(* ringBuffer.Write, byte by byte, of what fits; Bytes, oldest first.      *)
PutByte(r, b) ==
    IF ~r.full
    THEN [r EXCEPT !.data[r.size] = b, !.size = @ + 1, !.full = r.size + 1 = RingSize]
    ELSE [r EXCEPT !.data[r.start] = b, !.start = (@ + 1) % RingSize]

LastOf(s, n) == SubSeq(s, (IF Len(s) > n THEN Len(s) - n ELSE 0) + 1, Len(s))
RingWrite(r, s) == FoldLeft(PutByte, r, LastOf(s, RingSize))

Bytes(r) ==
    IF ~r.full THEN [i \in 1 .. r.size |-> r.data[i - 1]]
    ELSE [i \in 1 .. RingSize |-> r.data[(r.start + i - 1) % RingSize]]

(* teeWrite: into the ring, then to the old stderr, where it may block.    *)
TeeWrite(s, acks, rest, carry) ==
    /\ ring' = RingWrite(ring, s)
    /\ echoed' = [echoed EXCEPT !.all = @ \o s, !.waiting = @ + Len(s)]
    /\ tee' = [pc |-> "writing", data |-> rest, acks |-> acks, carry |-> carry]

ReadForgetting ==                                                       \* mutant
    /\ tee.pc = "reading" /\ pipe # <<>>
    /\ \E n \in 1 .. Len(pipe) :
        /\ tee' = [tee EXCEPT !.pc = "looking", !.data = SubSeq(pipe, 1, n), !.carry = <<>>]
        /\ pipe' = SubSeq(pipe, n + 1, Len(pipe))
    /\ UNCHANGED <<logged, open, ring, echoed, ack, main, seen, stale, result>>
Read ==
    /\ tee.pc = "reading" /\ pipe # <<>>
    /\ \E n \in 1 .. Len(pipe) :
        /\ tee' = [tee EXCEPT !.pc = "looking", !.data = tee.carry \o SubSeq(pipe, 1, n), !.carry = <<>>]
        /\ pipe' = SubSeq(pipe, n + 1, Len(pipe))
    /\ UNCHANGED <<logged, open, ring, echoed, ack, main, seen, stale, result>>

FoundAt(s) == {i \in 1 .. (Len(s) - Keep) : SubSeq(s, i, i + Keep) = Marker}

(* What precedes a marker is written before the marker is acknowledged;    *)
(* without one the last bytes stay back, for they may be the beginning of  *)
(* one.                                                                    *)
Look ==
    /\ tee.pc = "looking"
    /\ LET d == tee.data
           n == IF Len(d) > Keep THEN Len(d) - Keep ELSE 0
       IN  IF FoundAt(d) = {} THEN TeeWrite(SubSeq(d, 1, n), FALSE, <<>>, SubSeq(d, n + 1, Len(d)))
           ELSE LET i == CHOOSE i \in FoundAt(d) : \A j \in FoundAt(d) : i <= j
                IN  TeeWrite(SubSeq(d, 1, i - 1), TRUE, SubSeq(d, i + Keep + 1, Len(d)), <<>>)
    /\ UNCHANGED <<logged, pipe, open, ack, main, seen, stale, result>>

(* The old stderr has taken it.  A signal that is still there suffices.    *)
Written ==
    /\ tee.pc = "writing" /\ echoed.waiting <= ErrSize
    /\ ack' = (ack \/ tee.acks)
    /\ tee' = IF tee.acks THEN [tee EXCEPT !.pc = "looking", !.acks = FALSE] ELSE Reading(tee.carry)
    /\ UNCHANGED <<logged, pipe, open, ring, echoed, main, seen, stale, result>>

(* The end of the pipe: what was held back is written too. *)
EndDropping ==                                                          \* mutant
    /\ tee.pc = "reading" /\ pipe = <<>> /\ ~open
    /\ tee' = [tee EXCEPT !.pc = "done"]
    /\ UNCHANGED <<logged, pipe, open, ring, echoed, ack, main, seen, stale, result>>
End ==
    /\ tee.pc = "reading" /\ pipe = <<>> /\ ~open
    /\ ring' = RingWrite(ring, tee.carry)
    /\ echoed' = [echoed EXCEPT !.all = @ \o tee.carry, !.waiting = @ + Len(tee.carry)]
    /\ tee' = [tee EXCEPT !.pc = "closing", !.carry = <<>>]
    /\ UNCHANGED <<logged, pipe, open, ack, main, seen, stale, result>>
Ended ==
    /\ tee.pc = "closing" /\ echoed.waiting <= ErrSize
    /\ tee' = [tee EXCEPT !.pc = "done"]
    /\ UNCHANGED <<logged, pipe, open, ring, echoed, ack, main, seen, stale, result>>

-----------------------------------------------------------------------------
(* Somebody logs; a full pipe makes them wait. *)
Log ==
    /\ open /\ logged < Logs /\ Len(pipe) < PipeSize
    /\ logged' = logged + 1 /\ pipe' = Append(pipe, logged + 1)
    /\ UNCHANGED <<open, tee, ring, echoed, ack, main, seen, stale, result>>

(* Sync: drop the signal an earlier call left, then the marker, then wait. *)
Pending == \E i \in DOMAIN (tee.carry \o tee.data \o pipe) : ~IsLog((tee.carry \o tee.data \o pipe)[i])

SyncKeeping ==                                                          \* mutant
    /\ main.pc = "running" /\ main.syncs < Syncs
    /\ main' = [pc |-> "marking", syncs |-> main.syncs + 1]
    /\ seen' = logged /\ stale' = (Pending \/ tee.acks)
    /\ UNCHANGED <<logged, pipe, open, tee, ring, echoed, ack, result>>
Sync ==
    /\ main.pc = "running" /\ main.syncs < Syncs
    /\ main' = [pc |-> "marking", syncs |-> main.syncs + 1]
    /\ ack' = FALSE /\ seen' = logged /\ stale' = (Pending \/ tee.acks)
    /\ UNCHANGED <<logged, pipe, open, tee, ring, echoed, result>>

Mark ==
    /\ main.pc = "marking" /\ Len(pipe) < PipeSize
    /\ pipe' = pipe \o Marker
    /\ main' = [main EXCEPT !.pc = "waiting"]
    /\ UNCHANGED <<logged, open, tee, ring, echoed, ack, seen, stale, result>>

Synced ==
    /\ main.pc = "waiting" /\ ack /\ ack' = FALSE
    /\ main' = [main EXCEPT !.pc = "synced"]
    /\ UNCHANGED <<logged, pipe, open, tee, ring, echoed, seen, stale, result>>

NeverTimesOut == FALSE                                                  \* mutant
TimedOut ==
    /\ main.pc = "waiting"
    /\ main' = [main EXCEPT !.pc = "running"]
    /\ UNCHANGED <<logged, pipe, open, tee, ring, echoed, ack, seen, stale, result>>

(* SnapshotBase64 after the Sync. *)
Snapshot ==
    /\ main.pc = "synced"
    /\ main' = [main EXCEPT !.pc = "running"]
    /\ UNCHANGED <<logged, pipe, open, tee, ring, echoed, ack, seen, stale, result>>

Finalize ==
    /\ main.pc = "running"
    /\ open' = FALSE /\ main' = [main EXCEPT !.pc = "finalizing"]
    /\ UNCHANGED <<logged, pipe, tee, ring, echoed, ack, seen, stale, result>>

Finalized ==
    /\ main.pc = "finalizing" /\ tee.pc = "done"
    /\ result' = Bytes(ring) /\ main' = [main EXCEPT !.pc = "finished"]
    /\ UNCHANGED <<logged, pipe, open, tee, ring, echoed, ack, seen, stale>>

(* Whoever reads the old stderr. *)
Drain ==
    /\ echoed.waiting > 0 /\ echoed' = [echoed EXCEPT !.waiting = 0]
    /\ UNCHANGED <<logged, pipe, open, tee, ring, ack, main, seen, stale, result>>

Tee  == Read \/ Look \/ Written \/ End \/ Ended
Call == Mark \/ Synced \/ TimedOut \/ Snapshot \/ Finalize \/ Finalized
Next == Log \/ Sync \/ Tee \/ Call \/ Drain

(* Both goroutines run; nobody need ever log, call Sync, or read stderr.   *)
Spec == Init /\ [][Next]_vars /\ WF_vars(Tee) /\ WF_vars(Call)

-----------------------------------------------------------------------------
All(n) == [i \in 1 .. n |-> i]

(* The log in full and in order is what was echoed, what the tee holds and *)
(* what the pipe holds, markers apart, however reads cut it up; and the    *)
(* ring is the end of what was echoed.                                     *)
NothingLost ==
    /\ echoed.all \o SelectSeq(tee.data \o tee.carry \o pipe, IsLog) = All(logged)
    /\ Bytes(ring) = LastOf(echoed.all, RingSize)

(* A Sync that was acknowledged has everything logged before it in the     *)
(* ring, so that the snapshot that follows shows it - unless the marker of *)
(* an earlier Sync that had timed out was still on its way.                *)
SyncShows == main.pc = "synced" /\ ~stale => Len(echoed.all) >= seen

(* Finalize returns the end of all that was logged. *)
FinalizeShows == main.pc = "finished" => result = LastOf(All(logged), RingSize)

(* As long as somebody reads stderr, Sync and Finalize return; and a Sync  *)
(* whose marker found room in the pipe returns whether or not anybody does *)
(* ("a dead or absent tee goroutine can never wedge the caller").          *)
Returns ==
    /\ (main.pc = "waiting" ~> main.pc \in {"running", "synced"})
    /\ ([]<>(echoed.waiting = 0) => <>(main.pc = "finished"))
=============================================================================
