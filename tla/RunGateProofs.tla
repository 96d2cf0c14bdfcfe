---------------------------- MODULE RunGateProofs ----------------------------
(***************************************************************************)
(* Theorems about RunGate, for every number of overlapping wakeups and     *)
(* identities, every cadence and every staleness floor: a wakeup skips by  *)
(* the cache only with cause, and a cadence is kept through every rewrite  *)
(* of last-run.json.                                                       *)
(***************************************************************************)
EXTENDS RunGate, TLAPS

USE GateAssumption DEF MinAge

-----------------------------------------------------------------------------
(* Ages.                                                                   *)

LEMMA OldAgeType == OldAge \in Nat /\ OldAge > Interval /\ OldAge = Staleness /\ 0 \in Ages
BY DEF OldAge, Staleness, Ages

\* Time moves by a tick, or back by one where that stays within the ages.
Moves(a, n) == n = 1 \/ (n = -1 /\ (a # None => MinAge < a /\ a < OldAge))

LEMMA AgedType ==
    ASSUME NEW a \in Ages \union {None}, NEW n, Moves(a, n)
    PROVE  Aged(a, n) \in Ages \union {None} /\ (Aged(a, n) = None <=> a = None)
BY OldAgeType DEF Aged, Ages, Moves

LEMMA AgedOrder ==
    ASSUME NEW a \in Ages, NEW b \in Ages, a <= b
    PROVE  Aged(a, 1) \in Ages /\ Aged(b, 1) \in Ages /\ Aged(a, 1) <= Aged(b, 1) /\ a <= Aged(a, 1)
BY OldAgeType DEF Aged, Ages

\* What is too old, in the future no more, or unknown, stays so as time passes.
LEMMA AgedTooOld ==
    ASSUME NEW a \in Ages \union {None}, a # None => a >= 0, NEW limit \in Int, limit <= OldAge,
           ~WithinAge(a, limit)
    PROVE  ~WithinAge(Aged(a, 1), limit) /\ (Aged(a, 1) # None => Aged(a, 1) >= 0)
BY OldAgeType DEF Aged, Ages, WithinAge

LEMMA GateAgedType ==
    ASSUME NEW g \in Gate, NEW n, Moves(g.last, n), Moves(g.fetched, n)
    PROVE  /\ GateAged(g, n) \in Gate
           /\ GateAged(g, n).last = Aged(g.last, n) /\ GateAged(g, n).fetched = Aged(g.fetched, n)
           /\ GateAged(g, n).id = g.id /\ GateAged(g, n).gating = g.gating
BY AgedType DEF GateAged, Gate

-----------------------------------------------------------------------------
(* Types, and what a run has while it is awake.                            *)

AwakeInv ==
    \A w \in Wakeups :
        /\ pc[w] # "asleep" => id[w] \in Identities
        /\ pc[w] \notin Updates => stage[w] = "read"
        /\ stage[w] = "read" => buf[w] = Empty

Typed == TypeOK /\ AwakeInv

LEMMA EmptyType == Empty \in Gate /\ Empty.last = None /\ Empty.fetched = None /\ Empty.gating = FALSE
BY DEF Empty, Gate

LEMMA BindType ==
    ASSUME NEW g \in Gate, NEW d \in Identities
    PROVE  Bind(g, d) \in Gate
BY DEF Bind, Empty, Gate

LEMMA AppliedType ==
    ASSUME Typed, NEW w \in Wakeups, pc[w] # "asleep", NEW up \in Updates, NEW g \in Gate
    PROVE  Applied(up, g, w) \in Gate
<1>1. id[w] \in Identities /\ now[w] \in Ages \union {None}
  BY DEF Typed, AwakeInv, TypeOK
<1>2. Bind(g, id[w]) \in Gate
  BY <1>1, BindType
<1>. QED
  BY <1>1, <1>2 DEF Applied, Updates, Gate

LEMMA EndTyped ==
    ASSUME Typed, NEW w \in Wakeups, End(w)
    PROVE  /\ pc' \in [Wakeups -> Steps] /\ id' \in [Wakeups -> Identities \union {None}]
           /\ stage' \in [Wakeups -> {"read", "drop", "put"}] /\ buf' \in [Wakeups -> Gate]
           /\ answer' \in [Wakeups -> {"none", "cached", "forced", "due"} \union Modes]
           /\ now' \in [Wakeups -> Ages \union {None}] /\ holder' \in Wakeups \union {None}
           /\ AwakeInv'
BY EmptyType DEF Typed, TypeOK, AwakeInv, End, Goto, Steps, Updates

LEMMA ScanTyped ==
    ASSUME Typed, NEW w \in Wakeups, pc[w] # "asleep", NEW why \in {"none", "forced", "due"}, Scan(w, why)
    PROVE  /\ pc' \in [Wakeups -> Steps] /\ id' \in [Wakeups -> Identities \union {None}]
           /\ stage' \in [Wakeups -> {"read", "drop", "put"}] /\ buf' \in [Wakeups -> Gate]
           /\ answer' \in [Wakeups -> {"none", "cached", "forced", "due"} \union Modes]
           /\ now' \in [Wakeups -> Ages \union {None}] /\ holder' \in Wakeups \union {None}
           /\ AwakeInv'
BY EmptyType DEF Typed, TypeOK, AwakeInv, Scan, Goto, Steps, Updates

LEMMA ContinueTyped ==
    ASSUME Typed, NEW w \in Wakeups, NEW up \in Updates, pc[w] = up, Continue(w, up)
    PROVE  /\ pc' \in [Wakeups -> Steps] /\ id' \in [Wakeups -> Identities \union {None}]
           /\ stage' \in [Wakeups -> {"read", "drop", "put"}] /\ buf' \in [Wakeups -> Gate]
           /\ answer' \in [Wakeups -> {"none", "cached", "forced", "due"} \union Modes]
           /\ now' \in [Wakeups -> Ages \union {None}] /\ holder' \in Wakeups \union {None}
           /\ AwakeInv'
<1>0. pc[w] # "asleep"
  BY DEF Updates
<1>1. CASE up = "stamp" \/ (up = "note" /\ answer[w] = "skip")
  BY <1>1, EndTyped DEF Continue
<1>2. CASE up = "note" /\ answer[w] # "skip"
  BY <1>0, <1>2, ScanTyped DEF Continue
<1>3. CASE up \in {"beat", "bind"}
  <2>1. /\ pc' = [pc EXCEPT ![w] = IF up = "beat" THEN "gate" ELSE "ask"]
        /\ stage' = [stage EXCEPT ![w] = "read"] /\ buf' = [buf EXCEPT ![w] = Empty]
        /\ UNCHANGED <<holder, id, now, answer>>
    BY <1>3 DEF Continue, Goto
  <2>2. pc' \in [Wakeups -> Steps]
    BY <2>1 DEF Typed, TypeOK, Steps
  <2>3. stage' \in [Wakeups -> {"read", "drop", "put"}] /\ buf' \in [Wakeups -> Gate]
    BY <2>1, EmptyType DEF Typed, TypeOK
  <2>4. AwakeInv'
    BY <1>0, <2>1 DEF Typed, TypeOK, AwakeInv
  <2>. QED
    BY <2>1, <2>2, <2>3, <2>4 DEF Typed, TypeOK
<1>. QED
  BY <1>1, <1>2, <1>3 DEF Updates

LEMMA TypedInit == Init => Typed
<1>. SUFFICES ASSUME Init PROVE Typed
  OBVIOUS
<1>1. device \in Devices
  BY DEF Init
<1>2. ran \in [Identities -> Ages \union {None}] /\ told \in [Identities -> Ages \union {None}]
  BY DEF Init
<1>. QED
  BY <1>1, <1>2, EmptyType DEF Init, Typed, TypeOK, AwakeInv, Steps

\* A step of time ages every stamp there is.
LEMMA TimeTyped ==
    ASSUME Typed, NEW n, TimeIs(n), \A a \in Stamps : Moves(a, n)
    PROVE  Typed'
<1>. USE DEF Typed, TypeOK
<1>1. Moves(file.last, n) /\ Moves(file.fetched, n)
  BY DEF Stamps
<1>2. \A w \in Wakeups : Moves(buf[w].last, n) /\ Moves(buf[w].fetched, n) /\ Moves(now[w], n)
  BY DEF Stamps
<1>3. \A d \in Identities : Moves(ran[d], n) /\ Moves(told[d], n)
  BY DEF Stamps
<1>4. file' \in Gate
  BY <1>1, GateAgedType DEF TimeIs
<1>5. buf' \in [Wakeups -> Gate]
  BY <1>2, GateAgedType DEF TimeIs
<1>6. now' \in [Wakeups -> Ages \union {None}]
  BY <1>2, AgedType DEF TimeIs
<1>7. ran' \in [Identities -> Ages \union {None}] /\ told' \in [Identities -> Ages \union {None}]
  BY <1>3, AgedType DEF TimeIs
<1>8. AwakeInv'
  <2>1. GateAged(Empty, n) = Empty
    BY DEF GateAged, Aged, Empty
  <2>. QED
    BY <2>1 DEF AwakeInv, TimeIs
<1>. QED
  BY <1>4, <1>5, <1>6, <1>7, <1>8 DEF TimeIs

LEMMA TickMoves == ASSUME Tick PROVE TimeIs(1) /\ \A a \in Stamps : Moves(a, 1)
BY DEF Tick, Moves

LEMMA BackMoves == ASSUME ClockSetBack PROVE TimeIs(-1) /\ \A a \in Stamps : Moves(a, -1)
BY DEF ClockSetBack, Moves

LEMMA TypedStep == Typed /\ [Next]_vars => Typed'
<1>. SUFFICES ASSUME Typed, [Next]_vars PROVE Typed'
  OBVIOUS
<1>. USE DEF runVars, ghosts
<1>1. CASE Tick
  BY <1>1, TickMoves, TimeTyped
<1>2. CASE ClockSetBack
  BY <1>2, BackMoves, TimeTyped
<1>3. CASE Rename
  BY <1>3 DEF Rename, Typed, TypeOK, AwakeInv
<1>4. ASSUME NEW w \in Wakeups, Wake(w) PROVE Typed'
  <2>1. pc' = [pc EXCEPT ![w] = "beat"] /\ UNCHANGED <<perils, device, file, holder, stage, buf, now, answer, ran, told>>
    BY <1>4 DEF Wake, Goto
  <2>2. PICK d \in {device} \union (IF "probe" \in perils THEN {Unknown} ELSE {}) : id' = [id EXCEPT ![w] = d]
    BY <1>4 DEF Wake
  <2>3. d \in Identities
    BY <2>2 DEF Typed, TypeOK, Identities
  <2>. QED
    BY <2>1, <2>2, <2>3 DEF Typed, TypeOK, AwakeInv, Steps, Updates
<1>5. ASSUME NEW w \in Wakeups, ReadState(w) PROVE Typed'
  <2>1. pc' = [pc EXCEPT ![w] = IF id[w] = Unknown THEN "lock"
                                ELSE IF id[w] = file.id THEN "ask" ELSE "bind"]
    BY <1>5 DEF ReadState, Goto
  <2>2. answer' \in [Wakeups -> {"none", "cached", "forced", "due"} \union Modes]
    BY <1>5 DEF ReadState, Typed, TypeOK
  <2>3. now' \in [Wakeups -> Ages \union {None}]
    BY <1>5, OldAgeType DEF ReadState, Typed, TypeOK
  <2>4. UNCHANGED <<perils, device, file, holder, id, stage, buf, ran, told>> /\ pc[w] = "gate"
    BY <1>5 DEF ReadState
  <2>5. pc' \in [Wakeups -> Steps]
    BY <2>1 DEF Typed, TypeOK, Steps, Updates
  <2>6. AwakeInv'
    BY <2>1, <2>4 DEF Typed, TypeOK, AwakeInv, Updates
  <2>. QED
    BY <2>2, <2>3, <2>4, <2>5, <2>6 DEF Typed, TypeOK
<1>6. ASSUME NEW w \in Wakeups, AskForced(w) \/ AskSilent(w) PROVE Typed'
  BY <1>6, EndTyped, ScanTyped DEF AskForced, AskSilent, Ask, Typed, TypeOK
<1>7. ASSUME NEW w \in Wakeups, NEW mode \in Modes, AskAnswered(w, mode) PROVE Typed'
  <2>1. /\ pc' = [pc EXCEPT ![w] = "note"] /\ answer' = [answer EXCEPT ![w] = mode] /\ pc[w] = "ask"
        /\ UNCHANGED <<perils, device, file, ran, holder, id, stage, buf, now>>
    BY <1>7 DEF AskAnswered, Ask, Goto
  <2>2. told' \in [Identities -> Ages \union {None}]
    BY <1>7 DEF AskAnswered, Typed, TypeOK
  <2>. QED
    BY <2>1, <2>2 DEF Typed, TypeOK, AwakeInv, Steps, Updates
<1>8. ASSUME NEW w \in Wakeups, Acquire(w) PROVE Typed'
  <2>1. CASE holder = None
    BY <1>8, <2>1 DEF Acquire, Goto, Typed, TypeOK, AwakeInv, Steps, Updates
  <2>2. CASE holder # None
    BY <1>8, <2>2, EndTyped DEF Acquire, Typed, TypeOK
  <2>. QED
    BY <2>1, <2>2
<1>9. ASSUME NEW w \in Wakeups, ScanFails(w) \/ Crash(w) PROVE Typed'
  BY <1>9, EndTyped DEF ScanFails, Crash, Typed, TypeOK
<1>10. ASSUME NEW w \in Wakeups, ScanDone(w) PROVE Typed'
  BY <1>10, OldAgeType DEF ScanDone, Goto, Typed, TypeOK, AwakeInv, Steps, Updates
<1>11. ASSUME NEW w \in Wakeups, NEW up \in Updates, UpdateRead(w, up) PROVE Typed'
  <2>1. Applied(up, file, w) \in Gate
    BY <1>11, AppliedType DEF UpdateRead, Step, Updates, Typed, TypeOK
  <2>. QED
    BY <1>11, <2>1 DEF UpdateRead, Step, Typed, TypeOK, AwakeInv, Updates
<1>12. ASSUME NEW w \in Wakeups, NEW up \in Updates, UpdateDrop(w, up) PROVE Typed'
  BY <1>12, EmptyType DEF UpdateDrop, Step, Typed, TypeOK, AwakeInv, Updates
<1>13. ASSUME NEW w \in Wakeups, NEW up \in Updates, UpdatePut(w, up) \/ UpdateFails(w, up) PROVE Typed'
  BY <1>13, ContinueTyped DEF UpdatePut, UpdateFails, Typed, TypeOK
<1>14. CASE UNCHANGED vars
  BY <1>14 DEF vars, Typed, TypeOK, AwakeInv
<1>. QED
  BY <1>1, <1>2, <1>3, <1>4, <1>5, <1>6, <1>7, <1>8, <1>9, <1>10, <1>11, <1>12, <1>13, <1>14
     DEF Next, Run

LEMMA AlwaysTyped == Spec => []Typed
BY TypedInit, TypedStep, PTL DEF Spec

-----------------------------------------------------------------------------
(* What the end of a run, the way on to the scan, and the way on after an  *)
(* update leave of the runs.                                               *)

\* A run begins afresh: it holds nothing back, and if it goes on, it is not
\* to the recording of a directive or a full run.
Released(w) ==
    /\ \A v \in Wakeups \ {w} : /\ pc'[v] = pc[v] /\ id'[v] = id[v] /\ stage'[v] = stage[v]
                                /\ buf'[v] = buf[v] /\ now'[v] = now[v] /\ answer'[v] = answer[v]
    /\ stage'[w] = "read" /\ buf'[w] = Empty
    /\ pc'[w] \in {"asleep", "gate", "ask", "lock"} /\ (pc'[w] # "asleep" => id'[w] = id[w])

LEMMA EndReleases == ASSUME Typed, NEW w \in Wakeups, End(w) PROVE Released(w) /\ pc'[w] = "asleep"
BY DEF Typed, TypeOK, End, Goto, Released

LEMMA ScanReleases ==
    ASSUME Typed, NEW w \in Wakeups, NEW why, Scan(w, why)
    PROVE  Released(w) /\ pc'[w] = "lock" /\ answer'[w] = why
BY DEF Typed, TypeOK, Scan, Goto, Released

LEMMA ContinueReleases ==
    ASSUME Typed, NEW w \in Wakeups, NEW up \in Updates, pc[w] = up, Continue(w, up)
    PROVE  /\ Released(w)
           /\ up = "stamp" => pc'[w] = "asleep"
           /\ up = "note" => pc'[w] = "asleep" \/ (pc'[w] = "lock" /\ answer'[w] = "due")
           /\ up = "beat" => pc'[w] = "gate"
           /\ up = "bind" => pc'[w] = "ask" /\ answer'[w] = answer[w]
           /\ up \in {"beat", "bind"} => now'[w] = now[w]
<1>1. CASE up = "stamp" \/ (up = "note" /\ answer[w] = "skip")
  BY <1>1, EndReleases DEF Continue
<1>2. CASE up = "note" /\ answer[w] # "skip"
  BY <1>2, ScanReleases DEF Continue
<1>3. CASE up \in {"beat", "bind"}
  <2>1. /\ pc' = [pc EXCEPT ![w] = IF up = "beat" THEN "gate" ELSE "ask"]
        /\ stage' = [stage EXCEPT ![w] = "read"] /\ buf' = [buf EXCEPT ![w] = Empty]
        /\ UNCHANGED <<holder, id, now, answer>>
    BY <1>3 DEF Continue, Goto
  <2>. QED
    BY <1>3, <2>1 DEF Typed, TypeOK, Released
<1>. QED
  BY <1>1, <1>2, <1>3 DEF Updates

-----------------------------------------------------------------------------
(* Where the clock only goes forward a recorded full run was one.          *)

BackedBy(g, r) == g.last # None => g.id \in Identities /\ r[g.id] # None /\ r[g.id] <= g.last
Backed(g) == BackedBy(g, ran)

\* Every stamp in the file, or about to get there, is at least as old as the
\* last full run of the identity beside it.
ForwardInv ==
    /\ \A d \in Identities : ran[d] # None => ran[d] >= 0
    /\ Backed(file)
    /\ \A w \in Wakeups :
         /\ Backed(buf[w])
         /\ pc[w] = "stamp" => now[w] # None /\ ran[id[w]] # None /\ ran[id[w]] <= now[w]

LEMMA EmptyBacked == Backed(Empty)
BY EmptyType DEF Backed, BackedBy

\* A run that lets go leaves the stamps as they were.
LEMMA ForwardReleased ==
    ASSUME Typed, ForwardInv, NEW w \in Wakeups, Released(w), Backed(file'), UNCHANGED ran
    PROVE  ForwardInv'
BY EmptyType DEF ForwardInv, Released, Backed, BackedBy

LEMMA BackedAged ==
    ASSUME Typed, NEW g \in Gate, Backed(g), TimeIs(1)
    PROVE  BackedBy(GateAged(g, 1), ran')
<1>. USE DEF Typed, TypeOK
<1>1. /\ GateAged(g, 1).last = Aged(g.last, 1) /\ GateAged(g, 1).id = g.id
      /\ Aged(g.last, 1) = None <=> g.last = None
  BY GateAgedType, AgedType DEF Moves, Gate
<1>2. ASSUME g.last # None
      PROVE  ran'[g.id] # None /\ ran'[g.id] <= Aged(g.last, 1)
  <2>1. g.id \in Identities /\ g.last \in Ages /\ ran[g.id] \in Ages /\ ran[g.id] <= g.last
    BY <1>2 DEF Backed, BackedBy, Gate
  <2>2. ran'[g.id] = Aged(ran[g.id], 1)
    BY <2>1 DEF TimeIs
  <2>. QED
    BY <2>1, <2>2, AgedOrder DEF Ages
<1>. QED
  BY <1>1, <1>2 DEF Backed, BackedBy

LEMMA ForwardStep == Typed /\ "clock" \notin perils /\ ForwardInv /\ [Next]_vars => ForwardInv'
<1>. SUFFICES ASSUME Typed, "clock" \notin perils, ForwardInv, [Next]_vars PROVE ForwardInv'
  OBVIOUS
<1>. USE DEF runVars, ghosts
<1>1. CASE Tick
  <2>1. TimeIs(1)
    BY <1>1 DEF Tick
  <2>2. /\ BackedBy(GateAged(file, 1), ran')
        /\ \A w \in Wakeups : BackedBy(GateAged(buf[w], 1), ran')
    BY <2>1, BackedAged DEF Typed, TypeOK, ForwardInv
  <2>3. file' = GateAged(file, 1) /\ \A w \in Wakeups : buf'[w] = GateAged(buf[w], 1)
    BY <2>1 DEF TimeIs
  <2>4. Backed(file)' /\ \A w \in Wakeups : Backed(buf[w])'
    BY <2>2, <2>3 DEF Backed, BackedBy
  <2>5. \A d \in Identities : ran'[d] # None => ran'[d] >= 0
    <3>. SUFFICES ASSUME NEW d \in Identities, ran'[d] # None PROVE ran'[d] >= 0
      OBVIOUS
    <3>1. ran'[d] = Aged(ran[d], 1) /\ ran[d] \in Ages \union {None}
      BY <2>1 DEF TimeIs, Typed, TypeOK
    <3>2. ran[d] # None
      BY <3>1 DEF Aged
    <3>. QED
      BY <3>1, <3>2, AgedOrder DEF ForwardInv, Ages
  <2>6. ASSUME NEW w \in Wakeups, pc'[w] = "stamp"
        PROVE  now'[w] # None /\ ran'[id'[w]] # None /\ ran'[id'[w]] <= now'[w]
    <3>1. pc[w] = "stamp" /\ id'[w] = id[w] /\ id[w] \in Identities
      BY <2>1, <2>6 DEF TimeIs, Typed, TypeOK, AwakeInv
    <3>2. now'[w] = Aged(now[w], 1) /\ ran'[id[w]] = Aged(ran[id[w]], 1)
      BY <2>1, <3>1 DEF TimeIs
    <3>3. now[w] \in Ages /\ ran[id[w]] \in Ages /\ ran[id[w]] <= now[w]
      BY <3>1 DEF ForwardInv, Typed, TypeOK
    <3>. QED
      BY <3>1, <3>2, <3>3, AgedOrder DEF Ages
  <2>. QED
    BY <2>4, <2>5, <2>6 DEF ForwardInv
<1>2. CASE ClockSetBack
  BY <1>2 DEF ClockSetBack
<1>3. CASE Rename
  BY <1>3 DEF Rename, ForwardInv, Backed, BackedBy
<1>4. ASSUME NEW w \in Wakeups, Wake(w) PROVE ForwardInv'
  <2>1. /\ pc' = [pc EXCEPT ![w] = "beat"] /\ \A v \in Wakeups \ {w} : id'[v] = id[v]
        /\ UNCHANGED <<file, buf, now, ran>>
    BY <1>4 DEF Wake, Goto, Typed, TypeOK
  <2>. QED
    BY <2>1 DEF ForwardInv, Backed, BackedBy, Typed, TypeOK
<1>5. ASSUME NEW w \in Wakeups, ReadState(w) PROVE ForwardInv'
  <2>1. /\ \A v \in Wakeups \ {w} : pc'[v] = pc[v] /\ now'[v] = now[v]
        /\ pc'[w] # "stamp" /\ UNCHANGED <<file, buf, id, ran>>
    BY <1>5 DEF ReadState, Goto, Typed, TypeOK
  <2>. QED
    BY <2>1 DEF ForwardInv, Backed, BackedBy
<1>6. ASSUME NEW w \in Wakeups, AskForced(w) \/ AskSilent(w) PROVE ForwardInv'
  <2>1. Released(w) /\ UNCHANGED <<file, ran>>
    BY <1>6, EndReleases, ScanReleases DEF AskForced, AskSilent, Ask
  <2>. QED
    BY <2>1, ForwardReleased DEF ForwardInv
<1>7. ASSUME NEW w \in Wakeups, NEW mode \in Modes, AskAnswered(w, mode) PROVE ForwardInv'
  BY <1>7 DEF AskAnswered, Ask, Goto, ForwardInv, Backed, BackedBy, Typed, TypeOK
<1>8. ASSUME NEW w \in Wakeups, Acquire(w) PROVE ForwardInv'
  <2>1. CASE holder = None
    BY <1>8, <2>1 DEF Acquire, Goto, ForwardInv, Backed, BackedBy, Typed, TypeOK
  <2>2. CASE holder # None
    BY <1>8, <2>2, EndReleases, ForwardReleased DEF Acquire, ForwardInv
  <2>. QED
    BY <2>1, <2>2
<1>9. ASSUME NEW w \in Wakeups, ScanFails(w) \/ Crash(w) PROVE ForwardInv'
  BY <1>9, EndReleases, ForwardReleased DEF ScanFails, Crash, ForwardInv
<1>10. ASSUME NEW w \in Wakeups, ScanDone(w) PROVE ForwardInv'
  <2>1. /\ id[w] \in Identities /\ 0 # None
        /\ pc' = [pc EXCEPT ![w] = "stamp"] /\ now' = [now EXCEPT ![w] = 0]
        /\ ran' = [ran EXCEPT ![id[w]] = 0] /\ UNCHANGED <<file, buf, id>>
    BY <1>10, OldAgeType DEF ScanDone, Goto, Typed, TypeOK, AwakeInv, Ages
  <2>2. ASSUME NEW d \in Identities, NEW a \in Ages, ran[d] # None, ran[d] <= a
        PROVE  ran'[d] # None /\ ran'[d] <= a
    <3>1. ran[d] >= 0 /\ ran[d] \in Int /\ a \in Int
      BY <2>2 DEF ForwardInv, Typed, TypeOK, Ages
    <3>. QED
      BY <2>1, <2>2, <3>1 DEF Typed, TypeOK
  <2>3. ASSUME NEW g \in Gate, Backed(g) PROVE Backed(g)'
    BY <2>2, <2>3 DEF Backed, BackedBy, Gate
  <2>4. Backed(file)' /\ \A v \in Wakeups : Backed(buf[v])'
    BY <2>1, <2>3 DEF ForwardInv, Typed, TypeOK, Backed, BackedBy
  <2>5. ASSUME NEW v \in Wakeups, pc'[v] = "stamp"
        PROVE  now'[v] # None /\ ran'[id'[v]] # None /\ ran'[id'[v]] <= now'[v]
    <3>1. CASE v = w
      BY <2>1, <3>1 DEF Typed, TypeOK
    <3>2. CASE v # w
      BY <2>1, <2>2, <2>5, <3>2 DEF ForwardInv, Typed, TypeOK, AwakeInv
    <3>. QED
      BY <3>1, <3>2
  <2>6. \A d \in Identities : ran'[d] # None => ran'[d] >= 0
    BY <2>1 DEF ForwardInv, Typed, TypeOK
  <2>. QED
    BY <2>4, <2>5, <2>6 DEF ForwardInv
<1>11. ASSUME NEW w \in Wakeups, NEW up \in Updates, UpdateRead(w, up) PROVE ForwardInv'
  <2>1. pc[w] = up /\ id[w] \in Identities /\ UNCHANGED <<file, pc, id, now, ran>>
        /\ buf' = [buf EXCEPT ![w] = Applied(up, file, w)]
    BY <1>11 DEF UpdateRead, Step, Typed, TypeOK, AwakeInv, Updates
  <2>2. Backed(Bind(file, id[w])) /\ Bind(file, id[w]) \in Gate /\ Bind(file, id[w]).id = id[w]
    BY <2>1, BindType, EmptyType DEF Bind, Backed, BackedBy, ForwardInv, Typed, TypeOK, Empty
  <2>3. Backed(Applied(up, file, w))
    BY <2>1, <2>2 DEF Applied, Backed, BackedBy, ForwardInv, Updates, Gate
  <2>. QED
    BY <2>1, <2>3 DEF ForwardInv, Backed, BackedBy, Typed, TypeOK
<1>12. ASSUME NEW w \in Wakeups, NEW up \in Updates, UpdateDrop(w, up) PROVE ForwardInv'
  BY <1>12, EmptyType DEF UpdateDrop, Step, ForwardInv, Backed, BackedBy
<1>13. ASSUME NEW w \in Wakeups, NEW up \in Updates, UpdatePut(w, up) \/ UpdateFails(w, up) PROVE ForwardInv'
  BY <1>13, ContinueReleases, ForwardReleased DEF UpdatePut, UpdateFails, ForwardInv
<1>14. CASE UNCHANGED vars
  BY <1>14 DEF vars, ForwardInv, Backed, BackedBy
<1>. QED
  BY <1>1, <1>2, <1>3, <1>4, <1>5, <1>6, <1>7, <1>8, <1>9, <1>10, <1>11, <1>12, <1>13, <1>14
     DEF Next, Run

-----------------------------------------------------------------------------
(* What a run does is its own: the others stay where they are.             *)

OthersStay(w) ==
    \A v \in Wakeups \ {w} :
        /\ pc'[v] = pc[v] /\ id'[v] = id[v] /\ stage'[v] = stage[v]
        /\ buf'[v] = buf[v] /\ now'[v] = now[v] /\ answer'[v] = answer[v]

LEMMA RunIsItsOwn ==
    ASSUME Typed, NEW w \in Wakeups, Run(w) \/ Crash(w)
    PROVE  OthersStay(w) /\ pc[w] # "asleep" /\ UNCHANGED <<perils, device>>
<1>. USE DEF runVars, ghosts
<1>1. CASE ReadState(w)
  BY <1>1 DEF ReadState, Goto, OthersStay, Typed, TypeOK
<1>2. CASE AskForced(w) \/ AskSilent(w)
  BY <1>2, EndReleases, ScanReleases DEF AskForced, AskSilent, Ask, Released, OthersStay
<1>3. ASSUME NEW mode \in Modes, AskAnswered(w, mode)
      PROVE  OthersStay(w) /\ pc[w] # "asleep" /\ UNCHANGED <<perils, device>>
  BY <1>3 DEF AskAnswered, Ask, Goto, OthersStay, Typed, TypeOK
<1>4. CASE Acquire(w)
  <2>1. CASE holder = None
    BY <1>4, <2>1 DEF Acquire, Goto, OthersStay, Typed, TypeOK
  <2>2. CASE holder # None
    BY <1>4, <2>2, EndReleases DEF Acquire, Released, OthersStay
  <2>. QED
    BY <2>1, <2>2
<1>5. CASE ScanFails(w) \/ Crash(w)
  BY <1>5, EndReleases DEF ScanFails, Crash, Released, OthersStay
<1>6. CASE ScanDone(w)
  BY <1>6 DEF ScanDone, Goto, OthersStay, Typed, TypeOK
<1>7. ASSUME NEW up \in Updates, UpdateRead(w, up) \/ UpdateDrop(w, up)
      PROVE  OthersStay(w) /\ pc[w] # "asleep" /\ UNCHANGED <<perils, device>>
  BY <1>7 DEF UpdateRead, UpdateDrop, Step, Updates, OthersStay, Typed, TypeOK
<1>8. ASSUME NEW up \in Updates, UpdatePut(w, up) \/ UpdateFails(w, up)
      PROVE  OthersStay(w) /\ pc[w] # "asleep" /\ UNCHANGED <<perils, device>>
  BY <1>8, ContinueReleases DEF UpdatePut, UpdateFails, Released, OthersStay, Updates
<1>. QED
  BY <1>1, <1>2, <1>3, <1>4, <1>5, <1>6, <1>7, <1>8 DEF Run

-----------------------------------------------------------------------------
(* Where every update lands the file says when the last full run and the   *)
(* last check-in were, except while they are being recorded.               *)

Solo == \A v, w \in Wakeups : pc[v] # "asleep" /\ pc[w] # "asleep" => v = w

RanInBy(g, r)  == g.last # None => g.id \in Identities /\ r[g.id] = g.last
ToldInBy(g, t) == g.gating /\ g.fetched # None => g.id \in Identities /\ t[g.id] = g.fetched

LandRun(w) ==
    /\ pc[w] \in {"ask", "bind", "note", "stamp"} => now[w] # None
    /\ pc[w] = "stamp" => ran[id[w]] = now[w]
    /\ pc[w] = "note" /\ answer[w] # "off" => told[id[w]] = now[w]
    /\ stage[w] # "read" => RanInBy(buf[w], ran) /\ ToldInBy(buf[w], told)

LandInv ==
    /\ Solo
    /\ (\A w \in Wakeups : pc[w] # "stamp") => RanInBy(file, ran)
    /\ (\A w \in Wakeups : pc[w] # "note") => ToldInBy(file, told)
    /\ \A w \in Wakeups : LandRun(w)

\* While one run is awake, what it leaves is all there is to show.
LEMMA LandFrom ==
    ASSUME Typed, LandInv, NEW w \in Wakeups, pc[w] # "asleep", OthersStay(w),
           pc'[w] # "stamp" => RanInBy(file', ran'),
           pc'[w] # "note" => ToldInBy(file', told'),
           LandRun(w)'
    PROVE  LandInv'
<1>1. \A v \in Wakeups \ {w} : pc[v] = "asleep" /\ stage[v] = "read"
  BY DEF LandInv, Solo, Typed, AwakeInv, Updates
<1>2. \A v \in Wakeups \ {w} : pc'[v] = "asleep" /\ stage'[v] = "read"
  BY <1>1 DEF OthersStay
<1>3. Solo'
  BY <1>2 DEF Solo
<1>4. \A v \in Wakeups \ {w} : LandRun(v)'
  BY <1>2 DEF LandRun
<1>. QED
  BY <1>3, <1>4 DEF LandInv

\* While one run is awake, nothing else is being recorded.
LEMMA LandHere ==
    ASSUME LandInv, NEW w \in Wakeups, pc[w] # "asleep"
    PROVE  /\ pc[w] # "stamp" => RanInBy(file, ran)
           /\ pc[w] # "note" => ToldInBy(file, told)
           /\ LandRun(w)
BY DEF LandInv, Solo

LEMMA AgedIn ==
    ASSUME Typed, NEW g \in Gate, NEW n, Moves(g.last, n), Moves(g.fetched, n), TimeIs(n)
    PROVE  /\ RanInBy(g, ran) => RanInBy(GateAged(g, n), ran')
           /\ ToldInBy(g, told) => ToldInBy(GateAged(g, n), told')
<1>1. /\ GateAged(g, n).last = Aged(g.last, n) /\ GateAged(g, n).fetched = Aged(g.fetched, n)
      /\ GateAged(g, n).id = g.id /\ GateAged(g, n).gating = g.gating
  BY GateAgedType
<1>2. (Aged(g.last, n) = None <=> g.last = None) /\ (Aged(g.fetched, n) = None <=> g.fetched = None)
  BY AgedType DEF Gate
<1>. QED
  BY <1>1, <1>2 DEF RanInBy, ToldInBy, TimeIs

LEMMA LandAged ==
    ASSUME Typed, LandInv, NEW n, TimeIs(n), \A a \in Stamps : Moves(a, n)
    PROVE  LandInv'
<1>. USE DEF Typed, TypeOK
<1>1. /\ Moves(file.last, n) /\ Moves(file.fetched, n)
      /\ \A w \in Wakeups : Moves(buf[w].last, n) /\ Moves(buf[w].fetched, n) /\ Moves(now[w], n)
  BY DEF Stamps
<1>2. file' = GateAged(file, n) /\ \A w \in Wakeups : buf'[w] = GateAged(buf[w], n)
  BY DEF TimeIs
<1>3. /\ RanInBy(file, ran) => RanInBy(file', ran')
      /\ ToldInBy(file, told) => ToldInBy(file', told')
  BY <1>1, <1>2, AgedIn
<1>4. ASSUME NEW w \in Wakeups PROVE LandRun(w)'
  <2>1. /\ RanInBy(buf[w], ran) => RanInBy(buf'[w], ran')
        /\ ToldInBy(buf[w], told) => ToldInBy(buf'[w], told')
    BY <1>1, <1>2, AgedIn
  <2>2. /\ now'[w] = Aged(now[w], n) /\ (Aged(now[w], n) = None <=> now[w] = None)
        /\ pc' = pc /\ id' = id /\ stage' = stage /\ answer' = answer
    BY <1>1, AgedType DEF TimeIs
  <2>3. pc[w] # "asleep" => ran'[id[w]] = Aged(ran[id[w]], n) /\ told'[id[w]] = Aged(told[id[w]], n)
    BY DEF AwakeInv, TimeIs
  <2>. QED
    BY <2>1, <2>2, <2>3 DEF LandInv, LandRun
<1>. QED
  BY <1>3, <1>4 DEF LandInv, Solo, TimeIs

LEMMA EmptyIn == ASSUME NEW r, NEW t PROVE RanInBy(Empty, r) /\ ToldInBy(Empty, t)
BY EmptyType DEF RanInBy, ToldInBy

\* A run that lets go without having anything to record.
LEMMA LandReleased ==
    ASSUME Typed, LandInv, NEW w \in Wakeups, pc[w] # "asleep", Released(w), UNCHANGED ghosts,
           RanInBy(file', ran), ToldInBy(file', told), pc'[w] = "ask" => now'[w] # None
    PROVE  LandInv'
<1>1. OthersStay(w)
  BY DEF Released, OthersStay
<1>2. LandRun(w)'
  BY DEF Released, LandRun
<1>. QED
  BY <1>1, <1>2, LandFrom DEF ghosts

LEMMA LandInit == Init /\ LandsAlways => LandInv
<1>. SUFFICES ASSUME Init PROVE LandInv
  OBVIOUS
<1>. QED
  BY EmptyIn DEF Init, LandInv, LandRun, Solo

LEMMA LandStep == Typed /\ LandsAlways /\ LandInv /\ [Next]_vars => LandInv'
<1>. SUFFICES ASSUME Typed, LandsAlways, LandInv, [Next]_vars PROVE LandInv'
  OBVIOUS
<1>. USE DEF runVars
<1>0. "overlap" \notin perils /\ "readonly" \notin perils /\ "crash" \notin perils
  BY DEF LandsAlways
<1>1. CASE Tick
  BY <1>1, TickMoves, LandAged
<1>2. CASE ClockSetBack
  BY <1>2, BackMoves, LandAged
<1>3. CASE Rename
  BY <1>3 DEF Rename, LandInv, LandRun, Solo, ghosts
<1>4. ASSUME NEW w \in Wakeups, Wake(w) PROVE LandInv'
  <2>1. /\ \A v \in Wakeups : pc[v] = "asleep"
        /\ pc' = [pc EXCEPT ![w] = "beat"] /\ UNCHANGED <<file, stage, buf, ran, told>>
    BY <1>0, <1>4 DEF Wake, Goto, ghosts
  <2>2. \A v \in Wakeups : stage[v] = "read" /\ pc'[v] \in {"asleep", "beat"}
    BY <2>1 DEF Typed, TypeOK, AwakeInv, Updates
  <2>3. Solo' /\ \A v \in Wakeups : LandRun(v)'
    BY <2>1, <2>2 DEF Solo, LandRun, Typed, TypeOK
  <2>. QED
    BY <2>1, <2>3 DEF LandInv
<1>5. ASSUME NEW w \in Wakeups, ReadState(w) PROVE LandInv'
  <2>1. OthersStay(w) /\ pc[w] = "gate" /\ stage[w] = "read"
    BY <1>5, RunIsItsOwn DEF Run, ReadState, Typed, AwakeInv, Updates
  <2>2. /\ pc'[w] \in {"ask", "bind", "lock"} /\ (pc'[w] # "lock" => now'[w] = 0)
        /\ UNCHANGED <<file, id, stage, buf, ran, told>>
    BY <1>5 DEF ReadState, Goto, ghosts, Typed, TypeOK
  <2>3. LandRun(w)'
    BY <2>1, <2>2, OldAgeType DEF LandRun
  <2>. QED
    BY <2>1, <2>2, <2>3, LandHere, LandFrom
<1>6. ASSUME NEW w \in Wakeups, AskForced(w) \/ AskSilent(w) PROVE LandInv'
  <2>1. Released(w) /\ pc'[w] \in {"asleep", "lock"} /\ pc[w] = "ask" /\ UNCHANGED <<file, ghosts>>
    BY <1>6, EndReleases, ScanReleases DEF AskForced, AskSilent, Ask, ghosts
  <2>. QED
    BY <2>1, LandHere, LandReleased
<1>7. ASSUME NEW w \in Wakeups, NEW mode \in Modes, AskAnswered(w, mode) PROVE LandInv'
  <2>1. /\ OthersStay(w) /\ pc[w] = "ask" /\ stage[w] = "read" /\ id[w] \in Identities
        /\ now[w] # None /\ RanInBy(file, ran)
    BY <1>7, RunIsItsOwn, LandHere DEF Run, AskAnswered, Ask, Typed, AwakeInv, Updates, LandRun
  <2>2. /\ pc'[w] = "note" /\ answer'[w] = mode /\ UNCHANGED <<file, id, stage, buf, now, ran>>
        /\ mode # "off" => told'[id[w]] = now[w]
    BY <1>7, <2>1 DEF AskAnswered, Ask, Goto, Typed, TypeOK
  <2>3. LandRun(w)'
    BY <2>1, <2>2 DEF LandRun
  <2>. QED
    BY <2>1, <2>2, <2>3, LandFrom
<1>8. ASSUME NEW w \in Wakeups, Acquire(w) PROVE LandInv'
  <2>1. CASE holder = None
    <3>1. /\ OthersStay(w) /\ pc[w] = "lock" /\ stage[w] = "read" /\ pc'[w] = "scan"
          /\ UNCHANGED <<file, id, stage, buf, now, answer, ran, told>>
      BY <1>8, <2>1, RunIsItsOwn DEF Run, Acquire, Goto, ghosts, Typed, TypeOK, AwakeInv, Updates
    <3>2. LandRun(w)'
      BY <3>1 DEF LandRun
    <3>. QED
      BY <3>1, <3>2, LandHere, LandFrom
  <2>2. CASE holder # None
    BY <1>8, <2>2, EndReleases, LandHere, LandReleased DEF Acquire
  <2>. QED
    BY <2>1, <2>2
<1>9. ASSUME NEW w \in Wakeups, ScanFails(w) PROVE LandInv'
  BY <1>9, EndReleases, LandHere, LandReleased DEF ScanFails
<1>10. ASSUME NEW w \in Wakeups, ScanDone(w) PROVE LandInv'
  <2>1. /\ OthersStay(w) /\ pc[w] = "scan" /\ stage[w] = "read" /\ id[w] \in Identities
        /\ ToldInBy(file, told)
    BY <1>10, RunIsItsOwn, LandHere DEF Run, ScanDone, Typed, AwakeInv, Updates
  <2>2. /\ pc'[w] = "stamp" /\ now'[w] = 0 /\ ran'[id[w]] = 0
        /\ UNCHANGED <<file, id, stage, buf, told>>
    BY <1>10, <2>1 DEF ScanDone, Goto, Typed, TypeOK
  <2>3. LandRun(w)'
    BY <2>1, <2>2, OldAgeType DEF LandRun
  <2>. QED
    BY <2>1, <2>2, <2>3, LandFrom
<1>11. ASSUME NEW w \in Wakeups, NEW up \in Updates, UpdateRead(w, up) PROVE LandInv'
  <2>1. /\ OthersStay(w) /\ pc[w] = up /\ id[w] \in Identities
        /\ pc' = pc /\ UNCHANGED <<file, id, now, answer, ran, told>>
        /\ buf'[w] = Applied(up, file, w)
    BY <1>11, RunIsItsOwn DEF Run, UpdateRead, Step, ghosts, Typed, TypeOK, AwakeInv, Updates
  <2>2. /\ LandRun(w) /\ (up # "stamp" => RanInBy(file, ran)) /\ (up # "note" => ToldInBy(file, told))
    BY <2>1, LandHere DEF Updates
  <2>3. /\ Bind(file, id[w]) \in Gate /\ Bind(file, id[w]).id = id[w]
        /\ RanInBy(file, ran) => RanInBy(Bind(file, id[w]), ran)
        /\ ToldInBy(file, told) => ToldInBy(Bind(file, id[w]), told)
    BY <2>1, BindType, EmptyType DEF Bind, Empty, RanInBy, ToldInBy, Typed, TypeOK
  <2>4. RanInBy(Applied(up, file, w), ran) /\ ToldInBy(Applied(up, file, w), told)
    BY <2>1, <2>2, <2>3 DEF Applied, LandRun, RanInBy, ToldInBy, Updates, Gate
  <2>5. LandRun(w)'
    BY <2>1, <2>2, <2>4 DEF LandRun
  <2>. QED
    BY <2>1, <2>2, <2>5, LandFrom DEF Updates
<1>12. ASSUME NEW w \in Wakeups, NEW up \in Updates, UpdateDrop(w, up) PROVE LandInv'
  <2>1. /\ OthersStay(w) /\ pc[w] = up /\ stage[w] = "drop" /\ file' = Empty
        /\ UNCHANGED <<pc, id, now, answer, buf, ran, told>>
    BY <1>12, RunIsItsOwn DEF Run, UpdateDrop, Step, ghosts
  <2>2. LandRun(w)'
    BY <2>1, LandHere DEF LandRun, Updates
  <2>. QED
    BY <2>1, <2>2, EmptyIn, LandFrom DEF Updates
<1>13. ASSUME NEW w \in Wakeups, NEW up \in Updates, UpdatePut(w, up) PROVE LandInv'
  <2>1. /\ pc[w] = up /\ stage[w] = "put" /\ file' = buf[w] /\ UNCHANGED ghosts /\ Released(w)
        /\ (pc'[w] = "ask" => up = "bind" /\ now'[w] = now[w])
    BY <1>13, ContinueReleases DEF UpdatePut, Updates
  <2>2. LandRun(w)
    BY <2>1, LandHere DEF Updates
  <2>. QED
    BY <2>1, <2>2, LandReleased DEF LandRun, Updates, ghosts
<1>14. CASE UNCHANGED vars
  BY <1>14 DEF vars, ghosts, LandInv, LandRun, Solo
<1>. QED
  BY <1>0, <1>1, <1>2, <1>3, <1>4, <1>5, <1>6, <1>7, <1>8, <1>9, <1>10, <1>11, <1>12, <1>13, <1>14
     DEF Next, Run, UpdateFails, Crash

-----------------------------------------------------------------------------
(* A skip by the cache has its cause.                                      *)

\* Going by the cache is decided in one place, and from there on unchanged.
LEMMA CachedFrom ==
    ASSUME Typed, [Next]_vars, NEW w \in Wakeups, answer[w] # "cached", answer'[w] = "cached"
    PROVE  ReadState(w)
<1>. USE DEF runVars, ghosts
<1>1. ASSUME NEW v \in Wakeups, Run(v) \/ Crash(v) PROVE v = w
  BY <1>1, RunIsItsOwn DEF OthersStay
<1>2. ~Tick /\ ~ClockSetBack /\ ~Rename /\ \A v \in Wakeups : ~Wake(v)
  BY DEF Tick, ClockSetBack, TimeIs, Rename, Wake
<1>3. ~(AskForced(w) \/ AskSilent(w))
  BY DEF AskForced, AskSilent, Ask, Scan, End, Typed, TypeOK
<1>4. \A mode \in Modes : ~AskAnswered(w, mode)
  BY DEF AskAnswered, Modes, Typed, TypeOK
<1>5. ~Acquire(w) /\ ~ScanFails(w) /\ ~ScanDone(w) /\ ~Crash(w)
  BY DEF Acquire, ScanFails, ScanDone, Crash, End, Typed, TypeOK
<1>6. \A up \in Updates : ~UpdateRead(w, up) /\ ~UpdateDrop(w, up)
  BY DEF UpdateRead, UpdateDrop, Step
<1>7. \A up \in Updates : ~Continue(w, up)
  BY DEF Continue, Scan, End, Typed, TypeOK, Updates
<1>8. answer' # answer
  OBVIOUS
<1>. QED
  BY <1>1, <1>2, <1>3, <1>4, <1>5, <1>6, <1>7, <1>8 DEF Next, Run, UpdatePut, UpdateFails, vars

LEMMA SkipStep ==
    ASSUME Typed, "clock" \notin perils => ForwardInv, LandsAlways => LandInv, [Next]_vars,
           NEW w \in Wakeups, answer[w] # "cached", answer'[w] = "cached"
    PROVE  /\ LandsAlways \/ "clock" \notin perils => WithinAge(ran[id[w]], Interval)
           /\ LandsAlways => WithinAge(told[id[w]], Staleness)
<1>1. ReadState(w)
  BY CachedFrom
<1>2. /\ pc[w] = "gate" /\ id[w] \in Identities /\ id[w] = file.id
      /\ file.gating /\ WithinAge(file.fetched, Staleness) /\ WithinAge(file.last, Interval)
  BY <1>1 DEF ReadState, DecideOffline, Typed, TypeOK, AwakeInv
<1>3. /\ file.last # None /\ file.fetched # None /\ file.last \in Ages /\ file.last < Interval
      /\ ran[id[w]] \in Ages \union {None}
  BY <1>2 DEF WithinAge, Gate, Typed, TypeOK
<1>4. ASSUME LandsAlways
      PROVE  ran[id[w]] = file.last /\ told[id[w]] = file.fetched
  <2>1. RanInBy(file, ran) /\ ToldInBy(file, told)
    BY <1>2, <1>4, LandHere
  <2>. QED
    BY <1>2, <1>3, <2>1 DEF RanInBy, ToldInBy
<1>5. ASSUME "clock" \notin perils
      PROVE  WithinAge(ran[id[w]], Interval)
  <2>1. ran[id[w]] # None /\ ran[id[w]] <= file.last /\ ran[id[w]] >= 0
    BY <1>2, <1>3, <1>5 DEF ForwardInv, Backed, BackedBy
  <2>. QED
    BY <1>3, <2>1 DEF WithinAge, Ages
<1>. QED
  BY <1>2, <1>4, <1>5

-----------------------------------------------------------------------------
(* On a device that is only ever offline the cadence survives every        *)
(* rewrite of the file.                                                    *)

Alone == perils \subseteq {"offline"}

RanKept(g, a)  == a # None => g.id = device /\ g.last = a
ToldKept(g, a) == a # None => g.id = device /\ g.gating /\ g.fetched = a

\* The full run and the check-in are not both recent.
Due == ~(WithinAge(ran[device], Interval) /\ WithinAge(told[device], Staleness))

KeepRun(w) ==
    /\ pc[w] # "asleep" => id[w] = device
    /\ pc[w] = "note" /\ answer[w] = "off" => told[device] = None
    /\ stage[w] # "read" => RanKept(buf[w], ran[device]) /\ ToldKept(buf[w], told[device])
    /\ pc[w] \in {"ask", "bind"} /\ answer[w] # "cached" => Due
    /\ pc[w] = "lock" /\ answer[w] = "none" => Due
    /\ now[w] # None => now[w] >= 0

KeepInv ==
    /\ (\A w \in Wakeups : pc[w] # "stamp" /\ stage[w] # "put") => RanKept(file, ran[device])
    /\ (\A w \in Wakeups : pc[w] # "note" /\ stage[w] # "put") => ToldKept(file, told[device])
    /\ \A w \in Wakeups : KeepRun(w)
    /\ ran[device] # None => ran[device] >= 0
    /\ told[device] # None => told[device] >= 0

LEMMA KeepHere ==
    ASSUME Typed, LandInv, KeepInv, NEW w \in Wakeups, pc[w] # "asleep"
    PROVE  /\ pc[w] # "stamp" /\ stage[w] # "put" => RanKept(file, ran[device])
           /\ pc[w] # "note" /\ stage[w] # "put" => ToldKept(file, told[device])
           /\ KeepRun(w) /\ id[w] = device
<1>1. \A v \in Wakeups \ {w} : pc[v] = "asleep" /\ stage[v] = "read"
  BY DEF LandInv, Solo, Typed, AwakeInv, Updates
<1>. QED
  BY <1>1 DEF KeepInv, KeepRun

LEMMA KeepFrom ==
    ASSUME Typed, LandInv, KeepInv, NEW w \in Wakeups, pc[w] # "asleep", OthersStay(w),
           pc'[w] # "stamp" /\ stage'[w] # "put" => RanKept(file, ran[device])',
           pc'[w] # "note" /\ stage'[w] # "put" => ToldKept(file, told[device])',
           KeepRun(w)',
           (ran[device] # None => ran[device] >= 0)', (told[device] # None => told[device] >= 0)'
    PROVE  KeepInv'
<1>1. \A v \in Wakeups \ {w} : pc[v] = "asleep" /\ stage[v] = "read" /\ (now[v] # None => now[v] >= 0)
  BY DEF LandInv, Solo, Typed, AwakeInv, Updates, KeepInv, KeepRun
<1>2. \A v \in Wakeups \ {w} : pc'[v] = "asleep" /\ stage'[v] = "read" /\ (now'[v] # None => now'[v] >= 0)
  BY <1>1 DEF OthersStay
<1>3. \A v \in Wakeups \ {w} : KeepRun(v)'
  BY <1>2 DEF KeepRun
<1>. QED
  BY <1>3 DEF KeepInv

LEMMA EmptyKept == RanKept(Empty, None) /\ ToldKept(Empty, None)
BY DEF RanKept, ToldKept

LEMMA KeepInit == Init => KeepInv
<1>. SUFFICES ASSUME Init PROVE KeepInv
  OBVIOUS
<1>1. ran[device] = None /\ told[device] = None
  BY DEF Init, Identities
<1>. QED
  BY <1>1, EmptyKept DEF Init, KeepInv, KeepRun

LEMMA KeepTick == ASSUME Typed, KeepInv, Tick PROVE KeepInv'
<1>. USE DEF Typed, TypeOK
<1>1. TimeIs(1) /\ device' = device /\ pc' = pc /\ id' = id /\ stage' = stage /\ answer' = answer
  BY DEF Tick, TimeIs
<1>2. /\ device \in Identities /\ ran[device] \in Ages \union {None} /\ told[device] \in Ages \union {None}
      /\ ran'[device] = Aged(ran[device], 1) /\ told'[device] = Aged(told[device], 1)
  BY <1>1 DEF TimeIs, Identities
<1>3. /\ (ran'[device] = None <=> ran[device] = None) /\ (told'[device] = None <=> told[device] = None)
      /\ (ran'[device] # None => ran'[device] >= 0) /\ (told'[device] # None => told'[device] >= 0)
      /\ Due => Due'
  <2>1. Interval <= OldAge /\ Staleness <= OldAge /\ Interval \in Int /\ Staleness \in Int
    BY OldAgeType
  <2>2. (ran[device] # None => ran[device] >= 0) /\ (told[device] # None => told[device] >= 0)
    BY DEF KeepInv
  <2>3. (ran'[device] = None <=> ran[device] = None) /\ (told'[device] = None <=> told[device] = None)
    BY <1>2, AgedType DEF Moves
  <2>4. (ran'[device] # None => ran'[device] >= 0) /\ (told'[device] # None => told'[device] >= 0)
    BY <1>2, <2>2, <2>3, AgedOrder DEF Ages
  <2>5. /\ ~WithinAge(ran[device], Interval) => ~WithinAge(ran'[device], Interval)
        /\ ~WithinAge(told[device], Staleness) => ~WithinAge(told'[device], Staleness)
    BY <1>2, <2>1, <2>2, AgedTooOld
  <2>. QED
    BY <1>1, <2>3, <2>4, <2>5 DEF Due
<1>4. ASSUME NEW g \in Gate
      PROVE  /\ RanKept(g, ran[device]) => RanKept(GateAged(g, 1), ran'[device])
             /\ ToldKept(g, told[device]) => ToldKept(GateAged(g, 1), told'[device])
  <2>1. /\ GateAged(g, 1).last = Aged(g.last, 1) /\ GateAged(g, 1).fetched = Aged(g.fetched, 1)
        /\ GateAged(g, 1).id = g.id /\ GateAged(g, 1).gating = g.gating
    BY GateAgedType DEF Moves
  <2>. QED
    BY <1>2, <1>3, <2>1 DEF RanKept, ToldKept
<1>5. file' = GateAged(file, 1) /\ \A w \in Wakeups : buf'[w] = GateAged(buf[w], 1)
  BY <1>1 DEF TimeIs
<1>6. /\ RanKept(file, ran[device]) => RanKept(file', ran'[device])
      /\ ToldKept(file, told[device]) => ToldKept(file', told'[device])
  BY <1>4, <1>5
<1>7. ASSUME NEW w \in Wakeups PROVE KeepRun(w)'
  <2>1. /\ RanKept(buf[w], ran[device]) => RanKept(buf'[w], ran'[device])
        /\ ToldKept(buf[w], told[device]) => ToldKept(buf'[w], told'[device])
    BY <1>4, <1>5
  <2>2. now[w] # None => now[w] >= 0
    BY DEF KeepInv, KeepRun
  <2>3. now'[w] # None => now'[w] >= 0
    BY <1>1, <2>2, AgedOrder DEF TimeIs, Ages, Aged
  <2>. QED
    BY <1>1, <1>3, <2>1, <2>3 DEF KeepInv, KeepRun, RanKept, ToldKept
<1>. QED
  BY <1>1, <1>3, <1>6, <1>7 DEF KeepInv, RanKept, ToldKept

\* A run that lets go of what it had, with the stamps as they were.
LEMMA KeepReleased ==
    ASSUME Typed, LandInv, KeepInv, NEW w \in Wakeups, pc[w] # "asleep", Released(w),
           UNCHANGED <<device, ran, told>>,
           RanKept(file', ran[device]), ToldKept(file', told[device]),
           pc'[w] = "ask" /\ answer'[w] # "cached" => Due,
           pc'[w] = "lock" /\ answer'[w] = "none" => Due,
           now'[w] # None => now'[w] >= 0
    PROVE  KeepInv'
<1>1. OthersStay(w)
  BY DEF Released, OthersStay
<1>2. Due' = Due
  BY DEF Due
<1>3. KeepRun(w)'
  BY <1>2, KeepHere DEF Released, KeepRun
<1>4. RanKept(file, ran[device])' /\ ToldKept(file, told[device])'
  BY DEF RanKept, ToldKept
<1>. QED
  BY <1>1, <1>3, <1>4, KeepFrom DEF KeepInv

\* The end of a run, for whatever reason, when it had nothing to record.
LEMMA KeepEnded ==
    ASSUME Typed, LandInv, KeepInv, NEW w \in Wakeups, pc[w] \notin Updates \union {"asleep"}, End(w),
           UNCHANGED <<device, file, ran, told>>
    PROVE  KeepInv'
<1>1. Released(w) /\ pc'[w] = "asleep" /\ now'[w] = None /\ stage[w] = "read"
  BY EndReleases DEF End, Typed, TypeOK, AwakeInv
<1>2. RanKept(file, ran[device]) /\ ToldKept(file, told[device])
  BY <1>1, KeepHere DEF Updates
<1>. QED
  BY <1>1, <1>2, KeepReleased

LEMMA KeepRead ==
    ASSUME Typed, LandInv, KeepInv, NEW w \in Wakeups, ReadState(w)
    PROVE  KeepInv'
<1>. USE DEF runVars, ghosts
<1>1. /\ OthersStay(w) /\ pc[w] = "gate" /\ stage[w] = "read"
      /\ UNCHANGED <<device, file, id, stage, buf, ran, told>>
  BY RunIsItsOwn DEF Run, ReadState, Typed, AwakeInv, Updates
<1>2. id[w] = device /\ device # Unknown /\ RanKept(file, ran[device]) /\ ToldKept(file, told[device])
  BY <1>1, KeepHere DEF Typed, TypeOK
<1>3. /\ pc'[w] \in {"ask", "bind"} /\ now'[w] = 0
      /\ answer'[w] = IF device = file.id /\ DecideOffline(file) THEN "cached" ELSE "none"
  BY <1>2 DEF ReadState, Goto, Typed, TypeOK
<1>4. answer'[w] # "cached" => Due'
  <2>1. SUFFICES ASSUME ~Due PROVE device = file.id /\ DecideOffline(file)
    BY <1>1, <1>3 DEF Due
  <2>2. ran[device] # None /\ told[device] # None
    BY <2>1 DEF Due, WithinAge
  <2>3. file.id = device /\ file.last = ran[device] /\ file.gating /\ file.fetched = told[device]
    BY <1>2, <2>2 DEF RanKept, ToldKept
  <2>. QED
    BY <2>1, <2>3 DEF Due, DecideOffline
<1>5. KeepRun(w)'
  BY <1>1, <1>2, <1>3, <1>4 DEF KeepRun
<1>6. RanKept(file, ran[device])' /\ ToldKept(file, told[device])'
  BY <1>1, <1>2 DEF RanKept, ToldKept
<1>. QED
  BY <1>1, <1>5, <1>6, KeepFrom DEF KeepInv

LEMMA KeepAsk ==
    ASSUME Typed, LandInv, KeepInv, NEW w \in Wakeups,
           AskForced(w) \/ AskSilent(w) \/ \E mode \in Modes : AskAnswered(w, mode)
    PROVE  KeepInv'
<1>1. /\ pc[w] = "ask" /\ stage[w] = "read" /\ UNCHANGED <<device, file, ran>>
  BY DEF AskForced, AskSilent, AskAnswered, Ask, Typed, AwakeInv, Updates
<1>2. /\ id[w] = device /\ RanKept(file, ran[device]) /\ ToldKept(file, told[device])
      /\ KeepRun(w) /\ now[w] # None /\ device \in Identities
  BY <1>1, KeepHere, LandHere DEF LandRun, Typed, TypeOK, Identities
<1>3. ASSUME NEW why \in {"none", "forced"}, Scan(w, why), UNCHANGED told,
             why = "none" => answer[w] # "cached"
      PROVE  KeepInv'
  <2>1. Released(w) /\ pc'[w] = "lock" /\ answer'[w] = why /\ now'[w] = None
    BY <1>3, ScanReleases DEF Scan, Typed, TypeOK
  <2>2. why = "none" => Due
    BY <1>1, <1>2, <1>3 DEF KeepRun
  <2>. QED
    BY <1>1, <1>2, <1>3, <2>1, <2>2, KeepReleased
<1>4. ASSUME End(w), UNCHANGED told PROVE KeepInv'
  BY <1>1, <1>4, KeepEnded DEF Updates
<1>5. ASSUME NEW mode \in Modes, AskAnswered(w, mode) PROVE KeepInv'
  <2>1. /\ OthersStay(w) /\ pc'[w] = "note" /\ answer'[w] = mode /\ UNCHANGED <<id, stage, buf, now>>
    BY <1>5, RunIsItsOwn DEF Run, AskAnswered, Ask, Goto, Typed, TypeOK
  <2>2. told'[device] = None \/ (mode # "off" /\ told'[device] = now[w])
    BY <1>2, <1>5 DEF AskAnswered, Typed, TypeOK
  <2>3. mode = "off" => told'[device] = None
    BY <1>2, <1>5 DEF AskAnswered, Typed, TypeOK
  <2>4. now[w] >= 0
    BY <1>2 DEF KeepRun
  <2>5. KeepRun(w)'
    BY <1>1, <1>2, <2>1, <2>3, <2>4 DEF KeepRun
  <2>6. RanKept(file, ran[device])'
    BY <1>1, <1>2 DEF RanKept
  <2>. QED
    BY <1>1, <2>1, <2>2, <2>4, <2>5, <2>6, KeepFrom DEF KeepInv
<1>. QED
  BY <1>3, <1>4, <1>5 DEF AskForced, AskSilent

LEMMA KeepScan ==
    ASSUME Typed, LandInv, KeepInv, NEW w \in Wakeups, Acquire(w) \/ ScanFails(w) \/ ScanDone(w)
    PROVE  KeepInv'
<1>. USE DEF runVars, ghosts
<1>1. CASE Acquire(w) /\ holder = None
  <2>1. /\ OthersStay(w) /\ pc[w] = "lock" /\ stage[w] = "read" /\ pc'[w] = "scan"
        /\ UNCHANGED <<device, file, id, stage, buf, now, answer, ran, told>>
    BY <1>1, RunIsItsOwn DEF Run, Acquire, Goto, Typed, TypeOK, AwakeInv, Updates
  <2>2. KeepRun(w) /\ RanKept(file, ran[device]) /\ ToldKept(file, told[device])
    BY <2>1, KeepHere
  <2>3. KeepRun(w)'
    BY <2>1, <2>2 DEF KeepRun
  <2>4. RanKept(file, ran[device])' /\ ToldKept(file, told[device])'
    BY <2>1, <2>2 DEF RanKept, ToldKept
  <2>. QED
    BY <2>1, <2>3, <2>4, KeepFrom DEF KeepInv
<1>2. CASE (Acquire(w) /\ holder # None) \/ ScanFails(w)
  BY <1>2, KeepEnded DEF Acquire, ScanFails, Updates
<1>3. CASE ScanDone(w)
  <2>1. /\ OthersStay(w) /\ pc[w] = "scan" /\ stage[w] = "read"
        /\ pc'[w] = "stamp" /\ now'[w] = 0 /\ UNCHANGED <<device, file, id, stage, buf, told>>
    BY <1>3, RunIsItsOwn DEF Run, ScanDone, Goto, Typed, TypeOK, AwakeInv, Updates
  <2>2. /\ id[w] = device /\ device \in Identities /\ KeepRun(w) /\ ToldKept(file, told[device])
    BY <2>1, KeepHere DEF Typed, TypeOK, Identities
  <2>3. ran'[device] = 0
    BY <1>3, <2>2 DEF ScanDone, Typed, TypeOK
  <2>4. KeepRun(w)'
    BY <2>1, <2>2 DEF KeepRun
  <2>5. ToldKept(file, told[device])'
    BY <2>1, <2>2 DEF ToldKept
  <2>. QED
    BY <2>1, <2>3, <2>4, <2>5, KeepFrom DEF KeepInv
<1>. QED
  BY <1>1, <1>2, <1>3

LEMMA KeepUpdateRead ==
    ASSUME Typed, LandInv, KeepInv, NEW w \in Wakeups, NEW up \in Updates, UpdateRead(w, up)
    PROVE  KeepInv'
<1>. USE DEF runVars, ghosts
<1>1. /\ OthersStay(w) /\ pc[w] = up /\ stage[w] = "read" /\ stage'[w] = "drop"
      /\ UNCHANGED <<device, file, pc, id, now, answer, ran, told>>
      /\ buf'[w] = Applied(up, file, w)
  BY RunIsItsOwn DEF Run, UpdateRead, Step, Typed, TypeOK, AwakeInv, Updates
<1>2. /\ id[w] = device /\ device \in Identities /\ file \in Gate /\ KeepRun(w) /\ LandRun(w)
      /\ up # "stamp" => RanKept(file, ran[device])
      /\ up # "note" => ToldKept(file, told[device])
  BY <1>1, KeepHere, LandHere DEF Updates, Typed, TypeOK, Identities
<1>3. /\ Bind(file, device) \in Gate /\ Bind(file, device).id = device
      /\ RanKept(file, ran[device]) => RanKept(Bind(file, device), ran[device])
      /\ ToldKept(file, told[device]) => ToldKept(Bind(file, device), told[device])
  BY <1>2, BindType DEF Bind, Empty, RanKept, ToldKept
<1>4. RanKept(Applied(up, file, w), ran[device])
  BY <1>1, <1>2, <1>3 DEF Applied, LandRun, RanKept, Updates, Gate
<1>5. ToldKept(Applied(up, file, w), told[device])
  BY <1>1, <1>2, <1>3 DEF Applied, LandRun, KeepRun, ToldKept, Updates, Gate
<1>6. KeepRun(w)'
  <2>1. Due' = Due
    BY <1>1 DEF Due
  <2>. QED
    BY <1>1, <1>2, <1>4, <1>5, <2>1 DEF KeepRun, RanKept, ToldKept
<1>7. /\ (pc'[w] # "stamp" => RanKept(file, ran[device])')
      /\ (pc'[w] # "note" => ToldKept(file, told[device])')
  BY <1>1, <1>2 DEF RanKept, ToldKept
<1>. QED
  BY <1>1, <1>6, <1>7, KeepFrom DEF KeepInv, Updates

LEMMA KeepUpdateWrite ==
    ASSUME Typed, LandInv, KeepInv, NEW w \in Wakeups, NEW up \in Updates,
           UpdateDrop(w, up) \/ UpdatePut(w, up)
    PROVE  KeepInv'
<1>. USE DEF runVars, ghosts
<1>1. CASE UpdateDrop(w, up)
  <2>1. /\ OthersStay(w) /\ pc[w] = up /\ stage[w] = "drop" /\ stage'[w] = "put"
        /\ UNCHANGED <<device, pc, id, now, answer, buf, ran, told>>
    BY <1>1, RunIsItsOwn DEF Run, UpdateDrop, Step, Typed, TypeOK
  <2>2. KeepRun(w) /\ Due' = Due
    BY <2>1, KeepHere DEF Updates, Due
  <2>3. KeepRun(w)'
    BY <2>1, <2>2 DEF KeepRun, RanKept, ToldKept
  <2>. QED
    BY <2>1, <2>3, KeepFrom DEF KeepInv, Updates
<1>2. CASE UpdatePut(w, up)
  <2>1. /\ pc[w] = up /\ stage[w] = "put" /\ file' = buf[w] /\ Released(w)
        /\ UNCHANGED <<device, ran, told>> /\ Continue(w, up)
    BY <1>2, ContinueReleases DEF UpdatePut
  <2>2. KeepRun(w) /\ RanKept(buf[w], ran[device]) /\ ToldKept(buf[w], told[device])
    BY <2>1, KeepHere DEF Updates, KeepRun
  <2>3. /\ pc'[w] = "ask" => up = "bind" /\ answer'[w] = answer[w]
        /\ pc'[w] = "lock" => answer'[w] = "due"
        /\ up \in {"beat", "bind"} => now'[w] = now[w]
    BY <2>1, ContinueReleases DEF Updates
  <2>4. up \in {"note", "stamp"} => now'[w] = None
    BY <2>1 DEF Continue, End, Scan, Typed, TypeOK
  <2>. QED
    BY <2>1, <2>2, <2>3, <2>4, KeepReleased DEF KeepRun, Updates
<1>. QED
  BY <1>1, <1>2

LEMMA KeepStep == Typed /\ Alone /\ LandInv /\ KeepInv /\ [Next]_vars => KeepInv'
<1>. SUFFICES ASSUME Typed, Alone, LandInv, KeepInv, [Next]_vars PROVE KeepInv'
  OBVIOUS
<1>. USE DEF runVars, ghosts
<1>1. ASSUME NEW w \in Wakeups, Wake(w) PROVE KeepInv'
  <2>1. /\ \A v \in Wakeups : pc[v] = "asleep"
        /\ pc' = [pc EXCEPT ![w] = "beat"] /\ id' = [id EXCEPT ![w] = device]
        /\ UNCHANGED <<device, file, stage, buf, now, answer, ran, told>>
    BY <1>1 DEF Wake, Goto, Alone
  <2>2. \A v \in Wakeups : stage[v] = "read" /\ pc'[v] \in {"asleep", "beat"}
                           /\ (pc'[v] # "asleep" => id'[v] = device)
    BY <2>1 DEF Typed, TypeOK, AwakeInv, Updates
  <2>3. RanKept(file, ran[device]) /\ ToldKept(file, told[device])
    BY <2>1, <2>2 DEF KeepInv
  <2>4. RanKept(file, ran[device])' /\ ToldKept(file, told[device])'
    BY <2>1, <2>3 DEF RanKept, ToldKept
  <2>5. \A v \in Wakeups : KeepRun(v)'
    BY <2>1, <2>2 DEF KeepRun, KeepInv
  <2>. QED
    BY <2>1, <2>4, <2>5 DEF KeepInv
<1>2. CASE UNCHANGED vars
  BY <1>2 DEF vars, KeepInv, KeepRun, RanKept, ToldKept, Due
<1>3. ~ClockSetBack /\ ~Rename /\ \A w \in Wakeups : ~Crash(w) /\ \A up \in Updates : ~UpdateFails(w, up)
  BY DEF Alone, ClockSetBack, Rename, Crash, UpdateFails
<1>4. ASSUME NEW w \in Wakeups, Run(w) PROVE KeepInv'
  BY <1>3, <1>4, KeepRead, KeepAsk, KeepScan, KeepUpdateRead, KeepUpdateWrite DEF Run
<1>. QED
  BY <1>1, <1>2, <1>3, <1>4, KeepTick DEF Next

-----------------------------------------------------------------------------
(* The theorems.                                                           *)

GateInv ==
    /\ Typed
    /\ "clock" \notin perils => ForwardInv
    /\ LandsAlways => LandInv
    /\ Alone => KeepInv

LEMMA PerilsStay == [Next]_vars => UNCHANGED perils
BY DEF Next, vars, Tick, ClockSetBack, TimeIs, Rename, Wake, Run, ReadState, AskForced, AskSilent,
       AskAnswered, Ask, Acquire, ScanFails, ScanDone, UpdateRead, UpdateDrop, UpdatePut, UpdateFails,
       Step, Crash

LEMMA AloneLands == Alone => LandsAlways
BY DEF Alone, LandsAlways

LEMMA ForwardInit == Init => ForwardInv
BY EmptyBacked DEF Init, ForwardInv, Backed, BackedBy

LEMMA AlwaysGateInv == Spec => []GateInv
<1>1. Init => GateInv
  BY TypedInit, ForwardInit, LandInit, KeepInit DEF GateInv
<1>2. GateInv /\ [Next]_vars => GateInv'
  <2>. SUFFICES ASSUME GateInv, [Next]_vars PROVE GateInv'
    OBVIOUS
  <2>1. Typed /\ Typed' /\ perils' = perils
    BY TypedStep, PerilsStay DEF GateInv
  <2>2. ("clock" \notin perils => ForwardInv)'
    BY <2>1, ForwardStep DEF GateInv
  <2>3. (LandsAlways => LandInv)'
    BY <2>1, LandStep DEF GateInv, LandsAlways
  <2>4. (Alone => KeepInv)'
    BY <2>1, AloneLands, KeepStep DEF GateInv, Alone
  <2>. QED
    BY <2>1, <2>2, <2>3, <2>4 DEF GateInv
<1>. QED
  BY <1>1, <1>2, PTL DEF Spec

\* TypeOK, for the run gate (rungate.go, heartbeat.go): whatever runs overlap,
\* crash or fail to write, its stamps and its cadence keep their form.
THEOREM TypeCorrect == Spec => []TypeOK
BY AlwaysTyped, PTL DEF Typed

\* SkipJustified: a wakeup goes by the cache only for an identity whose last
\* full run lies within the interval and, where every update lands, whose
\* last directive enabled gating within the staleness window
\* (internal/rungate: decideOffline; heartbeat.go: "never a wrong skip").
THEOREM SkipsAreJustified == Spec => SkipJustified
<1>1. GateInv /\ [Next]_vars =>
        [\A w \in Wakeups : answer[w] # "cached" /\ answer'[w] = "cached" =>
           /\ LandsAlways \/ "clock" \notin perils => WithinAge(ran[id[w]], Interval)
           /\ LandsAlways => WithinAge(told[id[w]], Staleness)]_vars
  BY SkipStep DEF GateInv
<1>. QED
  BY <1>1, AlwaysGateInv, PTL DEF Spec, SkipJustified

\* GateIsJust: types, justified skips and, on a device that is only ever
\* offline, a cadence that survives every rewrite of last-run.json.
THEOREM GateStaysJust == Spec => GateIsJust
<1>1. GateInv /\ [Next]_vars =>
        [\A w \in Wakeups : perils \subseteq {"offline"} /\ pc[w] = "lock" /\ pc'[w] = "scan"
           /\ answer[w] = "none" =>
              ~(WithinAge(ran[id[w]], Interval) /\ WithinAge(told[id[w]], Staleness))]_vars
  BY DEF GateInv, Alone, KeepInv, KeepRun, Due
<1>2. Spec => CadenceKept
  BY <1>1, AlwaysGateInv, PTL DEF Spec, CadenceKept
<1>. QED
  BY <1>2, TypeCorrect, SkipsAreJustified DEF GateIsJust
=============================================================================
