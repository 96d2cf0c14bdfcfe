----------------------------- MODULE HostProofs -----------------------------
(***************************************************************************)
(* Theorems about two parts of one agent that share no state: the identity *)
(* of the machine (DeviceID), for all machines, processes and numbers of   *)
(* mishaps, and the upload (UploadProtocol), for all sets of networks.     *)
(***************************************************************************)
EXTENDS DeviceID, Integers, TLAPS

CONSTANT Networks
VARIABLES upPerils, upPc, upAttempt, upExpired, upObject, upInFlight, upStored, upAnswer
Upload == INSTANCE UploadProtocol WITH
    perils <- upPerils, pc <- upPc, attempt <- upAttempt, expired <- upExpired, object <- upObject,
    inFlight <- upInFlight, stored <- upStored, answer <- upAnswer

-----------------------------------------------------------------------------
(* Every variable keeps its type.                                          *)
Pcs == {"idle", "ask", "probe", "read shared", "decide", "write", "read own", "create", "lost race", "use"}
Records == [pc : Pcs, id : Ids, hardware : BOOLEAN, stored : Ids, cached : Ids, expired : BOOLEAN, left : Int]

Typed ==
    /\ machine \in Machines /\ minted \in Nat /\ {configured, flawed, tampered} \subseteq BOOLEAN
    /\ shared \in Ids /\ own \in Ids /\ lastRun \in Ids
    /\ proc \in [Procs -> Records]
    /\ told \in [Procs -> SUBSET Ids] /\ latest \in [Procs -> Ids]

LEMMA IdsAre == {Unknown, Serial, Fallback, Planted} \subseteq Ids
BY DEF Ids

LEMMA IdsGrow ==
    ASSUME minted \in Nat, minted' = minted \/ minted' = minted + 1
    PROVE  /\ Ids \subseteq Ids' /\ minted' \in Nat
           /\ minted' = minted + 1 => Minted(minted') \in Ids'
           /\ minted' = minted => Ids' = Ids
BY DEF Ids, Minted, Unknown, Serial, Fallback, Planted

LEMMA IdleType == Typed => Idle \in Records
BY IdsAre DEF Idle, Records, Pcs

\* The types when one process moves and the identities are at most one more.
LEMMA MoveTyped ==
    ASSUME Typed, minted' = minted \/ minted' = minted + 1, UNCHANGED machine,
           {configured', flawed', tampered'} \subseteq BOOLEAN,
           NEW p \in Procs, NEW r \in Records', Set(p, r),
           shared' \in Ids', own' \in Ids', lastRun' \in Ids',
           \/ UNCHANGED told
           \/ \E T \in SUBSET Ids : told' = [told EXCEPT ![p] = T],
           \/ UNCHANGED latest
           \/ \E i \in Ids : latest' = [latest EXCEPT ![p] = i]
    PROVE  Typed'
<1>1. Ids \subseteq Ids' /\ minted' \in Nat
  BY IdsGrow DEF Typed
<1>2. Records \subseteq Records'
  BY <1>1 DEF Records
<1>3. proc' \in [Procs -> Records']
  BY <1>2 DEF Typed, Set
<1>4. told' \in [Procs -> SUBSET Ids'] /\ latest' \in [Procs -> Ids']
  BY <1>1 DEF Typed
<1>. QED
  BY <1>1, <1>3, <1>4 DEF Typed

LEMMA WhoAre == ASSUME DeviceAssumption, Typed PROVE machine.who \subseteq Procs /\ machine.goos \in {"linux", "darwin", "windows"}
    /\ machine.serial \in BOOLEAN /\ machine.fallback \in BOOLEAN /\ (machine.goos = "darwin" => ~machine.fallback)
BY DEF DeviceAssumption, Typed, Procs

LEMMA TypedStep == ASSUME DeviceAssumption PROVE Typed /\ [Next]_vars => Typed'
<1>. SUFFICES ASSUME Typed, [Next]_vars PROVE Typed'
  OBVIOUS
<1>. USE DEF world, ghosts, Keeps
<1>a. (Ids' = Ids /\ Records' = Records) \/ minted' # minted
  BY IdsGrow DEF Typed, Records
<1>b. ASSUME NEW p \in Procs PROVE proc[p] \in Records
  BY <1>b DEF Typed
<1>c. Idle \in Records /\ Unknown \in Ids /\ Serial \in Ids /\ Fallback \in Ids /\ Planted \in Ids
  BY IdleType, IdsAre
<1>1. ASSUME NEW p \in Procs, Step(p) PROVE Typed'
  <2>. USE <1>a, <1>b, <1>c, WhoAre
  <2>1. CASE Start(p)
    <3>. DEFINE r == [Idle EXCEPT !.pc = "ask", !.left = Uses]
    <3>0. \A n \in Int : [Idle EXCEPT !.pc = "ask", !.left = n] \in Records
      BY DEF Idle, Records, Pcs
    <3>a. Uses \in Int
      BY DEF DeviceAssumption
    <3>1. r \in Records
      BY <3>0, <3>a
    <3>2. r \in Records' /\ Set(p, r)
      BY <2>1, <3>1 DEF Start
    <3>. HIDE DEF r
    <3>. QED
      BY <2>1, <3>2, MoveTyped DEF Start, Typed
  <2>2. CASE Ask(p)
    <3>1. \E r \in Records : Set(p, r)
      BY <2>2 DEF Ask, Got, Set, Records, Pcs, Typed
    <3>. QED
      BY <2>2, <3>1, MoveTyped DEF Ask, Typed
  <2>3. CASE Probe(p)
    <3>1. PICK serial \in {Readable(p), FALSE}, fallback \in {machine.fallback, FALSE}, expired \in BOOLEAN :
              ProbeFinds(p, serial, fallback, expired)
      BY <2>3, Zenon DEF Probe
    <3>a. serial \in BOOLEAN /\ fallback \in BOOLEAN
      BY DEF Readable
    <3>3. Probed(serial, fallback) \in Ids
      BY DEF Probed
    <3>b. \A i \in Ids, h \in BOOLEAN, e \in BOOLEAN, q \in Pcs :
            [proc[p] EXCEPT !.id = i, !.expired = e, !.hardware = h, !.pc = q] \in Records
      BY DEF Records
    <3>c. (serial \/ machine.goos = "darwin") \in BOOLEAN
          /\ (IF Probed(serial, fallback) = Unknown THEN "read own" ELSE IF Root(p) THEN "read shared" ELSE "use") \in Pcs
      BY DEF Pcs
    <3>d. Set(p, [proc[p] EXCEPT !.id = Probed(serial, fallback), !.expired = expired,
                                 !.hardware = serial \/ machine.goos = "darwin",
                                 !.pc = IF Probed(serial, fallback) = Unknown THEN "read own"
                                        ELSE IF Root(p) THEN "read shared" ELSE "use"])
      BY <3>1, Zenon DEF ProbeFinds
    <3>4. \E r \in Records : Set(p, r)
      BY <3>b, <3>c, <3>d, <3>3, <3>a
    <3>2. flawed' \in BOOLEAN
      BY <3>1, Zenon DEF ProbeFinds
    <3>. QED
      BY <3>1, <3>4, <3>2, MoveTyped DEF ProbeFinds, Typed
  <2>4. CASE ReadShared(p)
    <3>1. \E r \in Records : Set(p, r)
      BY <2>4 DEF ReadShared, Set, Records, Pcs, Typed
    <3>. QED
      BY <2>4, <3>1, MoveTyped DEF ReadShared, Typed
  <2>5. CASE Decide(p)
    <3>1. PICK mid \in Ids :
              LET id == Kept(p, mid)
              IN  IF proc[p].stored = id THEN Got(p, id)
                  ELSE IF proc[p].hardware \/ proc[p].stored = Unknown
                       THEN Set(p, [proc[p] EXCEPT !.id = id, !.pc = "write"])
                  ELSE Got(p, proc[p].stored)
      BY <2>5 DEF Decide
    <3>3. Kept(p, mid) \in Ids /\ proc[p].stored \in Ids
      BY DEF Kept, Records
    <3>4. \E r \in Records : Set(p, r)
      <4>1. \A i \in Ids : [proc[p] EXCEPT !.pc = "use", !.id = i] \in Records
                            /\ [proc[p] EXCEPT !.id = i, !.pc = "write"] \in Records
        BY DEF Records, Pcs
      <4>. QED
        BY <3>1, <3>3, <4>1 DEF Got
    <3>2. flawed' \in BOOLEAN
      BY <2>5 DEF Decide, Typed
    <3>. QED
      BY <2>5, <3>4, <3>2, MoveTyped DEF Decide, Typed
  <2>6. CASE Write(p)
    <3>1. \E r \in Records : Set(p, r)
      BY <2>6 DEF Write, Goto, Set, Records, Pcs, Typed
    <3>2. shared' \in Ids
      BY <2>6 DEF Write, Typed, Records
    <3>. QED
      BY <2>6, <3>1, <3>2, MoveTyped DEF Write, Typed
  <2>7. CASE ReadOwn(p)
    <3>1. \E r \in Records : Set(p, r)
      BY <2>7 DEF ReadOwn, Stored, Got, Goto, Set, Records, Pcs, Typed
    <3>. QED
      BY <2>7, <3>1, MoveTyped DEF ReadOwn, Typed
  <2>8. CASE Create(p)
    <3>1. CASE minted' = minted + 1 /\ Put(p, Minted(minted')) /\ Got(p, Minted(minted'))
      <4>1. Minted(minted') \in Ids' /\ Ids \subseteq Ids'
        BY <3>1, IdsGrow DEF Typed
      <4>2. [proc[p] EXCEPT !.pc = "use", !.id = Minted(minted')] \in Records'
        BY <4>1 DEF Records, Pcs
      <4>. QED
        BY <2>8, <3>1, <4>1, <4>2, MoveTyped DEF Create, Got, Put, Typed
    <3>2. CASE UNCHANGED <<shared, own, minted>>
      <4>0. minted' # minted + 1
        BY <3>2 DEF Typed
      <4>1. Goto(p, "lost race") \/ Got(p, Unknown)
        BY <2>8, <4>0, Zenon DEF Create
      <4>2. \A i \in Ids : [proc[p] EXCEPT !.pc = "use", !.id = i] \in Records
        BY DEF Records, Pcs
      <4>3. [proc[p] EXCEPT !.pc = "lost race"] \in Records
        BY DEF Records, Pcs
      <4>. QED
        BY <2>8, <3>2, <4>1, <4>2, <4>3, MoveTyped DEF Create, Got, Goto, Typed
    <3>. QED
      BY <2>8, <3>1, <3>2 DEF Create
  <2>9. CASE LoseRace(p)
    <3>1. \E r \in Records : Set(p, r)
      BY <2>9 DEF LoseRace, Stored, Got, Set, Records, Pcs, Typed
    <3>. QED
      BY <2>9, <3>1, MoveTyped DEF LoseRace, Typed
  <2>10. CASE Use(p)
    <3>1. \E r \in Records : Set(p, r)
      <4>1. \A i \in Ids, n \in Int : [Idle EXCEPT !.cached = i, !.pc = "ask", !.left = n] \in Records
        BY DEF Records, Pcs, Idle
      <4>2. proc[p].id \in Ids /\ proc[p].left - 1 \in Int
        BY DEF Records
      <4>. QED
        BY <2>10, <4>1, <4>2 DEF Use
    <3>2. lastRun' \in Ids /\ proc[p].id \in Ids
      BY <2>10 DEF Use, Typed, Records
    <3>3. \E T \in SUBSET Ids : told' = [told EXCEPT ![p] = T]
      BY <2>10, <3>2 DEF Use, Typed
    <3>. QED
      BY <2>10, <3>1, <3>2, <3>3, MoveTyped DEF Use, Typed
  <2>. QED
    BY <1>1, <2>1, <2>2, <2>3, <2>4, <2>5, <2>6, <2>7, <2>8, <2>9, <2>10 DEF Step
<1>2. ASSUME NEW p \in Procs, Kill(p) PROVE Typed'
  <2>1. \E T \in SUBSET Ids : told' = [told EXCEPT ![p] = T]
    BY <1>2 DEF Kill
  <2>. QED
    BY <1>2, <1>a, <1>c, <2>1, MoveTyped DEF Kill, Typed
<1>3. CASE Configure
  BY <1>3, <1>a DEF Configure, Typed
<1>4. ASSUME NEW id \in {Unknown, Planted}, Tamper(id) PROVE Typed'
  BY <1>4, <1>a, <1>c DEF Tamper, Typed
<1>5. CASE UNCHANGED vars
  BY <1>5, <1>a DEF vars, Typed
<1>. QED
  BY <1>1, <1>2, <1>3, <1>4, <1>5, WhoAre DEF Next

LEMMA TypedInit == ASSUME DeviceAssumption PROVE Init => Typed
<1>. SUFFICES ASSUME Init PROVE Typed
  OBVIOUS
<1>1. {configured, flawed, tampered} \subseteq BOOLEAN
  BY DEF Init
<1>2. Unknown \in Ids /\ Serial \in Ids
  BY IdsAre
<1>3. Idle \in Records
  BY <1>2 DEF Idle, Records, Pcs
<1>. QED
  BY <1>1, <1>2, <1>3 DEF Init, Typed

-----------------------------------------------------------------------------
(* What the steps do to the record of the process that takes them.         *)
LEMMA Becomes ==
    ASSUME Typed, NEW p \in Procs, NEW r, Set(p, r)
    PROVE  proc'[p] = r
BY DEF Set, Typed

LEMMA GotIs ==
    ASSUME Typed, NEW p \in Procs, NEW i, Got(p, i)
    PROVE  /\ proc'[p].pc = "use" /\ proc'[p].id = i
           /\ proc'[p].cached = proc[p].cached /\ proc'[p].stored = proc[p].stored
<1>1. proc[p] \in Records
  BY DEF Typed
<1>2. proc'[p] = [proc[p] EXCEPT !.pc = "use", !.id = i]
  BY Becomes DEF Got
<1>. QED
  BY <1>1, <1>2 DEF Records

LEMMA GotoIs ==
    ASSUME Typed, NEW p \in Procs, NEW c, Goto(p, c)
    PROVE  /\ proc'[p].pc = c /\ proc'[p].id = proc[p].id /\ proc'[p].expired = proc[p].expired
           /\ proc'[p].cached = proc[p].cached /\ proc'[p].stored = proc[p].stored
<1>1. proc[p] \in Records
  BY DEF Typed
<1>2. proc'[p] = [proc[p] EXCEPT !.pc = c]
  BY Becomes DEF Goto
<1>. QED
  BY <1>1, <1>2 DEF Records

LEMMA AskIs ==
    ASSUME Typed, NEW p \in Procs, Ask(p)
    PROVE  /\ proc[p].pc = "ask" /\ proc'[p].cached = proc[p].cached /\ proc'[p].stored = proc[p].stored
           /\ \/ proc'[p].pc = "use" /\ proc[p].cached # Unknown /\ proc'[p].id = proc[p].cached
              \/ proc'[p].pc = "use" /\ proc[p].cached = Unknown /\ proc'[p].id = shared /\ ~Root(p)
              \/ proc'[p].pc = "probe" /\ proc[p].cached = Unknown /\ proc'[p].id = proc[p].id
<1>1. proc[p] \in Records
  BY DEF Typed
<1>2. CASE proc[p].cached # Unknown /\ Got(p, proc[p].cached)
  BY <1>2, GotIs DEF Ask, At
<1>3. CASE proc[p].cached = Unknown /\ ~Root(p) /\ Got(p, shared)
  BY <1>3, GotIs DEF Ask, At
<1>4. CASE proc[p].cached = Unknown /\ Set(p, [proc[p] EXCEPT !.pc = "probe", !.expired = FALSE])
  <2>1. proc'[p] = [proc[p] EXCEPT !.pc = "probe", !.expired = FALSE]
    BY <1>4, Becomes
  <2>. QED
    BY <1>1, <1>4, <2>1 DEF Ask, At, Records
<1>. QED
  BY <1>2, <1>3, <1>4 DEF Ask

LEMMA ProbeIs ==
    ASSUME Typed, NEW p \in Procs, NEW serial \in BOOLEAN, NEW fallback \in BOOLEAN, NEW expired \in BOOLEAN,
           ProbeFinds(p, serial, fallback, expired)
    PROVE  /\ proc'[p].id = Probed(serial, fallback) /\ proc'[p].expired = expired
           /\ proc'[p].hardware = (serial \/ machine.goos = "darwin")
           /\ proc'[p].cached = proc[p].cached /\ proc'[p].stored = proc[p].stored
           /\ proc'[p].pc = IF Probed(serial, fallback) = Unknown THEN "read own"
                            ELSE IF Root(p) THEN "read shared" ELSE "use"
<1>1. proc[p] \in Records
  BY DEF Typed
<1>2. proc'[p] = [proc[p] EXCEPT !.id = Probed(serial, fallback), !.expired = expired,
                                 !.hardware = serial \/ machine.goos = "darwin",
                                 !.pc = IF Probed(serial, fallback) = Unknown THEN "read own"
                                        ELSE IF Root(p) THEN "read shared" ELSE "use"]
  <2>1. Set(p, [proc[p] EXCEPT !.id = Probed(serial, fallback), !.expired = expired,
                               !.hardware = serial \/ machine.goos = "darwin",
                               !.pc = IF Probed(serial, fallback) = Unknown THEN "read own"
                                      ELSE IF Root(p) THEN "read shared" ELSE "use"])
    BY Zenon DEF ProbeFinds
  <2>. QED
    BY <2>1, Becomes
<1>. QED
  BY <1>1, <1>2 DEF Records

\* A run ends with what it kept, with what was stored, or writes the former.
LEMMA DecideIs ==
    ASSUME Typed, NEW p \in Procs, Decide(p)
    PROVE  \E mid \in {IF machine.fallback THEN Fallback ELSE Unknown, Unknown} :
             /\ proc[p].pc = "decide" /\ proc'[p].cached = proc[p].cached /\ proc'[p].stored = proc[p].stored
             /\ \/ proc'[p].pc = "use" /\ proc'[p].id = Kept(p, mid)
                \/ proc'[p].pc = "use" /\ proc'[p].id = proc[p].stored
                \/ /\ proc'[p].pc = "write" /\ proc'[p].id = Kept(p, mid) /\ proc[p].stored # Kept(p, mid)
                   /\ proc[p].hardware \/ proc[p].stored = Unknown
<1>1. proc[p] \in Records
  BY DEF Typed
<1>2. PICK mid \in {IF machine.fallback THEN Fallback ELSE Unknown, Unknown} :
          LET id == Kept(p, mid)
          IN  IF proc[p].stored = id THEN Got(p, id)
              ELSE IF proc[p].hardware \/ proc[p].stored = Unknown
                   THEN Set(p, [proc[p] EXCEPT !.id = id, !.pc = "write"])
              ELSE Got(p, proc[p].stored)
  BY DEF Decide
<1>. DEFINE id == Kept(p, mid)
<1>a. proc[p].pc = "decide"
  BY DEF Decide, At
<1>3. CASE Got(p, id)
  BY <1>3, <1>a, GotIs
<1>4. CASE Got(p, proc[p].stored)
  BY <1>4, <1>a, GotIs
<1>5. CASE /\ proc[p].stored # id /\ (proc[p].hardware \/ proc[p].stored = Unknown)
           /\ Set(p, [proc[p] EXCEPT !.id = id, !.pc = "write"])
  <2>. HIDE DEF id
  <2>1. proc'[p] = [proc[p] EXCEPT !.id = id, !.pc = "write"]
    BY <1>5, Becomes
  <2>2. proc'[p].pc = "write" /\ proc'[p].id = id /\ proc'[p].cached = proc[p].cached /\ proc'[p].stored = proc[p].stored
    BY <1>1, <2>1 DEF Records
  <2>. QED
    BY <1>5, <1>a, <2>2 DEF id
<1>. QED
  BY <1>2, <1>3, <1>4, <1>5

\* What is created is at once the process's own answer, where it belongs.
LEMMA CreateIs ==
    ASSUME Typed, NEW p \in Procs, Create(p)
    PROVE  /\ proc[p].pc = "create" /\ proc'[p].cached = proc[p].cached /\ proc'[p].stored = proc[p].stored
           /\ \/ /\ Stored(p) = Unknown /\ minted' = minted + 1 /\ proc'[p].pc = "use" /\ proc'[p].id = Minted(minted')
                 /\ Put(p, Minted(minted'))
              \/ proc'[p].pc \in {"use", "lost race"} /\ proc'[p].id \in {Unknown, proc[p].id} /\ UNCHANGED <<shared, own>>
                 /\ (proc'[p].pc = "use" => proc'[p].id = Unknown)
<1>a. proc[p].pc = "create"
  BY DEF Create, At
<1>1. CASE Stored(p) = Unknown /\ minted' = minted + 1 /\ Put(p, Minted(minted')) /\ Got(p, Minted(minted'))
  BY <1>1, <1>a, GotIs
<1>2. CASE Goto(p, "lost race") /\ UNCHANGED <<shared, own, minted>>
  <2>1. /\ proc'[p].pc = "lost race" /\ proc'[p].id = proc[p].id
        /\ proc'[p].cached = proc[p].cached /\ proc'[p].stored = proc[p].stored
    BY <1>2, GotoIs
  <2>. QED
    BY <1>2, <1>a, <2>1
<1>3. CASE Got(p, Unknown) /\ UNCHANGED <<shared, own, minted>>
  BY <1>3, <1>a, GotIs
<1>. QED
  BY <1>1, <1>2, <1>3 DEF Create

LEMMA ReadSharedIs ==
    ASSUME Typed, NEW p \in Procs, ReadShared(p)
    PROVE  /\ proc[p].pc = "read shared" /\ proc'[p].pc = "decide" /\ proc'[p].stored = shared
           /\ proc'[p].id = proc[p].id /\ proc'[p].hardware = proc[p].hardware /\ proc'[p].cached = proc[p].cached
<1>1. proc[p] \in Records
  BY DEF Typed
<1>2. proc[p].pc = "read shared" /\ proc'[p] = [proc[p] EXCEPT !.stored = shared, !.pc = "decide"]
  BY Becomes DEF ReadShared, At
<1>. QED
  BY <1>1, <1>2 DEF Records

LEMMA ReadOwnIs ==
    ASSUME Typed, NEW p \in Procs, ReadOwn(p)
    PROVE  /\ proc[p].pc = "read own" /\ proc'[p].cached = proc[p].cached /\ proc'[p].stored = proc[p].stored
           /\ \/ proc'[p].pc = "use" /\ proc'[p].id = Stored(p)
              \/ proc'[p].pc = "use" /\ proc'[p].id = Unknown
              \/ proc'[p].pc = "create" /\ proc'[p].id = proc[p].id /\ ~proc[p].expired
<1>a. proc[p].pc = "read own"
  BY DEF ReadOwn, At
<1>1. CASE Got(p, Stored(p))
  BY <1>1, <1>a, GotIs
<1>2. CASE Got(p, Unknown)
  BY <1>2, <1>a, GotIs
<1>3. CASE ~proc[p].expired /\ Goto(p, "create")
  <2>1. /\ proc'[p].pc = "create" /\ proc'[p].id = proc[p].id
        /\ proc'[p].cached = proc[p].cached /\ proc'[p].stored = proc[p].stored
    BY <1>3, GotoIs
  <2>. QED
    BY <1>3, <1>a, <2>1
<1>. QED
  BY <1>1, <1>2, <1>3 DEF ReadOwn

LEMMA StartsAndEnds ==
    ASSUME Typed, NEW p \in Procs, Start(p) \/ Use(p) \/ Kill(p)
    PROVE  /\ proc'[p].id = Unknown /\ proc'[p].stored = Unknown /\ proc'[p].cached \in {Unknown, proc[p].id}
           /\ proc'[p].pc \in {"idle", "ask"}
           /\ proc'[p].cached # Unknown => proc'[p].pc = "ask" /\ proc[p].pc = "use"
<1>1. CASE Start(p)
  <2>1. proc'[p] = [Idle EXCEPT !.pc = "ask", !.left = Uses]
    BY <1>1, Becomes DEF Start
  <2>. QED
    BY <2>1 DEF Idle
<1>2. CASE Use(p)
  <2>1. proc[p].pc = "use" /\ (Set(p, Idle) \/ Set(p, [Idle EXCEPT !.cached = proc[p].id, !.pc = "ask", !.left = proc[p].left - 1]))
    BY <1>2 DEF Use, At
  <2>2. proc'[p] = Idle \/ proc'[p] = [Idle EXCEPT !.cached = proc[p].id, !.pc = "ask", !.left = proc[p].left - 1]
    BY <2>1, Becomes
  <2>3. CASE proc'[p] = Idle
    BY <2>3 DEF Idle
  <2>4. CASE proc'[p] = [Idle EXCEPT !.cached = proc[p].id, !.pc = "ask", !.left = proc[p].left - 1]
    <3>1. /\ proc'[p].id = Unknown /\ proc'[p].stored = Unknown
          /\ proc'[p].cached = proc[p].id /\ proc'[p].pc = "ask"
      BY <2>4 DEF Idle
    <3>. QED
      BY <2>1, <3>1
  <2>. QED
    BY <2>2, <2>3, <2>4
<1>3. CASE Kill(p)
  <2>1. proc'[p] = Idle
    BY <1>3, Becomes DEF Kill
  <2>. QED
    BY <2>1 DEF Idle
<1>. QED
  BY <1>1, <1>2, <1>3

-----------------------------------------------------------------------------
(* One process, one identity: what a process has reported is what it       *)
(* caches, and a cached identity is asked for and used, never resolved.    *)
OneInv ==
    \A p \in Procs :
      /\ told[p] \subseteq {proc[p].cached} \ {Unknown}
      /\ proc[p].cached # Unknown => proc[p].pc \in {"ask", "use"}
      /\ proc[p].cached # Unknown /\ proc[p].pc = "use" => proc[p].id = proc[p].cached

\* What a step of p leaves alone of everyone else.
LEMMA OthersStay ==
    ASSUME NEW p \in Procs, Step(p) \/ Kill(p), Typed
    PROVE  /\ UNCHANGED machine
           /\ \A q \in Procs \ {p} : proc'[q] = proc[q] /\ told'[q] = told[q] /\ latest'[q] = latest[q]
<1>. USE DEF world, ghosts, Keeps, Set, Got, Goto, Typed
<1>1. CASE Start(p) \/ Ask(p) \/ ReadShared(p) \/ Write(p) \/ ReadOwn(p) \/ LoseRace(p)
  BY <1>1 DEF Start, Ask, ReadShared, Write, ReadOwn, LoseRace
<1>2. CASE Probe(p)
  <2>1. PICK serial, fallback, expired : ProbeFinds(p, serial, fallback, expired)
    BY <1>2, Zenon DEF Probe
  <2>. QED
    BY <2>1 DEF ProbeFinds
<1>3. CASE Decide(p)
  BY <1>3 DEF Decide
<1>4. CASE Create(p)
  BY <1>4 DEF Create
<1>5. CASE Use(p)
  BY <1>5 DEF Use
<1>6. CASE Kill(p)
  BY <1>6 DEF Kill
<1>. QED
  BY <1>1, <1>2, <1>3, <1>4, <1>5, <1>6 DEF Step

LEMMA OneStep == ASSUME DeviceAssumption PROVE Typed /\ OneInv /\ [Next]_vars => OneInv'
<1>. SUFFICES ASSUME Typed, OneInv, [Next]_vars PROVE OneInv'
  OBVIOUS
<1>. DEFINE One(p) ==
       /\ told[p] \subseteq {proc[p].cached} \ {Unknown}
       /\ proc[p].cached # Unknown => proc[p].pc \in {"ask", "use"}
       /\ proc[p].cached # Unknown /\ proc[p].pc = "use" => proc[p].id = proc[p].cached
<1>1. ASSUME NEW p \in Procs, Step(p) \/ Kill(p) PROVE One(p)'
  <2>. USE DEF Keeps, Set, Got, Goto, At
  <2>0. One(p) /\ proc[p] \in Records /\ proc \in [Procs -> Records]
        /\ told \in [Procs -> SUBSET Ids] /\ Idle.cached = Unknown
    BY DEF OneInv, Typed, Idle
  <2>1. CASE Start(p)
    <3>1. proc'[p].cached = Unknown /\ told'[p] = told[p] /\ proc[p].pc = "idle"
      BY <2>1, <2>0 DEF Start, Idle
    <3>. QED
      BY <3>1, <2>0
  <2>2. CASE Ask(p)
    <3>1. told' = told
      BY <2>2 DEF Ask
    <3>. QED
      BY <2>2, <3>1, <2>0, AskIs
  <2>3. CASE Probe(p) \/ ReadShared(p) \/ Decide(p) \/ Write(p) \/ ReadOwn(p) \/ Create(p) \/ LoseRace(p)
    <3>1. proc[p].cached = Unknown
      BY <2>3, <2>0 DEF Probe, ReadShared, Decide, Write, ReadOwn, Create, LoseRace
    <3>2. told' = told /\ proc'[p].cached = proc[p].cached
      <4>1. CASE Probe(p)
        <5>1. PICK serial, fallback, expired : ProbeFinds(p, serial, fallback, expired)
          BY <4>1, Zenon DEF Probe
        <5>. QED
          BY <5>1, <2>0 DEF ProbeFinds, Records
      <4>2. CASE ReadShared(p) \/ Write(p) \/ ReadOwn(p) \/ LoseRace(p)
        BY <4>2, <2>0 DEF ReadShared, Write, ReadOwn, LoseRace, Records
      <4>3. CASE Decide(p)
        BY <4>3, DecideIs DEF Decide
      <4>4. CASE Create(p)
        BY <4>4, CreateIs DEF Create
      <4>. QED
        BY <2>3, <4>1, <4>2, <4>3, <4>4
    <3>. QED
      BY <3>1, <3>2, <2>0
  <2>4. CASE Use(p)
    BY <2>4, <2>0 DEF Use, Records, Idle
  <2>5. CASE Kill(p)
    BY <2>5, <2>0 DEF Kill, Records, Idle
  <2>. QED
    BY <1>1, <2>1, <2>2, <2>3, <2>4, <2>5 DEF Step
<1>2. ASSUME NEW p \in Procs, Step(p) \/ Kill(p) PROVE OneInv'
  <2>1. \A q \in Procs \ {p} : One(q)'
    BY <1>2, OthersStay DEF OneInv
  <2>. QED
    BY <2>1, <1>1, <1>2 DEF OneInv
<1>3. CASE Configure \/ (\E id \in {Unknown, Planted} : Tamper(id)) \/ UNCHANGED vars
  BY <1>3 DEF Configure, Tamper, vars, OneInv
<1>. QED
  BY <1>2, <1>3, WhoAre DEF Next

-----------------------------------------------------------------------------
(* A root run about to write has probed what it writes and has seen in the *)
(* file nothing that settles the question.                                 *)
FlipInv ==
    \A p \in Procs :
      /\ proc[p].pc \in {"read shared", "decide"} =>
            proc[p].id \in {Serial, Fallback} /\ (proc[p].hardware => proc[p].id = Serial)
      /\ proc[p].pc = "write" => proc[p].id \in {Serial, Fallback} /\ ~Settled(proc[p].stored)
      /\ proc[p].pc \in {"read shared", "decide", "write"} => Root(p)

LEMMA Differ ==
    /\ Unknown # Serial /\ Unknown # Fallback /\ Serial # Fallback /\ Planted # Unknown
    /\ Unknown[1] # "minted" /\ Serial[1] # "minted" /\ Fallback[1] # "minted" /\ Planted[1] # "minted"
BY DEF Unknown, Serial, Fallback, Planted

LEMMA FlipStep == ASSUME DeviceAssumption PROVE Typed /\ FlipInv /\ [Next]_vars => FlipInv'
<1>. SUFFICES ASSUME Typed, FlipInv, [Next]_vars PROVE FlipInv'
  OBVIOUS
<1>. DEFINE Flip(p) ==
       /\ proc[p].pc \in {"read shared", "decide"} =>
             proc[p].id \in {Serial, Fallback} /\ (proc[p].hardware => proc[p].id = Serial)
       /\ proc[p].pc = "write" => proc[p].id \in {Serial, Fallback} /\ ~Settled(proc[p].stored)
       /\ proc[p].pc \in {"read shared", "decide", "write"} => Root(p)
<1>1. ASSUME NEW p \in Procs, Step(p) \/ Kill(p) PROVE Flip(p)'
  <2>0. Flip(p) /\ UNCHANGED machine
    BY <1>1, OthersStay DEF FlipInv
  <2>1. CASE Start(p) \/ Use(p) \/ Kill(p)
    BY <2>1, StartsAndEnds
  <2>2. CASE Ask(p)
    BY <2>2, AskIs
  <2>3. CASE Probe(p)
    <3>1. PICK serial \in {Readable(p), FALSE}, fallback \in {machine.fallback, FALSE}, expired \in BOOLEAN :
              ProbeFinds(p, serial, fallback, expired)
      BY <2>3, Zenon DEF Probe
    <3>2. serial \in BOOLEAN /\ fallback \in BOOLEAN
      BY <3>1, WhoAre DEF Readable
    <3>3. proc'[p].id = Probed(serial, fallback) /\ proc'[p].hardware = (serial \/ machine.goos = "darwin")
          /\ proc'[p].pc = IF Probed(serial, fallback) = Unknown THEN "read own" ELSE IF Root(p) THEN "read shared" ELSE "use"
      BY <3>1, <3>2, ProbeIs
    <3>4. CASE serial
      BY <3>3, <3>4 DEF Probed
    <3>5. CASE ~serial /\ fallback
      <4>1. machine.goos # "darwin"
        BY <3>5, <3>1, WhoAre
      <4>. QED
        BY <3>3, <3>5, <4>1 DEF Probed
    <3>6. CASE ~serial /\ ~fallback
      BY <3>3, <3>6 DEF Probed
    <3>. QED
      BY <3>4, <3>5, <3>6
  <2>4. CASE ReadShared(p)
    BY <2>4, <2>0, ReadSharedIs
  <2>5. CASE Decide(p)
    <3>1. PICK mid \in {IF machine.fallback THEN Fallback ELSE Unknown, Unknown} :
             /\ proc[p].pc = "decide" /\ proc'[p].stored = proc[p].stored
             /\ \/ proc'[p].pc = "use"
                \/ /\ proc'[p].pc = "write" /\ proc'[p].id = Kept(p, mid) /\ proc[p].stored # Kept(p, mid)
                   /\ proc[p].hardware \/ proc[p].stored = Unknown
      BY <2>5, DecideIs
    <3>2. CASE proc'[p].pc = "write"
      <4>1. proc[p].id \in {Serial, Fallback} /\ (proc[p].hardware => proc[p].id = Serial)
        BY <2>0, <3>1
      <4>2. Kept(p, mid) \in {Serial, Fallback} /\ ~Settled(proc[p].stored)
        BY <3>1, <3>2, <4>1, Differ DEF Kept, Settled
      <4>. QED
        BY <3>1, <3>2, <4>2, <2>0 DEF Settled
    <3>. QED
      BY <3>1, <3>2
  <2>6. CASE Write(p)
    <3>1. proc'[p].pc = "use"
      BY <2>6, GotoIs DEF Write
    <3>. QED
      BY <3>1
  <2>7. CASE ReadOwn(p)
    BY <2>7, ReadOwnIs
  <2>8. CASE Create(p)
    BY <2>8, CreateIs
  <2>9. CASE LoseRace(p)
    BY <2>9, GotIs DEF LoseRace
  <2>. QED
    BY <1>1, <2>1, <2>2, <2>3, <2>4, <2>5, <2>6, <2>7, <2>8, <2>9 DEF Step
<1>2. ASSUME NEW p \in Procs, Step(p) \/ Kill(p) PROVE FlipInv'
  <2>1. \A q \in Procs \ {p} : Flip(q)'
    BY <1>2, OthersStay DEF FlipInv, Settled
  <2>. QED
    BY <2>1, <1>1, <1>2 DEF FlipInv
<1>3. CASE Configure \/ (\E id \in {Unknown, Planted} : Tamper(id)) \/ UNCHANGED vars
  BY <1>3 DEF Configure, Tamper, vars, FlipInv, Settled
<1>. QED
  BY <1>2, <1>3, WhoAre DEF Next

-----------------------------------------------------------------------------
(* While no source failed by itself, a process that has one comes to       *)
(* generatedID only past its deadline, and nothing minted is in a file it  *)
(* reads: nobody mints on a machine with a source that root can read, and  *)
(* only those whom Linux hides the only serial from mint into their own.   *)
Drawn(id) == id[1] = "minted"
MintInv ==
    ~flawed =>
      /\ machine.serial \/ machine.fallback => ~Drawn(shared)
      /\ machine.fallback \/ (machine.serial /\ machine.goos # "linux") => ~Drawn(own)
      /\ \A p \in Procs : Sourced(p) =>
           /\ ~Drawn(proc[p].id) /\ ~Drawn(proc[p].stored) /\ ~Drawn(proc[p].cached)
           /\ proc[p].pc \notin {"create", "lost race"}
           /\ proc[p].pc = "read own" => proc[p].expired

LEMMA FlawedStays ==
    ASSUME NEW p \in Procs, Step(p) \/ Kill(p), flawed
    PROVE  flawed'
<1>1. CASE Probe(p)
  <2>1. PICK serial, fallback, expired : ProbeFinds(p, serial, fallback, expired)
    BY <1>1, Zenon DEF Probe
  <2>. QED
    BY <2>1, Zenon DEF ProbeFinds
<1>2. CASE Decide(p)
  BY <1>2 DEF Decide
<1>3. CASE Start(p) \/ Ask(p) \/ ReadShared(p) \/ Write(p) \/ ReadOwn(p) \/ Create(p) \/ LoseRace(p) \/ Use(p) \/ Kill(p)
  BY <1>3 DEF Start, Ask, ReadShared, Write, ReadOwn, Create, LoseRace, Use, Kill, world, ghosts
<1>. QED
  BY <1>1, <1>2, <1>3 DEF Step

LEMMA MintStep == ASSUME DeviceAssumption PROVE Typed /\ FlipInv /\ MintInv /\ [Next]_vars => MintInv'
<1>. SUFFICES ASSUME Typed, FlipInv, MintInv, [Next]_vars, ~flawed' PROVE MintInv'
  BY DEF MintInv
<1>. DEFINE Files == /\ machine.serial \/ machine.fallback => ~Drawn(shared)
                     /\ machine.fallback \/ (machine.serial /\ machine.goos # "linux") => ~Drawn(own)
            Mint(p) == Sourced(p) =>
                 /\ ~Drawn(proc[p].id) /\ ~Drawn(proc[p].stored) /\ ~Drawn(proc[p].cached)
                 /\ proc[p].pc \notin {"create", "lost race"}
                 /\ proc[p].pc = "read own" => proc[p].expired
<1>0. ~Drawn(Unknown) /\ ~Drawn(Serial) /\ ~Drawn(Fallback) /\ ~Drawn(Planted)
  BY Differ DEF Drawn
<1>1. ASSUME NEW p \in Procs, Step(p) \/ Kill(p) PROVE Mint(p)' /\ Files'
  <2>. USE <1>0 DEF world, ghosts, Keeps
  <2>0. UNCHANGED machine /\ (Sourced(p)' <=> Sourced(p))
    BY <1>1, OthersStay DEF Sourced, Readable
  <2>f. ~flawed
    BY <1>1, FlawedStays
  <2>m. Files /\ Mint(p)
    BY <2>f DEF MintInv
  <2>r. /\ Sourced(p) /\ ~Root(p) => machine.fallback \/ (machine.serial /\ machine.goos # "linux")
        /\ Root(p) => (Sourced(p) <=> machine.serial \/ machine.fallback)
        /\ Sourced(p) => machine.serial \/ machine.fallback
    BY WhoAre DEF Sourced, Readable
  <2>. HIDE DEF Mint, Files
  <2>s. UNCHANGED <<shared, own>> => Files'
    BY <2>0, <2>m DEF Files
  <2>1. CASE Start(p) \/ Use(p) \/ Kill(p)
    <3>1. UNCHANGED <<shared, own>>
      BY <2>1 DEF Start, Use, Kill
    <3>. QED
      BY <2>1, <2>0, <2>m, <2>s, <3>1, StartsAndEnds DEF Mint
  <2>2. CASE Ask(p)
    <3>1. UNCHANGED <<shared, own>>
      BY <2>2 DEF Ask
    <3>. QED
      BY <2>2, <2>0, <2>m, <2>r, <2>s, <3>1, AskIs DEF Mint, Files
  <2>3. CASE Probe(p)
    <3>1. PICK serial \in {Readable(p), FALSE}, fallback \in {machine.fallback, FALSE}, expired \in BOOLEAN :
              ProbeFinds(p, serial, fallback, expired)
      BY <2>3, Zenon DEF Probe
    <3>2. serial \in BOOLEAN /\ fallback \in BOOLEAN
      BY <3>1, WhoAre DEF Readable
    <3>3. /\ proc'[p].id = Probed(serial, fallback) /\ proc'[p].expired = expired
          /\ proc'[p].cached = proc[p].cached /\ proc'[p].stored = proc[p].stored
          /\ proc'[p].pc = IF Probed(serial, fallback) = Unknown THEN "read own" ELSE IF Root(p) THEN "read shared" ELSE "use"
      BY <3>1, <3>2, ProbeIs
    <3>4. UNCHANGED <<shared, own>>
      BY <3>1, Zenon DEF ProbeFinds
    <3>5. fallback = machine.fallback /\ (serial = Readable(p) \/ expired)
      BY <3>1, Zenon DEF ProbeFinds
    <3>6. Sourced(p) => expired \/ Probed(serial, fallback) # Unknown
      BY <3>5, <3>2, Differ DEF Sourced, Probed
    <3>7. Probed(serial, fallback) \in {Unknown, Serial, Fallback}
      BY DEF Probed
    <3>. QED
      BY <2>0, <2>m, <2>s, <3>3, <3>4, <3>6, <3>7 DEF Mint
  <2>4. CASE ReadShared(p)
    <3>1. UNCHANGED <<shared, own>>
      BY <2>4 DEF ReadShared
    <3>. QED
      BY <2>4, <2>0, <2>m, <2>r, <2>s, <3>1, ReadSharedIs DEF Mint, Files
  <2>5. CASE Decide(p)
    <3>1. UNCHANGED <<shared, own>>
      BY <2>5 DEF Decide
    <3>2. PICK mid \in {IF machine.fallback THEN Fallback ELSE Unknown, Unknown} :
             /\ proc'[p].cached = proc[p].cached /\ proc'[p].stored = proc[p].stored
             /\ proc'[p].pc \in {"use", "write"} /\ proc'[p].id \in {Kept(p, mid), proc[p].stored}
      BY <2>5, DecideIs
    <3>3. Kept(p, mid) \in {proc[p].id, proc[p].stored, Fallback, Unknown}
      BY <3>2 DEF Kept
    <3>. QED
      BY <2>0, <2>m, <2>s, <3>1, <3>2, <3>3 DEF Mint
  <2>6. CASE Write(p)
    <3>1. /\ proc'[p].pc = "use" /\ proc'[p].id = proc[p].id
          /\ proc'[p].cached = proc[p].cached /\ proc'[p].stored = proc[p].stored
      BY <2>6, GotoIs DEF Write
    <3>2. shared' \in {shared, proc[p].id} /\ UNCHANGED own
      BY <2>6 DEF Write
    <3>3. Root(p)
      BY <2>6 DEF Write, FlipInv, At
    <3>. QED
      BY <2>0, <2>m, <2>r, <3>1, <3>2, <3>3 DEF Mint, Files
  <2>7. CASE ReadOwn(p)
    <3>1. UNCHANGED <<shared, own>>
      BY <2>7 DEF ReadOwn
    <3>2. Sourced(p) => ~Drawn(Stored(p))
      BY <2>m, <2>r DEF Stored, Files
    <3>. QED
      BY <2>7, <2>0, <2>m, <2>s, <3>1, <3>2, ReadOwnIs DEF Mint
  <2>8. CASE Create(p)
    <3>1. ~Sourced(p)
      BY <2>8, <2>m, CreateIs DEF Mint
    <3>2. Root(p) => UNCHANGED own
      BY <2>8, CreateIs DEF Put
    <3>3. ~Root(p) => UNCHANGED shared
      BY <2>8, CreateIs DEF Put
    <3>4. Files'
      BY <2>0, <2>m, <2>r, <3>1, <3>2, <3>3, WhoAre DEF Files, Sourced, Readable
    <3>. QED
      BY <2>0, <3>1, <3>4 DEF Mint
  <2>9. CASE LoseRace(p)
    <3>1. ~Sourced(p) /\ UNCHANGED <<shared, own>>
      BY <2>9, <2>m DEF Mint, LoseRace, At
    <3>. QED
      BY <2>0, <2>s, <3>1 DEF Mint
  <2>. QED
    BY <1>1, <2>1, <2>2, <2>3, <2>4, <2>5, <2>6, <2>7, <2>8, <2>9 DEF Step
<1>2. ASSUME NEW p \in Procs, Step(p) \/ Kill(p) PROVE MintInv'
  <2>0. UNCHANGED machine
    BY <1>2, OthersStay
  <2>f. ~flawed
    BY <1>2, FlawedStays
  <2>1. \A q \in Procs \ {p} : Mint(q)'
    BY <1>2, <2>0, <2>f, OthersStay DEF MintInv, Sourced, Readable
  <2>2. Mint(p)' /\ Files'
    BY <1>1, <1>2
  <2>. QED
    BY <2>1, <2>2 DEF MintInv
<1>3. CASE UNCHANGED vars
  BY <1>3 DEF vars, ghosts, MintInv, Sourced, Readable
<1>4. CASE Configure
  BY <1>4 DEF Configure, ghosts, MintInv, Sourced, Readable
<1>5. ASSUME NEW id \in {Unknown, Planted}, Tamper(id) PROVE MintInv'
  <2>1. UNCHANGED <<machine, own, proc, flawed>> /\ ~Drawn(shared')
    BY <1>5, <1>0 DEF Tamper
  <2>. QED
    BY <2>1 DEF MintInv, Sourced, Readable
<1>. QED
  BY <1>2, <1>3, <1>4, <1>5, WhoAre DEF Next

-----------------------------------------------------------------------------
(* On a machine without a source nobody writes but who creates, so what is *)
(* once in a file stays there, and a process knows nothing that is not in  *)
(* a file it reads.                                                        *)
Sourceless == ~machine.serial /\ ~machine.fallback /\ ~tampered
KnownTo(p) == {Unknown, shared} \union (IF Root(p) THEN {} ELSE {own})
StoredInv ==
    Sourceless => \A p \in Procs :
      /\ proc[p].pc \notin {"read shared", "decide", "write"}
      /\ proc[p].id \in KnownTo(p) /\ proc[p].cached \in KnownTo(p) /\ latest[p] \in KnownTo(p)

LEMMA StoredStep == ASSUME DeviceAssumption PROVE Typed /\ StoredInv /\ [Next]_vars => StoredInv'
<1>. SUFFICES ASSUME Typed, StoredInv, [Next]_vars, Sourceless' PROVE StoredInv'
  BY DEF StoredInv
<1>. DEFINE Known(p) ==
       /\ proc[p].pc \notin {"read shared", "decide", "write"}
       /\ proc[p].id \in KnownTo(p) /\ proc[p].cached \in KnownTo(p) /\ latest[p] \in KnownTo(p)
            Lasting == (shared = Unknown \/ UNCHANGED shared) /\ (own = Unknown \/ UNCHANGED own)
<1>1. ASSUME NEW p \in Procs, Step(p) \/ Kill(p) PROVE Sourceless /\ Lasting /\ Known(p)'
  <2>. USE DEF world, ghosts, Keeps
  <2>0. UNCHANGED machine /\ Unknown \in KnownTo(p)'
    BY <1>1, OthersStay DEF KnownTo
  <2>t. ~tampered
    <3>1. CASE Probe(p)
      <4>1. PICK serial, fallback, expired : ProbeFinds(p, serial, fallback, expired)
        BY <3>1, Zenon DEF Probe
      <4>. QED
        BY <4>1, Zenon DEF ProbeFinds, Sourceless
    <3>2. CASE Decide(p)
      BY <3>2 DEF Decide, Sourceless
    <3>3. CASE Start(p) \/ Ask(p) \/ ReadShared(p) \/ Write(p) \/ ReadOwn(p) \/ Create(p) \/ LoseRace(p) \/ Use(p) \/ Kill(p)
      BY <3>3 DEF Start, Ask, ReadShared, Write, ReadOwn, Create, LoseRace, Use, Kill, Sourceless
    <3>. QED
      BY <1>1, <3>1, <3>2, <3>3 DEF Step
  <2>m. Sourceless /\ Known(p)
    BY <2>0, <2>t DEF StoredInv, Sourceless
  <2>. HIDE DEF Known, Lasting
  <2>s. UNCHANGED <<shared, own>> => Lasting /\ KnownTo(p)' = KnownTo(p)
    BY DEF Lasting, KnownTo
  <2>1. CASE Start(p) \/ Kill(p)
    <3>1. UNCHANGED <<shared, own, latest>>
      BY <2>1 DEF Start, Kill
    <3>. QED
      BY <2>1, <2>0, <2>m, <2>s, <3>1, StartsAndEnds DEF Known
  <2>2. CASE Use(p)
    <3>1. UNCHANGED <<shared, own>> /\ latest'[p] = proc[p].id
      BY <2>2 DEF Use, Typed
    <3>. QED
      BY <2>2, <2>0, <2>m, <2>s, <3>1, StartsAndEnds DEF Known
  <2>3. CASE Ask(p)
    <3>1. UNCHANGED <<shared, own, latest>>
      BY <2>3 DEF Ask
    <3>2. shared \in KnownTo(p)
      BY DEF KnownTo
    <3>. QED
      BY <2>3, <2>m, <2>s, <3>1, <3>2, AskIs DEF Known
  <2>4. CASE Probe(p)
    <3>1. PICK serial \in {Readable(p), FALSE}, fallback \in {machine.fallback, FALSE}, expired \in BOOLEAN :
              ProbeFinds(p, serial, fallback, expired)
      BY <2>4, Zenon DEF Probe
    <3>2. serial = FALSE /\ fallback = FALSE
      <4>1. machine.serial = FALSE /\ machine.fallback = FALSE
        BY <2>m, WhoAre DEF Sourceless
      <4>2. Readable(p) = FALSE
        BY <4>1 DEF Readable
      <4>. QED
        BY <3>1, <4>1, <4>2
    <3>3. proc'[p].id = Unknown /\ proc'[p].cached = proc[p].cached /\ proc'[p].pc = "read own"
      BY <3>1, <3>2, ProbeIs DEF Probed
    <3>4. UNCHANGED <<shared, own, latest>>
      BY <3>1, Zenon DEF ProbeFinds
    <3>. QED
      BY <2>0, <2>m, <2>s, <3>3, <3>4 DEF Known
  <2>5. CASE ReadShared(p) \/ Decide(p) \/ Write(p)
    BY <2>5, <2>m DEF ReadShared, Decide, Write, At, Known
  <2>6. CASE ReadOwn(p)
    <3>1. UNCHANGED <<shared, own, latest>>
      BY <2>6 DEF ReadOwn
    <3>2. Stored(p) \in KnownTo(p)
      BY DEF Stored, KnownTo
    <3>. QED
      BY <2>6, <2>0, <2>m, <2>s, <3>1, <3>2, ReadOwnIs DEF Known
  <2>7. CASE Create(p)
    <3>1. UNCHANGED latest
      BY <2>7 DEF Create
    <3>2. Lasting
      BY <2>7, CreateIs DEF Lasting, Put, Stored
    <3>3. KnownTo(p) \subseteq KnownTo(p)'
      BY <3>2 DEF Lasting, KnownTo
    <3>4. proc'[p].id \in KnownTo(p)'
      BY <2>7, <2>0, <2>m, <3>3, CreateIs DEF Known, Put, KnownTo
    <3>5. proc'[p].pc \in {"use", "lost race"} /\ proc'[p].cached = proc[p].cached
      BY <2>7, CreateIs
    <3>. QED
      BY <2>m, <3>1, <3>2, <3>3, <3>4, <3>5 DEF Known
  <2>8. CASE LoseRace(p)
    <3>1. UNCHANGED <<shared, own, latest>>
      BY <2>8 DEF LoseRace
    <3>2. Stored(p) \in KnownTo(p)
      BY DEF Stored, KnownTo
    <3>3. proc'[p].pc = "use" /\ proc'[p].id = Stored(p) /\ proc'[p].cached = proc[p].cached
      BY <2>8, GotIs DEF LoseRace
    <3>. QED
      BY <2>m, <2>s, <3>1, <3>2, <3>3 DEF Known
  <2>. QED
    BY <1>1, <2>m, <2>1, <2>2, <2>3, <2>4, <2>5, <2>6, <2>7, <2>8 DEF Step
<1>2. ASSUME NEW p \in Procs, Step(p) \/ Kill(p) PROVE StoredInv'
  <2>1. Sourceless /\ Lasting /\ Known(p)'
    BY <1>1, <1>2
  <2>2. \A q \in Procs \ {p} : Known(q)'
    BY <1>2, <2>1, OthersStay DEF StoredInv, KnownTo
  <2>. QED
    BY <2>1, <2>2 DEF StoredInv
<1>3. CASE Configure \/ UNCHANGED vars
  BY <1>3 DEF Configure, vars, ghosts, StoredInv, Sourceless, KnownTo
<1>4. CASE \E id \in {Unknown, Planted} : Tamper(id)
  BY <1>4 DEF Tamper, Sourceless
<1>. QED
  BY <1>2, <1>3, <1>4, WhoAre DEF Next

-----------------------------------------------------------------------------
Inv == Typed /\ OneInv /\ FlipInv /\ MintInv /\ StoredInv

LEMMA InvInit == ASSUME DeviceAssumption PROVE Init => Inv
<1>. SUFFICES ASSUME Init PROVE Inv
  OBVIOUS
<1>1. Typed
  BY TypedInit
<1>2. \A p \in Procs : proc[p] = Idle /\ told[p] = {} /\ latest[p] = Unknown
  BY DEF Init
<1>3. /\ Idle.pc = "idle" /\ Idle.id = Unknown /\ Idle.stored = Unknown /\ Idle.cached = Unknown
  BY DEF Idle
<1>4. OneInv /\ FlipInv
  BY <1>2, <1>3 DEF OneInv, FlipInv
<1>5. MintInv
  BY <1>2, <1>3, Differ DEF MintInv, Drawn, Init
<1>6. StoredInv
  BY <1>2, <1>3 DEF StoredInv, KnownTo
<1>. QED
  BY <1>1, <1>4, <1>5, <1>6 DEF Inv

LEMMA AlwaysInv == ASSUME DeviceAssumption PROVE Spec => []Inv
<1>1. Inv /\ [Next]_vars => Inv'
  BY TypedStep, OneStep, FlipStep, MintStep, StoredStep DEF Inv
<1>. QED
  BY InvInit, <1>1, PTL DEF Spec

\* What several steps of several processes could break: the gate, the scan
\* and the hooks of a process report one identity, a deadline makes nobody
\* mint, and racing mints end with what is in a file (internal/device/id.go).
THEOREM IdentitiesAgree == ASSUME DeviceAssumption PROVE Spec => []IdentityAgreed
<1>1. Inv => TypeOK
  <2>. SUFFICES ASSUME Typed PROVE TypeOK
    BY DEF Inv
  <2>1. \A p \in Procs : proc[p] \in Records /\ told[p] \subseteq Ids /\ latest[p] \in Ids
    BY DEF Typed
  <2>2. \A p \in Procs : {proc[p].id, proc[p].cached, proc[p].stored, latest[p]} \subseteq Ids
    BY <2>1 DEF Records
  <2>. QED
    BY <2>1, <2>2 DEF TypeOK, Typed
<1>2. Inv => OnePerProcess
  BY DEF Inv, OneInv, OnePerProcess, At
<1>3. Inv => NoMintOnTimeout
  BY DEF Inv, OneInv, MintInv, NoMintOnTimeout, Drawn
<1>4. Inv => MintedIsStored
  BY DEF Inv, OneInv, StoredInv, MintedIsStored, Sourceless, KnownTo
<1>5. Inv => IdentityAgreed
  BY <1>1, <1>2, <1>3, <1>4 DEF IdentityAgreed
<1>. QED
  BY AlwaysInv, <1>5, PTL

\* A root run never displaces an identity it has seen in the shared file by
\* a lesser one (resolveID, keepReportedLinuxID).
THEOREM IdentityNeverFlips == ASSUME DeviceAssumption PROVE Spec => NoFlip
<1>. DEFINE Respects == \A p \in Procs :
         At(p, "write") /\ ~At(p, "write")' /\ shared' # shared /\ shared = proc[p].stored
            => ~Settled(shared) /\ shared'[1] # "minted"
<1>1. Inv /\ [Next]_vars => Respects
  <2>. SUFFICES ASSUME Inv, [Next]_vars, NEW p \in Procs, At(p, "write"), ~At(p, "write")',
                       shared' # shared, shared = proc[p].stored
                PROVE  ~Settled(shared) /\ shared'[1] # "minted"
    OBVIOUS
  <2>1. Typed /\ proc[p].id \in {Serial, Fallback} /\ ~Settled(proc[p].stored)
    BY DEF Inv, FlipInv, At
  <2>2. Step(p)
    <3>1. ~(UNCHANGED proc)
      BY DEF At
    <3>2. PICK q \in Procs : Step(q) \/ Kill(q)
      BY <3>1, <2>1, WhoAre DEF Next, vars, Configure, Tamper
    <3>3. q = p
      BY <3>2, <2>1, OthersStay DEF At
    <3>. QED
      BY <3>2, <3>3 DEF Kill
  <2>3. Write(p)
    BY <2>2, <2>1 DEF Step, At, Start, Ask, Probe, ReadShared, Decide, ReadOwn, Create, LoseRace, Use
  <2>. QED
    BY <2>1, <2>3, Differ DEF Write
<1>. QED
  BY AlwaysInv, <1>1, PTL DEF Spec, NoFlip

-----------------------------------------------------------------------------
(* The upload.  Every variable keeps its type.                             *)
USE DEF Upload!uploadURLAttempts, Upload!maxRetries, Upload!notifyAttempts

\* What a failed try leaves, for the limit of the request it retries.
LEMMA RetryTyped ==
    ASSUME Upload!TypeOK, NEW step \in {"url", "put", "notify"},
           NEW limit, limit = (CASE step = "url"    -> Upload!uploadURLAttempts
                                 [] step = "notify" -> Upload!notifyAttempts
                                 [] OTHER           -> Upload!maxRetries),
           upPc = step \/ (upPc = "confirm" /\ step = "put"), Upload!RetryOrFail(step, limit)
    PROVE  \/ upPc' = step /\ upAttempt' \in 1 .. limit /\ upAnswer' = "none"
           \/ upPc' = "done" /\ upAttempt' \in 1 .. limit /\ upAnswer' = "error"
BY DEF Upload!RetryOrFail, Upload!Return, Upload!TypeOK

LEMMA UploadTypeInit == Upload!Init => Upload!TypeOK
<1>. SUFFICES ASSUME Upload!Init PROVE Upload!TypeOK
  OBVIOUS
<1>1. {upExpired, upObject, upInFlight, upStored} \subseteq BOOLEAN
  BY Zenon DEF Upload!Init
<1>. QED
  BY <1>1 DEF Upload!Init, Upload!TypeOK

LEMMA UploadTypeStep == Upload!TypeOK /\ [Upload!Next]_(Upload!vars) => Upload!TypeOK'
<1>. SUFFICES ASSUME Upload!TypeOK, [Upload!Next]_(Upload!vars) PROVE Upload!TypeOK'
  OBVIOUS
<1>1. CASE Upload!Expire
  BY <1>1 DEF Upload!TypeOK, Upload!Expire
<1>2. ASSUME NEW r \in {"ok", "refused", "lost", "broken"}, Upload!RequestURL(r) PROVE Upload!TypeOK'
  <2>1. \/ upPc' \in {"url", "put"} /\ upAttempt' \in 1 .. 3 /\ upAnswer' = "none"
        \/ upPc' = "done" /\ upAttempt' \in 1 .. 3 /\ upAnswer' = "error"
    <3>1. CASE r = "ok"
      BY <1>2, <3>1 DEF Upload!RequestURL, Upload!Goto, Upload!TypeOK
    <3>2. CASE r \in {"refused", "lost", "broken"} /\ Upload!Return("error")
      BY <1>2, <3>2 DEF Upload!RequestURL, Upload!Return, Upload!TypeOK
    <3>3. CASE Upload!RetryOrFail("url", Upload!uploadURLAttempts)
      BY <1>2, <3>3, RetryTyped DEF Upload!RequestURL
    <3>. QED
      BY <1>2, <3>1, <3>2, <3>3 DEF Upload!RequestURL
  <2>. QED
    BY <1>2, <2>1 DEF Upload!TypeOK, Upload!RequestURL
<1>3. ASSUME NEW r \in {"ok", "error", "lost", "proxy"}, Upload!Put(r) PROVE Upload!TypeOK'
  <2>1. \/ upPc' = "notify" /\ upAttempt' = 1 /\ upAnswer' = "none"
        \/ upPc' \in {"put", "confirm"} /\ upAttempt' \in 1 .. 3 /\ upAnswer' = "none"
        \/ upPc' = "done" /\ upAttempt' \in 1 .. 3 /\ upAnswer' = "error"
    BY <1>3, RetryTyped DEF Upload!Put, Upload!Goto, Upload!TypeOK
  <2>2. upObject' \in BOOLEAN /\ upInFlight' \in BOOLEAN
    BY <1>3 DEF Upload!Put, Upload!Deliver, Upload!TypeOK
  <2>. QED
    BY <1>3, <2>1, <2>2 DEF Upload!TypeOK, Upload!Put
<1>4. ASSUME NEW r \in {"confirmed", "missing", "unsupported", "indeterminate"}, Upload!Confirm(r)
      PROVE  Upload!TypeOK'
  <2>1. \/ upPc' = "notify" /\ upAttempt' = 1 /\ upAnswer' = "none"
        \/ upPc' = "put" /\ upAttempt' \in 1 .. 3 /\ upAnswer' = "none"
        \/ upPc' = "done" /\ upAttempt' \in 1 .. 3 /\ upAnswer' = "error"
    BY <1>4, RetryTyped DEF Upload!Confirm, Upload!Goto, Upload!TypeOK
  <2>. QED
    BY <1>4, <2>1 DEF Upload!TypeOK, Upload!Confirm
<1>5. ASSUME NEW s \in {"processed", "queued", "rejected"}, Upload!NotifyAnswered(s) PROVE Upload!TypeOK'
  <2>1. upStored' \in BOOLEAN
    BY <1>5 DEF Upload!TypeOK, Upload!NotifyAnswered, Upload!Ingest
  <2>. QED
    BY <1>5, <2>1 DEF Upload!TypeOK, Upload!NotifyAnswered, Upload!Return
<1>6. ASSUME NEW r \in {"5xx", "4xx", "lost"}, Upload!NotifyFails(r) PROVE Upload!TypeOK'
  <2>1. \/ upPc' = "notify" /\ upAttempt' \in 1 .. 2 /\ upAnswer' = "none"
        \/ upPc' = "done" /\ upAttempt' \in 1 .. 2 /\ upAnswer' = "error"
    BY <1>6, RetryTyped DEF Upload!NotifyFails, Upload!Return, Upload!TypeOK
  <2>. QED
    BY <1>6, <2>1 DEF Upload!TypeOK, Upload!NotifyFails, Upload!Ingest
<1>7. CASE Upload!Land \/ Upload!LateStore \/ UNCHANGED Upload!vars
  BY <1>7 DEF Upload!TypeOK, Upload!Land, Upload!LateStore, Upload!vars
<1>. QED
  BY <1>1, <1>2, <1>3, <1>4, <1>5, <1>6, <1>7 DEF Upload!Next, Upload!Step

\* No request is tried more often than its limit, and there is an answer
\* exactly when the upload is over (uploadToS3, postWithRetry).
THEOREM UploadTypeCorrect == Upload!Spec => []Upload!TypeOK
BY UploadTypeInit, UploadTypeStep, PTL DEF Upload!Spec

-----------------------------------------------------------------------------
(* What the backend persisted came from the bucket, and nothing leaves the *)
(* bucket again; with a backend that can be asked, the agent notifies only *)
(* of an object that is there.                                             *)
ObjectInv ==
    /\ upStored => upObject
    /\ Upload!UploadedMeansObject

LEMMA ObjectStep == Upload!TypeOK /\ ObjectInv /\ [Upload!Next]_(Upload!vars) => ObjectInv'
<1>. SUFFICES ASSUME Upload!TypeOK, ObjectInv, [Upload!Next]_(Upload!vars) PROVE ObjectInv'
  OBVIOUS
<1>. USE DEF ObjectInv, Upload!UploadedMeansObject
<1>1. ASSUME NEW r \in {"ok", "refused", "lost", "broken"}, Upload!RequestURL(r) PROVE ObjectInv'
  BY <1>1 DEF Upload!RequestURL, Upload!Goto, Upload!Return, Upload!RetryOrFail, Upload!TypeOK
<1>2. ASSUME NEW r \in {"ok", "error", "lost", "proxy"}, Upload!Put(r) PROVE ObjectInv'
  <2>1. upObject => upObject'
    BY <1>2 DEF Upload!Put, Upload!Deliver
  <2>2. upAnswer' \in {"none", "error"} /\ (upPc' = "notify" => r = "ok")
    BY <1>2 DEF Upload!Put, Upload!Goto, Upload!Return, Upload!RetryOrFail, Upload!TypeOK
  <2>3. r = "ok" => upObject'
    BY <1>2 DEF Upload!Put, Upload!Deliver
  <2>. QED
    BY <1>2, <2>1, <2>2, <2>3 DEF Upload!Put
<1>3. ASSUME NEW r \in {"confirmed", "missing", "unsupported", "indeterminate"}, Upload!Confirm(r)
      PROVE  ObjectInv'
  BY <1>3 DEF Upload!Confirm, Upload!Goto, Upload!Return, Upload!RetryOrFail, Upload!TypeOK
<1>4. ASSUME NEW s \in {"processed", "queued", "rejected"}, Upload!NotifyAnswered(s) PROVE ObjectInv'
  BY <1>4 DEF Upload!NotifyAnswered, Upload!Ingest, Upload!Return, Upload!TypeOK
<1>5. ASSUME NEW r \in {"5xx", "4xx", "lost"}, Upload!NotifyFails(r) PROVE ObjectInv'
  BY <1>5 DEF Upload!NotifyFails, Upload!Ingest, Upload!Return, Upload!RetryOrFail, Upload!TypeOK
<1>6. CASE Upload!Expire \/ Upload!Land \/ Upload!LateStore \/ UNCHANGED Upload!vars
  BY <1>6 DEF Upload!Expire, Upload!Land, Upload!LateStore, Upload!vars
<1>. QED
  BY <1>1, <1>2, <1>3, <1>4, <1>5, <1>6 DEF Upload!Next, Upload!Step

LEMMA AlwaysObject == Upload!Spec => [](Upload!TypeOK /\ ObjectInv)
<1>1. Upload!Init => Upload!TypeOK /\ ObjectInv
  BY UploadTypeInit DEF Upload!Init, ObjectInv, Upload!UploadedMeansObject
<1>2. Upload!TypeOK /\ ObjectInv /\ [Upload!Next]_(Upload!vars) => (Upload!TypeOK /\ ObjectInv)'
  BY UploadTypeStep, ObjectStep
<1>. QED
  BY <1>1, <1>2, PTL DEF Upload!Spec

\* Whatever answers in place of S3, and however many tries are lost, the run
\* reports as uploaded only a payload that is in the bucket, if the backend
\* can be asked (telemetry.go:1731-1770).
THEOREM UploadedIsThere == Upload!Spec => [](Upload!TypeOK /\ Upload!UploadedMeansObject)
<1>1. ObjectInv => Upload!UploadedMeansObject
  BY DEF ObjectInv
<1>. QED
  BY <1>1, AlwaysObject, PTL

-----------------------------------------------------------------------------
(* Refinement: each step of the protocol is one step of UploadOutcome, or  *)
(* none.                                                                   *)

\* A request that fails before the notification concludes at most an error.
LEMMA FailureConcludes ==
    ASSUME Upload!TypeOK, upPc # "done", UNCHANGED upStored, upAnswer' \in {"none", "error"}
    PROVE  [Upload!Outcome!Next]_(Upload!Outcome!vars)
BY DEF Upload!TypeOK, Upload!Outcome!Next, Upload!Outcome!Conclude, Upload!Outcome!Answers, Upload!Outcome!vars

LEMMA OutcomeStep == Upload!TypeOK /\ ObjectInv /\ [Upload!Next]_(Upload!vars) => [Upload!Outcome!Next]_(Upload!Outcome!vars)
<1>. SUFFICES ASSUME Upload!TypeOK, ObjectInv, [Upload!Next]_(Upload!vars) PROVE [Upload!Outcome!Next]_(Upload!Outcome!vars)
  OBVIOUS
<1>1. ASSUME NEW r \in {"ok", "refused", "lost", "broken"}, Upload!RequestURL(r)
      PROVE  [Upload!Outcome!Next]_(Upload!Outcome!vars)
  BY <1>1, FailureConcludes DEF Upload!RequestURL, Upload!Goto, Upload!Return, Upload!RetryOrFail, Upload!TypeOK
<1>2. ASSUME NEW r \in {"ok", "error", "lost", "proxy"}, Upload!Put(r)
      PROVE  [Upload!Outcome!Next]_(Upload!Outcome!vars)
  BY <1>2, FailureConcludes DEF Upload!Put, Upload!Goto, Upload!Return, Upload!RetryOrFail, Upload!TypeOK
<1>3. ASSUME NEW r \in {"confirmed", "missing", "unsupported", "indeterminate"}, Upload!Confirm(r)
      PROVE  [Upload!Outcome!Next]_(Upload!Outcome!vars)
  BY <1>3, FailureConcludes DEF Upload!Confirm, Upload!Goto, Upload!Return, Upload!RetryOrFail, Upload!TypeOK
<1>4. ASSUME NEW s \in {"processed", "queued", "rejected"}, Upload!NotifyAnswered(s)
      PROVE  [Upload!Outcome!Next]_(Upload!Outcome!vars)
  <2>1. upAnswer = "none" /\ upAnswer' = s
    BY <1>4 DEF Upload!NotifyAnswered, Upload!Return, Upload!TypeOK
  <2>2. CASE s = "processed"
    BY <1>4, <2>1, <2>2 DEF Upload!NotifyAnswered, Upload!Ingest, Upload!Outcome!Next, Upload!Outcome!Conclude, Upload!Outcome!Answers
  <2>3. CASE s = "rejected"
    BY <1>4, <2>1, <2>3 DEF Upload!NotifyAnswered, Upload!Ingest, Upload!Outcome!Next, Upload!Outcome!Conclude, Upload!Outcome!Answers,
                            Upload!TypeOK
  <2>4. CASE s = "queued"
    <3>1. upStored' \in {upStored, TRUE}
      BY <1>4, <2>4 DEF Upload!NotifyAnswered, Upload!Ingest, ObjectInv, Upload!TypeOK
    <3>. QED
      BY <2>1, <2>4, <3>1 DEF Upload!Outcome!Next, Upload!Outcome!Conclude, Upload!Outcome!Answers
  <2>. QED
    BY <2>2, <2>3, <2>4
<1>5. ASSUME NEW r \in {"5xx", "4xx", "lost"}, Upload!NotifyFails(r)
      PROVE  [Upload!Outcome!Next]_(Upload!Outcome!vars)
  <2>1. upAnswer = "none" /\ upAnswer' \in {"none", "error"}
    BY <1>5 DEF Upload!NotifyFails, Upload!Return, Upload!RetryOrFail, Upload!TypeOK
  <2>2. upStored' \in {upStored, TRUE}
    BY <1>5 DEF Upload!NotifyFails, Upload!Ingest, ObjectInv, Upload!TypeOK
  <2>3. CASE upAnswer' = "error"
    BY <2>1, <2>2, <2>3 DEF Upload!Outcome!Next, Upload!Outcome!Conclude, Upload!Outcome!Answers
  <2>4. CASE upAnswer' = "none"
    BY <2>1, <2>2, <2>4 DEF Upload!Outcome!Next, Upload!Outcome!Store, Upload!Outcome!vars
  <2>. QED
    BY <2>1, <2>3, <2>4
<1>6. CASE Upload!LateStore
  BY <1>6 DEF Upload!LateStore, Upload!Outcome!Next, Upload!Outcome!Store
<1>7. CASE Upload!Expire \/ Upload!Land \/ UNCHANGED Upload!vars
  BY <1>7 DEF Upload!Expire, Upload!Land, Upload!vars, Upload!Outcome!vars
<1>. QED
  BY <1>1, <1>2, <1>3, <1>4, <1>5, <1>6, <1>7 DEF Upload!Next, Upload!Step

\* The caller of uploadToS3 may conclude exactly what UploadOutcome promises:
\* "processed" only of a stored payload, "rejected" only of one that is not
\* stored and never will be, however many notifications were lost before.
THEOREM OutcomeIsHonest == Upload!Spec => Upload!ImplementsOutcome
<1>1. Upload!Init => Upload!Outcome!Init
  BY DEF Upload!Init, Upload!Outcome!Init
<1>. QED
  BY <1>1, OutcomeStep, AlwaysObject, PTL DEF Upload!Spec, Upload!ImplementsOutcome, Upload!Outcome!Spec
=============================================================================
