------------------------- MODULE PackagePolicyProofs -------------------------
(***************************************************************************)
(* Theorems about PackagePolicy.                                           *)
(***************************************************************************)
EXTENDS PackagePolicy, SequenceTheorems, TLAPS

-----------------------------------------------------------------------------
(* What the constants and the small operators are.                         *)

ClientFiles == {"pip", "uv", "env"}

LEMMA ClientsAre ==
    ASSUME NEW l \in Lanes
    PROVE  /\ Clients[l] = (IF l = "pypi" THEN {"pip", "uv"} ELSE {"env"})
           /\ Clients[l] \subseteq ClientFiles /\ Clients[Other(l)] \subseteq ClientFiles
           /\ Clients[l] \cap Clients[Other(l)] = {}
           /\ Other(l) \in Lanes /\ Other(l) # l
BY DEF Clients, Lanes, Other, ClientFiles

LEMMA FilesAre == Files \ {"netrc"} = ClientFiles /\ Files = ClientFiles \union {"netrc"}
BY DEF Files, ClientFiles

LEMMA RanksAre ==
    /\ Rank("compliant") = 1 /\ Rank("drift") = 2 /\ Rank("not_applied") = 3
    /\ Rank("write_failed") = 4 /\ Rank("verification_failed") = 5
<1>. DOMAIN Ranked = 1..5 /\ Ranked[1] = "compliant" /\ Ranked[2] = "drift" /\ Ranked[3] = "not_applied"
     /\ Ranked[4] = "write_failed" /\ Ranked[5] = "verification_failed"
  BY DEF Ranked
<1>. QED
  BY DEF Rank

States == {"compliant", "drift", "not_applied", "write_failed", "verification_failed"}
Good   == {"compliant", "drift"}

\* The worst of several states is a success only if all of them are.
LEMMA WorstCounts ==
    ASSUME NEW S \in SUBSET States, S # {}, Succeeded(Aggregate(S))
    PROVE  S \subseteq Good
<1>1. \A s \in States : Rank(s) \in 1..5 /\ (s \in Good <=> Rank(s) <= 2)
  BY RanksAre DEF States, Good
<1>2. \E s \in S : \A t \in S : Rank(t) <= Rank(s)
  <2>1. CASE "verification_failed" \in S
    BY <2>1, RanksAre DEF States
  <2>2. CASE "verification_failed" \notin S /\ "write_failed" \in S
    BY <2>2, RanksAre DEF States
  <2>3. CASE S \subseteq {"compliant", "drift", "not_applied"} /\ "not_applied" \in S
    BY <2>3, RanksAre DEF States
  <2>4. CASE S \subseteq {"compliant", "drift"} /\ "drift" \in S
    BY <2>4, RanksAre DEF States
  <2>5. CASE S = {"compliant"}
    BY <2>5, RanksAre DEF States
  <2>. QED
    BY <2>1, <2>2, <2>3, <2>4, <2>5 DEF States
<1>3. /\ Aggregate(S) \in S /\ \A t \in S : Rank(t) <= Rank(Aggregate(S))
  BY <1>2 DEF Aggregate
<1>4. Aggregate(S) \in Good
  BY DEF Succeeded, Good
<1>. QED
  BY <1>1, <1>3, <1>4

-----------------------------------------------------------------------------
(* The tasks of a cycle.                                                   *)

Tasks     == [op : {"apply", "clear", "settle", "report", "release"}, f : Files]
SettleIt  == Task("settle", "netrc")
ReportIt  == Task("report", "netrc")
Work(l, S) ==
    {Task("apply", "netrc")} \union {Task("apply", c) : c \in S}
        \union {Task("clear", c) : c \in Clients[l] \ S}
ClearWork(l) == {Task("release", "netrc")} \union {Task("clear", c) : c \in Clients[l]}

Has(s, t) == \E i \in DOMAIN s : s[i] = t

\* Work that is nowhere twice, then the settlement, then the report; or as
\* much of that as is left.
EnforceShape(s, l, S) ==
    /\ s \in Seq(Tasks)
    /\ \A i \in 1 .. Len(s) :
         /\ i = Len(s) => s[i] = ReportIt
         /\ i = Len(s) - 1 => s[i] = SettleIt
         /\ i < Len(s) - 1 => s[i] \in Work(l, S)
    /\ \A i, j \in 1 .. Len(s) : s[i] = s[j] => i = j

LEMMA TaskIs ==
    ASSUME NEW op, NEW f, NEW op2, NEW f2
    PROVE  Task(op, f) = Task(op2, f2) <=> op = op2 /\ f = f2
<1>1. Task(op, f).op = op /\ Task(op, f).f = f /\ Task(op2, f2).op = op2 /\ Task(op2, f2).f = f2
  BY DEF Task
<1>. QED
  BY <1>1

LEMMA TailIs ==
    ASSUME NEW s \in Seq(Tasks), s # <<>>
    PROVE  /\ Tail(s) \in Seq(Tasks) /\ Len(Tail(s)) = Len(s) - 1 /\ Len(s) \in Nat /\ Len(s) >= 1
           /\ \A i \in 1 .. Len(Tail(s)) : Tail(s)[i] = s[i + 1]
           /\ Head(s) = s[1] /\ Head(s) \in Tasks
OBVIOUS

LEMMA EmptyIs == ASSUME NEW s \in Seq(Tasks), Len(s) = 0 PROVE s = <<>>
BY EmptySeq

LEMMA TailHas ==
    ASSUME NEW s \in Seq(Tasks), s # <<>>, NEW t
    PROVE  Has(s, t) <=> (Head(s) = t \/ Has(Tail(s), t))
<1>1. ASSUME Has(s, t), Head(s) # t PROVE Has(Tail(s), t)
  <2>1. PICK i \in DOMAIN s : s[i] = t
    BY <1>1 DEF Has
  <2>2. i \in 1 .. Len(s) /\ i # 1
    BY <1>1, <2>1, TailIs
  <2>3. i - 1 \in 1 .. Len(Tail(s)) /\ Tail(s)[i - 1] = t
    BY <2>1, <2>2, TailIs
  <2>. QED
    BY <2>3, TailIs DEF Has
<1>2. ASSUME Has(Tail(s), t) PROVE Has(s, t)
  <2>1. PICK i \in DOMAIN Tail(s) : Tail(s)[i] = t
    BY <1>2 DEF Has
  <2>2. i + 1 \in DOMAIN s /\ s[i + 1] = t
    BY <2>1, TailIs
  <2>. QED
    BY <2>2 DEF Has
<1>3. ASSUME Head(s) = t PROVE Has(s, t)
  <2>1. 1 \in DOMAIN s /\ s[1] = t
    BY <1>3, TailIs
  <2>. QED
    BY <2>1 DEF Has
<1>. QED
  BY <1>1, <1>2, <1>3

\* What the head of the tasks says of the rest.
LEMMA ShapeTells ==
    ASSUME NEW s, NEW l \in Lanes, NEW S \in SUBSET Clients[l], EnforceShape(s, l, S), s # <<>>
    PROVE  /\ Head(s) \in Work(l, S) \union {SettleIt, ReportIt}
           /\ Head(s) = ReportIt => Tail(s) = <<>> /\ ~Has(s, SettleIt)
           /\ Head(s) # ReportIt => Has(s, SettleIt) /\ Tail(s) # <<>>
           /\ Head(s) \in {SettleIt, ReportIt} => \A t \in Work(l, S) : ~Has(s, t)
           /\ Head(s) = SettleIt => ~Has(Tail(s), SettleIt)
           /\ ~Has(Tail(s), Head(s))
           /\ EnforceShape(Tail(s), l, S)
<1>. DEFINE n == Len(s)
<1>1. /\ s \in Seq(Tasks) /\ n \in Nat /\ n >= 1 /\ Head(s) = s[1] /\ DOMAIN s = 1 .. n
      /\ Tail(s) \in Seq(Tasks) /\ Len(Tail(s)) = n - 1 /\ \A i \in 1 .. (n - 1) : Tail(s)[i] = s[i + 1]
  BY TailIs DEF EnforceShape
<1>2. /\ SettleIt # ReportIt /\ SettleIt \notin Work(l, S) /\ ReportIt \notin Work(l, S)
  BY TaskIs DEF SettleIt, ReportIt, Work
<1>0. /\ \A i \in 1 .. n : /\ i = n => s[i] = ReportIt
                           /\ i = n - 1 => s[i] = SettleIt
                           /\ i < n - 1 => s[i] \in Work(l, S)
      /\ \A i, j \in 1 .. n : s[i] = s[j] => i = j
  BY DEF EnforceShape
<1>. HIDE DEF n
<1>3. /\ n = 1 => s[1] = ReportIt
      /\ n = 2 => s[1] = SettleIt
      /\ n > 2 => s[1] \in Work(l, S)
      /\ n > 1 => s[n - 1] = SettleIt /\ (n - 1) \in 1 .. n
  <2>1. 1 \in 1 .. n /\ (n > 1 => n - 1 \in 1 .. n)
    BY <1>1
  <2>. QED
    BY <1>0, <1>1, <2>1
<1>4. Head(s) = ReportIt => Tail(s) = <<>> /\ ~Has(s, SettleIt)
  <2>. SUFFICES ASSUME Head(s) = ReportIt PROVE Tail(s) = <<>> /\ ~Has(s, SettleIt)
    OBVIOUS
  <2>1. n = 1
    BY <1>1, <1>2, <1>3
  <2>2. Tail(s) = <<>>
    <3>1. Tail(s) \in Seq(Tasks) /\ Len(Tail(s)) = 0
      BY <1>1, <2>1
    <3>. QED
      BY <3>1, EmptyIs
  <2>3. ~Has(s, SettleIt)
    BY <1>0, <1>1, <1>2, <2>1 DEF Has
  <2>. QED
    BY <2>2, <2>3
<1>5. Head(s) # ReportIt => Has(s, SettleIt) /\ Tail(s) # <<>>
  <2>. SUFFICES ASSUME Head(s) # ReportIt PROVE Has(s, SettleIt) /\ Tail(s) # <<>>
    OBVIOUS
  <2>1. n > 1
    BY <1>1, <1>3
  <2>2. Len(Tail(s)) # 0 /\ Len(<<>>) = 0
    BY <1>1, <2>1
  <2>. QED
    BY <1>1, <1>3, <2>1, <2>2 DEF Has
<1>6. Head(s) \in {SettleIt, ReportIt} => \A t \in Work(l, S) : ~Has(s, t)
  <2>. SUFFICES ASSUME Head(s) \in {SettleIt, ReportIt}, NEW t \in Work(l, S), NEW i \in 1 .. n, s[i] = t PROVE FALSE
    BY <1>1 DEF Has
  <2>1. n <= 2
    BY <1>1, <1>2, <1>3
  <2>2. s[i] \in {SettleIt, ReportIt}
    BY <1>0, <1>1, <2>1
  <2>. QED
    BY <1>2, <2>2
<1>7. ~Has(Tail(s), Head(s))
  <2>. SUFFICES ASSUME NEW i \in 1 .. (n - 1), Tail(s)[i] = s[1] PROVE FALSE
    BY <1>1 DEF Has
  <2>1. s[i + 1] = s[1] /\ i + 1 \in 1 .. n /\ 1 \in 1 .. n /\ i + 1 # 1
    BY <1>1
  <2>. QED
    BY <1>0, <2>1
<1>8. EnforceShape(Tail(s), l, S)
  <2>. DEFINE r == Tail(s)
  <2>1. ASSUME NEW i \in 1 .. (n - 1)
        PROVE  /\ i + 1 \in 1 .. n /\ r[i] = s[i + 1]
               /\ i = n - 1 => r[i] = ReportIt
               /\ i = n - 2 => r[i] = SettleIt
               /\ i < n - 2 => r[i] \in Work(l, S)
    <3>1. i + 1 \in 1 .. n /\ r[i] = s[i + 1] /\ i \in Nat
      BY <1>1
    <3>. QED
      BY <1>0, <1>1, <3>1
  <2>2. ASSUME NEW i \in 1 .. (n - 1), NEW j \in 1 .. (n - 1), r[i] = r[j] PROVE i = j
    <3>1. i + 1 = j + 1
      BY <1>0, <2>1, <2>2
    <3>. QED
      BY <1>1, <3>1
  <2>3. Len(r) = n - 1 /\ r \in Seq(Tasks)
    BY <1>1
  <2>. HIDE DEF r
  <2>. QED
    BY <2>1, <2>2, <2>3, <1>1 DEF EnforceShape
<1>. QED
  BY <1>1, <1>3, <1>4, <1>5, <1>6, <1>7, <1>8

LEMMA ReportAlone ==
    ASSUME NEW l \in Lanes, NEW S \in SUBSET Clients[l]
    PROVE  EnforceShape(<<ReportIt>>, l, S) /\ EnforceShape(<<>>, l, S)
BY DEF EnforceShape, ReportIt, Tasks, Task, Files

\* Lists of tasks that are joined.
List(s) == s \in Seq(Tasks) /\ \A i, j \in 1 .. Len(s) : s[i] = s[j] => i = j

LEMMA SmallLists ==
    /\ List(<<>>) /\ \A t : ~Has(<<>>, t)
    /\ \A x \in Tasks : List(<<x>>) /\ \A t : Has(<<x>>, t) <=> t = x
BY DEF List, Has

LEMMA Joined ==
    ASSUME NEW s, NEW r, List(s), List(r), \A t : ~(Has(s, t) /\ Has(r, t))
    PROVE  /\ List(s \o r)
           /\ \A t : Has(s \o r, t) <=> Has(s, t) \/ Has(r, t)
           /\ Len(s) \in Nat /\ Len(r) \in Nat /\ Len(s \o r) = Len(s) + Len(r)
           /\ \A i \in 1 .. Len(s) : (s \o r)[i] = s[i]
           /\ \A i \in 1 .. Len(r) : (s \o r)[Len(s) + i] = r[i]
<1>. DEFINE j == s \o r
            m == Len(s)
            n == Len(r)
<1>1. s \in Seq(Tasks) /\ r \in Seq(Tasks) /\ m \in Nat /\ n \in Nat /\ DOMAIN s = 1 .. m /\ DOMAIN r = 1 .. n
  BY DEF List
<1>2. j \in Seq(Tasks) /\ Len(j) = m + n /\ DOMAIN j = 1 .. (m + n)
  BY <1>1
<1>3. \A i \in 1 .. m : j[i] = s[i]
  BY <1>1
<1>4. \A i \in 1 .. n : j[m + i] = r[i]
  BY <1>1
<1>5. \A i \in 1 .. (m + n) : i \in 1 .. m \/ (i - m \in 1 .. n /\ j[i] = r[i - m])
  <2>. TAKE i \in 1 .. (m + n)
  <2>1. CASE i <= m
    BY <1>1, <2>1
  <2>2. CASE i > m
    <3>1. i - m \in 1 .. n /\ m + (i - m) = i
      BY <1>1, <2>2
    <3>. QED
      BY <1>4, <3>1
  <2>. QED
    BY <1>1, <2>1, <2>2
<1>. HIDE DEF j, m, n
<1>6. \A t : Has(j, t) <=> Has(s, t) \/ Has(r, t)
  <2>. TAKE t
  <2>1. ASSUME NEW i \in 1 .. (m + n), j[i] = t PROVE Has(s, t) \/ Has(r, t)
    BY <1>1, <1>3, <1>5, <2>1 DEF Has
  <2>2. ASSUME NEW i \in 1 .. m, s[i] = t PROVE Has(j, t)
    <3>1. i \in 1 .. (m + n) /\ j[i] = t
      BY <1>1, <1>3, <2>2
    <3>. QED
      BY <1>2, <3>1 DEF Has
  <2>3. ASSUME NEW i \in 1 .. n, r[i] = t PROVE Has(j, t)
    <3>1. m + i \in 1 .. (m + n) /\ j[m + i] = t
      BY <1>1, <1>4, <2>3
    <3>. QED
      BY <1>2, <3>1 DEF Has
  <2>. QED
    BY <1>1, <1>2, <2>1, <2>2, <2>3 DEF Has
<1>7. ASSUME NEW a \in 1 .. (m + n), NEW b \in 1 .. (m + n), j[a] = j[b] PROVE a = b
  <2>1. CASE a \in 1 .. m /\ b \in 1 .. m
    BY <1>1, <1>3, <1>7, <2>1 DEF List, m
  <2>2. CASE a \in 1 .. m /\ b \notin 1 .. m
    <3>1. Has(s, j[a]) /\ Has(r, j[a])
      BY <1>1, <1>3, <1>5, <1>7, <2>2 DEF Has
    <3>. QED
      BY <3>1
  <2>3. CASE a \notin 1 .. m /\ b \in 1 .. m
    <3>1. Has(s, j[a]) /\ Has(r, j[a])
      BY <1>1, <1>3, <1>5, <1>7, <2>3 DEF Has
    <3>. QED
      BY <3>1
  <2>4. CASE a \notin 1 .. m /\ b \notin 1 .. m
    <3>1. a - m \in 1 .. n /\ b - m \in 1 .. n /\ r[a - m] = r[b - m]
      BY <1>5, <1>7, <2>4
    <3>2. a - m = b - m
      BY <3>1 DEF List, n
    <3>. QED
      BY <1>1, <3>2
  <2>. QED
    BY <2>1, <2>2, <2>3, <2>4
<1>8. List(j)
  BY <1>2, <1>7 DEF List
<1>. QED
  BY <1>1, <1>2, <1>3, <1>4, <1>6, <1>8 DEF j, m, n

LEMMA EachIs ==
    ASSUME NEW op \in {"apply", "clear"}, NEW S \in SUBSET ClientFiles
    PROVE  List(Each(op, S)) /\ \A t : Has(Each(op, S), t) <=> t \in {Task(op, c) : c \in S}
<1>. DEFINE One(c) == IF c \in S THEN <<Task(op, c)>> ELSE <<>>
<1>1. \A c \in ClientFiles : Task(op, c) \in Tasks
  BY DEF Task, Tasks, Files, ClientFiles
<1>2. ASSUME NEW c \in ClientFiles
      PROVE  List(One(c)) /\ \A t : Has(One(c), t) <=> (c \in S /\ t = Task(op, c))
  BY <1>1, SmallLists
<1>3. Each(op, S) = (One("pip") \o One("uv")) \o One("env")
  BY DEF Each
<1>4. {"pip", "uv", "env"} = ClientFiles
  BY DEF ClientFiles
<1>. HIDE DEF One
<1>5. /\ List(One("pip") \o One("uv"))
      /\ \A t : Has(One("pip") \o One("uv"), t) <=> Has(One("pip"), t) \/ Has(One("uv"), t)
  <2>1. \A t : ~(Has(One("pip"), t) /\ Has(One("uv"), t))
    BY <1>2, <1>4, TaskIs
  <2>. QED
    BY <1>2, <1>4, <2>1, Joined
<1>6. /\ List(Each(op, S))
      /\ \A t : Has(Each(op, S), t) <=> Has(One("pip"), t) \/ Has(One("uv"), t) \/ Has(One("env"), t)
  <2>1. \A t : ~(Has(One("pip") \o One("uv"), t) /\ Has(One("env"), t))
    BY <1>2, <1>4, <1>5, TaskIs
  <2>. QED
    BY <1>2, <1>3, <1>4, <1>5, <2>1, Joined
<1>. QED
  BY <1>2, <1>4, <1>6

\* What an enforcement begins with.
LEMMA EnforceTasksAre ==
    ASSUME NEW l \in Lanes, want[l] \in SUBSET Clients[l]
    PROVE  /\ EnforceShape(EnforceTasks(l), l, want[l])
           /\ \A t \in Work(l, want[l]) : Has(EnforceTasks(l), t)
           /\ Has(EnforceTasks(l), SettleIt)
           /\ EnforceTasks(l) # <<>> /\ Head(EnforceTasks(l)) = Task("apply", "netrc")
<1>. DEFINE a == <<Task("apply", "netrc")>>
            b == Each("clear", Clients[l] \ want[l])
            c == Each("apply", want[l])
            d == <<SettleIt, ReportIt>>
            s == EnforceTasks(l)
<1>1. s = ((a \o b) \o c) \o d
  BY DEF EnforceTasks, SettleIt, ReportIt
<1>2. /\ List(a) /\ \A t : Has(a, t) <=> t = Task("apply", "netrc")
      /\ List(d) /\ \A t : Has(d, t) <=> t \in {SettleIt, ReportIt}
      /\ Len(a) = 1 /\ Len(d) = 2 /\ d[1] = SettleIt /\ d[2] = ReportIt
  <2>1. Task("apply", "netrc") \in Tasks /\ SettleIt \in Tasks /\ ReportIt \in Tasks
    BY DEF SettleIt, ReportIt, Tasks, Task, Files
  <2>2. SettleIt # ReportIt
    BY TaskIs DEF SettleIt, ReportIt
  <2>. HIDE DEF SettleIt, ReportIt
  <2>3. List(d) /\ \A t : Has(d, t) <=> t \in {SettleIt, ReportIt}
    BY <2>1, <2>2 DEF List, Has
  <2>. QED
    BY <2>1, <2>3, SmallLists
<1>3. /\ List(b) /\ \A t : Has(b, t) <=> t \in {Task("clear", f) : f \in Clients[l] \ want[l]}
      /\ List(c) /\ \A t : Has(c, t) <=> t \in {Task("apply", f) : f \in want[l]}
  BY ClientsAre, EachIs
<1>4. "netrc" \notin want[l]
  BY ClientsAre DEF ClientFiles
<1>. HIDE DEF a, b, c, d, s
<1>5. List(a \o b) /\ \A t : Has(a \o b, t) <=> Has(a, t) \/ Has(b, t)
  BY <1>2, <1>3, TaskIs, Joined
<1>6. List((a \o b) \o c) /\ \A t : Has((a \o b) \o c, t) <=> t \in Work(l, want[l])
  <2>1. \A t : ~(Has(a \o b, t) /\ Has(c, t))
    BY <1>2, <1>3, <1>4, <1>5, TaskIs
  <2>2. List((a \o b) \o c) /\ \A t : Has((a \o b) \o c, t) <=> Has(a \o b, t) \/ Has(c, t)
    BY <1>3, <1>5, <2>1, Joined
  <2>. QED
    BY <1>2, <1>3, <1>5, <2>2 DEF Work
<1>. DEFINE w == (a \o b) \o c
<1>7. /\ List(s) /\ \A t : Has(s, t) <=> Has(w, t) \/ Has(d, t)
      /\ Len(w) \in Nat /\ Len(s) = Len(w) + 2
      /\ \A i \in 1 .. Len(w) : s[i] = w[i]
      /\ s[Len(w) + 1] = SettleIt /\ s[Len(w) + 2] = ReportIt
  <2>1. \A t : ~(Has(w, t) /\ Has(d, t))
    BY <1>2, <1>6, TaskIs DEF SettleIt, ReportIt, Work
  <2>. HIDE DEF w
  <2>2. /\ List(w \o d) /\ \A t : Has(w \o d, t) <=> Has(w, t) \/ Has(d, t)
        /\ Len(w) \in Nat /\ Len(d) \in Nat /\ Len(w \o d) = Len(w) + Len(d)
        /\ \A i \in 1 .. Len(w) : (w \o d)[i] = w[i]
        /\ \A i \in 1 .. Len(d) : (w \o d)[Len(w) + i] = d[i]
    BY <1>2, <1>6, <2>1, Joined DEF w
  <2>3. s = w \o d
    BY <1>1 DEF w
  <2>4. 1 \in 1 .. Len(d) /\ 2 \in 1 .. Len(d)
    BY <1>2
  <2>. QED
    BY <1>2, <2>2, <2>3, <2>4
<1>8. EnforceShape(s, l, want[l])
  <2>1. \A i \in 1 .. Len(w) : w[i] \in Work(l, want[l])
    <3>. TAKE i \in 1 .. Len(w)
    <3>1. Has(w, w[i])
      BY <1>6 DEF List, Has
    <3>. QED
      BY <1>6, <3>1
  <2>2. s \in Seq(Tasks)
    BY <1>7 DEF List
  <2>. HIDE DEF w
  <2>3. ASSUME NEW i \in 1 .. Len(s)
        PROVE  /\ i = Len(s) => s[i] = ReportIt
               /\ i = Len(s) - 1 => s[i] = SettleIt
               /\ i < Len(s) - 1 => s[i] \in Work(l, want[l])
    <3>1. i < Len(s) - 1 => i \in 1 .. Len(w)
      BY <1>7
    <3>. QED
      BY <1>7, <2>1, <3>1
  <2>. QED
    BY <1>7, <2>2, <2>3 DEF EnforceShape, List
<1>9. s # <<>> /\ Head(s) = Task("apply", "netrc")
  <2>1. 1 \in 1 .. Len(w) /\ w[1] = a[1]
    <3>1. Len(a \o b) >= 1 /\ (a \o b)[1] = a[1] /\ Len(a \o b) \in Nat
      BY <1>2, <1>3, TaskIs, Joined
    <3>2. \A t : ~(Has(a \o b, t) /\ Has(c, t))
      BY <1>2, <1>3, <1>4, <1>5, TaskIs
    <3>3. /\ Len(w) = Len(a \o b) + Len(c) /\ Len(c) \in Nat
          /\ \A i \in 1 .. Len(a \o b) : w[i] = (a \o b)[i]
      BY <1>3, <1>5, <3>2, Joined
    <3>4. 1 \in 1 .. Len(a \o b)
      BY <3>1
    <3>. QED
      BY <3>1, <3>3, <3>4
  <2>2. a[1] = Task("apply", "netrc")
    BY DEF a
  <2>. HIDE DEF w
  <2>3. s \in Seq(Tasks) /\ Len(s) >= 1
    BY <1>7 DEF List
  <2>4. s # <<>>
    BY <2>3
  <2>. QED
    BY <1>7, <2>1, <2>2, <2>3, <2>4, TailIs
<1>. QED
  BY <1>2, <1>6, <1>7, <1>8, <1>9 DEF s

LEMMA ClearTasksAre ==
    ASSUME NEW l \in Lanes
    PROVE  ClearTasks(l) \in Seq(Tasks) /\ \A t : Has(ClearTasks(l), t) <=> t \in ClearWork(l)
<1>. DEFINE a == Each("clear", Clients[l])
            b == <<Task("release", "netrc")>>
<1>1. List(a) /\ \A t : Has(a, t) <=> t \in {Task("clear", c) : c \in Clients[l]}
  BY ClientsAre, EachIs
<1>2. List(b) /\ \A t : Has(b, t) <=> t = Task("release", "netrc")
  <2>1. Task("release", "netrc") \in Tasks
    BY DEF Tasks, Task, Files
  <2>. QED
    BY <2>1, SmallLists
<1>. HIDE DEF a, b
<1>3. List(a \o b) /\ \A t : Has(a \o b, t) <=> Has(a, t) \/ Has(b, t)
  BY <1>1, <1>2, TaskIs, Joined
<1>4. ClearTasks(l) = a \o b
  BY DEF ClearTasks, a, b
<1>. QED
  BY <1>1, <1>2, <1>3, <1>4 DEF ClearWork, List

-----------------------------------------------------------------------------
(* The types of the variables.                                             *)

Hashes    == [clients : SUBSET Files, tok : Toks]
Creds     == Toks \union {0}
Undos     == [held : Creds, drift : BOOLEAN] \union [held : Blocks, drift : BOOLEAN]
CycleType ==
    [lane : Lanes, todo : Seq(Tasks), hash : Hashes, host : BOOLEAN, was : BOOLEAN, found : Creds,
     prior : Hashes \union {None}, states : SUBSET States, inForce : SUBSET Files,
     undo : Undos \union {None}, touched : SUBSET (Files \union {"store"})]

TypeOK ==
    /\ want \in [Lanes -> (SUBSET ClientFiles) \union {None}]
    /\ \A l \in Lanes : want[l] # None => want[l] \subseteq Clients[l]
    /\ tok \in Toks /\ cred \in Creds /\ block \in [ClientFiles -> Blocks]
    /\ mood \in [Files -> Moods \union {"ok"}] /\ storeOk \in BOOLEAN
    /\ rec \in [Owners -> Hashes \union {None}]
    /\ run \in CycleType \union {Idle} /\ DOMAIN report = Lanes /\ turn \in Lanes

LEMMA IdleIs == ASSUME NEW r \in CycleType PROVE r # Idle /\ None \notin Lanes
BY PackagePolicyAssumption DEF CycleType, Idle

LEMMA UndosAre == None \notin Undos
BY PackagePolicyAssumption DEF Undos, Creds, Blocks

LEMMA HashesAre == None \notin Hashes
BY PackagePolicyAssumption DEF Hashes

LEMMA CredsAre == Toks \subseteq Nat \ {0} /\ 0 \notin Toks
BY PackagePolicyAssumption

LEMMA StatesAre ==
    /\ \A f, s : Observed(f, s) \in {s, "not_applied"}
    /\ \A s : Succeeded(s) <=> s \in Good
    /\ Good \subseteq States /\ {"not_applied", "write_failed", "verification_failed"} = States \ Good
BY DEF Observed, Succeeded, Good, States

\* The file that the task at hand works on, and what may be put there.
Holdable(f) == IF f = "netrc" THEN Creds ELSE Blocks

LEMMA HoldsIs ==
    ASSUME TypeOK, NEW f \in Files
    PROVE  /\ Holds(f) \in Holdable(f) /\ Empty(f) \in Holdable(f)
           /\ run \in CycleType => Wanted(f) \in Holdable(f) /\ run.hash \in Hashes
           /\ \A d \in BOOLEAN : [held |-> Holds(f), drift |-> d] \in Undos
BY DEF TypeOK, Holds, Empty, Wanted, Holdable, Files, ClientFiles, Blocks, Creds, CycleType, Hashes, Undos

LEMMA SetFileType ==
    ASSUME TypeOK, NEW f \in Files, NEW v \in Holdable(f), SetFile(f, v)
    PROVE  /\ cred' \in Creds /\ block' \in [ClientFiles -> Blocks]
           /\ f = "netrc" => cred' = v /\ block' = block
           /\ f # "netrc" => cred' = cred /\ block'[f] = v /\ \A c \in ClientFiles : c # f => block'[c] = block[c]
BY DEF TypeOK, SetFile, Holdable, Files, ClientFiles

\* What a finished task makes of the cycle.
After(r, f, s) ==
    IF r.hash.clients = {} /\ s \notin Good /\ r.lane = "go" THEN <<>>
    ELSE IF f = "netrc" /\ s \notin Good /\ r.hash.clients # {} THEN <<ReportIt>>
    ELSE Tail(r.todo)

LEMMA DoneIs ==
    ASSUME run \in CycleType, run.todo # <<>>, NEW f \in Files, NEW s \in States, NEW on \in SUBSET Files,
           Done(f, s, on)
    PROVE  /\ run' \in CycleType
           /\ run'.lane = run.lane /\ run'.hash = run.hash /\ run'.was = run.was /\ run'.found = run.found
           /\ run'.touched = run.touched /\ run'.undo = None
           /\ run'.inForce = run.inForce \union on
           /\ run.states \subseteq run'.states /\ s \in run'.states
           /\ s \in Good => run'.states = run.states \union {s}
           /\ run'.todo = After(run, f, s)
<1>. DEFINE S == run.states \union {s} \union (IF f = "netrc" /\ ~Succeeded(s) THEN {"not_applied"} ELSE {})
<1>1. run' = [run EXCEPT !.states = S, !.inForce = run.inForce \union on, !.undo = None, !.todo = After(run, f, s)]
  BY StatesAre DEF Done, After, Clearing, ReportIt
<1>2. After(run, f, s) \in Seq(Tasks)
  <2>1. Tail(run.todo) \in Seq(Tasks) /\ ReportIt \in Tasks
    BY TailIs DEF CycleType, ReportIt, Task, Tasks, Files
  <2>. QED
    BY <2>1 DEF After
<1>3. S \in SUBSET States /\ run.states \subseteq S /\ s \in S /\ (s \in Good => S = run.states \union {s})
  BY StatesAre DEF CycleType
<1>. HIDE DEF S
<1>. QED
  BY <1>1, <1>2, <1>3 DEF CycleType

\* An unwritten file is put back as it was.
HeldOK(r) ==
    r.undo # None /\ r.todo # <<>> /\ Head(r.todo).op = "apply" => r.undo.held \in Holdable(Head(r.todo).f)

Typed == TypeOK /\ (run # Idle => HeldOK(run))

LEMMA CycleIs ==
    ASSUME TypeOK, NEW l \in Lanes, want[l] # None, NEW todo \in Seq(Tasks)
    PROVE  Cycle(l, todo) \in CycleType
<1>1. Hash(l) \in Hashes
  BY ClientsAre DEF TypeOK, Hash, Hashes, ClientFiles, Files
<1>2. HostKnown(l) \in BOOLEAN /\ (cred = tok) \in BOOLEAN
  BY DEF HostKnown
<1>3. rec[CredOf(l)] \in Hashes \union {None}
  BY DEF TypeOK, CredOf, Owners, LaneFiles, Lanes
<1>. QED
  BY <1>1, <1>2, <1>3 DEF Cycle, TypeOK, CycleType, Creds

\* The task at hand.
LEMMA NowIs ==
    ASSUME TypeOK, NEW op, NEW f, Now(op, f)
    PROVE  /\ run \in CycleType /\ run.todo # <<>> /\ Head(run.todo) = Task(op, f)
           /\ Head(run.todo).op = op /\ Head(run.todo).f = f
BY DEF TypeOK, Now, Task

\* A file is written or emptied, and the cycle remembers what it held.
LEMMA WrittenIs ==
    ASSUME TypeOK, run \in CycleType, NEW u \in Undos, NEW T \in SUBSET (Files \union {"store"}),
           run' = [run EXCEPT !.undo = u, !.touched = T]
    PROVE  /\ run' \in CycleType
           /\ run'.lane = run.lane /\ run'.hash = run.hash /\ run'.was = run.was /\ run'.found = run.found
           /\ run'.touched = T /\ run'.undo = u /\ run'.inForce = run.inForce /\ run'.states = run.states
           /\ run'.todo = run.todo
BY DEF CycleType

LEMMA StopIs ==
    ASSUME run \in CycleType, Stop
    PROVE  /\ run' \in CycleType
           /\ run'.lane = run.lane /\ run'.hash = run.hash /\ run'.was = run.was /\ run'.found = run.found
           /\ run'.touched = run.touched /\ run'.undo = run.undo /\ run'.inForce = run.inForce
           /\ run'.states = run.states /\ run'.todo = <<>>
<1>1. run' = [run EXCEPT !.todo = <<>>] /\ <<>> \in Seq(Tasks)
  BY DEF Stop
<1>. QED
  BY <1>1 DEF CycleType

LEMMA NoticeIs ==
    ASSUME TypeOK, NEW S \in SUBSET (Files \union {"store"}), Notice(S)
    PROVE  /\ run' \in CycleType \union {Idle}
           /\ run' = Idle <=> run = Idle
           /\ run # Idle =>
                /\ run'.lane = run.lane /\ run'.hash = run.hash /\ run'.was = run.was /\ run'.found = run.found
                /\ run'.touched = run.touched \union S /\ run'.undo = run.undo /\ run'.inForce = run.inForce
                /\ run'.states = run.states /\ run'.todo = run.todo
<1>1. CASE run = Idle
  BY <1>1 DEF Notice
<1>2. CASE run # Idle
  <2>1. run \in CycleType /\ run' = [run EXCEPT !.touched = run.touched \union S]
    BY <1>2 DEF TypeOK, Notice
  <2>2. run' \in CycleType
    BY <2>1 DEF CycleType
  <2>. QED
    BY <1>2, <2>1, <2>2, IdleIs DEF CycleType
<1>. QED
  BY <1>1, <1>2

LEMMA RecordType ==
    ASSUME TypeOK, run \in CycleType, NEW f \in Files, NEW h \in Hashes \union {None},
           rec' = [rec EXCEPT ![Owner(f)] = h]
    PROVE  rec' \in [Owners -> Hashes \union {None}]
BY DEF TypeOK

\* The tasks that a cycle carries out leave everything else as it was.
SameWorld == want' = want /\ tok' = tok /\ mood' = mood /\ storeOk' = storeOk

LEMMA TypedInit == Init => Typed
<1>. SUFFICES ASSUME Init PROVE Typed
  OBVIOUS
<1>1. tok \in Toks
  BY PackagePolicyAssumption DEF Init
<1>2. block \in [ClientFiles -> Blocks]
  BY FilesAre DEF Init, Blocks
<1>. QED
  BY <1>1, <1>2 DEF Init, Typed, TypeOK, Creds, Lanes

LEMMA TypedDone ==
    ASSUME Typed, run \in CycleType, run.todo # <<>>, NEW f \in Files, NEW s \in States, NEW on \in SUBSET Files,
           Done(f, s, on)
    PROVE  run' \in CycleType /\ HeldOK(run')
BY DoneIs DEF HeldOK

LEMMA DropRecordIs ==
    ASSUME Typed, run \in CycleType, run.todo # <<>>, NEW f \in Files, DropRecord(f)
    PROVE  /\ rec' \in [Owners -> Hashes \union {None}]
           /\ run' \in CycleType /\ HeldOK(run')
           /\ \E s \in {"compliant", "write_failed"} : Done(f, s, {})
<1>1. {"compliant", "write_failed"} \subseteq States
  BY DEF States
<1>2. \E s \in {"compliant", "write_failed"} : Done(f, s, {})
  BY DEF DropRecord
<1>3. rec' \in [Owners -> Hashes \union {None}]
  BY RecordType DEF DropRecord, Typed, TypeOK
<1>. QED
  BY <1>1, <1>2, <1>3, TypedDone

LEMMA TypedStep == Typed /\ [Next]_vars => Typed'
<1>. SUFFICES ASSUME Typed, [Next]_vars PROVE Typed'
  OBVIOUS
<1>. USE DEF Typed
<1>0. /\ {"compliant", "not_applied", "write_failed", "verification_failed", "drift"} \subseteq States
      /\ {"netrc", "pip", "uv", "env"} \subseteq Files
  BY DEF States, Files
<1>1. ASSUME NEW l \in Lanes, Begin(l) PROVE Typed'
  <2>1. Other(l) \in Lanes
    BY ClientsAre
  <2>2. run' = run \/ (\E t \in Seq(Tasks) : want[l] # None /\ run' = Cycle(l, t))
    <3>1. want[l] # None /\ want[l] # {} => EnforceTasks(l) \in Seq(Tasks)
      BY EnforceTasksAre DEF EnforceShape, TypeOK
    <3>. QED
      BY <1>1, <3>1, ClearTasksAre DEF Begin, ReportOnly
  <2>3. run' \in CycleType \union {Idle} /\ (run' # Idle => run'.undo = None)
    BY <1>1, <2>2, CycleIs DEF TypeOK, Begin, Cycle
  <2>4. DOMAIN report' = Lanes /\ turn' \in Lanes
    BY <1>1, <2>1 DEF Begin, ReportOnly, TypeOK
  <2>. QED
    BY <1>1, <2>3, <2>4 DEF Begin, TypeOK, files, world, HeldOK
<1>2. ASSUME NEW f \in Files, Apply(f) PROVE Typed'
  <2>1. run \in CycleType /\ run.todo # <<>> /\ Head(run.todo).f = f
    BY <1>2, NowIs DEF Apply
  <2>2. CASE Refuses(f) \/ InPlace(f) \/ (~storeOk \/ mood[f] = "mdm")
    <3>1. \E s \in States, on \in SUBSET Files : Done(f, s, on)
      BY <1>0, <1>2, <2>2, StatesAre DEF Apply
    <3>2. run' \in CycleType /\ HeldOK(run')
      BY <2>1, <3>1, TypedDone
    <3>3. rec' \in [Owners -> Hashes \union {None}]
      <4>1. run.hash \in Hashes
        BY <2>1 DEF CycleType
      <4>2. rec' = rec \/ rec' = [rec EXCEPT ![Owner(f)] = run.hash]
        BY <1>2, <2>2 DEF Apply
      <4>. QED
        BY <2>1, <4>1, <4>2, RecordType DEF TypeOK
    <3>. QED
      BY <1>2, <2>2, <3>2, <3>3 DEF Apply, TypeOK, files, world
  <2>3. CASE ~(Refuses(f) \/ InPlace(f) \/ (~storeOk \/ mood[f] = "mdm"))
    <3>. DEFINE u == [held |-> Holds(f), drift |-> rec[Owner(f)] = run.hash]
    <3>1. u \in Undos /\ u.held \in Holdable(f)
      BY HoldsIs
    <3>2. /\ SetFile(f, Wanted(f)) /\ run' = [run EXCEPT !.undo = u, !.touched = run.touched \ {f}]
          /\ UNCHANGED <<rec, report, turn, world>>
      BY <1>2, <2>3 DEF Apply
    <3>. HIDE DEF u
    <3>3. /\ run' \in CycleType /\ run'.undo = u /\ run'.todo = run.todo
      <4>1. run.touched \ {f} \in SUBSET (Files \union {"store"})
        BY <2>1 DEF CycleType
      <4>. QED
        BY <2>1, <3>1, <3>2, <4>1, WrittenIs
    <3>4. cred' \in Creds /\ block' \in [ClientFiles -> Blocks]
      BY <2>1, <3>2, HoldsIs, SetFileType
    <3>. QED
      BY <2>1, <3>1, <3>2, <3>3, <3>4 DEF TypeOK, world, HeldOK
  <2>. QED
    BY <2>2, <2>3
<1>3. ASSUME NEW f \in Files, Record(f) PROVE Typed'
  <2>1. run \in CycleType /\ run.todo # <<>> /\ Head(run.todo).f = f /\ run # Idle
    BY <1>3, NowIs, IdleIs DEF Record
  <2>2. run.undo.held \in Holdable(f)
    BY <1>3, <2>1, NowIs DEF Record, HeldOK
  <2>3. \E s \in States, on \in SUBSET Files : Done(f, s, on)
    <3>1. "drift" \in States /\ "compliant" \in States
      BY <1>0
    <3>2. Observed(f, IF run.undo.drift THEN "drift" ELSE "compliant") \in States
      BY <1>0, StatesAre
    <3>. QED
      BY <1>0, <1>3, <3>2 DEF Record
  <2>4. run' \in CycleType /\ HeldOK(run')
    BY <2>1, <2>3, TypedDone
  <2>5. rec' \in [Owners -> Hashes \union {None}]
    <3>1. run.hash \in Hashes
      BY <2>1 DEF CycleType
    <3>2. rec' = rec \/ rec' = [rec EXCEPT ![Owner(f)] = run.hash]
      BY <1>3 DEF Record
    <3>. QED
      BY <2>1, <3>1, <3>2, RecordType DEF TypeOK
  <2>6. cred' \in Creds /\ block' \in [ClientFiles -> Blocks]
    <3>1. UNCHANGED files \/ SetFile(f, run.undo.held)
      BY <1>3 DEF Record
    <3>. QED
      BY <2>2, <3>1, SetFileType DEF files, TypeOK
  <2>. QED
    BY <1>3, <2>4, <2>5, <2>6 DEF Record, TypeOK, world
<1>4. ASSUME NEW f \in Files, Clear(f) PROVE Typed'
  <2>1. run \in CycleType /\ run.todo # <<>> /\ Head(run.todo).op = "clear"
    BY <1>4, NowIs DEF Clear
  <2>2. CASE Refuses(f)
    <3>1. Done(f, "write_failed", {}) /\ UNCHANGED files
      BY <1>4, <2>2 DEF Clear
    <3>2. run' \in CycleType /\ HeldOK(run')
      BY <1>0, <2>1, <3>1, TypedDone
    <3>. QED
      BY <1>4, <3>1, <3>2 DEF Clear, TypeOK, files, world
  <2>3. CASE ~Refuses(f)
    <3>. DEFINE u == [held |-> Holds(f), drift |-> FALSE]
    <3>1. u \in Undos /\ run.touched \in SUBSET (Files \union {"store"})
      BY <2>1, HoldsIs DEF CycleType
    <3>2. SetFile(f, Empty(f)) /\ run' = [run EXCEPT !.undo = u, !.touched = run.touched]
      BY <1>4, <2>1, <2>3 DEF Clear, CycleType
    <3>. HIDE DEF u
    <3>3. run' \in CycleType /\ run'.todo = run.todo
      BY <2>1, <3>1, <3>2, WrittenIs
    <3>4. cred' \in Creds /\ block' \in [ClientFiles -> Blocks]
      BY <3>2, HoldsIs, SetFileType
    <3>. QED
      BY <1>4, <2>1, <3>3, <3>4 DEF Clear, TypeOK, world, HeldOK
  <2>. QED
    BY <2>2, <2>3
<1>5. ASSUME NEW f \in Files, ClearRecord(f) PROVE Typed'
  <2>1. run \in CycleType /\ run.todo # <<>>
    BY <1>5, NowIs DEF ClearRecord
  <2>2. rec' \in [Owners -> Hashes \union {None}] /\ run' \in CycleType /\ HeldOK(run')
    BY <1>5, <2>1, DropRecordIs DEF ClearRecord
  <2>. QED
    BY <1>5, <2>2 DEF ClearRecord, TypeOK, files, world
<1>6. ASSUME Release PROVE Typed'
  <2>1. run \in CycleType /\ run.todo # <<>> /\ Head(run.todo).op = "release"
    BY <1>6, NowIs DEF Release
  <2>2. CASE Stop /\ UNCHANGED <<files, rec>>
    BY <1>6, <2>1, <2>2, StopIs DEF Release, TypeOK, files, world, HeldOK
  <2>3. CASE DropRecord("netrc") /\ UNCHANGED files
    <3>1. rec' \in [Owners -> Hashes \union {None}] /\ run' \in CycleType /\ HeldOK(run')
      BY <1>0, <2>1, <2>3, DropRecordIs
    <3>. QED
      BY <1>6, <2>3, <3>1 DEF Release, TypeOK, files, world
  <2>4. CASE /\ SetFile("netrc", 0) /\ UNCHANGED rec
             /\ run' = [run EXCEPT !.undo = [held |-> cred, drift |-> FALSE]]
    <3>. DEFINE u == [held |-> cred, drift |-> FALSE]
    <3>1. u \in Undos /\ run.touched \in SUBSET (Files \union {"store"})
      BY <2>1 DEF CycleType, TypeOK, Undos
    <3>2. run' = [run EXCEPT !.undo = u, !.touched = run.touched]
      BY <2>1, <2>4 DEF CycleType
    <3>. HIDE DEF u
    <3>3. run' \in CycleType /\ run'.todo = run.todo
      BY <2>1, <3>1, <3>2, WrittenIs
    <3>4. cred' \in Creds /\ block' \in [ClientFiles -> Blocks]
      BY <1>0, <2>4, SetFileType DEF Holdable, Creds
    <3>. QED
      BY <1>6, <2>1, <2>4, <3>3, <3>4 DEF Release, TypeOK, world, HeldOK
  <2>. QED
    BY <1>6, <2>2, <2>3, <2>4 DEF Release
<1>7. CASE ReleaseRecord
  <2>1. run \in CycleType /\ run.todo # <<>>
    BY <1>7, NowIs DEF ReleaseRecord
  <2>2. rec' \in [Owners -> Hashes \union {None}] /\ run' \in CycleType /\ HeldOK(run')
    BY <1>0, <1>7, <2>1, DropRecordIs DEF ReleaseRecord
  <2>. QED
    BY <1>7, <2>2 DEF ReleaseRecord, TypeOK, files, world
<1>8. CASE Settle
  <2>1. run \in CycleType /\ run.todo # <<>> /\ Head(run.todo).op = "settle"
    BY <1>8, NowIs DEF Settle
  <2>2. CASE (\E s \in {"compliant", "verification_failed"} : Done("pip", s, {})) /\ UNCHANGED files
    <3>1. run' \in CycleType /\ HeldOK(run')
      BY <1>0, <2>1, <2>2, TypedDone
    <3>. QED
      BY <1>8, <2>2, <3>1 DEF Settle, TypeOK, files, world
  <2>3. CASE /\ SetFile("netrc", run.found)
             /\ run' = [run EXCEPT !.undo = [held |-> cred, drift |-> FALSE]]
    <3>. DEFINE u == [held |-> cred, drift |-> FALSE]
    <3>1. u \in Undos /\ run.touched \in SUBSET (Files \union {"store"}) /\ run.found \in Creds
      BY <2>1 DEF CycleType, TypeOK, Undos
    <3>2. run' = [run EXCEPT !.undo = u, !.touched = run.touched]
      BY <2>1, <2>3 DEF CycleType
    <3>. HIDE DEF u
    <3>3. run' \in CycleType /\ run'.todo = run.todo
      BY <2>1, <3>1, <3>2, WrittenIs
    <3>4. cred' \in Creds /\ block' \in [ClientFiles -> Blocks]
      BY <1>0, <2>3, <3>1, SetFileType DEF Holdable
    <3>. QED
      BY <1>8, <2>1, <3>3, <3>4 DEF Settle, TypeOK, world, HeldOK
  <2>. QED
    BY <1>8, <2>2, <2>3 DEF Settle
<1>9. CASE SettleRecord
  <2>1. run \in CycleType /\ run.todo # <<>>
    BY <1>9, NowIs DEF SettleRecord
  <2>2. \E s \in {"not_applied", "write_failed"} : Done("pip", s, {})
    BY <1>9 DEF SettleRecord
  <2>3. run' \in CycleType /\ HeldOK(run')
    BY <1>0, <2>1, <2>2, TypedDone
  <2>4. rec' \in [Owners -> Hashes \union {None}]
    <3>1. run.prior \in Hashes \union {None}
      BY <2>1 DEF CycleType
    <3>2. rec' = rec \/ rec' = [rec EXCEPT ![Owner("netrc")] = run.prior]
      BY <1>9 DEF SettleRecord
    <3>. QED
      BY <1>0, <2>1, <3>1, <3>2, RecordType DEF TypeOK
  <2>. QED
    BY <1>9, <2>3, <2>4 DEF SettleRecord, TypeOK, files, world
<1>10. CASE Report
  <2>1. run \in CycleType /\ Stop
    BY <1>10, NowIs DEF Report
  <2>2. DOMAIN report' = Lanes
    BY <1>10 DEF Report, TypeOK
  <2>. QED
    BY <1>10, <2>1, <2>2, StopIs DEF Report, TypeOK, files, world, HeldOK
<1>11. CASE End
  <2>1. Other(run.lane) \in Lanes
    BY <1>11, ClientsAre DEF End, TypeOK, CycleType
  <2>. QED
    BY <1>11, <2>1 DEF End, TypeOK, files, world
<1>12. ASSUME NEW l \in Lanes, NEW S \in SUBSET {"pip", "uv", "env"}, S \subseteq Clients[l], Assigned(l, S) PROVE Typed'
  <2>1. want' \in [Lanes -> (SUBSET ClientFiles) \union {None}]
    BY <1>12 DEF Assigned, TypeOK, ClientFiles
  <2>2. \A k \in Lanes : want'[k] # None => want'[k] \subseteq Clients[k]
    BY <1>12 DEF Assigned, TypeOK
  <2>. QED
    BY <1>12, <2>1, <2>2 DEF Assigned, TypeOK, files
<1>13. ASSUME NEW t \in Toks, Rotated(t) PROVE Typed'
  BY <1>13 DEF Rotated, TypeOK, files
<1>14. ASSUME NEW f \in Files, NEW v \in Holdable(f), Edited(f, v) PROVE Typed'
  <2>1. /\ run' \in CycleType \union {Idle} /\ (run' = Idle <=> run = Idle)
        /\ run # Idle => run'.undo = run.undo /\ run'.todo = run.todo
    BY <1>14, NoticeIs DEF Edited
  <2>2. cred' \in Creds /\ block' \in [ClientFiles -> Blocks]
    BY <1>14, SetFileType DEF Edited
  <2>. QED
    BY <1>14, <2>1, <2>2 DEF Edited, TypeOK, HeldOK
<1>15. ASSUME NEW f \in Files, NEW m \in Moods \union {"ok"}, Became(f, m) PROVE Typed'
  <2>1. /\ run' \in CycleType \union {Idle} /\ (run' = Idle <=> run = Idle)
        /\ run # Idle => run'.undo = run.undo /\ run'.todo = run.todo
    BY <1>15, NoticeIs DEF Became
  <2>2. mood' \in [Files -> Moods \union {"ok"}]
    BY <1>15 DEF Became, TypeOK
  <2>. QED
    BY <1>15, <2>1, <2>2 DEF Became, TypeOK, HeldOK, files
<1>16. CASE StoreTurns
  <2>1. /\ run' \in CycleType \union {Idle} /\ (run' = Idle <=> run = Idle)
        /\ run # Idle => run'.undo = run.undo /\ run'.todo = run.todo
    BY <1>16, NoticeIs DEF StoreTurns
  <2>2. storeOk' \in BOOLEAN
    BY <1>16 DEF StoreTurns, TypeOK
  <2>. QED
    BY <1>16, <2>1, <2>2 DEF StoreTurns, TypeOK, HeldOK, files
<1>17. CASE Killed
  BY <1>17 DEF Killed, TypeOK, files
<1>18. CASE UNCHANGED vars
  BY <1>18 DEF vars, TypeOK, HeldOK
<1>19. \A f \in Files : Empty(f) \in Holdable(f) /\ (f # "netrc" => "stale" \in Holdable(f))
  BY HoldsIs DEF Holdable, Blocks
<1>. QED
  BY <1>1, <1>2, <1>3, <1>4, <1>5, <1>6, <1>7, <1>8, <1>9, <1>10, <1>11, <1>12, <1>13, <1>14, <1>15, <1>16, <1>17,
     <1>18, <1>19 DEF Next, Step, World

LEMMA TypeCorrect == Spec => []TypeOK
<1>1. Typed => TypeOK
  BY DEF Typed
<1>. QED
  BY <1>1, TypedInit, TypedStep, PTL DEF Spec

-----------------------------------------------------------------------------
(* The tasks ahead: a clear has nothing but clears, and the credential at  *)
(* the end; an enforcement begins with the credential and gets to its      *)
(* settlement before it reports.                                           *)

ApplyIt == Task("apply", "netrc")

Shape(r) ==
    /\ r.hash.clients \subseteq Clients[r.lane]
    /\ r.hash.clients = {} => \A t : Has(r.todo, t) => t \in ClearWork(r.lane)
    /\ r.hash.clients # {} =>
         /\ EnforceShape(r.todo, r.lane, r.hash.clients)
         /\ r.states = {} => Has(r.todo, ApplyIt)
         /\ Has(r.todo, ApplyIt) => Head(r.todo) = ApplyIt
         /\ r.undo # None => Has(r.todo, SettleIt)

LEMMA HeadHas == ASSUME NEW s \in Seq(Tasks), s # <<>> PROVE Has(s, Head(s))
BY TailHas

LEMMA EmptyHas == \A t : ~Has(<<>>, t)
BY DEF Has

\* Which tasks there are, by what the cycle is for.
LEMMA HeadKind ==
    ASSUME TypeOK, NEW op, NEW f \in Files, Now(op, f), Shape(run)
    PROVE  /\ op \in {"apply", "settle", "report"} => ~Clearing
           /\ op = "release" => Clearing
           /\ op = "apply" => /\ f = "netrc" \/ (f \in run.hash.clients /\ f \in ClientFiles)
                              /\ Has(run.todo, SettleIt)
                              /\ f # "netrc" => ~Has(run.todo, ApplyIt)
           /\ op = "clear" => /\ f \in Clients[run.lane] /\ f \in ClientFiles
                              /\ ~Clearing => f \notin run.hash.clients /\ Has(run.todo, SettleIt)
<1>1. /\ run \in CycleType /\ run.todo # <<>> /\ Head(run.todo) = Task(op, f)
      /\ run.todo \in Seq(Tasks) /\ run.lane \in Lanes /\ Has(run.todo, Head(run.todo))
  BY NowIs, HeadHas DEF CycleType
<1>2. Clients[run.lane] \subseteq ClientFiles
  BY <1>1, ClientsAre
<1>3. CASE Clearing
  <2>1. Task(op, f) \in ClearWork(run.lane)
    BY <1>1, <1>3 DEF Shape, Clearing
  <2>2. (op = "release" /\ f = "netrc") \/ (op = "clear" /\ f \in Clients[run.lane])
    BY <2>1, TaskIs DEF ClearWork
  <2>. QED
    BY <1>2, <1>3, <2>2
<1>4. CASE ~Clearing
  <2>1. Task(op, f) \in Work(run.lane, run.hash.clients) \union {SettleIt, ReportIt}
    BY <1>1, <1>4, ShapeTells DEF Shape, Clearing
  <2>2. \/ op = "apply" /\ f \in {"netrc"} \union run.hash.clients
        \/ op = "clear" /\ f \in Clients[run.lane] \ run.hash.clients
        \/ op \in {"settle", "report"}
    BY <2>1, TaskIs DEF Work, SettleIt, ReportIt
  <2>3. op # "report" => Has(run.todo, SettleIt)
    <3>1. op # "report" => Head(run.todo) # ReportIt
      BY <1>1, TaskIs DEF ReportIt
    <3>. QED
      BY <1>1, <1>4, <3>1, ShapeTells DEF Shape, Clearing
  <2>4. op = "apply" /\ f # "netrc" => ~Has(run.todo, ApplyIt)
    BY <1>1, <1>4, TaskIs DEF Shape, Clearing, ApplyIt
  <2>. QED
    BY <1>2, <1>4, <2>2, <2>3, <2>4 DEF Shape
<1>. QED
  BY <1>3, <1>4

\* A task is done: what is ahead then.
LEMMA DoneShape ==
    ASSUME TypeOK, run \in CycleType, run.todo # <<>>, Shape(run), Head(run.todo) # ReportIt,
           NEW f \in Files, NEW s \in States, NEW on \in SUBSET Files, Done(f, s, on)
    PROVE  /\ Shape(run')
           /\ ~Clearing =>
                /\ run'.todo # <<>> /\ ~Has(run'.todo, ApplyIt)
                /\ \A t \in Work(run.lane, run.hash.clients) : Has(run'.todo, t) => Has(run.todo, t) /\ t # Head(run.todo)
                /\ run'.states \subseteq Good =>
                     /\ run.states \subseteq Good
                     /\ \A t : Has(run.todo, t) => t = Head(run.todo) \/ Has(run'.todo, t)
                /\ f # "netrc" => (Head(run.todo) # SettleIt => Has(run'.todo, SettleIt))
                /\ s \in Good => (Head(run.todo) # SettleIt => Has(run'.todo, SettleIt))
<1>1. /\ run' \in CycleType /\ run'.lane = run.lane /\ run'.hash = run.hash
      /\ run'.undo = None /\ run'.todo = After(run, f, s)
      /\ s \in run'.states /\ run.states \subseteq run'.states
  BY DoneIs
<1>2. run.todo \in Seq(Tasks) /\ run.lane \in Lanes
  BY DEF CycleType
<1>3. \A t : Has(run.todo, t) <=> Head(run.todo) = t \/ Has(Tail(run.todo), t)
  BY <1>2, TailHas
<1>4. CASE Clearing
  <2>1. \A t : Has(run'.todo, t) => Has(run.todo, t)
    BY <1>1, <1>3, <1>4, EmptyHas DEF After, Clearing
  <2>. QED
    BY <1>1, <1>4, <2>1 DEF Shape, Clearing
<1>5. CASE ~Clearing
  <2>1. EnforceShape(run.todo, run.lane, run.hash.clients) /\ run.hash.clients \in SUBSET Clients[run.lane]
    BY <1>5 DEF Shape, Clearing
  <2>2. /\ EnforceShape(Tail(run.todo), run.lane, run.hash.clients)
        /\ ~Has(Tail(run.todo), Head(run.todo))
        /\ Has(run.todo, SettleIt)
    BY <1>2, <2>1, ShapeTells
  <2>3. run'.todo \in {<<ReportIt>>, Tail(run.todo)} /\ (f # "netrc" \/ s \in Good => run'.todo = Tail(run.todo))
    BY <1>1, <1>5 DEF After, Clearing
  <2>4. \A t : Has(<<ReportIt>>, t) <=> t = ReportIt
    BY SmallLists DEF ReportIt, Task, Tasks, Files
  <2>5. ReportIt \notin Work(run.lane, run.hash.clients) /\ ApplyIt \in Work(run.lane, run.hash.clients)
    BY TaskIs DEF ReportIt, ApplyIt, Work
  <2>6. EnforceShape(run'.todo, run.lane, run.hash.clients)
    BY <1>2, <2>1, <2>2, <2>3, ReportAlone
  <2>7. ~Has(run'.todo, ApplyIt)
    BY <1>3, <1>5, <2>2, <2>3, <2>4, <2>5 DEF Shape, Clearing
  <2>8. run'.todo # <<>>
    <3>1. Tail(run.todo) # <<>>
      BY <1>2, <2>1, ShapeTells
    <3>2. <<ReportIt>> # <<>>
      BY <2>4, EmptyHas
    <3>. QED
      BY <2>3, <3>1, <3>2
  <2>9. Shape(run')
    BY <1>1, <1>5, <2>1, <2>6, <2>7 DEF Shape, Clearing
  <2>10. s \notin Good => ~(run'.states \subseteq Good)
    BY <1>1
  <2>11. \A t \in Work(run.lane, run.hash.clients) : Has(run'.todo, t) => Has(run.todo, t) /\ t # Head(run.todo)
    BY <1>3, <2>2, <2>3, <2>4, <2>5
  <2>. QED
    BY <1>1, <1>3, <1>5, <2>2, <2>3, <2>7, <2>8, <2>9, <2>10, <2>11
<1>. QED
  BY <1>4, <1>5

-----------------------------------------------------------------------------
(* What an enforcement knows of its files: as long as all went well they   *)
(* are as wanted, once their task is done and unless somebody touched      *)
(* them; a credential that the cycle brings goes with its use.             *)

Kept(r, cr, bl) ==
    r.states \subseteq Good =>
      /\ ~Has(r.todo, ApplyIt) /\ "netrc" \notin r.touched /\ ~(r.undo # None /\ Head(r.todo) = SettleIt) =>
            cr = r.hash.tok
      /\ \A c \in r.hash.clients : ~Has(r.todo, Task("apply", c)) /\ c \notin r.touched => bl[c] = "good"
      /\ \A c \in Clients[r.lane] \ r.hash.clients :
            /\ ~Has(r.todo, Task("clear", c)) \/ (r.undo # None /\ Head(r.todo) = Task("clear", c))
            /\ c \notin r.touched
            => bl[c] = "none"

Told(r, rp) == r.todo = <<>> /\ rp[r.lane].hash = r.hash => r.states \subseteq Good

Brought(r, cr, md) ==
    r.found = 0 =>
      /\ "netrc" \notin r.touched /\ cr # 0 => md["netrc"] # "refused"
      /\ Has(r.todo, ApplyIt) /\ r.undo = None => cr = 0
      /\ Has(r.todo, ApplyIt) /\ r.undo # None => r.undo.held = 0 /\ ("netrc" \notin r.touched => cr = r.hash.tok)
      /\ ~Has(r.todo, SettleIt) /\ "netrc" \notin r.touched /\ cr # 0 => \E c \in Clients[r.lane] : c \in r.inForce
      /\ r.undo # None /\ Head(r.todo) = SettleIt => cr = 0

Used(r, bl) ==
    \A c \in ClientFiles \cap r.inForce :
        c \in r.hash.clients /\ ~Has(r.todo, Task("apply", c)) /\ (c \notin r.touched => bl[c] = "good")

Honest(r, cr, bl, md, rp) ==
    /\ Shape(r)
    /\ r.hash.clients # {} =>
         /\ Kept(r, cr, bl) /\ Told(r, rp) /\ Brought(r, cr, md) /\ Used(r, bl)
         /\ r.was => r.found = r.hash.tok

Plain == mood["netrc"] # "overridden"
Inv == Typed /\ Plain /\ (run # Idle => Honest(run, cred, block, mood, report))

\* An enforcement that does a task, writing no file.
LEMMA DoneHonest ==
    ASSUME Inv, run \in CycleType, run.todo # <<>>, ~Clearing, Head(run.todo) # ReportIt,
           NEW f \in Files, NEW s \in States, NEW on \in SUBSET Files, Done(f, s, on),
           NEW cr, NEW bl,
           \* the credential, when it was wanted in place
           s \in Good /\ run.states \subseteq Good /\ "netrc" \notin run.touched =>
               IF Head(run.todo) = ApplyIt THEN cr = run.hash.tok
               ELSE (Head(run.todo) = SettleIt /\ run.undo # None) \/ cr = cred,
           Head(run.todo) = SettleIt /\ run.undo # None => s \notin Good,
           \* the clients
           \A c \in ClientFiles : bl[c] = block[c] \/ (Head(run.todo) = Task("apply", c) /\ s \notin Good /\ on = {}),
           \A c \in run.hash.clients : Head(run.todo) = Task("apply", c) /\ s \in Good => bl[c] = "good",
           \A c \in Clients[run.lane] : Head(run.todo) = Task("clear", c) /\ s \in Good => run.undo # None,
           \A c \in ClientFiles \cap on : c \in run.hash.clients /\ Head(run.todo) = Task("apply", c) /\ bl[c] = "good",
           \* what the cycle brought
           run.found = 0 =>
             /\ "netrc" \notin run.touched /\ cr # 0 => mood["netrc"] # "refused"
             /\ (Head(run.todo) = SettleIt \/ (f = "netrc" /\ s \notin Good)) /\ "netrc" \notin run.touched /\ cr # 0 =>
                    \E c \in Clients[run.lane] : c \in run.inForce
    PROVE  Honest(run', cr, bl, mood, report)
<1>. DEFINE W == Work(run.lane, run.hash.clients)
            h == Head(run.todo)
<1>0. TypeOK /\ Shape(run) /\ run # Idle
  BY IdleIs DEF Inv, Typed, Honest
<1>1. /\ Kept(run, cred, block) /\ Used(run, block) /\ (run.was => run.found = run.hash.tok)
      /\ run.hash.clients # {}
  BY <1>0 DEF Inv, Honest, Clearing
<1>2. /\ run'.lane = run.lane /\ run'.hash = run.hash /\ run'.was = run.was /\ run'.found = run.found
      /\ run'.touched = run.touched /\ run'.undo = None
      /\ run'.inForce = run.inForce \union on
      /\ run.states \subseteq run'.states /\ s \in run'.states
  BY DoneIs
<1>3. /\ Shape(run')
      /\ run'.todo # <<>> /\ ~Has(run'.todo, ApplyIt)
      /\ \A t \in W : Has(run'.todo, t) => Has(run.todo, t) /\ t # h
      /\ run'.states \subseteq Good =>
           /\ run.states \subseteq Good
           /\ \A t : Has(run.todo, t) => t = h \/ Has(run'.todo, t)
      /\ f # "netrc" \/ s \in Good => (h # SettleIt => Has(run'.todo, SettleIt))
  BY <1>0, DoneShape
<1>4. /\ run.hash.clients \subseteq ClientFiles /\ Clients[run.lane] \subseteq ClientFiles
      /\ run.hash.clients \subseteq Clients[run.lane]
      /\ \A c \in run.hash.clients : Task("apply", c) \in W
      /\ ApplyIt \in W
      /\ \A c, d : Task("apply", c) # Task("clear", d)
  <2>1. run.lane \in Lanes /\ run.hash.clients \subseteq Clients[run.lane]
    BY <1>0 DEF Shape, CycleType
  <2>2. Clients[run.lane] \subseteq ClientFiles
    BY <2>1, ClientsAre
  <2>3. ApplyIt \in W /\ \A c \in run.hash.clients : Task("apply", c) \in W
    BY DEF Work, ApplyIt
  <2>4. \A c, d : Task("apply", c) # Task("clear", d)
    BY TaskIs
  <2>. QED
    BY <2>1, <2>2, <2>3, <2>4
<1>. HIDE DEF W, h
<1>5. Kept(run', cr, bl)
  <2>. SUFFICES ASSUME run'.states \subseteq Good PROVE Kept(run', cr, bl)
    BY DEF Kept
  <2>1. /\ s \in Good /\ run.states \subseteq Good
        /\ \A t : Has(run.todo, t) => t = h \/ Has(run'.todo, t)
    BY <1>2, <1>3
  <2>2. ASSUME "netrc" \notin run.touched PROVE cr = run.hash.tok
    <3>1. CASE h = ApplyIt
      BY <2>1, <2>2, <3>1 DEF h
    <3>2. CASE h # ApplyIt
      <4>1. ~Has(run.todo, ApplyIt)
        BY <1>3, <2>1, <3>2
      <4>2. ~(run.undo # None /\ h = SettleIt)
        BY <2>1 DEF h
      <4>. QED
        BY <1>1, <2>1, <2>2, <3>2, <4>1, <4>2 DEF Kept, h
    <3>. QED
      BY <3>1, <3>2
  <2>3. ASSUME NEW c \in run.hash.clients, ~Has(run'.todo, Task("apply", c)), c \notin run.touched
        PROVE  bl[c] = "good"
    <3>1. CASE h = Task("apply", c)
      BY <2>1, <3>1 DEF h
    <3>2. CASE h # Task("apply", c)
      <4>1. ~Has(run.todo, Task("apply", c))
        BY <2>1, <2>3, <3>2
      <4>. QED
        BY <1>1, <1>4, <2>1, <2>3, <4>1, <3>2 DEF Kept, h
    <3>. QED
      BY <3>1, <3>2
  <2>4. ASSUME NEW c \in Clients[run.lane] \ run.hash.clients, ~Has(run'.todo, Task("clear", c)), c \notin run.touched
        PROVE  bl[c] = "none"
    <3>1. ~Has(run.todo, Task("clear", c)) \/ (run.undo # None /\ h = Task("clear", c))
      BY <2>1, <2>4 DEF h
    <3>2. block[c] = "none"
      BY <1>1, <2>1, <2>4, <3>1 DEF Kept, h
    <3>. QED
      BY <1>4, <2>1, <2>4, <3>2
  <2>. QED
    BY <1>2, <2>2, <2>3, <2>4 DEF Kept
<1>6. Told(run', report)
  BY <1>3 DEF Told
<1>7. Brought(run', cr, mood)
  <2>. SUFFICES ASSUME run.found = 0, "netrc" \notin run.touched, cr # 0, ~Has(run'.todo, SettleIt)
                PROVE  \E c \in Clients[run.lane] : c \in run.inForce \union on
    BY <1>2, <1>3 DEF Brought
  <2>1. h = SettleIt \/ (f = "netrc" /\ s \notin Good)
    BY <1>3
  <2>. QED
    BY <2>1 DEF h
<1>8. Used(run', bl)
  <2>. SUFFICES ASSUME NEW c \in ClientFiles \cap (run.inForce \union on)
                PROVE  /\ c \in run.hash.clients /\ ~Has(run'.todo, Task("apply", c))
                       /\ c \notin run.touched => bl[c] = "good"
    BY <1>2 DEF Used
  <2>1. CASE c \in on
    <3>1. c \in run.hash.clients /\ h = Task("apply", c) /\ bl[c] = "good"
      BY <2>1 DEF h
    <3>. QED
      BY <1>3, <1>4, <3>1
  <2>2. CASE c \notin on
    <3>1. c \in run.hash.clients /\ ~Has(run.todo, Task("apply", c)) /\ (c \notin run.touched => block[c] = "good")
      BY <1>1, <2>2 DEF Used
    <3>2. h # Task("apply", c)
      <4>1. Has(run.todo, h)
        BY HeadHas DEF CycleType, h
      <4>. QED
        BY <3>1, <4>1
    <3>3. bl[c] = block[c]
      BY <3>2 DEF h
    <3>4. ~Has(run'.todo, Task("apply", c))
      BY <1>3, <1>4, <3>1
    <3>. QED
      BY <3>1, <3>3, <3>4
  <2>. QED
    BY <2>1, <2>2
<1>. QED
  BY <1>1, <1>2, <1>3, <1>5, <1>6, <1>7, <1>8 DEF Honest

LEMMA InvGives ==
    ASSUME Inv, run # Idle
    PROVE  /\ TypeOK /\ run \in CycleType /\ Shape(run) /\ HeldOK(run)
           /\ run.lane \in Lanes /\ Clients[run.lane] \subseteq ClientFiles /\ run.hash.tok # 0
           /\ run.todo \in Seq(Tasks) /\ (run.todo # <<>> => Has(run.todo, Head(run.todo)))
           /\ ~Clearing => /\ run.hash.clients # {}
                           /\ Kept(run, cred, block) /\ Told(run, report) /\ Brought(run, cred, mood) /\ Used(run, block)
                           /\ run.was => run.found = run.hash.tok
<1>1. TypeOK /\ run \in CycleType /\ Shape(run) /\ HeldOK(run)
  BY DEF Inv, Typed, Honest, TypeOK
<1>2. run.lane \in Lanes /\ run.hash.tok \in Toks /\ run.todo \in Seq(Tasks)
  BY <1>1 DEF CycleType, Hashes
<1>3. Clients[run.lane] \subseteq ClientFiles /\ run.hash.tok # 0
  BY <1>2, ClientsAre, CredsAre
<1>4. run.todo # <<>> => Has(run.todo, Head(run.todo))
  BY <1>2, HeadHas
<1>. QED
  BY <1>1, <1>2, <1>3, <1>4 DEF Inv, Honest, Clearing

\* A clear: its tasks stay what they are.
LEMMA ClearingHonest ==
    ASSUME Inv, run \in CycleType, Clearing, run'.lane = run.lane, run'.hash = run.hash,
           \A t : Has(run'.todo, t) => Has(run.todo, t), NEW cr, NEW bl, NEW md, NEW rp
    PROVE  Honest(run', cr, bl, md, rp)
BY IdleIs DEF Inv, Honest, Shape, Clearing

LEMMA ClearingDone ==
    ASSUME Inv, run \in CycleType, run.todo # <<>>, Clearing, NEW f \in Files, NEW s \in States, Done(f, s, {}),
           NEW cr, NEW bl, NEW md, NEW rp
    PROVE  Honest(run', cr, bl, md, rp)
<1>1. run'.lane = run.lane /\ run'.hash = run.hash /\ run'.todo = After(run, f, s)
  BY DoneIs
<1>2. \A t : Has(run'.todo, t) => Has(run.todo, t)
  BY <1>1, EmptyHas, TailHas DEF After, Clearing, CycleType
<1>. QED
  BY <1>1, <1>2, ClearingHonest

LEMMA ApplyHonest ==
    ASSUME Inv, NEW f \in Files, Apply(f)
    PROVE  Honest(run', cred', block', mood', report')
<1>1. /\ run \in CycleType /\ run # Idle /\ run.todo # <<>> /\ Head(run.todo) = Task("apply", f)
      /\ run.undo = None /\ Now("apply", f) /\ TypeOK
  BY NowIs, IdleIs DEF Apply, Inv, Typed
<1>2. /\ ~Clearing /\ (f = "netrc" \/ (f \in run.hash.clients /\ f \in ClientFiles))
      /\ Has(run.todo, SettleIt) /\ (f # "netrc" => ~Has(run.todo, ApplyIt))
  BY <1>1, InvGives, HeadKind
<1>3. /\ Task("apply", f) # ReportIt /\ Task("apply", f) # SettleIt /\ (Task("apply", f) = ApplyIt <=> f = "netrc")
      /\ \A c : Task("apply", f) # Task("clear", c) /\ (Task("apply", f) = Task("apply", c) => c = f)
  BY TaskIs DEF ReportIt, SettleIt, ApplyIt
<1>4. mood' = mood /\ report' = report
  BY DEF Apply, world
<1>5. Brought(run, cred, mood)
  BY <1>1, <1>2, InvGives
<1>6. "netrc" \notin ClientFiles
  BY DEF ClientFiles
<1>7. CASE Refuses(f) \/ (~InPlace(f) /\ (~storeOk \/ mood[f] = "mdm"))
  <2>1. PICK s \in {"write_failed", "verification_failed"} : Done(f, s, {}) /\ UNCHANGED files
    BY <1>7 DEF Apply
  <2>2. s \in States /\ s \notin Good /\ {} \in SUBSET Files
    BY <2>1, StatesAre
  <2>3. run.found = 0 /\ f = "netrc" /\ "netrc" \notin run.touched => cred = 0
    BY <1>1, <1>3, <1>5, InvGives DEF Brought
  <2>4. run.found = 0 /\ "netrc" \notin run.touched /\ cred # 0 => mood["netrc"] # "refused"
    BY <1>5 DEF Brought
  <2>5. Honest(run', cred, block, mood, report)
    BY <1>1, <1>2, <1>3, <2>1, <2>2, <2>3, <2>4, DoneHonest
  <2>. QED
    BY <1>4, <2>1, <2>5 DEF files
<1>8. CASE ~Refuses(f) /\ InPlace(f)
  <2>1. Done(f, Observed(f, "compliant"), {f}) /\ UNCHANGED files
    BY <1>8 DEF Apply
  <2>2. PICK s \in {"compliant", "not_applied"} : s = Observed(f, "compliant")
    BY StatesAre
  <2>3. s \in States /\ {f} \in SUBSET Files /\ Done(f, s, {f})
    BY <2>1, <2>2 DEF States
  <2>4. IF f = "netrc" THEN cred = run.hash.tok ELSE block[f] = "good"
    BY <1>8 DEF InPlace
  <2>5. run.found = 0 /\ f = "netrc" /\ "netrc" \notin run.touched => cred = 0
    BY <1>1, <1>3, <1>5, InvGives DEF Brought
  <2>6. run.found = 0 /\ "netrc" \notin run.touched /\ cred # 0 => mood["netrc"] # "refused"
    BY <1>5 DEF Brought
  <2>7. Honest(run', cred, block, mood, report)
    <3>1. "netrc" \notin run.hash.clients
      BY <1>1, <1>6, InvGives DEF Shape
    <3>2. \A c \in run.hash.clients : Head(run.todo) = Task("apply", c) => block[c] = "good"
      BY <1>1, <1>3, <2>4, <3>1
    <3>3. \A c \in ClientFiles \cap {f} :
            c \in run.hash.clients /\ Head(run.todo) = Task("apply", c) /\ block[c] = "good"
      BY <1>1, <1>2, <1>6, <2>4
    <3>4. Head(run.todo) = ApplyIt => cred = run.hash.tok
      BY <1>1, <1>3, <2>4
    <3>5. \A c : Head(run.todo) # Task("clear", c)
      BY <1>1, <1>3
    <3>6. Head(run.todo) # SettleIt /\ Head(run.todo) # ReportIt
      BY <1>1, <1>3
    <3>. QED
      BY <1>1, <1>2, <2>3, <2>5, <2>6, <3>2, <3>3, <3>4, <3>5, <3>6, DoneHonest
  <2>. QED
    BY <1>4, <2>1, <2>7 DEF files
<1>9. CASE ~Refuses(f) /\ ~InPlace(f) /\ ~(~storeOk \/ mood[f] = "mdm")
  <2>. DEFINE u == [held |-> Holds(f), drift |-> rec[Owner(f)] = run.hash]
  <2>1. /\ SetFile(f, Wanted(f)) /\ run' = [run EXCEPT !.undo = u, !.touched = run.touched \ {f}]
    BY <1>9 DEF Apply
  <2>2. u \in Undos /\ run.touched \ {f} \in SUBSET (Files \union {"store"}) /\ u.held = Holds(f) /\ u # None
    BY <1>1, HoldsIs, UndosAre DEF CycleType
  <2>. HIDE DEF u
  <2>3. /\ run'.lane = run.lane /\ run'.hash = run.hash /\ run'.was = run.was /\ run'.found = run.found
        /\ run'.touched = run.touched \ {f} /\ run'.undo = u /\ run'.inForce = run.inForce /\ run'.states = run.states
        /\ run'.todo = run.todo
    BY <1>1, <2>1, <2>2, WrittenIs
  <2>4. /\ f = "netrc" => cred' = run.hash.tok /\ block' = block
        /\ f # "netrc" => cred' = cred /\ \A c \in ClientFiles : c # f => block'[c] = block[c]
    BY <1>1, <2>1, HoldsIs, SetFileType DEF Wanted
  <2>5. Has(run.todo, Task("apply", f))
    BY <1>1, InvGives
  <2>6. Shape(run')
    <3>1. Shape(run)
      BY <1>1, InvGives
    <3>. QED
      BY <1>2, <2>3, <3>1 DEF Shape
  <2>7. Kept(run', cred', block')
    <3>. SUFFICES ASSUME run.states \subseteq Good PROVE Kept(run', cred', block')
      BY <2>3 DEF Kept
    <3>1. Kept(run, cred, block)
      BY <1>1, <1>2, InvGives
    <3>2. ~Has(run.todo, ApplyIt) /\ "netrc" \notin run.touched \ {f} => cred' = run.hash.tok
      BY <1>1, <1>3, <2>4, <2>5, <3>1 DEF Kept
    <3>3. ASSUME NEW c \in run.hash.clients, ~Has(run.todo, Task("apply", c)), c \notin run.touched \ {f}
          PROVE  block'[c] = "good"
      <4>1. c # f /\ c \in ClientFiles
        BY <1>1, <2>5, <3>3, InvGives DEF Shape
      <4>. QED
        BY <2>4, <3>1, <3>3, <4>1 DEF Kept
    <3>4. ASSUME NEW c \in Clients[run.lane] \ run.hash.clients,
                 ~Has(run.todo, Task("clear", c)) \/ Head(run.todo) = Task("clear", c), c \notin run.touched \ {f}
          PROVE  block'[c] = "none"
      <4>1. c # f /\ c \in ClientFiles
        BY <1>1, <1>2, <1>6, <3>4, InvGives
      <4>2. ~Has(run.todo, Task("clear", c))
        BY <1>1, <1>3, <3>4
      <4>. QED
        BY <2>4, <3>1, <3>4, <4>1, <4>2 DEF Kept
    <3>. QED
      BY <2>3, <3>2, <3>3, <3>4 DEF Kept
  <2>8. Told(run', report)
    BY <1>1, <2>3 DEF Told
  <2>9. Brought(run', cred', mood)
    <3>. SUFFICES ASSUME run.found = 0 PROVE Brought(run', cred', mood)
      BY <2>3 DEF Brought
    <3>1. f = "netrc" => cred = 0 /\ u.held = 0 /\ mood["netrc"] # "refused"
      BY <1>1, <1>3, <1>5, <1>9, <2>2, <2>5 DEF Brought, Holds, Refuses
    <3>2. f # "netrc" /\ "netrc" \notin run.touched \ {f} /\ cred # 0 => mood["netrc"] # "refused"
      BY <1>5 DEF Brought
    <3>3. Head(run.todo) # SettleIt
      BY <1>1, <1>3
    <3>4. Has(run.todo, ApplyIt) => f = "netrc" /\ cred' = run.hash.tok
      BY <1>2, <2>4
    <3>5. "netrc" \notin run.touched \ {f} /\ cred' # 0 => mood["netrc"] # "refused"
      BY <2>4, <3>1, <3>2
    <3>. QED
      BY <1>2, <2>2, <2>3, <3>1, <3>3, <3>4, <3>5 DEF Brought
  <2>10. Used(run', block')
    <3>. SUFFICES ASSUME NEW c \in ClientFiles \cap run.inForce
                  PROVE  /\ c \in run.hash.clients /\ ~Has(run.todo, Task("apply", c))
                         /\ c \notin run.touched \ {f} => block'[c] = "good"
      BY <2>3 DEF Used
    <3>1. c \in run.hash.clients /\ ~Has(run.todo, Task("apply", c)) /\ (c \notin run.touched => block[c] = "good")
      BY <1>1, <1>2, InvGives DEF Used
    <3>2. c # f
      BY <2>5, <3>1
    <3>. QED
      BY <2>4, <3>1, <3>2
  <2>11. run.was => run.found = run.hash.tok
    BY <1>1, <1>2, InvGives
  <2>. QED
    BY <1>4, <2>3, <2>6, <2>7, <2>8, <2>9, <2>10, <2>11 DEF Honest
<1>. QED
  BY <1>7, <1>8, <1>9

LEMMA RecordHonest ==
    ASSUME Inv, NEW f \in Files, Record(f)
    PROVE  Honest(run', cred', block', mood', report')
<1>1. /\ run \in CycleType /\ run # Idle /\ run.todo # <<>> /\ Head(run.todo) = Task("apply", f)
      /\ run.undo # None /\ Now("apply", f) /\ TypeOK /\ Head(run.todo).op = "apply" /\ Head(run.todo).f = f
  BY NowIs, IdleIs DEF Record, Inv, Typed
<1>2. /\ ~Clearing /\ (f = "netrc" \/ (f \in run.hash.clients /\ f \in ClientFiles))
      /\ Has(run.todo, SettleIt) /\ (f # "netrc" => ~Has(run.todo, ApplyIt))
  BY <1>1, InvGives, HeadKind
<1>3. /\ Head(run.todo) # ReportIt /\ Head(run.todo) # SettleIt /\ (Head(run.todo) = ApplyIt <=> f = "netrc")
      /\ \A c : Head(run.todo) # Task("clear", c) /\ (Head(run.todo) = Task("apply", c) <=> c = f)
  BY <1>1, TaskIs DEF ReportIt, SettleIt, ApplyIt
<1>4. mood' = mood /\ report' = report
  BY DEF Record, world
<1>5. /\ run.found = 0 /\ "netrc" \notin run.touched /\ cred # 0 => mood["netrc"] # "refused"
      /\ run.found = 0 /\ f = "netrc" => run.undo.held = 0 /\ ("netrc" \notin run.touched => cred = run.hash.tok)
  BY <1>1, <1>2, <1>3, InvGives DEF Brought
<1>6. "netrc" \notin ClientFiles /\ run.hash.clients \subseteq ClientFiles
  BY <1>1, InvGives DEF Shape, ClientFiles
<1>7. CASE storeOk /\ (Refuses(f) \/ ~InPlace(f))
  <2>1. PICK s \in {"verification_failed", "not_applied"} : Done(f, s, {}) /\ UNCHANGED files
    BY <1>7 DEF Record
  <2>2. s \in States /\ s \notin Good /\ {} \in SUBSET Files
    BY <2>1, StatesAre
  <2>3. run.found = 0 /\ f = "netrc" /\ "netrc" \notin run.touched => cred = 0
    BY <1>5, <1>7 DEF Refuses, InPlace
  <2>4. Honest(run', cred, block, mood, report)
    BY <1>1, <1>2, <1>3, <1>5, <2>1, <2>2, <2>3, DoneHonest
  <2>. QED
    BY <1>4, <2>1, <2>4 DEF files
<1>8. CASE storeOk /\ ~Refuses(f) /\ InPlace(f)
  <2>1. /\ Done(f, Observed(f, IF run.undo.drift THEN "drift" ELSE "compliant"), {f}) /\ UNCHANGED files
    BY <1>8 DEF Record
  <2>2. PICK s \in {"compliant", "drift", "not_applied"} : s = Observed(f, IF run.undo.drift THEN "drift" ELSE "compliant")
    BY StatesAre
  <2>3. s \in States /\ {f} \in SUBSET Files /\ Done(f, s, {f})
    BY <2>1, <2>2 DEF States
  <2>4. IF f = "netrc" THEN cred = run.hash.tok ELSE block[f] = "good"
    BY <1>8 DEF InPlace
  <2>5. f = "netrc" => s \in Good
    BY <2>2 DEF Observed, Inv, Plain, Good
  <2>6. \A c \in run.hash.clients : Head(run.todo) = Task("apply", c) => block[c] = "good"
    BY <1>3, <1>6, <2>4
  <2>7. \A c \in ClientFiles \cap {f} :
          c \in run.hash.clients /\ Head(run.todo) = Task("apply", c) /\ block[c] = "good"
    BY <1>2, <1>3, <1>6, <2>4
  <2>8. Head(run.todo) = ApplyIt => cred = run.hash.tok
    BY <1>3, <2>4
  <2>9. Honest(run', cred, block, mood, report)
    BY <1>1, <1>2, <1>3, <1>5, <2>3, <2>5, <2>6, <2>7, <2>8, DoneHonest
  <2>. QED
    BY <1>4, <2>1, <2>9 DEF files
<1>9. CASE ~storeOk /\ Restorable(f)
  <2>1. Done(f, "write_failed", {}) /\ SetFile(f, run.undo.held)
    BY <1>9 DEF Record
  <2>2. "write_failed" \in States /\ "write_failed" \notin Good /\ {} \in SUBSET Files
    BY StatesAre
  <2>3. run.undo.held \in Holdable(f)
    BY <1>1, InvGives DEF HeldOK
  <2>4. /\ f = "netrc" => cred' = run.undo.held /\ block' = block
        /\ f # "netrc" => cred' = cred /\ \A c \in ClientFiles : c # f => block'[c] = block[c]
    BY <1>1, <2>1, <2>3, SetFileType
  <2>5. \A c \in ClientFiles : block'[c] = block[c] \/ Head(run.todo) = Task("apply", c)
    BY <1>3, <2>4
  <2>6. /\ run.found = 0 /\ "netrc" \notin run.touched /\ cred' # 0 => mood["netrc"] # "refused"
        /\ run.found = 0 /\ f = "netrc" => cred' = 0
    BY <1>5, <2>4
  <2>7. Honest(run', cred', block', mood, report)
    BY <1>1, <1>2, <1>3, <2>1, <2>2, <2>5, <2>6, DoneHonest
  <2>. QED
    BY <1>4, <2>7
<1>10. CASE ~storeOk /\ ~Restorable(f)
  <2>1. Done(f, "verification_failed", {}) /\ UNCHANGED files
    BY <1>10 DEF Record
  <2>2. "verification_failed" \in States /\ "verification_failed" \notin Good /\ {} \in SUBSET Files
    BY StatesAre
  <2>3. run.found = 0 /\ f = "netrc" /\ "netrc" \notin run.touched => cred = 0
    BY <1>5, <1>10 DEF Restorable, Refuses
  <2>4. Honest(run', cred, block, mood, report)
    BY <1>1, <1>2, <1>3, <1>5, <2>1, <2>2, <2>3, DoneHonest
  <2>. QED
    BY <1>4, <2>1, <2>4 DEF files
<1>. QED
  BY <1>7, <1>8, <1>9, <1>10

LEMMA ClearHonest ==
    ASSUME Inv, NEW f \in Files, Clear(f)
    PROVE  Honest(run', cred', block', mood', report')
<1>1. /\ run \in CycleType /\ run # Idle /\ run.todo # <<>> /\ Head(run.todo) = Task("clear", f)
      /\ run.undo = None /\ Now("clear", f) /\ TypeOK
  BY NowIs, IdleIs DEF Clear, Inv, Typed
<1>2. /\ f \in Clients[run.lane] /\ f \in ClientFiles /\ f # "netrc"
      /\ ~Clearing => f \notin run.hash.clients /\ Has(run.todo, SettleIt)
  BY <1>1, InvGives, HeadKind DEF ClientFiles
<1>3. /\ Head(run.todo) # ReportIt /\ Head(run.todo) # SettleIt /\ Head(run.todo) # ApplyIt
      /\ \A c : Head(run.todo) # Task("apply", c) /\ (Head(run.todo) = Task("clear", c) <=> c = f)
  BY <1>1, TaskIs DEF ReportIt, SettleIt, ApplyIt
<1>4. mood' = mood /\ report' = report
  BY DEF Clear, world
<1>5. CASE Refuses(f)
  <2>1. Done(f, "write_failed", {}) /\ UNCHANGED files
    BY <1>5 DEF Clear
  <2>2. "write_failed" \in States /\ "write_failed" \notin Good /\ {} \in SUBSET Files
    BY StatesAre
  <2>3. CASE Clearing
    BY <1>1, <2>1, <2>2, <2>3, ClearingDone
  <2>4. CASE ~Clearing
    <3>1. run.found = 0 /\ "netrc" \notin run.touched /\ cred # 0 => mood["netrc"] # "refused"
      BY <1>1, <2>4, InvGives DEF Brought
    <3>2. Honest(run', cred, block, mood, report)
      BY <1>1, <1>2, <1>3, <2>1, <2>2, <2>4, <3>1, DoneHonest
    <3>. QED
      BY <1>4, <2>1, <3>2 DEF files
  <2>. QED
    BY <2>3, <2>4
<1>6. CASE ~Refuses(f)
  <2>. DEFINE u == [held |-> Holds(f), drift |-> FALSE]
  <2>1. u \in Undos /\ u # None /\ run.touched \in SUBSET (Files \union {"store"})
    BY <1>1, HoldsIs, UndosAre DEF CycleType
  <2>2. SetFile(f, "none") /\ run' = [run EXCEPT !.undo = u, !.touched = run.touched]
    BY <1>1, <1>2, <1>6 DEF Clear, CycleType, Empty
  <2>. HIDE DEF u
  <2>3. /\ run'.lane = run.lane /\ run'.hash = run.hash /\ run'.was = run.was /\ run'.found = run.found
        /\ run'.touched = run.touched /\ run'.undo = u /\ run'.inForce = run.inForce /\ run'.states = run.states
        /\ run'.todo = run.todo
    BY <1>1, <2>1, <2>2, WrittenIs
  <2>4. cred' = cred /\ block'[f] = "none" /\ \A c \in ClientFiles : c # f => block'[c] = block[c]
    BY <1>1, <1>2, <2>2, SetFileType DEF Holdable, Blocks
  <2>5. CASE Clearing
    BY <1>1, <2>3, <2>5, ClearingHonest
  <2>6. CASE ~Clearing
    <3>1. Shape(run) /\ run.lane \in Lanes /\ Kept(run, cred, block) /\ Brought(run, cred, mood) /\ Used(run, block)
      BY <1>1, <2>6, InvGives
    <3>2. Shape(run')
      BY <1>2, <2>3, <2>6, <3>1 DEF Shape
    <3>3. Kept(run', cred', block')
      <4>. SUFFICES ASSUME run.states \subseteq Good PROVE Kept(run', cred', block')
        BY <2>3 DEF Kept
      <4>1. ~Has(run.todo, ApplyIt) /\ "netrc" \notin run.touched => cred = run.hash.tok
        BY <1>1, <3>1 DEF Kept
      <4>2. ASSUME NEW c \in run.hash.clients, ~Has(run.todo, Task("apply", c)), c \notin run.touched
            PROVE  block'[c] = "good"
        <5>1. c # f /\ c \in ClientFiles
          BY <1>1, <1>2, <2>6, InvGives DEF Shape
        <5>. QED
          BY <2>4, <3>1, <4>2, <5>1 DEF Kept
      <4>3. ASSUME NEW c \in Clients[run.lane] \ run.hash.clients,
                   ~Has(run.todo, Task("clear", c)) \/ Head(run.todo) = Task("clear", c), c \notin run.touched
            PROVE  block'[c] = "none"
        <5>1. c \in ClientFiles
          BY <1>1, InvGives
        <5>2. c # f => ~Has(run.todo, Task("clear", c))
          BY <1>3, <4>3
        <5>3. c # f => block[c] = "none"
          BY <3>1, <4>3, <5>2 DEF Kept
        <5>. QED
          BY <2>4, <5>1, <5>3
      <4>. QED
        BY <2>3, <2>4, <4>1, <4>2, <4>3 DEF Kept
    <3>4. Told(run', report)
      BY <1>1, <2>3 DEF Told
    <3>5. Brought(run', cred', mood)
      <4>1. ~Has(run.todo, ApplyIt)
        BY <1>3, <2>6, <3>1 DEF Shape, Clearing
      <4>. QED
        BY <1>1, <1>2, <1>3, <2>3, <2>4, <2>6, <3>1, <4>1 DEF Brought
    <3>6. Used(run', block')
      <4>. SUFFICES ASSUME NEW c \in ClientFiles \cap run.inForce
                    PROVE  /\ c \in run.hash.clients /\ ~Has(run.todo, Task("apply", c))
                           /\ c \notin run.touched => block'[c] = "good"
        BY <2>3 DEF Used
      <4>. QED
        BY <1>2, <2>4, <2>6, <3>1 DEF Used
    <3>7. run.was => run.found = run.hash.tok
      BY <1>1, <2>6, InvGives
    <3>. QED
      BY <1>4, <2>3, <3>2, <3>3, <3>4, <3>5, <3>6, <3>7 DEF Honest
  <2>. QED
    BY <2>5, <2>6
<1>. QED
  BY <1>5, <1>6

LEMMA ClearRecordHonest ==
    ASSUME Inv, NEW f \in Files, ClearRecord(f)
    PROVE  Honest(run', cred', block', mood', report')
<1>1. /\ run \in CycleType /\ run # Idle /\ run.todo # <<>> /\ Head(run.todo) = Task("clear", f)
      /\ run.undo # None /\ Now("clear", f) /\ TypeOK /\ Typed
  BY NowIs, IdleIs DEF ClearRecord, Inv, Typed
<1>2. /\ f \in Clients[run.lane] /\ f \in ClientFiles /\ f # "netrc"
      /\ ~Clearing => f \notin run.hash.clients /\ Has(run.todo, SettleIt)
  BY <1>1, InvGives, HeadKind DEF ClientFiles
<1>3. /\ Head(run.todo) # ReportIt /\ Head(run.todo) # SettleIt /\ Head(run.todo) # ApplyIt
      /\ \A c : Head(run.todo) # Task("apply", c) /\ (Head(run.todo) = Task("clear", c) <=> c = f)
  BY <1>1, TaskIs DEF ReportIt, SettleIt, ApplyIt
<1>4. mood' = mood /\ report' = report /\ cred' = cred /\ block' = block
  BY DEF ClearRecord, world, files
<1>5. PICK s \in {"compliant", "write_failed"} : Done(f, s, {})
  BY <1>1, DropRecordIs DEF ClearRecord
<1>6. s \in States /\ {} \in SUBSET Files
  BY <1>5 DEF States
<1>7. CASE Clearing
  BY <1>1, <1>5, <1>6, <1>7, ClearingDone
<1>8. CASE ~Clearing
  <2>1. run.found = 0 /\ "netrc" \notin run.touched /\ cred # 0 => mood["netrc"] # "refused"
    BY <1>1, <1>8, InvGives DEF Brought
  <2>2. Honest(run', cred, block, mood, report)
    BY <1>1, <1>2, <1>3, <1>5, <1>6, <1>8, <2>1, DoneHonest
  <2>. QED
    BY <1>4, <2>2
<1>. QED
  BY <1>7, <1>8

LEMMA ReleaseHonest ==
    ASSUME Inv, Release \/ ReleaseRecord
    PROVE  Honest(run', cred', block', mood', report')
<1>1. /\ run \in CycleType /\ run # Idle /\ run.todo # <<>> /\ Now("release", "netrc") /\ TypeOK /\ Typed
      /\ "netrc" \in Files
  BY NowIs, IdleIs DEF Release, ReleaseRecord, Inv, Typed, Files
<1>2. Clearing
  BY <1>1, InvGives, HeadKind
<1>3. CASE Stop
  BY <1>1, <1>2, <1>3, StopIs, EmptyHas, ClearingHonest
<1>4. CASE DropRecord("netrc")
  <2>1. PICK s \in {"compliant", "write_failed"} : Done("netrc", s, {})
    BY <1>1, <1>4, DropRecordIs
  <2>2. s \in States
    BY <2>1 DEF States
  <2>. QED
    BY <1>1, <1>2, <2>1, <2>2, ClearingDone
<1>5. CASE run' = [run EXCEPT !.undo = [held |-> cred, drift |-> FALSE]]
  <2>1. run'.lane = run.lane /\ run'.hash = run.hash /\ run'.todo = run.todo
    BY <1>1, <1>5 DEF CycleType
  <2>. QED
    BY <1>1, <1>2, <2>1, ClearingHonest
<1>. QED
  BY <1>3, <1>4, <1>5 DEF Release, ReleaseRecord

LEMMA SettleHonest ==
    ASSUME Inv, Settle
    PROVE  Honest(run', cred', block', mood', report')
<1>1. /\ run \in CycleType /\ run # Idle /\ run.todo # <<>> /\ Head(run.todo) = SettleIt
      /\ run.undo = None /\ Now("settle", "netrc") /\ TypeOK /\ "netrc" \in Files /\ "pip" \in Files
  BY NowIs, IdleIs DEF Settle, Inv, Typed, Files, SettleIt
<1>2. ~Clearing
  BY <1>1, InvGives, HeadKind
<1>3. /\ Head(run.todo) # ReportIt /\ Head(run.todo) # ApplyIt
      /\ \A c : Head(run.todo) # Task("apply", c) /\ Head(run.todo) # Task("clear", c)
  BY <1>1, TaskIs DEF ReportIt, SettleIt, ApplyIt
<1>4. mood' = mood /\ report' = report
  BY DEF Settle, world
<1>5. /\ Shape(run) /\ Kept(run, cred, block) /\ Brought(run, cred, mood) /\ Used(run, block)
      /\ run.was => run.found = run.hash.tok
      /\ run.hash.tok # 0 /\ Clients[run.lane] \subseteq ClientFiles /\ run.lane \in Lanes
  BY <1>1, <1>2, InvGives
<1>6. CASE ~Unused
  <2>1. Done("pip", "compliant", {}) /\ UNCHANGED files
    BY <1>6 DEF Settle
  <2>2. "compliant" \in States /\ {} \in SUBSET Files
    BY DEF States
  <2>3. run.found = 0 => \E c \in Clients[run.lane] : c \in run.inForce
    <3>. SUFFICES ASSUME run.found = 0 PROVE \E c \in Clients[run.lane] : c \in run.inForce
      OBVIOUS
    <3>1. PICK c \in run.inForce : c # "netrc"
      BY <1>5, <1>6 DEF Unused
    <3>2. c \in ClientFiles
      BY <1>1, <3>1 DEF CycleType, Files, ClientFiles
    <3>. QED
      BY <1>5, <3>1, <3>2 DEF Used, Shape
  <2>4. Honest(run', cred, block, mood, report)
    BY <1>1, <1>2, <1>3, <1>5, <2>1, <2>2, <2>3, DoneHonest DEF Brought
  <2>. QED
    BY <1>4, <2>1, <2>4 DEF files
<1>7. CASE Unused /\ Restorable("netrc")
  <2>. DEFINE u == [held |-> cred, drift |-> FALSE]
  <2>1. u \in Undos /\ u # None /\ run.touched \in SUBSET (Files \union {"store"}) /\ run.found \in Creds
    <3>1. u \in Undos
      BY <1>1 DEF TypeOK, Undos
    <3>2. u # None
      BY <3>1, UndosAre
    <3>. QED
      BY <1>1, <3>1, <3>2 DEF CycleType
  <2>2. SetFile("netrc", run.found) /\ run' = [run EXCEPT !.undo = u, !.touched = run.touched]
    BY <1>1, <1>7 DEF Settle, CycleType
  <2>. HIDE DEF u
  <2>3. /\ run'.lane = run.lane /\ run'.hash = run.hash /\ run'.was = run.was /\ run'.found = run.found
        /\ run'.touched = run.touched /\ run'.undo = u /\ run'.inForce = run.inForce /\ run'.states = run.states
        /\ run'.todo = run.todo
    BY <1>1, <2>1, <2>2, WrittenIs
  <2>4. cred' = run.found /\ block' = block
    BY <1>1, <2>1, <2>2, SetFileType DEF Holdable
  <2>5. Has(run.todo, SettleIt) /\ ~Has(run.todo, ApplyIt)
    BY <1>1, <1>2, <1>3, <1>5, InvGives DEF Shape, Clearing
  <2>6. Shape(run')
    BY <1>2, <1>5, <2>3, <2>5 DEF Shape
  <2>7. Kept(run', cred', block')
    BY <1>1, <1>3, <1>5, <2>1, <2>3, <2>4 DEF Kept
  <2>8. Told(run', report)
    BY <1>1, <2>3 DEF Told
  <2>9. Brought(run', cred', mood)
    BY <1>5, <2>3, <2>4, <2>5 DEF Brought
  <2>10. Used(run', block')
    BY <1>5, <2>3, <2>4 DEF Used
  <2>. QED
    BY <1>4, <1>5, <2>3, <2>6, <2>7, <2>8, <2>9, <2>10 DEF Honest
<1>8. CASE Unused /\ ~Restorable("netrc")
  <2>1. Done("pip", "verification_failed", {}) /\ UNCHANGED files
    BY <1>8 DEF Settle
  <2>2. "verification_failed" \in States /\ "verification_failed" \notin Good /\ {} \in SUBSET Files
    BY StatesAre
  <2>3. run.found = 0 /\ "netrc" \notin run.touched => cred = 0
    BY <1>5, <1>8 DEF Restorable, Refuses, Brought
  <2>4. Honest(run', cred, block, mood, report)
    BY <1>1, <1>2, <1>3, <2>1, <2>2, <2>3, DoneHonest
  <2>. QED
    BY <1>4, <2>1, <2>4 DEF files
<1>. QED
  BY <1>6, <1>7, <1>8

LEMMA SettleRecordHonest ==
    ASSUME Inv, SettleRecord
    PROVE  Honest(run', cred', block', mood', report')
<1>1. /\ run \in CycleType /\ run # Idle /\ run.todo # <<>> /\ Head(run.todo) = SettleIt
      /\ run.undo # None /\ Now("settle", "netrc") /\ TypeOK /\ "netrc" \in Files /\ "pip" \in Files
  BY NowIs, IdleIs DEF SettleRecord, Inv, Typed, Files, SettleIt
<1>2. ~Clearing
  BY <1>1, InvGives, HeadKind
<1>3. /\ Head(run.todo) # ReportIt /\ Head(run.todo) # ApplyIt
      /\ \A c : Head(run.todo) # Task("apply", c) /\ Head(run.todo) # Task("clear", c)
  BY <1>1, TaskIs DEF ReportIt, SettleIt, ApplyIt
<1>4. mood' = mood /\ report' = report /\ cred' = cred /\ block' = block
  BY DEF SettleRecord, world, files
<1>5. PICK s \in {"not_applied", "write_failed"} : Done("pip", s, {})
  BY DEF SettleRecord
<1>6. s \in States /\ s \notin Good /\ {} \in SUBSET Files
  BY <1>5, StatesAre
<1>7. run.found = 0 => cred = 0
  BY <1>1, <1>2, InvGives DEF Brought
<1>8. Honest(run', cred, block, mood, report)
  BY <1>1, <1>2, <1>3, <1>5, <1>6, <1>7, DoneHonest
<1>. QED
  BY <1>4, <1>8

LEMMA ReportHonest ==
    ASSUME Inv, Report
    PROVE  Honest(run', cred', block', mood', report')
<1>1. /\ run \in CycleType /\ run # Idle /\ run.todo # <<>> /\ Head(run.todo) = ReportIt
      /\ Now("report", "netrc") /\ TypeOK /\ "netrc" \in Files
  BY NowIs, IdleIs DEF Report, Inv, Typed, Files, ReportIt
<1>2. ~Clearing
  BY <1>1, InvGives, HeadKind
<1>3. /\ run'.lane = run.lane /\ run'.hash = run.hash /\ run'.was = run.was /\ run'.found = run.found
      /\ run'.touched = run.touched /\ run'.undo = run.undo /\ run'.inForce = run.inForce
      /\ run'.states = run.states /\ run'.todo = <<>>
  BY <1>1, StopIs DEF Report
<1>4. /\ Shape(run) /\ Kept(run, cred, block) /\ Brought(run, cred, mood) /\ Used(run, block)
      /\ run.was => run.found = run.hash.tok
      /\ run.lane \in Lanes /\ run.hash.clients \in SUBSET Clients[run.lane]
      /\ run.hash \in Hashes
  BY <1>1, <1>2, InvGives DEF Shape, CycleType
<1>5. /\ ~Has(run.todo, SettleIt) /\ \A t \in Work(run.lane, run.hash.clients) : ~Has(run.todo, t)
  BY <1>1, <1>2, <1>4, ShapeTells DEF Shape, Clearing
<1>6. ApplyIt \in Work(run.lane, run.hash.clients)
  BY DEF ApplyIt, Work
<1>7. run.undo = None /\ run.states # {}
  BY <1>2, <1>4, <1>5, <1>6 DEF Shape, Clearing
<1>8. cred' = cred /\ block' = block /\ mood' = mood
  BY DEF Report, world, files
<1>9. Told(run', report')
  <2>. DEFINE s == Aggregate(run.states)
  <2>1. report' = [report EXCEPT ![run.lane] = [state |-> s, hash |-> IF Succeeded(s) THEN run.hash ELSE None]]
    BY DEF Report
  <2>2. report'[run.lane].hash = IF Succeeded(s) THEN run.hash ELSE None
    BY <1>1, <1>4, <2>1 DEF TypeOK
  <2>3. run.hash # None
    BY <1>4, HashesAre
  <2>4. run.states \in SUBSET States
    BY <1>1 DEF CycleType
  <2>. HIDE DEF s
  <2>5. Succeeded(s) => run.states \subseteq Good
    BY <1>7, <2>4, WorstCounts DEF s
  <2>. QED
    BY <1>3, <2>2, <2>3, <2>5 DEF Told
<1>10. Shape(run')
  <2>1. EnforceShape(<<>>, run.lane, run.hash.clients)
    BY <1>4, ReportAlone
  <2>. QED
    BY <1>2, <1>3, <1>4, <1>7, <2>1, EmptyHas DEF Shape, Clearing
<1>11. Kept(run', cred, block)
  <2>1. /\ \A c \in run.hash.clients : ~Has(run.todo, Task("apply", c))
        /\ \A c \in Clients[run.lane] \ run.hash.clients : ~Has(run.todo, Task("clear", c))
    BY <1>5 DEF Work
  <2>. QED
    BY <1>3, <1>4, <1>5, <1>6, <1>7, <2>1 DEF Kept
<1>12. Brought(run', cred, mood)
  BY <1>3, <1>4, <1>5, <1>7, EmptyHas DEF Brought
<1>13. Used(run', block)
  BY <1>3, <1>4, EmptyHas DEF Used
<1>. QED
  BY <1>3, <1>4, <1>8, <1>9, <1>10, <1>11, <1>12, <1>13 DEF Honest

LEMMA BeginHonest ==
    ASSUME Inv, NEW l \in Lanes, Begin(l), run' # Idle
    PROVE  Honest(run', cred', block', mood', report')
<1>1. TypeOK /\ want[l] # None /\ want[l] \in SUBSET Clients[l]
  BY DEF Inv, Typed, Begin, ReportOnly, TypeOK
<1>2. cred' = cred /\ block' = block /\ mood' = mood
  BY DEF Begin, files, world
<1>3. CASE want[l] = {}
  <2>1. run' = Cycle(l, ClearTasks(l))
    BY <1>1, <1>3 DEF Begin
  <2>2. run'.lane = l /\ run'.hash.clients = {} /\ run'.todo = ClearTasks(l)
    BY <1>3, <2>1 DEF Cycle, Hash
  <2>. QED
    BY <2>2, ClearTasksAre DEF Honest, Shape
<1>4. CASE want[l] # {}
  <2>1. run' = Cycle(l, EnforceTasks(l)) /\ report' = report
    BY <1>1, <1>4 DEF Begin, ReportOnly
  <2>2. /\ run'.lane = l /\ run'.hash = Hash(l) /\ run'.was = (cred = tok) /\ run'.found = cred
        /\ run'.touched = {} /\ run'.undo = None /\ run'.inForce = {} /\ run'.states = {}
        /\ run'.todo = EnforceTasks(l)
    BY <2>1 DEF Cycle
  <2>3. Hash(l).clients = want[l] /\ Hash(l).tok = tok
    BY DEF Hash
  <2>4. /\ EnforceShape(EnforceTasks(l), l, want[l])
        /\ \A t \in Work(l, want[l]) : Has(EnforceTasks(l), t)
        /\ Has(EnforceTasks(l), SettleIt)
        /\ EnforceTasks(l) # <<>> /\ Head(EnforceTasks(l)) = ApplyIt
    BY <1>1, EnforceTasksAre DEF ApplyIt
  <2>5. ApplyIt \in Work(l, want[l]) /\ (\A c \in want[l] : Task("apply", c) \in Work(l, want[l]))
        /\ \A c \in Clients[l] \ want[l] : Task("clear", c) \in Work(l, want[l])
    BY DEF ApplyIt, Work
  <2>6. Shape(run')
    BY <1>1, <1>4, <2>2, <2>3, <2>4, <2>5 DEF Shape
  <2>7. Kept(run', cred, block)
    BY <2>2, <2>3, <2>4, <2>5 DEF Kept
  <2>8. Told(run', report) /\ Brought(run', cred, mood) /\ Used(run', block)
    BY <2>2, <2>4, <2>5 DEF Told, Brought, Used
  <2>. QED
    BY <1>2, <2>1, <2>2, <2>3, <2>6, <2>7, <2>8 DEF Honest
<1>. QED
  BY <1>3, <1>4

\* Others touch a file, or the ownership file: the cycle no longer answers
\* for it.
LEMMA TouchedHonest ==
    ASSUME Inv, run # Idle, NEW f \in Files \union {"store"}, Notice({f}), NEW cr, NEW bl, NEW md,
           cr = cred \/ (f = "netrc" /\ cred # 0),
           \A c \in ClientFiles : c # f => bl[c] = block[c],
           f # "netrc" => md["netrc"] = mood["netrc"]
    PROVE  run' # Idle /\ Honest(run', cr, bl, md, report)
<1>1. /\ run' # Idle
      /\ run'.lane = run.lane /\ run'.hash = run.hash /\ run'.was = run.was /\ run'.found = run.found
      /\ run'.touched = run.touched \union {f} /\ run'.undo = run.undo /\ run'.inForce = run.inForce
      /\ run'.states = run.states /\ run'.todo = run.todo
  <2>1. {f} \in SUBSET (Files \union {"store"}) /\ TypeOK
    BY InvGives
  <2>. QED
    BY <2>1, NoticeIs
<1>2. Shape(run) /\ Clients[run.lane] \subseteq ClientFiles /\ run.hash.clients \subseteq ClientFiles
  BY InvGives DEF Shape
<1>3. Shape(run')
  BY <1>1, <1>2 DEF Shape
<1>4. ASSUME ~Clearing
      PROVE  /\ Kept(run', cr, bl) /\ Told(run', report) /\ Brought(run', cr, md) /\ Used(run', bl)
             /\ run'.was => run'.found = run'.hash.tok
  <2>1. /\ Kept(run, cred, block) /\ Told(run, report) /\ Brought(run, cred, mood) /\ Used(run, block)
        /\ run.was => run.found = run.hash.tok
    BY <1>4, InvGives
  <2>2. Kept(run', cr, bl)
    BY <1>1, <1>2, <2>1 DEF Kept
  <2>3. Told(run', report)
    BY <1>1, <2>1 DEF Told
  <2>4. Brought(run', cr, md)
    <3>1. CASE f = "netrc"
      BY <1>1, <2>1, <3>1 DEF Brought
    <3>2. CASE f # "netrc"
      BY <1>1, <2>1, <3>2 DEF Brought
    <3>. QED
      BY <3>1, <3>2
  <2>5. Used(run', bl)
    BY <1>1, <2>1 DEF Used
  <2>. QED
    BY <1>1, <2>1, <2>2, <2>3, <2>4, <2>5
<1>. QED
  BY <1>1, <1>3, <1>4 DEF Honest, Clearing

LEMMA InvInit == Init => Inv
BY TypedInit DEF Init, Inv, Plain, Idle, Files

LEMMA InvStep == Inv /\ [Next]_vars => Inv'
<1>. SUFFICES ASSUME Inv, [Next]_vars PROVE Inv'
  OBVIOUS
<1>1. Typed' /\ TypeOK
  BY TypedStep DEF Inv, Typed
<1>. SUFFICES /\ Plain'
              /\ run' # Idle => Honest(run', cred', block', mood', report')
  BY <1>1 DEF Inv
<1>2. ASSUME NEW l \in Lanes, Begin(l) PROVE Plain' /\ (run' # Idle => Honest(run', cred', block', mood', report'))
  <2>1. Plain'
    BY <1>2 DEF Inv, Plain, Begin, world
  <2>. QED
    BY <1>2, <2>1, BeginHonest
<1>3. ASSUME NEW f \in Files, Apply(f) \/ Record(f) \/ Clear(f) \/ ClearRecord(f)
      PROVE  Plain' /\ Honest(run', cred', block', mood', report')
  <2>1. Plain'
    BY <1>3 DEF Inv, Plain, Apply, Record, Clear, ClearRecord, world
  <2>. QED
    BY <1>3, <2>1, ApplyHonest, RecordHonest, ClearHonest, ClearRecordHonest
<1>4. CASE Release \/ ReleaseRecord \/ Settle \/ SettleRecord \/ Report
  <2>1. Plain'
    BY <1>4 DEF Inv, Plain, Release, ReleaseRecord, Settle, SettleRecord, Report, world
  <2>. QED
    BY <1>4, <2>1, ReleaseHonest, SettleHonest, SettleRecordHonest, ReportHonest
<1>5. CASE End
  BY <1>5 DEF Inv, Plain, End, world
<1>6. ASSUME NEW l \in Lanes, NEW S, Assigned(l, S)
      PROVE  Plain' /\ (run' # Idle => Honest(run', cred', block', mood', report'))
  BY <1>6 DEF Inv, Plain, Assigned, files
<1>7. ASSUME NEW t \in Toks, Rotated(t)
      PROVE  Plain' /\ (run' # Idle => Honest(run', cred', block', mood', report'))
  BY <1>7 DEF Inv, Plain, Rotated, files
<1>8. ASSUME NEW f \in Files, NEW v \in Holdable(f), Edited(f, v)
      PROVE  Plain' /\ (run' # Idle => Honest(run', cred', block', mood', report'))
  <2>1. /\ mood' = mood /\ report' = report /\ Notice({f}) /\ HasBlock(f)
    BY <1>8 DEF Edited
  <2>2. /\ f = "netrc" => block' = block /\ cred # 0
        /\ f # "netrc" => cred' = cred /\ \A c \in ClientFiles : c # f => block'[c] = block[c]
    BY <1>1, <1>8, <2>1, SetFileType DEF Edited, HasBlock
  <2>3. CASE run = Idle
    BY <2>1, <2>3 DEF Notice, Inv, Plain
  <2>4. CASE run # Idle
    BY <2>1, <2>2, <2>4, TouchedHonest DEF Inv, Plain
  <2>. QED
    BY <2>3, <2>4
<1>9. ASSUME NEW f \in Files, NEW m \in Moods \union {"ok"}, Became(f, m)
      PROVE  Plain' /\ (run' # Idle => Honest(run', cred', block', mood', report'))
  <2>1. /\ mood' = [mood EXCEPT ![f] = m] /\ report' = report /\ Notice({f}) /\ cred' = cred /\ block' = block
        /\ f = "netrc" => m # "overridden"
    BY <1>9 DEF Became, files
  <2>2. Plain' /\ (f # "netrc" => mood'["netrc"] = mood["netrc"])
    BY <1>1, <2>1 DEF Inv, Plain, TypeOK, Files
  <2>3. CASE run = Idle
    BY <2>1, <2>2, <2>3 DEF Notice
  <2>4. CASE run # Idle
    BY <2>1, <2>2, <2>4, TouchedHonest
  <2>. QED
    BY <2>3, <2>4
<1>10. CASE StoreTurns
  <2>1. mood' = mood /\ report' = report /\ Notice({"store"}) /\ cred' = cred /\ block' = block
    BY <1>10 DEF StoreTurns, files
  <2>2. CASE run = Idle
    BY <2>1, <2>2 DEF Notice, Inv, Plain
  <2>3. CASE run # Idle
    BY <2>1, <2>3, TouchedHonest DEF Inv, Plain
  <2>. QED
    BY <2>2, <2>3
<1>11. CASE Killed
  BY <1>11 DEF Killed, Inv, Plain
<1>12. CASE UNCHANGED vars
  BY <1>12 DEF vars, Inv, Plain
<1>13. \A f \in Files : Empty(f) \in Holdable(f) /\ (f # "netrc" => "stale" \in Holdable(f))
  BY <1>1, HoldsIs DEF Holdable, Blocks
<1>. QED
  BY <1>2, <1>3, <1>4, <1>5, <1>6, <1>7, <1>8, <1>9, <1>10, <1>11, <1>12, <1>13 DEF Next, Step, World

LEMMA InvAlways == Spec => []Inv
BY InvInit, InvStep, PTL DEF Spec

\* A finished cycle leaves no credential that nobody uses, and what it
\* reports is true of the files: enforcement, rollback and settlement of both
\* coordinators, whatever was refused, overridden or touched on the way.
THEOREM CyclesAreHonest == Spec => []CycleIsHonest
<1>1. ASSUME Inv PROVE CycleIsHonest
  <2>. SUFFICES ASSUME Ending PROVE CycleIsHonest
    BY DEF CycleIsHonest, NoUnusedCredential, ComplianceIsReal
  <2>1. run # Idle /\ run.todo = <<>> /\ ~Clearing
    BY DEF Ending
  <2>2. /\ Shape(run) /\ Kept(run, cred, block) /\ Told(run, report) /\ Brought(run, cred, mood) /\ Used(run, block)
        /\ run.lane \in Lanes /\ Clients[run.lane] \subseteq ClientFiles
    BY <1>1, <2>1, InvGives
  <2>3. \A t : ~Has(run.todo, t)
    BY <2>1, EmptyHas
  <2>4. run.undo = None
    BY <2>1, <2>2, <2>3 DEF Shape, Clearing
  <2>5. NoUnusedCredential
    BY <2>2, <2>3 DEF NoUnusedCredential, Brought, Used
  <2>6. ComplianceIsReal
    BY <2>1, <2>2, <2>3, <2>4 DEF ComplianceIsReal, Told, Kept, Shape
  <2>. QED
    BY <2>5, <2>6 DEF CycleIsHonest
<1>. QED
  BY <1>1, InvAlways, PTL

\* The credential in .netrc is not taken from the lane that still uses it:
\* a clear looks for the sibling's blocks, a rollback only undoes its cycle.
THEOREM SiblingIsSafe == Spec => SiblingKeepsCredential
<1>. DEFINE Safe == \/ \A c \in Clients[Other(run.lane)] : ~HasBlock(c)
                    \/ ~Clearing /\ (run.found = 0 \/ (run.undo # None /\ run.undo.held = 0))
<1>1. ASSUME Inv, Step, cred # 0, cred' = 0 PROVE Safe
  <2>0. TypeOK /\ "netrc" \in Files
    BY <1>1 DEF Inv, Typed, Files
  <2>1. ASSUME NEW f \in Files, Apply(f) PROVE FALSE
    <3>1. SetFile(f, Wanted(f)) /\ run # Idle
      BY <1>1, <2>1 DEF Apply, files, Now
    <3>2. run.hash.tok # 0 /\ Wanted(f) \in Holdable(f)
      BY <1>1, <2>0, <3>1, InvGives, HoldsIs
    <3>. QED
      BY <1>1, <2>0, <3>1, <3>2, SetFileType DEF Wanted
  <2>2. ASSUME NEW f \in Files, Record(f) PROVE Safe
    <3>1. SetFile(f, run.undo.held) /\ run # Idle /\ Now("apply", f) /\ run.undo # None
      BY <1>1, <2>2 DEF Record, files, Now
    <3>2. run.undo.held \in Holdable(f)
      BY <1>1, <2>0, <3>1, NowIs, InvGives DEF HeldOK
    <3>3. run.undo.held = 0
      BY <1>1, <2>0, <3>1, <3>2, SetFileType
    <3>4. ~Clearing
      BY <1>1, <2>0, <3>1, InvGives, HeadKind
    <3>. QED
      BY <3>1, <3>3, <3>4
  <2>3. ASSUME NEW f \in Files, Clear(f) PROVE FALSE
    <3>1. SetFile(f, Empty(f)) /\ run # Idle /\ Now("clear", f)
      BY <1>1, <2>3 DEF Clear, files, Now
    <3>2. f # "netrc"
      BY <1>1, <2>0, <3>1, InvGives, HeadKind DEF ClientFiles
    <3>. QED
      BY <1>1, <2>0, <3>1, <3>2, SetFileType, HoldsIs
  <2>4. CASE Release
    <3>1. ~Sibling(run.lane)
      BY <1>1, <2>4 DEF Release, files
    <3>. QED
      BY <1>1, <3>1 DEF Sibling
  <2>5. CASE Settle
    <3>1. SetFile("netrc", run.found) /\ run # Idle /\ Now("settle", "netrc")
      BY <1>1, <2>5 DEF Settle, files, Now
    <3>2. run.found = 0
      BY <1>1, <3>1 DEF SetFile
    <3>3. ~Clearing
      BY <1>1, <2>0, <3>1, InvGives, HeadKind
    <3>. QED
      BY <3>2, <3>3
  <2>6. ASSUME \/ \E l \in Lanes : Begin(l)
               \/ \E f \in Files : ClearRecord(f)
               \/ ReleaseRecord \/ SettleRecord \/ Report \/ End
        PROVE  FALSE
    BY <1>1, <2>6 DEF Begin, ClearRecord, ReleaseRecord, SettleRecord, Report, End, files
  <2>. QED
    BY <1>1, <2>1, <2>2, <2>3, <2>4, <2>5, <2>6 DEF Step
<1>2. Inv /\ [Next]_vars => [Step /\ cred # 0 /\ cred' = 0 => Safe]_vars
  BY <1>1
<1>. QED
  BY <1>2, InvAlways, PTL DEF Spec, SiblingKeepsCredential
=============================================================================
