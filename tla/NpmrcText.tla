----------------------------- MODULE NpmrcText -----------------------------
(***************************************************************************)
(* The managed block of ~/.npmrc (internal/devicepolicy/npmrc.go): how the *)
(* writer installs, removes and judges it, what the MDM probes read from   *)
(* the file, and how npm itself reads it.                                  *)
(* A policy is its rendered body: active lines, the StepSecurity registry  *)
(* and token pair first when the policy has one.                           *)
(***************************************************************************)
EXTENDS TextLines

Begin == Mark("begin")
End   == Mark("end")
MdmFixed == Mark("mdm")
MdmBegin == Mark("mdm begin")
MdmEnd   == Mark("mdm end")

Kv(k, v)    == Line("kv", k, v)
ArrayOf(k)  == Line("array", k, "other")      \* registry[]=...
Section     == Line("section", "", "")        \* [global]
BareCR      == Line("cr", "", "")             \* a line npm would split, and the agent does not
QuotedKey   == Line("quoted", "", "")         \* '["registry"]'=..., coerced to a key by npm

Active(l) == l.t = "kv" /\ ~l.off
HasPair(body) == Len(body) >= 2 /\ body[1].k = "registry" /\ body[2].k = "token"
Pair(body)     == IF HasPair(body) THEN {"registry", "token"} ELSE {}
Settings(body) == IF HasPair(body) THEN From(body, 3) ELSE body
KeysOf(body)   == {body[i].k : i \in DOMAIN body}
ValueIn(body, k) == body[CHOOSE i \in DOMAIN body : body[i].k = k].v

(* The value an ini reader ends up with: the last active assignment. *)
LastValue(ls, k) ==
    LET I == {i \in DOMAIN ls : Active(ls[i]) /\ ls[i].k = k}
    IN  IF I = {} THEN "unset" ELSE ls[LastOf(I)].v
Effective(ls, body) == \A k \in KeysOf(body) : LastValue(ls, k) = ValueIn(body, k)

-----------------------------------------------------------------------------
(* A mutant for the runs: only a closed block goes. *)
InClosedBlock(ls, i) ==
    \E b \in Where(ls, Begin) : b <= i /\ \E e \in Where(ls, End) :
        i <= e /\ \A f \in Where(ls, End) : ~(b < f /\ f < i)

(* Finding the block. *)
InBlock(ls, i) ==
    \E b \in Where(ls, Begin) : b <= i /\ \A e \in Where(ls, End) : ~(b < e /\ e < i)

(* stripManagedBlock: every block goes, one without its END up to the end  *)
(* of the file.                                                            *)
Truncated(ls) == \E b \in Where(ls, Begin) : \A e \in Where(ls, End) : e < b
Stripped(f) ==
    LET ls == Lines(f.ls, {i \in DOMAIN f.ls : ~InBlock(f.ls, i)})
    IN  Text(ls, f.nl /\ ~Truncated(f.ls))

(* extractManagedBody: the first block, if it is closed. *)
HasBody(ls) == \E b \in Where(ls, Begin), e \in Where(ls, End) :
                    /\ b < e /\ \A c \in Where(ls, Begin) : b <= c
BodyIn(ls) ==
    LET b == FirstOf(Where(ls, Begin))
        e == FirstOf({i \in Where(ls, End) : i > b})
    IN  SubSeq(ls, b + 1, e - 1)

(* What no line-based reading of the file can be trusted through. *)
Opaque(ls, body) ==
    \E i \in DOMAIN ls : \/ ls[i] \in {Section, QuotedKey}
                         \/ (ls[i].t = "array" /\ ls[i].k \in KeysOf(body))

CommentBareRegistry(ls) ==
    [i \in DOMAIN ls |-> IF Active(ls[i]) /\ ls[i].k = "registry" THEN Off(ls[i]) ELSE ls[i]]

-----------------------------------------------------------------------------
(* rewriteContent and clearContent.                                        *)
CanRewrite(f, body) ==
    LET kept == Stripped(f).ls IN
    /\ Where(f.ls, BareCR) = {}
    /\ Count(kept, {MdmFixed, MdmBegin, MdmEnd}) = {}
    /\ ~Opaque(kept, body)

Rewritten(f, body) ==
    LET kept == Stripped(f).ls
        base == IF HasPair(body) THEN CommentBareRegistry(kept) ELSE Uncommented(kept)
    IN  Text(base \o <<Begin>> \o body \o <<End>>, TRUE)

CanClear(f) == Where(f.ls, BareCR) = {}
ClearedText(f) == Text(Uncommented(Stripped(f).ls), Stripped(f).nl)

(* A mutant for the runs: only the block is looked at. *)
ConvergedByBlock(f, body) ==
    IF ~f.ex THEN "no" ELSE IF HasBody(f.ls) /\ BodyIn(f.ls) = body THEN "yes" ELSE "no"

(* Converged: "error", or whether the block is in force as it stands. *)
Converged(f, body) ==
    IF ~f.ex THEN "no"
    ELSE IF Where(f.ls, BareCR) # {} \/ Opaque(f.ls, body) THEN "error"
    ELSE IF /\ HasBody(f.ls) /\ BodyIn(f.ls) = body
            /\ \A m \in {Begin, End} : \A i, j \in Where(f.ls, m) : i = j
            /\ Effective(f.ls, body)
         THEN "yes" ELSE "no"

-----------------------------------------------------------------------------
(* The MDM lane's block: the fixed form, or the bounded form that carries  *)
(* settings.  Markers inside a DMG block do not count.                     *)
OneBlock(ls) == \A m \in {Begin, End} : \A i, j \in Where(ls, m) : i = j
Outside(ls, m) == {i \in Where(ls, m) : ~InBlock(ls, i)}

FixedMatches(ls, m, body) ==
    \A k \in Pair(body) :
        \E i \in m + 1 .. Len(ls) :
            /\ ls[i] = Kv(k, ValueIn(body, k)) /\ Active(ls[i])
            /\ \A j \in m + 1 .. i : ~InBlock(ls, j) /\ ls[j] \notin {Blank, Section}

Bounded(ls) == \E b \in Outside(ls, MdmBegin), e \in Outside(ls, MdmEnd) :
                /\ Outside(ls, MdmBegin) = {b} /\ Outside(ls, MdmEnd) = {e} /\ b < e
                /\ \A i \in b .. e : ~InBlock(ls, i)
BoundedBody(ls) == SubSeq(ls, FirstOf(Outside(ls, MdmBegin)) + 1, FirstOf(Outside(ls, MdmEnd)) - 1)

(* A mutant for the runs: the MDM block is vouched for without the rest. *)
MdmBlockThere(f, body) ==
    /\ f.ex
    /\ IF Settings(body) = <<>>
       THEN \E m \in Outside(f.ls, MdmFixed) : FixedMatches(f.ls, m, body)
       ELSE Bounded(f.ls) /\ BoundedBody(f.ls) = body

(* ProbeExpected: the MDM lane has achieved the desired state. *)
MdmManaged(f, body) ==
    /\ f.ex /\ Where(f.ls, BareCR) = {} /\ ~Opaque(f.ls, body) /\ OneBlock(f.ls)
    /\ IF Settings(body) = <<>>
       THEN /\ Outside(f.ls, MdmBegin) = {} /\ Outside(f.ls, MdmEnd) = {}
            /\ \E m \in Outside(f.ls, MdmFixed) :
                   Outside(f.ls, MdmFixed) = {m} /\ FixedMatches(f.ls, m, body)
       ELSE /\ Outside(f.ls, MdmFixed) = {} /\ Bounded(f.ls) /\ BoundedBody(f.ls) = body
    /\ Effective(f.ls, body)

SettingsStatus(ls, body) ==
    LET keys == KeysOf(Settings(body)) \ Pair(body)
        lead == BoundedBody(ls)
    IN  IF \A k \in keys : LastValue(ls, k) = "unset" THEN "absent"
        ELSE IF /\ Outside(ls, MdmFixed) = {} /\ Bounded(ls)
                /\ HasPair(lead) = HasPair(body) /\ Settings(lead) = Settings(body)
                /\ \A k \in keys : LastValue(ls, k) = ValueIn(body, k)
             THEN "match" ELSE "mismatch"

(* ProbeContentNPM: what the verify-only report says of the file. *)
Observed(f, body) ==
    IF ~f.ex THEN [kind |-> "absent"]
    ELSE IF Where(f.ls, BareCR) # {} \/ Opaque(f.ls, body) \/ ~OneBlock(f.ls) THEN [kind |-> "error"]
    ELSE IF /\ Outside(f.ls, MdmFixed) = {}
            /\ Settings(body) = <<>> \/ Outside(f.ls, MdmBegin) = {} THEN [kind |-> "absent"]
    ELSE IF HasPair(body) /\ LastValue(f.ls, "registry") = "unset" THEN [kind |-> "error"]
    ELSE [kind |-> "managed",
          settings |-> IF Settings(body) = <<>> THEN "none" ELSE SettingsStatus(f.ls, body),
          registry |-> IF HasPair(body) THEN LastValue(f.ls, "registry") ELSE "none",
          auth |-> IF ~HasPair(body) THEN "none"
                   ELSE IF LastValue(f.ls, "token") = "unset" THEN "absent"
                   ELSE IF LastValue(f.ls, "token") = ValueIn(body, "token") THEN "match" ELSE "mismatch"]

-----------------------------------------------------------------------------
(* External: the value npm resolves for a key.  A section header scopes    *)
(* every key below it; an array line folds the scalars of its key into a   *)
(* list; the rest is last-wins.                                            *)
NpmSees(f, k) ==
    LET s  == Where(f.ls, Section)
        ls == IF s = {} THEN f.ls ELSE Upto(f.ls, FirstOf(s) - 1)
    IN  IF Count(f.ls, {BareCR, QuotedKey}) # {} THEN "unknown"
        ELSE IF \E i \in DOMAIN ls : ls[i].t = "array" /\ ls[i].k = k /\ ~ls[i].off THEN "list"
        ELSE LastValue(ls, k)
=============================================================================
