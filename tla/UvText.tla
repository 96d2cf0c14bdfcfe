------------------------------- MODULE UvText -------------------------------
(***************************************************************************)
(* The managed block of uv.toml (devicepolicy/uv_writer.go).  The block    *)
(* stands before the user's first table; conflicting root and [pip] keys   *)
(* and whole [[index]] tables are commented out; every result is parsed    *)
(* again as TOML before it is kept.                                        *)
(***************************************************************************)
EXTENDS TextLines

Begin    == Mark("begin")
End      == Mark("end")
MdmBegin == Mark("mdm begin")
Created  == Mark("created")

Key(k, v)   == Line("key", k, v)
Table(name) == Line("table", name, "")        \* [name]
Index(url)  == Line("table", "index", url)    \* [[index]] with its url
Ambiguous   == Line("key", "index", "multiline")  \* a managed key with a multi-line value
QuotedMark  == Line("string", "begin", "")    \* a marker's text inside a multi-line string

ConflictKeys == {"index-strategy", "index", "default-index", "index-url", "extra-index-url", "find-links"}
Body(url) == <<Key("index-strategy", "first"), Index(url)>>

-----------------------------------------------------------------------------
(* scanUVMarkers: one owner, one block, the created marker in a DMG block. *)
Begins(ls) == Where(ls, Begin) \union Where(ls, MdmBegin)
WellMarked(ls) ==
    /\ \A i, j \in Begins(ls) : i = j
    /\ \A i, j \in Where(ls, End) : i = j
    /\ (Begins(ls) = {}) <=> (Where(ls, End) = {})
    /\ \A b \in Begins(ls), e \in Where(ls, End) : b < e
    /\ \A i, j \in Where(ls, Created) : i = j
    /\ \A c \in Where(ls, Created) :
            \E b \in Where(ls, Begin), e \in Where(ls, End) : b < c /\ c < e

ByDmg(ls) == Where(ls, Begin) # {}
ByMdm(ls) == Where(ls, MdmBegin) # {}
InBlock(ls, i) == \E b \in Begins(ls), e \in Where(ls, End) : b <= i /\ i <= e

(* TOML: the table a key belongs to, and a document that repeats no key    *)
(* and no plain table.                                                     *)
Reads(l) == ~l.off /\ l.t \in {"key", "table"}
Tables(ls) == {i \in DOMAIN ls : Reads(ls[i]) /\ ls[i].t = "table"}
TableOf(ls, i) == LET t == {j \in Tables(ls) : j <= i} IN IF t = {} THEN 0 ELSE LastOf(t)
Section(ls, i) == IF TableOf(ls, i) = 0 THEN "root" ELSE ls[TableOf(ls, i)].k
KeyLines(ls) == {i \in DOMAIN ls : Reads(ls[i]) /\ ls[i].t = "key"}

IsToml(ls) ==
    /\ \A i, j \in KeyLines(ls) : ls[i].k = ls[j].k /\ TableOf(ls, i) = TableOf(ls, j) => i = j
    /\ \A i, j \in Tables(ls) : ls[i].k = ls[j].k /\ ls[i].k # "index" => i = j
    /\ \A i \in KeyLines(ls), j \in Tables(ls) :
            ls[i].k = ls[j].k => Section(ls, i) # "root"

(* uvSemanticMatch: the strategy, no conflicting key, this one index. *)
SemanticMatch(ls, url) ==
    /\ \E i \in KeyLines(ls) : Section(ls, i) = "root" /\ ls[i] = Key("index-strategy", "first")
    /\ \A i \in KeyLines(ls) :
            ls[i].k \in ConflictKeys =>
                \/ Section(ls, i) = "root" /\ ls[i].k = "index-strategy"
                \/ Section(ls, i) \notin {"root", "pip"}
    /\ \E i \in Tables(ls) : ls[i] = Index(url)
    /\ \A i, j \in Tables(ls) : ls[i].k = "index" /\ ls[j].k = "index" => i = j

-----------------------------------------------------------------------------
(* clearUVConfig: the block goes and the prefixes with it; what is left    *)
(* must be TOML.  An MDM block is not the agent's to touch.                *)
Base(f) == LET ls == Lines(f.ls, {i \in DOMAIN f.ls : ~InBlock(f.ls, i)})
           IN  Text(Uncommented(ls), f.nl)
CanStrip(f) == WellMarked(f.ls) /\ (Base(f) # f /\ ~ByMdm(f.ls) => IsToml(Base(f).ls))
Cleared(f) == IF ByMdm(f.ls) THEN f ELSE Base(f)

(* disableUVConflicts; an ambiguous multi-line value is refused. *)
Disabled(ls) ==
    [i \in DOMAIN ls |->
        IF \/ ls[i] # Blank /\ Section(ls, i) = "index"
           \/ ls[i].t = "key" /\ ls[i].k \in ConflictKeys /\ Section(ls, i) \in {"root", "pip"}
        THEN Off(ls[i]) ELSE ls[i]]
Ambiguities(ls) == {i \in DOMAIN ls :
    \/ ls[i] = Ambiguous /\ Section(ls, i) \in {"root", "pip"}
    \/ ls[i].t = "string" /\ Section(ls, i) = "index"}

Rewritten(f, url, created) ==
    LET base  == Cleared(f)
        ls    == Disabled(base.ls)
        first == IF Tables(base.ls) = {} THEN Len(ls) ELSE FirstOf(Tables(base.ls)) - 1
        block == <<Begin>> \o (IF created THEN <<Created>> ELSE <<>>) \o Body(url) \o <<End>>
    IN  Text(Upto(ls, first) \o block \o From(ls, first + 1), base.nl \/ base.ls = <<>>)

Converged(f, url) ==
    f.ex /\ WellMarked(f.ls) /\ ByDmg(f.ls) /\ IsToml(f.ls) /\ SemanticMatch(f.ls, url)

Write(f, url) ==
    LET created == IF ByDmg(f.ls) THEN Where(f.ls, Created) # {} ELSE ~f.ex
        next    == Rewritten(f, url, created)
    IN  IF /\ WellMarked(f.ls) /\ ~ByMdm(f.ls) /\ CanStrip(f) /\ IsToml(Cleared(f).ls)
           /\ Ambiguities(Cleared(f).ls) = {} /\ IsToml(next.ls) /\ SemanticMatch(next.ls, url)
        THEN [ok |-> TRUE, file |-> next] ELSE [ok |-> FALSE, file |-> f]

Clear(f) ==
    LET next  == Cleared(f)
        empty == \A i \in DOMAIN next.ls : next.ls[i] = Blank
    IN  IF ~CanStrip(f) /\ f.ex THEN [ok |-> FALSE, file |-> f]
        ELSE IF ~f.ex \/ next = f THEN [ok |-> TRUE, file |-> f]
        ELSE [ok |-> TRUE, file |-> IF empty /\ Where(f.ls, Created) # {} THEN NoFile ELSE next]

(* External: the index uv resolves by default. *)
UvSees(f) ==
    LET index == {i \in Tables(f.ls) : f.ls[i].k = "index"}
        key   == {i \in KeyLines(f.ls) : f.ls[i].k \in {"index-url", "default-index", "index"}
                                     /\ Section(f.ls, i) \in {"root", "pip"}}
    IN  IF ~IsToml(f.ls) THEN "error"
        ELSE IF key # {} THEN f.ls[FirstOf(key)].v
        ELSE IF index = {} THEN "unset" ELSE f.ls[FirstOf(index)].v
=============================================================================
