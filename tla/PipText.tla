------------------------------ MODULE PipText ------------------------------
(***************************************************************************)
(* The managed block of pip's user configuration (devicepolicy/            *)
(* pip_writer.go).  The block goes under the user's [global] header, or    *)
(* brings a header of its own at the end of the file; the user's own index *)
(* options are commented out, whole with their continuation lines.         *)
(***************************************************************************)
EXTENDS TextLines

Begin    == Mark("begin")
End      == Mark("end")
MdmBegin == Mark("mdm begin")
YesNo(b) == IF b THEN "yes" ELSE "no"
Appended(created, nl) == Line("appended", YesNo(created), YesNo(nl))   \* "appended-global created=.. final-newline=.."
HeaderUnended == Mark("existing-global")                 \* "existing-global final-newline=false"

Header(name) == Line("header", name, "")
Option(k, v) == Line("option", k, v)
Continued    == Line("cont", "", "")     \* an indented line
Global       == Header("global")

ConflictOptions == {"index-url", "extra-index-url", "find-links", "no-index"}
Body(url) == <<Option("index-url", url), Option("no-index", "false")>>

-----------------------------------------------------------------------------
(* scanPipMarkers: at most one block, well formed, of one owner. *)
Begins(ls) == Where(ls, Begin) \union Where(ls, MdmBegin)
WellMarked(ls) ==
    /\ \A i, j \in Begins(ls) : i = j
    /\ \A i, j \in Where(ls, End) : i = j
    /\ (Begins(ls) = {}) <=> (Where(ls, End) = {})
    /\ \A b \in Begins(ls), e \in Where(ls, End) : b < e

Managed(ls) == Begins(ls) # {}
ByDmg(ls)   == Where(ls, Begin) # {}
ByMdm(ls)   == Where(ls, MdmBegin) # {}
Block(ls)   == {i \in DOMAIN ls : \E b \in Begins(ls), e \in Where(ls, End) : b <= i /\ i <= e}
InBlock(ls, i) == i \in Block(ls)
BlockLines(ls) == Lines(ls, {i \in Block(ls) : ls[i] \notin {Begin, MdmBegin, End}})
BlockBody(ls)  == SelectSeq(BlockLines(ls), LAMBDA l : l.t # "appended" /\ l \notin {HeaderUnended, Global})
MetaOf(ls)     == {ls[i] : i \in {j \in Block(ls) : ls[j].t = "appended"}}

(* A mutant for the runs: the missing final newline is forgotten. *)
WithoutNewlineKept(f) ==
    IF ~Managed(f.ls) THEN f ELSE Text(Lines(f.ls, DOMAIN f.ls \ Block(f.ls)), f.nl)

(* removePipManagedBlock *)
Without(f) ==
    IF ~Managed(f.ls) THEN f
    ELSE LET e == FirstOf(Where(f.ls, End))
             unended == \/ \E m \in MetaOf(f.ls) : m.v = "no"
                        \/ \E i \in Block(f.ls) : f.ls[i] = HeaderUnended
         IN  Text(Lines(f.ls, DOMAIN f.ls \ Block(f.ls)),
                  IF e = Len(f.ls) THEN ~unended ELSE f.nl)

-----------------------------------------------------------------------------
(* parsePipINI.  A continuation belongs to the option above it.            *)
Read(ls, i) == ~ls[i].off /\ ls[i].t \in {"header", "option", "cont"}
Owner(ls, i) ==          \* the option line i continues, or i itself
    LET o == {j \in 1 .. i : ls[j].t = "option"} IN IF o = {} THEN i ELSE LastOf(o)
Continues(ls, i) ==
    /\ Read(ls, i) /\ ls[i].t = "cont"
    /\ \A j \in Owner(ls, i) + 1 .. i : ls[j].t = "cont" /\ ~ls[j].off
    /\ ls[Owner(ls, i)].t = "option" /\ ~ls[Owner(ls, i)].off
SectionOf(ls, i) ==
    LET h == {j \in 1 .. i : Read(ls, j) /\ ls[j].t = "header"} IN IF h = {} THEN 0 ELSE LastOf(h)
Options(ls) == {i \in DOMAIN ls : Read(ls, i) /\ ls[i].t = "option"}
Headers(ls) == {i \in DOMAIN ls : Read(ls, i) /\ ls[i].t = "header"}

Parses(ls) ==
    /\ \A i \in DOMAIN ls : Read(ls, i) /\ ls[i].t = "cont" => Continues(ls, i)
    /\ \A i, j \in Headers(ls) : ls[i].k = ls[j].k => i = j
    /\ \A i \in Options(ls) : SectionOf(ls, i) # 0
    /\ \A i, j \in Options(ls) : ls[i].k = ls[j].k /\ SectionOf(ls, i) = SectionOf(ls, j) => i = j

Conflicts(ls) == {i \in Options(ls) : ls[i].k \in ConflictOptions}
ActiveConflict(f) == Conflicts(Without(f).ls) # {}
Readable(f) == WellMarked(f.ls) /\ Parses(Without(f).ls)

(* rewritePipConfig *)
Disabled(ls) ==
    [i \in DOMAIN ls |->
        IF i \in Conflicts(ls) \/ (Continues(ls, i) /\ Owner(ls, i) \in Conflicts(ls)) THEN Off(ls[i]) ELSE ls[i]]

Rewritten(f, url) ==
    LET base  == IF ByDmg(f.ls) THEN Without(f) ELSE f
        ls    == Disabled(base.ls)
        home  == {i \in Headers(ls) : ls[i] = Global}
        h     == FirstOf(home)
        ended == h < Len(ls) \/ base.nl
        meta  == {m \in (IF ByDmg(f.ls) THEN MetaOf(f.ls) ELSE {}) : \A i \in DOMAIN ls : ls[i] = Blank}
        created == IF meta # {} THEN (CHOOSE m \in meta : TRUE).k = "yes" ELSE ~f.ex
    IN  IF home # {}
        THEN Text(Upto(ls, h) \o <<Begin>> \o (IF ended THEN <<>> ELSE <<HeaderUnended>>)
                    \o Body(url) \o <<End>> \o From(ls, h + 1),
                  IF h = Len(ls) THEN TRUE ELSE base.nl)
        ELSE Text(ls \o <<Begin, Appended(created, base.nl), Global>> \o Body(url) \o <<End>>, TRUE)

(* StaticConverged, of the one file that is the current target *)
Converged(f, url) ==
    /\ f.ex /\ Readable(f) /\ ByDmg(f.ls) /\ ~ActiveConflict(f)
    /\ BlockBody(f.ls) = Body(url)

(* Write: a file it cannot read, or that MDM owns, is left alone. *)
Write(f, url) ==
    LET next == Rewritten(f, url) IN
    IF Readable(f) /\ ~ByMdm(f.ls) /\ Converged(next, url)
    THEN [ok |-> TRUE, file |-> next] ELSE [ok |-> FALSE, file |-> f]

(* clearPipConfig and Clear: the result must parse; a file the agent       *)
(* created and that is empty again is removed.                             *)
Clear(f) ==
    LET base    == IF ByDmg(f.ls) THEN Without(f) ELSE f
        next    == Text(Uncommented(base.ls), base.nl)
        created == ByDmg(f.ls) /\ \E m \in MetaOf(f.ls) : m.k = "yes"
        empty   == \A i \in DOMAIN next.ls : next.ls[i] = Blank
    IN  IF ~f.ex \/ (Readable(f) /\ next = f) THEN [ok |-> TRUE, file |-> f]
        ELSE IF ~Readable(f) \/ ~(Parses(next.ls) \/ empty) THEN [ok |-> FALSE, file |-> f]
        ELSE [ok |-> TRUE, file |-> IF created /\ empty THEN NoFile ELSE next]

(* External: the index pip resolves.  A duplicated section or option is a  *)
(* configuration error to pip; a command's section overrides [global].     *)
PipSees(f) ==
    LET set == {i \in Options(f.ls) : f.ls[i].k = "index-url"} IN
    IF ~Parses(f.ls) THEN "error"
    ELSE IF set = {} THEN "unset"
    ELSE IF \E i \in set : f.ls[SectionOf(f.ls, i)] # Global
         THEN "overridden" ELSE f.ls[FirstOf(set)].v
=============================================================================
