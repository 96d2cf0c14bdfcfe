----------------------------- MODULE GoEnvText -----------------------------
(***************************************************************************)
(* The managed block of the user's Go env file (devicepolicy/              *)
(* go_env_writer.go): GOPROXY in a block at the end, the user's own GOPROXY*)
(* lines commented out.  The scan is strict: every reserved line must be   *)
(* of the owner of the one block.                                          *)
(***************************************************************************)
EXTENDS TextLines

Begin    == Mark("begin")
End      == Mark("end")
MdmBegin == Mark("mdm begin")
Created  == Mark("created")

Proxy(url) == Line("set", "GOPROXY", url)
Var(k, v)  == Line("set", k, v)
IsProxy(l) == l.t = "set" /\ l.k = "GOPROXY" /\ ~l.off

Begins(ls)     == Where(ls, Begin) \union Where(ls, MdmBegin)
ByDmg(ls)      == Where(ls, Begin) # {}
ByMdm(ls)      == Where(ls, MdmBegin) # {}
InBlock(ls, i) == \E b \in Begins(ls), e \in Where(ls, End) : b <= i /\ i <= e

(* scanGoEnv *)
WellMarked(ls) ==
    /\ \A i, j \in Begins(ls) : i = j
    /\ \A i, j \in Where(ls, End) : i = j
    /\ (Begins(ls) = {}) <=> (Where(ls, End) = {})
    /\ \A b \in Begins(ls), e \in Where(ls, End) :
        /\ b < e
        /\ \E i \in b + 1 .. e - 1 : \A j \in b + 1 .. e - 1 : IsProxy(ls[j]) <=> i = j
        /\ \A j \in b + 1 .. e - 1 : IsProxy(ls[j]) \/ ls[j] \in {Created, Blank}
    /\ \A i, j \in Where(ls, Created) : i = j /\ InBlock(ls, i)
    /\ (\E i \in DOMAIN ls : ls[i].off) => ByDmg(ls)

ManagedUrl(ls) == ls[CHOOSE i \in DOMAIN ls : InBlock(ls, i) /\ IsProxy(ls[i])].v
ActiveOutside(ls) == \E i \in DOMAIN ls : IsProxy(ls[i]) /\ ~InBlock(ls, i)

(* clearGoEnv: the block goes with the blank line before it.  The lines    *)
(* are strings.Split's: a final newline is an empty last line.             *)
Split(f) == f.ls \o (IF f.nl \/ f.ls = <<>> THEN <<Blank>> ELSE <<>>)
Joined(ls) ==
    IF ls = <<>> THEN Text(<<>>, FALSE)
    ELSE IF ls[Len(ls)] = Blank THEN Text(Upto(ls, Len(ls) - 1), TRUE) ELSE Text(ls, FALSE)

Cleared(f) ==
    LET ls   == Split(f)
        head == Upto(ls, FirstOf(Where(ls, Begin)) - 1)
        cut  == IF head # <<>> /\ head[Len(head)] = Blank THEN Upto(head, Len(head) - 1) ELSE head
    IN  IF ~ByDmg(f.ls) THEN f
        ELSE Joined(Uncommented(cut \o From(ls, FirstOf(Where(ls, End)) + 1)))

(* rewriteGoEnv *)
Disabled(ls) == [i \in DOMAIN ls |-> IF IsProxy(ls[i]) THEN Off(ls[i]) ELSE ls[i]]

(* A mutant for the runs: the last block is not taken out first. *)
RewrittenOver(f, url, created) ==
    Text(Disabled(f.ls) \o <<Begin>> \o (IF created THEN <<Created>> ELSE <<>>) \o <<Proxy(url), End>>, TRUE)

Rewritten(f, url, created) ==
    LET base  == Cleared(f)
        ls    == Disabled(Split(base))
        block == <<Begin>> \o (IF created THEN <<Created>> ELSE <<>>) \o <<Proxy(url), End>>
    IN  Text((IF base.ls = <<>> /\ ~base.nl THEN <<>> ELSE ls) \o block, created \/ f.nl)

Converged(f, url) ==
    /\ f.ex /\ WellMarked(f.ls) /\ ByDmg(f.ls) /\ ManagedUrl(f.ls) = url /\ ~ActiveOutside(f.ls)

Write(f, url) ==
    LET created == IF ByDmg(f.ls) THEN Where(f.ls, Created) # {} ELSE ~f.ex
        next    == Rewritten(f, url, created)
    IN  IF WellMarked(f.ls) /\ ~ByMdm(f.ls) /\ Converged(next, url)
        THEN [ok |-> TRUE, file |-> next] ELSE [ok |-> FALSE, file |-> f]

Clear(f) ==
    LET next  == Cleared(f)
        empty == \A i \in DOMAIN next.ls : next.ls[i] = Blank
    IN  IF f.ex /\ ~WellMarked(f.ls) THEN [ok |-> FALSE, file |-> f]
        ELSE IF ~f.ex \/ ~ByDmg(f.ls) THEN [ok |-> TRUE, file |-> f]
        ELSE [ok |-> TRUE, file |-> IF empty /\ Where(f.ls, Created) # {} THEN NoFile ELSE next]

(* External: the go command takes the last GOPROXY of the file. *)
GoSees(f) ==
    LET p == {i \in DOMAIN f.ls : IsProxy(f.ls[i])} IN IF p = {} THEN "unset" ELSE f.ls[LastOf(p)].v
=============================================================================
