----------------------------- MODULE NetrcText -----------------------------
(***************************************************************************)
(* The managed credential of ~/.netrc (devicepolicy/netrc_writer.go).  The *)
(* user's own entry for the managed host is kept, encoded in place, while  *)
(* the agent's entry stands at the end of the file behind a newline that   *)
(* belongs to the block.                                                   *)
(***************************************************************************)
EXTENDS TextLines

Begin    == Mark("begin")
End      == Mark("end")
MdmBegin == Mark("mdm begin")

Machine(host, pw) == Line("machine", host, pw)  \* one entry, on its lines
Shared(host)      == Line("shared", host, "")   \* an entry that shares its line with another
Comment           == Line("comment", "", "")
Glued             == Line("glued", "", "")      \* two lines run together: unsupported directives

IsEntry(l) == l.t \in {"machine", "shared"} /\ ~l.off
Entries(ls, host) == {i \in DOMAIN ls : IsEntry(ls[i]) /\ ls[i].k = host}
Parses(ls) == Where(ls, Glued) = {}
Joined(l, m) == IF l = Comment THEN Comment ELSE Glued   \* a comment swallows what follows it

(* scanNetrcMarkers: one block of one owner, ended, with at most one       *)
(* encoded entry, which stands above it.                                   *)
Begins(ls)  == Where(ls, Begin) \union Where(ls, MdmBegin)
ByDmg(ls)   == Where(ls, Begin) # {}
ByMdm(ls)   == Where(ls, MdmBegin) # {}
Encoded(ls) == {i \in DOMAIN ls : ls[i].off}
InBlock(ls, i) == \E b \in Begins(ls), e \in Where(ls, End) : b <= i /\ i <= e
WellMarked(ls) ==
    /\ \A i, j \in Begins(ls) : i = j
    /\ \A i, j \in Where(ls, End) : i = j
    /\ (Begins(ls) = {}) <=> (Where(ls, End) = {})
    /\ \A b \in Begins(ls), e \in Where(ls, End) : b < e
    /\ \A i, j \in Encoded(ls) : i = j
    /\ \A i \in Encoded(ls) : \E b \in Where(ls, Begin) : i < b

BlockEntries(ls) == {ls[i] : i \in {j \in DOMAIN ls : InBlock(ls, j) /\ IsEntry(ls[j])}}
(* analyzeNetrc: the block of a readable file holds exactly one entry. *)
Readable(f) ==
    /\ WellMarked(f.ls) /\ Parses(f.ls)
    /\ Begins(f.ls) # {} => \A l, m \in BlockEntries(f.ls) : l = m
    /\ Begins(f.ls) # {} => BlockEntries(f.ls) # {}

(* The block without the newline before it.  A line that had no newline of *)
(* its own before the block runs into whatever stands after it.            *)
Without(f) ==
    LET b    == FirstOf(Begins(f.ls))
        e    == FirstOf(Where(f.ls, End))
        head == Upto(f.ls, b - 1)
        tail == From(f.ls, e + 1)
        cut  == Upto(head, Len(head) - 1)
    IN  IF ~ByDmg(f.ls) THEN f
        ELSE IF head = <<>> THEN Text(tail, f.nl)
        ELSE IF head[Len(head)] = Blank THEN Text(cut \o tail, tail = <<>> \/ f.nl)
        ELSE IF tail = <<>> THEN Text(head, FALSE)
        ELSE Text(cut \o <<Joined(head[Len(head)], tail[1])>> \o From(tail, 2), f.nl)

(* rewriteNetrc *)
CanRewrite(f, host) ==
    /\ Readable(f) /\ ~ByMdm(f.ls)
    /\ \A i, j \in Entries(f.ls, host) : i = j
    /\ Parses(Without(f).ls)
    /\ \A i \in Entries(Without(f).ls, host) : Without(f).ls[i].t # "shared"

Rewritten(f, host, pw) ==
    LET rest == Without(f)
        ls   == [i \in DOMAIN rest.ls |-> IF i \in Entries(rest.ls, host) THEN Off(rest.ls[i]) ELSE rest.ls[i]]
        sep  == IF rest.nl THEN <<Blank>> ELSE <<>>
    IN  Text(ls \o sep \o <<Begin, Machine(host, pw), End>>, TRUE)

Converged(f, host, pw) ==
    /\ f.ex /\ Readable(f) /\ ByDmg(f.ls) /\ BlockEntries(f.ls) = {Machine(host, pw)}
    /\ \E i \in DOMAIN f.ls : Entries(f.ls, host) = {i}

Write(f, host, pw) ==
    LET next == Rewritten(f, host, pw) IN
    IF CanRewrite(f, host) /\ Readable(next)
    THEN [ok |-> TRUE, file |-> next] ELSE [ok |-> FALSE, file |-> f]

(* Clear, of one file: without a block of its own it refuses to touch a    *)
(* file that MDM or an entry of this host occupies.                        *)
Cleared(f) == Text(Uncommented(Without(f).ls), Without(f).nl)
Clear(f, host) ==
    LET next  == Cleared(f)
        empty == \A i \in DOMAIN next.ls : next.ls[i] = Blank
    IN  IF ~f.ex THEN [ok |-> TRUE, file |-> f]
        ELSE IF ~Readable(f) THEN [ok |-> FALSE, file |-> f]
        ELSE IF ~ByDmg(f.ls) THEN [ok |-> ~ByMdm(f.ls) /\ Entries(f.ls, host) = {}, file |-> f]
        ELSE IF \/ \A l \in BlockEntries(f.ls) : l.k # host
                \/ ~Parses(next.ls) THEN [ok |-> FALSE, file |-> f]
        ELSE [ok |-> TRUE, file |-> IF empty THEN NoFile ELSE next]

(* External: the password a client sends to the host.  Clients differ on   *)
(* which of two entries of a host counts.                                  *)
NetrcSees(f, host) ==
    LET e == Entries(f.ls, host) IN
    IF ~Parses(f.ls) THEN "error"
    ELSE IF e = {} THEN "unset"
    ELSE IF \E i, j \in e : i # j THEN "ambiguous" ELSE f.ls[FirstOf(e)].v
=============================================================================
