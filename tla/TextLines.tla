----------------------------- MODULE TextLines -----------------------------
(***************************************************************************)
(* The configuration files the package policies manage, at the grain of    *)
(* their lines.  A file is its lines and whether the last one is ended by  *)
(* a newline; byte-order marks, CRLF and the text of a comment carry over  *)
(* unchanged and are left out.                                             *)
(***************************************************************************)
EXTENDS Naturals, Sequences

Line(t, k, v) == [t |-> t, k |-> k, v |-> v, off |-> FALSE]
Mark(m) == Line("mark", m, "")
Blank   == Line("blank", "", "")
Off(l)  == [l EXCEPT !.off = TRUE]      \* the line behind the agent's comment prefix
On(l)   == [l EXCEPT !.off = FALSE]

Text(ls, nl) == [ex |-> TRUE, ls |-> ls, nl |-> nl /\ ls # <<>>]
NoFile       == [ex |-> FALSE, ls |-> <<>>, nl |-> FALSE]

(* The lines whose index is in I, in order. *)
Lines(ls, I) ==
    LET Nth[n \in 0 .. Len(ls)] ==
            IF n = 0 THEN <<>> ELSE IF n \in I THEN Append(Nth[n - 1], ls[n]) ELSE Nth[n - 1]
    IN  Nth[Len(ls)]

Where(ls, l)  == {i \in DOMAIN ls : ls[i] = l}
Count(ls, ms) == {i \in DOMAIN ls : ls[i] \in ms}
FirstOf(I)    == CHOOSE i \in I : \A j \in I : i <= j
LastOf(I)     == CHOOSE i \in I : \A j \in I : i >= j
Upto(ls, i)   == Lines(ls, 1 .. i)
From(ls, i)   == Lines(ls, i .. Len(ls))

(* A splice: the lines of ls with those from a to b replaced by mid. *)
Splice(ls, a, b, mid) == Upto(ls, a - 1) \o mid \o From(ls, b + 1)

Uncommented(ls) == [i \in DOMAIN ls |-> On(ls[i])]
=============================================================================
