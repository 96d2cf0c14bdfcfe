----------------------------- MODULE Directories ----------------------------
(***************************************************************************)
(* The directories of a developer's machine as the package scanners walk   *)
(* them: names for paths, each with the directory it lies in.              *)
(***************************************************************************)
EXTENDS SequencesExt, FiniteSetsExt, Naturals, TLC

CONSTANTS
    Dir, Up, Top,   \* directories, the parent of each, and that of the topmost
    Nowhere         \* no directory

\* The members of a set, in the order the directory lists them.
InOrder(set) == FoldSet(LAMBDA x, seq : Append(seq, x), <<>>, set)

\* The least set with some and the next of each of its own.
Closed(next(_), some) ==
    LET grown[n \in Nat] == IF n = 0 THEN some ELSE UNION {{x} \cup next(x) : x \in grown[n - 1]}
    IN grown[Cardinality(Dir)]

\* A directory and those it lies in.
Ancestry[d \in Dir] == {d} \cup (IF Up[d] = Top THEN {} ELSE Ancestry[Up[d]])
Inside(d, e) == e \in Ancestry[d]
=============================================================================
