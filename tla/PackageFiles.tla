---------------------------- MODULE PackageFiles ----------------------------
(***************************************************************************)
(* One of the five files the package policies manage, edited in turn by    *)
(* its owner and by the agent: the owner inserts and deletes lines of his  *)
(* own around the managed block, or tampers with the block; the agent      *)
(* applies a policy (Write) and gives the file back (Clear).               *)
(***************************************************************************)
EXTENDS TextLines, FiniteSets, TLC

CONSTANTS
    Lanes,          \* the files looked at, of {"npm", "pip", "uv", "go", "netrc"}
    OwnLines,       \* the lines of each the owner uses
    Policies,       \* the policies of each: a body for npm, a url or token for the others
    MaxOwn,         \* how many lines the owner's file has at most
    MaxEdits,       \* how many edits the owner of each file makes at most
    TightLanes,     \* the files in which a line of the owner may touch the block from above
    Host, None

Npm   == INSTANCE NpmrcText
Pip   == INSTANCE PipText
Uv    == INSTANCE UvText
Go    == INSTANCE GoEnvText
Netrc == INSTANCE NetrcText

VARIABLES
    lane,       \* which of the files this behaviour is about
    file,       \* its text
    own,        \* the lines its owner wrote, as he wrote them
    before,     \* the file the agent found when it last took it over
    edited,     \* the owner has edited the file since
    applied,    \* the policy last applied, None after a clear
    tampered,   \* the owner has removed a managed line
    edits       \* how many edits the owner has made

vars == <<lane, file, own, before, edited, applied, tampered, edits>>

(* The writer of each lane. *)
NpmWrite(f, body) ==
    IF Npm!CanRewrite(f, body) THEN [ok |-> TRUE, file |-> Npm!Rewritten(f, body)]
    ELSE [ok |-> FALSE, file |-> f]

(* The first apply is what the ownership record says created the file. *)
NpmClear(f, created) ==
    IF ~f.ex THEN [ok |-> TRUE, file |-> f]
    ELSE IF ~Npm!CanClear(f) THEN [ok |-> FALSE, file |-> f]
    ELSE LET next == Npm!ClearedText(f)
         IN  [ok |-> TRUE, file |-> IF created /\ next.ls = <<>> THEN NoFile ELSE next]

WriteOf(f, p) ==
    CASE lane = "npm"   -> NpmWrite(f, p)
      [] lane = "pip"   -> Pip!Write(f, p)
      [] lane = "uv"    -> Uv!Write(f, p)
      [] lane = "go"    -> Go!Write(f, p)
      [] lane = "netrc" -> Netrc!Write(f, Host, p)

ClearOf(f) ==
    CASE lane = "npm"   -> NpmClear(f, ~before.ex)
      [] lane = "pip"   -> Pip!Clear(f)
      [] lane = "uv"    -> Uv!Clear(f)
      [] lane = "go"    -> Go!Clear(f)
      [] lane = "netrc" -> Netrc!Clear(f, Host)

InForce(f, p) ==
    CASE lane = "npm"   -> Npm!Converged(f, p) = "yes"
      [] lane = "pip"   -> Pip!Converged(f, p)
      [] lane = "uv"    -> Uv!Converged(f, p)
      [] lane = "go"    -> Go!Converged(f, p)
      [] lane = "netrc" -> Netrc!Converged(f, Host, p)

InBlock(i) ==
    CASE lane = "npm"   -> Npm!InBlock(file.ls, i)
      [] lane = "pip"   -> Pip!InBlock(file.ls, i)
      [] lane = "uv"    -> Uv!InBlock(file.ls, i)
      [] lane = "go"    -> Go!InBlock(file.ls, i)
      [] lane = "netrc" -> Netrc!InBlock(file.ls, i)

-----------------------------------------------------------------------------
IsOwn(i)  == ~InBlock(i) /\ file.ls[i] # Blank
OwnOf(f)  == Uncommented(Lines(f.ls, {i \in DOMAIN f.ls : IsOwn(i)}))
OwnUpto(i) == {j \in 1 .. i : IsOwn(j)}

Init ==
    /\ lane \in Lanes
    /\ \E ls \in {<<>>} \union {<<l>> : l \in OwnLines[lane]}, nl \in BOOLEAN :
        /\ (lane = "netrc" /\ lane \notin TightLanes) => nl
        /\ file \in {NoFile, Text(ls, nl)}
    /\ own = file.ls /\ before = file
    /\ edited = FALSE /\ applied = None /\ tampered = FALSE /\ edits = 0

(* A spot is between lines, outside the block, and in the files whose      *)
(* block owns the newline above it not directly on top of the block.       *)
Spots ==
    {i \in 0 .. Len(file.ls) :
        /\ ~(i > 0 /\ i < Len(file.ls) /\ InBlock(i) /\ InBlock(i + 1))
        /\ lane = "netrc" /\ lane \notin TightLanes => ~(i < Len(file.ls) /\ InBlock(i + 1))}

(* After an edit, of the file found only its being there still matters. *)
Edit ==
    /\ edits < MaxEdits[lane] /\ edits' = edits + 1
    /\ edited' = TRUE
    /\ before' = [before EXCEPT !.ls = <<>>, !.nl = FALSE]

OwnerInserts(i, l) ==
    /\ Len(own) < MaxOwn
    /\ l = Pip!Continued => i > 0 /\ file.ls[i].t = "option" /\ ~file.ls[i].off
    /\ file' = Text(Splice(file.ls, i + 1, i, <<l>>), file.nl \/ i = Len(file.ls))
    /\ own' = Splice(own, Cardinality(OwnUpto(i)) + 1, Cardinality(OwnUpto(i)), <<l>>)
    /\ Edit
    /\ UNCHANGED <<lane, applied, tampered>>

OwnerDeletes(i) ==
    /\ IsOwn(i)
    /\ file' = Text(Splice(file.ls, i, i, <<>>), file.nl)
    /\ own' = Splice(own, Cardinality(OwnUpto(i)), Cardinality(OwnUpto(i)), <<>>)
    /\ Edit
    /\ UNCHANGED <<lane, applied, tampered>>

OwnerTampers(i) ==
    /\ InBlock(i)
    /\ file' = Text(Splice(file.ls, i, i, <<>>), file.nl)
    /\ tampered' = TRUE
    /\ Edit
    /\ UNCHANGED <<lane, own, applied>>

(* A file the writer refuses is left as it is. *)
Write(p) ==
    LET done == WriteOf(file, p) IN
    /\ file' = done.file
    /\ IF done.ok
       THEN /\ applied' = p
            /\ before' = IF applied = None THEN file ELSE before
            /\ edited' = (edited /\ applied # None)
       ELSE UNCHANGED <<applied, before, edited>>
    /\ UNCHANGED <<lane, own, tampered, edits>>

Clear ==
    LET done == ClearOf(file) IN
    /\ file' = done.file
    /\ applied' = IF done.ok THEN None ELSE applied
    /\ UNCHANGED <<lane, own, before, edited, tampered, edits>>

Next ==
    \/ \E i \in Spots, l \in OwnLines[lane] : OwnerInserts(i, l)
    \/ \E i \in DOMAIN file.ls : OwnerDeletes(i) \/ OwnerTampers(i)
    \/ \E p \in Policies[lane] : Write(p)
    \/ Clear

Spec == Init /\ [][Next]_vars

-----------------------------------------------------------------------------
(* The lines of the owner are in the file, in his order, behind a comment  *)
(* prefix at most, whatever the agent has applied and cleared in between.  *)
TextKept == ~tampered => OwnOf(file) = own

(* Applying and clearing leave no trace: the file is again what the agent  *)
(* found, to the final newline (npm adds one, and an empty .netrc goes).   *)
RestoredExactly ==
    applied = None /\ ~edited /\ ~tampered =>
        \/ file = before
        \/ lane = "npm" /\ file.ls = before.ls /\ file.nl
        \/ lane = "netrc" /\ before.ls = <<>> /\ file = NoFile

(* What the writer takes for converged is what the tool resolves.  pip's   *)
(* writer looks at the block alone: its owner may put a section header     *)
(* between [global] and the block, or a second [global] after it, and pip  *)
(* then scopes the block to a command or refuses the file.                 *)
ToolResolves(p) ==
    CASE lane = "npm"   -> \A k \in Npm!KeysOf(p) : Npm!NpmSees(file, k) = Npm!ValueIn(p, k)
      [] lane = "pip"   -> Pip!PipSees(file) \in {p, "error", "overridden"}
      [] lane = "uv"    -> Uv!UvSees(file) = p
      [] lane = "go"    -> Go!GoSees(file) = p
      [] lane = "netrc" -> Netrc!NetrcSees(file, Host) = p

InForceMeansResolved == \A p \in Policies[lane] : InForce(file, p) => ToolResolves(p)

(* A policy the owner's own file admits can be applied over whatever the   *)
(* agent's earlier applies have made of it: an edit is a drift the next    *)
(* cycle repairs.  uv and netrc read the owner's text back first and may   *)
(* find two settings of one key in it.                                     *)
DriftRepairable ==
    lane \in {"npm", "pip", "go"} /\ ~tampered =>
        \A p \in Policies[lane] : WriteOf(Text(own, TRUE), p).ok => WriteOf(file, p).ok

(* A clear that reports success leaves no managed line behind, not even of *)
(* a block that has lost its end marker or stands there twice.             *)
ClearsAll ==
    applied' = None /\ applied # None =>
        \A i \in DOMAIN file'.ls : file'.ls[i] # Mark("begin") /\ ~file'.ls[i].off
NothingLeft == [][ClearsAll]_vars

(* The MDM probes of ~/.npmrc never vouch for a value npm does not use.    *)
ProbesAreHonest ==
    lane = "npm" => \A p \in Policies[lane] :
        LET seen == Npm!Observed(file, p) IN
        /\ Npm!MdmManaged(file, p) => ToolResolves(p)
        /\ seen.kind = "managed" =>
            /\ seen.auth = "match" => Npm!NpmSees(file, "token") = Npm!ValueIn(p, "token")
            /\ seen.registry # "none" => Npm!NpmSees(file, "registry") = seen.registry
            /\ seen.settings = "match" =>
                \A i \in DOMAIN Npm!Settings(p) :
                    Npm!NpmSees(file, Npm!Settings(p)[i].k) = Npm!Settings(p)[i].v

(* The file belongs to its owner: his lines stay, and what the agent has    *)
(* put around them goes without a trace.                                    *)
OwnTextKept == TextKept /\ RestoredExactly

(* What the agent takes for in force is what the tool does, and what it     *)
(* takes for drift it can repair.                                           *)
VerdictsHold == InForceMeansResolved /\ ProbesAreHonest /\ DriftRepairable
=============================================================================
