----------------------------- MODULE MCSettings -----------------------------
(***************************************************************************)
(* The two halves of the device policy that share no state, each explored  *)
(* on its own: the cycles over the IDE settings (SettingsPolicy, whose     *)
(* properties keep their names), and the files of the package managers.    *)
(* part says which of them moves; the other rests where it starts.         *)
(*                                                                         *)
(* Two settings (the allowlist and the gallery URL), two values each, and  *)
(* two policies: one that sets the first, one that sets both and changes   *)
(* the first.  Leaving the second policy for the first drops a setting.    *)
(***************************************************************************)
EXTENDS SettingsPolicy, TLC

CONSTANTS allow, gallery, v1, v2, h1, h2

MCKeys == {allow, gallery}
MCValues == {v1, v2}
MCPolicies ==
    {[hash |-> h1, settings |-> (allow :> v1 @@ gallery :> None)],
     [hash |-> h2, settings |-> (allow :> v2 @@ gallery :> v1)]}

-----------------------------------------------------------------------------
(* The files explored: up to three lines of the owner in each, drawn from   *)
(* the lines that conflict with a policy, that shadow it, and that have     *)
(* nothing to do with it; two policies each, for npm one with and one       *)
(* without the StepSecurity pair.                                           *)
Npm   == INSTANCE NpmrcText
Pip   == INSTANCE PipText
Uv    == INSTANCE UvText
Go    == INSTANCE GoEnvText
Netrc == INSTANCE NetrcText

Paired == <<Npm!Kv("registry", "ours"), Npm!Kv("token", "t1")>>
Scoped == <<Npm!Kv("@a:registry", "ours"), Npm!Kv("registry", "theirs")>>

OwnersLines ==
    "npm" :> {Npm!Kv("registry", "theirs"), Npm!Kv("token", "t1"), Npm!Kv("registry", "ours"),
              Npm!ArrayOf("registry"), Npm!Section, Npm!MdmFixed} @@
    "pip" :> {Pip!Global, Pip!Header("install"), Pip!Option("index-url", "theirs"),
              Pip!Option("timeout", "9"), Pip!Continued} @@
    "uv" :> {Uv!Key("index-url", "theirs"), Uv!Index("theirs"), Uv!Table("pip"),
             Uv!Key("native-tls", "true"), Uv!QuotedMark} @@
    "go" :> {Go!Proxy("theirs"), Go!Var("GOFLAGS", "x")} @@
    "netrc" :> {Netrc!Machine("ours", "own"), Netrc!Machine("other", "own"),
                Netrc!Shared("ours"), Netrc!Comment}

TwoPolicies ==
    "npm" :> {Paired, Scoped} @@ "pip" :> {"a", "b"} @@ "uv" :> {"a", "b"} @@
    "go" :> {"a", "b"} @@ "netrc" :> {"t1", "t2"}
FewEdits == "npm" :> 2 @@ "pip" :> 2 @@ "uv" :> 2 @@ "go" :> 3 @@ "netrc" :> 3

VARIABLES part, pfLane, pfFile, pfOwn, pfBefore, pfEdited, pfApplied, pfTampered, pfEdits
pfVars == <<pfLane, pfFile, pfOwn, pfBefore, pfEdited, pfApplied, pfTampered, pfEdits>>
Files == INSTANCE PackageFiles WITH
    Lanes <- {"npm", "pip", "uv", "go", "netrc"}, TightLanes <- {"npm", "pip", "uv", "go"},
    OwnLines <- OwnersLines, Policies <- TwoPolicies, MaxOwn <- 3, MaxEdits <- FewEdits,
    Host <- "ours",
    lane <- pfLane, file <- pfFile, own <- pfOwn, before <- pfBefore, edited <- pfEdited,
    applied <- pfApplied, tampered <- pfTampered, edits <- pfEdits

-----------------------------------------------------------------------------
Unused(v) == v = {}
PolicyInit ==
    /\ part \in {"settings", "files"}
    /\ Init
    /\ part = "files" => disk = NoRecord.settings /\ perils = CHOOSE e \in Environments : TRUE
    /\ \/ part = "files" /\ Files!Init
       \/ /\ part = "settings"
          /\ Unused(pfLane) /\ Unused(pfFile) /\ Unused(pfOwn) /\ Unused(pfBefore)
          /\ Unused(pfEdited) /\ Unused(pfApplied) /\ Unused(pfTampered) /\ Unused(pfEdits)
PolicyNext ==
    /\ UNCHANGED part
    /\ \/ part = "settings" /\ Next /\ UNCHANGED pfVars
       \/ part = "files" /\ Files!Next /\ UNCHANGED vars

(* The fairness of the cycles, as in SettingsPolicy. *)
PolicySpec ==
    /\ PolicyInit /\ [][PolicyNext]_<<part, vars, pfVars>>
    /\ WF_vars(part = "settings" /\ Cycle)

(* The owner's lines survive the agent's applies and clears, and an         *)
(* untouched file is given back as it was (PackageFiles).                   *)
OwnTextKept == part = "files" => Files!OwnTextKept

(* What the writers take for in force is what the tools resolve, and what   *)
(* they take for drift can be repaired (PackageFiles).                      *)
VerdictsHold == part = "files" => Files!VerdictsHold

(* A clear that reports success leaves no managed line (PackageFiles).      *)
NothingLeft == [][part = "files" => Files!ClearsAll]_pfVars
=============================================================================
