------------------------------- MODULE MCScans ------------------------------
(***************************************************************************)
(* The scans of one run that share no state, each explored on its own: the *)
(* Node scan, whose properties keep their names, and the inventories of    *)
(* Cargo, Go, NuGet and Composer projects and of agent skills, and the run *)
(* that calls them all.  part says which of them moves; all but the first  *)
(* take turns in one set of variables.                                     *)
(*                                                                         *)
(* The Node scan has three projects, two of which fit a run; contents a    *)
(* and b under one package manager, with results of sizes 1 and 2, a       *)
(* third, u, without a lockfile, and x, which fails.  One project is       *)
(* edited; one of the others may fail for good.                            *)
(***************************************************************************)
EXTENDS NodeScan, ScanWorlds

CONSTANTS p1, p2, p3, a, b, u, x, npm, yarn

MCPM == (a :> npm @@ b :> npm @@ u :> yarn @@ x :> npm @@ Gone :> npm)
MCWeight == (a :> 1 @@ b :> 2 @@ u :> 1 @@ x :> 1 @@ Gone :> 0)

On(c1, c2, c3) == p1 :> c1 @@ p2 :> c2 @@ p3 :> c3
Scene(perilSets, contents, edited) ==
    [perils : perilSets, content : contents, edits : {On(edited, {}, {})}]

MCScenarios ==
    Scene({{}}, {On(a, b, b), On(a, b, x)}, {a, b})
    \cup Scene({{"fail"}}, {On(a, Gone, Gone)}, {a, x, Gone})
    \cup Scene({{"legacy", "drop", "failSave", "crash"}}, {On(a, Gone, Gone)}, {a, b, u})
    \cup Scene({{"upgrade"}, {"blind", "sameSecond", "bypass"}},
               {On(a, Gone, Gone)}, {a, b})

MCBlind == Scene({{"blind"}}, {On(a, Gone, Gone)}, {a, b})

-----------------------------------------------------------------------------
VARIABLE part
VARIABLES scWorld, scLate, scPc, scLedger, scWalks, scQueue, scLeft, scItems, scOut,
          scOne, scTwo, scThree, scFour, scFive, scSix, scSeven
scVars == <<scWorld, scLate, scPc, scLedger, scWalks, scQueue, scLeft, scItems, scOut,
            scOne, scTwo, scThree, scFour, scFive, scSix, scSeven>>

Cargo == INSTANCE CargoScan WITH
    Dir <- CrDir, Up <- CrUp, Top <- "top", Nowhere <- "nowhere", Worlds <- CrWorlds,
    world <- scWorld, late <- scLate, pc <- scPc, ledger <- scLedger, walks <- scWalks, queue <- scQueue,
    entries <- scLeft, items <- scItems, out <- scOut, moved <- scOne, cands <- scTwo, order <- scThree,
    man <- scFour, vendored <- scFive, jobs <- scSix

Go == INSTANCE GoScan WITH
    Dir <- GoDir, Up <- GoUp, Top <- "top", Nowhere <- "nowhere", Worlds <- GoWorlds,
    world <- scWorld, late <- scLate, pc <- scPc, ledger <- scLedger, walks <- scWalks, queue <- scQueue,
    entries <- scLeft, items <- scItems, out <- scOut, cands <- scOne, found <- scTwo, project <- scThree,
    jobs <- scFour, vendors <- scFive, cache <- scSix

NuGet == INSTANCE NuGetScan WITH
    Dir <- NuDir, Up <- NuUp, Top <- "top", Nowhere <- "nowhere", Worlds <- NuWorlds,
    world <- scWorld, late <- scLate, pc <- scPc, ledger <- scLedger, walks <- scWalks, queue <- scQueue,
    left <- scLeft, items <- scItems, out <- scOut, project <- scOne, docs <- scTwo, graphs <- scThree,
    imports <- scFour, caches <- scFive, done <- scSix, index <- scSeven

Composer == INSTANCE ComposerScan WITH
    Dir <- CoDir, Up <- CoUp, Top <- "top", Nowhere <- "nowhere", Worlds <- CoWorlds,
    world <- scWorld, late <- scLate, pc <- scPc, ledger <- scLedger, walks <- scWalks, queue <- scQueue,
    entries <- scLeft, items <- scItems, out <- scOut, known <- scOne, trees <- scTwo

Skills == INSTANCE SkillScan WITH
    Dir <- SkDir, Up <- SkUp, Top <- "top", Nowhere <- "nowhere", Worlds <- SkWorlds,
    world <- scWorld, late <- scLate, pc <- scPc, info <- scLedger, walk <- scWalks, queue <- scQueue,
    stack <- scLeft, report <- scItems, discovered <- scOut, found <- scOne, disc <- scTwo, root <- scThree,
    visits <- scFour, projects <- scFive, commands <- scSix, uses <- scSeven

Main == INSTANCE ScanRun WITH
    Runs <- RunWorlds, MaxCuts <- 1,
    run <- scWorld, late <- scLate, at <- scPc, log <- scLedger, done <- scWalks, cuts <- scQueue,
    got <- scLeft, proj <- scItems, snap <- scOut, payload <- scOne, out <- scTwo, kept <- scThree
ASSUME Main!RunAssumption

-----------------------------------------------------------------------------
(* The whole.                                                              *)
\* The variables a part does without.
Unused(v) == v = {}

ScansInit ==
    /\ Init
    /\ \/ part = "node" /\ Unused(scWorld) /\ Unused(scLate) /\ Unused(scPc) /\ Unused(scLedger)
          /\ Unused(scWalks) /\ Unused(scQueue) /\ Unused(scLeft) /\ Unused(scItems) /\ Unused(scOut)
          /\ Unused(scOne) /\ Unused(scTwo) /\ Unused(scThree) /\ Unused(scFour) /\ Unused(scFive)
          /\ Unused(scSix) /\ Unused(scSeven)
       \/ part = "cargo"    /\ Cargo!Init    /\ Unused(scSeven)
       \/ part = "go"       /\ Go!Init       /\ Unused(scSeven)
       \/ part = "nuget"    /\ NuGet!Init
       \/ part = "composer" /\ Composer!Init /\ Unused(scThree) /\ Unused(scFour) /\ Unused(scFive)
          /\ Unused(scSix) /\ Unused(scSeven)
       \/ part = "skills"   /\ Skills!Init
       \/ part = "main"     /\ Main!Init     /\ Unused(scFour) /\ Unused(scFive) /\ Unused(scSix) /\ Unused(scSeven)
    /\ part # "node" => "fail" \in scene.perils

Node_     == part = "node"     /\ Next          /\ UNCHANGED scVars
Cargo_    == part = "cargo"    /\ Cargo!Next    /\ UNCHANGED <<vars, scSeven>>
Go_       == part = "go"       /\ Go!Next       /\ UNCHANGED <<vars, scSeven>>
NuGet_    == part = "nuget"    /\ NuGet!Next    /\ UNCHANGED vars
Composer_ == part = "composer" /\ Composer!Next /\ UNCHANGED <<vars, scThree, scFour, scFive, scSix, scSeven>>

Skills_   == part = "skills"   /\ Skills!Next   /\ UNCHANGED vars
Main_     == part = "main"     /\ Main!Next     /\ UNCHANGED <<vars, scFour, scFive, scSix, scSeven>>

ScansNext == UNCHANGED part /\ (Node_ \/ Cargo_ \/ Go_ \/ NuGet_ \/ Composer_ \/ Skills_ \/ Main_)

\* Only the Node scan recurs; an inventory is one pass that ends by itself.
ScansSpec == ScansInit /\ [][ScansNext]_<<part, vars, scVars>> /\ WF_vars(part = "node" /\ Step)

-----------------------------------------------------------------------------
(* Whatever an inventory leaves out shows as a reason on the source that    *)
(* would have held it, and what it reports absent was looked for.  Whatever *)
(* the run then leaves out of the payload that carries them shows there.    *)
InventoriesAreHonest ==
    /\ part = "cargo"    => Cargo!TypeOK /\ Cargo!OmissionsReported /\ Cargo!MembershipAgrees
    /\ part = "go"       => Go!TypeOK /\ Go!OmissionsReported
    /\ part = "nuget"    => NuGet!TypeOK /\ NuGet!OmissionsReported
    /\ part = "composer" => Composer!TypeOK /\ Composer!OmissionsReported
    /\ part = "skills"   =>
          /\ Skills!TypeOK /\ Skills!OmissionsReported /\ Skills!CommandsComplete /\ Skills!ShadowsFolded
          /\ Skills!TiersKept /\ Skills!WalkStaysOut /\ Skills!ProvenanceHolds /\ Skills!UsageIsOwned
    /\ part = "main"     =>
          /\ Main!TypeOK /\ Main!OmissionsShow /\ Main!DeltaIsTrue /\ Main!KeptAfterDelivery /\ Main!DeadlineOnlyCuts
=============================================================================
