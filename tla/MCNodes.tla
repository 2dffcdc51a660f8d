------------------------------ MODULE MCNodes -------------------------------
(***************************************************************************)
(* The nodes of a build and the waits that must end: a stage that          *)
(* refreshes a tree, a stage that asks the store, the userspace stage at   *)
(* two sizes, the stages that hand over one package, the .NET cache, the   *)
(* rootfs node, why-rebuild; the first boot of a device, a try boot, a batch of         *)
(* downloads.  They share no state with each other, so a behaviour shows   *)
(* one of them (`show`) and the rest stand still.                          *)
(***************************************************************************)
EXTENDS SourceTree, FirstBoot, TryBoot, Fetching, MCPackageStages, DotnetCache, MCRootfs, Forecast

VARIABLES
    show,
    entry, tmp, out, spc, key, todo, copying, live, dead, swept, published,
    uwant, uasked, ustore, utree, ustage, uout, upc, upkg, ucached, urooted, ustoring, udead

\* The store with the one file and the two processes its waits take.
Procs == {"first", "second"}
Store ==
    INSTANCE ArtifactStore
        WITH Keys <- {"key"}, Files <- {"deb"}, Procs <- Procs, None <- "none", Torn <- "torn",
             pc <- spc, part <- copying

\* The userspace stage: one package whose pins only move forward, with every fault; and two
\* packages whose pins may be reverted, without faults, where one is restored and the other
\* built.
One ==
    INSTANCE UserspaceStage
        WITH N <- 1, Parts <- {"rt", "dev"}, Pins <- {1, 2}, Envs <- {"e1"}, Reverts <- FALSE,
             StoreModes <- {TRUE}, Cut <- "cut", Faults <- {"error", "kill", "clean"},
             want <- uwant, asked <- uasked, store <- ustore, tree <- utree, stage <- ustage, out <- uout, pc <- upc,
             pkg <- upkg, cached <- ucached, rooted <- urooted, storing <- ustoring, dead <- udead
Pair ==
    INSTANCE UserspaceStage
        WITH N <- 2, Parts <- {"rt", "dev"}, Pins <- {1, 2}, Envs <- {"e1"}, Reverts <- TRUE,
             StoreModes <- {TRUE}, Cut <- "cut", Faults <- {},
             want <- uwant, asked <- uasked, store <- ustore, tree <- utree, stage <- ustage, out <- uout, pc <- upc,
             pkg <- upkg, cached <- ucached, rooted <- urooted, storing <- ustoring, dead <- udead
ASSUME One!UserspaceAssumption /\ Pair!UserspaceAssumption

\* What why-rebuild is asked of: a board that compiles all there is, and that board with one
\* input moved, unreadable or gone.
MCShelf ==
    {[name |-> "mpp", optional |-> FALSE, patched |-> TRUE, linked |-> TRUE, deps |-> {"cmake"}],
     [name |-> "mali", optional |-> TRUE, patched |-> FALSE, linked |-> FALSE, deps |-> {"libdrm"}]}
MCFirst ==
    [kernel |-> <<"k1">>, reference |-> "r1", patches |-> <<[series |-> <<"s">>, commit |-> "p1"]>>,
     uboot |-> <<"u1">>, ubootPatches |-> <<>>, userspace |-> "m1", ffmpeg |-> <<"f1">>, kmod |-> <<"d1">>,
     local |-> <<"l1">>, app |-> <<"a1">>, appPatches |-> <<[series |-> <<"s">>, commit |-> "q1"]>>,
     dts |-> <<"t1">>, fragments |-> <<"c1">>, toolchain |-> "g1", sandbox |-> "x1", packaging |-> "v1",
     sdk |-> "n1", firmware |-> FALSE, version |-> 1, checkout |-> [s \in Scopes |-> <<"w1">>]]
MCStates ==
    {MCFirst,
     [MCFirst EXCEPT !.kernel = <<"k2">>], [MCFirst EXCEPT !.patches = <<[series |-> <<"s">>, commit |-> "p2"]>>],
     [MCFirst EXCEPT !.dts = <<>>], [MCFirst EXCEPT !.fragments = <<"unreadable">>],
     [MCFirst EXCEPT !.local = <<"unreadable">>, !.packaging = "v2"],
     [MCFirst EXCEPT !.firmware = TRUE], [MCFirst EXCEPT !.version = 2], [MCFirst EXCEPT !.checkout["userspace"] = <<"w1", "w2">>],
     [MCFirst EXCEPT !.kernel = <<>>, !.kmod = <<>>, !.patches = <<>>, !.ffmpeg = <<>>]}

storeVars == <<entry, tmp, out, spc, key, todo, copying, live, dead, swept, published>>
userVars == <<uwant, uasked, ustore, utree, ustage, uout, upc, upkg, ucached, urooted, ustoring, udead>>
nodesVars == <<show, vars, storeVars, userVars, stageVars, dotnetVars, rootfsVars, forecastVars, fbVars, tryVars, fetchVars>>

\* What a part that is not shown stands still in.
TreeRests == kind = "pinned" /\ want = 1
FirstBootRests == atfirst = "absent"
TryRests == img = CHOOSE i \in Images : TRUE
FetchingRests == bpc = "start" /\ batch = <<>>
StagesRest == ask = (CHOOSE w \in AppAsks : w.src = 1) /\ shelved = <<>> /\ stree = None
RootfsRests == config = Plain /\ archive = Base(1) /\ host = CHOOSE h \in MCHosts : TRUE

NodesInit ==
    /\ show \in {"tree", "store", "one", "pair", "package", "dotnet", "rootfs", "forecast", "firstboot", "tryboot", "fetching"}
    /\ Init /\ (show # "tree" => TreeRests)
    /\ Store!Init
    /\ IF show = "pair" THEN Pair!Init ELSE One!Init
    /\ StagesInit /\ (show # "package" => StagesRest)
    /\ DotnetInit
    /\ RootfsInit /\ (show # "rootfs" => RootfsRests)
    /\ ForecastInit
    /\ FirstBootInit /\ (show # "firstboot" => FirstBootRests)
    /\ TryInit /\ (show # "tryboot" => TryRests)
    /\ FetchingInit /\ (show # "fetching" => FetchingRests)

\* Only part x takes a step.
Still(x) ==
    /\ x # "tree" => UNCHANGED vars
    /\ x # "store" => UNCHANGED storeVars
    /\ x \notin {"one", "pair"} => UNCHANGED userVars
    /\ x # "package" => UNCHANGED stageVars
    /\ x # "dotnet" => UNCHANGED dotnetVars
    /\ x # "rootfs" => UNCHANGED rootfsVars
    /\ x # "forecast" => UNCHANGED forecastVars
    /\ x # "firstboot" => UNCHANGED fbVars
    /\ x # "tryboot" => UNCHANGED tryVars
    /\ x # "fetching" => UNCHANGED fetchVars

NodesNext ==
    /\ show' = show
    /\ \/ show = "tree" /\ Next
       \/ show = "store" /\ Store!Next
       \/ show = "one" /\ One!Next
       \/ show = "pair" /\ Pair!Next
       \/ show = "package" /\ StagesNext
       \/ show = "dotnet" /\ DotnetNext
       \/ show = "rootfs" /\ RootfsNext
       \/ show = "forecast" /\ ForecastNext
       \/ show = "firstboot" /\ FirstBootNext
       \/ show = "tryboot" /\ TryNext
       \/ show = "fetching" /\ FetchingNext
    /\ Still(show)

\* Each part's own fairness, asked of the part that is shown.
NodesFairness ==
    /\ WF_vars(show = "tree" /\ Step)
    /\ \A p \in Procs : WF_storeVars(show = "store" /\ Store!Step(p))
    /\ WF_userVars(show = "one" /\ One!Step)
    /\ WF_fbVars(show = "firstboot" /\ PowerOn)
    /\ WF_fbVars(show = "firstboot" /\ ScriptStep)
    /\ WF_fbVars(show = "firstboot" /\ Restart)
    /\ WF_tryVars(show = "tryboot" /\ DriverStep)
    /\ WF_fetchVars(show = "fetching" /\ BatchStep)

NodesSpec == NodesInit /\ [][NodesNext]_nodesVars /\ NodesFairness

\* The checkout, the output directories, the caches, the device, the guest and the batch hold
\* only what their steps can write.
NodesTypeOK ==
    CASE show = "tree" -> TypeOK
      [] show = "store" -> Store!TypeOK
      [] show = "one" -> One!TypeOK
      [] show = "pair" -> Pair!TypeOK
      [] show = "package" -> StagesTypeOK
      [] show = "dotnet" -> DotnetTypeOK
      [] show = "rootfs" -> RootfsTypeOK
      [] show = "forecast" -> ForecastTypeOK
      [] show = "firstboot" -> FirstBootTypeOK
      [] show = "tryboot" -> TryTypeOK
      [] show = "fetching" -> FetchingTypeOK

\* Whatever an entry of the store serves is what its signature names and a userspace stage that
\* succeeds hands over what it read the pins of: under every fault up to the .debs a compile was
\* cut short in, and exactly where nothing fails, where it never comes to the panic of "a cache
\* miss implies the branch that acquires the build root" either.
UserspaceShipsWhatItAsked ==
    /\ show = "one" => One!UserspaceShipsWhatItAsked
    /\ show = "pair" => Pair!UserspaceShipsExactly /\ Pair!NeverPanics

\* A refresh of a tree, a stage that has opened the store, and a run of the userspace stage
\* end: in what was asked for, an error or a kill.  A device's first boot is done in the end,
\* through finitely many cuts and failures; a try boot reaches a verdict whatever the guest
\* does; a batch of downloads is answered.
WaitsEnd ==
    /\ show = "tree" => RefreshEnds
    /\ show = "store" => Store!StageEnds
    /\ show = "one" => One!RunEnds
    /\ show = "firstboot" => FirstBootEnds
    /\ show = "tryboot" => TryEnds
    /\ show = "fetching" => BatchEnds
=============================================================================
