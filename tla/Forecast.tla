------------------------------ MODULE Forecast ------------------------------
(***************************************************************************)
(* why-rebuild (engine/src/plan.rs, signature.rs): for each compile node   *)
(* the lock pins, whether the next build reuses its tree, what moved if it *)
(* does not, and whether the artifact store spares it the compile; and     *)
(* `clean --artifacts`, which keeps the keys some forecast asks for.  The  *)
(* stages compute their keys from what the build hands them, the forecast  *)
(* from the lock and its flags; here a stage is one step (its interior is  *)
(* PackageStages', KernelStages' and UserspaceStage's).  The hash of a     *)
(* manifest is injective, so a signature is what it was rolled from.       *)
(***************************************************************************)
EXTENDS Integers, Sequences

CONSTANTS
    Shelf,         \* the userspace trees a SoC may declare, as [name, optional, patched, linked, deps]
    States,        \* the states of lock, resolution, config files and host there may be
    First,         \* the one of them the work directory and the store are empty in
    Lasts,         \* how many stages a build may run before it ends or fails
    MaxCommands    \* how many commands are run

VARIABLES
    world,         \* the lock, the resolution, the files and the host as they are
    stamps,    \* tree -> <<>> (absent), <<Unstamped>> or its stamps manifest
    kept,       \* the artifact store: its keys
    ran,        \* what the last build did of each node
    commands

forecastVars == <<world, stamps, kept, ran, commands>>

Names == {t.name : t \in Shelf}

\* The lists a signature folds; a pin of patches has one series.
IsList(s) == Len(s) \in Nat /\ s = [i \in 1..Len(s) |-> s[i]]
ASSUME ForecastAssumption ==
    /\ First \in States /\ MaxCommands \in Nat
    /\ \A w \in States :
          /\ \A s \in {w.kernel, w.uboot, w.ffmpeg, w.kmod, w.local, w.app, w.dts} : IsList(s)
          /\ \A pin \in {w.patches, w.ubootPatches, w.appPatches} : pin # <<>> => IsList(pin[1].series)
          /\ \A scope \in {"kernel", "uboot", "ffmpeg", "userspace", "app"} : IsList(w.checkout[scope])

ForecastNodes == {"kernel", "uboot", "ffmpeg", "kmod", "app"} \cup Names
NoBuild == [n \in {} |-> {}]

\* --patches-path, --userspace and --no-artifact-cache.
Options == [dev: BOOLEAN, asked: SUBSET {t.name : t \in {u \in Shelf : u.optional}}, store: BOOLEAN]

\* enabled_userspace: every tree but the optional ones nobody asked for.
Enabled(o) == {t \in Shelf : ~t.optional \/ t.name \in o.asked}
-----------------------------------------------------------------------------
(* SignatureBuilder: the labelled records, in the order they are folded.  The node's name *)
(* and the version of its recipe are hashed and not recorded.                             *)

Rec(label, values) == [label |-> label, values |-> values]
Manifest(node, version, records) == [node |-> node, version |-> version, records |-> records]
Dep(m) == Rec("dep", <<m>>)

\* A tree with no stamp that reads.
Unstamped == Manifest("unstamped", 0, <<>>)

\* diff, on records grouped by label.
Grouped(m, label) ==
    LET upto[i \in 0..Len(m.records)] ==
            IF i = 0 THEN <<>>
            ELSE upto[i - 1] \o (IF m.records[i].label = label THEN m.records[i].values ELSE <<>>)
    IN upto[Len(m.records)]
Labels(m) == {m.records[i].label : i \in DOMAIN m.records}
Diff(old, new) ==
    {[label |-> l,
      how |-> IF l \notin Labels(old) THEN "added" ELSE IF l \notin Labels(new) THEN "removed" ELSE "changed"] :
        l \in {m \in Labels(old) \cup Labels(new) :
                     ~(m \in Labels(old) \cap Labels(new) /\ Grouped(old, m) = Grouped(new, m))}}

\* fold_patch_series: the pinned commit names the series, a live checkout its files do.
Pinned == [dev |-> FALSE, prints |-> <<>>]
Series(pin, id) ==
    IF pin = <<>> THEN <<Rec("patches", <<"none">>)>>
    ELSE <<Rec("patches.series", pin[1].series), Rec("patches.commit", <<pin[1].commit>>)>>
         \o (IF id.dev THEN <<Rec("patches_dev", <<"1">>), Rec("patch_series", id.prints)>>
             ELSE <<Rec("patches_dev", <<"0">>)>>)

\* patch_series_fingerprint: the files of a scope as the live checkout has them.
Prints(w, scope) == w.checkout[scope]

\* dev_series_fingerprint, series_identity: what a stage folds, given the patch source the
\* build binds to its axis, if there is a pin to bind.
StageIdentity(w, o, pin, scope) ==
    IF pin # <<>> /\ o.dev THEN [dev |-> TRUE, prints |-> Prints(w, scope)] ELSE Pinned

\* patch_series: what the forecast folds, from the flag and the pin.
PlanIdentity(w, o, pin, scope) ==
    IF o.dev THEN [dev |-> TRUE, prints |-> IF pin # <<>> THEN Prints(w, scope) ELSE <<>>] ELSE Pinned

\* The identity of each scope's series, by the one or the other.
Scopes == {"kernel", "uboot", "ffmpeg", "userspace", "app"}
PinOf(w, scope) ==
    CASE scope = "uboot" -> w.ubootPatches
      [] scope = "app" -> w.appPatches
      [] OTHER -> w.patches
Identities(w, o, Of(_, _, _, _)) == [s \in Scopes |-> Of(w, o, PinOf(w, s), s)]
-----------------------------------------------------------------------------
(* The signatures of the trees and of what is built from them; ids are the series' identities. *)

KernelTree(w, ids) ==
    Manifest("kernel", w.version,
             <<Rec("kernel.commit", w.kernel), Rec("kernel.reference", <<w.reference>>)>>
                 \o Series(w.patches, ids["kernel"])
                 \o (IF w.dts = <<>> THEN <<>> ELSE <<Rec("device_dts", w.dts)>>))
UbootTree(w, ids) == Manifest("uboot", w.version, <<Rec("uboot.commit", w.uboot)>> \o Series(w.ubootPatches, ids["uboot"]))
UserTree(w, t, ids) ==
    Manifest(t.name, w.version,
             <<Rec("commit", <<w.userspace>>)>> \o (IF t.patched THEN Series(w.patches, ids["userspace"]) ELSE <<>>))
FfmpegTree(w, ids) == Manifest("ffmpeg", w.version, <<Rec("ffmpeg.base.commit", w.ffmpeg)>> \o Series(w.patches, ids["ffmpeg"]))
KmodTree(w) == Manifest("kmod", w.version, <<Rec("commit", w.kmod), Rec("local_patches", w.local)>>)
AppTree(w, ids) == Manifest("app", w.version, <<Rec("commit", w.app)>> \o Series(w.appPatches, ids["app"]))

KernelOutput(w, ids) ==
    Manifest("kernel:out", w.version,
             <<Dep(KernelTree(w, ids)), Rec("fragments", w.fragments), Rec("toolchain", <<w.toolchain>>)>>)
UbootOutput(w, ids) ==
    Manifest("uboot:out", w.version,
             <<Dep(UbootTree(w, ids)), Rec("toolchain", <<w.toolchain>>), Rec("packaging", <<w.packaging>>)>>)

\* layer_packages: what any enabled tree needs is there for each.
LayeredDeps(o) == UNION {t.deps : t \in Enabled(o)}
UserOutput(w, o, t, ids) ==
    Manifest(t.name, w.version,
             <<Dep(UserTree(w, t, ids)), Rec("sandbox", <<w.sandbox>>), Rec("build_deps", LayeredDeps(o))>>)

\* linked_userspace: the trees ffmpeg is configured against, whose packages it layers.
Linked(o) == {t \in Enabled(o) : t.linked}
FfmpegOutput(w, o, ids) ==
    Manifest("ffmpeg:out", w.version,
             <<Dep(FfmpegTree(w, ids)), Rec("sandbox", <<w.sandbox>>),
               Rec("build_deps", {t.name : t \in Linked(o)}),
               Rec("userspace", {UserOutput(w, o, t, ids) : t \in Linked(o)})>>)
KmodOutput(w, ids) ==
    Manifest("kmod", w.version,
             <<Dep(KernelTree(w, ids)), Rec("commit", w.kmod), Rec("local_patches", w.local),
               Rec("toolchain", <<w.toolchain>>), Rec("packaging", <<w.packaging>>)>>)
FirmwareOutput(w) ==
    Manifest("kmod-fw", w.version,
             <<Rec("commit", w.kmod), Rec("local_patches", w.local), Rec("packaging", <<w.packaging>>)>>)
AppOutput(w, ids) ==
    Manifest("app:out", w.version, <<Dep(AppTree(w, ids)), Rec("sdk", <<w.sdk>>), Rec("toolchain", <<w.toolchain>>)>>)

Tree(w, n, ids) ==
    CASE n = "kernel" -> KernelTree(w, ids)
      [] n = "uboot" -> UbootTree(w, ids)
      [] n = "ffmpeg" -> FfmpegTree(w, ids)
      [] n = "kmod" -> KmodTree(w)
      [] n = "app" -> AppTree(w, ids)
      [] OTHER -> UserTree(w, CHOOSE t \in Shelf : t.name = n, ids)

\* Every entry a node's restore reads: a module that ships firmware has two.
StoreKeys(w, o, n, ids) ==
    CASE n = "kernel" -> {KernelOutput(w, ids)}
      [] n = "uboot" -> {UbootOutput(w, ids)}
      [] n = "ffmpeg" -> {FfmpegOutput(w, o, ids)}
      [] n = "kmod" -> {KmodOutput(w, ids)} \cup (IF w.firmware THEN {FirmwareOutput(w)} ELSE {})
      [] n = "app" -> {AppOutput(w, ids)}
      [] OTHER -> {UserOutput(w, o, CHOOSE t \in Shelf : t.name = n, ids)}

\* A fragment that does not read leaves the kernel's output without a key, and a module has
\* none without a kernel tree.
Keyed(w, n) ==
    /\ n = "kernel" => w.fragments # <<"unreadable">>
    /\ n = "kmod" => w.kernel # <<>>
-----------------------------------------------------------------------------
(* plan_nodes *)

\* A node is there where the lock pins its source; a pinned tree only if it is enabled.  The
\* forecast leaves out a module whose patches do not read, which a build fails on.
HasSource(w, n) ==
    CASE n = "kernel" -> w.kernel # <<>>
      [] n = "uboot" -> w.uboot # <<>>
      [] n = "kmod" -> w.kmod # <<>>
      [] n = "app" -> w.app # <<>>
      [] OTHER -> w.ffmpeg # <<>>
Reads(w, n) == n = "kmod" => w.local # <<"unreadable">>
BuiltNodes(w, o) ==
    {n \in ForecastNodes : HasSource(w, n) /\ (n \in Names => n \in {t.name : t \in Enabled(o)})}
PlannedNodes(w, o) == {n \in BuiltNodes(w, o) : Reads(w, n)}

\* NodePlan::evaluate, on the tree.
TreeStatus(stamp, man) ==
    CASE stamp = <<>> -> [verb |-> "absent", changes |-> {}]
      [] stamp = <<Unstamped>> -> [verb |-> "unstamped", changes |-> {}]
      [] stamp = <<man>> -> [verb |-> "reuse", changes |-> {}]
      [] OTHER -> [verb |-> "rebuild", changes |-> Diff(stamp[1], man)]

\* NodePlan::evaluate, on the store, and the companion firmware: a hit only if every entry is there.
ArtifactOfModules(w, o, n, ids) ==
    IF ~o.store THEN "disabled"
    ELSE IF ~Keyed(w, n) THEN "unknown"
    ELSE IF (StoreKeys(w, o, n, ids) \ {FirmwareOutput(w)}) \subseteq kept THEN "hit" ELSE "miss"
ArtifactStatus(w, o, n, ids) ==
    IF ~o.store THEN "disabled"
    ELSE IF ~Keyed(w, n) THEN "unknown"
    ELSE IF StoreKeys(w, o, n, ids) \subseteq kept THEN "hit" ELSE "miss"

PlanNodes(w, o) ==
    LET ids == Identities(w, o, PlanIdentity) IN
    [n \in PlannedNodes(w, o) |->
        [tree |-> TreeStatus(stamps[n], Tree(w, n, ids)),
         artifact |-> ArtifactStatus(w, o, n, ids),
         keys |-> IF Keyed(w, n) THEN StoreKeys(w, o, n, ids) ELSE {}]]
-----------------------------------------------------------------------------
(* A build, its stages each in one step. *)

\* The nodes in build order, up to the one that fails, if one does.
StageOrder == <<{"kernel"}, {"kmod"}, {"uboot"}, Names, {"ffmpeg"}, {"app"}>>
Reached(upto) == UNION {StageOrder[i] : i \in 1..upto}

\* What each node's stage does: the entries it misses are built from its tree, and the
\* modules' stage takes the kernel's tree too.
Missing(w, o, n, ids) == IF o.store THEN StoreKeys(w, o, n, ids) \ kept ELSE StoreKeys(w, o, n, ids)
RunStages(o, upto) ==
    LET ids == Identities(world, o, StageIdentity)
        nodes == BuiltNodes(world, o) \cap Reached(upto)
        missing == [n \in nodes |-> Missing(world, o, n, ids)]
        takes == {n \in nodes :
                     \/ missing[n] # {}
                     \/ n = "kernel" /\ "kmod" \in nodes /\ KmodOutput(world, ids) \in missing["kmod"]} IN
    /\ \A n \in nodes : Reads(world, n) /\ Keyed(world, n)
    /\ ran' = [n \in nodes |->
                  [compiled |-> missing[n] # {}, took |-> n \in takes,
                   reused |-> n \in takes /\ stamps[n] = <<Tree(world, n, ids)>>, opts |-> o]]
    /\ stamps' = [n \in ForecastNodes |-> IF n \in takes THEN <<Tree(world, n, ids)>> ELSE stamps[n]]
    /\ kept' = IF o.store THEN kept \cup UNION {StoreKeys(world, o, n, ids) : n \in nodes} ELSE kept

\* A build to its end, or to the stage before one that fails.
ForecastedBuild ==
    /\ commands < MaxCommands /\ commands' = commands + 1
    /\ \E o \in Options, upto \in Lasts : RunStages(o, upto)
    /\ UNCHANGED world

\* A stage that fails or is killed in its refresh leaves a tree without its stamp.
RefreshFails ==
    /\ commands < MaxCommands /\ commands' = commands + 1
    /\ \E n \in {m \in ForecastNodes : HasSource(world, m)}, left \in {<<>>, <<Unstamped>>} :
          stamps' = [stamps EXCEPT ![n] = left]
    /\ ran' = NoBuild /\ UNCHANGED <<world, kept>>

\* live_artifacts: what the pinned forecasts ask for, at every selection of the optional
\* trees; without a key of each node there is no prune.
Selections == {[dev |-> FALSE, asked |-> s, store |-> FALSE] : s \in SUBSET {t.name : t \in {u \in Shelf : u.optional}}}
LiveArtifacts == UNION {UNION {PlanNodes(world, o)[n].keys : n \in PlannedNodes(world, o)} : o \in Selections}

\* dead_artifacts
DeadArtifacts == kept \ LiveArtifacts

\* clean --artifacts
CleanArtifacts ==
    /\ commands < MaxCommands /\ commands' = commands + 1
    /\ \A o \in Selections : \A n \in PlannedNodes(world, o) : Keyed(world, n)
    /\ kept' = kept \ DeadArtifacts
    /\ ran' = NoBuild /\ UNCHANGED <<world, stamps>>

\* clean: the work directory with its trees.
CleanTrees ==
    /\ commands < MaxCommands /\ commands' = commands + 1
    /\ stamps' = [n \in ForecastNodes |-> <<>>]
    /\ ran' = NoBuild /\ UNCHANGED <<world, kept>>

\* An update, an edit, a new builder or another host.
InputsMove ==
    /\ commands < MaxCommands /\ commands' = commands + 1
    /\ world' \in States \ {world}
    /\ ran' = NoBuild /\ UNCHANGED <<stamps, kept>>

ForecastInit ==
    /\ world = First /\ commands = 0
    /\ stamps = [n \in ForecastNodes |-> <<>>] /\ kept = {} /\ ran = NoBuild

ForecastNext == ForecastedBuild \/ RefreshFails \/ CleanArtifacts \/ CleanTrees \/ InputsMove
ForecastSpec == ForecastInit /\ [][ForecastNext]_forecastVars

ForecastTypeOK ==
    /\ world \in States /\ commands \in 0..MaxCommands
    /\ \A n \in ForecastNodes : Len(stamps[n]) <= 1
    /\ DOMAIN ran \subseteq ForecastNodes
-----------------------------------------------------------------------------
\* A build that has just run did what why-rebuild would have said right before it.
BuildIsForecast ==
    DOMAIN ran' # {} =>
        LET o == (CHOOSE r \in {ran'[n] : n \in DOMAIN ran'} : TRUE).opts
            said == PlanNodes(world, o) IN
        \A n \in DOMAIN ran' :
            /\ n \in DOMAIN said
            /\ ran'[n].compiled <=> said[n].artifact \in {"miss", "disabled"}
            /\ ran'[n].took => (ran'[n].reused <=> said[n].tree.verb = "reuse")
            /\ said[n].tree.verb = "rebuild" /\ said[n].tree.changes = {} => stamps[n][1].version # world.version

\* A prune takes from no pinned build an entry its forecast counts on.
PruneKeepsForecasts ==
    CleanArtifacts =>
        \A o \in Selections :
            LET on == [o EXCEPT !.store = TRUE] IN
            \A n \in PlannedNodes(world, on) :
                PlanNodes(world, on)[n].artifact = PlanNodes(world, on)'[n].artifact

\* "A user planning around this output": asked just before a build, why-rebuild names the
\* nodes that build runs, says of each whether it compiles and whether its tree is reused,
\* and blames a rebuild on the build's own logic only where no input moved.  "A live entry
\* deleted" is what a prune must not do: the forecast of a pinned build, whatever optional
\* trees it takes, is the same after it.
ForecastComesTrue == [][BuildIsForecast /\ PruneKeepsForecasts]_forecastVars
=============================================================================
