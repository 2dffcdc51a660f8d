---------------------------- MODULE KernelStages ----------------------------
(***************************************************************************)
(* The stages that share one kernel tree (engine/src/build/kernel.rs and   *)
(* kmod.rs): `kernel` restores or compiles the kernel .debs, `dtb` rebuilds *)
(* one device tree, `kmod` builds an out-of-tree module and its firmware   *)
(* against the tree the kernel stage left behind.                          *)
(*                                                                         *)
(* The store is seen through what ArtifactStore guarantees (an entry is     *)
(* there whole or not at all).  Each of the two source trees is a stamp    *)
(* and what lies beside it: the gate looks at the stamp, and a refresh     *)
(* that is cut short leaves the older stamp beside a tree it no longer     *)
(* names.                                                                  *)
(***************************************************************************)
EXTENDS Naturals

CONSTANTS
    Pins,      \* kernel commit + patch series + device .dts, by version order
    Cfgs,      \* fragments and defconfig
    Tools,     \* identities of the cross root the compilers live in
    Drivers,   \* driver commit + its patches, in the order of the history
    None,      \* nothing there
    Partial,   \* what is left of a tree whose removal, clone or patching was cut short
    Asks,      \* what the lock and the configuration of this recipe take in turn
    Foreign,   \* what other recipes build and fill the shared store with
    LiveEdits, \* may an edit come while a run is under way?
    Faults,    \* what happens to a run: "error", "kill"
    MaxRuns    \* bound: how many runs a behaviour has

Wants == [pin: Pins, cfg: Cfgs, tool: Tools, drv: Drivers]

\* The key of the kernel's .debs: output_manifest folds the tree signature, the
\* fragments, the defconfig and the toolchain.
Kernels == [pin: Pins, cfg: Cfgs, tool: Tools]
KernelOf(w) == [pin |-> w.pin, cfg |-> w.cfg, tool |-> w.tool]

\* The key of a modules .deb folds the kernel *tree* signature.
ModuleKeys == [pin: Pins, drv: Drivers, tool: Tools]
ModuleKeyOf(w) == [pin |-> w.pin, drv |-> w.drv, tool |-> w.tool]

\* What a tree holds, and the builds made of it: a kernel, named by what it was built
\* from; a modules .deb, by the driver, the compiler and the kernel build whose
\* Module.symvers it was linked against.
KernelTrees == Pins \cup {Partial}
DriverTrees == Drivers \cup {Partial}
KernelBuilds == [pin: KernelTrees, cfg: Cfgs, tool: Tools]
Modules == [drv: DriverTrees, tool: Tools, kernel: KernelBuilds]
ModulesOf(w) == [drv |-> w.drv, tool |-> w.tool, kernel |-> KernelOf(w)]

Stages == {"kernel", "dtb", "kmod", "all"}

KernelAssumption ==
    /\ Pins \subseteq Nat /\ Pins # {} /\ Drivers \subseteq Nat /\ Drivers # {}
    /\ Partial \in Nat \ (Pins \cup Drivers)
    /\ Cfgs # {} /\ Tools # {}
    /\ None \notin KernelTrees \cup DriverTrees /\ None \notin Cfgs /\ None \notin Stages
    /\ None \notin KernelBuilds /\ None \notin Modules
    /\ LiveEdits \in BOOLEAN
    /\ Asks \subseteq Wants /\ Asks # {} /\ Foreign \subseteq Wants
    /\ Faults \subseteq {"error", "kill"}
    /\ MaxRuns \in Nat

VARIABLES
    want,     \* the lock and the configuration, as edited
    asked,    \* the same, as the run read them for its keys
    kstore,   \* kstore[k]: the kernel .debs stored under k, named by their build
    mstore,   \* mstore[k]: the modules .deb stored under k
    fstore,   \* fstore[d]: the firmware .deb stored for driver d
    kstamp,   \* the pin the kernel tree's stamp names
    ktree,    \* the pin the kernel tree was made at
    config,   \* the .config in the tree
    symvers,  \* the kernel build that left Module.symvers in the tree
    dstamp,   \* the driver the driver tree's stamp names
    dtree,    \* the driver the driver tree was made of
    wdebs,    \* the kernel .debs in the work directory
    stage,    \* what the run was asked for
    goal,     \* which stage is under way
    pc,
    runs,     \* runs begun so far
    kdeb,     \* the kernel .deb this run staged
    mdeb,     \* the modules .deb this run staged
    fdeb,     \* the firmware .deb this run staged
    cut,      \* history: a refresh of a tree has been cut short
    returned  \* history: an edit has gone back to an earlier pin or driver

vars == <<want, asked, kstore, mstore, fstore, kstamp, ktree, config, symvers, dstamp, dtree, wdebs, stage, goal,
          pc, runs, kdeb, mdeb, fdeb, cut, returned>>
stores == <<kstore, mstore, fstore>>
kernelTree == <<kstamp, ktree, config, symvers>>
driverTree == <<dstamp, dtree>>
trees == <<kernelTree, driverTree, wdebs>>
staged == <<kdeb, mdeb, fdeb>>
history == <<cut, returned>>

TypeOK ==
    /\ want \in Wants /\ asked \in Wants \cup {None}
    /\ kstore \in [Kernels -> KernelBuilds \cup {None}]
    /\ mstore \in [ModuleKeys -> Modules \cup {None}]
    /\ fstore \in [Drivers -> DriverTrees \cup {None}]
    /\ kstamp \in Pins \cup {None} /\ ktree \in KernelTrees \cup {None}
    /\ config \in Cfgs \cup {None}
    /\ symvers \in KernelBuilds \cup {None}
    /\ dstamp \in Drivers \cup {None} /\ dtree \in DriverTrees \cup {None}
    /\ wdebs \in SUBSET KernelBuilds
    /\ stage \in Stages \cup {None} /\ goal \in {"kernel", "dtb", "kmod", None}
    /\ pc \in {"idle", "restore", "tree", "clone", "stamp", "configure", "compile", "collect", "put", "probe",
               "driver", "fetch", "mark", "module", "firmware", "done"}
    /\ runs \in 0..MaxRuns
    /\ kdeb \in KernelBuilds \cup {None}
    /\ mdeb \in Modules \cup {None}
    /\ fdeb \in DriverTrees \cup {None}
    /\ cut \in BOOLEAN /\ returned \in BOOLEAN

\* A work directory is new, or as a build of the same lock left it; the store may have been
\* cleaned since, or have been filled by the builds of a directory that is gone.
Init ==
    /\ want \in {w \in Asks : \A v \in Asks : w.pin <= v.pin /\ w.drv <= v.drv}
    /\ asked = None
    /\ \E built, stored \in BOOLEAN :
          /\ kstore = [k \in Kernels |-> IF stored /\ k = KernelOf(want) THEN k ELSE None]
          /\ mstore = [k \in ModuleKeys |-> IF stored /\ k = ModuleKeyOf(want) THEN ModulesOf(want) ELSE None]
          /\ fstore = [d \in Drivers |-> IF stored /\ d = want.drv THEN d ELSE None]
          /\ IF built
             THEN /\ kstamp = want.pin /\ ktree = want.pin /\ config = want.cfg
                  /\ symvers = KernelOf(want) /\ wdebs = {KernelOf(want)}
                  /\ dstamp = want.drv /\ dtree = want.drv
             ELSE /\ kstamp = None /\ ktree = None /\ config = None /\ symvers = None /\ wdebs = {}
                  /\ dstamp = None /\ dtree = None
    /\ stage = None /\ goal = None /\ pc = "idle" /\ runs = 0
    /\ kdeb = None /\ mdeb = None /\ fdeb = None
    /\ cut = FALSE /\ returned = FALSE

\* The run is over, however it ended: what it held in memory is gone.
Ended ==
    /\ pc' = "idle"
    /\ asked' = None /\ stage' = None /\ goal' = None
    /\ kdeb' = None /\ mdeb' = None /\ fdeb' = None

\* put keeps an entry that is already there.
Put(store, k, v) == IF store[k] = None THEN [store EXCEPT ![k] = v] ELSE store

(***************************************************************************)
(* The world around a run.                                                 *)
(***************************************************************************)
\* An `update` or an edit of the configuration. A run reads the lock once, so one that comes
\* while it is under way is one that comes after it; configure reads the fragments again.
Edit(w) ==
    /\ w # want
    /\ pc = "idle" \/ LiveEdits
    /\ want' = w
    /\ returned' = (returned \/ w.pin < want.pin \/ w.drv < want.drv)
    /\ UNCHANGED <<runs, asked, stores, trees, stage, goal, pc, staged, cut>>

\* Another recipe, built whole from its own inputs w, has stored what it made.
OtherRecipe(w) ==
    /\ kstore' = Put(kstore, KernelOf(w), KernelOf(w))
    /\ mstore' = Put(mstore, ModuleKeyOf(w), ModulesOf(w))
    /\ fstore' = Put(fstore, w.drv, w.drv)
    /\ stores' # stores
    /\ UNCHANGED <<runs, want, asked, trees, stage, goal, pc, staged, history>>

(***************************************************************************)
(* build_kernel, build_dtb, and the tree work ensure_module_tree shares.   *)
(***************************************************************************)
\* The lock and the configuration are read, and the keys computed from them.
Begin(s) ==
    /\ pc = "idle"
    /\ runs < MaxRuns
    /\ runs' = runs + 1
    /\ asked' = want
    /\ stage' = s
    /\ goal' = IF s = "all" THEN "kernel" ELSE s
    /\ pc' = CASE s \in {"kernel", "all"} -> "restore" [] s = "dtb" -> "tree" [] s = "kmod" -> "probe"
    /\ UNCHANGED <<want, stores, trees, staged, history>>

\* The kernel stage is over: a whole build goes on to the module.
KernelDone ==
    /\ goal' = IF stage = "all" THEN "kmod" ELSE goal
    /\ pc' = IF stage = "all" THEN "probe" ELSE "done"

RestoreKernel ==
    /\ pc = "restore"
    /\ IF kstore[KernelOf(asked)] # None
         THEN kdeb' = kstore[KernelOf(asked)] /\ KernelDone
         ELSE pc' = "tree" /\ UNCHANGED <<kdeb, goal>>
    /\ UNCHANGED <<runs, want, asked, stores, trees, stage, mdeb, fdeb, history>>

\* Mutant: a built tree serves whatever it is stamped with.
ModuleTreeReadyUnstamped == goal = "kmod" /\ ktree # None /\ symvers # None

\* is_fresh: there is a tree, and its stamp is the one asked for.
TreeFresh == ktree # None /\ kstamp = asked.pin

\* ensure_module_tree returns a current tree that has been built.
ModuleTreeReady == goal = "kmod" /\ TreeFresh /\ symvers # None

\* The tree is reused at its stamp; one that is stale is removed, and its stamp left.
PrepareTree ==
    /\ pc = "tree"
    /\ \/ ModuleTreeReady /\ pc' = "module" /\ UNCHANGED kernelTree
       \/ ~ModuleTreeReady /\ TreeFresh /\ pc' = "configure" /\ UNCHANGED kernelTree
       \/ /\ ~ModuleTreeReady /\ ~TreeFresh
          /\ ktree' = None /\ config' = None /\ symvers' = None
          /\ pc' = "clone" /\ UNCHANGED kstamp
    /\ UNCHANGED <<runs, want, asked, stores, driverTree, wdebs, stage, goal, staged, history>>

\* clone_and_patch: fetch, git am, the board's device trees.
CloneTree ==
    /\ pc = "clone"
    /\ ktree' = asked.pin
    /\ pc' = "stamp"
    /\ UNCHANGED <<runs, want, asked, stores, kstamp, config, symvers, driverTree, wdebs, stage, goal, staged, history>>

\* A fetch or a `git am` that fails takes its tree with it.
CloneFails ==
    /\ "error" \in Faults /\ pc = "clone"
    /\ Ended
    /\ UNCHANGED <<runs, want, stores, trees, history>>

StampTree ==
    /\ pc = "stamp"
    /\ kstamp' = asked.pin
    /\ pc' = "configure"
    /\ UNCHANGED <<runs, want, asked, stores, ktree, config, symvers, driverTree, wdebs, stage, goal, staged, history>>

\* The removal fails or is killed half-way, with or without what a build left in the tree;
\* the clone is killed, or fails where nothing removes it (install_device_dts); the stamp is
\* not written, or cut short and so none.
RefreshCut ==
    /\ Faults # {}
    /\ \/ /\ pc = "tree" /\ ktree # None /\ ~TreeFresh
          /\ ktree' = Partial
          /\ config' \in {config, None} /\ symvers' \in {symvers, None}
          /\ UNCHANGED kstamp
       \/ pc = "clone" /\ ktree' = Partial /\ UNCHANGED <<kstamp, config, symvers>>
       \/ pc = "stamp" /\ kstamp' \in {kstamp, None} /\ UNCHANGED <<ktree, config, symvers>>
    /\ cut' = TRUE
    /\ Ended
    /\ UNCHANGED <<runs, want, stores, driverTree, wdebs, returned>>

\* mrproper drops an earlier build's output if there is any; then the fragments are
\* read again, merged, and the result copied in as .config.
Configure ==
    /\ pc = "configure"
    /\ config' = want.cfg
    /\ symvers' = None
    /\ pc' = "compile"
    /\ UNCHANGED <<runs, want, asked, stores, kstamp, ktree, driverTree, wdebs, stage, goal, staged, history>>

\* configure fails after mrproper, before the copy of the new .config.
ConfigureFails ==
    /\ "error" \in Faults /\ pc = "configure"
    /\ config' = None /\ symvers' = None
    /\ Ended
    /\ UNCHANGED <<runs, want, stores, kstamp, ktree, driverTree, wdebs, history>>

\* Mutant: the sweep of the work directory is forgotten.
SweptKeeps(debs) == debs

\* purge_stage_debs over the kernel's prefixes.
Swept(debs) == {}

\* The kernel this run's compile makes out of the tree it stands in.
Compiled == [pin |-> ktree, cfg |-> config, tool |-> asked.tool]

\* bindeb-pkg writes over a .deb of the same version.
Beside(debs) == {d \in debs : d.pin # ktree} \cup {Compiled}

\* What a compile finds in the work directory: the kernel stage sweeps it first,
\* ensure_module_tree does not.
Before == IF goal = "kernel" THEN Swept(wdebs) ELSE wdebs

Compile ==
    /\ pc = "compile" /\ goal # "dtb"
    /\ symvers' = Compiled
    /\ wdebs' = Beside(Before)
    /\ pc' = IF goal = "kernel" THEN "collect" ELSE "module"
    /\ UNCHANGED <<runs, want, asked, stores, kstamp, ktree, config, driverTree, stage, goal, staged, history>>

\* A failed compile may come after modpost and after a .deb.
CompileFails ==
    /\ "error" \in Faults /\ pc = "compile" /\ goal # "dtb"
    /\ symvers' \in {None, Compiled}
    /\ wdebs' \in {wdebs, Before, Beside(Before)}
    /\ Ended
    /\ UNCHANGED <<runs, want, stores, kstamp, ktree, config, driverTree, history>>

\* `make <board>.dtb` in the configured tree.
CompileDtb ==
    /\ pc = "compile" /\ goal = "dtb"
    /\ pc' = "done"
    /\ UNCHANGED <<runs, want, asked, stores, trees, stage, goal, staged, history>>

\* pick_deb takes the highest version beside the tree.
Collect ==
    /\ pc = "collect"
    /\ kdeb' \in {d \in wdebs : \A e \in wdebs : e.pin <= d.pin}
    /\ pc' = "put"
    /\ UNCHANGED <<runs, want, asked, stores, trees, stage, goal, mdeb, fdeb, history>>

StoreKernel ==
    /\ pc = "put"
    /\ kstore' = Put(kstore, KernelOf(asked), kdeb)
    /\ KernelDone
    /\ UNCHANGED <<runs, want, asked, mstore, fstore, trees, stage, staged, history>>

(***************************************************************************)
(* kmod::build_one                                                         *)
(***************************************************************************)
\* Both keys are probed before any tree is touched.
Probe ==
    /\ pc = "probe"
    /\ mdeb' = mstore[ModuleKeyOf(asked)]
    /\ fdeb' = fstore[asked.drv]
    /\ pc' = IF mdeb' # None /\ fdeb' # None THEN "done" ELSE "driver"
    /\ UNCHANGED <<runs, want, asked, stores, trees, stage, goal, kdeb, history>>

DriverFresh == dtree # None /\ dstamp = asked.drv

\* What the driver is needed for: the kernel tree is wanted for modules only.
DriverReady == IF mdeb = None THEN "tree" ELSE "firmware"

\* The driver tree passes the same gate.
PrepareDriver ==
    /\ pc = "driver"
    /\ IF DriverFresh
         THEN pc' = DriverReady /\ UNCHANGED dtree
         ELSE pc' = "fetch" /\ dtree' = None
    /\ UNCHANGED <<runs, want, asked, stores, kernelTree, dstamp, wdebs, stage, goal, staged, history>>

FetchDriver ==
    /\ pc = "fetch"
    /\ dtree' = asked.drv
    /\ pc' = "mark"
    /\ UNCHANGED <<runs, want, asked, stores, kernelTree, dstamp, wdebs, stage, goal, staged, history>>

\* A fetch that fails takes its tree with it.
FetchFails ==
    /\ "error" \in Faults /\ pc = "fetch"
    /\ Ended
    /\ UNCHANGED <<runs, want, stores, trees, history>>

StampDriver ==
    /\ pc = "mark"
    /\ dstamp' = asked.drv
    /\ pc' = DriverReady
    /\ UNCHANGED <<runs, want, asked, stores, kernelTree, dtree, wdebs, stage, goal, staged, history>>

\* As for the kernel tree; a patch that does not apply leaves the tree it failed in.
DriverCut ==
    /\ Faults # {}
    /\ \/ /\ pc = "fetch" \/ (pc = "driver" /\ dtree # None /\ ~DriverFresh)
          /\ dtree' = Partial /\ UNCHANGED dstamp
       \/ pc = "mark" /\ dstamp' \in {dstamp, None} /\ UNCHANGED dtree
    /\ cut' = TRUE
    /\ Ended
    /\ UNCHANGED <<runs, want, stores, kernelTree, wdebs, returned>>

\* Compile, install, package, stage and store the modules .deb.
BuildModule ==
    /\ pc = "module"
    /\ mdeb' = [drv |-> dtree, tool |-> asked.tool, kernel |-> symvers]
    /\ mstore' = Put(mstore, ModuleKeyOf(asked), mdeb')
    /\ pc' = IF fdeb = None THEN "firmware" ELSE "done"
    /\ UNCHANGED <<runs, want, asked, kstore, fstore, trees, stage, goal, kdeb, fdeb, history>>

PackageFirmware ==
    /\ pc = "firmware"
    /\ fdeb' = dtree
    /\ fstore' = Put(fstore, asked.drv, dtree)
    /\ pc' = "done"
    /\ UNCHANGED <<runs, want, asked, kstore, mstore, trees, stage, goal, kdeb, mdeb, history>>

EndRun ==
    /\ pc = "done"
    /\ Ended
    /\ UNCHANGED <<runs, want, stores, trees, history>>

\* A step that fails before it changes anything, and a kill between two steps other than the
\* ones inside a refresh, which RefreshCut and DriverCut are.
Stop ==
    /\ \/ "error" \in Faults /\ pc \in {"collect", "module", "firmware"}
       \/ "error" \in Faults /\ pc = "compile" /\ goal = "dtb"
       \/ "kill" \in Faults /\ pc \notin {"idle", "done", "stamp", "mark"}
    /\ Ended
    /\ UNCHANGED <<runs, want, stores, trees, history>>

-----------------------------------------------------------------------------
Step ==
    \/ RestoreKernel \/ PrepareTree \/ CloneTree \/ StampTree \/ Configure \/ Compile \/ CompileDtb
    \/ Collect \/ StoreKernel \/ Probe \/ PrepareDriver \/ FetchDriver \/ StampDriver \/ BuildModule
    \/ PackageFirmware \/ EndRun

Next ==
    \/ \E s \in Stages : Begin(s)
    \/ Step
    \/ CloneFails \/ ConfigureFails \/ CompileFails \/ FetchFails \/ Stop
    \/ RefreshCut \/ DriverCut
    \/ (\E w \in Asks : Edit(w)) \/ (\E w \in Foreign : OtherRecipe(w))

Spec == Init /\ [][Next]_vars
-----------------------------------------------------------------------------
\* Every entry holds what its key names, however trees were reused, builds failed
\* and pins moved: a kernel exactly, a modules .deb the driver, the compiler and
\* the kernel tree, a firmware .deb the driver.
StoresHonest ==
    /\ \A k \in Kernels : kstore[k] \in {None, k}
    /\ \A k \in ModuleKeys : mstore[k] # None =>
          mstore[k].drv = k.drv /\ mstore[k].tool = k.tool /\ mstore[k].kernel.pin = k.pin
    /\ \A d \in Drivers : fstore[d] \in {None, d}

\* A run that succeeds has staged the kernel it was asked for, and modules and
\* firmware of the asked driver, the modules linked against the asked kernel tree.
StagesWhatItAsked ==
    pc = "done" =>
        /\ stage \in {"kernel", "all"} => kdeb = KernelOf(asked)
        /\ stage \in {"kmod", "all"} =>
              fdeb = asked.drv /\ mdeb.drv = asked.drv /\ mdeb.kernel.pin = asked.pin

\* Whatever the store serves under a key is the kernel, the modules or the firmware the key
\* names, and a run of the kernel's stages that succeeds has staged what it was asked for,
\* whatever fails and is killed, inside the refresh of a tree too, and wherever the pins move:
\* unless the two have met, a refresh cut short and a pin that went back to what the older
\* stamp names.
KernelStagesAreHonest == (cut /\ returned) \/ (StoresHonest /\ StagesWhatItAsked)

\* A whole build ships modules linked against the very kernel it ships: its output
\* key "folds every input that changes the produced .kos" and the modules are built
\* "by the compiler that produced" the Module.symvers they link against.
ModulesFitKernel ==
    (pc = "done" /\ stage = "all") => mdeb.kernel = kdeb
=============================================================================
