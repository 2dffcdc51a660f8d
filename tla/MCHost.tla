------------------------------- MODULE MCHost -------------------------------
(***************************************************************************)
(* What one host's processes do to the directories they share: the         *)
(* artifact store, the rootfs cache, the build roots, the kernel tree and  *)
(* its stores, the verification checkouts and the files of a press.  They  *)
(* share no state with each other, so a behaviour shows one of them        *)
(* (`show`) and the rest stand still; the run's states are the sum of      *)
(* theirs, not the product.                                                *)
(***************************************************************************)
EXTENDS ArtifactStore, RootCache, Sandboxes, VerifyTrees, MCPress, TLC

VARIABLES
    show,
    want, asked, kstore, mstore, fstore, kstamp, ktree, config, symvers, dstamp, dtree, wdebs, stage, goal,
    kpc, runs, kdeb, mdeb, fdeb, cut, returned

\* The kernel's stages: a lock and configuration of which the pin, the fragments or the driver
\* moves, with two runs after the one the directory was left by.
KernelAsks ==
    LET first == [pin |-> 1, cfg |-> "first", tool |-> "gcc", drv |-> 1]
    IN {first, [first EXCEPT !.pin = 2], [first EXCEPT !.cfg = "edited"], [first EXCEPT !.drv = 2]}
Kernel ==
    INSTANCE KernelStages
        WITH Pins <- {1, 2}, Cfgs <- {"first", "edited"}, Tools <- {"gcc"}, Drivers <- {1, 2}, Partial <- 0,
             Asks <- KernelAsks, Foreign <- {w \in KernelAsks : w.pin = 1 /\ w.drv = 1 /\ w.cfg = "first"},
             LiveEdits <- FALSE, Faults <- {"error", "kill"}, MaxRuns <- 2, pc <- kpc
kernelVars ==
    <<want, asked, kstore, mstore, fstore, kstamp, ktree, config, symvers, dstamp, dtree, wdebs, stage, goal,
      kpc, runs, kdeb, mdeb, fdeb, cut, returned>>

ASSUME Kernel!KernelAssumption

hostVars == <<show, vars, rootVars, sandboxVars, verifyVars, pressVars, kernelVars>>

HostInit ==
    /\ show \in {"store", "rootfs", "sandbox", "verify", "press", "kernel"}
    /\ Init /\ RootInit /\ SandboxInit /\ VerifyInit /\ PressInit
    /\ show # "verify" => bad = {}
    /\ show # "press" => method = "rkbin"
    /\ IF show = "kernel"
       THEN Kernel!Init
       ELSE /\ want = None /\ asked = None /\ kstore = None /\ mstore = None /\ fstore = None
            /\ kstamp = None /\ ktree = None /\ config = None /\ symvers = None
            /\ dstamp = None /\ dtree = None /\ wdebs = None /\ cut = None /\ returned = None
            /\ stage = None /\ goal = None /\ kpc = None /\ runs = None
            /\ kdeb = None /\ mdeb = None /\ fdeb = None

HostNext ==
    /\ show' = show
    /\ \/ show = "store" /\ Next /\ UNCHANGED <<rootVars, sandboxVars, verifyVars, pressVars, kernelVars>>
       \/ show = "rootfs" /\ RootNext /\ UNCHANGED <<vars, sandboxVars, verifyVars, pressVars, kernelVars>>
       \/ show = "sandbox" /\ SandboxNext /\ UNCHANGED <<vars, rootVars, verifyVars, pressVars, kernelVars>>
       \/ show = "verify" /\ VerifyNext /\ UNCHANGED <<vars, rootVars, sandboxVars, pressVars, kernelVars>>
       \/ show = "press" /\ PressNext /\ UNCHANGED <<vars, rootVars, sandboxVars, verifyVars, kernelVars>>
       \/ show = "kernel" /\ Kernel!Next /\ UNCHANGED <<vars, rootVars, sandboxVars, verifyVars, pressVars>>

HostSpec == HostInit /\ [][HostNext]_hostVars

\* Every shared directory holds only what its component can write there.
HostTypeOK ==
    CASE show = "store" -> TypeOK
      [] show = "rootfs" -> RootTypeOK
      [] show = "sandbox" -> SandboxTypeOK
      [] show = "verify" -> VerifyTypeOK
      [] show = "press" -> PressTypeOK
      [] show = "kernel" -> Kernel!TypeOK

\* Whatever the store serves under a key is the kernel, the modules or the firmware the key
\* names, and a run of the kernel's stages that succeeds has staged what it was asked for, unless
\* a refresh of a tree was cut short and a pin has gone back.
KernelStagesAreHonest == show = "kernel" => Kernel!KernelStagesAreHonest

\* The processes of every component are p1 and p2; a component's files or configurations
\* f1 and f2: no behaviour has two components move.
HostSymmetry == Permutations(Procs) \cup Permutations(Files)
=============================================================================
