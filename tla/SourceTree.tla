----------------------------- MODULE SourceTree -----------------------------
(***************************************************************************)
(* The Tier-1 gate every compile stage passes: reuse_or_refresh_tree keeps *)
(* a fetched and patched source tree only when the sidecar stamp           *)
(* <tree>.sig rolls to the signature the lock asks for now, otherwise it   *)
(* removes the tree, fetches, patches and stamps it.                       *)
(*                                                                         *)
(* Three kinds of stage refresh a tree, and they differ in which failures  *)
(* remove what was fetched:                                                *)
(*   "pinned"  clone_pinned (ffmpeg, u-boot) and the userspace closure:    *)
(*             fetch, patch; every failure removes the tree                *)
(*   "kernel"  clone_pinned, then install_device_dts outside its guard     *)
(*   "kmod"    fetch_commit removes its own partial tree, git apply not    *)
(*                                                                         *)
(* `clean RECIPE` removes the work directory that holds tree and stamp,    *)
(* entry by entry, beside whatever runs: it may be cut short with the tree *)
(* damaged or gone and the stamp still there.                              *)
(***************************************************************************)
EXTENDS Naturals

CONSTANTS
    Sigs,     \* tree signatures, in the order a repository history reaches them
    Kinds,    \* the stage kinds of the instance
    Reverts,  \* may a lock or config edit return to an earlier signature?
    Faults    \* what may go wrong: "kill", "ioerror", "refresh"

ASSUME TreeAssumption ==
    /\ Sigs \subseteq Nat \ {0}
    /\ Sigs # {}
    /\ Kinds \subseteq {"pinned", "kernel", "kmod"}
    /\ Reverts \in BOOLEAN
    /\ Faults \subseteq {"kill", "ioerror", "refresh"}

VARIABLES
    kind,   \* which stage this tree belongs to
    want,   \* the signature the lock, patches and device sources give now
    asked,  \* the signature the latest run computed at its start
    tree,   \* the tree on disk
    stamp,  \* the signature <tree>.sig rolls to; 0 when absent or unparseable
    pc,     \* where the stage is
    phase,  \* the refresh step under way
    clean   \* what a clean has done to the tree since a refresh last stamped it

vars == <<kind, want, asked, tree, stamp, pc, phase, clean>>

Phases == {"fetch", "patch", "install"}
PhasesOf(k) == IF k = "kernel" THEN Phases ELSE {"fetch", "patch"}

\* The phases whose failure removes the tree before the error is returned.
Guarded(k) == IF k = "kmod" THEN {"fetch"} ELSE {"fetch", "patch"}

\* Mutant: the phase after the fetch is the fetch again.
NextPhaseStays(ph) == IF ph = "fetch" THEN "fetch" ELSE "install"

\* Mutant: the refresh runs on into the step that follows it.
NextPhaseOverruns(ph) == IF ph = "fetch" THEN "patch" ELSE "configure"

NextPhase(ph) == IF ph = "fetch" THEN "patch" ELSE "install"

\* A tree: the inputs it was fetched for, the phases it has been through, and
\* whether a removal has begun to eat it.
NoTree == [there |-> FALSE, of |-> 0, done |-> {}, whole |-> FALSE]
Trees == [there: BOOLEAN, of: Sigs \cup {0}, done: SUBSET Phases, whole: BOOLEAN]
ReadyTree(k, s) == [there |-> TRUE, of |-> s, done |-> PhasesOf(k), whole |-> TRUE]

TypeOK ==
    /\ kind \in Kinds
    /\ want \in Sigs
    /\ asked \in Sigs
    /\ tree \in Trees
    /\ stamp \in Sigs \cup {0}
    /\ pc \in {"idle", "remove", "clone", "refresh", "stamp", "compile", "failed"}
    /\ phase \in Phases
    /\ clean \in {"no", "going", "cut", "refetched"}

Init ==
    /\ kind \in Kinds
    /\ want \in Sigs
    /\ asked = want
    /\ tree = NoTree
    /\ stamp = 0
    /\ pc = "idle"
    /\ phase = "fetch"
    /\ clean = "no"

\* `update`, a patch edit, a device-tree source edit, or a version-control
\* checkout of any of them: the inputs the next run signs.
Repin(s) ==
    /\ s # want
    /\ Reverts \/ s > want
    /\ want' = s
    /\ UNCHANGED <<kind, asked, tree, stamp, pc, phase, clean>>

\* Mutant: the tree's existence alone passes the gate.
IsFreshByExistence(s) == tree.there

IsFresh(s) == tree.there /\ stamp = s

\* Mutant: the stamp is written up front, before the tree it describes.
GateStampsFirst ==
    /\ pc = "idle"
    /\ asked' = want
    /\ pc' = IF IsFresh(want) THEN "compile" ELSE IF tree.there THEN "remove" ELSE "clone"
    /\ phase' = "fetch"
    /\ stamp' = want
    /\ UNCHANGED <<kind, want, tree, clean>>

\* The gate.  The stamp is left as it is while the tree under it is replaced.
Gate ==
    /\ pc = "idle"
    /\ asked' = want
    /\ pc' = IF IsFresh(want) THEN "compile" ELSE IF tree.there THEN "remove" ELSE "clone"
    /\ phase' = "fetch"
    /\ UNCHANGED <<kind, want, tree, stamp, clean>>

\* remove_dir_all, file by file: first damaged, then gone.
RemoveBegin ==
    /\ pc = "remove" /\ tree.whole
    /\ tree' = [tree EXCEPT !.whole = FALSE]
    /\ UNCHANGED <<kind, want, asked, stamp, pc, phase, clean>>

RemoveEnd ==
    /\ pc = "remove" /\ ~tree.whole
    /\ tree' = NoTree
    /\ pc' = "clone"
    /\ UNCHANGED <<kind, want, asked, stamp, phase, clean>>

RemoveFails ==
    /\ pc = "remove" /\ ~tree.whole /\ "ioerror" \in Faults
    /\ pc' = "failed"
    /\ UNCHANGED <<kind, want, asked, tree, stamp, phase, clean>>

\* The clone creates the tree's directory before it holds the pinned commit.
FetchBegin ==
    /\ pc = "clone"
    /\ tree' = [there |-> TRUE, of |-> asked, done |-> {}, whole |-> TRUE]
    /\ pc' = "refresh"
    /\ clean' = IF clean = "cut" THEN "refetched" ELSE clean
    /\ UNCHANGED <<kind, want, asked, stamp, phase>>

PhaseDone ==
    /\ pc = "refresh" /\ tree.there
    /\ tree' = [tree EXCEPT !.done = @ \cup {phase}]
    /\ IF tree'.done = PhasesOf(kind)
         THEN pc' = "stamp" /\ UNCHANGED phase
         ELSE phase' = NextPhase(phase) /\ UNCHANGED pc
    /\ UNCHANGED <<kind, want, asked, stamp, clean>>

\* A clone that fails, a commit that does not match its pin, a patch that does
\* not apply, a device-tree source that shadows an upstream one.
PhaseFails ==
    /\ pc = "refresh" /\ tree.there /\ "refresh" \in Faults
    /\ tree' = IF phase \in Guarded(kind) THEN NoTree ELSE tree
    /\ pc' = "failed"
    /\ UNCHANGED <<kind, want, asked, stamp, phase, clean>>

\* A clean took the tree away under the refresh: git finds no directory.
TreeVanished ==
    /\ pc = "refresh" /\ ~tree.there
    /\ pc' = "failed"
    /\ UNCHANGED <<kind, want, asked, tree, stamp, phase, clean>>

\* The cleanup's own removal is best-effort: its failure leaves the tree.
CleanupFails ==
    /\ pc = "refresh" /\ tree.there /\ "ioerror" \in Faults
    /\ tree' = [tree EXCEPT !.whole = FALSE]
    /\ pc' = "failed"
    /\ UNCHANGED <<kind, want, asked, stamp, phase, clean>>

\* write_manifest is a plain write: the old stamp is truncated, then replaced.
WriteStampBegin ==
    /\ pc = "stamp" /\ stamp # 0
    /\ stamp' = 0
    /\ UNCHANGED <<kind, want, asked, tree, pc, phase, clean>>

WriteStampEnd ==
    /\ pc = "stamp" /\ stamp = 0
    /\ stamp' = asked
    /\ pc' = "compile"
    /\ clean' = IF clean = "refetched" THEN "no" ELSE clean
    /\ UNCHANGED <<kind, want, asked, tree, phase>>

WriteStampFails ==
    /\ pc = "stamp" /\ stamp = 0 /\ "ioerror" \in Faults
    /\ pc' = "failed"
    /\ UNCHANGED <<kind, want, asked, tree, stamp, phase, clean>>

\* The stage compiles from the tree, or has failed, and the run ends.
EndRun ==
    /\ pc \in {"compile", "failed"}
    /\ pc' = "idle"
    /\ UNCHANGED <<kind, want, asked, tree, stamp, phase, clean>>

\* A hard kill between any two steps.
Kill ==
    /\ "kill" \in Faults
    /\ pc # "idle"
    /\ pc' = "idle"
    /\ UNCHANGED <<kind, want, asked, tree, stamp, phase, clean>>

\* `clean RECIPE` asks only whether a build owns the work directory, never whether one runs:
\* it takes what is in it file by file, the tree and its stamp in whatever order they are
\* listed.
CleanBegins ==
    /\ clean # "going"
    /\ clean' = "going"
    /\ UNCHANGED <<kind, want, asked, tree, stamp, pc, phase>>

CleanEats ==
    /\ clean = "going" /\ tree.whole
    /\ tree' = [tree EXCEPT !.whole = FALSE]
    /\ UNCHANGED <<kind, want, asked, stamp, pc, phase, clean>>

CleanTakesTree ==
    /\ clean = "going" /\ tree.there /\ ~tree.whole
    /\ tree' = NoTree
    /\ UNCHANGED <<kind, want, asked, stamp, pc, phase, clean>>

CleanTakesStamp ==
    /\ clean = "going" /\ stamp # 0
    /\ stamp' = 0
    /\ UNCHANGED <<kind, want, asked, tree, pc, phase, clean>>

\* The directory is empty and goes; a run it went away under is left with what is gone.
CleanEnds ==
    /\ clean = "going" /\ ~tree.there /\ stamp = 0
    /\ clean' = IF pc = "idle" THEN "no" ELSE "cut"
    /\ UNCHANGED <<kind, want, asked, tree, stamp, pc, phase>>

\* The removal fails, or the clean is killed, with whatever it has not reached left behind.
CleanCut ==
    /\ clean = "going"
    /\ clean' = "cut"
    /\ UNCHANGED <<kind, want, asked, tree, stamp, pc, phase>>

Step ==
    \/ RemoveBegin \/ RemoveEnd \/ FetchBegin \/ PhaseDone \/ TreeVanished
    \/ WriteStampBegin \/ WriteStampEnd \/ EndRun

\* A person's clean, under no fairness.
CleanSteps ==
    \/ CleanBegins \/ CleanEats \/ CleanTakesTree \/ CleanTakesStamp \/ CleanEnds \/ CleanCut

Next ==
    \/ Step \/ Gate \/ RemoveFails \/ PhaseFails \/ CleanupFails \/ WriteStampFails \/ Kill \/ CleanSteps
    \/ \E s \in Sigs : Repin(s)

Spec == Init /\ [][Next]_vars /\ WF_vars(Step)
-----------------------------------------------------------------------------
\* A stage compiles only from a tree fetched for the signature it asked for, through every
\* phase of its refresh, and not half removed (is_fresh: "whether a tree can be soundly
\* reused"), whatever was killed or failed in the runs before it.  What the gate does not see
\* is a clean: one that was cut short, or that ran beside the stage, may have left a damaged
\* tree beside a stamp the gate still takes, until a refresh has fetched and stamped it anew.
SoundReuse == (pc = "compile" /\ clean = "no") => tree = ReadyTree(kind, asked)

\* The strengthening that makes SoundReuse inductive when pins only move forward: a stamp over
\* anything but the tree it names, where no clean left it, is older than every signature a
\* later run can ask for.
StaleStampIsBehind ==
    (clean = "no" /\ tree.there /\ stamp # 0 /\ tree # ReadyTree(kind, stamp)) => stamp < asked

\* A run past the gate ends: in a compile or in an error, never stuck between
\* removing a tree and stamping its successor.
RefreshEnds == pc \in {"remove", "clone", "refresh", "stamp"} ~> pc \in {"compile", "failed", "idle"}
=============================================================================
