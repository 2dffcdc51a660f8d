----------------------------- MODULE Sandboxes -----------------------------
(***************************************************************************)
(* The provisioned roots of one work directory (engine/src/sandbox.rs): a  *)
(* base tree with a manifest of its packages beside it, and per stage an   *)
(* overlay upper staged over the base.  A build compiles in the layered    *)
(* root and records the base's manifest in its provenance; `boot2deb       *)
(* shell` (engine/src/shell.rs) stands the same base up and stages a layer *)
(* under a name of its own.  Nothing locks the work directory.             *)
(*                                                                         *)
(* The archive is a counter: the package set it resolves to now.  A tree,  *)
(* a layer and a manifest are the archive state they were resolved from.   *)
(* The archive only moves forward.  Removing and publishing a tree is one  *)
(* step each: the provisioning library does both by rename under a lock.   *)
(***************************************************************************)
EXTENDS Naturals, FiniteSets

CONSTANTS
    Builds,         \* processes that run `build`
    Shells,         \* processes that run `shell`
    MaxMoves,       \* bound: moves of the archive
    MaxVisits,      \* bound: times a root is asked for
    SandboxFaults   \* whether processes are killed

ASSUME SandboxAssumption == MaxMoves \in Nat /\ MaxVisits \in Nat /\ SandboxFaults \in BOOLEAN

Visitors == Builds \cup Shells
NoState == 0
States == 1..(MaxMoves + 1)
\* What a write cut short leaves: a last line that does not parse, or fewer packages.
Cut == MaxMoves + 2
Short == MaxMoves + 3
Records == States \cup {NoState, Cut, Short}

VARIABLES
    archive,    \* what the archive resolves to now
    base,       \* the published tree, or NoState
    pkgs,       \* the manifest beside it: NoState, a state, Cut or Short
    upper,      \* upper[s]: the increments in stage directory s
    at,         \* at[p]: where p is
    sol,        \* sol[p]: the plan p resolved and has to install or record
    over,       \* over[p]: the base p staged its layer over
    mine,       \* mine[p]: the increment p staged
    saw,        \* saw[p]: the base and the upper the compile ran in
    noted,      \* noted[p]: the manifest p's provenance names
    overlapped, \* history: two processes, or one and a clean, have been at work at once
    emptied,    \* history: visitors a clean has taken an upper from
    visits      \* roots asked for so far

sandboxVars == <<archive, base, pkgs, upper, at, sol, over, mine, saw, noted, overlapped, emptied, visits>>

\* The stage directory: a shell's is prefixed, so that it is not the build's.
LayerDir(p) == IF p \in Shells THEN "shell-stage" ELSE "stage"

Idle == {"idle", "done", "failed"}

SandboxTypeOK ==
    /\ archive \in States
    /\ base \in States \cup {NoState}
    /\ pkgs \in Records
    /\ upper \in [{"stage", "shell-stage"} -> SUBSET States]
    /\ at \in [Visitors -> Idle \cup {"check", "drop tree", "drop manifest", "provision",
                                      "bootstrap", "manifest", "layer", "compile", "record root"}]
    /\ sol \in [Visitors -> States \cup {NoState}] /\ over \in [Visitors -> States \cup {NoState}]
    /\ mine \in [Visitors -> States \cup {NoState}]
    /\ saw \in [Visitors -> (States \cup {NoState}) \X SUBSET States]
    /\ noted \in [Visitors -> Records]
    /\ overlapped \in BOOLEAN /\ emptied \in SUBSET Visitors
    /\ visits \in 0..MaxVisits

SandboxInit ==
    /\ archive = 1 /\ base = NoState /\ pkgs = NoState
    /\ upper = [s \in {"stage", "shell-stage"} |-> {}]
    /\ at = [p \in Visitors |-> "idle"]
    /\ sol = [p \in Visitors |-> NoState] /\ over = [p \in Visitors |-> NoState]
    /\ mine = [p \in Visitors |-> NoState]
    /\ saw = [p \in Visitors |-> <<NoState, {}>>]
    /\ noted = [p \in Visitors |-> NoState]
    /\ overlapped = FALSE /\ emptied = {} /\ visits = 0

Goes(p, where) == at' = [at EXCEPT ![p] = where]

\* p starts a run.
Arrives(p) ==
    /\ at[p] \in Idle /\ visits < MaxVisits
    /\ visits' = visits + 1
    /\ overlapped' = (overlapped \/ \E q \in Visitors \ {p} : at[q] \notin Idle)
    /\ emptied' = emptied \ {p}
    /\ sol' = [sol EXCEPT ![p] = NoState] /\ mine' = [mine EXCEPT ![p] = NoState]
    /\ over' = [over EXCEPT ![p] = NoState] /\ noted' = [noted EXCEPT ![p] = NoState]
    /\ saw' = [saw EXCEPT ![p] = <<NoState, {}>>]
    /\ Goes(p, "check")

\* Mutant: a tree without its manifest is taken as it is.
DiscardUnrecordableBaseKeeps(p) ==
    /\ Arrives(p)
    /\ UNCHANGED <<archive, base, pkgs, upper>>

\* ensure starts: a tree standing without its manifest is removed.
DiscardUnrecordableBase(p) ==
    /\ Arrives(p)
    /\ base' = IF pkgs = NoState THEN NoState ELSE base
    /\ UNCHANGED <<archive, pkgs, upper>>

\* discard_if_the_archive_moved with both there: resolve, and compare with the manifest.
\* One that does not parse is an error.
Diverged(p) ==
    /\ at[p] = "check" /\ base # NoState /\ pkgs # NoState
    /\ IF pkgs = Cut THEN Goes(p, "failed") /\ UNCHANGED sol
       ELSE IF pkgs = archive THEN Goes(p, "provision") /\ UNCHANGED sol
       ELSE Goes(p, "drop tree") /\ sol' = [sol EXCEPT ![p] = archive]
    /\ UNCHANGED <<archive, base, pkgs, upper, over, mine, saw, noted, overlapped, emptied, visits>>

NothingToCheck(p) ==
    /\ at[p] = "check" /\ (base = NoState \/ pkgs = NoState)
    /\ Goes(p, "provision")
    /\ UNCHANGED <<archive, base, pkgs, upper, sol, over, mine, saw, noted, overlapped, emptied, visits>>

DropTree(p) ==
    /\ at[p] = "drop tree"
    /\ base' = NoState
    /\ Goes(p, "drop manifest")
    /\ UNCHANGED <<archive, pkgs, upper, sol, over, mine, saw, noted, overlapped, emptied, visits>>

\* remove_file fails on a manifest someone else has removed.
DropManifest(p) ==
    /\ at[p] = "drop manifest"
    /\ pkgs' = NoState
    /\ Goes(p, IF pkgs = NoState THEN "failed" ELSE "provision")
    /\ UNCHANGED <<archive, base, upper, sol, over, mine, saw, noted, overlapped, emptied, visits>>

\* provision::ensure (external): an existing directory is taken as it is; otherwise one
\* process at a time bootstraps, with the plan it was given or one it resolves now.
Provision(p) ==
    /\ at[p] = "provision"
    /\ ~\E q \in Visitors : at[q] = "bootstrap"
    /\ IF base # NoState
         THEN Goes(p, "layer") /\ UNCHANGED sol
         ELSE /\ sol' = [sol EXCEPT ![p] = IF @ = NoState THEN archive ELSE @]
              /\ Goes(p, "bootstrap")
    /\ UNCHANGED <<archive, base, pkgs, upper, over, mine, saw, noted, overlapped, emptied, visits>>

PublishBase(p) ==
    /\ at[p] = "bootstrap"
    /\ \/ base' = sol[p] /\ Goes(p, "manifest")
       \/ Goes(p, "failed") /\ UNCHANGED base
    /\ UNCHANGED <<archive, pkgs, upper, sol, over, mine, saw, noted, overlapped, emptied, visits>>

\* manifest::write, in place.  Past it the run has used the base.
RecordBase(p) ==
    /\ at[p] = "manifest"
    /\ pkgs' = sol[p]
    /\ Goes(p, "layer")
    /\ UNCHANGED <<archive, base, upper, sol, over, mine, saw, noted, overlapped, emptied, visits>>

\* Mutant: the upper of a killed run is not discarded.
StagedOver(p) == upper[LayerDir(p)]

\* discard_upper: what the stage directory holds when the layer is staged into it.
Discarded(p) == {}

\* build_root: the layer resolves at the archive as it is now.  A layer of another state
\* than the base may leave a dependency unmet, which check_layer_coherent refuses.
StageLayer(p) ==
    /\ at[p] = "layer"
    /\ \/ /\ base # NoState
          /\ mine' = [mine EXCEPT ![p] = archive]
          /\ over' = [over EXCEPT ![p] = base]
          /\ upper' = [upper EXCEPT ![LayerDir(p)] = Discarded(p) \cup {archive}]
          /\ \/ Goes(p, "compile")
             \/ base # archive /\ Goes(p, "failed")
       \/ /\ base = NoState
          /\ Goes(p, "failed")
          /\ UNCHANGED <<mine, over, upper>>
    /\ UNCHANGED <<archive, base, pkgs, sol, saw, noted, overlapped, emptied, visits>>

\* BuildRoot::run: the command sees whatever lower and upper are there, and may fail.
\* Dropping the root removes the upper.
RunInRoot(p) ==
    /\ at[p] = "compile"
    /\ saw' = [saw EXCEPT ![p] = <<base, upper[LayerDir(p)]>>]
    /\ upper' = [upper EXCEPT ![LayerDir(p)] = {}]
    /\ Goes(p, "record root") \/ Goes(p, "failed")
    /\ UNCHANGED <<archive, base, pkgs, sol, over, mine, noted, overlapped, emptied, visits>>

\* published_manifest, when a build writes its provenance.
PublishedManifest(p) ==
    /\ at[p] = "record root"
    /\ noted' = [noted EXCEPT ![p] = IF p \in Builds THEN pkgs ELSE NoState]
    /\ Goes(p, "done")
    /\ UNCHANGED <<archive, base, pkgs, upper, sol, over, mine, saw, overlapped, emptied, visits>>

\* A kill leaves the disk as it is; one during the manifest's write leaves any prefix.
KillVisitor(p) ==
    /\ SandboxFaults /\ at[p] \notin Idle
    /\ Goes(p, "failed")
    /\ IF at[p] = "manifest"
         THEN pkgs' \in {pkgs, Cut, Short, sol[p]}
         ELSE UNCHANGED pkgs
    /\ UNCHANGED <<archive, base, upper, sol, over, mine, saw, noted, overlapped, emptied, visits>>

\* clean --build-roots: the tree with its lock, then the manifest, then the uppers, by
\* sorted name; it may be interrupted after any of them.
CleanBuildRoots ==
    /\ \/ base' = NoState /\ UNCHANGED <<pkgs, upper>>
       \/ base' = NoState /\ pkgs' = NoState /\ UNCHANGED upper
       \/ base' = NoState /\ pkgs' = NoState /\ upper' = [s \in DOMAIN upper |-> {}]
    /\ <<base, pkgs, upper>> # <<base', pkgs', upper'>>
    /\ overlapped' = (overlapped \/ \E q \in Visitors : at[q] \notin Idle)
    /\ emptied' = IF upper' = upper THEN emptied ELSE Visitors
    /\ UNCHANGED <<archive, at, sol, over, mine, saw, noted, visits>>

MoveArchive ==
    /\ archive < MaxMoves + 1
    /\ archive' = archive + 1
    /\ UNCHANGED <<base, pkgs, upper, at, sol, over, mine, saw, noted, overlapped, emptied, visits>>

SandboxNext ==
    \/ \E p \in Visitors :
          \/ DiscardUnrecordableBase(p) \/ Diverged(p) \/ NothingToCheck(p) \/ DropTree(p)
          \/ DropManifest(p) \/ Provision(p) \/ PublishBase(p) \/ RecordBase(p)
          \/ StageLayer(p) \/ RunInRoot(p) \/ PublishedManifest(p) \/ KillVisitor(p)
    \/ CleanBuildRoots \/ MoveArchive

SandboxSpec == SandboxInit /\ [][SandboxNext]_sandboxVars
-----------------------------------------------------------------------------
\* "the record of what produced them": in a work directory used by one process at a time,
\* a build names in its provenance exactly the base its commands ran in, whatever kills,
\* torn manifests, cleans and archive moves came before it.
RecordedBaseIsCompiledIn ==
    \A p \in Builds : at[p] = "done" /\ ~overlapped =>
        noted[p] = saw[p][1] /\ saw[p][1] = over[p]

\* "a leftover from a hard-killed run would present that run's increment as this one's",
\* and "sharing the name with the stage would let a session pull the ground out from under
\* a build": what a run compiles against is the one increment it staged.
CompilesOwnIncrement ==
    \A p \in Visitors : at[p] \in {"record root", "done"} /\ p \notin emptied =>
        saw[p][2] = {mine[p]}

\* A run's commands see the base its record names and the increment it staged itself.
CompilesInWhatItRecords == RecordedBaseIsCompiledIn /\ CompilesOwnIncrement

\* "Opening a shell while a build of the same recipe is running therefore does not disturb
\* it": between staging its layer and its command, a build keeps the base it staged over.
ShellLeavesBuildAlone ==
    \A p \in Builds : at[p] = "compile" => base = over[p]
=============================================================================
