---------------------------- MODULE VerifyTrees ----------------------------
(***************************************************************************)
(* The commit-addressed checkout cache of the verify gates                 *)
(* (engine/src/srcfetch.rs, patchfetch.rs, patches.rs, git.rs): one cached *)
(* tree that `verify-patches` applies a series to and puts back, and that  *)
(* `verify-config` patches in place, configures and puts back.  Either may *)
(* be killed in the middle of a `git am`; the next gate that finds the     *)
(* tree restores it.  `clean --verify-trees` may take the tree away.       *)
(*                                                                         *)
(* A head is the set of patches applied on top of the pinned commit.       *)
(***************************************************************************)
EXTENDS Naturals, FiniteSets

CONSTANTS
    Gates,      \* verify processes
    SeriesLen,  \* patches in the series
    MaxGates    \* bound: gate runs in a behaviour

ASSUME VerifyAssumption ==
    SeriesLen \in Nat /\ MaxGates \in Nat

VARIABLES
    bad,        \* the patches of the series that do not apply to the pinned commit
    vtree,      \* the cached checkout: there, its head, an unfinished am, untracked files
    gpc,        \* gpc[g]: where g is
    gkind,      \* which gate it runs: "patches" stops, "survey" keeps going, "config"
    gnext,      \* the next patch to apply
    gstart,     \* the head verify_tree saw when it started
    gfails,     \* the failures it has collected
    gsaw,       \* the head the kconfig run read
    gates,      \* runs so far
    shared      \* history: two gates, or a gate and a clean, have been at work at once

verifyVars == <<bad, vtree, gpc, gkind, gnext, gstart, gfails, gsaw, gates, shared>>

Series == 1..SeriesLen
NoCheckout == [there |-> FALSE, head |-> {}, am |-> FALSE, junk |-> FALSE]
AtPin == [NoCheckout EXCEPT !.there = TRUE]
GateOver == {"idle", "passed", "failed", "refused", "lost"}

VerifyTypeOK ==
    /\ bad \subseteq Series
    /\ vtree \in [there: BOOLEAN, head: SUBSET Series, am: BOOLEAN, junk: BOOLEAN]
    /\ gpc \in [Gates -> GateOver \cup {"ensure", "publish", "reset", "untracked", "check",
                                        "reset base", "am", "restore", "kconfig", "put back"}]
    /\ gkind \in [Gates -> {"patches", "survey", "config"}]
    /\ gnext \in [Gates -> 1..(SeriesLen + 1)]
    /\ gstart \in [Gates -> SUBSET Series] /\ gfails \in [Gates -> SUBSET Series]
    /\ gsaw \in [Gates -> SUBSET Series]
    /\ gates \in 0..MaxGates /\ shared \in BOOLEAN

VerifyInit ==
    /\ bad \in SUBSET Series
    /\ vtree = NoCheckout
    /\ gpc = [g \in Gates |-> "idle"] /\ gkind = [g \in Gates |-> "patches"]
    /\ gnext = [g \in Gates |-> 1]
    /\ gstart = [g \in Gates |-> {}] /\ gfails = [g \in Gates |-> {}]
    /\ gsaw = [g \in Gates |-> {}]
    /\ gates = 0 /\ shared = FALSE

GateAt(g, label) == gpc' = [gpc EXCEPT ![g] = label]

\* Mutant: is_clean asks `git status` alone.
IsCleanByStatus(t) == ~t.junk

\* is_clean: nothing modified or untracked, and no am in progress.
IsClean(t) == ~t.junk /\ ~t.am

StartGate(g, k) ==
    /\ gpc[g] \in GateOver /\ gates < MaxGates
    /\ gates' = gates + 1
    /\ shared' = (shared \/ \E q \in Gates \ {g} : gpc[q] \notin GateOver)
    /\ gkind' = [gkind EXCEPT ![g] = k]
    /\ gnext' = [gnext EXCEPT ![g] = 1]
    /\ gstart' = [gstart EXCEPT ![g] = {}] /\ gfails' = [gfails EXCEPT ![g] = {}]
    /\ gsaw' = [gsaw EXCEPT ![g] = {}]
    /\ GateAt(g, "ensure")
    /\ UNCHANGED <<bad, vtree>>

\* After the tree is had, a config gate resets it to the pin; verify_tree checks it.
Ready(g) == IF gkind[g] = "config" THEN "reset base" ELSE "check"

\* ensure_tree: a hit is restored unless it is clean and at the pin, a miss is cloned.
EnsureTree(g) ==
    /\ gpc[g] = "ensure"
    /\ GateAt(g, IF ~vtree.there THEN "publish"
                 ELSE IF IsClean(vtree) /\ vtree.head = {} THEN Ready(g) ELSE "reset")
    /\ UNCHANGED <<bad, vtree, gkind, gnext, gstart, gfails, gsaw, gates, shared>>

\* fetch_commit into a staging directory, then the rename; a tree that has appeared in the
\* meantime makes the rename fail.
PublishCheckout(g) ==
    /\ gpc[g] = "publish"
    /\ \/ ~vtree.there /\ vtree' = AtPin /\ GateAt(g, Ready(g))
       \/ GateAt(g, "failed") /\ UNCHANGED vtree
    /\ UNCHANGED <<bad, gkind, gnext, gstart, gfails, gsaw, gates, shared>>

\* Mutant: the interrupted am is not aborted.
ResetToLeavesAm(t, head) == [t EXCEPT !.head = head]

\* am_abort, then reset --hard.
ResetTo(t, head) == [t EXCEPT !.head = head, !.am = FALSE]

\* restore_cache_tree: abort and reset, then remove what is untracked.
ResetCheckout(g) ==
    /\ gpc[g] = "reset"
    /\ \/ vtree.there /\ vtree' = ResetTo(vtree, {}) /\ GateAt(g, "untracked")
       \/ ~vtree.there /\ GateAt(g, "failed") /\ UNCHANGED vtree
    /\ UNCHANGED <<bad, gkind, gnext, gstart, gfails, gsaw, gates, shared>>

CleanUntracked(g) ==
    /\ gpc[g] = "untracked"
    /\ LET cleaned == [vtree EXCEPT !.junk = FALSE]
       IN \/ vtree.there /\ vtree' = cleaned
             /\ GateAt(g, IF IsClean(cleaned) THEN Ready(g) ELSE "refused")
          \/ ~vtree.there /\ GateAt(g, "failed") /\ UNCHANGED vtree
    /\ UNCHANGED <<bad, gkind, gnext, gstart, gfails, gsaw, gates, shared>>

\* apply_kernel_series, before apply_tree.
ResetBase(g) ==
    /\ gpc[g] = "reset base"
    /\ \/ vtree.there /\ vtree' = ResetTo(vtree, {}) /\ GateAt(g, "check")
       \/ ~vtree.there /\ GateAt(g, "failed") /\ UNCHANGED vtree
    /\ UNCHANGED <<bad, gkind, gnext, gstart, gfails, gsaw, gates, shared>>

\* verify_tree and apply_tree refuse a dirty tree.
CheckTree(g) ==
    /\ gpc[g] = "check"
    /\ \/ /\ vtree.there /\ IsClean(vtree)
          /\ gstart' = [gstart EXCEPT ![g] = vtree.head]
          /\ GateAt(g, "am")
       \/ /\ vtree.there /\ ~IsClean(vtree)
          /\ GateAt(g, "refused")
          /\ UNCHANGED gstart
       \/ ~vtree.there /\ GateAt(g, "failed") /\ UNCHANGED gstart
    /\ UNCHANGED <<bad, vtree, gkind, gnext, gfails, gsaw, gates, shared>>

\* One round of apply_series.  `git am` refuses to start over an unfinished one; a patch
\* whose change is already there does not apply either.  A failed am is aborted, and the
\* series stops or goes on.
ApplyPatch(g) ==
    /\ gpc[g] = "am" /\ gnext[g] <= SeriesLen
    /\ LET i == gnext[g]
           fits == vtree.there /\ ~vtree.am /\ i \notin bad \cup vtree.head
       IN \/ /\ fits
             /\ vtree' = [vtree EXCEPT !.head = @ \cup {i}]
             /\ gnext' = [gnext EXCEPT ![g] = i + 1]
             /\ UNCHANGED <<gpc, gfails>>
          \/ /\ ~fits
             /\ vtree' = [vtree EXCEPT !.am = FALSE]
             /\ gfails' = [gfails EXCEPT ![g] = @ \cup {i}]
             /\ gnext' = [gnext EXCEPT ![g] = i + 1]
             /\ \/ gkind[g] = "survey" /\ UNCHANGED gpc
                \/ gkind[g] = "patches" /\ GateAt(g, "restore")
                \/ gkind[g] = "config" /\ GateAt(g, "failed")
    /\ UNCHANGED <<bad, gkind, gstart, gsaw, gates, shared>>

SeriesApplied(g) ==
    /\ gpc[g] = "am" /\ gnext[g] > SeriesLen
    /\ GateAt(g, IF gkind[g] = "config" THEN "kconfig" ELSE "restore")
    /\ UNCHANGED <<bad, vtree, gkind, gnext, gstart, gfails, gsaw, gates, shared>>

\* The verify restores the commit it started at, whatever the outcome.
RestoreStart(g) ==
    /\ gpc[g] = "restore"
    /\ vtree' = IF vtree.there THEN [vtree EXCEPT !.head = gstart[g]] ELSE vtree
    /\ GateAt(g, IF gfails[g] = {} THEN (IF vtree.there THEN "passed" ELSE "failed") ELSE "lost")
    /\ UNCHANGED <<bad, gkind, gnext, gstart, gfails, gsaw, gates, shared>>

\* The config gate reads the patched tree; the root it needs may also fail to stand up,
\* which leaves the tree patched.
RunKconfig(g) ==
    /\ gpc[g] = "kconfig"
    /\ \/ gsaw' = [gsaw EXCEPT ![g] = vtree.head] /\ GateAt(g, "put back")
       \/ GateAt(g, "failed") /\ UNCHANGED gsaw
    /\ UNCHANGED <<bad, vtree, gkind, gnext, gstart, gfails, gates, shared>>

\* restore_tree, its result ignored.
PutBack(g) ==
    /\ gpc[g] = "put back"
    /\ vtree' = IF vtree.there THEN [vtree EXCEPT !.head = {}] ELSE vtree
    /\ GateAt(g, "passed")
    /\ UNCHANGED <<bad, gkind, gnext, gstart, gfails, gsaw, gates, shared>>

\* A kill in the middle of an am leaves its state directory and untracked files.
KillGate(g) ==
    /\ gpc[g] \notin GateOver
    /\ GateAt(g, "idle")
    /\ IF gpc[g] = "am" /\ vtree.there
         THEN \E junk \in BOOLEAN : vtree' = [vtree EXCEPT !.am = TRUE, !.junk = junk]
         ELSE UNCHANGED vtree
    /\ UNCHANGED <<bad, gkind, gnext, gstart, gfails, gsaw, gates, shared>>

\* clean --verify-trees, when no lock pins the commit.
CleanCheckouts ==
    /\ vtree.there
    /\ vtree' = NoCheckout
    /\ shared' = (shared \/ \E g \in Gates : gpc[g] \notin GateOver)
    /\ UNCHANGED <<bad, gpc, gkind, gnext, gstart, gfails, gsaw, gates>>

VerifyNext ==
    \/ \E g \in Gates :
          \/ \E k \in {"patches", "survey", "config"} : StartGate(g, k)
          \/ EnsureTree(g) \/ PublishCheckout(g) \/ ResetCheckout(g) \/ CleanUntracked(g)
          \/ ResetBase(g) \/ CheckTree(g) \/ ApplyPatch(g) \/ SeriesApplied(g)
          \/ RestoreStart(g) \/ RunKconfig(g) \/ PutBack(g) \/ KillGate(g)
    \/ CleanCheckouts

VerifySpec == VerifyInit /\ [][VerifyNext]_verifyVars
-----------------------------------------------------------------------------
\* The first failing patch is the whole report of a gate that stops; a survey names all.
Expected(g) ==
    IF gkind[g] = "survey" \/ bad = {} THEN bad
    ELSE {CHOOSE i \in bad : \A j \in bad : i <= j}

\* A verdict is about the series and the pinned commit, not about what a killed run left:
\* gates that run one at a time blame exactly the patches that do not apply, a config gate
\* configures the fully patched tree, and none is refused for a dirty tree ("That wreckage
\* would otherwise make every later gate against that commit fail").
VerdictIsOfThePin ==
    \A g \in Gates : ~shared =>
        /\ gpc[g] \in {"passed", "lost"} /\ gkind[g] # "config" => gfails[g] = Expected(g)
        /\ gpc[g] = "put back" => gsaw[g] = Series
        /\ gpc[g] # "refused"
=============================================================================
