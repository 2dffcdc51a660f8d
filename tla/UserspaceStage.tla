--------------------------- MODULE UserspaceStage ---------------------------
(***************************************************************************)
(* The userspace stage (engine/src/build/userspace.rs): one recipe's work  *)
(* directory holds, per package, a fetched tree and the .debs its last     *)
(* compile or restore left in the shared stage directory.  A run decides   *)
(* up front which packages the artifact store can serve, acquires a build  *)
(* root only if one is missing, restores or compiles each package in       *)
(* order, stores what it compiled, and collects the .debs for the image.   *)
(*                                                                         *)
(* The store is seen through what ArtifactStore guarantees: an entry is    *)
(* whole until a clean begins to remove it.  A tree is seen through        *)
(* SourceTree: present with a stamp, or absent; what a kill leaves of a    *)
(* refresh under an older stamp is no tree while pins only move forward.   *)
(* A compile writes each .deb under its final name: one that fails or is   *)
(* killed may leave any of them cut short there.                           *)
(***************************************************************************)
EXTENDS Naturals

CONSTANTS
    N,           \* packages 1..N, in the order of the SoC's userspace trees
    Parts,       \* the binary packages each builds: its .deb name prefixes
    Pins,        \* locked commits, in the order the history reaches them
    Envs,        \* sandbox identities (suite, archive, interpreter)
    None,        \* no tree
    Torn,        \* the build environment of a .deb whose copy was cut short
    Cut,         \* that of a .deb dpkg-deb had not finished
    Reverts,     \* may an edit return to an earlier pin?
    StoreModes,  \* {TRUE}, or with FALSE also runs under --no-artifact-cache
    Faults       \* what happens to a run: "error", "kill", a concurrent "clean"

Pkgs == 1..N

UserspaceAssumption ==
    /\ N \in Nat \ {0}
    /\ Pins \subseteq Nat /\ Pins # {} /\ None \notin Pins
    /\ Envs # {} /\ Torn \notin Envs /\ Cut \notin Envs /\ Torn # Cut
    /\ Parts # {}
    /\ Reverts \in BOOLEAN
    /\ StoreModes \subseteq BOOLEAN /\ TRUE \in StoreModes
    /\ Faults \subseteq {"error", "kill", "clean"}

VARIABLES
    want,    \* the pins of the lock and the sandbox identity, as edited
    asked,   \* the same, as the run read them at its start
    store,   \* store[k]: the entry of one output signature
    tree,    \* tree[i]: the pin package i's stamped tree was fetched for
    stage,   \* stage[i]: the .debs of package i in the stage directory
    out,     \* the .debs in the output directory
    pc,      \* where the run is
    pkg,     \* the package under way
    cached,  \* the packages the store had an entry for at the start
    rooted,  \* the build root was acquired
    storing, \* the run uses the artifact store
    dead     \* the entries a running clean still has to remove

vars == <<want, asked, store, tree, stage, out, pc, pkg, cached, rooted, storing, dead>>
runVars == <<asked, tree, stage, out, pc, pkg, cached, rooted, storing>>

Wants == [pin: [Pkgs -> Pins], env: Envs]

\* An output signature: package_output_manifest folds the tree signature (the
\* pin) and what the sandbox is.
Keys == [pkg: Pkgs, pin: Pins, env: Envs]
KeyOf(w, i) == [pkg |-> i, pin |-> w.pin[i], env |-> w.env]

\* A .deb: its name is package, part and version; `env` is what built its bytes.
Debs == [pkg: Pkgs, part: Parts, pin: Pins, env: Envs \cup {Torn, Cut}]
DebsOf(k) == {[pkg |-> k.pkg, part |-> x, pin |-> k.pin, env |-> k.env] : x \in Parts}

\* "holed": the manifest stands and a file is gone; "headless": the reverse.
Entries == [state: {"absent", "whole", "holed", "headless"}, debs: SUBSET Debs]
NoEntry == [state |-> "absent", debs |-> {}]

TypeOK ==
    /\ want \in Wants /\ asked \in Wants
    /\ store \in [Keys -> Entries]
    /\ tree \in [Pkgs -> Pins \cup {None}]
    /\ stage \in [Pkgs -> SUBSET Debs]
    /\ out \in SUBSET Debs
    /\ pc \in {"idle", "next", "restore", "build", "refresh", "compile", "put", "collect",
               "done", "failed", "panicked"}
    /\ pkg \in 1..(N + 1)
    /\ cached \in SUBSET Pkgs
    /\ rooted \in BOOLEAN /\ storing \in BOOLEAN
    /\ dead \in SUBSET Keys

Init ==
    /\ want \in {w \in Wants : \A p \in Pins, i \in Pkgs : w.pin[i] <= p}
    /\ asked = want
    /\ store = [k \in Keys |-> NoEntry]
    /\ tree = [i \in Pkgs |-> None]
    /\ stage = [i \in Pkgs |-> {}]
    /\ out = {}
    /\ pc = "idle"
    /\ pkg = 1
    /\ cached = {}
    /\ rooted = FALSE
    /\ storing = TRUE
    /\ dead = {}

Has(k) == store[k].state \in {"whole", "holed"}

Current == KeyOf(asked, pkg)

(***************************************************************************)
(* The world around a run.                                                 *)
(***************************************************************************)
\* An `update`, a config edit, a new host interpreter or mirror snapshot.
Edit(w) ==
    /\ w # want
    /\ Reverts \/ \A i \in Pkgs : w.pin[i] >= want.pin[i]
    /\ want' = w
    /\ UNCHANGED <<runVars, store, dead>>

\* Another recipe, in a work directory of its own, publishes an entry.
OtherRecipe(k) ==
    /\ store[k].state = "absent"
    /\ store' = [store EXCEPT ![k] = [state |-> "whole", debs |-> DebsOf(k)]]
    /\ UNCHANGED <<want, runVars, dead>>

\* `clean --artifacts`: the dead keys are settled first, then removed file by file.
CleanStart ==
    /\ "clean" \in Faults /\ dead = {}
    /\ dead' = {k \in Keys : /\ store[k].state # "absent"
                             /\ ~Has(k) \/ \A i \in Pkgs : k # KeyOf(want, i)}
    /\ dead' # {}
    /\ UNCHANGED <<want, runVars, store>>

CleanDamage(k, s) ==
    /\ k \in dead /\ store[k].state = "whole"
    /\ store' = [store EXCEPT ![k].state = s]
    /\ UNCHANGED <<want, runVars, dead>>

CleanRemove(k) ==
    /\ k \in dead
    /\ store' = [store EXCEPT ![k] = NoEntry]
    /\ dead' = dead \ {k}
    /\ UNCHANGED <<want, runVars>>

CleanAbort ==
    /\ dead # {}
    /\ dead' = {}
    /\ UNCHANGED <<want, runVars, store>>

(***************************************************************************)
(* build_userspace                                                         *)
(***************************************************************************)
\* Mutant: one cached package is enough to skip the sandbox.
BeginAnyCached(use) ==
    /\ pc = "idle"
    /\ asked' = want
    /\ storing' = use
    /\ cached' = {i \in Pkgs : use /\ Has(KeyOf(want, i))}
    /\ rooted' = (cached' = {})
    /\ pkg' = 1
    /\ pc' = "next"
    /\ UNCHANGED <<want, store, tree, stage, out, dead>>

\* The store is asked about every package, and the answer decides whether this
\* run enters the sandbox at all.
Begin(use) ==
    /\ pc = "idle"
    /\ asked' = want
    /\ storing' = use
    /\ cached' = {i \in Pkgs : use /\ Has(KeyOf(want, i))}
    /\ rooted' = (cached' # Pkgs)
    /\ pkg' = 1
    /\ pc' = "next"
    /\ UNCHANGED <<want, store, tree, stage, out, dead>>

\* Mutant: the restore lands beside whatever the stage directory already holds.
TakeUpKeepsStale ==
    /\ pc = "next"
    /\ IF pkg > N
         THEN pc' = "collect" /\ UNCHANGED stage
         ELSE IF pkg \in cached
           THEN pc' = "restore" /\ UNCHANGED stage
           ELSE pc' = "build" /\ UNCHANGED stage
    /\ UNCHANGED <<want, asked, store, tree, out, pkg, cached, rooted, storing, dead>>

\* A package the store had is swept from the stage directory and restored.
TakeUp ==
    /\ pc = "next"
    /\ IF pkg > N
         THEN pc' = "collect" /\ UNCHANGED stage
         ELSE IF pkg \in cached
           THEN pc' = "restore" /\ stage' = [stage EXCEPT ![pkg] = {}]
           ELSE pc' = "build" /\ UNCHANGED stage
    /\ UNCHANGED <<want, asked, store, tree, out, pkg, cached, rooted, storing, dead>>

\* Mutant: the restored package is counted twice.
RestoreSkipsAhead ==
    /\ pc = "restore"
    /\ IF store[Current].state = "whole"
         THEN /\ stage' = [stage EXCEPT ![pkg] = @ \cup store[Current].debs]
              /\ pkg' = pkg + 2
              /\ pc' = "next"
         ELSE pc' = "build" /\ UNCHANGED <<stage, pkg>>
    /\ UNCHANGED <<want, asked, store, tree, out, cached, rooted, storing, dead>>

\* An entry that is no longer whole is a miss, and the package is compiled.
Restore ==
    /\ pc = "restore"
    /\ IF store[Current].state = "whole"
         THEN /\ stage' = [stage EXCEPT ![pkg] = @ \cup store[Current].debs]
              /\ pkg' = pkg + 1
              /\ pc' = "next"
         ELSE pc' = "build" /\ UNCHANGED <<stage, pkg>>
    /\ UNCHANGED <<want, asked, store, tree, out, cached, rooted, storing, dead>>

\* A file that goes between restore's check and its copy fails the stage, with
\* the .debs copied so far in place.
RestoreCut(got) ==
    /\ pc = "restore" /\ Current \in dead
    /\ got \subseteq store[Current].debs /\ got # store[Current].debs
    /\ stage' = [stage EXCEPT ![pkg] = @ \cup got]
    /\ pc' = "failed"
    /\ UNCHANGED <<want, asked, store, tree, out, pkg, cached, rooted, storing, dead>>

\* Mutant: the resume check asks for one of the package's .debs, not for all.
PackageStagedAny(i) == stage[i] # {}

\* Every part has a .deb by that prefix, of whatever version.
PackageStaged(i) == \A x \in Parts : \E d \in stage[i] : d.part = x

\* build_one: a compile needs the root; a fresh tree with every .deb staged is
\* "already built", otherwise the tree passes the Tier-1 gate.
BuildOne ==
    /\ pc = "build"
    /\ pc' = IF ~rooted THEN "panicked"
             ELSE IF tree[pkg] = asked.pin[pkg] /\ PackageStaged(pkg) THEN "put"
             ELSE IF tree[pkg] = asked.pin[pkg] THEN "compile"
             ELSE "refresh"
    /\ UNCHANGED <<want, asked, store, tree, stage, out, pkg, cached, rooted, storing, dead>>

\* Mutant: the stale tree is left, and the refresh waits for it to go.
RemoveTreeLeaves ==
    /\ pc = "refresh" /\ tree[pkg] # None
    /\ UNCHANGED vars

\* The stale tree goes before anything else is done.
RemoveTree ==
    /\ pc = "refresh" /\ tree[pkg] # None
    /\ tree' = [tree EXCEPT ![pkg] = None]
    /\ UNCHANGED <<want, asked, store, stage, out, pc, pkg, cached, rooted, storing, dead>>

\* Mutant: the refresh leaves the .debs of the tree it replaces.
RefreshKeepsDebs ==
    /\ pc = "refresh" /\ tree[pkg] = None
    /\ tree' = [tree EXCEPT ![pkg] = asked.pin[pkg]]
    /\ pc' = "compile"
    /\ UNCHANGED <<want, asked, store, stage, out, pkg, cached, rooted, storing, dead>>

\* Purge the package's .debs, fetch, patch, stamp.
Refresh ==
    /\ pc = "refresh" /\ tree[pkg] = None
    /\ stage' = [stage EXCEPT ![pkg] = {}]
    /\ tree' = [tree EXCEPT ![pkg] = asked.pin[pkg]]
    /\ pc' = "compile"
    /\ UNCHANGED <<want, asked, store, out, pkg, cached, rooted, storing, dead>>

\* The refresh fails after the purge: its tree is removed again.
RefreshFails ==
    /\ "error" \in Faults /\ pc = "refresh" /\ tree[pkg] = None
    /\ stage' = [stage EXCEPT ![pkg] = {}]
    /\ pc' = "failed"
    /\ UNCHANGED <<want, asked, store, tree, out, pkg, cached, rooted, storing, dead>>

SameName(d, e) == d.part = e.part /\ d.pin = e.pin

\* dpkg-buildpackage writes the package's .debs over those of the same name.
Written(i, new) == {d \in stage[i] : \A e \in new : ~SameName(d, e)} \cup new

Compile ==
    /\ pc = "compile"
    /\ stage' = [stage EXCEPT ![pkg] = Written(pkg, DebsOf(Current))]
    /\ pc' = "put"
    /\ UNCHANGED <<want, asked, store, tree, out, pkg, cached, rooted, storing, dead>>

\* A compile that fails, or is killed: some .debs are written, and what dpkg-deb was at lies
\* cut short under its final name.
CompileCut(new, cut, to) ==
    /\ pc = "compile"
    /\ \/ "error" \in Faults /\ to = "failed"
       \/ "kill" \in Faults /\ to = "idle"
    /\ new \subseteq DebsOf(Current) /\ cut \subseteq DebsOf(Current) \ new
    /\ stage' = [stage EXCEPT ![pkg] = Written(pkg, new \cup {[d EXCEPT !.env = Cut] : d \in cut})]
    /\ pc' = to
    /\ UNCHANGED <<want, asked, store, tree, out, pkg, cached, rooted, storing, dead>>

\* store_package, on a skip as much as on a compile: put keeps an entry whose
\* manifest stands, and cannot rename onto one that has lost only its manifest.
StorePackage ==
    /\ pc = "put"
    /\ IF storing /\ store[Current].state = "headless"
         THEN pc' = "failed" /\ UNCHANGED <<store, pkg>>
         ELSE /\ store' = IF storing /\ ~Has(Current)
                            THEN [store EXCEPT ![Current] = [state |-> "whole", debs |-> stage[pkg]]]
                            ELSE store
              /\ pkg' = pkg + 1
              /\ pc' = "next"
    /\ UNCHANGED <<want, asked, tree, stage, out, cached, rooted, storing, dead>>

\* Mutant: the output directory is not swept before the fresh set lands.
CollectKeepsOld ==
    /\ pc = "collect"
    /\ out' = out \cup UNION {stage[i] : i \in Pkgs}
    /\ pc' = "done"
    /\ UNCHANGED <<want, asked, store, tree, stage, pkg, cached, rooted, storing, dead>>

\* Every package's .debs in the output directory are swept, then every staged one
\* is copied in.
Collect ==
    /\ pc = "collect"
    /\ out' = UNION {stage[i] : i \in Pkgs}
    /\ pc' = "done"
    /\ UNCHANGED <<want, asked, store, tree, stage, pkg, cached, rooted, storing, dead>>

EndRun ==
    /\ pc \in {"done", "failed", "panicked"}
    /\ pc' = "idle"
    /\ UNCHANGED <<want, asked, store, tree, stage, out, pkg, cached, rooted, storing, dead>>

\* A kill between two steps leaves everything as it stands.
Kill ==
    /\ "kill" \in Faults /\ pc \notin {"idle", "done", "failed", "panicked"}
    /\ pc' = "idle"
    /\ UNCHANGED <<want, asked, store, tree, stage, out, pkg, cached, rooted, storing, dead>>

\* A kill inside the restore's copies: some are in, and one may be cut short.
KillRestoring(got, cut) ==
    /\ "kill" \in Faults /\ pc = "restore" /\ store[Current].state = "whole"
    /\ got \subseteq store[Current].debs
    /\ cut \in store[Current].debs \ got
    /\ stage' = [stage EXCEPT ![pkg] = @ \cup got \cup {[cut EXCEPT !.env = Torn]}]
    /\ pc' = "idle"
    /\ UNCHANGED <<want, asked, store, tree, out, pkg, cached, rooted, storing, dead>>

-----------------------------------------------------------------------------
Step ==
    \/ TakeUp \/ Restore \/ BuildOne \/ RemoveTree \/ Refresh \/ Compile \/ StorePackage
    \/ Collect \/ EndRun

Fails ==
    \/ RefreshFails
    \/ \E new, cut \in SUBSET DebsOf(Current), to \in {"failed", "idle"} : CompileCut(new, cut, to)
    \/ \E got \in SUBSET store[Current].debs : RestoreCut(got)
    \/ Kill
    \/ \E got \in SUBSET store[Current].debs, cut \in store[Current].debs : KillRestoring(got, cut)

World ==
    \/ \E w \in Wants : Edit(w)
    \/ \E k \in Keys : OtherRecipe(k) \/ CleanRemove(k)
                       \/ \E s \in {"holed", "headless"} : CleanDamage(k, s)
    \/ CleanStart \/ CleanAbort

Next ==
    \/ \E use \in StoreModes : Begin(use)
    \/ Step
    \/ pkg \in Pkgs /\ Fails
    \/ World

Spec == Init /\ [][Next]_vars /\ WF_vars(Step)
-----------------------------------------------------------------------------
\* Whatever an entry serves is what its signature names: the .debs of that pin,
\* built in that sandbox, all of them ("A snapshot-pinned build and a live-mirror
\* build therefore never restore each other's .debs").
StoreHonest ==
    \A k \in Keys : store[k].state = "whole" => store[k].debs = DebsOf(k)

\* A stage that succeeds hands the image exactly the .debs of the pins it read at
\* its start: none missing, none torn, none left from another pin or sandbox.
ShipsWhatItAsked ==
    pc = "done" => out = UNION {DebsOf(KeyOf(asked, i)) : i \in Pkgs}

\* A .deb for every part, each of that package and pin and built in that sandbox, or cut short
\* by dpkg-deb: the resume check asks for names and takes those for built.
MadeFor(k, debs) ==
    /\ \A d \in debs : d.pkg = k.pkg /\ d.pin = k.pin /\ d.env \in {k.env, Cut}
    /\ \A x \in Parts : \E d \in debs : d.part = x

\* Whatever is killed, fails or is cleaned: an entry of the store serves the .debs its signature
\* names, all of them and none torn by a restore, and a userspace stage that succeeds hands over
\* those of the pins it read.  What neither the entry nor the image is safe from is a .deb that
\* a compile was cut short in.
ServesMadeFor == \A k \in Keys : store[k].state = "whole" => MadeFor(k, store[k].debs)
ShipsMadeFor == pc = "done" => \A i \in Pkgs : MadeFor(KeyOf(asked, i), {d \in out : d.pkg = i})
UserspaceShipsWhatItAsked == ServesMadeFor /\ ShipsMadeFor

\* Where nothing is cut short, exactly those.
UserspaceShipsExactly == StoreHonest /\ ShipsWhatItAsked

\* "a cache miss implies the branch that acquires the build root".
NeverPanics == pc # "panicked"

\* A run that has begun comes to an end.
RunEnds == pc = "next" ~> pc \in {"done", "failed", "panicked", "idle"}
=============================================================================
