------------------------------- MODULE Config -------------------------------
(***************************************************************************)
(* The config tree and the survey of what a change to it reaches           *)
(* (core/src/loader.rs, affected.rs; cli/src/config.rs,                    *)
(* commands/affected.rs).  A shipped root and an overlay hold the same     *)
(* relative paths: a path is a root and a sequence of names, a file an     *)
(* optional content; a layer file is a table whose keys are optional values.  The   *)
(* build point is the one recipe's.                                        *)
(***************************************************************************)
EXTENDS Integers, FiniteSets, SequencesExt

CONSTANTS
    Boards,     \* the device layers
    DistroNames,    \* the distribution layers
    Rels,       \* the relative paths the tree may hold a file at
    Holds,      \* Holds[rel]: the contents a file there may have
    Revisions,  \* the trees a change may start from
    MaxEdits    \* how many edits a change makes

VARIABLES
    rev,       \* the tree at the revision that is compared against
    config,    \* the working tree
    edits,     \* edits made so far
    survey     \* what the last survey said of the point

configVars == <<rev, config, edits, survey>>

\* with_overlays: the search path, low to high.
SearchPath == <<"shipped", "overlay">>
Roots == {"shipped", "overlay"}
Paths == Roots \X Rels

Toml(n) == <<n, "toml">>
RecipeFile(ending) == <<"recipes", "recipe", ending>>

\* A board's file may name the board it extends, a recipe's its device and features; what a
\* distribution's keyring key holds is one name, where the file has it.
ASSUME ConfigAssumption ==
    /\ IsFiniteSet(Boards) /\ IsFiniteSet(DistroNames) /\ MaxEdits \in Nat
    /\ \A t \in Revisions : DOMAIN t = Paths /\ \A p \in Paths : t[p] \in Holds[p[2]]
    /\ \A rel \in Rels : \A c \in Holds[rel] :
          /\ c # <<>> /\ rel = RecipeFile("toml") =>
                 {"device", "features"} \subseteq DOMAIN c[1] /\ c[1]["device"] \in Seq(Boards)
          /\ c # <<>> /\ (\E d \in Boards : rel = Toml(d)) =>
                 "extends" \in DOMAIN c[1] /\ c[1]["extends"] \in Seq(Boards)
          /\ c # <<>> /\ (\E n \in DistroNames : rel = Toml(n)) =>
                 "keyring" \in DOMAIN c[1] /\ (c[1]["keyring"] = <<>> \/ DOMAIN c[1]["keyring"] = {1})

FileAt(t, p) == IF p \in DOMAIN t THEN t[p] ELSE <<>>
At(t, r, rel) == FileAt(t, <<r, rel>>)
Either(a, b) == IF a # <<>> THEN a ELSE b
Joined(ss) == FlattenSeq(ss)
FirstOfEach(s) ==
    FoldLeft(LAMBDA acc, x : IF \E i \in DOMAIN acc : acc[i] = x THEN acc ELSE Append(acc, x), <<>>, s)
-----------------------------------------------------------------------------
(* Lookups. *)

\* merge_value, load, merge_toml: every root's copy, key by key, the overlay's winning.
MergeValue(t, rel) ==
    LET under == At(t, "shipped", rel)
        over == At(t, "overlay", rel) IN
    IF under = <<>> \/ over = <<>> THEN Either(over, under)
    ELSE <<[k \in DOMAIN under[1] |-> Either(over[1][k], under[1][k])]>>

Load(t, n) == MergeValue(t, Toml(n))
Key(t, n, k) == Load(t, n)[1][k]
RecipeOf(t) == MergeValue(t, RecipeFile("toml"))
RecipeKey(t, k) == RecipeOf(t)[1][k]

\* find_asset: the highest copy.  find_asset_all: every copy, low to high.
FindAsset(t, rel) == Either(At(t, "overlay", rel), At(t, "shipped", rel))
FindAssetAll(t, rel) == At(t, "shipped", rel) \o At(t, "overlay", rel)

\* find_trust_anchor: an overlay that ships one is refused.
TrustAnchorRefused(t, rel) == At(t, "overlay", rel) # <<>>

\* owning_root, lock_path, lock_sibling: beside the recipe.
OwningRoot(t) == IF At(t, "overlay", RecipeFile("toml")) # <<>> THEN "overlay" ELSE "shipped"
LockPath(t) == <<OwningRoot(t), RecipeFile("lock")>>
LockSibling(t) == <<OwningRoot(t), RecipeFile("pkgs")>>
LockOf(t) == FileAt(t, LockPath(t))

\* lock_files: a lock in any root names the point.
LockListed(t) == \E r \in Roots : At(t, r, RecipeFile("lock")) # <<>>

\* device_with_lineage: up the extends chain, base-most first; one name too many is a cycle.
Lineage(t) ==
    LET parent(d) == IF Load(t, d) = <<>> THEN <<>> ELSE Key(t, d, "extends")
        up[n \in 0..Cardinality(Boards)] ==
            IF n = 0 THEN RecipeKey(t, "device")
            ELSE IF up[n - 1] = <<>> THEN <<>> ELSE parent(Head(up[n - 1])) \o up[n - 1] IN
    up[Cardinality(Boards)]

LineageLoads(t) ==
    /\ Lineage(t) # <<>>
    /\ \A i, j \in DOMAIN Lineage(t) : Lineage(t)[i] = Lineage(t)[j] => i = j
    /\ \A i \in DOMAIN Lineage(t) : Load(t, Lineage(t)[i]) # <<>>

\* merge_toml down the lineage: a key a variant sets replaces its parent's.
LastSet(values) == FoldLeft(LAMBDA acc, v : Either(v, acc), <<>>, values)
Device(t, k) == LastSet([i \in DOMAIN Lineage(t) |-> Key(t, Lineage(t)[i], k)])

\* accumulated_arrays: a key that describes the board gathers its parents'.
Accumulated(t, k) ==
    LET line == Lineage(t) IN
    FirstOfEach(Joined([i \in DOMAIN line |-> Joined(Key(t, line[i], k))]))

\* distro_for_suite: every layer is read, and one serves the suite.
Serving(t) ==
    {n \in DistroNames : Load(t, n) # <<>> /\ ToSet(Device(t, "suite")) \cap Key(t, n, "suites")[1] # {}}
DistroOfSuite(t) == CHOOSE n \in Serving(t) : TRUE
-----------------------------------------------------------------------------
(* A build of the point, as far as the tree decides it. *)

FeaturesOf(t) == Joined(RecipeKey(t, "features"))
FragmentsOf(t) ==
    Joined(Key(t, "kernel", "fragments")) \o Joined(Device(t, "fragments"))
        \o Joined([i \in DOMAIN FeaturesOf(t) |-> Joined(Key(t, FeaturesOf(t)[i], "fragments"))])
KeyringsOf(t) ==
    Joined([i \in DOMAIN FeaturesOf(t) |-> Joined(Key(t, FeaturesOf(t)[i], "keyrings"))])

Fragment(f) == <<f, "config">>
Keyring(k) == <<"blobs", "keyrings", k>>
BlobsDir == <<"blobs", "soc">>
OverlayDir(n) == <<n, "overlay">>
InDir(d) == Append(d, "file")

\* overlay_dirs: base, silicon, the lineage's boards, then each feature.
OverlayDirs(t) ==
    LET layers == <<"base", "soc">> \o Lineage(t) \o FeaturesOf(t) IN
    [i \in DOMAIN layers |-> OverlayDir(layers[i])]

\* The recipe and everything it names load, every distribution layer has the keys it must
\* have, and preflight_config finds the files.
LayersResolve(t) ==
    /\ RecipeOf(t) # <<>>
    /\ LineageLoads(t)
    /\ \A n \in {"soc", "kernel", "base"} : Load(t, n) # <<>>
    /\ \A i \in DOMAIN FeaturesOf(t) : Load(t, FeaturesOf(t)[i]) # <<>>
    /\ \A n \in DistroNames : Load(t, n) # <<>> => Key(t, n, "suites") # <<>> /\ Key(t, n, "keyring") # <<>>
    /\ Cardinality(Serving(t)) = 1
    /\ \A i \in DOMAIN FragmentsOf(t) : FindAsset(t, Fragment(FragmentsOf(t)[i])) # <<>>
    /\ \A i \in DOMAIN KeyringsOf(t) : FindAsset(t, Keyring(KeyringsOf(t)[i])) # <<>>

\* build_inputs succeeds: the point is locked, and its archive's keyring is the shipped one.
PointResolves(t) ==
    /\ LockOf(t) # <<>> /\ LayersResolve(t)
    /\ ~TrustAnchorRefused(t, Keyring(Key(t, DistroOfSuite(t), "keyring")[1]))

\* The committed manifest counts where the lock pins it.
Built(t) ==
    [lock |-> LockOf(t),
     manifest |-> IF LockOf(t)[1].pinned THEN FileAt(t, LockSibling(t)) ELSE <<>>,
     lineage |-> Lineage(t), features |-> FeaturesOf(t),
     soc |-> Load(t, "soc"), base |-> Load(t, "base"),
     packages |-> Accumulated(t, "packages"),
     distro |-> <<DistroOfSuite(t), Load(t, DistroOfSuite(t))>>,
     anchor |-> FindAsset(t, Keyring(Key(t, DistroOfSuite(t), "keyring")[1])),
     blobs |-> FindAsset(t, InDir(BlobsDir)),
     fragments |-> [i \in DOMAIN FragmentsOf(t) |-> FindAsset(t, Fragment(FragmentsOf(t)[i]))],
     keyrings |-> [i \in DOMAIN KeyringsOf(t) |-> FindAsset(t, Keyring(KeyringsOf(t)[i]))],
     files |-> [i \in DOMAIN OverlayDirs(t) |-> FindAssetAll(t, InDir(OverlayDirs(t)[i]))]]
-----------------------------------------------------------------------------
(* record_probes: every candidate a lookup tries, there or not. *)

ProbedWhereFound(t, rel) == {<<r, rel>> : r \in {q \in Roots : \E p \in DOMAIN t : t[p] # <<>> /\ p[1] = q /\ IsPrefix(rel, p[2])}}
Probed(t, rel) == {<<r, rel>> : r \in Roots}

\* build_inputs: the lookups a build makes, a directory standing for what is under it.
InputLayers(t) == {"soc", "kernel", "base", DistroOfSuite(t)} \cup ToSet(Lineage(t)) \cup ToSet(FeaturesOf(t))
InputFiles(t) ==
    {RecipeFile("toml"), BlobsDir} \cup {Toml(n) : n \in InputLayers(t)} \cup ToSet(OverlayDirs(t))
        \cup {Fragment(f) : f \in ToSet(FragmentsOf(t))}
        \cup {Keyring(k) : k \in ToSet(KeyringsOf(t)) \cup ToSet(Key(t, DistroOfSuite(t), "keyring"))}
BuildInputs(t) ==
    (UNION {Probed(t, rel) : rel \in InputFiles(t)})
        \cup {LockPath(t)} \cup (IF LockOf(t)[1].pinned THEN {LockSibling(t)} ELSE {})

\* toml_equivalent: the shipped recipe's claim about its build is no input to it.
Equivalent(p, a, b) ==
    \/ a = b
    \/ /\ p = <<"shipped", RecipeFile("toml")>> /\ a # <<>> /\ b # <<>>
       /\ \A k \in DOMAIN a[1] \ {"support"} : a[1][k] = b[1][k]

\* changes_since
Changes == {p \in Paths : ~Equivalent(p, rev[p], config[p])}

\* reaches, touched: an input itself, or a path under one.
Reaches(inputs, p) == \E n \in DOMAIN p[2] : <<p[1], SubSeq(p[2], 1, n)>> \in inputs
Touched == {p \in Changes : Reaches(BuildInputs(config), p)}
-----------------------------------------------------------------------------
ConfigInit == rev \in Revisions /\ config = rev /\ edits = 0 /\ survey = "none"

\* Somebody edits, adds or removes a file, of either root.
EditFile ==
    /\ survey = "none" /\ edits < MaxEdits
    /\ \E p \in Paths : \E c \in Holds[p[2]] \ {config[p]} :
          config' = [config EXCEPT ![p] = c]
    /\ edits' = edits + 1
    /\ UNCHANGED <<rev, survey>>

\* update: a fresh lock beside the recipe, for a point that resolves.
UpdateLock ==
    /\ survey = "none" /\ edits < MaxEdits
    /\ LayersResolve(config)
    /\ \E c \in Holds[RecipeFile("lock")] \ {<<>>} : config' = [config EXCEPT ![LockPath(config)] = c]
    /\ edits' = edits + 1
    /\ UNCHANGED <<rev, survey>>

\* run_since: every point with a lock; one that does not resolve is named, not judged.
Affected ==
    /\ survey = "none" /\ LockListed(config)
    /\ survey' = IF ~PointResolves(config) THEN "skipped"
                 ELSE IF Touched = {} THEN "unaffected" ELSE "affected"
    /\ UNCHANGED <<rev, config, edits>>

\* run_claims: a recipe whose claim is validated, against the commit the claim names.
Claims ==
    /\ survey = "none" /\ RecipeOf(config) # <<>>
    /\ RecipeKey(config, "support") = <<"validated">>
    /\ survey' = IF ~PointResolves(config) THEN "unknown"
                 ELSE IF Touched = {} THEN "holds" ELSE "moved"
    /\ UNCHANGED <<rev, config, edits>>

ConfigNext == EditFile \/ UpdateLock \/ Affected \/ Claims

ConfigSpec == ConfigInit /\ [][ConfigNext]_configVars

ConfigTypeOK ==
    /\ DOMAIN config = Paths /\ edits \in 0..MaxEdits
    /\ \A p \in Paths : config[p] \in Holds[p[2]]
    /\ survey \in {"none", "skipped", "unaffected", "affected", "unknown", "holds", "moved"}

\* A point a survey clears, whose inputs it read off the working tree alone, built at the
\* revision what it builds now: no edit, removal or shadowing of a file slips past it.
UnaffectedBuildsTheSame ==
    survey \in {"unaffected", "holds"} /\ PointResolves(rev) => Built(rev) = Built(config)
=============================================================================
