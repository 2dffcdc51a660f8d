------------------------------- MODULE Locks --------------------------------
(***************************************************************************)
(* Pins (engine/src/pins.rs, git.rs, sources.rs; core/src/lock.rs,         *)
(* repin.rs, outdated.rs, support.rs; cli commands update, outdated,       *)
(* verify-sources and the admission of build).  `update` turns what the    *)
(* layers say into a lock, in steps between which the layers, upstreams    *)
(* and the patches checkout may move; `build` accepts a lock that agrees   *)
(* with the layers.  A recipe's variant takes over the recipe's pins.      *)
(***************************************************************************)
EXTENDS LockFile, FiniteSets

CONSTANTS
    Lower,      \* Lower[sha]: a full sha, as it may be spelt, in lower case
    Text,       \* Text[name]: how a name that contains a version is spelt
    Drafts,     \* what the layers may say of the two points
    FlagSets,   \* the refs an operator may pass to update
    Upstreams,  \* what the repositories may serve
    Offers,     \* what blob, pool and SDK listings may name
    Lateness,   \* the probes that may overrun their time
    BlobDirs,   \* what the blob directory may hold
    Checkouts,  \* states of the patches checkout
    MaxTurns,   \* how often the world moves
    MaxClock    \* how many updates are made

Points == {"recipe", "variant"}

\* What resolution leaves of a build: a repository and a ref for each tree, a series and
\* where it is from for each kind of patches, a file for each blob, an id with a kernel.
IsBuild(b) ==
    /\ b.git = [a \in GitAxes |-> b.git[a]] /\ b.patches = [x \in PatchAxes |-> b.patches[x]]
    /\ \A a \in GitAxes :
          Has(b.git[a]) => b.git[a] = <<[source |-> The(b.git[a]).source, ref |-> The(b.git[a]).ref]>>
    /\ \A x \in PatchAxes :
          Has(b.patches[x]) =>
              b.patches[x] = <<[series |-> The(b.patches[x]).series, source |-> The(b.patches[x]).source,
                                ref |-> The(b.patches[x]).ref]>>
    /\ b.blobs = [k \in DOMAIN b.blobs |-> b.blobs[k]]
    /\ Has(b.git["kernel"]) => Has(b.id)
    /\ Has(b.git["packaging"]) => Has(b.git["app"])
    /\ Has(b.sdk) => DOMAIN The(b.sdk) = {"version", "sha"}

ASSUME LocksAssumption ==
    /\ MaxTurns \in Nat /\ MaxClock \in Nat \ {0}
    /\ \A d \in Drafts : \A p \in Points : IsBuild(d[p])

VARIABLES
    layers,    \* layers[p]: the build a point resolves to
    remote,    \* remote[u]: what repository u advertises, holds and serves by sha
    checkout,  \* the patches checkout, if there is one
    blobs,     \* blobs[f]: the digest of file f of the blob directory, if there
    lock,      \* lock[p]: the committed lock, with the build it was made for
    sidecar,   \* sidecar[p]: the NuGet manifest beside it
    job,       \* an update under way
    reading,   \* a build under way: what it resolved and the lock it read
    surveyed,    \* the last answer of outdated and verify-sources
    clock,     \* seconds
    turns

lockVars == <<layers, remote, checkout, blobs, lock, sidecar, job, reading, surveyed, clock, turns>>
worldVars == <<layers, remote, checkout, blobs, turns>>

-----------------------------------------------------------------------------
(* References and versions. *)

IsFullSha(r) == r \in DOMAIN Lower
NormalizeRef(r) == IF IsFullSha(r) THEN Lower[r] ELSE r

Under(refs, kind, name) == {r.sha : r \in {x \in refs : x.kind = kind /\ x.name = name}}
FirstOf(ss) == IF \E i \in DOMAIN ss : ss[i] # {}
               THEN LET i == CHOOSE i \in DOMAIN ss : ss[i] # {} /\ \A j \in 1..(i - 1) : ss[j] = {}
                    IN <<CHOOSE c \in ss[i] : TRUE>>
               ELSE <<>>

\* pick_commit: the commit of an annotated tag, a plain tag, a branch, in that order.
PickCommit(refs, name) ==
    FirstOf(<<Under(refs, "peeled", name), Under(refs, "tag", name), Under(refs, "head", name)>>)

\* resolve_ref: a full sha is taken as it is, without asking anybody.
ResolveRef(u, r) == IF IsFullSha(r) THEN <<Lower[r]>> ELSE PickCommit(remote[u].refs, r)

\* parse_tag: two or three numbers, the third 0 when left out; below a release its
\* prereleases.
IsVersion(name) == name \in DOMAIN Text /\ Len(Text[name].core) \in {2, 3}
ParseTag(name) ==
    LET t == Text[name] IN
    (IF Len(t.core) = 2 THEN Append(t.core, 0) ELSE t.core)
        \o (IF t.pre = <<>> THEN <<1>> ELSE <<0>> \o t.pre)
IsPre(name) == Text[name].pre # <<>>

\* TagShape: the namespace, the letter before the number, the libre suffix.
TagShape(name) == Text[name].shape

Above(a, b) ==
    \E i \in DOMAIN a \cap (1..(Len(b) + 1)) :
        (i > Len(b) \/ a[i] > b[i]) /\ \A j \in 1..(i - 1) : a[j] = b[j]

\* pick_ref: the flag, a commit pinned by hand, what is configured, what is locked.
PickRef(flag, locked, configured) ==
    IF Has(flag) THEN flag
    ELSE IF Has(locked) /\ (IsFullSha(The(locked)) \/ configured = <<>>) THEN locked
    ELSE configured
-----------------------------------------------------------------------------
(* update *)

\* The ref update asks each tree for; none where the build has no such tree.  The
\* kernel's comes from the flag or the lock; modules have no flag; apps follow the layers.
RefFor(a, build, prev, flags) ==
    LET locked == IF Has(prev) /\ Has(The(prev).git[a]) THEN <<The(The(prev).git[a]).ref>> ELSE <<>> IN
    IF build.git[a] = <<>> THEN <<>>
    ELSE CASE a = "kernel" -> IF Has(flags[a]) THEN flags[a] ELSE locked
           [] a = "mod" -> PickRef(<<>>, locked, <<The(build.git[a]).ref>>)
           [] a \in {"app", "packaging"} -> <<The(build.git[a]).ref>>
           [] OTHER -> PickRef(flags[a], locked, <<The(build.git[a]).ref>>)

NeedsPatches(build) == \E x \in PatchAxes : Has(build.patches[x])

\* A variant's first update starts from the recipe's lock.
PrevLock(p) == IF p = "variant" /\ lock[p] = <<>> THEN lock["recipe"] ELSE lock[p]

UpdateBegins ==
    /\ job = <<>> /\ clock < MaxClock
    /\ \E p \in Points, flags \in FlagSets :
          LET refs == [a \in GitAxes |-> RefFor(a, layers[p], PrevLock(p), flags)] IN
          /\ Has(layers[p].git["kernel"]) => Has(refs["kernel"])
          /\ NeedsPatches(layers[p]) => Has(checkout) /\ The(checkout).clean
          /\ job' = <<[point |-> p, build |-> layers[p], prev |-> PrevLock(p), refs |-> refs,
                       head |-> IF NeedsPatches(layers[p]) THEN <<The(checkout).head>> ELSE <<>>,
                       epoch |-> clock, made |-> <<>>]>>
    /\ UNCHANGED <<worldVars, lock, sidecar, reading, clock>>

\* git_pin for every tree of the build; one that does not resolve ends the update.
GitPins(build, refs) ==
    [a \in GitAxes |->
        IF build.git[a] = <<>> THEN <<>>
        ELSE LET u == The(build.git[a]).source IN
             <<GitPin(u, NormalizeRef(The(refs[a])), The(ResolveRef(u, The(refs[a]))))>>]
PatchPins(build, head) ==
    [x \in PatchAxes |->
        IF build.patches[x] = <<>> THEN <<>>
        ELSE LET from == The(build.patches[x]) IN <<PatchesPin(from.series, from.source, from.ref, The(head))>>]
\* blob_pin: the file's name with the digest of its content.
BlobPins(build) == [b \in DOMAIN build.blobs |-> BlobPin(build.blobs[b], The(blobs[build.blobs[b]]))]

RefsResolve(build, refs) ==
    \A a \in GitAxes : Has(build.git[a]) => Has(ResolveRef(The(build.git[a]).source, The(refs[a])))

\* AppNuget::for_build: only a build with an app that is compiled from packages asks the feed.
HasDotnet(git) == Has(git["app"])

\* What resolve_nuget finds for an app's trees; the feed may answer differently each time.
Manifest(git, patches, feed) ==
    [app |-> git["app"], packaging |-> git["packaging"], patches |-> patches["apppatches"], feed |-> feed]

\* resolve_lock, assemble_lock: everything is resolved, an app's NuGet manifest is written
\* beside the lock, and neither the solved manifest nor the snapshot is carried over.
ResolveLock ==
    /\ Has(job) /\ The(job).made = <<>>
    /\ LET j == The(job)
           git == GitPins(j.build, j.refs)
           patches == PatchPins(j.build, j.head) IN
       /\ RefsResolve(j.build, j.refs)
       /\ \A b \in DOMAIN j.build.blobs : Has(blobs[j.build.blobs[b]])
       /\ \E feed \in {1, 2} :
             LET nuget == IF HasDotnet(git) THEN <<Manifest(git, patches, feed)>> ELSE <<>> IN
             /\ sidecar' = IF Has(nuget) THEN [sidecar EXCEPT ![j.point] = nuget] ELSE sidecar
             /\ job' = <<[j EXCEPT !.made =
                    <<[id |-> j.build.id, git |-> git, patches |-> patches, blobs |-> BlobPins(j.build),
                       debs |-> j.build.debs, sdk |-> j.build.sdk, nuget |-> nuget,
                       distro |-> j.build.distro, suite |-> j.build.suite, epoch |-> j.epoch,
                       manifest |-> <<>>, snapshot |-> <<>>, of |-> j.build]>>]>>
    /\ UNCHANGED <<worldVars, lock, reading, clock>>

\* Mutant: the out-of-tree modules are forgotten.
AxisPinsWithoutModules(l) ==
    [git |-> [a \in GitAxes \ {"mod"} |-> IF Has(l.git[a]) THEN <<The(l.git[a]).ref, The(l.git[a]).commit>> ELSE <<>>],
     patches |-> [x \in PatchAxes |-> IF Has(l.patches[x]) THEN <<The(l.patches[x]).ref, The(l.patches[x]).commit>> ELSE <<>>],
     suite |-> l.suite, debs |-> l.debs, blobs |-> l.blobs, nuget |-> l.nuget,
     sdk |-> IF Has(l.sdk) THEN <<The(l.sdk).version>> ELSE <<>>]
\* axis_pins, pin_changes: what a report of moved pins compares.
AxisPins(l) ==
    [git |-> [a \in GitAxes |-> IF Has(l.git[a]) THEN <<The(l.git[a]).ref, The(l.git[a]).commit>> ELSE <<>>],
     patches |-> [x \in PatchAxes |-> IF Has(l.patches[x]) THEN <<The(l.patches[x]).ref, The(l.patches[x]).commit>> ELSE <<>>],
     suite |-> l.suite, debs |-> l.debs, blobs |-> l.blobs, nuget |-> l.nuget,
     sdk |-> IF Has(l.sdk) THEN <<The(l.sdk).version>> ELSE <<>>]
PinsMoved(prev, next) == AxisPins(prev) # AxisPins(next)

\* keep_source_date_epoch
Stamped(prev, next) ==
    IF Has(prev) /\ ~PinsMoved(The(prev), next) THEN [next EXCEPT !.epoch = The(prev).epoch] ELSE next

\* extra debs are at hand, and write_lock renames the lock into place.
WriteNewLock ==
    /\ Has(job) /\ Has(The(job).made)
    /\ LET j == The(job) IN
       lock' = [lock EXCEPT ![j.point] = <<Stamped(j.prev, The(j.made))>>]
    /\ job' = <<>> /\ clock' = clock + 1
    /\ UNCHANGED <<worldVars, sidecar, reading>>

\* A ref, a blob or a download is missing, the restore fails, the update is interrupted.
UpdateEndsEarly ==
    /\ Has(job)
    /\ job' = <<>> /\ clock' = clock + 1
    /\ UNCHANGED <<worldVars, lock, sidecar, reading>>
-----------------------------------------------------------------------------
(* build *)

SameSources(l, b) ==
    \A a \in GitAxes : /\ Has(l.git[a]) <=> Has(b.git[a])
                       /\ Has(l.git[a]) => The(l.git[a]).source = The(b.git[a]).source

\* app_drift: an app's refs and its patches' source are the layers' as well.
AppDrift(l, b) ==
    \/ \E a \in {"app", "packaging"} : Has(l.git[a]) /\ Has(b.git[a]) /\ The(l.git[a]).ref # NormalizeRef(The(b.git[a]).ref)
    \/ SeriesOf(l.patches["apppatches"]) # SeriesOf(b.patches["apppatches"])
    \/ /\ Has(l.patches["apppatches"]) /\ Has(b.patches["apppatches"])
       /\ The(l.patches["apppatches"]).source # The(b.patches["apppatches"]).source
    \/ l.sdk # b.sdk

\* check_lock_consistency
Consistent(l, b) ==
    /\ SameSources(l, b) /\ l.id = b.id
    /\ \A x \in PatchAxes : SeriesOf(l.patches[x]) = SeriesOf(b.patches[x])
    /\ [k \in DOMAIN l.blobs |-> l.blobs[k].file] = b.blobs
    /\ l.distro = b.distro /\ l.suite = b.suite /\ l.debs = b.debs
    /\ ~AppDrift(l, b)

\* resolve_patches_source, verify_patches_pin: the checkout, which must then be clean and
\* at the pin, or a fetch of the pinned commit.
PatchesAtHand(l) ==
    \A x \in PatchAxes : Has(l.patches[x]) =>
        IF Has(checkout) THEN The(checkout).head = The(l.patches[x]).commit /\ The(checkout).clean
        ELSE The(l.patches[x]).commit \in remote[The(l.patches[x]).source].reach

\* Mutant: the manifest that is there is taken.
SidecarThere(p, l) == Has(l.nuget) => Has(sidecar[p])
\* read_pinned_manifest
SidecarAtHand(p, l) == Has(l.nuget) => sidecar[p] = l.nuget

\* check_lock_consistency, the patches, and each app's manifest, before anything is built.
AdmitLock ==
    /\ reading = <<>>
    /\ \E p \in Points :
          /\ Has(lock[p]) /\ Consistent(The(lock[p]), layers[p])
          /\ PatchesAtHand(The(lock[p])) /\ SidecarAtHand(p, The(lock[p]))
          /\ reading' = <<[point |-> p, build |-> layers[p], lock |-> The(lock[p]), nuget |-> sidecar[p]]>>
    /\ UNCHANGED <<worldVars, lock, sidecar, job, clock>>

\* The build is over; it may write back the lock it read with the manifest it solved and
\* the moment it ended.
BuildOver ==
    /\ Has(reading)
    /\ \/ lock' = lock
       \/ \E m \in {<<>>, <<"solved">>}, s \in {<<>>, <<clock>>} :
             LET r == The(reading) IN
             /\ m # <<>> \/ s # <<>>
             /\ m = <<>> \/ Has(r.lock.suite)
             /\ lock' = [lock EXCEPT ![r.point] =
                    <<[r.lock EXCEPT !.manifest = IF m # <<>> THEN m ELSE @,
                                     !.snapshot = IF s # <<>> THEN s ELSE @]>>]
    /\ reading' = <<>>
    /\ UNCHANGED <<worldVars, sidecar, job, clock>>
-----------------------------------------------------------------------------
(* outdated and verify-sources *)

\* How a stage gets a tree.  clone_shallow, for the kernel and u-boot: by the name of a
\* branch or a tag, and what it arrives at must be the pinned commit.  fetch_commit, for
\* the others: by the sha where the server lets it, or out of the whole history.
CloneShallow(u, pin) ==
    LET refs == remote[u].refs IN
    FirstOf(<<Under(refs, "head", pin.ref), Under(refs, "peeled", pin.ref), Under(refs, "tag", pin.ref)>>) = <<pin.commit>>
FetchBySha(u, commit) == remote[u].bysha /\ commit \in remote[u].holds
FetchCommit(u, commit) == FetchBySha(u, commit) \/ commit \in remote[u].reach
Obtains(a, u, pin) == IF a \in Shallow THEN CloneShallow(u, pin) ELSE FetchCommit(u, pin.commit)

Answer(says, name, commit) == [says |-> says, name |-> name, commit |-> commit]

\* verdict: the newest of what is newer, if anything is.
Verdict(newer) ==
    IF newer = {} THEN Answer("current", <<>>, <<>>)
    ELSE LET top == CHOOSE c \in newer : \A d \in newer : ~Above(d.key, c.key)
         IN Answer("behind", <<top.name>>, top.commit)

\* compare_tag: tags spelt like the pin, prereleases only beside a prerelease.
TagsOf(refs) == {r.name : r \in {x \in refs : x.kind \in {"tag", "peeled"}}}
\* Mutant: the tag object for the commit it names.
TagObject(refs, tag) == FirstOf(<<Under(refs, "tag", tag), Under(refs, "peeled", tag)>>)
TagTarget(refs, tag) == FirstOf(<<Under(refs, "peeled", tag), Under(refs, "tag", tag)>>)
CompareTag(name, refs) ==
    IF ~IsVersion(name) THEN Answer("unknown", <<>>, <<>>)
    ELSE Verdict({[key |-> ParseTag(t), name |-> t, commit |-> TagTarget(refs, t)] :
                     t \in {t \in TagsOf(refs) : /\ IsVersion(t) /\ TagShape(t) = TagShape(name)
                                                 /\ IsPre(name) \/ ~IsPre(t)
                                                 /\ Above(ParseTag(t), ParseTag(name))}})

\* compare
Compare(ref, commit, refs) ==
    IF IsFullSha(ref) /\ ref = commit THEN Answer("unknown", <<>>, <<>>)
    ELSE IF ref \in TagsOf(refs) THEN CompareTag(ref, refs)
    ELSE LET tip == FirstOf(<<Under(refs, "head", ref)>>) IN
         IF tip = <<>> THEN Answer("unknown", <<>>, <<>>)
         ELSE IF The(tip) = commit THEN Answer("current", <<>>, <<>>)
         ELSE Answer("tip-moved", <<>>, tip)

\* compare_file, compare_deb: names spelt like the pin around a later version.
CompareFile(name, listing) ==
    IF name \notin DOMAIN Text THEN Answer("unknown", <<>>, <<>>)
    ELSE Verdict({[key |-> Text[f].core, name |-> f, commit |-> <<>>] :
                     f \in {f \in listing \cap DOMAIN Text : /\ TagShape(f) = TagShape(name)
                                                             /\ Above(Text[f].core, Text[name].core)}})
\* compare_dotnet_sdk
CompareSdk(v, released) ==
    Verdict({[key |-> ParseTag(r), name |-> r, commit |-> <<>>] :
                r \in {r \in released : (IsPre(v) \/ ~IsPre(r)) /\ Above(ParseTag(r), ParseTag(v))}})

\* source_axes: the trees a build fetches, at the layers' URL or at the pin's own.
SourceUrl(a, l, b) ==
    IF a \in {"mod", "app", "packaging"} THEN The(l.git[a]).source ELSE The(b.git[a]).source
SourceAxes(l, b) ==
    {a \in GitAxes \ {"graft"} : Has(l.git[a]) /\ (a \in {"mod", "app", "packaging"} \/ Has(b.git[a]))}

\* run_bounded: a command that overruns its time is killed and has no answer.
Bounded(late, answer) == IF late THEN <<>> ELSE <<answer>>

\* advertised_refs, run_ls_remote
AdvertisedRefs(u, late) == Bounded("refs" \in late, remote[u].refs)

\* tree_listing: a directory without files is no answer.  The index and the releases of
\* one SDK channel are fetched alike.
TreeListing(offer, late) == IF offer.files = {} THEN <<>> ELSE Bounded("tree" \in late, offer.files)
PoolIndex(offer, late) == Bounded("pool" \in late, offer.pool)
Channel(v) == SubSeq(Text[v].core, 1, 2)
ChannelReleases(v, offer, late) == Bounded("pool" \in late, {r \in offer.sdks : Channel(r) = Channel(v)})

\* collect: every pin of a lock.
CollectPins(l, b) ==
    {<<"git", a>> : a \in SourceAxes(l, b)} \cup {<<"blob", k>> : k \in DOMAIN l.blobs}
        \cup {<<"deb", i>> : i \in DOMAIN l.debs}
        \cup (IF Has(l.sdk) THEN {<<"sdk", The(l.sdk).version>>} ELSE {})

\* judge: a listing that could not be read is unknown, not current.
JudgePin(listing, Comparison(_)) ==
    IF Has(listing) THEN Comparison(The(listing)) ELSE Answer("unknown", <<>>, <<>>)

\* outdated: every pin against the listing its upstream gives.
Outdated(l, b, offer, late) ==
    [pin \in CollectPins(l, b) |->
        LET k == pin[2] IN
        CASE pin[1] = "git" ->
                 JudgePin(AdvertisedRefs(SourceUrl(k, l, b), late),
                       LAMBDA refs : Compare(The(l.git[k]).ref, The(l.git[k]).commit, refs))
          [] pin[1] = "blob" -> JudgePin(TreeListing(offer, late), LAMBDA files : CompareFile(l.blobs[k].file, files))
          [] pin[1] = "deb" -> JudgePin(PoolIndex(offer, late), LAMBDA pool : CompareFile(l.debs[k], pool))
          [] pin[1] = "sdk" -> JudgePin(ChannelReleases(k, offer, late), LAMBDA sdks : CompareSdk(k, sdks))]

\* classify_refs: a tag's target, a branch's tip, or neither.
ClassifyRefs(refs, commit) ==
    LET at(kinds) == \E r \in refs : r.kind \in kinds /\ r.sha = commit IN
    IF at({"peeled", "tag"}) THEN "tag" ELSE IF at({"head"}) THEN "tip" ELSE "none"

\* ancestry_probe: by its sha, which a server may refuse, then out of the whole history;
\* a history that does not arrive in time says nothing.
AncestryProbe(u, commit, late) ==
    LET sha == Bounded("sha" \in late, FetchBySha(u, commit))
        history == Bounded("history" \in late, commit \in remote[u].reach) IN
    IF sha = <<TRUE>> THEN "ephemeral"
    ELSE IF history = <<>> THEN "skipped"
    ELSE IF The(history) THEN "ephemeral" ELSE "orphaned"

\* probe
Durability(u, commit, late) ==
    LET refs == AdvertisedRefs(u, late)
        found == ClassifyRefs(The(refs), commit) IN
    IF refs = <<>> THEN "skipped"
    ELSE CASE found = "tag" -> "durable" [] found = "tip" -> "ephemeral"
           [] OTHER -> AncestryProbe(u, commit, late)

\* verify-sources: fails on a pin that is gone.
VerifySources(l, b, late) ==
    LET kept == [a \in SourceAxes(l, b) |-> Durability(SourceUrl(a, l, b), The(l.git[a]).commit, late)] IN
    [kept |-> kept, passes |-> \A a \in SourceAxes(l, b) : kept[a] # "orphaned"]

\* Both surveys of a recipe, and the probes that overran their time.
Ask ==
    /\ surveyed = <<>> /\ Has(lock["recipe"])
    /\ \E offer \in Offers, late \in Lateness :
          LET l == The(lock["recipe"])
              b == layers["recipe"] IN
          surveyed' = <<[lock |-> l, build |-> b, offer |-> offer, late |-> late,
                         pins |-> Outdated(l, b, offer, late), sources |-> VerifySources(l, b, late)]>>
    /\ UNCHANGED <<worldVars, lock, sidecar, job, reading, clock>>
-----------------------------------------------------------------------------
(* The world: layers are edited, upstreams move, patches are committed. *)

WorldMoves ==
    /\ turns < MaxTurns /\ turns' = turns + 1
    /\ \/ layers' \in Drafts \ {layers} /\ UNCHANGED <<remote, checkout, blobs>>
       \/ remote' \in Upstreams \ {remote} /\ UNCHANGED <<layers, checkout, blobs>>
       \/ checkout' \in Checkouts \ {checkout} /\ UNCHANGED <<layers, remote, blobs>>
       \/ blobs' \in BlobDirs \ {blobs} /\ UNCHANGED <<layers, remote, checkout>>
    /\ UNCHANGED <<lock, sidecar, job, reading, clock>>

LocksInit ==
    /\ layers \in Drafts /\ remote \in Upstreams /\ checkout \in Checkouts /\ blobs \in BlobDirs
    /\ lock = [p \in Points |-> <<>>] /\ sidecar = [p \in Points |-> <<>>]
    /\ job = <<>> /\ reading = <<>> /\ surveyed = <<>> /\ clock = 1 /\ turns = 0

\* An answer is of the moment it was given in.
LocksNext ==
    \/ Ask
    \/ /\ surveyed' = <<>>
       /\ \/ UpdateBegins \/ ResolveLock \/ WriteNewLock \/ UpdateEndsEarly
          \/ AdmitLock \/ BuildOver \/ WorldMoves

LocksSpec == LocksInit /\ [][LocksNext]_lockVars

LocksTypeOK ==
    /\ layers \in Drafts /\ remote \in Upstreams /\ checkout \in Checkouts /\ blobs \in BlobDirs
    /\ DOMAIN lock = Points /\ DOMAIN sidecar = Points
    /\ \A p \in Points : Len(lock[p]) <= 1 /\ Len(sidecar[p]) <= 1
    /\ \A p \in Points : Has(lock[p]) => IsLock(The(lock[p]))
    /\ Len(job) <= 1 /\ Len(reading) <= 1 /\ Len(surveyed) <= 1
    /\ clock \in 1..MaxClock /\ turns \in 0..MaxTurns
-----------------------------------------------------------------------------
\* What the layers decide of a build, apart from the refs an operator may choose.
Decided(b) ==
    [id |-> b.id, blobs |-> b.blobs, distro |-> b.distro, suite |-> b.suite, debs |-> b.debs, sdk |-> b.sdk,
     sources |-> [a \in GitAxes |-> IF Has(b.git[a]) THEN <<The(b.git[a]).source>> ELSE <<>>],
     series |-> [x \in PatchAxes |-> SeriesOf(b.patches[x])],
     apps |-> [a \in {"app", "packaging"} |-> IF Has(b.git[a]) THEN <<NormalizeRef(The(b.git[a]).ref)>> ELSE <<>>]]

\* A build that is admitted pairs its layers with pins that one update made for the same
\* layers, and its apps with the package list that was resolved for the pinned commits,
\* whatever was edited, moved, written halfway or written back in between.
NoHybrid ==
    Has(reading) =>
        LET r == The(reading) IN
        /\ Decided(r.lock.of) = Decided(r.build)
        /\ Has(r.lock.git["app"]) =>
              /\ The(r.nuget).app = r.lock.git["app"] /\ The(r.nuget).packaging = r.lock.git["packaging"]
              /\ The(r.nuget).patches = r.lock.patches["apppatches"]

\* Everything a lock pins by content: what axis_pins reports, and what it leaves out, which of
\* the series of a patches commit are applied and the digest under an SDK's version.
AxisContent(l) ==
    [git |-> [a \in GitAxes |-> CommitOf(l.git[a])], patches |-> [x \in PatchAxes |-> CommitOf(l.patches[x])],
     debs |-> l.debs, blobs |-> l.blobs, nuget |-> l.nuget,
     sdk |-> IF Has(l.sdk) THEN <<The(l.sdk).version>> ELSE <<>>]
LeftOut(x) == [series |-> [p \in PatchAxes |-> SeriesOf(x.patches[p])], sdk |-> x.sdk]
LockContent(l) == [axes |-> AxisContent(l), rest |-> LeftOut(l)]

\* Two locks of a point with one source date pin the same content, unless the layers they were
\* made for name other series or another digest, which moves no date by itself: an update that
\* moves any other pin moves the date every file of the image is stamped with.
DateMovesWithContent ==
    [][\A p \in Points :
          Has(lock[p]) /\ Has(lock'[p]) /\ The(lock[p]).epoch = The(lock'[p]).epoch =>
              LET l == The(lock[p])
                  m == The(lock'[p]) IN
              /\ AxisContent(l) = AxisContent(m)
              /\ LeftOut(l.of) = LeftOut(m.of) => LockContent(l) = LockContent(m)]_lockVars

\* outdated and update read the same refs in their own ways and agree: a branch that is
\* current is what its ref resolves to, a moved tip and a newer release are what update
\* would pin, and what is called the newest is current once it is pinned.  verify-sources
\* passes only where a stage can fetch every tree it fetches by commit, unless a probe was
\* cut off, and fails only where a stage cannot, unless the fetch by sha was.
SurveyNamesWhatUpdatePins ==
    Has(surveyed) =>
        LET s == The(surveyed)
            settled(x) == x.says \in {"current", "unknown"}
            byCommit == SourceAxes(s.lock, s.build) \ Shallow
            obtained(a) == Obtains(a, SourceUrl(a, s.lock, s.build), The(s.lock.git[a])) IN
        /\ \A a \in SourceAxes(s.lock, s.build) :
              LET refs == remote[SourceUrl(a, s.lock, s.build)].refs
                  pin == The(s.lock.git[a])
                  ans == s.pins[<<"git", a>>] IN
              /\ ans.says = "current" /\ pin.ref \notin TagsOf(refs) => PickCommit(refs, pin.ref) = <<pin.commit>>
              /\ ans.says = "tip-moved" => ans.commit = PickCommit(refs, pin.ref) /\ ans.commit # <<pin.commit>>
              /\ ans.says = "behind" => /\ ans.commit = PickCommit(refs, The(ans.name))
                                       /\ settled(Compare(The(ans.name), The(ans.commit), refs))
        /\ \A pin \in DOMAIN s.pins :
              s.pins[pin].says = "behind" /\ pin[1] \in {"blob", "deb"} =>
                  settled(CompareFile(The(s.pins[pin].name), s.offer.files \cup s.offer.pool))
        /\ \A pin \in DOMAIN s.pins :
              s.pins[pin].says = "behind" /\ pin[1] = "sdk" =>
                  settled(CompareSdk(The(s.pins[pin].name), {r \in s.offer.sdks : Channel(r) = Channel(pin[2])}))
        /\ \A a \in byCommit : s.sources.kept[a] = "orphaned" => ~obtained(a) \/ "sha" \in s.late
        /\ \A a \in byCommit : s.sources.kept[a] # "skipped" /\ ~obtained(a) => ~s.sources.passes

=============================================================================
