# boot2deb: a verification project

boot2deb builds flashable Debian images for ARM boards. `update` resolves upstream
references into a lock; `build` compiles a kernel, out-of-tree modules, a bootloader, a
media userspace, ffmpeg and applications from that lock, bootstraps a root filesystem from
the resulting packages and a Debian mirror, and assembles an image, with a record, a solved
manifest and a provenance document beside it. Almost every step can be skipped because an
earlier run, or another recipe, already did it. The interesting question about this program
is therefore not whether a fresh build works but whether a **reused** result is the right one:
after kills, failed steps, repins, reverts, partial `--stage` runs, a concurrent `clean` or a
concurrent build. That is what these modules are about.

## The system

| component | state it keeps | operations | hard behaviour | what makes it correct |
|---|---|---|---|---|
| config tree and resolution (`loader.rs`, `resolve.rs`, `feature.rs`, `distro.rs`) | layer files in two roots | load, merge, resolve, refuse | merge order, values named by three sources | what is asked is built or refused |
| affected survey (`affected.rs`) | none | record probes, compare with a revision | a file that is absent is an input too | a cleared point builds the same |
| artifact store (`artstore.rs`, `gc.rs`) | one directory per node and key, staging directories | `has`, `restore`, `put`, `entries`, sweep | concurrent puts, a clean under a reader, kills | an entry appears whole; a hit is whole |
| source trees (`build/mod.rs`, `signature.rs`) | a checkout and its signature stamp | gate, remove, fetch, patch, install, stamp | a kill leaves a stamp over another tree | a compile starts from the tree it asked for |
| userspace stage | per-package tree, stage root, store, output directory | restore, resume, refresh, compile, store, collect | reads the store once, a clean later; leftovers in the stage root | what is stored matches its key; what is shipped was asked for |
| kernel, dtb, kmod stages | one shared kernel tree, its `.config`, `Module.symvers`, `.debs` beside it | restore, prepare, configure, compile, collect, module build | three stages and several recipes use one tree | stored and staged outputs match the request |
| build pipeline (`build.rs`, `artifacts.rs`, `buildrecord.rs`) | record, ledger, packages, plan, tar, manifest, image, provenance | admit, preflight, nodes, save flags | partial runs over an older directory, in-place writes, errors after publication | a record that vouches for an image vouches for the right one |
| ffmpeg, app, u-boot stages | their `.debs` and payloads, the .NET SDK and package cache | restore or compile, stage | reused trees, files published one by one, two builds filling one cache | one build's products, whole, from what was pinned |
| rootfs node and cache | pool, plan, tar, manifest, cache entries | resolve, bootstrap, export, cache | external provisioner; move-aside publication | plan, tar and manifest describe one tree |
| image node | geometry, filesystem, image file | lay out, format, splice, compress | arithmetic at boundaries | no overlap, nothing truncated |
| press, seed | image files, seed partitions | stream, re-assemble, verify, re-seed | a rebuild meanwhile | what was written is described, and boots itself |
| try boot | QEMU process, console | login, assert, power off, twice | prompts interleave with deadlines | a verdict about this image |
| archive transport | connections, worker queue | batch fetch, redirects | workers share a queue | every job answered once, in its position |
| patch and config gates | commit-addressed checkouts | apply a series, configure, put back | a kill in the middle of `git am` | a verdict about the pinned commit |
| sandboxes | provisioned base roots, layers, manifests | provision, stage, record, discard, shell | no lock on the work directory | the recorded base is the one compiled in |
| pins, `update`, `outdated` (`pins.rs`, `lock.rs`, `repin.rs`) | the lock, the NuGet sidecars | resolve, write, survey, consistency check | refs, layers and checkouts move between the steps; two files, two writes | a build never mixes axes; the survey and the update agree |
| `clean` | nothing of its own | sweep of stores and work directories | runs beside builds | removes only what is dead |
| why-rebuild (`plan.rs`) | none | recompute every signature, compare with stamps and store | computed from the lock and flags, not by the stages | the next build does what it says |
| provenance, file listing, `reproduce`, `verify-image`, `diff` | documents beside an image | write, read back, judge | records, images and containers of different runs lie side by side | a verdict of sameness means the same |
| on-device scripts | partition table, filesystems, stamp | first boot and its hooks | power cuts | idempotent steps |

How they meet: the CLI's `build` drives the stages in order through plain calls and passes
them one output directory. Stages share the artifact store with every other build under the
same configuration root (`<root>/cache/artifacts`) and the work directory with other recipes
pointed at it. Nothing locks the store, a work directory or an output directory: the code
relies on atomic renames, on keys that name their content and on the build record. `clean`
is another process that removes store entries and work directories while builds run.

## Modules

**ArtifactStore** models one node of the store at the granularity of file operations. `entry`
is the published directory of each key, `tmp` each process's staging directory, `out` its
output directory, `pc`, `todo` and `part` the place in the copy loops. `Open` is a stage that
probes the store, with the sweep of old temporaries; `ReadManifest`, `CheckFiles`,
`CopyOpen`, `CopyClose`, `RestoreHit` are `restore`; `StageArtifact` a compile that stages;
`PutStart`, `CopyIn`, `WriteManifest`, `Publish`, `PublishLost` are `put`. `CleanStart`,
`CleanUnlink`, `CleanRmdir`, `CleanAbort` are `clean --artifacts`, whose live set is read
before the removals (`Relock` moves it meanwhile). `Crash` and `IoError` may come anywhere.
**ArtifactCache** is the promise the stages rely on: an entry is published at once, may be
lost, and a delivery is the whole content of a key that was published.

**SourceTree** models the signature gate used by every compile stage: a tree, its stamp, what
is asked and what is wanted. It distinguishes three kinds of refresh, because they clean up
differently after an error: trees fetched and patched under one guard, the kernel (which
installs device-tree sources after the guard) and module drivers (patched outside it). The
stamp sits beside the tree and is written last; the gate never removes it. `clean RECIPE` removes
the work directory file by file, beside a build or not (`CleanBegins`, `CleanEats`,
`CleanTakesTree`, `CleanTakesStamp`, `CleanEnds`), and may fail or be killed at any of them
(`CleanCut`). The variable `clean` remembers one that was cut short or ran beside a stage, until
a refresh has fetched the tree anew and stamped it.

**UserspaceStage** models `build_userspace` for N packages: which entries exist is read once
(`Begin`), then each package is taken up, restored or built (`BuildOne`'s resume check,
`RemoveTree`, `Refresh`, `Compile`, `StorePackage`), and `Collect` sweeps and stages. A `.deb`
records the pin and the sandbox it was built in, or that it is not whole: `Torn` where a restore
was cut, `Cut` where a compile was (`CompileCut` leaves any part of the package's `.debs` behind,
each whole or cut, at their final names, as `dpkg-deb` writes them). Edits of the lock, another
recipe and a clean run beside it.

**KernelStages** composes `--stage kernel`, `dtb`, `kmod` and a whole build over one kernel
tree, with the three output stores and the `.debs` the kernel's packaging leaves beside the
tree. `Put` keeps an existing entry. Preparing the kernel's tree is the gate of
`reuse_or_refresh_tree` (`PrepareTree`), the clone (`CloneTree`, `CloneFails`) and the stamp
(`StampTree`), and `RefreshCut` a failure or a kill inside any of the three: a removal half done,
with or without the `.config` and `Module.symvers` of the last build, a clone that stops half-way,
a stamp not written. A tree cut short is `Partial`. The driver's tree goes through the same four
steps. The history variable `cut` says that a refresh has been cut short, `returned` that an edit
has gone back to an earlier pin or driver. A behaviour starts with an empty work directory or one
a build of the first lock has left, and with a store that is empty or has that build's outputs. A
clean of the work directory is SourceTree's alone: it may damage any file under any stamp, and
no property of these stages survives that.

**Pipeline** models `build` of one build point: `Admit` reads the lock and writes the record;
`Preflight` or `Refuse` compares the committed manifest with its pin; the node loop follows
(`todo` is the set of nodes still to run, `Rank` their order, the next node the one of least
rank); then `WriteProvenance`, `CommitManifest`, `WriteLock`, `End`. Compile nodes are one step
followed by `RecordArtifacts`, except ffmpeg, whose store and linkage are modelled, and
u-boot, whose two payloads can be cut apart. The rootfs node is split into its plan, tar,
manifest and drift check. Every in-place write has an action in which it is cut short
(`RecordCut`, `ExportTarCut`, `AssembleImageCut`, `ProvenanceCut`). A version is a number
ordered as dpkg orders versions; the kernel's own version can regress, as the code says.
Plan, tar and manifest of a run are the same abstract value: the manifest has the SHA-256 of
every package, so equal manifests mean equal packages. The maskrom images, the boot-only
image, `--save-snapshot`, `--save-outputs`, `--rootfs-tar` and prebuilt extra `.debs` are
left out: none feeds a property stated here.

**RootCache** models the rootfs cache: `OpenStore`, `GetEntry`, `RestoreTar` and
`RestoreManifest` are a lookup that may race `put` (`StageTar`, `StageManifest`, `MoveAside`,
`PublishTree`) of another build or a wipe. The content of a file is the bootstrap that wrote
it, since two bootstraps of one key need not agree byte for byte.

**Sandboxes** models the provisioned roots of one work directory: a base tree with its package
manifest, and a layer per stage, used by a build and by `shell` at once while the archive
moves. Removing and publishing one tree is a single step because the provisioning library does
both by rename under a lock of its own.

**VerifyTrees** models the cached checkouts of `verify-patches` and `verify-config`: a gate
readies the tree (`ResetCheckout`, `CleanUntracked`), applies the series patch by patch, may
configure, and puts the tree back; it may be killed anywhere, and another gate finds the tree.

**Press** models `press` and `seed`: which roles an order covers, whether each is streamed or
re-assembled, the listing, the re-seed of a finished file, and rebuilds of the same recipe in
between. A re-assembled role has a tree, a function from paths to entries, which goes through
what `press_image` does to it, in that order: the kernel is taken out and signed again
(`TakesKernel`, `ResignRefused`, `VerifyKpart`), the build's identity is rewritten (`Rekey`), the
operator's files are merged (`MergeRefused`, `Merge`), the merged tree is searched for the build's
identity (`StillBuilt`), and the password goes in last (`Spliced`). The four leading bytes of a
GUID are kept, because the volume serial is made of them, once as bytes and once as text.

**FirstBoot** models the first-boot unit and its state-changing hooks on a device whose power
may go at any step and whose commands may fail. What reached the disk stays; the kernel's view
of the partition and the mounts are lost.

**TryBoot** models the driver and the guest as two processes that exchange prompts; every wait
of the driver has a deadline that may pass first (`Deadline`).

**Fetching** models the batch of archive downloads (partition, workers on a shared queue, the
plain thread, scatter back to positions) and the redirects of one bounded fetch, with the
resolution of relative references segment by segment. A `Location` of another scheme than HTTP is
a relative path to `resolve_redirect` (`Taken`), and is followed as one.

**Geometry** models the layout of an image, from the offsets a boot method hands over and the
authored size, through the preflight, to the disk that is assembled around a formatted
filesystem; `Claimed` is what the partition table and the raw payloads occupy. Sizes are bytes.
`Top` stands for `u64::MAX` and is a constant, as the model checker's integers are smaller.

**Resolution** models `resolve_recipe` and `resolve_device`: the merge of three sources of a
request and, one operator per validator or fold, what makes a request refused and what each
part of the resolved build is. An optional value is a sequence of at most one element. `Settled`
is what a merge by key keeps whatever the order of the features: the keys, and the whole entry of
each that a layer states or that the features that state it agree on.

**Layers** has the shapes of the layer files and of a resolved build, as sets of records, and
what a parsed entry must satisfy by itself; `ResolutionTypeOK` says that what is resolved has
those shapes. A shape check on text is membership in a set of accepted texts, and the constant
`Shaped` gives each validator its set.

**Config** models the layer loader over a shipped root and an overlay (first found, merged or
accumulated, as each kind of file is) and `affected`: every path a build probes, those that
are absent included, against the changes since a revision. `EditFile` and `UpdateLock` change
the tree, `Affected` and `Claims` are the two forms of the survey.

**LockFile** has the lock's shape and what is read out of it. **Locks** models `update` of a
recipe and its variant as the steps between which the world can move (`UpdateBegins`,
`ResolveLock`, the sidecar, `WriteNewLock`, `UpdateEndsEarly`), `AdmitLock` and `BuildOver` (a
build that reads a lock, checks it against the layers and may write it back), and the surveys
`outdated` and `verify-sources` (`Ask`), whose probes of an upstream may each overrun their
deadline (`Bounded`, `Lateness`). A ref is a name with its version, an upstream a function from
names to commits. `LockContent` is everything a lock pins by content: `AxisContent`, what a report
of moved pins compares, and `LeftOut`, the series lists and the SDK's digest, which it does not.

**Files** models the listing of an image's files: the walk, the order, the hard-link tokens, the
trailer, the parser, and the comparison of two listings. A filesystem (`IsFilesystem`) is any
finite set of names with an inode each, the root a directory. **Records** models what a build
leaves of itself in six writes, any of which may be the last: packages, tar, plan, images,
provenance, committed outputs; and `Reproduce`, `VerifyImage` and `Diff` over two such
directories. A side of a `diff` has blob pins where the lock has them, which is where it pins
u-boot (`BlobFacts`); one that has none leaves the section unanswered.

**PackageStages** models the u-boot, ffmpeg and app stages from restore to store: each file
published by itself, objects of the last compile left in a reused tree, blobs and libraries
replaced meanwhile, kills anywhere. The tree goes through the gate in the same four steps as
KernelStages' do (`GateTree`, `CloneTree`, `StampTree`, `RefreshCut`), with the same two history
variables. `libs` is the highest version of each userspace package in the output directory, which
is what ffmpeg links (`TakeDeps`): the userspace stage of the same build has put the pinned one
there, and swept higher ones away only if it compiled. That `make` remakes what its changed inputs reach in
ffmpeg's and an app's tree is assumed; for u-boot the code does not rely on it
(`ConfigureTree` is the `distclean`). **DotnetCache** models the SDK and packages that builds
share: download by digest, unpack beside, rename in, materialise a feed, and `update`'s restore.

**Rootfs** models the rootfs node: what each generated file depends on, both staged overlays
with modes and times, the plan (resolved, or replayed from a manifest), the cache key,
restore or bootstrap, the customize program step by step, the check of the initrd, export,
manifest and cache. `Expected` is the reference: the tree of the same configuration and plan
built from nothing on a host of its own. `RootfsAssumption` says what the repository and the
archives are taken to be: a version of a package is one package wherever it is offered, a
`.deb` of the build is decided by its digest, has a version of its own and no archive's, layers
ship none of the files that may only come from packages or the account step, suite, kernel
and `.debs` settle which modules the target knows, and no clock is behind a config's epoch. What the provisioner and maintainer scripts
do is external.

**Forecast** models `why-rebuild` and `clean --artifacts` beside the builds they speak of. Every
tree's and output's signature is the record of what is folded into it, kept as a value, so that
equal signatures are equal inputs. `PlanNodes` is the forecast, from lock and flags;
`RunStages` what the stages do with what the build hands them.

The `MC*` modules give constants their values. Components that share no state are checked in
one run by a module that shows one of them per behaviour (`MCHost`: what the processes of one
host share; `MCNodes`: the nodes of a build and what must end; `MCPapers`: the documents);
the variable `show` selects it, the rest stands still, and the states of the run are the sum,
not the product. The violated runs of the store, the userspace stage, the kernel stages and
the first boot name the component's own module: their constants are plain values. Operators commented `Mutant:` are plausible bugs of the definition
that follows them; they are used by no specification and document what each property is able
to catch.

## Runs

| run | question | bounds |
|---|---|---|
| `host` | Store: `PresentIsComplete`, `HitIsWhole`, `EntriesOnlyAppearOrShrink` and refinement of ArtifactCache (`ImplementsCache`). Rootfs cache: `RestoredIsOfKey`. Sandboxes: `CompilesInWhatItRecords`. Checkouts: `VerdictIsOfThePin`. Press: `PressedIsDescribed`. Kernel tree: `KernelStagesAreHonest` over all stage selections, reverts, errors, kills and a second recipe | store: 1 key of 2 files, 2 builds (two files are the least that can be mixed, and the proofs lift the bound); cache: 2 keys, 2 builds, 2 bootstraps; sandboxes: one build, one shell, one move of the archive, 3 visits; checkouts: 2 gates, 3 runs, 2 patches; press: 2 builds, orders with every destination and kind of addition alone and those pairs that meet in one place, every state of the signing key; kernel: 2 pins, 2 configurations, 2 drivers, of which one moves at a time, 2 runs over a directory that is new or as an earlier run left it (the proofs lift these bounds) |
| `nodes` | `WaitsEnd`. Source trees: `SoundReuse`. Userspace: `UserspaceShipsWhatItAsked`. u-boot, ffmpeg, app: `HandsOverOneBuild`. .NET cache: `CompilesWithThePinned`. Rootfs node: `ServedIsAsked`, `FitToFormat`. why-rebuild and `clean --artifacts`: `ForecastComesTrue`. First boot: `StampMeansSetUp`, `VolumeDataSurvives`. Try boot: `VerdictIsOfTheImage`. Downloads: `FetchesAreAnswered` | 3 signatures, so that a stamp can be two pins behind; one userspace package of 2 `.debs` with forward pins and every fault, two with reverts and none; 2 runs of a package stage over 3 askings of u-boot, 4 of ffmpeg and 4 of an app, in a directory that is new or as a build left it; 2 builds on one SDK cache, one package, 2 contents; 2 runs of the rootfs node over a plain and a Chromebook configuration, each with one input changed, 2 mirror states, 2 hosts; 3 commands around a forecast, over a board that compiles everything and ten states one input away; 2 cuts or failures; every image and guest of TryBoot; batches of up to 4 jobs on 2 workers; paths over 3 segments |
| `papers` | Config: `UnaffectedBuildsTheSame`. Resolution: `EveryRequestCounts`, `SelectionIsASet`. Layout: `LaidOutApart`, `PreflightIsEnough`. Lock: `NoHybrid`, `SurveyNamesWhatUpdatePins`, `DateMovesWithContent`. Listing: `ListingIsTheFiles`. Records: `ReproducedMeansSame`, `VerifiedIsDescribed`, `QuietMeansSame` | 2 edits of a tree of two roots; requests over four boards on two SoCs, one of them with a module outside its tree, each with one thing wrong or unusual; offsets and sizes on both sides of every boundary; 3 updates or builds and one move of the world between their steps, and surveys with no probe or one kind of probe late; filesystems of 3 leaves in every hard-link arrangement and every file type; 2 runs into two directories over 3 worlds, one of them without u-boot and its blobs |
| `pipeline` | `VouchedImageIsAsked`, `VouchedImageIsDescribed`, `NothingMovesUnderAVouch` | 4 compile nodes and u-boot, 2 versions, 2 mirror states, 6 selections, 2 runs: one leaves a directory in any state a run can leave, the second builds over it |
| `store_torn` | *violated* `NoTornArtifact` | as the store in `host` |
| `userspace_env` | *violated* `StoreHonest` when the sandbox changes | 1 package, 2 sandboxes |
| `kernel_config` | *violated* `ModulesFitKernel` | 2 configurations, 2 runs |
| `pipeline_stale` | *violated* `VouchedImageIsCurrent` | kernel and app, 2 runs, no faults |
| `pipeline_ffmpeg` | *violated* `FfmpegStoreHonest` | 2 versions, 2 runs, no faults |
| `press_serial` | *violated* `ReseedKeepsSerial` | one GUID |
| `firstboot_volume` | *violated* `BlankDiskGetsVolume` | 1 power cut |
| `rootfs_groups` | *violated* `ServedIsAsked` when only the account's groups change | 2 configurations |

Each passing run also has one type invariant. Deadlock is checked in `pipeline`, which never
stops; in the runs of several parts some of them stop by design (a verdict, a finished batch, a
bound).

Two bounds deserve a word. `MaxRuns` limits how many runs build on each other; because the
artifact store and the output directory are the only memory and a faulty run can leave them
in any combination of old and new, a third run adds depth rather than new cases, and for
KernelStages it was tried. `Pinnings` in `MCPipeline` has three members: everything at 1,
everything at 2, and everything but the kernel at 2, which makes a module for another kernel
release and an ffmpeg for another userspace possible. A behaviour starts from a fresh checkout
whose lock pins no solved manifest or one committed with it; the mirror's states are
interchangeable, hence the symmetry.

### Fairness

`WaitsEnd` assumes weak fairness of the process's own steps: a build, the
first-boot script, the driver of a try boot (its deadlines included) and the workers of a
batch are sequential programs that take their next step unless killed; systemd starts the unit
at each boot and somebody restores the power. Nothing is assumed of `clean`, of edits, of
other builds, of the guest or of faults. A kill counts as an end of a build.

## What the violated runs show

- `store_torn`: `restore` copies straight onto the final name, so an interrupted restore
  leaves a truncated `.deb` at a valid name, which `stage_artifact_as` says cannot happen.
- `userspace_env`: the resume check looks at the tree's stamp and the presence of `.debs`,
  not at the sandbox, so `.debs` built in one sandbox are stored under another's key.
- `kernel_config`: the module key folds the kernel tree, not the kernel's configuration or
  compiler, so modules linked against another configuration's `Module.symvers` ship.
- `pipeline_stale`: only kernel and modules are scoped to the current run; a higher version
  of an app or of ffmpeg left by an earlier run is what gets installed. The model allows a
  store hit without an earlier run of this point because the store is shared by all points.
- `pipeline_ffmpeg`: `--stage ffmpeg` after a userspace repin links the old userspace and
  stores the result under a key made of the new pins.
- `press_serial`: a `--seed-only` rewrite makes the FAT volume serial from the text of the
  PARTUUID, the image assembly from its bytes, so re-seeding changes the volume's identity.
- `firstboot_volume`: a power cut after the data disk's partition table and before its
  filesystem leaves a disk that is no longer blank, which the hook then refuses for good.
- `rootfs_groups`: the rootfs key folds the account's user, sudo policy and keys but not its
  supplementary groups, so a build that changes only these is served the older tree.

Met while modelling, without a run of their own:

- a press that re-assembles may write over the artifacts of a build it reads from
  (`PressLeavesBuild` in Press; `press.rs:348-372` compares only some of the paths);
- `press` of a split layout takes one file for both `--boot-out` and `--rootfs-out`, and the
  second role overwrites the first (`press.rs:374-414`; `OwnFiles` in Press);
- a `shell` can discard the base a build is about to compile in (`ShellLeavesBuildAlone` in
  Sandboxes; `docs/src/reference/cli.md:542` says it leaves builds alone);
- a patch series named by both a kernel and a feature is applied twice (`resolve.rs:936`);
- `--uboot-series` on a depthcharge board is accepted and has no effect;
- reordering the `links` of a userspace tree changes which package ffmpeg must depend on, but not
  ffmpeg's key, which folds them as a set (`ffmpeg.rs:234-243`, `ffmpeg.rs:787`), and a restore
  does not repeat `assert_userspace_depends`;
- ffmpeg libraries merge by flag, and the first of two different ones wins silently
  (`resolve.rs:1333-1346`); `SelectionIsASet` speaks of everything else of them;
- `affected --claims` does not report changes outside the repository, `affected` does;
- two build points such as `a-b/c` and `a/b-c` share an artifact stem;
- two features naming one prebuilt `.deb` with different `targets` resolve by their order: the
  first entry of a content is kept (`resolve.rs:1303-1310`), and again `SelectionIsASet` excludes
  which of the two it is and nothing more;
- `check_lock_consistency` (`pins.rs:468-470`) leaves the source and ref of the patch series
  unchecked; `axis_pins` (`support.rs:274-280`, "Every pin in the lock appears here") has neither
  series lists, sources, the distro, the SDK digest nor the snapshot, so an update that moves only
  those keeps the source date over another content (`DateMovesWithContent` says so);
- a redirect to a scheme other than HTTP is followed as a path on the same host
  (`netfetch.rs:148-180`), although the module says that it is refused (`netfetch.rs:12-13`);
- a `.deb` that a compile was cut short in lies at its final name, beside a tree with a current
  stamp; the resume check (`userspace.rs:342`) asks for names, takes it and stores it;
- `clean` removes a work directory a build is using, and one that fails or is killed half-way
  may leave a damaged tree beside a stamp that the next build accepts (`clean.rs:379-381`);
- a bare commit as a hand pin is documented (`args.rs:1100-1103`), but the stages clone
  `--branch <ref>`; `pick_ref` keeps one when the source moves; `outdated` calls a tag pin
  current when the tag names another commit by now;
- in `verify-sources` a fetch by commit that runs out of time falls through to the search of the
  branches' history, so a commit that is only served by its hash can be called ORPHANED
  (`sources.rs:339-482`);
- `verify-sources` says "They build today" (`verify_sources.rs:129`) of a branch pin whose tip
  moved, where the shallow clone no longer finds the commit;
- provenance has neither the module commits nor the commit of u-boot's series, and of a fetched
  tree its ref and commit but not its source (`provenance.rs:892-918`), although its module comment
  says "plus every pin";
- `diff` keys archives by mirror, so a moved main release hides behind `-updates`
  (`diff.rs:156-159`), compares a series as a set, so `QuietMeansSame` speaks of series up to their
  order (`InAnyOrder`), and does not compare prebuilt `.debs`;
- `find_image` prefers raw, then `.xz`, then `.gz`, so a stale container may be the one judged;
  an output that is not comparable does not fail a reproduction; `reproduce` does not consult
  the build record;
- the committed outputs include the manifests of the build roots, which
  `docs/src/reference/reproducibility.md` calls "records rather than contracts";
- of two builds that unpack one SDK at once the later rename fails, and that build with it;
- u-boot's maskrom images and packages of an earlier board stay in the output directory;
- `sweep_provisioned` removes every provisioned tree of the scratch directory, a concurrent
  build's too, unless the library refuses;
- the rootfs key has packages of a feature's repository by name and version only, so one that
  is republished under its version hits the cache, and plan and manifest disagree;
- a kmod whose local patch exists but does not read is left out of the forecast (`plan.rs:424`),
  so `clean --artifacts` counts its entries as dead instead of stopping, as it does for every
  other key it cannot compute.

### What the passing runs assume

Some passing properties hold only under a condition, and the condition is a constant of the
module, so that it can be lifted to see the counterexample:

- `SoundReuse` needs pins that do not return (`Reverts = FALSE`). With reverts, a kill during
  a refresh (or a failed driver patch) leaves a tree under its old stamp, and returning to
  the old pins accepts it. It says nothing of a tree over which a clean was cut short, or beside
  whose stage one ran (`clean = "no"`): nothing but the stamp tells a damaged tree from a whole one.
- `KernelStagesAreHonest` and `HandsOverOneBuild` have reverts and kills, inside a refresh too. Both
  give up where the two have met, a refresh cut short and a pin that went back (`cut` and
  `returned`): it is the case just named, and from then on any stage may compile another tree than
  the one it asked for. `HandsOverOneBuild` also lets ffmpeg's package be linked with other
  userspace libraries than the pinned ones once an edit has gone behind one that is in the
  directory, which `pipeline_ffmpeg` shows of a lone `--stage ffmpeg`.
- That the userspace stage never panics (part of `UserspaceShipsWhatItAsked` where nothing fails)
  holds without a clean. With `"clean"` in `Faults` an entry that was counted as cached can vanish
  before it is restored, and no build root was acquired.
- The rest of `UserspaceShipsWhatItAsked` holds with faults for forward pins, up to `.debs` that a
  compile was cut short in, and exactly for reverts without faults; with both, leftovers of a
  cut-short run can be taken for a finished package.
- `SelectionIsASet` compares prebuilt `.debs` and ffmpeg's libraries whole, but for an entry that
  two selected features state differently: there the first selected wins.
- `DateMovesWithContent` says of series lists and the SDK's digest only that they move with the
  layers' own: where those name others, an update keeps the date if nothing else moved.
- `KernelStagesAreHonest` needs fragments that are not edited during a run (`LiveEdits = FALSE`):
  configure reads them again after the key was computed.
- The vouching properties speak of whole builds. A lone `--stage image` may combine a tar with
  another run's manifest or payloads; its record does not vouch.
- `UnaffectedBuildsTheSame` is about the configuration a point is built from. Files a build
  reads outside the two roots are not in it.
- `PressedIsDescribed` speaks of a press that succeeded; one that was cut short leaves files it
  does not describe. Its part about the tree, `TreeIsMerged`, excludes additions of which one
  names a directory above another: the merge makes the directory without asking whether an
  addition is a file there, and the filesystem formatter has to refuse the pair.
- `ForecastComesTrue` compares a forecast with a build of the same flags and the lock's own
  snapshot mode; a prune keeps what pinned builds ask for, as its comment says, and not what
  `--patches-path` builds stored.
- `ReproducedMeansSame` and `QuietMeansSame` speak of builds whose record vouches for them.
- `ServedIsAsked` holds for configurations that differ in anything but the account's groups
  (`rootfs_groups`), and for archives in which a version is one package. It speaks of the plan
  with the build's own `.debs` in the place of those the plan names. The two differ when a
  build replays the plan of another build whose `.debs` have the same names and versions and
  other bytes: the key folds the plan's names and versions and the bytes of the build's own
  `.debs`, so a cached tree made with these is served, and a hit compares nothing with the
  digests of the plan that is published beside it. A reproduction of such a record is then
  judged different. It takes three runs in one cache; `nodes` has two.
- One build runs in an output directory at a time. Nothing in the code enforces it.

## Proofs

`ArtifactStoreProofs` proves, for every set of keys, files and processes:

- `TypeCorrect`, `HitsAreWhole` and `EntriesAreComplete`, the invariants of the store in `host`;
- `EntriesAppearOrShrink`, the action property;
- `Refinement`: the store implements `ArtifactCache` (safety; the abstract specification has
  no fairness).

`HitIsWhole` is not inductive: a hit is whole because every file copied so far was, because a
file copied from an entry of a key is that key's, and because an entry only ever holds bytes of
its own key. `IndInv` states these, per entry (`EntryInv`) and per process by its place in the
loops (`ProcInv`), including the staging directory about to be published. The lemmas about
`WithManifest`, `WithFile` and `Unlinked` keep record reasoning out of the main proof, which
has a step per action. The only assumptions are those of the module on its constants:
the markers are distinct from keys and files, and there is a file.

`Induction` holds what the other proofs need to reason about recursive functions. The library's
induction theorems take an operator as a parameter, which no installed prover instantiates; but
well-foundedness of `<` on the naturals can be cited with `OpToRel` unfolded by hand, and from it
follow `Least` (a set of naturals that is not empty has a least member), `UpTo` (a set that holds
0, and with each number its successor up to a bound, holds all of them) and `RecursExist` (the
function given by its value at 0 and by a step for each next number up to a bound exists). A proof by induction puts
what it shows into a set and cites `UpTo`.

`PapersProofs` is about what decides a build before it runs. Of the layout it proves, for every
offset, size and payload length and whatever `u64::MAX` is taken to be, `LaidOutApartHolds` and `PreflightIsEnoughHolds`. Neither is inductive: that the
loader, the slots, the seed and the filesystem are apart depends on the checks of three earlier
steps. `GeometryInv` says which of them a layout at each place has passed (`BootRegion` holds
of the head, the payloads fit, the geometry in hand is the one the size resolves to), and the
lemmas turn the head's checks into inequalities between offsets, once per boot method.

Of the lock it proves `LocksTypes`, `NoHybridHolds` and `DateMovesWithContentHolds`, for any
layers, repositories, blobs and number of updates. A lock lives in three places: committed, read
by a build that may write it back, and as the lock an update under way started from. `LocksInv`
says of each of them that it records the build it was made for (`LocksRecorded`), series lists
and the SDK's digest included (`LayersNameTheRest`), and that any
two with one date pin the same `AxisContent` and none is dated after the clock (`LocksDated`); an
update's new lock has the clock's date or, with the same axes, the date of the one it
replaces. `ConsistentIsDecided` is what `check_lock_consistency` is worth: refs that agree after
`normalize_ref` were decided by the same build. `LocksAssumption` requires of the layers only
that what resolution leaves of them has its fields.

Of the configuration tree it proves `ConfigTypes` and `UnaffectedBuildsTheSameHolds`, for any
trees, layers and number of edits. `ConfigInv` says that both trees are trees and that
a survey that found nothing still stands; the rest is about the lookups of one build. `Untouched` says that a path the survey
does not blame is in both trees or in neither, with one content; `SameLineage`, by induction up
the chain of `extends`, that each layer the build reaches is then the same merge of the same
files; and the recipe, the device and the distribution that serves the suite are reached by such
lookups only.

Of resolution it proves `EveryRequestCountsHolds`, for any layers and requests. `ResolutionInv`
says that what was built is what the merged request resolves to; the theorem then goes axis by
axis through what a resolved build has of each, and for a bootloader through what was refused.
It also proves `SelectionIsASetHolds`. Two requests that differ in the order of their features read
every other axis alike (`Alike`), and everything is accepted of one reading that is accepted of the
other (`ResolvesAlike`); the build then holds the same (`BuildAlike`). What that rests on is what a
merge of lists keeps, by induction along the list: a flattening keeps all, `extend_names` every
name, a merge by key every key and the first entry of each (`ByKey`), which is the same entry in
any order unless two features state the key differently (`SettledAlike`, `MergesAlike`). A caveat is told by the first layer that states it (`Told`), so its
scope does not depend on the order of the features either. `LayersAssumption` requires that layers
and requests have their shapes; that a layer exists where another names it is checked by
`Resolves`, as the loader does.

`PipelineProofs` proves `PipelineTypes`, `VouchedImageIsAskedHolds`,
`VouchedImageIsDescribedHolds` and `NothingMovesUnderAVouchHolds`, for every set of compile
nodes, versions, selections and mirror states and any number of runs. What a record vouches for
at the end of a build depends on everything each node left behind, so `PipeInv` follows a whole
build node by node: `DirInv` says what may lie in the directory under a record that vouches,
`RecordInv` how the record in the directory relates to the run that writes it, `TodoInv` which
nodes have run, `BuiltInv`, `StagedInv`, `DebsInv` and `UbootInv` what those have left,
`RootfsInv`, `ImageInv` and `EndInv` which of plan, tar, manifest, image and provenance already
describe this run. The lemmas about `First` and `Rank` give what the argument needs from the
order: that no node before the current one is left to do.

`HostProofs` is about what processes of one host share.

- `RestoredIsOfKeyHolds` (RootCache, any number of keys, builds and bootstraps): `RootEntryInv`
  says that an entry's files are one bootstrap's, `BuilderInv` what a build has in its output and
  staging directories by its place in the node, `FindableInv` that a stored key is findable but
  between `put`'s two renames or after a fault.
- `RecordedBaseIsCompiledInHolds` (Sandboxes): in a work directory used by one process at a time
  a build records the base it compiled in, however the archive moves. `SandboxInv` orders the
  base, its package manifest and the plan in hand by the states of the archive, at each place of
  a visit. `CompilesInWhatItRecordsHolds` adds the increment, and that needs only that no two at
  work have one stage directory (`OnePerDirectory`, assumed of the behaviour), so it covers a
  `shell` open beside a build.
- `VerdictIsOfThePinHolds` (VerifyTrees, any length of series and set of patches that do not
  apply): `TreeInv` says which patches the checkout holds at each place of a gate and that no
  `git am` is under way there, `FindingsInv` that the patches blamed so far are the bad ones among
  those tried. Gates may be killed anywhere; the verdict is of gates that ran one at a time.
- `PressTypes` and `PressedIsDescribedHolds` (Press, any builds and any set of orders):
  `OrderInv` has the accepted order and the roles that are left, `FilesInv` that while no build
  ran the artifacts are one build's and the roles pressed so far are written and listed,
  `MediumInv` that the medium a rootfs was last written to roots on itself and holds the merged
  tree. The last follows from `MergeFacts`: what `TreeAdditions::apply` does not refuse gives a
  tree with every directory above its files, every addition in place and the rest as it was.
- `KernelStagesHonest` (KernelStages, all pins, configurations and drivers and any number of runs),
  under `~LiveEdits`, with failures and kills anywhere: `Steady` (the run's configuration is still
  the wanted one), `GoalInv` (which stage is under way where), `PlaceInv` (what is in hand at each
  place), `StampInv` (the trees, `.config` and `Module.symvers` are of the request as far as the run
  has come), `StagedInv` (so is what was collected), and with these both halves of
  `KernelStagesAreHonest`, the stores' and the stages', are inductive. What a stamp is worth is
  `Trusted`: until a refresh is cut short, a tree is gone or of its stamp; until a pin goes back,
  a stamp that is not its tree's is behind the lock. Either is enough to trust a tree that passes
  the gate (`TrustedIsTrue`), and the last three parts are given up once neither holds.

`UserspaceStageProofs` proves of one sandbox and runs that use the store `UserspaceHonest` for
pins that only move forward (`Steady`), whatever fails, is killed or cleaned,
`UserspaceHonestWithReverts` for pins that may return when nothing fails (`Smooth`), and
`UserspaceNeverPanics` for either when there is no clean. The hard part of the first is a
torn `.deb` beside a fresh tree: `TornInv` says that the entry it was torn from is then still
whole and that the run under way counted it as cached, so that it is swept; `SafeInv` keeps a
concurrent clean from taking that entry away. A `.deb` that a compile was cut short in has no such
argument, since the resume check takes it for a whole one: the theorem says that whatever lies
beside a fresh tree is of the tree's pin, whole or cut there, and never torn. The last needs that what was counted as cached
at `Begin` still is (`CalmInv`). The second needs no order of the pins: when nothing is cut short, a
package whose tree was fetched for some pin has its entry under that pin in the store once the
run is over (`StoredInv`), so a run that returns to the pin finds the entry and never takes the
tree's leftovers, and a run under way has finished the packages before the one it is at and
begun none after it (`PartInv`, `AheadInv`).

`NodesProofs` is about the parts of a node. Of the gate over source trees it proves
`TreeTypeCorrect`, `ForwardReuseIsSound` (no reverts, every fault) and `GuardedReuseIsSound`
(stages whose every failed refresh removes the tree may also return to earlier pins, as long as
nothing is killed and no removal fails), both of trees no clean has damaged. The gate never removes
a stamp, so the argument of the first is that a stamp over anything but its own tree is older than
every later request: `ForwardInv` orders stamp, asked and wanted signature and describes how far a
refresh under way has brought the tree. A refresh that began after the clean was cut brings a whole
tree again (`RefreshOnItsWay`), and its stamp restores the rest.

Of the archive transport it proves `FetchingTypes` and `FetchesAreAnsweredHolds`, for any batch,
number of slots, redirects and answers. `QueueInv` says that the jobs not yet taken are the end
of their half of the batch, in its order (`HalfIsTheJobs`: the two halves are the batch, split by
transport and each job once), `HeldInv` that a job is taken by one worker and that what is held
and what is queued are apart, `SlotInv` that a finished job has its answer in its own slot, and
`HopInv` that a redirect is followed at most as often as allowed and always to a clean path
(`NormalizedIsClean`, by induction over the segments).

It also proves `StampMeansSetUpHolds` and `VolumeDataSurvivesHolds` (FirstBoot, any number
of cuts: `DiskInv` and `MacInv` say what is on the disk at each place of the script, `StampInv`
that a stamp is only written at its end) and `CompilesWithThePinnedHolds` (DotnetCache, any
number of builds: the published SDK is absent or whole, a staging directory is whole before its
rename, and a feed holds nothing the manifest does not list). `HandsOverOneBuildHolds`
(PackageStages, any asks, number of runs, kills and changes of the pins) rests on
`OneKeyOneBuild`: two asks of one key have the same products and, for ffmpeg, need the same
runtime packages. `PackageInv` then follows a file from the key to the directory: what the store
holds was made under its key (`ShelfInv`), the tree is of what was read and a compile begins with
none of an earlier one's products (`TreeInv`; this is what `distclean` is for), the libraries beside
it are the pinned ones until an edit has gone back (`LibInv`), what was
published is whole and of the run's key (`RestoreInv`, `HandedInv`), and a bootloader is never
restored in place (`BootInv`). `TreeInv` trusts a stamp on the same two grounds as the kernel's
`StampInv`, and the invariant is given up once a refresh was cut short and a pin has gone back. Its `StagesAssumption` asks that a linked tree's name settles its
runtime package: the key folds `links` as a set, so reordering them moves the package without
moving the key.

Of the rootfs node it proves `RootfsTypeCorrect`, `FitToFormatHolds` and `ServedIsAskedHolds`, for
any configurations, hosts, archives and number of runs over one cache, kills anywhere.

- Staged overlays carry no trace of the host (`NormalizedAnywhere`): whatever the umask, the
  checkout and the clock, modes and times are the ones the configuration sets.
- The key decides what goes in (`KeyDecides`): both overlays, the names and versions of the
  packages, the build's own `.debs`, and everything else of a configuration that the customize
  program reads, but for the account's groups.
- What the host's clock leaves in a tree is later than the epoch and clipped at the export.
  Trees that differ in nothing else are `Alike`, each step of the customize program keeps them
  so, and thus one key makes one tree on any two hosts (`TreeAnywhere`, `OneTree`).
- `RootfsInv` says at each place of the node what plan, overlays, key and tree in hand are of
  (`RunInv`), and that a cache entry is the tree and manifest of some build of its key
  (`EntryOf`). The cache is a function here; its own interleavings are RootCache's.

`ServedIsAskedHolds` has the hypothesis that user, sudo policy and keys settle the groups, without
which `rootfs_groups` refutes it; the other two theorems need no such thing. The
proof is why the property speaks of the build's own `.debs`, as said above.

Of why-rebuild it proves `ForecastTypes` and `ForecastComesTrueHolds`, for any shelf of userspace
trees, any states of lock, files and host and any number of commands. Forecast and stage name
the series of a live checkout alike wherever there is a pin, and where there is none nothing of
it is folded, so they roll the same signatures (`IdentitiesAgree`, `KeysAgree`). That no
reported change means none is `NoChangeIsSame`: a signature's records are its labels, each
folded once (`GroupedOnce`, by induction over the records), in an order that the labels
settle (`TreesRolled`). The inductive invariant is that a stamp is a signature some build
rolled of that tree (`Stamped`); a prune needs no invariant.

`RecordsProofs` is about the documents beside an image. Of the listing it proves `FilesTypes` and
`ListingIsTheFilesHolds`, for any two filesystems and a kill anywhere in either write. `FilesInv` only says that what is beside an image is a part of
the text of its list; the argument is about what the walk, the text and the comparison compute.
Names compare as a strict total order (`BeforeIsTotal`, `BeforeIsTransitive`), in a finite ordered
set the ranks are the numbers below its size, each once (`RanksAreAll`), so the walk lists every
name once (`AssembleFacts`) and a token names one shared inode (`TokenFacts`). A token repeated
is then exactly the other names of the file (`SiblingsFacts`), and the fields of an entry tell
exactly what the name shows of its inode (`FieldsTell`), which gives `DiffIsOfTheFiles`. A record
reads back as the entry it was written from although defaults are left out (`ReadBack`), and only
the last line of the text has no type, so a text cut anywhere is refused (`WholeOrRefused`). The
whole list of a filesystem whose names and inodes can be said at all is never refused
(`ListableParses`).

Of the records it proves `RecordsTypes`, `ReproducedMeansSameHolds`, `VerifiedIsDescribedHolds` and
`QuietMeansSameHolds`, for any worlds, makings and flags and any number of runs, each of which may
end after any of its writes. `RecordsInv` says that whatever lies in a directory is a plan the
archives served and images the list can say (`InShape`), that a directory vouched for holds the
makings of one run over one world and the record of that run (`Finished`; only the last write
vouches, and any other run begun in the directory takes the vouch away), that committed outputs are
rows no run writes per image (`SavedInv`), and that the last answer is still what the command would
say (`AnswerInv`). The image `verify-image` finds need not be the vouching run's, as a container of
an earlier run may lie there; its checks are what ties that image to the list, and the list ties it
to the record (`PassedChecks`, `CommittedAreThere`). For the other two,
rows of equal digests give equal packages, rootfs and plan (`SameRows`), lists that agree but for
the per-image file the same visible files (`AgreeMeansSame`, which rests on the listing), and a
quiet report equal sources, series, blobs and manifests section by section (`PinsTell`,
`PatchesTell`, `AppsTell`, `PackagesTell`, `BlobsTell`, `MediaTell`), although an axis is left out
where a side says nothing of it. `RecordsAssumption` says what a world is: locks have the shape of a
lock, an app built from a packaging tree is built on an SDK, a manifest names a package once, is
sorted, and a digest is one package's; and that what is formatted is a filesystem the list can
say, with the password and the identity two regular files of it. The run checks it of every world.

The hypotheses other than `OnePerDirectory` are on constants, and are those under which the
passing runs instantiate the modules.

Only model-checked:

- `WaitsEnd`: liveness under fairness is outside the proof system.
- TryBoot has no constants: its run is exhaustive, and a proof would say nothing more.
- `SurveyNamesWhatUpdatePins` (Locks) compares two readings of the same refs, folds and choices
  of a newest version.

## Not modelled

File contents, compilers, the Debian provisioner, git, QEMU and the network are external and
appear only through what they leave behind. Left out of the parts that are modelled: the byte
formats of ext4, vboot and RKBOOT; release files and snapshots of the
archive transport; the download of prebuilt `.debs`; patch import and delta, which normalise
text; `boot2deb-install-to`, which is interactive. Parsers, rendering, SBOM, weights and
argument handling have no state. `PROJECT.json` lists every part with its status.

## Plan

In the order of importance:

1. *Core* (done): store, source trees, userspace, kernel stages, pipeline, and the theorems
   about the store and the gate.
2. *Shared directories, waits and build points* (done): rootfs cache, sandboxes, checkouts,
   press, first boot, try boot, downloads, layout, resolution, config tree and survey, and the
   theorems about the layout.
3. *Records* (done): the lock with `update`, the surveys, the listing, provenance and the
   commands that judge by it, the forecast of `why-rebuild`.
4. *Nodes in detail* (done): u-boot, ffmpeg and app stages, .NET cache, rootfs node.
5. *Two builders*: a composition of Pipeline with a second build and a clean in one output
   directory, to state what the missing lock costs.
6. *Proofs* (done for the store, the gate, the layout, the pipeline, the rootfs cache, the
   sandboxes, the checkouts, the kernel and userspace stages, the first boot, the .NET cache,
   the lock, the press, the package stages, the configuration tree, what resolution makes of a
   request, the archive transport, the rootfs node, the forecast, the listing and the records).
   Next: that the surveys name what `update` pins, a comparison of folds and of choices of a
   newest version.
