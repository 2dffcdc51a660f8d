------------------------------ MODULE Records -------------------------------
(***************************************************************************)
(* What a build says of itself, and what is made of it later: the          *)
(* provenance manifest (core/src/provenance.rs), the committed outputs     *)
(* (core/src/outputs.rs), and the commands that read them: reproduce,      *)
(* verify-image and diff (core/src/diff.rs and the cli's commands).        *)
(*                                                                         *)
(* A digest is the kind of a file with its content.  One build is taken in *)
(* six writes (Pipeline has its steps), and a run may end after any of     *)
(* them.                                                                   *)
(***************************************************************************)
EXTENDS LockFile, Files

CONSTANTS
    Worlds,        \* a lock with its manifest, the resolved build, a host and what the archives serve
    Writes,        \* after how many of its six writes a run may end
    DiffPairs,     \* which sides diff is asked to compare
    Makings,       \* what compiling and formatting may come to
    RunFlags,      \* how a run may be asked for: keep_raw, compress, save (--save-outputs), and
                   \* cached, where the caches hold every node and are not refused
    Passwords,     \* first-boot passwords
    IdentityName,  \* where an image names itself
    MaxBuilds      \* bound: how many runs a behaviour has

Elements(series) == {series[i] : i \in DOMAIN series}

\* A manifest names a package once and is sorted, and a digest is one package's.
ManifestsAgree(a, b) ==
    /\ DOMAIN a = 1..Len(a)
    /\ \A i, j \in DOMAIN a : a[i].name = a[j].name => i = j
    /\ \A x \in Elements(a), y \in Elements(b) : x.name = y.name /\ x.version = y.version /\ x.sha = y.sha => x = y
    /\ Elements(a) = Elements(b) => a = b

\* What is formatted is a filesystem the list can say, the password and the identity
\* two files of it.
IsFormatted(t) ==
    /\ IsListable(t) /\ {Shadow, IdentityName} \subseteq DOMAIN t.number /\ t.number[Shadow] # t.number[IdentityName]
    /\ \A name \in {Shadow, IdentityName} : InodeAt(t, name).type = "reg"

\* An app that is built from a packaging tree is built on an SDK, with a list of packages;
\* blobs are pinned with the u-boot they are for.
ASSUME RecordsAssumption ==
    /\ \A w \in Worlds :
          /\ IsLock(w.lock) /\ w.lock.blobs = [b \in DOMAIN w.lock.blobs |-> w.lock.blobs[b]]
          /\ DOMAIN w.lock.blobs # {} <=> Has(w.lock.git["uboot"])
          /\ Has(w.lock.git["packaging"]) \/ Has(w.lock.nuget) => Has(w.lock.sdk)
          /\ Has(w.lock.sdk) => Has(w.lock.git["app"])
    /\ \A v, w \in Worlds : ManifestsAgree(v.served.pkgs, w.served.pkgs)
    /\ \A m \in Makings : IsFormatted(m.tree)

VARIABLES
    now,      \* the world of today
    shelf,    \* shelf[d]: an artifact directory, the original's and the rebuild's
    saved,    \* saved[arch]: the committed outputs of build hosts of that architecture
    answer,   \* what the last command said
    builds

recordVars == <<now, shelf, saved, answer, builds>>
Containers == {"img", "img.xz", "img.gz"}
-----------------------------------------------------------------------------
(* The provenance manifest, section by section. *)

ImageProvenance(b, bytes) ==
    [device |-> b.device, suite |-> b.suite, layout |-> b.layout, features |-> b.features,
     image_size |-> b.size, image_bytes |-> bytes]

\* A tree's row has its ref and its commit, not where it was fetched from.
Pinned(o) == [ref |-> RefOf(o), commit |-> CommitOf(o)]
MediaAccelProvenance(l) ==
    IF l.git["ffmpeg"] = <<>> THEN <<>>
    ELSE <<[base |-> Pinned(l.git["ffmpeg"]), graft |-> Pinned(l.git["graft"])]>>

\* The kernel's id and flavor are the resolved build's, the rest the lock's.
SourcesProvenance(b, l) ==
    [kernel_id |-> b.kernel.id, kernel_flavor |-> b.kernel.flavor, kernel_package |-> b.kernel.package,
     kernel_ref |-> RefOf(l.git["kernel"]), kernel_commit |-> CommitOf(l.git["kernel"]),
     patch_series |-> SeriesOf(l.patches["patches"]), patches_commit |-> CommitOf(l.patches["patches"]),
     uboot_ref |-> RefOf(l.git["uboot"]), uboot_commit |-> CommitOf(l.git["uboot"]),
     media_accel |-> MediaAccelProvenance(l)]

RootfsProvenance(l, f) ==
    [suite |-> l.suite, manifest_sha256 |-> f.pkgs, package_count |-> Len(f.pkgs), plan_sha256 |-> f.plan,
     epoch |-> l.epoch]

ToolchainProvenance(b, h) == [host_arch |-> h.arch, target_arch |-> b.arch, cross |-> h.arch # b.arch, jobs |-> h.jobs]
BuiltWith(h) ==
    [version |-> h.version, commit |-> h.commit, dirty |-> h.dirty, config_commit |-> h.config,
     config_dirty |-> h.config_dirty, ferroday_cage |-> h.cage]
Credentials(b, pw) == [user |-> b.user, password |-> pw]

\* The environment, the mounts and the confinement a command ran under are the sandbox
\* library's.
SandboxPosture(h) == [root |-> h.cage, hardening |-> h.cage, landlock |-> h.cage]
SandboxInputs(h) == [posture |-> SandboxPosture(h), env |-> h.cage, mounts |-> h.cage]

\* publish_root_manifest: the roots this run stood up, and what each held.
ProvisionedRoot(suite, arch, held) == [suite |-> suite, architecture |-> arch, manifest_sha256 |-> held]

UserspaceSources(l) == Pinned(l.git["lib"])
AppSources(l) ==
    IF l.git["app"] = <<>> THEN <<>>
    ELSE <<[ref |-> The(l.git["app"]).ref, commit |-> The(l.git["app"]).commit,
            series |-> SeriesOf(l.patches["apppatches"]), patches_commit |-> CommitOf(l.patches["apppatches"]),
            packaging_ref |-> RefOf(l.git["packaging"]), packaging_commit |-> CommitOf(l.git["packaging"]),
            sdk |-> IF Has(l.sdk) THEN <<The(l.sdk).version>> ELSE <<>>, nuget |-> l.nuget]>>

\* source_durability_rows: every tree that is fetched, the graft is not.
SourceDurability(pin) == [reference |-> pin.ref, form |-> IF pin.ref = pin.commit THEN "bare-commit" ELSE "named-ref"]
SourceDurabilityRows(l) ==
    [a \in {a \in GitAxes \ {"graft"} : Has(l.git[a])} |-> SourceDurability(The(l.git[a]))]
PatchDurabilityRows(l) ==
    [x \in {x \in PatchAxes : Has(l.patches[x])} |-> SourceDurability(The(l.patches[x]))]

\* system_identity: what the image says of itself, known before anything is built.
IdentityImage(b) == [device |-> b.device, suite |-> b.suite, features |-> b.features, layout |-> b.layout]
IdentityKernel(b, l) ==
    [id |-> b.kernel.id, package |-> b.kernel.package, ref |-> RefOf(l.git["kernel"]),
     commit |-> CommitOf(l.git["kernel"]), series |-> SeriesOf(l.patches["patches"])]
SystemIdentity(b, l) == [image |-> IdentityImage(b), kernel |-> IdentityKernel(b, l)]

AssembleRecord(b, l, f) ==
    [image |-> ImageProvenance(b, f.disk.bytes), sources |-> SourcesProvenance(b, l), rootfs |-> RootfsProvenance(l, f),
     roots |-> f.roots, filesystem |-> f.disk.fs, blobs |-> l.blobs, toolchain |-> ToolchainProvenance(b, f.host),
     built_with |-> BuiltWith(f.host), credentials |-> Credentials(b, f.password), sandbox |-> SandboxInputs(f.host),
     archives |-> f.plan.rows, userspace |-> UserspaceSources(l), apps |-> AppSources(l), extra_debs |-> l.debs,
     durability |-> SourceDurabilityRows(l), patch_durability |-> PatchDurabilityRows(l),
     restored |-> f.cached, outputs |-> f.outputs]
-----------------------------------------------------------------------------
(* A run *)

\* The password and the identity in the filesystem the formatter writes.
Splice(tree, id, pw) ==
    [number |-> tree.number,
     inode |-> [n \in DOMAIN tree.inode |->
                  [tree.inode[n] EXCEPT !.data = IF n = tree.number[Shadow] THEN <<pw>>
                                                 ELSE IF n = tree.number[IdentityName] THEN <<0, id>> ELSE @]]]

\* Output, is_disk_image
Output(step, role, file, sha, per_image) ==
    [step |-> step, role |-> role, file |-> file, sha256 |-> sha, per_image |-> per_image]
\* Nothing compares the digest of an output that holds the password.
PerImage(role, file) == Output("image", role, file, <<>>, TRUE)
IsDiskImage(o) == o.step = "image" /\ o.role \in {"image", "boot_img", "rootfs_img", "compressed"}

\* Which image files a run leaves: the raw one where nothing is compressed or it is kept.
KeepsRaw(flags) == flags.keep_raw \/ flags.compress = "none"
ContainerOf(flags) == IF flags.compress = "xz" THEN "img.xz" ELSE "img.gz"

\* EmittedArtifacts::rows: what the stages announced.  The manifests of the roots are
\* announced with it, by a run that stood the roots up.
Rows(m, flags) ==
    {Output("kernel", "image_deb", "deb", <<"deb", m.deb>>, FALSE),
     Output("rootfs", "tar", "tar", <<"tar", m.tar>>, FALSE),
     Output("rootfs", "manifest", "pkgs", <<"pkgs", m.pkgs>>, FALSE),
     Output("rootfs", "plan", "plan", <<"plan", m.plan>>, FALSE),
     PerImage("files-manifest", "files")}
    \cup (IF KeepsRaw(flags) THEN {PerImage("image", "img")} ELSE {})
    \cup (IF flags.compress # "none"
          THEN {PerImage("compressed", ContainerOf(flags))} ELSE {})
    \cup (IF m.roots # <<>> THEN {Output("image", "packaging-manifest", "roots", <<"roots", m.roots>>, FALSE)} ELSE {})

\* What a run of lock l and build b on host h comes to, with the plan it solved or was given.
Made(l, b, h, plan, making, pw, flags) ==
    LET tree == Splice(making.tree, SystemIdentity(b, l), pw)
        facts == [deb |-> making.deb, tar |-> making.tar, pkgs |-> plan.pkgs, plan |-> plan,
                  listing |-> ToBytes(Assemble(tree)), disk |-> making.disk, host |-> h, password |-> pw, cached |-> flags.cached,
                  image |-> [tree |-> tree, table |-> making.disk.table, free |-> making.disk.free],
                  roots |-> IF flags.cached THEN <<>> ELSE <<ProvisionedRoot(b.suite, h.arch, making.root)>>, outputs |-> {}] IN
    [facts EXCEPT !.outputs = Rows(facts, flags)]

\* The files after n of the six writes: the .debs, the rootfs with its manifest and plan,
\* the image with its listing, the roots' manifests with the provenance, the committed
\* outputs, the record.
AfterWrites(dir, l, b, m, flags, n) ==
    [deb |-> IF n >= 1 THEN <<m.deb>> ELSE dir.deb,
     tar |-> IF n >= 2 THEN <<m.tar>> ELSE dir.tar,
     pkgs |-> IF n >= 2 THEN <<m.pkgs>> ELSE dir.pkgs,
     plan |-> IF n >= 2 THEN <<m.plan>> ELSE dir.plan,
     listing |-> IF n >= 3 THEN m.listing ELSE dir.listing,
     images |-> IF n < 3 THEN dir.images
                ELSE [c \in Containers |->
                        IF c = "img" THEN (IF KeepsRaw(flags) THEN <<m.image>> ELSE <<>>)
                        ELSE IF flags.compress # "none" /\ c = ContainerOf(flags) THEN <<m.image>> ELSE dir.images[c]],
     roots |-> IF n >= 4 /\ m.roots # <<>> THEN m.roots ELSE dir.roots,
     prov |-> IF n >= 4 THEN <<AssembleRecord(b, l, m)>> ELSE dir.prov,
     vouched |-> n = 6]
EmptyDir ==
    [deb |-> <<>>, tar |-> <<>>, pkgs |-> <<>>, plan |-> <<>>, listing |-> <<>>, images |-> [c \in Containers |-> <<>>],
     roots |-> <<>>, prov |-> <<>>, vouched |-> FALSE]

\* Mutant: whatever is not a disk image is committed.
RecordableBarImages(outputs) == {o \in outputs : ~IsDiskImage(o)}
\* CommittedOutputs::record, which replaces one host's rows.
Recordable(outputs) == {o \in outputs : ~o.per_image /\ ~IsDiskImage(o)}

\* Commands that only read are asked one at a time: the answer stands until something moves.
NoAnswer == [asked |-> "nothing"]
RunBuild(d, plan, n, flags, making, pw) ==
    LET m == Made(now.lock, now.build, now.host, plan, making, pw, flags) IN
    /\ shelf' = [shelf EXCEPT ![d] = AfterWrites(@, now.lock, now.build, m, flags, n)]
    /\ saved' = IF flags.save /\ n >= 5 THEN [saved EXCEPT ![now.host.arch] = <<Recordable(m.outputs)>>] ELSE saved
    /\ builds' = builds + 1 /\ now' = now

\* build, which may restore every node from the caches, into the directory of the first
\* build or into another.
BuildPoint ==
    /\ builds < MaxBuilds
    /\ \E d \in IF builds = 0 THEN {"published"} ELSE DOMAIN shelf, n \in Writes, flags \in RunFlags, making \in Makings, pw \in Passwords :
          RunBuild(d, now.served, n, flags, making, pw)
    /\ answer' = NoAnswer
-----------------------------------------------------------------------------
(* reproduce *)

\* files_manifest: the listing the record names.
Lists(p) == \E o \in p.outputs : o.role = "files-manifest"

\* disk_differences: the disk's size, the filesystem record, and the partition tables of
\* every recorded image.
DiskDiffers(p, dir, q, other) ==
    \/ p.image.image_bytes # q.image.image_bytes
    \/ p.filesystem # q.filesystem
    \/ \E o \in p.outputs :
          /\ IsDiskImage(o) /\ Has(other.images[o.file])
          /\ dir.images[o.file] = <<>> \/ The(dir.images[o.file]).table # The(other.images[o.file]).table

\* judge: what each recorded output came to; files and disk decide the per-image ones.
Judge(originals, reproduced, compared, same) ==
    [o \in originals |->
        IF ~\E r \in reproduced : r.file = o.file THEN "missing"
        ELSE IF o.per_image THEN (IF ~compared THEN "not-comparable" ELSE IF same THEN "identical" ELSE "differs")
        ELSE IF \E r \in reproduced : r.file = o.file /\ r.sha256 = o.sha256 THEN "identical" ELSE "differs"]
Failed(verdicts) == {o \in DOMAIN verdicts : verdicts[o] \in {"differs", "missing"}}

\* Mutant: a per-image file is set aside whole.
FilesAgreeElsewhere(l, r) ==
    LET d == FilesDiff(l, r) IN IsEmpty([d EXCEPT !.changed = {c \in d.changed : c.name # Shadow}])
FilesAgree(l, r) == IsEmpty(WithoutPerImage(FilesDiff(l, r)))

JudgeRebuild(dir, other) ==
    LET p == The(dir.prov)
        q == The(other.prov)
        compared == Lists(p) /\ Lists(q)
        same == /\ FilesAgree(Parse(dir.listing), Parse(other.listing))
                /\ ~DiskDiffers(p, dir, q, other) IN
    Judge(p.outputs, q.outputs, compared, compared /\ same)

\* The plan is replayed into a directory of its own, with the caches off unless asked for.
Reproduce ==
    /\ builds < MaxBuilds /\ Has(shelf["published"].plan)
    /\ \E n \in Writes, flags \in {f \in RunFlags : ~f.save}, making \in Makings, pw \in Passwords :
          RunBuild("rebuilt", The(shelf["published"].plan), n, flags, making, pw)
    /\ answer' =
          IF ~shelf'["rebuilt"].vouched THEN [asked |-> "reproduce", says |-> "failed"]
          ELSE IF shelf["published"].prov = <<>> THEN [asked |-> "reproduce", says |-> "not-judged"]
          ELSE IF Failed(JudgeRebuild(shelf["published"], shelf'["rebuilt"])) = {}
               THEN [asked |-> "reproduce", says |-> "reproduced"] ELSE [asked |-> "reproduce", says |-> "differs"]
-----------------------------------------------------------------------------
(* verify-image *)

\* find_image: the raw one, then the containers.
FindImage(dir) ==
    IF Has(dir.images["img"]) THEN dir.images["img"]
    ELSE IF Has(dir.images["img.xz"]) THEN dir.images["img.xz"] ELSE dir.images["img.gz"]

\* required_free_blocks: rounded up.
Ceil(a, b) == (a + b - 1) \div b
RequiredFree(size, blocks, blockSize) ==
    CASE size.kind = "share" -> Ceil(blocks * size.n, 10000)
      [] size.kind = "bytes" -> Ceil(size.n, blockSize)
      [] size.kind = "fixed" -> 0

\* found_outputs: the committed files that are there, as they are now.
FileIn(dir, file) ==
    CASE file = "deb" -> IF Has(dir.deb) THEN <<<<"deb", The(dir.deb)>>>> ELSE <<>>
      [] file = "tar" -> IF Has(dir.tar) THEN <<<<"tar", The(dir.tar)>>>> ELSE <<>>
      [] file = "pkgs" -> IF Has(dir.pkgs) THEN <<<<"pkgs", The(dir.pkgs)>>>> ELSE <<>>
      [] file = "plan" -> IF Has(dir.plan) THEN <<<<"plan", The(dir.plan)>>>> ELSE <<>>
      [] file = "roots" -> IF Has(dir.roots) THEN <<<<"roots", dir.roots>>>> ELSE <<>>
      [] OTHER -> <<>>
FoundOutputs(rows, dir) ==
    {[o EXCEPT !.sha256 = The(FileIn(dir, o.file))] : o \in {o \in rows : Has(FileIn(dir, o.file))}}

\* committed_check: nothing where this architecture has no record.
CommittedFailures(arch, dir) ==
    IF saved[arch] = <<>> THEN {}
    ELSE Failed(Judge(The(saved[arch]), FoundOutputs(The(saved[arch]), dir), FALSE, FALSE))

\* Mutant: the per-image file is set aside, as reproduce sets it aside.
HoldsListedBarShadow(text, image) == IsEmpty(WithoutPerImage(FilesDiff(Parse(text), Assemble(image.tree))))
HoldsListed(text, image) == IsEmpty(FilesDiff(Parse(text), Assemble(image.tree)))

\* verify_point: which checks fail.  Without a record that vouches nothing else is asked.
FailedChecks(dir) ==
    IF ~dir.vouched THEN {"build"}
    ELSE IF FindImage(dir) = <<>> \/ dir.prov = <<>> \/ dir.plan = <<>> THEN {"artifacts"}
    ELSE LET p == The(dir.prov)
             image == The(FindImage(dir))
             ok == [plan |-> Len(The(dir.plan).pkgs) > 0,
                    plan_sha256 |-> The(dir.plan) = p.rootfs.plan_sha256,
                    archives |-> Len(p.archives) >= 2,
                    pool_row |-> \E i \in DOMAIN p.archives : p.archives[i].local /\ p.archives[i].mirror = <<>>,
                    ext4_fits |-> image.table.bytes = p.filesystem.blocks * p.filesystem.block,
                    rootfs_bootable |-> image.table.bootable,
                    size |-> p.image.image_bytes > 0,
                    slack |-> image.free >= RequiredFree(p.image.image_size, p.filesystem.blocks, p.filesystem.block),
                    rootfs_files |-> Lists(p) /\ Parses(dir.listing) /\ HoldsListed(dir.listing, image),
                    outputs |-> CommittedFailures(p.toolchain.host_arch, dir) = {},
                    packages |-> Has(dir.deb)] IN
         {c \in DOMAIN ok : ~ok[c]}

VerifyImage ==
    /\ answer.asked \in {"nothing", "reproduce"}
    /\ \E d \in DOMAIN shelf :
          answer' = [asked |-> "verify-image", dir |-> d, failed |-> FailedChecks(shelf[d])]
    /\ UNCHANGED <<now, shelf, saved, builds>>
-----------------------------------------------------------------------------
(* diff *)

\* One side of a comparison says of each axis what its document says; what it leaves out
\* is no value at all.
KernelFacts(id, flavor, source, ref, commit, package) ==
    [id |-> id, flavor |-> flavor, source |-> source, ref |-> ref, commit |-> commit, package |-> package]
SourcePin(ref, commit) == [ref |-> ref, commit |-> commit]
PatchAxis(series, ref, commit) == [series |-> series, ref |-> ref, commit |-> commit]

\* A map read from rows: the last row of a key stands.
LastBy(rows, Key(_)) ==
    [k \in {Key(rows[i]) : i \in DOMAIN rows} |->
        rows[CHOOSE i \in DOMAIN rows : Key(rows[i]) = k /\ \A j \in DOMAIN rows : Key(rows[j]) = k => j <= i]]
ReleaseOf(row) == row.release
MirrorOf(row) == IF Has(row.mirror) THEN The(row.mirror) ELSE "local-pool"
PackageName(row) == row.name

\* BuilderFacts: the archives are keyed by their mirror.
BuilderFacts(p) ==
    LET rows == LastBy(p.archives, MirrorOf) IN
    [stamp |-> p.built_with, host_arch |-> p.toolchain.host_arch, target_arch |-> p.toolchain.target_arch,
     cross |-> p.toolchain.cross, archives |-> [m \in DOMAIN rows |-> ReleaseOf(rows[m])]]

\* Of the axes a document has, those it says something of.
NoPin == SourcePin(<<>>, <<>>)
NoPatches == PatchAxis(<<>>, <<>>, <<>>)
Present(axes, none) == [a \in {a \in DOMAIN axes : axes[a] # none} |-> axes[a]]

\* BlobFacts, where there are blobs.
BlobFacts(blobs) == IF DOMAIN blobs = {} THEN <<>> ELSE <<blobs>>

\* app_sources: an app, and with an SDK what else it is built from.
AppPins(app, packaging, sdk, nuget) ==
    [app |-> app, packaging |-> IF Has(sdk) THEN packaging ELSE NoPin, sdk |-> SourcePin(sdk, <<>>),
     nuget |-> IF Has(sdk) THEN SourcePin(<<"manifest">>, nuget) ELSE NoPin]

LockPins(l) ==
    LET app == AppPins(Pinned(l.git["app"]), Pinned(l.git["packaging"]),
                       IF Has(l.sdk) THEN <<The(l.sdk).version>> ELSE <<>>, l.nuget) IN
    [a \in (GitAxes \ {"kernel"}) \cup DOMAIN app |-> IF a \in DOMAIN app THEN app[a] ELSE Pinned(l.git[a])]
FromLock(l, sidecar) ==
    [kernel |-> IF l.git["kernel"] = <<>> THEN <<>>
                ELSE LET k == The(l.git["kernel"]) IN
                     <<KernelFacts(The(l.id), <<>>, <<k.source>>, <<k.ref>>, <<k.commit>>, <<>>)>>,
     patches |-> Present([x \in PatchAxes |-> PatchAxis(SeriesOf(l.patches[x]), RefOf(l.patches[x]), CommitOf(l.patches[x]))],
                         NoPatches),
     sources |-> Present(LockPins(l), NoPin),
     blobs |-> BlobFacts(l.blobs), packages |-> sidecar, builder |-> <<>>, files |-> <<>>]

\* from_provenance: no modules, no patches of u-boot and no ref of a series, which the
\* record does not have.
RecordPins(p) ==
    LET s == p.sources
        media == IF Has(s.media_accel) THEN The(s.media_accel) ELSE [base |-> NoPin, graft |-> NoPin]
        app == The(p.apps)
        apps == IF Has(p.apps)
                THEN AppPins(SourcePin(<<app.ref>>, <<app.commit>>), SourcePin(app.packaging_ref, app.packaging_commit), app.sdk, app.nuget)
                ELSE AppPins(NoPin, NoPin, <<>>, <<>>) IN
    [uboot |-> SourcePin(s.uboot_ref, s.uboot_commit), lib |-> p.userspace, ffmpeg |-> media.base, graft |-> media.graft,
     app |-> apps.app, packaging |-> apps.packaging, sdk |-> apps.sdk, nuget |-> apps.nuget]
RecordPatches(p) ==
    LET app == The(p.apps) IN
    [patches |-> PatchAxis(p.sources.patch_series, <<>>, p.sources.patches_commit),
     apppatches |-> IF Has(p.apps) /\ Has(app.patches_commit) THEN PatchAxis(app.series, <<>>, app.patches_commit) ELSE NoPatches]
FromProvenance(p, dir) ==
    LET s == p.sources IN
    [kernel |-> <<KernelFacts(s.kernel_id, <<s.kernel_flavor>>, <<>>, s.kernel_ref, s.kernel_commit, s.kernel_package)>>,
     patches |-> Present(RecordPatches(p), NoPatches), sources |-> Present(RecordPins(p), NoPin),
     blobs |-> BlobFacts(p.blobs), packages |-> dir.pkgs, builder |-> <<BuilderFacts(p)>>,
     files |-> IF Lists(p) /\ Parses(dir.listing) THEN <<Parse(dir.listing)>> ELSE <<>>]

\* from_resolved, merge: what the layers say where the lock says nothing.
FromResolved(b) ==
    [kernel |-> <<KernelFacts(b.kernel.id, <<b.kernel.flavor>>, <<>>, <<>>, <<>>, b.kernel.package)>>,
     patches |-> <<>>, sources |-> <<>>, blobs |-> <<>>, packages |-> <<>>, builder |-> <<>>, files |-> <<>>]
Filled(a, b) == IF Has(a) THEN a ELSE b
MergeKernel(a, b) ==
    IF a = <<>> \/ b = <<>> THEN Filled(a, b)
    ELSE <<[f \in DOMAIN The(a) |-> IF f = "id" THEN The(a).id ELSE Filled(The(a)[f], The(b)[f])]>>
Over(f, g) == [a \in DOMAIN f \cup DOMAIN g |-> IF a \in DOMAIN f THEN f[a] ELSE g[a]]
Merge(a, b) ==
    [kernel |-> MergeKernel(a.kernel, b.kernel), patches |-> Over(a.patches, b.patches), sources |-> Over(a.sources, b.sources),
     blobs |-> Filled(a.blobs, b.blobs), packages |-> Filled(a.packages, b.packages), builder |-> Filled(a.builder, b.builder),
     files |-> Filled(a.files, b.files)]

\* read_side: a build record with what is beside it, a lock with its manifest, or a recipe.
CanRead(side) == side \in DOMAIN shelf => Has(shelf[side].prov)
ReadSide(side) ==
    CASE side \in DOMAIN shelf -> FromProvenance(The(shelf[side].prov), shelf[side])
      [] side = "lock" -> FromLock(now.lock, now.manifest)
      [] side = "recipe" -> Merge(FromLock(now.lock, now.manifest), FromResolved(now.build))

\* A section is unavailable (<<>>) or the set of what changed in it; either may be quiet.
IsQuiet(section) == section = <<>> \/ The(section) = {}
Changed(l, r) == {f \in DOMAIN l : l[f] # r[f]}
Compared(l, r, Changes(_, _)) == IF Has(l) /\ Has(r) THEN <<Changes(The(l), The(r))>> ELSE <<>>

\* compare_packages: by name; a package of one version and another digest was rebuilt.
Versions(l, r) == {n \in DOMAIN l \cap DOMAIN r : l[n].version # r[n].version}
Rebuilt(l, r) == {n \in DOMAIN l \cap DOMAIN r : l[n].version = r[n].version /\ l[n].sha # r[n].sha}
OneSided(l, r) == (DOMAIN l \ DOMAIN r) \cup (DOMAIN r \ DOMAIN l)
\* Mutant: a package of the same version is the same package.
PackagesByVersion(left, right) ==
    LET l == LastBy(left, PackageName) r == LastBy(right, PackageName) IN OneSided(l, r) \cup Versions(l, r)
ComparePackages(left, right) ==
    LET l == LastBy(left, PackageName) r == LastBy(right, PackageName) IN OneSided(l, r) \cup Versions(l, r) \cup Rebuilt(l, r)

CompareFiles(l, r) == IF IsEmpty(FilesDiff(l, r)) THEN {} ELSE {"files"}

\* compare_patches, compare_sources: an axis one side lacks has no series, ref or commit there.
AxisOr(side, axis, none) == IF axis \in DOMAIN side THEN side[axis] ELSE none
ComparePatches(l, r) ==
    IF DOMAIN l \cup DOMAIN r = {} THEN <<>>
    ELSE <<{x \in DOMAIN l \cup DOMAIN r :
              LET a == AxisOr(l, x, NoPatches)
                  b == AxisOr(r, x, NoPatches) IN
              Elements(a.series) # Elements(b.series) \/ a.ref # b.ref \/ a.commit # b.commit}>>
CompareSources(l, r) ==
    IF DOMAIN l \cup DOMAIN r = {} THEN <<>>
    ELSE <<{a \in DOMAIN l \cup DOMAIN r : AxisOr(l, a, NoPin) # AxisOr(r, a, NoPin)}>>
CompareBlobs(l, r) == {b \in DOMAIN l \cup DOMAIN r : b \notin DOMAIN l \cap DOMAIN r \/ l[b] # r[b]}
CompareBuilder(l, r) == Changed(l, r)

CompareSides(l, r) ==
    [packages |-> Compared(l.packages, r.packages, ComparePackages),
     kernel |-> Compared(l.kernel, r.kernel, Changed),
     patches |-> ComparePatches(l.patches, r.patches), sources |-> CompareSources(l.sources, r.sources),
     blobs |-> Compared(l.blobs, r.blobs, CompareBlobs), builder |-> Compared(l.builder, r.builder, CompareBuilder),
     files |-> Compared(l.files, r.files, CompareFiles)]

Diff ==
    /\ answer.asked \in {"nothing", "reproduce"}
    /\ \E pair \in DiffPairs :
          /\ CanRead(pair[1]) /\ CanRead(pair[2])
          /\ LET report == CompareSides(ReadSide(pair[1]), ReadSide(pair[2])) IN
             answer' = [asked |-> "diff", left |-> pair[1], right |-> pair[2], quiet |-> \A s \in DOMAIN report : IsQuiet(report[s])]
    /\ UNCHANGED <<now, shelf, saved, builds>>
-----------------------------------------------------------------------------
\* The recipe, the host and the archives move on between runs; after the last of the
\* MaxBuilds runs they stand still.
TimePasses ==
    /\ builds < MaxBuilds /\ now' \in Worlds \ {now}
    /\ answer' = NoAnswer
    /\ UNCHANGED <<shelf, saved, builds>>

RecordsInit ==
    /\ now \in Worlds
    /\ shelf = [d \in {"published", "rebuilt"} |-> EmptyDir]
    /\ saved = [a \in {w.host.arch : w \in Worlds} |-> <<>>]
    /\ answer = NoAnswer /\ builds = 0
RecordsNext == BuildPoint \/ Reproduce \/ VerifyImage \/ Diff \/ TimePasses
RecordsSpec == RecordsInit /\ [][RecordsNext]_recordVars

\* Locks are locks, a directory that is vouched for has everything a run leaves, and what
\* is committed is a function of the lock in the eyes of the record.
RecordsTypeOK ==
    /\ IsLock(now.lock)
    /\ \A d \in DOMAIN shelf :
          shelf[d].vouched => Has(shelf[d].prov) /\ Has(shelf[d].plan) /\ Has(shelf[d].listing)
    /\ \A a \in DOMAIN saved : Has(saved[a]) => \A o \in The(saved[a]) : ~o.per_image /\ ~IsDiskImage(o)
    /\ answer.asked \in {"nothing", "reproduce", "verify-image", "diff"}

\* Two filesystems show the same files, the content of the per-image one aside.
SameBarShadow(s, t) ==
    LET v == Visible(s)
        w == Visible(t) IN
    /\ DOMAIN v = DOMAIN w
    /\ \A n \in DOMAIN v :
          /\ v[n].links = w[n].links
          /\ IF n = Shadow THEN \A f \in {"type", "mode", "owner", "xattrs"} : v[n].inode[f] = w[n].inode[f]
             ELSE v[n].inode = w[n].inode

\* A rebuild that is said to reproduce a finished build has its packages, its rootfs and
\* its plan, and in every image the original recorded the same files behind the same
\* names (the password aside), the same partitions and the same filesystem.
ReproducedMeansSame ==
    LET old == shelf["published"]
        new == shelf["rebuilt"] IN
    answer.asked = "reproduce" /\ answer.says = "reproduced" /\ old.vouched =>
        /\ old.deb = new.deb /\ old.tar = new.tar /\ old.pkgs = new.pkgs /\ old.plan = new.plan
        /\ \A o \in The(old.prov).outputs : IsDiskImage(o) =>
              LET a == The(old.images[o.file])
                  b == The(new.images[o.file]) IN
              SameBarShadow(a.tree, b.tree) /\ a.table = b.table

\* An image that verify-image passes is the one its record describes, whichever container
\* it was found in: it names itself as the record does, it has the recorded password and
\* partition, and every output committed for the host is there, as committed.
VerifiedIsDescribed ==
    answer.asked = "verify-image" /\ answer.failed = {} =>
        LET dir == shelf[answer.dir]
            p == The(dir.prov)
            image == The(FindImage(dir))
            id == InodeAt(image.tree, IdentityName).data[2] IN
        /\ id.image = [device |-> p.image.device, suite |-> p.image.suite, features |-> p.image.features, layout |-> p.image.layout]
        /\ id.kernel.commit = p.sources.kernel_commit /\ id.kernel.series = p.sources.patch_series
        /\ InodeAt(image.tree, Shadow).data = <<p.credentials.password>>
        /\ image.table.bytes = p.filesystem.blocks * p.filesystem.block
        /\ dir.pkgs = <<p.rootfs.manifest_sha256>>
        /\ Has(saved[p.toolchain.host_arch]) =>
              \A o \in The(saved[p.toolchain.host_arch]) : FileIn(dir, o.file) = <<o.sha256>>

\* A series is compared as a set.
InAnyOrder(apps) == [i \in DOMAIN apps |-> [apps[i] EXCEPT !.series = Elements(@)]]

\* Two finished builds that diff finds alike installed the same packages of the same
\* digests from the same sources, and their newest images show the same files.
QuietMeansSame ==
    answer.asked = "diff" /\ answer.quiet /\ {answer.left, answer.right} = DOMAIN shelf
    /\ (\A d \in DOMAIN shelf : shelf[d].vouched) =>
        LET p == The(shelf["published"].prov)
            q == The(shelf["rebuilt"].prov) IN
        /\ p.rootfs.manifest_sha256 = q.rootfs.manifest_sha256
        /\ [p.sources EXCEPT !.patch_series = Elements(@)] = [q.sources EXCEPT !.patch_series = Elements(@)]
        /\ InAnyOrder(p.apps) = InAnyOrder(q.apps) /\ p.userspace = q.userspace /\ p.blobs = q.blobs
        /\ p.toolchain.cross = q.toolchain.cross
        /\ \A o \in p.outputs, r \in q.outputs : IsDiskImage(o) /\ IsDiskImage(r) =>
              Visible(The(shelf["published"].images[o.file]).tree) = Visible(The(shelf["rebuilt"].images[r.file]).tree)
=============================================================================
