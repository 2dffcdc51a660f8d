------------------------------- MODULE Rootfs -------------------------------
(***************************************************************************)
(* The rootfs node (engine/src/rootfs/mod.rs, rootfs/provisioner.rs, the   *)
(* customize program): two overlays are staged from the layers and from    *)
(* resolved config, a plan is resolved or replayed, and a tree is restored *)
(* from the cache under a key, or bootstrapped, customized and exported.   *)
(* RootCache has the cache's own interleavings; here it is a function.     *)
(*                                                                         *)
(* A tree is a function from paths to files.  What a renderer of `config`  *)
(* writes is the tuple of the values it renders, behind the path's name.   *)
(***************************************************************************)
EXTENDS Naturals, Sequences, FiniteSets

CONSTANTS
    Configs,   \* what a build may resolve to
    Firsts,    \* those of them a behaviour begins with
    Archives,  \* states of the mirrors: sets of packages
    Hosts,     \* build hosts: umask and checkout time of the work tree, and the wall clock
    Ids,       \* processes, by pid
    Nil,
    MaxNodes   \* bound: runs of the node

VARIABLES
    config, archive, host,  \* the world
    pre, overlay,           \* the staged trees of the run
    plan,                   \* the plan it resolved or was handed
    replayed,               \* the plan document a reproduce hands in, or Nil
    rootdir,                \* the provisioned tree under the scratch directory
    strays,                 \* provisioned trees of killed runs, by pid
    rcache,                 \* rcache[key]: tar and manifest
    planFile, tarFile, manFile,
    rc, nodes

rootfsVars ==
    <<config, archive, host, pre, overlay, plan, replayed, rootdir, strays, rcache, planFile, tarFile, manFile, rc, nodes>>

File(content, mode, mtime) == [content |-> content, mode |-> mode, mtime |-> mtime]
Empty == [p \in {} |-> Nil]
\* One file, and a tree laid over another.
p := f == [x \in {p} |-> f]
t ?? u == [p \in DOMAIN t \cup DOMAIN u |-> IF p \in DOMAIN t THEN t[p] ELSE u[p]]

Local(p) == p.source = "local"
\* The paths of the initramfs generators that a placeholder may shadow.
Generators == {"update-initramfs", "dracut"}
Layers(c) == {c.preLayers[i] : i \in DOMAIN c.preLayers} \cup {c.layers[i] : i \in DOMAIN c.layers}
Archived == UNION Archives
Built == UNION {c.debs : c \in Configs}

\* An archive's version is immutable and a build's own package is none of the archive's; the
\* bytes of a .deb are its name and version, of which the pool holds one.  What the target
\* knows follows from its suite and its kernel.  No layer ships a generator, the account
\* database or the packages' own answers; the clocks are past the epochs.
ASSUME RootfsAssumption ==
    /\ Firsts \subseteq Configs /\ MaxNodes \in Nat
    /\ \A c \in Configs : c.epoch \in Nat
    /\ \A h \in Hosts : h.now \in Nat /\ \A c \in Configs : h.now >= c.epoch
    /\ \A p \in Archived : ~Local(p)
    /\ \A d \in Built : Local(d)
    /\ \A p, q \in Archived : p.name = q.name /\ p.ver = q.ver => p = q
    /\ \A p \in Archived, d \in Built : p.name = d.name => p.ver # d.ver
    /\ \A d, e \in Built : d.sha = e.sha => d = e
    /\ \A c \in Configs : \A d, e \in c.debs : d.name = e.name /\ d.ver = e.ver => d = e
    /\ \A p \in Archived \cup Built : p.name \notin Generators
    /\ \A c \in Configs : \A layer \in Layers(c) : DOMAIN layer \cap (Generators \cup {"shadow", "debconf"}) = {}
    /\ \A a, b \in Configs : a.suite = b.suite /\ a.kernel = b.kernel /\ a.debs = b.debs => a.known = b.known
-----------------------------------------------------------------------------
(* Generated config: module config of rootfs/mod.rs. *)

Fstab(c) == <<"fstab", c.boot.method, c.partuuid, c.volumes>>
Identity(c) == <<"identity", c.arch, c.boot.method, c.suite, c.features, c.hostname, c.kernel>>
\* A version tag names a release; a distro package's flavor follows its prefix.
KernelRelease(c) == IF c.kernel.package = Nil THEN c.kernel.release ELSE Nil
KernelFlavor(c) == IF c.kernel.package = Nil THEN c.arch ELSE c.kernel.flavor
SelftestIdentity(c) ==
    <<"identity.checks", KernelRelease(c), KernelFlavor(c), IF c.boot.method = "rkbin" THEN c.dtb ELSE Nil, c.modules>>
\* Pockets of one mirror share a stanza.
AptSources(c) == <<"sources", [m \in {p.mirror : p \in c.pockets} |-> {p.suite : p \in {q \in c.pockets : q.mirror = m}}], c.components>>
BoardConf(c) == <<"board.conf", c.dtb, c.cmdline>>
DepthchargeConfig(c, armed) == [board |-> c.boot.board, armed |-> armed]
DepthchargeInitramfsConf(c) == <<"depthcharge_conf", c.boot.compress>>
LocaleGen(c) == <<"locale.gen", c.locales>>
LocaleConf(c) == <<"locale.conf", c.locale>>
LocaltimeTarget(c) == <<"zoneinfo", c.timezone>>
Keyboard(c) == <<"keyboard", c.keymap>>
TimesyncdConf(c) == <<"timesyncd", c.ntp>>
InitramfsConf(c) == IF c.generator = "initramfs-tools" THEN <<"RESUME", "FSTYPE", "ext4">> ELSE <<"hostonly", "reproducible">>
InitramfsModules(c) == <<"modules", c.generator, c.modules>>
KernelImgConf == <<"link_in_boot">>
ResolvConf == <<"resolv">>
Hosted(c) == <<"hosts", c.hostname>>

InitramfsStubs(c) == {"update-initramfs"} \cup IF c.generator = "dracut" THEN {"dracut"} ELSE {}
ModulesDropIn(c) == IF c.generator = "dracut" THEN "dracut-modules" ELSE "modules.d"
ConfPath(c) == IF c.generator = "dracut" THEN "dracut-conf" ELSE "conf.d"
-----------------------------------------------------------------------------
(* Staging *)

\* A checkout has git's two modes under the host's umask, and the time it was made.
CheckedOut(file, h) == File(file.content, [umask |-> h.umask, exec |-> file.exec], h.checkout)

\* copy_overlay_trees: every layer over the earlier ones, so the last that ships a path.
Shippers(layers, p) == {i \in DOMAIN layers : p \in DOMAIN layers[i]}
LastShipper(layers, p) == CHOOSE i \in Shippers(layers, p) : \A j \in Shippers(layers, p) : j <= i
ShippedPaths(layers) == UNION {DOMAIN layers[i] : i \in DOMAIN layers}
Merged(layers, h) ==
    [p \in ShippedPaths(layers) |-> CheckedOut(layers[LastShipper(layers, p)][p], h)]

\* write_staged, write_staged_exec, symlink_staged over whatever the layers shipped there.
Written(files, exec, h) ==
    [p \in DOMAIN files |-> File(files[p], [umask |-> "fixed", exec |-> p \in exec], h.now)]
When(cond, files) == IF cond THEN files ELSE Empty

GeneratedPre(c) ==
    [locale_conf |-> LocaleConf(c), locale_gen |-> LocaleGen(c), localtime |-> LocaltimeTarget(c)]
    ?? (When(c.boot.method = "depthcharge",
             [depthcharge_config |-> DepthchargeConfig(c, FALSE), cmdline |-> <<"cmdline", c.cmdline>>,
              depthcharge_conf |-> DepthchargeInitramfsConf(c)])
    ?? (When(c.keymap # Nil, "keyboard" := Keyboard(c))
    ?? (When(c.ntp # <<>>, "timesyncd" := TimesyncdConf(c))
    ?? (When(c.modules # <<>>, ModulesDropIn(c) := InitramfsModules(c))
    ?? [s \in InitramfsStubs(c) |-> <<"stub", s>>]))))

GeneratedPost(c) ==
    [fstab |-> Fstab(c), hostname |-> <<c.hostname>>, hosts |-> Hosted(c), sources |-> AptSources(c),
     kernel_img |-> KernelImgConf, resolv |-> ResolvConf, board |-> BoardConf(c), image |-> Identity(c),
     checks |-> SelftestIdentity(c), machine_id |-> <<>>, expectations |-> c.expectations]
    ?? ((ConfPath(c) := InitramfsConf(c))
    ?? (When(c.volumes # <<>>, "volumes" := <<"volumes", c.volumes>>)
    ?? When(c.selftest, "selftest" := <<"link">>)))

\* normalize_overlay_modes: git's two modes; normalize_overlay_times: the epoch.
NormalizeModes(tree) ==
    [p \in DOMAIN tree |-> File(tree[p].content, IF tree[p].mode.exec THEN "755" ELSE "644", tree[p].mtime)]
\* Mutant: the times of the checkout stay.
NormalizeTimesNot(tree, epoch) == tree
NormalizeTimes(tree, epoch) == [p \in DOMAIN tree |-> File(tree[p].content, tree[p].mode, epoch)]

Staged(files, exec, layers, h, epoch) ==
    NormalizeTimes(NormalizeModes(Written(files, exec, h) ?? Merged(layers, h)), epoch)
StagePreinstallOverlay(c, h) == Staged(GeneratedPre(c), InitramfsStubs(c), c.preLayers, h, c.epoch)
StageOverlay(c, h) == Staged(GeneratedPost(c), {}, c.layers, h, c.epoch)
-----------------------------------------------------------------------------
(* The plan *)

\* build_debian, LocalDistsRepo, feature_repositories: the newest of every wanted package
\* among the pockets' components, the build's own pool and the feature repositories.
Offered(c, a) ==
    {p \in a : p.source = "archive" /\ p.component \in c.components}
    \cup c.debs
    \cup {p \in a : p.source = "feature" /\ c.aptSources # <<>>}
Resolve(c, a) ==
    {p \in Offered(c, a) :
        /\ p.name \in (c.packages \cup {"base"}) \ c.exclude
        /\ \A q \in Offered(c, a) : q.name = p.name => q.ver <= p.ver}
Resolvable(c, a) == \A n \in (c.packages \cup {"base"}) \ c.exclude : \E p \in Offered(c, a) : p.name = n

\* published_plan: the pool's path on this host is left out; archive_records, read_plan_record.
Plan(packages, u) == [packages |-> packages, pool |-> <<"file", u>>]
PublishedPlan(p) == Plan(p.packages, Nil)
\* read_pinned_plan: the document is handed on as it was read.
ReadPinnedPlan(doc) == doc
-----------------------------------------------------------------------------
(* The key *)

\* write_plan_manifest: name, version and digest of every package installed.
SolvedManifest(packages) == {[name |-> q.name, ver |-> q.ver, sha |-> q.sha] : q \in packages}
PlanSolved(p) == {[name |-> q.name, ver |-> q.ver] : q \in p.packages}
FileFingerprints(debs) == {p.sha : p \in debs}
\* dir_fingerprints: path, mode and content; no time.
DirFingerprints(tree) == {<<p, tree[p].mode, tree[p].content>> : p \in DOMAIN tree}
\* apt_source_records: the identity of the source and the content of its keyring.
AptSourceRecords(c) == {<<s.uri, s.suite, s.keyring>> : s \in {c.aptSources[i] : i \in DOMAIN c.aptSources}}

RootfsKey(c, p, before, after) ==
    [arch |-> c.arch, suite |-> c.suite, components |-> c.components, user |-> c.user, solved |-> PlanSolved(p),
     overlay |-> <<DirFingerprints(after), DirFingerprints(before)>>, debs |-> FileFingerprints(c.debs),
     apt |-> AptSourceRecords(c), interpreter |-> c.interpreter, sudo |-> c.sudo, epoch |-> c.epoch, keys |-> c.keys]
-----------------------------------------------------------------------------
(* The tree *)

\* What the maintainer scripts find of the image's own config when they run.
Seeded(tree) == [p \in DOMAIN tree \cap {"locale_gen", "locale_conf", "localtime", "keyboard", "depthcharge_config"} |-> tree[p].content]

\* provision::ensure: the files of the packages under the pre-install overlay, then their
\* scripts; a generator that is shadowed writes its log, one that is not writes an initrd.
Unpacked(c, packages, h) ==
    [n \in {q.name : q \in packages} |->
        File(<<"package", (CHOOSE q \in packages : q.name = n).sha>>, "644", 2)]
    ?? (When(AptSourceRecords(c) # {}, "feature_sources" := File(AptSourceRecords(c), "644", h.now))
    ?? [sources_list |-> File(<<"bootstrap">>, "644", h.now), dev_null |-> File(<<"node">>, "666", h.now),
        os_release |-> File(<<c.suite>>, "644", 2), interpreted |-> File(<<c.interpreter>>, "644", h.now)])
InitramfsLeft(c, tree, h) ==
    IF InitramfsStubs(c) \subseteq DOMAIN tree THEN "stub_log" := File(<<"calls">>, "644", h.now)
    ELSE "initrd" := File(<<"early">>, "644", h.now)
Configured(c, tree, h) ==
    [debconf |-> File(Seeded(tree), "644", h.now), shadow |-> File(<<"locked">>, "640", h.now)]
    ?? (InitramfsLeft(c, tree, h) ?? tree)
Bootstrapped(c, packages, before, h) == Configured(c, before ?? Unpacked(c, packages, h), h)

\* CopyIn: a file at an existing path is replaced.
Laid(tree, after) == after ?? tree

\* customize.sh: the account, then what the bootstrap wrote for itself goes, the stubs go
\* and the initrd is built from the tree as it then is, and depthcharge's hooks are armed.
Accounts(c, tree, h) ==
    [account |-> File(<<c.user, c.groups>>, "644", h.now), sudoers |-> File(<<c.user, c.sudo>>, "440", h.now)]
    ?? (When(c.keys # <<>>, "authorized_keys" := File(c.keys, "600", h.now)) ?? tree)
Without(tree, paths) == [p \in DOMAIN tree \ paths |-> tree[p]]
\* Mutant: the stubs are left where they shadow the generator.
StubsKept(c) == {"stub_log"}
StubsRemoved(c) == InitramfsStubs(c) \cup {"stub_log"}
InitrdOf(c, tree) ==
    IF InitramfsStubs(c) \cap DOMAIN tree # {} THEN <<"none">>
    ELSE <<"initrd", [p \in DOMAIN tree \cap {ModulesDropIn(c), ConfPath(c), "depthcharge_conf", "kernel"} |-> tree[p].content]>>
BootArtifacts(c, tree) ==
    ("initrd" := File(InitrdOf(c, tree), "644", c.epoch)) ?? tree
\* depthchargectl build signs the kernel with its initrd and the root= of fstab.
Signed(c, tree, h) ==
    IF c.boot.method # "depthcharge" THEN tree
    ELSE [kpart |-> File(<<tree["initrd"].content, tree["fstab"].content, tree["cmdline"].content>>, "644", c.epoch),
          depthcharge_config |-> File(DepthchargeConfig(c, TRUE), "644", h.now)] ?? tree
Customized(c, tree, after, h) ==
    LET own == Without(Accounts(c, Laid(tree, after), h), {"sources_list"} \cup StubsRemoved(c))
    IN Signed(c, ("time_wait_sync" := File(<<"link">>, "644", h.now)) ?? BootArtifacts(c, own), h)
\* usermod knows the groups, the suite's tzdata has the zone, locale-gen left an archive.
CustomizeRuns(c) == c.groups \subseteq c.known.groups /\ c.timezone \in c.known.zones

\* coverage: a listed module is in the initrd or built into the kernel.
Modules(c) == {c.modules[i] : i \in DOMAIN c.modules}
InInitrd(c, tree) == IF tree["initrd"].content[1] = "initrd" THEN Modules(c) \cap c.known.loadable ELSE {}
Coverage(c, tree) == Modules(c) \ (InInitrd(c, tree) \cup c.known.builtin)
CheckInitramfsModules(c, tree) == c.modules = <<>> \/ Coverage(c, tree) = {}

\* Export: nothing under /dev, and no time after the epoch.
Clip(mtime, epoch) == IF mtime > epoch THEN epoch ELSE mtime
Exported(c, tree) ==
    [p \in DOMAIN tree \ {"dev_null"} |-> File(tree[p].content, tree[p].mode, Clip(tree[p].mtime, c.epoch))]
\* A tar that was being written has no member to count on.
Cut == Empty
RequiredTarMembers == {"os_release", "fstab", "shadow"}
ValidTar(t) == RequiredTarMembers \subseteq DOMAIN t
-----------------------------------------------------------------------------
(* The node *)

Idle == rc = "idle"
Leave == rc' = "idle" /\ pre' = Empty /\ overlay' = Empty /\ plan' = Nil /\ rootdir' = Empty

BeginNode(pin) ==
    /\ Idle /\ nodes < MaxNodes
    /\ pin => planFile # Nil
    /\ nodes' = nodes + 1 /\ replayed' = IF pin THEN planFile ELSE Nil
    /\ pre' = StagePreinstallOverlay(config, host)
    /\ overlay' = StageOverlay(config, host)
    /\ rc' = "plan"
    /\ UNCHANGED <<config, archive, host, plan, rootdir, strays, rcache, planFile, tarFile, manFile>>

\* The plan is taken once: it is the key, the set to install and the manifest.
TakePlan(u) ==
    /\ rc = "plan"
    /\ replayed = Nil => Resolvable(config, archive)
    /\ plan' = IF replayed # Nil THEN ReadPinnedPlan(replayed) ELSE Plan(Resolve(config, archive), u)
    /\ planFile' = IF replayed # Nil THEN replayed ELSE PublishedPlan(plan')
    /\ rc' = "look"
    /\ UNCHANGED <<config, archive, host, pre, overlay, replayed, rootdir, strays, rcache, tarFile, manFile, nodes>>

Key == RootfsKey(config, plan, pre, overlay)
Restore ==
    /\ rc = "look" /\ Key \in DOMAIN rcache
    /\ tarFile' = rcache[Key].tar /\ manFile' = rcache[Key].man
    /\ rc' = "done"
    /\ UNCHANGED <<config, archive, host, pre, overlay, plan, replayed, rootdir, strays, rcache, planFile, nodes>>

\* A miss, or --refresh.  sweep_provisioned takes the trees of killed runs first.  A
\* replayed plan names the build's own packages by name: they have to be in the pool.
Installs(c, p) == \A q \in p.packages : Local(q) => q \in c.debs
Bootstrap ==
    /\ rc = "look" /\ Installs(config, plan)
    /\ strays' = {}
    /\ rootdir' = Bootstrapped(config, plan.packages, pre, host)
    /\ rc' = "customize"
    /\ UNCHANGED <<config, archive, host, pre, overlay, plan, replayed, rcache, planFile, tarFile, manFile, nodes>>

Customize ==
    /\ rc = "customize" /\ CustomizeRuns(config)
    /\ rootdir' = Customized(config, rootdir, overlay, host)
    /\ CheckInitramfsModules(config, rootdir')
    /\ rc' = "export"
    /\ UNCHANGED <<config, archive, host, pre, overlay, plan, replayed, strays, rcache, planFile, tarFile, manFile, nodes>>

\* The tar is written onto its final name, then the manifest.
ExportBegins ==
    /\ rc = "export" /\ tarFile' = Cut /\ rc' = "exporting"
    /\ UNCHANGED <<config, archive, host, pre, overlay, plan, replayed, rootdir, strays, rcache, planFile, manFile, nodes>>
ExportRootfsTar ==
    /\ rc = "exporting"
    /\ tarFile' = Exported(config, rootdir) /\ manFile' = SolvedManifest(plan.packages)
    /\ rc' = "put"
    /\ UNCHANGED <<config, archive, host, pre, overlay, plan, replayed, rootdir, strays, rcache, planFile, nodes>>
PutTree ==
    /\ rc = "put"
    /\ rcache' = (Key := [tar |-> tarFile, man |-> manFile]) ?? rcache
    /\ rc' = "done"
    /\ UNCHANGED <<config, archive, host, pre, overlay, plan, replayed, rootdir, strays, planFile, tarFile, manFile, nodes>>

EndNode ==
    /\ rc = "done" /\ Leave
    /\ UNCHANGED <<config, archive, host, replayed, strays, rcache, planFile, tarFile, manFile, nodes>>
\* A failure drops its provisioned tree (ProvisionedRoot, PoolDir); a kill leaves it.
NodeFails ==
    /\ rc \notin {"idle", "done"} /\ Leave
    /\ UNCHANGED <<config, archive, host, replayed, strays, rcache, planFile, tarFile, manFile, nodes>>
NodeKilled(u) ==
    /\ rc \in {"customize", "export", "exporting", "put"} /\ Leave
    /\ strays' = strays \cup {u}
    /\ UNCHANGED <<config, archive, host, replayed, rcache, planFile, tarFile, manFile, nodes>>

\* The layers or the lock are edited, the archive moves, another machine shares the cache.
Between == Idle /\ nodes > 0 /\ nodes < MaxNodes
Reconfigured ==
    /\ Between /\ config' \in Configs \ {config}
    /\ UNCHANGED <<archive, host, pre, overlay, plan, replayed, rootdir, strays, rcache, planFile, tarFile, manFile, rc, nodes>>
ArchiveMoves ==
    /\ (Between \/ rc = "look") /\ archive' \in Archives \ {archive}
    /\ UNCHANGED <<config, host, pre, overlay, plan, replayed, rootdir, strays, rcache, planFile, tarFile, manFile, rc, nodes>>
OtherHost ==
    /\ Between /\ host' \in Hosts \ {host}
    /\ UNCHANGED <<config, archive, pre, overlay, plan, replayed, rootdir, strays, rcache, planFile, tarFile, manFile, rc, nodes>>

RootfsInit ==
    /\ config \in Firsts /\ archive \in Archives /\ host \in Hosts
    /\ pre = Empty /\ overlay = Empty /\ plan = Nil /\ replayed = Nil /\ rootdir = Empty /\ strays = {}
    /\ rcache = Empty /\ planFile = Nil /\ tarFile = Empty /\ manFile = Nil /\ rc = "idle" /\ nodes = 0

RootfsNext ==
    \/ \E pin \in BOOLEAN : BeginNode(pin)
    \/ \E u \in Ids : TakePlan(u) \/ NodeKilled(u)
    \/ Restore \/ Bootstrap \/ Customize \/ ExportBegins \/ ExportRootfsTar \/ PutTree \/ EndNode \/ NodeFails
    \/ Reconfigured \/ ArchiveMoves \/ OtherHost

RootfsSpec == RootfsInit /\ [][RootfsNext]_rootfsVars

RootfsTypeOK ==
    /\ config \in Configs /\ archive \in Archives /\ host \in Hosts /\ nodes \in 0..MaxNodes
    /\ rc \in {"idle", "plan", "look", "customize", "export", "exporting", "put", "done"}
    /\ strays \subseteq Ids
    /\ \A k \in DOMAIN rcache : ValidTar(rcache[k].tar)
-----------------------------------------------------------------------------
\* A machine whose umask and clocks leave no trace.
Bare(c) == [umask |-> "022", checkout |-> c.epoch, now |-> c.epoch]
\* The tree of a build on it, made from nothing.
Expected(c, packages) ==
    Exported(c, Customized(c, Bootstrapped(c, packages, StagePreinstallOverlay(c, Bare(c)), Bare(c)),
                           StageOverlay(c, Bare(c)), Bare(c)))

\* A plan names the build's own packages by name and version: their bytes are the pool's.
Own(c, packages) ==
    {q \in packages : ~Local(q)}
    \cup {d \in c.debs : \E q \in packages : Local(q) /\ q.name = d.name /\ q.ver = d.ver}

\* A node that succeeds leaves the tar a build from nothing makes of the resolved config, the
\* published plan and the build's own packages, byte for byte, restored or bootstrapped, on
\* whichever host and whoever filled the cache; and the manifest beside it lists them.
ServedIsAsked ==
    rc = "done" =>
        /\ tarFile = Expected(config, Own(config, planFile.packages))
        /\ manFile = SolvedManifest(Own(config, planFile.packages))

\* The tar a node hands on passes validate_tar; its initrd was made after the image's own
\* configuration was in place, with every module the layers list; no placeholder, device node
\* or apt source of the bootstrap is left in it; its account is locked; and depthcharge's
\* hooks, asleep while the packages were configured, are armed.
FitToFormat ==
    rc = "done" =>
        /\ ValidTar(tarFile)
        /\ tarFile["initrd"].content = <<"initrd", [p \in DOMAIN tarFile \cap {ModulesDropIn(config), ConfPath(config), "depthcharge_conf", "kernel"} |-> tarFile[p].content]>>
        /\ Modules(config) \subseteq config.known.loadable \cup config.known.builtin
        /\ DOMAIN tarFile \cap {"update-initramfs", "dracut", "stub_log", "sources_list", "dev_null"} = {}
        /\ tarFile["shadow"].content = <<"locked">>
        /\ config.boot.method = "depthcharge" =>
              tarFile["depthcharge_config"].content.armed /\ ~tarFile["debconf"].content["depthcharge_config"].armed
=============================================================================
