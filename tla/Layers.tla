------------------------------- MODULE Layers -------------------------------
(***************************************************************************)
(* The config's shapes (core/src/model.rs, feature.rs, distro.rs,          *)
(* expect.rs, datavolume.rs): what each layer file may hold once it is     *)
(* parsed, what a parsed entry must satisfy by itself, what a request may  *)
(* name, and what a resolved build is.  Descriptions are left out.         *)
(* Optional values are sequences of at most one.                           *)
(***************************************************************************)
EXTENDS Integers, Sequences

CONSTANT
    Shaped       \* Shaped[k]: the texts that the validator of k accepts

Maybe(S) == {s \in Seq(S) : Len(s) <= 1}
NameList == Seq(STRING)
NameSet == SUBSET STRING

\* Option::or
Or(a, b) == IF a # <<>> THEN a ELSE b
Elems(s) == {s[i] : i \in DOMAIN s}

Arch == {"arm64", "armv7", "riscv64"}
Soc == {"rk3588", "rk3576", "rk3566", "rk3288"}
BootMethod == {"rkbin", "depthcharge"}
DiskLayout == {"combined", "split"}
SudoPolicy == {"nopasswd", "password"}
KernelFlavor == {"mainline", "vendor", "distro-package"}
InitramfsGenerator == {"initramfs-tools", "dracut"}
InitramfsCompress == {"xz", "zstd"}
Deliverable == {"image", "uboot"}

\* Arch::debian_arch
DebianArch(a) == IF a = "armv7" THEN "armhf" ELSE a

MIN_PASSWORD_LENGTH == 8
MAX_PASSWORD_LENGTH == 64
CONSOLE_LOGLEVEL_ARG == "loglevel=4"
DEFAULT_PATCHES_REF == "main"

\* A patch repository's ref is there exactly when a series is taken from it.
PatchesRef(taken, ref) == IF taken THEN Or(ref, <<DEFAULT_PATCHES_REF>>) ELSE <<>>
-----------------------------------------------------------------------------
(* What a layer lists. *)

\* PackageEntry: a name, or a table that says for which suites or distributions.
Plain(n) == [name |-> n, plain |-> TRUE]
PlainPackage == [name: STRING, plain: {TRUE}]
ConditionalPackage == [name: STRING, plain: {FALSE}, suites: Maybe(NameSet), distros: Maybe(NameSet)]
PackageEntry == PlainPackage \cup ConditionalPackage

\* PackageEntry::validate: a table has exactly one condition, and it names something.
PackageValid(e) ==
    e.plain \/ /\ Len(e.suites) + Len(e.distros) = 1
               /\ (e.suites \o e.distros)[1] # {}

\* PackageEntry::applies_to
AppliesTo(e, distro, suite) ==
    e.plain \/ (IF e.suites # <<>> THEN suite \in e.suites[1]
                ELSE e.distros # <<>> /\ distro \in e.distros[1])

\* ExtraDeb: pinned by content, found at a URL or a path, wanted by the image or by ffmpeg.
ExtraDebTarget == {"image", "ffmpeg"}
ExtraDeb == [sha256: STRING, url: Maybe(STRING), path: Maybe(STRING), targets: SUBSET ExtraDebTarget]

\* ExtraDeb::validate, on whether the path stays below its root and the digest is one.
ExtraDebValid(e) ==
    /\ Len(e.url) + Len(e.path) = 1
    /\ e.path # <<>> => e.path[1] \in Shaped["path"]
    /\ e.targets # {} /\ e.sha256 \in Shaped["digest"]

GitSource == [git: STRING, ref: STRING]

\* AptSource, validate_apt_source: only a flat repository, a suite that ends in a slash, has no components.
AptSource == [name: STRING, uri: STRING, suite: STRING, components: NameSet, keyring: STRING]
AptSourceValid(s) ==
    /\ s.name \in Shaped["stem"] /\ s.keyring \in Shaped["stem"] /\ s.uri \in Shaped["url"]
    /\ s.components = {} => s.suite \in Shaped["flat"]

FfmpegLib == [flag: STRING, links: NameList]

\* UserspaceTree: a library compiled for the media stack, and how ffmpeg is told of it.
UserspaceTree ==
    [name: STRING, source: GitSource, debs: NameList, links: NameList, flag: Maybe(STRING), needs: NameList,
     patched: BOOLEAN, optional: BOOLEAN, deps: NameList, filter: Maybe(STRING)]
FfmpegSources == [base: GitSource, rockchip: Maybe(GitSource)]

\* Keymap: a table, or a layout alone with the default of the rest.
Keymap == [layout: STRING, model: STRING, variant: STRING, options: STRING]
FromLayout(l) == [layout |-> l, model |-> "pc105", variant |-> "", options |-> ""]
KeymapValid(k) == k.layout # "" /\ \A f \in DOMAIN k : k[f] \in Shaped["xkb"]
-----------------------------------------------------------------------------
(* Applications built from source. *)

DotnetSdk == [version: STRING, sha512: SUBSET [host: STRING, hash: STRING]]
DotnetDebBuild == [packaging: GitSource, sourceDir: STRING, project: STRING, sdk: DotnetSdk]
App ==
    [name: STRING, deb: STRING, source: GitSource, series: NameList, patchesUrl: Maybe(STRING),
     patchesRef: Maybe(STRING), build: DotnetDebBuild]

\* dotnet_rid: the architectures .NET is published for.
DotnetRids == {"amd64", "arm64", "armhf"}

\* check_app, of an application that is to run on an architecture.
AppValid(a, arch) ==
    /\ a.name \in Shaped["app"] /\ a.deb \in Shaped["deb"]
    /\ "" \notin {a.source.git, a.source.ref, a.build.packaging.git, a.build.packaging.ref}
    /\ "" \notin Elems(a.series) /\ (a.series # <<>> => a.patchesUrl # <<>>)
    /\ {a.build.sourceDir, a.build.project} \subseteq Shaped["path"]
    /\ a.build.sdk.version \in Shaped["release"]
    /\ a.build.sdk.sha512 # {}
    /\ \A s \in a.build.sdk.sha512 : s.host \in DotnetRids /\ s.hash \in Shaped["sha512"]
    /\ DebianArch(arch) \in DotnetRids

\* What check_app hands back.
CheckedApp(a) == [a EXCEPT !.patchesRef = PatchesRef(a.series # <<>>, a.patchesRef)]
-----------------------------------------------------------------------------
(* Expectations: what the layers say the booted board will show. *)

Expectation ==
    [check: STRING, path: Maybe(STRING), device: Maybe(STRING), driver: Maybe(STRING), name: Maybe(STRING),
     pattern: Maybe(STRING)]
Given(e) == {f \in DOMAIN e \ {"check"} : e[f] # <<>>}

\* A kind of check, with the fields it takes; the kinds a build derives cannot be authored.
Takes(kind) ==
    CASE kind \in {"file", "dtb", "firmware", "devnode"} -> {"path"}
      [] kind = "driver-bound" -> {"device", "driver"}
      [] kind = "sound-card" -> {"name"}
      [] kind = "no-dmesg-match" -> {"pattern"}
      [] OTHER -> {}

\* Expectation::validate: absolute, relative, a word or a line, as the kind asks.
ExpectationShaped(e) == \A f \in Given(e) : e[f][1] \in Shaped[e.check]

\* TryFrom<ExpectRaw>
ExpectationValid(e) ==
    Takes(e.check) # {} /\ Given(e) = Takes(e.check) /\ ExpectationShaped(e)

ExpectScope == {"soc", "boot-method", "device", "kernel", "feature", "kmod"}
ExpectationGroup == [scope: ExpectScope, name: STRING, expect: Seq(Expectation)]
-----------------------------------------------------------------------------
(* Data volumes: disks beside the one that boots. *)

DiskKind == {"nvme", "sata", "usb", "mmc"}
VolumeMatch == [by: {"kind"}, at: DiskKind] \cup [by: {"device"}, at: STRING]
CreatePolicy == {"if-blank", "never"}
DataVolume == [match: VolumeMatch, label: STRING, fstype: {"ext4"}, mount: STRING, create: CreatePolicy]

DataVolumeValid(v) ==
    /\ v.mount \in Shaped["mount"] /\ v.label \in Shaped["label"]
    /\ v.match.by = "device" => v.match.at \in Shaped["devnode"]

\* validate_all: a label and a mount point name one volume.
VolumesValid(vs) ==
    \A i \in DOMAIN vs :
        /\ DataVolumeValid(vs[i])
        /\ \A j \in DOMAIN vs \ {i} : vs[i].label # vs[j].label /\ vs[i].mount # vs[j].mount
-----------------------------------------------------------------------------
(* The layers. *)

ArchLayer == [kernel: STRING, image: STRING, cross: STRING]

\* RkbinLayer: a layer states only its deltas.
RkbinUpstream == [git: STRING, dir: STRING]
RkbinLayer == [atf: Maybe(STRING), tpl: Maybe(STRING), bl32: Maybe(STRING), upstream: Maybe(RkbinUpstream)]
UpstreamValid(u) == u.git # "" /\ u.dir \in Shaped["path"]

\* What every layer below the features may add to the root filesystem.
Contribution ==
    [groups: NameSet, packages: Seq(PackageEntry), exclude: NameList, debs: Seq(ExtraDeb), expect: Seq(Expectation)]

\* What the silicon and the board say alike.
InitramfsLayer == [modules: NameList]
Hardware == [blobs: RkbinLayer, initramfs: InitramfsLayer, firmware: Seq(PackageEntry), caveats: NameList]

SocLayer ==
    [arch: Arch, modules: NameList, hw: Hardware, adds: Contribution,
     userspace: Seq(UserspaceTree), ffmpeg: Maybe(FfmpegSources)]

RockchipRkbinLayer ==
    [source: STRING, ref: STRING, patchesUrl: Maybe(STRING), patchesRef: Maybe(STRING),
     offsets: [idbloader: STRING, itb: STRING, rootfs: STRING], adds: Contribution]

DepthchargeLayer ==
    [cmdline: NameSet, slots: Nat, priority: Nat, tries: Nat, successful: BOOLEAN, at: Nat, mib: Nat, adds: Contribution]

\* BootMethodLayer: one layer for each method.
BootMethodLayer == [rkbin: RockchipRkbinLayer, depthcharge: DepthchargeLayer]

\* DeviceDepthcharge: a board's profiles, and its own size of a kernel slot.
DeviceDepthcharge == [board: STRING, boards: NameSet, mib: Maybe(Nat)]

DevicePolicy == [size: Maybe(STRING), keymap: Maybe(Keymap)]

DeviceLayer ==
    [name: STRING, soc: Soc, method: BootMethod, methods: SUBSET BootMethod, layout: DiskLayout,
     dts: NameSet, dtb: STRING, kmods: NameList, cmdline: NameSet, hostname: STRING,
     series: NameSet, defaultSeries: Maybe(STRING), depthcharge: Maybe(DeviceDepthcharge),
     defconfig: STRING, kernel: STRING, kernels: NameSet, fragments: NameList, patches: NameList,
     suite: STRING, suites: NameSet, policy: DevicePolicy, hw: Hardware, adds: Contribution]

BaseLayer ==
    [adds: Contribution,
     policy: [locale: Maybe(STRING), extras: Maybe(NameSet), timezone: Maybe(STRING), ntp: Maybe(NameSet),
              sudo: Maybe(SudoPolicy), password: Maybe(Nat), keys: Maybe(NameSet)]]

\* KernelSource: a tree by name, or a repository.
KernelSource == [tree: STRING] \cup GitSource

\* KernelDef: compiled from its sources, or a package of the distribution.
CompiledKernelDef ==
    [compiled: {TRUE}, flavor: KernelFlavor, socs: SUBSET Soc, libre: BOOLEAN, source: KernelSource,
     track: Maybe(STRING), defconfig: STRING, fragments: NameList, series: NameList,
     patchesUrl: Maybe(STRING), patchesRef: Maybe(STRING), expect: Seq(Expectation)]
DistroKernelDef ==
    [compiled: {FALSE}, flavor: KernelFlavor, socs: SUBSET Soc, package: STRING, expect: Seq(Expectation)]
KernelDef == CompiledKernelDef \cup DistroKernelDef

\* KmodLayer: an out-of-tree module, and the firmware it may bring.
KmodFirmware == [subdir: STRING, install: STRING]
KmodLayer ==
    [source: GitSource, subdir: STRING, patchDir: STRING, repoPatches: NameList, localPatches: NameList,
     makeArgs: NameList, modules: NameList, firmware: Maybe(KmodFirmware), expect: Seq(Expectation)]

\* validate_kmod: paths stay below their roots, files are bare names, arguments are assignments.
KmodValid(n, k) ==
    /\ n \in Shaped["deb"] /\ "" \notin {k.source.git, k.source.ref}
    /\ {k.subdir, k.patchDir} \cup UNION {{f.subdir, f.install} : f \in Elems(k.firmware)} \subseteq Shaped["path"]
    /\ Elems(k.repoPatches \o k.localPatches \o k.modules) \subseteq Shaped["file"]
    /\ Elems(k.makeArgs) \subseteq Shaped["assignment"]

DistroPocket == [suffix: STRING, mirror: Maybe(STRING), snapshot: Maybe(STRING)]
DistroLayer ==
    [suites: NameSet, rolling: NameSet, mirror: STRING, snapshot: Maybe(STRING), pockets: Seq(DistroPocket),
     free: NameSet, components: NameSet, keyring: STRING, user: STRING,
     generator: InitramfsGenerator, packages: Seq(PackageEntry), exclude: NameList]

Feature ==
    [conflicts: NameSet, requires: NameSet, provides: NameSet, socs: SUBSET Soc, archs: SUBSET Arch,
     media: BOOLEAN, nonfree: BOOLEAN, fragments: NameList, patches: NameList, apt: Seq(AptSource),
     apps: Seq(App), libs: Seq(FfmpegLib), packages: Seq(PackageEntry), exclude: NameList,
     debs: Seq(ExtraDeb), caveats: NameList, expect: Seq(Expectation)]
-----------------------------------------------------------------------------
(* A recipe's claim of what was tried. *)

SupportStatus == {"validated", "expected", "experimental"}
Date == [year: 0..9999, month: 0..99, day: 0..99]
Support == [status: SupportStatus, commit: Maybe(STRING), date: Date, caveats: NameList]

\* check_iso_date
Leap(y) == y % 4 = 0 /\ (y % 100 # 0 \/ y % 400 = 0)
LastDay(y, m) == IF m \in {4, 6, 9, 11} THEN 30 ELSE IF m # 2 THEN 31 ELSE IF Leap(y) THEN 29 ELSE 28
DateValid(d) == d.month \in 1..12 /\ d.day \in 1..LastDay(d.year, d.month)

\* TryFrom<SupportDoc>: exactly a validated claim names the commit that booted.
SupportValid(s) ==
    /\ DateValid(s.date) /\ Elems(s.caveats) \subseteq Shaped["caveat"]
    /\ s.status = "validated" <=> s.commit # <<>>
    /\ Elems(s.commit) \subseteq Shaped["commit"]

\* Recipe, beside the axes it shares with the command line.
Recipe ==
    [device: STRING, deliverable: Deliverable, volumes: Seq(DataVolume), selftest: BOOLEAN, support: Maybe(Support)]
-----------------------------------------------------------------------------
(* What a request resolves to. *)

ResolvedCompiledKernel ==
    [id: STRING, flavor: KernelFlavor, source: KernelSource, track: Maybe(STRING), defconfig: STRING,
     fragments: NameList, series: NameList, patchesUrl: Maybe(STRING), patchesRef: Maybe(STRING), libre: BOOLEAN]
ResolvedDistroKernel == [id: STRING, package: STRING]
ResolvedKernel == ResolvedCompiledKernel \cup ResolvedDistroKernel

ResolvedKmod ==
    [name: STRING, source: GitSource, subdir: STRING, patchDir: STRING, repoPatches: NameList,
     localPatches: NameList, makeArgs: NameList, modules: NameList, firmware: Maybe(KmodFirmware)]

\* Kpart: how many slots, of what size, and the attributes of the first.
KernelPartition == [slots: Nat, at: Nat, mib: Nat, priority: Nat, tries: Nat, successful: BOOLEAN]

Offsets == [idbloader: STRING, itb: STRING, rootfs: STRING]
Rkbin == [atf: STRING, tpl: STRING, bl32: Maybe(STRING), upstream: Maybe(RkbinUpstream)]
ResolvedRkbinBoot ==
    [method: {"rkbin"}, defconfig: STRING, source: STRING, ref: STRING, series: Maybe(STRING),
     patchesUrl: Maybe(STRING), patchesRef: Maybe(STRING), blobs: Rkbin, offsets: Offsets]
ResolvedDepthchargeBoot ==
    [method: {"depthcharge"}, board: STRING, kpart: KernelPartition, cmdline: NameSet, rootfs: Nat,
     compress: InitramfsCompress]
ResolvedBoot == ResolvedRkbinBoot \cup ResolvedDepthchargeBoot

Pocket == [suite: NameList, mirror: STRING, snapshot: Maybe(STRING)]
ResolvedDistro == [name: STRING, pockets: Seq(Pocket), components: NameSet, keyring: STRING]

\* What the request, the board or the base decides of the system.
ResolvedPolicy ==
    [size: Maybe(STRING), keymap: Maybe(Keymap), locale: Maybe(STRING), extras: Maybe(NameSet),
     timezone: Maybe(STRING), ntp: Maybe(NameSet), sudo: Maybe(SudoPolicy),
     password: Maybe(Nat), keys: Maybe(NameSet)]

\* What is compiled or fetched for the image beside its kernel.
ResolvedStack ==
    [kmods: Seq(ResolvedKmod), userspace: Seq(UserspaceTree), ffmpeg: Maybe(FfmpegSources), nonfree: BOOLEAN,
     apt: Seq(AptSource), debs: Seq(ExtraDeb), libs: Seq(FfmpegLib), apps: Seq(App),
     expects: Seq(ExpectationGroup), selftest: BOOLEAN]

ResolvedImage ==
    [kernel: ResolvedKernel, suite: STRING, components: NameSet, generator: InitramfsGenerator,
     features: NameList, libre: BOOLEAN, user: STRING, hostname: STRING, packages: NameList, exclude: NameList,
     groups: NameSet, modules: NameList, policy: ResolvedPolicy, volumes: Seq(DataVolume), stack: ResolvedStack]

\* Caveat: a limitation, and the first layer that stated it.
CaveatScope == {"soc", "device", "feature", "recipe"}
Caveat == [text: STRING, scope: CaveatScope]

ResolvedBuild ==
    [device: STRING, arch: Arch, soc: Soc, layout: DiskLayout, boot: ResolvedBoot, dtb: STRING, dts: NameSet,
     cmdline: NameSet, modules: NameList, kbuild: ArchLayer, caveats: Seq(Caveat), packaging: STRING,
     distro: ResolvedDistro, image: Maybe(ResolvedImage)]
=============================================================================
