----------------------------- MODULE Resolution -----------------------------
(***************************************************************************)
(* Layer resolution (core/src/resolve.rs, feature.rs, distro.rs): a build  *)
(* point's request, from the command line, the reference's feature suffix  *)
(* and the recipe, is settled against the board's layers, and is refused   *)
(* or becomes the one description every stage builds from.  An optional    *)
(* value is a sequence of at most one; the layers are functions of names.  *)
(***************************************************************************)
EXTENDS Layers, FiniteSets, SequencesExt

CONSTANTS
    Devices, Socs, Archs, Methods, Kernels, Distros, Features, Kmods, Base,   \* the layers
    ModuleKey,   \* ModuleKey[n]: a module name with its dashes read as underscores
    Requests     \* what is asked for

\* Overrides: the axes a request may name.
ImageAxes ==
    {"kernel", "suite", "generator", "features", "size", "locale", "extras", "timezone", "ntp",
     "keymap", "sudo", "password", "keys", "groups"}
Axes == ImageAxes \cup {"series", "layout", "method", "board"}

\* OverrideArgs: the flags there are; a recipe has no key for the boot method.
CliAxes == Axes \ {"generator", "keys", "groups"}
RecipeAxes == Axes \ {"method"}

ASSUME LayersAssumption ==
    /\ \A d \in DOMAIN Devices : Devices[d] \in DeviceLayer
    /\ \A s \in DOMAIN Socs : s \in Soc /\ Socs[s] \in SocLayer
    /\ DOMAIN Archs = Arch /\ \A a \in Arch : Archs[a] \in ArchLayer
    /\ Methods \in BootMethodLayer /\ Base \in BaseLayer
    /\ \A k \in DOMAIN Kernels : Kernels[k] \in KernelDef
    /\ \A n \in DOMAIN Distros : Distros[n] \in DistroLayer
    /\ \A f \in DOMAIN Features : Features[f] \in Feature
    /\ \A k \in DOMAIN Kmods : Kmods[k] \in KmodLayer
    /\ \A r \in Requests :
          /\ DOMAIN r = {"device", "deliverable", "volumes", "selftest", "support", "cli", "suffix", "recipe"}
          /\ {r.cli["features"], r.suffix, r.recipe["features"]} \subseteq Maybe(NameList)
          /\ r.device \in DOMAIN Devices /\ DOMAIN r.cli = Axes /\ \A a \in Axes \ CliAxes : r.cli[a] = <<>>
          /\ DOMAIN r.recipe = Axes /\ \A a \in Axes \ RecipeAxes : r.recipe[a] = <<>>
          /\ \A k \in Elems(r.cli["keymap"]) : k = FromLayout(k.layout)
          /\ [device |-> r.device, deliverable |-> r.deliverable, volumes |-> r.volumes,
               selftest |-> r.selftest, support |-> r.support] \in Recipe

VARIABLES
    request,   \* the build point as it was asked for
    verdict,   \* "asked", "refused" or "resolved"
    built      \* the resolved build, once there is one

resolutionVars == <<request, verdict, built>>

\* The elements of a list at some positions, in its order.
Kept(s, at) ==
    LET taken[n \in 0..Len(s)] ==
            IF n = 0 THEN <<>> ELSE IF n \in at THEN Append(taken[n - 1], s[n]) ELSE taken[n - 1]
    IN taken[Len(s)]

\* One element for each key: the first that has it.
Firsts(keys) == {n \in DOMAIN keys : \A m \in 1..(n - 1) : keys[m] # keys[n]}
FirstPerKey(s, keys) == Kept(s, Firsts(keys))

\* extend_names: the first mention of each.
Distinct(s) == FirstPerKey(s, s)

\* What the selected features list under one key, in selection order.
Of(fs, key) == FlattenSeq([i \in DOMAIN fs |-> Features[fs[i]][key]])
-----------------------------------------------------------------------------
(* resolve_recipe: the command line wins over the suffix, the suffix over the recipe. *)

MergedRecipeFirst(r) ==
    [a \in Axes |->
        CASE a = "features" -> Or(r.cli[a], Or(r.suffix, r.recipe[a]))
          [] a = "method" -> r.cli[a]
          [] OTHER -> Or(r.recipe[a], r.cli[a])]

Merged(r) ==
    [a \in Axes |->
        CASE a = "features" -> Or(r.cli[a], Or(r.suffix, r.recipe[a]))
          [] a = "method" -> r.cli[a]
          [] OTHER -> Or(r.cli[a], r.recipe[a])]

AuthoredFeatures(r) == r.cli["features"] = <<>> /\ r.suffix = <<>>

Method(d, o) == Or(o["method"], <<d.method>>)[1]
Layout(d, o) == Or(o["layout"], <<d.layout>>)[1]
Selected(o) == Or(o["features"], <<<<>>>>)[1]

MethodAllowed(d, o, deliverable) ==
    /\ Method(d, o) \in d.methods
    /\ deliverable = "uboot" => Method(d, o) = "rkbin"
-----------------------------------------------------------------------------
(* What a board's own files must satisfy, on every path that builds it. *)

\* validate_device_dts: the tree the board boots is one its sources build.
DeviceDts(d) == d.dts = {} \/ d.dtb \in d.dts

\* resolve_kmods, validate_kmod
DeviceKmods(d) ==
    /\ \A i, j \in DOMAIN d.kmods : d.kmods[i] = d.kmods[j] => i = j
    /\ \A k \in Elems(d.kmods) : k \in DOMAIN Kmods /\ KmodValid(k, Kmods[k])

KmodOf(n) ==
    LET k == Kmods[n] IN
    [name |-> n, source |-> k.source, subdir |-> k.subdir, patchDir |-> k.patchDir, repoPatches |-> k.repoPatches,
     localPatches |-> k.localPatches, makeArgs |-> k.makeArgs, modules |-> k.modules, firmware |-> k.firmware]

\* validate_kernel_cmdline, on the words of the line.
KernelCmdline(d) == d.cmdline \cap {"$", "root="} = {}

\* validate_depthcharge_cmdline, on the method's words and the board's.
SignedCmdline(d) == Methods["depthcharge"].cmdline \cup {CONSOLE_LOGLEVEL_ARG} \cup d.cmdline
DepthchargeCmdline(d) == SignedCmdline(d) \cap {"%", "root="} = {}

\* resolve_initramfs_modules: one spelling of each, the silicon's first.
ModulesNamed(d) == Socs[d.soc].hw.initramfs.modules \o d.hw.initramfs.modules
InitramfsModules(d) ==
    LET named == ModulesNamed(d) IN FirstPerKey(named, [i \in DOMAIN named |-> ModuleKey[named[i]]])

\* resolve_rkbin: the board's blob, else the silicon's, a blank one counting as none.
Clean(o) == IF o = <<"">> THEN <<>> ELSE o
Blob(d, b) == Or(Clean(d.hw.blobs[b]), Clean(Socs[d.soc].hw.blobs[b]))
Upstream(d) == Or(d.hw.blobs.upstream, Socs[d.soc].hw.blobs.upstream)
RkbinResolves(d) ==
    Blob(d, "atf") # <<>> /\ Blob(d, "tpl") # <<>> /\ \A u \in Elems(Upstream(d)) : UpstreamValid(u)

\* What a layer expects of the board is parsed with the layer.
Parsed(expect) == \A e \in Elems(expect) : ExpectationValid(e)

BoardFiles(d) ==
    /\ d.soc \in DOMAIN Socs
    /\ DeviceDts(d) /\ DeviceKmods(d) /\ KernelCmdline(d)
    /\ d.hostname \in Shaped["hostname"]
    /\ Elems(ModulesNamed(d)) \subseteq Shaped["module"]
    /\ Parsed(d.adds.expect) /\ Parsed(Socs[d.soc].adds.expect)
    /\ \A k \in Elems(d.kmods) : Parsed(Kmods[k].expect)
-----------------------------------------------------------------------------
(* resolve_boot *)

\* resolve_uboot_series: "none" is the sentinel for pristine sources.
SeriesAsked(d, o) == Or(o["series"], d.defaultSeries)
SeriesResolves(d, o) ==
    LET asked == SeriesAsked(d, o) IN
    IF asked = <<>> THEN d.series = {}
    ELSE asked[1] # "none" => asked[1] \in d.series /\ Methods["rkbin"].patchesUrl # <<>>

Series(d, o) == IF SeriesAsked(d, o) = <<"none">> THEN <<>> ELSE SeriesAsked(d, o)

BoardAsked(d, o) == Or(o["board"], <<d.depthcharge[1].board>>)[1]

\* The board's size of a slot, else the method's; for_kpart_size: a roomy one takes the faster compressor.
SlotMib(d) == Or(d.depthcharge[1].mib, <<Methods["depthcharge"].mib>>)[1]
ROOMY_KPART_MIB == 32
CompressFor(mib) == IF mib >= ROOMY_KPART_MIB THEN "zstd" ELSE "xz"

\* MAX_KPART_SLOTS, kpart_flags: the counts the partition table's attributes can hold.
SlotsResolve ==
    LET m == Methods["depthcharge"] IN
    m.slots \in Shaped["slots"] /\ m.priority \in Shaped["attribute"] /\ m.tries \in Shaped["attribute"]

BootResolves(d, o) ==
    IF Method(d, o) = "rkbin"
    THEN /\ d.defconfig # "" /\ RkbinResolves(d) /\ SeriesResolves(d, o)
         /\ \A p \in DOMAIN Methods["rkbin"].offsets : Methods["rkbin"].offsets[p] \in Shaped["offset"]
    ELSE /\ Layout(d, o) # "split" /\ d.depthcharge # <<>>
         /\ BoardAsked(d, o) \in d.depthcharge[1].boards /\ BoardAsked(d, o) \in Shaped["board"]
         /\ DepthchargeCmdline(d) /\ SlotsResolve

Boot(d, o) ==
    IF Method(d, o) = "rkbin"
    THEN LET m == Methods["rkbin"]
             patched == Series(d, o) # <<>> IN
         [method |-> "rkbin", defconfig |-> d.defconfig, source |-> m.source, ref |-> m.ref, series |-> Series(d, o),
          patchesUrl |-> IF patched THEN m.patchesUrl ELSE <<>>, patchesRef |-> PatchesRef(patched, m.patchesRef),
          blobs |-> [atf |-> Blob(d, "atf")[1], tpl |-> Blob(d, "tpl")[1], bl32 |-> Blob(d, "bl32"), upstream |-> Upstream(d)],
          offsets |-> m.offsets]
    ELSE LET m == Methods["depthcharge"] IN
         [method |-> "depthcharge", board |-> BoardAsked(d, o), cmdline |-> SignedCmdline(d),
          kpart |-> [slots |-> m.slots, at |-> m.at, mib |-> SlotMib(d), priority |-> m.priority, tries |-> m.tries,
                     successful |-> m.successful],
          rootfs |-> m.at + m.slots * SlotMib(d), compress |-> CompressFor(SlotMib(d))]

\* reject_rootfs_overrides: a bootloader has no image for these to reach.
RejectRootfsForgets(o) == \A a \in ImageAxes \ {"keymap"} : o[a] = <<>>
RejectRootfsOverrides(o) == \A a \in ImageAxes : o[a] = <<>>
-----------------------------------------------------------------------------
(* The features of the selection, in its order. *)

ConflictsOneWay(fs) ==
    \A i, j \in DOMAIN fs : i < j => fs[j] \notin Features[fs[i]].conflicts

\* ensure_no_conflicts: either of a pair may name the other.
NoConflicts(fs) ==
    \A i, j \in DOMAIN fs :
        i < j => fs[j] \notin Features[fs[i]].conflicts /\ fs[i] \notin Features[fs[j]].conflicts

\* ensure_capabilities_satisfied
Capabilities(fs) ==
    \A f \in Elems(fs) : Features[f].requires \subseteq UNION {Features[g].provides : g \in Elems(fs)}

FeaturesResolve(d, fs) ==
    /\ \A i, j \in DOMAIN fs : fs[i] = fs[j] => i = j
    /\ \A f \in Elems(fs) :
          /\ f \in DOMAIN Features /\ Parsed(Features[f].expect)
          /\ Features[f].socs # {} => d.soc \in Features[f].socs
          /\ Features[f].archs # {} => Socs[d.soc].arch \in Features[f].archs
    /\ NoConflicts(fs) /\ Capabilities(fs)

MediaAccel(fs) == \E f \in Elems(fs) : Features[f].media
Nonfree(fs) == \E f \in Elems(fs) : Features[f].nonfree
MediaSources(d, fs) == MediaAccel(fs) => Socs[d.soc].userspace # <<>> /\ Socs[d.soc].ffmpeg # <<>>

\* kernel_contributions, first_contributing_kernel_input
FeatureFragments(fs) == Distinct(Of(fs, "fragments"))
FeaturePatches(fs) == Distinct(Of(fs, "patches"))
KernelInputs(fs) == FeatureFragments(fs) \o FeaturePatches(fs)

\* merge_apt_sources, merge_apps: one definition of each name.
OneDefinition(sources) == \A s, t \in Elems(sources) : s.name = t.name => s = t
AptSourcesMerge(fs) ==
    (\A s \in Elems(Of(fs, "apt")) : AptSourceValid(s)) /\ OneDefinition(Of(fs, "apt"))
Apps(fs) == LET apps == Of(fs, "apps") IN Distinct([i \in DOMAIN apps |-> CheckedApp(apps[i])])
AppsMerge(d, fs) ==
    (\A a \in Elems(Of(fs, "apps")) : AppValid(a, Socs[d.soc].arch)) /\ OneDefinition(Apps(fs))

\* merge_ffmpeg_libs: one library for each flag, the first one named.
FfmpegLibs(fs) ==
    LET libs == Of(fs, "libs") IN FirstPerKey(libs, [i \in DOMAIN libs |-> libs[i].flag])
-----------------------------------------------------------------------------
(* Kernel, suite and the axes with a default. *)

KernelId(d, o) == Or(o["kernel"], <<d.kernel>>)[1]

\* resolve_kernel: what is compiled, and what a packaged kernel cannot take.
KernelResolves(d, o) ==
    LET fs == Selected(o)
        k == Kernels[KernelId(d, o)] IN
    /\ KernelId(d, o) \in d.kernels \cap DOMAIN Kernels /\ d.soc \in k.socs /\ Parsed(k.expect)
    /\ IF k.compiled
       THEN k.series \o d.patches \o FeaturePatches(fs) # <<>> => k.patchesUrl # <<>>
       ELSE /\ KernelInputs(fs) = <<>>
            /\ d.dts = {} /\ d.fragments = <<>> /\ d.patches = <<>> /\ d.kmods = <<>>

KernelOf(d, o) ==
    LET fs == Selected(o)
        k == Kernels[KernelId(d, o)] IN
    IF k.compiled
    THEN LET series == k.series \o d.patches \o FeaturePatches(fs) IN
         [id |-> KernelId(d, o), flavor |-> k.flavor, source |-> k.source, track |-> k.track, defconfig |-> k.defconfig,
          fragments |-> k.fragments \o d.fragments \o FeatureFragments(fs), series |-> series,
          patchesUrl |-> k.patchesUrl, patchesRef |-> PatchesRef(series # <<>>, k.patchesRef), libre |-> k.libre]
    ELSE [id |-> KernelId(d, o), package |-> k.package]

Suite(d, o) == Or(o["suite"], <<d.suite>>)[1]
DistroFor(s) == {n \in DOMAIN Distros : s \in Distros[n].suites}

\* DistroLayer::validate, of the one layer a suite resolves to.
DistroValid(n) ==
    LET l == Distros[n] IN
    /\ l.suites # {} /\ l.suites \subseteq Shaped["suite"] /\ l.rolling \subseteq l.suites
    /\ {l.mirror} \cup Elems(l.snapshot) \subseteq Shaped["url"]
    /\ \A i, j \in DOMAIN l.pockets : l.pockets[i].suffix = l.pockets[j].suffix => i = j
    /\ \A p \in Elems(l.pockets) :
          p.suffix \in Shaped["suffix"] /\ Elems(p.mirror) \cup Elems(p.snapshot) \subseteq Shaped["url"]
    /\ l.components # {} /\ l.free \subseteq l.components
    /\ l.keyring \in Shaped["stem"] /\ l.user \in Shaped["user"]
    /\ \A e \in Elems(l.packages) : PackageValid(e)

\* distro_for_suite, check_suite_supported: "*" stands alone.
SuiteResolves(d, o) ==
    /\ Suite(d, o) \in Shaped["suite"] /\ Cardinality(DistroFor(Suite(d, o))) = 1
    /\ d.suites # {} /\ ("*" \in d.suites => d.suites = {"*"})
    /\ "*" \in d.suites \/ Suite(d, o) \in d.suites
    /\ \A n \in DistroFor(Suite(d, o)) : DistroValid(n)

DistroOf(d, o) == CHOOSE n \in DistroFor(Suite(d, o)) : TRUE

\* pockets_for: the release first; a rolling suite has no other.
PocketsFor(n, suite) ==
    LET l == Distros[n]
        release == [suite |-> <<suite>>, mirror |-> l.mirror, snapshot |-> l.snapshot] IN
    <<release>> \o
        (IF suite \in l.rolling THEN <<>>
         ELSE [i \in DOMAIN l.pockets |->
                  [suite |-> <<suite, l.pockets[i].suffix>>, mirror |-> Or(l.pockets[i].mirror, <<l.mirror>>)[1],
                   snapshot |-> Or(l.pockets[i].snapshot, l.snapshot)]])

\* DistroLayer::resolve
ResolveDistro(n, suite) ==
    [name |-> n, pockets |-> PocketsFor(n, suite), components |-> Distros[n].components, keyring |-> Distros[n].keyring]

\* image_components: a libre kernel narrows them to the free ones, if there are any.
Libre(d, o) == LET k == Kernels[KernelId(d, o)] IN k.compiled /\ k.libre
Components(d, o) ==
    LET n == Distros[DistroOf(d, o)] IN IF Libre(d, o) THEN n.free ELSE n.components

Generator(d, o) == Or(o["generator"], <<Distros[DistroOf(d, o)].generator>>)[1]
GeneratorResolves(d, o) == Method(d, o) = "depthcharge" => Generator(d, o) = "initramfs-tools"

\* resolve_l10n, resolve_ntp_servers, resolve_account: the request, else the board or the base.
Defaulted == {"size", "locale", "extras", "timezone", "ntp", "keymap", "sudo", "password", "keys"}
Default(d, a) == IF a \in {"size", "keymap"} THEN d.policy[a] ELSE Base.policy[a]
Policy(d, o, a) == Or(o[a], Default(d, a))
Accepted(a, v) == v # <<>> => v[1] \in Shaped[a]
SizeResolves(d, o) == Accepted("size", Policy(d, o, "size"))
L10nResolves(d, o) ==
    /\ \A a \in {"locale", "extras", "timezone"} : Accepted(a, Policy(d, o, a))
    /\ \A k \in Elems(Policy(d, o, "keymap")) : KeymapValid(k)
NtpResolves(d, o) == Accepted("ntp", Policy(d, o, "ntp"))
AccountResolves(d, o) ==
    /\ Elems(Policy(d, o, "password")) \subseteq MIN_PASSWORD_LENGTH..MAX_PASSWORD_LENGTH
    /\ Accepted("keys", Policy(d, o, "keys"))

\* A replacement replaces every layer's groups.
Groups(d, o) ==
    IF o["groups"] # <<>> THEN o["groups"][1]
    ELSE Base.adds.groups \cup Socs[d.soc].adds.groups \cup Methods[Method(d, o)].adds.groups \cup d.adds.groups
GroupsResolve(d, o) == Groups(d, o) \subseteq Shaped["group"]
-----------------------------------------------------------------------------
(* The package set. *)

\* extend_unique, over the layers in the order they merge; the features' come last.
LayerPackages(d, o) ==
    LET soc == Socs[d.soc]
        k == Kernels[KernelId(d, o)] IN
    Base.adds.packages \o Distros[DistroOf(d, o)].packages \o <<Plain(Generator(d, o))>>
        \o soc.adds.packages \o (IF Libre(d, o) THEN <<>> ELSE soc.hw.firmware)
        \o Methods[Method(d, o)].adds.packages
        \o d.adds.packages \o (IF Libre(d, o) THEN <<>> ELSE d.hw.firmware)
        \o (IF k.compiled THEN <<>> ELSE <<Plain(k.package)>>)
AppPackages(fs) == LET apps == Apps(fs) IN [i \in DOMAIN apps |-> Plain(apps[i].deb)]
PackageEntries(d, o) == LayerPackages(d, o) \o Of(Selected(o), "packages") \o AppPackages(Selected(o))

LayerExcludes(d, o) ==
    Base.adds.exclude \o Distros[DistroOf(d, o)].exclude \o Socs[d.soc].adds.exclude
        \o Methods[Method(d, o)].adds.exclude \o d.adds.exclude
Excluded(d, o) == Distinct(LayerExcludes(d, o) \o Of(Selected(o), "exclude"))

\* An exclusion by any layer wins over an inclusion by any other.
Packages(d, o) ==
    LET entries == PackageEntries(d, o)
        here == Kept(entries, {i \in DOMAIN entries : AppliesTo(entries[i], DistroOf(d, o), Suite(d, o))})
        names == Distinct([i \in DOMAIN here |-> here[i].name])
        excluded == Elems(Excluded(d, o)) IN
    Kept(names, {i \in DOMAIN names : names[i] \notin excluded})

\* extend_unique refuses a malformed condition, and one that names no layer there is.
PackagesResolve(d, o) ==
    \A e \in Elems(PackageEntries(d, o)) :
        PackageValid(e) /\ (~e.plain => \A named \in Elems(e.distros) : named \subseteq DOMAIN Distros)

LayerDebs(d, o) == Base.adds.debs \o Socs[d.soc].adds.debs \o Methods[Method(d, o)].adds.debs \o d.adds.debs
DebEntries(d, o) == LayerDebs(d, o) \o Of(Selected(o), "debs")
DebsResolve(d, o) == \A e \in Elems(DebEntries(d, o)) : ExtraDebValid(e)

\* merge_extra_debs: one entry of each content, the first.
ExtraDebs(d, o) ==
    LET debs == DebEntries(d, o) IN FirstPerKey(debs, [i \in DOMAIN debs |-> debs[i].sha256])

\* hardware_caveats, feature_caveats, and the recipe's own last: a text is kept where it is first stated.
Said(scope, texts) == [i \in DOMAIN texts |-> [text |-> texts[i], scope |-> scope]]
ClaimedCaveats(r) == IF r.support = <<>> THEN <<>> ELSE r.support[1].caveats
HardwareCaveats(d) == Said("soc", Socs[d.soc].hw.caveats) \o Said("device", d.hw.caveats)
Caveats(d, o, r) ==
    LET said == HardwareCaveats(d)
                    \o (IF r.deliverable = "uboot" THEN <<>> ELSE Said("feature", Of(Selected(o), "caveats")))
                    \o Said("recipe", ClaimedCaveats(r)) IN
    FirstPerKey(said, [i \in DOMAIN said |-> said[i].text])

\* declared_expectations: one group for each layer that declares any, in the order they merge.
Group(scope, name, expect) == [scope |-> scope, name |-> name, expect |-> expect]
LayerGroups(d, o) ==
    <<Group("soc", d.soc, Socs[d.soc].adds.expect),
      Group("boot-method", Method(d, o), Methods[Method(d, o)].adds.expect),
      Group("device", d.name, d.adds.expect),
      Group("kernel", KernelId(d, o), Kernels[KernelId(d, o)].expect)>>
FeatureGroups(fs) == [i \in DOMAIN fs |-> Group("feature", fs[i], Features[fs[i]].expect)]
KmodGroups(d) == [i \in DOMAIN d.kmods |-> Group("kmod", d.kmods[i], Kmods[d.kmods[i]].expect)]
Expectations(d, o) ==
    LET groups == LayerGroups(d, o) \o FeatureGroups(Selected(o)) \o KmodGroups(d) IN
    Kept(groups, {i \in DOMAIN groups : groups[i].expect # <<>>})
-----------------------------------------------------------------------------
(* resolve_device and resolve_recipe. *)

ImageResolves(d, o) ==
    /\ FeaturesResolve(d, Selected(o))
    /\ KernelResolves(d, o) /\ SuiteResolves(d, o) /\ MediaSources(d, Selected(o))
    /\ AptSourcesMerge(Selected(o)) /\ AppsMerge(d, Selected(o)) /\ Components(d, o) # {} /\ GeneratorResolves(d, o)
    /\ SizeResolves(d, o) /\ L10nResolves(d, o) /\ NtpResolves(d, o) /\ AccountResolves(d, o)
    /\ GroupsResolve(d, o) /\ PackagesResolve(d, o) /\ DebsResolve(d, o)

\* The recipe parses; volumes and their hook come together, and a nonfree build takes no claim.
RecipeResolves(r, o) ==
    /\ \A s \in Elems(r.support) : SupportValid(s)
    /\ IF r.deliverable = "uboot" THEN r.volumes = <<>> /\ ~r.selftest
       ELSE /\ VolumesValid(r.volumes) /\ (r.volumes # <<>> <=> "data_volume" \in Elems(Selected(o)))
            /\ ~(AuthoredFeatures(r) /\ r.support # <<>> /\ Nonfree(Selected(o)))

Resolves(r) ==
    LET d == Devices[r.device]
        o == Merged(r) IN
    /\ MethodAllowed(d, o, r.deliverable) /\ Parsed(Methods[Method(d, o)].adds.expect)
    /\ BoardFiles(d) /\ BootResolves(d, o)
    /\ IF r.deliverable = "uboot"
       THEN /\ RejectRootfsOverrides(o)
            /\ d.suite \in Shaped["suite"] /\ Cardinality(DistroFor(d.suite)) = 1
            /\ \A n \in DistroFor(d.suite) : DistroValid(n)
       ELSE ImageResolves(d, o)
    /\ RecipeResolves(r, o)

\* The sources of the media stack ride only with a feature that builds it.
Stack(d, o, r) ==
    LET fs == Selected(o) IN
    [kmods |-> [i \in DOMAIN d.kmods |-> KmodOf(d.kmods[i])],
     userspace |-> IF MediaAccel(fs) THEN Socs[d.soc].userspace ELSE <<>>,
     ffmpeg |-> IF MediaAccel(fs) THEN Socs[d.soc].ffmpeg ELSE <<>>, nonfree |-> Nonfree(fs),
     apt |-> Distinct(Of(fs, "apt")), debs |-> ExtraDebs(d, o), libs |-> FfmpegLibs(fs), apps |-> Apps(fs),
     expects |-> Expectations(d, o), selftest |-> r.selftest]

Image(d, o, r) ==
    [kernel |-> KernelOf(d, o), suite |-> Suite(d, o), components |-> Components(d, o), generator |-> Generator(d, o),
     features |-> Selected(o), libre |-> Libre(d, o), user |-> Distros[DistroOf(d, o)].user, hostname |-> d.hostname,
     packages |-> Packages(d, o), exclude |-> Excluded(d, o), groups |-> Groups(d, o), modules |-> InitramfsModules(d),
     policy |-> [a \in Defaulted |-> Policy(d, o, a)], volumes |-> r.volumes, stack |-> Stack(d, o, r)]

\* A bootloader is archived for the board's own suite, and its description names no image axis.
Build(r) ==
    LET d == Devices[r.device]
        o == Merged(r)
        packaging == IF r.deliverable = "uboot" THEN d.suite ELSE Suite(d, o) IN
    [device |-> r.device, arch |-> Socs[d.soc].arch, soc |-> d.soc, layout |-> Layout(d, o), boot |-> Boot(d, o),
     dtb |-> d.dtb, dts |-> d.dts, cmdline |-> d.cmdline, modules |-> Socs[d.soc].modules,
     kbuild |-> Archs[Socs[d.soc].arch], caveats |-> Caveats(d, o, r), packaging |-> packaging,
     distro |-> ResolveDistro(CHOOSE n \in DistroFor(packaging) : TRUE, packaging),
     image |-> IF r.deliverable = "uboot" THEN <<>> ELSE <<Image(d, o, r)>>]

ResolutionInit == request \in Requests /\ verdict = "asked" /\ built = <<>>

Resolve ==
    /\ verdict = "asked"
    /\ verdict' = IF Resolves(request) THEN "resolved" ELSE "refused"
    /\ built' = IF Resolves(request) THEN <<Build(request)>> ELSE <<>>
    /\ UNCHANGED request

ResolutionSpec == ResolutionInit /\ [][Resolve]_resolutionVars

ResolutionTypeOK ==
    /\ request.device \in DOMAIN Devices /\ verdict \in {"asked", "refused", "resolved"}
    /\ built # <<>> <=> verdict = "resolved"
    /\ built # <<>> => built[1] \in ResolvedBuild
-----------------------------------------------------------------------------
\* Where a build shows what was asked of an axis.
Shown(b, a) ==
    CASE a = "layout" -> b.layout
      [] a = "method" -> b.boot.method
      [] a = "series" -> Or(b.boot.series, <<"none">>)[1]
      [] a = "board" -> b.boot.board
      [] a = "kernel" -> b.image[1].kernel.id
      [] a \in Defaulted -> b.image[1].policy[a][1]
      [] OTHER -> b.image[1][a]

\* "Ignored by boot methods with no board profile", and the u-boot series by one without u-boot.
Unread(b, a) == a = (IF b.boot.method = "rkbin" THEN "board" ELSE "series")

\* A build that resolves is the one asked for: whatever the command line names is what is
\* built, what only the suffix or the recipe names is built too, and an axis the deliverable
\* does not have is refused, never dropped.
EveryRequestCounts ==
    verdict = "resolved" =>
        \A a \in Axes :
            LET asked == IF request.cli[a] # <<>> THEN request.cli[a]
                         ELSE IF a = "features" /\ request.suffix # <<>> THEN request.suffix
                         ELSE request.recipe[a] IN
            asked # <<>> /\ ~Unread(built[1], a) =>
                /\ a \in ImageAxes => built[1].image # <<>>
                /\ Shown(built[1], a) = asked[1]

\* What a merge by key keeps, without its order: the keys, and the entry of each that the
\* layers state or that all the selected features that state the key agree on.  Of a key
\* that features state differently the code keeps the first selected.
Settled(kept, fixed, chosen, key) ==
    [keys |-> {e[key] : e \in Elems(kept)},
     entries |-> {e \in Elems(kept) : e \in Elems(fixed) \/ \A f \in Elems(chosen) : f[key] = e[key] => f = e}]

\* A build without the order its lists are in; debs are the ones its layers list.
UnorderedStack(s, debs, fs) ==
    [s EXCEPT !.debs = Settled(@, debs, Of(fs, "debs"), "sha256"), !.libs = Settled(@, <<>>, Of(fs, "libs"), "flag"),
              !.apt = Elems(@), !.apps = Elems(@), !.expects = Elems(@)]
UnorderedKernel(k) == [f \in DOMAIN k |-> IF f \in {"fragments", "series"} THEN Elems(k[f]) ELSE k[f]]
Unordered(i, debs) ==
    [i EXCEPT !.features = Elems(@), !.packages = Elems(@), !.exclude = Elems(@),
              !.stack = UnorderedStack(@, debs, i.features), !.kernel = UnorderedKernel(@)]
Content(b, debs) == [b EXCEPT !.caveats = Elems(@), !.image = Unordered(@[1], debs)]

Selecting(fs) == [request EXCEPT !.cli = [request.cli EXCEPT !["features"] = <<fs>>], !.suffix = <<>>]
Suffixed(fs) == [request EXCEPT !.cli = [request.cli EXCEPT !["features"] = <<>>], !.suffix = <<fs>>]

\* A selection is a set of features: named in another order, or by the reference's suffix
\* instead of --feature, it resolves exactly when it did, to a build of the same content, up
\* to which of two features' statements of one .deb or one library is taken.
SelectionIsASet ==
    verdict # "asked" /\ ~AuthoredFeatures(request) /\ request.deliverable = "image" =>
        LET o == Merged(request)
            fs == Selected(o)
            debs == LayerDebs(Devices[request.device], o) IN
        \A p \in Bijection(DOMAIN fs, DOMAIN fs) :
            LET other == [i \in DOMAIN fs |-> fs[p[i]]] IN
            \A r \in {Selecting(other)} \cup (IF other = <<>> THEN {} ELSE {Suffixed(other)}) :
                /\ Resolves(r) <=> verdict = "resolved"
                /\ verdict = "resolved" => Content(Build(r), debs) = Content(built[1], debs)
=============================================================================
