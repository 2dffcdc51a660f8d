---------------------------- MODULE NodesProofs -----------------------------
(***************************************************************************)
(* The first boot of a device, for every number of power cuts and failing  *)
(* commands; the .NET cache, for every set of builds and packages; the     *)
(* stages that hand over one package, for every set of asks, every kill,   *)
(* failure and change of the pins; the gate of a source tree, for every    *)
(* set of signatures and faults; the fetchers, for every batch; the rootfs *)
(* node, for every set of configurations, archives and hosts; and the      *)
(* forecast of a build, for every set of states of what it reads.          *)
(***************************************************************************)
EXTENDS SourceTree, FirstBoot, DotnetCache, PackageStages, Fetching, Rootfs, Forecast, Induction, TLAPS

(***************************************************************************)
(* First boot: what a step that comes after another finds on the disk.     *)
(***************************************************************************)
Grown == {"seed", "debs", "rule", "link", "volume", "mkfs", "mount", "done", "finished"}
Networked == {"volume", "mkfs", "mount", "done", "finished"}

DiskInv ==
    /\ fbpc \in {"partx", "resize"} \cup Grown => part = "disk"
    /\ fbpc = "resize" => seen = "disk"
    /\ fbpc \in Grown => fs = "disk"
MacInv ==
    /\ fbpc = "link" => macs.rule = drawn /\ drawn # 0
    /\ fbpc \in Networked => macs.rule = drawn /\ macs.link = drawn /\ drawn # 0
StampInv ==
    /\ stamped # 0 => fbpc \in {"finished", "skipped"}
    /\ power = "on" => bootno # 0
FirstBootInv ==
    /\ FirstBootTypeOK /\ bootno \in Nat
    /\ DiskInv /\ MacInv /\ StampInv
    /\ fbpc = "mkfs" => volume = "table"
    /\ StampMeansSetUp /\ VolumeDataSurvives

LEMMA FirstBootTypes == FirstBootTypeOK /\ bootno \in Nat /\ [FirstBootNext]_fbVars => FirstBootTypeOK' /\ (bootno \in Nat)'
  <1> SUFFICES ASSUME FirstBootTypeOK, bootno \in Nat, [FirstBootNext]_fbVars PROVE FirstBootTypeOK' /\ (bootno \in Nat)'
    OBVIOUS
  <1> USE FirstBootAssumption DEF FirstBootTypeOK, Steps, UnitOver, FbGoto, deviceVars, Running
  <1>1. CASE PowerOn
    BY <1>1 DEF PowerOn
  <1>2. CASE GenerateKeys \/ GrowPartition \/ TellKernel \/ GrowFilesystem
    BY <1>2 DEF GenerateKeys, GrowPartition, TellKernel, GrowFilesystem
  <1>3. CASE SeedHook \/ DebsHook
    BY <1>3 DEF SeedHook, DebsHook
  <1>4. CASE WriteRule \/ WriteLink
    BY <1>4 DEF WriteRule, WriteLink
  <1>5. CASE VolumeHook \/ MakeVolume \/ MountVolume
    BY <1>5 DEF VolumeHook, MakeVolume, MountVolume
  <1>6. CASE WriteStamp
    BY <1>6 DEF WriteStamp
  <1>7. CASE StepFails \/ PowerCut \/ Restart
    BY <1>7 DEF StepFails, PowerCut, Restart
  <1>8. CASE UNCHANGED fbVars
    BY <1>8 DEF fbVars
  <1> QED BY <1>1, <1>2, <1>3, <1>4, <1>5, <1>6, <1>7, <1>8 DEF FirstBootNext, ScriptStep

LEMMA FirstBootInductive == FirstBootInv /\ [FirstBootNext]_fbVars => FirstBootInv'
  <1> SUFFICES ASSUME FirstBootInv, [FirstBootNext]_fbVars PROVE FirstBootInv'
    OBVIOUS
  <1>t. FirstBootTypeOK /\ bootno \in Nat /\ FirstBootTypeOK' /\ bootno' \in Nat
    BY FirstBootTypes DEF FirstBootInv
  <1>k. /\ seedkeys \in Nat /\ stamped \in Nat /\ drawn \in Nat /\ part \in {"image", "disk"} /\ macs \in [rule: 0..MaxFresh, link: 0..MaxFresh]
        /\ fbpc \in Steps \cup UnitOver
    BY <1>t DEF FirstBootTypeOK
  <1> DEFINE Rest == DiskInv /\ MacInv /\ StampInv /\ (fbpc = "mkfs" => volume = "table") /\ StampMeansSetUp /\ VolumeDataSurvives
  <1>r. Rest
    BY DEF FirstBootInv
  <1>s. SUFFICES Rest'
    BY <1>t DEF FirstBootInv
  <1> USE DEF DiskInv, MacInv, StampInv, StampMeansSetUp, VolumeDataSurvives, Grown, Networked
  <1>1. CASE PowerOn
    BY <1>1, <1>r, <1>k, <1>t DEF PowerOn, deviceVars
  <1>2. CASE GenerateKeys \/ GrowPartition \/ TellKernel \/ GrowFilesystem
    BY <1>2, <1>r, <1>k DEF GenerateKeys, GrowPartition, TellKernel, GrowFilesystem, Running, FbGoto, deviceVars
  <1>3. CASE SeedHook \/ DebsHook
    BY <1>3, <1>r, <1>k DEF SeedHook, DebsHook, Running, FbGoto
  <1>4. CASE WriteRule \/ WriteLink
    BY <1>4, <1>r, <1>k DEF WriteRule, WriteLink, Running, FbGoto
  <1>5. CASE VolumeHook
    BY <1>5, <1>r, <1>k DEF VolumeHook, Ladder, Running, FbGoto
  <1>6. CASE MakeVolume \/ MountVolume
    BY <1>6, <1>r, <1>k DEF MakeVolume, MountVolume, Running, FbGoto, deviceVars
  <1>7. CASE WriteStamp
    BY <1>7, <1>r, <1>k DEF WriteStamp, Running, FbGoto
  <1>8. CASE StepFails \/ PowerCut \/ Restart
    BY <1>8, <1>r, <1>k DEF StepFails, PowerCut, Restart, deviceVars
  <1>9. CASE UNCHANGED fbVars
    BY <1>9, <1>r DEF fbVars
  <1> QED BY <1>1, <1>2, <1>3, <1>4, <1>5, <1>6, <1>7, <1>8, <1>9 DEF FirstBootNext, ScriptStep

LEMMA FirstBootInitially == FirstBootInit => FirstBootInv
  <1> SUFFICES ASSUME FirstBootInit PROVE FirstBootInv
    OBVIOUS
  <1>1. FirstBootTypeOK /\ bootno \in Nat
    <2>1. /\ part = "image" /\ seen = "image" /\ fs = "image" /\ volume = atfirst /\ atfirst \in {"absent", "blank", "ours", "foreign"}
          /\ 0 \in 0..MaxFresh /\ 0 \in 0..MaxCuts /\ 0 \in 0..0
      BY FirstBootAssumption DEF FirstBootInit
    <2> QED BY <2>1 DEF FirstBootInit, FirstBootTypeOK, Steps, UnitOver
  <1>2. DiskInv /\ MacInv /\ StampInv
    BY DEF FirstBootInit, DiskInv, MacInv, StampInv, Grown, Networked
  <1>3. StampMeansSetUp /\ VolumeDataSurvives /\ fbpc # "mkfs"
    BY DEF FirstBootInit, StampMeansSetUp, VolumeDataSurvives
  <1> QED BY <1>1, <1>2, <1>3 DEF FirstBootInv

\* first-boot writes its stamp only on a device whose filesystem fills the disk and whose
\* rule and link file name one MAC, and the seed's key is never there twice, however often
\* the script was cut short and begun again.
THEOREM StampMeansSetUpHolds == FirstBootSpec => []StampMeansSetUp
  <1>1. FirstBootInv => StampMeansSetUp
    BY DEF FirstBootInv
  <1> QED BY <1>1, FirstBootInitially, FirstBootInductive, PTL DEF FirstBootSpec

\* 50-data-volume never writes to a data disk that carried a volume or anything else when
\* the device first met it.
THEOREM VolumeDataSurvivesHolds == FirstBootSpec => []VolumeDataSurvives
  <1>1. FirstBootInv => VolumeDataSurvives
    BY DEF FirstBootInv
  <1> QED BY <1>1, FirstBootInitially, FirstBootInductive, PTL DEF FirstBootSpec
-----------------------------------------------------------------------------
(***************************************************************************)
(* The .NET cache: the SDK is not there or is whole, and a process has in  *)
(* its own directories what its step says.                                 *)
(***************************************************************************)
Whole == [files |-> SdkFiles, of |-> sdkpin]
Listed(f) == f = [x \in DOMAIN f |-> pinned[x]]

UserInv(u) ==
    /\ step[u] = "unpacking" => staging[u] = [files |-> {"dotnet"}, of |-> sdkpin]
    /\ step[u] = "publish" => staging[u] = Whole
    /\ step[u] \in {"feed", "compiles"} => sdk = Whole /\ Listed(feed[u])
    /\ step[u] = "compiles" => DOMAIN feed[u] = DOMAIN pinned
DotnetInv ==
    /\ DOMAIN step = Users /\ DOMAIN staging = Users /\ DOMAIN feed = Users
    /\ step = [u \in Users |-> step[u]] /\ staging = [u \in Users |-> staging[u]] /\ feed = [u \in Users |-> feed[u]]
    /\ sdkpin = 1 /\ sdk \in {Nothing, Whole}
    /\ Listed(pinned)
    /\ \A u \in Users : UserInv(u)

\* A step of one process that leaves the SDK and the manifest alone.
LEMMA OneUser ==
    ASSUME DotnetInv, NEW u \in Users, UNCHANGED <<pinned, sdkpin, sdk>>, NEW s, Goes(u, s),
           \/ staging' = staging
           \/ \E d : staging' = [staging EXCEPT ![u] = d],
           \/ feed' = feed
           \/ \E f : feed' = [feed EXCEPT ![u] = f],
           UserInv(u)'
    PROVE  DotnetInv'
  <1>1. \A v \in Users : v # u => step'[v] = step[v] /\ staging'[v] = staging[v] /\ feed'[v] = feed[v]
    BY DEF Goes, DotnetInv
  <1>2. \A v \in Users : UserInv(v)'
    <2> SUFFICES ASSUME NEW v \in Users, v # u PROVE UserInv(v)'
      OBVIOUS
    <2>1. UserInv(v) /\ step'[v] = step[v] /\ staging'[v] = staging[v] /\ feed'[v] = feed[v]
      BY <1>1 DEF DotnetInv
    <2> QED BY <2>1 DEF UserInv, Whole, Listed
  <1>3. /\ DOMAIN step' = Users /\ DOMAIN staging' = Users /\ DOMAIN feed' = Users
        /\ step' = [v \in Users |-> step'[v]] /\ staging' = [v \in Users |-> staging'[v]] /\ feed' = [v \in Users |-> feed'[v]]
    BY DEF Goes, DotnetInv
  <1>4. sdkpin' = 1 /\ (sdk \in {Nothing, Whole})' /\ Listed(pinned)'
    BY DEF DotnetInv, Whole, Listed
  <1> QED BY <1>2, <1>3, <1>4 DEF DotnetInv

\* Nothing that a process has in its own directories, and no step, changes.
LEMMA NoUser ==
    ASSUME DotnetInv, UNCHANGED <<pinned, sdkpin, sdk, staging, feed, step>> PROVE DotnetInv'
  <1>1. \A u \in Users : UserInv(u)'
    BY DEF DotnetInv, UserInv, Whole, Listed
  <1> QED BY <1>1 DEF DotnetInv, Whole, Listed

LEMMA UserMoves ==
    ASSUME DotnetInv, NEW u \in Users, NEW s, Goes(u, s)
    PROVE  /\ step'[u] = s
           /\ \A d : staging' = [staging EXCEPT ![u] = d] => staging'[u] = d
           /\ \A f : feed' = [feed EXCEPT ![u] = f] => feed'[u] = f
  BY DEF DotnetInv, Goes

LEMMA DotnetInductive == DotnetInv /\ [DotnetNext]_dotnetVars => DotnetInv'
  <1> SUFFICES ASSUME DotnetInv, [DotnetNext]_dotnetVars PROVE DotnetInv'
    OBVIOUS
  <1>e. Listed(Unlisted) /\ Listed(Unlisted)'
    <2>1. DOMAIN Unlisted = {}
      BY DEF Unlisted
    <2> QED BY <2>1 DEF Listed, Unlisted
  <1>h. HasSdk => sdk = Whole
    BY DEF HasSdk, DotnetInv, Nothing, Whole
  <1>1. CASE ResolveNuget
    <2>1. PICK needs \in (SUBSET Packages) \ {{}}, record \in {<<>>} \cup {<<c>> : c \in Contents} :
              pinned' = Digests([x \in needs |-> [bytes |-> served[x], recorded |-> record]])
      BY <1>1 DEF ResolveNuget
    <2>2. pinned' = [x \in needs |-> served[x]]
      BY <2>1 DEF Digests
    <2>3. Listed(pinned)'
      BY <2>2 DEF Listed
    <2>4. UNCHANGED <<sdkpin, sdk, staging, feed, step>> /\ \A u \in Users : step[u] = "idle"
      BY <1>1 DEF ResolveNuget
    <2>5. \A u \in Users : UserInv(u)'
      BY <2>4 DEF UserInv
    <2> QED BY <2>3, <2>4, <2>5 DEF DotnetInv, Whole
  <1>2. CASE ServerMoves \/ UNCHANGED dotnetVars
    BY <1>2, NoUser DEF ServerMoves, dotnetVars
  <1>3. ASSUME NEW u \in Users, OpenCache(u) PROVE DotnetInv'
    <2>1. UserInv(u)'
      BY <1>3, UserMoves DEF OpenCache, UserInv
    <2> QED BY <1>3, <2>1, OneUser DEF OpenCache
  <1>4. ASSUME NEW u \in Users, SdkThere(u) PROVE DotnetInv'
    <2>1. step'[u] = "feed" /\ feed'[u] = Unlisted /\ sdk' = Whole'
      BY <1>4, <1>h, UserMoves DEF SdkThere, Whole
    <2>2. UserInv(u)'
      BY <2>1, <1>e DEF UserInv
    <2> QED BY <1>4, <2>2, OneUser DEF SdkThere
  <1>5. ASSUME NEW u \in Users, FetchSdk(u) \/ RenameDownload(u) PROVE DotnetInv'
    BY <1>5, NoUser DEF FetchSdk, RenameDownload
  <1>6. ASSUME NEW u \in Users, Unpack(u) PROVE DotnetInv'
    <2>1. step'[u] = "unpacking" /\ staging'[u] = [files |-> {"dotnet"}, of |-> sdkpin']
      BY <1>6, UserMoves DEF Unpack
    <2>2. UserInv(u)'
      BY <2>1 DEF UserInv
    <2> QED BY <1>6, <2>2, OneUser DEF Unpack
  <1>7. ASSUME NEW u \in Users, UnpackRest(u) PROVE DotnetInv'
    <2>1. staging[u] = [files |-> {"dotnet"}, of |-> sdkpin] /\ sdkpin' = sdkpin
      BY <1>7 DEF UnpackRest, DotnetInv, UserInv, At
    <2>2. staging' = [staging EXCEPT ![u] = [staging[u] EXCEPT !.files = SdkFiles]]
      BY <1>7 DEF UnpackRest
    <2>3. step'[u] = "publish" /\ staging'[u] = [staging[u] EXCEPT !.files = SdkFiles]
      BY <1>7, <2>2, UserMoves DEF UnpackRest
    <2>4. step'[u] = "publish" /\ staging'[u] = Whole'
      BY <2>1, <2>3 DEF Whole
    <2>5. UserInv(u)'
      BY <2>4 DEF UserInv
    <2> QED BY <1>7, <2>2, <2>5, OneUser DEF UnpackRest
  <1>8. ASSUME NEW u \in Users, PublishSdk(u) PROVE DotnetInv'
    <2>1. CASE sdk.of = sdkpin
      <3>1. /\ Goes(u, "failed") /\ staging' = [staging EXCEPT ![u] = Nothing]
            /\ UNCHANGED <<sdk, feed, pinned, sdkpin>>
        BY <1>8, <2>1 DEF PublishSdk
      <3>2. UserInv(u)'
        BY <3>1, UserMoves DEF UserInv
      <3> QED BY <3>1, <3>2, OneUser
    <2>2. CASE sdk.of # sdkpin
      <3>1. /\ Goes(u, "feed") /\ staging' = [staging EXCEPT ![u] = Nothing]
            /\ feed' = [feed EXCEPT ![u] = Unlisted] /\ sdk' = staging[u] /\ UNCHANGED <<pinned, sdkpin>>
        BY <1>8, <2>2 DEF PublishSdk
      <3>2. sdk' = Whole' /\ sdk # Whole
        BY <1>8, <2>2, <3>1 DEF PublishSdk, At, DotnetInv, UserInv, Whole
      <3>3. step'[u] = "feed" /\ feed'[u] = Unlisted
        BY <3>1, UserMoves
      <3>4. \A v \in Users : UserInv(v)'
        <4>1. ASSUME NEW v \in Users, v # u PROVE UserInv(v)'
          <5>1. step'[v] = step[v] /\ staging'[v] = staging[v] /\ feed'[v] = feed[v] /\ UserInv(v)
            BY <3>1, <4>1 DEF Goes, DotnetInv
          <5> QED BY <3>1, <3>2, <5>1 DEF UserInv, Whole, Listed
        <4>2. UserInv(u)'
          BY <1>e, <3>2, <3>3 DEF UserInv
        <4> QED BY <4>1, <4>2
      <3>5. /\ DOMAIN step' = Users /\ DOMAIN staging' = Users /\ DOMAIN feed' = Users
            /\ step' = [v \in Users |-> step'[v]] /\ staging' = [v \in Users |-> staging'[v]]
            /\ feed' = [v \in Users |-> feed'[v]]
        BY <3>1 DEF Goes, DotnetInv
      <3>6. sdkpin' = 1 /\ Listed(pinned)'
        BY <3>1 DEF DotnetInv, Listed
      <3> QED BY <3>2, <3>4, <3>5, <3>6 DEF DotnetInv
    <2> QED BY <2>1, <2>2
  <1>9. ASSUME NEW u \in Users, NEW x \in Packages, FeedPackage(u, x) PROVE DotnetInv'
    <2>1. step[u] = "feed" /\ step' = step /\ UNCHANGED <<sdk, pinned, sdkpin, staging>>
          /\ (feed' = feed \/ feed' = [feed EXCEPT ![u] = LinkedInto(feed[u], x, pinned[x])])
      BY <1>9 DEF FeedPackage, At
    <2>2. Goes(u, "feed")
      BY <2>1 DEF Goes, DotnetInv
    <2>3. CASE feed' = feed
      BY <2>1, <2>3, NoUser
    <2>4. CASE feed' = [feed EXCEPT ![u] = LinkedInto(feed[u], x, pinned[x])]
      <3>1. feed'[u] = LinkedInto(feed[u], x, pinned[x]) /\ step'[u] = "feed"
        BY <2>2, <2>4, UserMoves
      <3>2. UserInv(u)
        BY DEF DotnetInv
      <3>3. sdk = Whole /\ Listed(feed[u])
        BY <2>1, <3>2 DEF UserInv
      <3>4. Listed(LinkedInto(feed[u], x, pinned[x]))
        BY <3>3 DEF Listed, LinkedInto
      <3>5. Listed(feed[u])'
        BY <2>1, <3>1, <3>4 DEF Listed
      <3>6. sdk' = Whole'
        BY <2>1, <3>3 DEF Whole
      <3>7. UserInv(u)'
        BY <3>1, <3>5, <3>6 DEF UserInv
      <3> QED BY <2>1, <2>2, <2>4, <3>7, OneUser
    <2> QED BY <2>1, <2>3, <2>4
  <1>10. ASSUME NEW u \in Users, Compile(u) PROVE DotnetInv'
    <2>1. step'[u] = "compiles" /\ feed' = feed /\ UNCHANGED <<sdk, pinned, sdkpin>> /\ DOMAIN feed[u] = DOMAIN pinned
          /\ step[u] = "feed" /\ UserInv(u)
      BY <1>10, UserMoves DEF Compile, At, DotnetInv
    <2>2. UserInv(u)'
      BY <2>1 DEF UserInv, Whole, Listed
    <2> QED BY <1>10, <2>2, OneUser DEF Compile
  <1>11. ASSUME NEW u \in Users, Fails(u) PROVE DotnetInv'
    <2>1. UserInv(u)'
      BY <1>11, UserMoves DEF Fails, UserInv
    <2> QED BY <1>11, <2>1, OneUser DEF Fails
  <1>12. ASSUME NEW u \in Users, Ends(u) \/ Killed(u) PROVE DotnetInv'
    <2>1. UserInv(u)'
      BY <1>12, UserMoves DEF Ends, Killed, UserInv
    <2> QED BY <1>12, <2>1, OneUser DEF Ends, Killed
  <1> QED BY <1>1, <1>2, <1>3, <1>4, <1>5, <1>6, <1>7, <1>8, <1>9, <1>10, <1>11, <1>12 DEF DotnetNext

\* An app is compiled with the whole pinned SDK and offered exactly the pinned packages
\* (dotnet.rs::ensure_sdk, materialize_feed), however many builds fill the cache at once.
THEOREM CompilesWithThePinnedHolds == DotnetSpec => []CompilesWithThePinned
  <1>1. DotnetInit => DotnetInv
    BY DEF DotnetInit, DotnetInv, UserInv, Listed, Unlisted
  <1>2. DotnetInv => CompilesWithThePinned
    <2> SUFFICES ASSUME DotnetInv, NEW u \in Users, step[u] = "compiles"
                 PROVE  sdk.files = SdkFiles /\ sdk.of = sdkpin /\ feed[u] = pinned
      BY DEF CompilesWithThePinned
    <2>1. sdk = Whole /\ Listed(feed[u]) /\ Listed(pinned) /\ DOMAIN feed[u] = DOMAIN pinned
      BY DEF DotnetInv, UserInv
    <2> QED BY <2>1 DEF Whole, Listed
  <1> QED BY <1>1, <1>2, DotnetInductive, PTL DEF DotnetSpec

(***************************************************************************)
(* The stages that hand over one package.  The key decides what a build    *)
(* leaves; what is restored, compiled and published is then followed from  *)
(* the key to the directory.                                               *)
(***************************************************************************)
AllRoles == Payloads \cup Maskrom \cup {"deb"}
\* Product f is of the build key names; loose: up to the libraries ffmpeg was linked with.
Of(f, key, loose) == f.key = key \/ (loose /\ key.node = "ffmpeg" /\ f.key = [key EXCEPT !.dep = f.key.dep])
\* File f is product r of a build of w.
Good(f, w, r, loose) ==
    /\ f # Torn /\ Of(f, OutputKey(w), loose) /\ f.role = r
    /\ w.node = "ffmpeg" => RequiredRuntimeDepends(w.cfg) \subseteq f.depends
Entire(e, w, loose) == DOMAIN e = Roles(w) /\ \A r \in Roles(w) : Good(e[r], w, r, loose)
Shown(w, r) == FileOf(w, r) \in DOMAIN dir /\ Good(dir[FileOf(w, r)], w, r, returned)

\* How far a run is, whatever it finds.
ReadInv ==
    /\ ask \in Asks
    /\ at # "idle" => read = ask /\ read \in Asks /\ read.node = ask.node
    /\ at \in {"idle", "restore", "restoring", "clone", "stamp", "deps", "configure", "compile"} => handed = {}
    /\ mark \in Sources \cup {None} /\ libs \in [LibNames -> LibVersions] /\ cut \in BOOLEAN /\ returned \in BOOLEAN

\* What the store holds; what the run's tree and its compile left; which libraries lie there;
\* what it restored; what it has handed over; what a kill may leave of a bootloader.
ShelfInv == \A k \in DOMAIN shelved : \E w \in Asks : k = OutputKey(w) /\ Entire(shelved[k], w, returned)
\* A tree holds what its stamp names, unless the stamp is behind the lock.
TreeInv ==
    /\ ~cut => stree \in {None, mark} \/ at = "stamp"
    /\ ~returned => mark = None \/ mark < ask.src \/ (mark = ask.src /\ stree = mark)
    /\ at = "clone" => stree = None
    /\ at \in {"stamp", "deps", "configure", "compile"} => stree = read.src
    /\ at \in {"clone", "stamp"} => ~reused /\ DOMAIN objs = {}
    /\ at \in {"deps", "configure"} /\ ~reused => DOMAIN objs = {}
    /\ at = "compile" => DOMAIN objs = {}
    /\ at \in {"collect", "store"} =>
          /\ DOMAIN objs = Made(read)
          /\ \A r \in Made(read) : objs[r] # Torn /\ Of(objs[r], OutputKey(read), returned) /\ objs[r].role = r
LibInv ==
    ~returned /\ ask.node = "ffmpeg" =>
        \A n \in LibNames : libs[n] <= ask.dep[n] /\ (at \in {"configure", "compile"} => libs[n] = ask.dep[n])
RestoreInv ==
    /\ at = "restoring" => OutputKey(read) \in DOMAIN shelved
    /\ at = "republish" => read.node = "uboot" /\ Entire(restored, read, returned)
HandedInv ==
    /\ at \in {"republish", "collect"} => handed \subseteq Roles(read)
    /\ at \in {"store", "done"} => handed = Roles(read)
    /\ \A r \in handed : Shown(read, r)
BootInv == ask.node = "uboot" => \A f \in DOMAIN dir : dir[f] # Torn
PackageInv == ReadInv /\ ShelfInv /\ TreeInv /\ LibInv /\ RestoreInv /\ HandedInv /\ BootInv

\* All of it, unless a refresh was cut short and a pin has gone back.
StaleStamp == cut /\ returned
StagesInv == ReadInv /\ (StaleStamp \/ PackageInv)

LEMMA AskFacts ==
    ASSUME NEW w \in Asks
    PROVE /\ w = [node |-> w.node, src |-> w.src, cfg |-> w.cfg, dep |-> w.dep, tool |-> w.tool]
          /\ w.node \in {"uboot", "ffmpeg", "app"} /\ w.src \in Nat /\ w.src # None /\ w.src # Torn
          /\ w.node = "ffmpeg" => /\ w \in FfmpegAsked /\ w.dep \in [LibNames -> Nat]
                                  /\ \A n \in LibNames : w.dep[n] \in LibVersions
                                  /\ {t.name : t \in w.cfg.trees} \subseteq LibNames
  <1>1. /\ w = [node |-> w.node, src |-> w.src, cfg |-> w.cfg, dep |-> w.dep, tool |-> w.tool]
        /\ w.node \in {"uboot", "ffmpeg", "app"}
    BY StagesAssumption
  <1>2. w.src \in Sources /\ Sources \subseteq Nat /\ None \notin Sources /\ Torn \notin Sources
    BY StagesAssumption DEF Sources
  <1>3. w.node = "ffmpeg" => w.dep \in [LibNames -> Nat] /\ {t.name : t \in w.cfg.trees} \subseteq LibNames
    BY StagesAssumption
  <1>4. w.node = "ffmpeg" => w \in FfmpegAsked /\ \A n \in LibNames : w.dep[n] \in LibVersions
    BY DEF FfmpegAsked, LibVersions
  <1> QED BY <1>1, <1>2, <1>3, <1>4

LEMMA LibVersionsAreNat == LibVersions \subseteq Nat
  <1>1. ASSUME NEW w \in FfmpegAsked, NEW n \in LibNames PROVE w.dep[n] \in Nat
    BY AskFacts DEF FfmpegAsked
  <1> QED BY <1>1 DEF LibVersions

LEMMA KeyFields ==
    ASSUME NEW w \in Asks
    PROVE /\ OutputKey(w).node = w.node /\ OutputKey(w).src = w.src
          /\ w.node # "ffmpeg" => OutputKey(w).cfg = w.cfg
          /\ w.node = "ffmpeg" => OutputKey(w).flags = ConfigureFlags(w.cfg) /\ OutputKey(w).libs = w.cfg.libs
  <1>1. w.node \in {"uboot", "ffmpeg", "app"}
    BY StagesAssumption
  <1>2. CASE w.node = "uboot"
    BY <1>2 DEF OutputKey, UbootKey
  <1>3. CASE w.node = "ffmpeg"
    BY <1>3 DEF OutputKey, FfmpegKey
  <1>4. CASE w.node = "app"
    BY <1>4 DEF OutputKey, AppKey
  <1> QED BY <1>1, <1>2, <1>3, <1>4

LEMMA SameRuntimes ==
    ASSUME NEW w \in Asks, NEW v \in Asks, w.node = "ffmpeg", v.node = "ffmpeg",
           ConfigureFlags(w.cfg) = ConfigureFlags(v.cfg), w.cfg.libs = v.cfg.libs
    PROVE RequiredRuntimeDepends(w.cfg) \subseteq RequiredRuntimeDepends(v.cfg)
  <1>1. {t.name : t \in LinkedUserspace(w.cfg)} = {t.name : t \in LinkedUserspace(v.cfg)}
    <2>1. ConfigureFlags(w.cfg).trees = ConfigureFlags(v.cfg).trees
      OBVIOUS
    <2> QED BY <2>1 DEF ConfigureFlags
  <1>2. ASSUME NEW t \in LinkedUserspace(w.cfg) PROVE \E o \in LinkedUserspace(v.cfg) : t.runtime = o.runtime
    <2>1. PICK o \in LinkedUserspace(v.cfg) : t.name = o.name
      BY <1>1
    <2>2. w \in FfmpegAsked /\ v \in FfmpegAsked
      BY DEF FfmpegAsked
    <2> QED BY <2>1, <2>2, StagesAssumption
  <1> QED BY <1>2 DEF RequiredRuntimeDepends

LEMMA OneKeyOneBuild ==
    ASSUME NEW w \in Asks, NEW v \in Asks, OutputKey(w) = OutputKey(v)
    PROVE /\ Roles(w) = Roles(v) /\ w.node = v.node
          /\ w.node = "ffmpeg" => RequiredRuntimeDepends(w.cfg) = RequiredRuntimeDepends(v.cfg)
  <1>1. w.node = v.node /\ (w.node # "ffmpeg" => w.cfg = v.cfg)
    BY KeyFields
  <1>2. Roles(w) = Roles(v)
    BY <1>1 DEF Roles
  <1>3. ASSUME w.node = "ffmpeg" PROVE RequiredRuntimeDepends(w.cfg) = RequiredRuntimeDepends(v.cfg)
    <2>1. v.node = "ffmpeg" /\ ConfigureFlags(w.cfg) = ConfigureFlags(v.cfg) /\ w.cfg.libs = v.cfg.libs
      BY <1>1, <1>3, KeyFields
    <2>2. RequiredRuntimeDepends(w.cfg) \subseteq RequiredRuntimeDepends(v.cfg)
      BY <1>3, <2>1, SameRuntimes
    <2>3. RequiredRuntimeDepends(v.cfg) \subseteq RequiredRuntimeDepends(w.cfg)
      BY <1>3, <2>1, SameRuntimes
    <2> QED BY <2>2, <2>3
  <1> QED BY <1>1, <1>2, <1>3

LEMMA ServedIsRead ==
    ASSUME ShelfInv, NEW w \in Asks, OutputKey(w) \in DOMAIN shelved
    PROVE Entire(shelved[OutputKey(w)], w, returned)
  <1>1. PICK v \in Asks : OutputKey(w) = OutputKey(v) /\ Entire(shelved[OutputKey(w)], v, returned)
    BY DEF ShelfInv
  <1>2. Roles(w) = Roles(v) /\ w.node = v.node /\ (w.node = "ffmpeg" => RequiredRuntimeDepends(w.cfg) = RequiredRuntimeDepends(v.cfg))
    BY <1>1, OneKeyOneBuild
  <1> QED BY <1>1, <1>2 DEF Entire, Good

LEMMA MadeOf ==
    ASSUME NEW w \in Asks
    PROVE /\ Roles(w) \subseteq AllRoles /\ Made(w) \subseteq Roles(w)
          /\ w.node # "uboot" => Roles(w) = {"deb"} /\ Made(w) = {"deb"}
          /\ w.node = "uboot" => Payloads \subseteq Made(w) /\ Payloads \cup {"deb"} \subseteq Roles(w)
          /\ w.node = "uboot" /\ Usb \subseteq Made(w) => Roles(w) = Payloads \cup {"deb"} \cup Maskrom
          /\ w.node = "uboot" /\ ~(Usb \subseteq Made(w)) => Roles(w) = Payloads \cup {"deb"} /\ Made(w) = Payloads
  <1>1. CASE w.node # "uboot"
    BY <1>1 DEF Roles, Made, AllRoles
  <1>2. CASE w.node = "uboot"
    <2>1. w.cfg.maskrom \in BOOLEAN
      BY <1>2, StagesAssumption
    <2>2. CASE w.cfg.maskrom
      BY <1>2, <2>2 DEF Roles, Made, AllRoles, Maskrom, Usb, Payloads
    <2>3. CASE ~w.cfg.maskrom
      BY <1>2, <2>3 DEF Roles, Made, AllRoles, Maskrom, Usb, Payloads
    <2> QED BY <2>1, <2>2, <2>3
  <1> QED BY <1>1, <1>2

LEMMA PutShows ==
    ASSUME NEW w, NEW r, NEW v, NEW q, NEW under, dir' = Put(under, FileOf(w, r), v), Good(v, w, r, returned),
           q = r \/ (under = dir /\ Shown(w, q))
    PROVE FileOf(w, q) \in DOMAIN dir' /\ Good(dir'[FileOf(w, q)], w, q, returned)
  <1>1. CASE q = r
    BY <1>1 DEF Put, Onto
  <1>2. CASE q # r
    <2>1. under = dir /\ FileOf(w, q) # FileOf(w, r) /\ FileOf(w, q) \in DOMAIN dir /\ Good(dir[FileOf(w, q)], w, q, returned)
      BY <1>2 DEF FileOf, Shown
    <2> DEFINE k == FileOf(w, r)  x == FileOf(w, q)
    <2> HIDE DEF k, x
    <2>2. x \in DOMAIN Put(under, k, v) /\ Put(under, k, v)[x] = dir[x]
      BY <2>1 DEF Put, Onto, k, x
    <2> QED BY <2>1, <2>2 DEF k, x
  <1> QED BY <1>1, <1>2

LEMMA PutIsWhole ==
    ASSUME NEW k, NEW v, dir' = Put(dir, k, v), v # Torn, \A f \in DOMAIN dir : dir[f] # Torn
    PROVE \A f \in DOMAIN dir' : dir'[f] # Torn
  BY DEF Put, Onto

LEMMA ReadWhole ==
    ASSUME NEW w \in Asks
    PROVE [w EXCEPT !.src = w.src] = w
  <1>1. w = [node |-> w.node, src |-> w.src, cfg |-> w.cfg, dep |-> w.dep, tool |-> w.tool]
    BY StagesAssumption
  <1> DEFINE n == w.node  s == w.src  c == w.cfg  d == w.dep  t == w.tool
  <1>2. w = [node |-> n, src |-> s, cfg |-> c, dep |-> d, tool |-> t] /\ w.src = s
    BY <1>1
  <1> HIDE DEF n, s, c, d, t
  <1> QED BY <1>2

\* What was good stays good when an edit goes back.
LEMMA GoodStays ==
    ASSUME returned => returned'
    PROVE \A f, w, r : Good(f, w, r, returned) => Good(f, w, r, returned')
  BY DEF Good, Of
LEMMA ShelfStays == ShelfInv /\ shelved' = shelved /\ (returned => returned') => ShelfInv'
  <1> SUFFICES ASSUME ShelfInv, shelved' = shelved, returned => returned', NEW k \in DOMAIN shelved
               PROVE  \E w \in Asks : k = OutputKey(w) /\ Entire(shelved[k], w, returned')
    BY DEF ShelfInv
  <1>1. PICK w \in Asks : k = OutputKey(w) /\ Entire(shelved[k], w, returned)
    BY DEF ShelfInv
  <1>2. Entire(shelved[k], w, returned')
    BY <1>1, GoodStays DEF Entire
  <1> QED BY <1>1, <1>2
LEMMA BootStays == BootInv /\ ask' = ask /\ dir' = dir => BootInv'
  BY DEF BootInv
LEMMA ShownStays == \A w, r : Shown(w, r) /\ dir' = dir /\ (returned => returned') => Shown(w, r)'
  BY GoodStays DEF Shown

\* Steps that leave the tree and the libraries alone leave what is known of them.
LEMMA TreeRestsInv ==
    ASSUME TreeInv, LibInv, UNCHANGED <<ask, mark, stree, libs, history>>,
           at \notin {"stamp", "clone"},
           at' \notin {"clone", "stamp", "deps", "configure", "compile", "collect", "store"}
    PROVE  TreeInv' /\ LibInv'
  BY DEF TreeInv, LibInv, history

LEMMA RunIsOver ==
    ASSUME PackageInv, at' = "idle", handed' = {}, UNCHANGED <<ask, shelved, dir>>, TreeInv', LibInv', ReadInv',
           returned => returned'
    PROVE PackageInv'
  BY ShelfStays, BootStays DEF PackageInv, RestoreInv, HandedInv

\* How far a run is, and which types its state has, is so whatever the stamp says.
LEMMA ReadKeeps == ReadInv /\ [StagesNext]_stageVars => ReadInv'
  <1> SUFFICES ASSUME ReadInv, [StagesNext]_stageVars PROVE ReadInv'
    OBVIOUS
  <1> USE DEF history
  <1>1. CASE BeginStage
    BY <1>1 DEF BeginStage, ReadInv
  <1>2. CASE RestoreBegins
    BY <1>2 DEF RestoreBegins, ReadInv
  <1>3. CASE RestoreEnds \/ PublishedRestored
    <2>1. /\ at # "idle" /\ at' \in {"done", "republish"} /\ read' = read /\ ask' = ask
          /\ UNCHANGED <<mark, libs, cut, returned>>
      BY <1>3 DEF RestoreEnds, PublishedRestored
    <2> QED BY <2>1 DEF ReadInv
  <1>4. CASE \E r \in AllRoles : PublishRestored(r) \/ CollectProduct(r)
    <2>1. /\ at \in {"republish", "collect"} /\ at' = at /\ read' = read /\ ask' = ask
          /\ UNCHANGED <<mark, libs, cut, returned>>
      BY <1>4 DEF PublishRestored, CollectProduct
    <2> QED BY <2>1 DEF ReadInv
  <1>5. CASE GateTree \/ CloneTree
    <2>1. /\ at \in {"restore", "clone"} /\ at' \in {"deps", "clone", "stamp"} /\ read' = read /\ ask' = ask /\ handed' = handed
          /\ UNCHANGED <<mark, libs, cut, returned>>
      BY <1>5 DEF GateTree, CloneTree, Missed
    <2> QED BY <2>1 DEF ReadInv
  <1>6. CASE StampTree
    <2>1. read \in Asks
      BY <1>6 DEF StampTree, ReadInv
    <2> QED BY <1>6, <2>1 DEF StampTree, ReadInv, Sources
  <1>7. CASE CloneFails \/ MakeDies \/ EndStage \/ StageFails \/ KillStage
    <2>1. at' = "idle" /\ handed' = {} /\ ask' = ask /\ UNCHANGED <<mark, libs, cut, returned>>
      BY <1>7 DEF CloneFails, MakeDies, EndStage, StageFails, KillStage, Over
    <2> QED BY <2>1 DEF ReadInv
  <1>8. CASE RefreshCut
    <2>1. at' = "idle" /\ handed' = {} /\ ask' = ask /\ mark' \in {mark, None} /\ UNCHANGED <<libs, returned>> /\ cut' = TRUE
      BY <1>8 DEF RefreshCut, Over
    <2> QED BY <2>1 DEF ReadInv
  <1>9. CASE TakeDeps
    <2>1. read \in Asks /\ at = "deps" /\ at' = "configure" /\ UNCHANGED <<ask, read, mark, handed, cut, returned>>
      BY <1>9 DEF TakeDeps, ReadInv
    <2>2. libs' \in [LibNames -> LibVersions]
      <3>1. CASE read.node # "ffmpeg"
        BY <1>9, <3>1 DEF TakeDeps, ReadInv
      <3>2. CASE read.node = "ffmpeg"
        <4>1. PICK swept \in SUBSET {t.name : t \in LinkedUserspace(read.cfg)} :
                 libs' = [n \in LibNames |-> IF n \notin swept /\ libs[n] > read.dep[n] THEN libs[n] ELSE read.dep[n]]
          BY <1>9, <3>2 DEF TakeDeps
        <4>2. \A n \in LibNames : libs[n] \in LibVersions /\ read.dep[n] \in LibVersions
          BY <2>1, <3>2, AskFacts DEF ReadInv
        <4> QED BY <4>1, <4>2
      <3> QED BY <3>1, <3>2
    <2> QED BY <1>9, <2>1, <2>2 DEF TakeDeps, ReadInv
  <1>10. CASE ConfigureTree \/ MakeProducts
    <2>1. /\ at \in {"configure", "compile"} /\ at' \in {"compile", "collect"} /\ read' = read /\ ask' = ask /\ handed' = handed
          /\ UNCHANGED <<mark, libs, cut, returned>>
      BY <1>10 DEF ConfigureTree, MakeProducts
    <2> QED BY <2>1 DEF ReadInv
  <1>11. CASE PackageUboot \/ Collected \/ StoreOutputs
    <2>1. /\ at # "idle" /\ at' \in {"store", "done"} /\ read' = read /\ ask' = ask
          /\ UNCHANGED <<mark, libs, cut, returned>>
      BY <1>11 DEF PackageUboot, Collected, StoreOutputs
    <2> QED BY <2>1 DEF ReadInv
  <1>12. CASE Repinned \/ OtherBlobs \/ UNCHANGED stageVars
    <2>1. /\ ask' \in Asks /\ ask'.node = ask.node /\ (at # "idle" => ask' = ask) /\ returned' \in BOOLEAN
          /\ UNCHANGED <<read, handed, at, mark, libs, cut>>
      BY <1>12 DEF Repinned, OtherBlobs, stageVars, ReadInv
    <2> QED BY <2>1 DEF ReadInv
  <1> QED BY <1>1, <1>2, <1>3, <1>4, <1>5, <1>6, <1>7, <1>8, <1>9, <1>10, <1>11, <1>12 DEF StagesNext, AllRoles

LEMMA RestoreKeeps ==
    ASSUME PackageInv, RestoreBegins \/ RestoreEnds \/ PublishedRestored \/ \E r \in AllRoles : PublishRestored(r)
    PROVE PackageInv'
  <1> USE DEF PackageInv, history
  <1>0. ReadInv'
    BY ReadKeeps DEF StagesNext, AllRoles
  <1>1. CASE RestoreBegins
    <2>1. TreeInv' /\ LibInv'
      BY <1>1, TreeRestsInv DEF RestoreBegins
    <2>3. ShelfInv' /\ RestoreInv' /\ HandedInv'
      BY <1>1, ShelfStays DEF RestoreBegins, ReadInv, RestoreInv, HandedInv
    <2>2. BootInv'
      <3>1. ask' = ask /\ (ask.node = "uboot" => dir' = dir)
        BY <1>1 DEF RestoreBegins, RestoreRoom, ReadInv
      <3> QED BY <3>1 DEF BootInv
    <2> QED BY <1>0, <2>1, <2>2, <2>3
  <1>2. CASE RestoreEnds
    <2> DEFINE entry == shelved[OutputKey(read)]
               whole == [f \in {FileOf(read, r) : r \in DOMAIN entry} |-> entry[f.kind]]
    <2>1. read \in Asks /\ read.node = ask.node /\ Entire(entry, read, returned) /\ handed = {}
      BY <1>2, ServedIsRead DEF RestoreEnds, ReadInv, RestoreInv
    <2>0. TreeInv' /\ LibInv' /\ returned' = returned
      BY <1>2, TreeRestsInv DEF RestoreEnds
    <2>2. CASE read.node = "uboot"
      <3>1. /\ dir' = dir /\ restored' = entry /\ handed' = {} /\ at' = "republish"
            /\ ask' = ask /\ read' = read /\ shelved' = shelved
        BY <1>2, <2>2 DEF RestoreEnds, RestoreRoom
      <3> HIDE DEF entry
      <3> QED BY <1>0, <2>0, <2>1, <2>2, <3>1, ShelfStays, BootStays DEF RestoreInv, HandedInv
    <2>3. CASE read.node # "uboot"
      <3>1. /\ dir' = Onto(whole, dir) /\ handed' = DOMAIN entry /\ at' = "done"
            /\ ask' = ask /\ read' = read /\ shelved' = shelved
        BY <1>2, <2>3 DEF RestoreEnds, RestoreRoom
      <3>2. ASSUME NEW r \in handed' PROVE Shown(read, r)'
        <4>1. r \in DOMAIN entry /\ r \in Roles(read) /\ Good(entry[r], read, r, returned)
          BY <2>1, <3>1, <3>2 DEF Entire
        <4>2. FileOf(read, r) \in DOMAIN whole /\ whole[FileOf(read, r)] = entry[r]
          BY <4>1 DEF FileOf
        <4> HIDE DEF entry, whole
        <4>3. FileOf(read, r) \in DOMAIN dir' /\ dir'[FileOf(read, r)] = entry[r]
          BY <3>1, <4>2 DEF Onto
        <4> QED BY <2>0, <3>1, <4>1, <4>3 DEF Shown
      <3>3. handed' = Roles(read)
        BY <2>1, <3>1 DEF Entire
      <3> HIDE DEF entry, whole
      <3>4. BootInv'
        BY <2>1, <2>3, <3>1 DEF BootInv
      <3> QED BY <1>0, <2>0, <2>1, <3>1, <3>2, <3>3, <3>4, ShelfStays DEF RestoreInv, HandedInv
    <2> QED BY <2>2, <2>3
  <1>3. CASE PublishedRestored \/ \E r \in AllRoles : PublishRestored(r)
    <2>1. read \in Asks /\ read.node = ask.node /\ read.node = "uboot" /\ at = "republish" /\ Entire(restored, read, returned)
      BY <1>3 DEF PublishedRestored, PublishRestored, ReadInv, RestoreInv
    <2>0. TreeInv' /\ LibInv' /\ returned' = returned
      BY <1>3, TreeRestsInv DEF PublishedRestored, PublishRestored
    <2>2. RestoredRoles = Roles(read)
      <3>1. DOMAIN restored = Roles(read)
        BY <2>1 DEF Entire
      <3>2. CASE Usb \subseteq Made(read)
        BY <2>1, <3>1, <3>2, MadeOf DEF RestoredRoles
      <3>3. CASE ~(Usb \subseteq Made(read))
        BY <2>1, <3>1, <3>3, MadeOf DEF RestoredRoles, Maskrom, Usb, Payloads
      <3> QED BY <3>2, <3>3
    <2>3. CASE PublishedRestored
      <3>1. handed = Roles(read)
        BY <2>1, <2>2, <2>3 DEF PublishedRestored, HandedInv
      <3> QED BY <1>0, <2>0, <2>1, <2>3, <3>1, ShelfStays, BootStays, ShownStays DEF PublishedRestored, RestoreInv, HandedInv
    <2>4. ASSUME NEW r \in AllRoles, PublishRestored(r) PROVE PackageInv'
      <3>1. r \in Roles(read)
        BY <2>2, <2>4, Zenon DEF PublishRestored, IsNext
      <3>2. Good(restored[r], read, r, returned)
        BY <2>1, <3>1 DEF Entire
      <3>3. /\ dir' = Put(dir, FileOf(read, r), restored[r]) /\ handed' = handed \cup {r} /\ at' = at
            /\ ask' = ask /\ read' = read /\ shelved' = shelved /\ restored' = restored
        BY <2>4 DEF PublishRestored
      <3>4. ASSUME NEW q \in handed' PROVE Shown(read, q)'
        <4>1. q = r \/ Shown(read, q)
          BY <3>3, <3>4 DEF HandedInv
        <4>2. FileOf(read, q) \in DOMAIN dir' /\ Good(dir'[FileOf(read, q)], read, q, returned)
          BY <3>2, <3>3, <4>1, PutShows
        <4> QED BY <2>0, <3>3, <4>2 DEF Shown
      <3>5. BootInv'
        BY <3>2, <3>3, PutIsWhole DEF BootInv, Good
      <3> QED BY <1>0, <2>0, <2>1, <3>1, <3>3, <3>4, <3>5, ShelfStays DEF RestoreInv, HandedInv
    <2> QED BY <1>3, <2>3, <2>4
  <1> QED BY <1>1, <1>2, <1>3

\* What is compiled in the tree a key names, with the libraries that are there.
LEMMA BuiltIsAsked ==
    ASSUME NEW w \in Asks, NEW l, w.node # "ffmpeg" \/ l = w.dep
    PROVE BuiltWith(w, w.src, l) = w
  <1>1. w = [node |-> w.node, src |-> w.src, cfg |-> w.cfg, dep |-> w.dep, tool |-> w.tool]
    BY AskFacts
  <1> DEFINE n == w.node  s == w.src  c == w.cfg  d == w.dep  t == w.tool
  <1>2. w = [node |-> n, src |-> s, cfg |-> c, dep |-> d, tool |-> t] /\ w.src = s /\ w.dep = d
    BY <1>1
  <1>3. [w EXCEPT !.src = w.src] = w /\ [w EXCEPT !.src = w.src, !.dep = w.dep] = w
    <2> HIDE DEF n, s, c, d, t
    <2> QED BY <1>2
  <1> QED BY <1>3 DEF BuiltWith

LEMMA CompiledIsAsked ==
    ASSUME NEW w \in Asks, NEW r \in Roles(w), NEW d \in Depends(w), NEW l \in [LibNames -> LibVersions], NEW loose,
           w.node = "ffmpeg" /\ ~loose => l = w.dep
    PROVE LET f == Product(OutputKey(BuiltWith(w, w.src, l)), r, d) IN f # Torn /\ Of(f, OutputKey(w), loose) /\ f.role = r
  <1> DEFINE v == BuiltWith(w, w.src, l)
  <1>1. Product(OutputKey(v), r, d) # Torn
    BY StagesAssumption
  <1>2. CASE w.node # "ffmpeg" \/ l = w.dep
    <2>1. v = w
      BY <1>2, BuiltIsAsked
    <2> QED BY <1>1, <2>1 DEF Product, Of
  <1>3. CASE w.node = "ffmpeg" /\ loose
    <2>1. v.node = "ffmpeg" /\ v.src = w.src /\ v.cfg = w.cfg /\ v.tool = w.tool
      <3>1. w = [node |-> w.node, src |-> w.src, cfg |-> w.cfg, dep |-> w.dep, tool |-> w.tool]
        BY AskFacts
      <3> DEFINE n == w.node  s == w.src  c == w.cfg  e == w.dep  t == w.tool
      <3>2. w = [node |-> n, src |-> s, cfg |-> c, dep |-> e, tool |-> t] /\ w.src = s /\ w.node = n /\ w.cfg = c /\ w.tool = t
        BY <3>1
      <3> HIDE DEF n, s, c, e, t
      <3>3. /\ [w EXCEPT !.src = s, !.dep = l].node = n /\ [w EXCEPT !.src = s, !.dep = l].src = s
            /\ [w EXCEPT !.src = s, !.dep = l].cfg = c /\ [w EXCEPT !.src = s, !.dep = l].tool = t
        BY <3>2
      <3> QED BY <1>3, <3>2, <3>3 DEF BuiltWith
    <2>2. /\ OutputKey(w) = [node |-> w.node, src |-> w.src, flags |-> ConfigureFlags(w.cfg), layer |-> LayerPackages(w.cfg),
                             libs |-> w.cfg.libs, dep |-> LinkedAt(w), tool |-> w.tool]
          /\ OutputKey(v) = [node |-> w.node, src |-> w.src, flags |-> ConfigureFlags(w.cfg), layer |-> LayerPackages(w.cfg),
                             libs |-> w.cfg.libs, dep |-> LinkedAt(v), tool |-> w.tool]
      BY <1>3, <2>1 DEF OutputKey, FfmpegKey
    <2> DEFINE kw == OutputKey(w)  kv == OutputKey(v)
    <2> HIDE DEF v
    <2>3. kw.node = "ffmpeg" /\ kv = [kw EXCEPT !.dep = kv.dep]
      BY <1>3, <2>2
    <2> HIDE DEF kw, kv
    <2>4. Product(kv, r, d).key = kv /\ Product(kv, r, d).role = r
      BY DEF Product
    <2>5. Of(Product(kv, r, d), kw, loose)
      BY <1>3, <2>3, <2>4 DEF Of
    <2> HIDE DEF Product
    <2>6. Product(kv, r, d) # Torn
      BY <1>1 DEF kv
    <2>7. BuiltWith(w, w.src, l) = v
      BY DEF v
    <2> QED BY <2>4, <2>5, <2>6, <2>7 DEF kw, kv
  <1> QED BY <1>2, <1>3

\* Only of ffmpeg is a product known up to its libraries.
LEMMA ExactKey ==
    ASSUME NEW w \in Asks, w.node # "ffmpeg", NEW f, NEW loose
    PROVE Of(f, OutputKey(w), loose) <=> f.key = OutputKey(w)
  BY KeyFields DEF Of

LEMMA GateKeeps ==
    ASSUME PackageInv, ~StaleStamp, GateTree \/ CloneTree \/ StampTree
    PROVE PackageInv'
  <1> USE DEF PackageInv, history
  <1>0. /\ ReadInv' /\ read' = read /\ read \in Asks /\ read = ask /\ ask' = ask /\ handed' = handed /\ shelved' = shelved /\ dir' = dir
        /\ returned' = returned /\ cut' = cut /\ libs' = libs /\ at' \in {"clone", "stamp", "deps"} /\ handed = {}
    <2>1. ReadInv'
      BY ReadKeeps DEF StagesNext
    <2> QED BY <2>1 DEF GateTree, CloneTree, StampTree, Missed, ReadInv
  <1>1. read.src \in Nat /\ read.src # None /\ read.src # Torn /\ read.src = ask.src
    BY <1>0, AskFacts
  <1>2. TreeInv'
    <2>0. DOMAIN <<>> = {}
      OBVIOUS
    <2>1. CASE GateTree
      <3>1. at = "restore" /\ mark' = mark
        BY <2>1 DEF GateTree, Missed
      <3>2. CASE Fresh
        <4>1. reused' = TRUE /\ at' = "deps" /\ stree' = stree /\ mark = read.src /\ stree # None
          BY <2>1, <3>2 DEF GateTree, Fresh
        <4>2. stree = read.src
          <5>1. CASE ~cut
            BY <3>1, <4>1, <5>1 DEF TreeInv
          <5>2. CASE ~returned
            <6>1. mark = None \/ mark < ask.src \/ stree = mark
              BY <5>2 DEF TreeInv
            <6> QED BY <1>1, <4>1, <6>1
          <5> QED BY <5>1, <5>2 DEF StaleStamp
        <4> QED BY <1>0, <3>1, <4>1, <4>2 DEF TreeInv
      <3>3. CASE ~Fresh
        <4>1. reused' = FALSE /\ at' = "clone" /\ stree' = None /\ DOMAIN objs' = {}
          BY <2>0, <2>1, <3>3 DEF GateTree
        <4>2. ~returned => mark = None \/ mark < ask.src
          BY <1>1, <3>3 DEF Fresh, TreeInv
        <4> QED BY <1>0, <3>1, <4>1, <4>2 DEF TreeInv
      <3> QED BY <3>2, <3>3
    <2>2. CASE CloneTree
      <3>1. /\ at = "clone" /\ at' = "stamp" /\ stree' = read.src /\ mark' = mark /\ reused' = reused /\ objs' = objs
        BY <2>2 DEF CloneTree
      <3>2. ~returned => mark = None \/ mark < ask.src
        BY <1>1, <3>1 DEF TreeInv
      <3> QED BY <1>0, <3>1, <3>2 DEF TreeInv
    <2>3. CASE StampTree
      <3>1. at = "stamp" /\ at' = "deps" /\ stree' = stree /\ mark' = read.src /\ reused' = reused /\ objs' = objs
        BY <2>3 DEF StampTree
      <3> QED BY <1>0, <1>1, <3>1 DEF TreeInv
    <2> QED BY <2>1, <2>2, <2>3
  <1>3. LibInv'
    BY <1>0 DEF LibInv
  <1> QED BY <1>0, <1>2, <1>3, ShelfStays, BootStays DEF RestoreInv, HandedInv

LEMMA BuildKeeps ==
    ASSUME PackageInv, BeginStage \/ TakeDeps \/ ConfigureTree \/ MakeProducts
    PROVE PackageInv'
  <1> USE DEF PackageInv, history
  <1>0. ReadInv'
    BY ReadKeeps DEF StagesNext
  <1>1. CASE BeginStage
    <2>1. TreeInv' /\ LibInv'
      BY <1>1, TreeRestsInv DEF BeginStage
    <2> QED BY <1>0, <1>1, <2>1, ShelfStays, BootStays DEF BeginStage, ReadInv, RestoreInv, HandedInv
  <1>2. CASE TakeDeps
    <2>1. /\ at = "deps" /\ at' = "configure" /\ read \in Asks /\ read = ask /\ handed = {}
          /\ UNCHANGED <<ask, read, shelved, mark, stree, reused, objs, restored, dir, handed, cut, returned>>
      BY <1>2 DEF TakeDeps, ReadInv
    <2>2. TreeInv'
      BY <2>1 DEF TreeInv
    <2>3. LibInv'
      <3>1. SUFFICES ASSUME ~returned, ask.node = "ffmpeg", NEW n \in LibNames
                     PROVE  libs'[n] = ask.dep[n] /\ ask.dep[n] \in Nat
        BY <2>1 DEF LibInv
      <3>2. PICK swept \in SUBSET {t.name : t \in LinkedUserspace(read.cfg)} :
               libs' = [m \in LibNames |-> IF m \notin swept /\ libs[m] > read.dep[m] THEN libs[m] ELSE read.dep[m]]
        BY <1>2, <2>1, <3>1 DEF TakeDeps
      <3>3. libs[n] <= ask.dep[n]
        BY <3>1 DEF LibInv
      <3>4. libs[n] \in Nat /\ ask.dep[n] \in Nat
        BY <2>1, <3>1, AskFacts, LibVersionsAreNat DEF ReadInv
      <3>5. libs'[n] = IF n \notin swept /\ libs[n] > ask.dep[n] THEN libs[n] ELSE ask.dep[n]
        BY <2>1, <3>2
      <3> QED BY <3>3, <3>4, <3>5
    <2> QED BY <1>0, <2>1, <2>2, <2>3, ShelfStays, BootStays DEF RestoreInv, HandedInv
  <1>3. CASE ConfigureTree
    <2>1. DOMAIN <<>> = {}
      OBVIOUS
    <2>2. objs' = <<>> \/ (objs' = objs /\ ~reused)
      BY <1>3 DEF ConfigureTree
    <2>3. TreeInv'
      BY <1>3, <2>1, <2>2 DEF ConfigureTree, TreeInv
    <2>4. LibInv'
      BY <1>3 DEF ConfigureTree, LibInv
    <2> QED BY <1>0, <1>3, <2>3, <2>4, ShelfStays, BootStays DEF ConfigureTree, ReadInv, RestoreInv, HandedInv
  <1>4. CASE MakeProducts
    <2> DEFINE m(d) == [r \in Made(read) |->
                          IF r \in DOMAIN objs /\ objs[r] # Torn THEN objs[r]
                          ELSE Product(OutputKey(BuiltWith(read, stree, libs)), r, d)]
    <2>1. read \in Asks /\ read = ask /\ DOMAIN objs = {} /\ stree = read.src /\ handed = {} /\ at = "compile"
      BY <1>4 DEF MakeProducts, ReadInv, TreeInv
    <2>2. PICK d \in Depends(read) : objs' = Onto(m(d), objs)
      BY <1>4 DEF MakeProducts
    <2>3. \A r \in Made(read) : m(d)[r] = Product(OutputKey(BuiltWith(read, read.src, libs)), r, d)
      BY <2>1
    <2>4. DOMAIN m(d) = Made(read)
      OBVIOUS
    <2> HIDE DEF m
    <2>5. DOMAIN objs' = Made(read) /\ \A r \in Made(read) : objs'[r] = Product(OutputKey(BuiltWith(read, read.src, libs)), r, d)
      BY <2>1, <2>2, <2>3, <2>4 DEF Onto
    <2>6. libs \in [LibNames -> LibVersions] /\ (read.node = "ffmpeg" /\ ~returned => libs = read.dep)
      <3>1. ASSUME read.node = "ffmpeg", ~returned PROVE libs = read.dep
        <4>1. \A n \in LibNames : libs[n] = read.dep[n]
          BY <2>1, <3>1 DEF LibInv
        <4>2. libs \in [LibNames -> LibVersions] /\ read.dep \in [LibNames -> Nat]
          BY <2>1, <3>1, AskFacts DEF ReadInv
        <4> QED BY <4>1, <4>2
      <3> QED BY <3>1 DEF ReadInv
    <2>7. \A r \in Made(read) : objs'[r] # Torn /\ Of(objs'[r], OutputKey(read), returned) /\ objs'[r].role = r
      <3>1. SUFFICES ASSUME NEW r \in Made(read)
                     PROVE  objs'[r] # Torn /\ Of(objs'[r], OutputKey(read), returned) /\ objs'[r].role = r
        OBVIOUS
      <3>2. objs'[r] = Product(OutputKey(BuiltWith(read, read.src, libs)), r, d)
        BY <2>5
      <3>3. r \in Roles(read)
        BY <2>1, MadeOf
      <3> DEFINE f == Product(OutputKey(BuiltWith(read, read.src, libs)), r, d)
      <3>5. d \in Depends(read) /\ read \in Asks /\ libs \in [LibNames -> LibVersions]
        BY <2>1, <2>2, <2>6
      <3>6. read.node = "ffmpeg" /\ ~returned => libs = read.dep
        BY <2>6
      <3>4. f # Torn /\ Of(f, OutputKey(read), returned) /\ f.role = r
        BY <3>3, <3>5, <3>6, CompiledIsAsked
      <3> HIDE DEF f
      <3> QED BY <3>2, <3>4 DEF f
    <2>8. /\ at' = "collect" /\ read' = read /\ handed' = {}
          /\ UNCHANGED <<ask, shelved, dir, mark, stree, libs, cut, returned>>
      BY <1>4, <2>1 DEF MakeProducts
    <2>9. TreeInv'
      BY <2>1, <2>5, <2>7, <2>8 DEF TreeInv
    <2>10. LibInv'
      BY <2>8 DEF LibInv
    <2> QED BY <1>0, <2>8, <2>9, <2>10, ShelfStays, BootStays DEF RestoreInv, HandedInv
  <1> QED BY <1>1, <1>2, <1>3, <1>4

\* u-boot's package and its loader are products of the key they are made under.
LEMMA OwnIsWhole ==
    ASSUME NEW w \in Asks, w.node = "uboot", NEW r \in Roles(w)
    PROVE Product(OutputKey(w), r, {}) # Torn
  <1>1. [n \in LibNames |-> 0] \in [LibNames -> LibVersions]
    BY DEF LibVersions
  <1>2. {} \in Depends(w)
    BY DEF Depends
  <1>3. BuiltWith(w, w.src, [n \in LibNames |-> 0]) = w
    BY BuiltIsAsked
  <1> QED BY <1>1, <1>2, <1>3, StagesAssumption

LEMMA CollectKeeps ==
    ASSUME PackageInv, at \in {"collect", "store"},
           PackageUboot \/ Collected \/ StoreOutputs \/ \E r \in AllRoles : CollectProduct(r)
    PROVE PackageInv'
  <1> USE DEF PackageInv, history
  <1> DEFINE Stay == UNCHANGED <<ask, read, objs, mark, stree, libs, cut, returned>>
  <1>0. ReadInv'
    BY ReadKeeps DEF StagesNext, AllRoles
  <1>1. /\ read \in Asks /\ read.node = ask.node /\ handed \subseteq Roles(read)
        /\ DOMAIN objs = Made(read)
        /\ \A r \in Made(read) : objs[r] # Torn /\ Of(objs[r], OutputKey(read), returned) /\ objs[r].role = r
    BY DEF ReadInv, TreeInv, HandedInv
  <1>2. ToCollect = IF read.node # "uboot" THEN {"deb"} ELSE Roles(read) \ {"deb"}
    <2>1. CASE read.node # "uboot"
      BY <2>1 DEF ToCollect
    <2>2. CASE read.node = "uboot" /\ Usb \subseteq Made(read)
      BY <1>1, <2>2, MadeOf DEF ToCollect, Payloads, Maskrom, Usb
    <2>3. CASE read.node = "uboot" /\ ~(Usb \subseteq Made(read))
      BY <1>1, <2>3, MadeOf DEF ToCollect, Payloads
    <2> QED BY <2>1, <2>2, <2>3
  <1>3. ASSUME NEW r \in Roles(read), NEW f, NEW under, Good(f, read, r, returned), dir' = Put(under, FileOf(read, r), f),
               under = dir \/ (handed = {} /\ read.node # "uboot"), handed' = handed \cup {r},
               at' = "collect" \/ (at' = "store" /\ handed' = Roles(read)), Stay, shelved' = shelved
        PROVE PackageInv'
    <2>0. TreeInv' /\ LibInv'
      BY <1>3 DEF TreeInv, LibInv
    <2>1. ASSUME NEW q \in handed' PROVE Shown(read, q)'
      <3>1. q = r \/ (under = dir /\ Shown(read, q))
        BY <1>3, <2>1 DEF HandedInv
      <3>2. FileOf(read, q) \in DOMAIN dir' /\ Good(dir'[FileOf(read, q)], read, q, returned)
        BY <1>3, <3>1, PutShows
      <3> QED BY <1>3, <3>2 DEF Shown
    <2>2. BootInv'
      BY <1>1, <1>3, PutIsWhole DEF BootInv, Good
    <2> QED BY <1>0, <1>1, <1>3, <2>0, <2>1, <2>2, ShelfStays DEF RestoreInv, HandedInv
  <1>4. ASSUME NEW r \in AllRoles, CollectProduct(r) PROVE PackageInv'
    <2>1. r \in ToCollect /\ r \in Roles(read)
      <3>1. r \in ToCollect
        BY <1>4, Zenon DEF CollectProduct, IsNext
      <3> QED BY <1>1, <1>2, <3>1, MadeOf
    <2> DEFINE f == IF r = "maskrom_loader" THEN Loader ELSE objs[r]
    <2>2. Good(f, read, r, returned)
      <3>1. CASE r = "maskrom_loader"
        <4>1. Usb \subseteq Made(read) /\ read.node = "uboot"
          BY <1>1, <2>1, <3>1 DEF ToCollect, Payloads
        <4>2. Loader = Product(OutputKey(read), "maskrom_loader", {})
          <5>1. objs["usb471"].key = OutputKey(read) /\ objs["usb472"].key = OutputKey(read)
            BY <1>1, <4>1, ExactKey DEF Usb
          <5> QED BY <5>1 DEF Loader
        <4>3. Loader # Torn
          BY <1>1, <2>1, <3>1, <4>1, <4>2, OwnIsWhole
        <4> QED BY <1>1, <2>1, <3>1, <4>1, <4>2, <4>3 DEF Good, Of, Product
      <3>2. CASE r # "maskrom_loader"
        <4>1. r \in Made(read)
          BY <1>1, <2>1, <3>2, MadeOf DEF ToCollect, Maskrom
        <4>2. read.node = "ffmpeg" => RequiredRuntimeDepends(read.cfg) \subseteq objs[r].depends
          BY <1>1, <1>4, <4>1, MadeOf DEF CollectProduct, Collectable
        <4> QED BY <1>1, <3>2, <4>1, <4>2 DEF Good
      <3> QED BY <3>1, <3>2
    <2>3. /\ dir' = Put(SweptDir, FileOf(read, r), f) /\ handed' = handed \cup {r} /\ at' = "collect"
          /\ shelved' = shelved /\ Stay
      BY <1>4 DEF CollectProduct
    <2>4. SweptDir = dir \/ (handed = {} /\ read.node # "uboot")
      <3>1. CASE read.node = "app"
        <4>1. r \notin handed
          BY <1>4, Zenon DEF CollectProduct, IsNext
        <4> QED BY <1>1, <2>1, <3>1, <4>1, MadeOf
      <3> QED BY <3>1 DEF SweptDir
    <2> HIDE DEF f
    <2> QED BY <1>3, <2>1, <2>2, <2>3, <2>4
  <1>5. CASE PackageUboot
    <2>1. read.node = "uboot" /\ handed = Roles(read) \ {"deb"} /\ "deb" \in Roles(read) /\ Payloads \subseteq handed
      BY <1>1, <1>2, <1>5, MadeOf DEF PackageUboot, Payloads
    <2>2. UbootDeb = Product(OutputKey(read), "deb", {})
      <3>1. dir[FileOf(read, "idbloader")].key = OutputKey(read) /\ dir[FileOf(read, "uboot_itb")].key = OutputKey(read)
        BY <1>1, <2>1, ExactKey DEF Payloads, HandedInv, Shown, Good
      <3> QED BY <3>1 DEF UbootDeb
    <2>3. Good(UbootDeb, read, "deb", returned)
      <3>1. UbootDeb # Torn
        BY <1>1, <2>1, <2>2, OwnIsWhole
      <3> QED BY <2>1, <2>2, <3>1 DEF Good, Of, Product
    <2>4. /\ dir' = Put(dir, FileOf(read, "deb"), UbootDeb) /\ handed' = handed \cup {"deb"} /\ at' = "store"
          /\ shelved' = shelved /\ Stay
      BY <1>5 DEF PackageUboot
    <2> QED BY <1>3, <2>1, <2>3, <2>4
  <1>6. CASE Collected
    <2>1. handed = Roles(read)
      BY <1>1, <1>2, <1>6, MadeOf DEF Collected
    <2>2. TreeInv' /\ LibInv'
      BY <1>6 DEF Collected, TreeInv, LibInv
    <2> QED BY <1>0, <1>6, <2>1, <2>2, ShelfStays, BootStays, ShownStays DEF Collected, RestoreInv, HandedInv
  <1>7. CASE StoreOutputs
    <2> DEFINE entry == [r \in handed |-> IF r \in Payloads \cup Usb THEN objs[r] ELSE dir[FileOf(read, r)]]
    <2>1. handed = Roles(read) /\ at' = "done" /\ dir' = dir /\ handed' = handed /\ Stay
      BY <1>7 DEF StoreOutputs, HandedInv
    <2>2. ASSUME NEW r \in Roles(read) PROVE Good(entry[r], read, r, returned)
      <3>1. CASE r \in Payloads \cup Usb
        <4>1. r \in Made(read) /\ read.node # "ffmpeg"
          BY <1>1, <3>1, <2>2, MadeOf DEF Payloads, Usb, Maskrom
        <4> QED BY <1>1, <2>1, <3>1, <4>1 DEF Good
      <3>2. CASE r \notin Payloads \cup Usb
        BY <2>1, <3>2 DEF HandedInv, Shown
      <3> QED BY <3>1, <3>2
    <2>3. Entire(entry, read, returned)
      BY <2>1, <2>2 DEF Entire
    <2>4. shelved' = IF OutputKey(read) \in DOMAIN shelved THEN shelved ELSE Put(shelved, OutputKey(read), entry)
      BY <1>7 DEF StoreOutputs
    <2> HIDE DEF entry
    <2>5. ASSUME NEW k \in DOMAIN shelved' PROVE \E w \in Asks : k = OutputKey(w) /\ Entire(shelved'[k], w, returned')
      BY <1>1, <2>1, <2>3, <2>4, <2>5 DEF ShelfInv, Put, Onto
    <2>6. ShelfInv'
      BY <2>5 DEF ShelfInv
    <2>7. TreeInv' /\ LibInv'
      BY <2>1 DEF TreeInv, LibInv
    <2> QED BY <1>0, <1>1, <2>1, <2>6, <2>7, BootStays, ShownStays DEF RestoreInv, HandedInv
  <1> QED BY <1>4, <1>5, <1>6, <1>7

LEMMA EndsKeep ==
    ASSUME PackageInv, CloneFails \/ RefreshCut \/ MakeDies \/ EndStage \/ StageFails \/ KillStage
    PROVE PackageInv'
  <1> USE DEF PackageInv, history
  <1>1. /\ ReadInv' /\ at' = "idle" /\ handed' = {} /\ UNCHANGED <<ask, shelved, dir, libs, returned>> /\ at # "idle" /\ (cut => cut')
    <2>1. ReadInv'
      BY ReadKeeps DEF StagesNext
    <2>2. CASE CloneFails \/ EndStage \/ KillStage
      BY <2>1, <2>2 DEF CloneFails, EndStage, KillStage, Over
    <2>3. CASE RefreshCut
      BY <2>1, <2>3 DEF RefreshCut, Over, Missed
    <2>4. CASE MakeDies \/ StageFails
      BY <2>1, <2>4 DEF MakeDies, StageFails, Over
    <2> QED BY <2>2, <2>3, <2>4
  <1>2. LibInv'
    BY <1>1 DEF LibInv
  <1>3. read \in Asks /\ read = ask
    BY <1>1 DEF ReadInv
  <1>4. ask.src \in Nat /\ ask.src # None /\ ask.src # Torn
    BY AskFacts DEF ReadInv
  <1>5. TreeInv'
    <2>1. CASE RefreshCut
      <3>1. CASE Missed /\ ~Fresh /\ stree # None /\ mark' = mark
        <4>1. ~returned => mark = None \/ mark < ask.src
          BY <1>3, <1>4, <3>1 DEF Fresh, TreeInv
        <4> QED BY <1>1, <2>1, <3>1, <4>1 DEF RefreshCut, TreeInv
      <3>2. CASE at = "clone" /\ mark' = mark
        <4>1. ~returned => mark = None \/ mark < ask.src
          BY <1>4, <3>2 DEF TreeInv
        <4> QED BY <1>1, <2>1, <3>2, <4>1 DEF RefreshCut, TreeInv
      <3>3. CASE at = "stamp" /\ mark' \in {mark, None} /\ stree' = stree
        BY <1>1, <2>1, <3>3 DEF RefreshCut, TreeInv
      <3> QED BY <2>1, <3>1, <3>2, <3>3 DEF RefreshCut
    <2>2. CASE CloneFails \/ MakeDies \/ EndStage \/ StageFails \/ KillStage
      <3>1. at # "stamp" /\ UNCHANGED <<mark, stree, cut>>
        BY <2>2 DEF CloneFails, MakeDies, EndStage, StageFails, KillStage
      <3> QED BY <1>1, <3>1 DEF TreeInv
    <2> QED BY <2>1, <2>2
  <1> QED BY <1>1, <1>2, <1>5, RunIsOver

LEMMA EditsKeep ==
    ASSUME PackageInv, Repinned \/ OtherBlobs \/ UNCHANGED stageVars
    PROVE PackageInv'
  <1> USE DEF PackageInv, history
  <1>1. /\ ask' \in Asks /\ ask'.node = ask.node /\ (at # "idle" => ask' = ask) /\ (returned => returned')
        /\ UNCHANGED <<read, shelved, mark, stree, reused, objs, restored, dir, libs, handed, at, cut>>
    BY DEF Repinned, OtherBlobs, stageVars, ReadInv
  <1>2. ReadInv'
    BY ReadKeeps DEF StagesNext
  <1>3. ~returned' => ask'.src >= ask.src /\ (ask.node = "ffmpeg" => \A n \in LibNames : libs[n] <= ask'.dep[n])
    <2>1. ask.src \in Nat /\ ask'.src \in Nat
      BY <1>1, AskFacts DEF ReadInv
    <2>2. ASSUME ask.node = "ffmpeg", NEW n \in LibNames PROVE libs[n] \in Nat /\ ask'.dep[n] \in Nat
      BY <1>1, <2>2, AskFacts, LibVersionsAreNat DEF ReadInv
    <2>3. CASE Repinned
      <3>1. ~returned' => ~(ask'.src < ask.src) /\ (ask.node = "ffmpeg" => \A n \in LibNames : ~(ask'.dep[n] < libs[n]))
        BY <2>3, Zenon DEF Repinned
      <3> QED BY <2>1, <2>2, <3>1
    <2>4. CASE OtherBlobs \/ UNCHANGED stageVars
      <3>1. ask' = ask /\ returned' = returned
        BY <2>4 DEF OtherBlobs, stageVars
      <3> QED BY <2>1, <3>1 DEF LibInv
    <2> QED BY <2>3, <2>4
  <1>4. TreeInv'
    <2>1. ask.src \in Nat /\ ask'.src \in Nat /\ (mark # None => mark \in Nat)
      BY <1>1, AskFacts, StagesAssumption DEF ReadInv
    <2>2. ~returned' => mark = None \/ mark < ask'.src \/ (mark = ask'.src /\ stree = mark)
      <3>1. SUFFICES ASSUME ~returned', mark # None PROVE mark < ask'.src \/ (mark = ask'.src /\ stree = mark)
        OBVIOUS
      <3>2. ~returned
        BY <1>1, <3>1
      <3>3. mark < ask.src \/ (mark = ask.src /\ stree = mark)
        BY <3>1, <3>2 DEF TreeInv
      <3>4. ask'.src >= ask.src /\ mark \in Nat
        BY <1>3, <2>1, <3>1
      <3> QED BY <2>1, <3>3, <3>4
    <2>3. ASSUME NEW r \in Made(read), Of(objs[r], OutputKey(read), returned) PROVE Of(objs[r], OutputKey(read), returned')
      BY <1>1, <2>3 DEF Of
    <2> QED BY <1>1, <2>2, <2>3 DEF TreeInv
  <1>5. LibInv'
    <2>1. SUFFICES ASSUME ~returned', ask'.node = "ffmpeg", NEW n \in LibNames
                   PROVE  libs[n] <= ask'.dep[n] /\ (at \in {"configure", "compile"} => libs[n] = ask'.dep[n])
      BY <1>1 DEF LibInv
    <2>2. libs[n] <= ask'.dep[n]
      BY <1>1, <1>3, <2>1
    <2>3. ASSUME at \in {"configure", "compile"} PROVE libs[n] = ask'.dep[n]
      BY <1>1, <2>1, <2>3 DEF LibInv
    <2> QED BY <2>2, <2>3
  <1>6. RestoreInv'
    BY <1>1, GoodStays DEF RestoreInv, Entire
  <1>7. HandedInv' /\ BootInv'
    BY <1>1, ShownStays DEF HandedInv, BootInv
  <1> QED BY <1>1, <1>2, <1>4, <1>5, <1>6, <1>7, ShelfStays

LEMMA PackageInductive ==
    ASSUME PackageInv, ~StaleStamp, [StagesNext]_stageVars
    PROVE PackageInv'
  <1>1. CASE RestoreBegins \/ RestoreEnds \/ PublishedRestored \/ \E r \in AllRoles : PublishRestored(r)
    BY <1>1, RestoreKeeps
  <1>2. CASE BeginStage \/ TakeDeps \/ ConfigureTree \/ MakeProducts
    BY <1>2, BuildKeeps
  <1>3. CASE PackageUboot \/ Collected \/ StoreOutputs \/ \E r \in AllRoles : CollectProduct(r)
    <2>1. at \in {"collect", "store"}
      BY <1>3 DEF PackageUboot, Collected, StoreOutputs, CollectProduct
    <2> QED BY <1>3, <2>1, CollectKeeps
  <1>4. CASE CloneFails \/ RefreshCut \/ MakeDies \/ EndStage \/ StageFails \/ KillStage
    BY <1>4, EndsKeep
  <1>5. CASE Repinned \/ OtherBlobs \/ UNCHANGED stageVars
    BY <1>5, EditsKeep
  <1>6. CASE GateTree \/ CloneTree \/ StampTree
    BY <1>6, GateKeeps
  <1> QED BY <1>1, <1>2, <1>3, <1>4, <1>5, <1>6 DEF StagesNext, AllRoles

\* A refresh that was cut short stays so, and so does an edit that went back.
LEMMA HistoryGrows ==
    ASSUME [StagesNext]_stageVars
    PROVE (cut => cut') /\ (returned => returned')
  <1> USE DEF history
  <1>1. CASE RestoreBegins \/ RestoreEnds \/ PublishedRestored \/ \E r \in AllRoles : PublishRestored(r) \/ CollectProduct(r)
    BY <1>1 DEF RestoreBegins, RestoreEnds, PublishedRestored, PublishRestored, CollectProduct
  <1>2. CASE BeginStage \/ GateTree \/ CloneTree \/ StampTree \/ TakeDeps \/ ConfigureTree \/ MakeProducts
    BY <1>2 DEF BeginStage, GateTree, CloneTree, StampTree, TakeDeps, ConfigureTree, MakeProducts
  <1>3. CASE PackageUboot \/ Collected \/ StoreOutputs \/ OtherBlobs \/ UNCHANGED stageVars
    BY <1>3 DEF PackageUboot, Collected, StoreOutputs, OtherBlobs, stageVars
  <1>4. CASE CloneFails \/ RefreshCut \/ MakeDies \/ EndStage \/ StageFails \/ KillStage
    BY <1>4 DEF CloneFails, RefreshCut, MakeDies, EndStage, StageFails, KillStage
  <1>5. CASE Repinned
    BY <1>5, Zenon DEF Repinned
  <1> QED BY <1>1, <1>2, <1>3, <1>4, <1>5 DEF StagesNext, AllRoles

LEMMA PackageInitially == StagesInit => PackageInv
  <1> SUFFICES ASSUME StagesInit PROVE PackageInv
    OBVIOUS
  <1> DEFINE some == EarlierProducts(Roles(ask))
  <1>0. ask \in Asks /\ read = None /\ handed = {} /\ at = "idle" /\ cut = FALSE /\ returned = FALSE /\ DOMAIN <<>> = {}
    BY DEF StagesInit
  <1>1. PICK built \in BOOLEAN, stored \in BOOLEAN :
          /\ shelved = IF stored THEN [k \in {OutputKey(ask)} |-> some] ELSE <<>>
          /\ mark = IF built THEN ask.src ELSE None
          /\ stree = IF built THEN ask.src ELSE None
          /\ dir = IF built THEN [f \in {FileOf(ask, r) : r \in Roles(ask)} |-> some[f.kind]] ELSE <<>>
          /\ libs = [n \in LibNames |-> IF built /\ ask.node = "ffmpeg" THEN ask.dep[n] ELSE 0]
    BY DEF StagesInit
  <1>2. Entire(some, ask, FALSE)
    <2> DEFINE d == IF ask.node = "ffmpeg" THEN RequiredRuntimeDepends(ask.cfg) ELSE {}
    <2>1. DOMAIN some = Roles(ask) /\ \A r \in Roles(ask) : some[r] = Product(OutputKey(ask), r, d)
      BY DEF EarlierProducts
    <2>2. d \in Depends(ask)
      BY DEF Depends
    <2>3. PICK l \in [LibNames -> LibVersions] : ask.node = "ffmpeg" => l = ask.dep
      <3>1. CASE ask.node = "ffmpeg"
        <4>1. ask.dep \in [LibNames -> LibVersions]
          BY <1>0, <3>1, AskFacts
        <4> QED BY <4>1
      <3>2. CASE ask.node # "ffmpeg"
        <4>1. [n \in LibNames |-> 0] \in [LibNames -> LibVersions]
          BY DEF LibVersions
        <4> QED BY <3>2, <4>1
      <3> QED BY <3>1, <3>2
    <2>4. BuiltWith(ask, ask.src, l) = ask
      BY <1>0, <2>3, BuiltIsAsked
    <2>5. \A r \in Roles(ask) : Torn # Product(OutputKey(ask), r, d)
      BY <1>0, <2>2, <2>4, StagesAssumption
    <2>6. ASSUME NEW r \in Roles(ask) PROVE Good(some[r], ask, r, FALSE)
      <3>1. some[r] = Product(OutputKey(ask), r, d) /\ some[r] # Torn
        BY <2>1, <2>5
      <3> HIDE DEF some
      <3> QED BY <3>1 DEF Good, Of, Product
    <2> QED BY <2>1, <2>6 DEF Entire
  <1> HIDE DEF some
  <1>3. ReadInv
    <2>1. libs \in [LibNames -> LibVersions]
      BY <1>0, <1>1, AskFacts DEF LibVersions
    <2> QED BY <1>0, <1>1, <2>1 DEF ReadInv, Sources
  <1>4. ShelfInv
    BY <1>0, <1>1, <1>2 DEF ShelfInv
  <1>5. TreeInv
    BY <1>0, <1>1 DEF TreeInv
  <1>6. LibInv
    <2>1. SUFFICES ASSUME ask.node = "ffmpeg", NEW n \in LibNames PROVE libs[n] <= ask.dep[n]
      BY <1>0 DEF LibInv
    <2>2. ask.dep[n] \in Nat
      BY <1>0, <2>1, AskFacts
    <2> QED BY <1>1, <2>1, <2>2
  <1>7. BootInv
    <2>1. SUFFICES ASSUME NEW f \in DOMAIN dir PROVE dir[f] # Torn
      BY DEF BootInv
    <2>2. built /\ f \in {FileOf(ask, r) : r \in Roles(ask)} /\ dir[f] = some[f.kind]
      BY <1>0, <1>1
    <2>3. PICK r \in Roles(ask) : f = FileOf(ask, r)
      BY <2>2
    <2>4. f.kind = r
      BY <2>3 DEF FileOf
    <2> QED BY <1>2, <2>2, <2>4 DEF Entire, Good
  <1> QED BY <1>0, <1>3, <1>4, <1>5, <1>6, <1>7 DEF PackageInv, RestoreInv, HandedInv

\* For every set of asks, every number of runs, every failure, every kill between two steps and
\* inside a restore, a refresh or a compile, and every change of the pins: unless a refresh was cut
\* short and a pin has gone back, the store serves under a key what the key names, all of it; a
\* run that succeeds hands over the products of one build, the one it read (output_manifest,
\* restore_stage_outputs, store_stage_outputs), ffmpeg's up to the libraries it found once an
\* edit has gone behind one; no bootloader in the output directory is torn.
THEOREM HandsOverOneBuildHolds == StagesSpec => []HandsOverOneBuild
  <1>1. StagesInit => StagesInv
    BY PackageInitially DEF StagesInv, PackageInv
  <1>2. StagesInv /\ [StagesNext]_stageVars => StagesInv'
    <2> SUFFICES ASSUME StagesInv, [StagesNext]_stageVars PROVE StagesInv'
      OBVIOUS
    <2>1. ReadInv'
      BY ReadKeeps DEF StagesInv
    <2>2. ASSUME ~StaleStamp' PROVE PackageInv'
      <3>1. ~StaleStamp
        BY <2>2, HistoryGrows DEF StaleStamp
      <3> QED BY <3>1, PackageInductive DEF StagesInv
    <2> QED BY <2>1, <2>2 DEF StagesInv
  <1>3. StagesInv => HandsOverOneBuild
    <2> SUFFICES ASSUME PackageInv PROVE HandsOverOneBuild
      BY DEF StagesInv, StaleStamp, HandsOverOneBuild
    <2>1. \A f, k : Of(f, k, returned) <=> OfKey(f, k)
      BY DEF Of, OfKey
    <2>2. \A k \in DOMAIN shelved : \A r \in DOMAIN shelved[k] : OfKey(shelved[k][r], k) /\ shelved[k][r].role = r
      BY <2>1 DEF PackageInv, ShelfInv, Entire, Good
    <2>3. at = "done" =>
             /\ handed = Roles(read)
             /\ \A r \in handed : Good(dir[FileOf(read, r)], read, r, returned)
      BY DEF PackageInv, HandedInv, Shown
    <2>4. ask.node = "uboot" => \A f \in DOMAIN dir : dir[f] # Torn
      BY DEF PackageInv, BootInv
    <2> QED BY <2>1, <2>2, <2>3, <2>4 DEF HandsOverOneBuild, Good
  <1> QED BY <1>1, <1>2, <1>3, PTL DEF StagesSpec
-----------------------------------------------------------------------------
(***************************************************************************)
(* When the Tier-1 gate is sound: with pins that only move forward, a      *)
(* compile always starts from the tree it asked for, whatever is killed or *)
(* fails on the way.  The gate never removes a stamp, so what keeps a      *)
(* leftover stamp harmless is that it is older than anything a later run   *)
(* asks for.  A clean may leave any tree beside any stamp: nothing is said *)
(* of it until a refresh that began after it has written its stamp.        *)
(***************************************************************************)
\* A stamp over anything but the tree it names is behind, tree there or not.
StampBehind == (stamp # 0 /\ tree # ReadyTree(kind, stamp)) => stamp < asked

\* How far the refresh under way has brought the tree.
RefreshInv ==
    /\ tree.there /\ tree.of = asked /\ tree.whole
    /\ tree.done = IF phase = "fetch" THEN {}
                   ELSE IF phase = "patch" THEN {"fetch"} ELSE {"fetch", "patch"}
    /\ phase = "install" => kind = "kernel"

\* A refresh no clean has come beside is on its way to the tree it stamps.
RefreshOnItsWay ==
    /\ pc \in {"remove", "clone"} => phase = "fetch"
    /\ (clean \in {"no", "refetched"} /\ pc = "refresh") => RefreshInv
    /\ (clean \in {"no", "refetched"} /\ pc = "stamp") => tree = ReadyTree(kind, asked)

ForwardInv ==
    /\ TypeOK
    /\ stamp <= asked /\ asked <= want
    /\ clean = "no" => StampBehind
    /\ (clean = "no" /\ pc \in {"remove", "clone", "refresh", "stamp"}) => stamp < asked
    /\ (clean = "no" /\ pc = "compile") => stamp = asked /\ tree = ReadyTree(kind, asked)
    /\ RefreshOnItsWay

-----------------------------------------------------------------------------
\* Every action keeps the variables within their types.
LEMMA TypeInductive == ASSUME TypeOK, [Next]_vars PROVE TypeOK'
<1> USE TreeAssumption DEF TypeOK, Trees, NoTree, Phases, PhasesOf, NextPhase
<1>1. CASE Gate
  BY <1>1 DEF Gate, IsFresh
<1>2. CASE RemoveBegin \/ RemoveEnd \/ RemoveFails
  <2>1. CASE RemoveBegin
    BY <2>1 DEF RemoveBegin
  <2>2. CASE RemoveEnd
    BY <2>2 DEF RemoveEnd
  <2>3. CASE RemoveFails
    BY <2>3 DEF RemoveFails
  <2> QED
    BY <1>2, <2>1, <2>2, <2>3
<1>3. CASE FetchBegin
  BY <1>3 DEF FetchBegin
<1>4. CASE PhaseDone
  BY <1>4 DEF PhaseDone
<1>5. CASE PhaseFails \/ TreeVanished
  <2>1. CASE PhaseFails
    BY <2>1 DEF PhaseFails
  <2>2. CASE TreeVanished
    BY <2>2 DEF TreeVanished
  <2> QED
    BY <1>5, <2>1, <2>2
<1>6. CASE CleanupFails
  BY <1>6 DEF CleanupFails
<1>7. CASE WriteStampBegin \/ WriteStampEnd \/ WriteStampFails
  BY <1>7 DEF WriteStampBegin, WriteStampEnd, WriteStampFails
<1>8. CASE EndRun \/ Kill
  BY <1>8 DEF EndRun, Kill
<1>9. CASE CleanSteps
  <2>1. CASE CleanBegins \/ CleanEnds \/ CleanCut
    BY <2>1 DEF CleanBegins, CleanEnds, CleanCut
  <2>2. CASE CleanEats
    BY <2>2 DEF CleanEats
  <2>3. CASE CleanTakesTree
    BY <2>3 DEF CleanTakesTree
  <2>4. CASE CleanTakesStamp
    BY <2>4 DEF CleanTakesStamp
  <2> QED
    BY <1>9, <2>1, <2>2, <2>3, <2>4 DEF CleanSteps
<1>10. ASSUME NEW s \in Sigs, Repin(s) PROVE TypeOK'
  BY <1>10 DEF Repin
<1>11. CASE UNCHANGED vars
  BY <1>11 DEF vars
<1> QED
  BY <1>1, <1>2, <1>3, <1>4, <1>5, <1>6, <1>7, <1>8, <1>9, <1>10, <1>11 DEF Next, Step

\* The stage's variables always have their types.
THEOREM TreeTypeCorrect == Spec => []TypeOK
<1>1. Init => TypeOK
  BY TreeAssumption DEF Init, TypeOK, Trees, NoTree, Phases
<1> QED
  BY <1>1, TypeInductive, PTL DEF Spec

-----------------------------------------------------------------------------
LEMMA ForwardInductive ==
    ASSUME ~Reverts, ForwardInv, [Next]_vars PROVE ForwardInv'
<1>0. TypeOK /\ TypeOK'
  BY TypeInductive DEF ForwardInv
<1> USE <1>0, TreeAssumption
    DEF ForwardInv, RefreshOnItsWay, TypeOK, Trees, NoTree, ReadyTree, StampBehind, Phases, PhasesOf
<1>1. CASE Gate
  BY <1>1 DEF Gate, IsFresh, RefreshInv
<1>2. CASE RemoveBegin \/ RemoveEnd \/ RemoveFails
  BY <1>2 DEF RemoveBegin, RemoveEnd, RemoveFails, RefreshInv
<1>3. CASE FetchBegin
  BY <1>3 DEF FetchBegin, RefreshInv
<1>4. CASE PhaseDone
  BY <1>4 DEF PhaseDone, NextPhase, RefreshInv
<1>5. CASE PhaseFails \/ TreeVanished
  <2>1. CASE PhaseFails
    BY <2>1 DEF PhaseFails, RefreshInv
  <2>2. CASE TreeVanished
    BY <2>2 DEF TreeVanished, RefreshInv
  <2> QED
    BY <1>5, <2>1, <2>2
<1>6. CASE CleanupFails
  BY <1>6 DEF CleanupFails, RefreshInv
<1>7. CASE WriteStampBegin \/ WriteStampEnd \/ WriteStampFails
  BY <1>7 DEF WriteStampBegin, WriteStampEnd, WriteStampFails, RefreshInv
<1>8. CASE EndRun \/ Kill \/ CleanSteps
  <2>1. CASE EndRun \/ Kill
    BY <2>1 DEF EndRun, Kill, RefreshInv
  <2>2. CASE CleanBegins \/ CleanEnds \/ CleanCut
    BY <2>2 DEF CleanBegins, CleanEnds, CleanCut, RefreshInv
  <2>3. CASE CleanEats \/ CleanTakesTree \/ CleanTakesStamp
    BY <2>3 DEF CleanEats, CleanTakesTree, CleanTakesStamp, RefreshInv
  <2> QED
    BY <1>8, <2>1, <2>2, <2>3 DEF CleanSteps
<1>9. ASSUME NEW s \in Sigs, Repin(s) PROVE ForwardInv'
  BY <1>9 DEF Repin, RefreshInv
<1>10. CASE UNCHANGED vars
  BY <1>10 DEF vars, RefreshInv
<1> QED
  BY <1>1, <1>2, <1>3, <1>4, <1>5, <1>6, <1>7, <1>8, <1>9, <1>10 DEF Next, Step

\* With pins that only move forward, a compile starts from the tree fetched for
\* the signature it asked for, through every phase, under any faults, wherever no clean was
\* cut short or ran beside it since the tree was stamped (build/mod.rs reuse_or_refresh_tree,
\* signature.rs is_fresh, clean.rs run).
THEOREM ForwardReuseIsSound == ASSUME ~Reverts PROVE Spec => [](SoundReuse /\ StaleStampIsBehind)
<1>1. Init => ForwardInv
  BY TreeAssumption DEF Init, ForwardInv, RefreshOnItsWay, TypeOK, Trees, NoTree, Phases, StampBehind
<1>2. ForwardInv => SoundReuse /\ StaleStampIsBehind
  BY DEF ForwardInv, StampBehind, SoundReuse, StaleStampIsBehind
<1> QED
  BY <1>1, <1>2, ForwardInductive, PTL DEF Spec

-----------------------------------------------------------------------------
\* Between runs a stamp over a tree describes it: every failure took the tree.
GuardedInv ==
    /\ TypeOK
    /\ kind = "pinned"
    /\ (clean = "no" /\ pc \notin {"remove", "clone", "refresh", "stamp"} /\ tree.there) =>
         tree = ReadyTree(kind, stamp)
    /\ (clean = "no" /\ pc = "compile") => stamp = asked /\ tree = ReadyTree(kind, asked)
    /\ RefreshOnItsWay

LEMMA GuardedInductive ==
    ASSUME Faults \subseteq {"refresh"}, GuardedInv, [Next]_vars PROVE GuardedInv'
<1>0. TypeOK /\ TypeOK'
  BY TypeInductive DEF GuardedInv
<1> USE <1>0, TreeAssumption
    DEF GuardedInv, RefreshOnItsWay, TypeOK, Trees, NoTree, ReadyTree, Phases, PhasesOf
<1>1. CASE Gate
  BY <1>1 DEF Gate, IsFresh, RefreshInv
<1>2. CASE RemoveBegin \/ RemoveEnd \/ RemoveFails
  BY <1>2 DEF RemoveBegin, RemoveEnd, RemoveFails, RefreshInv
<1>3. CASE FetchBegin
  BY <1>3 DEF FetchBegin, RefreshInv
<1>4. CASE PhaseDone
  BY <1>4 DEF PhaseDone, NextPhase, RefreshInv
<1>5. CASE PhaseFails \/ TreeVanished
  BY <1>5 DEF PhaseFails, TreeVanished, Guarded, RefreshInv
<1>6. CASE CleanupFails
  BY <1>6 DEF CleanupFails, RefreshInv
<1>7. CASE WriteStampBegin \/ WriteStampEnd \/ WriteStampFails
  BY <1>7 DEF WriteStampBegin, WriteStampEnd, WriteStampFails, RefreshInv
<1>8. CASE EndRun \/ Kill \/ CleanSteps
  <2>1. CASE EndRun \/ Kill
    BY <2>1 DEF EndRun, Kill, RefreshInv
  <2>2. CASE CleanBegins \/ CleanEnds \/ CleanCut
    BY <2>2 DEF CleanBegins, CleanEnds, CleanCut, RefreshInv
  <2>3. CASE CleanEats \/ CleanTakesTree \/ CleanTakesStamp
    BY <2>3 DEF CleanEats, CleanTakesTree, CleanTakesStamp, RefreshInv
  <2> QED
    BY <1>8, <2>1, <2>2, <2>3 DEF CleanSteps
<1>9. ASSUME NEW s \in Sigs, Repin(s) PROVE GuardedInv'
  BY <1>9 DEF Repin, RefreshInv
<1>10. CASE UNCHANGED vars
  BY <1>10 DEF vars, RefreshInv
<1> QED
  BY <1>1, <1>2, <1>3, <1>4, <1>5, <1>6, <1>7, <1>8, <1>9, <1>10 DEF Next, Step

\* A stage whose every failed refresh removes the tree may move its pins back and
\* forth, as long as no build is killed and no removal of its own fails (clone_pinned); a
\* clean may be cut short here too.
THEOREM GuardedReuseIsSound ==
    ASSUME Kinds = {"pinned"}, Faults \subseteq {"refresh"} PROVE Spec => []SoundReuse
<1>1. Init => GuardedInv
  BY TreeAssumption DEF Init, GuardedInv, RefreshOnItsWay, TypeOK, Trees, NoTree, Phases
<1>2. GuardedInv => SoundReuse
  BY DEF GuardedInv, SoundReuse
<1> QED
  BY <1>1, <1>2, GuardedInductive, PTL DEF Spec
(***************************************************************************)
(* The fetchers.  A batch is two halves of the jobs, each in order and     *)
(* complete (HalfIsTheJobs); QueueInv, HeldInv and SlotInv divide the      *)
(* https half into what is queued, what is held and what is answered.  A   *)
(* chain of redirects keeps to its limit, its policy and clean paths.      *)
(***************************************************************************)
(* One client's half of a batch. *)

\* The jobs up to n one client serves, in order and all of them.
Halves(s, n, https) ==
    /\ s \in Seq(1..n)
    /\ \A i, j \in DOMAIN s : i < j => s[i] < s[j]
    /\ \A j \in 1..n : batch[j] = https => \E i \in DOMAIN s : s[i] = j

LEMMA HalvesGrow ==
    ASSUME NEW n \in Nat, n > 0, NEW s, NEW https, Halves(s, n - 1, https)
    PROVE  Halves(IF batch[n] = https THEN Append(s, n) ELSE s, n, https)
<1>1. s \in Seq(1..n) /\ n \in 1..n /\ \A i \in DOMAIN s : s[i] \in 1..(n - 1)
  <2>1. s \in Seq(1..(n - 1)) /\ 1..(n - 1) \subseteq 1..n
    BY DEF Halves
  <2> QED BY <2>1
<1>2. CASE batch[n] = https
  <2> DEFINE t == Append(s, n)
  <2>1. t \in Seq(1..n) /\ DOMAIN t = 1..(Len(s) + 1) /\ t[Len(s) + 1] = n /\ \A i \in DOMAIN s : t[i] = s[i]
    BY <1>1
  <2>2. DOMAIN s = 1..Len(s) /\ Len(s) \in Nat
    BY <1>1
  <2> HIDE DEF t
  <2>3. ASSUME NEW i \in DOMAIN t, NEW j \in DOMAIN t, i < j PROVE t[i] < t[j]
    <3>1. i \in DOMAIN s
      BY <2>1, <2>2, <2>3
    <3>2. CASE j \in DOMAIN s
      BY <3>1, <3>2, <2>1, <2>3 DEF Halves
    <3>3. CASE j = Len(s) + 1
      BY <3>1, <3>3, <2>1, <1>1
    <3> QED BY <3>2, <3>3, <2>1, <2>2
  <2>4. ASSUME NEW j \in 1..n, batch[j] = https PROVE \E i \in DOMAIN t : t[i] = j
    <3>1. CASE j = n
      BY <3>1, <2>1, <2>2
    <3>2. CASE j \in 1..(n - 1)
      BY <3>2, <2>1, <2>2, <2>4 DEF Halves
    <3> QED BY <3>1, <3>2
  <2> QED BY <1>2, <2>1, <2>3, <2>4 DEF Halves, t
<1>3. CASE batch[n] # https
  BY <1>1, <1>3 DEF Halves
<1> QED BY <1>2, <1>3

LEMMA HalfIsTheJobs ==
    ASSUME batch \in Seq(BOOLEAN), NEW https
    PROVE  Halves(Half(https), Len(batch), https)
<1> DEFINE N == Len(batch)
           S == Seq(Nat)
           advance == [i \in 1..N |-> [s \in S |-> IF batch[i] = https THEN Append(s, i) ELSE s]]
           Rule(g) == [n \in 0..N |-> IF n = 0 THEN <<>>
                                      ELSE IF batch[n] = https THEN Append(g[n - 1], n) ELSE g[n - 1]]
           up == CHOOSE g : g = Rule(g)
<1>0. N \in Nat
  OBVIOUS
<1>1. advance \in [1..N -> [S -> S]]
  OBVIOUS
<1>2. PICK f \in [0..N -> S] : Recurs(f, N, advance, <<>>)
  <2>1. <<>> \in S
    OBVIOUS
  <2> HIDE DEF N, S, advance
  <2> QED BY <2>1, <1>0, <1>1, RecursExist
<1>3. f = Rule(f)
  <2>1. ASSUME NEW n \in 0..N PROVE f[n] = Rule(f)[n]
    <3>1. CASE n = 0
      BY <1>2, <3>1 DEF Recurs
    <3>2. CASE n # 0
      <4>1. n \in 1..N /\ n - 1 \in 0..N
        BY <3>2, <1>0
      <4>2. f[n] = advance[n][f[n - 1]] /\ f[n - 1] \in S
        BY <1>2, <4>1 DEF Recurs
      <4> QED BY <3>2, <4>1, <4>2
    <3> QED BY <3>1, <3>2
  <2> QED BY <1>2, <2>1
<1>4. up = Rule(up)
  BY <1>3
<1>5. Half(https) = up[N]
  BY DEF Half
<1> HIDE DEF up
<1>6. up[0] = <<>> /\ \A n \in 1..N : up[n] = IF batch[n] = https THEN Append(up[n - 1], n) ELSE up[n - 1]
  <2>1. \A n \in 0..N : up[n] = Rule(up)[n]
    BY <1>4
  <2>2. 0 \in 0..N /\ \A n \in 1..N : n \in 0..N /\ n # 0
    BY <1>0
  <2>3. up[0] = <<>>
    BY <2>1, <2>2
  <2>4. ASSUME NEW n \in 1..N
        PROVE  up[n] = IF batch[n] = https THEN Append(up[n - 1], n) ELSE up[n - 1]
    <3>1. n \in 0..N /\ n # 0 /\ up[n] = Rule(up)[n]
      BY <2>1, <2>2
    <3> QED BY <3>1
  <2> QED BY <2>3, <2>4
<1> HIDE DEF Rule, N
<1> DEFINE T == {n \in 0..N : Halves(up[n], n, https)}
<1>7. 0 \in T
  <2>1. <<>> \in Seq(1..0) /\ DOMAIN <<>> = {}
    OBVIOUS
  <2>2. Halves(<<>>, 0, https)
    BY <2>1 DEF Halves
  <2> QED BY <2>2, <1>6, <1>0
<1>8. ASSUME NEW n \in 1..N, n - 1 \in T PROVE n \in T
  <2>1. n \in Nat /\ n > 0 /\ n \in 0..N /\ Halves(up[n - 1], n - 1, https)
    BY <1>8, <1>0
  <2>2. Halves(IF batch[n] = https THEN Append(up[n - 1], n) ELSE up[n - 1], n, https)
    BY <2>1, HalvesGrow
  <2>3. up[n] = IF batch[n] = https THEN Append(up[n - 1], n) ELSE up[n - 1]
    BY <1>6
  <2>4. Halves(up[n], n, https)
    BY <2>2, <2>3
  <2> QED BY <2>1, <2>4
<1> HIDE DEF T
<1>9. 0..N \subseteq T
  BY <1>7, <1>8, <1>0, UpTo
<1> QED BY <1>9, <1>5, <1>0 DEF T, N

\* The place a job has in the half it is in, the only one.
LEMMA PlaceOf ==
    ASSUME NEW s, NEW n \in Nat, NEW https, Halves(s, n, https), NEW i \in DOMAIN s
    PROVE  (CHOOSE k \in DOMAIN s : s[k] = s[i]) = i
<1>1. ASSUME NEW k \in DOMAIN s, s[k] = s[i], k # i PROVE FALSE
  <2>1. s \in Seq(1..n) /\ DOMAIN s = 1..Len(s)
    BY DEF Halves
  <2>3. k \in Nat /\ i \in Nat /\ s[k] \in 1..n /\ s[i] \in 1..n
    BY <2>1
  <2>2. k < i \/ i < k
    BY <1>1, <2>3
  <2> QED BY <1>1, <2>3, <2>2 DEF Halves
<1> QED BY <1>1
-----------------------------------------------------------------------------
(* The path of a redirect. *)

Dots == {".", ".."}
Clean(path) == \A n \in DOMAIN path : path[n] \notin Dots

LEMMA AppendedIsClean ==
    ASSUME NEW S, NEW out \in Seq(S), Clean(out), NEW e \in S, e \notin Dots
    PROVE  Append(out, e) \in Seq(S) /\ Clean(Append(out, e))
<1>1. /\ Append(out, e) \in Seq(S) /\ DOMAIN Append(out, e) = 1..(Len(out) + 1)
      /\ Append(out, e)[Len(out) + 1] = e
      /\ \A i \in 1..Len(out) : Append(out, e)[i] = out[i]
  OBVIOUS
<1>2. DOMAIN out = 1..Len(out) /\ Len(out) \in Nat
  OBVIOUS
<1>3. \A i \in 1..(Len(out) + 1) : i \in 1..Len(out) \/ i = Len(out) + 1
  BY <1>2
<1> QED BY <1>1, <1>2, <1>3 DEF Clean

LEMMA SeqElement == ASSUME NEW S, NEW s \in Seq(S), NEW i \in 1..Len(s) PROVE s[i] \in S
OBVIOUS

LEMMA SeqWider == ASSUME NEW S, NEW R, S \subseteq R, NEW s \in Seq(S) PROVE s \in Seq(R)
OBVIOUS

LEMMA WalkedIsClean ==
    ASSUME NEW S, NEW out \in Seq(S), Clean(out), NEW seg \in S
    PROVE  Walked(out, seg) \in Seq(S) /\ Clean(Walked(out, seg))
<1>1. CASE seg = "."
  BY <1>1 DEF Walked
<1>2. CASE seg = ".." /\ out = <<>>
  BY <1>2 DEF Walked
<1>3. CASE seg = ".." /\ out # <<>>
  <2>1. Walked(out, seg) = SubSeq(out, 1, Len(out) - 1)
    BY <1>3 DEF Walked, Front
  <2>2. Len(out) - 1 \in Nat
    BY <1>3
  <2>3. /\ SubSeq(out, 1, Len(out) - 1) \in Seq(S)
        /\ DOMAIN SubSeq(out, 1, Len(out) - 1) = 1..(Len(out) - 1)
        /\ \A i \in 1..(Len(out) - 1) : SubSeq(out, 1, Len(out) - 1)[i] = out[i]
    BY <2>2
  <2>4. \A i \in 1..(Len(out) - 1) : i \in DOMAIN out
    BY <2>2
  <2> QED BY <2>1, <2>3, <2>4 DEF Clean
<1>4. CASE seg \notin Dots
  <2>1. Walked(out, seg) = Append(out, seg)
    BY <1>4 DEF Walked, Dots
  <2> QED BY <2>1, <1>4, AppendedIsClean
<1> QED BY <1>1, <1>2, <1>3, <1>4 DEF Dots

\* What `normalize_dot_segments` returns, for a path of any length.
LEMMA NormalizedIsClean ==
    ASSUME NEW S, NEW path \in Seq(S)
    PROVE  NormalizeDotSegments(path) \in Seq(S \cup {""}) /\ Clean(NormalizeDotSegments(path))
<1> DEFINE N == Len(path)
           Q == {s \in Seq(S) : Clean(s)}
           advance == [i \in 1..N |-> [s \in Q |-> Walked(s, path[i])]]
           Rule(g) == [n \in 0..N |-> IF n = 0 THEN <<>> ELSE Walked(g[n - 1], path[n])]
           walk == CHOOSE g : g = Rule(g)
<1>0. N \in Nat /\ \A i \in 1..N : path[i] \in S
  OBVIOUS
<1>1. advance \in [1..N -> [Q -> Q]]
  <2>1. ASSUME NEW i \in 1..N, NEW s \in Q PROVE Walked(s, path[i]) \in Q
    BY <1>0, WalkedIsClean
  <2> QED BY <2>1
<1>w. \A s \in Q, i \in 1..N : Walked(s, path[i]) \in Q
  BY <1>0, WalkedIsClean
<1>2. <<>> \in Q
  BY DEF Clean
<1>3. PICK f \in [0..N -> Q] : Recurs(f, N, advance, <<>>)
  <2> HIDE DEF N, Q, advance
  <2> QED BY <1>0, <1>1, <1>2, RecursExist
<1> HIDE DEF Q
<1>4. f = Rule(f)
  <2>1. ASSUME NEW n \in 0..N PROVE f[n] = Rule(f)[n]
    <3>1. CASE n = 0
      BY <1>3, <3>1 DEF Recurs
    <3>2. CASE n # 0
      <4>1. n \in 1..N /\ n - 1 \in 0..N
        BY <3>2, <1>0
      <4>2. f[n] = advance[n][f[n - 1]] /\ f[n - 1] \in Q
        BY <1>3, <4>1 DEF Recurs
      <4> QED BY <3>2, <4>1, <4>2
    <3> QED BY <3>1, <3>2
  <2> QED BY <1>3, <2>1
<1>5. walk = Rule(walk)
  BY <1>4
<1>6. \/ NormalizeDotSegments(path) = walk[N]
      \/ NormalizeDotSegments(path) = Append(walk[N], "")
  BY DEF NormalizeDotSegments
<1> HIDE DEF walk
<1>7. walk[0] = <<>> /\ \A n \in 1..N : walk[n] = Walked(walk[n - 1], path[n])
  <2>1. \A n \in 0..N : walk[n] = Rule(walk)[n]
    BY <1>5
  <2> QED BY <2>1, <1>0
<1> HIDE DEF Rule, N
<1> DEFINE T == {n \in 0..N : walk[n] \in Q}
<1>8. 0 \in T
  BY <1>2, <1>7, <1>0
<1>9. ASSUME NEW n \in 1..N, n - 1 \in T PROVE n \in T
  BY <1>9, <1>7, <1>0, <1>w
<1> HIDE DEF T
<1>10. 0..N \subseteq T
  BY <1>8, <1>9, <1>0, UpTo
<1>11. walk[N] \in Seq(S) /\ Clean(walk[N])
  BY <1>10, <1>0 DEF T, Q
<1>12. walk[N] \in Seq(S \cup {""})
  BY <1>11, SeqWider, S \subseteq S \cup {""}
<1>13. "" \in S \cup {""} /\ "" \notin Dots
  BY DEF Dots
<1>14. Append(walk[N], "") \in Seq(S \cup {""}) /\ Clean(Append(walk[N], ""))
  BY <1>11, <1>12, <1>13, AppendedIsClean
<1> QED BY <1>6, <1>11, <1>12, <1>14
-----------------------------------------------------------------------------
(* The batch. *)

Handed == Len(TlsAt) - Len(queued)

\* The https half: what is queued, what the workers hold and what is answered.
QueueInv ==
    /\ queued \in Seq(Nat) /\ Handed \in Nat
    /\ \A i \in 1..Len(queued) : queued[i] = TlsAt[Handed + i]
HeldInv ==
    /\ \A w \in Workers : held[w] # 0 => \E i \in 1..Handed : held[w] = TlsAt[i]
    /\ \A v, w \in Workers : v # w /\ held[v] # 0 => held[v] # held[w]
SlotInv ==
    /\ DOMAIN slot = 1..Len(TlsAt)
    /\ \A i \in 1..Handed :
          slot[i] = TlsAt[i] \/ (slot[i] = 0 /\ \E w \in Workers : held[w] = TlsAt[i])
    /\ \A i \in (Handed + 1)..Len(TlsAt) : slot[i] = 0

\* The library's half.
PlainInv ==
    /\ plain \in Seq(Nat) /\ Len(plain) <= Len(PlainAt)
    /\ \A i \in 1..Len(plain) : plain[i] = PlainAt[i]

BatchInv ==
    /\ batch \in Seq(BOOLEAN) /\ Len(batch) <= MaxJobs
    /\ bpc \in {"start", "fetching", "answered"}
    /\ held \in [Workers -> 0..MaxJobs]
    /\ bpc = "fetching" => QueueInv /\ HeldInv /\ SlotInv /\ PlainInv
    /\ bpc # "fetching" => held = [w \in Workers |-> 0]
    /\ bpc = "start" => plain = <<>> /\ slot = <<>>
    /\ \A i \in DOMAIN slot : slot[i] \in 0..MaxJobs
    /\ bpc = "answered" => outcome = Jobs

\* What a half gives the invariant's proof.
LEMMA HalfFacts ==
    ASSUME batch \in Seq(BOOLEAN), Len(batch) <= MaxJobs, NEW https \in BOOLEAN
    PROVE  /\ Half(https) \in Seq(1..Len(batch)) /\ Half(https) \in Seq(Nat) /\ Half(https) \in Seq(1..MaxJobs)
           /\ Len(Half(https)) \in Nat /\ DOMAIN Half(https) = 1..Len(Half(https))
           /\ \A i, j \in 1..Len(Half(https)) : Half(https)[i] = Half(https)[j] => i = j
           /\ \A j \in 1..Len(batch) : batch[j] = https => \E i \in 1..Len(Half(https)) : Half(https)[i] = j
<1> DEFINE s == Half(https)
<1>1. Halves(s, Len(batch), https)
  BY HalfIsTheJobs
<1>2. s \in Seq(1..Len(batch)) /\ Len(batch) \in Nat
  BY <1>1 DEF Halves
<1> HIDE DEF s
<1>3. 1..Len(batch) \subseteq Nat /\ 1..Len(batch) \subseteq 1..MaxJobs
  BY <1>2, FetchingAssumption
<1>4. s \in Seq(Nat) /\ s \in Seq(1..MaxJobs)
  BY <1>2, <1>3, SeqWider
<1>5. Len(s) \in Nat /\ DOMAIN s = 1..Len(s)
  BY <1>2
<1>6. ASSUME NEW i \in 1..Len(s), NEW j \in 1..Len(s), s[i] = s[j], i # j PROVE FALSE
  <2>1. s[i] \in Nat /\ s[j] \in Nat /\ (i < j \/ j < i) /\ i \in DOMAIN s /\ j \in DOMAIN s
    BY <1>4, <1>5, <1>6
  <2> QED BY <2>1, <1>1, <1>6 DEF Halves
<1>7. \A j \in 1..Len(batch) : batch[j] = https => \E i \in 1..Len(s) : s[i] = j
  BY <1>1, <1>5 DEF Halves
<1> QED BY <1>2, <1>4, <1>5, <1>6, <1>7 DEF s

LEMMA JobsOfNone == ASSUME batch = <<>> PROVE Jobs = <<>>
BY DEF Jobs

LEMMA FetchingInitBatch == FetchingInit => BatchInv
<1> SUFFICES ASSUME FetchingInit PROVE BatchInv
  OBVIOUS
<1>1. CASE BatchInit
  <2>1. PICK n \in 0..MaxJobs : batch \in [1..n -> BOOLEAN]
    BY <1>1 DEF BatchInit
  <2>2. batch \in Seq(BOOLEAN) /\ Len(batch) = n
    BY <2>1, FetchingAssumption
  <2>3. slot = <<>> /\ DOMAIN slot = {}
    BY <1>1 DEF BatchInit
  <2> QED BY <1>1, <2>1, <2>2, <2>3, FetchingAssumption DEF BatchInit, BatchInv
<1>2. CASE HopInit
  <2>1. batch \in Seq(BOOLEAN) /\ Len(batch) = 0
    BY <1>2 DEF HopInit
  <2>2. slot = <<>> /\ DOMAIN slot = {}
    BY <1>2 DEF HopInit
  <2> QED BY <1>2, <2>1, <2>2, JobsOfNone, FetchingAssumption DEF HopInit, BatchInv
<1> QED BY <1>1, <1>2 DEF FetchingInit

LEMMA PartitionKeeps == ASSUME BatchInv, Partition PROVE BatchInv'
<1> DEFINE t == TlsAt
<1>1. t \in Seq(Nat) /\ Len(t) \in Nat /\ DOMAIN t = 1..Len(t)
  BY HalfFacts DEF BatchInv, TlsAt
<1>2. TlsAt' = t /\ PlainAt' = PlainAt
  BY DEF Partition, TlsAt, PlainAt, Half
<1>3. Len(PlainAt) \in Nat
  BY HalfFacts DEF BatchInv, PlainAt
<1>4. queued' = t /\ slot' = [i \in 1..Len(t) |-> 0] /\ plain' = <<>> /\ held' = [w \in Workers |-> 0]
  BY DEF Partition, BatchInv
<1> HIDE DEF t
<1>5. Handed' = 0
  BY <1>1, <1>2, <1>4 DEF Handed
<1>6. QueueInv'
  BY <1>1, <1>2, <1>4, <1>5 DEF QueueInv
<1>7. HeldInv'
  BY <1>4, <1>5 DEF HeldInv
<1>8. SlotInv'
  BY <1>1, <1>2, <1>4, <1>5 DEF SlotInv
<1>9. PlainInv'
  <2>1. plain' \in Seq(Nat) /\ Len(plain') = 0
    BY <1>4
  <2> QED BY <2>1, <1>2, <1>3 DEF PlainInv
<1> QED BY <1>4, <1>6, <1>7, <1>8, <1>9, FetchingAssumption DEF Partition, BatchInv

LEMMA TakeJobKeeps == ASSUME BatchInv, NEW w \in Workers, TakeJob(w) PROVE BatchInv'
<1> DEFINE t == TlsAt
           q == Len(queued)
<1>1. t \in Seq(1..MaxJobs) /\ Len(t) \in Nat /\ DOMAIN t = 1..Len(t)
      /\ \A i, j \in 1..Len(t) : t[i] = t[j] => i = j
  BY HalfFacts DEF BatchInv, TlsAt
<1>2. TlsAt' = t /\ PlainAt' = PlainAt
  BY DEF TakeJob, TlsAt, PlainAt, Half
<1>3. QueueInv /\ HeldInv /\ SlotInv /\ PlainInv
  BY DEF TakeJob, BatchInv
<1>4. q \in Nat /\ q > 0 /\ Head(queued) = queued[1] /\ Tail(queued) \in Seq(Nat) /\ Len(Tail(queued)) = q - 1
      /\ \A i \in 1..(q - 1) : Tail(queued)[i] = queued[i + 1]
  BY <1>3 DEF QueueInv, TakeJob
<1> HIDE DEF t
<1>5. Handed = Len(t) - q /\ Handed \in Nat /\ Handed' = Handed + 1 /\ Handed + 1 \in 1..Len(t)
  BY <1>1, <1>2, <1>3, <1>4 DEF Handed, QueueInv, TakeJob, t
<1> HIDE DEF q
<1>e. \A i \in 1..Len(t) : t[i] \in 1..MaxJobs
  <2>1. t \in Seq(1..MaxJobs)
    BY <1>1
  <2> QED BY <2>1, SeqElement
<1>6. held[w] = 0 /\ held' = [held EXCEPT ![w] = t[Handed + 1]] /\ t[Handed + 1] \in 1..MaxJobs
  <2>1. queued[1] = t[Handed + 1]
    BY <1>3, <1>4 DEF QueueInv, t, q
  <2> QED BY <1>e, <1>4, <1>5, <2>1 DEF TakeJob
<1>7. held'[w] = t[Handed + 1] /\ \A v \in Workers : v # w => held'[v] = held[v]
  BY <1>6 DEF BatchInv
<1>8. QueueInv'
  <2>1. ASSUME NEW i \in 1..(q - 1) PROVE Tail(queued)[i] = t[Handed + 1 + i]
    <3>1. i + 1 \in 1..q
      BY <1>4
    <3>2. queued[i + 1] = t[Handed + (i + 1)]
      BY <3>1, <1>3 DEF QueueInv, t, q
    <3>3. Handed + (i + 1) = Handed + 1 + i
      BY <1>5, <1>4
    <3> QED BY <3>2, <3>3, <1>4
  <2> QED BY <2>1, <1>2, <1>4, <1>5 DEF QueueInv, TakeJob
<1>9. HeldInv'
  <2>1. ASSUME NEW v \in Workers, held'[v] # 0 PROVE \E i \in 1..(Handed + 1) : held'[v] = t[i]
    BY <2>1, <1>3, <1>5, <1>7 DEF HeldInv, t
  <2>2. ASSUME NEW v \in Workers, v # w, held[v] = t[Handed + 1] PROVE FALSE
    <3>1. held[v] # 0
      BY <2>2, <1>6
    <3>2. PICK i \in 1..Handed : held[v] = t[i]
      BY <3>1, <1>3 DEF HeldInv, t
    <3>3. i \in 1..Len(t) /\ i # Handed + 1
      BY <1>5
    <3> QED BY <3>2, <3>3, <2>2, <1>1, <1>5
  <2> QED BY <2>1, <2>2, <1>2, <1>3, <1>5, <1>7 DEF HeldInv
<1>10. SlotInv'
  <2>1. slot' = slot /\ DOMAIN slot = 1..Len(t)
    BY <1>3 DEF SlotInv, TakeJob, t
  <2>2. ASSUME NEW i \in 1..(Handed + 1)
        PROVE  slot[i] = t[i] \/ (slot[i] = 0 /\ \E v \in Workers : held'[v] = t[i])
    <3>1. CASE i = Handed + 1
      BY <3>1, <1>3, <1>5, <1>7 DEF SlotInv, t
    <3>2. CASE i \in 1..Handed
      <4>1. CASE slot[i] = t[i]
        BY <4>1
      <4>2. CASE slot[i] # t[i]
        <5>1. slot[i] = 0 /\ \E v \in Workers : held[v] = t[i]
          BY <3>2, <4>2, <1>3 DEF SlotInv, t
        <5>2. PICK v \in Workers : held[v] = t[i]
          BY <5>1
        <5>3. t[i] \in 1..MaxJobs
          BY <3>2, <1>e, <1>5
        <5>4. v # w
          BY <5>2, <5>3, <1>6
        <5> QED BY <5>1, <5>2, <5>4, <1>7
      <4> QED BY <4>1, <4>2
    <3> QED BY <3>1, <3>2, <1>5
  <2>3. \A i \in (Handed + 2)..Len(t) : slot[i] = 0
    BY <1>3, <1>5 DEF SlotInv, t
  <2>4. Handed' + 1 = Handed + 2
    BY <1>5
  <2> QED BY <2>1, <2>2, <2>3, <2>4, <1>2, <1>5 DEF SlotInv
<1>11. PlainInv'
  BY <1>2, <1>3 DEF PlainInv, TakeJob
<1>12. held' \in [Workers -> 0..MaxJobs]
  BY <1>6 DEF BatchInv
<1> QED BY <1>8, <1>9, <1>10, <1>11, <1>12 DEF TakeJob, BatchInv

LEMMA FinishJobKeeps == ASSUME BatchInv, NEW w \in Workers, FinishJob(w) PROVE BatchInv'
<1> DEFINE t == TlsAt
<1>1. t \in Seq(1..MaxJobs) /\ Len(t) \in Nat /\ DOMAIN t = 1..Len(t)
      /\ \A i, j \in 1..Len(t) : t[i] = t[j] => i = j
  BY HalfFacts DEF BatchInv, TlsAt
<1>2. TlsAt' = t /\ PlainAt' = PlainAt
  BY DEF FinishJob, TlsAt, PlainAt, Half
<1>3. bpc = "fetching" /\ QueueInv /\ HeldInv /\ SlotInv /\ PlainInv
  BY DEF FinishJob, BatchInv
<1>4. Handed \in Nat /\ Handed <= Len(t) /\ Handed' = Handed
  BY <1>1, <1>2, <1>3 DEF Handed, QueueInv, FinishJob, t
<1> HIDE DEF t
<1>5. PICK k \in 1..Handed : held[w] = t[k]
  BY <1>3 DEF HeldInv, FinishJob, t
<1>6. k \in 1..Len(t) /\ t[k] \in 1..MaxJobs
  <2>1. k \in 1..Len(t) /\ t \in Seq(1..MaxJobs)
    BY <1>1, <1>4
  <2> QED BY <2>1, SeqElement
<1>7. (CHOOSE i \in 1..Len(t) : t[i] = held[w]) = k
  BY <1>1, <1>5, <1>6
<1>8. DOMAIN slot = 1..Len(t) /\ slot' = [slot EXCEPT ![k] = t[k]]
  BY <1>3, <1>5, <1>7 DEF SlotInv, FinishJob, t
<1>9. DOMAIN slot' = 1..Len(t) /\ slot'[k] = t[k] /\ \A i \in 1..Len(t) : i # k => slot'[i] = slot[i]
  BY <1>6, <1>8
<1>10. held'[w] = 0 /\ (\A v \in Workers : v # w => held'[v] = held[v]) /\ held' \in [Workers -> 0..MaxJobs]
  BY FetchingAssumption DEF FinishJob, BatchInv
<1>11. QueueInv'
  BY <1>2, <1>3, <1>4 DEF QueueInv, FinishJob, t
<1>12. HeldInv'
  BY <1>2, <1>3, <1>4, <1>10 DEF HeldInv, t
<1>13. SlotInv'
  <2>1. ASSUME NEW i \in 1..Handed
        PROVE  slot'[i] = t[i] \/ (slot'[i] = 0 /\ \E v \in Workers : held'[v] = t[i])
    <3>1. CASE i = k
      BY <3>1, <1>9
    <3>2. CASE i # k
      <4>1. i \in 1..Len(t) /\ slot'[i] = slot[i]
        BY <3>2, <1>4, <1>9
      <4>2. CASE slot[i] = t[i]
        BY <4>1, <4>2
      <4>3. CASE slot[i] # t[i]
        <5>1. slot[i] = 0 /\ \E v \in Workers : held[v] = t[i]
          BY <4>3, <1>3 DEF SlotInv, t
        <5>2. PICK v \in Workers : held[v] = t[i]
          BY <5>1
        <5>3. v # w
          BY <5>2, <1>1, <1>5, <1>6, <3>2, <4>1
        <5> QED BY <5>1, <5>2, <5>3, <4>1, <1>10
      <4> QED BY <4>2, <4>3
    <3> QED BY <3>1, <3>2
  <2>2. ASSUME NEW i \in (Handed + 1)..Len(t) PROVE slot'[i] = 0
    <3>1. i \in 1..Len(t) /\ i # k
      BY <1>4
    <3> QED BY <3>1, <1>3, <1>9 DEF SlotInv, t
  <2> QED BY <2>1, <2>2, <1>2, <1>4, <1>9 DEF SlotInv
<1>14. PlainInv'
  BY <1>2, <1>3 DEF PlainInv, FinishJob
<1>15. \A i \in DOMAIN slot' : slot'[i] \in 0..MaxJobs
  BY <1>6, <1>8, <1>9 DEF BatchInv
<1> QED BY <1>3, <1>10, <1>11, <1>12, <1>13, <1>14, <1>15 DEF FinishJob, BatchInv

LEMMA PlainAnswersKeeps == ASSUME BatchInv, PlainAnswers PROVE BatchInv'
<1>1. TlsAt' = TlsAt /\ PlainAt' = PlainAt /\ Handed' = Handed
  BY DEF PlainAnswers, TlsAt, PlainAt, Half, Handed
<1>2. QueueInv /\ HeldInv /\ SlotInv /\ PlainInv
  BY DEF PlainAnswers, BatchInv
<1>3. QueueInv' /\ HeldInv' /\ SlotInv'
  BY <1>1, <1>2 DEF QueueInv, HeldInv, SlotInv, PlainAnswers
<1>4. PlainAt \in Seq(Nat)
  BY HalfFacts DEF BatchInv, PlainAt
<1>5. PlainInv'
  <2> DEFINE n == Len(plain) + 1
             x == PlainAt[n]
  <2>1. n \in 1..Len(PlainAt) /\ Len(plain) \in Nat /\ plain \in Seq(Nat)
    BY <1>2, <1>4 DEF PlainInv, PlainAnswers
  <2>2. x \in Nat
    BY <2>1, <1>4, SeqElement
  <2>3. plain' = Append(plain, x)
    BY DEF PlainAnswers
  <2> HIDE DEF x
  <2>4. /\ plain' \in Seq(Nat) /\ Len(plain') = n /\ plain'[n] = x
        /\ \A i \in 1..Len(plain) : plain'[i] = plain[i]
    BY <2>1, <2>2, <2>3
  <2>5. \A i \in 1..n : i \in 1..Len(plain) \/ i = n
    BY <2>1
  <2> HIDE DEF n
  <2>6. ASSUME NEW i \in 1..n PROVE plain'[i] = PlainAt[i]
    BY <2>4, <2>5, <1>2 DEF PlainInv, x
  <2>7. n <= Len(PlainAt)
    BY <2>1, <1>4
  <2> QED BY <2>4, <2>6, <2>7, <1>1 DEF PlainInv
<1> QED BY <1>3, <1>5 DEF PlainAnswers, BatchInv

\* Every worker has come home: what is in the slots is each job's own answer.
LEMMA AnsweredByPosition == ASSUME BatchInv, Answer PROVE outcome' = Jobs
<1>1. QueueInv /\ HeldInv /\ SlotInv /\ PlainInv
  BY DEF Answer, BatchInv
<1>2. batch \in Seq(BOOLEAN) /\ Len(batch) <= MaxJobs
  BY DEF BatchInv
<1>3. \A i \in 1..Len(TlsAt) : slot[i] = TlsAt[i]
  <2>1. Handed = Len(TlsAt)
    <3>1. Len(TlsAt) \in Nat
      BY <1>2, HalfFacts DEF TlsAt
    <3>2. Len(queued) = 0
      BY DEF Answer
    <3> QED BY <3>1, <3>2 DEF Handed
  <2>2. ASSUME NEW i \in 1..Len(TlsAt), slot[i] # TlsAt[i] PROVE FALSE
    <3>1. PICK v \in Workers : held[v] = TlsAt[i]
      BY <2>1, <2>2, <1>1 DEF SlotInv
    <3>2. slot[i] = 0 /\ held[v] = 0
      BY <2>1, <2>2, <1>1 DEF SlotInv, Answer
    <3> QED BY <2>2, <3>1, <3>2
  <2> QED BY <2>2
<1>4. Len(plain) = Len(PlainAt) /\ \A i \in 1..Len(PlainAt) : plain[i] = PlainAt[i]
  BY <1>1 DEF PlainInv, Answer
<1>5. ASSUME NEW j \in 1..Len(batch) PROVE Scatter(j) = j
  <2>1. CASE batch[j]
    <3>1. batch[j] = TRUE
      BY <2>1, <1>2
    <3>2. /\ DOMAIN TlsAt = 1..Len(TlsAt)
          /\ \A i, k \in 1..Len(TlsAt) : TlsAt[i] = TlsAt[k] => i = k
          /\ \E i \in 1..Len(TlsAt) : TlsAt[i] = j
      BY <3>1, <1>2, HalfFacts DEF TlsAt
    <3>3. PICK i \in DOMAIN TlsAt : TlsAt[i] = j
      BY <3>2
    <3>4. (CHOOSE k \in DOMAIN TlsAt : TlsAt[k] = j) = i
      BY <3>2, <3>3
    <3> QED BY <2>1, <3>2, <3>3, <3>4, <1>3 DEF Scatter
  <2>2. CASE ~batch[j]
    <3>1. batch[j] = FALSE
      BY <2>2, <1>2
    <3>2. /\ DOMAIN PlainAt = 1..Len(PlainAt)
          /\ \A i, k \in 1..Len(PlainAt) : PlainAt[i] = PlainAt[k] => i = k
          /\ \E i \in 1..Len(PlainAt) : PlainAt[i] = j
      BY <3>1, <1>2, HalfFacts DEF PlainAt
    <3>3. PICK i \in DOMAIN PlainAt : PlainAt[i] = j
      BY <3>2
    <3>4. (CHOOSE k \in DOMAIN PlainAt : PlainAt[k] = j) = i
      BY <3>2, <3>3
    <3> QED BY <2>2, <3>2, <3>3, <3>4, <1>4 DEF Scatter
  <2> QED BY <2>1, <2>2
<1> QED BY <1>5 DEF Answer, Jobs

LEMMA AnswerKeeps == ASSUME BatchInv, Answer PROVE BatchInv'
<1>1. outcome' = Jobs'
  BY AnsweredByPosition DEF Answer, Jobs
<1>2. held = [w \in Workers |-> 0]
  BY DEF BatchInv, Answer
<1> QED BY <1>1, <1>2 DEF Answer, BatchInv

LEMMA BatchRestsKeeps == ASSUME BatchInv, UNCHANGED batchVars PROVE BatchInv'
<1>1. TlsAt' = TlsAt /\ PlainAt' = PlainAt /\ Handed' = Handed /\ Jobs' = Jobs
  BY DEF batchVars, TlsAt, PlainAt, Half, Handed, Jobs
<1>2. QueueInv' = QueueInv /\ HeldInv' = HeldInv /\ SlotInv' = SlotInv /\ PlainInv' = PlainInv
  BY <1>1 DEF batchVars, QueueInv, HeldInv, SlotInv, PlainInv
<1> QED BY <1>1, <1>2 DEF batchVars, BatchInv
-----------------------------------------------------------------------------
(* The hops. *)

Parts == Segments \cup Schemes \cup {"a", ""}

HopInv ==
    /\ hops \in Nat /\ hops <= MaxRedirects + 1 /\ npc \in {"asking", "body", "refused"}
    /\ npc = "asking" => hops <= MaxRedirects
    /\ url.path \in Seq(Parts) /\ Clean(url.path)
    /\ npc \in {"asking", "body"} => RequireHttp(url) /\ (secure => url.scheme = "https")

LEMMA FirstHop == ASSUME NEW x \in Parts, x \notin Dots PROVE <<x>> \in Seq(Parts) /\ Clean(<<x>>)
BY DEF Clean

LEMMA FetchingInitHop == FetchingInit => HopInv
<1> SUFFICES ASSUME FetchingInit PROVE HopInv
  OBVIOUS
<1>1. CASE BatchInit
  BY <1>1 DEF BatchInit, NoHop, HopInv, Clean, MaxRedirects
<1>2. CASE HopInit
  <2>1. PICK x \in {"http", "https"} : url = [scheme |-> x, path |-> <<"a">>]
    BY <1>2 DEF HopInit
  <2>2. "a" \in Parts /\ "a" \notin Dots
    BY DEF Parts, Dots
  <2>3. url.path \in Seq(Parts) /\ Clean(url.path)
    BY <2>1, <2>2, FirstHop
  <2>4. hops = 0 /\ npc = "asking" /\ secure = (url.scheme = "https")
    BY <1>2 DEF HopInit
  <2>5. url.scheme = x
    BY <2>1
  <2>6. RequireHttp(url) /\ (secure => url.scheme = "https")
    BY <2>4, <2>5 DEF RequireHttp
  <2> QED BY <2>3, <2>4, <2>6 DEF HopInv, MaxRedirects
<1> QED BY <1>1, <1>2 DEF FetchingInit

LEMMA ReferencePath == ASSUME NEW loc \in References PROVE loc.path \in Seq(Parts)
<1>1. PICK n \in 0..2 : loc.path \in [1..n -> Segments]
  BY DEF References, Paths
<1>2. loc.path \in Seq(Segments) /\ Segments \subseteq Parts
  <2>1. loc.path \in Seq(Segments)
    BY <1>1
  <2> QED BY <2>1 DEF Parts
<1> QED BY <1>2, SeqWider

LEMMA PairOf == ASSUME NEW S, NEW a \in S, NEW b \in S PROVE <<a, b>> \in Seq(S)
OBVIOUS

LEMMA Joined == ASSUME NEW S, NEW s \in Seq(S), NEW t \in Seq(S) PROVE s \o t \in Seq(S)
OBVIOUS

LEMMA TakenPath == ASSUME NEW loc \in References PROVE Taken(loc).path \in Seq(Parts)
<1>1. CASE loc.kind = "absolute" /\ loc.scheme \notin {"http", "https"}
  <2>1. loc.scheme \in Parts /\ "" \in Parts
    <3>1. CASE loc \in [kind: {"absolute"}, scheme: Schemes, path: Paths]
      BY <3>1 DEF Parts
    <3>2. CASE loc \in [kind: {"network", "rooted", "relative"}, scheme: {"none"}, path: Paths]
      BY <1>1, <3>2
    <3> QED BY <3>1, <3>2 DEF References
  <2>2. <<loc.scheme, "">> \in Seq(Parts)
    BY <2>1, PairOf
  <2>3. <<loc.scheme, "">> \o loc.path \in Seq(Parts)
    BY <2>2, ReferencePath, Joined
  <2> QED BY <1>1, <2>3 DEF Taken
<1>2. CASE ~(loc.kind = "absolute" /\ loc.scheme \notin {"http", "https"})
  BY <1>2, ReferencePath DEF Taken
<1> QED BY <1>1, <1>2

LEMMA ResolvedIsClean ==
    ASSUME NEW base, base.path \in Seq(Parts), NEW loc \in References
    PROVE  LET next == ResolveRedirect(base, loc) IN next.path \in Seq(Parts) /\ Clean(next.path)
<1> DEFINE b == base.path
           to == Taken(loc)
           joined == IF to.kind = "relative" /\ b # <<>> THEN Front(b) \o to.path ELSE to.path
<1>0. to.path \in Seq(Parts)
  BY TakenPath
<1> HIDE DEF to
<1>1. joined \in Seq(Parts)
  <2>1. CASE b # <<>>
    <3>1. Front(b) \in Seq(Parts)
      <4>1. Len(b) - 1 \in Nat
        BY <2>1
      <4> QED BY <4>1 DEF Front
    <3> QED BY <1>0, <3>1
  <2>2. CASE b = <<>>
    BY <1>0, <2>2
  <2> QED BY <2>1, <2>2
<1>2. ResolveRedirect(base, loc).path = NormalizeDotSegments(joined)
  BY DEF ResolveRedirect, to
<1> HIDE DEF joined
<1>3. Parts \cup {""} = Parts
  BY DEF Parts
<1>4. NormalizeDotSegments(joined) \in Seq(Parts \cup {""}) /\ Clean(NormalizeDotSegments(joined))
  BY <1>1, NormalizedIsClean
<1> QED BY <1>2, <1>3, <1>4

LEMMA RedirectedKeeps == ASSUME HopInv, NEW loc \in References, Redirected(loc) PROVE HopInv'
<1> DEFINE next == ResolveRedirect(url, loc)
<1>1. next.path \in Seq(Parts) /\ Clean(next.path)
  BY ResolvedIsClean DEF HopInv
<1>2. /\ npc = "asking" /\ hops' = hops + 1 /\ url' = next /\ secure' = (secure \/ next.scheme = "https")
      /\ npc' = IF RequireHttp(next) /\ RejectDowngrade(url, next) /\ hops < MaxRedirects
                  THEN "asking" ELSE "refused"
  BY DEF Redirected
<1> HIDE DEF next
<1>3. /\ hops' \in Nat /\ hops' <= MaxRedirects + 1 /\ npc' \in {"asking", "body", "refused"}
      /\ npc' = "asking" => hops' <= MaxRedirects
  <2>1. hops \in Nat /\ hops <= MaxRedirects
    BY <1>2 DEF HopInv
  <2> QED BY <2>1, <1>2 DEF MaxRedirects
<1>4. (url.path \in Seq(Parts) /\ Clean(url.path))'
  BY <1>1, <1>2 DEF Clean
<1>5. ASSUME npc' \in {"asking", "body"} PROVE RequireHttp(url') /\ (secure' => url'.scheme = "https")
  <2>1. RequireHttp(next) /\ RejectDowngrade(url, next)
    BY <1>2, <1>5
  <2>2. secure => url.scheme = "https"
    BY <1>2 DEF HopInv
  <2>3. CASE next.scheme = "https"
    BY <2>1, <2>3, <1>2
  <2>4. CASE next.scheme # "https"
    <3>1. next.scheme = "http" /\ ~secure
      BY <2>1, <2>2, <2>4 DEF RequireHttp, RejectDowngrade
    <3> QED BY <3>1, <2>1, <2>4, <1>2, Zenon
  <2> QED BY <2>3, <2>4
<1> QED BY <1>3, <1>4, <1>5 DEF HopInv, RequireHttp

LEMMA HopAnswersKeeps == ASSUME HopInv, HopAnswers PROVE HopInv'
BY DEF HopInv, HopAnswers, RequireHttp, MaxRedirects

LEMMA HopRestsKeeps == ASSUME HopInv, UNCHANGED hopVars PROVE HopInv'
BY DEF HopInv, hopVars, RequireHttp
-----------------------------------------------------------------------------
LEMMA FetchingInvariant == FetchingSpec => [](BatchInv /\ HopInv)
<1>1. FetchingInit => BatchInv /\ HopInv
  BY FetchingInitBatch, FetchingInitHop
<1>2. ASSUME BatchInv, HopInv, [FetchingNext]_fetchVars PROVE BatchInv' /\ HopInv'
  <2>1. CASE BatchStep
    <3>1. UNCHANGED hopVars
      BY <2>1 DEF BatchStep, Partition, PlainAnswers, Answer, TakeJob, FinishJob
    <3> QED BY <1>2, <2>1, <3>1, HopRestsKeeps, PartitionKeeps, PlainAnswersKeeps, AnswerKeeps,
               TakeJobKeeps, FinishJobKeeps DEF BatchStep
  <2>2. CASE \E loc \in References : Redirected(loc)
    BY <1>2, <2>2, RedirectedKeeps, BatchRestsKeeps DEF Redirected
  <2>3. CASE HopAnswers
    BY <1>2, <2>3, HopAnswersKeeps, BatchRestsKeeps DEF HopAnswers
  <2>4. CASE UNCHANGED fetchVars
    BY <1>2, <2>4, HopRestsKeeps, BatchRestsKeeps DEF fetchVars
  <2> QED BY <1>2, <2>1, <2>2, <2>3, <2>4 DEF FetchingNext
<1> QED BY <1>1, <1>2, PTL DEF FetchingSpec

\* Every batch of `ArchiveFetch::fetch_all` and every chain of redirects keeps its shape.
THEOREM FetchingTypes == FetchingSpec => []FetchingTypeOK
<1>1. BatchInv /\ HopInv => FetchingTypeOK
  <2> SUFFICES ASSUME BatchInv, HopInv PROVE FetchingTypeOK
    OBVIOUS
  <2>1. Len(batch) \in 0..MaxJobs /\ batch \in [1..Len(batch) -> BOOLEAN]
    BY FetchingAssumption DEF BatchInv
  <2> QED BY <2>1 DEF BatchInv, HopInv, FetchingTypeOK
<1> QED BY <1>1, FetchingInvariant, PTL

\* The workers of `fetch_all_tls` never hold one job twice and an answer reaches the position
\* of its own job, for any batch and number of workers; `fetch_bounded` keeps its hop limit,
\* its scheme policy and its clean paths along any chain of redirects.
THEOREM FetchesAreAnsweredHolds == FetchingSpec => []FetchesAreAnswered
<1>1. BatchInv /\ HopInv => FetchesAreAnswered
  <2> SUFFICES ASSUME BatchInv, HopInv PROVE FetchesAreAnswered
    OBVIOUS
  <2>1. \A v, w \in Workers : v # w /\ held[v] # 0 => held[v] # held[w]
    BY DEF BatchInv, HeldInv
  <2>2. \A n \in DOMAIN url.path : url.path[n] \notin {".", ".."}
    BY DEF HopInv, Clean, Dots
  <2> QED BY <2>1, <2>2 DEF BatchInv, HopInv, FetchesAreAnswered
<1> QED BY <1>1, FetchingInvariant, PTL

(***************************************************************************)
(* The rootfs node: a tree is what its key, its plan and its .debs ask.    *)
(***************************************************************************)

\* A function and nothing else.
IsTree(t) == t = [p \in DOMAIN t |-> t[p]]

\* Whether a generated file is executable is read back from its mode.
LEMMA WrittenExec ==
    ASSUME NEW p, NEW exec, NEW m, m = [umask |-> "fixed", exec |-> p \in exec]
    PROVE  m.exec <=> p \in exec
  OBVIOUS

\* normalize_overlay_modes and normalize_overlay_times leave nothing of the umask, the checkout
\* or the clock (NormalizeModes, NormalizeTimes).
LEMMA NormalizedAnywhere ==
    ASSUME NEW files, NEW exec, NEW layers, NEW h, NEW g, NEW e
    PROVE  Staged(files, exec, layers, h, e) = Staged(files, exec, layers, g, e)
  <1> DEFINE T(x) == Written(files, exec, x) ?? Merged(layers, x)
             S == DOMAIN files \cup ShippedPaths(layers)
             F(p) == IF p \in DOMAIN files THEN File(files[p], IF p \in exec THEN "755" ELSE "644", e)
                     ELSE LET f == layers[LastShipper(layers, p)][p]
                          IN File(f.content, IF f.exec THEN "755" ELSE "644", e)
  <1>1. ASSUME NEW x PROVE NormalizeTimes(NormalizeModes(T(x)), e) = [p \in S |-> F(p)]
    <2>1. DOMAIN T(x) = S
      BY DEF Written, Merged, ??
    <2>2. ASSUME NEW p \in S
          PROVE NormalizeTimes(NormalizeModes(T(x)), e)[p] = F(p)
      <3>1. T(x)[p] = IF p \in DOMAIN files THEN File(files[p], [umask |-> "fixed", exec |-> p \in exec], x.now)
                        ELSE CheckedOut(layers[LastShipper(layers, p)][p], x)
        BY <2>2 DEF Written, Merged, ??
      <3>2. NormalizeTimes(NormalizeModes(T(x)), e)[p] = File(T(x)[p].content, IF T(x)[p].mode.exec THEN "755" ELSE "644", e)
        BY <2>1 DEF NormalizeTimes, NormalizeModes, File
      <3> HIDE DEF T
      <3>3. CASE p \in DOMAIN files
        <4>1. T(x)[p].content = files[p] /\ T(x)[p].mode = [umask |-> "fixed", exec |-> p \in exec]
          BY <3>1, <3>3 DEF File
        <4>2. T(x)[p].mode.exec <=> p \in exec
          BY <4>1, WrittenExec, Zenon
        <4> QED BY <3>2, <3>3, <4>1, <4>2 DEF File
      <3>4. CASE p \notin DOMAIN files
        BY <3>1, <3>2, <3>4 DEF File, CheckedOut
      <3> QED BY <3>3, <3>4
    <2>3. NormalizeTimes(NormalizeModes(T(x)), e) = [p \in S |-> NormalizeTimes(NormalizeModes(T(x)), e)[p]]
      BY <2>1 DEF NormalizeTimes, NormalizeModes
    <2> QED BY <2>2, <2>3
  <1> HIDE DEF T, S, F
  <1> QED BY <1>1 DEF T, Staged

\* The two overlays carry no trace of the machine that staged them.
LEMMA StagedAnywhere ==
    ASSUME NEW c, NEW h, NEW g
    PROVE  /\ StagePreinstallOverlay(c, h) = StagePreinstallOverlay(c, g)
           /\ StageOverlay(c, h) = StageOverlay(c, g)
  BY NormalizedAnywhere DEF StagePreinstallOverlay, StageOverlay

\* What is staged has the generated contents, whatever a layer ships there.
\* An overlay of generated files over layers.
StagedFrom(t, files, layers, e) ==
    /\ IsTree(t)
    /\ DOMAIN t = DOMAIN files \cup ShippedPaths(layers)
    /\ \A p \in DOMAIN files : t[p].content = files[p]
    /\ \A p \in DOMAIN t : t[p].mtime = e /\ t[p] = File(t[p].content, t[p].mode, e)

\* A generated file is in the overlay with its contents, over whatever a layer ships there.
LEMMA StagedGenerated ==
    ASSUME NEW files, NEW exec, NEW layers, NEW h, NEW e
    PROVE  StagedFrom(Staged(files, exec, layers, h, e), files, layers, e)
  <1> DEFINE f == Written(files, exec, h)
             l == Merged(layers, h)
             w == f ?? l
             t == Staged(files, exec, layers, h, e)
  <1>1. /\ DOMAIN f = DOMAIN files /\ \A p \in DOMAIN files : f[p].content = files[p]
        /\ DOMAIN l = ShippedPaths(layers)
    BY DEF Written, Merged, File
  <1>2. t = NormalizeTimes(NormalizeModes(w), e)
    BY DEF Staged
  <1> HIDE DEF f, l, t
  <1>3. /\ DOMAIN w = DOMAIN files \cup ShippedPaths(layers)
        /\ \A p \in DOMAIN files : w[p].content = files[p]
    BY <1>1 DEF ??
  <1> HIDE DEF w
  <1>4. DOMAIN t = DOMAIN w
    BY <1>2 DEF NormalizeTimes, NormalizeModes
  <1>5. \A p \in DOMAIN t : \E m : t[p] = File(w[p].content, m, e)
    BY <1>2 DEF NormalizeTimes, NormalizeModes, File
  <1>6. \A p \in DOMAIN t : t[p].content = w[p].content /\ t[p].mtime = e /\ t[p] = File(t[p].content, t[p].mode, e)
    BY <1>5 DEF File
  <1>7. IsTree(t)
    BY <1>2 DEF NormalizeTimes, IsTree
  <1> QED BY <1>3, <1>4, <1>6, <1>7 DEF StagedFrom, t

\* Equal fingerprints are equal trees, but for the times.
LEMMA FingerprintsDecide ==
    ASSUME NEW t, NEW u, DirFingerprints(t) = DirFingerprints(u)
    PROVE  /\ DOMAIN t = DOMAIN u
           /\ \A p \in DOMAIN t : t[p].mode = u[p].mode /\ t[p].content = u[p].content
  <1>1. \A p \in DOMAIN t : p \in DOMAIN u /\ t[p].mode = u[p].mode /\ t[p].content = u[p].content
    <2> TAKE p \in DOMAIN t
    <2>1. <<p, t[p].mode, t[p].content>> \in DirFingerprints(u)
      BY DEF DirFingerprints
    <2>2. PICK q \in DOMAIN u : <<p, t[p].mode, t[p].content>> = <<q, u[q].mode, u[q].content>>
      BY <2>1 DEF DirFingerprints
    <2> QED BY <2>2
  <1>2. \A p \in DOMAIN u : p \in DOMAIN t
    <2> TAKE p \in DOMAIN u
    <2>1. <<p, u[p].mode, u[p].content>> \in DirFingerprints(t)
      BY DEF DirFingerprints
    <2>2. PICK q \in DOMAIN t : <<p, u[p].mode, u[p].content>> = <<q, t[q].mode, t[q].content>>
      BY <2>1 DEF DirFingerprints
    <2> QED BY <2>2
  <1> QED BY <1>1, <1>2

\* What a tree is made of besides packages and overlays, and what the image's own identity
\* says of its kernel and its modules.
OfOneBuild(c, d) ==
    /\ c.suite = d.suite /\ c.user = d.user /\ c.sudo = d.sudo /\ c.keys = d.keys /\ c.epoch = d.epoch
    /\ c.interpreter = d.interpreter /\ AptSourceRecords(c) = AptSourceRecords(d) /\ c.debs = d.debs
    /\ c.generator = "dracut" <=> d.generator = "dracut"
    /\ c.boot.method = d.boot.method /\ (c.boot.method = "depthcharge" => c.boot.board = d.boot.board)
    /\ c.modules = d.modules /\ c.kernel = d.kernel

\* The configuration that is read back out of the overlays.
LEMMA GeneratedHolds ==
    ASSUME NEW c
    PROVE  /\ {"image", "checks", "fstab"} \subseteq DOMAIN GeneratedPost(c)
           /\ GeneratedPost(c)["image"] = Identity(c)
           /\ GeneratedPost(c)["checks"] = SelftestIdentity(c)
           /\ c.generator = "dracut" <=> "dracut" \in DOMAIN GeneratedPre(c)
           /\ InitramfsStubs(c) \subseteq DOMAIN GeneratedPre(c)
           /\ c.boot.method = "depthcharge" =>
                /\ {"depthcharge_config", "cmdline"} \subseteq DOMAIN GeneratedPre(c)
                /\ GeneratedPre(c)["depthcharge_config"] = DepthchargeConfig(c, FALSE)
  <1>1. /\ {"image", "checks", "fstab"} \subseteq DOMAIN GeneratedPost(c)
        /\ GeneratedPost(c)["image"] = Identity(c)
        /\ GeneratedPost(c)["checks"] = SelftestIdentity(c)
    BY DEF GeneratedPost, ??
  <1> DEFINE locale == [locale_conf |-> LocaleConf(c), locale_gen |-> LocaleGen(c), localtime |-> LocaltimeTarget(c)]
             depth == When(c.boot.method = "depthcharge",
                           [depthcharge_config |-> DepthchargeConfig(c, FALSE), cmdline |-> <<"cmdline", c.cmdline>>,
                            depthcharge_conf |-> DepthchargeInitramfsConf(c)])
             keys == When(c.keymap # Nil, "keyboard" := Keyboard(c))
             times == When(c.ntp # <<>>, "timesyncd" := TimesyncdConf(c))
             mods == When(c.modules # <<>>, ModulesDropIn(c) := InitramfsModules(c))
             stubs == [s \in InitramfsStubs(c) |-> <<"stub", s>>]
  <1>2. GeneratedPre(c) = locale ?? (depth ?? (keys ?? (times ?? (mods ?? stubs))))
    BY DEF GeneratedPre
  <1>3. /\ DOMAIN locale = {"locale_conf", "locale_gen", "localtime"}
        /\ IF c.boot.method = "depthcharge"
           THEN DOMAIN depth = {"depthcharge_config", "cmdline", "depthcharge_conf"}
                /\ depth["depthcharge_config"] = DepthchargeConfig(c, FALSE)
           ELSE DOMAIN depth = {}
        /\ DOMAIN keys \subseteq {"keyboard"} /\ DOMAIN times \subseteq {"timesyncd"}
        /\ DOMAIN mods \subseteq {"dracut-modules", "modules.d"}
        /\ DOMAIN stubs = {"update-initramfs"} \cup IF c.generator = "dracut" THEN {"dracut"} ELSE {}
    BY DEF When, Empty, :=, InitramfsStubs, ModulesDropIn
  <1> HIDE DEF locale, depth, keys, times, mods, stubs
  <1>4. DOMAIN GeneratedPre(c) = DOMAIN locale \cup DOMAIN depth \cup DOMAIN keys \cup DOMAIN times \cup DOMAIN mods \cup DOMAIN stubs
    BY <1>2 DEF ??
  <1>5. c.boot.method = "depthcharge" => GeneratedPre(c)["depthcharge_config"] = DepthchargeConfig(c, FALSE)
    BY <1>2, <1>3 DEF ??
  <1>6. c.generator = "dracut" <=> "dracut" \in DOMAIN GeneratedPre(c)
    <2>1. "dracut" \notin DOMAIN locale \cup DOMAIN depth \cup DOMAIN keys \cup DOMAIN times \cup DOMAIN mods
      <3>1. DOMAIN depth \subseteq {"depthcharge_config", "cmdline", "depthcharge_conf"}
        BY <1>3
      <3> QED BY <3>1, <1>3
    <2> QED BY <2>1, <1>3, <1>4
  <1>7. InitramfsStubs(c) \subseteq DOMAIN GeneratedPre(c)
    BY <1>3, <1>4 DEF InitramfsStubs
  <1>8. c.boot.method = "depthcharge" => {"depthcharge_config", "cmdline"} \subseteq DOMAIN GeneratedPre(c)
    BY <1>3, <1>4
  <1> QED BY <1>1, <1>5, <1>6, <1>7, <1>8

\* The same of the two overlays of a build.
LEMMA OverlaysHold ==
    ASSUME NEW c, NEW h
    PROVE  /\ StagedFrom(StagePreinstallOverlay(c, h), GeneratedPre(c), c.preLayers, c.epoch)
           /\ StagedFrom(StageOverlay(c, h), GeneratedPost(c), c.layers, c.epoch)
  BY StagedGenerated DEF StagePreinstallOverlay, StageOverlay

\* rootfs_key: two builds with one key staged the same overlays, solved the same names and
\* versions, hold the same .debs and are one build but for what the tree does not take.
LEMMA KeyDecides ==
    ASSUME NEW c \in Configs, NEW d \in Configs, NEW h, NEW g, NEW p, NEW q,
           RootfsKey(c, p, StagePreinstallOverlay(c, h), StageOverlay(c, h))
         = RootfsKey(d, q, StagePreinstallOverlay(d, g), StageOverlay(d, g))
    PROVE  /\ OfOneBuild(c, d)
           /\ StagePreinstallOverlay(c, h) = StagePreinstallOverlay(d, g)
           /\ StageOverlay(c, h) = StageOverlay(d, g)
           /\ PlanSolved(p) = PlanSolved(q)
  <1> DEFINE cpre == StagePreinstallOverlay(c, h)
             dpre == StagePreinstallOverlay(d, g)
             cpost == StageOverlay(c, h)
             dpost == StageOverlay(d, g)
  <1>1. /\ c.suite = d.suite /\ c.user = d.user /\ c.sudo = d.sudo /\ c.keys = d.keys /\ c.epoch = d.epoch
        /\ c.interpreter = d.interpreter /\ AptSourceRecords(c) = AptSourceRecords(d)
        /\ PlanSolved(p) = PlanSolved(q) /\ FileFingerprints(c.debs) = FileFingerprints(d.debs)
        /\ DirFingerprints(cpre) = DirFingerprints(dpre) /\ DirFingerprints(cpost) = DirFingerprints(dpost)
    <2> HIDE DEF cpre, dpre, cpost, dpost
    <2>1. RootfsKey(c, p, cpre, cpost) = RootfsKey(d, q, dpre, dpost)
      BY DEF cpre, dpre, cpost, dpost
    <2> QED BY <2>1 DEF RootfsKey
  <1>2. c.debs = d.debs
    <2>1. \A x \in c.debs : x \in Built
      BY DEF Built
    <2>2. \A x \in d.debs : x \in Built
      BY DEF Built
    <2>3. \A x, y \in Built : x.sha = y.sha => x = y
      BY RootfsAssumption
    <2>4. ASSUME NEW x \in c.debs PROVE x \in d.debs
      <3>1. x.sha \in FileFingerprints(d.debs)
        BY <1>1 DEF FileFingerprints
      <3>2. PICK y \in d.debs : y.sha = x.sha
        BY <3>1 DEF FileFingerprints
      <3> QED BY <2>1, <2>2, <2>3, <3>2
    <2>5. ASSUME NEW x \in d.debs PROVE x \in c.debs
      <3>1. x.sha \in FileFingerprints(c.debs)
        BY <1>1 DEF FileFingerprints
      <3>2. PICK y \in c.debs : y.sha = x.sha
        BY <3>1 DEF FileFingerprints
      <3> QED BY <2>1, <2>2, <2>3, <3>2
    <2> QED BY <2>4, <2>5
  <1>3. /\ DOMAIN cpre = DOMAIN dpre /\ \A x \in DOMAIN cpre : cpre[x].mode = dpre[x].mode /\ cpre[x].content = dpre[x].content
        /\ DOMAIN cpost = DOMAIN dpost /\ \A x \in DOMAIN cpost : cpost[x].mode = dpost[x].mode /\ cpost[x].content = dpost[x].content
    <2> HIDE DEF cpre, dpre, cpost, dpost
    <2> QED BY <1>1, FingerprintsDecide
  <1>4. StagedFrom(cpre, GeneratedPre(c), c.preLayers, c.epoch) /\ StagedFrom(cpost, GeneratedPost(c), c.layers, c.epoch)
    BY OverlaysHold
  <1>5. StagedFrom(dpre, GeneratedPre(d), d.preLayers, d.epoch) /\ StagedFrom(dpost, GeneratedPost(d), d.layers, d.epoch)
    BY OverlaysHold
  <1> HIDE DEF cpre, dpre, cpost, dpost
  <1>8. cpre = dpre /\ cpost = dpost
    BY <1>1, <1>3, <1>4, <1>5 DEF IsTree, StagedFrom
  <1>9. Identity(c) = Identity(d) /\ SelftestIdentity(c) = SelftestIdentity(d)
    <2>1. cpost["image"].content = Identity(c) /\ cpost["checks"].content = SelftestIdentity(c)
      BY <1>4, GeneratedHolds DEF StagedFrom
    <2>2. dpost["image"].content = Identity(d) /\ dpost["checks"].content = SelftestIdentity(d)
      BY <1>5, GeneratedHolds DEF StagedFrom
    <2> QED BY <2>1, <2>2, <1>8
  <1>10. c.boot.method = d.boot.method /\ c.kernel = d.kernel /\ c.modules = d.modules
    BY <1>9 DEF Identity, SelftestIdentity
  <1>11. c.generator = "dracut" <=> d.generator = "dracut"
    <2>1. "dracut" \notin ShippedPaths(c.preLayers)
      BY RootfsAssumption DEF Layers, Generators, ShippedPaths
    <2>2. "dracut" \notin ShippedPaths(d.preLayers)
      BY RootfsAssumption DEF Layers, Generators, ShippedPaths
    <2>3. c.generator = "dracut" <=> "dracut" \in DOMAIN cpre
      BY <2>1, <1>4, GeneratedHolds DEF StagedFrom
    <2>4. d.generator = "dracut" <=> "dracut" \in DOMAIN dpre
      BY <2>2, <1>5, GeneratedHolds DEF StagedFrom
    <2> QED BY <2>3, <2>4, <1>8
  <1>12. ASSUME c.boot.method = "depthcharge" PROVE c.boot.board = d.boot.board
    <2>1. cpre["depthcharge_config"].content = DepthchargeConfig(c, FALSE)
      BY <1>12, <1>4, GeneratedHolds DEF StagedFrom
    <2>2. dpre["depthcharge_config"].content = DepthchargeConfig(d, FALSE)
      BY <1>12, <1>10, <1>5, GeneratedHolds DEF StagedFrom
    <2> QED BY <2>1, <2>2, <1>8 DEF DepthchargeConfig
  <1> QED BY <1>1, <1>2, <1>8, <1>10, <1>11, <1>12 DEF OfOneBuild, cpre, dpre, cpost, dpost

\* What two trees have in common when only times tell them apart that the export takes away.
Alike(e, t, u) ==
    /\ DOMAIN t = DOMAIN u
    /\ \A p \in DOMAIN t :
        t[p].content = u[p].content /\ t[p].mode = u[p].mode /\ Clip(t[p].mtime, e) = Clip(u[p].mtime, e)
\* A clock that is past the epoch.
Late(e, h) == e \in Nat /\ h.now \in Nat /\ h.now >= e

\* Trees that differ in late times only, one over the other.
LEMMA AlikeOver ==
    ASSUME NEW e, NEW t, NEW t2, NEW u, NEW u2, Alike(e, t, t2), Alike(e, u, u2)
    PROVE  Alike(e, t ?? u, t2 ?? u2)
  BY DEF Alike, ??

\* A tree is like itself.
LEMMA AlikeSelf == ASSUME NEW e, NEW t PROVE Alike(e, t, t)
  BY DEF Alike

\* A file written on two machines, both past the epoch.
LEMMA AlikeOne ==
    ASSUME NEW e, NEW h, NEW g, Late(e, h), Late(e, g), NEW p, NEW content, NEW mode
    PROVE  Alike(e, p := File(content, mode, h.now), p := File(content, mode, g.now))
  BY DEF Alike, Late, Clip, File, :=

\* What the bootstrap unpacks on two machines.
LEMMA AlikeUnpacked ==
    ASSUME NEW c, NEW packages, NEW h, NEW g, Late(c.epoch, h), Late(c.epoch, g)
    PROVE  Alike(c.epoch, Unpacked(c, packages, h), Unpacked(c, packages, g))
  <1> DEFINE files == [n \in {q.name : q \in packages} |->
                          File(<<"package", (CHOOSE q \in packages : q.name = n).sha>>, "644", 2)]
             feature(x) == When(AptSourceRecords(c) # {}, "feature_sources" := File(AptSourceRecords(c), "644", x.now))
             base(x) == [sources_list |-> File(<<"bootstrap">>, "644", x.now), dev_null |-> File(<<"node">>, "666", x.now),
                         os_release |-> File(<<c.suite>>, "644", 2), interpreted |-> File(<<c.interpreter>>, "644", x.now)]
  <1>1. Alike(c.epoch, feature(h), feature(g))
    BY AlikeOne, AlikeSelf DEF When
  <1>2. Alike(c.epoch, base(h), base(g))
    BY DEF Alike, Late, Clip, File
  <1>3. Alike(c.epoch, files, files)
    BY AlikeSelf
  <1>4. Unpacked(c, packages, h) = files ?? (feature(h) ?? base(h)) /\ Unpacked(c, packages, g) = files ?? (feature(g) ?? base(g))
    BY DEF Unpacked
  <1> HIDE DEF files, feature, base
  <1>5. Alike(c.epoch, feature(h) ?? base(h), feature(g) ?? base(g))
    BY <1>1, <1>2, AlikeOver
  <1> QED BY <1>3, <1>4, <1>5, AlikeOver

\* What the packages' scripts make of it on two machines.
LEMMA AlikeConfigured ==
    ASSUME NEW c, NEW h, NEW g, Late(c.epoch, h), Late(c.epoch, g), NEW t, NEW u, Alike(c.epoch, t, u)
    PROVE  Alike(c.epoch, Configured(c, t, h), Configured(c, u, g))
  <1>1. Seeded(t) = Seeded(u)
    BY DEF Seeded, Alike
  <1>2. Alike(c.epoch, InitramfsLeft(c, t, h), InitramfsLeft(c, u, g))
    <2>1. DOMAIN t = DOMAIN u
      BY DEF Alike
    <2> QED BY <2>1, AlikeOne DEF InitramfsLeft
  <1> DEFINE mine(x) == [debconf |-> File(Seeded(t), "644", x.now), shadow |-> File(<<"locked">>, "640", x.now)]
  <1>3. Alike(c.epoch, mine(h), mine(g))
    BY DEF Alike, Late, Clip, File
  <1>4. Configured(c, t, h) = mine(h) ?? (InitramfsLeft(c, t, h) ?? t) /\ Configured(c, u, g) = mine(g) ?? (InitramfsLeft(c, u, g) ?? u)
    BY <1>1 DEF Configured
  <1> HIDE DEF mine
  <1>5. Alike(c.epoch, InitramfsLeft(c, t, h) ?? t, InitramfsLeft(c, u, g) ?? u)
    BY <1>2, AlikeOver
  <1> QED BY <1>3, <1>4, <1>5, AlikeOver

\* The account that customize.sh makes on two machines.
LEMMA AlikeAccounts ==
    ASSUME NEW c, NEW h, NEW g, Late(c.epoch, h), Late(c.epoch, g), NEW t, NEW u, Alike(c.epoch, t, u)
    PROVE  Alike(c.epoch, Accounts(c, t, h), Accounts(c, u, g))
  <1> DEFINE mine(x) == [account |-> File(<<c.user, c.groups>>, "644", x.now), sudoers |-> File(<<c.user, c.sudo>>, "440", x.now)]
             keys(x) == When(c.keys # <<>>, "authorized_keys" := File(c.keys, "600", x.now))
  <1>1. Alike(c.epoch, keys(h), keys(g))
    BY AlikeOne, AlikeSelf DEF When
  <1>2. Alike(c.epoch, mine(h), mine(g))
    BY DEF Alike, Late, Clip, File
  <1>3. Accounts(c, t, h) = mine(h) ?? (keys(h) ?? t) /\ Accounts(c, u, g) = mine(g) ?? (keys(g) ?? u)
    BY DEF Accounts
  <1> HIDE DEF mine, keys
  <1>4. Alike(c.epoch, keys(h) ?? t, keys(g) ?? u)
    BY <1>1, AlikeOver
  <1> QED BY <1>2, <1>3, <1>4, AlikeOver

\* The same files removed of both.
LEMMA AlikeWithout ==
    ASSUME NEW e, NEW t, NEW u, Alike(e, t, u), NEW paths
    PROVE  Alike(e, Without(t, paths), Without(u, paths))
  BY DEF Alike, Without

\* The initrd is built of contents, not of times.
LEMMA AlikeBootArtifacts ==
    ASSUME NEW c, NEW t, NEW u, Alike(c.epoch, t, u)
    PROVE  Alike(c.epoch, BootArtifacts(c, t), BootArtifacts(c, u))
  <1>1. InitrdOf(c, t) = InitrdOf(c, u)
    BY DEF InitrdOf, Alike
  <1> QED BY <1>1, AlikeSelf, AlikeOver DEF BootArtifacts

\* The signed kernel is built of contents, not of times.
LEMMA AlikeSigned ==
    ASSUME NEW c, NEW h, NEW g, Late(c.epoch, h), Late(c.epoch, g), NEW t, NEW u, Alike(c.epoch, t, u),
           c.boot.method = "depthcharge" => {"initrd", "fstab", "cmdline"} \subseteq DOMAIN t
    PROVE  Alike(c.epoch, Signed(c, t, h), Signed(c, u, g))
  <1>1. CASE c.boot.method # "depthcharge"
    BY <1>1 DEF Signed
  <1>2. CASE c.boot.method = "depthcharge"
    <2> DEFINE kernel == <<t["initrd"].content, t["fstab"].content, t["cmdline"].content>>
               signs(x) ==
            [kpart |-> File(kernel, "644", c.epoch),
             depthcharge_config |-> File(DepthchargeConfig(c, TRUE), "644", x.now)]
    <2>1. t["initrd"].content = u["initrd"].content /\ t["fstab"].content = u["fstab"].content /\ t["cmdline"].content = u["cmdline"].content
      BY <1>2 DEF Alike
    <2>2. Alike(c.epoch, signs(h), signs(g))
      <3> HIDE DEF kernel
      <3>1. DOMAIN signs(h) = {"kpart", "depthcharge_config"} /\ DOMAIN signs(g) = {"kpart", "depthcharge_config"}
        OBVIOUS
      <3>2. signs(h)["kpart"] = signs(g)["kpart"]
        OBVIOUS
      <3>3. /\ signs(h)["depthcharge_config"] = File(DepthchargeConfig(c, TRUE), "644", h.now)
            /\ signs(g)["depthcharge_config"] = File(DepthchargeConfig(c, TRUE), "644", g.now)
        OBVIOUS
      <3> HIDE DEF signs
      <3>4. /\ signs(h)["depthcharge_config"].content = signs(g)["depthcharge_config"].content
            /\ signs(h)["depthcharge_config"].mode = signs(g)["depthcharge_config"].mode
            /\ signs(h)["depthcharge_config"].mtime = h.now /\ signs(g)["depthcharge_config"].mtime = g.now
        BY <3>3 DEF File
      <3>5. Clip(h.now, c.epoch) = Clip(g.now, c.epoch)
        BY DEF Late, Clip
      <3> QED BY <3>1, <3>2, <3>4, <3>5 DEF Alike
    <2>3. Signed(c, t, h) = signs(h) ?? t /\ Signed(c, u, g) = signs(g) ?? u
      BY <1>2, <2>1 DEF Signed
    <2> HIDE DEF signs
    <2> QED BY <2>2, <2>3, AlikeOver
  <1> QED BY <1>1, <1>2

\* The export takes away the times that tell them apart (export_rootfs_tar).
LEMMA AlikeExported ==
    ASSUME NEW c, NEW t, NEW u, Alike(c.epoch, t, u)
    PROVE  Exported(c, t) = Exported(c, u)
  BY DEF Exported, Alike

\* Where the signed kernel's parts come from.
LEMMA BootedOn ==
    ASSUME NEW c \in Configs, NEW packages, NEW h
    PROVE  LET before == StagePreinstallOverlay(c, h)
               after == StageOverlay(c, h)
               own == Without(Accounts(c, Laid(Bootstrapped(c, packages, before, h), after), h), {"sources_list"} \cup StubsRemoved(c))
           IN  c.boot.method = "depthcharge" => {"fstab", "cmdline"} \subseteq DOMAIN own
  <1> DEFINE before == StagePreinstallOverlay(c, h)
             after == StageOverlay(c, h)
             boot == Bootstrapped(c, packages, before, h)
             laid == Laid(boot, after)
             acc == Accounts(c, laid, h)
             own == Without(acc, {"sources_list"} \cup StubsRemoved(c))
  <1> SUFFICES ASSUME c.boot.method = "depthcharge" PROVE {"fstab", "cmdline"} \subseteq DOMAIN own
    OBVIOUS
  <1>1. "cmdline" \in DOMAIN before /\ "fstab" \in DOMAIN after
    <2>1. "cmdline" \in DOMAIN GeneratedPre(c) /\ "fstab" \in DOMAIN GeneratedPost(c)
      BY GeneratedHolds
    <2>2. StagedFrom(before, GeneratedPre(c), c.preLayers, c.epoch) /\ StagedFrom(after, GeneratedPost(c), c.layers, c.epoch)
      BY OverlaysHold
    <2> HIDE DEF before, after
    <2> QED BY <2>1, <2>2 DEF StagedFrom
  <1>2. "cmdline" \in DOMAIN boot
    BY <1>1 DEF Bootstrapped, Configured, ??
  <1>3. {"fstab", "cmdline"} \subseteq DOMAIN laid
    BY <1>1, <1>2 DEF Laid, ??
  <1> HIDE DEF laid
  <1>4. {"fstab", "cmdline"} \subseteq DOMAIN acc
    BY <1>3 DEF Accounts, ??
  <1> HIDE DEF acc
  <1>5. "fstab" \notin {"sources_list"} \cup StubsRemoved(c) /\ "cmdline" \notin {"sources_list"} \cup StubsRemoved(c)
    BY DEF StubsRemoved, InitramfsStubs
  <1> QED BY <1>4, <1>5 DEF Without

\* The clocks of the machine that makes a tree are not in the tar.
LEMMA TreeAnywhere ==
    ASSUME NEW c \in Configs, NEW packages, NEW h \in Hosts
    PROVE  Exported(c, Customized(c, Bootstrapped(c, packages, StagePreinstallOverlay(c, h), h), StageOverlay(c, h), h))
         = Expected(c, packages)
  <1> DEFINE b == Bare(c)
             before == StagePreinstallOverlay(c, h)
             after == StageOverlay(c, h)
  <1>1. Late(c.epoch, h) /\ Late(c.epoch, b)
    BY RootfsAssumption DEF Late, Bare
  <1>2. before = StagePreinstallOverlay(c, b) /\ after = StageOverlay(c, b)
    BY StagedAnywhere
  <1> DEFINE t(x) == Bootstrapped(c, packages, before, x)
             laid(x) == Accounts(c, Laid(t(x), after), x)
             own(x) == Without(laid(x), {"sources_list"} \cup StubsRemoved(c))
             booted(x) == BootArtifacts(c, own(x))
             waits(x) == ("time_wait_sync" := File(<<"link">>, "644", x.now)) ?? booted(x)
  <1>3. c.boot.method = "depthcharge" => {"fstab", "cmdline"} \subseteq DOMAIN own(h)
    BY BootedOn
  <1>4. Customized(c, t(h), after, h) = Signed(c, waits(h), h) /\ Customized(c, t(b), after, b) = Signed(c, waits(b), b)
    BY DEF Customized
  <1>5. Expected(c, packages) = Exported(c, Customized(c, t(b), after, b))
    BY <1>2 DEF Expected
  <1> HIDE DEF before, after, b
  <1>6. Alike(c.epoch, t(h), t(b))
    <2> DEFINE un(x) == Unpacked(c, packages, x)
    <2>1. Alike(c.epoch, un(h), un(b))
      BY <1>1, AlikeUnpacked
    <2>2. Alike(c.epoch, before ?? un(h), before ?? un(b))
      BY <2>1, AlikeSelf, AlikeOver
    <2> QED BY <2>2, <1>1, AlikeConfigured DEF Bootstrapped
  <1> HIDE DEF t
  <1>7. Alike(c.epoch, Laid(t(h), after), Laid(t(b), after))
    BY <1>6, AlikeSelf, AlikeOver DEF Laid
  <1>8. Alike(c.epoch, laid(h), laid(b))
    BY <1>1, <1>7, AlikeAccounts
  <1> HIDE DEF laid
  <1>9. Alike(c.epoch, own(h), own(b))
    BY <1>8, AlikeWithout
  <1> HIDE DEF own
  <1>10. Alike(c.epoch, booted(h), booted(b))
    BY <1>9, AlikeBootArtifacts
  <1>11. DOMAIN own(h) \cup {"initrd"} \subseteq DOMAIN booted(h)
    BY DEF BootArtifacts, ??, :=
  <1> HIDE DEF booted
  <1>12. Alike(c.epoch, waits(h), waits(b))
    BY <1>1, <1>10, AlikeOne, AlikeOver
  <1>13. DOMAIN booted(h) \subseteq DOMAIN waits(h)
    BY DEF ??
  <1> HIDE DEF waits
  <1>14. Alike(c.epoch, Signed(c, waits(h), h), Signed(c, waits(b), b))
    BY <1>1, <1>3, <1>11, <1>12, <1>13, AlikeSigned
  <1> QED BY <1>4, <1>5, <1>14, AlikeExported DEF t, before, after

\* Two configurations with one key make one tree of the same packages.
LEMMA OneTree ==
    ASSUME NEW c, NEW d, OfOneBuild(c, d), c.groups = d.groups, NEW packages,
           StagePreinstallOverlay(c, Bare(c)) = StagePreinstallOverlay(d, Bare(d)),
           StageOverlay(c, Bare(c)) = StageOverlay(d, Bare(d))
    PROVE  Expected(c, packages) = Expected(d, packages)
  <1> DEFINE b == Bare(c)
             before == StagePreinstallOverlay(c, b)
             after == StageOverlay(c, b)
             t == Bootstrapped(c, packages, before, b)
  <1>1. Bare(d) = b
    BY DEF OfOneBuild, Bare
  <1>2. InitramfsStubs(c) = InitramfsStubs(d) /\ ModulesDropIn(c) = ModulesDropIn(d) /\ ConfPath(c) = ConfPath(d)
    BY DEF OfOneBuild, InitramfsStubs, ModulesDropIn, ConfPath
  <1>3. ASSUME NEW made PROVE Configured(c, made, b) = Configured(d, made, b)
    BY <1>2 DEF Configured, InitramfsLeft
  <1>4. Unpacked(c, packages, b) = Unpacked(d, packages, b)
    BY DEF Unpacked, OfOneBuild
  <1>5. t = Bootstrapped(d, packages, before, b)
    BY <1>3, <1>4 DEF Bootstrapped
  <1>6. ASSUME NEW made PROVE Accounts(c, made, b) = Accounts(d, made, b)
    BY DEF Accounts, OfOneBuild
  <1>7. ASSUME NEW made PROVE BootArtifacts(c, made) = BootArtifacts(d, made)
    BY <1>2 DEF BootArtifacts, InitrdOf, OfOneBuild
  <1>8. StubsRemoved(c) = StubsRemoved(d)
    BY <1>2 DEF StubsRemoved
  <1>9. ASSUME NEW made PROVE Signed(c, made, b) = Signed(d, made, b)
    <2>1. CASE c.boot.method # "depthcharge"
      BY <2>1 DEF Signed, OfOneBuild
    <2>2. CASE c.boot.method = "depthcharge"
      <3>1. DepthchargeConfig(c, TRUE) = DepthchargeConfig(d, TRUE) /\ c.epoch = d.epoch /\ d.boot.method = "depthcharge"
        BY <2>2 DEF OfOneBuild, DepthchargeConfig
      <3> QED BY <2>2, <3>1 DEF Signed
    <2> QED BY <2>1, <2>2
  <1> HIDE DEF t, after, before, b
  <1>10. Customized(c, t, after, b) = Customized(d, t, after, b)
    BY <1>6, <1>7, <1>8, <1>9 DEF Customized
  <1>11. Expected(c, packages) = Exported(c, Customized(c, t, after, b))
    BY DEF Expected, t, after, before, b
  <1>12. Expected(d, packages) = Exported(d, Customized(d, t, after, b))
    BY <1>1, <1>5 DEF Expected, after, before, b
  <1>13. ASSUME NEW made PROVE Exported(c, made) = Exported(d, made)
    BY DEF Exported, OfOneBuild
  <1> QED BY <1>10, <1>11, <1>12, <1>13

\* What a plan may hold, and what a build installed.
Offerable(packages) == packages \subseteq Archived \cup Built
Installed(c, packages) == Offerable(packages) /\ \A q \in packages : Local(q) => q \in c.debs

\* Names and versions decide the packages, the build's own .debs given.
LEMMA OwnDecided ==
    ASSUME NEW c \in Configs, NEW ps, Installed(c, ps), NEW qs, Offerable(qs),
           {[name |-> q.name, ver |-> q.ver] : q \in ps} = {[name |-> q.name, ver |-> q.ver] : q \in qs}
    PROVE  ps = Own(c, qs)
  <1>1. \A p \in ps : \E q \in qs : p.name = q.name /\ p.ver = q.ver
    <2> TAKE p \in ps
    <2>1. [name |-> p.name, ver |-> p.ver] \in {[name |-> q.name, ver |-> q.ver] : q \in qs}
      OBVIOUS
    <2> QED BY <2>1
  <1>2. \A q \in qs : \E p \in ps : p.name = q.name /\ p.ver = q.ver
    <2> TAKE q \in qs
    <2>1. [name |-> q.name, ver |-> q.ver] \in {[name |-> p.name, ver |-> p.ver] : p \in ps}
      OBVIOUS
    <2> QED BY <2>1
  <1>3. \A p \in Archived \cup Built : Local(p) <=> p \in Built
    BY RootfsAssumption
  <1>4. \A p \in Archived \cup Built : ~Local(p) => p \in Archived
    BY <1>3
  <1>5. \A p, q \in Archived \cup Built : p.name = q.name /\ p.ver = q.ver => (Local(p) <=> Local(q))
    BY <1>3, <1>4, RootfsAssumption
  <1>6. \A p, q \in Archived \cup Built : p.name = q.name /\ p.ver = q.ver /\ ~Local(p) => p = q
    BY <1>4, <1>5, RootfsAssumption
  <1>7. \A d, e \in c.debs : d.name = e.name /\ d.ver = e.ver => d = e
    BY RootfsAssumption
  <1>8. c.debs \subseteq Built /\ \A d \in c.debs : Local(d)
    BY RootfsAssumption DEF Built
  <1>9. ASSUME NEW p \in ps PROVE p \in Own(c, qs)
    <2>1. PICK q \in qs : p.name = q.name /\ p.ver = q.ver
      BY <1>1
    <2>2. p \in Archived \cup Built /\ q \in Archived \cup Built
      BY DEF Installed, Offerable
    <2>3. CASE Local(p)
      BY <2>1, <2>2, <2>3, <1>5 DEF Own, Installed
    <2>4. CASE ~Local(p)
      BY <2>1, <2>2, <2>4, <1>6 DEF Own
    <2> QED BY <2>3, <2>4
  <1>10. ASSUME NEW d \in Own(c, qs) PROVE d \in ps
    <2>1. CASE d \in qs /\ ~Local(d)
      <3>1. PICK p \in ps : p.name = d.name /\ p.ver = d.ver
        BY <2>1, <1>2
      <3> QED BY <2>1, <3>1, <1>6 DEF Installed, Offerable
    <2>2. CASE d \in c.debs /\ \E q \in qs : Local(q) /\ q.name = d.name /\ q.ver = d.ver
      <3>1. PICK q \in qs : Local(q) /\ q.name = d.name /\ q.ver = d.ver
        BY <2>2
      <3>2. PICK p \in ps : p.name = q.name /\ p.ver = q.ver
        BY <1>2
      <3>3. Local(p)
        BY <3>1, <3>2, <1>5 DEF Installed, Offerable
      <3> QED BY <2>2, <3>1, <3>2, <3>3, <1>7 DEF Installed
    <2> QED BY <2>1, <2>2 DEF Own
  <1> QED BY <1>9, <1>10

\* A tree is fit: what FitToFormat asks of the tar of a configuration.
Fits(c, t) ==
    /\ ValidTar(t)
    /\ t["initrd"].content =
          <<"initrd", [p \in DOMAIN t \cap {ModulesDropIn(c), ConfPath(c), "depthcharge_conf", "kernel"} |-> t[p].content]>>
    /\ DOMAIN t \cap {"update-initramfs", "dracut", "stub_log", "sources_list", "dev_null"} = {}
    /\ t["shadow"].content = <<"locked">>
    /\ c.boot.method = "depthcharge" =>
          t["depthcharge_config"].content.armed /\ ~t["debconf"].content["depthcharge_config"].armed

\* The tree a build from nothing makes is fit, whatever its layers and packages.
LEMMA ExpectedFits ==
    ASSUME NEW c \in Configs, NEW packages, Offerable(packages)
    PROVE  Fits(c, Expected(c, packages))
  <1> DEFINE b == Bare(c)
             before == StagePreinstallOverlay(c, b)
             after == StageOverlay(c, b)
             unpacked == before ?? Unpacked(c, packages, b)
             boot == Configured(c, unpacked, b)
             laid == Laid(boot, after)
             acc == Accounts(c, laid, b)
             own == Without(acc, {"sources_list"} \cup StubsRemoved(c))
             booted == BootArtifacts(c, own)
             waits == ("time_wait_sync" := File(<<"link">>, "644", b.now)) ?? booted
             signed == Signed(c, waits, b)
             tar == Exported(c, signed)
  <1>1. Expected(c, packages) = tar
    BY DEF Expected, Customized, Bootstrapped
  <1>2. /\ DOMAIN before \cap {"update-initramfs", "dracut"} = InitramfsStubs(c)
        /\ c.boot.method = "depthcharge" =>
             "depthcharge_config" \in DOMAIN before /\ before["depthcharge_config"].content = DepthchargeConfig(c, FALSE)
    <2>1. ShippedPaths(c.preLayers) \cap {"update-initramfs", "dracut"} = {}
      BY RootfsAssumption DEF Layers, Generators, ShippedPaths
    <2>2. StagedFrom(before, GeneratedPre(c), c.preLayers, c.epoch)
      BY OverlaysHold
    <2> HIDE DEF before
    <2>3. InitramfsStubs(c) = DOMAIN GeneratedPre(c) \cap {"update-initramfs", "dracut"}
      BY GeneratedHolds DEF InitramfsStubs
    <2> QED BY <2>1, <2>2, <2>3, GeneratedHolds DEF StagedFrom
  <1>3. /\ "fstab" \in DOMAIN after
        /\ DOMAIN after \cap {"update-initramfs", "dracut", "shadow", "debconf"} = {}
    <2>1. ShippedPaths(c.layers) \cap {"update-initramfs", "dracut", "shadow", "debconf"} = {}
      BY RootfsAssumption DEF Layers, Generators, ShippedPaths
    <2>2. DOMAIN GeneratedPost(c) \cap {"update-initramfs", "dracut", "shadow", "debconf"} = {}
      BY DEF GeneratedPost, ??, :=, When, Empty, ConfPath
    <2>3. StagedFrom(after, GeneratedPost(c), c.layers, c.epoch)
      BY OverlaysHold
    <2> HIDE DEF after
    <2> QED BY <2>1, <2>2, <2>3, GeneratedHolds DEF StagedFrom
  <1> HIDE DEF before, after, b
  <1>4. /\ DOMAIN unpacked \cap {"update-initramfs", "dracut"} = InitramfsStubs(c)
        /\ "os_release" \in DOMAIN unpacked
        /\ c.boot.method = "depthcharge" =>
             "depthcharge_config" \in DOMAIN unpacked /\ unpacked["depthcharge_config"].content = DepthchargeConfig(c, FALSE)
    <2> DEFINE un == Unpacked(c, packages, b)
    <2>1. DOMAIN un \cap {"update-initramfs", "dracut"} = {} /\ "os_release" \in DOMAIN un
      <3>1. \A q \in packages : q.name \notin {"update-initramfs", "dracut"}
        BY RootfsAssumption DEF Offerable, Generators
      <3> QED BY <3>1 DEF Unpacked, ??, :=, When, Empty
    <2> HIDE DEF un
    <2> QED BY <1>2, <2>1 DEF ??, un
  <1> HIDE DEF unpacked
  <1>5. /\ DOMAIN boot \cap {"update-initramfs", "dracut"} = InitramfsStubs(c)
        /\ {"os_release", "shadow", "debconf"} \subseteq DOMAIN boot
        /\ boot["shadow"].content = <<"locked">> /\ boot["debconf"].content = Seeded(unpacked)
    <2>1. DOMAIN InitramfsLeft(c, unpacked, b) \subseteq {"stub_log", "initrd"}
      BY DEF InitramfsLeft, :=
    <2>2. DOMAIN boot = {"debconf", "shadow"} \cup DOMAIN InitramfsLeft(c, unpacked, b) \cup DOMAIN unpacked
      BY DEF Configured, ??
    <2>3. boot["shadow"].content = <<"locked">> /\ boot["debconf"].content = Seeded(unpacked)
      BY DEF Configured, ??, File
    <2> HIDE DEF boot
    <2> QED BY <1>4, <2>1, <2>2, <2>3
  <1>6. c.boot.method = "depthcharge" => ~Seeded(unpacked)["depthcharge_config"].armed
    BY <1>4 DEF Seeded, DepthchargeConfig
  <1> HIDE DEF boot
  <1>7. /\ DOMAIN laid \cap {"update-initramfs", "dracut"} = InitramfsStubs(c)
        /\ {"os_release", "shadow", "debconf", "fstab"} \subseteq DOMAIN laid
        /\ laid["shadow"].content = <<"locked">> /\ laid["debconf"].content = Seeded(unpacked)
    BY <1>3, <1>5 DEF Laid, ??
  <1> HIDE DEF laid
  <1>8. /\ DOMAIN acc \cap {"update-initramfs", "dracut"} = InitramfsStubs(c)
        /\ {"os_release", "shadow", "debconf", "fstab"} \subseteq DOMAIN acc
        /\ acc["shadow"].content = <<"locked">> /\ acc["debconf"].content = Seeded(unpacked)
    <2> DEFINE keys == When(c.keys # <<>>, "authorized_keys" := File(c.keys, "600", b.now))
               mine == [account |-> File(<<c.user, c.groups>>, "644", b.now), sudoers |-> File(<<c.user, c.sudo>>, "440", b.now)]
    <2>1. DOMAIN keys \subseteq {"authorized_keys"}
      BY DEF When, Empty, :=
    <2>2. acc = mine ?? (keys ?? laid) /\ DOMAIN mine = {"account", "sudoers"}
      BY DEF Accounts
    <2> HIDE DEF keys, mine, acc
    <2> QED BY <1>7, <2>1, <2>2 DEF ??
  <1> HIDE DEF acc
  <1>9. /\ DOMAIN own \cap {"update-initramfs", "dracut", "stub_log", "sources_list"} = {}
        /\ {"os_release", "shadow", "debconf", "fstab"} \subseteq DOMAIN own
        /\ own["shadow"].content = <<"locked">> /\ own["debconf"].content = Seeded(unpacked)
    <2>1. "shadow" \notin StubsRemoved(c) /\ "debconf" \notin StubsRemoved(c) /\ "os_release" \notin StubsRemoved(c) /\ "fstab" \notin StubsRemoved(c)
      BY DEF StubsRemoved, InitramfsStubs
    <2>2. InitramfsStubs(c) \cup {"stub_log"} = StubsRemoved(c)
      BY DEF StubsRemoved
    <2>3. DOMAIN own = DOMAIN acc \ ({"sources_list"} \cup StubsRemoved(c)) /\ \A p \in DOMAIN own : own[p] = acc[p]
      BY DEF Without
    <2> HIDE DEF own
    <2> QED BY <1>8, <2>1, <2>2, <2>3
  <1> HIDE DEF own
  <1> DEFINE initrdPaths == {ModulesDropIn(c), ConfPath(c), "depthcharge_conf", "kernel"}
             early(t) == [p \in DOMAIN t \cap initrdPaths |-> t[p].content]
  <1>10. initrdPaths \cap {"initrd", "time_wait_sync", "kpart", "depthcharge_config", "dev_null"} = {}
    BY DEF ModulesDropIn, ConfPath
  <1>11. InitrdOf(c, own) = <<"initrd", early(own)>>
    <2>1. InitramfsStubs(c) \cap DOMAIN own = {}
      BY <1>9 DEF InitramfsStubs
    <2> QED BY <2>1 DEF InitrdOf
  <1> HIDE DEF initrdPaths
  <1>12. /\ DOMAIN booted = {"initrd"} \cup DOMAIN own /\ booted["initrd"].content = <<"initrd", early(own)>>
         /\ \A p \in DOMAIN own \ {"initrd"} : booted[p] = own[p]
    BY <1>11 DEF BootArtifacts, ??, :=, File
  <1> HIDE DEF booted
  <1>13. /\ DOMAIN waits = {"initrd", "time_wait_sync"} \cup DOMAIN own /\ waits["initrd"].content = <<"initrd", early(own)>>
         /\ \A p \in DOMAIN own \ {"initrd", "time_wait_sync"} : waits[p] = own[p]
    BY <1>12 DEF ??, :=
  <1> HIDE DEF waits
  <1>14. /\ DOMAIN signed \subseteq {"initrd", "time_wait_sync", "kpart", "depthcharge_config"} \cup DOMAIN own
         /\ {"initrd"} \cup DOMAIN own \subseteq DOMAIN signed
         /\ signed["initrd"].content = <<"initrd", early(own)>>
         /\ \A p \in DOMAIN own \ {"initrd", "time_wait_sync", "kpart", "depthcharge_config"} : signed[p] = own[p]
         /\ c.boot.method = "depthcharge" =>
              "depthcharge_config" \in DOMAIN signed /\ signed["depthcharge_config"].content = DepthchargeConfig(c, TRUE)
    BY <1>13 DEF Signed, ??, File
  <1> HIDE DEF signed
  <1>15. DOMAIN tar = DOMAIN signed \ {"dev_null"} /\ \A p \in DOMAIN tar : tar[p].content = signed[p].content
    BY DEF Exported, File
  <1> HIDE DEF tar
  <1>16. ValidTar(tar)
    BY <1>9, <1>14, <1>15 DEF ValidTar, RequiredTarMembers
  <1>17. early(tar) = early(own)
    <2>1. DOMAIN tar \cap initrdPaths = DOMAIN own \cap initrdPaths
      BY <1>10, <1>14, <1>15
    <2>2. \A p \in DOMAIN own \cap initrdPaths : tar[p].content = own[p].content
      BY <1>10, <1>14, <1>15, <2>1
    <2> QED BY <2>1, <2>2
  <1>18. tar["initrd"].content = <<"initrd", early(tar)>>
    BY <1>14, <1>15, <1>17
  <1>19. DOMAIN tar \cap {"update-initramfs", "dracut", "stub_log", "sources_list", "dev_null"} = {}
    BY <1>9, <1>14, <1>15
  <1>20. tar["shadow"].content = <<"locked">> /\ tar["debconf"].content = Seeded(unpacked)
    BY <1>9, <1>14, <1>15
  <1>21. c.boot.method = "depthcharge" => tar["depthcharge_config"].content.armed
    BY <1>14, <1>15 DEF DepthchargeConfig
  <1> QED BY <1>1, <1>6, <1>16, <1>18, <1>19, <1>20, <1>21 DEF Fits, initrdPaths

\* Every module the layers list can be loaded.
ModulesFound(c) == Modules(c) \subseteq c.known.loadable \cup c.known.builtin

\* What has been made for the configuration that is built: the staging, the plan, and the tree
\* as far as the run has come.
RunInv ==
    /\ rc # "idle" =>
          pre = StagePreinstallOverlay(config, host) /\ overlay = StageOverlay(config, host)
    /\ replayed # Nil => Offerable(replayed.packages)
    /\ rc \in {"look", "customize", "export", "exporting", "put", "done"} =>
          plan.packages = planFile.packages /\ Offerable(plan.packages)
    /\ rc \in {"customize", "export", "exporting", "put"} => Installed(config, plan.packages)
    /\ rc = "customize" => rootdir = Bootstrapped(config, plan.packages, pre, host)
    /\ rc \in {"export", "exporting"} =>
          rootdir = Customized(config, Bootstrapped(config, plan.packages, pre, host), overlay, host)
    /\ rc \in {"export", "exporting", "put"} => ModulesFound(config)
    /\ rc = "put" => tarFile = Expected(config, plan.packages) /\ manFile = SolvedManifest(plan.packages)

\* An entry is the tree of some build whose key it has.
EntryOf(key, entry) ==
    \E p : \E c \in Configs, h \in Hosts :
        /\ key = RootfsKey(c, p, StagePreinstallOverlay(c, h), StageOverlay(c, h))
        /\ Installed(c, p.packages) /\ ModulesFound(c)
        /\ entry = [tar |-> Expected(c, p.packages), man |-> SolvedManifest(p.packages)]

RootfsTypes ==
    /\ config \in Configs /\ archive \in Archives /\ host \in Hosts /\ nodes \in 0..MaxNodes
    /\ rc \in {"idle", "plan", "look", "customize", "export", "exporting", "put", "done"}
    /\ strays \subseteq Ids

RootfsInv ==
    /\ RootfsTypes
    /\ RunInv
    /\ planFile # Nil => Offerable(planFile.packages)
    /\ \A k \in DOMAIN rcache : EntryOf(k, rcache[k])
    /\ rc = "done" => Fits(config, tarFile) /\ ModulesFound(config)

\* Builds that give a user other groups are told apart by nothing in the key.
GroupsFollow == \A c, d \in Configs : c.user = d.user => c.groups = d.groups

\* A hit is the tree of a configuration with this build's key, made of this build's packages.
LEMMA HitIsOneBuild ==
    ASSUME NEW c \in Configs, NEW h \in Hosts, NEW p, Offerable(p.packages),
           NEW entry, EntryOf(RootfsKey(c, p, StagePreinstallOverlay(c, h), StageOverlay(c, h)), entry)
    PROVE  \E d \in Configs :
              /\ OfOneBuild(c, d) /\ ModulesFound(c)
              /\ StagePreinstallOverlay(c, Bare(c)) = StagePreinstallOverlay(d, Bare(d))
              /\ StageOverlay(c, Bare(c)) = StageOverlay(d, Bare(d))
              /\ entry.tar = Expected(d, Own(c, p.packages)) /\ entry.man = SolvedManifest(Own(c, p.packages))
  <1> DEFINE BuiltBy(q, d, g) ==
          /\ RootfsKey(c, p, StagePreinstallOverlay(c, h), StageOverlay(c, h))
           = RootfsKey(d, q, StagePreinstallOverlay(d, g), StageOverlay(d, g))
          /\ Installed(d, q.packages) /\ ModulesFound(d)
          /\ entry = [tar |-> Expected(d, q.packages), man |-> SolvedManifest(q.packages)]
  <1>1. PICK q : \E d \in Configs, g \in Hosts : BuiltBy(q, d, g)
    BY DEF EntryOf
  <1>2. PICK d \in Configs, g \in Hosts : BuiltBy(q, d, g)
    BY <1>1
  <1>3. /\ OfOneBuild(c, d)
        /\ StagePreinstallOverlay(c, h) = StagePreinstallOverlay(d, g)
        /\ StageOverlay(c, h) = StageOverlay(d, g)
        /\ PlanSolved(p) = PlanSolved(q)
    BY <1>2, KeyDecides
  <1>4. /\ StagePreinstallOverlay(c, Bare(c)) = StagePreinstallOverlay(d, Bare(d))
        /\ StageOverlay(c, Bare(c)) = StageOverlay(d, Bare(d))
    <2>1. StagePreinstallOverlay(c, Bare(c)) = StagePreinstallOverlay(c, h) /\ StageOverlay(c, Bare(c)) = StageOverlay(c, h)
      BY StagedAnywhere
    <2>2. StagePreinstallOverlay(d, Bare(d)) = StagePreinstallOverlay(d, g) /\ StageOverlay(d, Bare(d)) = StageOverlay(d, g)
      BY StagedAnywhere
    <2> QED BY <1>3, <2>1, <2>2
  <1>5. q.packages = Own(c, p.packages)
    <2>1. Installed(c, q.packages)
      BY <1>2, <1>3 DEF Installed, OfOneBuild
    <2>2. {[name |-> x.name, ver |-> x.ver] : x \in q.packages} = {[name |-> x.name, ver |-> x.ver] : x \in p.packages}
      BY <1>3 DEF PlanSolved
    <2> QED BY <2>1, <2>2, OwnDecided
  <1>6. ModulesFound(c)
    <2>1. c.known = d.known
      BY <1>3, RootfsAssumption DEF OfOneBuild
    <2> QED BY <1>2, <1>3, <2>1 DEF ModulesFound, Modules, OfOneBuild
  <1>7. entry.tar = Expected(d, Own(c, p.packages)) /\ entry.man = SolvedManifest(Own(c, p.packages))
    BY <1>2, <1>5
  <1> QED BY <1>3, <1>4, <1>6, <1>7

\* A plan that is resolved or read holds packages of the archives and of the builds.
LEMMA ResolvedOfferable ==
    ASSUME NEW c \in Configs, NEW a \in Archives
    PROVE  Offerable(Resolve(c, a))
  BY DEF Offerable, Resolve, Offered, Archived, Built

\* What a build installed is what it asks of its own plan.
LEMMA OwnIsInstalled ==
    ASSUME NEW c \in Configs, NEW ps, Installed(c, ps)
    PROVE  Own(c, ps) = ps
  BY OwnDecided DEF Installed

\* The invariant holds when no node has run.
LEMMA RootfsStarts == RootfsInit => RootfsInv
  BY RootfsAssumption DEF RootfsInit, RootfsInv, RootfsTypes, RunInv, ServedIsAsked, Empty

\* Every step of the node, of an edit, of the mirrors and of another machine keeps the invariant.
LEMMA RootfsSteps ==
    ASSUME RootfsInv, [RootfsNext]_rootfsVars
    PROVE  RootfsInv'
  <1> USE DEF RootfsInv
  <1>t. RootfsTypes'
    BY RootfsAssumption
       DEF RootfsTypes, RootfsNext, rootfsVars, BeginNode, TakePlan, Restore, Bootstrap, Customize, ExportBegins,
           ExportRootfsTar, PutTree, EndNode, NodeFails, NodeKilled, Leave, Idle, Between, Reconfigured, ArchiveMoves,
           OtherHost
  <1>1. CASE UNCHANGED rootfsVars
    BY <1>1, <1>t DEF rootfsVars, RunInv
  <1>2. ASSUME NEW pin \in BOOLEAN, BeginNode(pin) PROVE RootfsInv'
    BY <1>2, <1>t DEF BeginNode, RunInv, Idle
  <1>3. ASSUME NEW u \in Ids, TakePlan(u) PROVE RootfsInv'
    <2>1. CASE replayed # Nil
      BY <1>3, <1>t, <2>1 DEF TakePlan, RunInv, ReadPinnedPlan
    <2>2. CASE replayed = Nil
      <3>1. Offerable(Resolve(config, archive))
        BY ResolvedOfferable DEF RootfsTypes
      <3>2. plan'.packages = Resolve(config, archive) /\ planFile'.packages = Resolve(config, archive)
        BY <1>3, <2>2 DEF TakePlan, Plan, PublishedPlan
      <3> QED BY <1>3, <1>t, <2>2, <3>1, <3>2 DEF TakePlan, RunInv
    <2> QED BY <2>1, <2>2
  <1>4. ASSUME NEW u \in Ids, NodeKilled(u) PROVE RootfsInv'
    BY <1>4, <1>t DEF NodeKilled, Leave, RunInv
  <1>5. CASE Restore
    <2>1. EntryOf(RootfsKey(config, plan, StagePreinstallOverlay(config, host), StageOverlay(config, host)), rcache[Key])
      BY <1>5 DEF Restore, Key, RunInv
    <2>2. config \in Configs /\ host \in Hosts /\ Offerable(plan.packages)
      BY <1>5 DEF Restore, RunInv, RootfsTypes
    <2>3. PICK d \in Configs :
            OfOneBuild(config, d) /\ ModulesFound(config) /\ rcache[Key].tar = Expected(d, Own(config, plan.packages))
      BY <2>1, <2>2, HitIsOneBuild
    <2>4. Offerable(Own(config, plan.packages))
      BY <2>2 DEF Own, Offerable, Built
    <2>5. Fits(d, rcache[Key].tar)
      BY <2>3, <2>4, ExpectedFits
    <2>6. Fits(config, rcache[Key].tar)
      BY <2>3, <2>5 DEF OfOneBuild, Fits, ModulesDropIn, ConfPath
    <2> QED BY <1>5, <1>t, <2>3, <2>6 DEF Restore, RunInv
  <1>6. CASE Bootstrap
    <2>1. Installed(config, plan.packages)
      BY <1>6 DEF Bootstrap, Installs, Installed, RunInv
    <2> QED BY <1>6, <1>t, <2>1 DEF Bootstrap, RunInv
  <1>7. CASE Customize
    <2>1. ModulesFound(config)
      BY <1>7 DEF Customize, CheckInitramfsModules, Coverage, InInitrd, ModulesFound, Modules
    <2> QED BY <1>7, <1>t, <2>1 DEF Customize, RunInv
  <1>8. CASE ExportBegins
    BY <1>8, <1>t DEF ExportBegins, RunInv
  <1>9. CASE ExportRootfsTar
    <2>1. Exported(config, rootdir) = Expected(config, plan.packages)
      <3>1. config \in Configs /\ host \in Hosts
        BY DEF RootfsTypes
      <3>2. rootdir = Customized(config, Bootstrapped(config, plan.packages, StagePreinstallOverlay(config, host), host), StageOverlay(config, host), host)
        BY <1>9 DEF ExportRootfsTar, RunInv
      <3> QED BY <3>1, <3>2, TreeAnywhere
    <2> QED BY <1>9, <1>t, <2>1 DEF ExportRootfsTar, RunInv
  <1>10. CASE PutTree
    <2> DEFINE entry == [tar |-> tarFile, man |-> manFile]
    <2>1. /\ config \in Configs /\ host \in Hosts /\ Installed(config, plan.packages) /\ ModulesFound(config)
          /\ pre = StagePreinstallOverlay(config, host) /\ overlay = StageOverlay(config, host)
          /\ tarFile = Expected(config, plan.packages) /\ manFile = SolvedManifest(plan.packages)
      BY <1>10 DEF PutTree, RunInv, RootfsTypes
    <2>2. EntryOf(Key, entry)
      <3>1. Key = RootfsKey(config, plan, StagePreinstallOverlay(config, host), StageOverlay(config, host))
        BY <2>1 DEF Key
      <3>2. entry = [tar |-> Expected(config, plan.packages), man |-> SolvedManifest(plan.packages)]
        BY <2>1
      <3> HIDE DEF entry
      <3> QED BY <2>1, <3>1, <3>2 DEF EntryOf
    <2>3. rcache' = (Key := entry) ?? rcache
      BY <1>10 DEF PutTree
    <2>4. \A k \in DOMAIN rcache' : EntryOf(k, rcache'[k])
      <3> HIDE DEF entry
      <3>1. DOMAIN rcache' = {Key} \cup DOMAIN rcache /\ rcache'[Key] = entry
        BY <2>3 DEF ??, :=
      <3>2. \A k \in DOMAIN rcache \ {Key} : rcache'[k] = rcache[k]
        BY <2>3 DEF ??, :=
      <3> QED BY <2>2, <3>1, <3>2
    <2>5. Fits(config, tarFile)
      BY <2>1, ExpectedFits DEF Installed
    <2> QED BY <1>10, <1>t, <2>1, <2>4, <2>5 DEF PutTree, RunInv
  <1>11. CASE EndNode \/ NodeFails
    BY <1>11, <1>t DEF EndNode, NodeFails, Leave, RunInv
  <1>12. CASE Reconfigured \/ ArchiveMoves \/ OtherHost
    BY <1>12, <1>t DEF Reconfigured, ArchiveMoves, OtherHost, Between, Idle, RunInv
  <1> QED BY <1>1, <1>2, <1>3, <1>4, <1>5, <1>6, <1>7, <1>8, <1>9, <1>10, <1>11, <1>12 DEF RootfsNext

\* What is served stays what was asked: a restore and the end of a bootstrap are the two steps
\* that hand a tar on.
LEMMA ServedSteps ==
    ASSUME GroupsFollow, RootfsInv, ServedIsAsked, [RootfsNext]_rootfsVars
    PROVE  ServedIsAsked'
  <1> USE DEF RootfsInv
  <1>1. CASE Restore
    <2>1. EntryOf(RootfsKey(config, plan, StagePreinstallOverlay(config, host), StageOverlay(config, host)), rcache[Key])
      BY <1>1 DEF Restore, Key, RunInv
    <2>2. /\ config \in Configs /\ host \in Hosts /\ Offerable(plan.packages)
          /\ plan.packages = planFile.packages
      BY <1>1 DEF Restore, RunInv, RootfsTypes
    <2>3. PICK d \in Configs :
            /\ OfOneBuild(config, d)
            /\ StagePreinstallOverlay(config, Bare(config)) = StagePreinstallOverlay(d, Bare(d))
            /\ StageOverlay(config, Bare(config)) = StageOverlay(d, Bare(d))
            /\ rcache[Key].tar = Expected(d, Own(config, plan.packages))
            /\ rcache[Key].man = SolvedManifest(Own(config, plan.packages))
      BY <2>1, <2>2, HitIsOneBuild
    <2>4. config.groups = d.groups
      BY <2>2, <2>3 DEF OfOneBuild, GroupsFollow
    <2>5. Expected(config, Own(config, plan.packages)) = Expected(d, Own(config, plan.packages))
      BY <2>3, <2>4, OneTree
    <2> QED BY <1>1, <2>2, <2>3, <2>5 DEF Restore, ServedIsAsked
  <1>2. CASE PutTree
    <2>1. /\ config \in Configs /\ Installed(config, plan.packages) /\ plan.packages = planFile.packages
          /\ tarFile = Expected(config, plan.packages) /\ manFile = SolvedManifest(plan.packages)
      BY <1>2 DEF PutTree, RunInv, RootfsTypes
    <2>2. Own(config, planFile.packages) = plan.packages
      BY <2>1, OwnIsInstalled
    <2> QED BY <1>2, <2>1, <2>2 DEF PutTree, ServedIsAsked
  <1>3. CASE ~Restore /\ ~PutTree
    <2>1. UNCHANGED rootfsVars \/ rc' # "done"
      BY <1>3 DEF RootfsNext, BeginNode, TakePlan, NodeKilled, Bootstrap, Customize, ExportBegins, ExportRootfsTar,
                  EndNode, NodeFails, Leave, Reconfigured, ArchiveMoves, OtherHost, Between, Idle
    <2> QED BY <2>1 DEF rootfsVars, ServedIsAsked
  <1> QED BY <1>1, <1>2, <1>3

\* The node's state has its type, and every cached tar passes validate_tar: RootfsTypeOK.
THEOREM RootfsTypeCorrect == RootfsSpec => []RootfsTypeOK
  <1>1. RootfsInv /\ [RootfsNext]_rootfsVars => RootfsInv'
    BY RootfsSteps
  <1>2. RootfsInv => RootfsTypeOK
    <2> SUFFICES ASSUME RootfsInv, NEW k \in DOMAIN rcache PROVE ValidTar(rcache[k].tar)
      BY DEF RootfsInv, RootfsTypes, RootfsTypeOK
    <2>1. PICK q : \E c \in Configs : Offerable(q.packages) /\ rcache[k].tar = Expected(c, q.packages)
      BY DEF RootfsInv, EntryOf, Installed
    <2>2. PICK c \in Configs : Offerable(q.packages) /\ rcache[k].tar = Expected(c, q.packages)
      BY <2>1
    <2>3. Fits(c, Expected(c, q.packages))
      BY <2>2, ExpectedFits
    <2> QED BY <2>2, <2>3 DEF Fits
  <1> QED BY RootfsStarts, <1>1, <1>2, PTL DEF RootfsSpec

\* Every tar a node hands on is fit for the image node, for every set of configurations, archives
\* and hosts and any number of runs, the restored ones included, whose initrd nobody checks
\* again (check_initramfs_modules runs on a miss only): FitToFormat.
THEOREM FitToFormatHolds == RootfsSpec => []FitToFormat
  <1>1. RootfsInv /\ [RootfsNext]_rootfsVars => RootfsInv'
    BY RootfsSteps
  <1>2. RootfsInv => FitToFormat
    BY DEF RootfsInv, Fits, FitToFormat, ModulesFound
  <1> QED BY RootfsStarts, <1>1, <1>2, PTL DEF RootfsSpec

\* The rootfs cache serves what was asked, byte for byte, for every set of configurations that
\* differ in anything but the groups of an account (rootfs_key leaves them out), every archive,
\* host, edit, kill and failure, and any number of runs: ServedIsAsked.
THEOREM ServedIsAskedHolds ==
    ASSUME GroupsFollow
    PROVE  RootfsSpec => []ServedIsAsked
  <1>1. RootfsInv /\ [RootfsNext]_rootfsVars => RootfsInv'
    BY RootfsSteps
  <1>2. RootfsInv /\ ServedIsAsked /\ [RootfsNext]_rootfsVars => ServedIsAsked'
    BY ServedSteps
  <1>3. RootfsInit => ServedIsAsked
    BY DEF RootfsInit, ServedIsAsked
  <1> QED BY RootfsStarts, <1>1, <1>2, <1>3, PTL DEF RootfsSpec

(***************************************************************************)
(* why-rebuild: the forecast and the build fold the same signatures, and a *)
(* signature's labels and values are all there is to it.                   *)
(***************************************************************************)

\* The records of a signature: each label folded once.
LabelsIn(rs) == {rs[i].label : i \in 1..Len(rs)}
Folded(rs) ==
    /\ IsList(rs)
    /\ \A i \in 1..Len(rs) : rs[i] = Rec(rs[i].label, rs[i].values) /\ IsList(rs[i].values)
    /\ \A i, j \in 1..Len(rs) : rs[i].label = rs[j].label => i = j
\* The same labels in the same order.
Aligned(rs, us) == Len(rs) = Len(us) /\ \A i \in 1..Len(rs) : rs[i].label = us[i].label

\* Lists over any set that holds their elements, and what concatenating nothing leaves.
LEMMA ListIn ==
    ASSUME NEW V, NEW s, IsList(s), {s[i] : i \in 1..Len(s)} \subseteq V
    PROVE  s \in Seq(V)
  <1>1. Len(s) \in Nat /\ s = [i \in 1..Len(s) |-> s[i]]
    BY DEF IsList
  <1>2. s \in [1..Len(s) -> V]
    BY <1>1
  <1> QED BY <1>1, <1>2

LEMMA ListIsSeq ==
    ASSUME NEW s, IsList(s)
    PROVE  s \in Seq({s[i] : i \in 1..Len(s)}) /\ <<>> \o s = s /\ s \o <<>> = s
  <1> DEFINE V == {s[i] : i \in 1..Len(s)}
  <1>1. s \in Seq(V)
    <2>1. Len(s) \in Nat /\ s = [i \in 1..Len(s) |-> s[i]]
      BY DEF IsList
    <2>2. s \in [1..Len(s) -> V]
      BY <2>1
    <2> QED BY <2>1, <2>2
  <1> HIDE DEF V
  <1>2. <<>> \o s = s /\ s \o <<>> = s
    BY <1>1
  <1> QED BY <1>1, <1>2 DEF V

\* A label that is folded once groups to its record's values.
LEMMA GroupedOnce ==
    ASSUME NEW m, Folded(m.records), NEW k \in 1..Len(m.records)
    PROVE  Grouped(m, m.records[k].label) = m.records[k].values
  <1> DEFINE rs == m.records
             N == Len(rs)
             l == rs[k].label
             v == rs[k].values
             add(i) == IF rs[i].label = l THEN rs[i].values ELSE <<>>
             Rule(g) == [i \in 0..N |-> IF i = 0 THEN <<>> ELSE g[i - 1] \o add(i)]
             f == [i \in 0..N |-> IF i < k THEN <<>> ELSE v]
             up == CHOOSE g : g = Rule(g)
  <1>1. N \in Nat /\ k \in 1..N
    BY DEF Folded, IsList
  <1>2. <<>> \o v = v /\ v \o <<>> = v
    BY ListIsSeq DEF Folded
  <1>3. \A i \in 1..N : add(i) = IF i = k THEN v ELSE <<>>
    BY DEF Folded
  <1>4. <<>> \o <<>> = <<>>
    OBVIOUS
  <1> HIDE DEF rs, N, l, v, add
  <1>5. f = Rule(f)
    <2>1. ASSUME NEW i \in 0..N PROVE f[i] = Rule(f)[i]
      <3>1. CASE i = 0
        BY <3>1, <1>1
      <3>2. CASE i # 0
        <4>1. i \in 1..N /\ i - 1 \in 0..N
          BY <3>2, <1>1
        <4>2. f[i - 1] = IF i - 1 < k THEN <<>> ELSE v
          BY <4>1
        <4>3. Rule(f)[i] = f[i - 1] \o add(i)
          BY <4>1
        <4>4. add(i) = IF i = k THEN v ELSE <<>>
          BY <4>1, <1>3
        <4>5. f[i] = IF i < k THEN <<>> ELSE v
          OBVIOUS
        <4>9. f[i] = Rule(f)[i] <=> f[i] = f[i - 1] \o add(i)
          BY <4>3
        <4> HIDE DEF f, Rule
        <4>6. CASE i < k
          <5>1. f[i - 1] = <<>> /\ f[i] = <<>> /\ add(i) = <<>>
            BY <4>6, <4>1, <4>2, <4>4, <4>5, <1>1
          <5> QED BY <5>1, <4>9, <1>4
        <4>7. CASE i = k
          <5>1. f[i - 1] = <<>> /\ f[i] = v /\ add(i) = v
            BY <4>7, <4>1, <4>2, <4>4, <4>5, <1>1
          <5> QED BY <5>1, <4>9, <1>2
        <4>8. CASE i > k
          <5>1. f[i - 1] = v /\ f[i] = v /\ add(i) = <<>>
            BY <4>8, <4>1, <4>2, <4>4, <4>5, <1>1
          <5> QED BY <5>1, <4>9, <1>2
        <4> QED BY <4>1, <4>6, <4>7, <4>8, <1>1
      <3> QED BY <3>1, <3>2
    <2> QED BY <2>1
  <1>6. up = Rule(up)
    BY <1>5
  <1>7. Grouped(m, l) = up[N]
    BY DEF Grouped, N, rs, add, l
  <1> HIDE DEF up
  <1>10. up[0] = <<>> /\ f[0] = <<>> /\ f[N] = v
    <2>1. 0 \in 0..N /\ N \in 0..N /\ 0 < k /\ ~(N < k)
      BY <1>1
    <2>2. up[0] = Rule(up)[0] /\ f[0] = Rule(f)[0]
      BY <1>5, <1>6
    <2> QED BY <2>1, <2>2
  <1>11. ASSUME NEW i \in 1..N PROVE up[i] = up[i - 1] \o add(i) /\ f[i] = f[i - 1] \o add(i)
    <2>1. i \in 0..N /\ i # 0
      BY <1>1
    <2>2. \A g : Rule(g)[i] = g[i - 1] \o add(i)
      BY <2>1
    <2> HIDE DEF Rule, f
    <2> QED BY <2>2, <1>5, <1>6
  <1> HIDE DEF f, Rule
  <1>8. \A i \in 0..N : up[i] = f[i]
    <2> DEFINE T == {i \in 0..N : up[i] = f[i]}
    <2>1. 0 \in T
      BY <1>10, <1>1
    <2>2. ASSUME NEW i \in 1..N, i - 1 \in T PROVE i \in T
      <3>1. i \in 0..N /\ up[i - 1] = f[i - 1]
        BY <2>2, <1>1
      <3>2. up[i] = f[i]
        BY <3>1, <1>11
      <3> QED BY <3>1, <3>2
    <2> HIDE DEF T
    <2>3. 0..N \subseteq T
      BY <2>1, <2>2, <1>1, UpTo
    <2> QED BY <2>3 DEF T
  <1>9. up[N] = v
    BY <1>8, <1>10, <1>1
  <1> QED BY <1>7, <1>9 DEF l, v, rs

\* No change of a label, and the same labels in the same order: the same records (diff).
LEMMA NoChangeIsSame ==
    ASSUME NEW m, NEW o, Folded(m.records), Folded(o.records), Diff(m, o) = {},
           Labels(m) = Labels(o) => Aligned(m.records, o.records)
    PROVE  m.records = o.records
  <1> DEFINE r == m.records
             s == o.records
  <1>1. DOMAIN r = 1..Len(r) /\ DOMAIN s = 1..Len(s)
    BY DEF Folded, IsList
  <1>2. \A l \in Labels(m) \cup Labels(o) : l \in Labels(m) \cap Labels(o) /\ Grouped(m, l) = Grouped(o, l)
    BY DEF Diff
  <1>3. Aligned(r, s)
    BY <1>2
  <1>4. ASSUME NEW i \in 1..Len(r) PROVE r[i] = s[i]
    <2>1. i \in 1..Len(s) /\ r[i].label = s[i].label
      BY <1>3 DEF Aligned
    <2>2. r[i].label \in Labels(m)
      BY <1>1 DEF Labels
    <2>3. Grouped(m, r[i].label) = r[i].values
      BY GroupedOnce
    <2>4. Grouped(o, s[i].label) = s[i].values
      BY <2>1, GroupedOnce
    <2>5. r[i].values = s[i].values
      BY <1>2, <2>1, <2>2, <2>3, <2>4
    <2>6. r[i] = Rec(r[i].label, r[i].values) /\ s[i] = Rec(s[i].label, s[i].values)
      BY <2>1 DEF Folded
    <2> QED BY <2>1, <2>5, <2>6
  <1>5. r = [i \in 1..Len(r) |-> r[i]] /\ s = [i \in 1..Len(s) |-> s[i]] /\ Len(r) = Len(s)
    BY <1>3 DEF Folded, IsList, Aligned
  <1> HIDE DEF r, s
  <1>6. r = s
    BY <1>4, <1>5
  <1> QED BY <1>6 DEF r, s

\* Records folded one after the other, and their alignment.
LEMMA FoldedTogether ==
    ASSUME NEW r, NEW s, Folded(r), Folded(s), LabelsIn(r) \cap LabelsIn(s) = {}
    PROVE  Folded(r \o s) /\ LabelsIn(r \o s) = LabelsIn(r) \cup LabelsIn(s)
  <1> DEFINE V == {r[i] : i \in 1..Len(r)} \cup {s[i] : i \in 1..Len(s)}
             t == r \o s
  <1>1. Len(r) \in Nat /\ Len(s) \in Nat /\ r \in Seq(V) /\ s \in Seq(V)
    <2>1. Len(r) \in Nat /\ Len(s) \in Nat
      BY DEF Folded, IsList
    <2>2. r = [i \in 1..Len(r) |-> r[i]] /\ s = [i \in 1..Len(s) |-> s[i]]
      BY DEF Folded, IsList
    <2>3. r \in [1..Len(r) -> V] /\ s \in [1..Len(s) -> V]
      BY <2>2
    <2> QED BY <2>1, <2>3
  <1> HIDE DEF V
  <1>2. t \in Seq(V) /\ Len(t) = Len(r) + Len(s)
    BY <1>1
  <1>3. \A i \in 1..Len(t) : t[i] = IF i <= Len(r) THEN r[i] ELSE s[i - Len(r)]
    BY <1>1
  <1> HIDE DEF t
  <1>4. IsList(t)
    BY <1>1, <1>2 DEF IsList
  <1>5. \A i \in 1..Len(t) : (i <= Len(r) /\ i \in 1..Len(r)) \/ (i > Len(r) /\ i - Len(r) \in 1..Len(s))
    BY <1>1, <1>2
  <1>6. ASSUME NEW i \in 1..Len(t) PROVE t[i] = Rec(t[i].label, t[i].values) /\ IsList(t[i].values)
    <2>1. (\E j \in 1..Len(r) : t[i] = r[j]) \/ (\E j \in 1..Len(s) : t[i] = s[j])
      BY <1>3, <1>5, <1>1
    <2> QED BY <2>1 DEF Folded
  <1>7. ASSUME NEW i \in 1..Len(t), NEW j \in 1..Len(t), t[i].label = t[j].label PROVE i = j
    <2>1. CASE i <= Len(r) /\ j <= Len(r)
      BY <2>1, <1>7, <1>3, <1>5, <1>1 DEF Folded
    <2>2. CASE i > Len(r) /\ j > Len(r)
      <3>1. s[i - Len(r)].label = s[j - Len(r)].label /\ i - Len(r) \in 1..Len(s) /\ j - Len(r) \in 1..Len(s)
        BY <2>2, <1>7, <1>3, <1>5, <1>1, <1>2
      <3>2. i - Len(r) = j - Len(r)
        BY <3>1 DEF Folded
      <3> QED BY <3>2, <1>1, <1>2
    <2>3. CASE i <= Len(r) /\ j > Len(r)
      <3>1. r[i].label = s[j - Len(r)].label /\ i \in 1..Len(r) /\ j - Len(r) \in 1..Len(s)
        BY <2>3, <1>7, <1>3, <1>5, <1>1, <1>2
      <3> QED BY <3>1 DEF LabelsIn
    <2>4. CASE i > Len(r) /\ j <= Len(r)
      <3>1. r[j].label = s[i - Len(r)].label /\ j \in 1..Len(r) /\ i - Len(r) \in 1..Len(s)
        BY <2>4, <1>7, <1>3, <1>5, <1>1, <1>2
      <3> QED BY <3>1 DEF LabelsIn
    <2> QED BY <2>1, <2>2, <2>3, <2>4, <1>1, <1>2
  <1>8. LabelsIn(t) = LabelsIn(r) \cup LabelsIn(s)
    <2>1. ASSUME NEW l \in LabelsIn(t) PROVE l \in LabelsIn(r) \cup LabelsIn(s)
      <3>1. PICK i \in 1..Len(t) : l = t[i].label
        BY DEF LabelsIn
      <3> QED BY <3>1, <1>3, <1>5, <1>1 DEF LabelsIn
    <2>2. ASSUME NEW l \in LabelsIn(r) PROVE l \in LabelsIn(t)
      <3>1. PICK i \in 1..Len(r) : l = r[i].label
        BY DEF LabelsIn
      <3>2. i \in 1..Len(t) /\ t[i] = r[i]
        BY <1>1, <1>2, <1>3
      <3> QED BY <3>1, <3>2 DEF LabelsIn
    <2>3. ASSUME NEW l \in LabelsIn(s) PROVE l \in LabelsIn(t)
      <3>1. PICK i \in 1..Len(s) : l = s[i].label
        BY DEF LabelsIn
      <3>2. i + Len(r) \in 1..Len(t) /\ t[i + Len(r)] = s[i]
        BY <1>1, <1>2, <1>3
      <3> QED BY <3>1, <3>2 DEF LabelsIn
    <2> QED BY <2>1, <2>2, <2>3
  <1> QED BY <1>4, <1>6, <1>7, <1>8 DEF Folded, t

LEMMA AlignedTogether ==
    ASSUME NEW r, NEW s, NEW u, NEW v, IsList(r), IsList(s), IsList(u), IsList(v), Aligned(r, u), Aligned(s, v)
    PROVE  Aligned(r \o s, u \o v)
  <1>1. Len(r) \in Nat /\ Len(s) \in Nat /\ Len(u) = Len(r) /\ Len(v) = Len(s)
    BY DEF IsList, Aligned
  <1> DEFINE V == {r[i] : i \in 1..Len(r)} \cup {s[i] : i \in 1..Len(s)}
                  \cup {u[i] : i \in 1..Len(u)} \cup {v[i] : i \in 1..Len(v)}
  <1>2. r \in Seq(V) /\ s \in Seq(V) /\ u \in Seq(V) /\ v \in Seq(V)
    <2>1. /\ {r[i] : i \in 1..Len(r)} \subseteq V /\ {s[i] : i \in 1..Len(s)} \subseteq V
          /\ {u[i] : i \in 1..Len(u)} \subseteq V /\ {v[i] : i \in 1..Len(v)} \subseteq V
      OBVIOUS
    <2> HIDE DEF V
    <2> QED BY <2>1, ListIn
  <1> HIDE DEF V
  <1>3. Len(r \o s) = Len(r) + Len(s) /\ Len(u \o v) = Len(r) + Len(s)
    BY <1>1, <1>2
  <1>4. ASSUME NEW i \in 1..(Len(r) + Len(s)) PROVE (r \o s)[i].label = (u \o v)[i].label
    <2>1. CASE i <= Len(r)
      <3>1. i \in 1..Len(r) /\ (r \o s)[i] = r[i] /\ (u \o v)[i] = u[i]
        BY <2>1, <1>1, <1>2
      <3> QED BY <3>1 DEF Aligned
    <2>2. CASE i > Len(r)
      <3>1. i - Len(r) \in 1..Len(s) /\ (r \o s)[i] = s[i - Len(r)] /\ (u \o v)[i] = v[i - Len(r)]
        BY <2>2, <1>1, <1>2
      <3> QED BY <3>1 DEF Aligned
    <2> QED BY <2>1, <2>2, <1>1
  <1> QED BY <1>3, <1>4 DEF Aligned

\* A list of one value, and the records of one and of two labels.
LEMMA ListOfOne == ASSUME NEW x PROVE IsList(<<x>>)
  BY DEF IsList

\* No record, one and two.
LEMMA NoneFolded == Folded(<<>>) /\ LabelsIn(<<>>) = {}
  BY DEF Folded, IsList, LabelsIn

LEMMA OneFolded ==
    ASSUME NEW l, NEW v, IsList(v)
    PROVE  Folded(<<Rec(l, v)>>) /\ LabelsIn(<<Rec(l, v)>>) = {l}
  <1> DEFINE r == <<Rec(l, v)>>
  <1>1. Len(r) = 1 /\ r[1] = Rec(l, v) /\ IsList(r)
    BY DEF IsList
  <1>2. Rec(l, v).label = l /\ Rec(l, v).values = v
    BY DEF Rec
  <1> HIDE DEF r
  <1>3. \A i \in 1..Len(r) : i = 1
    BY <1>1
  <1>4. 1 \in 1..Len(r)
    BY <1>1
  <1> QED BY <1>1, <1>2, <1>3, <1>4 DEF Folded, LabelsIn, r

LEMMA TwoFolded ==
    ASSUME NEW l, NEW v, NEW k, NEW u, IsList(v), IsList(u), l # k
    PROVE  Folded(<<Rec(l, v), Rec(k, u)>>) /\ LabelsIn(<<Rec(l, v), Rec(k, u)>>) = {l, k}
  <1> DEFINE r == <<Rec(l, v), Rec(k, u)>>
  <1>1. Len(r) = 2 /\ r[1] = Rec(l, v) /\ r[2] = Rec(k, u) /\ IsList(r)
    BY DEF IsList
  <1>2. Rec(l, v).label = l /\ Rec(l, v).values = v /\ Rec(k, u).label = k /\ Rec(k, u).values = u
    BY DEF Rec
  <1> HIDE DEF r
  <1>3. \A i \in 1..Len(r) : i = 1 \/ i = 2
    BY <1>1
  <1>4. 1 \in 1..Len(r) /\ 2 \in 1..Len(r)
    BY <1>1
  <1> QED BY <1>1, <1>2, <1>3, <1>4 DEF Folded, LabelsIn, r

LEMMA AlignedNone == Aligned(<<>>, <<>>)
  BY DEF Aligned
LEMMA AlignedOne == ASSUME NEW l, NEW v, NEW w PROVE Aligned(<<Rec(l, v)>>, <<Rec(l, w)>>)
  BY DEF Aligned, Rec
LEMMA AlignedTwo ==
    ASSUME NEW l, NEW v, NEW w, NEW k, NEW x, NEW y
    PROVE  Aligned(<<Rec(l, v), Rec(k, x)>>, <<Rec(l, w), Rec(k, y)>>)
  BY DEF Aligned, Rec

\* What fold_patch_series may be asked of.
PinReads(pin) == pin # <<>> => IsList(pin[1].series)
IdReads(id) == id.dev \in BOOLEAN /\ IsList(id.prints)
SeriesLabels == {"patches", "patches.series", "patches.commit", "patches_dev", "patch_series"}

\* The labels tell whether there is a pin and whether a live checkout is named.
LEMMA SeriesFolded ==
    ASSUME NEW pin, NEW id, PinReads(pin), IdReads(id)
    PROVE  /\ Folded(Series(pin, id)) /\ LabelsIn(Series(pin, id)) \subseteq SeriesLabels
           /\ "patches" \in LabelsIn(Series(pin, id)) <=> pin = <<>>
           /\ pin # <<>> => ("patch_series" \in LabelsIn(Series(pin, id)) <=> id.dev)
  <1>1. CASE pin = <<>>
    <2>1. Series(pin, id) = <<Rec("patches", <<"none">>)>>
      BY <1>1 DEF Series
    <2>2. Folded(Series(pin, id)) /\ LabelsIn(Series(pin, id)) = {"patches"}
      BY <2>1, OneFolded, ListOfOne
    <2> QED BY <2>2, <1>1 DEF SeriesLabels
  <1>2. CASE pin # <<>>
    <2> DEFINE a == <<Rec("patches.series", pin[1].series), Rec("patches.commit", <<pin[1].commit>>)>>
               b == <<Rec("patches_dev", <<"1">>), Rec("patch_series", id.prints)>>
               c == <<Rec("patches_dev", <<"0">>)>>
    <2>1. Series(pin, id) = a \o (IF id.dev THEN b ELSE c)
      BY <1>2 DEF Series
    <2>2. Folded(a) /\ LabelsIn(a) = {"patches.series", "patches.commit"}
      BY <1>2, TwoFolded, ListOfOne DEF PinReads
    <2>3. Folded(b) /\ LabelsIn(b) = {"patches_dev", "patch_series"}
      BY TwoFolded, ListOfOne DEF IdReads
    <2>4. Folded(c) /\ LabelsIn(c) = {"patches_dev"}
      BY OneFolded, ListOfOne
    <2> HIDE DEF a, b, c
    <2>5. CASE id.dev
      <3>1. Series(pin, id) = a \o b
        BY <2>1, <2>5
      <3>2. LabelsIn(a) \cap LabelsIn(b) = {}
        BY <2>2, <2>3
      <3>3. Folded(a \o b) /\ LabelsIn(a \o b) = LabelsIn(a) \cup LabelsIn(b)
        BY <2>2, <2>3, <3>2, FoldedTogether
      <3> QED BY <3>1, <3>3, <2>2, <2>3, <2>5, <1>2 DEF SeriesLabels
    <2>6. CASE ~id.dev
      <3>1. Series(pin, id) = a \o c
        BY <2>1, <2>6
      <3>2. LabelsIn(a) \cap LabelsIn(c) = {}
        BY <2>2, <2>4
      <3>3. Folded(a \o c) /\ LabelsIn(a \o c) = LabelsIn(a) \cup LabelsIn(c)
        BY <2>2, <2>4, <3>2, FoldedTogether
      <3> QED BY <3>1, <3>3, <2>2, <2>4, <2>6, <1>2 DEF SeriesLabels
    <2> QED BY <2>5, <2>6
  <1> QED BY <1>1, <1>2

\* Series of the same labels are of the same kind, and fold their records in one order.
LEMMA SeriesAligned ==
    ASSUME NEW pin, NEW id, PinReads(pin), IdReads(id), NEW qin, NEW jd, PinReads(qin), IdReads(jd),
           LabelsIn(Series(pin, id)) = LabelsIn(Series(qin, jd))
    PROVE  Aligned(Series(pin, id), Series(qin, jd))
  <1>1. pin = <<>> <=> qin = <<>>
    BY SeriesFolded
  <1>2. pin # <<>> => (id.dev <=> jd.dev)
    BY <1>1, SeriesFolded
  <1>3. CASE pin = <<>>
    <2>1. Series(pin, id) = <<Rec("patches", <<"none">>)>> /\ Series(qin, jd) = <<Rec("patches", <<"none">>)>>
      BY <1>1, <1>3 DEF Series
    <2> QED BY <2>1, AlignedOne
  <1>4. CASE pin # <<>>
    <2> DEFINE A(p) == <<Rec("patches.series", p[1].series), Rec("patches.commit", <<p[1].commit>>)>>
               B(i) == <<Rec("patches_dev", <<"1">>), Rec("patch_series", i.prints)>>
               C == <<Rec("patches_dev", <<"0">>)>>
    <2>1. Series(pin, id) = A(pin) \o (IF id.dev THEN B(id) ELSE C) /\ Series(qin, jd) = A(qin) \o (IF jd.dev THEN B(jd) ELSE C)
      BY <1>1, <1>4 DEF Series
    <2>2. Aligned(A(pin), A(qin)) /\ Aligned(B(id), B(jd)) /\ Aligned(C, C)
      BY AlignedOne, AlignedTwo
    <2>3. IsList(A(pin)) /\ IsList(A(qin)) /\ IsList(B(id)) /\ IsList(B(jd)) /\ IsList(C)
      BY DEF IsList
    <2> HIDE DEF A, B, C
    <2>4. CASE id.dev
      BY <2>1, <2>2, <2>3, <2>4, <1>2, <1>4, AlignedTogether
    <2>5. CASE ~id.dev
      BY <2>1, <2>2, <2>3, <2>5, <1>2, <1>4, AlignedTogether
    <2> QED BY <2>4, <2>5
  <1> QED BY <1>3, <1>4

\* Labels before a series.
LEMMA HeadedSeries ==
    ASSUME NEW h, Folded(h), LabelsIn(h) \cap SeriesLabels = {}, NEW pin, NEW id, PinReads(pin), IdReads(id)
    PROVE  /\ Folded(h \o Series(pin, id))
           /\ LabelsIn(h \o Series(pin, id)) = LabelsIn(h) \cup LabelsIn(Series(pin, id))
  <1>1. LabelsIn(h) \cap LabelsIn(Series(pin, id)) = {}
    BY SeriesFolded
  <1> QED BY <1>1, SeriesFolded, FoldedTogether

LEMMA HeadedAligned ==
    ASSUME NEW h, Folded(h), LabelsIn(h) \cap SeriesLabels = {}, NEW pin, NEW id, PinReads(pin), IdReads(id),
           NEW g, Folded(g), LabelsIn(g) = LabelsIn(h), NEW qin, NEW jd, PinReads(qin), IdReads(jd),
           Aligned(h, g), LabelsIn(h \o Series(pin, id)) = LabelsIn(g \o Series(qin, jd))
    PROVE  Aligned(h \o Series(pin, id), g \o Series(qin, jd))
  <1>1. LabelsIn(h) \cup LabelsIn(Series(pin, id)) = LabelsIn(h) \cup LabelsIn(Series(qin, jd))
    BY HeadedSeries
  <1>2. LabelsIn(Series(pin, id)) \subseteq SeriesLabels /\ LabelsIn(Series(qin, jd)) \subseteq SeriesLabels
    BY SeriesFolded
  <1>3. LabelsIn(Series(pin, id)) = LabelsIn(Series(qin, jd))
    BY <1>1, <1>2
  <1>4. Aligned(Series(pin, id), Series(qin, jd))
    BY <1>3, SeriesAligned
  <1>5. IsList(h) /\ IsList(g) /\ IsList(Series(pin, id)) /\ IsList(Series(qin, jd))
    BY SeriesFolded DEF Folded
  <1> QED BY <1>4, <1>5, AlignedTogether

\* Signatures of one tree at two states of the world: the labels tell the records' order.
IdsRead(ids) == \A s \in Scopes : IdReads(ids[s])
Rolled(t, u) ==
    /\ t.node = u.node /\ t.records # <<>>
    /\ Folded(t.records) /\ Folded(u.records)
    /\ LabelsIn(t.records) = LabelsIn(u.records) => Aligned(t.records, u.records)

\* What ForecastAssumption says of a state.
LEMMA WorldReads ==
    ASSUME NEW w \in States
    PROVE  /\ IsList(w.kernel) /\ IsList(w.uboot) /\ IsList(w.ffmpeg) /\ IsList(w.kmod)
           /\ IsList(w.local) /\ IsList(w.app) /\ IsList(w.dts)
           /\ PinReads(w.patches) /\ PinReads(w.ubootPatches) /\ PinReads(w.appPatches)
           /\ \A scope \in Scopes : IsList(w.checkout[scope])
  BY ForecastAssumption DEF PinReads, Scopes

\* A commit, and what is folded of the series above it.
LEMMA CommitAndSeries ==
    ASSUME NEW l, l \notin SeriesLabels, NEW v, NEW u, IsList(v), IsList(u), NEW node, NEW a, NEW b,
           NEW pin, NEW id, PinReads(pin), IdReads(id), NEW qin, NEW jd, PinReads(qin), IdReads(jd)
    PROVE  Rolled(Manifest(node, a, <<Rec(l, v)>> \o Series(pin, id)), Manifest(node, b, <<Rec(l, u)>> \o Series(qin, jd)))
  <1> DEFINE h == <<Rec(l, v)>>
             g == <<Rec(l, u)>>
  <1>1. Folded(h) /\ Folded(g) /\ LabelsIn(h) = {l} /\ LabelsIn(g) = {l} /\ Aligned(h, g)
    BY OneFolded, AlignedOne
  <1> HIDE DEF h, g
  <1>2. LabelsIn(h) \cap SeriesLabels = {} /\ LabelsIn(g) \cap SeriesLabels = {}
    BY <1>1
  <1>3. Folded(h \o Series(pin, id)) /\ Folded(g \o Series(qin, jd)) /\ l \in LabelsIn(h \o Series(pin, id))
    BY <1>1, <1>2, HeadedSeries
  <1>4. h \o Series(pin, id) # <<>>
    BY <1>3, NoneFolded
  <1>5. LabelsIn(h \o Series(pin, id)) = LabelsIn(g \o Series(qin, jd)) => Aligned(h \o Series(pin, id), g \o Series(qin, jd))
    BY <1>1, <1>2, HeadedAligned
  <1> QED BY <1>3, <1>4, <1>5 DEF Rolled, Manifest, h, g

\* A kernel's signature: commits, a series and the device trees if there are any.
LEMMA KernelRolled ==
    ASSUME NEW w \in States, NEW x \in States, NEW ids, NEW jds, IdsRead(ids), IdsRead(jds)
    PROVE  Rolled(KernelTree(w, ids), KernelTree(x, jds))
  <1> DEFINE H(y) == <<Rec("kernel.commit", y.kernel), Rec("kernel.reference", <<y.reference>>)>>
             S(y, is) == Series(y.patches, is["kernel"])
             D(y) == IF y.dts = <<>> THEN <<>> ELSE <<Rec("device_dts", y.dts)>>
  <1>0. IdReads(ids["kernel"]) /\ IdReads(jds["kernel"]) /\ PinReads(w.patches) /\ PinReads(x.patches)
    BY WorldReads DEF IdsRead, Scopes
  <1>1. ASSUME NEW y \in States
        PROVE  /\ Folded(H(y)) /\ LabelsIn(H(y)) = {"kernel.commit", "kernel.reference"}
               /\ Folded(D(y)) /\ LabelsIn(D(y)) = IF y.dts = <<>> THEN {} ELSE {"device_dts"}
    <2>1. IsList(y.kernel) /\ IsList(y.dts)
      BY WorldReads
    <2>2. Folded(H(y)) /\ LabelsIn(H(y)) = {"kernel.commit", "kernel.reference"}
      BY <2>1, TwoFolded, ListOfOne
    <2>3. CASE y.dts = <<>>
      BY <2>2, <2>3, NoneFolded
    <2>4. CASE y.dts # <<>>
      BY <2>1, <2>2, <2>4, OneFolded
    <2> QED BY <2>3, <2>4
  <1>2. Aligned(H(w), H(x))
    BY AlignedTwo
  <1>3. (w.dts = <<>> <=> x.dts = <<>>) => Aligned(D(w), D(x))
    BY AlignedNone, AlignedOne
  <1>4. KernelTree(w, ids) = Manifest("kernel", w.version, (H(w) \o S(w, ids)) \o D(w))
        /\ KernelTree(x, jds) = Manifest("kernel", x.version, (H(x) \o S(x, jds)) \o D(x))
    BY DEF KernelTree
  <1> HIDE DEF H, D
  <1>5. LabelsIn(H(w)) \cap SeriesLabels = {} /\ LabelsIn(H(x)) \cap SeriesLabels = {} /\ LabelsIn(H(w)) = LabelsIn(H(x))
    BY <1>1 DEF SeriesLabels
  <1>6. /\ Folded(H(w) \o S(w, ids)) /\ LabelsIn(H(w) \o S(w, ids)) = LabelsIn(H(w)) \cup LabelsIn(S(w, ids))
        /\ Folded(H(x) \o S(x, jds)) /\ LabelsIn(H(x) \o S(x, jds)) = LabelsIn(H(x)) \cup LabelsIn(S(x, jds))
    BY <1>0, <1>1, <1>5, HeadedSeries
  <1>7. LabelsIn(S(w, ids)) \subseteq SeriesLabels /\ LabelsIn(S(x, jds)) \subseteq SeriesLabels
    BY <1>0, SeriesFolded
  <1>8. /\ "device_dts" \notin LabelsIn(H(w) \o S(w, ids)) /\ "device_dts" \notin LabelsIn(H(x) \o S(x, jds))
        /\ "kernel.commit" \in LabelsIn(H(w) \o S(w, ids))
    BY <1>1, <1>6, <1>7 DEF SeriesLabels
  <1> DEFINE W == H(w) \o S(w, ids)
             X == H(x) \o S(x, jds)
  <1>9. LabelsIn(W) = LabelsIn(X) => Aligned(W, X)
    BY <1>0, <1>1, <1>2, <1>5, HeadedAligned
  <1> HIDE DEF W, X
  <1>10. /\ Folded(W \o D(w)) /\ LabelsIn(W \o D(w)) = LabelsIn(W) \cup LabelsIn(D(w))
         /\ Folded(X \o D(x)) /\ LabelsIn(X \o D(x)) = LabelsIn(X) \cup LabelsIn(D(x))
    <2>1. LabelsIn(W) \cap LabelsIn(D(w)) = {} /\ LabelsIn(X) \cap LabelsIn(D(x)) = {}
      BY <1>1, <1>8 DEF W, X
    <2> QED BY <1>1, <1>6, <2>1, FoldedTogether DEF W, X
  <1>11. W \o D(w) # <<>>
    BY <1>8, <1>10, NoneFolded DEF W
  <1>12. ASSUME LabelsIn(W \o D(w)) = LabelsIn(X \o D(x)) PROVE Aligned(W \o D(w), X \o D(x))
    <2>1. w.dts = <<>> <=> x.dts = <<>>
      BY <1>12, <1>1, <1>8, <1>10 DEF W, X
    <2>2. LabelsIn(D(w)) = LabelsIn(D(x)) /\ LabelsIn(D(w)) \subseteq {"device_dts"}
      BY <2>1, <1>1
    <2>3. LabelsIn(W) = LabelsIn(X)
      <3>1. LabelsIn(W) \cup LabelsIn(D(w)) = LabelsIn(X) \cup LabelsIn(D(w))
        BY <1>12, <1>10, <2>2
      <3>2. "device_dts" \notin LabelsIn(W) /\ "device_dts" \notin LabelsIn(X)
        BY <1>8 DEF W, X
      <3> QED BY <3>1, <3>2, <2>2
    <2>4. IsList(W) /\ IsList(X) /\ IsList(D(w)) /\ IsList(D(x))
      BY <1>6, <1>1 DEF W, X, Folded
    <2> QED BY <2>1, <2>3, <2>4, <1>3, <1>9, AlignedTogether
  <1>13. KernelTree(w, ids) = Manifest("kernel", w.version, W \o D(w)) /\ KernelTree(x, jds) = Manifest("kernel", x.version, X \o D(x))
    BY <1>4 DEF W, X
  <1> QED BY <1>10, <1>11, <1>12, <1>13 DEF Rolled, Manifest

LEMMA KmodRolled ==
    ASSUME NEW w \in States, NEW x \in States
    PROVE  Rolled(KmodTree(w), KmodTree(x))
  <1> DEFINE R(y) == <<Rec("commit", y.kmod), Rec("local_patches", y.local)>>
  <1>1. Folded(R(w)) /\ LabelsIn(R(w)) = {"commit", "local_patches"} /\ Folded(R(x))
    BY WorldReads, TwoFolded
  <1>2. Aligned(R(w), R(x))
    BY AlignedTwo
  <1>3. KmodTree(w) = Manifest("kmod", w.version, R(w)) /\ KmodTree(x) = Manifest("kmod", x.version, R(x))
    BY DEF KmodTree
  <1> HIDE DEF R
  <1>4. R(w) # <<>>
    BY <1>1, NoneFolded
  <1> QED BY <1>1, <1>2, <1>3, <1>4 DEF Rolled, Manifest

\* A userspace tree's: a commit, and the series if its recipe is patched.
LEMMA UserRolled ==
    ASSUME NEW w \in States, NEW x \in States, NEW ids, NEW jds, IdsRead(ids), IdsRead(jds), NEW t
    PROVE  Rolled(UserTree(w, t, ids), UserTree(x, t, jds))
  <1>1. CASE t.patched
    <2>1. UserTree(w, t, ids) = Manifest(t.name, w.version, <<Rec("commit", <<w.userspace>>)>> \o Series(w.patches, ids["userspace"]))
          /\ UserTree(x, t, jds) = Manifest(t.name, x.version, <<Rec("commit", <<x.userspace>>)>> \o Series(x.patches, jds["userspace"]))
      BY <1>1 DEF UserTree
    <2>2. IdReads(ids["userspace"]) /\ IdReads(jds["userspace"]) /\ PinReads(w.patches) /\ PinReads(x.patches)
      BY WorldReads DEF IdsRead, Scopes
    <2>3. "commit" \notin SeriesLabels
      BY DEF SeriesLabels
    <2> QED BY <2>1, <2>2, <2>3, ListOfOne, CommitAndSeries
  <1>2. CASE ~t.patched
    <2> DEFINE R(y) == <<Rec("commit", <<y.userspace>>)>>
    <2>1. Folded(R(w)) /\ LabelsIn(R(w)) = {"commit"} /\ Folded(R(x)) /\ Aligned(R(w), R(x))
      BY ListOfOne, OneFolded, AlignedOne
    <2>2. UserTree(w, t, ids) = Manifest(t.name, w.version, R(w) \o <<>>) /\ UserTree(x, t, jds) = Manifest(t.name, x.version, R(x) \o <<>>)
      BY <1>2 DEF UserTree
    <2> HIDE DEF R
    <2>3. R(w) \o <<>> = R(w) /\ R(x) \o <<>> = R(x)
      BY <2>1, ListIsSeq DEF Folded
    <2>4. R(w) # <<>>
      BY <2>1, NoneFolded
    <2> QED BY <2>1, <2>2, <2>3, <2>4 DEF Rolled, Manifest
  <1> QED BY <1>1, <1>2

LEMMA ManifestParts == ASSUME NEW a, NEW b, NEW c PROVE Manifest(a, b, c) = Manifest(Manifest(a, b, c).node, b, Manifest(a, b, c).records)
  BY DEF Manifest

\* Every tree's signature has its state's version; one tree's signatures are aligned.
LEMMA TreesRolled ==
    ASSUME NEW w \in States, NEW x \in States, NEW ids, NEW jds, IdsRead(ids), IdsRead(jds), NEW n \in ForecastNodes
    PROVE  /\ Rolled(Tree(w, n, ids), Tree(x, n, jds))
           /\ Tree(w, n, ids) = Manifest(Tree(w, n, ids).node, w.version, Tree(w, n, ids).records)
  <1>0. \A s \in Scopes : IdReads(ids[s]) /\ IdReads(jds[s])
    BY DEF IdsRead
  <1>1. CASE n = "kernel"
    <2>1. Tree(w, n, ids) = KernelTree(w, ids) /\ Tree(x, n, jds) = KernelTree(x, jds)
      BY <1>1 DEF Tree
    <2>2. Rolled(Tree(w, n, ids), Tree(x, n, jds))
      BY <2>1, KernelRolled
    <2>3. KernelTree(w, ids) = Manifest(KernelTree(w, ids).node, w.version, KernelTree(w, ids).records)
      BY ManifestParts DEF KernelTree
    <2> QED BY <2>1, <2>2, <2>3
  <1>2. CASE n = "uboot"
    <2>1. Tree(w, n, ids) = UbootTree(w, ids) /\ Tree(x, n, jds) = UbootTree(x, jds)
      BY <1>2 DEF Tree
    <2>2. "uboot.commit" \notin SeriesLabels /\ "uboot" \in Scopes
      BY DEF SeriesLabels, Scopes
    <2>3. Rolled(UbootTree(w, ids), UbootTree(x, jds))
      BY <2>2, <1>0, WorldReads, CommitAndSeries DEF UbootTree
    <2> QED BY <2>1, <2>3, ManifestParts DEF UbootTree
  <1>3. CASE n = "ffmpeg"
    <2>1. Tree(w, n, ids) = FfmpegTree(w, ids) /\ Tree(x, n, jds) = FfmpegTree(x, jds)
      BY <1>3 DEF Tree
    <2>2. "ffmpeg.base.commit" \notin SeriesLabels /\ "ffmpeg" \in Scopes
      BY DEF SeriesLabels, Scopes
    <2>3. Rolled(FfmpegTree(w, ids), FfmpegTree(x, jds))
      BY <2>2, <1>0, WorldReads, CommitAndSeries DEF FfmpegTree
    <2> QED BY <2>1, <2>3, ManifestParts DEF FfmpegTree
  <1>4. CASE n = "kmod"
    <2>1. Tree(w, n, ids) = KmodTree(w) /\ Tree(x, n, jds) = KmodTree(x)
      BY <1>4 DEF Tree
    <2> QED BY <2>1, KmodRolled, ManifestParts DEF KmodTree
  <1>5. CASE n = "app"
    <2>1. Tree(w, n, ids) = AppTree(w, ids) /\ Tree(x, n, jds) = AppTree(x, jds)
      BY <1>5 DEF Tree
    <2>2. "commit" \notin SeriesLabels /\ "app" \in Scopes
      BY DEF SeriesLabels, Scopes
    <2>3. Rolled(AppTree(w, ids), AppTree(x, jds))
      BY <2>2, <1>0, WorldReads, CommitAndSeries DEF AppTree
    <2> QED BY <2>1, <2>3, ManifestParts DEF AppTree
  <1>6. CASE n \notin {"kernel", "uboot", "ffmpeg", "kmod", "app"}
    <2> DEFINE t == CHOOSE t \in Shelf : t.name = n
    <2>1. Tree(w, n, ids) = UserTree(w, t, ids) /\ Tree(x, n, jds) = UserTree(x, t, jds)
      BY <1>6 DEF Tree
    <2> HIDE DEF t
    <2>2. Rolled(Tree(w, n, ids), Tree(x, n, jds))
      BY <2>1, UserRolled
    <2>3. UserTree(w, t, ids) = Manifest(UserTree(w, t, ids).node, w.version, UserTree(w, t, ids).records)
      BY ManifestParts DEF UserTree
    <2> QED BY <2>1, <2>2, <2>3
  <1> QED BY <1>1, <1>2, <1>3, <1>4, <1>5, <1>6

\* The forecast and a stage differ in the identity of a series only where there is no pin, and
\* then none is folded (PlanIdentity, StageIdentity).
LEMMA IdentitiesAgree ==
    ASSUME NEW w \in States, NEW o \in Options
    PROVE  LET asPlanned == Identities(w, o, PlanIdentity)
               asStaged == Identities(w, o, StageIdentity)
           IN /\ IdsRead(asPlanned) /\ IdsRead(asStaged)
              /\ \A s \in Scopes : Series(PinOf(w, s), asPlanned[s]) = Series(PinOf(w, s), asStaged[s])
  <1> DEFINE asPlanned == Identities(w, o, PlanIdentity)
             asStaged == Identities(w, o, StageIdentity)
  <1>1. ASSUME NEW s \in Scopes
        PROVE asPlanned[s] = PlanIdentity(w, o, PinOf(w, s), s) /\ asStaged[s] = StageIdentity(w, o, PinOf(w, s), s)
    <2>1. asPlanned = [t \in Scopes |-> PlanIdentity(w, o, PinOf(w, t), t)]
      BY DEF Identities
    <2>2. asStaged = [t \in Scopes |-> StageIdentity(w, o, PinOf(w, t), t)]
      BY DEF Identities
    <2> HIDE DEF asPlanned, asStaged
    <2> QED BY <2>1, <2>2
  <1> HIDE DEF asPlanned, asStaged
  <1>2. o.dev \in BOOLEAN
    BY DEF Options
  <1>3. IsList(<<>>) /\ \A s \in Scopes : IsList(w.checkout[s])
    <2>1. IsList(<<>>)
      BY DEF IsList
    <2> QED BY <2>1, WorldReads
  <1>4. ASSUME NEW s \in Scopes PROVE IdReads(asPlanned[s]) /\ IdReads(asStaged[s])
    <2> DEFINE live == [dev |-> TRUE, prints |-> w.checkout[s]]
               none == [dev |-> TRUE, prints |-> <<>>]
    <2>1. IdReads(Pinned) /\ IdReads(live) /\ IdReads(none)
      BY <1>3 DEF IdReads, Pinned
    <2>2. asStaged[s] \in {Pinned, live} /\ asPlanned[s] \in {Pinned, live, none}
      BY <1>1 DEF PlanIdentity, StageIdentity, Prints
    <2> HIDE DEF live, none
    <2> QED BY <2>1, <2>2
  <1>5. ASSUME NEW s \in Scopes PROVE Series(PinOf(w, s), asPlanned[s]) = Series(PinOf(w, s), asStaged[s])
    <2>1. CASE PinOf(w, s) = <<>>
      BY <2>1 DEF Series
    <2>2. CASE PinOf(w, s) # <<>>
      <3>1. asPlanned[s] = asStaged[s]
        BY <1>1, <2>2 DEF PlanIdentity, StageIdentity
      <3> QED BY <3>1
    <2> QED BY <2>1, <2>2
  <1> QED BY <1>4, <1>5 DEF IdsRead, asPlanned, asStaged

\* So every tree's signature and every entry's key is the same by the one and the other.
LEMMA KeysAgree ==
    ASSUME NEW w \in States, NEW o \in Options, NEW n
    PROVE  LET asPlanned == Identities(w, o, PlanIdentity)
               asStaged == Identities(w, o, StageIdentity)
           IN Tree(w, n, asPlanned) = Tree(w, n, asStaged) /\ StoreKeys(w, o, n, asPlanned) = StoreKeys(w, o, n, asStaged)
  <1> DEFINE asPlanned == Identities(w, o, PlanIdentity)
             asStaged == Identities(w, o, StageIdentity)
  <1>1. \A s \in Scopes : Series(PinOf(w, s), asPlanned[s]) = Series(PinOf(w, s), asStaged[s])
    BY IdentitiesAgree
  <1> HIDE DEF asPlanned, asStaged
  <1>2. /\ Series(w.patches, asPlanned["kernel"]) = Series(w.patches, asStaged["kernel"])
        /\ Series(w.ubootPatches, asPlanned["uboot"]) = Series(w.ubootPatches, asStaged["uboot"])
        /\ Series(w.patches, asPlanned["ffmpeg"]) = Series(w.patches, asStaged["ffmpeg"])
        /\ Series(w.patches, asPlanned["userspace"]) = Series(w.patches, asStaged["userspace"])
        /\ Series(w.appPatches, asPlanned["app"]) = Series(w.appPatches, asStaged["app"])
    <2>1. /\ PinOf(w, "kernel") = w.patches /\ PinOf(w, "uboot") = w.ubootPatches /\ PinOf(w, "ffmpeg") = w.patches
          /\ PinOf(w, "userspace") = w.patches /\ PinOf(w, "app") = w.appPatches
      BY DEF PinOf
    <2>2. {"kernel", "uboot", "ffmpeg", "userspace", "app"} \subseteq Scopes
      BY DEF Scopes
    <2> HIDE DEF PinOf, Series
    <2> QED BY <1>1, <2>1, <2>2
  <1>3. KernelTree(w, asPlanned) = KernelTree(w, asStaged) /\ UbootTree(w, asPlanned) = UbootTree(w, asStaged)
        /\ FfmpegTree(w, asPlanned) = FfmpegTree(w, asStaged) /\ AppTree(w, asPlanned) = AppTree(w, asStaged)
    BY <1>2 DEF KernelTree, UbootTree, FfmpegTree, AppTree
  <1>4. \A t : UserTree(w, t, asPlanned) = UserTree(w, t, asStaged)
    BY <1>2 DEF UserTree
  <1>5. Tree(w, n, asPlanned) = Tree(w, n, asStaged)
    BY <1>3, <1>4 DEF Tree
  <1>6. \A t : UserOutput(w, o, t, asPlanned) = UserOutput(w, o, t, asStaged)
    BY <1>4 DEF UserOutput
  <1>7. KernelOutput(w, asPlanned) = KernelOutput(w, asStaged) /\ UbootOutput(w, asPlanned) = UbootOutput(w, asStaged)
        /\ KmodOutput(w, asPlanned) = KmodOutput(w, asStaged) /\ AppOutput(w, asPlanned) = AppOutput(w, asStaged)
    BY <1>3 DEF KernelOutput, UbootOutput, KmodOutput, AppOutput
  <1>8. FfmpegOutput(w, o, asPlanned) = FfmpegOutput(w, o, asStaged)
    <2>1. {UserOutput(w, o, t, asPlanned) : t \in Linked(o)} = {UserOutput(w, o, t, asStaged) : t \in Linked(o)}
      BY <1>6
    <2> QED BY <1>3, <2>1 DEF FfmpegOutput
  <1>9. StoreKeys(w, o, n, asPlanned) = StoreKeys(w, o, n, asStaged)
    BY <1>6, <1>7, <1>8 DEF StoreKeys
  <1> QED BY <1>5, <1>9 DEF asPlanned, asStaged

\* NodePlan::evaluate on the tree.
LEMMA StatusSays ==
    ASSUME NEW found, NEW man, man # Unstamped
    PROVE  /\ TreeStatus(found, man).verb = "reuse" <=> found = <<man>>
           /\ TreeStatus(found, man).verb = "rebuild" =>
                 /\ found \notin {<<>>, <<Unstamped>>, <<man>>}
                 /\ TreeStatus(found, man).changes = Diff(found[1], man)
  <1>1. CASE found = <<>>
    BY <1>1 DEF TreeStatus
  <1>2. CASE found = <<Unstamped>>
    <2>1. found # <<man>> /\ found # <<>>
      BY <1>2
    <2> QED BY <1>2, <2>1 DEF TreeStatus
  <1>3. CASE found = <<man>>
    <2>1. found # <<Unstamped>> /\ found # <<>>
      BY <1>3
    <2> QED BY <1>3, <2>1 DEF TreeStatus
  <1>4. CASE found \notin {<<>>, <<Unstamped>>, <<man>>}
    <2>1. TreeStatus(found, man) = [verb |-> "rebuild", changes |-> Diff(found[1], man)]
      BY <1>4 DEF TreeStatus
    <2> QED BY <1>4, <2>1
  <1> QED BY <1>1, <1>2, <1>3, <1>4

\* A stamp is the signature some build rolled of that tree, or says that there is none.
Stamped(n, found) ==
    \/ found \in {<<>>, <<Unstamped>>}
    \/ \E w \in States, o \in Options : found = <<Tree(w, n, Identities(w, o, StageIdentity))>>
ForecastInv ==
    /\ world \in States /\ commands \in 0..MaxCommands
    /\ DOMAIN stamps = ForecastNodes /\ \A n \in ForecastNodes : Stamped(n, stamps[n])
    /\ DOMAIN ran \subseteq ForecastNodes

\* A rebuild that no input explains is one of another version of the recipe.
LEMMA UnexplainedIsRecipe ==
    ASSUME NEW n \in ForecastNodes, NEW w \in States, NEW o \in Options, NEW found, Stamped(n, found)
    PROVE  LET man == Tree(w, n, Identities(w, o, StageIdentity)) IN
           /\ man # Unstamped
           /\ found \notin {<<>>, <<Unstamped>>, <<man>>} /\ Diff(found[1], man) = {} => found[1].version # w.version
  <1> DEFINE man == Tree(w, n, Identities(w, o, StageIdentity))
  <1>0. IdsRead(Identities(w, o, StageIdentity))
    BY IdentitiesAgree
  <1>1. man # Unstamped
    <2>1. man.records # <<>>
      BY <1>0, TreesRolled DEF Rolled
    <2>2. Unstamped.records = <<>>
      BY DEF Unstamped, Manifest
    <2> QED BY <2>1, <2>2
  <1>2. ASSUME found \notin {<<>>, <<Unstamped>>, <<man>>}, Diff(found[1], man) = {}, found[1].version = w.version PROVE FALSE
    <2>1. PICK x \in States, p \in Options : found = <<Tree(x, n, Identities(x, p, StageIdentity))>>
      BY <1>2 DEF Stamped
    <2> DEFINE old == Tree(x, n, Identities(x, p, StageIdentity))
    <2>2. IdsRead(Identities(x, p, StageIdentity))
      BY IdentitiesAgree
    <2>3. Rolled(old, man) /\ old = Manifest(old.node, x.version, old.records) /\ man = Manifest(man.node, w.version, man.records)
      BY <1>0, <2>2, TreesRolled
    <2>4. found[1] = old /\ old # man
      BY <1>2, <2>1
    <2> HIDE DEF old, man
    <2>5. Labels(old) = LabelsIn(old.records) /\ Labels(man) = LabelsIn(man.records)
      <3>1. DOMAIN old.records = 1..Len(old.records) /\ DOMAIN man.records = 1..Len(man.records)
        BY <2>3 DEF Rolled, Folded, IsList
      <3> QED BY <3>1 DEF Labels, LabelsIn
    <2>6. old.records = man.records
      BY <1>2, <2>3, <2>4, <2>5, NoChangeIsSame DEF Rolled
    <2>7. old.version = x.version
      BY <2>3 DEF Manifest
    <2> QED BY <1>2, <2>3, <2>4, <2>6, <2>7 DEF Rolled
  <1> QED BY <1>1, <1>2

LEMMA ForecastStarts == ForecastInit => ForecastInv
  BY ForecastAssumption DEF ForecastInit, ForecastInv, Stamped, NoBuild

\* Whatever a build, a failed refresh, a clean or an edit leaves, a stamp is such a signature.
LEMMA ForecastSteps == ForecastInv /\ [ForecastNext]_forecastVars => ForecastInv'
  <1> SUFFICES ASSUME ForecastInv, [ForecastNext]_forecastVars PROVE ForecastInv'
    OBVIOUS
  <1> USE DEF ForecastInv
  <1>0. MaxCommands \in Nat
    BY ForecastAssumption
  <1>1. CASE ForecastedBuild
    <2>1. PICK o \in Options, upto \in Lasts : RunStages(o, upto)
      BY <1>1 DEF ForecastedBuild
    <2> DEFINE ids == Identities(world, o, StageIdentity)
    <2>2. PICK taken : stamps' = [n \in ForecastNodes |-> IF n \in taken THEN <<Tree(world, n, ids)>> ELSE stamps[n]]
      BY <2>1 DEF RunStages
    <2>3. DOMAIN ran' \subseteq ForecastNodes
      BY <2>1 DEF RunStages, BuiltNodes
    <2>4. world' = world /\ commands' \in 0..MaxCommands
      BY <1>0, <1>1 DEF ForecastedBuild
    <2>5. ASSUME NEW n \in ForecastNodes PROVE Stamped(n, stamps[n])'
      <3>1. CASE n \in taken
        <4>1. stamps'[n] = <<Tree(world, n, ids)>>
          BY <2>2, <3>1
        <4> QED BY <4>1 DEF Stamped
      <3>2. CASE n \notin taken
        <4>1. stamps'[n] = stamps[n]
          BY <2>2, <3>2
        <4> QED BY <4>1 DEF Stamped
      <3> QED BY <3>1, <3>2
    <2> QED BY <2>2, <2>3, <2>4, <2>5
  <1>2. CASE RefreshFails
    <2>1. world' = world /\ commands' \in 0..MaxCommands /\ DOMAIN ran' = {}
      BY <1>0, <1>2 DEF RefreshFails, NoBuild
    <2>2. PICK m \in ForecastNodes, left \in {<<>>, <<Unstamped>>} : stamps' = [stamps EXCEPT ![m] = left]
      BY <1>2 DEF RefreshFails
    <2>3. ASSUME NEW n \in ForecastNodes PROVE Stamped(n, stamps[n])'
      <3>1. stamps'[n] = left \/ stamps'[n] = stamps[n]
        BY <2>2
      <3> QED BY <3>1 DEF Stamped
    <2> QED BY <2>1, <2>2, <2>3
  <1>3. CASE CleanArtifacts
    BY <1>0, <1>3 DEF CleanArtifacts, NoBuild, Stamped
  <1>4. CASE CleanTrees
    BY <1>0, <1>4 DEF CleanTrees, NoBuild, Stamped
  <1>5. CASE InputsMove
    BY <1>0, <1>5 DEF InputsMove, NoBuild, Stamped
  <1>6. CASE UNCHANGED forecastVars
    BY <1>6 DEF forecastVars, Stamped
  <1> QED BY <1>1, <1>2, <1>3, <1>4, <1>5, <1>6 DEF ForecastNext

\* What a build of some options does of a node, and what the forecast said of it.
LEMMA NodeIsForecast ==
    ASSUME ForecastInv, NEW o \in Options, NEW upto, RunStages(o, upto), NEW n \in DOMAIN ran'
    PROVE  LET said == PlanNodes(world, o) IN
           /\ ran'[n].opts = o
           /\ n \in DOMAIN said
           /\ ran'[n].compiled <=> said[n].artifact \in {"miss", "disabled"}
           /\ ran'[n].took => (ran'[n].reused <=> said[n].tree.verb = "reuse")
           /\ said[n].tree.verb = "rebuild" /\ said[n].tree.changes = {} => stamps[n][1].version # world.version
  <1> DEFINE ids == Identities(world, o, StageIdentity)
             asPlanned == Identities(world, o, PlanIdentity)
             said == PlanNodes(world, o)
             man == Tree(world, n, ids)
  <1>0. world \in States
    BY DEF ForecastInv
  <1>1. PICK ofBuild, taken :
           /\ ofBuild = BuiltNodes(world, o) \cap Reached(upto)
           /\ \A m \in ofBuild : Reads(world, m) /\ Keyed(world, m)
           /\ ran' = [m \in ofBuild |->
                  [compiled |-> Missing(world, o, m, ids) # {}, took |-> m \in taken,
                   reused |-> m \in taken /\ stamps[m] = <<Tree(world, m, ids)>>, opts |-> o]]
    <2> DEFINE ofBuild == BuiltNodes(world, o) \cap Reached(upto)
               missing == [m \in ofBuild |-> Missing(world, o, m, ids)]
               taken == {m \in ofBuild :
                     \/ missing[m] # {}
                     \/ m = "kernel" /\ "kmod" \in ofBuild /\ KmodOutput(world, ids) \in missing["kmod"]}
    <2>1. /\ \A m \in ofBuild : Reads(world, m) /\ Keyed(world, m)
          /\ ran' = [m \in ofBuild |->
                  [compiled |-> missing[m] # {}, took |-> m \in taken,
                   reused |-> m \in taken /\ stamps[m] = <<Tree(world, m, ids)>>, opts |-> o]]
      BY DEF RunStages
    <2> HIDE DEF taken, ids, ofBuild
    <2>2. \A m \in ofBuild : missing[m] = Missing(world, o, m, ids)
      OBVIOUS
    <2> HIDE DEF missing
    <2>3. ran' = [m \in ofBuild |->
                  [compiled |-> Missing(world, o, m, ids) # {}, took |-> m \in taken,
                   reused |-> m \in taken /\ stamps[m] = <<Tree(world, m, ids)>>, opts |-> o]]
      BY <2>1, <2>2
    <2>4. ofBuild = BuiltNodes(world, o) \cap Reached(upto)
      BY DEF ofBuild
    <2> WITNESS ofBuild, taken
    <2> QED BY <2>1, <2>3, <2>4
  <1>2. n \in ofBuild /\ n \in ForecastNodes /\ Reads(world, n) /\ Keyed(world, n)
    BY <1>1 DEF BuiltNodes
  <1>3. n \in PlannedNodes(world, o)
    BY <1>1, <1>2 DEF PlannedNodes
  <1>4. Tree(world, n, asPlanned) = man /\ StoreKeys(world, o, n, asPlanned) = StoreKeys(world, o, n, ids)
    BY <1>0, KeysAgree
  <1>5. said = [m \in PlannedNodes(world, o) |->
                  [tree |-> TreeStatus(stamps[m], Tree(world, m, asPlanned)),
                   artifact |-> ArtifactStatus(world, o, m, asPlanned),
                   keys |-> IF Keyed(world, m) THEN StoreKeys(world, o, m, asPlanned) ELSE {}]]
    BY DEF PlanNodes
  <1> HIDE DEF ids, asPlanned, said, man
  <1>6. n \in DOMAIN said /\ said[n].tree = TreeStatus(stamps[n], man) /\ said[n].artifact = ArtifactStatus(world, o, n, asPlanned)
    BY <1>3, <1>4, <1>5
  <1>7. /\ ran'[n].compiled <=> Missing(world, o, n, ids) # {}
        /\ ran'[n].took <=> n \in taken
        /\ ran'[n].reused <=> n \in taken /\ stamps[n] = <<man>>
        /\ ran'[n].opts = o
    <2>1. ran'[n] = [compiled |-> Missing(world, o, n, ids) # {}, took |-> n \in taken,
                     reused |-> n \in taken /\ stamps[n] = <<man>>, opts |-> o]
      BY <1>1, <1>2 DEF man
    <2>2. ran'[n].compiled = (Missing(world, o, n, ids) # {}) /\ ran'[n].opts = o
      BY <2>1
    <2>3. ran'[n].took = (n \in taken)
      BY <2>1
    <2>4. ran'[n].reused = (n \in taken /\ stamps[n] = <<man>>)
      BY <2>1
    <2> QED BY <2>2, <2>3, <2>4, Zenon
  <1>8. ran'[n].compiled <=> said[n].artifact \in {"miss", "disabled"}
    <2> DEFINE K == StoreKeys(world, o, n, ids)
    <2>1. K # {}
      BY DEF StoreKeys
    <2> HIDE DEF K
    <2>2. CASE o.store
      <3>1. Missing(world, o, n, ids) = K \ kept
        BY <2>2 DEF Missing, K
      <3>2. ArtifactStatus(world, o, n, asPlanned) = IF K \subseteq kept THEN "hit" ELSE "miss"
        BY <2>2, <1>2, <1>4 DEF ArtifactStatus, K
      <3> QED BY <3>1, <3>2, <1>6, <1>7
    <2>3. CASE ~o.store
      <3>1. Missing(world, o, n, ids) = K
        BY <2>3 DEF Missing, K
      <3>2. ArtifactStatus(world, o, n, asPlanned) = "disabled"
        BY <2>3 DEF ArtifactStatus
      <3> QED BY <3>1, <3>2, <2>1, <1>6, <1>7
    <2> QED BY <2>2, <2>3
  <1>9. /\ man # Unstamped
        /\ stamps[n] \notin {<<>>, <<Unstamped>>, <<man>>} /\ Diff(stamps[n][1], man) = {} => stamps[n][1].version # world.version
    BY <1>0, <1>2, UnexplainedIsRecipe DEF ForecastInv, man, ids
  <1>10. /\ said[n].tree.verb = "reuse" <=> stamps[n] = <<man>>
         /\ said[n].tree.verb = "rebuild" =>
               /\ stamps[n] \notin {<<>>, <<Unstamped>>, <<man>>}
               /\ said[n].tree.changes = Diff(stamps[n][1], man)
    <2>1. /\ TreeStatus(stamps[n], man).verb = "reuse" <=> stamps[n] = <<man>>
          /\ TreeStatus(stamps[n], man).verb = "rebuild" =>
                /\ stamps[n] \notin {<<>>, <<Unstamped>>, <<man>>}
                /\ TreeStatus(stamps[n], man).changes = Diff(stamps[n][1], man)
      BY <1>9, StatusSays
    <2> QED BY <1>6, <2>1, Zenon
  <1>11. ran'[n].took => (ran'[n].reused <=> said[n].tree.verb = "reuse")
    BY <1>7, <1>10, Zenon
  <1>12. said[n].tree.verb = "rebuild" /\ said[n].tree.changes = {} => stamps[n][1].version # world.version
    BY <1>9, <1>10
  <1> QED BY <1>6, <1>7, <1>8, <1>11, <1>12 DEF said

\* A build's nodes all ran under its options, which the property takes from any of them.
LEMMA BuildsAreForecast == ForecastInv /\ ForecastNext => BuildIsForecast
  <1> SUFFICES ASSUME ForecastInv, ForecastNext, DOMAIN ran' # {} PROVE BuildIsForecast
    BY DEF BuildIsForecast
  <1>1. ForecastedBuild
    BY DEF ForecastNext, RefreshFails, CleanArtifacts, CleanTrees, InputsMove, NoBuild
  <1>2. PICK o \in Options, upto \in Lasts : RunStages(o, upto)
    BY <1>1 DEF ForecastedBuild
  <1> DEFINE chosen == CHOOSE r \in {ran'[n] : n \in DOMAIN ran'} : TRUE
  <1>3. chosen \in {ran'[n] : n \in DOMAIN ran'}
    OBVIOUS
  <1> HIDE DEF chosen
  <1>4. chosen.opts = o
    BY <1>2, <1>3, NodeIsForecast
  <1>5. \A n \in DOMAIN ran' :
            /\ n \in DOMAIN PlanNodes(world, o)
            /\ ran'[n].compiled <=> PlanNodes(world, o)[n].artifact \in {"miss", "disabled"}
            /\ ran'[n].took => (ran'[n].reused <=> PlanNodes(world, o)[n].tree.verb = "reuse")
            /\ PlanNodes(world, o)[n].tree.verb = "rebuild" /\ PlanNodes(world, o)[n].tree.changes = {} =>
                  stamps[n][1].version # world.version
    BY <1>2, NodeIsForecast
  <1> QED BY <1>4, <1>5 DEF BuildIsForecast, chosen

\* An entry some selection's forecast names is live (live_artifacts), whatever its store flag.
LEMMA PrunesKeepForecasts == PruneKeepsForecasts
  <1> SUFFICES ASSUME CleanArtifacts, NEW o \in Selections, NEW n \in PlannedNodes(world, [o EXCEPT !.store = TRUE])
               PROVE  PlanNodes(world, [o EXCEPT !.store = TRUE])[n].artifact = PlanNodes(world, [o EXCEPT !.store = TRUE])'[n].artifact
    BY DEF PruneKeepsForecasts
  <1> DEFINE on == [o EXCEPT !.store = TRUE]
             ids == Identities(world, o, PlanIdentity)
             K == StoreKeys(world, o, n, ids)
  <1>1. on.dev = o.dev /\ on.asked = o.asked /\ on.store = TRUE
    BY DEF Selections
  <1> HIDE DEF on
  <1>2. Enabled(on) = Enabled(o)
    BY <1>1 DEF Enabled
  <1>3. PlannedNodes(world, on) = PlannedNodes(world, o)
    BY <1>2 DEF PlannedNodes, BuiltNodes
  <1>4. Identities(world, on, PlanIdentity) = ids
    BY <1>1 DEF Identities, PlanIdentity
  <1>5. StoreKeys(world, on, n, ids) = K
    BY <1>2 DEF StoreKeys, FfmpegOutput, Linked, UserOutput, LayeredDeps
  <1> HIDE DEF ids, K
  <1>6. n \in PlannedNodes(world, o) /\ Keyed(world, n)
    BY <1>3 DEF CleanArtifacts, on
  <1>7. PlanNodes(world, o)[n].keys = K
    BY <1>6 DEF PlanNodes, K, ids
  <1>8. K \subseteq LiveArtifacts
    BY <1>6, <1>7 DEF LiveArtifacts
  <1>9. world' = world /\ kept' = kept \cap LiveArtifacts
    BY DEF CleanArtifacts, DeadArtifacts
  <1>10. K \subseteq kept <=> K \subseteq kept'
    BY <1>8, <1>9
  <1>11. PlanNodes(world, on)[n].artifact = IF K \subseteq kept THEN "hit" ELSE "miss"
    <2>1. PlanNodes(world, on)[n].artifact = ArtifactStatus(world, on, n, ids)
      BY <1>3, <1>4, <1>6 DEF PlanNodes
    <2> QED BY <2>1, <1>1, <1>5, <1>6 DEF ArtifactStatus
  <1>12. PlanNodes(world, on)'[n].artifact = IF K \subseteq kept' THEN "hit" ELSE "miss"
    <2> DEFINE idsOn == Identities(world, on, PlanIdentity)
    <2>1. PlanNodes(world, on)' =
              [m \in PlannedNodes(world, on) |->
                  [tree |-> TreeStatus(stamps'[m], Tree(world, m, idsOn)),
                   artifact |-> IF ~on.store THEN "disabled" ELSE IF ~Keyed(world, m) THEN "unknown"
                                ELSE IF StoreKeys(world, on, m, idsOn) \subseteq kept' THEN "hit" ELSE "miss",
                   keys |-> IF Keyed(world, m) THEN StoreKeys(world, on, m, idsOn) ELSE {}]]
      BY <1>9 DEF PlanNodes, ArtifactStatus
    <2> HIDE DEF idsOn
    <2>2. PlanNodes(world, on)'[n].artifact =
              IF ~on.store THEN "disabled" ELSE IF ~Keyed(world, n) THEN "unknown"
              ELSE IF StoreKeys(world, on, n, idsOn) \subseteq kept' THEN "hit" ELSE "miss"
      BY <2>1, <1>3, <1>6
    <2>3. idsOn = ids
      BY <1>4 DEF idsOn
    <2> QED BY <2>2, <2>3, <1>1, <1>5, <1>6
  <1> QED BY <1>10, <1>11, <1>12 DEF on

\* The trees' stamps, the store and the last build's record have their types, for every shelf and
\* every set of states: ForecastTypeOK.
THEOREM ForecastTypes == ForecastSpec => []ForecastTypeOK
  <1>1. ForecastInv => ForecastTypeOK
    <2>1. ASSUME NEW n \in ForecastNodes, Stamped(n, stamps[n]) PROVE Len(stamps[n]) <= 1
      <3>1. Len(<<>>) <= 1 /\ \A x : Len(<<x>>) <= 1
        OBVIOUS
      <3> QED BY <2>1, <3>1 DEF Stamped
    <2> QED BY <2>1 DEF ForecastInv, ForecastTypeOK
  <1> QED BY ForecastStarts, ForecastSteps, <1>1, PTL DEF ForecastSpec

\* why-rebuild and the build agree on every node, whatever was built, failed, cleaned or edited
\* before, and a prune leaves every forecast of a pinned build as it was, for every set of
\* userspace trees and every set of states of lock, files and host: ForecastComesTrue.
THEOREM ForecastComesTrueHolds == ForecastSpec => ForecastComesTrue
  <1>1. ForecastInv /\ [ForecastNext]_forecastVars => [BuildIsForecast /\ PruneKeepsForecasts]_forecastVars
    BY BuildsAreForecast, PrunesKeepForecasts
  <1> QED BY ForecastStarts, ForecastSteps, <1>1, PTL DEF ForecastSpec, ForecastComesTrue
=============================================================================
