--------------------------- MODULE PackageStages ----------------------------
(***************************************************************************)
(* The stages that hand over one package: u-boot with its raw payloads     *)
(* (engine/src/build/uboot.rs), ffmpeg (ffmpeg.rs) and an app (app.rs).    *)
(* Each restores what its key names from the store, or gates its source    *)
(* tree, takes what it is built with, compiles, publishes and stores.      *)
(*                                                                         *)
(* What is built with a stage's source is its `dep`: the firmware blobs of *)
(* u-boot, the userspace libraries ffmpeg links, the SDK and the packages  *)
(* of an app.  The store is seen through what ArtifactStore guarantees;    *)
(* the tree is a stamp and what lies beside it: the gate looks at the      *)
(* stamp, and a refresh that is cut short leaves the older one beside a    *)
(* tree it no longer names.  Of the userspace stage ffmpeg follows it is   *)
(* known that it leaves the pinned packages in the output directory, not   *)
(* that it leaves no others.                                               *)
(***************************************************************************)
EXTENDS Naturals, Sequences, FiniteSets

CONSTANTS
    Asks,      \* what the lock and the layers may ask of the stage
    BlobDirs,  \* what the blob directory may hold
    None,      \* no tree, no file
    Torn,      \* a file, an object or a tree that was being written or removed when its writer died
    MaxRuns    \* bound: how many runs a behaviour has

VARIABLES
    ask,       \* what is asked for now
    read,      \* the same, as the run read it
    blobdir,   \* the version of the firmware files on this host
    shelved,   \* shelved[k]: what the store holds under k, by role
    mark,      \* the source the tree's stamp names
    stree,     \* the source the tree was made of
    reused,    \* did this run find its tree?
    objs,      \* objs[r]: what the last compile left of each product
    restored,  \* what a restore has put in the stage's own directory
    dir,       \* dir[f]: the files of the output directory
    libs,      \* libs[n]: the highest version of userspace package n beside them
    handed,    \* the roles the run hands over
    at, tries,
    cut,       \* history: a refresh of the tree has been cut short
    returned   \* history: an edit has gone back to an earlier source, or behind a library that is there

history == <<cut, returned>>
stageVars == <<ask, read, blobdir, shelved, mark, stree, reused, objs, restored, dir, libs, handed, at, tries, history>>

Payloads == {"idbloader", "uboot_itb"}
Usb == {"usb471", "usb472"}
Maskrom == Usb \cup {"maskrom_loader"}

\* What a compile leaves: u-boot's payloads, with the USB images where the configuration has
\* them; the other two a package.
Made(w) == IF w.node # "uboot" THEN {"deb"} ELSE Payloads \cup (IF w.cfg.maskrom THEN Usb ELSE {})
Roles(w) ==
    IF w.node # "uboot" THEN {"deb"}
    ELSE Payloads \cup {"deb"} \cup (IF w.cfg.maskrom THEN Maskrom ELSE {})

\* publish, stage_artifact: a payload keeps its name, a package's has its version in it.
FileOf(w, role) == [kind |-> role, ver |-> IF role = "deb" THEN w.src ELSE 0]

\* What lies there once the first has been written over the second.
Onto(top, under) == [x \in DOMAIN top \cup DOMAIN under |-> IF x \in DOMAIN top THEN top[x] ELSE under[x]]
Put(f, k, v) == Onto([x \in {k} |-> v], f)

\* Files are published one after the other.
Order == <<"idbloader", "uboot_itb", "deb", "usb471", "usb472", "maskrom_loader">>
IsNext(r, todo) ==
    \E i \in DOMAIN Order : Order[i] = r /\ r \in todo /\ \A j \in 1..(i - 1) : Order[j] \notin todo
-----------------------------------------------------------------------------
(* ffmpeg: which libraries it links.                                       *)

\* linked_userspace: the trees with a flag whose required trees are there.
LinkedUserspace(c) == {t \in c.trees : t.flag /\ \A n \in t.requires : \E o \in c.trees : o.name = n}
LinkNames(c) == UNION {t.links : t \in LinkedUserspace(c)}
LayerPackages(c) ==
    {"toolchain"} \cup (IF c.nonfree THEN {"libfdk-aac-dev"} ELSE {}) \cup LinkNames(c) \cup UNION {l.links : l \in c.libs}
ConfigureFlags(c) ==
    [nonfree |-> c.nonfree, trees |-> {t.name : t \in LinkedUserspace(c)}, libs |-> {l.name : l \in c.libs}]
\* required_runtime_depends: the first link is the runtime package.
RequiredRuntimeDepends(c) == {t.runtime : t \in LinkedUserspace(c)} \cup {l.runtime : l \in c.libs}
LinkedAt(w) == [n \in {t.name : t \in LinkedUserspace(w.cfg)} |-> w.dep[n]]
-----------------------------------------------------------------------------
(* Keys: output_manifest of each stage.                                    *)

UbootKey(w) == [node |-> w.node, src |-> w.src, cfg |-> w.cfg, dep |-> w.dep, tool |-> w.tool]
FfmpegKey(w) ==
    [node |-> w.node, src |-> w.src, flags |-> ConfigureFlags(w.cfg), layer |-> LayerPackages(w.cfg),
     libs |-> w.cfg.libs, dep |-> LinkedAt(w), tool |-> w.tool]
AppKey(w) == [node |-> w.node, src |-> w.src, cfg |-> w.cfg, dep |-> w.dep, tool |-> w.tool]
OutputKey(w) ==
    CASE w.node = "uboot" -> UbootKey(w) [] w.node = "ffmpeg" -> FfmpegKey(w) [] w.node = "app" -> AppKey(w)

\* A product is what it was made from; ffmpeg's package also says what it depends on.
Product(key, role, depends) == [key |-> key, role |-> role, depends |-> depends]

\* The userspace packages ffmpeg may find, and their versions.
FfmpegAsked == {w \in Asks : w.node = "ffmpeg"}
LibNames == UNION {DOMAIN w.dep : w \in FfmpegAsked}
LibVersions == {0} \cup {w.dep[n] : w \in FfmpegAsked, n \in LibNames}
Sources == {w.src : w \in Asks}

\* What is compiled of w in a tree of source s where the packages l lie beside it.
BuiltWith(w, s, l) == IF w.node = "ffmpeg" THEN [w EXCEPT !.src = s, !.dep = l] ELSE [w EXCEPT !.src = s]
Depends(w) == IF w.node = "ffmpeg" THEN SUBSET RequiredRuntimeDepends(w.cfg) ELSE {{}}

\* What is asked of a stage.  A linked tree's runtime package is the first of its `links`, which
\* the key folds as a set: that the name of a tree settles it is asked of the layers.
ASSUME StagesAssumption ==
    /\ Sources \subseteq Nat /\ None \notin Sources /\ Torn \notin Sources /\ Torn # None
    /\ \A w \in Asks :
          /\ w = [node |-> w.node, src |-> w.src, cfg |-> w.cfg, dep |-> w.dep, tool |-> w.tool]
          /\ w.node \in {"uboot", "ffmpeg", "app"}
          /\ w.node = "uboot" => w.cfg.maskrom \in BOOLEAN
          /\ w.node = "ffmpeg" => w.dep \in [LibNames -> Nat] /\ {t.name : t \in w.cfg.trees} \subseteq LibNames
          /\ \A r \in Roles(w), d \in Depends(w), l \in [LibNames -> LibVersions] :
                Torn # Product(OutputKey(BuiltWith(w, w.src, l)), r, d)
    /\ \A w, v \in FfmpegAsked :
          \A t \in LinkedUserspace(w.cfg), o \in LinkedUserspace(v.cfg) : t.name = o.name => t.runtime = o.runtime
-----------------------------------------------------------------------------
(* A run                                                                   *)

\* A run that fails cleans up behind it (RestoreDir); one that is killed does not.
Over(room) ==
    /\ at' = "idle" /\ read' = None /\ handed' = {} /\ reused' = FALSE
    /\ restored' = room

BeginStage ==
    /\ at = "idle" /\ tries < MaxRuns
    /\ tries' = tries + 1 /\ read' = ask /\ restored' = <<>> /\ at' = "restore"
    /\ UNCHANGED <<ask, blobdir, shelved, mark, stree, reused, objs, dir, libs, handed, history>>

\* Mutant: u-boot's payloads are restored where the others restore theirs.
RestoreRoomOut(w) == "out"
\* Where restore_stage_outputs copies to: u-boot's names have no stem in the store.
RestoreRoom(w) == IF w.node = "uboot" THEN "own" ELSE "out"

\* restore_stage_outputs: a copy onto the final name, which a kill leaves half written.
RestoreBegins ==
    /\ at = "restore" /\ OutputKey(read) \in DOMAIN shelved
    /\ LET entry == shelved[OutputKey(read)]
           half == [f \in {FileOf(read, r) : r \in DOMAIN entry} |-> Torn] IN
       /\ dir' = IF RestoreRoom(read) = "out" THEN Onto(half, dir) ELSE dir
       /\ restored' = IF RestoreRoom(read) = "own" THEN [r \in DOMAIN entry |-> Torn] ELSE <<>>
    /\ at' = "restoring"
    /\ UNCHANGED <<ask, read, blobdir, shelved, mark, stree, reused, objs, libs, handed, tries, history>>
RestoreEnds ==
    /\ at = "restoring"
    /\ LET entry == shelved[OutputKey(read)]
           whole == [f \in {FileOf(read, r) : r \in DOMAIN entry} |-> entry[f.kind]] IN
       /\ dir' = IF RestoreRoom(read) = "out" THEN Onto(whole, dir) ELSE dir
       /\ restored' = IF RestoreRoom(read) = "own" THEN entry ELSE <<>>
       /\ handed' = IF RestoreRoom(read) = "out" THEN DOMAIN entry ELSE {}
    /\ at' = IF RestoreRoom(read) = "out" THEN "done" ELSE "republish"
    /\ UNCHANGED <<ask, read, blobdir, shelved, mark, stree, reused, objs, libs, tries, history>>

\* The payloads and the package are published, the USB images where the entry has all
\* three (maskrom_in).
RestoredRoles == IF Maskrom \subseteq DOMAIN restored THEN DOMAIN restored ELSE DOMAIN restored \ Maskrom
PublishRestored(r) ==
    /\ at = "republish" /\ IsNext(r, RestoredRoles \ handed)
    /\ dir' = Put(dir, FileOf(read, r), restored[r])
    /\ handed' = handed \cup {r}
    /\ UNCHANGED <<ask, read, blobdir, shelved, mark, stree, reused, objs, restored, libs, at, tries, history>>
PublishedRestored ==
    /\ at = "republish" /\ RestoredRoles \subseteq handed
    /\ at' = "done"
    /\ UNCHANGED <<ask, read, blobdir, shelved, mark, stree, reused, objs, restored, dir, libs, handed, tries, history>>

\* is_fresh, in reuse_or_refresh_tree: a tree is there and its stamp is the one asked for.
Fresh == stree # None /\ mark = read.src
Missed == at = "restore" /\ OutputKey(read) \notin DOMAIN shelved

\* A fresh tree is kept with what was compiled in it; a stale one is removed, its stamp left.
GateTree ==
    /\ Missed
    /\ IF Fresh
       THEN reused' = TRUE /\ at' = "deps" /\ UNCHANGED <<stree, objs>>
       ELSE reused' = FALSE /\ at' = "clone" /\ stree' = None /\ objs' = <<>>
    /\ UNCHANGED <<ask, read, blobdir, shelved, mark, restored, dir, libs, handed, tries, history>>
CloneTree ==
    /\ at = "clone"
    /\ stree' = read.src /\ at' = "stamp"
    /\ UNCHANGED <<ask, read, blobdir, shelved, mark, reused, objs, restored, dir, libs, handed, tries, history>>
StampTree ==
    /\ at = "stamp"
    /\ mark' = read.src /\ at' = "deps"
    /\ UNCHANGED <<ask, read, blobdir, shelved, stree, reused, objs, restored, dir, libs, handed, tries, history>>
\* A fetch or a patch that fails takes its tree with it.
CloneFails ==
    /\ at = "clone" /\ Over(<<>>)
    /\ UNCHANGED <<ask, blobdir, shelved, mark, stree, objs, dir, libs, tries, history>>
\* The removal stops half-way, with or without the objects in the tree; the clone is killed, or
\* what removes it after it failed is; the stamp is not written, or cut short and so none.
RefreshCut ==
    /\ \/ Missed /\ stree # None /\ ~Fresh /\ stree' = Torn /\ objs' \in {objs, <<>>} /\ UNCHANGED mark
       \/ at = "clone" /\ stree' = Torn /\ UNCHANGED <<mark, objs>>
       \/ at = "stamp" /\ mark' \in {mark, None} /\ UNCHANGED <<stree, objs>>
    /\ cut' = TRUE /\ Over(<<>>)
    /\ UNCHANGED <<ask, blobdir, shelved, dir, libs, tries, returned>>

\* verify_to refuses a blob that is not the pinned one; ensure_sdk and materialize_feed take
\* what has the pinned digest.  required_userspace_debs takes the highest of each package in
\* the output directory, where the userspace stage of the same build has left the pinned one,
\* and swept away the others if it compiled it.  ffmpeg and an app ask for theirs before the
\* tree is gated; a failure there is one more StageFails.
TakeDeps ==
    /\ at = "deps"
    /\ read.node = "uboot" => blobdir = read.dep
    /\ IF read.node = "ffmpeg"
       THEN \E swept \in SUBSET {t.name : t \in LinkedUserspace(read.cfg)} :
               libs' = [n \in LibNames |-> IF n \notin swept /\ libs[n] > read.dep[n] THEN libs[n] ELSE read.dep[n]]
       ELSE libs' = libs
    /\ at' = "configure"
    /\ UNCHANGED <<ask, read, blobdir, shelved, mark, stree, reused, objs, restored, dir, handed, tries, history>>

\* Mutant: the tree is configured as it was left.
ConfigureKeeps ==
    /\ at = "configure"
    /\ at' = "compile"
    /\ UNCHANGED <<ask, read, blobdir, shelved, mark, stree, reused, objs, restored, dir, libs, handed, tries, history>>
\* configure: a reused u-boot tree is cleaned; an app's old packages and ffmpeg's package
\* stage are removed.
ConfigureTree ==
    /\ at = "configure"
    /\ objs' = IF read.node # "uboot" \/ reused THEN <<>> ELSE objs
    /\ at' = "compile"
    /\ UNCHANGED <<ask, read, blobdir, shelved, mark, stree, reused, restored, dir, libs, handed, tries, history>>

\* u-boot's make leaves alone what is there; ffmpeg's and an app's are taken to remake what
\* changed, so nothing of theirs is kept.  What dpkg-shlibdeps resolves is up to what was linked.
MakeProducts ==
    /\ at = "compile"
    /\ \E depends \in Depends(read) :
          LET made == [r \in Made(read) |->
                          IF r \in DOMAIN objs /\ objs[r] # Torn THEN objs[r]
                          ELSE Product(OutputKey(BuiltWith(read, stree, libs)), r, depends)] IN
          objs' = Onto(made, objs)
    /\ at' = "collect"
    /\ UNCHANGED <<ask, read, blobdir, shelved, mark, stree, reused, restored, dir, libs, handed, tries, history>>
\* The compiler stops or is killed with some of its objects written.
MakeDies ==
    /\ at = "compile"
    /\ \E some \in SUBSET Made(read) :
          objs' = Onto([r \in Made(read) |->
                           IF r \notin some THEN Torn
                           ELSE IF r \in DOMAIN objs THEN objs[r]
                           ELSE Product(OutputKey(BuiltWith(read, stree, libs)), r, {})], objs)
    /\ Over(<<>>)
    /\ UNCHANGED <<ask, blobdir, shelved, mark, stree, dir, libs, tries, history>>

\* assert_userspace_depends, and the products collect looks for.
Collectable ==
    /\ read.node = "ffmpeg" => RequiredRuntimeDepends(read.cfg) \subseteq objs["deb"].depends
    /\ read.node = "uboot" => Payloads \subseteq DOMAIN objs /\ (Usb \cap DOMAIN objs # {} => Usb \subseteq DOMAIN objs)
\* package_deb puts the published payloads in the package: it is made of the older of them.
UbootDeb ==
    LET idb == dir[FileOf(read, "idbloader")]
        itb == dir[FileOf(read, "uboot_itb")] IN
    Product(IF idb.key = OutputKey(read) THEN itb.key ELSE idb.key, "deb", {})
\* pack_maskrom_loader joins the two.
Loader == Product(IF objs["usb471"].key = OutputKey(read) THEN objs["usb472"].key ELSE objs["usb471"].key, "maskrom_loader", {})

ToCollect ==
    IF read.node # "uboot" THEN {"deb"} ELSE Payloads \cup (IF Usb \subseteq DOMAIN objs THEN Maskrom ELSE {})

\* An app's earlier packages leave the output directory first (purge_stage_debs).
SweptDir == IF read.node = "app" THEN [f \in {f \in DOMAIN dir : f.kind # "deb"} |-> dir[f]] ELSE dir
CollectProduct(r) ==
    /\ at = "collect" /\ Collectable /\ IsNext(r, ToCollect \ handed)
    /\ dir' = Put(SweptDir, FileOf(read, r), IF r = "maskrom_loader" THEN Loader ELSE objs[r])
    /\ handed' = handed \cup {r}
    /\ UNCHANGED <<ask, read, blobdir, shelved, mark, stree, reused, objs, restored, libs, at, tries, history>>
PackageUboot ==
    /\ at = "collect" /\ read.node = "uboot" /\ ToCollect = handed
    /\ dir' = Put(dir, FileOf(read, "deb"), UbootDeb)
    /\ handed' = handed \cup {"deb"} /\ at' = "store"
    /\ UNCHANGED <<ask, read, blobdir, shelved, mark, stree, reused, objs, restored, libs, tries, history>>
Collected ==
    /\ at = "collect" /\ read.node # "uboot" /\ ToCollect = handed
    /\ at' = "store"
    /\ UNCHANGED <<ask, read, blobdir, shelved, mark, stree, reused, objs, restored, dir, libs, handed, tries, history>>

\* store_stage_outputs: the payloads out of the tree, the packages as they were published.
StoreOutputs ==
    /\ at = "store"
    /\ LET entry == [r \in handed |-> IF r \in Payloads \cup Usb THEN objs[r] ELSE dir[FileOf(read, r)]] IN
       shelved' = IF OutputKey(read) \in DOMAIN shelved THEN shelved ELSE Put(shelved, OutputKey(read), entry)
    /\ at' = "done"
    /\ UNCHANGED <<ask, read, blobdir, mark, stree, reused, objs, restored, dir, libs, handed, tries, history>>

EndStage ==
    /\ at = "done" /\ Over(<<>>)
    /\ UNCHANGED <<ask, blobdir, shelved, mark, stree, objs, dir, libs, tries, history>>
\* A step fails: a blob that is not the pinned one, a product that is missing, a full disk.
StageFails ==
    /\ at \in {"deps", "configure", "collect", "store", "republish", "restoring"} /\ Over(<<>>)
    /\ UNCHANGED <<ask, blobdir, shelved, mark, stree, objs, dir, libs, tries, history>>
\* A kill between two steps; RefreshCut and MakeDies are the ones inside a refresh and a compile.
KillStage ==
    /\ at \notin {"idle", "stamp", "compile"} /\ Over(restored)
    /\ UNCHANGED <<ask, blobdir, shelved, mark, stree, objs, dir, libs, tries, history>>

\* update, an edit of the layers, another toolchain, which a run that has read them does
\* not see; other firmware on the host, which verify_to copies away once.
Repinned ==
    /\ at = "idle" /\ ask' \in {w \in Asks : w.node = ask.node} \ {ask} /\ blobdir' = blobdir
    /\ returned' = (returned \/ ask'.src < ask.src \/ (ask.node = "ffmpeg" /\ \E n \in LibNames : ask'.dep[n] < libs[n]))
    /\ UNCHANGED <<read, shelved, mark, stree, reused, objs, restored, dir, libs, handed, at, tries, cut>>
OtherBlobs ==
    /\ at \in {"idle", "deps"} /\ ask.node = "uboot" /\ blobdir' \in BlobDirs \ {blobdir} /\ ask' = ask
    /\ UNCHANGED <<read, shelved, mark, stree, reused, objs, restored, dir, libs, handed, at, tries, history>>

\* A work directory is new, or as a build of the same lock left it; the store may have been
\* cleaned since, or be filled by the builds of a directory that is gone.
EarlierProducts(roles) ==
    [r \in roles |-> Product(OutputKey(ask), r, IF ask.node = "ffmpeg" THEN RequiredRuntimeDepends(ask.cfg) ELSE {})]
StagesInit ==
    /\ ask \in {w \in Asks : \A v \in Asks : v.node = w.node => w.src <= v.src}
    /\ blobdir \in IF ask.node = "uboot" THEN BlobDirs ELSE {CHOOSE b \in BlobDirs : TRUE}
    /\ \E built, stored \in BOOLEAN :
          /\ shelved = IF stored THEN [k \in {OutputKey(ask)} |-> EarlierProducts(Roles(ask))] ELSE <<>>
          /\ mark = IF built THEN ask.src ELSE None
          /\ stree = IF built THEN ask.src ELSE None
          /\ objs = IF built THEN EarlierProducts(Made(ask)) ELSE <<>>
          /\ dir = IF built THEN [f \in {FileOf(ask, r) : r \in Roles(ask)} |-> EarlierProducts(Roles(ask))[f.kind]] ELSE <<>>
          /\ libs = [n \in LibNames |-> IF built /\ ask.node = "ffmpeg" THEN ask.dep[n] ELSE 0]
    /\ read = None /\ reused = FALSE /\ restored = <<>>
    /\ handed = {} /\ at = "idle" /\ tries = 0
    /\ cut = FALSE /\ returned = FALSE

StagesNext ==
    \/ BeginStage \/ RestoreBegins \/ RestoreEnds \/ PublishedRestored
    \/ \E r \in Payloads \cup Maskrom \cup {"deb"} : PublishRestored(r) \/ CollectProduct(r)
    \/ GateTree \/ CloneTree \/ StampTree \/ CloneFails \/ RefreshCut \/ TakeDeps \/ ConfigureTree \/ MakeProducts \/ MakeDies
    \/ PackageUboot \/ Collected \/ StoreOutputs \/ EndStage \/ StageFails \/ KillStage \/ Repinned \/ OtherBlobs

StagesSpec == StagesInit /\ [][StagesNext]_stageVars

StagesTypeOK ==
    /\ ask \in Asks /\ blobdir \in BlobDirs /\ tries \in 0..MaxRuns
    /\ mark \in Sources \cup {None} /\ stree \in Sources \cup {None, Torn}
    /\ libs \in [LibNames -> LibVersions]
    /\ DOMAIN restored \subseteq Payloads \cup Maskrom \cup {"deb"}
    /\ handed \subseteq Payloads \cup Maskrom \cup {"deb"}
    /\ at \in {"idle", "restore", "restoring", "republish", "clone", "stamp", "deps", "configure", "compile",
               "collect", "store", "done"}
    /\ (at = "idle") = (read = None)
    /\ cut \in BOOLEAN /\ returned \in BOOLEAN
-----------------------------------------------------------------------------
\* Product f is of the build key names; ffmpeg may have been linked with other libraries once an
\* edit has gone behind one that is there.
OfKey(f, key) ==
    \/ f.key = key
    \/ returned /\ key.node = "ffmpeg" /\ f.key = [key EXCEPT !.dep = f.key.dep]

\* What the store serves under a key was made from what the key names, all of it and
\* nothing else; a run that succeeds has handed over the products of one build, the one it
\* read, each whole and under its own name; ffmpeg's package depends on every library it was
\* configured with; and a bootloader in the output directory is a whole one whenever its
\* stage was killed.  Unless a refresh of the tree was cut short and a pin has gone back.
HandsOverOneBuild ==
    \/ cut /\ returned
    \/ /\ \A k \in DOMAIN shelved : \A r \in DOMAIN shelved[k] : OfKey(shelved[k][r], k) /\ shelved[k][r].role = r
       /\ at = "done" =>
             /\ handed = Roles(read)
             /\ \A r \in handed :
                   LET f == dir[FileOf(read, r)] IN
                   /\ f # Torn /\ OfKey(f, OutputKey(read)) /\ f.role = r
                   /\ read.node = "ffmpeg" => RequiredRuntimeDepends(read.cfg) \subseteq f.depends
       /\ ask.node = "uboot" => \A f \in DOMAIN dir : dir[f] # Torn
=============================================================================
