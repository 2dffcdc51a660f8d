------------------------------ MODULE Pipeline ------------------------------
(***************************************************************************)
(* `boot2deb build` of one build point (cli/src/commands/build.rs): the     *)
(* record it keeps (core/src/buildrecord.rs), its nodes in order, the       *)
(* ledger of .debs the local repository is made from (cli/src/artifacts.rs) *)
(* and the files that outlive a run in the output directory.               *)
(*                                                                         *)
(* A compile node is seen through what its own module shows: it stages the *)
(* .deb of the pin it was asked for. The exception is ffmpeg, which links  *)
(* against files of the output directory and is modelled with its store.   *)
(***************************************************************************)
EXTENDS Naturals, FiniteSets

CONSTANTS
    Debs,       \* the nodes of this build that stage a .deb
    Vers,       \* versions a pin can name, ordered as dpkg orders them
    Pinnings,   \* what `update` may pin, for every node
    Mirrors,    \* states of the Debian mirror
    None,
    Torn,       \* a file whose writing was cut short
    Selections, \* the values of --stage the operator uses
    Reverts,    \* may an update return to a lower version?
    Faults,     \* what happens to a run: "error", "kill"
    MaxRuns     \* bound: how many runs a behaviour has

\* The build graph, in order.
Rank(n) ==
    CASE n = "kernel" -> 1 [] n = "kmod" -> 2 [] n = "uboot" -> 3 [] n = "userspace" -> 4
      [] n = "ffmpeg" -> 5 [] n = "app" -> 6 [] n = "rootfs" -> 7 [] n = "image" -> 8
Nodes == Debs \cup {"uboot", "rootfs", "image"}

\* The nodes of this build that --stage sel runs.
Selected(sel) == {n \in Nodes : sel \in {n, "all"}}

\* A .deb: its package, its version and the version of what it was built against:
\* the kernel for a module, the userspace libraries for ffmpeg.
Deb == [pkg: Debs \cup {"uboot"}, ver: Vers, against: Vers \cup {0}]

\* The file name holds the version, and for a module the kernel release too.
SameFile(d, e) == d.pkg = e.pkg /\ d.ver = e.ver /\ (d.pkg = "kmod" => d.against = e.against)
NameOf(d) == [d EXCEPT !.against = IF d.pkg = "kmod" THEN d.against ELSE 0]

\* A solved rootfs: the installed .deb of every package of ours and the mirror's
\* share. The plan, the tar and the solved manifest of one run all describe one.
Rootfs == [debs: [Debs -> Deb \cup {None}], mirror: Mirrors]

\* What a run was started with: the lock as read, and its flags.
Asked == [pins: Pinnings, solved: Rootfs \cup {None}, flag: {"none", "save", "drift"}]

\* <stem>.build.toml, the image with its password, and the provenance document.
Records == [stage: Selections, outcome: {"running", "succeeded", "failed"}]
Images == [root: Rootfs, boot: [idb: Vers, itb: Vers], pw: 1..MaxRuns]
Provs == [manifest: Rootfs, plan: Rootfs, pins: Pinnings, pw: 1..MaxRuns]

ASSUME PipelineAssumption ==
    /\ Debs \subseteq {"kernel", "kmod", "userspace", "ffmpeg", "app"}
    /\ "kernel" \in Debs
    /\ "ffmpeg" \in Debs => "userspace" \in Debs
    /\ Vers \subseteq Nat \ {0}
    /\ Pinnings \subseteq [Debs \cup {"uboot"} -> Vers] /\ Pinnings # {}
    /\ Selections \subseteq Debs \cup {"uboot", "rootfs", "image", "all"}
    /\ Reverts \in BOOLEAN
    /\ Faults \subseteq {"error", "kill"}
    /\ MaxRuns \in Nat
    /\ None \notin Vers \cup Mirrors \cup Deb \cup Rootfs \cup Asked \cup Records \cup Images \cup Provs
    /\ Torn \notin Rootfs \cup Images \cup Provs \cup {None}

\* The .deb of node p at these pins.
PinnedDeb(pins, p) ==
    [pkg |-> p, ver |-> pins[p],
     against |-> CASE p = "kmod" -> pins["kernel"]
                   [] p = "ffmpeg" -> pins["userspace"]
                   [] OTHER -> 0]

VARIABLES
    lock,      \* pins, and the solved manifest the lock pins
    committed, \* the manifest committed beside the lock
    mirror,
    record,    \* <stem>.build.toml
    out,       \* the .debs in the output directory
    ledger,    \* the names recorded in .boot2deb-artifacts
    fstore,    \* fstore[v][u]: ffmpeg v stored under the key that folds userspace u
    payload,   \* the two bootloader payloads
    plan, tar, manifest, image, prov,
    asked,     \* what the newest run was started with
    pc, todo,  \* where the run is, and the nodes it still has to run
    staged,    \* the .debs the node under way has staged, not yet recorded
    built,     \* the kernel and module .debs of this run
    sol,       \* the rootfs this run solved
    imaged,    \* has this run assembled an image?
    runs

conf == <<lock, committed, mirror>>
files == <<out, ledger, payload, plan, tar, manifest, image, prov>>
mem == <<todo, staged, built, sol, imaged>>
vars == <<conf, record, files, fstore, asked, pc, mem, runs>>

TypeOK ==
    /\ lock \in [pins: Pinnings, solved: Rootfs \cup {None}]
    /\ committed \in Rootfs \cup {None}
    /\ mirror \in Mirrors
    /\ record \in Records \cup {None}
    /\ out \in SUBSET Deb
    /\ ledger \in SUBSET Deb
    /\ fstore \in [Vers -> [Vers -> Vers \cup {None}]]
    /\ payload \in [idb: Vers \cup {None}, itb: Vers \cup {None}]
    /\ plan \in Rootfs \cup {None} /\ manifest \in Rootfs \cup {None}
    /\ tar \in Rootfs \cup {None, Torn}
    /\ image \in Images \cup {None, Torn}
    /\ prov \in Provs \cup {None, Torn}
    /\ asked \in Asked \cup {None}
    /\ pc \in {"idle", "preflight", "node", "record", "tar", "manifest", "drift", "save", "lock",
               "end"}
    /\ todo \in SUBSET Nodes
    /\ staged \in SUBSET Deb
    /\ built \in SUBSET Deb
    /\ sol \in Rootfs \cup {None}
    /\ imaged \in BOOLEAN
    /\ runs \in 0..MaxRuns

Forget ==
    /\ pc' = "idle"
    /\ todo' = {} /\ staged' = {} /\ built' = {} /\ sol' = None /\ imaged' = FALSE

\* A fresh checkout: the lock pins no solved manifest, or one that is committed with it.
Init ==
    /\ \E pins \in Pinnings, m \in Mirrors \cup {None} :
          /\ committed = IF m = None THEN None
                         ELSE [debs |-> [p \in Debs |-> PinnedDeb(pins, p)], mirror |-> m]
          /\ lock = [pins |-> pins, solved |-> committed]
    /\ mirror \in Mirrors
    /\ record = None
    /\ out = {} /\ ledger = {}
    /\ fstore = [v \in Vers |-> [u \in Vers |-> None]]
    /\ payload = [idb |-> None, itb |-> None]
    /\ plan = None /\ tar = None /\ manifest = None /\ image = None /\ prov = None
    /\ asked = None
    /\ pc = "idle" /\ todo = {} /\ staged = {} /\ built = {} /\ sol = None /\ imaged = FALSE
    /\ runs = 0

(***************************************************************************)
(* What happens around a run.                                              *)
(***************************************************************************)
\* `update` writes a fresh lock, which pins no solved manifest.
Update(p) ==
    /\ p # lock.pins
    /\ Reverts \/ \A n \in DOMAIN p : p[n] >= lock.pins[n]
    /\ lock' = [pins |-> p, solved |-> None]
    /\ UNCHANGED <<committed, mirror, record, files, fstore, asked, pc, mem, runs>>

MirrorMoves(m) ==
    /\ m # mirror
    /\ mirror' = m
    /\ UNCHANGED <<lock, committed, record, files, fstore, asked, pc, mem, runs>>

(***************************************************************************)
(* Admission, refusal and the end of a run.                                *)
(***************************************************************************)
Settle(outcome) == record' = [record EXCEPT !.outcome = outcome]

\* Mutant: the record is left as it is until the run ends.
AdmitUnrecorded(sel, flag) ==
    /\ pc = "idle" /\ runs < MaxRuns
    /\ asked' = [pins |-> lock.pins, solved |-> lock.solved, flag |-> flag]
    /\ record' = IF record = None THEN [stage |-> sel, outcome |-> "running"] ELSE record
    /\ runs' = runs + 1
    /\ todo' = Selected(sel)
    /\ pc' = "preflight"
    /\ UNCHANGED <<conf, files, fstore, staged, built, sol, imaged>>

\* The lock is read once; the record says "running" before anything else is written.
Admit(sel, flag) ==
    /\ pc = "idle" /\ runs < MaxRuns
    /\ asked' = [pins |-> lock.pins, solved |-> lock.solved, flag |-> flag]
    /\ record' = [stage |-> sel, outcome |-> "running"]
    /\ runs' = runs + 1
    /\ todo' = Selected(sel)
    /\ pc' = "preflight"
    /\ UNCHANGED <<conf, files, fstore, staged, built, sol, imaged>>

\* The run ends in an error that was returned: the record says so.
Fails ==
    /\ Settle("failed")
    /\ Forget
    /\ UNCHANGED <<asked, runs>>

\* A pinned solved manifest has to be the committed one.
PreflightOk ==
    \/ asked.flag = "save"
    \/ asked.solved = None
    \/ committed = asked.solved

Preflight ==
    /\ pc = "preflight" /\ PreflightOk
    /\ pc' = "node"
    /\ UNCHANGED <<conf, record, files, fstore, asked, mem, runs>>

Refuse ==
    /\ pc = "preflight" /\ ~PreflightOk
    /\ Fails
    /\ UNCHANGED <<conf, files, fstore>>

\* A run cut short: by an error it returns, which the record notes unless it is the
\* record that cannot be written, or by a kill, which leaves it saying "running".
CutShort ==
    /\ \/ "error" \in Faults /\ pc # "end" /\ Settle("failed")
       \/ "kill" \in Faults /\ UNCHANGED record
    /\ Forget
    /\ UNCHANGED <<asked, runs>>

\* Cut short between two writes.
Stop ==
    /\ pc # "idle"
    /\ CutShort
    /\ UNCHANGED <<conf, files, fstore>>

End ==
    /\ pc = "end"
    /\ Settle("succeeded")
    /\ Forget
    /\ UNCHANGED <<conf, files, fstore, asked, runs>>

(***************************************************************************)
(* The compile nodes.                                                      *)
(***************************************************************************)
First(n) == n \in todo /\ \A m \in todo : Rank(n) <= Rank(m)
At(n) == pc = "node" /\ First(n)
NodeDone == pc' = "node" /\ todo' = {n \in todo : ~First(n)}

\* The .deb a node is asked for.
DebOf(p) == PinnedDeb(asked.pins, p)

\* The .debs node p leaves in the output directory when it stages its own: userspace
\* sweeps its packages on every collect, an app only when it compiled, the others never.
Kept(p, hit) ==
    IF p = "userspace" \/ (p = "app" /\ ~hit) THEN {d \in out : d.pkg # p} ELSE out

Placed(debs, d) == {e \in debs : ~SameFile(d, e)} \cup {d}

\* Restore (hit) or compile, and stage. Every build point shares the artifact store, so a
\* hit needs no earlier run of this one.
StageDebs(p) ==
    /\ p # "ffmpeg" /\ At(p)
    /\ \E hit \in BOOLEAN : out' = Placed(Kept(p, hit), DebOf(p))
    /\ staged' = {DebOf(p)}
    /\ pc' = "record"
    /\ UNCHANGED <<conf, record, ledger, payload, plan, tar, manifest, image, prov, fstore, asked,
                   todo, built, sol, imaged, runs>>

\* Cut short between the sweep and the copy.
StageDebsCut(p) ==
    /\ p # "ffmpeg" /\ At(p)
    /\ \E hit \in BOOLEAN : out' = Kept(p, hit)
    /\ CutShort
    /\ UNCHANGED <<conf, ledger, payload, plan, tar, manifest, image, prov, fstore>>

\* required_userspace_debs: the highest version in the output directory, recorded or not.
Linked == {d \in out : d.pkg = "userspace" /\ \A e \in out : e.pkg = "userspace" => e.ver <= d.ver}

\* ffmpeg's key folds the userspace pins; a compile links what the directory holds.
StageFfmpeg ==
    /\ At("ffmpeg")
    /\ LET v == asked.pins["ffmpeg"]
           u == asked.pins["userspace"]
           stored == fstore[v][u]
       IN \E a \in IF stored # None THEN {stored} ELSE {d.ver : d \in Linked} :
            LET deb == [pkg |-> "ffmpeg", ver |-> v, against |-> a]
            IN /\ out' = Placed(out, deb)
               /\ staged' = {deb}
               /\ fstore' = [fstore EXCEPT ![v][u] = a]
    /\ pc' = "record"
    /\ UNCHANGED <<conf, record, ledger, payload, plan, tar, manifest, image, prov, asked, todo,
                   built, sol, imaged, runs>>

FfmpegLacksUserspace ==
    /\ At("ffmpeg")
    /\ fstore[asked.pins["ffmpeg"]][asked.pins["userspace"]] = None /\ Linked = {}
    /\ Fails
    /\ UNCHANGED <<conf, files, fstore>>

\* record_artifacts adds the staged names; the run remembers its kernel and modules.
RecordArtifacts ==
    /\ pc = "record"
    /\ ledger' = ledger \cup {NameOf(d) : d \in staged}
    /\ built' = built \cup {d \in staged : d.pkg \in {"kernel", "kmod"}}
    /\ staged' = {}
    /\ NodeDone
    /\ UNCHANGED <<conf, record, out, payload, plan, tar, manifest, image, prov, fstore, asked, sol,
                   imaged, runs>>

\* Cut short while the ledger is rewritten in place.
RecordCut ==
    /\ pc = "record"
    /\ ledger' = {}
    /\ CutShort
    /\ UNCHANGED <<conf, out, payload, plan, tar, manifest, image, prov, fstore>>

\* The payloads are published one after the other, then the .deb.
StageUboot ==
    /\ At("uboot")
    /\ payload' = [idb |-> asked.pins["uboot"], itb |-> asked.pins["uboot"]]
    /\ out' = Placed(out, DebOf("uboot"))
    /\ staged' = {DebOf("uboot")}
    /\ pc' = "record"
    /\ UNCHANGED <<conf, record, ledger, plan, tar, manifest, image, prov, fstore, asked, todo,
                   built, sol, imaged, runs>>

StageUbootCut ==
    /\ At("uboot")
    /\ payload' = [payload EXCEPT !.idb = asked.pins["uboot"]]
    /\ CutShort
    /\ UNCHANGED <<conf, out, ledger, plan, tar, manifest, image, prov, fstore>>

(***************************************************************************)
(* rootfs_stage and build_rootfs.                                          *)
(***************************************************************************)
\* ledger_debs: the recorded .debs that exist.
LedgerDebs == {d \in out : NameOf(d) \in ledger}

\* Mutant: the repository is the whole ledger.
RepoUnscoped == LedgerDebs

\* scope_repo_to_current_artifacts drops other versions of this run's kernel and modules.
\* (A module of another kernel release stays in the repository, but only this run's are
\* named for installation.)
Repo == {d \in LedgerDebs : \A b \in built : b.pkg = d.pkg => SameFile(b, d)}

\* kernel_packages and kmod_packages refuse a directory that holds two kernels, or
\* modules for two, unless this run built its own.
BuiltHere(p) == \E b \in built : b.pkg = p
Ambiguous ==
    \/ ~BuiltHere("kernel") /\ Cardinality({d.ver : d \in {e \in Repo : e.pkg = "kernel"}}) > 1
    \/ ~BuiltHere("kmod") /\ Cardinality({d.against : d \in {e \in Repo : e.pkg = "kmod"}}) > 1

Candidates(p) == {d \in Repo : d.pkg = p /\ \A e \in Repo : e.pkg = p => e.ver <= d.ver}

\* The resolved set names userspace, ffmpeg and the apps; the kernel and its modules
\* are named only as far as the repository has them.
Resolvable ==
    /\ LedgerDebs # {}
    /\ ~Ambiguous
    /\ \A p \in Debs \ {"kernel", "kmod"} : Candidates(p) # {}

\* The highest version of every package is what is installed.
ResolvePlan ==
    /\ At("rootfs") /\ Resolvable
    /\ sol' = [debs |-> [p \in Debs |-> IF Candidates(p) = {} THEN None
                                        ELSE CHOOSE d \in Candidates(p) : TRUE],
               mirror |-> mirror]
    /\ plan' = sol'
    /\ pc' = "tar"
    /\ UNCHANGED <<conf, record, out, ledger, payload, tar, manifest, image, prov, fstore, asked,
                   todo, staged, built, imaged, runs>>

CannotResolve ==
    /\ At("rootfs") /\ ~Resolvable
    /\ Fails
    /\ UNCHANGED <<conf, files, fstore>>

\* The tar is exported, or copied from the rootfs cache, onto its final name.
ExportTar ==
    /\ pc = "tar"
    /\ tar' = sol
    /\ pc' = "manifest"
    /\ UNCHANGED <<conf, record, out, ledger, payload, plan, manifest, image, prov, fstore, asked,
                   mem, runs>>

ExportTarCut ==
    /\ pc = "tar"
    /\ tar' = Torn
    /\ CutShort
    /\ UNCHANGED <<conf, out, ledger, payload, plan, manifest, image, prov, fstore>>

WriteManifest ==
    /\ pc = "manifest"
    /\ manifest' = sol
    /\ pc' = "drift"
    /\ UNCHANGED <<conf, record, out, ledger, payload, plan, tar, image, prov, fstore, asked, mem,
                   runs>>

Drifted == asked.flag = "none" /\ asked.solved # None /\ asked.solved # sol

\* A solve that does not reproduce the pin is refused, after its files are published.
CheckDrift ==
    /\ pc = "drift"
    /\ IF Drifted
         THEN Fails /\ UNCHANGED <<conf, files, fstore>>
         ELSE NodeDone /\ UNCHANGED <<conf, record, files, fstore, asked, staged, built, sol,
                                      imaged, runs>>

(***************************************************************************)
(* image_stage, build_image and write_provenance.                          *)
(***************************************************************************)
\* Mutant: any tar that exists is formatted.
AssemblableUnchecked == tar # None /\ payload.idb # None /\ payload.itb # None

\* validate_tar accepts a whole tar only, and both payloads have to be there.
Assemblable == tar \notin {None, Torn} /\ payload.idb # None /\ payload.itb # None

\* Every image gets a password of its own: the number of the run stands for it.
AssembleImage ==
    /\ At("image") /\ Assemblable
    /\ image' = [root |-> tar, boot |-> payload, pw |-> runs]
    /\ imaged' = TRUE
    /\ NodeDone
    /\ UNCHANGED <<conf, record, out, ledger, payload, plan, tar, manifest, prov, fstore, asked,
                   staged, built, sol, runs>>

AssembleImageCut ==
    /\ At("image") /\ Assemblable
    /\ image' = Torn
    /\ CutShort
    /\ UNCHANGED <<conf, out, ledger, payload, plan, tar, manifest, prov, fstore>>

CannotAssemble ==
    /\ At("image") /\ ~Assemblable
    /\ Fails
    /\ UNCHANGED <<conf, files, fstore>>

NodesDone == pc = "node" /\ todo = {}

\* Mutant: a provenance document that is already there is kept.
WriteProvenanceKeeps ==
    /\ NodesDone
    /\ prov' = CASE ~imaged \/ prov # None -> prov
                 [] imaged /\ manifest = None -> None
                 [] OTHER -> [manifest |-> manifest, plan |-> plan, pins |-> asked.pins,
                              pw |-> image.pw]
    /\ pc' = "save"
    /\ UNCHANGED <<conf, record, out, ledger, payload, plan, tar, manifest, image, fstore, asked,
                   mem, runs>>

\* A run without an image writes no provenance. With one, the document is made from the
\* manifest and the plan the directory holds, and removed when there is no manifest.
WriteProvenance ==
    /\ NodesDone
    /\ prov' = CASE ~imaged -> prov
                 [] imaged /\ manifest = None -> None
                 [] OTHER -> [manifest |-> manifest, plan |-> plan, pins |-> asked.pins,
                              pw |-> image.pw]
    /\ pc' = "save"
    /\ UNCHANGED <<conf, record, out, ledger, payload, plan, tar, manifest, image, fstore, asked,
                   mem, runs>>

ProvenanceCut ==
    /\ NodesDone /\ imaged /\ manifest # None
    /\ prov' = Torn
    /\ CutShort
    /\ UNCHANGED <<conf, out, ledger, payload, plan, tar, manifest, image, fstore>>

\* --save-manifest commits the manifest this run solved, then writes the lock it read
\* with the new pin.
CommitManifest ==
    /\ pc = "save" /\ asked.flag = "save" /\ sol # None
    /\ committed' = manifest
    /\ pc' = "lock"
    /\ UNCHANGED <<lock, mirror, record, files, fstore, asked, mem, runs>>

NothingToCommit ==
    /\ pc = "save" /\ asked.flag = "save" /\ sol = None
    /\ Fails
    /\ UNCHANGED <<conf, files, fstore>>

SaveNothing ==
    /\ pc = "save" /\ asked.flag # "save"
    /\ pc' = "end"
    /\ UNCHANGED <<conf, record, files, fstore, asked, mem, runs>>

WriteLock ==
    /\ pc = "lock"
    /\ lock' = [pins |-> asked.pins, solved |-> sol]
    /\ pc' = "end"
    /\ UNCHANGED <<committed, mirror, record, files, fstore, asked, mem, runs>>

-----------------------------------------------------------------------------
Next ==
    \/ \E p \in Pinnings : Update(p)
    \/ \E m \in Mirrors : MirrorMoves(m)
    \/ \E sel \in Selections, flag \in {"none", "save", "drift"} : Admit(sel, flag)
    \/ Preflight \/ Refuse \/ Stop \/ End
    \/ \E p \in Debs : StageDebs(p) \/ StageDebsCut(p)
    \/ StageFfmpeg \/ FfmpegLacksUserspace \/ RecordArtifacts \/ RecordCut
    \/ StageUboot \/ StageUbootCut
    \/ ResolvePlan \/ CannotResolve \/ ExportTar \/ ExportTarCut \/ WriteManifest \/ CheckDrift
    \/ AssembleImage \/ AssembleImageCut \/ CannotAssemble \/ WriteProvenance \/ ProvenanceCut
    \/ CommitManifest \/ NothingToCommit \/ SaveNothing \/ WriteLock

Spec == Init /\ [][Next]_vars
-----------------------------------------------------------------------------
\* vouches_for_image: only a whole build that succeeded.
Vouches == record # None /\ record.stage = "all" /\ record.outcome = "succeeded"

\* An image the record vouches for holds the kernel, the modules, the userspace and the
\* bootloader its lock pinned, and the solved set the lock pinned unless drift was
\* allowed, whatever earlier runs left in the directory.
VouchedImageIsAsked ==
    Vouches =>
        /\ image \notin {None, Torn}
        /\ \A p \in Debs \cap {"kernel", "kmod", "userspace"} : image.root.debs[p] = DebOf(p)
        /\ image.boot = [idb |-> asked.pins["uboot"], itb |-> asked.pins["uboot"]]
        /\ asked.flag = "none" /\ asked.solved # None => image.root = asked.solved

\* An image the record vouches for is described by the provenance beside it: its
\* solved manifest, its plan, its pins and the password it was given.
VouchedImageIsDescribed ==
    Vouches => prov = [manifest |-> image.root, plan |-> image.root, pins |-> asked.pins,
                       pw |-> image.pw]

\* A whole build ships what it was asked for from every node it ran: "When a stage ran
\* this run its exact version is authoritative".
VouchedImageIsCurrent == Vouches => \A p \in Debs : image.root.debs[p] = DebOf(p)

\* An ffmpeg stored under a key that folds userspace u links userspace u: "A change to a
\* userspace pin [...] must invalidate the cached deb rather than restore a stale one."
FfmpegStoreHonest == \A v, u \in Vers : fstore[v][u] \in {None, u}

\* The directory changes only while the record says a build is running, so a check that
\* reads a vouching record reads files no run is writing.
NothingMovesUnderAVouch == [][files' # files => record # None /\ record.outcome = "running"]_vars
=============================================================================
