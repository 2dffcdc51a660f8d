--------------------------- MODULE PipelineProofs ---------------------------
(***************************************************************************)
(* What `boot2deb build` guarantees for every set of nodes, versions, pins *)
(* and mirrors and every number of runs: an image the record vouches for   *)
(* is what its run was asked for and what the provenance beside it says,   *)
(* and nothing in the directory moves under a vouch.                       *)
(*                                                                         *)
(* The invariant follows a whole build node by node: what a node that is   *)
(* done has left in the directory, the ledger and the run's memory, and    *)
(* that no later node of the same run takes it away.                       *)
(***************************************************************************)
EXTENDS Pipeline, TLAPS

Memory == {"kernel", "kmod"}
Boot(v) == [idb |-> v, itb |-> v]

\* Only modules and ffmpeg are built against something.
DirInv == \A d \in out : d.pkg \notin {"kmod", "ffmpeg"} => d.against = 0

\* The record of a run under way, and what a run that is over has forgotten.
RecordInv ==
    /\ IF pc = "idle" THEN built = {} ELSE record \in Records /\ record.outcome = "running"
    /\ pc # "idle" => asked \in Asked /\ runs \in 1..MaxRuns
    /\ pc \in {"tar", "manifest", "drift"} => sol \in Rootfs /\ plan = sol
    /\ pc = "lock" => sol \in Rootfs
    /\ manifest # None => plan # None
    /\ imaged => image \in Images

\* What node n has staged and not recorded.
StagedBy(n) ==
    /\ First(n)
    /\ n # "ffmpeg" => staged = {DebOf(n)} /\ DebOf(n) \in out
    /\ n = "ffmpeg" => \A d \in staged : d.pkg = "ffmpeg"
    /\ n = "userspace" => {d \in out : d.pkg = "userspace"} = {DebOf(n)}
    /\ n = "uboot" => payload = Boot(asked.pins["uboot"])

\* What a kernel, kmod or userspace node that is done has left.
DebDone(p) ==
    /\ DebOf(p) \in out /\ NameOf(DebOf(p)) \in ledger
    /\ p \in Memory => DebOf(p) \in built
    /\ p = "userspace" => {d \in out : d.pkg = p} = {DebOf(p)}

SolvedIsAsked == sol \in Rootfs /\ \A p \in Debs \cap {"kernel", "kmod", "userspace"} : sol.debs[p] = DebOf(p)

\* A run of every node, by what it has done.
TodoInv == "image" \notin todo => todo = {}
BuiltInv == built \subseteq {DebOf(p) : p \in Debs \cap Memory}
StagedInv == pc = "record" => \E n \in Debs \cup {"uboot"} : StagedBy(n)
DebsInv == \A p \in Debs \cap {"kernel", "kmod", "userspace"} : p \notin todo => DebDone(p)
UbootInv == "uboot" \notin todo => payload = Boot(asked.pins["uboot"])
RootfsInv ==
    /\ pc \in {"tar", "manifest", "drift"} => First("rootfs")
    /\ pc \in {"tar", "manifest", "drift"} \/ "rootfs" \notin todo => SolvedIsAsked /\ plan = sol
    /\ pc \in {"manifest", "drift"} \/ "rootfs" \notin todo => tar = sol
    /\ pc = "drift" \/ "rootfs" \notin todo => manifest = sol
    /\ "rootfs" \notin todo => ~Drifted
ImageInv == "image" \notin todo => imaged /\ image.root = sol /\ image.boot = payload
EndInv ==
    pc \in {"save", "lock", "end"} =>
        /\ todo = {}
        /\ prov = [manifest |-> image.root, plan |-> image.root, pins |-> asked.pins, pw |-> image.pw]

WholeInv == TodoInv /\ BuiltInv /\ StagedInv /\ DebsInv /\ UbootInv /\ RootfsInv /\ ImageInv /\ EndInv

PipeInv ==
    /\ TypeOK /\ DirInv /\ RecordInv
    /\ pc # "idle" /\ record.stage = "all" => WholeInv
    /\ VouchedImageIsAsked /\ VouchedImageIsDescribed
-----------------------------------------------------------------------------
LEMMA PinnedFacts ==
    ASSUME NEW pins \in Pinnings, NEW p \in Debs \cup {"uboot"}
    PROVE  /\ PinnedDeb(pins, p) \in Deb /\ PinnedDeb(pins, p).pkg = p /\ PinnedDeb(pins, p).ver = pins[p]
           /\ p \notin {"kmod", "ffmpeg"} => PinnedDeb(pins, p).against = 0
           /\ pins[p] \in Vers
  <1>1. /\ pins \in [Debs \cup {"uboot"} -> Vers] /\ "kernel" \in Debs
        /\ "ffmpeg" \in Debs => "userspace" \in Debs
    BY PipelineAssumption
  <1>2. pins[p] \in Vers /\ pins["kernel"] \in Vers /\ (p = "ffmpeg" => pins["userspace"] \in Vers)
    BY <1>1
  <1> DEFINE a == CASE p = "kmod" -> pins["kernel"] [] p = "ffmpeg" -> pins["userspace"] [] OTHER -> 0
  <1>3. a \in Vers \cup {0} /\ (p \notin {"kmod", "ffmpeg"} => a = 0)
    BY <1>2
  <1>4. PinnedDeb(pins, p) = [pkg |-> p, ver |-> pins[p], against |-> a]
    BY DEF PinnedDeb
  <1> HIDE DEF a
  <1> QED BY <1>2, <1>3, <1>4 DEF Deb

LEMMA AskedFacts ==
    ASSUME asked \in Asked
    PROVE  /\ asked.pins \in Pinnings /\ asked.solved \in Rootfs \cup {None}
           /\ \A p \in Debs \cup {"uboot"} :
                 /\ DebOf(p) \in Deb /\ DebOf(p).pkg = p /\ DebOf(p).ver = asked.pins[p] /\ asked.pins[p] \in Vers
                 /\ p \notin {"kmod", "ffmpeg"} => DebOf(p).against = 0
  <1>1. asked.pins \in Pinnings /\ asked.solved \in Rootfs \cup {None}
    BY DEF Asked
  <1> QED BY <1>1, PinnedFacts DEF DebOf

\* The nodes are run in the order of their ranks, one at a time.
LEMMA FirstFacts ==
    ASSUME todo \in SUBSET Nodes
    PROVE  /\ \A n, m \in Nodes : First(n) /\ First(m) => n = m
           /\ First("rootfs") => {"kernel", "kmod", "uboot", "userspace"} \cap todo = {} /\ "image" \in Nodes
           /\ First("image") => todo = {"image"}
  <1>1. Nodes \subseteq {"kernel", "kmod", "uboot", "userspace", "ffmpeg", "app", "rootfs", "image"} /\ "image" \in Nodes
    BY PipelineAssumption DEF Nodes
  <1>2. \A n, m \in Nodes : Rank(n) \in Nat /\ (Rank(n) = Rank(m) => n = m)
    BY <1>1 DEF Rank
  <1>3. ASSUME NEW n \in Nodes, NEW m \in Nodes, First(n), First(m) PROVE n = m
    <2>1. Rank(n) <= Rank(m) /\ Rank(m) <= Rank(n) /\ Rank(n) \in Nat /\ Rank(m) \in Nat
      BY <1>2, <1>3 DEF First
    <2> QED BY <1>2, <2>1
  <1>4. Rank("kernel") = 1 /\ Rank("kmod") = 2 /\ Rank("uboot") = 3 /\ Rank("userspace") = 4 /\ Rank("rootfs") = 7 /\ Rank("image") = 8
    BY DEF Rank
  <1>5. First("image") => \A m \in todo : 8 <= Rank(m)
    BY <1>4 DEF First
  <1>6. \A m \in Nodes : 8 <= Rank(m) => m = "image"
    BY <1>1 DEF Rank
  <1>7. First("image") => todo = {"image"}
    BY <1>5, <1>6 DEF First
  <1>8. First("rootfs") => {"kernel", "kmod", "uboot", "userspace"} \cap todo = {}
    BY <1>4 DEF First
  <1> QED BY <1>1, <1>3, <1>7, <1>8

LEMMA Forgotten ==
    ASSUME Forget PROVE todo' \in SUBSET Nodes /\ staged' \in SUBSET Deb /\ built' \in SUBSET Deb /\ sol' = None
                        /\ imaged' = FALSE /\ pc' = "idle" /\ built' = {}
  BY DEF Forget

LEMMA Settled ==
    ASSUME record \in Records, NEW o \in {"succeeded", "failed"}, Settle(o)
    PROVE  record' \in Records /\ record'.outcome = o /\ record'.stage = record.stage
  BY DEF Records, Settle

LEMMA CutShortFacts ==
    ASSUME record \in Records, CutShort
    PROVE  record' \in Records /\ (record'.outcome = "failed" \/ record' = record)
  BY Settled DEF CutShort

LEMMA NodeDoneFacts ==
    ASSUME todo \in SUBSET Nodes, NodeDone
    PROVE  /\ todo' \in SUBSET Nodes /\ pc' = "node" /\ todo' \subseteq todo
           /\ \A n \in Nodes : First(n) => \A m \in Nodes : m \notin todo' => m \notin todo \/ m = n
  BY FirstFacts DEF NodeDone

-----------------------------------------------------------------------------
\* What a run that ends, in whatever way, leaves of the record and of its memory.
Over ==
    /\ Forget /\ UNCHANGED <<asked, runs>>
    /\ record' \in Records /\ (record'.outcome \in {"failed"} \/ record' = record)

LEMMA RunOver ==
    ASSUME record \in Records
    PROVE  (Fails => Over) /\ (CutShort => Over)
  BY CutShortFacts, Settled DEF Fails, CutShort, Over

\* The files of the output directory, and what the run holds of its own.
FilesOK ==
    /\ out \in SUBSET Deb /\ ledger \in SUBSET Deb
    /\ payload \in [idb: Vers \cup {None}, itb: Vers \cup {None}]
    /\ plan \in Rootfs \cup {None} /\ manifest \in Rootfs \cup {None}
    /\ tar \in Rootfs \cup {None, Torn} /\ image \in Images \cup {None, Torn} /\ prov \in Provs \cup {None, Torn}
    /\ manifest # None => plan # None

LEMMA NameFacts ==
    ASSUME NEW d \in Deb
    PROVE  /\ NameOf(d) \in Deb /\ NameOf(d).pkg = d.pkg
           /\ \A e \in Deb : SameFile(d, e) => NameOf(d) = NameOf(e)
  BY DEF NameOf, Deb, SameFile

LEMMA PlacedFacts ==
    ASSUME out \in SUBSET Deb, NEW p \in Debs \cup {"uboot"}, NEW hit \in BOOLEAN, NEW d \in Deb
    PROVE  /\ Kept(p, hit) \subseteq out /\ Placed(out, d) \in SUBSET Deb /\ Placed(Kept(p, hit), d) \in SUBSET Deb
           /\ d \in Placed(out, d) /\ d \in Placed(Kept(p, hit), d)
           /\ Placed(out, d) \subseteq out \cup {d} /\ Placed(Kept(p, hit), d) \subseteq out \cup {d}
           /\ \A e \in out : e.pkg # d.pkg => e \in Placed(out, d)
           /\ \A e \in out : e.pkg # d.pkg /\ e.pkg # p => e \in Placed(Kept(p, hit), d)
           /\ p = "userspace" => \A e \in Kept(p, hit) : e.pkg # p
  BY DEF Kept, Placed, SameFile

LEMMA OverTypes ==
    ASSUME TypeOK, RecordInv, pc # "idle", Fails \/ CutShort, UNCHANGED conf, fstore' = fstore, FilesOK'
    PROVE  TypeOK' /\ RecordInv' /\ Over
  <1>1. Over
    BY RunOver DEF RecordInv
  <1>2. /\ todo' \in SUBSET Nodes /\ staged' \in SUBSET Deb /\ built' \in SUBSET Deb /\ sol' = None
        /\ imaged' = FALSE /\ pc' = "idle" /\ built' = {}
    BY <1>1, Forgotten DEF Over
  <1>3. asked' = asked /\ runs' = runs /\ record' \in Records /\ lock' = lock /\ committed' = committed /\ mirror' = mirror
    BY <1>1 DEF Over, conf
  <1>4. TypeOK'
    BY <1>2, <1>3 DEF TypeOK, FilesOK
  <1>5. RecordInv'
    BY <1>2 DEF RecordInv, FilesOK
  <1> QED BY <1>1, <1>4, <1>5

LEMMA PipeTypes ==
    ASSUME TypeOK, RecordInv, [Next]_vars PROVE TypeOK' /\ RecordInv'
  <1>f. FilesOK
    BY DEF TypeOK, FilesOK, RecordInv
  <1>a. pc # "idle" => /\ asked.pins \in Pinnings /\ asked.solved \in Rootfs \cup {None}
                       /\ \A p \in Debs \cup {"uboot"} : DebOf(p) \in Deb /\ asked.pins[p] \in Vers
    BY AskedFacts DEF RecordInv
  <1>u. UNCHANGED files => FilesOK'
    BY <1>f DEF files, FilesOK
  <1>n. None \notin Rootfs /\ None \notin Images /\ None \notin Asked /\ None \notin Vers
    BY PipelineAssumption
  <1>1. ASSUME NEW p \in Pinnings, Update(p) PROVE TypeOK' /\ RecordInv'
    BY <1>1 DEF Update, TypeOK, RecordInv, files, mem
  <1>2. ASSUME NEW m \in Mirrors, MirrorMoves(m) PROVE TypeOK' /\ RecordInv'
    BY <1>2 DEF MirrorMoves, TypeOK, RecordInv, files, mem
  <1>3. ASSUME NEW sel \in Selections, NEW flag \in {"none", "save", "drift"}, Admit(sel, flag) PROVE TypeOK' /\ RecordInv'
    <2>1. /\ lock.pins \in Pinnings /\ lock.solved \in Rootfs \cup {None} /\ runs \in Nat /\ MaxRuns \in Nat /\ runs <= MaxRuns
      BY PipelineAssumption DEF TypeOK
    <2>2. asked' \in Asked /\ record' \in Records /\ record'.outcome = "running"
      BY <1>3, <2>1 DEF Admit, Asked, Records
    <2>3. runs' \in 1..MaxRuns /\ runs' \in 0..MaxRuns /\ todo' \in SUBSET Nodes
      BY <1>3, <2>1 DEF Admit, Selected
    <2>4. TypeOK'
      BY <1>3, <2>2, <2>3 DEF Admit, TypeOK, files, conf
    <2>5. RecordInv'
      BY <1>3, <2>2, <2>3 DEF Admit, RecordInv, files
    <2> QED BY <2>4, <2>5
  <1>4. CASE Preflight
    BY <1>4 DEF Preflight, TypeOK, RecordInv, files, conf, mem
  <1>5. CASE Refuse \/ Stop \/ FfmpegLacksUserspace \/ CannotResolve \/ CannotAssemble \/ NothingToCommit
    <2>1. pc # "idle" /\ (Fails \/ CutShort) /\ UNCHANGED conf /\ fstore' = fstore /\ UNCHANGED files
      BY <1>5 DEF Refuse, Stop, FfmpegLacksUserspace, CannotResolve, CannotAssemble, NothingToCommit, At
    <2> QED BY <1>u, <2>1, OverTypes
  <1>6. CASE End
    <2>1. record' \in Records /\ lock' = lock /\ committed' = committed /\ mirror' = mirror
      BY <1>6, Settled DEF End, RecordInv, conf
    <2>2. /\ todo' \in SUBSET Nodes /\ staged' \in SUBSET Deb /\ built' \in SUBSET Deb /\ sol' = None
          /\ imaged' = FALSE /\ pc' = "idle" /\ built' = {}
      BY <1>6, Forgotten DEF End
    <2>3. FilesOK' /\ fstore' = fstore /\ asked' = asked /\ runs' = runs
      BY <1>6, <1>u DEF End
    <2> QED BY <2>1, <2>2, <2>3 DEF TypeOK, RecordInv, FilesOK
  <1>7. ASSUME NEW p \in Debs, StageDebs(p) PROVE TypeOK' /\ RecordInv'
    <2>1. pc = "node" /\ DebOf(p) \in Deb
      BY <1>7, <1>a DEF StageDebs, At
    <2>2. out' \in SUBSET Deb
      BY <1>7, <2>1, PlacedFacts DEF StageDebs, TypeOK
    <2>3. TypeOK'
      BY <1>7, <2>1, <2>2 DEF StageDebs, TypeOK, conf
    <2> QED BY <1>7, <2>1, <2>3 DEF StageDebs, RecordInv
  <1>8. ASSUME NEW p \in Debs, StageDebsCut(p) PROVE TypeOK' /\ RecordInv'
    <2>1. pc # "idle" /\ DebOf(p) \in Deb
      BY <1>8, <1>a DEF StageDebsCut, At
    <2>2. out' \in SUBSET Deb
      BY <1>8, <2>1, PlacedFacts DEF StageDebsCut, TypeOK
    <2>3. FilesOK'
      BY <1>8, <1>f, <2>2 DEF StageDebsCut, FilesOK
    <2> QED BY <1>8, <2>1, <2>3, OverTypes DEF StageDebsCut
  <1>9. CASE StageFfmpeg
    <2>1. pc = "node" /\ "ffmpeg" \in Debs /\ "userspace" \in Debs /\ asked.pins["ffmpeg"] \in Vers /\ asked.pins["userspace"] \in Vers
      <3>1. pc = "node" /\ "ffmpeg" \in Nodes
        BY <1>9 DEF StageFfmpeg, At, First, TypeOK
      <3> QED BY <1>a, <3>1, PipelineAssumption DEF Nodes
    <2> DEFINE v == asked.pins["ffmpeg"]
               u == asked.pins["userspace"]
    <2>2. PICK a : /\ a \in IF fstore[v][u] # None THEN {fstore[v][u]} ELSE {d.ver : d \in Linked}
                   /\ out' = Placed(out, [pkg |-> "ffmpeg", ver |-> v, against |-> a])
                   /\ staged' = {[pkg |-> "ffmpeg", ver |-> v, against |-> a]}
                   /\ fstore' = [fstore EXCEPT ![v][u] = a]
      BY <1>9 DEF StageFfmpeg
    <2>3. a \in Vers
      <3>1. \A d \in Linked : d.ver \in Vers
        BY DEF Linked, TypeOK, Deb
      <3>2. fstore[v][u] \in Vers \cup {None}
        BY <2>1 DEF TypeOK
      <3> QED BY <2>2, <3>1, <3>2
    <2> HIDE DEF v, u
    <2>4. [pkg |-> "ffmpeg", ver |-> v, against |-> a] \in Deb
      BY <2>1, <2>3 DEF Deb, v
    <2>5. out' \in SUBSET Deb /\ staged' \in SUBSET Deb
      BY <2>1, <2>2, <2>4, PlacedFacts DEF TypeOK
    <2>6. fstore' \in [Vers -> [Vers -> Vers \cup {None}]]
      BY <2>1, <2>2, <2>3 DEF TypeOK, v, u
    <2>7. TypeOK'
      BY <1>9, <2>5, <2>6 DEF StageFfmpeg, TypeOK, conf
    <2> QED BY <1>9, <2>1, <2>7 DEF StageFfmpeg, RecordInv
  <1>10. CASE RecordArtifacts
    <2>1. \A d \in staged : NameOf(d) \in Deb
      BY NameFacts DEF TypeOK
    <2>2. ledger' \in SUBSET Deb /\ built' \in SUBSET Deb
      BY <1>10, <2>1 DEF RecordArtifacts, TypeOK
    <2>3. todo' \in SUBSET Nodes /\ pc' = "node"
      BY <1>10, NodeDoneFacts DEF RecordArtifacts, TypeOK
    <2>4. TypeOK'
      BY <1>10, <2>2, <2>3 DEF RecordArtifacts, TypeOK, conf
    <2> QED BY <1>10, <2>3, <2>4 DEF RecordArtifacts, RecordInv
  <1>11. CASE RecordCut
    <2>1. FilesOK'
      BY <1>11, <1>f DEF RecordCut, FilesOK
    <2> QED BY <1>11, <2>1, OverTypes DEF RecordCut
  <1>12. CASE StageUboot
    <2>1. pc = "node" /\ DebOf("uboot") \in Deb /\ asked.pins["uboot"] \in Vers
      BY <1>12, <1>a DEF StageUboot, At
    <2>2. out' \in SUBSET Deb /\ payload' \in [idb: Vers \cup {None}, itb: Vers \cup {None}]
      BY <1>12, <2>1, PlacedFacts DEF StageUboot, TypeOK
    <2>3. TypeOK'
      BY <1>12, <2>1, <2>2 DEF StageUboot, TypeOK, conf
    <2> QED BY <1>12, <2>1, <2>3 DEF StageUboot, RecordInv
  <1>13. CASE StageUbootCut
    <2>1. pc # "idle" /\ asked.pins["uboot"] \in Vers
      BY <1>13, <1>a DEF StageUbootCut, At
    <2>2. payload' \in [idb: Vers \cup {None}, itb: Vers \cup {None}]
      BY <1>13, <2>1 DEF StageUbootCut, TypeOK
    <2>3. FilesOK'
      BY <1>13, <1>f, <2>2 DEF StageUbootCut, FilesOK
    <2> QED BY <1>13, <2>1, <2>3, OverTypes DEF StageUbootCut
  <1>14. CASE ResolvePlan
    <2>1. \A p \in Debs : Candidates(p) # {} => (CHOOSE d \in Candidates(p) : TRUE) \in Deb
      BY DEF Candidates, Repo, LedgerDebs, TypeOK
    <2>2. [p \in Debs |-> IF Candidates(p) = {} THEN None ELSE CHOOSE d \in Candidates(p) : TRUE] \in [Debs -> Deb \cup {None}]
      BY <2>1
    <2>3. sol' \in Rootfs /\ plan' = sol' /\ pc' = "tar" /\ pc = "node"
      BY <1>14, <2>2 DEF ResolvePlan, Rootfs, TypeOK, At
    <2>4. TypeOK'
      BY <1>14, <2>3 DEF ResolvePlan, TypeOK, conf
    <2> QED BY <1>14, <1>n, <2>3, <2>4 DEF ResolvePlan, RecordInv
  <1>15. CASE ExportTar
    <2>1. sol \in Rootfs
      BY <1>15 DEF ExportTar, RecordInv
    <2> QED BY <1>15, <2>1 DEF ExportTar, TypeOK, RecordInv, conf, mem
  <1>16. CASE ExportTarCut
    <2>1. FilesOK'
      BY <1>16, <1>f DEF ExportTarCut, FilesOK
    <2> QED BY <1>16, <2>1, OverTypes DEF ExportTarCut
  <1>17. CASE WriteManifest
    <2>1. sol \in Rootfs /\ plan = sol
      BY <1>17 DEF WriteManifest, RecordInv
    <2> QED BY <1>17, <1>n, <2>1 DEF WriteManifest, TypeOK, RecordInv, conf, mem
  <1>18. CASE CheckDrift
    <2>1. CASE Drifted
      BY <1>18, <1>u, <2>1, OverTypes DEF CheckDrift
    <2>2. CASE ~Drifted
      <3>1. todo' \in SUBSET Nodes /\ pc' = "node"
        BY <1>18, <2>2, NodeDoneFacts DEF CheckDrift, TypeOK
      <3> QED BY <1>18, <2>2, <3>1 DEF CheckDrift, TypeOK, RecordInv, conf, files
    <2> QED BY <2>1, <2>2
  <1>19. CASE AssembleImage
    <2>1. pc = "node" /\ tar \in Rootfs /\ payload \in [idb: Vers, itb: Vers] /\ runs \in 1..MaxRuns
      BY <1>19 DEF AssembleImage, At, Assemblable, TypeOK, RecordInv
    <2>2. image' \in Images
      BY <1>19, <2>1 DEF AssembleImage, Images
    <2>3. todo' \in SUBSET Nodes /\ pc' = "node"
      BY <1>19, NodeDoneFacts DEF AssembleImage, TypeOK
    <2>4. TypeOK'
      BY <1>19, <2>2, <2>3 DEF AssembleImage, TypeOK, conf
    <2> QED BY <1>19, <2>1, <2>2, <2>3, <2>4 DEF AssembleImage, RecordInv
  <1>20. CASE AssembleImageCut
    <2>1. FilesOK' /\ pc # "idle"
      BY <1>20, <1>f DEF AssembleImageCut, FilesOK, At
    <2> QED BY <1>20, <2>1, OverTypes DEF AssembleImageCut
  <1>21. CASE WriteProvenance
    <2>1. pc = "node" /\ asked.pins \in Pinnings
      BY <1>21, <1>a DEF WriteProvenance, NodesDone
    <2>2. imaged => image.pw \in 1..MaxRuns
      BY DEF RecordInv, Images
    <2>3. prov' \in Provs \cup {None, Torn}
      <3>1. CASE imaged /\ manifest # None
        <4>1. manifest \in Rootfs /\ plan \in Rootfs
          BY <1>f, <3>1 DEF FilesOK
        <4>2. prov' = [manifest |-> manifest, plan |-> plan, pins |-> asked.pins, pw |-> image.pw]
          BY <1>21, <3>1 DEF WriteProvenance
        <4> QED BY <2>1, <2>2, <3>1, <4>1, <4>2 DEF Provs
      <3>2. CASE ~imaged \/ manifest = None
        BY <1>21, <3>2 DEF WriteProvenance, TypeOK
      <3> QED BY <3>1, <3>2
    <2>4. TypeOK'
      BY <1>21, <2>3 DEF WriteProvenance, TypeOK, conf, mem
    <2> QED BY <1>21, <2>1, <2>4 DEF WriteProvenance, RecordInv, mem
  <1>22. CASE ProvenanceCut
    <2>1. FilesOK' /\ pc # "idle"
      BY <1>22, <1>f DEF ProvenanceCut, FilesOK, NodesDone
    <2> QED BY <1>22, <2>1, OverTypes DEF ProvenanceCut
  <1>23. CASE CommitManifest
    BY <1>23 DEF CommitManifest, TypeOK, RecordInv, files, mem
  <1>24. CASE SaveNothing
    BY <1>24 DEF SaveNothing, TypeOK, RecordInv, files, mem, conf
  <1>25. CASE WriteLock
    <2>1. asked.pins \in Pinnings /\ sol \in Rootfs \cup {None}
      BY <1>25, <1>a DEF WriteLock, TypeOK
    <2> QED BY <1>25, <2>1 DEF WriteLock, TypeOK, RecordInv, files, mem
  <1>26. CASE UNCHANGED vars
    BY <1>26 DEF vars, TypeOK, RecordInv, files, mem, conf
  <1> QED
    BY <1>1, <1>2, <1>3, <1>4, <1>5, <1>6, <1>7, <1>8, <1>9, <1>10, <1>11, <1>12, <1>13, <1>14, <1>15, <1>16, <1>17,
       <1>18, <1>19, <1>20, <1>21, <1>22, <1>23, <1>24, <1>25, <1>26 DEF Next
-----------------------------------------------------------------------------
LEMMA DirKept == ASSUME TypeOK, RecordInv, DirInv, [Next]_vars PROVE DirInv'
  <1>1. pc # "idle" => \A p \in Debs \cup {"uboot"} : DebOf(p) \in Deb /\ DebOf(p).pkg = p
                                                     /\ (p \notin {"kmod", "ffmpeg"} => DebOf(p).against = 0)
    BY AskedFacts DEF RecordInv
  <1>2. ASSUME out' \subseteq out PROVE DirInv'
    BY <1>2 DEF DirInv
  <1>3. ASSUME NEW p \in Debs, StageDebs(p) PROVE DirInv'
    <2>1. DebOf(p) \in Deb /\ DebOf(p).pkg = p /\ (p \notin {"kmod", "ffmpeg"} => DebOf(p).against = 0)
      BY <1>1, <1>3 DEF StageDebs, At
    <2>2. out' \subseteq out \cup {DebOf(p)}
      BY <1>3, <2>1, PlacedFacts DEF StageDebs, TypeOK
    <2> QED BY <2>1, <2>2 DEF DirInv
  <1>4. ASSUME NEW p \in Debs, StageDebsCut(p) PROVE DirInv'
    BY <1>2, <1>4 DEF StageDebsCut, Kept
  <1>5. CASE StageFfmpeg
    <2>1. PICK d : d.pkg = "ffmpeg" /\ out' = Placed(out, d)
      BY <1>5 DEF StageFfmpeg
    <2>2. out' \subseteq out \cup {d}
      BY <2>1 DEF Placed
    <2> QED BY <2>1, <2>2 DEF DirInv
  <1>6. CASE StageUboot
    <2>1. DebOf("uboot") \in Deb /\ DebOf("uboot").against = 0
      BY <1>1, <1>6 DEF StageUboot, At
    <2>2. out' \subseteq out \cup {DebOf("uboot")}
      BY <1>6 DEF StageUboot, Placed
    <2> QED BY <2>1, <2>2 DEF DirInv
  <1>7. CASE out' = out
    BY <1>2, <1>7
  <1>8. \/ out' = out \/ StageFfmpeg \/ StageUboot \/ \E p \in Debs : StageDebs(p) \/ StageDebsCut(p)
    BY DEF Next, vars, conf, files, Update, MirrorMoves, Admit, Preflight, Refuse, Stop, End, FfmpegLacksUserspace,
           RecordArtifacts, RecordCut, StageUbootCut, ResolvePlan, CannotResolve, ExportTar, ExportTarCut, WriteManifest,
           CheckDrift, AssembleImage, AssembleImageCut, CannotAssemble, WriteProvenance, ProvenanceCut, CommitManifest,
           NothingToCommit, SaveNothing, WriteLock
  <1> QED BY <1>3, <1>4, <1>5, <1>6, <1>7, <1>8

\* A kernel, kmod or userspace .deb that is in place stays there while other packages are placed.
LEMMA DebStays ==
    ASSUME TypeOK, asked \in Asked, asked' = asked, ledger \subseteq ledger', built \subseteq built',
           NEW p \in Debs \cap {"kernel", "kmod", "userspace"}, DebDone(p),
           \A d \in Deb : d.pkg = p => (d \in out' <=> d \in out),
           out' \in SUBSET Deb
    PROVE  DebDone(p)'
  <1>1. DebOf(p)' = DebOf(p) /\ DebOf(p) \in Deb /\ DebOf(p).pkg = p
    BY AskedFacts DEF DebOf
  <1>2. {d \in out : d.pkg = p} = {d \in out' : d.pkg = p}
    BY DEF TypeOK
  <1> QED BY <1>1, <1>2 DEF DebDone

\* What the solver picks from the repository, once the nodes before it are done.
LEMMA SolvesWhatIsDone ==
    ASSUME TypeOK, DirInv, asked \in Asked, built \subseteq {DebOf(p) : p \in Debs \cap Memory},
           NEW p \in Debs \cap {"kernel", "kmod", "userspace"}, DebDone(p)
    PROVE  Candidates(p) = {DebOf(p)}
  <1>1. /\ DebOf(p) \in Deb /\ DebOf(p).pkg = p /\ DebOf(p) \in out /\ NameOf(DebOf(p)) \in ledger
        /\ p \notin {"kmod", "ffmpeg"} => DebOf(p).against = 0
    BY AskedFacts DEF DebDone
  <1>2. \A b \in built : b.pkg = p => b = DebOf(p)
    BY AskedFacts, PipelineAssumption DEF Memory
  <1>3. DebOf(p) \in Repo
    <2>1. SameFile(DebOf(p), DebOf(p))
      BY DEF SameFile
    <2> QED BY <1>1, <1>2, <2>1 DEF Repo, LedgerDebs
  <1>4. ASSUME NEW d \in Repo, d.pkg = p PROVE d = DebOf(p)
    <2>1. d \in out /\ d \in Deb
      BY DEF Repo, LedgerDebs, TypeOK
    <2>2. CASE p = "userspace"
      BY <1>4, <2>1, <2>2 DEF DebDone
    <2>3. CASE p \in Memory
      <3>1. SameFile(DebOf(p), d)
        BY <1>4, <2>3, <1>1 DEF Repo, DebDone
      <3>2. d.ver = DebOf(p).ver /\ d.against = DebOf(p).against
        BY <1>1, <1>4, <2>1, <2>3, <3>1 DEF SameFile, DirInv, Memory
      <3> QED BY <1>1, <1>4, <2>1, <3>2 DEF Deb
    <2> QED BY <2>2, <2>3 DEF Memory
  <1>5. DebOf(p).ver <= DebOf(p).ver
    <2>1. DebOf(p).ver \in Nat
      BY <1>1, PipelineAssumption DEF Deb
    <2> QED BY <2>1
  <1> QED BY <1>1, <1>3, <1>4, <1>5 DEF Candidates

\* A step that leaves the files and the run's memory alone.
LEMMA SameRun ==
    ASSUME WholeInv, UNCHANGED <<files, asked, mem>>,
           \/ pc' = pc
           \/ /\ pc' \notin {"record", "tar", "manifest", "drift"}
              /\ pc' \in {"save", "lock", "end"} => pc \in {"save", "lock", "end"}
    PROVE  WholeInv'
  <1>1. /\ out' = out /\ ledger' = ledger /\ payload' = payload /\ plan' = plan /\ tar' = tar /\ manifest' = manifest
        /\ image' = image /\ prov' = prov /\ asked' = asked
        /\ todo' = todo /\ staged' = staged /\ built' = built /\ sol' = sol /\ imaged' = imaged
    BY DEF files, mem
  <1>2. /\ \A n : DebOf(n)' = DebOf(n) /\ (First(n)' <=> First(n))
        /\ Drifted' = Drifted /\ SolvedIsAsked' = SolvedIsAsked
    BY <1>1 DEF DebOf, First, Drifted, SolvedIsAsked
  <1>3. \A n : (StagedBy(n)' <=> StagedBy(n)) /\ (DebDone(n)' <=> DebDone(n))
    BY <1>1, <1>2 DEF StagedBy, DebDone
  <1>4. TodoInv' /\ BuiltInv' /\ StagedInv' /\ DebsInv' /\ UbootInv'
    BY <1>1, <1>2, <1>3 DEF WholeInv, TodoInv, BuiltInv, StagedInv, DebsInv, UbootInv
  <1>5. RootfsInv'
    BY <1>1, <1>2 DEF WholeInv, RootfsInv
  <1>6. ImageInv' /\ EndInv'
    BY <1>1 DEF WholeInv, ImageInv, EndInv
  <1> QED BY <1>4, <1>5, <1>6 DEF WholeInv

\* A node that stages its .debs takes away nothing an earlier node of the run has left.
LEMMA StagingKept ==
    ASSUME TypeOK, TypeOK', asked \in Asked, WholeInv, pc = "node", pc' = "record",
           UNCHANGED <<ledger, plan, tar, manifest, image, prov, asked, todo, built, sol, imaged>>,
           NEW n \in Debs \cup {"uboot"}, First(n), StagedBy(n)',
           \A d \in Deb : d.pkg # n => (d \in out' <=> d \in out),
           n # "uboot" => payload' = payload
    PROVE  WholeInv'
  <1>1. /\ ledger' = ledger /\ plan' = plan /\ tar' = tar /\ manifest' = manifest /\ image' = image /\ prov' = prov
        /\ asked' = asked /\ todo' = todo /\ built' = built /\ sol' = sol /\ imaged' = imaged
        /\ n \in todo
    BY DEF First
  <1>2. (\A m : DebOf(m)' = DebOf(m) /\ (First(m)' <=> First(m))) /\ Drifted' = Drifted /\ SolvedIsAsked' = SolvedIsAsked
    BY <1>1 DEF DebOf, First, Drifted, SolvedIsAsked
  <1>3. StagedInv'
    BY DEF StagedInv
  <1>4. DebsInv'
    <2> SUFFICES ASSUME NEW p \in Debs \cap {"kernel", "kmod", "userspace"}, p \notin todo PROVE DebDone(p)'
      BY <1>1 DEF DebsInv
    <2>1. DebDone(p) /\ p # n
      BY <1>1 DEF WholeInv, DebsInv
    <2>2. \A d \in Deb : d.pkg = p => (d \in out' <=> d \in out)
      BY <2>1
    <2> QED BY <1>1, <2>1, <2>2, DebStays DEF TypeOK
  <1>5. TodoInv' /\ BuiltInv' /\ UbootInv'
    BY <1>1, <1>2 DEF WholeInv, TodoInv, BuiltInv, UbootInv
  <1>6. RootfsInv'
    BY <1>1, <1>2 DEF WholeInv, RootfsInv
  <1>7. ImageInv' /\ EndInv'
    BY <1>1 DEF WholeInv, ImageInv, EndInv, TodoInv
  <1> QED BY <1>3, <1>4, <1>5, <1>6, <1>7 DEF WholeInv

LEMMA WholeKept ==
    ASSUME PipeInv, TypeOK', [Next]_vars, (pc # "idle" /\ record.stage = "all")' PROVE WholeInv'
  <1>a. TypeOK /\ RecordInv /\ DirInv /\ todo \in SUBSET Nodes
    BY DEF PipeInv, TypeOK
  <1>n. {"image", "rootfs", "uboot"} \cup Debs \subseteq Nodes /\ None \notin Rootfs
    BY PipelineAssumption DEF Nodes
  <1>w. ASSUME pc # "idle", record' = record PROVE WholeInv /\ asked \in Asked
    BY <1>w DEF PipeInv, RecordInv
  <1>1. ASSUME NEW sel \in Selections, NEW flag \in {"none", "save", "drift"}, Admit(sel, flag) PROVE WholeInv'
    <2>1. record'.stage = sel /\ pc = "idle" /\ pc' = "preflight" /\ todo' = Selected(sel) /\ built' = built /\ built = {}
      BY <1>1, <1>a DEF Admit, RecordInv
    <2>2. todo' = Nodes
      BY <2>1 DEF Selected
    <2> QED BY <1>n, <2>1, <2>2 DEF WholeInv, TodoInv, BuiltInv, StagedInv, DebsInv, UbootInv, RootfsInv, ImageInv, EndInv
  <1>2. CASE (\E p \in Pinnings : Update(p)) \/ (\E m \in Mirrors : MirrorMoves(m)) \/ UNCHANGED vars
    <2>1. UNCHANGED <<files, asked, mem>> /\ pc' = pc /\ record' = record
      BY <1>2 DEF Update, MirrorMoves, vars
    <2> QED BY <1>w, <2>1, SameRun
  <1>3. CASE Preflight \/ CommitManifest \/ SaveNothing \/ WriteLock
    <2>1. UNCHANGED <<files, asked, mem>> /\ record' = record
      BY <1>3 DEF Preflight, CommitManifest, SaveNothing, WriteLock
    <2>2. /\ pc # "idle" /\ pc' \notin {"record", "tar", "manifest", "drift"}
          /\ pc' \in {"save", "lock", "end"} => pc \in {"save", "lock", "end"}
      BY <1>3 DEF Preflight, CommitManifest, SaveNothing, WriteLock
    <2> QED BY <1>w, <2>1, <2>2, SameRun
  <1>4. CASE Refuse \/ Stop \/ FfmpegLacksUserspace \/ CannotResolve \/ CannotAssemble \/ NothingToCommit \/ End
             \/ RecordCut \/ StageUbootCut \/ ExportTarCut \/ AssembleImageCut \/ ProvenanceCut
             \/ \E p \in Debs : StageDebsCut(p)
    <2>1. Forget
      BY <1>4 DEF Refuse, Stop, FfmpegLacksUserspace, CannotResolve, CannotAssemble, NothingToCommit, End, RecordCut,
                  StageUbootCut, ExportTarCut, AssembleImageCut, ProvenanceCut, StageDebsCut, Fails, CutShort
    <2> QED BY <2>1 DEF Forget
  <1>5. ASSUME NEW p \in Debs, StageDebs(p) PROVE WholeInv'
    <2>1. /\ pc = "node" /\ pc' = "record" /\ record' = record /\ p # "ffmpeg" /\ First(p) /\ staged' = {DebOf(p)}
          /\ UNCHANGED <<ledger, plan, tar, manifest, image, prov, asked, todo, built, sol, imaged>> /\ payload' = payload
      BY <1>5 DEF StageDebs, At
    <2>2. WholeInv /\ asked \in Asked /\ DebOf(p) \in Deb /\ DebOf(p).pkg = p /\ p # "uboot"
      BY <1>w, <2>1, AskedFacts, PipelineAssumption
    <2>3. PICK hit \in BOOLEAN : out' = Placed(Kept(p, hit), DebOf(p))
      BY <1>5 DEF StageDebs
    <2>4. /\ DebOf(p) \in out' /\ out' \subseteq out \cup {DebOf(p)}
          /\ \A e \in out : e.pkg # p => e \in out'
          /\ p = "userspace" => \A e \in Kept(p, hit) : e.pkg # p
      BY <1>a, <2>2, <2>3, PlacedFacts DEF TypeOK
    <2>5. \A d \in Deb : d.pkg # p => (d \in out' <=> d \in out)
      BY <2>2, <2>4
    <2>6. p = "userspace" => {d \in out' : d.pkg = "userspace"} = {DebOf(p)}
      BY <2>2, <2>3, <2>4 DEF Placed
    <2>7. First(p)' /\ DebOf(p)' = DebOf(p)
      BY <2>1 DEF First, DebOf
    <2>8. StagedBy(p)'
      BY <2>1, <2>2, <2>4, <2>6, <2>7 DEF StagedBy
    <2> QED BY <1>a, <2>1, <2>2, <2>5, <2>8, StagingKept
  <1>6. CASE StageFfmpeg
    <2>1. /\ pc = "node" /\ pc' = "record" /\ record' = record /\ First("ffmpeg")
          /\ UNCHANGED <<ledger, plan, tar, manifest, image, prov, asked, todo, built, sol, imaged>> /\ payload' = payload
      BY <1>6 DEF StageFfmpeg, At
    <2>2. WholeInv /\ asked \in Asked
      BY <1>w, <2>1
    <2>3. PICK d : d.pkg = "ffmpeg" /\ out' = Placed(out, d) /\ staged' = {d}
      BY <1>6 DEF StageFfmpeg
    <2>4. \A e \in Deb : e.pkg # "ffmpeg" => (e \in out' <=> e \in out)
      BY <2>3 DEF Placed, SameFile
    <2>5. First("ffmpeg")' /\ "ffmpeg" \in Debs
      BY <1>a, <2>1 DEF First, Nodes
    <2>6. StagedBy("ffmpeg")'
      BY <2>3, <2>5 DEF StagedBy
    <2> QED BY <1>a, <2>1, <2>2, <2>4, <2>5, <2>6, StagingKept
  <1>7. CASE StageUboot
    <2>1. /\ pc = "node" /\ pc' = "record" /\ record' = record /\ First("uboot") /\ staged' = {DebOf("uboot")}
          /\ UNCHANGED <<ledger, plan, tar, manifest, image, prov, asked, todo, built, sol, imaged>>
          /\ out' = Placed(out, DebOf("uboot")) /\ payload' = Boot(asked.pins["uboot"])
      BY <1>7 DEF StageUboot, At, Boot
    <2>2. WholeInv /\ asked \in Asked /\ DebOf("uboot").pkg = "uboot"
      BY <1>w, <2>1, AskedFacts
    <2>3. DebOf("uboot") \in out' /\ \A e \in Deb : e.pkg # "uboot" => (e \in out' <=> e \in out)
      BY <2>1, <2>2 DEF Placed, SameFile
    <2>4. First("uboot")' /\ DebOf("uboot")' = DebOf("uboot") /\ asked' = asked
      BY <2>1 DEF First, DebOf
    <2>5. StagedBy("uboot")'
      BY <2>1, <2>3, <2>4 DEF StagedBy
    <2> QED BY <1>a, <2>1, <2>2, <2>3, <2>5, StagingKept
  <1>8. CASE RecordArtifacts
    <2>1. /\ pc = "record" /\ record' = record /\ NodeDone
          /\ UNCHANGED <<out, payload, plan, tar, manifest, image, prov, asked, sol, imaged>>
          /\ ledger' = ledger \cup {NameOf(d) : d \in staged}
          /\ built' = built \cup {d \in staged : d.pkg \in Memory}
      BY <1>8 DEF RecordArtifacts, Memory
    <2>2. WholeInv /\ asked \in Asked
      BY <1>w, <2>1
    <2>3. PICK n \in Debs \cup {"uboot"} : StagedBy(n)
      BY <2>1, <2>2 DEF WholeInv, StagedInv
    <2>4. First(n) /\ n \in Nodes /\ n \in todo /\ n \notin {"rootfs", "image"}
      BY <1>n, <2>3, PipelineAssumption DEF StagedBy, First
    <2>5. pc' = "node" /\ todo' \subseteq todo /\ \A m \in Nodes : m \notin todo' => m \notin todo \/ m = n
      BY <1>a, <2>1, <2>4, NodeDoneFacts
    <2>6. /\ out' = out /\ payload' = payload /\ plan' = plan /\ tar' = tar /\ manifest' = manifest /\ image' = image
          /\ prov' = prov /\ asked' = asked /\ sol' = sol /\ imaged' = imaged
          /\ \A m : DebOf(m)' = DebOf(m)
      BY <2>1 DEF DebOf
    <2>7. \A d \in staged : d.pkg = n /\ (n # "ffmpeg" => d = DebOf(n))
      BY <2>2, <2>3, AskedFacts DEF StagedBy
    <2>8. BuiltInv'
      <3>1. n \in Memory => n \in Debs \cap Memory /\ n # "ffmpeg"
        BY <2>4, PipelineAssumption DEF Memory
      <3> QED BY <2>1, <2>2, <2>6, <2>7, <3>1 DEF WholeInv, BuiltInv
    <2>9. DebsInv'
      <3> SUFFICES ASSUME NEW p \in Debs \cap {"kernel", "kmod", "userspace"}, p \notin todo' PROVE DebDone(p)'
        BY DEF DebsInv
      <3>1. CASE p \notin todo
        <4>1. DebDone(p)
          BY <2>2, <3>1 DEF WholeInv, DebsInv
        <4> QED BY <2>1, <2>6, <4>1 DEF DebDone
      <3>2. CASE p = n
        <4>1. staged = {DebOf(p)} /\ DebOf(p) \in out /\ DebOf(p).pkg = p
          BY <2>2, <2>3, <3>2, AskedFacts DEF StagedBy
        <4>2. p = "userspace" => {d \in out : d.pkg = p} = {DebOf(p)}
          BY <2>3, <3>2 DEF StagedBy
        <4> QED BY <2>1, <2>6, <4>1, <4>2 DEF DebDone
      <3> QED BY <1>n, <2>5, <3>1, <3>2
    <2>10. UbootInv'
      BY <1>n, <2>2, <2>3, <2>5, <2>6 DEF WholeInv, UbootInv, StagedBy
    <2>11. {"rootfs", "image"} \cap todo \subseteq todo'
      BY <1>n, <2>4, <2>5
    <2>12. TodoInv' /\ StagedInv' /\ EndInv'
      BY <2>2, <2>4, <2>5, <2>11 DEF WholeInv, TodoInv, StagedInv, EndInv
    <2>13. RootfsInv'
      <3>1. Drifted' = Drifted /\ SolvedIsAsked' = SolvedIsAsked
        BY <2>6 DEF Drifted, SolvedIsAsked
      <3> QED BY <2>2, <2>5, <2>6, <2>11, <3>1 DEF WholeInv, RootfsInv
    <2>14. ImageInv'
      BY <2>2, <2>6, <2>11 DEF WholeInv, ImageInv
    <2> QED BY <2>8, <2>9, <2>10, <2>12, <2>13, <2>14 DEF WholeInv
  \* The rootfs and image nodes touch no .deb, no ledger and no payload.
  <1>9. ASSUME WholeInv, UNCHANGED <<out, ledger, payload, asked, built>>, todo' \subseteq todo,
               {"kernel", "kmod", "userspace", "uboot"} \cap todo = {}, pc' # "record"
        PROVE  BuiltInv' /\ StagedInv' /\ DebsInv' /\ UbootInv'
    <2>1. /\ out' = out /\ ledger' = ledger /\ payload' = payload /\ asked' = asked /\ built' = built
          /\ \A m : DebOf(m)' = DebOf(m)
      BY <1>9 DEF DebOf
    <2>2. \A p : DebDone(p)' <=> DebDone(p)
      BY <2>1 DEF DebDone
    <2>3. DebsInv'
      BY <1>9, <2>2 DEF WholeInv, DebsInv
    <2> QED BY <1>9, <2>1, <2>3 DEF WholeInv, BuiltInv, StagedInv, UbootInv
  <1>10. CASE ResolvePlan
    <2>1. /\ pc = "node" /\ pc' = "tar" /\ record' = record /\ First("rootfs") /\ plan' = sol' /\ todo' = todo
          /\ UNCHANGED <<out, ledger, payload, asked, built>>
          /\ sol'.debs = [p \in Debs |-> IF Candidates(p) = {} THEN None ELSE CHOOSE d \in Candidates(p) : TRUE]
      BY <1>10 DEF ResolvePlan, At
    <2>2. WholeInv /\ asked \in Asked
      BY <1>w, <2>1
    <2>3. {"kernel", "kmod", "userspace", "uboot"} \cap todo = {} /\ "rootfs" \in todo /\ First("rootfs")'
      BY <1>a, <2>1, FirstFacts DEF First
    <2>4. ASSUME NEW p \in Debs \cap {"kernel", "kmod", "userspace"} PROVE sol'.debs[p] = DebOf(p)'
      <3>1. DebDone(p)
        BY <2>2, <2>3 DEF WholeInv, DebsInv
      <3>2. Candidates(p) = {DebOf(p)}
        BY <1>a, <2>2, <3>1, SolvesWhatIsDone DEF WholeInv, BuiltInv
      <3>3. DebOf(p)' = DebOf(p)
        BY <2>1 DEF DebOf
      <3> QED BY <2>1, <3>2, <3>3
    <2>5. sol' \in Rootfs
      <3>1. RecordInv'
        BY <1>a, PipeTypes
      <3> QED BY <2>1, <3>1 DEF RecordInv
    <2>6. RootfsInv'
      BY <2>1, <2>3, <2>4, <2>5 DEF RootfsInv, SolvedIsAsked
    <2>7. TodoInv' /\ ImageInv' /\ EndInv'
      BY <2>1, <2>2, <2>3 DEF WholeInv, TodoInv, ImageInv, EndInv
    <2> QED BY <1>9, <2>1, <2>2, <2>3, <2>6, <2>7 DEF WholeInv
  <1>11. CASE ExportTar \/ WriteManifest
    <2>1. /\ pc \in {"tar", "manifest"} /\ record' = record /\ UNCHANGED <<out, ledger, payload, asked, plan, image, prov>>
          /\ UNCHANGED mem /\ pc' \in {"manifest", "drift"}
          /\ pc = "tar" => tar' = sol /\ manifest' = manifest /\ pc' = "manifest"
          /\ pc = "manifest" => tar' = tar /\ manifest' = sol /\ pc' = "drift"
      BY <1>11 DEF ExportTar, WriteManifest
    <2>2. /\ todo' = todo /\ built' = built /\ sol' = sol /\ imaged' = imaged /\ out' = out /\ ledger' = ledger
          /\ payload' = payload /\ asked' = asked /\ plan' = plan /\ image' = image /\ prov' = prov
      BY <2>1 DEF mem
    <2>3. WholeInv /\ asked \in Asked /\ First("rootfs")
      BY <1>w, <2>1 DEF WholeInv, RootfsInv
    <2>4. {"kernel", "kmod", "userspace", "uboot"} \cap todo = {} /\ "rootfs" \in todo /\ First("rootfs")'
      BY <1>a, <2>2, <2>3, FirstFacts DEF First
    <2>5. RootfsInv'
      <3>1. SolvedIsAsked' /\ plan' = sol'
        BY <2>1, <2>2, <2>3 DEF WholeInv, RootfsInv, SolvedIsAsked, DebOf
      <3>2. tar' = sol' /\ (pc' = "drift" => manifest' = sol')
        BY <2>1, <2>2, <2>3 DEF WholeInv, RootfsInv
      <3> QED BY <2>2, <2>4, <3>1, <3>2 DEF RootfsInv
    <2>6. TodoInv' /\ ImageInv' /\ EndInv'
      BY <2>1, <2>2, <2>3, <2>4 DEF WholeInv, TodoInv, ImageInv, EndInv
    <2> QED BY <1>9, <2>1, <2>2, <2>3, <2>4, <2>5, <2>6 DEF WholeInv
  <1>12. CASE CheckDrift
    <2>1. ~Drifted
      BY <1>12 DEF CheckDrift, Fails, Forget
    <2>2. pc = "drift" /\ record' = record /\ NodeDone /\ UNCHANGED files /\ UNCHANGED <<asked, built, sol, imaged>>
      BY <1>12, <2>1 DEF CheckDrift
    <2>3. WholeInv /\ asked \in Asked /\ First("rootfs")
      BY <1>w, <2>2 DEF WholeInv, RootfsInv
    <2>4. {"kernel", "kmod", "userspace", "uboot"} \cap todo = {} /\ "rootfs" \in todo
      BY <1>a, <2>3, FirstFacts DEF First
    <2>5. pc' = "node" /\ todo' \subseteq todo /\ \A m \in Nodes : m \notin todo' => m \notin todo \/ m = "rootfs"
      BY <1>a, <1>n, <2>2, <2>3, NodeDoneFacts
    <2>6. /\ built' = built /\ sol' = sol /\ imaged' = imaged /\ out' = out /\ ledger' = ledger
          /\ payload' = payload /\ asked' = asked /\ plan' = plan /\ tar' = tar /\ manifest' = manifest /\ image' = image
      BY <2>2 DEF files
    <2>7. "image" \in todo' /\ "image" \in todo
      BY <1>n, <2>3, <2>4, <2>5 DEF WholeInv, TodoInv
    <2>8. RootfsInv'
      <3>1. SolvedIsAsked' /\ plan' = sol' /\ tar' = sol' /\ manifest' = sol' /\ ~Drifted'
        BY <2>1, <2>2, <2>3, <2>6 DEF WholeInv, RootfsInv, SolvedIsAsked, DebOf, Drifted
      <3> QED BY <2>5, <3>1 DEF RootfsInv
    <2>9. TodoInv' /\ ImageInv' /\ EndInv'
      BY <2>5, <2>7 DEF TodoInv, ImageInv, EndInv
    <2> QED BY <1>9, <2>2, <2>3, <2>4, <2>5, <2>6, <2>8, <2>9 DEF WholeInv
  <1>13. CASE AssembleImage
    <2>1. /\ pc = "node" /\ record' = record /\ NodeDone /\ First("image") /\ imaged' /\ image' = [root |-> tar, boot |-> payload, pw |-> runs]
          /\ UNCHANGED <<out, ledger, payload, plan, tar, manifest, asked, built, sol>>
      BY <1>13 DEF AssembleImage, At
    <2>2. WholeInv /\ asked \in Asked
      BY <1>w, <2>1
    <2>3. todo = {"image"} /\ todo' = {} /\ pc' = "node"
      BY <1>a, <2>1, FirstFacts DEF NodeDone
    <2>4. RootfsInv'
      <3>1. SolvedIsAsked' /\ plan' = sol' /\ tar' = sol' /\ manifest' = sol' /\ ~Drifted'
        BY <2>1, <2>2, <2>3 DEF WholeInv, RootfsInv, SolvedIsAsked, DebOf, Drifted
      <3> QED BY <2>3, <3>1 DEF RootfsInv
    <2>5. tar = sol
      BY <2>2, <2>3 DEF WholeInv, RootfsInv
    <2>6. TodoInv' /\ ImageInv' /\ EndInv'
      BY <2>1, <2>3, <2>5 DEF TodoInv, ImageInv, EndInv
    <2> QED BY <1>9, <2>1, <2>2, <2>3, <2>4, <2>6 DEF WholeInv
  <1>14. CASE WriteProvenance
    <2>1. /\ pc = "node" /\ todo = {} /\ pc' = "save" /\ record' = record
          /\ UNCHANGED <<out, ledger, payload, plan, tar, manifest, image, asked>> /\ UNCHANGED mem
      BY <1>14 DEF WriteProvenance, NodesDone
    <2>2. /\ todo' = todo /\ built' = built /\ sol' = sol /\ imaged' = imaged /\ out' = out /\ ledger' = ledger
          /\ payload' = payload /\ asked' = asked /\ plan' = plan /\ tar' = tar /\ manifest' = manifest /\ image' = image
      BY <2>1 DEF mem
    <2>3. WholeInv /\ asked \in Asked
      BY <1>w, <2>1
    <2>4. imaged /\ image.root = sol /\ manifest = sol /\ plan = sol /\ sol \in Rootfs
      BY <2>1, <2>3 DEF WholeInv, ImageInv, RootfsInv, SolvedIsAsked
    <2>5. prov' = [manifest |-> image.root, plan |-> image.root, pins |-> asked.pins, pw |-> image.pw]
      BY <1>14, <1>n, <2>4 DEF WriteProvenance
    <2>6. RootfsInv'
      <3>1. SolvedIsAsked' /\ plan' = sol' /\ tar' = sol' /\ manifest' = sol' /\ ~Drifted'
        BY <2>1, <2>2, <2>3 DEF WholeInv, RootfsInv, SolvedIsAsked, DebOf, Drifted
      <3> QED BY <2>1, <3>1 DEF RootfsInv
    <2>7. TodoInv' /\ ImageInv' /\ EndInv'
      BY <2>1, <2>2, <2>3, <2>5 DEF WholeInv, TodoInv, ImageInv, EndInv
    <2> QED BY <1>9, <2>1, <2>2, <2>3, <2>6, <2>7 DEF WholeInv
  <1> QED
    BY <1>1, <1>2, <1>3, <1>4, <1>5, <1>6, <1>7, <1>8, <1>10, <1>11, <1>12, <1>13, <1>14 DEF Next

\* A record that vouches is either the one that vouched before, over the same files, or
\* that of a run of every node that has just come to its end.
LEMMA VouchSource ==
    ASSUME TypeOK, RecordInv, [Next]_vars, Vouches'
    PROVE  \/ Vouches /\ UNCHANGED <<files, asked>>
           \/ End /\ record.stage = "all"
  <1>a. None \notin Records
    BY PipelineAssumption
  <1>r. pc # "idle" => record \in Records /\ record.outcome = "running"
    BY DEF RecordInv
  <1>s. pc # "idle" => ~(record' = record) /\ ~(record'.outcome = "failed")
    BY <1>r DEF Vouches
  <1>1. CASE (\E p \in Pinnings : Update(p)) \/ (\E m \in Mirrors : MirrorMoves(m)) \/ UNCHANGED vars
    <2>1. UNCHANGED <<files, asked>> /\ record' = record
      BY <1>1 DEF Update, MirrorMoves, vars
    <2> QED BY <2>1 DEF Vouches
  <1>2. ASSUME NEW sel \in Selections, NEW flag \in {"none", "save", "drift"}, Admit(sel, flag) PROVE FALSE
    BY <1>2 DEF Admit, Vouches
  <1>3. CASE End
    <2>1. record'.stage = record.stage
      BY <1>3, <1>r, Settled DEF End
    <2> QED BY <1>3, <2>1 DEF Vouches
  <1>4. CASE Refuse \/ Stop \/ FfmpegLacksUserspace \/ CannotResolve \/ CannotAssemble \/ NothingToCommit
             \/ RecordCut \/ StageUbootCut \/ ExportTarCut \/ AssembleImageCut \/ ProvenanceCut
             \/ \E p \in Debs : StageDebsCut(p)
    <2>1. pc # "idle" /\ (Fails \/ CutShort)
      BY <1>4 DEF Refuse, Stop, FfmpegLacksUserspace, CannotResolve, CannotAssemble, NothingToCommit, RecordCut,
                  StageUbootCut, ExportTarCut, AssembleImageCut, ProvenanceCut, StageDebsCut, At, NodesDone
    <2>2. record'.outcome = "failed" \/ record' = record
      BY <1>r, <2>1, RunOver DEF Over
    <2> QED BY <1>s, <2>1, <2>2
  <1>5. CASE CheckDrift
    <2>1. pc # "idle" /\ (Fails \/ record' = record)
      BY <1>5 DEF CheckDrift
    <2>2. record'.outcome = "failed" \/ record' = record
      BY <1>r, <2>1, RunOver DEF Over
    <2> QED BY <1>s, <2>1, <2>2
  <1>6. CASE Preflight \/ CommitManifest \/ SaveNothing \/ WriteLock \/ StageFfmpeg \/ RecordArtifacts \/ StageUboot
             \/ ResolvePlan \/ ExportTar \/ WriteManifest \/ AssembleImage \/ WriteProvenance
             \/ \E p \in Debs : StageDebs(p)
    <2>1. pc # "idle" /\ record' = record
      BY <1>6 DEF Preflight, CommitManifest, SaveNothing, WriteLock, StageFfmpeg, RecordArtifacts, StageUboot,
                  ResolvePlan, ExportTar, WriteManifest, AssembleImage, WriteProvenance, StageDebs, At, NodesDone
    <2> QED BY <1>s, <2>1
  <1> QED BY <1>1, <1>2, <1>3, <1>4, <1>5, <1>6 DEF Next

\* What a whole run has at its end.
LEMMA EndOfAWholeRun ==
    ASSUME PipeInv, pc = "end", record.stage = "all"
    PROVE  /\ image \in Images /\ image.root = sol /\ SolvedIsAsked /\ ~Drifted
           /\ image.boot = Boot(asked.pins["uboot"])
           /\ prov = [manifest |-> image.root, plan |-> image.root, pins |-> asked.pins, pw |-> image.pw]
  <1>1. WholeInv /\ RecordInv /\ todo = {}
    BY DEF PipeInv, WholeInv, EndInv
  <1> QED BY <1>1 DEF WholeInv, RecordInv, RootfsInv, ImageInv, UbootInv, EndInv

LEMMA VouchKept ==
    ASSUME PipeInv, [Next]_vars PROVE VouchedImageIsAsked' /\ VouchedImageIsDescribed'
  <1>1. SUFFICES ASSUME Vouches' PROVE VouchedImageIsAsked' /\ VouchedImageIsDescribed'
    BY DEF VouchedImageIsAsked, VouchedImageIsDescribed
  <1>2. CASE Vouches /\ UNCHANGED <<files, asked>>
    <2>1. image' = image /\ prov' = prov /\ asked' = asked
      BY <1>2 DEF files
    <2>2. \A p : DebOf(p)' = DebOf(p)
      BY <2>1 DEF DebOf
    <2>3. VouchedImageIsAsked /\ VouchedImageIsDescribed
      BY DEF PipeInv
    <2> QED BY <1>2, <2>1, <2>2, <2>3 DEF VouchedImageIsAsked, VouchedImageIsDescribed
  <1>3. CASE End /\ record.stage = "all"
    <2>1. image' = image /\ prov' = prov /\ asked' = asked /\ pc = "end"
      BY <1>3 DEF End, files
    <2>2. \A p : DebOf(p)' = DebOf(p)
      BY <2>1 DEF DebOf
    <2>3. /\ image \in Images /\ image.root = sol /\ SolvedIsAsked /\ ~Drifted
          /\ image.boot = Boot(asked.pins["uboot"])
          /\ prov = [manifest |-> image.root, plan |-> image.root, pins |-> asked.pins, pw |-> image.pw]
      BY <1>3, <2>1, EndOfAWholeRun
    <2>4. image \notin {None, Torn}
      BY <2>3, PipelineAssumption
    <2>5. VouchedImageIsAsked'
      BY <2>1, <2>2, <2>3, <2>4 DEF VouchedImageIsAsked, SolvedIsAsked, Drifted, Boot
    <2>6. VouchedImageIsDescribed'
      BY <2>1, <2>3 DEF VouchedImageIsDescribed
    <2> QED BY <2>5, <2>6
  <1> QED BY <1>1, <1>2, <1>3, VouchSource DEF PipeInv

LEMMA PipeInitially == Init => PipeInv
  <1> SUFFICES ASSUME Init PROVE PipeInv
    OBVIOUS
  <1>1. PICK pins \in Pinnings, m \in Mirrors \cup {None} :
          /\ committed = IF m = None THEN None
                         ELSE [debs |-> [p \in Debs |-> PinnedDeb(pins, p)], mirror |-> m]
          /\ lock = [pins |-> pins, solved |-> committed]
    BY DEF Init
  <1>2. committed \in Rootfs \cup {None}
    <2>1. \A p \in Debs : PinnedDeb(pins, p) \in Deb
      BY PinnedFacts
    <2>2. [p \in Debs |-> PinnedDeb(pins, p)] \in [Debs -> Deb \cup {None}]
      BY <2>1
    <2> QED BY <1>1, <2>2 DEF Rootfs
  <1>3. TypeOK
    <2>1. lock \in [pins: Pinnings, solved: Rootfs \cup {None}]
      BY <1>1, <1>2
    <2>2. runs \in 0..MaxRuns
      BY PipelineAssumption DEF Init
    <2> QED BY <1>2, <2>1, <2>2 DEF Init, TypeOK
  <1>4. DirInv /\ RecordInv
    BY DEF Init, DirInv, RecordInv
  <1>5. VouchedImageIsAsked /\ VouchedImageIsDescribed
    BY DEF Init, VouchedImageIsAsked, VouchedImageIsDescribed, Vouches
  <1> QED BY <1>3, <1>4, <1>5 DEF Init, PipeInv

LEMMA PipeInductive == PipeInv /\ [Next]_vars => PipeInv'
  <1> SUFFICES ASSUME PipeInv, [Next]_vars PROVE PipeInv'
    OBVIOUS
  <1>1. TypeOK' /\ RecordInv'
    BY PipeTypes DEF PipeInv
  <1>2. DirInv'
    BY DirKept DEF PipeInv
  <1>3. (pc # "idle" /\ record.stage = "all")' => WholeInv'
    BY <1>1, WholeKept
  <1> QED BY <1>1, <1>2, <1>3, VouchKept DEF PipeInv
-----------------------------------------------------------------------------
\* The output directory, the record and the run hold what their types say whatever the
\* nodes, the pins, the faults and the number of runs.
THEOREM PipelineTypes == Spec => []TypeOK
  <1>1. PipeInv => TypeOK
    BY DEF PipeInv
  <1> QED BY <1>1, PipeInitially, PipeInductive, PTL DEF Spec

\* An image a succeeded whole build vouches for was made from the pinned .debs and the
\* pinned bootloader, and is the pinned solve when drift is refused (build.rs,
\* buildrecord.rs::vouches_for_image).
THEOREM VouchedImageIsAskedHolds == Spec => []VouchedImageIsAsked
  <1>1. PipeInv => VouchedImageIsAsked
    BY DEF PipeInv
  <1> QED BY <1>1, PipeInitially, PipeInductive, PTL DEF Spec

\* The provenance beside such an image names its solve, its plan, its pins and its
\* password (build.rs::write_provenance), never those of another run.
THEOREM VouchedImageIsDescribedHolds == Spec => []VouchedImageIsDescribed
  <1>1. PipeInv => VouchedImageIsDescribed
    BY DEF PipeInv
  <1> QED BY <1>1, PipeInitially, PipeInductive, PTL DEF Spec

\* A file of the output directory changes only while the record on disk says a build is
\* running, so what a reader was vouched for is not being rewritten.
THEOREM NothingMovesUnderAVouchHolds == Spec => NothingMovesUnderAVouch
  <1>1. ASSUME PipeInv, [Next]_vars, files' # files PROVE record # None /\ record.outcome = "running"
    <2>1. None \notin Records
      BY PipelineAssumption
    <2>2. pc # "idle"
      <3>1. CASE (\E p \in Pinnings : Update(p)) \/ (\E m \in Mirrors : MirrorMoves(m)) \/ UNCHANGED vars
        BY <1>1, <3>1 DEF Update, MirrorMoves, vars
      <3>2. ASSUME NEW sel \in Selections, NEW flag \in {"none", "save", "drift"}, Admit(sel, flag) PROVE FALSE
        BY <1>1, <3>2 DEF Admit
      <3>3. ASSUME pc = "idle" PROVE ~Next \/ (\E p \in Pinnings : Update(p)) \/ (\E m \in Mirrors : MirrorMoves(m))
                                   \/ \E sel \in Selections, flag \in {"none", "save", "drift"} : Admit(sel, flag)
        BY <3>3 DEF Next, Preflight, Refuse, Stop, End, StageDebs, StageDebsCut, StageFfmpeg, FfmpegLacksUserspace,
           RecordArtifacts, RecordCut, StageUboot, StageUbootCut, ResolvePlan, CannotResolve, ExportTar, ExportTarCut,
           WriteManifest, CheckDrift, AssembleImage, AssembleImageCut, CannotAssemble, WriteProvenance, ProvenanceCut,
           CommitManifest, NothingToCommit, SaveNothing, WriteLock, At, NodesDone
      <3> QED BY <1>1, <3>1, <3>2, <3>3
    <2> QED BY <1>1, <2>1, <2>2 DEF PipeInv, RecordInv
  <1>2. PipeInv /\ [Next]_vars => [files' # files => record # None /\ record.outcome = "running"]_vars
    BY <1>1
  <1> QED BY <1>2, PipeInitially, PipeInductive, PTL DEF Spec, NothingMovesUnderAVouch
=============================================================================
