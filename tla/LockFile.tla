------------------------------ MODULE LockFile ------------------------------
(***************************************************************************)
(* The lock file (core/src/lock.rs): what it pins and what a build record, *)
(* a comparison and the source store read out of it.                       *)
(*                                                                         *)
(* An optional value is a sequence of at most one element.  One tree       *)
(* stands for each list of named trees (userspace, modules, apps).         *)
(***************************************************************************)
EXTENDS Naturals, Sequences

Has(o) == o # <<>>
The(o) == o[1]
Optional(S) == {<<>>} \cup {<<x>> : x \in S}

\* The trees that are pinned by a commit: the kernel and u-boot are cloned by the name of
\* their ref, the userspace libraries, ffmpeg and its graft, modules, apps and their
\* packaging by their commit.
Shallow == {"kernel", "uboot"}
GitAxes == Shallow \cup {"lib", "ffmpeg", "graft", "mod", "app", "packaging"}
PatchAxes == {"patches", "ubootpatches", "apppatches"}

GitPin(source, ref, commit) == [source |-> source, ref |-> ref, commit |-> commit]
PatchesPin(series, source, ref, commit) ==
    [series |-> series, source |-> source, ref |-> ref, commit |-> commit]
BlobPin(file, sha) == [file |-> file, sha |-> sha]

RefOf(o) == IF Has(o) THEN <<The(o).ref>> ELSE <<>>
CommitOf(o) == IF Has(o) THEN <<The(o).commit>> ELSE <<>>
SeriesOf(o) == IF Has(o) THEN The(o).series ELSE <<>>

\* Lock: an id with every kernel commit, a packaging tree and an SDK with every app that
\* is built from one, a rootfs date and a suite with every image.
LockFields ==
    {"id", "git", "patches", "blobs", "debs", "sdk", "nuget", "distro", "suite", "epoch", "manifest", "snapshot"}
IsLock(l) ==
    /\ LockFields \subseteq DOMAIN l
    /\ DOMAIN l.git = GitAxes /\ DOMAIN l.patches = PatchAxes
    /\ \A a \in GitAxes : Has(l.git[a]) => DOMAIN The(l.git[a]) = {"source", "ref", "commit"}
    /\ \A x \in PatchAxes : Has(l.patches[x]) => DOMAIN The(l.patches[x]) = {"series", "source", "ref", "commit"}
    /\ Has(l.git["kernel"]) => Has(l.id)
    /\ Has(l.git["packaging"]) => Has(l.git["app"])
    /\ Has(l.sdk) => DOMAIN The(l.sdk) = {"version", "sha"}
=============================================================================
