------------------------------- MODULE Press -------------------------------
(***************************************************************************)
(* `boot2deb press` and `boot2deb seed` (cli/src/commands/press.rs,        *)
(* seed.rs, engine/src/press/, press_image in engine/src/image/mod.rs): an *)
(* operator's files made from one build's artifacts.  A role is streamed   *)
(* as the build left it, or re-assembled from the kept rootfs tar with     *)
(* files added and, on request, with identifiers of its own written into   *)
(* the partition table, the tree and the signed kernel.  The seed          *)
(* partition of the finished file is then rewritten.  Builds of the same   *)
(* recipe go on meanwhile.                                                 *)
(*                                                                         *)
(* A file is what it holds and the build it is of; an identity is "built", *)
(* the one every build of the recipe derives, or "fresh".  A tree is a     *)
(* function of its paths, and an entry of it is a kind, who wrote its      *)
(* bytes, and the identity they name.                                      *)
(***************************************************************************)
EXTENDS Naturals, Sequences

CONSTANTS
    MaxBuilds,   \* bound: builds in a behaviour
    Guids,       \* the leading four bytes of seed PARTUUIDs
    AskedOrders  \* what operators ask for

ASSUME PressAssumption ==
    MaxBuilds \in Nat \ {0} /\ Guids \subseteq [1..4 -> 0..255] /\ Guids # {}

Artifacts == {"image", "boot", "rootfs", "listing", "tar"}
Cards == {"card one", "card two"}
\* "sibling": a name of the operator's own that differs from the image's only in its
\* extension, so that the listing beside it is the build's.
Places == Artifacts \cup Cards \cup {"sibling"}
Unwritten == [holds |-> "nothing", of |-> 0]

VARIABLES
    method,   \* the boot method: "rkbin" or "depthcharge"
    signkey,  \* the signing key in the rootfs: the kernel's own, another one, or none
    guid,     \* the seed PARTUUID of the recipe's identity
    file,     \* file[p]: the artifacts and the operator's files
    beside,   \* beside[p]: the build whose files the listing next to p describes
    order,    \* what the press was asked for
    left,     \* the roles still to press
    ppc,      \* where the press is
    medium,   \* the file under way: its table's identity, its kernel slot's, and its tree
    serial,   \* the seed volume's serial on the file under way, and as first written
    raced     \* a build ran during the press

pressVars == <<method, signkey, guid, file, beside, order, left, ppc, medium, serial, raced>>

-----------------------------------------------------------------------------
(* The tree a press re-assembles. *)

Identities == {"built", "fresh"}
Entry(kind, by, names) == [kind |-> kind, by |-> by, names |-> names]
Entries ==
    [kind: {"dir", "file", "symlink"}, by: {"build", "press", "addition"}, names: Identities \cup {"none"}]

FSTAB == <<"etc", "fstab">>
SHADOW == <<"etc", "shadow">>
IMAGE_TOML == <<"etc", "image.toml">>
EXTLINUX_CONF == <<"boot", "extlinux.conf">>
KPART == <<"boot", "kpart">>
FIRSTBOOT_DEBS_DIR == <<"var", "firstboot-debs">>
EMBEDDED_IMAGE_DIR == <<"var", "install">>
BootFile == IF method = "rkbin" THEN EXTLINUX_CONF ELSE KPART

\* The tree in the rootfs tar: the boot method's file and fstab name the build's root.
TarTree ==
    [p \in {<<"etc">>, <<"boot">>, FSTAB, SHADOW, IMAGE_TOML, BootFile} |->
        IF Len(p) = 1 THEN Entry("dir", "build", "none")
        ELSE Entry("file", "build", IF p \in {FSTAB, BootFile} THEN "built" ELSE "none")]

\* AddedFile: a host file, a rendered template, a link, a package or the image itself.
\* What an operator names may also be a node of no such kind, or a template that names
\* nothing of the image's.
AddedFile(dest, content, names) == [dest |-> dest, content |-> content, names |-> names]
Contents == {"copy", "template", "symlink", "deb", "artifact"}
Dests ==
    {FSTAB, SHADOW, KPART, <<>>, <<"etc">>, <<"etc", "site">>, <<"dev", "x">>, <<"etc", "fstab", "x">>,
     <<"srv", "a">>, <<"srv", "a", "b">>, FIRSTBOOT_DEBS_DIR \o <<"deb">>, EMBEDDED_IMAGE_DIR \o <<"img">>}
Additions ==
    {AddedFile(d, c, n) : d \in Dests, c \in Contents \cup {"node", "misspelt"}, n \in {"none", "built"}}

\* normalize_dest: a file's path, not under /dev, and not one that is made for each image.
RESERVED_DESTS == {IMAGE_TOML, SHADOW}
NormalizeDest(d) == d # <<>> /\ Head(d) # "dev" /\ d \notin RESERVED_DESTS

\* host_meta: a file or a link.  Template::parse: every name is one of the image's.
HostFile(f) == f.content # "node"
Parses(f) == f.content # "misspelt"

\* copy, copy_tree, deb, parse_template: what is refused when the additions are collected.
Collects(f) == NormalizeDest(f.dest) /\ HostFile(f) /\ Parses(f)

\* embed_image
EmbedImage == AddedFile(EMBEDDED_IMAGE_DIR \o <<"img">>, "artifact", "none")

\* AddedFile::kind: a template is rendered with the identity of the image it goes into.
Placed(f, identity) ==
    Entry(IF f.content = "symlink" THEN "symlink" ELSE "file", "addition",
          IF f.content = "template" THEN identity ELSE f.names)

Ancestors(d) == {SubSeq(d, 1, n) : n \in 1..(Len(d) - 1)}

\* Two additions claim a path, or one would swallow a directory or stand below a file.
MergeRefused(tree, adds) ==
    \/ \E f, g \in adds : f # g /\ f.dest = g.dest
    \/ \E f \in adds : f.dest \in DOMAIN tree /\ tree[f.dest].kind = "dir"
    \/ \E f \in adds : /\ f.dest \notin DOMAIN tree
                       /\ \E p \in Ancestors(f.dest) \cap DOMAIN tree : tree[p].kind # "dir"

\* TreeAdditions::apply, write_marker: the parents that are missing are made.
Merge(tree, adds, identity) ==
    LET dests == {f.dest : f \in adds}
        added(p) == CHOOSE f \in adds : f.dest = p
        parents == UNION {Ancestors(d) : d \in dests \ DOMAIN tree} IN
    [p \in DOMAIN tree \cup parents \cup dests |->
        IF p \in dests THEN Placed(added(p), identity)
        ELSE IF p = IMAGE_TOML THEN Entry("file", "press", "none")
        ELSE IF p \in DOMAIN tree THEN tree[p]
        ELSE Entry("dir", "addition", "none")]

\* The merge makes a directory of an addition's parent without looking whether another
\* addition is a file there; what the formatter makes of both is its own affair.
NamedTwice(adds) == \E f, g \in adds : f.dest \in Ancestors(g.dest)

\* TreeRekey::check: files under /etc and /boot that name the build.
StillBuilt(tree) ==
    \E p \in DOMAIN tree : Head(p) \in {"etc", "boot"} /\ tree[p].kind = "file" /\ tree[p].names = "built"

\* splice_first_boot_password: last, so the password of this image wins.
Spliced(tree) == [tree EXCEPT ![SHADOW] = Entry("file", "press", "none")]
-----------------------------------------------------------------------------
PressOver == {"idle", "pressed", "refused", "failed"}
Orders ==
    [layout: {"combined", "split", "bootloader"}, outs: Seq(Places), keys: BOOLEAN,
     adds: SUBSET Additions, fresh: BOOLEAN, embed: BOOLEAN]

ASSUME OrdersAssumption == AskedOrders \subseteq Orders

NoOrder ==
    [layout |-> "combined", outs |-> <<>>, keys |-> FALSE, adds |-> {}, fresh |-> FALSE,
     embed |-> FALSE]

\* extract_signing_key: the first key of the rootfs, which may be no key of this kernel's.
SigningKeys == {"own", "another", "none"}

PressTypeOK ==
    /\ method \in {"rkbin", "depthcharge"} /\ guid \in Guids
    /\ file \in [Places -> [holds: Artifacts \cup {"nothing", "another"}, of: 0..MaxBuilds]]
    /\ beside \in [Places -> 0..MaxBuilds]
    /\ order \in Orders
    /\ ppc \in PressOver \cup {"next", "verify", "list", "seed"}
    /\ signkey \in SigningKeys
    /\ medium.table \in Identities /\ medium.slot \in Identities \cup {"none"}
    /\ \A p \in DOMAIN medium.tree : medium.tree[p] \in Entries
    /\ raced \in BOOLEAN

\* roles: one artifact, or the two of a split layout.
Roles(layout) ==
    CASE layout = "combined" -> <<"image">>
      [] layout = "split" -> <<"boot", "rootfs">>
      [] layout = "bootloader" -> <<"boot">>

ContainsRootfs(role) == role # "boot"

\* ImageIdentity::seed_volume_id: the leading bytes of the PARTUUID.
SeedVolumeId(g) == g

\* The same, of the text rewrite_seed reads back off the table: two hex digits a byte.
TextVolumeId(g) ==
    LET digit(n) == IF n < 10 THEN 48 + n ELSE 87 + n
    IN <<digit(g[1] \div 16), digit(g[1] % 16), digit(g[2] \div 16), digit(g[2] % 16)>>

BuiltAt(v) ==
    [p \in Places |-> IF p \in Artifacts THEN [holds |-> p, of |-> v] ELSE Unwritten]

\* What build_image left: its slot's kernel and its tree name the build, and the tree's
\* account has the build's password.
AsBuilt ==
    [table |-> "built", slot |-> IF method = "depthcharge" THEN "built" ELSE "none", tree |-> Spliced(TarTree)]

PressInit ==
    /\ method \in {"rkbin", "depthcharge"} /\ guid \in Guids
    /\ file = BuiltAt(1) /\ beside = [p \in Places |-> 0]
    /\ order = NoOrder
    /\ left = <<>> /\ ppc = "idle"
    /\ signkey \in IF method = "depthcharge" THEN SigningKeys ELSE {"own"}
    /\ medium = AsBuilt
    /\ serial = [first |-> SeedVolumeId(guid), now |-> SeedVolumeId(guid)]
    /\ raced = FALSE

\* --embed-image implies an identity of its own.
IsFresh(o) == o.fresh \/ o.embed

\* The listing of an output is its name with another extension.
OnListing(p) == p \in {"image", "sibling"}

\* Mutant: only an output on the streamed file itself is refused.
RefuseBuildArtifactsFileOnly(o) ==
    \E i \in DOMAIN o.outs : o.outs[i] = Roles(o.layout)[i]

\* refuse_build_artifacts: an output on its own role's artifact, or whose listing would
\* land on the build's.
RefuseBuildArtifacts(o) ==
    \E i \in DOMAIN o.outs :
        LET role == Roles(o.layout)[i]
        IN o.outs[i] = role \/ (ContainsRootfs(role) /\ OnListing(o.outs[i]))

\* A press that has only a boot image takes no keys, additions or identity.
Applies(o) ==
    \/ \E i \in DOMAIN Roles(o.layout) : ContainsRootfs(Roles(o.layout)[i])
    \/ ~o.keys /\ o.adds = {} /\ ~IsFresh(o)

\* The options are taken together with everything refused before a byte is written:
\* bind_outputs wants one output per role, --embed-image a combined image, and resolution
\* gives depthcharge no split layout.
AskPress(o) ==
    /\ ppc = "idle"
    /\ order' = o /\ raced' = FALSE
    /\ IF /\ Len(o.outs) = Len(Roles(o.layout)) /\ Applies(o)
          /\ \A f \in o.adds : Collects(f)
          /\ o.embed => o.layout = "combined"
          /\ method = "depthcharge" => o.layout # "split"
          /\ ~RefuseBuildArtifacts(o)
         THEN ppc' = "next" /\ left' = Roles(o.layout)
         ELSE ppc' = "refused" /\ left' = <<>>
    /\ UNCHANGED <<method, signkey, guid, file, beside, medium, serial>>

Role == Head(left)
Out == order.outs[Len(Roles(order.layout)) - Len(left) + 1]
Reassembles == ContainsRootfs(Role) /\ (order.adds # {} \/ IsFresh(order))

\* The stream path copies the artifact it finds, seed and identity with it.
StreamRole ==
    /\ ppc = "next" /\ left # <<>> /\ ~Reassembles
    /\ file' = [file EXCEPT ![Out] = file[Role]]
    /\ medium' = AsBuilt
    /\ serial' = [first |-> SeedVolumeId(guid), now |-> SeedVolumeId(guid)]
    /\ ppc' = "verify"
    /\ UNCHANGED <<method, signkey, guid, beside, order, left, raced>>

\* verify_digest re-reads the output: a medium that gives back something else fails.
VerifyRole ==
    /\ ppc = "verify"
    /\ ppc' \in {IF ContainsRootfs(Role) THEN "list" ELSE "seed", "failed"}
    /\ UNCHANGED <<method, signkey, guid, file, beside, order, left, medium, serial, raced>>

\* The build's listing is copied beside a streamed image; copied onto itself it is empty.
CopyListing ==
    /\ ppc = "list"
    /\ beside' = [beside EXCEPT ![Out] = file["listing"].of]
    /\ file' = IF OnListing(Out) THEN [file EXCEPT !["listing"] = Unwritten] ELSE file
    /\ ppc' = "seed"
    /\ UNCHANGED <<method, signkey, guid, order, left, medium, serial, raced>>

\* extract_kpart, resign_kpart: an image that carries its boot payload takes the signed
\* kernel out of the tar and, for an identity of its own, signs it again with the key that
\* is there, if that is the kernel's.
TakesKernel == Role = "image" /\ method = "depthcharge"
ResignRefused == TakesKernel /\ IsFresh(order) /\ signkey # "own"
Slot == IF ~TakesKernel THEN "none" ELSE IF IsFresh(order) THEN "fresh" ELSE TarTree[KPART].names

\* verify_kpart: the kernel in the slot must root on the image it is in.
VerifyKpart(identity) == Slot \in {"none", identity}

\* TreeRekey::apply: fstab, the menu of the boot method, and the kernel signed again.
Rekey(tree) ==
    [p \in DOMAIN tree |->
        IF p \in {FSTAB, EXTLINUX_CONF} \/ (p = KPART /\ Slot = "fresh")
          THEN Entry("file", "press", "fresh") ELSE tree[p]]

AdditionsOf(o) == o.adds \cup (IF o.embed THEN {EmbedImage} ELSE {})
PressedIdentity == IF IsFresh(order) THEN "fresh" ELSE "built"

\* PressTree::apply: the rewrite, then the additions, which win over it.
Rewritten == IF IsFresh(order) THEN Rekey(TarTree) ELSE TarTree
PressedTree == Merge(Rewritten, AdditionsOf(order), PressedIdentity)

\* What ends a re-assembly before the image is formatted.
TreeRefused ==
    \/ ResignRefused
    \/ ~VerifyKpart(PressedIdentity)
    \/ MergeRefused(Rewritten, AdditionsOf(order))
    \/ IsFresh(order) /\ StillBuilt(PressedTree)

\* press_image: the image is laid out anew from the tar.
PressedImage == [holds |-> Role, of |-> file["tar"].of]

\* build_rootfs_ext4: the tree of the tar, merged, and the password of this image.
FormattedTree == Spliced(PressedTree)

\* verify_clean: the scan of the image, and e2fsck's where one is, may find it damaged.
VerifyClean == {"seed", "failed"}

\* The pressed image gets a listing of its own.
ReassembleRole ==
    /\ ppc = "next" /\ left # <<>> /\ Reassembles
    /\ \/ /\ TreeRefused
          /\ ppc' = "failed" /\ UNCHANGED <<file, beside, medium, serial>>
       \/ /\ ~TreeRefused
          /\ medium' = [table |-> PressedIdentity, slot |-> Slot, tree |-> FormattedTree]
          /\ LET written == [file EXCEPT ![Out] = PressedImage] IN
             file' = IF OnListing(Out) THEN [written EXCEPT !["listing"].holds = "another"] ELSE written
          /\ beside' = [beside EXCEPT ![Out] = file["tar"].of]
          /\ serial' = [first |-> SeedVolumeId(guid), now |-> SeedVolumeId(guid)]
          /\ ppc' \in VerifyClean
    /\ UNCHANGED <<method, signkey, guid, order, left, raced>>

\* rewrite_seed on the artifact that has a rootfs, when keys were named.
SeedRole ==
    /\ ppc = "seed"
    /\ serial' = IF order.keys /\ ContainsRootfs(Role)
                   THEN [serial EXCEPT !.now = TextVolumeId(guid)] ELSE serial
    /\ left' = Tail(left)
    /\ ppc' = IF Tail(left) = <<>> THEN "pressed" ELSE "next"
    /\ UNCHANGED <<method, signkey, guid, file, beside, order, medium, raced>>

\* `boot2deb seed` on a pressed file.
SeedFile ==
    /\ ppc = "pressed" /\ order.layout # "bootloader"
    /\ serial' = [serial EXCEPT !.now = TextVolumeId(guid)]
    /\ UNCHANGED <<method, signkey, guid, file, beside, order, left, ppc, medium, raced>>

\* Another build of the recipe replaces the artifacts (as one step: Pipeline has its grain).
Rebuild ==
    /\ file["tar"].of < MaxBuilds
    /\ LET v == file["tar"].of + 1
       IN file' = [p \in Places |-> IF p \in Artifacts THEN [holds |-> p, of |-> v] ELSE file[p]]
    /\ raced' = (ppc \notin PressOver)
    /\ ppc' = IF ppc \in PressOver THEN "idle" ELSE ppc
    /\ order' = IF ppc \in PressOver THEN NoOrder ELSE order
    /\ UNCHANGED <<method, signkey, guid, beside, left, medium, serial>>

PressNext ==
    \/ \E o \in AskedOrders : AskPress(o)
    \/ StreamRole \/ VerifyRole \/ CopyListing \/ ReassembleRole \/ SeedRole \/ SeedFile
    \/ Rebuild

PressSpec == PressInit /\ [][PressNext]_pressVars
-----------------------------------------------------------------------------
LastRole == Roles(order.layout)[Len(order.outs)]

\* bind_outputs does not ask whether two outputs are one file.
OwnFiles ==
    /\ \A i \in DOMAIN order.outs : order.outs[i] \notin Artifacts
    /\ \A i, j \in DOMAIN order.outs : i # j => order.outs[i] # order.outs[j]

\* A press to the operator's own files, one for each role, that ends well has given each of
\* them its role, of one build, with a listing that describes it, and the build's artifacts
\* are still the build's.  A build that ran during the press is outside this claim.
DescribedBeside ==
    ppc = "pressed" /\ ~raced /\ OwnFiles =>
        /\ \A p \in Artifacts : file[p].holds = p
        /\ \A i \in DOMAIN order.outs :
              LET role == Roles(order.layout)[i]
                  out == file[order.outs[i]]
              IN out.holds = role /\ (ContainsRootfs(role) => beside[order.outs[i]] = out.of)

\* "identifiers no other image contains": the partition table of a pressed file, the
\* signed kernel in its slot and every file of its tree that the boot reads name one
\* identity, and a card that carries the image it installs never shares that image's.
RootsOnItself ==
    ppc = "pressed" /\ ContainsRootfs(LastRole) =>
        /\ medium.slot \in {"none", medium.table}
        /\ \A p \in DOMAIN medium.tree :
              Head(p) \in {"etc", "boot"} /\ medium.tree[p].kind = "file" =>
                  medium.tree[p].names \in {"none", medium.table}
        /\ order.embed => medium.table = "fresh"

\* The tree of a pressed file is the build's with what was added: every path has its
\* directories above it, every addition is where it was put, everything else is the
\* build's or the press's own, and nobody's file replaced the password of the image.
TreeIsMerged ==
    ppc = "pressed" /\ ContainsRootfs(LastRole) /\ ~NamedTwice(AdditionsOf(order)) =>
        LET tree == medium.tree
            dests == {f.dest : f \in AdditionsOf(order)} IN
        /\ \A p \in DOMAIN tree : \A q \in Ancestors(p) : q \in DOMAIN tree /\ tree[q].kind = "dir"
        /\ \A d \in dests : d \in DOMAIN tree /\ tree[d].kind # "dir" /\ tree[d].by = "addition"
        /\ \A p \in DOMAIN TarTree \ dests : p \in DOMAIN tree /\ tree[p].kind = TarTree[p].kind /\ tree[p].by # "addition"
        /\ tree[SHADOW].by = "press"

\* A press that ends well leaves files that are described beside them, root on themselves
\* and hold the build's tree with what was added.
PressedIsDescribed == DescribedBeside /\ RootsOnItself /\ TreeIsMerged

\* "re-seeding does not change the volume's identity": the serial a press or a seed run
\* leaves is the one the image was first given.
ReseedKeepsSerial == serial.now = serial.first

\* "Refuse an output that would land on the build's own artifacts": after a press each of
\* them still holds what the build wrote.
PressLeavesBuild ==
    ppc = "pressed" => \A p \in Artifacts : file[p].holds = p
=============================================================================
