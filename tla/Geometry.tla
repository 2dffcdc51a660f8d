------------------------------ MODULE Geometry ------------------------------
(***************************************************************************)
(* The layout of an image (engine/src/image/geometry.rs, gpt.rs and        *)
(* build_image in image/mod.rs), from the offsets and the size a recipe    *)
(* authored.  An authored size lays out the disk and the filesystem fills  *)
(* it; a fitted one is decided by the filesystem, several stages after the *)
(* preflight that has to refuse a bad layout.  Sizes are bytes.            *)
(***************************************************************************)
EXTENDS Integers

CONSTANTS
    Top,        \* u64::MAX
    MaxSlack,   \* MAX_SLACK_BYTES
    MaxShare,   \* Slack::MAX_SHARE, hundredths of one percent
    Heads,      \* the boot methods' offsets: what resolution hands over
    Sizes,      \* the authored image sizes
    Lengths,    \* lengths of boot payloads
    Formatted   \* what the formatter's fit search may answer

SECTOR == 512
EXT4_BLOCK == 4096
MIN_ROOTFS_BYTES == EXT4_BLOCK * 8 * EXT4_BLOCK
GPT_FRONT_SECTORS == 34
GPT_BACK_SECTORS == 33
SEED_PARTITION_BYTES == 1048576
MAX_KPART_SLOTS == 4

HeadType ==
    [method: {"rkbin", "depthcharge"}, idb: Nat, itb: Nat, root: Nat,
     kpart: Nat, ksize: Nat, slots: 1..MAX_KPART_SLOTS]
Fits == {"fit", "share"}
SizeType == [kind: {"fixed", "none"} \cup Fits, n: Nat]

ASSUME GeometryAssumption ==
    /\ Top \in Nat /\ MaxSlack \in Nat /\ MaxShare \in Nat
    /\ Heads \subseteq HeadType /\ Sizes \subseteq SizeType
    /\ Lengths \subseteq Nat
    /\ Formatted \subseteq {n \in Nat : n % EXT4_BLOCK = 0}

VARIABLES
    head,      \* the authored head of the disk
    authored,  \* the size asked for; "none": a u-boot deliverable
    lengths,   \* the lengths of the staged payloads
    geom,      \* the whole-disk size and the filesystem's, once resolved
    ipc        \* where the image node is

geometryVars == <<head, authored, lengths, geom, ipc>>

NoGeom == [total |-> 0, rootfs |-> 0]

GeometryTypeOK ==
    /\ head \in Heads /\ authored \in Sizes
    /\ lengths \in [first: Lengths \cup {0}, second: Lengths \cup {0}]
    /\ geom \in [total: Nat, rootfs: Nat]
    /\ ipc \in {"authored", "checked", "staged", "laid", "refused", "overrun", "failed", "gap"}
-----------------------------------------------------------------------------
\* parse_size: what is authored is a number of units, and a product past u64 is refused.
ParseSize(n) == n <= Top

\* kpart: the byte the last slot ends at, each slot's end a checked sum.
SlotsEnd(h) == h.kpart + h.slots * h.ksize

\* rootfs_offset: authored for a raw gap, derived from the slots for depthcharge.
RootfsOff(h) == IF h.method = "rkbin" THEN h.root ELSE SlotsEnd(h)

\* BootRegion::seed_off: below the rootfs, or below the slots.
SeedOff(h) ==
    IF h.method = "rkbin" THEN h.root - SEED_PARTITION_BYTES ELSE h.kpart - SEED_PARTITION_BYTES

\* raw_gap
RawGap(h) ==
    /\ ParseSize(h.idb) /\ ParseSize(h.itb)
    /\ h.idb % SECTOR = 0 /\ h.itb % SECTOR = 0
    /\ h.idb >= GPT_FRONT_SECTORS * SECTOR
    /\ h.idb < h.itb /\ h.itb < h.root

\* kpart
Kpart(h) ==
    /\ ParseSize(h.kpart) /\ ParseSize(h.ksize)
    /\ h.kpart % SECTOR = 0 /\ h.ksize % SECTOR = 0
    /\ h.ksize > 0
    /\ h.kpart >= GPT_FRONT_SECTORS * SECTOR
    /\ SlotsEnd(h) <= Top

BootEnd(h) == IF h.method = "rkbin" THEN h.itb ELSE SlotsEnd(h)

\* BootRegion::resolve
BootRegion(h) ==
    /\ ParseSize(RootfsOff(h))
    /\ h.method = "rkbin" => RawGap(h)
    /\ h.method = "depthcharge" => Kpart(h)
    /\ RootfsOff(h) % SECTOR = 0 /\ RootfsOff(h) % EXT4_BLOCK = 0
    /\ BootEnd(h) <= RootfsOff(h)
    /\ h.method = "rkbin" => h.root >= SEED_PARTITION_BYTES /\ h.itb < SeedOff(h)
    /\ h.method = "depthcharge" => SeedOff(h) >= GPT_FRONT_SECTORS * SECTOR

\* Mutated: u-boot.itb bounded by the rootfs it is ahead of, not by the seed.
CheckPayloadFitToRootfs(h, first, second) ==
    IF h.method = "rkbin"
    THEN h.idb + first <= h.itb /\ h.itb + second <= h.root
    ELSE h.kpart + first <= h.kpart + h.ksize

\* check_payload_fit: each payload ends, in u64, at or before what follows it.
CheckPayloadFit(h, first, second) ==
    IF h.method = "rkbin"
    THEN /\ h.idb + first <= Top /\ h.idb + first <= h.itb
         /\ h.itb + second <= Top /\ h.itb + second <= SeedOff(h)
    ELSE h.kpart + first <= Top /\ h.kpart + first <= h.kpart + h.ksize

\* Geometry::resolve: the usable range behind the head, floored to whole blocks.
LastUsable(total) == (total \div SECTOR) - (GPT_BACK_SECTORS + 1)
PartitionBytes(h, total) ==
    ((((LastUsable(total) - RootfsOff(h) \div SECTOR) + 1) * SECTOR) \div EXT4_BLOCK) * EXT4_BLOCK

\* assemble: whole blocks, whole sectors, and an end before the backup table.
Assembles(h, total, rootfs) ==
    /\ rootfs % EXT4_BLOCK = 0 /\ total % SECTOR = 0
    /\ RootfsOff(h) \div SECTOR + rootfs \div SECTOR <= total \div SECTOR - GPT_BACK_SECTORS

GeometryResolves(h, total) ==
    /\ ParseSize(total) /\ total % SECTOR = 0
    /\ BootRegion(h)
    /\ LastUsable(total) >= RootfsOff(h) \div SECTOR
    /\ PartitionBytes(h, total) >= MIN_ROOTFS_BYTES
    /\ Assembles(h, total, PartitionBytes(h, total))

\* around_rootfs: the smallest medium that holds this filesystem at this offset.
FittedTotal(h, rootfs) == RootfsOff(h) + rootfs + GPT_BACK_SECTORS * SECTOR
AroundRootfs(h, rootfs) ==
    /\ BootRegion(h)
    /\ FittedTotal(h, rootfs) <= Top
    /\ Assembles(h, FittedTotal(h, rootfs), rootfs)

\* fit_slack: bytes or a share of the filesystem, each within what the search accepts.
FitSlack(s) ==
    IF s.kind = "share" THEN s.n <= MaxShare ELSE ParseSize(s.n) /\ s.n <= MaxSlack

\* Mutated: the head is left to the image node when the size is fitted.
ValidateGeometryLate(h, s) ==
    CASE s.kind = "none" -> BootRegion(h)
      [] s.kind = "fixed" -> GeometryResolves(h, s.n)
      [] s.kind \in Fits -> FitSlack(s)

\* validate_geometry: what can be refused before anything is built.
ValidateGeometry(h, s) ==
    CASE s.kind = "none" -> BootRegion(h)
      [] s.kind = "fixed" -> GeometryResolves(h, s.n)
      [] s.kind \in Fits -> FitSlack(s) /\ BootRegion(h)
-----------------------------------------------------------------------------
\* resolve_device refuses a u-boot deliverable of a board that builds no u-boot.
GeometryInit ==
    /\ head \in Heads /\ authored \in Sizes
    /\ authored.kind = "none" => head.method = "rkbin"
    /\ lengths = [first |-> 0, second |-> 0] /\ geom = NoGeom /\ ipc = "authored"

\* preflight_config, before any stage compiles.
PreflightGeometry ==
    /\ ipc = "authored"
    /\ ipc' = IF ValidateGeometry(head, authored) THEN "checked" ELSE "refused"
    /\ UNCHANGED <<head, authored, lengths, geom>>

\* The payloads exist, and are measured against the head before the rootfs is formatted.
StagePayloads(first, second) ==
    /\ ipc = "checked"
    /\ head.method = "depthcharge" => second = 0
    /\ lengths' = [first |-> first, second |-> second]
    /\ ipc' = IF ~BootRegion(head) THEN "failed"
              ELSE IF CheckPayloadFit(head, first, second) THEN "staged" ELSE "overrun"
    /\ UNCHANGED <<head, authored, geom>>

\* build_image of an authored size: the disk first, then the filesystem that fills it.
LayOutFixed ==
    /\ ipc = "staged" /\ authored.kind = "fixed"
    /\ IF GeometryResolves(head, authored.n)
       THEN /\ ipc' = "laid"
            /\ geom' = [total |-> authored.n, rootfs |-> PartitionBytes(head, authored.n)]
       ELSE ipc' = "failed" /\ geom' = geom
    /\ UNCHANGED <<head, authored, lengths>>

\* build_image of a fitted size: the filesystem first, then the disk around it.
LayOutFitted(rootfs) ==
    /\ ipc = "staged" /\ authored.kind \in Fits
    /\ IF FitSlack(authored) /\ AroundRootfs(head, rootfs)
       THEN /\ ipc' = "laid"
            /\ geom' = [total |-> FittedTotal(head, rootfs), rootfs |-> rootfs]
       ELSE ipc' = "failed" /\ geom' = [total |-> 0, rootfs |-> rootfs]
    /\ UNCHANGED <<head, authored, lengths>>

\* build_bootloader_image: the gap alone, which depthcharge has not.
LayOutGap ==
    /\ ipc = "staged" /\ authored.kind = "none"
    /\ ipc' = IF head.method = "rkbin" THEN "gap" ELSE "failed"
    /\ UNCHANGED <<head, authored, lengths, geom>>

GeometryNext ==
    \/ PreflightGeometry
    \/ \E first \in Lengths, second \in Lengths \cup {0} : StagePayloads(first, second)
    \/ LayOutFixed
    \/ \E rootfs \in Formatted : LayOutFitted(rootfs)
    \/ LayOutGap

GeometrySpec == GeometryInit /\ [][GeometryNext]_geometryVars
-----------------------------------------------------------------------------
Extent(lo, hi) == [lo |-> lo, hi |-> hi]

\* write_table and assemble_disk: what is written, and what the table claims.
Payloads(h, l) ==
    IF h.method = "rkbin"
    THEN {Extent(h.idb, h.idb + l.first), Extent(h.itb, h.itb + l.second)}
    ELSE {Extent(h.kpart, h.kpart + l.first)}

Slots(h) ==
    {Extent(h.kpart + (i - 1) * h.ksize, h.kpart + i * h.ksize) : i \in 1..h.slots}

Claimed(h, l, g) ==
    {Extent(0, GPT_FRONT_SECTORS * SECTOR),
     Extent(SeedOff(h), SeedOff(h) + SEED_PARTITION_BYTES),
     Extent(RootfsOff(h), RootfsOff(h) + g.rootfs),
     Extent(g.total - GPT_BACK_SECTORS * SECTOR, g.total)}
        \cup (IF h.method = "rkbin" THEN Payloads(h, l) ELSE Slots(h))

\* When the disk is laid out, no two of the regions written or claimed overlap (both
\* tables, the payloads or the kernel slots, the seed, the rootfs), every one is on the
\* disk, and the rootfs is whole blocks on a block boundary.
LaidOutApart ==
    ipc = "laid" =>
        /\ \A a, b \in Claimed(head, lengths, geom) : a # b => a.hi <= b.lo \/ b.hi <= a.lo
        /\ \A a \in Claimed(head, lengths, geom) : 0 <= a.lo /\ a.lo <= a.hi /\ a.hi <= geom.total
        /\ RootfsOff(head) % EXT4_BLOCK = 0 /\ geom.rootfs % EXT4_BLOCK = 0
        /\ geom.total % SECTOR = 0 /\ geom.total <= Top

\* "a bad layout fails before any stage compiles": the image node refuses no layout the
\* preflight let through, except a fitted one whose measured size runs past an offset.
PreflightIsEnough ==
    ipc = "failed" => authored.kind \in Fits /\ FittedTotal(head, geom.rootfs) > Top
=============================================================================
