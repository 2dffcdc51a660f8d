---------------------------- MODULE PapersProofs ----------------------------
(***************************************************************************)
(* What decides a build point, for every value of the constants: the       *)
(* layout of its image for every head, size, payload and filesystem, its   *)
(* lock for every layers, upstreams and checkouts, what a survey says of   *)
(* it for every config tree, and what a request resolves to for every      *)
(* layers.                                                                 *)
(***************************************************************************)
EXTENDS Geometry, Locks, Config, Resolution, FiniteSetTheorems, Induction, TLAPS

\* What the image node knows at each of its places.
Known ==
    /\ ipc = "checked" => ValidateGeometry(head, authored)
    /\ ipc = "staged" =>
          /\ ValidateGeometry(head, authored) /\ BootRegion(head)
          /\ CheckPayloadFit(head, lengths.first, lengths.second)
    /\ ipc = "laid" =>
          /\ BootRegion(head)
          /\ CheckPayloadFit(head, lengths.first, lengths.second)
          /\ Assembles(head, geom.total, geom.rootfs) /\ geom.total <= Top

GeometryInv ==
    /\ GeometryTypeOK /\ Known /\ PreflightIsEnough
    /\ authored.kind = "none" => head.method = "rkbin"

LEMMA SizesFacts ==
    ASSUME NEW s \in Sizes
    PROVE  s.kind \in {"fixed", "none", "fit", "share"} /\ s.n \in Nat
BY GeometryAssumption DEF SizeType, Fits

LEMMA LengthsFacts ==
    ASSUME GeometryTypeOK
    PROVE  /\ lengths.first \in Nat /\ lengths.second \in Nat
           /\ lengths = [first |-> lengths.first, second |-> lengths.second]
<1>1. Lengths \cup {0} \subseteq Nat
  BY GeometryAssumption
<1>2. /\ lengths.first \in Lengths \cup {0} /\ lengths.second \in Lengths \cup {0}
      /\ lengths = [first |-> lengths.first, second |-> lengths.second]
  BY DEF GeometryTypeOK
<1> QED BY <1>1, <1>2

LEMMA HeadFacts ==
    ASSUME NEW h \in Heads
    PROVE  /\ h.method \in {"rkbin", "depthcharge"}
           /\ h.idb \in Nat /\ h.itb \in Nat /\ h.root \in Nat
           /\ h.kpart \in Nat /\ h.ksize \in Nat /\ h.slots \in 1..4
BY GeometryAssumption DEF HeadType, MAX_KPART_SLOTS

\* A slot count is one of four, which makes the end of the slots a linear sum.
LEMMA SlotsEndFacts ==
    ASSUME NEW h \in Heads
    PROVE  /\ SlotsEnd(h) \in Nat /\ RootfsOff(h) \in Nat
           /\ SlotsEnd(h) >= h.kpart
<1>1. h.slots \in {1, 2, 3, 4} /\ h.kpart \in Nat /\ h.ksize \in Nat /\ h.root \in Nat
  BY HeadFacts
<1>2. h.slots * h.ksize \in Nat
  <2>1. CASE h.slots = 1 BY <1>1, <2>1
  <2>2. CASE h.slots = 2 BY <1>1, <2>2
  <2>3. CASE h.slots = 3 BY <1>1, <2>3
  <2>4. CASE h.slots = 4 BY <1>1, <2>4
  <2> QED BY <1>1, <2>1, <2>2, <2>3, <2>4
<1> QED BY <1>1, <1>2 DEF SlotsEnd, RootfsOff

\* What assemble checks in sectors, in bytes.
LEMMA AssembledEnd ==
    ASSUME NEW off \in Nat, NEW rootfs \in Nat, NEW total \in Nat,
           off % 512 = 0, rootfs % 4096 = 0, total % 512 = 0,
           off \div 512 + rootfs \div 512 <= total \div 512 - 33
    PROVE  off + rootfs <= total - 33 * 512
<1>1. off = 512 * (off \div 512) /\ total = 512 * (total \div 512)
  OBVIOUS
<1>2. rootfs = 4096 * (rootfs \div 4096) /\ rootfs \div 4096 \in Nat
  OBVIOUS
<1>3. PICK k \in Nat : rootfs = 4096 * k
  BY <1>2
<1>4. rootfs \div 512 = 8 * k
  BY <1>3
<1>5. /\ off \div 512 \in Nat /\ total \div 512 \in Nat
  OBVIOUS
<1> QED BY <1>1, <1>3, <1>4, <1>5

\* The partition that fills an authored disk is whole blocks.
LEMMA PartitionFacts ==
    ASSUME NEW h \in Heads, NEW total \in Nat, GeometryResolves(h, total)
    PROVE  PartitionBytes(h, total) \in Nat
<1>1. PartitionBytes(h, total) \in Int
  <2>1. RootfsOff(h) \in Nat
    BY SlotsEndFacts
  <2>2. LastUsable(total) \in Int
    BY DEF LastUsable, SECTOR, GPT_BACK_SECTORS
  <2> QED BY <2>1, <2>2 DEF PartitionBytes, SECTOR, EXT4_BLOCK
<1>2. PartitionBytes(h, total) >= 4096 * 8 * 4096
  BY DEF GeometryResolves, MIN_ROOTFS_BYTES, EXT4_BLOCK
<1> QED BY <1>1, <1>2

\* A disk sized around its filesystem always assembles.
LEMMA FittedAssembles ==
    ASSUME NEW h \in Heads, NEW rootfs \in Nat, BootRegion(h), rootfs % EXT4_BLOCK = 0
    PROVE  Assembles(h, FittedTotal(h, rootfs), rootfs)
<1>1. RootfsOff(h) \in Nat /\ RootfsOff(h) % 512 = 0 /\ rootfs % 4096 = 0
  BY SlotsEndFacts DEF BootRegion, SECTOR, EXT4_BLOCK
<1>2. PICK j \in Nat : RootfsOff(h) = 512 * j
  BY <1>1
<1>3. PICK k \in Nat : rootfs = 4096 * k
  BY <1>1
<1>4. FittedTotal(h, rootfs) = 512 * (j + 8 * k + 33)
  BY <1>2, <1>3 DEF FittedTotal, GPT_BACK_SECTORS, SECTOR
<1>5. FittedTotal(h, rootfs) % 512 = 0 /\ FittedTotal(h, rootfs) \div 512 = j + 8 * k + 33
  BY <1>4
<1>6. RootfsOff(h) \div 512 = j /\ rootfs \div 512 = 8 * k
  BY <1>2, <1>3
<1> QED BY <1>1, <1>5, <1>6 DEF Assembles, EXT4_BLOCK, SECTOR, GPT_BACK_SECTORS

\* assemble's checks put the rootfs between the head and the backup table.
LEMMA RootfsApart ==
    ASSUME NEW h \in Heads, NEW total \in Nat, NEW rootfs \in Nat,
           BootRegion(h), Assembles(h, total, rootfs)
    PROVE  /\ RootfsOff(h) + rootfs <= total - GPT_BACK_SECTORS * SECTOR
           /\ rootfs % EXT4_BLOCK = 0 /\ total % SECTOR = 0
           /\ RootfsOff(h) % EXT4_BLOCK = 0
<1>1. RootfsOff(h) \in Nat
  BY SlotsEndFacts
<1>2. /\ RootfsOff(h) % 512 = 0 /\ RootfsOff(h) % 4096 = 0
      /\ rootfs % 4096 = 0 /\ total % 512 = 0
      /\ RootfsOff(h) \div 512 + rootfs \div 512 <= total \div 512 - 33
  BY DEF BootRegion, Assembles, SECTOR, EXT4_BLOCK, GPT_BACK_SECTORS
<1>3. RootfsOff(h) + rootfs <= total - 33 * 512
  BY <1>1, <1>2, AssembledEnd
<1> QED BY <1>2, <1>3 DEF SECTOR, EXT4_BLOCK, GPT_BACK_SECTORS

\* Pairwise apart, inside the disk.
Apart(es, total) ==
    /\ \A a, b \in es : a # b => a.hi <= b.lo \/ b.hi <= a.lo
    /\ \A a \in es : 0 <= a.lo /\ a.lo <= a.hi /\ a.hi <= total

\* A raw gap: tables, two payloads, seed and rootfs in disk order.
LEMMA GapApart ==
    ASSUME NEW h \in Heads, NEW total \in Nat, NEW rootfs \in Nat,
           NEW first \in Nat, NEW second \in Nat,
           h.method = "rkbin", BootRegion(h), CheckPayloadFit(h, first, second),
           RootfsOff(h) + rootfs <= total - GPT_BACK_SECTORS * SECTOR
    PROVE  Apart(Claimed(h, [first |-> first, second |-> second],
                         [total |-> total, rootfs |-> rootfs]), total)
<1> DEFINE A == Extent(0, 17408)
           B == Extent(h.idb, h.idb + first)
           C == Extent(h.itb, h.itb + second)
           D == Extent(h.root - 1048576, h.root)
           E == Extent(h.root, h.root + rootfs)
           F == Extent(total - 16896, total)
<1>1. /\ h.idb \in Nat /\ h.itb \in Nat /\ h.root \in Nat
  BY HeadFacts
<1>2. /\ 17408 <= h.idb /\ h.idb + first <= h.itb /\ h.itb + second <= h.root - 1048576
      /\ h.root >= 1048576 /\ h.root + rootfs <= total - 16896
  BY <1>1 DEF BootRegion, RawGap, CheckPayloadFit, SeedOff, RootfsOff, SECTOR,
              GPT_FRONT_SECTORS, GPT_BACK_SECTORS, SEED_PARTITION_BYTES
<1>3. Claimed(h, [first |-> first, second |-> second], [total |-> total, rootfs |-> rootfs])
        = {A, B, C, D, E, F}
  <2>1. (h.root - 1048576) + 1048576 = h.root
    BY <1>1
  <2> QED BY <2>1 DEF Claimed, Payloads, SeedOff, RootfsOff, SECTOR, GPT_FRONT_SECTORS,
                      GPT_BACK_SECTORS, SEED_PARTITION_BYTES
<1>4. /\ A.lo = 0 /\ A.hi = 17408 /\ B.lo = h.idb /\ B.hi = h.idb + first
      /\ C.lo = h.itb /\ C.hi = h.itb + second /\ D.lo = h.root - 1048576 /\ D.hi = h.root
      /\ E.lo = h.root /\ E.hi = h.root + rootfs /\ F.lo = total - 16896 /\ F.hi = total
  BY DEF Extent
<1> HIDE DEF A, B, C, D, E, F
<1>5. Apart({A, B, C, D, E, F}, total)
  BY <1>1, <1>2, <1>4 DEF Apart
<1> QED BY <1>3, <1>5

\* Kernel slots: tables, seed, slots back to back, rootfs.
LEMMA SlotsApart ==
    ASSUME NEW h \in Heads, NEW total \in Nat, NEW rootfs \in Nat,
           NEW first \in Nat, NEW second \in Nat,
           h.method = "depthcharge", BootRegion(h),
           RootfsOff(h) + rootfs <= total - GPT_BACK_SECTORS * SECTOR
    PROVE  Apart(Claimed(h, [first |-> first, second |-> second],
                         [total |-> total, rootfs |-> rootfs]), total)
<1> DEFINE A == Extent(0, 17408)
           D == Extent(h.kpart - 1048576, h.kpart)
           S(i) == Extent(h.kpart + (i - 1) * h.ksize, h.kpart + i * h.ksize)
           E == Extent(SlotsEnd(h), SlotsEnd(h) + rootfs)
           F == Extent(total - 16896, total)
<1>1. /\ h.kpart \in Nat /\ h.ksize \in Nat /\ h.slots \in {1, 2, 3, 4} /\ SlotsEnd(h) \in Nat
  BY HeadFacts, SlotsEndFacts
<1>2. /\ h.kpart - 1048576 >= 17408 /\ SlotsEnd(h) + rootfs <= total - 16896
  BY <1>1 DEF BootRegion, SeedOff, RootfsOff, SECTOR,
              GPT_FRONT_SECTORS, GPT_BACK_SECTORS, SEED_PARTITION_BYTES
<1>3. Claimed(h, [first |-> first, second |-> second], [total |-> total, rootfs |-> rootfs])
        = {A, D, E, F} \cup {S(i) : i \in 1..h.slots}
  <2>1. (h.kpart - 1048576) + 1048576 = h.kpart
    BY <1>1
  <2> QED BY <2>1 DEF Claimed, Slots, SeedOff, RootfsOff, SECTOR, GPT_FRONT_SECTORS,
                      GPT_BACK_SECTORS, SEED_PARTITION_BYTES
<1>4. /\ A.lo = 0 /\ A.hi = 17408 /\ D.lo = h.kpart - 1048576 /\ D.hi = h.kpart
      /\ E.lo = SlotsEnd(h) /\ E.hi = SlotsEnd(h) + rootfs
      /\ F.lo = total - 16896 /\ F.hi = total
  BY DEF Extent
<1>5. /\ S(1).lo = h.kpart /\ S(1).hi = h.kpart + h.ksize
      /\ S(2).lo = h.kpart + h.ksize /\ S(2).hi = h.kpart + 2 * h.ksize
      /\ S(3).lo = h.kpart + 2 * h.ksize /\ S(3).hi = h.kpart + 3 * h.ksize
      /\ S(4).lo = h.kpart + 3 * h.ksize /\ S(4).hi = h.kpart + 4 * h.ksize
  BY <1>1 DEF Extent
<1> HIDE DEF A, D, E, F, S
<1>6. CASE h.slots = 1
  <2>1. {S(i) : i \in 1..h.slots} = {S(1)}
    BY <1>6
  <2>2. SlotsEnd(h) = h.kpart + h.ksize
    BY <1>6, <1>1 DEF SlotsEnd
  <2>3. Apart({A, D, E, F, S(1)}, total)
    BY <1>1, <1>2, <1>4, <1>5, <2>2 DEF Apart
  <2> QED BY <1>3, <2>1, <2>3
<1>7. CASE h.slots = 2
  <2>1. {S(i) : i \in 1..h.slots} = {S(1), S(2)}
    BY <1>7
  <2>2. SlotsEnd(h) = h.kpart + 2 * h.ksize
    BY <1>7, <1>1 DEF SlotsEnd
  <2>3. Apart({A, D, E, F, S(1), S(2)}, total)
    BY <1>1, <1>2, <1>4, <1>5, <2>2 DEF Apart
  <2>4. {A, D, E, F} \cup {S(1), S(2)} = {A, D, E, F, S(1), S(2)}
    OBVIOUS
  <2> QED BY <1>3, <2>1, <2>3, <2>4
<1>8. CASE h.slots = 3
  <2>1. {S(i) : i \in 1..h.slots} = {S(1), S(2), S(3)}
    BY <1>8
  <2>2. SlotsEnd(h) = h.kpart + 3 * h.ksize
    BY <1>8, <1>1 DEF SlotsEnd
  <2>3. Apart({A, D, E, F, S(1), S(2), S(3)}, total)
    BY <1>1, <1>2, <1>4, <1>5, <2>2 DEF Apart
  <2>4. {A, D, E, F} \cup {S(1), S(2), S(3)} = {A, D, E, F, S(1), S(2), S(3)}
    OBVIOUS
  <2> QED BY <1>3, <2>1, <2>3, <2>4
<1>9. CASE h.slots = 4
  <2>1. {S(i) : i \in 1..h.slots} = {S(1), S(2), S(3), S(4)}
    BY <1>9
  <2>2. SlotsEnd(h) = h.kpart + 4 * h.ksize
    BY <1>9, <1>1 DEF SlotsEnd
  <2>3. Apart({A, D, E, F, S(1), S(2), S(3), S(4)}, total)
    BY <1>1, <1>2, <1>4, <1>5, <2>2 DEF Apart
  <2>4. {A, D, E, F} \cup {S(1), S(2), S(3), S(4)} = {A, D, E, F, S(1), S(2), S(3), S(4)}
    OBVIOUS
  <2> QED BY <1>3, <2>1, <2>3, <2>4
<1> QED BY <1>1, <1>6, <1>7, <1>8, <1>9

\* The image node reports a layout laid out only after every check it relies on, and
\* fails late only where the preflight could not have known.
LEMMA GeometryInvInductive == GeometrySpec => []GeometryInv
<1>1. GeometryInit => GeometryInv
  <2> SUFFICES ASSUME GeometryInit PROVE GeometryInv
    OBVIOUS
  <2>1. GeometryTypeOK
    BY DEF GeometryInit, GeometryTypeOK, NoGeom
  <2> QED BY <2>1 DEF GeometryInit, GeometryInv, Known, PreflightIsEnough
<1>2. GeometryInv /\ [GeometryNext]_geometryVars => GeometryInv'
  <2> SUFFICES ASSUME GeometryInv, [GeometryNext]_geometryVars PROVE GeometryInv'
    OBVIOUS
  <2>0. /\ head \in Heads /\ authored \in Sizes
        /\ lengths.first \in Nat /\ lengths.second \in Nat
        /\ authored.kind = "none" => head.method = "rkbin"
    BY LengthsFacts DEF GeometryInv, GeometryTypeOK
  <2>1. ASSUME PreflightGeometry PROVE GeometryInv'
    BY <2>1 DEF PreflightGeometry, GeometryInv, GeometryTypeOK, Known, PreflightIsEnough
  <2>2. ASSUME NEW first \in Lengths, NEW second \in Lengths \cup {0},
               StagePayloads(first, second)
        PROVE  GeometryInv'
    <3>1. /\ lengths' = [first |-> first, second |-> second]
          /\ head' = head /\ authored' = authored /\ geom' = geom
      BY <2>2 DEF StagePayloads
    <3>2. lengths'.first = first /\ lengths'.second = second
      BY <3>1
    <3>3. ValidateGeometry(head, authored)
      BY <2>2 DEF StagePayloads, GeometryInv, Known
    <3>4. BootRegion(head)
      BY <3>3, <2>0, SizesFacts DEF ValidateGeometry, GeometryResolves, Fits
    <3>5. /\ ipc' \in {"staged", "overrun"}
          /\ ipc' = "staged" => CheckPayloadFit(head, first, second)
      BY <2>2, <3>4 DEF StagePayloads
    <3>6. GeometryTypeOK'
      BY <2>2, <3>1, <3>5 DEF GeometryInv, GeometryTypeOK
    <3>7. Known'
      BY <3>1, <3>2, <3>3, <3>4, <3>5 DEF Known
    <3> QED BY <3>1, <3>5, <3>6, <3>7, <2>0 DEF GeometryInv, PreflightIsEnough
  <2>3. ASSUME LayOutFixed PROVE GeometryInv'
    <3>1. /\ GeometryResolves(head, authored.n) /\ BootRegion(head)
          /\ CheckPayloadFit(head, lengths.first, lengths.second)
      BY <2>3, <2>0 DEF LayOutFixed, GeometryInv, Known, ValidateGeometry, Fits
    <3>2. /\ ipc' = "laid" /\ head' = head /\ authored' = authored /\ lengths' = lengths
          /\ geom' = [total |-> authored.n, rootfs |-> PartitionBytes(head, authored.n)]
      BY <2>3, <3>1 DEF LayOutFixed
    <3>3. geom'.total = authored.n /\ geom'.rootfs = PartitionBytes(head, authored.n)
      BY <3>2
    <3>4. authored.n \in Nat /\ PartitionBytes(head, authored.n) \in Nat
      BY <2>0, <3>1, SizesFacts, PartitionFacts
    <3>5. GeometryTypeOK'
      BY <3>2, <3>4 DEF GeometryInv, GeometryTypeOK
    <3>6. Known'
      BY <3>1, <3>2, <3>3 DEF Known, GeometryResolves, ParseSize
    <3> QED BY <3>2, <3>5, <3>6, <2>0 DEF GeometryInv, PreflightIsEnough
  <2>4. ASSUME NEW rootfs \in Formatted, LayOutFitted(rootfs) PROVE GeometryInv'
    <3>0. rootfs \in Nat /\ rootfs % EXT4_BLOCK = 0
      BY GeometryAssumption
    <3>1. /\ FitSlack(authored) /\ BootRegion(head) /\ authored.kind \in Fits
          /\ CheckPayloadFit(head, lengths.first, lengths.second)
      BY <2>4, <2>0 DEF LayOutFitted, GeometryInv, Known, ValidateGeometry, Fits
    <3>2. RootfsOff(head) \in Nat /\ FittedTotal(head, rootfs) \in Nat
      BY <2>0, <3>0, SlotsEndFacts DEF FittedTotal, GPT_BACK_SECTORS, SECTOR
    <3>3. Assembles(head, FittedTotal(head, rootfs), rootfs)
      BY <3>0, <3>1, <3>2, FittedAssembles, <2>0
    <3>4. head' = head /\ authored' = authored /\ lengths' = lengths
      BY <2>4 DEF LayOutFitted
    <3>5. CASE FittedTotal(head, rootfs) <= Top
      <4>1. /\ ipc' = "laid"
            /\ geom' = [total |-> FittedTotal(head, rootfs), rootfs |-> rootfs]
        BY <2>4, <3>1, <3>3, <3>5 DEF LayOutFitted, AroundRootfs
      <4>2. geom'.total = FittedTotal(head, rootfs) /\ geom'.rootfs = rootfs
        BY <4>1
      <4>3. GeometryTypeOK'
        BY <3>0, <3>2, <3>4, <4>1 DEF GeometryInv, GeometryTypeOK
      <4>4. Known'
        BY <3>1, <3>3, <3>4, <3>5, <4>1, <4>2 DEF Known
      <4> QED BY <2>0, <3>4, <4>1, <4>3, <4>4 DEF GeometryInv, PreflightIsEnough
    <3>6. CASE ~(FittedTotal(head, rootfs) <= Top)
      <4>1. /\ ipc' = "failed" /\ geom' = [total |-> 0, rootfs |-> rootfs]
        BY <2>4, <3>6 DEF LayOutFitted, AroundRootfs
      <4>2. geom'.rootfs = rootfs
        BY <4>1
      <4>3. GeometryTypeOK'
        BY <3>0, <3>4, <4>1 DEF GeometryInv, GeometryTypeOK
      <4>4. PreflightIsEnough'
        <5>1. FittedTotal(head, rootfs) > Top
          BY <3>2, <3>6, GeometryAssumption
        <5>2. FittedTotal(head', geom'.rootfs) = FittedTotal(head, rootfs)
          BY <3>4, <4>2
        <5> QED BY <3>1, <3>4, <5>1, <5>2 DEF PreflightIsEnough
      <4> QED BY <2>0, <3>4, <4>1, <4>3, <4>4 DEF GeometryInv, Known
    <3> QED BY <3>5, <3>6
  <2>5. ASSUME LayOutGap PROVE GeometryInv'
    <3>1. /\ ipc' = "gap" /\ head' = head /\ authored' = authored
          /\ lengths' = lengths /\ geom' = geom
      BY <2>5, <2>0 DEF LayOutGap
    <3> QED BY <3>1, <2>0 DEF GeometryInv, GeometryTypeOK, Known, PreflightIsEnough
  <2>6. ASSUME UNCHANGED geometryVars PROVE GeometryInv'
    BY <2>6 DEF geometryVars, GeometryInv, GeometryTypeOK, Known, PreflightIsEnough
  <2> QED BY <2>1, <2>2, <2>3, <2>4, <2>5, <2>6 DEF GeometryNext
<1> QED BY <1>1, <1>2, PTL DEF GeometrySpec

\* Whatever a recipe authors and however large the payloads and the filesystem are: a disk
\* the image node lays out has its tables, payloads or kernel slots, seed and rootfs apart
\* and on the disk (Geometry::resolve, around_rootfs, check_payload_fit, assemble).
THEOREM LaidOutApartHolds == GeometrySpec => []LaidOutApart
<1>1. GeometryInv => LaidOutApart
  <2> SUFFICES ASSUME GeometryInv, ipc = "laid"
               PROVE  /\ Apart(Claimed(head, lengths, geom), geom.total)
                      /\ RootfsOff(head) % EXT4_BLOCK = 0 /\ geom.rootfs % EXT4_BLOCK = 0
                      /\ geom.total % SECTOR = 0 /\ geom.total <= Top
    BY DEF LaidOutApart, Apart
  <2>1. /\ head \in Heads /\ lengths.first \in Nat /\ lengths.second \in Nat
        /\ geom.total \in Nat /\ geom.rootfs \in Nat
        /\ lengths = [first |-> lengths.first, second |-> lengths.second]
        /\ geom = [total |-> geom.total, rootfs |-> geom.rootfs]
    BY LengthsFacts DEF GeometryInv, GeometryTypeOK
  <2>2. /\ BootRegion(head) /\ CheckPayloadFit(head, lengths.first, lengths.second)
        /\ Assembles(head, geom.total, geom.rootfs) /\ geom.total <= Top
    BY DEF GeometryInv, Known
  <2>3. /\ RootfsOff(head) + geom.rootfs <= geom.total - GPT_BACK_SECTORS * SECTOR
        /\ geom.rootfs % EXT4_BLOCK = 0 /\ geom.total % SECTOR = 0
        /\ RootfsOff(head) % EXT4_BLOCK = 0
    BY <2>1, <2>2, RootfsApart
  <2>4. Apart(Claimed(head, [first |-> lengths.first, second |-> lengths.second],
                      [total |-> geom.total, rootfs |-> geom.rootfs]), geom.total)
    <3>1. CASE head.method = "rkbin"
      BY <3>1, <2>1, <2>2, <2>3, GapApart
    <3>2. CASE head.method = "depthcharge"
      BY <3>2, <2>1, <2>2, <2>3, SlotsApart
    <3> QED BY <3>1, <3>2, <2>1, HeadFacts
  <2> QED BY <2>1, <2>2, <2>3, <2>4
<1> QED BY <1>1, GeometryInvInductive, PTL

\* The preflight refuses every bad layout before a stage runs: past it, the image node
\* fails only for a fitted filesystem whose end is past the offset arithmetic.
THEOREM PreflightIsEnoughHolds == GeometrySpec => []PreflightIsEnough
<1>1. GeometryInv => PreflightIsEnough
  BY DEF GeometryInv
<1> QED BY <1>1, GeometryInvInductive, PTL

(***************************************************************************)
(* The lock.  NoHybrid and DateMovesWithContent speak of what is written   *)
(* and admitted; both need that every lock somebody holds (committed, read *)
(* by a build, or the one an update started from) records the build it was *)
(* made for, and that two of them with one date pin the same.              *)
(***************************************************************************)
\* What a lock has in common with the build it was made for.
Recorded(l) ==
    /\ DOMAIN l = LockFields \cup {"of"}
    /\ IsBuild(l.of) /\ IsLock(l)
    /\ l.id = l.of.id /\ l.distro = l.of.distro /\ l.suite = l.of.suite
    /\ l.debs = l.of.debs /\ l.sdk = l.of.sdk
    /\ [k \in DOMAIN l.blobs |-> l.blobs[k].file] = l.of.blobs
    /\ SameSources(l, l.of)
    /\ \A a \in {"app", "packaging"} :
          Has(l.git[a]) => The(l.git[a]).ref = NormalizeRef(The(l.of.git[a]).ref)
    /\ \A x \in PatchAxes : SeriesOf(l.patches[x]) = SeriesOf(l.of.patches[x])
    /\ Has(l.git["app"]) =>
          /\ Has(l.nuget)
          /\ The(l.nuget).app = l.git["app"] /\ The(l.nuget).packaging = l.git["packaging"]
          /\ The(l.nuget).patches = l.patches["apppatches"]

\* An update under way: it asks an app's trees for what the layers said when it began, and
\* what it has made records the build it began with, at the moment it began.
Underway(j, moment) ==
    /\ DOMAIN j = {"point", "build", "prev", "refs", "head", "epoch", "made"}
    /\ j.point \in Points /\ IsBuild(j.build)
    /\ Has(j.prev) => Recorded(The(j.prev))
    /\ \A a \in {"app", "packaging"} :
          Has(j.build.git[a]) => The(j.refs[a]) = The(j.build.git[a]).ref
    /\ j.epoch = moment /\ moment < MaxClock
    /\ Has(j.made) => Recorded(The(j.made)) /\ The(j.made).epoch = moment

\* A build under way was admitted: its layers agree with its lock, its packages are the lock's.
Admitted(r) ==
    /\ r.point \in Points /\ IsBuild(r.build)
    /\ Recorded(r.lock) /\ Consistent(r.lock, r.build)
    /\ Has(r.lock.nuget) => r.nuget = r.lock.nuget

LocksRecorded ==
    /\ \A p \in Points : Has(lock[p]) => Recorded(The(lock[p]))
    /\ Has(job) => Underway(The(job), clock)
    /\ Has(reading) => Admitted(The(reading))

\* Every lock somebody holds, apart from the one an update is making.
Held ==
    {The(lock[p]) : p \in {p \in Points : Has(lock[p])}}
        \cup (IF Has(reading) THEN {The(reading).lock} ELSE {})
        \cup (IF Has(job) /\ Has(The(job).prev) THEN {The(The(job).prev)} ELSE {})

LocksDated ==
    /\ \A l \in Held : l.epoch \in Nat /\ l.epoch < clock
    /\ \A l, m \in Held : l.epoch = m.epoch => AxisContent(l) = AxisContent(m)

\* A lock of a date of its own, or with what a held lock of its date pins.
Dated(l) ==
    \/ l.epoch = clock
    \/ \E m \in Held : l.epoch = m.epoch /\ AxisContent(l) = AxisContent(m)

LocksInv == LocksTypeOK /\ LocksRecorded /\ LocksDated

\* What Has, The and Len say of nothing and of one.
LEMMA OptionalFacts ==
    /\ ~Has(<<>>) /\ Len(<<>>) = 0
    /\ \A x : Has(<<x>>) /\ The(<<x>>) = x /\ Len(<<x>>) = 1
BY DEF Has, The

\* What a build writes back, and the date an update keeps, are beside what a lock pins.
Beside == {"epoch", "manifest", "snapshot"}

\* Changing them changes nothing that is pinned.
LEMMA RecordedBeside ==
    ASSUME NEW l, Recorded(l), NEW m, DOMAIN m = DOMAIN l,
           \A f \in DOMAIN l \ Beside : m[f] = l[f]
    PROVE  /\ Recorded(m) /\ AxisContent(m) = AxisContent(l)
           /\ \A b : Consistent(l, b) => Consistent(m, b)
           /\ m.nuget = l.nuget /\ m.suite = l.suite /\ m.of = l.of
<1>1. /\ m.id = l.id /\ m.git = l.git /\ m.patches = l.patches /\ m.blobs = l.blobs
      /\ m.debs = l.debs /\ m.sdk = l.sdk /\ m.nuget = l.nuget /\ m.distro = l.distro
      /\ m.suite = l.suite /\ m.of = l.of
  BY DEF Recorded, LockFields, Beside
<1>2. IsLock(m)
  BY <1>1 DEF IsLock, Recorded
<1>3. \A b : SameSources(l, b) => SameSources(m, b)
  BY <1>1 DEF SameSources
<1>4. Recorded(m)
  BY <1>1, <1>2, <1>3 DEF Recorded
<1>5. AxisContent(m) = AxisContent(l)
  BY <1>1 DEF AxisContent
<1>6. \A b : Consistent(l, b) => Consistent(m, b)
  BY <1>1, <1>3 DEF Consistent, AppDrift
<1> QED BY <1>1, <1>4, <1>5, <1>6

\* A lock that an update leaves stamped as before pins what the lock before it pinned.
LEMMA StampedIsRecorded ==
    ASSUME NEW prev, NEW made, Recorded(made), Has(prev) => Recorded(The(prev))
    PROVE  /\ Recorded(Stamped(prev, made))
           /\ AxisContent(Stamped(prev, made)) = AxisContent(made)
           /\ \/ Stamped(prev, made) = made
              \/ /\ Has(prev) /\ Stamped(prev, made).epoch = The(prev).epoch
                 /\ AxisContent(made) = AxisContent(The(prev))
<1>1. CASE Has(prev) /\ ~PinsMoved(The(prev), made)
  <2> DEFINE m == [made EXCEPT !.epoch = The(prev).epoch]
  <2>1. Stamped(prev, made) = m
    BY <1>1 DEF Stamped
  <2>2. /\ DOMAIN m = DOMAIN made /\ m.epoch = The(prev).epoch
        /\ \A f \in DOMAIN made \ Beside : m[f] = made[f]
    BY DEF Recorded, LockFields, Beside
  <2>3. Recorded(m) /\ AxisContent(m) = AxisContent(made)
    <3> HIDE DEF m
    <3> QED BY <2>2, RecordedBeside
  <2>4. AxisContent(made) = AxisContent(The(prev))
    <3> DEFINE p == The(prev)
               pair(l, a) == IF Has(l.git[a]) THEN <<The(l.git[a]).ref, The(l.git[a]).commit>> ELSE <<>>
               ppair(l, x) == IF Has(l.patches[x]) THEN <<The(l.patches[x]).ref, The(l.patches[x]).commit>> ELSE <<>>
    <3>1. AxisPins(p) = AxisPins(made)
      BY <1>1 DEF PinsMoved
    <3>2. /\ [a \in GitAxes |-> pair(p, a)] = [a \in GitAxes |-> pair(made, a)]
          /\ [x \in PatchAxes |-> ppair(p, x)] = [x \in PatchAxes |-> ppair(made, x)]
          /\ p.debs = made.debs /\ p.blobs = made.blobs /\ p.nuget = made.nuget
          /\ (IF Has(p.sdk) THEN <<The(p.sdk).version>> ELSE <<>>) = (IF Has(made.sdk) THEN <<The(made.sdk).version>> ELSE <<>>)
      BY <3>1 DEF AxisPins
    <3>3. \A a \in GitAxes : pair(p, a) = pair(made, a)
      <4> HIDE DEF pair, p
      <4> TAKE a \in GitAxes
      <4>1. [b \in GitAxes |-> pair(p, b)][a] = [b \in GitAxes |-> pair(made, b)][a]
        BY <3>2
      <4> QED BY <4>1
    <3>4. \A x \in PatchAxes : ppair(p, x) = ppair(made, x)
      <4> HIDE DEF ppair, p
      <4> TAKE x \in PatchAxes
      <4>1. [b \in PatchAxes |-> ppair(p, b)][x] = [b \in PatchAxes |-> ppair(made, b)][x]
        BY <3>2
      <4> QED BY <4>1
    <3>5. \A a \in GitAxes : CommitOf(p.git[a]) = CommitOf(made.git[a])
      BY <3>3 DEF CommitOf
    <3>6. \A x \in PatchAxes : CommitOf(p.patches[x]) = CommitOf(made.patches[x])
      BY <3>4 DEF CommitOf
    <3> QED BY <3>2, <3>5, <3>6 DEF AxisContent
  <2> QED BY <1>1, <2>1, <2>2, <2>3, <2>4
<1>2. CASE ~(Has(prev) /\ ~PinsMoved(The(prev), made))
  BY <1>2 DEF Stamped
<1> QED BY <1>1, <1>2

\* The lock that resolve_lock and assemble_lock make for a build.
LockMade(j, git, patches, nuget) ==
    [id |-> j.build.id, git |-> git, patches |-> patches, blobs |-> BlobPins(j.build),
     debs |-> j.build.debs, sdk |-> j.build.sdk, nuget |-> nuget,
     distro |-> j.build.distro, suite |-> j.build.suite, epoch |-> j.epoch,
     manifest |-> <<>>, snapshot |-> <<>>, of |-> j.build]

\* The pins are those of the build's own trees, patches and blobs.
LEMMA MadeIsRecorded ==
    ASSUME NEW j, NEW moment, Underway(j, moment), NEW feed, NEW git, git = GitPins(j.build, j.refs),
           NEW patches, patches = PatchPins(j.build, j.head), NEW nuget,
           nuget = IF HasDotnet(git) THEN <<Manifest(git, patches, feed)>> ELSE <<>>
    PROVE  /\ Recorded(LockMade(j, git, patches, nuget))
           /\ LockMade(j, git, patches, nuget).epoch = moment
<1> DEFINE b == j.build
           l == LockMade(j, git, patches, nuget)
<1>1. IsBuild(b)
  BY DEF Underway
<1>2. /\ DOMAIN l = LockFields \cup {"of"} /\ l.epoch = moment /\ l.of = b
      /\ l.id = b.id /\ l.distro = b.distro /\ l.suite = b.suite /\ l.debs = b.debs /\ l.sdk = b.sdk
      /\ l.git = git /\ l.patches = patches /\ l.nuget = nuget /\ l.blobs = BlobPins(b)
  BY DEF LockMade, LockFields, Underway
<1>3. /\ DOMAIN git = GitAxes
      /\ \A a \in GitAxes :
            IF b.git[a] = <<>> THEN git[a] = <<>>
            ELSE git[a] = <<GitPin(The(b.git[a]).source, NormalizeRef(The(j.refs[a])),
                                   The(ResolveRef(The(b.git[a]).source, The(j.refs[a]))))>>
  BY DEF GitPins
<1>4. \A a \in GitAxes :
          /\ Has(git[a]) <=> Has(b.git[a])
          /\ Has(git[a]) => /\ DOMAIN The(git[a]) = {"source", "ref", "commit"}
                            /\ The(git[a]).source = The(b.git[a]).source
                            /\ The(git[a]).ref = NormalizeRef(The(j.refs[a]))
  <2> TAKE a \in GitAxes
  <2>1. CASE b.git[a] = <<>>
    BY <2>1, <1>3 DEF Has
  <2>2. CASE b.git[a] # <<>>
    <3> DEFINE x == GitPin(The(b.git[a]).source, NormalizeRef(The(j.refs[a])),
                           The(ResolveRef(The(b.git[a]).source, The(j.refs[a]))))
    <3>1. git[a] = <<x>>
      BY <2>2, <1>3
    <3>2. Has(git[a]) /\ The(git[a]) = x /\ Has(b.git[a])
      BY <3>1, <2>2, OptionalFacts DEF Has
    <3> QED BY <3>2 DEF GitPin
  <2> QED BY <2>1, <2>2
<1>5. /\ DOMAIN patches = PatchAxes
      /\ \A x \in PatchAxes :
            IF b.patches[x] = <<>> THEN patches[x] = <<>>
            ELSE patches[x] = <<PatchesPin(The(b.patches[x]).series, The(b.patches[x]).source,
                                           The(b.patches[x]).ref, The(j.head))>>
  BY DEF PatchPins
<1>6. \A x \in PatchAxes :
          /\ Has(patches[x]) => DOMAIN The(patches[x]) = {"series", "source", "ref", "commit"}
          /\ SeriesOf(patches[x]) = SeriesOf(b.patches[x])
  <2> TAKE x \in PatchAxes
  <2>1. CASE b.patches[x] = <<>>
    BY <2>1, <1>5 DEF Has, SeriesOf
  <2>2. CASE b.patches[x] # <<>>
    <3> DEFINE y == PatchesPin(The(b.patches[x]).series, The(b.patches[x]).source,
                               The(b.patches[x]).ref, The(j.head))
    <3>1. patches[x] = <<y>>
      BY <2>2, <1>5
    <3>2. Has(patches[x]) /\ The(patches[x]) = y /\ Has(b.patches[x])
      BY <3>1, <2>2, OptionalFacts DEF Has
    <3> QED BY <3>2 DEF PatchesPin, SeriesOf
  <2> QED BY <2>1, <2>2
<1>7. IsLock(l)
  <2>1. LockFields \subseteq DOMAIN l
    BY <1>2
  <2>2. /\ Has(l.git["kernel"]) => Has(l.id)
        /\ Has(l.git["packaging"]) => Has(l.git["app"])
        /\ Has(l.sdk) => DOMAIN The(l.sdk) = {"version", "sha"}
    BY <1>1, <1>2, <1>4 DEF IsBuild, GitAxes, Shallow
  <2> QED
    <3> HIDE DEF l, b
    <3> QED BY <2>1, <2>2, <1>2, <1>3, <1>4, <1>5, <1>6 DEF IsLock
<1>8. [k \in DOMAIN l.blobs |-> l.blobs[k].file] = b.blobs
  <2>1. l.blobs = BlobPins(b)
    BY <1>2
  <2>2. /\ DOMAIN BlobPins(b) = DOMAIN b.blobs
        /\ \A k \in DOMAIN b.blobs : BlobPins(b)[k].file = b.blobs[k]
    BY DEF BlobPins, BlobPin
  <2>3. [k \in DOMAIN BlobPins(b) |-> BlobPins(b)[k].file] = [k \in DOMAIN b.blobs |-> b.blobs[k]]
    BY <2>2
  <2> QED BY <1>1, <2>1, <2>3 DEF IsBuild
<1>9. SameSources(l, b)
  BY <1>2, <1>4 DEF SameSources
<1>10. \A a \in {"app", "packaging"} :
          Has(git[a]) => The(git[a]).ref = NormalizeRef(The(b.git[a]).ref)
  BY <1>4 DEF Underway, GitAxes, Shallow
<1>11. Has(git["app"]) =>
          /\ Has(nuget)
          /\ The(nuget).app = git["app"] /\ The(nuget).packaging = git["packaging"]
          /\ The(nuget).patches = patches["apppatches"]
  BY OptionalFacts DEF HasDotnet, Manifest
<1> QED
  <2> HIDE DEF l, b
  <2>1. Recorded(l)
    BY <1>1, <1>2, <1>6, <1>7, <1>8, <1>9, <1>10, <1>11 DEF Recorded
  <2> QED BY <2>1, <1>2 DEF l

\* A build that agrees with a lock decided what the lock's own build decided.
LEMMA ConsistentIsDecided ==
    ASSUME NEW l, Recorded(l), NEW b, IsBuild(b), Consistent(l, b)
    PROVE  Decided(l.of) = Decided(b)
<1> DEFINE o == l.of
           source(x, a) == IF Has(x.git[a]) THEN <<The(x.git[a]).source>> ELSE <<>>
           app(x, a) == IF Has(x.git[a]) THEN <<NormalizeRef(The(x.git[a]).ref)>> ELSE <<>>
<1>1. /\ o.id = b.id /\ o.distro = b.distro /\ o.suite = b.suite /\ o.debs = b.debs /\ o.sdk = b.sdk
      /\ o.blobs = b.blobs
      /\ \A x \in PatchAxes : SeriesOf(o.patches[x]) = SeriesOf(b.patches[x])
  BY DEF Recorded, Consistent, AppDrift
<1>2. \A a \in GitAxes : source(o, a) = source(b, a) /\ (Has(l.git[a]) <=> Has(b.git[a])) /\ (Has(o.git[a]) <=> Has(b.git[a]))
  BY DEF Recorded, Consistent, SameSources
<1>3. \A a \in {"app", "packaging"} : app(o, a) = app(b, a)
  <2> TAKE a \in {"app", "packaging"}
  <2>1. Has(l.git[a]) => The(l.git[a]).ref = NormalizeRef(The(o.git[a]).ref)
    BY DEF Recorded
  <2>2. Has(l.git[a]) /\ Has(b.git[a]) => The(l.git[a]).ref = NormalizeRef(The(b.git[a]).ref)
    BY DEF Consistent, AppDrift
  <2>3. a \in GitAxes
    BY DEF GitAxes
  <2> QED BY <1>2, <2>1, <2>2, <2>3
<1>4. [a \in GitAxes |-> source(o, a)] = [a \in GitAxes |-> source(b, a)]
  BY <1>2
<1>5. [x \in PatchAxes |-> SeriesOf(o.patches[x])] = [x \in PatchAxes |-> SeriesOf(b.patches[x])]
  BY <1>1
<1>6. [a \in {"app", "packaging"} |-> app(o, a)] = [a \in {"app", "packaging"} |-> app(b, a)]
  BY <1>3
<1> QED BY <1>1, <1>4, <1>5, <1>6 DEF Decided

\* Nothing is locked at first.
LEMMA LocksInitInv == ASSUME LocksInit PROVE LocksInv
<1>1. LocksTypeOK
  BY LocksAssumption, OptionalFacts DEF LocksInit, LocksTypeOK, Points
<1>2. LocksRecorded
  BY OptionalFacts DEF LocksInit, LocksRecorded
<1>3. Held = {}
  BY OptionalFacts DEF LocksInit, Held
<1> QED BY <1>1, <1>2, <1>3 DEF LocksInv, LocksDated

\* A step after which nobody holds a lock that nobody held before keeps the dates, unless
\* the clock went back.
LEMMA HeldBefore ==
    ASSUME LocksInv, Held' \subseteq Held, clock' \in Nat, clock <= clock'
    PROVE  LocksDated'
<1>1. clock \in Nat
  BY LocksAssumption DEF LocksInv, LocksTypeOK
<1> QED BY <1>1 DEF LocksInv, LocksDated, AxisContent

\* One lock more, of a date of its own or with what a held lock of its date pins.
LEMMA HeldAndOne ==
    ASSUME LocksInv, NEW l, Held' \subseteq Held \cup {l}, clock' \in Nat, clock <= clock',
           l.epoch \in Nat, l.epoch < clock',
           Dated(l)
    PROVE  LocksDated'
<1>1. clock \in Nat
  BY LocksAssumption DEF LocksInv, LocksTypeOK
<1>2. \A m \in Held : m.epoch \in Nat /\ m.epoch < clock
  BY DEF LocksInv, LocksDated
<1>3. \A m \in Held' : m.epoch \in Nat /\ m.epoch < clock'
  BY <1>1, <1>2
<1>4. \A m, n \in Held : m.epoch = n.epoch => AxisContent(m) = AxisContent(n)
  BY DEF LocksInv, LocksDated
<1>5. \A m \in Held : l.epoch = m.epoch => AxisContent(l) = AxisContent(m)
  BY <1>1, <1>2, <1>4 DEF Dated
<1>6. \A m, n \in Held' : m.epoch = n.epoch => AxisContent(m) = AxisContent(n)
  <2> HIDE DEF AxisContent
  <2> QED BY <1>4, <1>5
<1> QED BY <1>3, <1>6 DEF LocksDated, AxisContent

\* One lemma per action: what is held, under way and admitted stays recorded and dated.
LEMMA AskKeeps == ASSUME LocksInv, Ask PROVE LocksInv'
<1>1. UNCHANGED <<layers, remote, checkout, blobs, turns, lock, sidecar, job, reading, clock>> /\ Len(surveyed') <= 1
  BY OptionalFacts DEF Ask, worldVars
<1>2. LocksTypeOK'
  BY <1>1 DEF LocksInv, LocksTypeOK
<1>3. LocksRecorded'
  BY <1>1 DEF LocksInv, LocksRecorded, Underway
<1>4. Held' = Held
  BY <1>1 DEF Held
<1>5. LocksDated'
  BY <1>1, <1>4, HeldBefore, LocksAssumption DEF LocksInv, LocksTypeOK
<1> QED BY <1>2, <1>3, <1>5 DEF LocksInv

LEMMA UpdateBeginsKeeps == ASSUME LocksInv, surveyed' = <<>>, UpdateBegins PROVE LocksInv'
<1> PICK p \in Points, flags \in FlagSets :
        LET refs == [a \in GitAxes |-> RefFor(a, layers[p], PrevLock(p), flags)] IN
        job' = <<[point |-> p, build |-> layers[p], prev |-> PrevLock(p), refs |-> refs,
                  head |-> IF NeedsPatches(layers[p]) THEN <<The(checkout).head>> ELSE <<>>,
                  epoch |-> clock, made |-> <<>>]>>
  BY DEF UpdateBegins
<1> DEFINE j == [point |-> p, build |-> layers[p], prev |-> PrevLock(p),
                 refs |-> [a \in GitAxes |-> RefFor(a, layers[p], PrevLock(p), flags)],
                 head |-> IF NeedsPatches(layers[p]) THEN <<The(checkout).head>> ELSE <<>>,
                 epoch |-> clock, made |-> <<>>]
<1>1. job' = <<j>> /\ Len(job') <= 1 /\ Has(job') /\ The(job') = j
  BY OptionalFacts
<1>2. /\ UNCHANGED <<layers, remote, checkout, blobs, turns, lock, sidecar, reading, clock>>
      /\ clock < MaxClock
  BY DEF UpdateBegins, worldVars
<1>3. IsBuild(layers[p])
  BY LocksAssumption DEF LocksInv, LocksTypeOK
<1>4. \E q \in Points : PrevLock(p) = lock[q]
  BY DEF PrevLock, Points
<1>5. LocksTypeOK'
  BY <1>1, <1>2, OptionalFacts DEF LocksInv, LocksTypeOK
<1>6. \A a \in {"app", "packaging"} :
          Has(layers[p].git[a]) => The(j.refs[a]) = The(layers[p].git[a]).ref
  <2> TAKE a \in {"app", "packaging"}
  <2>1. a \in GitAxes /\ a # "kernel" /\ a # "mod"
    BY DEF GitAxes
  <2>2. j.refs[a] = RefFor(a, layers[p], PrevLock(p), flags)
    BY <2>1
  <2>3. Has(layers[p].git[a]) => RefFor(a, layers[p], PrevLock(p), flags) = <<The(layers[p].git[a]).ref>>
    BY <2>1 DEF RefFor, Has
  <2> QED BY <2>2, <2>3, OptionalFacts
<1>7. Underway(j, clock')
  <2>1. Has(PrevLock(p)) => Recorded(The(PrevLock(p)))
    BY <1>4 DEF LocksInv, LocksRecorded
  <2> QED BY <1>2, <1>3, <1>6, <2>1, OptionalFacts DEF Underway
<1>8. LocksRecorded'
  <2> HIDE DEF j
  <2> QED BY <1>1, <1>2, <1>7 DEF LocksInv, LocksRecorded
<1>9. Held' \subseteq Held
  <2>1. j.prev = PrevLock(p)
    OBVIOUS
  <2> HIDE DEF j
  <2> QED BY <1>1, <1>2, <1>4, <2>1 DEF Held
<1>10. LocksDated'
  BY <1>2, <1>9, HeldBefore, LocksAssumption DEF LocksInv, LocksTypeOK
<1> QED BY <1>5, <1>8, <1>10 DEF LocksInv

LEMMA ResolveLockKeeps == ASSUME LocksInv, surveyed' = <<>>, ResolveLock PROVE LocksInv'
<1> DEFINE j == The(job)
           git == GitPins(j.build, j.refs)
           patches == PatchPins(j.build, j.head)
           nuget(feed) == IF HasDotnet(git) THEN <<Manifest(git, patches, feed)>> ELSE <<>>
           made(feed) == LockMade(j, git, patches, nuget(feed))
<1>1. PICK feed \in {1, 2} :
          /\ sidecar' = IF Has(nuget(feed)) THEN [sidecar EXCEPT ![j.point] = nuget(feed)] ELSE sidecar
          /\ job' = <<[j EXCEPT !.made = <<made(feed)>>]>>
  BY DEF ResolveLock, LockMade
<1>2. /\ UNCHANGED <<layers, remote, checkout, blobs, turns, lock, reading, clock>>
      /\ Has(job)
  BY DEF ResolveLock, worldVars
<1>3. Underway(j, clock)
  BY <1>2 DEF LocksInv, LocksRecorded
<1>4. Recorded(made(feed)) /\ made(feed).epoch = clock
  <2> HIDE DEF j
  <2> QED BY <1>3, MadeIsRecorded
<1> DEFINE k == [j EXCEPT !.made = <<made(feed)>>]
<1>5. /\ DOMAIN k = DOMAIN j /\ k.made = <<made(feed)>>
      /\ k.point = j.point /\ k.build = j.build /\ k.prev = j.prev /\ k.refs = j.refs /\ k.epoch = j.epoch
  BY <1>3 DEF Underway
<1>6. job' = <<k>> /\ Len(job') <= 1 /\ Has(job') /\ The(job') = k
  BY <1>1, OptionalFacts
<1>7. Has(k.made) /\ The(k.made) = made(feed)
  BY <1>5, OptionalFacts
<1>8. Underway(k, clock')
  <2> HIDE DEF k, j, made
  <2> QED BY <1>2, <1>3, <1>4, <1>5, <1>7 DEF Underway
<1>9. DOMAIN sidecar' = Points /\ \A p \in Points : Len(sidecar'[p]) <= 1
  <2>1. Len(nuget(feed)) <= 1
    BY OptionalFacts
  <2> HIDE DEF nuget, j
  <2> QED BY <1>1, <2>1 DEF LocksInv, LocksTypeOK
<1>10. LocksTypeOK'
  BY <1>2, <1>6, <1>9, OptionalFacts DEF LocksInv, LocksTypeOK
<1>11. LocksRecorded'
  <2> HIDE DEF k, j
  <2> QED BY <1>2, <1>6, <1>8 DEF LocksInv, LocksRecorded
<1>12. Held' = Held
  <2> HIDE DEF k
  <2> QED BY <1>2, <1>5, <1>6 DEF Held
<1>13. LocksDated'
  BY <1>2, <1>12, HeldBefore, LocksAssumption DEF LocksInv, LocksTypeOK
<1> QED BY <1>10, <1>11, <1>13 DEF LocksInv

\* What an update writes records the build it began with, and moves the date if it moves a pin.
LEMMA NewLockWritten ==
    ASSUME LocksInv, WriteNewLock
    PROVE  \E q \in Points : \E l :
              /\ lock' = [lock EXCEPT ![q] = <<l>>]
              /\ Recorded(l) /\ Dated(l)
<1> DEFINE j == The(job)
           l == Stamped(j.prev, The(j.made))
<1>1. Has(job) /\ Has(j.made) /\ lock' = [lock EXCEPT ![j.point] = <<l>>]
  BY DEF WriteNewLock
<1>2. Underway(j, clock)
  BY <1>1 DEF LocksInv, LocksRecorded
<1>3. /\ Recorded(The(j.made)) /\ The(j.made).epoch = clock /\ j.point \in Points
      /\ Has(j.prev) => Recorded(The(j.prev))
  BY <1>1, <1>2 DEF Underway
<1>4. Has(j.prev) => The(j.prev) \in Held
  BY <1>1 DEF Held
<1> HIDE DEF j
<1>5. /\ Recorded(l)
      /\ AxisContent(l) = AxisContent(The(j.made))
      /\ \/ l = The(j.made)
         \/ /\ Has(j.prev) /\ l.epoch = The(j.prev).epoch
            /\ AxisContent(The(j.made)) = AxisContent(The(j.prev))
  BY <1>3, StampedIsRecorded
<1> HIDE DEF l
<1>6. Dated(l)
  BY <1>3, <1>4, <1>5 DEF Dated
<1> QED BY <1>1, <1>3, <1>5, <1>6

\* What a build writes back is the lock it read, beside what that pins.
LEMMA LockWrittenBack ==
    ASSUME LocksInv, BuildOver, lock' # lock
    PROVE  \E q \in Points : \E l :
              /\ lock' = [lock EXCEPT ![q] = <<l>>]
              /\ Recorded(l) /\ Dated(l) /\ \E m \in Held : l.epoch = m.epoch
<1> DEFINE r == The(reading)
<1>1. Has(reading)
  BY DEF BuildOver
<1>2. Recorded(r.lock) /\ r.point \in Points
  BY <1>1 DEF LocksInv, LocksRecorded, Admitted
<1>3. r.lock \in Held
  BY <1>1 DEF Held
<1>4. PICK m \in {<<>>, <<"solved">>}, s \in {<<>>, <<clock>>} :
            lock' = [lock EXCEPT ![r.point] =
                <<[r.lock EXCEPT !.manifest = IF m # <<>> THEN m ELSE @,
                                 !.snapshot = IF s # <<>> THEN s ELSE @]>>]
  BY DEF BuildOver
<1> DEFINE l == [r.lock EXCEPT !.manifest = IF m # <<>> THEN m ELSE @,
                               !.snapshot = IF s # <<>> THEN s ELSE @]
<1>5. /\ DOMAIN l = DOMAIN r.lock /\ l.epoch = r.lock.epoch
      /\ \A f \in DOMAIN r.lock \ Beside : l[f] = r.lock[f]
  BY <1>2 DEF Recorded, LockFields, Beside
<1>6. lock' = [lock EXCEPT ![r.point] = <<l>>]
  BY <1>4
<1> HIDE DEF l, r
<1>7. Recorded(l) /\ AxisContent(l) = AxisContent(r.lock)
  BY <1>2, <1>5, RecordedBeside
<1> QED BY <1>2, <1>3, <1>5, <1>6, <1>7 DEF Dated

\* A lock that records its build and is dated may be written.
LEMMA WrittenKeeps ==
    ASSUME LocksInv, NEW q \in Points, NEW l, lock' = [lock EXCEPT ![q] = <<l>>],
           Recorded(l), Dated(l), clock' \in Nat, clock <= clock', l.epoch = clock => clock < clock',
           job' \in {job, <<>>}, reading' \in {reading, <<>>}
    PROVE  /\ DOMAIN lock' = Points
           /\ \A p \in Points : Len(lock'[p]) <= 1 /\ (Has(lock'[p]) => IsLock(The(lock'[p])) /\ Recorded(The(lock'[p])))
           /\ LocksDated'
<1>1. Has(<<l>>) /\ The(<<l>>) = l /\ Len(<<l>>) = 1
  BY OptionalFacts
<1>2. DOMAIN lock' = Points /\ \A p \in Points : lock'[p] = IF p = q THEN <<l>> ELSE lock[p]
  BY DEF LocksInv, LocksTypeOK
<1>3. IsLock(l)
  BY DEF Recorded
<1>4. \A p \in Points : Len(lock'[p]) <= 1 /\ (Has(lock'[p]) => IsLock(The(lock'[p])) /\ Recorded(The(lock'[p])))
  BY <1>1, <1>2, <1>3 DEF LocksInv, LocksTypeOK, LocksRecorded
<1>5. Held' \subseteq Held \cup {l}
  BY <1>1, <1>2, OptionalFacts DEF Held
<1>6. clock \in Nat /\ \A m \in Held : m.epoch \in Nat /\ m.epoch < clock
  BY LocksAssumption DEF LocksInv, LocksTypeOK, LocksDated
<1>7. l.epoch \in Nat /\ l.epoch < clock'
  BY <1>6 DEF Dated
<1>8. LocksDated'
  BY <1>5, <1>7, HeldAndOne
<1> QED BY <1>2, <1>4, <1>8

LEMMA WriteNewLockKeeps == ASSUME LocksInv, surveyed' = <<>>, WriteNewLock PROVE LocksInv'
<1>1. /\ Has(job) /\ job' = <<>> /\ clock' = clock + 1
      /\ UNCHANGED <<layers, remote, checkout, blobs, turns, sidecar, reading>>
  BY DEF WriteNewLock, worldVars
<1>2. clock < MaxClock
  BY <1>1 DEF LocksInv, LocksRecorded, Underway
<1>3. clock \in Nat /\ clock' \in 1..MaxClock
  BY <1>1, <1>2, LocksAssumption DEF LocksInv, LocksTypeOK
<1>4. PICK q \in Points : \E l : /\ lock' = [lock EXCEPT ![q] = <<l>>]
                                /\ Recorded(l) /\ Dated(l)
  BY NewLockWritten
<1> PICK l : lock' = [lock EXCEPT ![q] = <<l>>] /\ Recorded(l) /\ Dated(l)
  BY <1>4
<1>5. /\ clock' \in Nat /\ clock <= clock' /\ (l.epoch = clock => clock < clock')
      /\ job' \in {job, <<>>} /\ reading' \in {reading, <<>>}
  BY <1>1, <1>3
<1>6. /\ DOMAIN lock' = Points
      /\ \A p \in Points : Len(lock'[p]) <= 1 /\ (Has(lock'[p]) => IsLock(The(lock'[p])) /\ Recorded(The(lock'[p])))
      /\ LocksDated'
  BY <1>5, WrittenKeeps
<1>7. LocksTypeOK'
  BY <1>1, <1>3, <1>6, OptionalFacts DEF LocksInv, LocksTypeOK
<1>8. LocksRecorded'
  BY <1>1, <1>6, OptionalFacts DEF LocksInv, LocksRecorded, Admitted
<1> QED BY <1>6, <1>7, <1>8 DEF LocksInv

LEMMA UpdateEndsEarlyKeeps == ASSUME LocksInv, surveyed' = <<>>, UpdateEndsEarly PROVE LocksInv'
<1>1. /\ Has(job) /\ job' = <<>> /\ clock' = clock + 1
      /\ UNCHANGED <<layers, remote, checkout, blobs, turns, lock, sidecar, reading>>
  BY DEF UpdateEndsEarly, worldVars
<1>2. clock < MaxClock
  BY <1>1 DEF LocksInv, LocksRecorded, Underway
<1>3. clock \in Nat /\ clock' \in 1..MaxClock
  BY <1>1, <1>2, LocksAssumption DEF LocksInv, LocksTypeOK
<1>4. LocksTypeOK'
  BY <1>1, <1>3, OptionalFacts DEF LocksInv, LocksTypeOK
<1>5. LocksRecorded'
  BY <1>1, OptionalFacts DEF LocksInv, LocksRecorded, Admitted
<1>6. Held' \subseteq Held
  BY <1>1, OptionalFacts DEF Held
<1>7. LocksDated'
  BY <1>1, <1>3, <1>6, HeldBefore
<1> QED BY <1>4, <1>5, <1>7 DEF LocksInv

LEMMA AdmitLockKeeps == ASSUME LocksInv, surveyed' = <<>>, AdmitLock PROVE LocksInv'
<1>1. PICK p \in Points :
          /\ Has(lock[p]) /\ Consistent(The(lock[p]), layers[p])
          /\ SidecarAtHand(p, The(lock[p]))
          /\ reading' = <<[point |-> p, build |-> layers[p], lock |-> The(lock[p]), nuget |-> sidecar[p]]>>
  BY DEF AdmitLock
<1> DEFINE r == [point |-> p, build |-> layers[p], lock |-> The(lock[p]), nuget |-> sidecar[p]]
<1>2. reading' = <<r>> /\ Len(reading') <= 1 /\ Has(reading') /\ The(reading') = r
  BY <1>1, OptionalFacts
<1>3. UNCHANGED <<layers, remote, checkout, blobs, turns, lock, sidecar, job, clock>>
  BY DEF AdmitLock, worldVars
<1>4. IsBuild(layers[p])
  BY LocksAssumption DEF LocksInv, LocksTypeOK
<1>5. Admitted(r)
  BY <1>1, <1>4 DEF LocksInv, LocksRecorded, Admitted, SidecarAtHand
<1>6. r.lock = The(lock[p])
  OBVIOUS
<1> HIDE DEF r
<1>7. LocksTypeOK'
  BY <1>2, <1>3, OptionalFacts DEF LocksInv, LocksTypeOK
<1>8. LocksRecorded'
  BY <1>2, <1>3, <1>5 DEF LocksInv, LocksRecorded, Underway
<1>9. Held' \subseteq Held
  BY <1>1, <1>2, <1>3, <1>6 DEF Held
<1>10. LocksDated'
  BY <1>3, <1>9, HeldBefore, LocksAssumption DEF LocksInv, LocksTypeOK
<1> QED BY <1>7, <1>8, <1>10 DEF LocksInv

LEMMA BuildOverKeeps == ASSUME LocksInv, surveyed' = <<>>, BuildOver PROVE LocksInv'
<1>1. /\ Has(reading) /\ reading' = <<>>
      /\ UNCHANGED <<layers, remote, checkout, blobs, turns, sidecar, job, clock>>
  BY DEF BuildOver, worldVars
<1>2. CASE lock' = lock
  <2>1. LocksTypeOK'
    BY <1>1, <1>2, OptionalFacts DEF LocksInv, LocksTypeOK
  <2>2. LocksRecorded'
    BY <1>1, <1>2, OptionalFacts DEF LocksInv, LocksRecorded, Underway
  <2>3. Held' \subseteq Held
    BY <1>1, <1>2, OptionalFacts DEF Held
  <2>4. LocksDated'
    BY <1>1, <2>3, HeldBefore, LocksAssumption DEF LocksInv, LocksTypeOK
  <2> QED BY <2>1, <2>2, <2>4 DEF LocksInv
<1>3. CASE lock' # lock
  <2>1. clock \in Nat
    BY LocksAssumption DEF LocksInv, LocksTypeOK
  <2>2. \A m \in Held : m.epoch # clock
    BY <2>1 DEF LocksInv, LocksDated
  <2>3. PICK q \in Points : \E l : /\ lock' = [lock EXCEPT ![q] = <<l>>]
                                  /\ Recorded(l) /\ Dated(l) /\ \E m \in Held : l.epoch = m.epoch
    BY <1>3, LockWrittenBack
  <2> PICK l : /\ lock' = [lock EXCEPT ![q] = <<l>>]
               /\ Recorded(l) /\ Dated(l) /\ \E m \in Held : l.epoch = m.epoch
    BY <2>3
  <2>4. /\ clock' \in Nat /\ clock <= clock' /\ (l.epoch = clock => clock < clock')
        /\ job' \in {job, <<>>} /\ reading' \in {reading, <<>>}
    BY <1>1, <2>1, <2>2
  <2>5. /\ DOMAIN lock' = Points
        /\ \A p \in Points : Len(lock'[p]) <= 1 /\ (Has(lock'[p]) => IsLock(The(lock'[p])) /\ Recorded(The(lock'[p])))
        /\ LocksDated'
    BY <2>4, WrittenKeeps
  <2>6. LocksTypeOK'
    BY <1>1, <2>5, OptionalFacts DEF LocksInv, LocksTypeOK
  <2>7. LocksRecorded'
    BY <1>1, <2>5, OptionalFacts DEF LocksInv, LocksRecorded, Underway
  <2> QED BY <2>5, <2>6, <2>7 DEF LocksInv
<1> QED BY <1>2, <1>3

LEMMA WorldMovesKeeps == ASSUME LocksInv, surveyed' = <<>>, WorldMoves PROVE LocksInv'
<1>1. UNCHANGED <<lock, sidecar, job, reading, clock>>
  BY DEF WorldMoves
<1>2. LocksTypeOK'
  BY <1>1, LocksAssumption, OptionalFacts DEF WorldMoves, LocksInv, LocksTypeOK
<1>3. LocksRecorded'
  BY <1>1 DEF LocksInv, LocksRecorded, Underway
<1>4. Held' = Held
  BY <1>1 DEF Held
<1>5. LocksDated'
  BY <1>1, <1>4, HeldBefore, LocksAssumption DEF LocksInv, LocksTypeOK
<1> QED BY <1>2, <1>3, <1>5 DEF LocksInv

LEMMA LocksStutterKeeps == ASSUME LocksInv, UNCHANGED lockVars PROVE LocksInv'
<1>1. LocksTypeOK'
  BY DEF lockVars, LocksInv, LocksTypeOK
<1>2. LocksRecorded'
  BY DEF lockVars, LocksInv, LocksRecorded, Underway
<1>3. Held' = Held
  BY DEF lockVars, Held
<1>4. LocksDated'
  BY <1>3, HeldBefore, LocksAssumption DEF lockVars, LocksInv, LocksTypeOK
<1> QED BY <1>1, <1>2, <1>4 DEF LocksInv

\* The actions together.
LEMMA LocksInvariant == LocksSpec => []LocksInv
<1>1. LocksInit => LocksInv
  BY LocksInitInv
<1>2. LocksInv /\ [LocksNext]_lockVars => LocksInv'
  BY AskKeeps, UpdateBeginsKeeps, ResolveLockKeeps, WriteNewLockKeeps, UpdateEndsEarlyKeeps,
     AdmitLockKeeps, BuildOverKeeps, WorldMovesKeeps, LocksStutterKeeps DEF LocksNext
<1> QED BY <1>1, <1>2, PTL DEF LocksSpec

\* A lock, a sidecar, an update and a build under way have their shapes.
THEOREM LocksTypes == LocksSpec => []LocksTypeOK
<1>1. LocksInv => LocksTypeOK
  BY DEF LocksInv
<1> QED BY <1>1, LocksInvariant, PTL

\* What `check_lock_consistency` and `read_pinned_manifest` admit was made for these layers by
\* one update, for any layers, upstreams and operators, however updates and builds overlap.
THEOREM NoHybridHolds == LocksSpec => []NoHybrid
<1>1. LocksInv => NoHybrid
  <2> SUFFICES ASSUME LocksInv, Has(reading)
               PROVE  LET r == The(reading) IN
                      /\ Decided(r.lock.of) = Decided(r.build)
                      /\ Has(r.lock.git["app"]) =>
                            /\ The(r.nuget).app = r.lock.git["app"]
                            /\ The(r.nuget).packaging = r.lock.git["packaging"]
                            /\ The(r.nuget).patches = r.lock.patches["apppatches"]
    BY DEF NoHybrid
  <2> DEFINE r == The(reading)
  <2>1. Recorded(r.lock) /\ IsBuild(r.build) /\ Consistent(r.lock, r.build)
        /\ (Has(r.lock.nuget) => r.nuget = r.lock.nuget)
    BY DEF LocksInv, LocksRecorded, Admitted
  <2> HIDE DEF r
  <2>2. Decided(r.lock.of) = Decided(r.build)
    BY <2>1, ConsistentIsDecided
  <2>3. Has(r.lock.git["app"]) =>
            /\ The(r.nuget).app = r.lock.git["app"]
            /\ The(r.nuget).packaging = r.lock.git["packaging"]
            /\ The(r.nuget).patches = r.lock.patches["apppatches"]
    BY <2>1 DEF Recorded
  <2> QED BY <2>2, <2>3 DEF r
<1> QED BY <1>1, LocksInvariant, PTL

\* A lock of the same axes as another, made for layers of the same series and SDK, pins the same.
LEMMA LayersNameTheRest ==
    ASSUME NEW l, NEW m, Recorded(l), Recorded(m), AxisContent(l) = AxisContent(m), LeftOut(l.of) = LeftOut(m.of)
    PROVE  LockContent(l) = LockContent(m)
<1>1. LeftOut(l) = LeftOut(l.of) /\ LeftOut(m) = LeftOut(m.of)
  BY DEF Recorded, LeftOut
<1> QED BY <1>1 DEF LockContent

\* `keep_source_date_epoch` keeps a date only over pins that `pin_changes` finds unmoved, and no
\* two updates are given one date; the series and the digest it does not compare are the layers'.
THEOREM DateMovesWithContentHolds == LocksSpec => DateMovesWithContent
<1> DEFINE Same(l, m) == /\ AxisContent(l) = AxisContent(m)
                         /\ LeftOut(l.of) = LeftOut(m.of) => LockContent(l) = LockContent(m)
           A == \A p \in Points :
                  Has(lock[p]) /\ Has(lock'[p]) /\ The(lock[p]).epoch = The(lock'[p]).epoch
                      => Same(The(lock[p]), The(lock'[p]))
<1>1. ASSUME LocksInv, [LocksNext]_lockVars PROVE [A]_lockVars
  <2>0. \A p \in Points : Has(lock[p]) => Recorded(The(lock[p]))
    BY <1>1 DEF LocksInv, LocksRecorded
  <2>1. CASE lock' = lock
    BY <2>1
  <2>2. CASE \E q \in Points : \E l : lock' = [lock EXCEPT ![q] = <<l>>] /\ Recorded(l) /\ Dated(l)
    <3> PICK q \in Points : \E l : lock' = [lock EXCEPT ![q] = <<l>>] /\ Recorded(l) /\ Dated(l)
      BY <2>2
    <3> PICK l : lock' = [lock EXCEPT ![q] = <<l>>] /\ Recorded(l) /\ Dated(l)
      OBVIOUS
    <3>1. \A p \in Points : lock'[p] = IF p = q THEN <<l>> ELSE lock[p]
      BY <1>1 DEF LocksInv, LocksTypeOK
    <3>2. The(<<l>>) = l
      BY OptionalFacts
    <3>3. \A p \in Points : Has(lock[p]) => The(lock[p]) \in Held
      BY DEF Held
    <3>4. /\ clock \in Nat /\ \A m \in Held : m.epoch \in Nat /\ m.epoch < clock
          /\ \A m, n \in Held : m.epoch = n.epoch => AxisContent(m) = AxisContent(n)
      BY <1>1, LocksAssumption DEF LocksInv, LocksTypeOK, LocksDated
    <3>5. \A m \in Held : m.epoch = l.epoch => AxisContent(m) = AxisContent(l)
      BY <3>4 DEF Dated
    <3>6. ASSUME NEW m \in Held, Recorded(m), m.epoch = l.epoch PROVE Same(m, l)
      BY <3>5, <3>6, LayersNameTheRest
    <3> HIDE DEF Same
    <3>7. \A m : Same(m, m)
      BY DEF Same
    <3>8. A
      BY <2>0, <3>1, <3>2, <3>3, <3>6, <3>7
    <3> QED BY <3>8
  <2>3. \/ lock' = lock
        \/ WriteNewLock \/ BuildOver
    BY <1>1 DEF LocksNext, lockVars, Ask, UpdateBegins, ResolveLock, UpdateEndsEarly, AdmitLock, WorldMoves
  <2> QED BY <1>1, <2>1, <2>2, <2>3, NewLockWritten, LockWrittenBack
<1> QED BY <1>1, LocksInvariant, PTL DEF LocksSpec, DateMovesWithContent
-----------------------------------------------------------------------------
(* The config tree. *)

\* A function that steps through a set from a first element, the same step each time.
Steps(f, n, step, x) == f[0] = x /\ \A i \in 1..n : f[i] = step[f[i - 1]]

LEMMA StepsExist ==
    ASSUME NEW S, NEW n \in Nat, NEW step \in [S -> S], NEW x \in S
    PROVE  \E f \in [0..n -> S] : Steps(f, n, step, x)
<1>1. PICK f \in [0..n -> S] : Recurs(f, n, [i \in 1..n |-> step], x)
  BY RecursExist
<1>2. Steps(f, n, step, x)
  BY <1>1 DEF Recurs, Steps
<1> QED BY <1>2

\* A tree as edits leave it.
Tree(t) == DOMAIN t = Paths /\ \A p \in Paths : t[p] \in Holds[p[2]]

LEMMA FileIsHeld ==
    ASSUME NEW t, Tree(t), NEW r \in Roots, NEW rel, At(t, r, rel) # <<>>
    PROVE  rel \in Rels /\ At(t, r, rel) \in Holds[rel]
<1>1. <<r, rel>> \in Paths /\ At(t, r, rel) = t[<<r, rel>>]
  BY DEF Tree, At, FileAt
<1> QED BY <1>1 DEF Tree, Paths

\* What the two copies a file may have say of a key, both of them or the one there is.
LEMMA KeyIsHeld ==
    ASSUME NEW t, Tree(t), NEW rel, MergeValue(t, rel) # <<>>, NEW k, NEW S,
           \A c \in Holds[rel] : rel \in Rels /\ c # <<>> => k \in DOMAIN c[1] /\ c[1][k] \in S
    PROVE  MergeValue(t, rel)[1][k] \in S
<1> DEFINE under == At(t, "shipped", rel)
           over == At(t, "overlay", rel)
<1>1. under # <<>> => k \in DOMAIN under[1] /\ under[1][k] \in S
  BY FileIsHeld DEF Roots
<1>2. over # <<>> => k \in DOMAIN over[1] /\ over[1][k] \in S
  BY FileIsHeld DEF Roots
<1>3. CASE under = <<>> \/ over = <<>>
  <2>1. MergeValue(t, rel) = Either(over, under)
    BY <1>3 DEF MergeValue
  <2> QED BY <2>1, <1>1, <1>2, <1>3 DEF Either
<1>4. CASE under # <<>> /\ over # <<>>
  <2>1. MergeValue(t, rel)[1] = [j \in DOMAIN under[1] |-> Either(over[1][j], under[1][j])]
    BY <1>4 DEF MergeValue
  <2>2. MergeValue(t, rel)[1][k] = Either(over[1][k], under[1][k])
    BY <2>1, <1>1, <1>4
  <2> QED BY <2>2, <1>1, <1>2, <1>4 DEF Either
<1> QED BY <1>3, <1>4

LEMMA RecipeFacts ==
    ASSUME NEW t, Tree(t), RecipeOf(t) # <<>>
    PROVE  RecipeKey(t, "device") \in Seq(Boards)
<1>1. \A c \in Holds[RecipeFile("toml")] :
         RecipeFile("toml") \in Rels /\ c # <<>> => "device" \in DOMAIN c[1] /\ c[1]["device"] \in Seq(Boards)
  BY ConfigAssumption
<1> QED BY <1>1, KeyIsHeld DEF RecipeOf, RecipeKey

LEMMA BoardFacts ==
    ASSUME NEW t, Tree(t), NEW d \in Boards, Load(t, d) # <<>>
    PROVE  Key(t, d, "extends") \in Seq(Boards)
<1>1. \A c \in Holds[Toml(d)] :
         Toml(d) \in Rels /\ c # <<>> => "extends" \in DOMAIN c[1] /\ c[1]["extends"] \in Seq(Boards)
  BY ConfigAssumption
<1> QED BY <1>1, KeyIsHeld DEF Load, Key

LEMMA DistroFacts ==
    ASSUME NEW t, Tree(t), NEW n \in DistroNames, Load(t, n) # <<>>, Key(t, n, "keyring") # <<>>
    PROVE  Key(t, n, "keyring")[1] \in ToSet(Key(t, n, "keyring"))
<1> DEFINE S == {<<>>} \cup {x \in {Key(t, n, "keyring")} : DOMAIN x = {1}}
                   \cup {x \in {c[1]["keyring"] : c \in Holds[Toml(n)]} : DOMAIN x = {1}}
<1>1. \A c \in Holds[Toml(n)] :
         Toml(n) \in Rels /\ c # <<>> => "keyring" \in DOMAIN c[1] /\ c[1]["keyring"] \in S
  BY ConfigAssumption
<1> HIDE DEF S
<1>2. Key(t, n, "keyring") \in S
  BY <1>1, KeyIsHeld DEF Load, Key
<1> USE DEF S
<1>3. DOMAIN Key(t, n, "keyring") = {1}
  BY <1>2
<1> QED BY <1>3 DEF ToSet
-----------------------------------------------------------------------------
(* The lineage. *)

Parent(t, d) == IF Load(t, d) = <<>> THEN <<>> ELSE Key(t, d, "extends")
Upward(t) == [s \in Seq(Boards) |-> IF s = <<>> THEN <<>> ELSE Parent(t, Head(s)) \o s]
Height == Cardinality(Boards)
Climbs(t, f) == f \in [0..Height -> Seq(Boards)] /\ Steps(f, Height, Upward(t), RecipeKey(t, "device"))

LEMMA HeightIsNat == Height \in Nat
BY ConfigAssumption, FS_CardinalityType DEF Height

LEMMA UpwardType ==
    ASSUME NEW t, Tree(t)
    PROVE  Upward(t) \in [Seq(Boards) -> Seq(Boards)]
<1>1. ASSUME NEW s \in Seq(Boards) PROVE (IF s = <<>> THEN <<>> ELSE Parent(t, Head(s)) \o s) \in Seq(Boards)
  <2>1. CASE s = <<>>
    BY <2>1
  <2>2. CASE s # <<>>
    <3>1. Head(s) \in Boards
      BY <2>2
    <3>2. Parent(t, Head(s)) \in Seq(Boards)
      BY <3>1, BoardFacts DEF Parent
    <3> QED BY <2>2, <3>2
  <2> QED BY <2>1, <2>2
<1> QED BY <1>1 DEF Upward

\* The recursive definition has a solution, the only one.
LEMMA LineageClimbs ==
    ASSUME NEW t, Tree(t), RecipeOf(t) # <<>>
    PROVE  \E f : Climbs(t, f) /\ Lineage(t) = f[Height]
<1>1. PICK f \in [0..Height -> Seq(Boards)] : Steps(f, Height, Upward(t), RecipeKey(t, "device"))
  BY UpwardType, RecipeFacts, HeightIsNat, StepsExist
<1> DEFINE Rule(g) == [n \in 0..Height |->
                          IF n = 0 THEN RecipeKey(t, "device")
                          ELSE IF g[n - 1] = <<>> THEN <<>> ELSE Parent(t, Head(g[n - 1])) \o g[n - 1]]
           up == CHOOSE g : g = Rule(g)
<1>2. Lineage(t) = up[Height]
  BY DEF Lineage, Parent, Height
<1>3. f = Rule(f)
  <2>1. ASSUME NEW n \in 0..Height PROVE f[n] = Rule(f)[n]
    <3>1. CASE n = 0
      BY <1>1, <3>1 DEF Steps
    <3>2. CASE n # 0
      <4>1. n \in 1..Height /\ n - 1 \in 0..Height
        BY <3>2, HeightIsNat
      <4>2. f[n] = Upward(t)[f[n - 1]] /\ f[n - 1] \in Seq(Boards)
        BY <1>1, <4>1 DEF Steps
      <4> QED BY <3>2, <4>2 DEF Upward
    <3> QED BY <3>1, <3>2
  <2> QED BY <1>1, <2>1
<1>4. up = Rule(up)
  BY <1>3
<1> HIDE DEF up
<1>5. ASSUME NEW g, g = Rule(g)
      PROVE  /\ g[0] = RecipeKey(t, "device")
             /\ \A n \in 1..Height :
                   g[n] = IF g[n - 1] = <<>> THEN <<>> ELSE Parent(t, Head(g[n - 1])) \o g[n - 1]
  <2>1. \A n \in 0..Height : g[n] = Rule(g)[n]
    BY <1>5
  <2> QED BY <2>1, HeightIsNat
<1> HIDE DEF Rule
<1> DEFINE T == {n \in 0..Height : up[n] = f[n]}
<1>6. 0 \in T
  BY <1>3, <1>4, <1>5, HeightIsNat
<1>7. ASSUME NEW n \in 1..Height, n - 1 \in T PROVE n \in T
  <2>1. up[n] = IF up[n - 1] = <<>> THEN <<>> ELSE Parent(t, Head(up[n - 1])) \o up[n - 1]
    BY <1>4, <1>5
  <2>2. f[n] = IF f[n - 1] = <<>> THEN <<>> ELSE Parent(t, Head(f[n - 1])) \o f[n - 1]
    BY <1>3, <1>5
  <2>3. up[n - 1] = f[n - 1]
    BY <1>7
  <2>4. up[n] = f[n]
    BY <2>1, <2>2, <2>3
  <2> QED BY <2>4, HeightIsNat
<1> HIDE DEF T
<1>8. 0..Height \subseteq T
  BY <1>6, <1>7, HeightIsNat, UpTo
<1>9. up[Height] = f[Height]
  BY <1>8, HeightIsNat DEF T
<1> QED BY <1>1, <1>2, <1>9 DEF Climbs

LEMMA OnTop ==
    ASSUME NEW S, NEW s \in Seq(S), NEW u \in Seq(S)
    PROVE  ToSet(s) \subseteq ToSet(u \o s)
<1> SUFFICES ASSUME NEW i \in 1..Len(s) PROVE s[i] \in ToSet(u \o s)
  BY DEF ToSet
<1>1. Len(u) + i \in DOMAIN (u \o s) /\ (u \o s)[Len(u) + i] = s[i]
  OBVIOUS
<1> QED BY <1>1 DEF ToSet

\* What the climb has passed is on the lineage.
LEMMA PassedIsOnTheLineage ==
    ASSUME NEW t, Tree(t), NEW f, Climbs(t, f), NEW n \in 0..Height
    PROVE  ToSet(f[n]) \subseteq ToSet(f[Height])
<1> DEFINE T == {k \in 0..Height : ToSet(f[Height - k]) \subseteq ToSet(f[Height])}
<1>1. 0 \in T
  BY HeightIsNat
<1>2. ASSUME NEW k \in 1..Height, k - 1 \in T PROVE k \in T
  <2> DEFINE m == Height - (k - 1)
  <2>1. m \in 1..Height /\ m - 1 \in 0..Height /\ Height - k = m - 1
    BY HeightIsNat
  <2>2. f[m] = Upward(t)[f[m - 1]] /\ f[m - 1] \in Seq(Boards) /\ f[m] \in Seq(Boards)
    BY <2>1 DEF Climbs, Steps
  <2> HIDE DEF m
  <2>3. ToSet(f[m - 1]) \subseteq ToSet(f[m])
    <3>1. CASE f[m - 1] = <<>>
      BY <3>1 DEF ToSet
    <3>2. CASE f[m - 1] # <<>>
      <4>1. f[m] = Parent(t, Head(f[m - 1])) \o f[m - 1]
        BY <2>2, <3>2 DEF Upward
      <4>2. Head(f[m - 1]) \in Boards
        BY <2>2, <3>2
      <4>3. Parent(t, Head(f[m - 1])) \in Seq(Boards)
        BY <4>2, BoardFacts DEF Parent
      <4> QED BY <2>2, <4>1, <4>3, OnTop
    <3> QED BY <3>1, <3>2
  <2> QED BY <2>1, <2>3, <1>2 DEF m
<1> HIDE DEF T
<1>3. 0..Height \subseteq T
  BY <1>1, <1>2, HeightIsNat, UpTo
<1>4. Height - n \in T /\ Height - (Height - n) = n
  BY <1>3, HeightIsNat
<1> QED BY <1>4 DEF T

\* A lineage is decided by the files of its boards.
LEMMA SameLineage ==
    ASSUME NEW t, Tree(t), NEW u, Tree(u), RecipeOf(t) # <<>>, RecipeOf(u) # <<>>,
           RecipeKey(u, "device") = RecipeKey(t, "device"),
           \A d \in ToSet(Lineage(t)) : Load(u, d) = Load(t, d)
    PROVE  Lineage(u) = Lineage(t)
<1>1. PICK f : Climbs(t, f) /\ Lineage(t) = f[Height]
  BY LineageClimbs
<1>2. PICK g : Climbs(u, g) /\ Lineage(u) = g[Height]
  BY LineageClimbs
<1> DEFINE T == {n \in 0..Height : g[n] = f[n]}
<1>3. 0 \in T
  BY <1>1, <1>2, HeightIsNat DEF Climbs, Steps
<1>4. ASSUME NEW n \in 1..Height, n - 1 \in T PROVE n \in T
  <2>1. n \in 0..Height /\ n - 1 \in 0..Height
    BY HeightIsNat
  <2>2. /\ f[n] = Upward(t)[f[n - 1]] /\ g[n] = Upward(u)[g[n - 1]]
        /\ f[n - 1] \in Seq(Boards) /\ g[n - 1] = f[n - 1]
    BY <1>1, <1>2, <1>4, <2>1 DEF Climbs, Steps
  <2>3. CASE f[n - 1] = <<>>
    BY <2>1, <2>2, <2>3 DEF Upward
  <2>4. CASE f[n - 1] # <<>>
    <3>1. Head(f[n - 1]) \in ToSet(f[n - 1])
      BY <2>2, <2>4 DEF ToSet
    <3>2. Head(f[n - 1]) \in ToSet(Lineage(t))
      BY <3>1, <2>1, <1>1, PassedIsOnTheLineage
    <3>3. Parent(u, Head(f[n - 1])) = Parent(t, Head(f[n - 1]))
      BY <3>2 DEF Parent, Key
    <3> QED BY <2>1, <2>2, <2>4, <3>3 DEF Upward
  <2> QED BY <2>3, <2>4
<1> HIDE DEF T
<1>5. 0..Height \subseteq T
  BY <1>3, <1>4, HeightIsNat, UpTo
<1>6. g[Height] = f[Height]
  BY <1>5, HeightIsNat DEF T
<1> QED BY <1>1, <1>2, <1>6
-----------------------------------------------------------------------------
(* A tree that was cleared. *)

\* Trees that differ in nothing the second one's build looks up.
Untouched ==
    /\ Tree(rev) /\ Tree(config)
    /\ \A p \in Changes : ~Reaches(BuildInputs(config), p)

LEMMA ReachedIsEquivalent ==
    ASSUME Untouched, NEW r \in Roots, NEW rel, NEW n \in DOMAIN rel,
           <<r, SubSeq(rel, 1, n)>> \in BuildInputs(config)
    PROVE  Equivalent(<<r, rel>>, At(rev, r, rel), At(config, r, rel))
<1> DEFINE p == <<r, rel>>
<1>1. Reaches(BuildInputs(config), p)
  BY DEF Reaches
<1>2. CASE p \in Paths
  <2>1. At(rev, r, rel) = rev[p] /\ At(config, r, rel) = config[p]
    BY <1>2 DEF At, FileAt, Untouched, Tree
  <2> QED BY <1>1, <1>2, <2>1 DEF Untouched, Changes
<1>3. CASE p \notin Paths
  <2>1. At(rev, r, rel) = <<>> /\ At(config, r, rel) = <<>>
    BY <1>3 DEF At, FileAt, Untouched, Tree
  <2> QED BY <2>1 DEF Equivalent
<1> QED BY <1>2, <1>3

LEMMA PairIsSeq ==
    ASSUME NEW a, NEW b
    PROVE  <<a, b>> \in Seq({a, b}) /\ <<a, b>> # <<>>
OBVIOUS

LEMMA TripleIsSeq ==
    ASSUME NEW a, NEW b, NEW c
    PROVE  <<a, b, c>> \in Seq({a, b, c}) /\ <<a, b, c>> # <<>>
OBVIOUS

LEMMA WholeIsPrefix ==
    ASSUME NEW S, NEW s \in Seq(S), s # <<>>, NEW c
    PROVE  /\ Len(s) \in DOMAIN s /\ SubSeq(s, 1, Len(s)) = s
           /\ Len(s) \in DOMAIN Append(s, c) /\ SubSeq(Append(s, c), 1, Len(s)) = s
OBVIOUS

LEMMA InputIsEquivalent ==
    ASSUME Untouched, NEW S, NEW rel \in Seq(S), rel # <<>>, rel \in InputFiles(config), NEW r \in Roots
    PROVE  /\ Equivalent(<<r, rel>>, At(rev, r, rel), At(config, r, rel))
           /\ Equivalent(<<r, InDir(rel)>>, At(rev, r, InDir(rel)), At(config, r, InDir(rel)))
<1>1. <<r, rel>> \in BuildInputs(config)
  <2>1. <<r, rel>> \in Probed(config, rel)
    BY DEF Probed
  <2> QED BY <2>1 DEF BuildInputs
<1>2. Len(rel) \in DOMAIN rel /\ <<r, SubSeq(rel, 1, Len(rel))>> \in BuildInputs(config)
  BY <1>1, WholeIsPrefix
<1>3. Len(rel) \in DOMAIN InDir(rel) /\ <<r, SubSeq(InDir(rel), 1, Len(rel))>> \in BuildInputs(config)
  BY <1>1, WholeIsPrefix DEF InDir
<1> QED BY <1>2, <1>3, ReachedIsEquivalent

LEMMA NotTheRecipe ==
    ASSUME NEW a, NEW b, NEW d
    PROVE  /\ <<a, b>> # RecipeFile("toml")
           /\ Append(<<a, b>>, d) # RecipeFile("toml") \/ d = "toml"
<1>1. Len(<<a, b>>) = 2 /\ Len(RecipeFile("toml")) = 3 /\ RecipeFile("toml")[3] = "toml"
  BY DEF RecipeFile
<1>2. Append(<<a, b>>, d)[3] = d
  BY PairIsSeq
<1> QED BY <1>1, <1>2

\* A file of two names, or one under a directory of two names, is read the same.
LEMMA SameFile ==
    ASSUME Untouched, NEW a, NEW b, <<a, b>> \in InputFiles(config), NEW r \in Roots
    PROVE  /\ At(rev, r, <<a, b>>) = At(config, r, <<a, b>>)
           /\ At(rev, r, InDir(<<a, b>>)) = At(config, r, InDir(<<a, b>>))
<1>1. /\ Equivalent(<<r, <<a, b>>>>, At(rev, r, <<a, b>>), At(config, r, <<a, b>>))
      /\ Equivalent(<<r, InDir(<<a, b>>)>>, At(rev, r, InDir(<<a, b>>)), At(config, r, InDir(<<a, b>>)))
  BY PairIsSeq, InputIsEquivalent
<1>2. <<a, b>> # RecipeFile("toml") /\ InDir(<<a, b>>) # RecipeFile("toml")
  BY NotTheRecipe DEF InDir
<1> QED BY <1>1, <1>2 DEF Equivalent

LEMMA SameLayer ==
    ASSUME Untouched, NEW n \in InputLayers(config)
    PROVE  Load(rev, n) = Load(config, n)
<1>1. <<n, "toml">> \in InputFiles(config)
  BY DEF InputFiles, Toml
<1>2. \A r \in Roots : At(rev, r, Toml(n)) = At(config, r, Toml(n))
  BY <1>1, SameFile DEF Toml
<1> QED BY <1>2 DEF Load, MergeValue, Roots

\* The recipe is read the same but for its claim.
LEMMA SameRecipe ==
    ASSUME Untouched, RecipeOf(rev) # <<>>, RecipeOf(config) # <<>>
    PROVE  /\ RecipeKey(rev, "device") = RecipeKey(config, "device")
           /\ RecipeKey(rev, "features") = RecipeKey(config, "features")
           /\ OwningRoot(rev) = OwningRoot(config)
<1> DEFINE rel == RecipeFile("toml")
           over == At(config, "overlay", rel)
           was == At(rev, "shipped", rel)
           is == At(config, "shipped", rel)
<1>1. \A r \in Roots : Equivalent(<<r, rel>>, At(rev, r, rel), At(config, r, rel))
  BY TripleIsSeq, InputIsEquivalent DEF RecipeFile, InputFiles
<1>2. At(rev, "overlay", rel) = over
  BY <1>1 DEF Roots, Equivalent
<1>3. OwningRoot(rev) = OwningRoot(config)
  BY <1>2 DEF OwningRoot
<1>4. CASE was = is
  BY <1>2, <1>3, <1>4 DEF RecipeKey, RecipeOf, MergeValue
<1>5. CASE was # is
  <2>1. /\ was # <<>> /\ is # <<>>
        /\ \A k \in DOMAIN was[1] \ {"support"} : was[1][k] = is[1][k]
    BY <1>1, <1>5 DEF Roots, Equivalent
  <2>2. {"device", "features"} \subseteq DOMAIN was[1] /\ {"device", "features"} \subseteq DOMAIN is[1]
    BY <2>1, FileIsHeld, ConfigAssumption DEF Untouched, Roots
  <2>3. was[1]["device"] = is[1]["device"] /\ was[1]["features"] = is[1]["features"]
    BY <2>1, <2>2
  <2>4. CASE over = <<>>
    BY <1>2, <1>3, <2>3, <2>4 DEF RecipeKey, RecipeOf, MergeValue, Either
  <2>5. CASE over # <<>>
    <3>1. RecipeOf(rev)[1] = [k \in DOMAIN was[1] |-> Either(over[1][k], was[1][k])]
      BY <1>2, <2>1, <2>5 DEF RecipeOf, MergeValue
    <3>2. RecipeOf(config)[1] = [k \in DOMAIN is[1] |-> Either(over[1][k], is[1][k])]
      BY <2>1, <2>5 DEF RecipeOf, MergeValue
    <3> QED BY <3>1, <3>2, <2>2, <2>3, <1>3 DEF RecipeKey
  <2> QED BY <2>4, <2>5
<1> QED BY <1>4, <1>5

LEMMA SameKeys ==
    ASSUME Untouched, NEW n \in InputLayers(config), NEW k
    PROVE  Key(rev, n, k) = Key(config, n, k)
BY SameLayer DEF Key

\* The layers of the point, one after another.
LEMMA SameLayersNamed ==
    ASSUME Untouched, RecipeOf(rev) # <<>>, RecipeOf(config) # <<>>
    PROVE  FeaturesOf(rev) = FeaturesOf(config) /\ Lineage(rev) = Lineage(config)
<1>1. FeaturesOf(rev) = FeaturesOf(config)
  BY SameRecipe DEF FeaturesOf
<1>2. \A d \in ToSet(Lineage(config)) : Load(rev, d) = Load(config, d)
  BY SameLayer DEF InputLayers
<1>3. Lineage(rev) = Lineage(config)
  BY <1>2, SameRecipe, SameLineage DEF Untouched
<1> QED BY <1>1, <1>3

LEMMA SameOnLineage ==
    ASSUME Untouched, Lineage(rev) = Lineage(config), NEW k
    PROVE  Device(rev, k) = Device(config, k) /\ Accumulated(rev, k) = Accumulated(config, k)
<1> DEFINE line == Lineage(config)
<1>1. \A i \in DOMAIN line : Key(rev, line[i], k) = Key(config, line[i], k)
  BY SameKeys DEF InputLayers, ToSet
<1> HIDE DEF line
<1>2. [i \in DOMAIN line |-> Key(rev, line[i], k)] = [i \in DOMAIN line |-> Key(config, line[i], k)]
  BY <1>1
<1>3. [i \in DOMAIN line |-> Joined(Key(rev, line[i], k))] = [i \in DOMAIN line |-> Joined(Key(config, line[i], k))]
  BY <1>1
<1>4. Device(rev, k) = Device(config, k)
  BY <1>2 DEF Device, line
<1>5. Accumulated(rev, k) = Accumulated(config, k)
  BY <1>3 DEF Accumulated, line
<1> QED BY <1>4, <1>5

LEMMA SameOfFeatures ==
    ASSUME Untouched, FeaturesOf(rev) = FeaturesOf(config), NEW k
    PROVE  Joined([i \in DOMAIN FeaturesOf(rev) |-> Joined(Key(rev, FeaturesOf(rev)[i], k))])
             = Joined([i \in DOMAIN FeaturesOf(config) |-> Joined(Key(config, FeaturesOf(config)[i], k))])
<1> DEFINE fs == FeaturesOf(config)
<1>1. \A i \in DOMAIN fs : Key(rev, fs[i], k) = Key(config, fs[i], k)
  BY SameKeys DEF InputLayers, ToSet
<1> HIDE DEF fs
<1>2. [i \in DOMAIN fs |-> Joined(Key(rev, fs[i], k))] = [i \in DOMAIN fs |-> Joined(Key(config, fs[i], k))]
  BY <1>1
<1> QED BY <1>2 DEF fs

\* A suite is served by the one distribution that served it.
LEMMA SameDistro ==
    ASSUME Untouched, Lineage(rev) = Lineage(config),
           Cardinality(Serving(rev)) = 1, Cardinality(Serving(config)) = 1
    PROVE  DistroOfSuite(rev) = DistroOfSuite(config) /\ DistroOfSuite(config) \in Serving(config)
<1>1. \A t : IsFiniteSet(Serving(t))
  BY ConfigAssumption, FS_Subset DEF Serving
<1>2. PICK n : Serving(config) = {n}
  BY <1>1, FS_Singleton
<1>3. PICK m : Serving(rev) = {m}
  BY <1>1, FS_Singleton
<1>4. DistroOfSuite(config) = n /\ DistroOfSuite(rev) = m
  BY <1>2, <1>3 DEF DistroOfSuite
<1>5. n \in InputLayers(config)
  BY <1>4 DEF InputLayers
<1>6. Load(rev, n) = Load(config, n) /\ Device(rev, "suite") = Device(config, "suite")
  BY <1>5, SameLayer, SameOnLineage
<1>7. n \in Serving(rev)
  BY <1>2, <1>6 DEF Serving, Key
<1> QED BY <1>2, <1>3, <1>4, <1>7

LEMMA SameLock ==
    ASSUME Untouched, OwningRoot(rev) = OwningRoot(config)
    PROVE  /\ LockOf(rev) = LockOf(config)
           /\ LockOf(config)[1].pinned => FileAt(rev, LockSibling(rev)) = FileAt(config, LockSibling(config))
<1> DEFINE r == OwningRoot(config)
<1>1. r \in Roots
  BY DEF OwningRoot, Roots
<1>2. \A ending : \E n \in DOMAIN RecipeFile(ending) : SubSeq(RecipeFile(ending), 1, n) = RecipeFile(ending)
  BY TripleIsSeq, WholeIsPrefix DEF RecipeFile
<1>3. RecipeFile("lock") # RecipeFile("toml") /\ RecipeFile("pkgs") # RecipeFile("toml")
  BY DEF RecipeFile
<1> HIDE DEF r
<1>4. <<r, RecipeFile("lock")>> \in BuildInputs(config)
  BY DEF BuildInputs, LockPath, r
<1>5. Equivalent(<<r, RecipeFile("lock")>>, At(rev, r, RecipeFile("lock")), At(config, r, RecipeFile("lock")))
  BY <1>1, <1>2, <1>4, ReachedIsEquivalent
<1>6. At(rev, r, RecipeFile("lock")) = At(config, r, RecipeFile("lock"))
  BY <1>3, <1>5 DEF Equivalent
<1>7. LockOf(rev) = LockOf(config)
  BY <1>6 DEF LockOf, LockPath, At, r
<1>8. ASSUME LockOf(config)[1].pinned
      PROVE  FileAt(rev, LockSibling(rev)) = FileAt(config, LockSibling(config))
  <2>1. <<r, RecipeFile("pkgs")>> \in BuildInputs(config)
    BY <1>8 DEF BuildInputs, LockSibling, r
  <2>2. Equivalent(<<r, RecipeFile("pkgs")>>, At(rev, r, RecipeFile("pkgs")), At(config, r, RecipeFile("pkgs")))
    BY <1>1, <1>2, <2>1, ReachedIsEquivalent
  <2>3. At(rev, r, RecipeFile("pkgs")) = At(config, r, RecipeFile("pkgs"))
    BY <1>3, <2>2 DEF Equivalent
  <2> QED BY <2>3 DEF LockSibling, At, r
<1> QED BY <1>7, <1>8

LEMMA SameAsset ==
    ASSUME Untouched, NEW rel, \A r \in Roots : At(rev, r, rel) = At(config, r, rel)
    PROVE  FindAsset(rev, rel) = FindAsset(config, rel) /\ FindAssetAll(rev, rel) = FindAssetAll(config, rel)
BY DEF FindAsset, FindAssetAll, Roots

LEMMA SameKeyring ==
    ASSUME Untouched, NEW k, Keyring(k) \in InputFiles(config)
    PROVE  FindAsset(rev, Keyring(k)) = FindAsset(config, Keyring(k))
<1>1. \A r \in Roots : Equivalent(<<r, Keyring(k)>>, At(rev, r, Keyring(k)), At(config, r, Keyring(k)))
  BY TripleIsSeq, InputIsEquivalent DEF Keyring
<1>2. Keyring(k) # RecipeFile("toml")
  BY DEF Keyring, RecipeFile
<1> QED BY <1>1, <1>2, SameAsset DEF Equivalent

\* Trees that differ in nothing the build of one looks up build the same.
LEMMA UntouchedBuildsTheSame ==
    ASSUME Untouched, PointResolves(rev), PointResolves(config)
    PROVE  Built(rev) = Built(config)
<1>1. \A t : PointResolves(t) => /\ RecipeOf(t) # <<>> /\ Cardinality(Serving(t)) = 1
                                 /\ \A n \in DistroNames : Load(t, n) # <<>> => Key(t, n, "keyring") # <<>>
  BY DEF PointResolves, LayersResolve
<1>2. FeaturesOf(rev) = FeaturesOf(config) /\ Lineage(rev) = Lineage(config)
  BY <1>1, SameLayersNamed
<1>3. DistroOfSuite(rev) = DistroOfSuite(config) /\ DistroOfSuite(config) \in Serving(config)
  BY <1>1, <1>2, SameDistro
<1> DEFINE n == DistroOfSuite(config)
<1>4. LockOf(rev) = LockOf(config)
      /\ (LockOf(config)[1].pinned => FileAt(rev, LockSibling(rev)) = FileAt(config, LockSibling(config)))
  BY <1>1, SameRecipe, SameLock
<1>5. /\ Load(rev, n) = Load(config, n) /\ Load(rev, "soc") = Load(config, "soc")
      /\ Load(rev, "base") = Load(config, "base") /\ \A k : Key(rev, "kernel", k) = Key(config, "kernel", k)
      /\ \A k : Key(rev, n, k) = Key(config, n, k)
  BY SameLayer, SameKeys DEF InputLayers
<1>6. Accumulated(rev, "packages") = Accumulated(config, "packages")
  BY <1>2, SameOnLineage
<1>7. FragmentsOf(rev) = FragmentsOf(config)
  BY <1>2, <1>5, SameOnLineage, SameOfFeatures DEF FragmentsOf
<1>8. KeyringsOf(rev) = KeyringsOf(config)
  BY <1>2, SameOfFeatures DEF KeyringsOf
<1>9. OverlayDirs(rev) = OverlayDirs(config)
  BY <1>2 DEF OverlayDirs
<1>10. FindAsset(rev, Keyring(Key(rev, n, "keyring")[1])) = FindAsset(config, Keyring(Key(config, n, "keyring")[1]))
  <2>1. Key(config, n, "keyring")[1] \in ToSet(Key(config, n, "keyring"))
    BY <1>1, <1>3, DistroFacts DEF Serving, Untouched
  <2>2. Keyring(Key(config, n, "keyring")[1]) \in InputFiles(config)
    BY <2>1 DEF InputFiles
  <2> QED BY <2>2, <1>5, SameKeyring
<1>11. FindAsset(rev, InDir(BlobsDir)) = FindAsset(config, InDir(BlobsDir))
  <2>1. \A r \in Roots : At(rev, r, InDir(BlobsDir)) = At(config, r, InDir(BlobsDir))
    BY SameFile DEF BlobsDir, InputFiles
  <2> QED BY <2>1, SameAsset
<1>12. [i \in DOMAIN FragmentsOf(rev) |-> FindAsset(rev, Fragment(FragmentsOf(rev)[i]))]
         = [i \in DOMAIN FragmentsOf(config) |-> FindAsset(config, Fragment(FragmentsOf(config)[i]))]
  <2> DEFINE fs == FragmentsOf(config)
  <2>1. ASSUME NEW i \in DOMAIN fs PROVE FindAsset(rev, Fragment(fs[i])) = FindAsset(config, Fragment(fs[i]))
    <3>1. Fragment(fs[i]) \in InputFiles(config)
      BY DEF InputFiles, ToSet
    <3>2. \A r \in Roots : At(rev, r, Fragment(fs[i])) = At(config, r, Fragment(fs[i]))
      BY <3>1, SameFile DEF Fragment
    <3> QED BY <3>2, SameAsset
  <2> HIDE DEF fs
  <2>2. [i \in DOMAIN fs |-> FindAsset(rev, Fragment(fs[i]))] = [i \in DOMAIN fs |-> FindAsset(config, Fragment(fs[i]))]
    BY <2>1
  <2> QED BY <2>2, <1>7 DEF fs
<1>13. [i \in DOMAIN KeyringsOf(rev) |-> FindAsset(rev, Keyring(KeyringsOf(rev)[i]))]
         = [i \in DOMAIN KeyringsOf(config) |-> FindAsset(config, Keyring(KeyringsOf(config)[i]))]
  <2> DEFINE ks == KeyringsOf(config)
  <2>1. ASSUME NEW i \in DOMAIN ks PROVE FindAsset(rev, Keyring(ks[i])) = FindAsset(config, Keyring(ks[i]))
    <3>1. Keyring(ks[i]) \in InputFiles(config)
      BY DEF InputFiles, ToSet
    <3> QED BY <3>1, SameKeyring
  <2> HIDE DEF ks
  <2>2. [i \in DOMAIN ks |-> FindAsset(rev, Keyring(ks[i]))] = [i \in DOMAIN ks |-> FindAsset(config, Keyring(ks[i]))]
    BY <2>1
  <2> QED BY <2>2, <1>8 DEF ks
<1>14. [i \in DOMAIN OverlayDirs(rev) |-> FindAssetAll(rev, InDir(OverlayDirs(rev)[i]))]
         = [i \in DOMAIN OverlayDirs(config) |-> FindAssetAll(config, InDir(OverlayDirs(config)[i]))]
  <2> DEFINE ds == OverlayDirs(config)
  <2>1. ASSUME NEW i \in DOMAIN ds PROVE FindAssetAll(rev, InDir(ds[i])) = FindAssetAll(config, InDir(ds[i]))
    <3>1. ds[i] \in InputFiles(config)
      BY DEF InputFiles, ToSet
    <3>2. PICK l : ds[i] = OverlayDir(l)
      BY DEF OverlayDirs
    <3>3. \A r \in Roots : At(rev, r, InDir(ds[i])) = At(config, r, InDir(ds[i]))
      BY <3>1, <3>2, SameFile DEF OverlayDir
    <3> QED BY <3>3, SameAsset
  <2> HIDE DEF ds
  <2>2. [i \in DOMAIN ds |-> FindAssetAll(rev, InDir(ds[i]))] = [i \in DOMAIN ds |-> FindAssetAll(config, InDir(ds[i]))]
    BY <2>1
  <2> QED BY <2>2, <1>9 DEF ds
<1> QED BY <1>2, <1>3, <1>4, <1>5, <1>6, <1>10, <1>11, <1>12, <1>13, <1>14 DEF Built
-----------------------------------------------------------------------------
(* The survey. *)

\* A tree is edited before it is surveyed, never after.
ConfigInv ==
    /\ ConfigTypeOK /\ Tree(rev) /\ Tree(config)
    /\ survey \in {"unaffected", "holds"} => PointResolves(config) /\ Touched = {}

LEMMA ConfigInvStep ==
    ASSUME ConfigInv, [ConfigNext]_configVars
    PROVE  ConfigInv'
<1>1. CASE EditFile
  <2>1. PICK p \in Paths : \E c \in Holds[p[2]] : config' = [config EXCEPT ![p] = c]
    BY <1>1 DEF EditFile
  <2>2. Tree(config)'
    BY <2>1 DEF ConfigInv, Tree
  <2>3. edits' \in 0..MaxEdits
    BY <1>1, ConfigAssumption DEF EditFile, ConfigInv, ConfigTypeOK
  <2> QED BY <1>1, <2>2, <2>3 DEF EditFile, ConfigInv, ConfigTypeOK, Tree
<1>2. CASE UpdateLock
  <2>1. PICK c \in Holds[RecipeFile("lock")] : config' = [config EXCEPT ![LockPath(config)] = c]
    BY <1>2 DEF UpdateLock
  <2>2. LockPath(config)[2] = RecipeFile("lock")
    BY DEF LockPath
  <2>3. Tree(config)'
    BY <2>1, <2>2 DEF ConfigInv, Tree
  <2>4. edits' \in 0..MaxEdits
    BY <1>2, ConfigAssumption DEF UpdateLock, ConfigInv, ConfigTypeOK
  <2> QED BY <1>2, <2>3, <2>4 DEF UpdateLock, ConfigInv, ConfigTypeOK, Tree
<1>3. CASE Affected \/ Claims
  <2>1. /\ UNCHANGED <<rev, config, edits>>
        /\ survey' \in {"unaffected", "holds"} => PointResolves(config) /\ Touched = {}
        /\ survey' \in {"skipped", "unaffected", "affected", "unknown", "holds", "moved"}
    BY <1>3 DEF Affected, Claims
  <2> QED BY <2>1 DEF ConfigInv, ConfigTypeOK, Tree, Touched, Changes
<1>4. CASE UNCHANGED configVars
  BY <1>4 DEF configVars, ConfigInv, ConfigTypeOK, Tree, Touched, Changes
<1> QED BY <1>1, <1>2, <1>3, <1>4 DEF ConfigNext

LEMMA ConfigInvInit == ConfigInit => ConfigInv
BY ConfigAssumption DEF ConfigInit, ConfigInv, ConfigTypeOK, Tree

\* A working tree holds, at every path, what a file there may hold, and a survey one of its
\* answers, for every tree and number of edits.
THEOREM ConfigTypes == ConfigSpec => []ConfigTypeOK
<1>1. ConfigInv /\ [ConfigNext]_configVars => ConfigInv'
  BY ConfigInvStep
<1>2. ConfigInv => ConfigTypeOK
  BY DEF ConfigInv
<1> QED BY ConfigInvInit, <1>1, <1>2, PTL DEF ConfigSpec

\* A point a survey clears built at the revision what it builds now, for any config tree, any
\* layers and lineages, and any edits of either root.
THEOREM UnaffectedBuildsTheSameHolds == ConfigSpec => []UnaffectedBuildsTheSame
<1>2. ConfigInv /\ [ConfigNext]_configVars => ConfigInv'
  BY ConfigInvStep
<1>3. ConfigInv => UnaffectedBuildsTheSame
  <2> SUFFICES ASSUME ConfigInv, survey \in {"unaffected", "holds"}, PointResolves(rev)
               PROVE  Built(rev) = Built(config)
    BY DEF UnaffectedBuildsTheSame
  <2>1. Untouched /\ PointResolves(config)
    BY DEF ConfigInv, Touched, Untouched
  <2> QED BY <2>1, UntouchedBuildsTheSame
<1> QED BY ConfigInvInit, <1>2, <1>3, PTL DEF ConfigSpec
-----------------------------------------------------------------------------
(* The resolution of a request. *)

\* A settled request was settled by what Resolve computes of it.
ResolutionInv ==
    /\ request \in Requests
    /\ verdict \in {"asked", "refused", "resolved"}
    /\ verdict # "asked" => (verdict = "resolved" <=> Resolves(request))
    /\ verdict = "resolved" => built = <<Build(request)>>

\* What is asked of an axis, by the command line, the suffix or the recipe.
Asked(r, a) ==
    IF r.cli[a] # <<>> THEN r.cli[a]
    ELSE IF a = "features" /\ r.suffix # <<>> THEN r.suffix ELSE r.recipe[a]

LEMMA MergedIsAsked ==
    ASSUME NEW r \in Requests, NEW a \in Axes
    PROVE  Merged(r)[a] = Asked(r, a)
<1>1. r.recipe["method"] = <<>>
  BY LayersAssumption DEF RecipeAxes, Axes
<1>2. CASE a = "features"
  BY <1>2 DEF Merged, Asked, Or
<1>3. CASE a = "method"
  BY <1>1, <1>3 DEF Merged, Asked
<1>4. CASE a \notin {"features", "method"}
  BY <1>4 DEF Merged, Asked, Or
<1> QED BY <1>2, <1>3, <1>4

LEMMA ResolvedMethod ==
    ASSUME NEW r \in Requests, Resolves(r)
    PROVE  LET m == Method(Devices[r.device], Merged(r)) IN
           m \in {"rkbin", "depthcharge"} /\ Build(r).boot.method = m
<1> DEFINE d == Devices[r.device]
           o == Merged(r)
<1>1. d \in DeviceLayer
  BY LayersAssumption
<1>2. d.methods \subseteq {"rkbin", "depthcharge"}
  BY <1>1 DEF DeviceLayer, BootMethod
<1>3. Method(d, o) \in {"rkbin", "depthcharge"}
  BY <1>2 DEF Resolves, MethodAllowed
<1>4. Build(r).boot = Boot(d, o)
  BY DEF Build
<1>5. Boot(d, o).method = Method(d, o)
  BY <1>3 DEF Boot
<1> QED BY <1>3, <1>4, <1>5

\* What is asked of the board is shown by the board.
LEMMA BoardAxisShown ==
    ASSUME NEW r \in Requests, Resolves(r), NEW b, b = Build(r), NEW d, d = Devices[r.device],
           NEW o, o = Merged(r), NEW a \in Axes \ ImageAxes, o[a] # <<>>, ~Unread(b, a)
    PROVE  Shown(b, a) = o[a][1]
<1>1. Method(d, o) \in {"rkbin", "depthcharge"} /\ b.boot.method = Method(d, o) /\ b.boot = Boot(d, o)
  BY ResolvedMethod DEF Build
<1>2. b.layout = Layout(d, o)
  BY DEF Build
<1>3. a \in {"series", "layout", "method", "board"}
  BY DEF Axes
<1>4. CASE a = "layout"
  BY <1>2, <1>4 DEF Shown, Defaulted, Layout, Or
<1>5. CASE a = "method"
  BY <1>1, <1>5 DEF Shown, Defaulted, Method, Or
<1>6. CASE a = "series"
  <2>1. Method(d, o) = "rkbin"
    BY <1>1, <1>6 DEF Unread
  <2>2. b.boot.series = Series(d, o)
    BY <1>1, <2>1 DEF Boot
  <2>3. SeriesAsked(d, o) = o["series"]
    BY <1>6 DEF SeriesAsked, Or
  <2>4. Shown(b, a) = Or(Series(d, o), <<"none">>)[1]
    BY <1>6, <2>2 DEF Shown, Defaulted
  <2>5. CASE o["series"] = <<"none">>
    BY <1>6, <2>3, <2>4, <2>5 DEF Series, Or
  <2>6. CASE o["series"] # <<"none">>
    BY <1>6, <2>3, <2>4, <2>6 DEF Series, Or
  <2> QED BY <2>5, <2>6
<1>7. CASE a = "board"
  <2>1. Method(d, o) # "rkbin"
    BY <1>1, <1>7 DEF Unread
  <2>2. b.boot.board = BoardAsked(d, o)
    BY <1>1, <2>1 DEF Boot
  <2> QED BY <1>7, <2>2 DEF Shown, Defaulted, BoardAsked, Or
<1> QED BY <1>3, <1>4, <1>5, <1>6, <1>7

\* What is asked of the image is shown by the image, and refused where there is none.
LEMMA ImageAxisShown ==
    ASSUME NEW r \in Requests, Resolves(r), NEW b, b = Build(r), NEW d, d = Devices[r.device],
           NEW o, o = Merged(r), NEW a \in ImageAxes, o[a] # <<>>
    PROVE  b.image # <<>> /\ Shown(b, a) = o[a][1]
<1> DEFINE i == Image(d, o, r)
<1>1. r.deliverable # "uboot"
  BY DEF Resolves, RejectRootfsOverrides
<1>2. b.image = <<i>>
  BY <1>1 DEF Build
<1>3. /\ i.kernel = KernelOf(d, o) /\ i.suite = Suite(d, o) /\ i.generator = Generator(d, o)
      /\ i.features = Selected(o) /\ i.groups = Groups(d, o) /\ i.policy = [k \in Defaulted |-> Policy(d, o, k)]
  BY DEF Image
<1>4. KernelOf(d, o).id = KernelId(d, o)
  BY DEF KernelOf
<1> HIDE DEF i
<1>5. b.image # <<>> /\ b.image[1] = i
  BY <1>2
<1>6. a \in Defaulted \cup {"kernel", "suite", "generator", "features", "groups"}
  BY DEF ImageAxes, Defaulted
<1>7. CASE a = "kernel"
  BY <1>3, <1>4, <1>5, <1>7 DEF Shown, Defaulted, KernelId, Or
<1>8. CASE a \in Defaulted
  <2>1. Shown(b, a) = i.policy[a][1]
    BY <1>5, <1>8 DEF Shown, Defaulted
  <2>2. i.policy[a] = o[a]
    BY <1>3, <1>8 DEF Policy, Or
  <2> QED BY <2>1, <2>2, <1>5
<1>9. CASE a = "suite"
  BY <1>3, <1>5, <1>9 DEF Shown, Defaulted, Suite, Or
<1>10. CASE a = "generator"
  BY <1>3, <1>5, <1>10 DEF Shown, Defaulted, Generator, Or
<1>11. CASE a = "features"
  BY <1>3, <1>5, <1>11 DEF Shown, Defaulted, Selected, Or
<1>12. CASE a = "groups"
  BY <1>3, <1>5, <1>12 DEF Shown, Defaulted, Groups
<1> QED BY <1>6, <1>7, <1>8, <1>9, <1>10, <1>11, <1>12

\* What is asked of an axis is what is built, or the request is refused, for any layers and requests.
THEOREM EveryRequestCountsHolds == ResolutionSpec => []EveryRequestCounts
<1>1. ResolutionInit => ResolutionInv
  BY DEF ResolutionInit, ResolutionInv
<1>2. ResolutionInv /\ [Resolve]_resolutionVars => ResolutionInv'
  BY DEF ResolutionInv, Resolve, resolutionVars
<1>3. ResolutionInv => EveryRequestCounts
  <2> SUFFICES ASSUME ResolutionInv, verdict = "resolved", NEW a \in Axes,
                      Asked(request, a) # <<>>, ~Unread(built[1], a)
               PROVE  /\ a \in ImageAxes => built[1].image # <<>>
                      /\ Shown(built[1], a) = Asked(request, a)[1]
    BY DEF EveryRequestCounts, Asked
  <2>1. request \in Requests /\ Resolves(request) /\ built[1] = Build(request)
    BY DEF ResolutionInv
  <2>2. Merged(request)[a] = Asked(request, a)
    BY <2>1, MergedIsAsked
  <2>3. CASE a \in ImageAxes
    BY <2>1, <2>2, <2>3, ImageAxisShown
  <2>4. CASE a \notin ImageAxes
    BY <2>1, <2>2, <2>4, BoardAxisShown
  <2> QED BY <2>3, <2>4
<1> QED BY <1>1, <1>2, <1>3, PTL DEF ResolutionSpec
-----------------------------------------------------------------------------
(* Lists. *)

\* What a concatenation, a list of one and a longer list hold.
LEMMA ElemsOfBoth ==
    ASSUME NEW S, NEW s \in Seq(S), NEW t \in Seq(S)
    PROVE  s \o t \in Seq(S) /\ Elems(s \o t) = Elems(s) \cup Elems(t)
<1>1. s \o t \in Seq(S) /\ DOMAIN (s \o t) = 1..(Len(s) + Len(t))
  OBVIOUS
<1>2. \A i \in 1..(Len(s) + Len(t)) : (s \o t)[i] = IF i <= Len(s) THEN s[i] ELSE t[i - Len(s)]
  OBVIOUS
<1>3. ASSUME NEW i \in 1..(Len(s) + Len(t)) PROVE (s \o t)[i] \in Elems(s) \cup Elems(t)
  <2>1. CASE i <= Len(s)
    BY <1>2, <2>1 DEF Elems
  <2>2. CASE ~(i <= Len(s))
    <3>1. i - Len(s) \in 1..Len(t)
      BY <2>2
    <3> QED BY <1>2, <2>2, <3>1 DEF Elems
  <2> QED BY <2>1, <2>2
<1>4. ASSUME NEW i \in 1..Len(s) PROVE s[i] \in Elems(s \o t)
  <2>1. i \in 1..(Len(s) + Len(t)) /\ (s \o t)[i] = s[i]
    BY <1>2
  <2> QED BY <1>1, <2>1 DEF Elems
<1>5. ASSUME NEW i \in 1..Len(t) PROVE t[i] \in Elems(s \o t)
  <2>1. Len(s) + i \in 1..(Len(s) + Len(t)) /\ (s \o t)[Len(s) + i] = t[i]
    BY <1>2
  <2> QED BY <1>1, <2>1 DEF Elems
<1>6. Elems(s \o t) \subseteq Elems(s) \cup Elems(t)
  BY <1>1, <1>3 DEF Elems
<1>7. Elems(s) \subseteq Elems(s \o t)
  BY <1>4 DEF Elems
<1>8. Elems(t) \subseteq Elems(s \o t)
  BY <1>5 DEF Elems
<1> QED BY <1>1, <1>6, <1>7, <1>8

LEMMA ElemsOfOne ==
    ASSUME NEW S, NEW x \in S
    PROVE  <<x>> \in Seq(S) /\ Elems(<<x>>) = {x}
BY DEF Elems

LEMMA ElemsOfMore ==
    ASSUME NEW S, NEW s \in Seq(S), NEW x \in S
    PROVE  Append(s, x) \in Seq(S) /\ Elems(Append(s, x)) = Elems(s) \cup {x}
<1>1. Append(s, x) = s \o <<x>>
  OBVIOUS
<1>2. <<x>> \in Seq(S)
  OBVIOUS
<1>3. s \o <<x>> \in Seq(S) /\ Elems(s \o <<x>>) = Elems(s) \cup Elems(<<x>>)
  BY <1>2, ElemsOfBoth
<1>4. Elems(<<x>>) = {x}
  BY ElemsOfOne
<1> QED BY <1>1, <1>3, <1>4, Zenon

\* What is kept of a list, wherever it stood.
LEMMA KeptFacts ==
    ASSUME NEW S, NEW s \in Seq(S), NEW at
    PROVE  Kept(s, at) \in Seq(S) /\ Elems(Kept(s, at)) = {s[i] : i \in at \cap (1..Len(s))}
<1> DEFINE N == Len(s)
           Q == Seq(S)
           Take(q, n) == IF n \in at THEN Append(q, s[n]) ELSE q
           advance == [i \in 1..N |-> [q \in Q |-> Take(q, i)]]
           Rule(g) == [n \in 0..N |-> IF n = 0 THEN <<>> ELSE IF n \in at THEN Append(g[n - 1], s[n]) ELSE g[n - 1]]
           taken == CHOOSE g : g = Rule(g)
<1>0. N \in Nat /\ \A i \in 1..N : s[i] \in S
  OBVIOUS
<1>t. \A q \in Q, i \in 1..N : Take(q, i) \in Q
  BY <1>0, ElemsOfMore
<1>1. advance \in [1..N -> [Q -> Q]]
  BY <1>t
<1>2. <<>> \in Q
  OBVIOUS
<1>3. PICK f \in [0..N -> Q] : Recurs(f, N, advance, <<>>)
  <2> HIDE DEF N, Q, advance
  <2> QED BY <1>0, <1>1, <1>2, RecursExist
<1> HIDE DEF Q
<1>4. f = Rule(f)
  <2>1. ASSUME NEW n \in 0..N PROVE f[n] = Rule(f)[n]
    <3>1. CASE n = 0
      BY <1>3, <3>1 DEF Recurs
    <3>2. CASE n # 0
      <4>1. n \in 1..N /\ n - 1 \in 0..N
        BY <3>2, <1>0
      <4>2. f[n] = advance[n][f[n - 1]] /\ f[n - 1] \in Q
        BY <1>3, <4>1 DEF Recurs
      <4> QED BY <3>2, <4>1, <4>2
    <3> QED BY <3>1, <3>2
  <2> QED BY <1>3, <2>1
<1>5. taken = Rule(taken)
  BY <1>4
<1>6. Kept(s, at) = taken[N]
  BY DEF Kept
<1> HIDE DEF taken
<1>7. taken[0] = <<>> /\ \A n \in 1..N : taken[n] = Take(taken[n - 1], n)
  <2>1. \A n \in 0..N : taken[n] = Rule(taken)[n]
    BY <1>5
  <2> QED BY <2>1, <1>0
<1> HIDE DEF Rule, N
<1> DEFINE Part(n) == {s[i] : i \in at \cap (1..n)}
           T == {n \in 0..N : taken[n] \in Q /\ Elems(taken[n]) = Part(n)}
<1>8. 0 \in T
  BY <1>2, <1>7, <1>0 DEF Elems
<1>9. ASSUME NEW n \in 1..N, n - 1 \in T PROVE n \in T
  <2>1. taken[n - 1] \in Q /\ Elems(taken[n - 1]) = Part(n - 1)
    BY <1>9
  <2>2. 1..n = (1..(n - 1)) \cup {n} /\ n \in 0..N
    BY <1>0
  <2>3. CASE n \in at
    <3>1. taken[n] = Append(taken[n - 1], s[n])
      BY <1>7, <2>3
    <3>2. s[n] \in S
      BY <1>0
    <3>3. taken[n] \in Q /\ Elems(taken[n]) = Elems(taken[n - 1]) \cup {s[n]}
      BY <3>1, <3>2, <2>1, ElemsOfMore DEF Q
    <3>4. Part(n) = Part(n - 1) \cup {s[n]}
      BY <2>2, <2>3
    <3> QED BY <3>3, <3>4, <2>1, <2>2
  <2>4. CASE n \notin at
    <3>1. taken[n] = taken[n - 1]
      BY <1>7, <2>4
    <3>2. Part(n) = Part(n - 1)
      BY <2>2, <2>4
    <3> QED BY <3>1, <3>2, <2>1, <2>2
  <2> QED BY <2>3, <2>4
<1> HIDE DEF T
<1>10. 0..N \subseteq T
  BY <1>8, <1>9, <1>0, UpTo
<1>11. N \in T
  BY <1>10, <1>0
<1> QED BY <1>11, <1>6 DEF T, Q, N

\* A flattened list of lists is one list of what they hold.
LEMMA FlattenFacts ==
    ASSUME NEW S, NEW ss \in Seq(Seq(S))
    PROVE  FlattenSeq(ss) \in Seq(S) /\ Elems(FlattenSeq(ss)) = UNION {Elems(ss[i]) : i \in 1..Len(ss)}
<1> DEFINE N == Len(ss)
           Q == Seq(S)
           Join(q, n) == IF n = 1 THEN ss[n] ELSE q \o ss[n]
           advance == [i \in 1..N |-> [q \in Q |-> Join(q, i)]]
           Rule(g) == [i \in 1..N |-> IF i = 1 THEN ss[i] ELSE g[i - 1] \o ss[i]]
           flatten == CHOOSE g : g = Rule(g)
<1>0. N \in Nat /\ \A i \in 1..N : ss[i] \in Q
  OBVIOUS
<1>j. \A q \in Q, i \in 1..N : Join(q, i) \in Q
  BY <1>0, ElemsOfBoth
<1>1. advance \in [1..N -> [Q -> Q]]
  BY <1>j
<1>2. <<>> \in Q
  OBVIOUS
<1>3. PICK f \in [0..N -> Q] : Recurs(f, N, advance, <<>>)
  <2> HIDE DEF N, Q, advance
  <2> QED BY <1>0, <1>1, <1>2, RecursExist
<1> HIDE DEF Q
<1> DEFINE h == [i \in 1..N |-> f[i]]
<1>4. h = Rule(h)
  <2>1. ASSUME NEW n \in 1..N PROVE h[n] = Rule(h)[n]
    <3>1. n - 1 \in 0..N
      BY <1>0
    <3>2. f[n] = advance[n][f[n - 1]] /\ f[n - 1] \in Q
      BY <1>3, <3>1 DEF Recurs
    <3>3. f[n] = Join(f[n - 1], n)
      BY <3>2
    <3>4. n # 1 => n - 1 \in 1..N
      BY <1>0
    <3> QED BY <3>3, <3>4
  <2> QED BY <2>1
<1>5. flatten = Rule(flatten)
  BY <1>4
<1>6. FlattenSeq(ss) = IF N = 0 THEN ss ELSE flatten[N]
  BY DEF FlattenSeq
<1> HIDE DEF flatten
<1>7. \A n \in 1..N : flatten[n] = Join(flatten[n - 1], n)
  BY <1>5
<1> HIDE DEF Rule, N
<1> DEFINE Part(n) == UNION {Elems(ss[i]) : i \in 1..n}
           T == {n \in 0..N : n = 0 \/ (flatten[n] \in Q /\ Elems(flatten[n]) = Part(n))}
<1>8. 0 \in T
  BY <1>0
<1>9. ASSUME NEW n \in 1..N, n - 1 \in T PROVE n \in T
  <2>1. n \in 0..N /\ ss[n] \in Q /\ 1..n = (1..(n - 1)) \cup {n}
    BY <1>0
  <2>2. Part(n) = Part(n - 1) \cup Elems(ss[n])
    BY <2>1
  <2>3. CASE n = 1
    <3>1. flatten[n] = ss[n]
      BY <1>7, <2>3
    <3>2. Part(n - 1) = {}
      BY <2>3
    <3> QED BY <2>1, <2>2, <3>1, <3>2
  <2>4. CASE n # 1
    <3>1. flatten[n] = flatten[n - 1] \o ss[n]
      BY <1>7, <2>4
    <3>2. flatten[n - 1] \in Q /\ Elems(flatten[n - 1]) = Part(n - 1)
      BY <1>9, <2>4
    <3>3. flatten[n] \in Q /\ Elems(flatten[n]) = Elems(flatten[n - 1]) \cup Elems(ss[n])
      BY <3>1, <3>2, <2>1, ElemsOfBoth DEF Q
    <3> QED BY <2>1, <2>2, <3>2, <3>3
  <2> QED BY <2>3, <2>4
<1> HIDE DEF T
<1>10. 0..N \subseteq T
  BY <1>8, <1>9, <1>0, UpTo
<1>11. CASE N = 0
  <2>1. ss = <<>> /\ FlattenSeq(ss) = <<>>
    BY <1>6, <1>11 DEF N
  <2>2. Elems(FlattenSeq(ss)) = {}
    BY <2>1 DEF Elems
  <2>3. 1..Len(ss) = {}
    BY <1>11 DEF N
  <2>4. <<>> \in Seq(S)
    OBVIOUS
  <2> QED BY <2>1, <2>2, <2>3, <2>4, Zenon
<1>12. CASE N # 0
  <2>1. FlattenSeq(ss) = flatten[N] /\ N \in T
    BY <1>6, <1>10, <1>12, <1>0
  <2> QED BY <2>1, <1>12 DEF T, Q, N
<1> QED BY <1>11, <1>12

\* Every key has a first place.
LEMMA FirstsHaveEveryKey ==
    ASSUME NEW N \in Nat, NEW k, DOMAIN k = 1..N
    PROVE  {k[n] : n \in Firsts(k)} = Elems(k)
<1>1. ASSUME NEW n \in 1..N PROVE \E m \in Firsts(k) : k[m] = k[n]
  <2> DEFINE Same == {m \in 1..N : k[m] = k[n]}
  <2>1. PICK m \in Same : \A j \in Same : m <= j
    <3>1. Same \subseteq Nat /\ Same # {}
      BY <1>1
    <3> QED BY <3>1, Least
  <2>2. \A j \in 1..(m - 1) : k[j] # k[m]
    <3> SUFFICES ASSUME NEW j \in 1..(m - 1), k[j] = k[m] PROVE FALSE
      OBVIOUS
    <3>1. j \in Same
      BY <2>1
    <3> QED BY <3>1, <2>1
  <2> QED BY <2>1, <2>2 DEF Firsts
<1> QED BY <1>1 DEF Firsts, Elems

\* A list with one element for each key has every key, and what it has was first there.
LEMMA FirstPerKeyFacts ==
    ASSUME NEW S, NEW s \in Seq(S), NEW k, DOMAIN k = DOMAIN s
    PROVE  /\ FirstPerKey(s, k) \in Seq(S)
           /\ Elems(FirstPerKey(s, k)) = {s[n] : n \in Firsts(k)}
           /\ {k[n] : n \in Firsts(k)} = Elems(k)
<1>1. Firsts(k) \cap (1..Len(s)) = Firsts(k)
  BY DEF Firsts
<1>2. Len(s) \in Nat /\ DOMAIN k = 1..Len(s)
  OBVIOUS
<1> QED BY <1>1, <1>2, KeptFacts, FirstsHaveEveryKey DEF FirstPerKey

\* A list, of whatever it holds.
List(s) == s \in Seq(Elems(s))

\* A typed list is a list, and a list has every type that holds its elements.
LEMMA TypedIsList == ASSUME NEW S, NEW s \in Seq(S) PROVE List(s)
<1>1. s \in [1..Len(s) -> S] /\ Len(s) \in Nat
  OBVIOUS
<1>2. s \in [1..Len(s) -> Elems(s)]
  BY <1>1 DEF Elems
<1> QED BY <1>1, <1>2 DEF List

LEMMA ListIsTyped == ASSUME NEW S, NEW s, List(s), Elems(s) \subseteq S PROVE s \in Seq(S)
BY DEF List

\* A list is empty when it holds nothing.
LEMMA ListFacts ==
    ASSUME NEW s, List(s)
    PROVE  Len(s) \in Nat /\ DOMAIN s = 1..Len(s) /\ (s = <<>> <=> Elems(s) = {})
<1>1. Len(s) \in Nat /\ DOMAIN s = 1..Len(s) /\ (s = <<>> <=> Len(s) = 0)
  BY DEF List
<1>2. Len(s) = 0 <=> DOMAIN s = {}
  BY <1>1
<1>3. Elems(s) = {} <=> DOMAIN s = {}
  BY DEF Elems
<1> QED BY <1>1, <1>2, <1>3

\* What joined, mapped, filtered and flattened lists hold, whatever that is.
LEMMA BothLists ==
    ASSUME NEW s, NEW t, List(s), List(t)
    PROVE  List(s \o t) /\ Elems(s \o t) = Elems(s) \cup Elems(t)
<1> DEFINE S == Elems(s) \cup Elems(t)
<1>1. s \in Seq(S) /\ t \in Seq(S)
  BY ListIsTyped
<1> HIDE DEF S
<1>2. s \o t \in Seq(S) /\ Elems(s \o t) = Elems(s) \cup Elems(t)
  BY <1>1, ElemsOfBoth
<1> QED BY <1>2, TypedIsList

LEMMA MappedList ==
    ASSUME NEW s, List(s), NEW t, t = [i \in DOMAIN s |-> t[i]]
    PROVE  List(t) /\ DOMAIN t = DOMAIN s /\ Elems(t) = {t[i] : i \in DOMAIN s}
<1>1. Len(s) \in Nat /\ DOMAIN s = 1..Len(s)
  BY ListFacts
<1>2. DOMAIN t = DOMAIN s
  OBVIOUS
<1>3. Elems(t) = {t[i] : i \in DOMAIN s}
  BY <1>2 DEF Elems
<1>4. t \in [1..Len(s) -> Elems(t)]
  BY <1>1, <1>3
<1>5. t \in Seq(Elems(t))
  BY <1>1, <1>4
<1> QED BY <1>2, <1>3, <1>5 DEF List

LEMMA KeptList ==
    ASSUME NEW s, List(s), NEW at
    PROVE  List(Kept(s, at)) /\ Elems(Kept(s, at)) = {s[i] : i \in at \cap DOMAIN s}
<1>1. DOMAIN s = 1..Len(s) /\ s \in Seq(Elems(s))
  BY ListFacts DEF List
<1>2. Kept(s, at) \in Seq(Elems(s)) /\ Elems(Kept(s, at)) = {s[i] : i \in at \cap (1..Len(s))}
  BY <1>1, KeptFacts
<1> QED BY <1>1, <1>2, TypedIsList

LEMMA FlattenedList ==
    ASSUME NEW fs, List(fs), NEW ss, ss = [i \in DOMAIN fs |-> ss[i]], \A i \in DOMAIN fs : List(ss[i])
    PROVE  /\ List(FlattenSeq(ss))
           /\ Elems(FlattenSeq(ss)) = UNION {Elems(ss[i]) : i \in DOMAIN fs}
<1> DEFINE S == UNION {Elems(ss[i]) : i \in DOMAIN fs}
<1>1. Len(fs) \in Nat /\ DOMAIN fs = 1..Len(fs)
  BY ListFacts
<1>2. \A i \in DOMAIN fs : ss[i] \in Seq(S)
  BY ListIsTyped
<1> HIDE DEF S
<1>3. ss \in [1..Len(fs) -> Seq(S)]
  BY <1>1, <1>2
<1>4. ss \in Seq(Seq(S)) /\ Len(ss) = Len(fs)
  BY <1>1, <1>3
<1>5. FlattenSeq(ss) \in Seq(S) /\ Elems(FlattenSeq(ss)) = UNION {Elems(ss[i]) : i \in 1..Len(ss)}
  BY <1>4, FlattenFacts
<1>6. List(FlattenSeq(ss))
  BY <1>5, TypedIsList
<1> QED BY <1>1, <1>4, <1>5, <1>6

\* One element for each key loses no key; it may lose elements.
LEMMA FirstPerKeyList ==
    ASSUME NEW s, List(s), NEW k, DOMAIN k = DOMAIN s
    PROVE  /\ List(FirstPerKey(s, k))
           /\ Elems(FirstPerKey(s, k)) = {s[n] : n \in Firsts(k)}
           /\ {k[n] : n \in Firsts(k)} = Elems(k) /\ Firsts(k) \subseteq DOMAIN s
<1>1. s \in Seq(Elems(s))
  BY DEF List
<1>2. /\ FirstPerKey(s, k) \in Seq(Elems(s))
      /\ Elems(FirstPerKey(s, k)) = {s[n] : n \in Firsts(k)}
      /\ {k[n] : n \in Firsts(k)} = Elems(k)
  BY <1>1, FirstPerKeyFacts
<1>3. Firsts(k) \subseteq DOMAIN s
  BY DEF Firsts
<1> QED BY <1>2, <1>3, TypedIsList

\* extend_names loses no name.
LEMMA DistinctList ==
    ASSUME NEW s, List(s)
    PROVE  List(Distinct(s)) /\ Elems(Distinct(s)) = Elems(s)
BY FirstPerKeyList DEF Distinct

LEMMA OneList == ASSUME NEW x PROVE List(<<x>>) /\ Elems(<<x>>) = {x}
<1>1. <<x>> \in Seq({x}) /\ Elems(<<x>>) = {x}
  BY ElemsOfOne
<1> QED BY <1>1, TypedIsList

LEMMA NoList == List(<<>>) /\ Elems(<<>>) = {}
<1>1. <<>> \in Seq({})
  OBVIOUS
<1>2. Elems(<<>>) = {}
  BY DEF Elems
<1> QED BY <1>1, <1>2, TypedIsList
-----------------------------------------------------------------------------
(* What a selection of features brings, in whatever order they are selected. *)

Named(fs) == List(fs) /\ Elems(fs) \subseteq DOMAIN Features
FeatureKeys == {"fragments", "patches", "apt", "apps", "libs", "packages", "exclude", "debs", "caveats"}
Once(fs) == \A i, j \in DOMAIN fs : fs[i] = fs[j] => i = j

SameSelection(fs, gs) ==
    /\ List(fs) /\ List(gs) /\ Elems(fs) = Elems(gs)
    /\ Once(fs) <=> Once(gs)

\* What a feature brings under each key is a list.
LEMMA FeatureLists ==
    ASSUME NEW f \in DOMAIN Features, NEW key \in FeatureKeys
    PROVE  List(Features[f][key])
<1> DEFINE x == Features[f]
<1>1. x \in Feature
  BY LayersAssumption
<1>2. /\ x.fragments \in Seq(STRING) /\ x.patches \in Seq(STRING) /\ x.apt \in Seq(AptSource)
      /\ x.apps \in Seq(App) /\ x.libs \in Seq(FfmpegLib) /\ x.packages \in Seq(PackageEntry)
      /\ x.exclude \in Seq(STRING) /\ x.debs \in Seq(ExtraDeb) /\ x.caveats \in Seq(STRING)
  BY <1>1 DEF Feature, NameList
<1> HIDE DEF x
<1>3. /\ List(x.fragments) /\ List(x.patches) /\ List(x.apt) /\ List(x.apps) /\ List(x.libs)
      /\ List(x.packages) /\ List(x.exclude) /\ List(x.debs) /\ List(x.caveats)
  BY <1>2, TypedIsList
<1> QED BY <1>3 DEF FeatureKeys, x

\* What a selection brings under a key is what its features bring.
LEMMA OfList ==
    ASSUME NEW fs, Named(fs), NEW key \in FeatureKeys
    PROVE  List(Of(fs, key)) /\ Elems(Of(fs, key)) = UNION {Elems(Features[f][key]) : f \in Elems(fs)}
<1> DEFINE ss == [i \in DOMAIN fs |-> Features[fs[i]][key]]
<1>1. List(fs) /\ \A i \in DOMAIN fs : fs[i] \in DOMAIN Features
  BY DEF Named, Elems
<1>2. ss = [i \in DOMAIN fs |-> ss[i]] /\ \A i \in DOMAIN fs : List(ss[i])
  BY <1>1, FeatureLists
<1>3. Of(fs, key) = FlattenSeq(ss)
  BY DEF Of
<1>4. {Elems(ss[i]) : i \in DOMAIN fs} = {Elems(Features[f][key]) : f \in Elems(fs)}
  BY DEF Elems
<1> HIDE DEF ss
<1>5. List(FlattenSeq(ss)) /\ Elems(FlattenSeq(ss)) = UNION {Elems(ss[i]) : i \in DOMAIN fs}
  BY <1>1, <1>2, FlattenedList
<1> QED BY <1>3, <1>4, <1>5

\* The apps of a selection are those its features name, checked; each brings its package.
LEMMA AppsList ==
    ASSUME NEW fs, Named(fs)
    PROVE  /\ List(Apps(fs)) /\ Elems(Apps(fs)) = {CheckedApp(a) : a \in Elems(Of(fs, "apps"))}
           /\ List(AppPackages(fs)) /\ Elems(AppPackages(fs)) = {Plain(a.deb) : a \in Elems(Apps(fs))}
<1> DEFINE apps == Of(fs, "apps")
           checked == [i \in DOMAIN apps |-> CheckedApp(apps[i])]
           debs == [i \in DOMAIN Apps(fs) |-> Plain(Apps(fs)[i].deb)]
<1>1. List(apps)
  BY OfList DEF FeatureKeys
<1>2. List(checked) /\ Elems(checked) = {checked[i] : i \in DOMAIN apps}
  <2> HIDE DEF apps
  <2> QED BY <1>1, MappedList
<1>3. Elems(checked) = {CheckedApp(a) : a \in Elems(apps)}
  BY <1>2 DEF Elems
<1>4. Apps(fs) = Distinct(checked)
  BY DEF Apps
<1> HIDE DEF checked
<1>5. List(Apps(fs)) /\ Elems(Apps(fs)) = Elems(checked)
  BY <1>2, <1>4, DistinctList
<1>6. List(debs) /\ Elems(debs) = {debs[i] : i \in DOMAIN Apps(fs)}
  BY <1>5, MappedList
<1>7. Elems(debs) = {Plain(a.deb) : a \in Elems(Apps(fs))}
  BY <1>6 DEF Elems
<1>8. AppPackages(fs) = debs
  BY DEF AppPackages
<1> QED BY <1>3, <1>5, <1>6, <1>7, <1>8

\* The same features in another order bring the same.
LEMMA SameBrought ==
    ASSUME NEW fs, NEW gs, Named(fs), SameSelection(fs, gs)
    PROVE  /\ Named(gs) /\ \A key \in FeatureKeys : Elems(Of(fs, key)) = Elems(Of(gs, key))
           /\ Elems(Apps(fs)) = Elems(Apps(gs)) /\ Elems(AppPackages(fs)) = Elems(AppPackages(gs))
<1>1. Named(gs) /\ Elems(fs) = Elems(gs)
  BY DEF Named, SameSelection
<1>2. \A key \in FeatureKeys : Elems(Of(fs, key)) = Elems(Of(gs, key))
  <2> SUFFICES ASSUME NEW key \in FeatureKeys PROVE Elems(Of(fs, key)) = Elems(Of(gs, key))
    OBVIOUS
  <2>1. Elems(Of(fs, key)) = UNION {Elems(Features[f][key]) : f \in Elems(fs)}
    BY OfList
  <2>2. Elems(Of(gs, key)) = UNION {Elems(Features[f][key]) : f \in Elems(gs)}
    BY <1>1, OfList
  <2> QED BY <1>1, <2>1, <2>2
<1>3. Elems(Of(fs, "apps")) = Elems(Of(gs, "apps"))
  BY <1>2 DEF FeatureKeys
<1>4. Elems(Apps(fs)) = Elems(Apps(gs))
  BY <1>1, <1>3, AppsList
<1>5. Elems(AppPackages(fs)) = Elems(AppPackages(gs))
  BY <1>1, <1>4, AppsList
<1> QED BY <1>1, <1>2, <1>4, <1>5

\* A selection brings a kernel the same fragments and patches in any order.
LEMMA KernelInputsAlike ==
    ASSUME NEW fs, NEW gs, Named(fs), SameSelection(fs, gs)
    PROVE  /\ List(FeatureFragments(fs)) /\ List(FeatureFragments(gs))
           /\ Elems(FeatureFragments(fs)) = Elems(FeatureFragments(gs))
           /\ List(FeaturePatches(fs)) /\ List(FeaturePatches(gs))
           /\ Elems(FeaturePatches(fs)) = Elems(FeaturePatches(gs))
           /\ KernelInputs(fs) = <<>> <=> KernelInputs(gs) = <<>>
<1>1. /\ List(Of(fs, "fragments")) /\ List(Of(gs, "fragments")) /\ Elems(Of(fs, "fragments")) = Elems(Of(gs, "fragments"))
      /\ List(Of(fs, "patches")) /\ List(Of(gs, "patches")) /\ Elems(Of(fs, "patches")) = Elems(Of(gs, "patches"))
  BY SameBrought, OfList DEF FeatureKeys
<1>2. /\ List(FeatureFragments(fs)) /\ List(FeatureFragments(gs))
      /\ Elems(FeatureFragments(fs)) = Elems(FeatureFragments(gs))
  BY <1>1, DistinctList DEF FeatureFragments
<1>3. /\ List(FeaturePatches(fs)) /\ List(FeaturePatches(gs))
      /\ Elems(FeaturePatches(fs)) = Elems(FeaturePatches(gs))
  BY <1>1, DistinctList DEF FeaturePatches
<1>4. /\ List(KernelInputs(fs)) /\ List(KernelInputs(gs))
      /\ Elems(KernelInputs(fs)) = Elems(KernelInputs(gs))
  BY <1>2, <1>3, BothLists DEF KernelInputs
<1>5. KernelInputs(fs) = <<>> <=> KernelInputs(gs) = <<>>
  BY <1>4, ListFacts
<1> QED BY <1>2, <1>3, <1>5

\* Two features conflict whichever was selected first.
LEMMA FeaturesAlike ==
    ASSUME NEW d, NEW fs, NEW gs, SameSelection(fs, gs), FeaturesResolve(d, fs)
    PROVE  FeaturesResolve(d, gs) /\ Named(fs)
<1>1. Elems(fs) = Elems(gs) /\ List(fs) /\ List(gs) /\ Once(fs) /\ Once(gs)
  BY DEF SameSelection, FeaturesResolve, Once
<1>2. Capabilities(gs)
  BY <1>1 DEF FeaturesResolve, Capabilities
<1>3. NoConflicts(gs)
  <2> SUFFICES ASSUME NEW i \in DOMAIN gs, NEW j \in DOMAIN gs, i < j
               PROVE  gs[j] \notin Features[gs[i]].conflicts /\ gs[i] \notin Features[gs[j]].conflicts
    BY DEF NoConflicts
  <2>1. DOMAIN fs \subseteq Nat /\ DOMAIN gs \subseteq Nat
    <3>1. DOMAIN fs = 1..Len(fs) /\ DOMAIN gs = 1..Len(gs)
      BY <1>1, ListFacts
    <3> QED BY <3>1
  <2>2. gs[i] # gs[j]
    BY <1>1, <2>1 DEF Once
  <2>3. gs[i] \in Elems(fs) /\ gs[j] \in Elems(fs)
    BY <1>1 DEF Elems
  <2>4. PICK a \in DOMAIN fs : fs[a] = gs[i]
    BY <2>3 DEF Elems
  <2>5. PICK b \in DOMAIN fs : fs[b] = gs[j]
    BY <2>3 DEF Elems
  <2>6. a < b \/ b < a
    BY <2>1, <2>2, <2>4, <2>5
  <2> QED BY <2>4, <2>5, <2>6 DEF FeaturesResolve, NoConflicts
<1>4. Named(fs)
  BY <1>1 DEF FeaturesResolve, Named
<1> QED BY <1>1, <1>2, <1>3, <1>4 DEF FeaturesResolve, Once

(* Two readings of a request that differ at most in the order of the selection. *)

Alike(o, u) ==
    /\ \A a \in Axes \ {"features"} : o[a] = u[a]
    /\ SameSelection(Selected(o), Selected(u))

\* Two such readings ask the same of every other axis.
LEMMA AxesAlike ==
    ASSUME NEW o, NEW u, Alike(o, u)
    PROVE  /\ o["kernel"] = u["kernel"] /\ o["suite"] = u["suite"] /\ o["generator"] = u["generator"]
           /\ o["groups"] = u["groups"] /\ o["series"] = u["series"] /\ o["layout"] = u["layout"]
           /\ o["method"] = u["method"] /\ o["board"] = u["board"]
           /\ \A a \in Defaulted : o[a] = u[a]
<1>1. {"kernel", "suite", "generator", "groups", "series", "layout", "method", "board"} \subseteq Axes \ {"features"}
  BY DEF Axes, ImageAxes
<1>2. Defaulted \subseteq Axes \ {"features"}
  BY DEF Axes, ImageAxes, Defaulted
<1> QED BY <1>1, <1>2 DEF Alike

\* What is chosen without regard to the features is chosen alike.
LEMMA BoardAlike ==
    ASSUME NEW d, NEW o, NEW u, Alike(o, u)
    PROVE  /\ Method(d, o) = Method(d, u) /\ Layout(d, o) = Layout(d, u)
           /\ KernelId(d, o) = KernelId(d, u) /\ Suite(d, o) = Suite(d, u) /\ DistroOf(d, o) = DistroOf(d, u)
           /\ Generator(d, o) = Generator(d, u) /\ Libre(d, o) = Libre(d, u)
           /\ Components(d, o) = Components(d, u) /\ Groups(d, o) = Groups(d, u)
           /\ \A a \in Defaulted : Policy(d, o, a) = Policy(d, u, a)
<1>1. Method(d, o) = Method(d, u) /\ Layout(d, o) = Layout(d, u) /\ KernelId(d, o) = KernelId(d, u)
      /\ Suite(d, o) = Suite(d, u)
  BY AxesAlike DEF Method, Layout, KernelId, Suite
<1>2. DistroOf(d, o) = DistroOf(d, u)
  BY <1>1 DEF DistroOf
<1>3. Generator(d, o) = Generator(d, u)
  BY <1>2, AxesAlike DEF Generator
<1>4. Libre(d, o) = Libre(d, u)
  BY <1>1 DEF Libre
<1>5. Components(d, o) = Components(d, u)
  BY <1>2, <1>4 DEF Components
<1>6. Groups(d, o) = Groups(d, u)
  BY <1>1, AxesAlike DEF Groups
<1>7. \A a \in Defaulted : Policy(d, o, a) = Policy(d, u, a)
  BY AxesAlike DEF Policy
<1> QED BY <1>1, <1>2, <1>3, <1>4, <1>5, <1>6, <1>7

\* The order of the features is nothing to the boot chain.
LEMMA BootAlike ==
    ASSUME NEW d, NEW o, NEW u, Alike(o, u)
    PROVE  (BootResolves(d, o) <=> BootResolves(d, u)) /\ Boot(d, o) = Boot(d, u)
<1>1. Method(d, o) = Method(d, u) /\ Layout(d, o) = Layout(d, u)
  BY BoardAlike
<1>2. SeriesAsked(d, o) = SeriesAsked(d, u) /\ BoardAsked(d, o) = BoardAsked(d, u)
  BY AxesAlike DEF SeriesAsked, BoardAsked
<1>3. (SeriesResolves(d, o) <=> SeriesResolves(d, u)) /\ Series(d, o) = Series(d, u)
  BY <1>2 DEF SeriesResolves, Series
<1>4. BootResolves(d, o) <=> BootResolves(d, u)
  BY <1>1, <1>2, <1>3 DEF BootResolves
<1>5. Boot(d, o) = Boot(d, u)
  BY <1>1, <1>2, <1>3 DEF Boot
<1> QED BY <1>4, <1>5

\* The layers a description stands on are there.
Grounded(d, o) ==
    /\ d \in DeviceLayer /\ d.soc \in DOMAIN Socs
    /\ Method(d, o) \in {"rkbin", "depthcharge"} /\ KernelId(d, o) \in DOMAIN Kernels
    /\ DistroOf(d, o) \in DOMAIN Distros
    /\ Named(Selected(o))

\* A suite that resolves is one a distribution serves.
LEMMA ServedByADistro ==
    ASSUME NEW d, NEW o, SuiteResolves(d, o)
    PROVE  DistroOf(d, o) \in DOMAIN Distros
<1>1. DistroFor(Suite(d, o)) # {}
  BY FS_EmptySet DEF SuiteResolves
<1>2. DistroOf(d, o) \in DistroFor(Suite(d, o))
  BY <1>1 DEF DistroOf
<1> QED BY <1>2 DEF DistroFor

\* What the layers below the features list.
LEMMA AddsLists ==
    ASSUME NEW d, NEW o, Grounded(d, o), NEW m, m = Methods[Method(d, o)], NEW s, s = Socs[d.soc]
    PROVE  /\ List(Base.adds.packages) /\ List(s.adds.packages) /\ List(m.adds.packages) /\ List(d.adds.packages)
           /\ List(Base.adds.exclude) /\ List(s.adds.exclude) /\ List(m.adds.exclude) /\ List(d.adds.exclude)
           /\ List(Base.adds.debs) /\ List(s.adds.debs) /\ List(m.adds.debs) /\ List(d.adds.debs)
           /\ List(s.hw.firmware) /\ List(d.hw.firmware) /\ List(s.hw.caveats) /\ List(d.hw.caveats)
           /\ List(Distros[DistroOf(d, o)].packages) /\ List(Distros[DistroOf(d, o)].exclude)
           /\ List(d.kmods) /\ List(d.fragments) /\ List(d.patches)
<1>1. Base.adds \in Contribution
  BY LayersAssumption DEF BaseLayer
<1>2. s \in SocLayer
  BY LayersAssumption DEF Grounded
<1>3. s.adds \in Contribution /\ s.hw \in Hardware
  BY <1>2 DEF SocLayer
<1>4. m.adds \in Contribution
  <2>1. Methods.rkbin \in RockchipRkbinLayer /\ Methods.depthcharge \in DepthchargeLayer
    BY LayersAssumption DEF BootMethodLayer
  <2>2. Methods.rkbin.adds \in Contribution
    BY <2>1 DEF RockchipRkbinLayer
  <2>3. Methods.depthcharge.adds \in Contribution
    BY <2>1 DEF DepthchargeLayer
  <2> QED BY <2>2, <2>3 DEF Grounded
<1>5. d.adds \in Contribution /\ d.hw \in Hardware /\ d.kmods \in NameList /\ d.fragments \in NameList
      /\ d.patches \in NameList
  BY DEF Grounded, DeviceLayer
<1>6. Distros[DistroOf(d, o)] \in DistroLayer
  BY LayersAssumption DEF Grounded
<1>7. Distros[DistroOf(d, o)].packages \in Seq(PackageEntry) /\ Distros[DistroOf(d, o)].exclude \in NameList
  BY <1>6 DEF DistroLayer
<1>8. ASSUME NEW c \in Contribution PROVE List(c.packages) /\ List(c.exclude) /\ List(c.debs)
  <2>1. c.packages \in Seq(PackageEntry) /\ c.exclude \in Seq(STRING) /\ c.debs \in Seq(ExtraDeb)
    BY <1>8 DEF Contribution, NameList
  <2> QED BY <2>1, TypedIsList
<1>9. ASSUME NEW h \in Hardware PROVE List(h.firmware) /\ List(h.caveats)
  <2>1. h.firmware \in Seq(PackageEntry) /\ h.caveats \in Seq(STRING)
    BY <1>9 DEF Hardware, NameList
  <2> QED BY <2>1, TypedIsList
<1>10. List(d.kmods) /\ List(d.fragments) /\ List(d.patches)
  BY <1>5, TypedIsList DEF NameList
<1>11. List(Distros[DistroOf(d, o)].packages) /\ List(Distros[DistroOf(d, o)].exclude)
  BY <1>7, TypedIsList DEF NameList
<1> QED BY <1>1, <1>3, <1>4, <1>5, <1>8, <1>9, <1>10, <1>11

\* What the layers of an accepted image add are lists.
LEMMA LayersList ==
    ASSUME NEW d, NEW o, Grounded(d, o)
    PROVE  List(LayerPackages(d, o)) /\ List(LayerExcludes(d, o)) /\ List(LayerDebs(d, o))
<1> DEFINE m == Methods[Method(d, o)]
           s == Socs[d.soc]
           n == Distros[DistroOf(d, o)]
           k == Kernels[KernelId(d, o)]
           sf == IF Libre(d, o) THEN <<>> ELSE s.hw.firmware
           df == IF Libre(d, o) THEN <<>> ELSE d.hw.firmware
           kp == IF k.compiled THEN <<>> ELSE <<Plain(k.package)>>
           g == <<Plain(Generator(d, o))>>
<1>1. /\ List(Base.adds.packages) /\ List(s.adds.packages) /\ List(m.adds.packages) /\ List(d.adds.packages)
      /\ List(Base.adds.exclude) /\ List(s.adds.exclude) /\ List(m.adds.exclude) /\ List(d.adds.exclude)
      /\ List(Base.adds.debs) /\ List(s.adds.debs) /\ List(m.adds.debs) /\ List(d.adds.debs)
      /\ List(s.hw.firmware) /\ List(d.hw.firmware) /\ List(n.packages) /\ List(n.exclude)
  BY AddsLists
<1>2. List(sf) /\ List(df) /\ List(kp) /\ List(g)
  BY <1>1, NoList, OneList
<1>3. LayerPackages(d, o) =
        Base.adds.packages \o n.packages \o g \o s.adds.packages \o sf \o m.adds.packages \o d.adds.packages \o df \o kp
  BY DEF LayerPackages
<1>4. LayerExcludes(d, o) = Base.adds.exclude \o n.exclude \o s.adds.exclude \o m.adds.exclude \o d.adds.exclude
  BY DEF LayerExcludes
<1>5. LayerDebs(d, o) = Base.adds.debs \o s.adds.debs \o m.adds.debs \o d.adds.debs
  BY DEF LayerDebs
<1> HIDE DEF m, s, n, k, sf, df, kp, g
<1>6. List(Base.adds.packages \o n.packages \o g \o s.adds.packages)
  BY <1>1, <1>2, BothLists
<1>7. List(Base.adds.packages \o n.packages \o g \o s.adds.packages \o sf \o m.adds.packages \o d.adds.packages)
  BY <1>1, <1>2, <1>6, BothLists
<1>8. List(LayerPackages(d, o))
  BY <1>2, <1>3, <1>7, BothLists
<1>9. List(LayerExcludes(d, o))
  BY <1>1, <1>4, BothLists
<1>10. List(LayerDebs(d, o))
  BY <1>1, <1>5, BothLists
<1> QED BY <1>8, <1>9, <1>10

\* What the lists of one reading rest on, those of the other rest on.
LEMMA GroundedAlike ==
    ASSUME NEW d, NEW o, NEW u, Alike(o, u), Grounded(d, o)
    PROVE  Grounded(d, u)
BY BoardAlike, SameBrought DEF Grounded, Alike

\* What the layers add does not depend on the features.
LEMMA LayersAlike ==
    ASSUME NEW d, NEW o, NEW u, Alike(o, u)
    PROVE  /\ LayerPackages(d, o) = LayerPackages(d, u) /\ LayerExcludes(d, o) = LayerExcludes(d, u)
           /\ LayerDebs(d, o) = LayerDebs(d, u) /\ LayerGroups(d, o) = LayerGroups(d, u)
<1>1. LayerPackages(d, o) = LayerPackages(d, u)
  BY BoardAlike DEF LayerPackages
<1>2. LayerExcludes(d, o) = LayerExcludes(d, u) /\ LayerDebs(d, o) = LayerDebs(d, u)
  BY BoardAlike DEF LayerExcludes, LayerDebs
<1>3. LayerGroups(d, o) = LayerGroups(d, u)
  BY BoardAlike DEF LayerGroups
<1> QED BY <1>1, <1>2, <1>3

\* What all layers list, the features' last.
LEMMA EntriesList ==
    ASSUME NEW d, NEW o, Grounded(d, o)
    PROVE  LET fs == Selected(o) IN
           /\ List(PackageEntries(d, o)) /\ List(DebEntries(d, o)) /\ List(Excluded(d, o))
           /\ Elems(PackageEntries(d, o)) =
                Elems(LayerPackages(d, o)) \cup Elems(Of(fs, "packages")) \cup Elems(AppPackages(fs))
           /\ Elems(DebEntries(d, o)) = Elems(LayerDebs(d, o)) \cup Elems(Of(fs, "debs"))
           /\ Elems(Excluded(d, o)) = Elems(LayerExcludes(d, o)) \cup Elems(Of(fs, "exclude"))
<1> DEFINE fs == Selected(o)
<1>1. Named(fs)
  BY DEF Grounded
<1>2. /\ List(Of(fs, "packages")) /\ List(Of(fs, "debs")) /\ List(Of(fs, "exclude")) /\ List(AppPackages(fs))
  BY <1>1, OfList, AppsList DEF FeatureKeys
<1>3. List(LayerPackages(d, o)) /\ List(LayerDebs(d, o)) /\ List(LayerExcludes(d, o))
  BY LayersList
<1>4. /\ PackageEntries(d, o) = LayerPackages(d, o) \o Of(fs, "packages") \o AppPackages(fs)
      /\ DebEntries(d, o) = LayerDebs(d, o) \o Of(fs, "debs")
      /\ Excluded(d, o) = Distinct(LayerExcludes(d, o) \o Of(fs, "exclude"))
  BY DEF PackageEntries, DebEntries, Excluded
<1> HIDE DEF fs
<1>5. /\ List(PackageEntries(d, o))
      /\ Elems(PackageEntries(d, o)) =
           Elems(LayerPackages(d, o)) \cup Elems(Of(fs, "packages")) \cup Elems(AppPackages(fs))
  BY <1>2, <1>3, <1>4, BothLists
<1>6. List(DebEntries(d, o)) /\ Elems(DebEntries(d, o)) = Elems(LayerDebs(d, o)) \cup Elems(Of(fs, "debs"))
  BY <1>2, <1>3, <1>4, BothLists
<1>7. /\ List(Excluded(d, o))
      /\ Elems(Excluded(d, o)) = Elems(LayerExcludes(d, o)) \cup Elems(Of(fs, "exclude"))
  BY <1>2, <1>3, <1>4, BothLists, DistinctList
<1> QED BY <1>5, <1>6, <1>7 DEF fs

\* Both readings name the same packages, debs and exclusions.
LEMMA EntriesAlike ==
    ASSUME NEW d, NEW o, NEW u, Alike(o, u), Grounded(d, o)
    PROVE  /\ Elems(PackageEntries(d, o)) = Elems(PackageEntries(d, u))
           /\ Elems(DebEntries(d, o)) = Elems(DebEntries(d, u))
           /\ Elems(Excluded(d, o)) = Elems(Excluded(d, u))
<1> DEFINE fs == Selected(o)
           gs == Selected(u)
<1>1. Named(fs) /\ SameSelection(fs, gs) /\ Grounded(d, u)
  BY GroundedAlike DEF Grounded, Alike
<1>2. /\ Elems(Of(fs, "packages")) = Elems(Of(gs, "packages")) /\ Elems(Of(fs, "debs")) = Elems(Of(gs, "debs"))
      /\ Elems(Of(fs, "exclude")) = Elems(Of(gs, "exclude")) /\ Elems(AppPackages(fs)) = Elems(AppPackages(gs))
  BY <1>1, SameBrought DEF FeatureKeys
<1>3. /\ LayerPackages(d, o) = LayerPackages(d, u) /\ LayerExcludes(d, o) = LayerExcludes(d, u)
      /\ LayerDebs(d, o) = LayerDebs(d, u)
  BY LayersAlike
<1> HIDE DEF fs, gs
<1>4. Elems(PackageEntries(d, o)) = Elems(PackageEntries(d, u))
  BY <1>1, <1>2, <1>3, EntriesList DEF fs, gs
<1>5. Elems(DebEntries(d, o)) = Elems(DebEntries(d, u))
  BY <1>1, <1>2, <1>3, EntriesList DEF fs, gs
<1>6. Elems(Excluded(d, o)) = Elems(Excluded(d, u))
  BY <1>1, <1>2, <1>3, EntriesList DEF fs, gs
<1> QED BY <1>4, <1>5, <1>6

\* Three lists joined, and the last of them in another order.
LEMMA ThreeLists ==
    ASSUME NEW a, NEW b, NEW c, List(a), List(b), List(c)
    PROVE  List(a \o b \o c) /\ Elems(a \o b \o c) = Elems(a) \cup Elems(b) \cup Elems(c)
<1>1. List(a \o b) /\ Elems(a \o b) = Elems(a) \cup Elems(b)
  BY BothLists
<1>2. List((a \o b) \o c) /\ Elems((a \o b) \o c) = Elems(a \o b) \cup Elems(c)
  BY <1>1, BothLists
<1> QED BY <1>1, <1>2

LEMMA OneRemoved ==
    ASSUME NEW a, NEW b, NEW c, NEW e, List(a), List(b), List(c), List(e), Elems(c) = Elems(e)
    PROVE  /\ Elems(a \o b \o c) = Elems(a \o b \o e)
           /\ a \o b \o c = <<>> <=> a \o b \o e = <<>>
<1>1. /\ List(a \o b \o c) /\ Elems(a \o b \o c) = Elems(a) \cup Elems(b) \cup Elems(c)
      /\ List(a \o b \o e) /\ Elems(a \o b \o e) = Elems(a) \cup Elems(b) \cup Elems(e)
  BY ThreeLists
<1>2. Elems(a \o b \o c) = Elems(a \o b \o e)
  BY <1>1
<1>3. /\ a \o b \o c = <<>> <=> Elems(a \o b \o c) = {}
      /\ a \o b \o e = <<>> <=> Elems(a \o b \o e) = {}
  BY <1>1, ListFacts
<1> QED BY <1>2, <1>3

\* The series that is compiled: none for one order, none for the other.
SeriesWith(k, d, fs) == k.series \o d.patches \o FeaturePatches(fs)
FragmentsWith(k, d, fs) == k.fragments \o d.fragments \o FeatureFragments(fs)

\* The patch series and the fragments of a compiled kernel hold the same.
LEMMA SeriesAlike ==
    ASSUME NEW d, NEW o, NEW u, Alike(o, u), Grounded(d, o), NEW k, k = Kernels[KernelId(d, o)], k.compiled
    PROVE  /\ Elems(SeriesWith(k, d, Selected(o))) = Elems(SeriesWith(k, d, Selected(u)))
           /\ SeriesWith(k, d, Selected(o)) = <<>> <=> SeriesWith(k, d, Selected(u)) = <<>>
           /\ Elems(FragmentsWith(k, d, Selected(o))) = Elems(FragmentsWith(k, d, Selected(u)))
<1>1. k \in CompiledKernelDef
  <2>1. k \in KernelDef
    BY LayersAssumption DEF Grounded
  <2> QED BY <2>1 DEF KernelDef, DistroKernelDef
<1>2. List(k.series) /\ List(k.fragments)
  <2>1. k.series \in Seq(STRING) /\ k.fragments \in Seq(STRING)
    BY <1>1 DEF CompiledKernelDef, NameList
  <2> QED BY <2>1, TypedIsList
<1>3. List(d.fragments) /\ List(d.patches)
  BY AddsLists
<1>4. /\ List(FeatureFragments(Selected(o))) /\ List(FeatureFragments(Selected(u)))
      /\ Elems(FeatureFragments(Selected(o))) = Elems(FeatureFragments(Selected(u)))
      /\ List(FeaturePatches(Selected(o))) /\ List(FeaturePatches(Selected(u)))
      /\ Elems(FeaturePatches(Selected(o))) = Elems(FeaturePatches(Selected(u)))
  BY KernelInputsAlike DEF Grounded, Alike
<1>5. /\ Elems(SeriesWith(k, d, Selected(o))) = Elems(SeriesWith(k, d, Selected(u)))
      /\ SeriesWith(k, d, Selected(o)) = <<>> <=> SeriesWith(k, d, Selected(u)) = <<>>
  BY <1>2, <1>3, <1>4, OneRemoved DEF SeriesWith
<1>6. Elems(FragmentsWith(k, d, Selected(o))) = Elems(FragmentsWith(k, d, Selected(u)))
  BY <1>2, <1>3, <1>4, OneRemoved DEF FragmentsWith
<1> QED BY <1>5, <1>6

\* A compiled kernel, of the fragments and the series it is given.
KernelWith(k, id, fragments, series) ==
    [id |-> id, flavor |-> k.flavor, source |-> k.source, track |-> k.track, defconfig |-> k.defconfig,
     fragments |-> fragments, series |-> series, patchesUrl |-> k.patchesUrl,
     patchesRef |-> PatchesRef(series # <<>>, k.patchesRef), libre |-> k.libre]

\* A kernel with the same fragments and series is the same kernel.
LEMMA KernelWithAlike ==
    ASSUME NEW k, NEW id, NEW f, NEW g, NEW s, NEW t,
           Elems(f) = Elems(g), Elems(s) = Elems(t), s = <<>> <=> t = <<>>
    PROVE  UnorderedKernel(KernelWith(k, id, f, s)) = UnorderedKernel(KernelWith(k, id, g, t))
<1> DEFINE x == KernelWith(k, id, f, s)
           y == KernelWith(k, id, g, t)
           Fields == {"id", "flavor", "source", "track", "defconfig", "fragments", "series", "patchesUrl",
                      "patchesRef", "libre"}
<1>1. DOMAIN x = Fields /\ DOMAIN y = Fields
  BY DEF KernelWith
<1>2. PatchesRef(s # <<>>, k.patchesRef) = PatchesRef(t # <<>>, k.patchesRef)
  BY DEF PatchesRef
<1>3. \A a \in Fields \ {"fragments", "series"} : x[a] = y[a]
  BY <1>2 DEF KernelWith
<1>4. x["fragments"] = f /\ y["fragments"] = g /\ x["series"] = s /\ y["series"] = t
  BY DEF KernelWith
<1> HIDE DEF x, y, Fields
<1>5. UnorderedKernel(x) = [a \in Fields |-> IF a \in {"fragments", "series"} THEN Elems(x[a]) ELSE x[a]]
  BY <1>1 DEF UnorderedKernel
<1>6. UnorderedKernel(y) = [a \in Fields |-> IF a \in {"fragments", "series"} THEN Elems(y[a]) ELSE y[a]]
  BY <1>1 DEF UnorderedKernel
<1>7. \A a \in {"fragments", "series"} : Elems(x[a]) = Elems(y[a])
  BY <1>4
<1>8. UnorderedKernel(x) = UnorderedKernel(y)
  BY <1>3, <1>5, <1>6, <1>7
<1> QED BY <1>8 DEF x, y

\* Both readings accept the kernel, or neither, and it is the same one.
LEMMA KernelAlike ==
    ASSUME NEW d, NEW o, NEW u, Alike(o, u), Grounded(d, o)
    PROVE  /\ KernelResolves(d, o) <=> KernelResolves(d, u)
           /\ UnorderedKernel(KernelOf(d, o)) = UnorderedKernel(KernelOf(d, u))
<1> DEFINE id == KernelId(d, o)
           k == Kernels[id]
<1>1. id = KernelId(d, u)
  BY BoardAlike
<1>2. KernelInputs(Selected(o)) = <<>> <=> KernelInputs(Selected(u)) = <<>>
  BY KernelInputsAlike DEF Grounded, Alike
<1>3. k.compiled =>
        /\ Elems(SeriesWith(k, d, Selected(o))) = Elems(SeriesWith(k, d, Selected(u)))
        /\ SeriesWith(k, d, Selected(o)) = <<>> <=> SeriesWith(k, d, Selected(u)) = <<>>
        /\ Elems(FragmentsWith(k, d, Selected(o))) = Elems(FragmentsWith(k, d, Selected(u)))
  BY SeriesAlike
<1>4. KernelResolves(d, o) <=> KernelResolves(d, u)
  BY <1>1, <1>2, <1>3 DEF KernelResolves, SeriesWith
<1>5. CASE k.compiled
  <2>1. /\ KernelOf(d, o) = KernelWith(k, id, FragmentsWith(k, d, Selected(o)), SeriesWith(k, d, Selected(o)))
        /\ KernelOf(d, u) = KernelWith(k, id, FragmentsWith(k, d, Selected(u)), SeriesWith(k, d, Selected(u)))
    BY <1>1, <1>5 DEF KernelOf, KernelWith, SeriesWith, FragmentsWith
  <2> HIDE DEF k, id
  <2> QED BY <1>3, <1>4, <1>5, <2>1, KernelWithAlike
<1>6. CASE ~k.compiled
  <2>1. KernelOf(d, o) = KernelOf(d, u)
    BY <1>1, <1>6 DEF KernelOf
  <2> QED BY <1>4, <2>1
<1> QED BY <1>5, <1>6

\* A selection in another order is accepted just as well.
LEMMA ImageAccepted ==
    ASSUME NEW d \in DeviceLayer, NEW o, NEW u, Alike(o, u), d.soc \in DOMAIN Socs,
           Method(d, o) \in {"rkbin", "depthcharge"}, ImageResolves(d, o)
    PROVE  ImageResolves(d, u) /\ Grounded(d, o)
<1> DEFINE fs == Selected(o)
           gs == Selected(u)
<1>1. SameSelection(fs, gs) /\ FeaturesResolve(d, gs) /\ Named(fs)
  BY FeaturesAlike DEF Alike, ImageResolves
<1>2. Grounded(d, o)
  BY <1>1, ServedByADistro DEF Grounded, ImageResolves, KernelResolves
<1>3. /\ KernelId(d, o) = KernelId(d, u) /\ Suite(d, o) = Suite(d, u) /\ DistroOf(d, o) = DistroOf(d, u)
      /\ Method(d, o) = Method(d, u) /\ Generator(d, o) = Generator(d, u) /\ Components(d, o) = Components(d, u)
      /\ Groups(d, o) = Groups(d, u) /\ \A a \in Defaulted : Policy(d, o, a) = Policy(d, u, a)
  BY BoardAlike
<1>4. KernelResolves(d, u)
  BY <1>2, KernelAlike DEF ImageResolves
<1>5. SuiteResolves(d, u) /\ GeneratorResolves(d, u) /\ GroupsResolve(d, u) /\ Components(d, u) # {}
  BY <1>3 DEF ImageResolves, SuiteResolves, GeneratorResolves, GroupsResolve
<1>6. SizeResolves(d, u) /\ L10nResolves(d, u) /\ NtpResolves(d, u) /\ AccountResolves(d, u)
  <2>1. {"size", "locale", "extras", "timezone", "keymap", "ntp", "password", "keys"} \subseteq Defaulted
    BY DEF Defaulted
  <2> QED BY <1>3, <2>1 DEF ImageResolves, SizeResolves, L10nResolves, NtpResolves, AccountResolves
<1>7. Elems(fs) = Elems(gs)
  BY <1>1 DEF SameSelection
<1>8. MediaSources(d, gs)
  BY <1>7 DEF ImageResolves, MediaSources, MediaAccel
<1>9. Elems(Of(fs, "apt")) = Elems(Of(gs, "apt")) /\ Elems(Of(fs, "apps")) = Elems(Of(gs, "apps"))
      /\ Elems(Apps(fs)) = Elems(Apps(gs))
  BY <1>1, SameBrought DEF FeatureKeys
<1>10. AptSourcesMerge(gs) /\ AppsMerge(d, gs)
  BY <1>9 DEF ImageResolves, AptSourcesMerge, AppsMerge, OneDefinition
<1>11. PackagesResolve(d, u) /\ DebsResolve(d, u)
  BY <1>2, EntriesAlike DEF ImageResolves, PackagesResolve, DebsResolve
<1> QED BY <1>1, <1>2, <1>4, <1>5, <1>6, <1>8, <1>10, <1>11 DEF ImageResolves

\* resolve_packages: the names of what applies here, less the exclusions.
LEMMA PackagesElems ==
    ASSUME NEW d, NEW o, Grounded(d, o)
    PROVE  Elems(Packages(d, o)) =
             {e.name : e \in {x \in Elems(PackageEntries(d, o)) : AppliesTo(x, DistroOf(d, o), Suite(d, o))}}
               \ Elems(Excluded(d, o))
<1> DEFINE entries == PackageEntries(d, o)
           applied == {i \in DOMAIN entries : AppliesTo(entries[i], DistroOf(d, o), Suite(d, o))}
           here == Kept(entries, applied)
           all == [i \in DOMAIN here |-> here[i].name]
           names == Distinct(all)
           wanted == {i \in DOMAIN names : names[i] \notin Elems(Excluded(d, o))}
           Applying == {x \in Elems(entries) : AppliesTo(x, DistroOf(d, o), Suite(d, o))}
<1>1. Packages(d, o) = Kept(names, wanted)
  BY DEF Packages
<1>2. List(entries)
  BY EntriesList
<1>3. List(here) /\ Elems(here) = {entries[i] : i \in applied \cap DOMAIN entries}
  <2> HIDE DEF entries, applied
  <2> QED BY <1>2, KeptList
<1>4. Elems(here) = Applying
  <2> HIDE DEF entries, here
  <2> QED BY <1>3 DEF Elems
<1> HIDE DEF here, Applying
<1>5. List(all) /\ Elems(all) = {all[i] : i \in DOMAIN here}
  BY <1>3, MappedList
<1>6. Elems(all) = {e.name : e \in Elems(here)}
  BY <1>5 DEF Elems
<1> HIDE DEF all
<1>7. List(names) /\ Elems(names) = Elems(all)
  BY <1>5, DistinctList
<1> HIDE DEF names
<1>8. Elems(Kept(names, wanted)) = {names[i] : i \in wanted \cap DOMAIN names}
  BY <1>7, KeptList
<1>9. {names[i] : i \in wanted \cap DOMAIN names} = Elems(names) \ Elems(Excluded(d, o))
  BY DEF Elems
<1> QED BY <1>1, <1>4, <1>6, <1>7, <1>8, <1>9 DEF Applying

\* A merge by key: the first entry of each.
ByKey(s, key) == FirstPerKey(s, [i \in DOMAIN s |-> s[i][key]])

\* The first entry of a key in two joined lists: of the first list if that has the key, else
\* one of the second.
LEMMA FirstOfBoth ==
    ASSUME NEW a, NEW b, List(a), List(b), NEW key
    PROVE  /\ Elems(ByKey(a \o b, key)) \subseteq Elems(a) \cup Elems(b)
           /\ \A e \in Elems(a) \cup Elems(b) : \E f \in Elems(ByKey(a \o b, key)) : f[key] = e[key]
           /\ \A e \in Elems(ByKey(a \o b, key)), f \in Elems(a) :
                 e[key] = f[key] =>
                    /\ e \in Elems(a)
                    /\ \E n \in DOMAIN a : a[n] = e /\ \A m \in 1..(n - 1) : a[m][key] # e[key]
           /\ \A n \in DOMAIN a : (\A m \in 1..(n - 1) : a[m][key] # a[n][key])
                                  => a[n] \in Elems(ByKey(a \o b, key))
<1> DEFINE s == a \o b
           L == Len(a)
           k == [i \in DOMAIN s |-> s[i][key]]
<1>1. /\ List(s) /\ Elems(s) = Elems(a) \cup Elems(b)
      /\ L \in Nat /\ DOMAIN a = 1..L /\ Len(b) \in Nat /\ DOMAIN s = 1..(L + Len(b))
      /\ \A n \in 1..L : s[n] = a[n]
  BY BothLists, ListFacts
<1>2. ByKey(s, key) = FirstPerKey(s, k)
  BY DEF ByKey
<1>3. DOMAIN k = DOMAIN s /\ \A i \in DOMAIN s : k[i] = s[i][key]
  OBVIOUS
<1> HIDE DEF s, L, k
<1>4. /\ Elems(FirstPerKey(s, k)) = {s[n] : n \in Firsts(k)} /\ {k[n] : n \in Firsts(k)} = Elems(k)
      /\ Firsts(k) \subseteq DOMAIN s
  BY <1>1, <1>3, FirstPerKeyList
<1>5. Elems(FirstPerKey(s, k)) \subseteq Elems(s)
  BY <1>4 DEF Elems
<1>6. ASSUME NEW e \in Elems(s) PROVE \E f \in Elems(FirstPerKey(s, k)) : f[key] = e[key]
  <2>1. PICK i \in DOMAIN s : s[i] = e
    BY <1>6 DEF Elems
  <2>2. k[i] \in Elems(k) /\ k[i] = e[key]
    BY <1>3, <2>1 DEF Elems
  <2>3. PICK n \in Firsts(k) : k[n] = e[key]
    BY <1>4, <2>2
  <2>4. s[n] \in Elems(FirstPerKey(s, k)) /\ s[n][key] = e[key]
    BY <1>3, <1>4, <2>3
  <2> QED BY <2>4
<1>7. ASSUME NEW e \in Elems(FirstPerKey(s, k)), NEW f \in Elems(a), e[key] = f[key]
      PROVE  /\ e \in Elems(a)
             /\ \E n \in DOMAIN a : a[n] = e /\ \A m \in 1..(n - 1) : a[m][key] # e[key]
  <2>1. PICK n \in Firsts(k) : s[n] = e
    BY <1>4, <1>7
  <2>2. PICK j \in DOMAIN a : a[j] = f
    BY <1>7 DEF Elems
  <2>3. j \in 1..L /\ j \in DOMAIN s /\ k[j] = k[n] /\ n \in DOMAIN s /\ k[n] = e[key]
    <3>1. j \in 1..L /\ j \in DOMAIN s /\ n \in DOMAIN s
      BY <1>1, <1>4, <2>1, <2>2
    <3>2. s[j] = f
      BY <1>1, <2>2, <3>1
    <3> QED BY <1>3, <1>7, <2>1, <3>1, <3>2
  <2>4. \A m \in 1..(n - 1) : k[m] # k[n]
    BY <2>1 DEF Firsts
  <2>5. n \in 1..L
    <3>1. n \in Nat /\ j \in Nat /\ (n \notin 1..L => j \in 1..(n - 1))
      BY <1>1, <2>3
    <3> QED BY <2>3, <2>4, <3>1
  <2>6. a[n] = e /\ n \in DOMAIN a
    BY <1>1, <2>1, <2>5
  <2>7. ASSUME NEW m \in 1..(n - 1) PROVE a[m][key] # e[key]
    <3>1. m \in 1..L /\ m \in DOMAIN s
      BY <1>1, <2>5
    <3>2. s[m] = a[m]
      BY <1>1, <3>1
    <3>3. k[m] = a[m][key] /\ k[m] # k[n]
      BY <1>3, <2>4, <2>7, <3>1, <3>2
    <3> QED BY <2>3, <3>3
  <2>8. e \in Elems(a)
    BY <2>6 DEF Elems
  <2> QED BY <2>6, <2>7, <2>8
<1>8. ASSUME NEW n \in DOMAIN a, \A m \in 1..(n - 1) : a[m][key] # a[n][key]
      PROVE  a[n] \in Elems(FirstPerKey(s, k))
  <2>1. n \in 1..L /\ n \in DOMAIN s
    BY <1>1
  <2>2. s[n] = a[n]
    BY <1>1, <2>1
  <2>3. ASSUME NEW m \in 1..(n - 1) PROVE k[m] # k[n]
    <3>1. m \in 1..L /\ m \in DOMAIN s
      BY <1>1, <2>1
    <3>2. s[m] = a[m]
      BY <1>1, <3>1
    <3>3. k[m] = a[m][key] /\ k[n] = a[n][key]
      BY <1>3, <2>1, <2>2, <3>1, <3>2
    <3> QED BY <1>8, <2>3, <3>3
  <2>4. n \in Firsts(k)
    BY <1>3, <2>1, <2>3 DEF Firsts
  <2> QED BY <1>4, <2>2, <2>4
<1> QED BY <1>1, <1>2, <1>5, <1>6, <1>7, <1>8 DEF s

\* One half of SettledAlike: what is settled in one order is kept in the other.
LEMMA SettledKept ==
    ASSUME NEW a, NEW s, NEW t, List(a), List(s), List(t), Elems(s) = Elems(t), NEW key,
           NEW e \in Elems(ByKey(a \o s, key)),
           e \in Elems(a) \/ \A f \in Elems(s) : f[key] = e[key] => f = e
    PROVE  e \in Elems(ByKey(a \o t, key))
<1>1. CASE \E f \in Elems(a) : f[key] = e[key]
  <2>1. PICK n \in DOMAIN a : a[n] = e /\ \A m \in 1..(n - 1) : a[m][key] # e[key]
    BY <1>1, FirstOfBoth
  <2>2. \A m \in 1..(n - 1) : a[m][key] # a[n][key]
    BY <2>1
  <2>3. a[n] \in Elems(ByKey(a \o t, key))
    BY <2>2, FirstOfBoth
  <2> QED BY <2>1, <2>3
<1>2. CASE ~\E f \in Elems(a) : f[key] = e[key]
  <2>1. e \notin Elems(a) /\ e \in Elems(a) \cup Elems(t)
    BY <1>2, FirstOfBoth
  <2>2. PICK f \in Elems(ByKey(a \o t, key)) : f[key] = e[key]
    BY <2>1, FirstOfBoth
  <2>3. f \in Elems(a) \cup Elems(t)
    BY FirstOfBoth
  <2>4. f \in Elems(s)
    BY <1>2, <2>2, <2>3
  <2> QED BY <2>1, <2>2, <2>4
<1> QED BY <1>1, <1>2

\* What is settled does not depend on the order of what the features list.
LEMMA SettledAlike ==
    ASSUME NEW a, NEW s, NEW t, List(a), List(s), List(t), Elems(s) = Elems(t), NEW key
    PROVE  Settled(ByKey(a \o s, key), a, s, key) = Settled(ByKey(a \o t, key), a, t, key)
<1> DEFINE x == Elems(ByKey(a \o s, key))
           y == Elems(ByKey(a \o t, key))
<1>1. {e[key] : e \in x} = {e[key] : e \in y}
  <2>1. /\ x \subseteq Elems(a) \cup Elems(s) /\ \A e \in Elems(a) \cup Elems(s) : \E f \in x : f[key] = e[key]
    BY FirstOfBoth
  <2>2. /\ y \subseteq Elems(a) \cup Elems(t) /\ \A e \in Elems(a) \cup Elems(t) : \E f \in y : f[key] = e[key]
    BY FirstOfBoth
  <2> HIDE DEF x, y
  <2>3. \A e \in x : \E f \in y : f[key] = e[key]
    BY <2>1, <2>2
  <2>4. \A e \in y : \E f \in x : f[key] = e[key]
    BY <2>1, <2>2
  <2> QED BY <2>3, <2>4
<1>2. \A e \in x : (e \in Elems(a) \/ \A f \in Elems(s) : f[key] = e[key] => f = e) => e \in y
  BY SettledKept
<1>3. \A e \in y : (e \in Elems(a) \/ \A f \in Elems(t) : f[key] = e[key] => f = e) => e \in x
  BY SettledKept
<1> HIDE DEF x, y
<1>4. {e \in x : e \in Elems(a) \/ \A f \in Elems(s) : f[key] = e[key] => f = e}
        = {e \in y : e \in Elems(a) \/ \A f \in Elems(t) : f[key] = e[key] => f = e}
  BY <1>2, <1>3
<1> QED BY <1>1, <1>4 DEF Settled, x, y

\* merge_extra_debs, merge_ffmpeg_libs: what both orders settle is the same.
LEMMA MergesAlike ==
    ASSUME NEW d, NEW o, NEW u, Alike(o, u), Grounded(d, o), NEW debs, debs = LayerDebs(d, o)
    PROVE  LET fs == Selected(o)
               gs == Selected(u) IN
           /\ Settled(ExtraDebs(d, o), debs, Of(fs, "debs"), "sha256")
                = Settled(ExtraDebs(d, u), debs, Of(gs, "debs"), "sha256")
           /\ Settled(FfmpegLibs(fs), <<>>, Of(fs, "libs"), "flag") = Settled(FfmpegLibs(gs), <<>>, Of(gs, "libs"), "flag")
<1> DEFINE fs == Selected(o)
           gs == Selected(u)
<1>1. Named(fs) /\ Named(gs) /\ SameSelection(fs, gs)
  BY GroundedAlike DEF Grounded, Alike
<1>2. /\ List(Of(fs, "debs")) /\ List(Of(gs, "debs")) /\ Elems(Of(fs, "debs")) = Elems(Of(gs, "debs"))
      /\ List(Of(fs, "libs")) /\ List(Of(gs, "libs")) /\ Elems(Of(fs, "libs")) = Elems(Of(gs, "libs"))
  BY <1>1, SameBrought, OfList DEF FeatureKeys
<1>3. List(debs) /\ LayerDebs(d, u) = debs
  BY LayersList, LayersAlike
<1>4. /\ DebEntries(d, o) = debs \o Of(fs, "debs") /\ DebEntries(d, u) = debs \o Of(gs, "debs")
  BY <1>3 DEF DebEntries
<1> HIDE DEF fs, gs
<1>5. Settled(ExtraDebs(d, o), debs, Of(fs, "debs"), "sha256") = Settled(ExtraDebs(d, u), debs, Of(gs, "debs"), "sha256")
  <2> DEFINE s == debs \o Of(fs, "debs")
             t == debs \o Of(gs, "debs")
  <2>1. /\ ExtraDebs(d, o) = ByKey(s, "sha256")
        /\ ExtraDebs(d, u) = ByKey(t, "sha256")
    BY <1>4 DEF ExtraDebs, ByKey
  <2> HIDE DEF s, t
  <2>2. Settled(ByKey(s, "sha256"), debs, Of(fs, "debs"), "sha256") = Settled(ByKey(t, "sha256"), debs, Of(gs, "debs"), "sha256")
    BY <1>2, <1>3, SettledAlike DEF s, t
  <2> QED BY <2>1, <2>2
<1>6. Settled(FfmpegLibs(fs), <<>>, Of(fs, "libs"), "flag") = Settled(FfmpegLibs(gs), <<>>, Of(gs, "libs"), "flag")
  <2> DEFINE z == <<>>
             s == z \o Of(fs, "libs")
             t == z \o Of(gs, "libs")
  <2>1. Of(fs, "libs") \in Seq(Elems(Of(fs, "libs"))) /\ Of(gs, "libs") \in Seq(Elems(Of(gs, "libs")))
    BY <1>2 DEF List
  <2>2. s = Of(fs, "libs") /\ t = Of(gs, "libs") /\ z = <<>>
    BY <2>1
  <2>3. List(z)
    BY NoList
  <2> HIDE DEF z
  <2>4. Settled(ByKey(s, "flag"), z, Of(fs, "libs"), "flag") = Settled(ByKey(t, "flag"), z, Of(gs, "libs"), "flag")
    BY <1>2, <2>3, SettledAlike
  <2> HIDE DEF s, t
  <2>5. FfmpegLibs(fs) = ByKey(s, "flag") /\ FfmpegLibs(gs) = ByKey(t, "flag")
    BY <2>2 DEF FfmpegLibs, ByKey
  <2> QED BY <2>2, <2>4, <2>5
<1> QED BY <1>5, <1>6 DEF fs, gs

\* A written list is a list.
LEMMA FourList == ASSUME NEW a, NEW b, NEW c, NEW e PROVE List(<<a, b, c, e>>)
<1>1. <<a, b, c, e>> \in Seq({a, b, c, e})
  OBVIOUS
<1> QED BY <1>1, TypedIsList

\* The same groups of expectations are checked on the device.
LEMMA ExpectationsAlike ==
    ASSUME NEW d, NEW o, NEW u, Alike(o, u), Grounded(d, o)
    PROVE  Elems(Expectations(d, o)) = Elems(Expectations(d, u))
<1> DEFINE ls == LayerGroups(d, o)
           ks == KmodGroups(d)
           Says(fs) == {x \in Elems(ls) \cup {Group("feature", f, Features[f].expect) : f \in Elems(fs)} \cup Elems(ks) :
                          x.expect # <<>>}
<1>1. List(ls)
  BY FourList DEF LayerGroups
<1>2. List(ks)
  <2>1. List(d.kmods)
    BY AddsLists
  <2> DEFINE t == [i \in DOMAIN d.kmods |-> Group("kmod", d.kmods[i], Kmods[d.kmods[i]].expect)]
  <2>2. t = [i \in DOMAIN d.kmods |-> t[i]]
    OBVIOUS
  <2> HIDE DEF t
  <2>3. List(t)
    BY <2>1, <2>2, MappedList
  <2> QED BY <2>3 DEF KmodGroups, t
<1> HIDE DEF ls, ks
<1>3. ASSUME NEW fs, List(fs), NEW x, x = ls \o FeatureGroups(fs) \o ks
      PROVE  Elems(Kept(x, {i \in DOMAIN x : x[i].expect # <<>>})) = Says(fs)
  <2> DEFINE t == FeatureGroups(fs)
             at == {i \in DOMAIN x : x[i].expect # <<>>}
  <2>1. t = [i \in DOMAIN fs |-> t[i]] /\ \A i \in DOMAIN fs : t[i] = Group("feature", fs[i], Features[fs[i]].expect)
    BY DEF FeatureGroups
  <2> HIDE DEF t
  <2>2. List(t) /\ Elems(t) = {t[i] : i \in DOMAIN fs}
    BY <1>3, <2>1, MappedList
  <2>3. Elems(t) = {Group("feature", f, Features[f].expect) : f \in Elems(fs)}
    BY <2>1, <2>2 DEF Elems
  <2>4. List(x) /\ Elems(x) = Elems(ls) \cup Elems(t) \cup Elems(ks)
    BY <1>1, <1>2, <1>3, <2>2, ThreeLists DEF t
  <2>5. Elems(Kept(x, at)) = {x[i] : i \in at \cap DOMAIN x}
    BY <2>4, KeptList
  <2>6. {x[i] : i \in at \cap DOMAIN x} = {y \in Elems(x) : y.expect # <<>>}
    BY DEF Elems
  <2> QED BY <2>3, <2>4, <2>5, <2>6
<1>4. /\ Expectations(d, o) = LET x == ls \o FeatureGroups(Selected(o)) \o ks IN
                              Kept(x, {i \in DOMAIN x : x[i].expect # <<>>})
      /\ Expectations(d, u) = LET x == ls \o FeatureGroups(Selected(u)) \o ks IN
                              Kept(x, {i \in DOMAIN x : x[i].expect # <<>>})
  BY LayersAlike DEF Expectations, ls, ks
<1>5. List(Selected(o)) /\ List(Selected(u)) /\ Elems(Selected(o)) = Elems(Selected(u))
  BY DEF Alike, SameSelection
<1>6. Says(Selected(o)) = Says(Selected(u))
  BY <1>5
<1> HIDE DEF Says
<1>7. Elems(Expectations(d, o)) = Says(Selected(o)) /\ Elems(Expectations(d, u)) = Says(Selected(u))
  BY <1>3, <1>4, <1>5
<1> QED BY <1>6, <1>7

(* A limitation is told by the first layer that states it. *)

Texts(s) == [i \in DOMAIN s |-> s[i].text]
Told(s) == {s[n] : n \in Firsts(Texts(s))}

\* Of two lists of caveats the second adds the texts the first does not tell.
LEMMA ToldOfBoth ==
    ASSUME NEW s, NEW t, List(s), List(t)
    PROVE  Told(s \o t) = Told(s) \cup {c \in Told(t) : \A e \in Elems(s) : e.text # c.text}
<1> DEFINE b == s \o t
           L == Len(s)
           M == Len(t)
<1>1. L \in Nat /\ M \in Nat /\ DOMAIN s = 1..L /\ DOMAIN t = 1..M
  BY ListFacts
<1>2. /\ DOMAIN b = 1..(L + M)
      /\ \A i \in 1..L : b[i] = s[i]
      /\ \A i \in 1..M : b[L + i] = t[i]
  <2> DEFINE S == Elems(s) \cup Elems(t)
  <2>1. s \in Seq(S) /\ t \in Seq(S)
    BY ListIsTyped
  <2> HIDE DEF S
  <2> QED BY <2>1
<1> HIDE DEF b, L, M
<1>3. ASSUME NEW n \in 1..L PROVE n \in Firsts(Texts(b)) <=> n \in Firsts(Texts(s))
  <2>1. n \in 1..(L + M) /\ \A m \in 1..(n - 1) : m \in 1..L /\ m \in 1..(L + M)
    BY <1>1
  <2>2. Texts(b)[n] = s[n].text /\ Texts(s)[n] = s[n].text
    BY <1>1, <1>2, <2>1 DEF Texts
  <2>3. \A m \in 1..(n - 1) : Texts(b)[m] = s[m].text /\ Texts(s)[m] = s[m].text
    BY <1>1, <1>2, <2>1 DEF Texts
  <2>4. n \in DOMAIN Texts(b) /\ n \in DOMAIN Texts(s)
    BY <1>1, <1>2, <2>1 DEF Texts
  <2> QED BY <2>2, <2>3, <2>4 DEF Firsts
<1>4. ASSUME NEW n \in 1..M
      PROVE  L + n \in Firsts(Texts(b)) <=>
               n \in Firsts(Texts(t)) /\ \A e \in Elems(s) : e.text # t[n].text
  <2>1. L + n \in 1..(L + M)
    BY <1>1
  <2>2. Texts(b)[L + n] = t[n].text /\ Texts(t)[n] = t[n].text
    BY <1>1, <1>2, <2>1 DEF Texts
  <2>3. \A m \in 1..L : Texts(b)[m] = s[m].text
    <3>1. \A m \in 1..L : m \in 1..(L + M)
      BY <1>1
    <3> QED BY <1>2, <3>1 DEF Texts
  <2>4. \A m \in 1..(n - 1) : Texts(b)[L + m] = t[m].text /\ Texts(t)[m] = t[m].text
    <3>1. \A m \in 1..(n - 1) : m \in 1..M /\ L + m \in 1..(L + M)
      BY <1>1
    <3> QED BY <1>1, <1>2, <3>1 DEF Texts
  <2>5. L + n \in DOMAIN Texts(b) /\ n \in DOMAIN Texts(t)
    BY <1>1, <1>2, <2>1 DEF Texts
  <2>6. (\A e \in Elems(s) : e.text # t[n].text) <=> (\A m \in 1..L : s[m].text # t[n].text)
    BY <1>1 DEF Elems
  <2> DEFINE k == Texts(b)
             x == t[n].text
  <2>7. (\A m \in 1..(L + n - 1) : k[m] # x) <=>
          ((\A m \in 1..L : k[m] # x) /\ (\A m \in 1..(n - 1) : k[L + m] # x))
    <3> HIDE DEF k, x
    <3>1. ASSUME NEW m \in 1..(L + n - 1) PROVE m \in 1..L \/ (m - L \in 1..(n - 1) /\ m = L + (m - L))
      BY <1>1
    <3>2. ASSUME NEW m \in 1..L PROVE m \in 1..(L + n - 1)
      BY <1>1
    <3>3. ASSUME NEW m \in 1..(n - 1) PROVE L + m \in 1..(L + n - 1)
      BY <1>1
    <3> QED BY <3>1, <3>2, <3>3
  <2>8. L + n \in Firsts(k) <=> ((\A m \in 1..L : k[m] # x) /\ (\A m \in 1..(n - 1) : k[L + m] # x))
    <3>1. k[L + n] = x /\ L + n \in DOMAIN k
      BY <2>2, <2>5
    <3> HIDE DEF k, x
    <3>2. L + n \in Firsts(k) <=> \A m \in 1..(L + n - 1) : k[m] # x
      BY <1>1, <3>1 DEF Firsts
    <3> QED BY <3>2, <2>7
  <2>9. n \in Firsts(Texts(t)) <=> \A m \in 1..(n - 1) : Texts(t)[m] # t[n].text
    BY <2>2, <2>5 DEF Firsts
  <2> QED BY <2>3, <2>4, <2>6, <2>8, <2>9
<1>5. Firsts(Texts(b)) \subseteq 1..(L + M) /\ Firsts(Texts(s)) \subseteq 1..L /\ Firsts(Texts(t)) \subseteq 1..M
  BY <1>1, <1>2 DEF Firsts, Texts
<1>6. ASSUME NEW n \in Firsts(Texts(b))
      PROVE  b[n] \in Told(s) \cup {c \in Told(t) : \A e \in Elems(s) : e.text # c.text}
  <2>1. CASE n \in 1..L
    BY <1>2, <1>3, <1>6, <2>1 DEF Told
  <2>2. CASE n \notin 1..L
    <3>1. n - L \in 1..M /\ n = L + (n - L)
      BY <1>1, <1>5, <2>2
    <3>2. b[n] = t[n - L]
      BY <1>2, <3>1
    <3>3. n - L \in Firsts(Texts(t)) /\ \A e \in Elems(s) : e.text # t[n - L].text
      BY <1>4, <1>6, <3>1
    <3> QED BY <3>2, <3>3 DEF Told
  <2> QED BY <2>1, <2>2
<1>7. ASSUME NEW n \in Firsts(Texts(s)) PROVE s[n] \in Told(b)
  <2>1. n \in 1..L
    BY <1>5
  <2> QED BY <1>2, <1>3, <2>1 DEF Told
<1>8. ASSUME NEW n \in Firsts(Texts(t)), \A e \in Elems(s) : e.text # t[n].text PROVE t[n] \in Told(b)
  <2>1. n \in 1..M
    BY <1>5
  <2> QED BY <1>2, <1>4, <1>8, <2>1 DEF Told
<1>9. Told(b) \subseteq Told(s) \cup {c \in Told(t) : \A e \in Elems(s) : e.text # c.text}
  BY <1>6 DEF Told
<1>10. Told(s) \subseteq Told(b)
  BY <1>7 DEF Told
<1>11. {c \in Told(t) : \A e \in Elems(s) : e.text # c.text} \subseteq Told(b)
  BY <1>8 DEF Told
<1> QED BY <1>9, <1>10, <1>11 DEF b

LEMMA SaidIsTold ==
    ASSUME NEW scope, NEW texts, List(texts), NEW s, s = Said(scope, texts)
    PROVE  /\ List(s) /\ Elems(s) = {[text |-> x, scope |-> scope] : x \in Elems(texts)}
           /\ Told(s) = Elems(s)
<1>1. s = [i \in DOMAIN texts |-> s[i]] /\ DOMAIN s = DOMAIN texts
  BY DEF Said
<1>0. \A i \in DOMAIN texts : s[i] = [text |-> texts[i], scope |-> scope]
  BY DEF Said
<1>2. List(s) /\ Elems(s) = {s[i] : i \in DOMAIN texts}
  BY <1>1, MappedList
<1>3. Elems(s) = {[text |-> x, scope |-> scope] : x \in Elems(texts)}
  <2>1. {s[i] : i \in DOMAIN texts} = {[text |-> texts[i], scope |-> scope] : i \in DOMAIN texts}
    BY <1>0
  <2>2. {[text |-> texts[i], scope |-> scope] : i \in DOMAIN texts}
           = {[text |-> x, scope |-> scope] : x \in Elems(texts)}
    BY DEF Elems
  <2> QED BY <1>2, <2>1, <2>2
<1>4. Texts(s) = texts
  <2>1. texts = [i \in DOMAIN texts |-> texts[i]]
    BY DEF List
  <2>2. ASSUME NEW i \in DOMAIN texts PROVE s[i].text = texts[i]
    <3>1. [text |-> texts[i], scope |-> scope].text = texts[i]
      OBVIOUS
    <3>2. s[i] = [text |-> texts[i], scope |-> scope]
      BY <1>0
    <3> QED BY <3>1, <3>2, Zenon
  <2>3. Texts(s) = [i \in DOMAIN texts |-> texts[i]]
    BY <1>1, <2>2 DEF Texts
  <2> QED BY <2>1, <2>3
<1>5. {texts[n] : n \in Firsts(texts)} = Elems(texts)
  BY FirstPerKeyList
<1>6. Told(s) = {[text |-> x, scope |-> scope] : x \in {texts[n] : n \in Firsts(texts)}}
  <2>1. Firsts(texts) \subseteq DOMAIN texts
    BY DEF Firsts
  <2> QED BY <1>0, <1>4, <2>1 DEF Told
<1> QED BY <1>2, <1>3, <1>5, <1>6

\* The same caveats are printed, each with the scope that tells it first.
LEMMA CaveatsAlike ==
    ASSUME NEW d, NEW o, NEW u, Alike(o, u), Grounded(d, o), NEW r, NEW q,
           r.deliverable = q.deliverable, ClaimedCaveats(r) = ClaimedCaveats(q), List(ClaimedCaveats(r))
    PROVE  Elems(Caveats(d, o, r)) = Elems(Caveats(d, u, q))
<1> DEFINE h == HardwareCaveats(d)
           F(fs) == IF r.deliverable = "uboot" THEN <<>> ELSE Said("feature", Of(fs, "caveats"))
           c == Said("recipe", ClaimedCaveats(r))
           Sum(fs) == h \o F(fs) \o c
           fs == Selected(o)
           gs == Selected(u)
<1>1. List(h)
  BY AddsLists, SaidIsTold, BothLists DEF HardwareCaveats
<1>2. List(c)
  BY SaidIsTold
<1>3. Named(fs) /\ Named(gs) /\ Elems(Of(fs, "caveats")) = Elems(Of(gs, "caveats"))
  BY SameBrought DEF Alike, Grounded, FeatureKeys
<1>4. List(Of(fs, "caveats")) /\ List(Of(gs, "caveats"))
  BY <1>3, OfList DEF FeatureKeys
<1>5. List(F(fs)) /\ List(F(gs)) /\ Elems(F(fs)) = Elems(F(gs)) /\ Told(F(fs)) = Told(F(gs))
  <2>1. CASE r.deliverable = "uboot"
    BY <2>1, NoList
  <2>2. CASE r.deliverable # "uboot"
    BY <1>3, <1>4, <2>2, SaidIsTold
  <2> QED BY <2>1, <2>2
<1>6. ASSUME NEW x, x = Sum(fs) \/ x = Sum(gs), List(x)
      PROVE  Elems(FirstPerKey(x, [i \in DOMAIN x |-> x[i].text])) = Told(x)
  <2>1. DOMAIN Texts(x) = DOMAIN x
    BY DEF Texts
  <2>2. Elems(FirstPerKey(x, Texts(x))) = {x[n] : n \in Firsts(Texts(x))}
    BY <1>6, <2>1, FirstPerKeyList
  <2> QED BY <2>2 DEF Texts, Told
<1>7. Caveats(d, o, r) = FirstPerKey(Sum(fs), [i \in DOMAIN Sum(fs) |-> Sum(fs)[i].text])
  BY DEF Caveats
<1>8. Caveats(d, u, q) = FirstPerKey(Sum(gs), [i \in DOMAIN Sum(gs) |-> Sum(gs)[i].text])
  BY DEF Caveats
<1> HIDE DEF h, F, c, fs, gs
<1>9. /\ List(h \o F(fs)) /\ Elems(h \o F(fs)) = Elems(h) \cup Elems(F(fs))
      /\ List(h \o F(gs)) /\ Elems(h \o F(gs)) = Elems(h) \cup Elems(F(gs))
  BY <1>1, <1>5, BothLists
<1>10. List(Sum(fs)) /\ List(Sum(gs))
  BY <1>2, <1>9, BothLists
<1>11. Told(h \o F(fs)) = Told(h \o F(gs))
  BY <1>1, <1>5, ToldOfBoth
<1>12. Told(Sum(fs)) = Told(Sum(gs))
  <2> DEFINE a == h \o F(fs)
             b == h \o F(gs)
  <2>1. List(a) /\ List(b) /\ Elems(a) = Elems(b) /\ Told(a) = Told(b)
    BY <1>5, <1>9, <1>11
  <2> HIDE DEF a, b
  <2>2. /\ Told(a \o c) = Told(a) \cup {x \in Told(c) : \A e \in Elems(a) : e.text # x.text}
        /\ Told(b \o c) = Told(b) \cup {x \in Told(c) : \A e \in Elems(b) : e.text # x.text}
    BY <1>2, <2>1, ToldOfBoth
  <2>3. Told(a \o c) = Told(b \o c)
    BY <2>1, <2>2
  <2> QED BY <2>3 DEF a, b
<1> HIDE DEF Sum
<1> QED BY <1>6, <1>7, <1>8, <1>10, <1>12

StackFields == {"kmods", "userspace", "ffmpeg", "nonfree", "apt", "debs", "libs", "apps", "expects", "selftest"}
Listed == {"apt", "debs", "libs", "apps", "expects"}

\* Stacks with the same contents are the same but for their order.
LEMMA UnorderedStacks ==
    ASSUME NEW x, NEW y, NEW debs, NEW fs, NEW gs, DOMAIN x = StackFields, DOMAIN y = StackFields,
           \A f \in StackFields \ Listed : x[f] = y[f],
           Settled(x.debs, debs, Of(fs, "debs"), "sha256") = Settled(y.debs, debs, Of(gs, "debs"), "sha256"),
           Settled(x.libs, <<>>, Of(fs, "libs"), "flag") = Settled(y.libs, <<>>, Of(gs, "libs"), "flag"),
           Elems(x.apt) = Elems(y.apt), Elems(x.apps) = Elems(y.apps), Elems(x.expects) = Elems(y.expects)
    PROVE  UnorderedStack(x, debs, fs) = UnorderedStack(y, debs, gs)
BY DEF UnorderedStack, StackFields, Listed

\* Both readings build the same media stack and packages.
LEMMA StackAlike ==
    ASSUME NEW d, NEW o, NEW u, Alike(o, u), Grounded(d, o), NEW r, NEW q, r.selftest = q.selftest,
           NEW debs, debs = LayerDebs(d, o)
    PROVE  UnorderedStack(Stack(d, o, r), debs, Selected(o)) = UnorderedStack(Stack(d, u, q), debs, Selected(u))
<1> DEFINE fs == Selected(o)
           gs == Selected(u)
           x == Stack(d, o, r)
           y == Stack(d, u, q)
<1>1. Named(fs) /\ Named(gs) /\ Elems(fs) = Elems(gs) /\ Grounded(d, u)
  BY SameBrought, GroundedAlike DEF Alike, Grounded, SameSelection
<1>2. DOMAIN x = StackFields /\ DOMAIN y = StackFields
  BY DEF Stack, StackFields
<1>3. \A f \in StackFields \ Listed : x[f] = y[f]
  <2>1. (MediaAccel(fs) <=> MediaAccel(gs)) /\ (Nonfree(fs) <=> Nonfree(gs))
    BY <1>1 DEF MediaAccel, Nonfree
  <2>2. Nonfree(fs) = Nonfree(gs)
    BY <1>1 DEF Nonfree
  <2>3. x.kmods = y.kmods /\ x.userspace = y.userspace /\ x.ffmpeg = y.ffmpeg /\ x.nonfree = y.nonfree
        /\ x.selftest = y.selftest
    BY <2>1, <2>2 DEF Stack
  <2> QED BY <2>3 DEF StackFields, Listed
<1>4. /\ x.debs = ExtraDebs(d, o) /\ y.debs = ExtraDebs(d, u) /\ x.libs = FfmpegLibs(fs) /\ y.libs = FfmpegLibs(gs)
      /\ x.apps = Apps(fs) /\ y.apps = Apps(gs)
  BY DEF Stack
<1>5. /\ Settled(ExtraDebs(d, o), debs, Of(fs, "debs"), "sha256")
           = Settled(ExtraDebs(d, u), debs, Of(gs, "debs"), "sha256")
      /\ Settled(FfmpegLibs(fs), <<>>, Of(fs, "libs"), "flag") = Settled(FfmpegLibs(gs), <<>>, Of(gs, "libs"), "flag")
      /\ Elems(Apps(fs)) = Elems(Apps(gs))
  BY <1>1, MergesAlike, SameBrought DEF Alike
<1>6. Elems(x.apt) = Elems(y.apt)
  <2>1. x.apt = Distinct(Of(fs, "apt")) /\ y.apt = Distinct(Of(gs, "apt"))
    BY DEF Stack
  <2>2. Elems(Of(fs, "apt")) = Elems(Of(gs, "apt")) /\ List(Of(fs, "apt")) /\ List(Of(gs, "apt"))
    BY <1>1, SameBrought, OfList DEF Alike, FeatureKeys
  <2> HIDE DEF x, y
  <2> QED BY <2>1, <2>2, DistinctList
<1>7. Elems(x.expects) = Elems(y.expects)
  <2>1. x.expects = Expectations(d, o) /\ y.expects = Expectations(d, u)
    BY DEF Stack
  <2> HIDE DEF x, y
  <2> QED BY <2>1, ExpectationsAlike
<1> HIDE DEF x, y, fs, gs
<1>8. UnorderedStack(x, debs, fs) = UnorderedStack(y, debs, gs)
  BY <1>2, <1>3, <1>4, <1>5, <1>6, <1>7, UnorderedStacks
<1> QED BY <1>8 DEF x, y, fs, gs

ImageFields ==
    {"kernel", "suite", "components", "generator", "features", "libre", "user", "hostname", "packages", "exclude",
     "groups", "modules", "policy", "volumes", "stack"}

\* Images with the same contents are the same but for their order.
LEMMA UnorderedImages ==
    ASSUME NEW x, NEW y, NEW debs, DOMAIN x = ImageFields, DOMAIN y = ImageFields,
           \A f \in ImageFields \ {"features", "packages", "exclude", "stack", "kernel"} : x[f] = y[f],
           Elems(x.features) = Elems(y.features), Elems(x.packages) = Elems(y.packages),
           Elems(x.exclude) = Elems(y.exclude),
           UnorderedStack(x.stack, debs, x.features) = UnorderedStack(y.stack, debs, y.features),
           UnorderedKernel(x.kernel) = UnorderedKernel(y.kernel)
    PROVE  Unordered(x, debs) = Unordered(y, debs)
BY DEF Unordered, ImageFields

\* Both readings describe the same image.
LEMMA ImageAlike ==
    ASSUME NEW d, NEW o, NEW u, Alike(o, u), Grounded(d, o), NEW r, NEW q, r.selftest = q.selftest, r.volumes = q.volumes,
           NEW debs, debs = LayerDebs(d, o)
    PROVE  Unordered(Image(d, o, r), debs) = Unordered(Image(d, u, q), debs)
<1> DEFINE x == Image(d, o, r)
           y == Image(d, u, q)
<1>1. DOMAIN x = ImageFields /\ DOMAIN y = ImageFields
  BY DEF Image, ImageFields
<1>2. \A f \in ImageFields \ {"features", "packages", "exclude", "stack", "kernel"} : x[f] = y[f]
  <2>1. /\ Suite(d, o) = Suite(d, u) /\ Components(d, o) = Components(d, u) /\ Generator(d, o) = Generator(d, u)
        /\ Libre(d, o) = Libre(d, u) /\ DistroOf(d, o) = DistroOf(d, u) /\ Groups(d, o) = Groups(d, u)
        /\ \A a \in Defaulted : Policy(d, o, a) = Policy(d, u, a)
    BY BoardAlike
  <2>2. [a \in Defaulted |-> Policy(d, o, a)] = [a \in Defaulted |-> Policy(d, u, a)]
    BY <2>1
  <2>3. /\ x.suite = y.suite /\ x.components = y.components /\ x.generator = y.generator /\ x.libre = y.libre
        /\ x.user = y.user /\ x.hostname = y.hostname /\ x.groups = y.groups /\ x.modules = y.modules
        /\ x.volumes = y.volumes /\ x.policy = y.policy
    BY <2>1, <2>2 DEF Image
  <2> QED BY <2>3 DEF ImageFields
<1>3. /\ x.features = Selected(o) /\ y.features = Selected(u) /\ x.packages = Packages(d, o)
      /\ y.packages = Packages(d, u) /\ x.exclude = Excluded(d, o) /\ y.exclude = Excluded(d, u)
      /\ x.stack = Stack(d, o, r) /\ y.stack = Stack(d, u, q)
      /\ x.kernel = KernelOf(d, o) /\ y.kernel = KernelOf(d, u)
  BY DEF Image
<1>4. Elems(Selected(o)) = Elems(Selected(u))
  BY DEF Alike, SameSelection
<1>5. Elems(Excluded(d, o)) = Elems(Excluded(d, u)) /\ Elems(PackageEntries(d, o)) = Elems(PackageEntries(d, u))
  BY EntriesAlike
<1>6. Elems(Packages(d, o)) = Elems(Packages(d, u))
  <2>1. Grounded(d, u) /\ Suite(d, o) = Suite(d, u) /\ DistroOf(d, o) = DistroOf(d, u)
    BY GroundedAlike, BoardAlike
  <2>2. \A v \in {o, u} :
           Elems(Packages(d, v)) =
             {e.name : e \in {p \in Elems(PackageEntries(d, v)) : AppliesTo(p, DistroOf(d, v), Suite(d, v))}}
               \ Elems(Excluded(d, v))
    BY <2>1, PackagesElems
  <2> QED BY <1>5, <2>1, <2>2, Zenon
<1>7. UnorderedStack(Stack(d, o, r), debs, Selected(o)) = UnorderedStack(Stack(d, u, q), debs, Selected(u))
  BY StackAlike
<1>8. UnorderedKernel(KernelOf(d, o)) = UnorderedKernel(KernelOf(d, u))
  BY KernelAlike
<1> HIDE DEF x, y
<1>9. Unordered(x, debs) = Unordered(y, debs)
  BY <1>1, <1>2, <1>3, <1>4, <1>5, <1>6, <1>7, <1>8, UnorderedImages
<1> QED BY <1>9 DEF x, y

\* Which reading is named first does not matter.
LEMMA AlikeBack == ASSUME NEW o, NEW u, Alike(o, u) PROVE Alike(u, o)
BY DEF Alike, SameSelection

\* Two requests that say the same but for the order of their features.
SameAsked(r, q) ==
    /\ r.device = q.device /\ r.device \in DOMAIN Devices
    /\ r.deliverable = "image" /\ q.deliverable = "image"
    /\ r.volumes = q.volumes /\ r.selftest = q.selftest /\ r.support = q.support
    /\ List(ClaimedCaveats(r))
    /\ ~AuthoredFeatures(r) /\ ~AuthoredFeatures(q)
    /\ Alike(Merged(r), Merged(q))

\* What one order of the features resolves, the other does.
LEMMA ResolvesAlike ==
    ASSUME NEW r, NEW q, SameAsked(r, q), Resolves(r)
    PROVE  Resolves(q) /\ Grounded(Devices[r.device], Merged(r))
<1> DEFINE d == Devices[r.device]
           o == Merged(r)
           u == Merged(q)
<1>1. d \in DeviceLayer /\ d = Devices[q.device] /\ Alike(o, u)
  BY LayersAssumption DEF SameAsked
<1>2. /\ MethodAllowed(d, o, "image") /\ Parsed(Methods[Method(d, o)].adds.expect)
      /\ BoardFiles(d) /\ BootResolves(d, o) /\ ImageResolves(d, o) /\ RecipeResolves(r, o)
  BY DEF Resolves, SameAsked
<1>3. d.soc \in DOMAIN Socs /\ Method(d, o) \in {"rkbin", "depthcharge"}
  <2>1. d.methods \subseteq {"rkbin", "depthcharge"}
    BY <1>1 DEF DeviceLayer, BootMethod
  <2> QED BY <1>2, <2>1 DEF BoardFiles, MethodAllowed
<1> HIDE DEF d, o, u
<1>4. ImageResolves(d, u) /\ Grounded(d, o)
  BY <1>1, <1>2, <1>3, ImageAccepted
<1>5. BootResolves(d, u)
  BY <1>1, <1>2, BootAlike
<1>6. Method(d, o) = Method(d, u)
  BY <1>1, BoardAlike
<1>7. MethodAllowed(d, u, "image") /\ Parsed(Methods[Method(d, u)].adds.expect)
  BY <1>2, <1>6 DEF MethodAllowed
<1>8. RecipeResolves(q, u)
  <2>1. Elems(Selected(o)) = Elems(Selected(u))
    BY <1>1 DEF Alike, SameSelection
  <2> QED BY <1>2, <2>1 DEF RecipeResolves, SameAsked
<1>9. q.deliverable = "image"
  BY DEF SameAsked
<1>10. Resolves(q)
  BY <1>1, <1>2, <1>4, <1>5, <1>7, <1>8, <1>9 DEF Resolves, d, u
<1> QED BY <1>4, <1>10 DEF d, o

BuildFields ==
    {"device", "arch", "soc", "layout", "boot", "dtb", "dts", "cmdline", "modules", "kbuild", "caveats", "packaging",
     "distro", "image"}

\* Builds with the same contents are the same but for their order.
LEMMA SameContents ==
    ASSUME NEW x, NEW y, NEW debs, DOMAIN x = BuildFields, DOMAIN y = BuildFields,
           \A f \in BuildFields \ {"caveats", "image"} : x[f] = y[f],
           Elems(x.caveats) = Elems(y.caveats), Unordered(x.image[1], debs) = Unordered(y.image[1], debs)
    PROVE  Content(x, debs) = Content(y, debs)
BY DEF Content, BuildFields

\* Both orders resolve to the same build.
LEMMA BuildAlike ==
    ASSUME NEW r, NEW q, SameAsked(r, q), Grounded(Devices[r.device], Merged(r)),
           NEW debs, debs = LayerDebs(Devices[r.device], Merged(r))
    PROVE  Content(Build(r), debs) = Content(Build(q), debs)
<1> DEFINE d == Devices[r.device]
           o == Merged(r)
           u == Merged(q)
           x == Build(r)
           y == Build(q)
<1>1. Alike(o, u) /\ d = Devices[q.device] /\ r.device = q.device /\ r.deliverable = "image" /\ q.deliverable = "image"
  BY DEF SameAsked
<1>2. DOMAIN x = BuildFields /\ DOMAIN y = BuildFields
  BY DEF Build, BuildFields
<1>3. \A f \in BuildFields \ {"caveats", "image"} : x[f] = y[f]
  <2>1. Layout(d, o) = Layout(d, u) /\ Suite(d, o) = Suite(d, u) /\ Boot(d, o) = Boot(d, u)
    BY <1>1, BoardAlike, BootAlike
  <2>2. /\ x.device = y.device /\ x.arch = y.arch /\ x.soc = y.soc /\ x.dtb = y.dtb /\ x.dts = y.dts
        /\ x.cmdline = y.cmdline /\ x.modules = y.modules /\ x.kbuild = y.kbuild
    BY <1>1 DEF Build
  <2>3. x.layout = y.layout /\ x.boot = y.boot /\ x.packaging = y.packaging
    BY <1>1, <2>1 DEF Build
  <2>4. x.distro = y.distro
    BY <1>1, <2>1 DEF Build
  <2> QED BY <2>2, <2>3, <2>4 DEF BuildFields
<1>4. /\ x.caveats = Caveats(d, o, r) /\ y.caveats = Caveats(d, u, q)
      /\ x.image[1] = Image(d, o, r) /\ y.image[1] = Image(d, u, q)
  BY <1>1 DEF Build
<1>5. Elems(Caveats(d, o, r)) = Elems(Caveats(d, u, q))
  <2>1. ClaimedCaveats(r) = ClaimedCaveats(q) /\ List(ClaimedCaveats(r)) /\ r.deliverable = q.deliverable
    BY DEF SameAsked, ClaimedCaveats
  <2> HIDE DEF d, o, u
  <2> QED BY <1>1, <2>1, CaveatsAlike DEF d, o
<1>6. Unordered(Image(d, o, r), debs) = Unordered(Image(d, u, q), debs)
  <2>1. r.selftest = q.selftest /\ r.volumes = q.volumes
    BY DEF SameAsked
  <2> HIDE DEF d, o, u
  <2> QED BY <1>1, <2>1, ImageAlike DEF d, o
<1> HIDE DEF x, y, d, o, u
<1>7. Content(x, debs) = Content(y, debs)
  BY <1>2, <1>3, <1>4, <1>5, <1>6, SameContents
<1> QED BY <1>7 DEF x, y

\* A selection by a permutation of its places is the same selection.
LEMMA Permuted ==
    ASSUME NEW fs, List(fs), NEW p \in Bijection(DOMAIN fs, DOMAIN fs), NEW gs, gs = [i \in DOMAIN fs |-> fs[p[i]]]
    PROVE  SameSelection(fs, gs)
<1> DEFINE S == DOMAIN fs
<1>1. /\ p \in [S -> S] /\ \A i, j \in S : p[i] = p[j] => i = j
      /\ \A j \in S : \E i \in S : p[i] = j
  BY DEF Bijection, Injection, Surjection, IsInjective
<1>2. gs = [i \in S |-> gs[i]] /\ DOMAIN gs = S /\ \A i \in S : gs[i] = fs[p[i]]
  OBVIOUS
<1>3. List(gs) /\ Elems(gs) = {gs[i] : i \in S}
  BY <1>2, MappedList
<1>4. Elems(fs) = Elems(gs)
  BY <1>1, <1>2 DEF Elems
<1>5. Once(fs) => Once(gs)
  BY <1>1, <1>2 DEF Once
<1>6. ASSUME Once(gs), NEW i \in S, NEW j \in S, fs[i] = fs[j] PROVE i = j
  <2>1. PICK a \in S : p[a] = i
    BY <1>1
  <2>2. PICK b \in S : p[b] = j
    BY <1>1
  <2>3. gs[a] = gs[b]
    BY <1>2, <1>6, <2>1, <2>2
  <2>4. a = b
    BY <1>2, <1>6, <2>3 DEF Once
  <2> QED BY <2>1, <2>2, <2>4
<1>7. Once(gs) => Once(fs)
  BY <1>6 DEF Once
<1> QED BY <1>3, <1>4, <1>5, <1>7 DEF SameSelection

RequestFields == {"device", "deliverable", "volumes", "selftest", "support", "cli", "suffix", "recipe"}

\* A request with its features named on the command line or by the suffix instead.
Reselects(q, r, gs) ==
    \E c, s \in {<<>>, <<gs>>} :
        c # s /\ q = [r EXCEPT !.cli = [r.cli EXCEPT !["features"] = c], !.suffix = s]

\* A request that selects the same features in another place asks for the same axes.
LEMMA SelectingMerges ==
    ASSUME NEW r \in Requests, NEW gs, NEW q, Reselects(q, r, gs)
    PROVE  /\ q.device = r.device /\ q.deliverable = r.deliverable /\ q.volumes = r.volumes
           /\ q.selftest = r.selftest /\ q.support = r.support /\ ~AuthoredFeatures(q)
           /\ Selected(Merged(q)) = gs
           /\ \A a \in Axes \ {"features"} : Merged(q)[a] = Merged(r)[a]
<1>0. PICK c \in {<<>>, <<gs>>}, s \in {<<>>, <<gs>>} :
          c # s /\ q = [r EXCEPT !.cli = [r.cli EXCEPT !["features"] = c], !.suffix = s]
  BY DEF Reselects
<1>1. DOMAIN r = RequestFields /\ DOMAIN r.cli = Axes
  BY LayersAssumption DEF RequestFields
<1>2. /\ q.device = r.device /\ q.deliverable = r.deliverable /\ q.volumes = r.volumes
      /\ q.selftest = r.selftest /\ q.support = r.support /\ q.recipe = r.recipe
      /\ q.suffix = s /\ q.cli = [r.cli EXCEPT !["features"] = c]
  BY <1>0, <1>1 DEF RequestFields
<1>3. "features" \in Axes
  BY DEF Axes, ImageAxes
<1>4. q.cli["features"] = c /\ \A a \in Axes \ {"features"} : q.cli[a] = r.cli[a]
  BY <1>1, <1>2, <1>3
<1>5. <<gs>> # <<>>
  OBVIOUS
<1>6. ~AuthoredFeatures(q)
  BY <1>0, <1>2, <1>4, <1>5 DEF AuthoredFeatures
<1>7. Merged(q)["features"] = <<gs>>
  <2>1. Merged(q)["features"] = Or(q.cli["features"], Or(q.suffix, q.recipe["features"]))
    BY <1>3 DEF Merged
  <2> QED BY <1>0, <1>2, <1>4, <1>5, <2>1 DEF Or
<1>8. Selected(Merged(q)) = gs
  BY <1>5, <1>7 DEF Selected, Or
<1>9. ASSUME NEW a \in Axes \ {"features"} PROVE Merged(q)[a] = Merged(r)[a]
  BY <1>2, <1>4, <1>9 DEF Merged
<1> QED BY <1>2, <1>6, <1>8, <1>9

\* What a request selects and the caveats it claims are lists.
LEMMA SelectedList ==
    ASSUME NEW r \in Requests
    PROVE  List(Selected(Merged(r))) /\ List(ClaimedCaveats(r))
<1>1. /\ r.cli["features"] \in Maybe(NameList) /\ r.suffix \in Maybe(NameList)
      /\ r.recipe["features"] \in Maybe(NameList)
  BY LayersAssumption
<1>2. Merged(r)["features"] \in Maybe(NameList)
  <2>1. "features" \in Axes
    BY DEF Axes, ImageAxes
  <2> QED BY <1>1, <2>1 DEF Merged, Or
<1>3. ASSUME NEW T, NEW m \in Maybe(T), m # <<>> PROVE m[1] \in T
  BY <1>3 DEF Maybe
<1>5. List(ClaimedCaveats(r))
  <2>1. r.support \in Maybe(Support)
    <3> DEFINE z == [device |-> r.device, deliverable |-> r.deliverable, volumes |-> r.volumes,
                     selftest |-> r.selftest, support |-> r.support]
    <3>1. z \in Recipe
      BY LayersAssumption
    <3>2. z.support \in Maybe(Support)
      <4> HIDE DEF z
      <4> QED BY <3>1 DEF Recipe
    <3> QED BY <3>2
  <2>2. CASE r.support = <<>>
    BY <2>2, NoList DEF ClaimedCaveats
  <2>3. CASE r.support # <<>>
    <3>1. r.support[1] \in Support
      BY <1>3, <2>1, <2>3
    <3>2. r.support[1].caveats \in Seq(STRING)
      BY <3>1 DEF Support, NameList
    <3> QED BY <2>3, <3>2, TypedIsList DEF ClaimedCaveats
  <2> QED BY <2>2, <2>3
<1>4. CASE Merged(r)["features"] = <<>>
  <2>1. Selected(Merged(r)) = <<>>
    BY <1>4 DEF Selected, Or
  <2> QED BY <1>5, <2>1, NoList
<1>6. CASE Merged(r)["features"] # <<>>
  <2>1. Merged(r)["features"][1] \in NameList
    BY <1>2, <1>3, <1>6
  <2>2. Selected(Merged(r)) \in Seq(STRING)
    BY <1>6, <2>1 DEF Selected, Or, NameList
  <2> QED BY <1>5, <2>2, TypedIsList
<1> QED BY <1>4, <1>6

\* Such a request says what the first does, but for the order of its features.
LEMMA AskedInAnotherOrder ==
    ASSUME NEW r \in Requests, ~AuthoredFeatures(r), r.deliverable = "image", NEW gs,
           SameSelection(Selected(Merged(r)), gs),
           NEW q, Reselects(q, r, gs)
    PROVE  SameAsked(r, q) /\ SameAsked(q, r)
<1>1. /\ q.device = r.device /\ q.deliverable = r.deliverable /\ q.volumes = r.volumes
      /\ q.selftest = r.selftest /\ q.support = r.support /\ ~AuthoredFeatures(q)
      /\ Selected(Merged(q)) = gs
      /\ \A a \in Axes \ {"features"} : Merged(q)[a] = Merged(r)[a]
  BY SelectingMerges
<1>2. Alike(Merged(r), Merged(q))
  BY <1>1 DEF Alike
<1>3. Alike(Merged(q), Merged(r))
  BY <1>2, AlikeBack
<1>4. r.device \in DOMAIN Devices
  BY LayersAssumption
<1>5. List(ClaimedCaveats(r)) /\ List(ClaimedCaveats(q))
  BY <1>1, SelectedList DEF ClaimedCaveats
<1> QED BY <1>1, <1>2, <1>3, <1>4, <1>5 DEF SameAsked

\* A selection is a set of features, for any layers and any request that selects.
THEOREM SelectionIsASetHolds == ResolutionSpec => []SelectionIsASet
<1>1. ResolutionInit => ResolutionInv
  BY DEF ResolutionInit, ResolutionInv
<1>2. ResolutionInv /\ [Resolve]_resolutionVars => ResolutionInv'
  BY DEF ResolutionInv, Resolve, resolutionVars
<1>3. ResolutionInv => SelectionIsASet
  <2> DEFINE fs == Selected(Merged(request))
             debs == LayerDebs(Devices[request.device], Merged(request))
  <2> SUFFICES ASSUME ResolutionInv, verdict # "asked", ~AuthoredFeatures(request), request.deliverable = "image",
                      NEW p \in Bijection(DOMAIN fs, DOMAIN fs), NEW other, other = [i \in DOMAIN fs |-> fs[p[i]]],
                      NEW r \in {Selecting(other)} \cup (IF other = <<>> THEN {} ELSE {Suffixed(other)})
               PROVE  /\ Resolves(r) <=> verdict = "resolved"
                      /\ verdict = "resolved" => Content(Build(r), debs) = Content(built[1], debs)
    BY DEF SelectionIsASet
  <2>1. request \in Requests
    BY DEF ResolutionInv
  <2>2. List(fs)
    BY <2>1, SelectedList
  <2>3. SameSelection(fs, other)
    <3> HIDE DEF fs
    <3> QED BY <2>2, Permuted
  <2>4. r = Selecting(other) \/ r = Suffixed(other)
    OBVIOUS
  <2>5. SameAsked(request, r) /\ SameAsked(r, request)
    <3> HIDE DEF fs
    <3>1. CASE r = Selecting(other)
      <4>1. Reselects(r, request, other)
        BY <3>1 DEF Selecting, Reselects
      <4> QED BY <2>1, <2>3, <4>1, AskedInAnotherOrder DEF fs
    <3>2. CASE r = Suffixed(other)
      <4>1. Reselects(r, request, other)
        BY <3>2 DEF Suffixed, Reselects
      <4> QED BY <2>1, <2>3, <4>1, AskedInAnotherOrder DEF fs
    <3> QED BY <2>4, <3>1, <3>2
  <2>9. debs = LayerDebs(Devices[request.device], Merged(request))
    OBVIOUS
  <2> HIDE DEF fs, debs
  <2>6. Resolves(r) <=> Resolves(request)
    BY <2>5, ResolvesAlike
  <2>7. Resolves(request) => Content(Build(request), debs) = Content(Build(r), debs)
    BY <2>5, <2>9, ResolvesAlike, BuildAlike
  <2>8. verdict = "resolved" => built[1] = Build(request)
    BY DEF ResolutionInv
  <2> QED BY <2>6, <2>7, <2>8 DEF ResolutionInv
<1> QED BY <1>1, <1>2, <1>3, PTL DEF ResolutionSpec
=============================================================================
