----------------------------- MODULE HostProofs -----------------------------
(***************************************************************************)
(* What the components of one host guarantee for every value of their      *)
(* constants: the rootfs cache, the build roots of a work directory, the   *)
(* checkouts of the verify gates, the press and the kernel's stages.  They *)
(* share no state; each part states its inductive invariant, proves it,    *)
(* and concludes.                                                          *)
(***************************************************************************)
EXTENDS KernelStages, RootCache, Sandboxes, VerifyTrees, Press, SequenceTheorems, TLAPS

(***************************************************************************)
(* The rootfs cache, for every set of keys and builders and every number   *)
(* of bootstraps.  RestoredIsOfKey is not inductive alone: that a          *)
(* published entry is of one bootstrap is what its put staged, and that a  *)
(* stored key stays findable needs every staging directory whole until a   *)
(* clean begins.                                                           *)
(***************************************************************************)
\* What a directory holds for k: files of bootstraps of k, and never of two of them.
OneBoot(d, k) ==
    /\ d.tar # NoTree => d.tar[1] = k
    /\ d.man # NoTree => d.man[1] = k
    /\ d.tar # NoTree /\ d.man # NoTree => d.tar = d.man

Whole(d) == d.tar # NoTree /\ d.man # NoTree

RootEntryInv ==
    \A k \in RootKeys :
        /\ OneBoot(rentry[k], k)
        /\ wiping = "not yet" => Whole(rentry[k]) \/ Vacant(rentry[k])

\* What b has in its output directory and in its staging directory, by its place in the node.
BuilderInv(b) ==
    /\ rpc[b] # "idle" => rkey[b] \in RootKeys
    /\ rpc[b] \in {"man", "hit"} => rout[b].tar # NoTree /\ rout[b].tar[1] = rkey[b]
    /\ rpc[b] = "hit" => rout[b].man # NoTree /\ rout[b].man[1] = rkey[b]
    /\ Storing(b) \/ rpc[b] = "built" => Whole(rout[b]) /\ OneBoot(rout[b], rkey[b])
    /\ rpc[b] \in {"fill", "move", "publish"} =>
         /\ partial[b].tar \in {rout[b].tar, NoTree}
         /\ partial[b].man \in {rout[b].man, NoTree}
         /\ wiping = "not yet" => partial[b].there /\ partial[b].tar = rout[b].tar
    /\ rpc[b] \in {"move", "publish"} /\ wiping = "not yet" => partial[b].man = rout[b].man

\* A key that is neither stored nor hurt may be missing; any other only in the window.
FindableInv ==
    /\ wiping # "not yet" => hurt = RootKeys
    /\ \A k \in stored \ hurt :
          Whole(rentry[k]) \/ \E b \in Builders : rpc[b] = "publish" /\ rkey[b] = k

RootInv == RootTypeOK /\ RootEntryInv /\ (\A b \in Builders : BuilderInv(b)) /\ FindableInv

-----------------------------------------------------------------------------
Content == Boot \cup {NoTree}

\* What the record operators return, so that the proofs below never look inside one.
LEMMA RootDirs ==
    /\ Absent \in Dir /\ ~Absent.there /\ Absent.tar = NoTree /\ Absent.man = NoTree
    /\ \A t, m \in Content : /\ Filled(t, m) \in Dir /\ Filled(t, m).there
                             /\ Filled(t, m).tar = t /\ Filled(t, m).man = m
    /\ \A d \in Dir : d.there \in BOOLEAN /\ d.tar \in Content /\ d.man \in Content
    /\ \A p \in Pair : p.tar \in Content /\ p.man \in Content
  BY DEF Absent, Filled, Dir, Pair, Content

SetFile(p, f, c) == [p EXCEPT ![f] = c]

LEMMA PairSet ==
    ASSUME NEW p \in Pair, NEW c \in Content
    PROVE  /\ SetFile(p, "tar", c) \in Pair
           /\ SetFile(p, "tar", c).tar = c /\ SetFile(p, "tar", c).man = p.man
           /\ SetFile(p, "man", c) \in Pair
           /\ SetFile(p, "man", c).man = c /\ SetFile(p, "man", c).tar = p.tar
  BY DEF SetFile, Pair, Content

LEMMA DirSet ==
    ASSUME NEW d \in Dir, NEW c \in Content
    PROVE  /\ SetFile(d, "man", c) \in Dir
           /\ SetFile(d, "man", c).there = d.there /\ SetFile(d, "man", c).tar = d.tar
           /\ SetFile(d, "man", c).man = c
  BY DEF SetFile, Dir, Content

\* A deletion only takes something away.
LEMMA WithoutShrinks ==
    ASSUME NEW d \in Dir, NEW f \in {"tar", "man"}
    PROVE  /\ Without(d, f) \in Dir
           /\ Without(d, f).tar \in {d.tar, NoTree} /\ Without(d, f).man \in {d.man, NoTree}
  BY DEF Without, Absent, Dir

LEMMA BootsBounded == ASSUME RootTypeOK PROVE boots \in Nat /\ MaxBoots \in Nat /\ boots <= MaxBoots
<1>1. boots \in 0..MaxBoots
  BY DEF RootTypeOK
<1>2. MaxBoots \in Nat
  BY RootCacheAssumption
<1> QED
  BY <1>1, <1>2

\* Every action keeps the variables within their types.
LEMMA RootTypeInductive == ASSUME RootInv, [RootNext]_rootVars PROVE RootTypeOK'
<1> USE RootCacheAssumption DEF RootInv, RootTypeOK, GoRoot
<1>1. ASSUME NEW b \in Builders, NEW k \in RootKeys, NEW refresh \in BOOLEAN, NEW stale \in BOOLEAN,
             OpenStore(b, k, refresh, stale)
      PROVE RootTypeOK'
  BY <1>1, RootDirs DEF OpenStore
<1>2. ASSUME NEW b \in Builders, GetEntry(b) PROVE RootTypeOK'
  BY <1>2 DEF GetEntry
<1>3. ASSUME NEW b \in Builders, RestoreTar(b) PROVE RootTypeOK'
  <2>1. rentry[rkey[b]] \in Dir /\ rout[b] \in Pair
    BY <1>3 DEF RestoreTar, BuilderInv
  <2>2. PICK c \in Content : rout' = [rout EXCEPT ![b] = SetFile(rout[b], "tar", c)]
    BY <1>3, <2>1, RootDirs DEF RestoreTar, RestoreFile, SetFile
  <2>3. rout' \in [Builders -> Pair]
    BY <2>1, <2>2, PairSet
  <2> QED
    BY <1>3, <2>3 DEF RestoreTar, RestoreFile, SetFile
<1>4. ASSUME NEW b \in Builders, RestoreManifest(b) PROVE RootTypeOK'
  <2>1. rentry[rkey[b]] \in Dir /\ rout[b] \in Pair
    BY <1>4 DEF RestoreManifest, BuilderInv
  <2>2. PICK c \in Content : rout' = [rout EXCEPT ![b] = SetFile(rout[b], "man", c)]
    BY <1>4, <2>1, RootDirs DEF RestoreManifest, RestoreFile, SetFile
  <2>3. rout' \in [Builders -> Pair]
    BY <2>1, <2>2, PairSet
  <2> QED
    BY <1>4, <2>3 DEF RestoreManifest, RestoreFile, SetFile
<1>5. ASSUME NEW b \in Builders, BootstrapTree(b) PROVE RootTypeOK'
  <2>1. rkey[b] \in RootKeys
    BY <1>5 DEF BootstrapTree, BuilderInv
  <2>2. boots \in Nat /\ MaxBoots \in Nat /\ boots <= MaxBoots
    BY BootsBounded
  <2>3. CASE /\ boots < MaxBoots /\ boots' = boots + 1
             /\ rout' = [rout EXCEPT ![b] = [tar |-> <<rkey[b], boots'>>, man |-> <<rkey[b], boots'>>]]
             /\ GoRoot(b, "stage")
    <3>1. boots' \in 1..MaxBoots
      BY ONLY <2>2, <2>3
    <3>2. [tar |-> <<rkey[b], boots'>>, man |-> <<rkey[b], boots'>>] \in Pair
      BY <2>1, <3>1 DEF Pair, Boot
    <3>3. rout' \in [Builders -> Pair]
      BY <2>3, <3>2
    <3>4. boots' \in 0..MaxBoots
      BY ONLY <2>2, <3>1
    <3> QED
      BY <1>5, <2>3, <3>3, <3>4 DEF BootstrapTree
  <2>4. CASE GoRoot(b, "failed") /\ UNCHANGED <<rout, boots>>
    BY <1>5, <2>4 DEF BootstrapTree
  <2> QED
    BY <1>5, <2>3, <2>4 DEF BootstrapTree
<1>6. ASSUME NEW b \in Builders, StageTar(b) PROVE RootTypeOK'
  BY <1>6, RootDirs DEF StageTar, Staging, Content
<1>7. ASSUME NEW b \in Builders, StageManifest(b) PROVE RootTypeOK'
  <2>1. rout[b].man \in Content
    BY RootDirs
  <2>2. CASE partial[b].there
    <3>1. partial' = [partial EXCEPT ![b] = SetFile(partial[b], "man", rout[b].man)]
      BY <1>7, <2>2 DEF StageManifest, Staging, SetFile
    <3> QED
      BY <1>7, <2>1, <2>2, <3>1, DirSet DEF StageManifest, Staging
  <2>3. CASE ~partial[b].there
    BY <1>7, <2>3 DEF StageManifest, Staging
  <2> QED
    BY <2>2, <2>3
<1>8. ASSUME NEW b \in Builders, MoveAside(b) PROVE RootTypeOK'
  BY <1>8, RootDirs DEF MoveAside
<1>9. ASSUME NEW b \in Builders, PublishTree(b) PROVE RootTypeOK'
  <2>1. rkey[b] \in RootKeys
    BY <1>9 DEF PublishTree, BuilderInv
  <2>2. /\ rentry' \in {rentry, [rentry EXCEPT ![rkey[b]] = partial[b]]}
        /\ partial' = [partial EXCEPT ![b] = Absent]
        /\ stored' \in {stored, stored \cup {rkey[b]}}
        /\ hurt' \in {hurt, hurt \cup {rkey[b]}}
        /\ GoRoot(b, "built") \/ GoRoot(b, "failed")
        /\ UNCHANGED <<rout, rkey, boots, wiping>>
    BY <1>9 DEF PublishTree, Staging
  <2>3. partial[b] \in Dir /\ partial' \in [Builders -> Dir]
    BY <2>2, RootDirs
  <2>4. rentry' \in [RootKeys -> Dir]
    BY <2>1, <2>2, <2>3
  <2>5. stored' \in SUBSET RootKeys /\ hurt' \in SUBSET RootKeys
    BY <2>1, <2>2
  <2> QED
    BY <2>2, <2>3, <2>4, <2>5
<1>10. ASSUME NEW b \in Builders, NextBuild(b) PROVE RootTypeOK'
  BY <1>10 DEF NextBuild
<1>11. ASSUME NEW b \in Builders, KillBuild(b) PROVE RootTypeOK'
  BY <1>11 DEF KillBuild, BuilderInv
<1>12. CASE WipeBegins \/ WipeEnds
  BY <1>12 DEF WipeBegins, WipeEnds
<1>13. ASSUME NEW f \in {"tar", "man"}, WipeStep(f) PROVE RootTypeOK'
  BY <1>13, WithoutShrinks DEF WipeStep
<1>14. CASE UNCHANGED rootVars
  BY <1>14 DEF rootVars
<1> HIDE DEF RootInv, RootTypeOK
<1> QED
  BY <1>1, <1>2, <1>3, <1>4, <1>5, <1>6, <1>7, <1>8, <1>9, <1>10, <1>11, <1>12, <1>13, <1>14
  DEF RootNext

\* Only the two renames and the clean change what the cache holds.
LEMMA RootEntryInductive == ASSUME RootInv, [RootNext]_rootVars PROVE RootEntryInv'
<1> USE DEF RootInv, RootTypeOK, RootEntryInv
<1>1. ASSUME UNCHANGED <<rentry, wiping>> PROVE RootEntryInv'
  BY <1>1 DEF OneBoot, Whole, Vacant
<1>2. ASSUME NEW b \in Builders, MoveAside(b) PROVE RootEntryInv'
  BY <1>2, RootDirs DEF MoveAside, OneBoot, Whole, Vacant
<1>3. ASSUME NEW b \in Builders, PublishTree(b) PROVE RootEntryInv'
  <2>1. CASE UNCHANGED rentry
    BY <1>1, <1>3, <2>1 DEF PublishTree
  <2>2. CASE rentry' = [rentry EXCEPT ![rkey[b]] = partial[b]]
    <3>1. rkey[b] \in RootKeys /\ BuilderInv(b) /\ rpc[b] = "publish" /\ wiping' = wiping
      BY <1>3 DEF PublishTree, BuilderInv
    <3>2. OneBoot(partial[b], rkey[b])
      BY <3>1 DEF BuilderInv, OneBoot, Storing, Whole
    <3>3. wiping = "not yet" => Whole(partial[b])
      BY <3>1 DEF BuilderInv, OneBoot, Storing, Whole
    <3> QED
      BY <2>2, <3>1, <3>2, <3>3
  <2> QED
    BY <1>3, <2>1, <2>2 DEF PublishTree, Staging
<1>4. CASE WipeBegins \/ WipeEnds
  BY <1>4 DEF WipeBegins, WipeEnds, OneBoot
<1>5. ASSUME NEW f \in {"tar", "man"}, WipeStep(f) PROVE RootEntryInv'
  <2>1. wiping' # "not yet"
    BY <1>5 DEF WipeStep
  <2>2. CASE UNCHANGED rentry
    BY <2>1, <2>2 DEF OneBoot
  <2>3. CASE \E k \in RootKeys : rentry' = [rentry EXCEPT ![k] = Without(rentry[k], f)]
    <3>1. PICK k \in RootKeys : rentry' = [rentry EXCEPT ![k] = Without(rentry[k], f)]
      BY <2>3
    <3>2. \A j \in RootKeys : rentry'[j].tar \in {rentry[j].tar, NoTree} /\ rentry'[j].man \in {rentry[j].man, NoTree}
      BY <3>1, WithoutShrinks
    <3> QED
      BY <2>1, <3>2 DEF OneBoot
  <2> QED
    BY <1>5, <2>2, <2>3 DEF WipeStep
<1>6. ASSUME NEW b \in Builders,
             \/ \E k \in RootKeys, refresh \in BOOLEAN, stale \in BOOLEAN : OpenStore(b, k, refresh, stale)
             \/ GetEntry(b) \/ RestoreTar(b) \/ RestoreManifest(b) \/ BootstrapTree(b)
             \/ StageTar(b) \/ StageManifest(b) \/ NextBuild(b) \/ KillBuild(b)
      PROVE RootEntryInv'
  <2>1. UNCHANGED <<rentry, wiping>>
    BY <1>6 DEF OpenStore, GetEntry, RestoreTar, RestoreManifest, BootstrapTree, StageTar,
                StageManifest, NextBuild, KillBuild
  <2> QED
    BY <1>1, <2>1
<1>7. CASE UNCHANGED rootVars
  BY <1>1, <1>7 DEF rootVars
<1> HIDE DEF RootInv, RootTypeOK, RootEntryInv
<1> QED
  BY <1>2, <1>3, <1>4, <1>5, <1>6, <1>7 DEF RootNext

\* A builder's own directories are touched by nobody but the clean.
LEMMA BuilderInductive ==
    ASSUME RootInv, [RootNext]_rootVars, NEW q \in Builders PROVE BuilderInv(q)'
<1> USE DEF RootInv, RootTypeOK, GoRoot
<1>0. BuilderInv(q)
  OBVIOUS
<1>1. ASSUME rpc'[q] = rpc[q], rkey'[q] = rkey[q], rout'[q] = rout[q],
             Storing(q) => partial'[q] = partial[q], wiping' = wiping
      PROVE  BuilderInv(q)'
  BY <1>0, <1>1 DEF BuilderInv, Storing, Whole, OneBoot
<1>2. ASSUME NEW b \in Builders, NEW k \in RootKeys, NEW refresh \in BOOLEAN, NEW stale \in BOOLEAN,
             OpenStore(b, k, refresh, stale)
      PROVE  BuilderInv(q)'
  <2>1. CASE q = b
    BY <1>2, <2>1 DEF OpenStore, BuilderInv, Storing
  <2>2. CASE q # b
    BY <1>1, <1>2, <2>2 DEF OpenStore
  <2> QED
    BY <2>1, <2>2
<1>3. ASSUME NEW b \in Builders,
             GetEntry(b) \/ RestoreTar(b) \/ RestoreManifest(b) \/ BootstrapTree(b) \/ StageTar(b) \/ StageManifest(b)
             \/ MoveAside(b) \/ PublishTree(b) \/ NextBuild(b) \/ KillBuild(b),
             q # b
      PROVE  BuilderInv(q)'
  <2>1. /\ rpc'[q] = rpc[q] /\ rkey'[q] = rkey[q] /\ rout'[q] = rout[q] /\ wiping' = wiping
        /\ partial'[q] = partial[q]
    BY <1>3 DEF GetEntry, RestoreTar, RestoreManifest, RestoreFile, BootstrapTree, StageTar, StageManifest,
                MoveAside, PublishTree, NextBuild, KillBuild, Staging
  <2> QED
    BY <1>1, <2>1
<1>4. CASE GetEntry(q)
  BY <1>0, <1>4 DEF GetEntry, BuilderInv, Storing
<1>5. CASE RestoreTar(q)
  <2>1. rkey[q] \in RootKeys /\ rkey' = rkey
    BY <1>0, <1>5 DEF RestoreTar, BuilderInv
  <2>2. CASE rentry[rkey[q]].tar = NoTree
    BY <1>5, <2>1, <2>2 DEF RestoreTar, RestoreFile, BuilderInv, Storing
  <2>3. CASE rentry[rkey[q]].tar # NoTree
    <3>1. rout' = [rout EXCEPT ![q] = SetFile(rout[q], "tar", rentry[rkey[q]].tar)] /\ GoRoot(q, "man")
      BY <1>5, <2>3 DEF RestoreTar, RestoreFile, SetFile
    <3>2. rout[q] \in Pair /\ rentry[rkey[q]].tar \in Content
      BY <2>1, RootDirs
    <3>3. rout'[q].tar = rentry[rkey[q]].tar
      <4>1. rout'[q] = SetFile(rout[q], "tar", rentry[rkey[q]].tar)
        BY <3>1
      <4> QED
        BY ONLY <3>2, <4>1, PairSet
    <3> QED
      BY <2>1, <2>3, <3>1, <3>3 DEF BuilderInv, Storing, RootEntryInv, OneBoot
  <2> QED
    BY <2>2, <2>3
<1>6. CASE RestoreManifest(q)
  <2>1. rkey[q] \in RootKeys /\ rkey' = rkey /\ rout[q].tar # NoTree /\ rout[q].tar[1] = rkey[q]
    BY <1>0, <1>6 DEF RestoreManifest, BuilderInv
  <2>2. CASE rentry[rkey[q]].man = NoTree
    BY <1>6, <2>1, <2>2 DEF RestoreManifest, RestoreFile, BuilderInv, Storing
  <2>3. CASE rentry[rkey[q]].man # NoTree
    <3>1. rout' = [rout EXCEPT ![q] = SetFile(rout[q], "man", rentry[rkey[q]].man)] /\ GoRoot(q, "hit")
      BY <1>6, <2>3 DEF RestoreManifest, RestoreFile, SetFile
    <3>2. rout[q] \in Pair /\ rentry[rkey[q]].man \in Content
      BY <2>1, RootDirs
    <3>3. rout'[q].man = rentry[rkey[q]].man /\ rout'[q].tar = rout[q].tar
      BY <3>1, <3>2, PairSet
    <3> QED
      BY <2>1, <2>3, <3>1, <3>3 DEF BuilderInv, Storing, RootEntryInv, OneBoot
  <2> QED
    BY <2>2, <2>3
<1>7. CASE BootstrapTree(q)
  <2>1. rkey[q] \in RootKeys /\ rkey' = rkey
    BY <1>0, <1>7 DEF BootstrapTree, BuilderInv
  <2>2. CASE GoRoot(q, "failed")
    BY <2>1, <2>2 DEF BuilderInv, Storing
  <2>3. CASE /\ boots < MaxBoots /\ boots' = boots + 1
             /\ rout' = [rout EXCEPT ![q] = [tar |-> <<rkey[q], boots'>>, man |-> <<rkey[q], boots'>>]]
             /\ GoRoot(q, "stage")
    <3>1. boots \in Nat /\ MaxBoots \in Nat /\ boots <= MaxBoots
      BY BootsBounded
    <3>2. boots' \in 1..MaxBoots
      BY ONLY <3>1, <2>3
    <3>3. PICK c : c = <<rkey[q], boots'>>
      OBVIOUS
    <3>4. c \in Boot /\ c[1] = rkey[q]
      BY ONLY <2>1, <3>2, <3>3 DEF Boot
    <3>5. c # NoTree
      BY <3>4, RootCacheAssumption
    <3>6. rout'[q].tar = c /\ rout'[q].man = c /\ rpc'[q] = "stage"
      BY <2>3, <3>3
    <3> QED
      BY <2>1, <3>4, <3>5, <3>6 DEF BuilderInv, Storing, Whole, OneBoot
  <2> QED
    BY <1>7, <2>2, <2>3 DEF BootstrapTree
<1>8. CASE StageTar(q)
  <2>1. rout[q].tar \in Content /\ NoTree \in Content
    BY RootDirs DEF Content
  <2>2. /\ partial'[q] = Filled(rout[q].tar, NoTree)
        /\ rpc[q] = "stage" /\ rpc'[q] = "fill" /\ UNCHANGED <<rkey, rout, wiping>>
    BY <1>8 DEF StageTar, Staging
  <2>3. partial'[q].there /\ partial'[q].tar = rout[q].tar /\ partial'[q].man = NoTree
    BY ONLY <2>1, <2>2, RootDirs
  <2> QED
    BY <1>0, <2>2, <2>3 DEF BuilderInv, Storing, Whole, OneBoot
<1>9. CASE StageManifest(q)
  <2>1. rpc[q] = "fill" /\ UNCHANGED <<rkey, rout, wiping>>
    BY <1>9 DEF StageManifest
  <2>2. CASE partial[q].there
    <3>1. partial' = [partial EXCEPT ![q] = SetFile(partial[q], "man", rout[q].man)] /\ rpc'[q] = "move"
      BY <1>9, <2>2 DEF StageManifest, Staging, SetFile
    <3>2. /\ partial'[q].there /\ partial'[q].tar = partial[q].tar
          /\ partial'[q].man = rout[q].man
      <4>1. partial[q] \in Dir /\ rout[q].man \in Content
        BY RootDirs
      <4> QED
        BY <2>2, <3>1, <4>1, DirSet
    <3> QED
      BY <1>0, <2>1, <3>1, <3>2 DEF BuilderInv, Storing, Whole, OneBoot
  <2>3. CASE ~partial[q].there
    BY <1>0, <1>9, <2>1, <2>3 DEF StageManifest, Staging, BuilderInv, Storing
  <2> QED
    BY <2>2, <2>3
<1>10. CASE MoveAside(q)
  BY <1>0, <1>10 DEF MoveAside, BuilderInv, Storing, Whole, OneBoot
<1>11. CASE PublishTree(q)
  <2>1. /\ rpc[q] = "publish" /\ rpc'[q] \in {"built", "failed"} /\ rkey' = rkey /\ rout' = rout
    BY <1>11 DEF PublishTree
  <2> QED
    BY <1>0, <2>1 DEF BuilderInv, Storing, Whole, OneBoot
<1>12. CASE NextBuild(q) \/ KillBuild(q)
  BY <1>12 DEF NextBuild, KillBuild, BuilderInv, Storing
<1>13. CASE WipeBegins \/ WipeEnds
  BY <1>0, <1>13 DEF WipeBegins, WipeEnds, BuilderInv, Storing, Whole, OneBoot
<1>14. ASSUME NEW f \in {"tar", "man"}, WipeStep(f) PROVE BuilderInv(q)'
  <2>1. wiping' # "not yet" /\ UNCHANGED <<rpc, rkey, rout>>
    BY <1>14 DEF WipeStep
  <2>2. CASE UNCHANGED partial
    BY <1>0, <2>1, <2>2 DEF BuilderInv, Storing, Whole, OneBoot
  <2>3. CASE \E b \in Builders : partial' = [partial EXCEPT ![b] = Without(partial[b], f)]
    <3>1. /\ partial'[q].tar \in {partial[q].tar, NoTree}
          /\ partial'[q].man \in {partial[q].man, NoTree}
      <4>1. PICK b \in Builders : partial' = [partial EXCEPT ![b] = Without(partial[b], f)]
        BY <2>3
      <4>2. partial[q] \in Dir
        OBVIOUS
      <4>3. partial'[q] \in {partial[q], Without(partial[q], f)}
        BY <4>1
      <4> QED
        BY <4>2, <4>3, WithoutShrinks
    <3> QED
      BY <1>0, <2>1, <3>1 DEF BuilderInv, Storing, Whole, OneBoot
  <2> QED
    BY <1>14, <2>2, <2>3 DEF WipeStep
<1>15. CASE UNCHANGED rootVars
  BY <1>1, <1>15 DEF rootVars
<1> HIDE DEF RootInv, RootTypeOK, GoRoot
<1> QED
  BY <1>2, <1>3, <1>4, <1>5, <1>6, <1>7, <1>8, <1>9, <1>10, <1>11, <1>12, <1>13, <1>14, <1>15
  DEF RootNext

\* A stored key goes missing for nobody but the readers of one put's window.
LEMMA FindableInductive == ASSUME RootInv, [RootNext]_rootVars PROVE FindableInv'
<1> DEFINE Missing(k) == \E b \in Builders : rpc[b] = "publish" /\ rkey[b] = k
<1>1. /\ DOMAIN rpc = Builders /\ DOMAIN rkey = Builders /\ DOMAIN rentry = RootKeys
      /\ stored \subseteq RootKeys /\ hurt \subseteq RootKeys
  BY DEF RootInv, RootTypeOK
<1>2. /\ wiping # "not yet" => hurt = RootKeys
      /\ \A k \in stored \ hurt : Whole(rentry[k]) \/ Missing(k)
  BY DEF RootInv, FindableInv
<1>3. \A b \in Builders : BuilderInv(b)
  BY DEF RootInv
<1>4. \A b \in Builders : rpc[b] # "idle" => rkey[b] \in RootKeys
  BY <1>3 DEF BuilderInv
<1>5. ASSUME wiping' # "not yet" => hurt' = RootKeys,
             \A k \in stored' \ hurt' : k \in stored \ hurt /\ rentry'[k] = rentry[k],
             \A b \in Builders : rpc[b] = "publish" /\ rkey[b] \notin hurt' =>
                 rpc'[b] = "publish" /\ rkey'[b] = rkey[b]
      PROVE  FindableInv'
  BY ONLY <1>2, <1>5 DEF FindableInv, Whole
<1>6. ASSUME NEW b \in Builders,
             GetEntry(b) \/ RestoreTar(b) \/ RestoreManifest(b) \/ BootstrapTree(b) \/ StageTar(b) \/ StageManifest(b)
      PROVE  FindableInv'
  <2>1. UNCHANGED <<rentry, stored, hurt, wiping, rkey>> /\ rpc[b] # "publish"
    BY ONLY <1>6 DEF GetEntry, RestoreTar, RestoreManifest, BootstrapTree, StageTar, StageManifest
  <2>2. PICK label : rpc' = [rpc EXCEPT ![b] = label]
    BY ONLY <1>6 DEF GetEntry, RestoreTar, RestoreManifest, RestoreFile, BootstrapTree, StageTar, StageManifest, GoRoot
  <2> QED
    BY ONLY <1>1, <1>2, <1>5, <2>1, <2>2
<1>7. ASSUME NEW b \in Builders,
             \/ \E k \in RootKeys, refresh \in BOOLEAN, stale \in BOOLEAN : OpenStore(b, k, refresh, stale)
             \/ NextBuild(b)
      PROVE  FindableInv'
  <2>1. UNCHANGED <<rentry, stored, hurt, wiping>> /\ rpc[b] # "publish"
    BY ONLY <1>7 DEF OpenStore, NextBuild
  <2>2. PICK label, k : rpc' = [rpc EXCEPT ![b] = label] /\ rkey' = [rkey EXCEPT ![b] = k]
    BY ONLY <1>7 DEF OpenStore, NextBuild, GoRoot
  <2> QED
    BY ONLY <1>1, <1>2, <1>5, <2>1, <2>2
<1>8. ASSUME NEW b \in Builders, MoveAside(b) PROVE FindableInv'
  <2>1. /\ rpc[b] = "move" /\ rpc' = [rpc EXCEPT ![b] = "publish"]
        /\ rentry' = [rentry EXCEPT ![rkey[b]] = Absent]
        /\ UNCHANGED <<stored, hurt, wiping, rkey>>
    BY ONLY <1>8 DEF MoveAside, GoRoot
  <2>2. rkey[b] \in RootKeys
    BY <1>4, <2>1
  <2>3. \A k \in stored \ hurt : Whole(rentry'[k]) \/ \E q \in Builders : rpc'[q] = "publish" /\ rkey'[q] = k
    <3> SUFFICES ASSUME NEW k \in stored \ hurt
                 PROVE  Whole(rentry'[k]) \/ \E q \in Builders : rpc'[q] = "publish" /\ rkey'[q] = k
      OBVIOUS
    <3>1. CASE k = rkey[b]
      BY ONLY <1>1, <2>1, <3>1
    <3>2. CASE k # rkey[b]
      BY ONLY <1>1, <1>2, <2>1, <3>2 DEF Whole
    <3> QED
      BY <3>1, <3>2
  <2> QED
    BY ONLY <1>2, <2>1, <2>3 DEF FindableInv, Whole
<1>9. ASSUME NEW b \in Builders, PublishTree(b) PROVE FindableInv'
  <2>1. rpc[b] = "publish" /\ UNCHANGED <<rkey, wiping>>
    BY ONLY <1>9 DEF PublishTree
  <2>2. rkey[b] \in RootKeys
    BY <1>4, <2>1
  <2>3. PICK label : rpc' = [rpc EXCEPT ![b] = label]
    BY ONLY <1>9 DEF PublishTree, GoRoot
  <2>4. CASE /\ rentry' = [rentry EXCEPT ![rkey[b]] = partial[b]]
             /\ stored' = stored \cup {rkey[b]} /\ hurt' = hurt
    <3>1. CASE rkey[b] \in hurt
      BY ONLY <1>1, <1>2, <1>5, <2>1, <2>2, <2>3, <2>4, <3>1
    <3>2. CASE rkey[b] \notin hurt
      <4>1. wiping = "not yet"
        BY ONLY <1>2, <2>2, <3>2
      <4>2. Whole(partial[b])
        BY <1>3, <2>1, <4>1 DEF BuilderInv, Storing, Whole
      <4>3. \A k \in stored' \ hurt' : Whole(rentry'[k]) \/ \E q \in Builders : rpc'[q] = "publish" /\ rkey'[q] = k
        BY ONLY <1>1, <1>2, <2>1, <2>2, <2>3, <2>4, <4>2 DEF Whole
      <4> QED
        BY ONLY <2>1, <4>1, <4>3 DEF FindableInv, Whole
    <3> QED
      BY <3>1, <3>2
  <2>5. CASE rentry[rkey[b]].tar # NoTree /\ UNCHANGED <<rentry, stored, hurt>>
    <3>1. CASE rkey[b] \in hurt
      BY ONLY <1>1, <1>2, <1>5, <2>1, <2>2, <2>3, <2>5, <3>1
    <3>2. CASE rkey[b] \notin hurt
      <4>1. wiping = "not yet"
        BY ONLY <1>2, <2>2, <3>2
      <4>2. Whole(rentry[rkey[b]])
        BY <2>2, <2>5, <4>1 DEF RootInv, RootEntryInv, Whole, Vacant
      <4>3. \A k \in stored' \ hurt' : Whole(rentry'[k]) \/ \E q \in Builders : rpc'[q] = "publish" /\ rkey'[q] = k
        BY ONLY <1>1, <1>2, <2>1, <2>2, <2>3, <2>5, <4>2 DEF Whole
      <4> QED
        BY ONLY <2>1, <4>1, <4>3 DEF FindableInv, Whole
    <3> QED
      BY <3>1, <3>2
  <2>6. CASE hurt' = hurt \cup {rkey[b]} /\ UNCHANGED <<rentry, stored>>
    BY ONLY <1>1, <1>2, <1>5, <2>1, <2>2, <2>3, <2>6
  <2> QED
    BY ONLY <1>9, <2>4, <2>5, <2>6 DEF PublishTree, Staging
<1>10. ASSUME NEW b \in Builders, KillBuild(b) PROVE FindableInv'
  <2>1. /\ rpc[b] # "idle" /\ UNCHANGED <<rentry, stored, wiping>>
        /\ hurt' = IF rpc[b] = "publish" THEN hurt \cup {rkey[b]} ELSE hurt
        /\ rpc' = [rpc EXCEPT ![b] = "idle"] /\ rkey' = [rkey EXCEPT ![b] = NoTree]
    BY ONLY <1>10 DEF KillBuild, GoRoot
  <2>2. rkey[b] \in RootKeys
    BY <1>4, <2>1
  <2> QED
    BY ONLY <1>1, <1>2, <1>5, <2>1, <2>2
<1>11. CASE WipeBegins
  <2>1. hurt' = RootKeys /\ UNCHANGED <<stored, rpc, rkey>>
    BY ONLY <1>11 DEF WipeBegins
  <2> QED
    BY ONLY <1>1, <1>4, <1>5, <2>1
<1>12. CASE WipeEnds \/ \E f \in {"tar", "man"} : WipeStep(f)
  <2>1. wiping # "not yet" /\ wiping' # "not yet" /\ UNCHANGED <<stored, rpc, rkey, hurt>>
    BY ONLY <1>12 DEF WipeEnds, WipeStep
  <2> QED
    BY ONLY <1>1, <1>2, <1>5, <2>1
<1>13. CASE UNCHANGED rootVars
  <2>1. UNCHANGED <<rentry, stored, hurt, wiping, rpc, rkey>>
    BY ONLY <1>13 DEF rootVars
  <2> QED
    BY ONLY <1>1, <1>2, <1>5, <2>1
<1> QED
  BY <1>6, <1>7, <1>8, <1>9, <1>10, <1>11, <1>12, <1>13 DEF RootNext

LEMMA RootInvHolds == RootSpec => []RootInv
<1>1. RootInit => RootInv
  <2> SUFFICES ASSUME RootInit PROVE RootInv
    OBVIOUS
  <2>1. RootTypeOK
    <3>1. Nothing \in Pair
      BY DEF Nothing, Pair
    <3>2. boots \in 0..MaxBoots
      <4>1. boots = 0 /\ MaxBoots \in Nat
        BY RootCacheAssumption DEF RootInit
      <4> QED
        BY ONLY <4>1
    <3> QED
      BY <3>1, <3>2, RootDirs DEF RootInit, RootTypeOK
  <2>2. RootEntryInv
    BY RootDirs DEF RootInit, RootEntryInv, OneBoot, Vacant
  <2>3. \A b \in Builders : BuilderInv(b)
    BY DEF RootInit, BuilderInv, Storing
  <2>4. FindableInv
    BY DEF RootInit, FindableInv
  <2> QED
    BY <2>1, <2>2, <2>3, <2>4 DEF RootInv
<1>2. RootInv /\ [RootNext]_rootVars => RootInv'
  <2> SUFFICES ASSUME RootInv, [RootNext]_rootVars PROVE RootInv'
    OBVIOUS
  <2>1. RootTypeOK' /\ RootEntryInv' /\ FindableInv'
    BY RootTypeInductive, RootEntryInductive, FindableInductive
  <2>2. \A b \in Builders : BuilderInv(b)'
    BY BuilderInductive
  <2> QED
    BY <2>1, <2>2 DEF RootInv
<1> QED
  BY <1>1, <1>2, PTL DEF RootSpec

\* What a build takes from the rootfs cache is a tar and a manifest of the key it computed, an
\* entry never mixes two puts' files, and a stored key is missing only in the window between
\* put's two renames or after a fault: for every number of builders, keys and bootstraps.
THEOREM RestoredIsOfKeyHolds == RootSpec => []RestoredIsOfKey
<1>1. RootInv => RestoredIsOfKey
  BY DEF RootInv, RootEntryInv, BuilderInv, FindableInv, RestoredIsOfKey, OneBoot, Whole
<1> QED
  BY <1>1, RootInvHolds, PTL

(***************************************************************************)
(* The build roots, for every number of builds, shells and moves of the    *)
(* archive.  That the record names the base the commands ran in needs the  *)
(* base and its manifest ordered by the archive's states at every place of *)
(* a visit, and a plan that is not older than either.                      *)
(***************************************************************************)
AtWork(p) == at[p] \notin Idle
OneAtWork == \A p, q \in Visitors : AtWork(p) /\ AtWork(q) => p = q

\* The archive only moves forward, and a manifest is never newer than the tree beside it.
ArchiveInv ==
    /\ base <= archive
    /\ pkgs \in States => pkgs <= archive
    /\ base # NoState /\ pkgs \in States => pkgs <= base

\* A plan in hand is no newer than the archive and no older than the manifest it replaces.
PlanInv(p) == sol[p] <= archive /\ (pkgs \in States => pkgs <= sol[p])

VisitInv(p) ==
    /\ at[p] = "check" => sol[p] = NoState /\ (base # NoState => pkgs # NoState)
    /\ at[p] \in {"drop tree", "drop manifest", "bootstrap", "manifest"} => sol[p] \in States /\ PlanInv(p)
    /\ at[p] \in {"drop manifest", "bootstrap"} => base = NoState
    /\ at[p] = "provision" => (base # NoState => base = pkgs) /\ (sol[p] # NoState => PlanInv(p))
    /\ at[p] = "manifest" => base = sol[p]
    /\ at[p] \in {"layer", "compile", "record root"} => base = pkgs
    /\ at[p] \in {"compile", "record root"} => over[p] = base
    /\ at[p] = "record root" => saw[p][1] = base
    /\ at[p] = "done" /\ p \in Builds => noted[p] = saw[p][1] /\ saw[p][1] = over[p]

SandboxInv ==
    /\ SandboxTypeOK
    /\ ~overlapped => OneAtWork /\ ArchiveInv /\ \A p \in Visitors : VisitInv(p)
-----------------------------------------------------------------------------
LEMMA Numbers ==
    /\ NoState \notin States /\ Cut \notin States \cup {NoState} /\ Short \notin States \cup {NoState}
    /\ \A s \in States \cup {NoState} : s \in Nat
    /\ 1 \in States
    /\ \A a \in States : a < MaxMoves + 1 => a + 1 \in States
    /\ \A s \in States : NoState <= s
    /\ 0 \in 0..MaxVisits
    /\ \A v \in 0..MaxVisits : v < MaxVisits => v + 1 \in 0..MaxVisits
  BY SandboxAssumption DEF States, NoState, Cut, Short

VisitPlaces == Idle \cup {"check", "drop tree", "drop manifest", "provision",
                     "bootstrap", "manifest", "layer", "compile", "record root"}
Dirs == {"stage", "shell-stage"}

LEMMA SandboxTypes == ASSUME SandboxTypeOK, [SandboxNext]_sandboxVars PROVE SandboxTypeOK'
  <1> USE Numbers DEF SandboxTypeOK, Records
  <1>p. ASSUME NEW p \in Visitors, NEW w \in VisitPlaces, Goes(p, w) PROVE at' \in [Visitors -> VisitPlaces]
    BY <1>p DEF Goes, VisitPlaces
  <1>d. ASSUME NEW p \in Visitors PROVE LayerDir(p) \in Dirs
    BY DEF LayerDir, Dirs
  <1> USE <1>p, <1>d DEF VisitPlaces, Dirs, Idle
  <1>1. ASSUME NEW p \in Visitors, DiscardUnrecordableBase(p) PROVE SandboxTypeOK'
    <2>1. overlapped' \in BOOLEAN
      BY ONLY <1>1, Zenon DEF DiscardUnrecordableBase, Arrives
    <2>2. visits' \in 0..MaxVisits
      BY ONLY <1>1, Numbers, visits \in 0..MaxVisits DEF DiscardUnrecordableBase, Arrives
    <2>3. base' \in States \cup {NoState} /\ emptied' \in SUBSET Visitors
      BY <1>1 DEF DiscardUnrecordableBase, Arrives
    <2>4. <<NoState, {}>> \in (States \cup {NoState}) \X SUBSET States
      OBVIOUS
    <2> QED BY <1>1, <2>1, <2>2, <2>3, <2>4 DEF DiscardUnrecordableBase, Arrives, Goes
  <1>2. ASSUME NEW p \in Visitors, Diverged(p) PROVE SandboxTypeOK'
    <2>1. \E w \in VisitPlaces : at' = [at EXCEPT ![p] = w]
      BY ONLY <1>2 DEF Diverged, Goes, VisitPlaces, Idle
    <2>2. sol' = sol \/ sol' = [sol EXCEPT ![p] = archive]
      BY ONLY <1>2 DEF Diverged
    <2>3. at' \in [Visitors -> VisitPlaces] /\ sol' \in [Visitors -> States \cup {NoState}]
      <3>1. at \in [Visitors -> VisitPlaces] /\ sol \in [Visitors -> States \cup {NoState}] /\ archive \in States
        OBVIOUS
      <3> QED BY ONLY <2>1, <2>2, <3>1
    <2>4. UNCHANGED <<archive, base, pkgs, upper, over, mine, saw, noted, overlapped, emptied, visits>>
      BY <1>2 DEF Diverged
    <2> QED BY <2>3, <2>4
  <1>3. ASSUME NEW p \in Visitors, NothingToCheck(p) PROVE SandboxTypeOK'
    BY <1>3 DEF NothingToCheck, Goes
  <1>4. ASSUME NEW p \in Visitors, DropTree(p) PROVE SandboxTypeOK'
    BY <1>4 DEF DropTree, Goes
  <1>5. ASSUME NEW p \in Visitors, DropManifest(p) PROVE SandboxTypeOK'
    BY <1>5 DEF DropManifest, Goes
  <1>6. ASSUME NEW p \in Visitors, Provision(p) PROVE SandboxTypeOK'
    <2>1. \E w \in VisitPlaces : at' = [at EXCEPT ![p] = w]
      BY ONLY <1>6 DEF Provision, Goes, VisitPlaces, Idle
    <2>2. sol' = sol \/ sol' = [sol EXCEPT ![p] = archive] \/ sol' = [sol EXCEPT ![p] = sol[p]]
      BY ONLY <1>6 DEF Provision
    <2>3. at' \in [Visitors -> VisitPlaces] /\ sol' \in [Visitors -> States \cup {NoState}]
      <3>1. at \in [Visitors -> VisitPlaces] /\ sol \in [Visitors -> States \cup {NoState}] /\ archive \in States
        OBVIOUS
      <3> QED BY ONLY <2>1, <2>2, <3>1
    <2>4. UNCHANGED <<archive, base, pkgs, upper, over, mine, saw, noted, overlapped, emptied, visits>>
      BY <1>6 DEF Provision
    <2> QED BY <2>3, <2>4
  <1>7. ASSUME NEW p \in Visitors, PublishBase(p) PROVE SandboxTypeOK'
    BY <1>7 DEF PublishBase, Goes
  <1>8. ASSUME NEW p \in Visitors, RecordBase(p) PROVE SandboxTypeOK'
    BY <1>8 DEF RecordBase, Goes
  <1>9. ASSUME NEW p \in Visitors, StageLayer(p) PROVE SandboxTypeOK'
    <2>1. \E w \in VisitPlaces : at' = [at EXCEPT ![p] = w]
      BY ONLY <1>9 DEF StageLayer, Goes, VisitPlaces, Idle
    <2>2. /\ mine' = mine \/ mine' = [mine EXCEPT ![p] = archive]
          /\ over' = over \/ over' = [over EXCEPT ![p] = base]
          /\ upper' = upper \/ upper' = [upper EXCEPT ![LayerDir(p)] = {} \cup {archive}]
      BY ONLY <1>9 DEF StageLayer, Discarded
    <2>3. /\ at' \in [Visitors -> VisitPlaces] /\ mine' \in [Visitors -> States \cup {NoState}]
          /\ over' \in [Visitors -> States \cup {NoState}]
      <3>1. /\ at \in [Visitors -> VisitPlaces] /\ mine \in [Visitors -> States \cup {NoState}] /\ archive \in States
            /\ over \in [Visitors -> States \cup {NoState}] /\ base \in States \cup {NoState}
        OBVIOUS
      <3> QED BY ONLY <2>1, <2>2, <3>1
    <2>4. upper' \in [Dirs -> SUBSET States]
      <3>1. upper \in [Dirs -> SUBSET States] /\ archive \in States /\ LayerDir(p) \in Dirs
        OBVIOUS
      <3> QED BY ONLY <2>2, <3>1
    <2>5. UNCHANGED <<archive, base, pkgs, sol, saw, noted, overlapped, emptied, visits>>
      BY <1>9 DEF StageLayer
    <2> QED BY <2>3, <2>4, <2>5
  <1>10. ASSUME NEW p \in Visitors, RunInRoot(p) PROVE SandboxTypeOK'
    BY <1>10 DEF RunInRoot, Goes
  <1>11. ASSUME NEW p \in Visitors, PublishedManifest(p) PROVE SandboxTypeOK'
    BY <1>11 DEF PublishedManifest, Goes
  <1>12. ASSUME NEW p \in Visitors, KillVisitor(p) PROVE SandboxTypeOK'
    BY <1>12 DEF KillVisitor, Goes
  <1>13. CASE CleanBuildRoots
    <2>1. overlapped' \in BOOLEAN
      BY ONLY <1>13, Zenon DEF CleanBuildRoots
    <2>2. emptied' \in SUBSET Visitors
      BY ONLY <1>13, emptied \in SUBSET Visitors DEF CleanBuildRoots
    <2>3. base' = NoState /\ pkgs' \in Records /\ upper' \in [Dirs -> SUBSET States]
      BY <1>13 DEF CleanBuildRoots
    <2> QED BY <1>13, <2>1, <2>2, <2>3 DEF CleanBuildRoots
  <1>14. CASE MoveArchive
    BY <1>14 DEF MoveArchive
  <1>15. CASE UNCHANGED sandboxVars
    BY <1>15 DEF sandboxVars
  <1> HIDE DEF SandboxTypeOK
  <1> QED BY <1>1, <1>2, <1>3, <1>4, <1>5, <1>6, <1>7, <1>8, <1>9, <1>10, <1>11, <1>12, <1>13, <1>14, <1>15 DEF SandboxNext

-----------------------------------------------------------------------------
VisitStep(p) ==
    \/ Diverged(p) \/ NothingToCheck(p) \/ DropTree(p)
    \/ DropManifest(p) \/ Provision(p) \/ PublishBase(p) \/ RecordBase(p)
    \/ StageLayer(p) \/ RunInRoot(p) \/ PublishedManifest(p) \/ KillVisitor(p)

\* A visitor's step keeps what it knows and what is known of the directories.
LEMMA VisitKeeps ==
    ASSUME SandboxInv, ~overlapped, NEW p \in Visitors, VisitStep(p), SandboxTypeOK'
    PROVE  ArchiveInv' /\ VisitInv(p)'
  <1>t. /\ archive \in States /\ base \in States \cup {NoState} /\ pkgs \in Records
        /\ at \in [Visitors -> VisitPlaces]
        /\ sol \in [Visitors -> States \cup {NoState}] /\ over \in [Visitors -> States \cup {NoState}]
        /\ saw \in [Visitors -> (States \cup {NoState}) \X SUBSET States]
        /\ noted \in [Visitors -> Records]
    BY DEF SandboxInv, SandboxTypeOK, VisitPlaces
  <1>i. ArchiveInv /\ VisitInv(p)
    BY DEF SandboxInv
  <1>n. /\ NoState \notin States /\ Cut \notin States /\ Short \notin States
        /\ \A s \in States \cup {NoState} : s \in Nat
        /\ \A s \in States : NoState <= s
        /\ \A r \in Records : r \in States \/ r = NoState \/ r = Cut \/ r = Short
    BY Numbers DEF Records
  <1>1. CASE Diverged(p)
    <2>1. /\ base # NoState /\ pkgs # NoState /\ sol[p] = NoState
          /\ UNCHANGED <<archive, base, pkgs>>
      BY ONLY <1>1, <1>i DEF Diverged, VisitInv
    <2>2. ArchiveInv'
      BY ONLY <1>i, <2>1 DEF ArchiveInv
    <2>3. CASE pkgs = Cut
      <3>1. at'[p] = "failed"
        BY ONLY <1>1, <1>t, <2>3 DEF Diverged, Goes
      <3> QED BY ONLY <2>2, <3>1 DEF VisitInv
    <2>4. CASE pkgs # Cut /\ pkgs = archive
      <3>1. at'[p] = "provision" /\ sol' = sol
        BY ONLY <1>1, <1>t, <2>4 DEF Diverged, Goes
      <3>2. base = pkgs
        <4>1. pkgs <= base /\ base <= pkgs /\ base \in Nat /\ pkgs \in Nat
          BY ONLY <1>i, <1>t, <1>n, <2>1, <2>4 DEF ArchiveInv
        <4> QED BY ONLY <4>1
      <3> QED BY ONLY <2>1, <2>2, <3>1, <3>2 DEF VisitInv, PlanInv
    <2>5. CASE pkgs # Cut /\ pkgs # archive
      <3>1. at'[p] = "drop tree" /\ sol'[p] = archive
        BY ONLY <1>1, <1>t, <2>5 DEF Diverged, Goes
      <3>2. archive \in States /\ archive \in Nat /\ (pkgs \in States => pkgs <= archive)
        BY ONLY <1>t, <1>n, <1>i DEF ArchiveInv
      <3>3. archive <= archive
        BY ONLY <3>2
      <3> QED BY ONLY <2>1, <2>2, <3>1, <3>2, <3>3 DEF VisitInv, PlanInv
    <2> QED BY <2>3, <2>4, <2>5
  <1>2. CASE NothingToCheck(p)
    BY ONLY <1>t, <1>i, <1>n, <1>2 DEF NothingToCheck, Goes, VisitInv, PlanInv, ArchiveInv
  <1>3. CASE DropTree(p)
    BY ONLY <1>t, <1>i, <1>n, <1>3 DEF DropTree, Goes, VisitInv, PlanInv, ArchiveInv
  <1>4. CASE DropManifest(p)
    BY ONLY <1>t, <1>i, <1>n, <1>4 DEF DropManifest, Goes, VisitInv, PlanInv, ArchiveInv
  <1>5. CASE Provision(p)
    <2>1. /\ base # NoState => base = pkgs
          /\ sol[p] # NoState => PlanInv(p)
          /\ UNCHANGED <<archive, base, pkgs>>
      BY ONLY <1>5, <1>i DEF Provision, VisitInv
    <2>2. ArchiveInv'
      BY ONLY <1>i, <2>1 DEF ArchiveInv
    <2>3. CASE base # NoState
      <3>1. at'[p] = "layer"
        BY ONLY <1>5, <1>t, <2>3 DEF Provision, Goes
      <3> QED BY ONLY <2>1, <2>2, <2>3, <3>1 DEF VisitInv
    <2>4. CASE base = NoState
      <3>1. at'[p] = "bootstrap" /\ sol'[p] = IF sol[p] = NoState THEN archive ELSE sol[p]
        BY ONLY <1>5, <1>t, <2>4 DEF Provision, Goes
      <3>2. archive \in States /\ archive \in Nat /\ (pkgs \in States => pkgs <= archive)
        BY ONLY <1>t, <1>n, <1>i DEF ArchiveInv
      <3>3. archive <= archive
        BY ONLY <3>2
      <3>4. sol'[p] \in States /\ sol'[p] <= archive /\ (pkgs \in States => pkgs <= sol'[p])
        BY ONLY <1>t, <2>1, <3>1, <3>2, <3>3 DEF PlanInv
      <3> QED BY ONLY <2>1, <2>2, <2>4, <3>1, <3>4 DEF VisitInv, PlanInv
    <2> QED BY <2>3, <2>4
  <1>6. CASE PublishBase(p)
    BY ONLY <1>t, <1>i, <1>n, <1>6 DEF PublishBase, Goes, VisitInv, PlanInv, ArchiveInv
  <1>7. CASE RecordBase(p)
    BY ONLY <1>t, <1>i, <1>n, <1>7 DEF RecordBase, Goes, VisitInv, PlanInv, ArchiveInv
  <1>8. CASE StageLayer(p)
    BY ONLY <1>t, <1>i, <1>n, <1>8 DEF StageLayer, Goes, VisitInv, PlanInv, ArchiveInv
  <1>9. CASE RunInRoot(p)
    BY ONLY <1>t, <1>i, <1>n, <1>9 DEF RunInRoot, Goes, VisitInv, PlanInv, ArchiveInv
  <1>10. CASE PublishedManifest(p)
    BY ONLY <1>t, <1>i, <1>n, <1>10 DEF PublishedManifest, Goes, VisitInv, PlanInv, ArchiveInv
  <1>11. CASE KillVisitor(p)
    <2>1. at'[p] = "failed" /\ UNCHANGED <<archive, base, sol>>
      BY ONLY <1>11, <1>t DEF KillVisitor, Goes
    <2>2. VisitInv(p)'
      BY ONLY <2>1 DEF VisitInv
    <2>3. CASE at[p] = "manifest"
      <3>1. /\ pkgs' \in {pkgs, Cut, Short, sol[p]} /\ base = sol[p]
            /\ sol[p] \in States /\ sol[p] <= archive /\ sol[p] \in Nat
        BY ONLY <1>11, <1>i, <1>n, <2>3 DEF KillVisitor, VisitInv, PlanInv
      <3>2. sol[p] <= sol[p]
        BY ONLY <3>1
      <3>3. pkgs' \in States => pkgs' = pkgs \/ pkgs' = sol[p]
        BY ONLY <1>n, <3>1
      <3>4. ArchiveInv'
        BY ONLY <1>i, <2>1, <3>1, <3>2, <3>3 DEF ArchiveInv
      <3> QED BY <2>2, <3>4
    <2>4. CASE at[p] # "manifest"
      BY ONLY <1>11, <1>i, <2>1, <2>2, <2>4 DEF KillVisitor, ArchiveInv
    <2> QED BY <2>3, <2>4
  <1> QED
    BY <1>1, <1>2, <1>3, <1>4, <1>5, <1>6, <1>7, <1>8, <1>9, <1>10, <1>11 DEF VisitStep

LEMMA SandboxInductive == ASSUME SandboxInv, [SandboxNext]_sandboxVars PROVE SandboxInv'
  <1>t. SandboxTypeOK'
    BY SandboxTypes DEF SandboxInv
  <1>f. at \in [Visitors -> VisitPlaces] /\ archive \in Nat
    BY Numbers DEF SandboxInv, SandboxTypeOK, VisitPlaces
  \* A visitor that is not at work keeps its last words.
  <1>o. ASSUME NEW q \in Visitors, ~overlapped, at[q] \in Idle, at'[q] = at[q],
               noted'[q] = noted[q], saw'[q] = saw[q], over'[q] = over[q]
        PROVE  VisitInv(q)'
    <2>1. VisitInv(q)
      BY <1>o DEF SandboxInv
    <2> QED BY ONLY <1>o, <2>1 DEF VisitInv, Idle
  <1>1. ASSUME NEW p \in Visitors, VisitStep(p) PROVE SandboxInv'
    <2>1. /\ overlapped' = overlapped /\ AtWork(p)
          /\ \E w : at' = [at EXCEPT ![p] = w]
      BY ONLY <1>1 DEF VisitStep, Diverged, NothingToCheck, DropTree, DropManifest, Provision, PublishBase,
         RecordBase, StageLayer, RunInRoot, PublishedManifest, KillVisitor, Goes, AtWork, Idle
    <2>2. \A q \in Visitors \ {p} : at'[q] = at[q] /\ noted'[q] = noted[q] /\ saw'[q] = saw[q] /\ over'[q] = over[q]
      <3>1. /\ \E w : at' = [at EXCEPT ![p] = w]
            /\ noted' = noted \/ \E x : noted' = [noted EXCEPT ![p] = x]
            /\ saw' = saw \/ \E x : saw' = [saw EXCEPT ![p] = x]
            /\ over' = over \/ \E x : over' = [over EXCEPT ![p] = x]
        BY ONLY <1>1 DEF VisitStep, Diverged, NothingToCheck, DropTree, DropManifest, Provision, PublishBase,
           RecordBase, StageLayer, RunInRoot, PublishedManifest, KillVisitor, Goes
      <3>2. /\ noted \in [Visitors -> Records] /\ over \in [Visitors -> States \cup {NoState}]
            /\ saw \in [Visitors -> (States \cup {NoState}) \X SUBSET States]
        BY DEF SandboxInv, SandboxTypeOK
      <3> QED BY ONLY <1>f, <3>1, <3>2
    <2> SUFFICES ASSUME ~overlapped PROVE OneAtWork' /\ ArchiveInv' /\ \A q \in Visitors : VisitInv(q)'
      BY <1>t, <2>1 DEF SandboxInv
    <2>3. \A q \in Visitors \ {p} : at[q] \in Idle
      BY <2>1 DEF SandboxInv, OneAtWork, AtWork
    <2>4. OneAtWork'
      BY <2>2, <2>3 DEF OneAtWork, AtWork
    <2>5. ArchiveInv' /\ VisitInv(p)'
      BY <1>1, <1>t, VisitKeeps
    <2>6. \A q \in Visitors \ {p} : VisitInv(q)'
      BY <1>o, <2>2, <2>3
    <2> QED BY <2>4, <2>5, <2>6
  <1>2. ASSUME NEW p \in Visitors, DiscardUnrecordableBase(p) PROVE SandboxInv'
    <2> SUFFICES ASSUME ~overlapped' PROVE OneAtWork' /\ ArchiveInv' /\ \A q \in Visitors : VisitInv(q)'
      BY <1>t DEF SandboxInv
    <2>1. ~overlapped /\ \A q \in Visitors \ {p} : at[q] \in Idle
      BY <1>2 DEF DiscardUnrecordableBase, Arrives
    <2>2. \A q \in Visitors \ {p} : at'[q] = at[q] /\ noted'[q] = noted[q] /\ saw'[q] = saw[q] /\ over'[q] = over[q]
      BY <1>2 DEF DiscardUnrecordableBase, Arrives, Goes, SandboxInv, SandboxTypeOK
    <2>3. /\ at'[p] = "check" /\ sol'[p] = NoState
          /\ base' = IF pkgs = NoState THEN NoState ELSE base
          /\ UNCHANGED <<archive, pkgs>>
      BY <1>2 DEF DiscardUnrecordableBase, Arrives, Goes, SandboxInv, SandboxTypeOK
    <2>4. OneAtWork'
      BY <2>1, <2>2 DEF OneAtWork, AtWork
    <2>5. NoState <= archive
      BY <1>f DEF NoState
    <2>6. ArchiveInv'
      BY <2>1, <2>3, <2>5 DEF SandboxInv, ArchiveInv
    <2>7. VisitInv(p)'
      BY ONLY <2>3 DEF VisitInv
    <2>8. \A q \in Visitors \ {p} : VisitInv(q)'
      BY <1>o, <2>1, <2>2
    <2> QED BY <2>4, <2>6, <2>7, <2>8
  <1>3. CASE CleanBuildRoots
    <2> SUFFICES ASSUME ~overlapped' PROVE OneAtWork' /\ ArchiveInv' /\ \A q \in Visitors : VisitInv(q)'
      BY <1>t DEF SandboxInv
    <2>1. ~overlapped /\ \A q \in Visitors : at[q] \in Idle
      BY <1>3 DEF CleanBuildRoots
    <2>2. /\ base' = NoState /\ (pkgs' = pkgs \/ pkgs' = NoState)
          /\ UNCHANGED <<archive, at, noted, saw, over>>
      BY <1>3 DEF CleanBuildRoots
    <2>3. NoState <= archive /\ NoState \notin States
      BY <1>f, Numbers DEF NoState
    <2>4. ArchiveInv'
      BY <2>1, <2>2, <2>3 DEF SandboxInv, ArchiveInv
    <2>5. OneAtWork' /\ \A q \in Visitors : VisitInv(q)'
      BY <1>o, <2>1, <2>2 DEF OneAtWork, AtWork
    <2> QED BY <2>4, <2>5
  <1>4. CASE MoveArchive
    <2> SUFFICES ASSUME ~overlapped PROVE OneAtWork' /\ ArchiveInv' /\ \A q \in Visitors : VisitInv(q)'
      BY <1>4, <1>t DEF SandboxInv, MoveArchive
    <2>1. UNCHANGED <<base, pkgs, at, sol, over, saw, noted>> /\ archive' = archive + 1
      BY <1>4 DEF MoveArchive
    <2>2. \A s \in States \cup {NoState} : s <= archive => s <= archive'
      BY <1>f, <2>1, Numbers
    <2>3. ArchiveInv'
      BY <2>1, <2>2 DEF SandboxInv, SandboxTypeOK, ArchiveInv
    <2>4. ASSUME NEW q \in Visitors PROVE VisitInv(q)'
      <3>1. VisitInv(q) /\ sol[q] \in States \cup {NoState}
        BY DEF SandboxInv, SandboxTypeOK
      <3>2. PlanInv(q) => PlanInv(q)'
        BY ONLY <2>1, <2>2, <3>1 DEF PlanInv
      <3> QED BY ONLY <2>1, <3>1, <3>2 DEF VisitInv
    <2>5. OneAtWork'
      BY <2>1 DEF SandboxInv, OneAtWork, AtWork
    <2> QED BY <2>3, <2>4, <2>5
  <1>5. CASE UNCHANGED sandboxVars
    BY <1>5, <1>t DEF sandboxVars, SandboxInv, OneAtWork, AtWork, ArchiveInv, VisitInv, PlanInv
  <1> QED BY <1>1, <1>2, <1>3, <1>4, <1>5 DEF SandboxNext, VisitStep

\* In a work directory used by one process at a time a build names in its provenance the base
\* its commands ran in, for every number of builds, shells and moves of the archive.
THEOREM RecordedBaseIsCompiledInHolds == SandboxSpec => []RecordedBaseIsCompiledIn
  <1>1. SandboxInit => SandboxInv
    <2> SUFFICES ASSUME SandboxInit PROVE SandboxInv
      OBVIOUS
    <2>1. SandboxTypeOK
      BY Numbers DEF SandboxInit, SandboxTypeOK, Records, Idle
    <2>2. \A p \in Visitors : at[p] = "idle"
      BY DEF SandboxInit
    <2>3. ArchiveInv
      BY Numbers DEF SandboxInit, ArchiveInv
    <2> QED BY <2>1, <2>2, <2>3 DEF SandboxInv, OneAtWork, AtWork, Idle, VisitInv
  <1>2. SandboxInv /\ [SandboxNext]_sandboxVars => SandboxInv'
    BY SandboxInductive
  <1>3. SandboxInv => RecordedBaseIsCompiledIn
    BY DEF SandboxInv, RecordedBaseIsCompiledIn, VisitInv, Visitors
  <1> QED BY <1>1, <1>2, <1>3, PTL DEF SandboxSpec

-----------------------------------------------------------------------------
\* No two at work have the same stage directory: a build and a shell may be, two builds of a
\* stage may not.  Nothing in the code sees to it.
OnePerDirectory ==
    \A p, q \in Visitors : AtWork(p) /\ AtWork(q) /\ LayerDir(p) = LayerDir(q) => p = q

\* What p's commands run against is p's, from the staging of the layer on.
IncrementInv(p) ==
    p \notin emptied =>
        /\ at[p] = "compile" => upper[LayerDir(p)] = {mine[p]}
        /\ at[p] \in {"record root", "done"} => saw[p][2] = {mine[p]}

LEMMA IncrementInductive ==
    ASSUME SandboxTypeOK, OnePerDirectory, \A p \in Visitors : IncrementInv(p),
           [SandboxNext]_sandboxVars
    PROVE  \A p \in Visitors : IncrementInv(p)'
  <1>t. /\ at \in [Visitors -> VisitPlaces] /\ upper \in [Dirs -> SUBSET States]
        /\ mine \in [Visitors -> States \cup {NoState}]
        /\ saw \in [Visitors -> (States \cup {NoState}) \X SUBSET States]
    BY DEF SandboxTypeOK, VisitPlaces, Dirs
  <1>d. \A p \in Visitors : LayerDir(p) \in Dirs
    BY DEF LayerDir, Dirs
  \* Another visitor's step leaves q's layer alone.
  <1>o. ASSUME NEW p \in Visitors, NEW q \in Visitors \ {p}, AtWork(p), emptied' = emptied,
               at'[q] = at[q], mine'[q] = mine[q], saw'[q] = saw[q],
               upper' = upper \/ \E x : upper' = [upper EXCEPT ![LayerDir(p)] = x]
        PROVE  IncrementInv(q)'
    <2>1. IncrementInv(q)
      OBVIOUS
    <2>2. at[q] = "compile" => LayerDir(q) # LayerDir(p)
      BY <1>o DEF OnePerDirectory, AtWork, Idle
    <2>3. at[q] = "compile" => upper'[LayerDir(q)] = upper[LayerDir(q)]
      BY ONLY <1>o, <1>t, <1>d, <2>2
    <2> QED BY ONLY <1>o, <2>1, <2>3 DEF IncrementInv
  <1>1. ASSUME NEW p \in Visitors, VisitStep(p) PROVE \A q \in Visitors : IncrementInv(q)'
    <2>1. /\ AtWork(p) /\ emptied' = emptied
          /\ \E w : at' = [at EXCEPT ![p] = w]
          /\ mine' = mine \/ \E x : mine' = [mine EXCEPT ![p] = x]
          /\ saw' = saw \/ \E x : saw' = [saw EXCEPT ![p] = x]
          /\ upper' = upper \/ \E x : upper' = [upper EXCEPT ![LayerDir(p)] = x]
      BY ONLY <1>1 DEF VisitStep, Diverged, NothingToCheck, DropTree, DropManifest, Provision, PublishBase,
         RecordBase, StageLayer, RunInRoot, PublishedManifest, KillVisitor, Goes, AtWork, Idle
    <2>2. \A q \in Visitors \ {p} : at'[q] = at[q] /\ mine'[q] = mine[q] /\ saw'[q] = saw[q]
      BY ONLY <1>t, <2>1
    <2>3. \A q \in Visitors \ {p} : IncrementInv(q)'
      BY <1>o, <2>1, <2>2
    <2>i. IncrementInv(p)
      OBVIOUS
    <2>4. CASE StageLayer(p)
      <3>1. \/ at'[p] = "failed"
            \/ at'[p] = "compile" /\ upper'[LayerDir(p)] = {archive} /\ mine'[p] = archive
        BY ONLY <1>t, <1>d, <2>4 DEF StageLayer, Discarded, Goes
      <3> QED BY ONLY <2>3, <3>1 DEF IncrementInv
    <2>5. CASE RunInRoot(p)
      <3>1. /\ at[p] = "compile" /\ saw'[p][2] = upper[LayerDir(p)] /\ mine' = mine
            /\ at'[p] # "compile"
        BY ONLY <1>t, <2>5 DEF RunInRoot, Goes
      <3>2. p \notin emptied => upper[LayerDir(p)] = {mine[p]}
        BY ONLY <2>i, <3>1 DEF IncrementInv
      <3> QED BY ONLY <2>1, <2>3, <3>1, <3>2 DEF IncrementInv
    <2>6. CASE PublishedManifest(p)
      BY ONLY <1>t, <2>6, <2>3, <2>i, <2>1 DEF PublishedManifest, Goes, IncrementInv
    <2>7. CASE ~StageLayer(p) /\ ~RunInRoot(p) /\ ~PublishedManifest(p)
      <3>1. \E w \in {"failed", "provision", "drop tree", "drop manifest", "layer", "bootstrap", "manifest"} :
               at' = [at EXCEPT ![p] = w]
        BY ONLY <1>1, <2>7 DEF VisitStep, Diverged, NothingToCheck, DropTree, DropManifest, Provision, PublishBase,
           RecordBase, KillVisitor, Goes
      <3>2. at'[p] \notin {"compile", "record root", "done"}
        BY ONLY <1>t, <3>1
      <3> QED BY ONLY <2>3, <3>2 DEF IncrementInv
    <2> QED BY <2>4, <2>5, <2>6, <2>7
  <1>2. ASSUME NEW p \in Visitors, DiscardUnrecordableBase(p) PROVE \A q \in Visitors : IncrementInv(q)'
    <2>1. at'[p] = "check"
      BY ONLY <1>t, <1>2 DEF DiscardUnrecordableBase, Arrives, Goes
    <2>2. ASSUME NEW q \in Visitors \ {p} PROVE IncrementInv(q)'
      <3>1. at'[q] = at[q] /\ mine'[q] = mine[q] /\ saw'[q] = saw[q] /\ upper' = upper /\ (q \in emptied <=> q \in emptied')
        BY ONLY <1>t, <1>2 DEF DiscardUnrecordableBase, Arrives, Goes
      <3>2. IncrementInv(q)
        OBVIOUS
      <3> QED BY ONLY <3>1, <3>2 DEF IncrementInv
    <2> QED BY ONLY <2>1, <2>2 DEF IncrementInv
  <1>3. CASE CleanBuildRoots
    BY <1>3 DEF CleanBuildRoots, IncrementInv
  <1>4. CASE MoveArchive
    BY <1>4 DEF MoveArchive, IncrementInv
  <1>5. CASE UNCHANGED sandboxVars
    BY <1>5 DEF sandboxVars, IncrementInv
  <1> QED BY <1>1, <1>2, <1>3, <1>4, <1>5 DEF SandboxNext, VisitStep

\* While no two at work have one stage directory, every run's commands see the base its record
\* names and the increment it staged itself, a shell open beside the build or not.
THEOREM CompilesInWhatItRecordsHolds ==
    SandboxSpec /\ []OnePerDirectory => []CompilesInWhatItRecords
  <1> DEFINE Own == \A p \in Visitors : IncrementInv(p)
  <1>1. SandboxInit => SandboxTypeOK /\ Own
    <2> SUFFICES ASSUME SandboxInit PROVE SandboxTypeOK /\ Own
      OBVIOUS
    <2>1. SandboxTypeOK
      BY Numbers DEF SandboxInit, SandboxTypeOK, Records, Idle
    <2>2. \A p \in Visitors : at[p] = "idle"
      BY DEF SandboxInit
    <2> QED BY <2>1, <2>2 DEF IncrementInv
  <1>2. SandboxTypeOK /\ [SandboxNext]_sandboxVars => SandboxTypeOK'
    BY SandboxTypes
  <1>3. SandboxTypeOK /\ OnePerDirectory /\ Own /\ [SandboxNext]_sandboxVars => Own'
    BY IncrementInductive
  <1>4. RecordedBaseIsCompiledIn /\ Own => CompilesInWhatItRecords
    BY DEF CompilesInWhatItRecords, CompilesOwnIncrement, IncrementInv
  <1> HIDE DEF Own
  <1> QED BY <1>1, <1>2, <1>3, <1>4, RecordedBaseIsCompiledInHolds, PTL DEF SandboxSpec

(***************************************************************************)
(* The verify gates, for every length of series, every set of patches that *)
(* do not apply and every number of gates.  A verdict is right because the *)
(* tree a gate reads is the pin plus the patches it has applied so far,    *)
(* which its resets establish whatever an earlier gate left.               *)
(***************************************************************************)
\* Gates that are not disturbed run one at a time.
Alone == \A g, h \in Gates : gpc[g] \notin GateOver /\ gpc[h] \notin GateOver => g = h

Fresh == {"ensure", "publish", "reset", "untracked", "reset base", "check"}
HasTree == {"reset", "untracked", "reset base", "check", "am", "kconfig"}

\* What a gate knows of the tree and of its own findings, by its place in the run.
TreeInv(g) ==
    /\ gpc[g] = "publish" => ~vtree.there
    /\ gpc[g] \in HasTree => vtree.there
    /\ gpc[g] = "untracked" => vtree.head = {} /\ ~vtree.am
    /\ gpc[g] \in {"reset base", "check"} => vtree.head = {} /\ ~vtree.am /\ ~vtree.junk
    /\ gpc[g] = "am" => ~vtree.am /\ ~vtree.junk /\ vtree.head = {j \in Series : j < gnext[g]} \ bad
    /\ gpc[g] = "kconfig" => vtree.head = Series
FindingsInv(g) ==
    /\ gpc[g] \in Fresh => gnext[g] = 1 /\ gfails[g] = {}
    /\ gpc[g] = "am" => /\ gfails[g] = {j \in bad : j < gnext[g]}
                        /\ gkind[g] # "survey" => gfails[g] = {}
    /\ gpc[g] \in {"kconfig", "put back"} => gkind[g] = "config"
    /\ gpc[g] = "restore" => gkind[g] # "config"
    /\ gpc[g] \in {"restore", "passed", "lost"} /\ gkind[g] # "config" => gfails[g] = Expected(g)
    /\ gpc[g] = "put back" => gsaw[g] = Series
    /\ gpc[g] # "refused"

VerifyInv ==
    /\ VerifyTypeOK
    /\ ~shared => Alone /\ \A g \in Gates : TreeInv(g) /\ FindingsInv(g)
-----------------------------------------------------------------------------
GatePlaces == GateOver \cup {"ensure", "publish", "reset", "untracked", "check",
                         "reset base", "am", "restore", "kconfig", "put back"}
Checkout == [there: BOOLEAN, head: SUBSET Series, am: BOOLEAN, junk: BOOLEAN]

LEMMA FirstBad ==
    ASSUME NEW B \in SUBSET Nat, NEW i \in B, \A j \in B : i <= j
    PROVE  (CHOOSE k \in B : \A j \in B : k <= j) = i
  <1> DEFINE k == CHOOSE k \in B : \A j \in B : k <= j
  <1>1. k \in B /\ \A j \in B : k <= j
    OBVIOUS
  <1>2. k <= i /\ i <= k
    BY <1>1
  <1>3. k \in Nat /\ i \in Nat
    BY <1>1
  <1> HIDE DEF k
  <1>4. k = i
    BY <1>2, <1>3
  <1> QED BY <1>4 DEF k

\* What lies below the next patch, at the start, one patch on and at the end.
LEMMA Prefixes ==
    ASSUME NEW B \in SUBSET Series
    PROVE  /\ {j \in B : j < 1} = {}
           /\ {j \in B : j < SeriesLen + 1} = B
           /\ \A i \in Series : {j \in B : j < i + 1} = {j \in B : j < i} \cup ({i} \cap B)
  <1>1. \A j \in B : j \in Nat /\ 1 <= j /\ j <= SeriesLen
    BY VerifyAssumption DEF Series
  <1>2. \A j \in B : ~(j < 1) /\ j < SeriesLen + 1
    BY <1>1, VerifyAssumption
  <1>3. ASSUME NEW i \in Series, NEW j \in B PROVE j < i + 1 <=> j < i \/ j = i
    <2>1. i \in Nat /\ j \in Nat
      BY <1>1, VerifyAssumption DEF Series
    <2> QED BY ONLY <2>1
  <1> QED BY <1>2, <1>3

\* The type invariant, one action at a time.
LEMMA VerifyTypes == ASSUME VerifyTypeOK, [VerifyNext]_verifyVars PROVE VerifyTypeOK'
  <1> USE VerifyAssumption DEF VerifyTypeOK, GateOver, Series
  <1>1. ASSUME NEW g \in Gates, NEW k \in {"patches", "survey", "config"}, StartGate(g, k) PROVE VerifyTypeOK'
    <2>1. gates' \in 0..MaxGates
      BY ONLY <1>1, VerifyAssumption, gates \in 0..MaxGates DEF StartGate
    <2>2. shared' \in BOOLEAN
      BY ONLY <1>1, Zenon DEF StartGate
    <2>3. 1 \in 1..(SeriesLen + 1)
      BY ONLY VerifyAssumption
    <2> QED BY <1>1, <2>1, <2>2, <2>3 DEF StartGate, GateAt
  <1>2. ASSUME NEW g \in Gates, EnsureTree(g) PROVE VerifyTypeOK'
    BY <1>2 DEF EnsureTree, GateAt, Ready
  <1>3. ASSUME NEW g \in Gates, PublishCheckout(g) PROVE VerifyTypeOK'
    BY <1>3 DEF PublishCheckout, GateAt, Ready, AtPin, NoCheckout
  <1>4. ASSUME NEW g \in Gates, ResetCheckout(g) PROVE VerifyTypeOK'
    BY <1>4 DEF ResetCheckout, GateAt, ResetTo
  <1>5. ASSUME NEW g \in Gates, CleanUntracked(g) PROVE VerifyTypeOK'
    BY <1>5 DEF CleanUntracked, GateAt, Ready
  <1>6. ASSUME NEW g \in Gates, ResetBase(g) PROVE VerifyTypeOK'
    BY <1>6 DEF ResetBase, GateAt, ResetTo
  <1>7. ASSUME NEW g \in Gates, CheckTree(g) PROVE VerifyTypeOK'
    BY <1>7 DEF CheckTree, GateAt
  <1>8. ASSUME NEW g \in Gates, ApplyPatch(g) PROVE VerifyTypeOK'
    <2>1. gnext[g] \in Series /\ gnext[g] + 1 \in 1..(SeriesLen + 1)
      BY ONLY <1>8, VerifyAssumption, gnext \in [Gates -> 1..(SeriesLen + 1)] DEF ApplyPatch, Series
    <2>2. gnext' = [gnext EXCEPT ![g] = gnext[g] + 1]
      BY <1>8 DEF ApplyPatch
    <2>3. gnext' \in [Gates -> 1..(SeriesLen + 1)]
      BY <2>1, <2>2
    <2>4. gfails' = gfails \/ gfails' = [gfails EXCEPT ![g] = @ \cup {gnext[g]}]
      BY <1>8 DEF ApplyPatch
    <2>5. gfails' \in [Gates -> SUBSET Series]
      BY ONLY <2>1, <2>4, gfails \in [Gates -> SUBSET Series]
    <2>6. vtree' = [vtree EXCEPT !.head = @ \cup {gnext[g]}] \/ vtree' = [vtree EXCEPT !.am = FALSE]
      BY <1>8 DEF ApplyPatch
    <2>7. vtree' \in [there: BOOLEAN, head: SUBSET Series, am: BOOLEAN, junk: BOOLEAN]
      BY ONLY <2>1, <2>6, vtree \in [there: BOOLEAN, head: SUBSET Series, am: BOOLEAN, junk: BOOLEAN]
    <2>8. gpc' = gpc \/ \E l \in {"restore", "failed"} : gpc' = [gpc EXCEPT ![g] = l]
      BY <1>8 DEF ApplyPatch, GateAt
    <2>9. UNCHANGED <<bad, gkind, gstart, gsaw, gates, shared>>
      BY <1>8 DEF ApplyPatch
    <2> QED BY <2>3, <2>5, <2>7, <2>8, <2>9
  <1>9. ASSUME NEW g \in Gates, SeriesApplied(g) PROVE VerifyTypeOK'
    BY <1>9 DEF SeriesApplied, GateAt
  <1>10. ASSUME NEW g \in Gates, RestoreStart(g) PROVE VerifyTypeOK'
    BY <1>10 DEF RestoreStart, GateAt
  <1>11. ASSUME NEW g \in Gates, RunKconfig(g) PROVE VerifyTypeOK'
    BY <1>11 DEF RunKconfig, GateAt
  <1>12. ASSUME NEW g \in Gates, PutBack(g) PROVE VerifyTypeOK'
    BY <1>12 DEF PutBack, GateAt
  <1>13. ASSUME NEW g \in Gates, KillGate(g) PROVE VerifyTypeOK'
    BY <1>13 DEF KillGate, GateAt
  <1>14. ASSUME CleanCheckouts PROVE VerifyTypeOK'
    BY <1>14 DEF CleanCheckouts, NoCheckout
  <1>15. ASSUME UNCHANGED verifyVars PROVE VerifyTypeOK'
    BY <1>15 DEF verifyVars
  <1> HIDE DEF VerifyTypeOK
  <1> QED
    BY <1>1, <1>2, <1>3, <1>4, <1>5, <1>6, <1>7, <1>8, <1>9, <1>10, <1>11, <1>12, <1>13, <1>14, <1>15 DEF VerifyNext

-----------------------------------------------------------------------------
\* A gate that works alone and leaves what the others hold alone disturbs none of them.
LEMMA OthersKeep ==
    ASSUME VerifyInv, ~shared, NEW g \in Gates, gpc[g] \notin GateOver, VerifyTypeOK',
           bad' = bad, NEW l, gpc' = [gpc EXCEPT ![g] = l],
           \A h \in Gates \ {g} : gkind'[h] = gkind[h] /\ gfails'[h] = gfails[h],
           TreeInv(g)', FindingsInv(g)'
    PROVE  Alone' /\ \A h \in Gates : TreeInv(h)' /\ FindingsInv(h)'
  <1>1. gpc \in [Gates -> GatePlaces]
    BY DEF VerifyInv, VerifyTypeOK, GatePlaces
  <1>2. \A h \in Gates \ {g} : gpc'[h] = gpc[h] /\ gpc[h] \in GateOver
    BY <1>1 DEF VerifyInv, Alone
  <1>3. Alone'
    BY <1>2 DEF Alone
  <1>4. ASSUME NEW h \in Gates \ {g} PROVE TreeInv(h)' /\ FindingsInv(h)'
    <2>1. gpc'[h] = gpc[h] /\ gpc[h] \in GateOver /\ FindingsInv(h)
      BY <1>2 DEF VerifyInv
    <2>2. Expected(h)' = Expected(h)
      BY DEF Expected
    <2>3. gkind'[h] = gkind[h] /\ gfails'[h] = gfails[h]
      OBVIOUS
    <2>4. TreeInv(h)'
      BY <2>1 DEF TreeInv, GateOver, HasTree
    <2>5. FindingsInv(h)'
      BY <2>1, <2>2, <2>3 DEF FindingsInv, GateOver, Fresh
    <2> QED BY <2>4, <2>5
  <1> QED BY <1>3, <1>4

\* A step of gate g keeps the invariant of g.
GateStep(g) ==
    \/ EnsureTree(g) \/ PublishCheckout(g) \/ ResetCheckout(g) \/ CleanUntracked(g)
    \/ ResetBase(g) \/ CheckTree(g) \/ ApplyPatch(g) \/ SeriesApplied(g)
    \/ RestoreStart(g) \/ RunKconfig(g) \/ PutBack(g) \/ KillGate(g)

LEMMA GateKeeps ==
    ASSUME VerifyInv, ~shared, NEW g \in Gates, GateStep(g), VerifyTypeOK'
    PROVE  TreeInv(g)' /\ FindingsInv(g)'
  <1> DEFINE Own == TreeInv(g)' /\ FindingsInv(g)'
  <1>t. /\ vtree \in Checkout /\ gpc \in [Gates -> GatePlaces]
        /\ gkind[g] \in {"patches", "survey", "config"}
        /\ gnext \in [Gates -> 1..(SeriesLen + 1)]
        /\ gstart \in [Gates -> SUBSET Series] /\ gfails \in [Gates -> SUBSET Series]
        /\ gsaw \in [Gates -> SUBSET Series] /\ bad \subseteq Series
    BY DEF VerifyInv, VerifyTypeOK, GatePlaces, Checkout
  <1>i. TreeInv(g) /\ FindingsInv(g)
    BY DEF VerifyInv
  <1>e. gkind' = gkind /\ bad' = bad => Expected(g)' = Expected(g)
    BY DEF Expected
  <1>1. CASE EnsureTree(g)
    BY ONLY <1>t, <1>i, <1>1 DEF EnsureTree, Ready, IsClean, TreeInv, FindingsInv, GateAt, HasTree, Fresh
  <1>2. CASE PublishCheckout(g)
    <2>1. AtPin.there /\ AtPin.head = {} /\ ~AtPin.am /\ ~AtPin.junk
      BY DEF AtPin, NoCheckout
    <2> QED BY ONLY <1>t, <1>i, <1>2, <2>1 DEF PublishCheckout, Ready, TreeInv, FindingsInv, GateAt, HasTree, Fresh
  <1>3. CASE ResetCheckout(g)
    BY ONLY <1>t, <1>i, <1>3 DEF ResetCheckout, ResetTo, Checkout, TreeInv, FindingsInv, GateAt, HasTree, Fresh
  <1>4. CASE CleanUntracked(g)
    BY ONLY <1>t, <1>i, <1>4 DEF CleanUntracked, Ready, IsClean, Checkout, TreeInv, FindingsInv, GateAt, HasTree, Fresh
  <1>5. CASE ResetBase(g)
    BY ONLY <1>t, <1>i, <1>5 DEF ResetBase, ResetTo, Checkout, TreeInv, FindingsInv, GateAt, HasTree, Fresh
  <1>6. CASE CheckTree(g)
    <2>1. {j \in Series : j < 1} = {} /\ {j \in bad : j < 1} = {}
      BY <1>t, Prefixes, Series \in SUBSET Series, bad \in SUBSET Series
    <2> QED BY ONLY <1>t, <1>i, <1>6, <2>1 DEF CheckTree, IsClean, TreeInv, FindingsInv, GateAt, HasTree, Fresh
  <1>7. CASE ApplyPatch(g)
    <2> DEFINE i == gnext[g]
    <2>1. i \in Series /\ i \in Nat
      BY ONLY <1>7, <1>t, VerifyAssumption DEF ApplyPatch, Series
    <2>2. gnext'[g] = i + 1
      <3>1. gnext' = [gnext EXCEPT ![g] = i + 1]
        BY ONLY <1>7 DEF ApplyPatch
      <3> QED BY ONLY <3>1, <1>t
    <2>3. /\ {j \in Series : j < i + 1} = {j \in Series : j < i} \cup {i}
          /\ {j \in bad : j < i + 1} = {j \in bad : j < i} \cup ({i} \cap bad)
          /\ i \notin {j \in Series : j < i}
      <3>1. Series \in SUBSET Series /\ bad \in SUBSET Series
        BY <1>t
      <3>2. {i} \cap Series = {i} /\ ~(i < i)
        BY ONLY <2>1
      <3> HIDE DEF i
      <3> QED BY ONLY <2>1, <3>1, <3>2, Prefixes
    <2>4. /\ vtree.there /\ ~vtree.am /\ ~vtree.junk /\ vtree.head = {j \in Series : j < i} \ bad
          /\ gfails[g] = {j \in bad : j < i} /\ (gkind[g] # "survey" => gfails[g] = {})
          /\ gpc[g] = "am"
      BY ONLY <1>7, <1>i DEF ApplyPatch, TreeInv, FindingsInv, HasTree
    <2>5. UNCHANGED <<bad, gkind>>
      BY <1>7 DEF ApplyPatch
    <2>6. CASE i \notin bad
      <3>1. vtree' = [vtree EXCEPT !.head = @ \cup {i}] /\ UNCHANGED <<gpc, gfails>>
        BY <1>7, <2>3, <2>4, <2>6 DEF ApplyPatch
      <3>2. vtree'.head = {j \in Series : j < i + 1} \ bad /\ vtree'.there /\ ~vtree'.am /\ ~vtree'.junk
        BY ONLY <3>1, <2>1, <2>3, <2>4, <2>6, <1>t DEF Checkout
      <3>3. gfails'[g] = {j \in bad : j < i + 1}
        BY <3>1, <2>3, <2>4, <2>6
      <3> QED BY ONLY <2>2, <2>4, <2>5, <3>1, <3>2, <3>3 DEF TreeInv, FindingsInv, GateAt, HasTree, Fresh
    <2>7. CASE i \in bad
      <3>1. /\ vtree' = [vtree EXCEPT !.am = FALSE]
            /\ gfails' = [gfails EXCEPT ![g] = @ \cup {i}]
            /\ \/ gkind[g] = "survey" /\ UNCHANGED gpc
               \/ gkind[g] = "patches" /\ gpc' = [gpc EXCEPT ![g] = "restore"]
               \/ gkind[g] = "config" /\ gpc' = [gpc EXCEPT ![g] = "failed"]
        BY ONLY <1>7, <2>7 DEF ApplyPatch, GateAt
      <3>2. gfails'[g] = {j \in bad : j < i + 1}
        BY ONLY <3>1, <2>3, <2>4, <2>7, <1>t
      <3>3. CASE gkind[g] = "survey"
        <4>1. vtree'.head = {j \in Series : j < i + 1} \ bad /\ vtree'.there /\ ~vtree'.am /\ ~vtree'.junk
          BY ONLY <3>1, <2>1, <2>3, <2>4, <2>7, <1>t DEF Checkout
        <4> QED BY ONLY <2>2, <2>4, <2>5, <3>1, <3>2, <3>3, <4>1 DEF TreeInv, FindingsInv, GateAt, HasTree, Fresh
      <3>4. CASE gkind[g] = "patches"
        <4>1. gfails[g] = {}
          BY <2>4, <3>4
        <4>2. \A j \in bad : i <= j
          BY ONLY <4>1, <2>1, <2>4, <1>t DEF Series
        <4>3. bad \in SUBSET Nat
          BY <1>t DEF Series
        <4>4. (CHOOSE k \in bad : \A j \in bad : k <= j) = i
          BY ONLY <4>2, <4>3, <2>7, FirstBad
        <4>5. Expected(g) = {i}
          BY ONLY <4>4, <2>7, <3>4 DEF Expected
        <4>6. gfails'[g] = {i}
          BY ONLY <4>1, <3>1, <1>t
        <4>7. gpc'[g] = "restore"
          BY <3>1, <3>4, <1>t
        <4> QED BY ONLY <4>5, <4>6, <4>7, <1>e, <2>5, <3>4 DEF TreeInv, FindingsInv, GateAt, HasTree, Fresh
      <3>5. CASE gkind[g] = "config"
        <4>1. gpc'[g] = "failed"
          BY <3>1, <3>5, <1>t
        <4> QED BY ONLY <4>1 DEF TreeInv, FindingsInv, GateAt, HasTree, Fresh
      <3> QED BY <3>3, <3>4, <3>5, <1>t
    <2> QED BY <2>6, <2>7
  <1>8. CASE SeriesApplied(g)
    <2>1. gnext[g] = SeriesLen + 1
      BY ONLY <1>8, <1>t, VerifyAssumption DEF SeriesApplied
    <2>2. {j \in Series : j < SeriesLen + 1} = Series /\ {j \in bad : j < SeriesLen + 1} = bad
      BY <1>t, Prefixes, Series \in SUBSET Series, bad \in SUBSET Series
    <2>3. gfails[g] = bad /\ vtree.head = Series \ bad /\ vtree.there /\ (gkind[g] # "survey" => gfails[g] = {})
      BY ONLY <1>8, <1>i, <2>1, <2>2 DEF SeriesApplied, TreeInv, FindingsInv, HasTree
    <2>4. gfails[g] = Expected(g)
      BY <2>3 DEF Expected
    <2>5. gkind[g] = "config" => vtree.head = Series
      BY <2>3
    <2> QED BY ONLY <1>8, <1>t, <1>e, <2>3, <2>4, <2>5 DEF SeriesApplied, TreeInv, FindingsInv, GateAt, HasTree, Fresh
  <1>9. CASE RestoreStart(g)
    BY ONLY <1>9, <1>t, <1>i, <1>e DEF RestoreStart, TreeInv, FindingsInv, GateAt, HasTree, Fresh
  <1>10. CASE RunKconfig(g)
    BY ONLY <1>10, <1>t, <1>i DEF RunKconfig, TreeInv, FindingsInv, GateAt, HasTree, Fresh
  <1>11. CASE PutBack(g)
    BY ONLY <1>11, <1>t, <1>i DEF PutBack, TreeInv, FindingsInv, GateAt, HasTree, Fresh
  <1>12. CASE KillGate(g)
    BY ONLY <1>12, <1>t DEF KillGate, TreeInv, FindingsInv, GateAt, HasTree, Fresh
  <1> QED
    BY <1>1, <1>2, <1>3, <1>4, <1>5, <1>6, <1>7, <1>8, <1>9, <1>10, <1>11, <1>12 DEF GateStep

LEMMA VerifyInductive == ASSUME VerifyInv, [VerifyNext]_verifyVars PROVE VerifyInv'
  <1>t. VerifyTypeOK'
    BY VerifyTypes DEF VerifyInv
  <1>1. ASSUME NEW g \in Gates, GateStep(g) PROVE VerifyInv'
    <2>1. /\ shared' = shared /\ bad' = bad /\ gkind' = gkind /\ gpc[g] \notin GateOver
          /\ \A h \in Gates \ {g} : gfails'[h] = gfails[h]
      BY <1>1 DEF GateStep, EnsureTree, PublishCheckout, ResetCheckout, CleanUntracked, ResetBase, CheckTree,
         ApplyPatch, SeriesApplied, RestoreStart, RunKconfig, PutBack, KillGate, GateOver, VerifyInv, VerifyTypeOK
    <2>2. \E l : gpc' = [gpc EXCEPT ![g] = l]
      <3>1. gpc' = gpc => gpc' = [gpc EXCEPT ![g] = gpc[g]]
        BY DEF VerifyInv, VerifyTypeOK
      <3> QED BY <1>1, <3>1 DEF GateStep, EnsureTree, PublishCheckout, ResetCheckout, CleanUntracked, ResetBase, CheckTree,
         ApplyPatch, SeriesApplied, RestoreStart, RunKconfig, PutBack, KillGate, GateAt
    <2>3. PICK l : gpc' = [gpc EXCEPT ![g] = l]
      BY <2>2
    <2>4. CASE ~shared
      <3>1. TreeInv(g)' /\ FindingsInv(g)'
        BY <1>1, <1>t, <2>4, GateKeeps
      <3>2. Alone' /\ \A h \in Gates : TreeInv(h)' /\ FindingsInv(h)'
        BY <1>t, <2>1, <2>3, <2>4, <3>1, OthersKeep
      <3> QED BY <1>t, <3>2 DEF VerifyInv
    <2> QED BY <1>t, <2>1, <2>4 DEF VerifyInv
  <1>2. ASSUME NEW g \in Gates, NEW k \in {"patches", "survey", "config"}, StartGate(g, k) PROVE VerifyInv'
    <2> SUFFICES ASSUME ~shared' PROVE Alone' /\ \A h \in Gates : TreeInv(h)' /\ FindingsInv(h)'
      BY <1>t DEF VerifyInv
    <2>1. ~shared /\ \A h \in Gates \ {g} : gpc[h] \in GateOver
      BY <1>2 DEF StartGate
    <2>2. /\ \A h \in Gates \ {g} : gpc'[h] = gpc[h] /\ gkind'[h] = gkind[h] /\ gfails'[h] = gfails[h]
          /\ gpc'[g] = "ensure" /\ gnext'[g] = 1 /\ gfails'[g] = {} /\ bad' = bad
      BY <1>2 DEF StartGate, GateAt, VerifyInv, VerifyTypeOK
    <2>3. Alone'
      BY <2>1, <2>2 DEF Alone
    <2>4. TreeInv(g)' /\ FindingsInv(g)'
      BY ONLY <2>2 DEF TreeInv, FindingsInv, HasTree, Fresh
    <2>5. ASSUME NEW h \in Gates \ {g} PROVE TreeInv(h)' /\ FindingsInv(h)'
      <3>1. FindingsInv(h) /\ gpc[h] \in GateOver
        BY <2>1 DEF VerifyInv
      <3>2. Expected(h)' = Expected(h)
        BY <2>2 DEF Expected
      <3> QED BY ONLY <2>2, <3>1, <3>2 DEF TreeInv, FindingsInv, HasTree, Fresh, GateOver
    <2> QED BY <2>3, <2>4, <2>5
  <1>3. CASE CleanCheckouts
    <2> SUFFICES ASSUME ~shared' PROVE Alone' /\ \A h \in Gates : TreeInv(h)' /\ FindingsInv(h)'
      BY <1>t DEF VerifyInv
    <2>1. ~shared /\ (\A h \in Gates : gpc[h] \in GateOver) /\ UNCHANGED <<bad, gpc, gkind, gnext, gfails, gsaw>>
      BY <1>3 DEF CleanCheckouts
    <2>2. Alone'
      BY <2>1 DEF Alone
    <2>3. ASSUME NEW h \in Gates PROVE TreeInv(h)' /\ FindingsInv(h)'
      <3>1. FindingsInv(h) /\ gpc[h] \in GateOver
        BY <2>1 DEF VerifyInv
      <3>2. Expected(h)' = Expected(h)
        BY <2>1 DEF Expected
      <3> QED BY ONLY <2>1, <3>1, <3>2 DEF TreeInv, FindingsInv, HasTree, Fresh, GateOver
    <2> QED BY <2>2, <2>3
  <1>4. CASE UNCHANGED verifyVars
    <2>1. \A g \in Gates : Expected(g)' = Expected(g)
      BY <1>4 DEF Expected, verifyVars
    <2> QED BY <1>4, <1>t, <2>1 DEF verifyVars, VerifyInv, Alone, TreeInv, FindingsInv
  <1> QED BY <1>1, <1>2, <1>3, <1>4 DEF VerifyNext, GateStep

\* A verdict of a verify gate is of the series and the pinned commit, for every length of
\* series, every set of patches that do not apply and every number of gates.
THEOREM VerdictIsOfThePinHolds == VerifySpec => []VerdictIsOfThePin
  <1>1. VerifyInit => VerifyInv
    <2> SUFFICES ASSUME VerifyInit PROVE VerifyInv
      OBVIOUS
    <2>1. VerifyTypeOK
      <3>1. 1 \in 1..(SeriesLen + 1) /\ 0 \in 0..MaxGates
        BY ONLY VerifyAssumption
      <3> QED BY <3>1 DEF VerifyInit, VerifyTypeOK, NoCheckout, GateOver
    <2>2. \A g \in Gates : gpc[g] = "idle"
      BY DEF VerifyInit
    <2> QED BY <2>1, <2>2 DEF VerifyInv, Alone, TreeInv, FindingsInv, HasTree, Fresh, GateOver
  <1>2. VerifyInv /\ [VerifyNext]_verifyVars => VerifyInv'
    BY VerifyInductive
  <1>3. VerifyInv => VerdictIsOfThePin
    BY DEF VerifyInv, VerdictIsOfThePin, FindingsInv
  <1> QED BY <1>1, <1>2, <1>3, PTL DEF VerifySpec

-----------------------------------------------------------------------------
(***************************************************************************)
(* The press, for every number of builds, every set of orders and every    *)
(* seed PARTUUID.  That a pressed file is described needs, role by role,   *)
(* that those before it are; that its tree is the build's with the         *)
(* additions is a fact of the merge.  First, trees and that merge.         *)
(***************************************************************************)
Names == {"etc", "boot", "fstab", "shadow", "image.toml", "extlinux.conf", "kpart", "site", "dev", "x",
          "srv", "a", "b", "var", "firstboot-debs", "deb", "install", "img"}

IsTree(tree) ==
    /\ DOMAIN tree \subseteq Seq(Names)
    /\ \A p \in DOMAIN tree : tree[p] \in Entries
    /\ \A p \in DOMAIN tree : \A q \in Ancestors(p) : q \in DOMAIN tree /\ tree[q].kind = "dir"

LEMMA AncestorsOfAncestors ==
    ASSUME NEW S, NEW d \in Seq(S), NEW q \in Ancestors(d)
    PROVE  q \in Seq(S) /\ Ancestors(q) \subseteq Ancestors(d)
<1>1. PICK n \in 1..(Len(d) - 1) : q = SubSeq(d, 1, n)
  BY DEF Ancestors
<1>2. Len(d) \in Nat /\ n \in Nat
  OBVIOUS
<1>3. q \in Seq(S) /\ Len(q) = n /\ \A i \in 1..n : q[i] = d[i]
  BY <1>1, <1>2
<1>4. ASSUME NEW r \in Ancestors(q) PROVE r \in Ancestors(d)
  <2>1. PICK m \in 1..(n - 1) : r = SubSeq(q, 1, m)
    BY <1>3, <1>4 DEF Ancestors
  <2>2. m \in 1..(Len(d) - 1)
    BY <1>2
  <2>3. SubSeq(q, 1, m) = SubSeq(d, 1, m)
    <3>1. SubSeq(q, 1, m) \in Seq(S) /\ Len(SubSeq(q, 1, m)) = m /\ \A i \in 1..m : SubSeq(q, 1, m)[i] = d[i]
      BY <1>2, <1>3
    <3>2. SubSeq(d, 1, m) \in Seq(S) /\ Len(SubSeq(d, 1, m)) = m /\ \A i \in 1..m : SubSeq(d, 1, m)[i] = d[i]
      BY <1>2, <2>2
    <3> QED BY <3>1, <3>2, SeqEqual
  <2> QED BY <2>1, <2>2, <2>3 DEF Ancestors
<1> QED BY <1>3, <1>4

LEMMA ShortPaths ==
    ASSUME NEW S, NEW a \in S, NEW b \in S
    PROVE  /\ <<a>> \in Seq(S) /\ Ancestors(<<a>>) = {} /\ Head(<<a>>) = a
           /\ <<a, b>> \in Seq(S) /\ Ancestors(<<a, b>>) = {<<a>>} /\ Head(<<a, b>>) = a
<1>1. <<a>> \in Seq(S) /\ <<a, b>> \in Seq(S) /\ Len(<<a>>) = 1 /\ Len(<<a, b>>) = 2 /\ <<a, b>>[1] = a
  OBVIOUS
<1>2. Ancestors(<<a>>) = {}
  BY DEF Ancestors
<1>3. SubSeq(<<a, b>>, 1, 1) = <<a>>
  <2>1. \A i \in 1..1 : <<a, b>>[i] \in S
    BY <1>1
  <2>2. \A i \in 1..1 : SubSeq(<<a, b>>, 1, 1)[i] = <<a, b>>[i]
    BY <2>1, SubSeqProperties
  <2>3. SubSeq(<<a, b>>, 1, 1) \in Seq(S) /\ Len(SubSeq(<<a, b>>, 1, 1)) = 1 /\ SubSeq(<<a, b>>, 1, 1)[1] = a
    BY <1>1, <2>1, <2>2, SubSeqProperties
  <2>4. <<a>> \in Seq(S) /\ Len(<<a>>) = 1 /\ <<a>>[1] = a
    OBVIOUS
  <2>5. Len(SubSeq(<<a, b>>, 1, 1)) = Len(<<a>>) /\ \A i \in 1..Len(<<a>>) : SubSeq(<<a, b>>, 1, 1)[i] = <<a>>[i]
    BY <2>3, <2>4
  <2> QED BY ONLY <2>3, <2>4, <2>5, SeqEqual
<1>4. Ancestors(<<a, b>>) = {<<a>>}
  BY <1>3 DEF Ancestors
<1> QED BY <1>1, <1>2, <1>4

LEMMA Longer ==
    ASSUME NEW S, NEW a \in S, NEW b \in S, NEW c \in S
    PROVE  <<a, b>> \o <<c>> \in Seq(S) /\ Len(<<a, b>> \o <<c>>) = 3
<1>1. <<a, b>> \in Seq(S) /\ <<c>> \in Seq(S)
  OBVIOUS
<1>2. Len(<<a, b>> \o <<c>>) = 3
  OBVIOUS
<1> DEFINE d == <<a, b>>
           t == <<c>>
<1> HIDE DEF d, t
<1>3. d \o t \in Seq(S)
  BY <1>1 DEF d, t
<1> QED BY <1>2, <1>3 DEF d, t

\* Every file an addition may name has a path, and none that is made for each image.
LEMMA DestFacts ==
    /\ Dests \subseteq Seq(Names)
    /\ EmbedImage.dest \in Seq(Names) \ RESERVED_DESTS /\ EmbedImage.content = "artifact" /\ EmbedImage.names = "none"
<1>1. {"etc", "fstab", "shadow", "boot", "kpart", "site", "dev", "x", "srv", "a", "b", "var",
       "firstboot-debs", "deb", "install", "img"} \subseteq Names
  BY DEF Names
<1>2. /\ <<>> \in Seq(Names) /\ \A a \in Names : <<a>> \in Seq(Names)
      /\ \A a, b \in Names : <<a, b>> \in Seq(Names)
      /\ \A a, b, c \in Names : <<a, b, c>> \in Seq(Names)
  <2> HIDE DEF Names
  <2> QED OBVIOUS
<1>4. /\ FSTAB \in Seq(Names) /\ SHADOW \in Seq(Names) /\ KPART \in Seq(Names)
      /\ <<"etc">> \in Seq(Names) /\ <<"etc", "site">> \in Seq(Names)
  BY <1>1, <1>2 DEF FSTAB, SHADOW, KPART
<1>5. /\ <<"dev", "x">> \in Seq(Names) /\ <<"etc", "fstab", "x">> \in Seq(Names)
      /\ <<"srv", "a">> \in Seq(Names) /\ <<"srv", "a", "b">> \in Seq(Names)
  BY <1>1, <1>2
<1>6. /\ FIRSTBOOT_DEBS_DIR \o <<"deb">> \in Seq(Names)
      /\ EMBEDDED_IMAGE_DIR \o <<"img">> \in Seq(Names) /\ Len(EMBEDDED_IMAGE_DIR \o <<"img">>) = 3
  BY <1>1, Longer DEF FIRSTBOOT_DEBS_DIR, EMBEDDED_IMAGE_DIR
<1>7. Dests \subseteq Seq(Names)
  BY <1>2, <1>4, <1>5, <1>6 DEF Dests
<1>8. \A d \in RESERVED_DESTS : Len(d) = 2
  BY DEF RESERVED_DESTS, IMAGE_TOML, SHADOW
<1>9. EmbedImage.dest = EMBEDDED_IMAGE_DIR \o <<"img">> /\ EmbedImage.content = "artifact" /\ EmbedImage.names = "none"
  BY DEF EmbedImage, AddedFile
<1>10. EMBEDDED_IMAGE_DIR \o <<"img">> \in Seq(Names) \ RESERVED_DESTS
  <2> DEFINE d == EMBEDDED_IMAGE_DIR \o <<"img">>
  <2>1. d \in Seq(Names) /\ Len(d) = 3
    BY <1>6
  <2> HIDE DEF d
  <2>2. d \notin RESERVED_DESTS
    BY <2>1, <1>8
  <2> QED BY <2>1, <2>2 DEF d
<1> QED BY <1>7, <1>9, <1>10

LEMMA TarTreeFacts ==
    ASSUME method \in {"rkbin", "depthcharge"}
    PROVE  /\ IsTree(TarTree)
           /\ {IMAGE_TOML, SHADOW, FSTAB, BootFile} \subseteq DOMAIN TarTree
           /\ \A p \in {IMAGE_TOML, SHADOW, FSTAB, BootFile} : TarTree[p].kind = "file"
           /\ \A p \in DOMAIN TarTree : /\ TarTree[p].by = "build" /\ TarTree[p].names \in {"none", "built"}
                                        /\ Head(p) \in {"etc", "boot"}
           /\ TarTree[SHADOW].names = "none"
<1> DEFINE files == {FSTAB, SHADOW, IMAGE_TOML, BootFile}
           dirs == {<<"etc">>, <<"boot">>}
<1>1. /\ DOMAIN TarTree = dirs \cup files
      /\ \A p \in dirs : TarTree[p] = Entry("dir", "build", "none")
      /\ \A p \in files : TarTree[p] = Entry("file", "build", IF p \in {FSTAB, BootFile} THEN "built" ELSE "none")
  <2>1. \A p \in dirs : Len(p) = 1
    OBVIOUS
  <2>2. \A p \in files : Len(p) = 2
    BY DEF FSTAB, SHADOW, IMAGE_TOML, BootFile, EXTLINUX_CONF, KPART
  <2>3. DOMAIN TarTree = dirs \cup files
    BY DEF TarTree
  <2>4. \A p \in dirs \cup files :
            TarTree[p] = IF Len(p) = 1 THEN Entry("dir", "build", "none")
                         ELSE Entry("file", "build", IF p \in {FSTAB, BootFile} THEN "built" ELSE "none")
    <3> HIDE DEF files, dirs
    <3> QED BY DEF TarTree, files, dirs
  <2> HIDE DEF files, dirs
  <2> QED BY <2>1, <2>2, <2>3, <2>4
<1>2. /\ \A p \in dirs : p \in Seq(Names) /\ Ancestors(p) = {} /\ Head(p) \in {"etc", "boot"}
      /\ \A p \in files : p \in Seq(Names) /\ Ancestors(p) \subseteq dirs /\ Head(p) \in {"etc", "boot"}
  <2>1. {"etc", "boot", "fstab", "shadow", "image.toml", "extlinux.conf", "kpart"} \subseteq Names
    BY DEF Names
  <2>2. \A p \in dirs : p \in Seq(Names) /\ Ancestors(p) = {} /\ Head(p) \in {"etc", "boot"}
    BY <2>1, ShortPaths
  <2>3. ASSUME NEW a \in {"etc", "boot"}, NEW b \in Names
        PROVE  <<a, b>> \in Seq(Names) /\ Ancestors(<<a, b>>) \subseteq dirs /\ Head(<<a, b>>) \in {"etc", "boot"}
    <3>1. a \in Names /\ <<a>> \in dirs
      BY <2>1
    <3>2. <<a, b>> \in Seq(Names) /\ Ancestors(<<a, b>>) = {<<a>>} /\ Head(<<a, b>>) = a
      BY <3>1, ShortPaths
    <3> QED BY <3>1, <3>2
  <2>4. \A p \in {FSTAB, SHADOW, IMAGE_TOML, EXTLINUX_CONF, KPART} : \E a \in {"etc", "boot"}, b \in Names : p = <<a, b>>
    BY <2>1 DEF FSTAB, SHADOW, IMAGE_TOML, EXTLINUX_CONF, KPART
  <2>5. files \subseteq {FSTAB, SHADOW, IMAGE_TOML, EXTLINUX_CONF, KPART}
    BY DEF BootFile
  <2> HIDE DEF files, dirs
  <2>6. ASSUME NEW p \in files PROVE p \in Seq(Names) /\ Ancestors(p) \subseteq dirs /\ Head(p) \in {"etc", "boot"}
    <3>1. \E a \in {"etc", "boot"}, b \in Names : p = <<a, b>>
      BY <2>4, <2>5
    <3> QED BY <2>3, <3>1
  <2> QED BY <2>2, <2>6
<1>3. SHADOW \notin {FSTAB, BootFile}
  BY DEF FSTAB, SHADOW, BootFile, EXTLINUX_CONF, KPART
<1>4. /\ Entry("dir", "build", "none") \in Entries /\ Entry("dir", "build", "none").kind = "dir"
      /\ Entry("dir", "build", "none").by = "build" /\ Entry("dir", "build", "none").names = "none"
      /\ \A x \in {"none", "built"} : LET e == Entry("file", "build", x) IN
            e \in Entries /\ e.kind = "file" /\ e.by = "build" /\ e.names = x
  BY DEF Entry, Entries, Identities
<1> HIDE DEF files, dirs
<1>5. IsTree(TarTree)
  BY <1>1, <1>2, <1>4 DEF IsTree
<1>6. \A p \in DOMAIN TarTree : TarTree[p].by = "build" /\ TarTree[p].names \in {"none", "built"} /\ Head(p) \in {"etc", "boot"}
  BY <1>1, <1>2, <1>4
<1>7. \A p \in files : p \in DOMAIN TarTree /\ TarTree[p].kind = "file"
  BY <1>1, <1>4
<1>8. TarTree[SHADOW].names = "none"
  BY <1>1, <1>3, <1>4 DEF files
<1> QED BY <1>5, <1>6, <1>7, <1>8 DEF files

\* What may be merged: paths that are not made for each image, and contents that name
\* nothing or the build.
Addable(adds) ==
    \A f \in adds : f.dest \in Seq(Names) /\ f.dest \notin RESERVED_DESTS /\ f.names \in {"none", "built"}

DestsOf(adds) == {f.dest : f \in adds}
MissingParents(tree, adds) == UNION {Ancestors(d) : d \in DestsOf(adds) \ DOMAIN tree}

LEMMA PlacedFacts ==
    ASSUME NEW f, f.names \in {"none", "built"}, NEW identity \in Identities
    PROVE  /\ Placed(f, identity) \in Entries /\ Placed(f, identity).kind # "dir"
           /\ Placed(f, identity).by = "addition" /\ Placed(f, identity).names \in {"none", "built", identity}
<1>1. \A k \in {"file", "symlink"}, n \in {"none", "built", identity} :
         LET e == Entry(k, "addition", n) IN
         e \in Entries /\ e.kind # "dir" /\ e.by = "addition" /\ e.names \in {"none", "built", identity}
  BY DEF Entry, Entries, Identities
<1> QED BY <1>1 DEF Placed

\* `TreeAdditions::apply`: a merge that is not refused gives a tree with every addition in
\* its place and the rest as it was.
LEMMA MergeFacts ==
    ASSUME NEW tree, IsTree(tree), NEW adds, Addable(adds), NEW identity \in Identities,
           ~MergeRefused(tree, adds), IMAGE_TOML \in DOMAIN tree, tree[IMAGE_TOML].kind = "file"
    PROVE  LET m == Merge(tree, adds, identity)
               dests == DestsOf(adds) IN
           /\ \A p \in DOMAIN m : p \in Seq(Names) /\ m[p] \in Entries
           /\ \A d \in dests : d \in DOMAIN m /\ m[d].kind # "dir" /\ m[d].by = "addition"
           /\ \A p \in DOMAIN tree \ dests :
                 p \in DOMAIN m /\ m[p].kind = tree[p].kind /\ m[p].by \in {tree[p].by, "press"}
           /\ ~NamedTwice(adds) =>
                 \A p \in DOMAIN m : \A q \in Ancestors(p) : q \in DOMAIN m /\ m[q].kind = "dir"
           /\ (\A p \in DOMAIN tree : tree[p].names \in {"none", "built"}) =>
                 \A p \in DOMAIN m : m[p].names \in {"none", "built", identity}
<1> DEFINE m == Merge(tree, adds, identity)
           dests == DestsOf(adds)
           parents == MissingParents(tree, adds)
           marker == Entry("file", "press", "none")
           made == Entry("dir", "addition", "none")
<1>1. /\ DOMAIN m = DOMAIN tree \cup parents \cup dests
      /\ \A p \in dests : \E f \in adds : f.dest = p /\ m[p] = Placed(f, identity)
      /\ \A p \in DOMAIN m \ dests :
            m[p] = IF p = IMAGE_TOML THEN marker ELSE IF p \in DOMAIN tree THEN tree[p] ELSE made
  <2> DEFINE added(p) == CHOOSE f \in adds : f.dest = p
  <2>1. DOMAIN m = DOMAIN tree \cup parents \cup dests
    BY DEF Merge, DestsOf, MissingParents
  <2>2. \A p \in DOMAIN m : m[p] = IF p \in dests THEN Placed(added(p), identity)
                                 ELSE IF p = IMAGE_TOML THEN marker
                                 ELSE IF p \in DOMAIN tree THEN tree[p] ELSE made
    BY <2>1 DEF Merge, DestsOf, MissingParents
  <2>3. \A p \in dests : added(p) \in adds /\ added(p).dest = p
    BY DEF DestsOf
  <2> HIDE DEF m, dests, parents, marker, made, added
  <2> QED BY <2>1, <2>2, <2>3
<1>2. /\ marker \in Entries /\ marker.kind = "file" /\ marker.by = "press" /\ marker.names = "none"
      /\ made \in Entries /\ made.kind = "dir" /\ made.names = "none"
  BY DEF Entry, Entries
<1>3. /\ \A f \in adds : f.dest \in DOMAIN tree => tree[f.dest].kind # "dir"
      /\ \A f \in adds : f.dest \notin DOMAIN tree =>
            \A p \in Ancestors(f.dest) \cap DOMAIN tree : tree[p].kind = "dir"
  BY DEF MergeRefused
<1>4. ~NamedTwice(adds) => \A f, g \in adds : f.dest \notin Ancestors(g.dest)
  BY DEF NamedTwice
<1>5. \A d \in dests : \E f \in adds : f.dest = d
  BY DEF DestsOf
<1>6. \A q \in parents : \E d \in dests : d \notin DOMAIN tree /\ q \in Ancestors(d)
  BY DEF MissingParents
<1>7. \A d \in dests : d \notin DOMAIN tree => Ancestors(d) \subseteq parents
  BY DEF MissingParents
<1>8. \A d \in dests : d \in Seq(Names) /\ d \notin RESERVED_DESTS
  BY <1>5 DEF Addable
<1> HIDE DEF m, dests, parents, marker, made
<1>9. \A q \in parents : q \in Seq(Names) /\ Ancestors(q) \subseteq parents
  BY <1>6, <1>7, <1>8, AncestorsOfAncestors
<1>10. \A p \in dests : /\ m[p] \in Entries /\ m[p].kind # "dir" /\ m[p].by = "addition"
                        /\ m[p].names \in {"none", "built", identity}
  <2> TAKE p \in dests
  <2>1. PICK f \in adds : f.dest = p /\ m[p] = Placed(f, identity)
    BY <1>1
  <2>2. f.names \in {"none", "built"}
    BY DEF Addable
  <2> QED BY <2>1, <2>2, PlacedFacts
<1>11. \A p \in DOMAIN m : p \in Seq(Names) /\ m[p] \in Entries
  BY <1>1, <1>2, <1>8, <1>9, <1>10 DEF IsTree
<1>12. \A p \in DOMAIN tree \ dests :
          p \in DOMAIN m /\ m[p].kind = tree[p].kind /\ m[p].by \in {tree[p].by, "press"}
  BY <1>1, <1>2
<1>13. ASSUME ~NamedTwice(adds), NEW p \in DOMAIN m, NEW q \in Ancestors(p)
       PROVE  q \in DOMAIN m /\ m[q].kind = "dir"
  <2>1. CASE p \in DOMAIN tree
    <3>1. q \in DOMAIN tree /\ tree[q].kind = "dir"
      BY <1>13, <2>1 DEF IsTree
    <3>2. q \notin dests
      BY <1>3, <1>5, <3>1
    <3> QED BY <1>12, <3>1, <3>2
  <2>2. CASE p \notin DOMAIN tree
    <3>1. PICK d \in dests : d \notin DOMAIN tree /\ q \in Ancestors(d)
      BY <1>1, <1>6, <1>7, <1>9, <1>13, <2>2
    <3>2. q \in parents /\ q \notin dests
      BY <1>4, <1>5, <1>7, <1>13, <3>1
    <3>3. q \in DOMAIN tree => tree[q].kind = "dir"
      BY <1>3, <1>5, <3>1
    <3>4. q # IMAGE_TOML
      BY <3>3
    <3> QED BY <1>1, <1>2, <3>2, <3>3, <3>4
  <2> QED BY <2>1, <2>2
<1>14. ASSUME \A p \in DOMAIN tree : tree[p].names \in {"none", "built"}, NEW p \in DOMAIN m
       PROVE  m[p].names \in {"none", "built", identity}
  BY <1>1, <1>2, <1>10, <1>14
<1>15. \A d \in dests : d \in DOMAIN m
  BY <1>1
<1> QED BY <1>10, <1>11, <1>12, <1>13, <1>14, <1>15 DEF m, dests

\* `TreeRekey::apply` writes files that were files, and under no other name.
LEMMA RewrittenFacts ==
    ASSUME method \in {"rkbin", "depthcharge"}
    PROVE  /\ IsTree(Rewritten) /\ DOMAIN Rewritten = DOMAIN TarTree
           /\ \A p \in DOMAIN TarTree : Rewritten[p].kind = TarTree[p].kind /\ Rewritten[p].by \in {"build", "press"}
           /\ ~IsFresh(order) => Rewritten = TarTree
<1> DEFINE signed == Entry("file", "press", "fresh")
           rekeyed(p) == p \in {FSTAB, EXTLINUX_CONF} \/ (p = KPART /\ Slot = "fresh")
<1>1. signed \in Entries /\ signed.kind = "file" /\ signed.by = "press"
  BY DEF Entry, Entries, Identities
<1>2. /\ DOMAIN Rewritten = DOMAIN TarTree
      /\ \A p \in DOMAIN TarTree : Rewritten[p] = TarTree[p] \/ (rekeyed(p) /\ Rewritten[p] = signed)
  BY DEF Rewritten, Rekey
<1>3. \A p \in DOMAIN TarTree : rekeyed(p) => TarTree[p].kind = "file"
  <2>1. \A p \in DOMAIN TarTree : Len(p) # 1 => TarTree[p] = Entry("file", "build", IF p \in {FSTAB, BootFile} THEN "built" ELSE "none")
    BY DEF TarTree
  <2>2. \A p \in {FSTAB, EXTLINUX_CONF, KPART} : Len(p) = 2
    BY DEF FSTAB, EXTLINUX_CONF, KPART
  <2>3. \A n : Entry("file", "build", n).kind = "file"
    BY DEF Entry
  <2> QED BY <2>1, <2>2, <2>3
<1> HIDE DEF signed, rekeyed
<1>4. \A p \in DOMAIN TarTree : /\ Rewritten[p].kind = TarTree[p].kind /\ Rewritten[p].by \in {"build", "press"}
                                 /\ Rewritten[p] \in Entries
  BY <1>1, <1>2, <1>3, TarTreeFacts DEF IsTree
<1>5. IsTree(Rewritten)
  <2>1. /\ DOMAIN TarTree \subseteq Seq(Names)
        /\ \A p \in DOMAIN TarTree : \A q \in Ancestors(p) : q \in DOMAIN TarTree /\ TarTree[q].kind = "dir"
    BY TarTreeFacts DEF IsTree
  <2>2. \A p \in DOMAIN Rewritten : \A q \in Ancestors(p) : q \in DOMAIN Rewritten /\ Rewritten[q].kind = "dir"
    BY <1>2, <1>4, <2>1
  <2>3. DOMAIN Rewritten \subseteq Seq(Names) /\ \A p \in DOMAIN Rewritten : Rewritten[p] \in Entries
    BY <1>2, <1>4, <2>1
  <2> QED BY <2>2, <2>3 DEF IsTree
<1>6. ~IsFresh(order) => Rewritten = TarTree
  BY DEF Rewritten
<1> QED BY <1>2, <1>4, <1>5, <1>6

\* What RootsOnItself and TreeIsMerged say of a finished file.
Rooted(m, o) ==
    /\ m.slot \in {"none", m.table}
    /\ \A p \in DOMAIN m.tree :
          Head(p) \in {"etc", "boot"} /\ m.tree[p].kind = "file" => m.tree[p].names \in {"none", m.table}
    /\ o.embed => m.table = "fresh"

Merged(m, o, tar) ==
    ~NamedTwice(AdditionsOf(o)) =>
        /\ \A p \in DOMAIN m.tree : \A q \in Ancestors(p) : q \in DOMAIN m.tree /\ m.tree[q].kind = "dir"
        /\ \A d \in DestsOf(AdditionsOf(o)) :
              d \in DOMAIN m.tree /\ m.tree[d].kind # "dir" /\ m.tree[d].by = "addition"
        /\ \A p \in DOMAIN tar \ DestsOf(AdditionsOf(o)) :
              p \in DOMAIN m.tree /\ m.tree[p].kind = tar[p].kind /\ m.tree[p].by # "addition"
        /\ m.tree[SHADOW].by = "press"

IsMedium(m) ==
    /\ m.table \in Identities /\ m.slot \in Identities \cup {"none"}
    /\ \A p \in DOMAIN m.tree : m.tree[p] \in Entries

\* The password of the image, written into a tree that has an account.
LEMMA SplicedFacts ==
    ASSUME NEW tree, SHADOW \in DOMAIN tree
    PROVE  /\ DOMAIN Spliced(tree) = DOMAIN tree
           /\ \A p \in DOMAIN tree : p # SHADOW => Spliced(tree)[p] = tree[p]
           /\ Spliced(tree)[SHADOW] \in Entries /\ Spliced(tree)[SHADOW].kind = "file"
           /\ Spliced(tree)[SHADOW].by = "press" /\ Spliced(tree)[SHADOW].names = "none"
<1>1. LET e == Entry("file", "press", "none") IN e \in Entries /\ e.kind = "file" /\ e.by = "press" /\ e.names = "none"
  BY DEF Entry, Entries
<1> QED BY <1>1 DEF Spliced

LEMMA StreamedMedium ==
    ASSUME method \in {"rkbin", "depthcharge"}, NEW o, o.adds = {}, ~o.embed
    PROVE  IsMedium(AsBuilt) /\ Rooted(AsBuilt, o) /\ Merged(AsBuilt, o, TarTree)
<1> DEFINE t == Spliced(TarTree)
<1>1. AsBuilt.table = "built" /\ AsBuilt.slot \in {"none", "built"} /\ AsBuilt.tree = t
  BY DEF AsBuilt
<1>2. SHADOW \in DOMAIN TarTree /\ TarTree[SHADOW].kind = "file"
  BY TarTreeFacts
<1>3. /\ DOMAIN t = DOMAIN TarTree
      /\ \A p \in DOMAIN TarTree : p # SHADOW => t[p] = TarTree[p]
      /\ t[SHADOW] \in Entries /\ t[SHADOW].kind = "file" /\ t[SHADOW].by = "press" /\ t[SHADOW].names = "none"
  BY <1>2, SplicedFacts
<1> HIDE DEF t
<1>4. \A p \in DOMAIN TarTree : /\ TarTree[p] \in Entries /\ TarTree[p].by = "build" /\ TarTree[p].names \in {"none", "built"}
                                 /\ \A q \in Ancestors(p) : q \in DOMAIN TarTree /\ TarTree[q].kind = "dir"
  BY TarTreeFacts DEF IsTree
<1>5. \A p \in DOMAIN t : /\ t[p] \in Entries /\ t[p].by # "addition" /\ t[p].names \in {"none", "built"}
                           /\ t[p].kind = TarTree[p].kind
  BY <1>2, <1>3, <1>4
<1>6. AdditionsOf(o) = {}
  BY DEF AdditionsOf
<1>7. DestsOf(AdditionsOf(o)) = {}
  BY <1>6 DEF DestsOf
<1>8. IsMedium(AsBuilt)
  BY <1>1, <1>5 DEF IsMedium, Identities
<1>9. Rooted(AsBuilt, o)
  BY <1>1, <1>5 DEF Rooted
<1>10. Merged(AsBuilt, o, TarTree)
  BY <1>1, <1>3, <1>4, <1>5, <1>7 DEF Merged
<1> QED BY <1>8, <1>9, <1>10

LEMMA AdditionsAreAddable ==
    ASSUME NEW o \in Orders, \A f \in o.adds : Collects(f)
    PROVE  Addable(AdditionsOf(o))
<1>1. o.adds \subseteq Additions
  BY DEF Orders
<1>2. \A f \in Additions : f.dest \in Dests /\ f.names \in {"none", "built"}
  BY DEF Additions, AddedFile
<1>3. \A f \in o.adds : f.dest \notin RESERVED_DESTS
  BY DEF Collects, NormalizeDest
<1>4. \A f \in o.adds : f.dest \in Seq(Names) /\ f.names \in {"none", "built"}
  BY <1>1, <1>2, DestFacts
<1>5. EmbedImage.dest \in Seq(Names) /\ EmbedImage.dest \notin RESERVED_DESTS /\ EmbedImage.names = "none"
  BY DestFacts
<1>6. \A f \in AdditionsOf(o) : f \in o.adds \/ f = EmbedImage
  BY DEF AdditionsOf
<1> QED BY <1>3, <1>4, <1>5, <1>6 DEF Addable

PressedMedium == [table |-> PressedIdentity, slot |-> Slot, tree |-> FormattedTree]

LEMMA ReassembledMedium ==
    ASSUME method \in {"rkbin", "depthcharge"}, order \in Orders, \A f \in order.adds : Collects(f), ~TreeRefused
    PROVE  IsMedium(PressedMedium) /\ Rooted(PressedMedium, order) /\ Merged(PressedMedium, order, TarTree)
<1> DEFINE adds == AdditionsOf(order)
           id == PressedIdentity
           dests == DestsOf(adds)
           m == PressedTree
           t == Spliced(m)
           keeps == ~NamedTwice(adds)
<1>1. PressedMedium.table = id /\ PressedMedium.slot = Slot /\ PressedMedium.tree = t
  BY DEF PressedMedium, FormattedTree
<1>2. id \in Identities /\ (id = IF IsFresh(order) THEN "fresh" ELSE "built")
  BY DEF PressedIdentity, Identities
<1>3. Slot \in {"none", id} /\ ~MergeRefused(Rewritten, adds) /\ ~(IsFresh(order) /\ StillBuilt(m))
  BY DEF TreeRefused, VerifyKpart
<1>4. Addable(adds)
  BY AdditionsAreAddable
<1>5. /\ IsTree(Rewritten) /\ DOMAIN Rewritten = DOMAIN TarTree
      /\ \A p \in DOMAIN TarTree : Rewritten[p].kind = TarTree[p].kind /\ Rewritten[p].by \in {"build", "press"}
      /\ (~IsFresh(order) => Rewritten = TarTree)
  BY RewrittenFacts
<1>6. /\ IMAGE_TOML \in DOMAIN TarTree /\ SHADOW \in DOMAIN TarTree
      /\ TarTree[IMAGE_TOML].kind = "file" /\ TarTree[SHADOW].kind = "file"
      /\ \A p \in DOMAIN TarTree : TarTree[p].names \in {"none", "built"}
  BY TarTreeFacts
<1>7. IMAGE_TOML \in DOMAIN Rewritten /\ Rewritten[IMAGE_TOML].kind = "file"
  BY <1>5, <1>6
<1>8. m = Merge(Rewritten, adds, id)
  BY DEF PressedTree
<1>9. /\ \A p \in DOMAIN m : p \in Seq(Names) /\ m[p] \in Entries
      /\ \A d \in dests : d \in DOMAIN m /\ m[d].kind # "dir" /\ m[d].by = "addition"
      /\ \A p \in DOMAIN Rewritten \ dests :
            p \in DOMAIN m /\ m[p].kind = Rewritten[p].kind /\ m[p].by \in {Rewritten[p].by, "press"}
      /\ keeps => \A p \in DOMAIN m : \A q \in Ancestors(p) : q \in DOMAIN m /\ m[q].kind = "dir"
      /\ (\A p \in DOMAIN Rewritten : Rewritten[p].names \in {"none", "built"}) =>
            \A p \in DOMAIN m : m[p].names \in {"none", "built", id}
  <2> HIDE DEF m
  <2> QED BY <1>2, <1>3, <1>4, <1>5, <1>7, <1>8, MergeFacts
<1>10. SHADOW \notin dests
  BY <1>4 DEF Addable, DestsOf, RESERVED_DESTS
<1>11. SHADOW \in DOMAIN m /\ m[SHADOW].kind = "file"
  BY <1>5, <1>6, <1>9, <1>10
<1>12. /\ DOMAIN t = DOMAIN m
       /\ \A p \in DOMAIN m : p # SHADOW => t[p] = m[p]
       /\ t[SHADOW] \in Entries /\ t[SHADOW].kind = "file" /\ t[SHADOW].by = "press" /\ t[SHADOW].names = "none"
  BY <1>11, SplicedFacts
<1>13. \A p \in DOMAIN m : m[p].names \in {"none", "built", "fresh"}
  BY <1>9 DEF Entries, Identities
<1>14. \A p \in DOMAIN m : Head(p) \in {"etc", "boot"} /\ m[p].kind = "file" => m[p].names \in {"none", id}
  <2>1. CASE IsFresh(order)
    BY <1>2, <1>3, <1>13, <2>1 DEF StillBuilt
  <2>2. CASE ~IsFresh(order)
    BY <1>2, <1>5, <1>6, <1>9, <2>2
  <2> QED BY <2>1, <2>2
<1> HIDE DEF m, t, dests, adds, id, keeps
<1>15. IsMedium(PressedMedium)
  BY <1>1, <1>2, <1>3, <1>9, <1>12 DEF IsMedium
<1>16. Rooted(PressedMedium, order)
  <2>1. order.embed => id = "fresh"
    BY <1>2 DEF IsFresh
  <2>2. \A p \in DOMAIN t : Head(p) \in {"etc", "boot"} /\ t[p].kind = "file" => t[p].names \in {"none", id}
    BY <1>12, <1>14
  <2> QED BY <1>1, <1>3, <2>1, <2>2 DEF Rooted
<1>17. Merged(PressedMedium, order, TarTree)
  <2>1. keeps => \A p \in DOMAIN t : \A q \in Ancestors(p) : q \in DOMAIN t /\ t[q].kind = "dir"
    BY <1>9, <1>11, <1>12
  <2>2. \A d \in dests : d \in DOMAIN t /\ t[d].kind # "dir" /\ t[d].by = "addition"
    BY <1>9, <1>10, <1>12
  <2>3. \A p \in DOMAIN TarTree \ dests : p \in DOMAIN t /\ t[p].kind = TarTree[p].kind /\ t[p].by # "addition"
    BY <1>5, <1>6, <1>9, <1>11, <1>12
  <2> QED BY <1>1, <1>12, <2>1, <2>2, <2>3 DEF Merged, keeps, dests, adds
<1> QED BY <1>15, <1>16, <1>17

-----------------------------------------------------------------------------
(* The press itself: what is in which file, and what describes it. *)

\* The roles of an order that may be left: all, all but the first, none.
RolesLeft(layout) == {Roles(layout), Tail(Roles(layout)), <<>>}
Position(o, l) == Len(Roles(o.layout)) - Len(l) + 1

LEMMA RoleFacts ==
    ASSUME NEW o \in Orders
    PROVE  /\ Roles(o.layout) # <<>> /\ Len(Roles(o.layout)) \in Nat
           /\ DOMAIN Roles(o.layout) = 1..Len(Roles(o.layout))
           /\ Position(o, Roles(o.layout)) = 1 /\ Position(o, <<>>) = Len(Roles(o.layout)) + 1
           /\ \A l \in RolesLeft(o.layout) \ {<<>>} :
                 /\ Position(o, l) \in DOMAIN Roles(o.layout) /\ Head(l) = Roles(o.layout)[Position(o, l)]
                 /\ Tail(l) \in RolesLeft(o.layout) /\ Position(o, Tail(l)) = Position(o, l) + 1
                 /\ Tail(l) = <<>> => Position(o, l) = Len(Roles(o.layout))
                 /\ Head(l) \in {"image", "boot", "rootfs"}
<1> DEFINE r == Roles(o.layout)
           Roled(l) == /\ Position(o, l) \in DOMAIN r /\ Head(l) = r[Position(o, l)]
                       /\ Tail(l) \in RolesLeft(o.layout) /\ Position(o, Tail(l)) = Position(o, l) + 1
                       /\ Tail(l) = <<>> => Position(o, l) = Len(r)
                       /\ Head(l) \in {"image", "boot", "rootfs"}
<1>1. r \in {<<"image">>, <<"boot">>, <<"boot", "rootfs">>}
  BY DEF Orders, Roles
<1>2. /\ Position(o, r) = Len(r) - Len(r) + 1 /\ Position(o, Tail(r)) = Len(r) - Len(Tail(r)) + 1
      /\ Position(o, <<>>) = Len(r) - 0 + 1
  BY DEF Position
<1>3. RolesLeft(o.layout) = {r, Tail(r), <<>>}
  BY DEF RolesLeft
<1>4. ASSUME NEW a PROVE Len(<<a>>) = 1 /\ DOMAIN <<a>> = 1..1 /\ Head(<<a>>) = a /\ <<a>>[1] = a /\ Tail(<<a>>) = <<>> /\ <<a>> # <<>>
  OBVIOUS
<1> HIDE DEF r
<1>5. CASE r \in {<<"image">>, <<"boot">>}
  <2>1. Len(r) = 1 /\ DOMAIN r = 1..1 /\ Head(r) = r[1] /\ r[1] \in {"image", "boot"} /\ r # <<>> /\ Tail(r) = <<>>
    <3>1. \E a \in {"image", "boot"} : r = <<a>>
      BY <1>5
    <3> QED BY <1>4, <3>1
  <2>2. Position(o, r) = 1 /\ Position(o, <<>>) = 2
    BY <1>2, <2>1
  <2>3. Roled(r)
    <3>4. Position(o, Tail(r)) = Position(o, <<>>)
      BY ONLY <2>1, Zenon
    <3>1. Position(o, r) \in DOMAIN r /\ Position(o, Tail(r)) = Position(o, r) + 1
      BY <2>1, <2>2, <3>4
    <3>2. Head(r) = r[Position(o, r)] /\ Position(o, r) = Len(r) /\ Head(r) \in {"image", "boot", "rootfs"}
      BY <2>1, <2>2
    <3>3. Tail(r) \in RolesLeft(o.layout)
      BY <1>3
    <3> QED BY <3>1, <3>2, <3>3
  <2>4. \A l \in RolesLeft(o.layout) \ {<<>>} : l = r
    BY <1>3, <2>1
  <2> HIDE DEF Roled
  <2>5. \A l \in RolesLeft(o.layout) \ {<<>>} : Roled(l)
    BY <2>3, <2>4
  <2> QED BY <2>1, <2>2, <2>5 DEF r, Roled
<1>6. CASE r = <<"boot", "rootfs">>
  <2> DEFINE t == Tail(r)
  <2>1. Len(r) = 2 /\ DOMAIN r = 1..2 /\ Head(r) = r[1] /\ r[1] = "boot" /\ r[2] = "rootfs" /\ r # <<>>
    BY <1>6
  <2>2. Len(t) = 1 /\ Head(t) = r[2] /\ Tail(t) = <<>> /\ t # <<>>
    BY <1>6
  <2>8. Position(o, t) = Len(r) - Len(t) + 1 /\ t \in RolesLeft(o.layout)
    BY <1>2, <1>3
  <2>9. Tail(r) = t
    OBVIOUS
  <2> HIDE DEF t
  <2>3. Position(o, r) = 1 /\ Position(o, t) = 2 /\ Position(o, <<>>) = 3
    BY <1>2, <2>1, <2>2, <2>8
  <2>4. Roled(r)
    <3>4. Position(o, Tail(r)) = Position(o, t)
      BY ONLY <2>9, Zenon
    <3>1. Position(o, r) \in DOMAIN r /\ Position(o, Tail(r)) = Position(o, r) + 1
      BY <2>1, <2>3, <3>4
    <3>2. Head(r) = r[Position(o, r)] /\ Tail(r) # <<>> /\ Head(r) \in {"image", "boot", "rootfs"}
      BY <2>1, <2>2, <2>3, <2>9
    <3>3. Tail(r) \in RolesLeft(o.layout)
      BY <2>8, <2>9
    <3> QED BY <3>1, <3>2, <3>3
  <2>5. Roled(t)
    <3>4. Position(o, Tail(t)) = Position(o, <<>>)
      BY ONLY <2>2, Zenon
    <3>1. Position(o, t) \in DOMAIN r /\ Position(o, Tail(t)) = Position(o, t) + 1
      BY <2>1, <2>3, <3>4
    <3>2. Head(t) = r[Position(o, t)] /\ Position(o, t) = Len(r) /\ Head(t) \in {"image", "boot", "rootfs"}
      BY <2>1, <2>2, <2>3
    <3>3. Tail(t) \in RolesLeft(o.layout)
      BY <1>3, <2>2
    <3> QED BY <3>1, <3>2, <3>3
  <2>6. \A l \in RolesLeft(o.layout) \ {<<>>} : l = r \/ l = t
    BY <1>3 DEF t
  <2> HIDE DEF Roled
  <2>7. \A l \in RolesLeft(o.layout) \ {<<>>} : Roled(l)
    BY <2>4, <2>5, <2>6
  <2> QED BY <2>1, <2>3, <2>7 DEF r, Roled
<1> QED BY <1>1, <1>5, <1>6

\* What AskPress lets through.
Accepted(o) ==
    /\ Len(o.outs) = Len(Roles(o.layout)) /\ ~RefuseBuildArtifacts(o)
    /\ \A f \in o.adds : Collects(f)
    /\ o.embed => o.layout = "combined"

\* The artifacts are those of one build.
Pristine(f) == \A p \in Artifacts : f[p] = [holds |-> p, of |-> f["tar"].of]

Written(o, f, i) == f[o.outs[i]] = [holds |-> Roles(o.layout)[i], of |-> f["tar"].of]
Listed(o, f, b, i) == ContainsRootfs(Roles(o.layout)[i]) => b[o.outs[i]] = f["tar"].of

PressWorks == {"verify", "list", "seed"}

\* An accepted order is under way, or done.
OrderInv ==
    /\ ppc \in {"next", "pressed"} \cup PressWorks => Accepted(order) /\ left \in RolesLeft(order.layout)
    /\ ppc \in {"next"} \cup PressWorks => left # <<>>
    /\ ppc = "pressed" => left = <<>>
    /\ ppc = "list" => ContainsRootfs(Role)

\* No build ran, and every role is an own file: those pressed are written and listed.
FilesInv ==
    /\ ppc = "idle" => Pristine(file)
    /\ ppc \in {"next", "pressed"} \cup PressWorks /\ ~raced /\ OwnFiles =>
          /\ Pristine(file)
          /\ \A i \in 1..(Position(order, left) - 1) : Written(order, file, i) /\ Listed(order, file, beside, i)
          /\ ppc \in PressWorks => Written(order, file, Position(order, left))
          /\ ppc = "seed" => Listed(order, file, beside, Position(order, left))

\* The medium a rootfs was last written to roots on itself and holds the merged tree.
MediumInv ==
    /\ ppc \in PressWorks /\ ContainsRootfs(Role) => Rooted(medium, order) /\ Merged(medium, order, TarTree)
    /\ ppc = "pressed" /\ ContainsRootfs(Roles(order.layout)[Len(Roles(order.layout))]) =>
          Rooted(medium, order) /\ Merged(medium, order, TarTree)

PressInv == PressTypeOK /\ OrderInv /\ FilesInv /\ MediumInv

PressUnderWay == {"next"} \cup PressWorks

\* Where a press is: its role, and the operator's file for it.
LEMMA Here ==
    ASSUME PressTypeOK, OrderInv, ppc \in PressUnderWay
    PROVE  LET k == Position(order, left) IN
           /\ k \in Nat /\ k \in DOMAIN Roles(order.layout) /\ k \in DOMAIN order.outs
           /\ DOMAIN order.outs = 1..Len(Roles(order.layout))
           /\ Role = Roles(order.layout)[k] /\ Out = order.outs[k]
           /\ Role \in Artifacts /\ Out \in Places
           /\ Tail(left) \in RolesLeft(order.layout) /\ Position(order, Tail(left)) = k + 1
           /\ Tail(left) = <<>> => k = Len(Roles(order.layout))
           /\ ContainsRootfs(Role) => ~OnListing(Out)
<1> DEFINE k == Position(order, left)
           r == Roles(order.layout)
<1>1. /\ order \in Orders /\ order.outs \in Seq(Places)
      /\ left \in RolesLeft(order.layout) \ {<<>>} /\ Accepted(order)
  BY DEF PressTypeOK, OrderInv, PressUnderWay, Orders
<1>2. /\ k \in DOMAIN r /\ Head(left) = r[k] /\ Len(r) \in Nat /\ DOMAIN r = 1..Len(r)
      /\ Tail(left) \in RolesLeft(order.layout) /\ Position(order, Tail(left)) = k + 1
      /\ Tail(left) = <<>> => k = Len(r)
      /\ Head(left) \in {"image", "boot", "rootfs"}
  BY <1>1, RoleFacts
<1>3. Len(order.outs) = Len(r) /\ DOMAIN order.outs = 1..Len(order.outs)
  BY <1>1 DEF Accepted
<1>4. k \in Nat /\ k \in DOMAIN order.outs /\ order.outs[k] \in Places
  BY <1>1, <1>2, <1>3, ElementOfSeq
<1>5. Role = Head(left) /\ Out = order.outs[k]
  BY DEF Role, Out, Position
<1>6. ContainsRootfs(r[k]) => ~OnListing(order.outs[k])
  BY <1>1, <1>4 DEF Accepted, RefuseBuildArtifacts
<1>7. Role \in Artifacts
  BY <1>2, <1>5 DEF Artifacts
<1> HIDE DEF k, r
<1> QED BY <1>2, <1>3, <1>4, <1>5, <1>6, <1>7 DEF k, r

\* Writing one of the operator's own files leaves the artifacts and the files before it.
LEMMA OwnFileWritten ==
    ASSUME NEW o, NEW k \in Nat, DOMAIN o.outs = 1..Len(Roles(o.layout)), k \in DOMAIN o.outs,
           \A i \in DOMAIN o.outs : o.outs[i] \in Places \ Artifacts,
           \A i, j \in DOMAIN o.outs : i # j => o.outs[i] # o.outs[j],
           NEW f, NEW g, \A p \in Places : p # o.outs[k] => g[p] = f[p],
           NEW b, NEW c, \A p \in Places : p # o.outs[k] => c[p] = b[p],
           Pristine(f), \A i \in 1..(k - 1) : Written(o, f, i) /\ Listed(o, f, b, i)
    PROVE  /\ g["tar"] = f["tar"] /\ Pristine(g)
           /\ \A i \in 1..(k - 1) : Written(o, g, i) /\ Listed(o, g, c, i)
<1>1. Artifacts \subseteq Places /\ "tar" \in Artifacts
  BY DEF Places, Artifacts
<1>2. \A p \in Artifacts : g[p] = f[p]
  BY <1>1
<1>3. \A i \in 1..(k - 1) : i \in DOMAIN o.outs /\ i # k
  OBVIOUS
<1>4. \A i \in 1..(k - 1) : g[o.outs[i]] = f[o.outs[i]] /\ c[o.outs[i]] = b[o.outs[i]]
  BY <1>3
<1>5. Pristine(g)
  BY <1>1, <1>2 DEF Pristine
<1> QED BY <1>1, <1>2, <1>4, <1>5 DEF Written, Listed

\* OwnFiles, of an order whose outputs are places.
Own(o) ==
    /\ \A i \in DOMAIN o.outs : o.outs[i] \in Places \ Artifacts
    /\ \A i, j \in DOMAIN o.outs : i # j => o.outs[i] # o.outs[j]

LEMMA OwnFilesOwn == ASSUME order \in Orders, OwnFiles PROVE Own(order)
<1>1. order.outs \in Seq(Places)
  BY DEF Orders
<1>2. \A i \in DOMAIN order.outs : order.outs[i] \in Places
  BY <1>1, ElementOfSeq
<1> QED BY <1>2 DEF OwnFiles, Own

LEMMA TypedPlaces ==
    ASSUME PressTypeOK
    PROVE  /\ Artifacts \subseteq Places /\ "tar" \in Artifacts /\ "listing" \in Artifacts
           /\ \A p \in Places : /\ file[p] \in [holds: Artifacts \cup {"nothing", "another"}, of: 0..MaxBuilds]
                                /\ beside[p] \in 0..MaxBuilds
  BY DEF PressTypeOK, Places, Artifacts

LEMMA StreamRoleKeeps == ASSUME PressInv, StreamRole PROVE PressInv'
<1> DEFINE k == Position(order, left)
<1>1. /\ PressTypeOK /\ OrderInv /\ FilesInv /\ MediumInv /\ ppc = "next" /\ ppc \in PressUnderWay
      /\ ppc' = "verify" /\ medium' = AsBuilt /\ ~Reassembles
      /\ file' = [file EXCEPT ![Out] = file[Role]]
      /\ UNCHANGED <<method, signkey, guid, beside, order, left, raced>>
  BY DEF PressInv, StreamRole, PressUnderWay
<1>2. /\ k \in Nat /\ k \in DOMAIN Roles(order.layout) /\ k \in DOMAIN order.outs
      /\ DOMAIN order.outs = 1..Len(Roles(order.layout))
      /\ Role = Roles(order.layout)[k] /\ Out = order.outs[k] /\ Role \in Artifacts /\ Out \in Places
  BY <1>1, Here
<1>3. method \in {"rkbin", "depthcharge"} /\ file \in [Places -> [holds: Artifacts \cup {"nothing", "another"}, of: 0..MaxBuilds]]
      /\ order \in Orders
  BY <1>1 DEF PressTypeOK
<1>4. file'[Out] = file[Role] /\ \A p \in Places : p # Out => file'[p] = file[p]
  BY <1>1, <1>2, <1>3
<1>5. ContainsRootfs(Role) => order.adds = {} /\ ~order.embed
  BY <1>1 DEF Reassembles, IsFresh
<1>6. IsMedium(AsBuilt) /\ (ContainsRootfs(Role) => Rooted(AsBuilt, order) /\ Merged(AsBuilt, order, TarTree))
  <2>1. NoOrder.adds = {} /\ ~NoOrder.embed
    BY DEF NoOrder
  <2>2. IsMedium(AsBuilt)
    BY <1>3, <2>1, StreamedMedium
  <2>3. ContainsRootfs(Role) => Rooted(AsBuilt, order) /\ Merged(AsBuilt, order, TarTree)
    BY <1>3, <1>5, StreamedMedium
  <2> QED BY <2>2, <2>3
<1>7. PressTypeOK'
  <2>1. file' \in [Places -> [holds: Artifacts \cup {"nothing", "another"}, of: 0..MaxBuilds]]
    BY <1>1, <1>2, <1>3, TypedPlaces
  <2> QED BY <1>1, <1>6, <2>1 DEF PressTypeOK, IsMedium
<1>8. OrderInv'
  BY <1>1 DEF OrderInv, PressWorks
<1>9. FilesInv'
  <2> SUFFICES ASSUME ~raced, OwnFiles
               PROVE  /\ Pristine(file')
                      /\ \A i \in 1..(k - 1) : Written(order, file', i) /\ Listed(order, file', beside, i)
                      /\ Written(order, file', k)
    BY <1>1 DEF FilesInv, OwnFiles
  <2>1. Own(order)
    BY <1>3, OwnFilesOwn
  <2>2. Pristine(file) /\ \A i \in 1..(k - 1) : Written(order, file, i) /\ Listed(order, file, beside, i)
    BY <1>1 DEF FilesInv
  <2>3. /\ file'["tar"] = file["tar"] /\ Pristine(file')
        /\ \A i \in 1..(k - 1) : Written(order, file', i) /\ Listed(order, file', beside, i)
    <3> HIDE DEF k
    <3> QED BY <1>2, <1>4, <2>1, <2>2, OwnFileWritten DEF Own
  <2>4. Written(order, file', k)
    BY <1>2, <1>4, <2>2, <2>3 DEF Written, Pristine
  <2> QED BY <2>3, <2>4
<1>10. MediumInv'
  <2>1. Role' = Role /\ TarTree' = TarTree
    BY <1>1 DEF Role, TarTree, BootFile
  <2> QED BY <1>1, <1>6, <2>1 DEF MediumInv, PressWorks
<1> QED BY <1>7, <1>8, <1>9, <1>10 DEF PressInv

LEMMA VerifyRoleKeeps == ASSUME PressInv, VerifyRole PROVE PressInv'
<1>1. /\ PressTypeOK /\ OrderInv /\ FilesInv /\ MediumInv /\ ppc = "verify"
      /\ ppc' \in {IF ContainsRootfs(Role) THEN "list" ELSE "seed", "failed"}
      /\ UNCHANGED <<method, signkey, guid, file, beside, order, left, medium, raced>>
  BY DEF PressInv, VerifyRole
<1>2. Role' = Role /\ TarTree' = TarTree
  BY <1>1 DEF Role, TarTree, BootFile
<1>3. Role = Roles(order.layout)[Position(order, left)]
  BY <1>1, Here DEF PressUnderWay, PressWorks
<1>4. PressTypeOK'
  BY <1>1 DEF PressTypeOK, PressOver
<1>5. OrderInv'
  BY <1>1, <1>2 DEF OrderInv, PressWorks
<1>6. FilesInv'
  BY <1>1, <1>3 DEF FilesInv, PressWorks, OwnFiles, Listed
<1>7. MediumInv'
  BY <1>1, <1>2 DEF MediumInv, PressWorks
<1> QED BY <1>4, <1>5, <1>6, <1>7 DEF PressInv

LEMMA CopyListingKeeps == ASSUME PressInv, CopyListing PROVE PressInv'
<1> DEFINE k == Position(order, left)
<1>1. /\ PressTypeOK /\ OrderInv /\ FilesInv /\ MediumInv /\ ppc = "list" /\ ppc \in PressUnderWay
      /\ ppc' = "seed" /\ ContainsRootfs(Role)
      /\ beside' = [beside EXCEPT ![Out] = file["listing"].of]
      /\ UNCHANGED <<method, signkey, guid, order, left, medium, raced>>
  BY DEF PressInv, CopyListing, PressUnderWay, PressWorks, OrderInv
<1>2. /\ k \in Nat /\ k \in DOMAIN order.outs /\ DOMAIN order.outs = 1..Len(Roles(order.layout))
      /\ Out = order.outs[k] /\ Out \in Places /\ ~OnListing(Out)
  BY <1>1, Here
<1>3. file' = file
  BY <1>2 DEF CopyListing
<1>4. beside \in [Places -> 0..MaxBuilds] /\ order \in Orders
  BY <1>1 DEF PressTypeOK
<1>5. beside'[Out] = file["listing"].of /\ \A p \in Places : p # Out => beside'[p] = beside[p]
  BY <1>1, <1>2, <1>4
<1>6. PressTypeOK'
  <2>1. file["listing"].of \in 0..MaxBuilds
    BY <1>1, TypedPlaces
  <2>2. beside' \in [Places -> 0..MaxBuilds]
    BY <1>1, <1>2, <1>4, <2>1
  <2> QED BY <1>1, <1>3, <2>2 DEF PressTypeOK
<1>7. OrderInv'
  BY <1>1 DEF OrderInv, PressWorks
<1>8. FilesInv'
  <2> SUFFICES ASSUME ~raced, OwnFiles
               PROVE  /\ Pristine(file)
                      /\ \A i \in 1..(k - 1) : Written(order, file, i) /\ Listed(order, file, beside', i)
                      /\ Written(order, file, k) /\ Listed(order, file, beside', k)
    BY <1>1, <1>3 DEF FilesInv, OwnFiles
  <2>1. Own(order)
    BY <1>4, OwnFilesOwn
  <2>2. Pristine(file) /\ Written(order, file, k) /\ \A i \in 1..(k - 1) : Written(order, file, i) /\ Listed(order, file, beside, i)
    BY <1>1 DEF FilesInv, PressWorks
  <2>3. \A i \in 1..(k - 1) : Written(order, file, i) /\ Listed(order, file, beside', i)
    <3>1. \A i \in 1..(k - 1) : i \in DOMAIN order.outs /\ i # k
      BY <1>2
    <3>2. \A i \in 1..(k - 1) : order.outs[i] \in Places /\ order.outs[i] # Out
      BY <1>2, <2>1, <3>1 DEF Own
    <3> QED BY <1>5, <2>2, <3>2 DEF Listed
  <2>4. Listed(order, file, beside', k)
    <3>1. file["listing"].of = file["tar"].of
      BY <2>2 DEF Pristine, Artifacts
    <3> QED BY <1>2, <1>5, <3>1 DEF Listed
  <2> QED BY <2>2, <2>3, <2>4
<1>9. MediumInv'
  <2>1. Role' = Role /\ TarTree' = TarTree
    BY <1>1 DEF Role, TarTree, BootFile
  <2> QED BY <1>1, <2>1 DEF MediumInv, PressWorks
<1> QED BY <1>6, <1>7, <1>8, <1>9 DEF PressInv

LEMMA ReassembleRoleKeeps == ASSUME PressInv, ReassembleRole PROVE PressInv'
<1> DEFINE k == Position(order, left)
<1>1. /\ PressTypeOK /\ OrderInv /\ FilesInv /\ MediumInv /\ ppc = "next" /\ ppc \in PressUnderWay
      /\ ContainsRootfs(Role)
      /\ UNCHANGED <<method, signkey, guid, order, left, raced>>
  BY DEF PressInv, ReassembleRole, Reassembles, PressUnderWay
<1>2. /\ k \in Nat /\ k \in DOMAIN order.outs /\ DOMAIN order.outs = 1..Len(Roles(order.layout))
      /\ Role = Roles(order.layout)[k] /\ Out = order.outs[k] /\ Role \in Artifacts /\ Out \in Places
      /\ ~OnListing(Out)
  BY <1>1, Here
<1>3. CASE ppc' = "failed" /\ UNCHANGED <<file, beside, medium>>
  <2>1. PressTypeOK'
    BY <1>1, <1>3 DEF PressTypeOK, PressOver
  <2>2. OrderInv' /\ FilesInv' /\ MediumInv'
    BY <1>3 DEF OrderInv, FilesInv, MediumInv, PressWorks
  <2> QED BY <2>1, <2>2 DEF PressInv
<1>4. CASE /\ ~TreeRefused /\ ppc' \in {"seed", "failed"} /\ medium' = PressedMedium
           /\ file' = [file EXCEPT ![Out] = PressedImage]
           /\ beside' = [beside EXCEPT ![Out] = file["tar"].of]
  <2>1. /\ file \in [Places -> [holds: Artifacts \cup {"nothing", "another"}, of: 0..MaxBuilds]]
        /\ beside \in [Places -> 0..MaxBuilds] /\ order \in Orders /\ method \in {"rkbin", "depthcharge"}
    BY <1>1 DEF PressTypeOK
  <2>2. PressedImage \in [holds: Artifacts \cup {"nothing", "another"}, of: 0..MaxBuilds] /\ file["tar"].of \in 0..MaxBuilds
    BY <1>1, <1>2, TypedPlaces DEF PressedImage
  <2>4. /\ file'[Out] = PressedImage /\ \A p \in Places : p # Out => file'[p] = file[p]
        /\ beside'[Out] = file["tar"].of /\ \A p \in Places : p # Out => beside'[p] = beside[p]
    BY <1>2, <1>4, <2>1
  <2>5. IsMedium(PressedMedium) /\ Rooted(PressedMedium, order) /\ Merged(PressedMedium, order, TarTree)
    <3>1. \A f \in order.adds : Collects(f)
      BY <1>1 DEF OrderInv, Accepted
    <3> QED BY <1>4, <2>1, <3>1, ReassembledMedium
  <2>6. PressTypeOK'
    <3>1. /\ file' \in [Places -> [holds: Artifacts \cup {"nothing", "another"}, of: 0..MaxBuilds]]
          /\ beside' \in [Places -> 0..MaxBuilds]
      BY <1>2, <1>4, <2>1, <2>2
    <3> QED BY <1>1, <1>4, <2>5, <3>1 DEF PressTypeOK, IsMedium, PressOver
  <2>7. OrderInv'
    BY <1>1, <1>4 DEF OrderInv, PressWorks
  <2>8. FilesInv'
    <3> SUFFICES ASSUME ~raced, OwnFiles
                 PROVE  /\ Pristine(file')
                        /\ \A i \in 1..(k - 1) : Written(order, file', i) /\ Listed(order, file', beside', i)
                        /\ Written(order, file', k) /\ Listed(order, file', beside', k)
      BY <1>1, <1>4 DEF FilesInv, OwnFiles
    <3>1. Own(order)
      BY <2>1, OwnFilesOwn
    <3>2. Pristine(file) /\ \A i \in 1..(k - 1) : Written(order, file, i) /\ Listed(order, file, beside, i)
      BY <1>1 DEF FilesInv
    <3>3. /\ file'["tar"] = file["tar"] /\ Pristine(file')
          /\ \A i \in 1..(k - 1) : Written(order, file', i) /\ Listed(order, file', beside', i)
      <4>1. /\ \A p \in Places : p # order.outs[k] => file'[p] = file[p]
            /\ \A p \in Places : p # order.outs[k] => beside'[p] = beside[p]
        BY <1>2, <2>4
      <4>2. /\ \A i \in DOMAIN order.outs : order.outs[i] \in Places \ Artifacts
            /\ \A i, j \in DOMAIN order.outs : i # j => order.outs[i] # order.outs[j]
        BY <3>1 DEF Own
      <4>3. k \in Nat /\ k \in DOMAIN order.outs /\ DOMAIN order.outs = 1..Len(Roles(order.layout))
        BY <1>2
      <4> HIDE DEF k
      <4> QED BY <3>2, <4>1, <4>2, <4>3, OwnFileWritten
    <3>4. Written(order, file', k) /\ Listed(order, file', beside', k)
      BY <1>2, <2>4, <3>3 DEF Written, Listed, PressedImage
    <3> QED BY <3>3, <3>4
  <2>9. MediumInv'
    <3>1. Role' = Role /\ TarTree' = TarTree
      BY <1>1 DEF Role, TarTree, BootFile
    <3> QED BY <1>1, <1>4, <2>5, <3>1 DEF MediumInv, PressWorks
  <2> QED BY <2>6, <2>7, <2>8, <2>9 DEF PressInv
<1> QED BY <1>2, <1>3, <1>4 DEF ReassembleRole, PressedMedium, VerifyClean

LEMMA SeedRoleKeeps == ASSUME PressInv, SeedRole PROVE PressInv'
<1> DEFINE k == Position(order, left)
<1>1. /\ PressTypeOK /\ OrderInv /\ FilesInv /\ MediumInv /\ ppc = "seed" /\ ppc \in PressUnderWay
      /\ left' = Tail(left) /\ ppc' = (IF Tail(left) = <<>> THEN "pressed" ELSE "next")
      /\ UNCHANGED <<method, signkey, guid, file, beside, order, medium, raced>>
  BY DEF PressInv, SeedRole, PressUnderWay, PressWorks
<1>2. /\ k \in Nat /\ Role = Roles(order.layout)[k] /\ Tail(left) \in RolesLeft(order.layout)
      /\ Position(order, Tail(left)) = k + 1
      /\ Tail(left) = <<>> => k = Len(Roles(order.layout))
  BY <1>1, Here
<1>3. Position(order, left)' = k + 1
  <2>1. Position(order, left)' = Position(order, Tail(left))
    BY <1>1, Zenon
  <2> QED BY <1>2, <2>1
<1>4. PressTypeOK'
  BY <1>1 DEF PressTypeOK, PressOver
<1>5. OrderInv'
  BY <1>1, <1>2 DEF OrderInv, PressWorks
<1>6. FilesInv'
  <2> SUFFICES ASSUME ~raced, OwnFiles
               PROVE  Pristine(file) /\ \A i \in 1..k : Written(order, file, i) /\ Listed(order, file, beside, i)
    BY <1>1, <1>2, <1>3 DEF FilesInv, OwnFiles, PressWorks
  <2>1. /\ Pristine(file) /\ Written(order, file, k) /\ Listed(order, file, beside, k)
        /\ \A i \in 1..(k - 1) : Written(order, file, i) /\ Listed(order, file, beside, i)
    BY <1>1 DEF FilesInv, PressWorks
  <2>2. \A i \in 1..k : i \in 1..(k - 1) \/ i = k
    BY <1>2
  <2> QED BY <2>1, <2>2
<1>7. MediumInv'
  <2>1. TarTree' = TarTree
    BY <1>1 DEF TarTree, BootFile
  <2>2. ppc' = "pressed" => Role = Roles(order.layout)[Len(Roles(order.layout))]
    BY <1>1, <1>2
  <2> QED BY <1>1, <2>1, <2>2 DEF MediumInv, PressWorks
<1> QED BY <1>4, <1>5, <1>6, <1>7 DEF PressInv

LEMMA AskPressKeeps == ASSUME PressInv, NEW o \in AskedOrders, AskPress(o) PROVE PressInv'
<1>1. /\ PressTypeOK /\ FilesInv /\ ppc = "idle" /\ order' = o /\ raced' = FALSE
      /\ UNCHANGED <<method, signkey, guid, file, beside, medium>>
      /\ \/ ppc' = "next" /\ left' = Roles(o.layout) /\ Accepted(o)
         \/ ppc' = "refused"
  BY DEF PressInv, AskPress, Accepted
<1>2. o \in Orders
  BY OrdersAssumption
<1>3. PressTypeOK'
  BY <1>1, <1>2 DEF PressTypeOK, PressOver
<1>4. OrderInv'
  BY <1>1, <1>2, RoleFacts DEF OrderInv, PressWorks, RolesLeft
<1>5. FilesInv'
  <2>1. ppc' = "next" => Position(order, left)' = 1
    BY <1>1, <1>2, RoleFacts
  <2>2. Pristine(file)
    BY <1>1 DEF FilesInv
  <2> QED BY <1>1, <2>1, <2>2 DEF FilesInv, PressWorks
<1>6. MediumInv'
  BY <1>1 DEF MediumInv, PressWorks
<1> QED BY <1>3, <1>4, <1>5, <1>6 DEF PressInv

LEMMA RebuildKeeps == ASSUME PressInv, Rebuild PROVE PressInv'
<1> DEFINE v == file["tar"].of + 1
<1>1. /\ PressTypeOK /\ OrderInv /\ FilesInv /\ MediumInv /\ file["tar"].of < MaxBuilds
      /\ file' = [p \in Places |-> IF p \in Artifacts THEN [holds |-> p, of |-> v] ELSE file[p]]
      /\ raced' = (ppc \notin PressOver)
      /\ ppc' = (IF ppc \in PressOver THEN "idle" ELSE ppc)
      /\ order' = (IF ppc \in PressOver THEN NoOrder ELSE order)
      /\ UNCHANGED <<method, signkey, guid, beside, left, medium>>
  BY DEF PressInv, Rebuild
<1>2. MaxBuilds \in Nat /\ file["tar"].of \in 0..MaxBuilds
  BY <1>1, TypedPlaces, PressAssumption
<1>3. v \in 0..MaxBuilds
  BY <1>1, <1>2
<1> HIDE DEF v
<1>4. PressTypeOK'
  <2>1. file' \in [Places -> [holds: Artifacts \cup {"nothing", "another"}, of: 0..MaxBuilds]]
    BY <1>1, <1>3, TypedPlaces
  <2>2. NoOrder \in Orders
    <3>1. <<>> \in Seq(Places)
      BY EmptySeq
    <3> QED BY <3>1 DEF NoOrder, Orders
  <2>3. raced' \in BOOLEAN
    BY <1>1
  <2> QED BY <1>1, <2>1, <2>2, <2>3 DEF PressTypeOK, PressOver
<1>5. CASE ppc \in PressOver
  <2>1. ppc' = "idle"
    BY <1>1, <1>5
  <2>2. Pristine(file')
    BY <1>1, TypedPlaces DEF Pristine
  <2>3. OrderInv' /\ FilesInv' /\ MediumInv'
    BY <2>1, <2>2 DEF OrderInv, FilesInv, MediumInv, PressWorks
  <2> QED BY <1>4, <2>3 DEF PressInv
<1>6. CASE ppc \notin PressOver
  <2>1. raced' /\ ppc' = ppc /\ order' = order /\ ppc' # "idle" /\ ppc' # "pressed"
    BY <1>1, <1>6 DEF PressOver
  <2>2. Role' = Role /\ TarTree' = TarTree
    BY <1>1 DEF Role, TarTree, BootFile
  <2>3. OrderInv'
    BY <1>1, <2>1, <2>2 DEF OrderInv
  <2>4. FilesInv'
    BY <2>1 DEF FilesInv
  <2>5. MediumInv'
    BY <1>1, <2>1, <2>2 DEF MediumInv
  <2> QED BY <1>4, <2>3, <2>4, <2>5 DEF PressInv
<1> QED BY <1>5, <1>6

LEMMA PressStutterKeeps ==
    ASSUME PressInv, UNCHANGED <<method, signkey, guid, file, beside, order, left, ppc, medium, raced>>
    PROVE  PressInv'
<1>1. Role' = Role /\ TarTree' = TarTree
  BY DEF Role, TarTree, BootFile
<1>2. PressTypeOK' /\ OrderInv'
  BY <1>1 DEF PressInv, PressTypeOK, OrderInv
<1>3. FilesInv' /\ MediumInv'
  BY <1>1 DEF PressInv, FilesInv, MediumInv, OwnFiles
<1> QED BY <1>2, <1>3 DEF PressInv

LEMMA PressInitInv == PressInit => PressInv
<1> SUFFICES ASSUME PressInit PROVE PressInv
  OBVIOUS
<1>1. PressTypeOK
  <2>1. MaxBuilds \in Nat \ {0}
    BY PressAssumption
  <2>2. file \in [Places -> [holds: Artifacts \cup {"nothing", "another"}, of: 0..MaxBuilds]]
    <3>1. \A p \in Artifacts : [holds |-> p, of |-> 1] \in [holds: Artifacts \cup {"nothing", "another"}, of: 0..MaxBuilds]
      BY <2>1
    <3>2. Unwritten \in [holds: Artifacts \cup {"nothing", "another"}, of: 0..MaxBuilds]
      BY <2>1 DEF Unwritten
    <3> QED BY <3>1, <3>2 DEF PressInit, BuiltAt
  <2>3. beside \in [Places -> 0..MaxBuilds]
    BY <2>1 DEF PressInit
  <2>4. order \in Orders
    <3>1. <<>> \in Seq(Places)
      BY EmptySeq
    <3> QED BY <3>1 DEF PressInit, NoOrder, Orders
  <2>5. IsMedium(medium)
    <3>1. NoOrder.adds = {} /\ ~NoOrder.embed
      BY DEF NoOrder
    <3> QED BY <3>1, StreamedMedium DEF PressInit
  <2>6. signkey \in SigningKeys
    BY DEF PressInit, SigningKeys
  <2> QED BY <2>2, <2>3, <2>4, <2>5, <2>6 DEF PressInit, PressTypeOK, IsMedium, PressOver
<1>2. Pristine(file)
  <2>1. \A p \in Artifacts : file[p] = [holds |-> p, of |-> 1]
    BY DEF PressInit, BuiltAt, Places
  <2> QED BY <2>1 DEF Pristine, Artifacts
<1>3. OrderInv /\ FilesInv /\ MediumInv
  BY <1>2 DEF PressInit, OrderInv, FilesInv, MediumInv, PressWorks
<1> QED BY <1>1, <1>3 DEF PressInv

LEMMA PressInvariant == PressSpec => []PressInv
<1>1. PressInv /\ [PressNext]_pressVars => PressInv'
  <2> SUFFICES ASSUME PressInv, [PressNext]_pressVars PROVE PressInv'
    OBVIOUS
  <2>1. CASE SeedFile \/ UNCHANGED pressVars
    BY <2>1, PressStutterKeeps DEF SeedFile, pressVars
  <2>2. CASE \E o \in AskedOrders : AskPress(o)
    BY <2>2, AskPressKeeps
  <2> QED BY <2>1, <2>2, StreamRoleKeeps, VerifyRoleKeeps, CopyListingKeeps, ReassembleRoleKeeps, SeedRoleKeeps,
             RebuildKeeps DEF PressNext
<1> QED BY <1>1, PressInitInv, PTL DEF PressSpec

\* An order, its files and the medium under way keep their types.
THEOREM PressTypes == PressSpec => []PressTypeOK
<1>1. PressInv => PressTypeOK
  BY DEF PressInv
<1> QED BY <1>1, PressInvariant, PTL

\* A press that ends well has given every file of the operator's its role of one build and
\* a listing of it, and the tree of a re-assembled image is the build's with what was
\* added, names one identity and has every directory above its files.
THEOREM PressedIsDescribedHolds == PressSpec => []PressedIsDescribed
<1>1. ASSUME PressInv PROVE PressedIsDescribed
  <2>1. CASE ppc # "pressed"
    BY <2>1 DEF PressedIsDescribed, DescribedBeside, RootsOnItself, TreeIsMerged
  <2>2. CASE ppc = "pressed"
    <3> DEFINE n == Len(Roles(order.layout))
    <3>1. /\ PressTypeOK /\ order \in Orders /\ left = <<>> /\ Len(order.outs) = n
          /\ FilesInv /\ MediumInv
      BY <1>1, <2>2 DEF PressInv, OrderInv, Accepted, PressTypeOK
    <3>2. n \in Nat /\ Position(order, left) = n + 1 /\ LastRole = Roles(order.layout)[n]
      BY <3>1, RoleFacts DEF LastRole
    <3>3. DOMAIN order.outs = 1..n
      BY <3>1 DEF Orders
    <3>4. DescribedBeside
      <4> SUFFICES ASSUME ~raced, OwnFiles
                   PROVE  /\ \A p \in Artifacts : file[p].holds = p
                          /\ \A i \in 1..n : LET role == Roles(order.layout)[i]
                                                out == file[order.outs[i]] IN
                                out.holds = role /\ (ContainsRootfs(role) => beside[order.outs[i]] = out.of)
        BY <3>3 DEF DescribedBeside
      <4>1. Pristine(file) /\ \A i \in 1..n : Written(order, file, i) /\ Listed(order, file, beside, i)
        BY <2>2, <3>1, <3>2 DEF FilesInv
      <4> HIDE DEF n
      <4>2. ASSUME NEW p \in Artifacts PROVE file[p].holds = p
        <5>1. file[p] = [holds |-> p, of |-> file["tar"].of]
          BY <4>1 DEF Pristine
        <5> QED BY <5>1
      <4>3. ASSUME NEW i \in 1..n
            PROVE  LET role == Roles(order.layout)[i]
                       out == file[order.outs[i]] IN
                   out.holds = role /\ (ContainsRootfs(role) => beside[order.outs[i]] = out.of)
        <5>1. file[order.outs[i]] = [holds |-> Roles(order.layout)[i], of |-> file["tar"].of]
          BY <4>1 DEF Written
        <5>2. ContainsRootfs(Roles(order.layout)[i]) => beside[order.outs[i]] = file["tar"].of
          BY <4>1 DEF Listed
        <5> QED BY <5>1, <5>2
      <4> QED BY <4>2, <4>3
    <3>5. ContainsRootfs(LastRole) => Rooted(medium, order) /\ Merged(medium, order, TarTree)
      BY <2>2, <3>1, <3>2 DEF MediumInv
    <3>6. RootsOnItself
      BY <3>5 DEF RootsOnItself, Rooted
    <3>7. TreeIsMerged
      BY <3>5 DEF TreeIsMerged, Merged, DestsOf
    <3> QED BY <3>4, <3>6, <3>7 DEF PressedIsDescribed
  <2> QED BY <2>1, <2>2
<1> QED BY <1>1, PressInvariant, PTL
-----------------------------------------------------------------------------
(***************************************************************************)
(* The kernel's stages, for every set of pins, configurations, toolchains  *)
(* and drivers, while nobody edits the fragments under a run.  That the    *)
(* stores are honest is not inductive alone: what a run stores is what it  *)
(* made, what it made is what the tree held, and the tree holds what its   *)
(* stamp says from the gate to the compile.  That a fresh stamp is true    *)
(* has two reasons, and one of them is enough: no refresh was ever cut     *)
(* short, or every stamp a cut left is behind the lock.                    *)
(***************************************************************************)
Excused == cut /\ returned

\* What a run reads is what it was asked for.
Steady == pc # "idle" => asked = want

\* Which stage is under way, by where the run is.
GoalInv ==
    /\ stage \in {"kernel", "dtb", "kmod"} => goal = stage
    /\ stage = "all" => goal \in {"kernel", "kmod"}
    /\ pc # "idle" => stage # None
    /\ pc \in {"restore", "collect", "put"} => goal = "kernel"
    /\ pc \in {"probe", "driver", "fetch", "mark", "module", "firmware"} => goal = "kmod"
    /\ pc = "done" /\ goal = "kernel" => stage = "kernel"

\* Whatever the trees hold, there is something there where the run reads it.
PlaceInv ==
    /\ pc = "clone" => ktree = None /\ symvers = None
    /\ pc \in {"stamp", "configure", "compile"} => ktree # None
    /\ pc = "compile" => config # None
    /\ pc = "module" => symvers # None
    /\ pc = "fetch" => dtree = None
    /\ pc \in {"mark", "firmware"} => dtree # None
    /\ goal = "kmod" /\ pc \in {"tree", "clone", "stamp", "configure", "compile", "module"} => dtree # None /\ mdeb = None
    /\ pc = "firmware" => mdeb # None

\* A tree holds what its stamp names, unless the stamp is behind the lock.
Trusted(stamp, tree, asks, under) ==
    /\ ~cut => tree \in {None, stamp} \/ under
    /\ ~returned => stamp = None \/ stamp < asks \/ (stamp = asks /\ tree = stamp)

\* A stamped tree that has been built was built at its stamp.
StampInv ==
    /\ Trusted(kstamp, ktree, want.pin, pc = "stamp")
    /\ Trusted(dstamp, dtree, want.drv, pc = "mark")
    /\ ktree # Partial /\ symvers # None => symvers.pin = ktree
    /\ pc \in {"stamp", "configure", "compile"} => ktree = asked.pin
    /\ pc = "compile" => config = asked.cfg
    /\ pc = "module" => ktree = asked.pin
    /\ pc = "mark" => dtree = asked.drv
    /\ goal = "kmod" /\ pc \in {"tree", "clone", "stamp", "configure", "compile", "module"} => dtree = asked.drv
    /\ pc = "firmware" => dtree = asked.drv

ModuleIs(m, drv, tool, pin) == m.drv = drv /\ m.tool = tool /\ m.kernel.pin = pin

\* What the run has in hand is what it was asked for.
StagedInv ==
    /\ pc = "collect" => wdebs = {KernelOf(asked)}
    /\ pc = "put" => kdeb = KernelOf(asked)
    /\ stage = "all" /\ goal = "kmod" => kdeb = KernelOf(asked)
    /\ pc = "done" /\ goal = "kernel" => kdeb = KernelOf(asked)
    /\ goal = "kmod" /\ pc \notin {"idle", "probe"} =>
          /\ fdeb \in {None, asked.drv}
          /\ mdeb # None => ModuleIs(mdeb, asked.drv, asked.tool, asked.pin)
    /\ goal = "kmod" /\ pc = "done" => fdeb # None /\ mdeb # None

Sound == StampInv /\ StagedInv /\ StoresHonest
KernelInv == TypeOK /\ Steady /\ GoalInv /\ PlaceInv /\ (Excused \/ Sound)
-----------------------------------------------------------------------------
LEMMA Keys ==
    ASSUME NEW w \in Wants
    PROVE  /\ KernelOf(w) \in Kernels /\ KernelOf(w).pin = w.pin
           /\ w.pin \in Pins /\ w.cfg \in Cfgs /\ w.tool \in Tools /\ w.drv \in Drivers
           /\ ModuleKeyOf(w) \in ModuleKeys
           /\ ModuleKeyOf(w).pin = w.pin /\ ModuleKeyOf(w).drv = w.drv /\ ModuleKeyOf(w).tool = w.tool
  BY DEF Wants, KernelOf, Kernels, ModuleKeyOf, ModuleKeys

\* A tree whose stamp is the one asked for holds what was asked for.
LEMMA TrustedIsTrue ==
    ASSUME NEW tree, NEW asks \in Nat, asks # None, ~Excused, Trusted(asks, tree, asks, FALSE), tree # None
    PROVE  tree = asks
  BY DEF Trusted, Excused

\* What an entry holds after a put.
LEMMA PutEntry ==
    ASSUME NEW K, NEW V, NEW store \in [K -> V], NEW k \in K, NEW v \in V
    PROVE  Put(store, k, v) \in [K -> V]
  BY DEF Put

LEMMA PutValue ==
    ASSUME NEW store, NEW k \in DOMAIN store, NEW v, NEW j \in DOMAIN store
    PROVE  Put(store, k, v)[j] = store[j] \/ (j = k /\ Put(store, k, v)[j] = v)
  BY DEF Put

LEMMA MadeModule ==
    ASSUME NEW d \in DriverTrees, NEW t \in Tools, NEW k \in KernelBuilds
    PROVE  /\ [drv |-> d, tool |-> t, kernel |-> k] \in Modules
           /\ ModuleIs([drv |-> d, tool |-> t, kernel |-> k], d, t, k.pin)
  BY DEF Modules, ModuleIs

LEMMA KernelTypes ==
    ASSUME KernelAssumption, TypeOK, Steady, GoalInv, PlaceInv, [Next]_vars PROVE TypeOK'
  <1> USE DEF TypeOK, Stages, stores, kernelTree, driverTree, trees, staged, history
  <1>n. /\ None \notin KernelTrees \cup DriverTrees \cup Cfgs \cup KernelBuilds \cup Modules \cup Stages
        /\ MaxRuns \in Nat /\ Kernels \subseteq KernelBuilds /\ Drivers \subseteq DriverTrees /\ Pins \subseteq KernelTrees
        /\ Asks \subseteq Wants /\ Foreign \subseteq Wants
        /\ Partial \in KernelTrees /\ Partial \in DriverTrees
    BY DEF KernelAssumption, Kernels, KernelBuilds, KernelTrees, DriverTrees
  <1>a. pc # "idle" => /\ asked \in Wants /\ KernelOf(asked) \in Kernels /\ ModuleKeyOf(asked) \in ModuleKeys
                       /\ asked.pin \in Pins /\ asked.drv \in Drivers /\ asked.tool \in Tools
    BY Keys DEF Steady
  <1>c. pc = "compile" => Compiled \in KernelBuilds
    BY <1>a, <1>n DEF Compiled, KernelBuilds, PlaceInv
  <1>b. pc = "compile" => Before \in SUBSET KernelBuilds /\ Beside(Before) \in SUBSET KernelBuilds
    BY <1>c DEF Beside, Before, Swept
  <1>1. ASSUME NEW s \in Stages, Begin(s) PROVE TypeOK'
    <2>1. runs' \in 0..MaxRuns
      BY ONLY <1>1, <1>n, runs \in 0..MaxRuns DEF Begin
    <2> QED BY <1>1, <2>1 DEF Begin
  <1>2. CASE RestoreKernel
    BY <1>2, <1>a DEF RestoreKernel, KernelDone
  <1>3. CASE PrepareTree
    BY <1>3 DEF PrepareTree
  <1>4. CASE CloneTree
    BY <1>4, <1>a, <1>n DEF CloneTree
  <1>5. CASE StampTree
    BY <1>5, <1>a DEF StampTree
  <1>6. CASE Configure
    <2>1. want.cfg \in Cfgs
      BY Keys
    <2> QED BY <1>6, <2>1 DEF Configure
  <1>7. CASE Compile
    BY <1>7, <1>b, <1>c DEF Compile
  <1>8. CASE CompileDtb
    BY <1>8 DEF CompileDtb
  <1>9. CASE Collect
    BY <1>9 DEF Collect
  <1>10. CASE StoreKernel
    <2>1. kstore' \in [Kernels -> KernelBuilds \cup {None}]
      BY <1>10, <1>a, PutEntry DEF StoreKernel
    <2> QED BY <1>10, <2>1 DEF StoreKernel, KernelDone
  <1>11. CASE Probe
    BY <1>11, <1>a DEF Probe
  <1>12. CASE PrepareDriver
    BY <1>12 DEF PrepareDriver, DriverReady
  <1>13. CASE FetchDriver
    BY <1>13, <1>a, <1>n DEF FetchDriver
  <1>14. CASE StampDriver
    BY <1>14, <1>a DEF StampDriver, DriverReady
  <1>15. CASE BuildModule
    <2>1. dtree \in DriverTrees /\ asked.tool \in Tools /\ symvers \in KernelBuilds
      BY <1>15, <1>a, <1>n DEF BuildModule, PlaceInv, GoalInv
    <2>2. mdeb' \in Modules
      BY <1>15, <2>1, MadeModule DEF BuildModule
    <2>3. mstore' \in [ModuleKeys -> Modules \cup {None}]
      <3>1. /\ mstore' = Put(mstore, ModuleKeyOf(asked), mdeb') /\ ModuleKeyOf(asked) \in ModuleKeys
            /\ mdeb' \in Modules \cup {None}
        BY <1>15, <1>a, <2>2 DEF BuildModule
      <3> QED BY ONLY <3>1, mstore \in [ModuleKeys -> Modules \cup {None}], PutEntry
    <2> QED BY <1>15, <2>2, <2>3 DEF BuildModule
  <1>16. CASE PackageFirmware
    <2>1. dtree \in DriverTrees
      BY <1>16, <1>a DEF PackageFirmware, PlaceInv
    <2>2. fstore' \in [Drivers -> DriverTrees \cup {None}]
      BY <1>16, <1>a, <2>1, PutEntry DEF PackageFirmware
    <2> QED BY <1>16, <2>1, <2>2 DEF PackageFirmware
  <1>17. CASE EndRun \/ Stop \/ CloneFails \/ ConfigureFails \/ FetchFails
    BY <1>17 DEF EndRun, Stop, CloneFails, ConfigureFails, FetchFails, Ended
  <1>18. CASE CompileFails
    BY <1>18, <1>b, <1>c DEF CompileFails, Ended
  <1>19. CASE RefreshCut \/ DriverCut
    BY <1>19, <1>n DEF RefreshCut, DriverCut, Ended
  <1>20. ASSUME NEW w \in Wants, Edit(w) PROVE TypeOK'
    BY <1>20, <1>n DEF Edit
  <1>21. ASSUME NEW w \in Wants, OtherRecipe(w) PROVE TypeOK'
    <2>1. /\ KernelOf(w) \in Kernels /\ ModuleKeyOf(w) \in ModuleKeys /\ w.drv \in Drivers /\ w.tool \in Tools
          /\ KernelOf(w) \in KernelBuilds /\ w.drv \in DriverTrees
      BY Keys, <1>n
    <2>2. ModulesOf(w) \in Modules
      BY <2>1, MadeModule DEF ModulesOf
    <2>3. kstore' \in [Kernels -> KernelBuilds \cup {None}]
      BY ONLY <1>21, <2>1, kstore \in [Kernels -> KernelBuilds \cup {None}], PutEntry DEF OtherRecipe
    <2>4. mstore' \in [ModuleKeys -> Modules \cup {None}]
      BY ONLY <1>21, <2>1, <2>2, mstore \in [ModuleKeys -> Modules \cup {None}], PutEntry DEF OtherRecipe
    <2>5. fstore' \in [Drivers -> DriverTrees \cup {None}]
      BY ONLY <1>21, <2>1, fstore \in [Drivers -> DriverTrees \cup {None}], PutEntry DEF OtherRecipe
    <2> QED BY <1>21, <2>3, <2>4, <2>5 DEF OtherRecipe
  <1>22. CASE UNCHANGED vars
    BY <1>22 DEF vars
  <1> HIDE DEF TypeOK
  <1> QED
    BY <1>1, <1>2, <1>3, <1>4, <1>5, <1>6, <1>7, <1>8, <1>9, <1>10, <1>11, <1>12, <1>13, <1>14, <1>15, <1>16, <1>17,
       <1>18, <1>19, <1>20, <1>21, <1>22, <1>n
    DEF Next, Step

\* Where a run is, and what is there when it gets there.
LEMMA KernelPlaces ==
    ASSUME KernelAssumption, TypeOK, Steady, GoalInv, PlaceInv, [Next]_vars PROVE GoalInv' /\ PlaceInv'
  <1> USE DEF GoalInv, PlaceInv, Stages, stores, kernelTree, driverTree, trees, staged, history
  <1>n. /\ None \notin KernelTrees \cup DriverTrees \cup Cfgs \cup KernelBuilds \cup Modules \cup Stages
        /\ Asks \subseteq Wants /\ Foreign \subseteq Wants
    BY DEF KernelAssumption
  <1>t. /\ stage \in Stages \cup {None} /\ goal \in {"kernel", "dtb", "kmod", None}
        /\ ktree \in KernelTrees \cup {None} /\ config \in Cfgs \cup {None} /\ symvers \in KernelBuilds \cup {None}
        /\ dtree \in DriverTrees \cup {None}
    BY DEF TypeOK
  <1>a. pc # "idle" => asked.pin \in Pins /\ asked.drv \in Drivers /\ asked.tool \in Tools
    BY Keys DEF Steady, TypeOK
  <1>w. pc # "idle" => asked.pin # None /\ asked.drv # None
    BY <1>a, <1>n DEF KernelTrees, DriverTrees
  <1>c. pc = "compile" => Compiled # None
    BY <1>a, <1>n, <1>t DEF Compiled, KernelBuilds
  <1>1. ASSUME NEW s \in Stages, Begin(s) PROVE GoalInv' /\ PlaceInv'
    BY ONLY <1>1, <1>n DEF Begin
  <1>2. CASE RestoreKernel
    BY ONLY <1>2, <1>n, <1>t, GoalInv, PlaceInv DEF RestoreKernel, KernelDone
  <1>3. CASE PrepareTree
    BY ONLY <1>3, GoalInv, PlaceInv DEF PrepareTree, ModuleTreeReady, TreeFresh
  <1>4. CASE CloneTree
    BY ONLY <1>4, <1>w, GoalInv, PlaceInv DEF CloneTree
  <1>5. CASE StampTree
    BY ONLY <1>5, GoalInv, PlaceInv DEF StampTree
  <1>6. CASE Configure
    <2>1. want.cfg # None
      BY Keys, <1>n DEF TypeOK
    <2> QED BY ONLY <1>6, <2>1, GoalInv, PlaceInv DEF Configure
  <1>7. CASE Compile
    BY ONLY <1>7, <1>c, <1>n, <1>t, GoalInv, PlaceInv DEF Compile
  <1>8. CASE CompileDtb
    BY ONLY <1>8, GoalInv, PlaceInv DEF CompileDtb
  <1>9. CASE Collect
    BY ONLY <1>9, GoalInv, PlaceInv DEF Collect
  <1>10. CASE StoreKernel
    BY ONLY <1>10, <1>n, <1>t, GoalInv, PlaceInv DEF StoreKernel, KernelDone
  <1>11. CASE Probe
    BY ONLY <1>11, GoalInv, PlaceInv DEF Probe
  <1>12. CASE PrepareDriver
    BY ONLY <1>12, GoalInv, PlaceInv DEF PrepareDriver, DriverReady, DriverFresh
  <1>13. CASE FetchDriver
    BY ONLY <1>13, <1>w, GoalInv, PlaceInv DEF FetchDriver
  <1>14. CASE StampDriver
    BY ONLY <1>14, GoalInv, PlaceInv DEF StampDriver, DriverReady
  <1>15. CASE BuildModule
    <2>1. mdeb' # None
      BY <1>15, <1>a, <1>n, <1>t, MadeModule DEF BuildModule
    <2> QED BY ONLY <1>15, <2>1, GoalInv, PlaceInv DEF BuildModule
  <1>16. CASE PackageFirmware
    BY ONLY <1>16, GoalInv, PlaceInv DEF PackageFirmware
  <1>17. CASE Ended
    BY ONLY <1>17, <1>n DEF Ended
  <1>18. ASSUME NEW w \in Wants, Edit(w) PROVE GoalInv' /\ PlaceInv'
    BY ONLY <1>18, GoalInv, PlaceInv DEF Edit
  <1>19. ASSUME NEW w \in Wants, OtherRecipe(w) PROVE GoalInv' /\ PlaceInv'
    BY ONLY <1>19, GoalInv, PlaceInv DEF OtherRecipe
  <1>20. CASE UNCHANGED vars
    BY ONLY <1>20, GoalInv, PlaceInv DEF vars
  <1> HIDE DEF GoalInv, PlaceInv
  <1> QED
    BY <1>1, <1>2, <1>3, <1>4, <1>5, <1>6, <1>7, <1>8, <1>9, <1>10, <1>11, <1>12, <1>13, <1>14, <1>15, <1>16, <1>17,
       <1>18, <1>19, <1>20, <1>n
    DEF Next, Step, EndRun, Stop, CloneFails, ConfigureFails, FetchFails, CompileFails, RefreshCut, DriverCut
-----------------------------------------------------------------------------
\* What a put of the right thing leaves honest.
LEMMA StoreKeeps ==
    ASSUME TypeOK, StoresHonest
    PROVE  /\ \A k \in Kernels : kstore' = Put(kstore, k, k) => \A j \in Kernels : kstore'[j] \in {None, j}
           /\ \A k \in ModuleKeys, m \in Modules :
                 mstore' = Put(mstore, k, m) /\ ModuleIs(m, k.drv, k.tool, k.pin) =>
                 \A j \in ModuleKeys : mstore'[j] # None => ModuleIs(mstore'[j], j.drv, j.tool, j.pin)
           /\ \A d \in Drivers : fstore' = Put(fstore, d, d) => \A j \in Drivers : fstore'[j] \in {None, j}
  <1>1. /\ kstore \in [Kernels -> KernelBuilds \cup {None}]
        /\ mstore \in [ModuleKeys -> Modules \cup {None}]
        /\ fstore \in [Drivers -> DriverTrees \cup {None}]
    BY DEF TypeOK
  <1>2. /\ \A j \in Kernels : kstore[j] \in {None, j}
        /\ \A j \in ModuleKeys : mstore[j] # None => ModuleIs(mstore[j], j.drv, j.tool, j.pin)
        /\ \A j \in Drivers : fstore[j] \in {None, j}
    BY DEF StoresHonest, ModuleIs
  <1>3. ASSUME NEW k \in Kernels, kstore' = Put(kstore, k, k), NEW j \in Kernels PROVE kstore'[j] \in {None, j}
    <2>1. kstore'[j] = kstore[j] \/ (j = k /\ kstore'[j] = k)
      BY ONLY <1>1, <1>3, PutValue
    <2> QED BY ONLY <1>2, <2>1
  <1>4. ASSUME NEW k \in ModuleKeys, NEW m \in Modules, mstore' = Put(mstore, k, m),
               ModuleIs(m, k.drv, k.tool, k.pin), NEW j \in ModuleKeys, mstore'[j] # None
        PROVE  ModuleIs(mstore'[j], j.drv, j.tool, j.pin)
    <2>1. mstore'[j] = mstore[j] \/ (j = k /\ mstore'[j] = m)
      BY ONLY <1>1, <1>4, PutValue
    <2> QED BY ONLY <1>2, <1>4, <2>1
  <1>5. ASSUME NEW d \in Drivers, fstore' = Put(fstore, d, d), NEW j \in Drivers PROVE fstore'[j] \in {None, j}
    <2>1. fstore'[j] = fstore[j] \/ (j = d /\ fstore'[j] = d)
      BY ONLY <1>1, <1>5, PutValue
    <2> QED BY ONLY <1>2, <2>1
  <1> QED BY <1>3, <1>4, <1>5

LEMMA KernelInductive ==
    ASSUME KernelAssumption, ~LiveEdits, KernelInv, [Next]_vars PROVE KernelInv'
  <1> USE DEF stores, kernelTree, driverTree, trees, staged, history
  <1>y. TypeOK /\ Steady /\ GoalInv /\ PlaceInv
    BY DEF KernelInv
  <1>t. TypeOK' /\ GoalInv' /\ PlaceInv'
    BY <1>y, KernelTypes, KernelPlaces
  <1>s. Steady'
    BY <1>y
    DEF Steady, Next, Step, Begin, RestoreKernel, PrepareTree, CloneTree, StampTree, Configure, Compile, CompileDtb, Collect,
        StoreKernel, Probe, PrepareDriver, FetchDriver, StampDriver, BuildModule, PackageFirmware, EndRun, Stop, CloneFails,
        ConfigureFails, FetchFails, CompileFails, RefreshCut, DriverCut, Ended, Edit, OtherRecipe, vars
  <1>m. ~Excused' => ~Excused
    BY <1>y
    DEF TypeOK, Excused, Next, Step, Begin, RestoreKernel, PrepareTree, CloneTree, StampTree, Configure, Compile, CompileDtb,
        Collect, StoreKernel, Probe, PrepareDriver, FetchDriver, StampDriver, BuildModule, PackageFirmware, EndRun, Stop,
        CloneFails, ConfigureFails, FetchFails, CompileFails, RefreshCut, DriverCut, Ended, Edit, OtherRecipe, vars
  <1> SUFFICES ASSUME ~Excused' PROVE Sound'
    BY <1>t, <1>s DEF KernelInv
  <1>i. ~Excused /\ StampInv /\ StagedInv /\ StoresHonest
    BY <1>m DEF KernelInv, Sound
  <1>n. /\ None \notin KernelTrees \cup DriverTrees \cup KernelBuilds \cup Modules \cup Stages
        /\ Partial \notin Pins \cup Drivers /\ Asks \subseteq Wants /\ Foreign \subseteq Wants
        /\ Pins \subseteq Nat /\ Drivers \subseteq Nat
    BY DEF KernelAssumption
  <1>w. /\ want.pin \in Nat /\ want.drv \in Nat /\ want.pin # None /\ want.drv # None
        /\ kstamp \in Nat \cup {None} /\ dstamp \in Nat \cup {None} /\ cut \in BOOLEAN /\ returned \in BOOLEAN
    BY <1>y, <1>n, Keys DEF TypeOK, KernelTrees, DriverTrees
  <1>a. pc # "idle" => /\ asked \in Wants /\ asked = want
                       /\ KernelOf(asked) \in Kernels /\ KernelOf(asked).pin = asked.pin
                       /\ ModuleKeyOf(asked) \in ModuleKeys /\ asked.drv \in Drivers /\ asked.tool \in Tools
                       /\ asked.pin \in Pins /\ asked.pin # Partial /\ asked.drv # Partial
                       /\ asked.pin # None /\ asked.drv # None
                       /\ ModuleKeyOf(asked).pin = asked.pin /\ ModuleKeyOf(asked).drv = asked.drv
                       /\ ModuleKeyOf(asked).tool = asked.tool
    BY <1>y, <1>n, Keys DEF Steady, TypeOK, KernelTrees, DriverTrees
  <1>c. pc = "compile" => Compiled = KernelOf(asked) /\ Compiled.pin = ktree /\ Compiled # None
    BY <1>a, <1>i, <1>n DEF Compiled, KernelOf, Kernels, StampInv, KernelBuilds, KernelTrees
  <1>h. UNCHANGED stores => StoresHonest'
    BY <1>i DEF StoresHonest
  \* However a run ends, it has nothing in hand.
  <1>e. Ended => StagedInv'
    BY ONLY <1>n DEF Ended, StagedInv, Stages
  \* A step that leaves both trees and the lock alone leaves their stamps as true as they were.
  <1>k. UNCHANGED <<want, kernelTree, history>> /\ pc # "stamp" /\ pc' # "stamp" =>
            Trusted(kstamp, ktree, want.pin, pc = "stamp")' /\ (ktree # Partial /\ symvers # None => symvers.pin = ktree)'
    BY <1>i DEF StampInv, Trusted
  <1>d. UNCHANGED <<want, driverTree, history>> /\ pc # "mark" /\ pc' # "mark" => Trusted(dstamp, dtree, want.drv, pc = "mark")'
    BY <1>i DEF StampInv, Trusted
  <1>1. ASSUME NEW s \in Stages, Begin(s) PROVE Sound'
    <2>1. /\ asked' = want /\ want' = want /\ stage' = s /\ UNCHANGED <<stores, trees, history>>
          /\ goal' = (IF s = "all" THEN "kernel" ELSE s)
          /\ pc = "idle" /\ pc' \in {"restore", "tree", "probe"}
          /\ pc' = "restore" => s \in {"kernel", "all"}
          /\ pc' = "probe" <=> s = "kmod"
      BY <1>1 DEF Begin, Stages
    <2>2. StampInv' /\ StagedInv'
      BY ONLY <2>1, <1>k, <1>d DEF StampInv, StagedInv, Stages
    <2> QED BY <1>h, <2>1, <2>2 DEF Sound
  <1>2. CASE RestoreKernel
    <2>1. kstore[KernelOf(asked)] \in {None, KernelOf(asked)}
      BY <1>2, <1>a, <1>i DEF RestoreKernel, StoresHonest
    <2>2. StampInv' /\ StagedInv'
      BY ONLY <1>2, <1>i, <1>y, <1>k, <1>d, <2>1 DEF RestoreKernel, KernelDone, GoalInv, StampInv, StagedInv
    <2> QED BY <1>2, <1>h, <2>2 DEF RestoreKernel, Sound
  <1>3. CASE PrepareTree
    <2>1. TreeFresh => ktree = asked.pin
      <3>1. TreeFresh => Trusted(asked.pin, ktree, asked.pin, FALSE) /\ ktree # None /\ asked.pin \in Nat /\ asked.pin # None
        BY <1>3, <1>i, <1>a, <1>n DEF PrepareTree, TreeFresh, StampInv
      <3> QED BY <3>1, <1>i, TrustedIsTrue
    <2>2. Trusted(kstamp, ktree, want.pin, pc = "stamp")' /\ (ktree # Partial /\ symvers # None => symvers.pin = ktree)'
      <3>1. CASE UNCHANGED kernelTree
        BY <1>3, <1>k, <3>1 DEF PrepareTree
      <3>2. CASE ~TreeFresh /\ ktree' = None /\ symvers' = None /\ UNCHANGED kstamp
        <4>1. ~returned => kstamp = None \/ kstamp < want.pin
          BY <1>3, <1>i, <1>a, <3>2 DEF PrepareTree, StampInv, Trusted, TreeFresh
        <4> QED BY <1>3, <3>2, <4>1 DEF PrepareTree, Trusted
      <3> QED BY <1>3, <3>1, <3>2 DEF PrepareTree
    <2>3. StampInv'
      BY ONLY <1>3, <1>i, <1>d, <2>1, <2>2 DEF PrepareTree, ModuleTreeReady, StampInv
    <2>4. StagedInv'
      BY ONLY <1>3, <1>i, <1>y DEF PrepareTree, GoalInv, StagedInv
    <2> QED BY <1>3, <1>h, <2>3, <2>4 DEF PrepareTree, Sound
  <1>4. CASE CloneTree
    <2>1. Trusted(kstamp, ktree, want.pin, pc = "stamp")' /\ (ktree # Partial /\ symvers # None => symvers.pin = ktree)'
      <3>1. ~returned => kstamp = None \/ kstamp < want.pin
        BY <1>4, <1>i, <1>w, <1>y DEF CloneTree, StampInv, Trusted, PlaceInv
      <3>2. symvers = None
        BY <1>4, <1>y DEF CloneTree, PlaceInv
      <3> QED BY <1>4, <3>1, <3>2 DEF CloneTree, Trusted
    <2>2. StampInv' /\ StagedInv'
      BY ONLY <1>4, <1>i, <1>y, <1>d, <2>1 DEF CloneTree, GoalInv, StampInv, StagedInv
    <2> QED BY <1>4, <1>h, <2>2 DEF CloneTree, Sound
  <1>5. CASE StampTree
    <2>1. Trusted(kstamp, ktree, want.pin, pc = "stamp")' /\ (ktree # Partial /\ symvers # None => symvers.pin = ktree)'
      BY <1>5, <1>i, <1>a DEF StampTree, StampInv, Trusted
    <2>2. StampInv' /\ StagedInv'
      BY ONLY <1>5, <1>i, <1>y, <1>d, <2>1 DEF StampTree, GoalInv, StampInv, StagedInv
    <2> QED BY <1>5, <1>h, <2>2 DEF StampTree, Sound
  <1>6. CASE Configure
    <2>1. Trusted(kstamp, ktree, want.pin, pc = "stamp")' /\ (ktree # Partial /\ symvers # None => symvers.pin = ktree)'
      BY ONLY <1>6, <1>i DEF Configure, StampInv, Trusted
    <2>2. StampInv' /\ StagedInv'
      BY ONLY <1>6, <1>i, <1>y, <1>a, <1>d, <2>1 DEF Configure, GoalInv, StampInv, StagedInv
    <2> QED BY <1>6, <1>h, <2>2 DEF Configure, Sound
  <1>7. CASE Compile
    <2>1. goal = "kernel" => Beside(Before) = {KernelOf(asked)}
      BY <1>7, <1>c DEF Compile, Beside, Before, Swept
    <2>2. Trusted(kstamp, ktree, want.pin, pc = "stamp")' /\ (ktree # Partial /\ symvers # None => symvers.pin = ktree)'
      BY ONLY <1>7, <1>i, <1>c DEF Compile, StampInv, Trusted
    <2>3. StampInv' /\ StagedInv'
      BY ONLY <1>7, <1>i, <1>y, <1>d, <2>1, <2>2 DEF Compile, GoalInv, StampInv, StagedInv
    <2> QED BY <1>7, <1>h, <2>3 DEF Compile, Sound
  <1>8. CASE CompileDtb
    <2>1. StampInv' /\ StagedInv'
      BY ONLY <1>8, <1>i, <1>k, <1>d DEF CompileDtb, StampInv, StagedInv
    <2> QED BY <1>8, <1>h, <2>1 DEF CompileDtb, Sound
  <1>9. CASE Collect
    <2>1. StampInv' /\ StagedInv'
      BY ONLY <1>9, <1>i, <1>y, <1>k, <1>d DEF Collect, GoalInv, StampInv, StagedInv
    <2> QED BY <1>9, <1>h, <2>1 DEF Collect, Sound
  <1>10. CASE StoreKernel
    <2>1. StampInv' /\ StagedInv'
      BY ONLY <1>10, <1>i, <1>y, <1>k, <1>d DEF StoreKernel, KernelDone, GoalInv, StampInv, StagedInv
    <2>2. kstore' = Put(kstore, KernelOf(asked), KernelOf(asked)) /\ KernelOf(asked) \in Kernels /\ UNCHANGED <<mstore, fstore>>
      BY <1>10, <1>a, <1>i DEF StoreKernel, StagedInv
    <2>3. StoresHonest'
      BY <2>2, <1>i, <1>y, StoreKeeps DEF StoresHonest
    <2> QED BY <2>1, <2>3 DEF Sound
  <1>11. CASE Probe
    <2>1. /\ mdeb' # None => ModuleIs(mdeb', asked.drv, asked.tool, asked.pin)
          /\ fdeb' \in {None, asked.drv}
      BY <1>11, <1>a, <1>i DEF Probe, StoresHonest, ModuleIs
    <2>2. /\ pc' \in {"done", "driver"} /\ (pc' = "done" => mdeb' # None /\ fdeb' # None)
          /\ UNCHANGED <<want, asked, trees, stage, goal, kdeb, history>> /\ goal = "kmod" /\ pc = "probe"
      BY ONLY <1>11, <1>y DEF Probe, GoalInv
    <2>3. StampInv' /\ StagedInv'
      BY ONLY <2>1, <2>2, <1>i, <1>k, <1>d DEF StampInv, StagedInv
    <2> QED BY <1>11, <1>h, <2>3 DEF Probe, Sound
  <1>12. CASE PrepareDriver
    <2>1. DriverFresh => dtree = asked.drv
      <3>1. DriverFresh => Trusted(asked.drv, dtree, asked.drv, FALSE) /\ dtree # None /\ asked.drv \in Nat /\ asked.drv # None
        BY <1>12, <1>i, <1>a, <1>n DEF PrepareDriver, DriverFresh, StampInv
      <3> QED BY <3>1, <1>i, TrustedIsTrue
    <2>2. Trusted(dstamp, dtree, want.drv, pc = "mark")'
      <3>1. CASE UNCHANGED driverTree /\ pc' # "mark"
        BY <1>12, <1>d, <3>1 DEF PrepareDriver
      <3>2. CASE ~DriverFresh /\ dtree' = None /\ UNCHANGED dstamp
        <4>1. ~returned => dstamp = None \/ dstamp < want.drv
          BY <1>12, <1>i, <1>a, <3>2 DEF PrepareDriver, StampInv, Trusted, DriverFresh
        <4> QED BY <1>12, <3>2, <4>1 DEF PrepareDriver, Trusted
      <3> QED BY <1>12, <3>1, <3>2 DEF PrepareDriver, DriverReady
    <2>3. StampInv'
      BY ONLY <1>12, <1>i, <1>k, <2>1, <2>2 DEF PrepareDriver, DriverReady, StampInv
    <2>4. StagedInv'
      BY ONLY <1>12, <1>i, <1>y DEF PrepareDriver, DriverReady, GoalInv, StagedInv
    <2> QED BY <1>12, <1>h, <2>3, <2>4 DEF PrepareDriver, Sound
  <1>13. CASE FetchDriver
    <2>1. Trusted(dstamp, dtree, want.drv, pc = "mark")'
      <3>1. ~returned => dstamp = None \/ dstamp < want.drv
        BY <1>13, <1>i, <1>w, <1>y DEF FetchDriver, StampInv, Trusted, PlaceInv
      <3> QED BY <1>13, <3>1 DEF FetchDriver, Trusted
    <2>2. StampInv' /\ StagedInv'
      BY ONLY <1>13, <1>i, <1>y, <1>k, <2>1 DEF FetchDriver, GoalInv, StampInv, StagedInv
    <2> QED BY <1>13, <1>h, <2>2 DEF FetchDriver, Sound
  <1>14. CASE StampDriver
    <2>1. Trusted(dstamp, dtree, want.drv, pc = "mark")'
      BY <1>14, <1>i, <1>a DEF StampDriver, StampInv, Trusted, DriverReady
    <2>2. StampInv' /\ StagedInv'
      BY ONLY <1>14, <1>i, <1>y, <1>k, <2>1 DEF StampDriver, DriverReady, GoalInv, StampInv, StagedInv
    <2> QED BY <1>14, <1>h, <2>2 DEF StampDriver, Sound
  <1>15. CASE BuildModule
    <2>1. /\ dtree = asked.drv /\ asked.drv \in DriverTrees /\ asked.tool \in Tools
          /\ symvers \in KernelBuilds /\ symvers.pin = asked.pin
      BY <1>15, <1>a, <1>i, <1>y DEF BuildModule, GoalInv, PlaceInv, StampInv, TypeOK, DriverTrees
    <2>2. mdeb' \in Modules /\ ModuleIs(mdeb', asked.drv, asked.tool, asked.pin)
      BY <1>15, <2>1, MadeModule DEF BuildModule
    <2>3. /\ pc' \in {"firmware", "done"} /\ (pc' = "done" => fdeb # None) /\ pc = "module" /\ goal = "kmod"
          /\ UNCHANGED <<want, asked, trees, stage, goal, kdeb, fdeb, history>>
      BY ONLY <1>15, <1>y DEF BuildModule, GoalInv
    <2>4. StampInv' /\ StagedInv'
      BY ONLY <1>i, <1>n, <1>k, <1>d, <2>1, <2>2, <2>3 DEF StampInv, StagedInv
    <2>5. mstore' = Put(mstore, ModuleKeyOf(asked), mdeb') /\ UNCHANGED <<kstore, fstore>>
      BY <1>15 DEF BuildModule
    <2>6. \A j \in ModuleKeys : mstore'[j] # None => ModuleIs(mstore'[j], j.drv, j.tool, j.pin)
      <3>1. ModuleKeyOf(asked) \in ModuleKeys /\ ModuleKeyOf(asked).drv = asked.drv
            /\ ModuleKeyOf(asked).tool = asked.tool /\ ModuleKeyOf(asked).pin = asked.pin
        BY <1>a, <2>3
      <3> QED BY ONLY <1>i, <1>y, <2>2, <2>5, <3>1, StoreKeeps
    <2>7. StoresHonest'
      BY <2>5, <2>6, <1>i DEF StoresHonest, ModuleIs
    <2> QED BY <2>4, <2>7 DEF Sound
  <1>16. CASE PackageFirmware
    <2>1. dtree = asked.drv /\ asked.drv \in Drivers /\ asked.drv # None
      BY <1>16, <1>a, <1>i DEF PackageFirmware, StampInv
    <2>2. StampInv' /\ StagedInv'
      BY ONLY <1>16, <1>i, <1>y, <1>k, <1>d, <2>1 DEF PackageFirmware, GoalInv, PlaceInv, StampInv, StagedInv
    <2>3. fstore' = Put(fstore, asked.drv, asked.drv) /\ UNCHANGED <<kstore, mstore>>
      BY <1>16, <2>1 DEF PackageFirmware
    <2>4. StoresHonest'
      BY <2>1, <2>3, <1>i, <1>y, StoreKeeps DEF StoresHonest
    <2> QED BY <2>2, <2>4 DEF Sound
  <1>17. CASE EndRun \/ Stop
    <2>1. Ended /\ UNCHANGED <<want, stores, trees, history>> /\ pc \notin {"stamp", "mark"}
      BY <1>17 DEF EndRun, Stop
    <2>2. StampInv'
      BY ONLY <2>1, <1>k, <1>d DEF Ended, StampInv
    <2> QED BY <1>h, <1>e, <2>1, <2>2 DEF Sound
  <1>18. CASE CloneFails \/ FetchFails
    <2>1. Ended /\ UNCHANGED <<want, stores, trees, history>> /\ pc \notin {"stamp", "mark"}
      BY <1>18 DEF CloneFails, FetchFails
    <2>2. StampInv'
      BY ONLY <2>1, <1>k, <1>d DEF Ended, StampInv
    <2> QED BY <1>h, <1>e, <2>1, <2>2 DEF Sound
  <1>19. CASE ConfigureFails \/ CompileFails
    <2>1. /\ Ended /\ UNCHANGED <<want, stores, kstamp, ktree, driverTree, history>> /\ pc \in {"configure", "compile"}
          /\ symvers' # None => symvers'.pin = ktree
      BY <1>19, <1>c DEF ConfigureFails, CompileFails
    <2>2. Trusted(kstamp, ktree, want.pin, pc = "stamp")'
      BY ONLY <2>1, <1>i DEF Ended, StampInv, Trusted
    <2>3. StampInv'
      BY ONLY <2>1, <2>2, <1>d DEF Ended, StampInv
    <2> QED BY <1>h, <1>e, <2>1, <2>3 DEF Sound
  <1>20. CASE RefreshCut
    <2>1. Ended /\ cut' /\ ~returned' /\ ~returned /\ UNCHANGED <<want, stores, driverTree>> /\ pc # "mark"
      BY <1>20, <1>w DEF RefreshCut, Excused
    <2>2. ktree' # Partial => pc = "stamp" /\ UNCHANGED <<ktree, symvers>>
      BY <1>20 DEF RefreshCut
    <2>3. kstamp' = None \/ kstamp' < want.pin \/ (kstamp' = want.pin /\ ktree' = kstamp')
      <3>1. CASE pc = "tree" /\ ktree # None /\ ~TreeFresh /\ UNCHANGED kstamp
        BY <3>1, <2>1, <1>i, <1>a DEF StampInv, Trusted, TreeFresh
      <3>2. CASE pc = "clone" /\ UNCHANGED kstamp
        BY <3>2, <2>1, <1>i, <1>w, <1>y DEF StampInv, Trusted, PlaceInv
      <3>3. CASE pc = "stamp" /\ kstamp' \in {kstamp, None} /\ UNCHANGED ktree
        BY <3>3, <2>1, <1>i DEF StampInv, Trusted
      <3> QED BY <1>20, <3>1, <3>2, <3>3 DEF RefreshCut
    <2>4. StampInv'
      BY ONLY <2>1, <2>2, <2>3, <1>i DEF Ended, StampInv, Trusted
    <2> QED BY <1>h, <1>e, <2>1, <2>4 DEF Sound
  <1>21. CASE DriverCut
    <2>1. Ended /\ cut' /\ ~returned' /\ ~returned /\ UNCHANGED <<want, stores, kernelTree>> /\ pc # "stamp"
      BY <1>21, <1>w DEF DriverCut, Excused
    <2>2. dstamp' = None \/ dstamp' < want.drv \/ (dstamp' = want.drv /\ dtree' = dstamp')
      <3>1. CASE pc = "driver" /\ dtree # None /\ ~DriverFresh /\ UNCHANGED dstamp
        BY <3>1, <2>1, <1>i, <1>a DEF StampInv, Trusted, DriverFresh
      <3>2. CASE pc = "fetch" /\ UNCHANGED dstamp
        BY <3>2, <2>1, <1>i, <1>w, <1>y DEF StampInv, Trusted, PlaceInv
      <3>3. CASE pc = "mark" /\ dstamp' \in {dstamp, None} /\ UNCHANGED dtree
        BY <3>3, <2>1, <1>i DEF StampInv, Trusted
      <3> QED BY <1>21, <3>1, <3>2, <3>3 DEF DriverCut
    <2>3. StampInv'
      BY ONLY <2>1, <2>2, <1>i DEF Ended, StampInv, Trusted
    <2> QED BY <1>h, <1>e, <2>1, <2>3 DEF Sound
  <1>22. ASSUME NEW w \in Wants, Edit(w) PROVE Sound'
    <2>1. /\ pc = "idle" /\ want' = w /\ UNCHANGED <<asked, stores, trees, stage, goal, pc, staged, cut>>
          /\ returned' = (returned \/ w.pin < want.pin \/ w.drv < want.drv)
      BY <1>22 DEF Edit
    <2>2. w.pin \in Nat /\ w.drv \in Nat
      BY <1>n, Keys
    <2>3. /\ (~cut \/ ~returned')
          /\ ~returned' => ~returned /\ w.pin >= want.pin /\ w.drv >= want.drv
      <3>1. ~cut \/ ~returned'
        BY ONLY <2>1, ~Excused' DEF Excused
      <3>2. ~returned' => ~returned /\ ~(w.pin < want.pin) /\ ~(w.drv < want.drv)
        BY ONLY <2>1
      <3> QED BY <1>w, <2>2, <3>1, <3>2
    <2>4. Trusted(kstamp, ktree, want.pin, pc = "stamp")'
      BY ONLY <1>i, <1>w, <2>1, <2>2, <2>3 DEF StampInv, Trusted
    <2>5. Trusted(dstamp, dtree, want.drv, pc = "mark")'
      BY ONLY <1>i, <1>w, <2>1, <2>2, <2>3 DEF StampInv, Trusted
    <2>6. StampInv'
      BY ONLY <1>i, <2>1, <2>4, <2>5 DEF StampInv
    <2>7. StagedInv'
      BY ONLY <1>i, <2>1 DEF StagedInv
    <2> QED BY <1>h, <2>1, <2>6, <2>7 DEF Sound
  <1>23. ASSUME NEW w \in Wants, OtherRecipe(w) PROVE Sound'
    <2>1. UNCHANGED <<want, asked, trees, stage, goal, pc, staged, history>>
      BY <1>23 DEF OtherRecipe
    <2>2. StampInv' /\ StagedInv'
      BY ONLY <1>i, <2>1 DEF StampInv, StagedInv, Trusted
    <2>3. /\ kstore' = Put(kstore, KernelOf(w), KernelOf(w)) /\ mstore' = Put(mstore, ModuleKeyOf(w), ModulesOf(w))
          /\ fstore' = Put(fstore, w.drv, w.drv)
      BY <1>23 DEF OtherRecipe
    <2>4. /\ KernelOf(w) \in Kernels /\ w.drv \in Drivers /\ ModuleKeyOf(w) \in ModuleKeys
          /\ ModulesOf(w) \in Modules
          /\ ModuleIs(ModulesOf(w), ModuleKeyOf(w).drv, ModuleKeyOf(w).tool, ModuleKeyOf(w).pin)
      <3>1. KernelOf(w) \in KernelBuilds /\ w.drv \in DriverTrees
        BY Keys DEF Kernels, KernelBuilds, KernelTrees, DriverTrees
      <3> QED BY <3>1, Keys, MadeModule DEF ModulesOf
    <2>5. /\ \A j \in Kernels : kstore'[j] \in {None, j}
          /\ \A j \in Drivers : fstore'[j] \in {None, j}
      BY ONLY <1>i, <1>y, <2>3, <2>4, StoreKeeps
    <2>6. \A j \in ModuleKeys : mstore'[j] # None => ModuleIs(mstore'[j], j.drv, j.tool, j.pin)
      BY ONLY <1>i, <1>y, <2>3, <2>4, StoreKeeps
    <2>7. StoresHonest'
      BY ONLY <2>5, <2>6 DEF StoresHonest, ModuleIs
    <2> QED BY <2>2, <2>7 DEF Sound
  <1>24. CASE UNCHANGED vars
    BY <1>24, <1>i, <1>h DEF vars, Sound, StampInv, StagedInv, Trusted
  <1> QED
    BY <1>1, <1>2, <1>3, <1>4, <1>5, <1>6, <1>7, <1>8, <1>9, <1>10, <1>11, <1>12, <1>13, <1>14, <1>15, <1>16, <1>17, <1>18,
       <1>19, <1>20, <1>21, <1>22, <1>23, <1>24, <1>n
    DEF Next, Step

LEMMA KernelInitial == ASSUME KernelAssumption, Init PROVE KernelInv
  <1> USE DEF Init
  <1>1. /\ want \in Wants /\ KernelOf(want) \in Kernels /\ KernelOf(want) \in KernelBuilds /\ ModuleKeyOf(want) \in ModuleKeys
        /\ want.pin \in Pins /\ want.cfg \in Cfgs /\ want.drv \in Drivers /\ KernelOf(want).pin = want.pin
        /\ Kernels \subseteq KernelBuilds
    BY Keys DEF KernelAssumption, Kernels, KernelBuilds, KernelTrees
  <1>2. ModulesOf(want) \in Modules /\ ModuleIs(ModulesOf(want), want.drv, want.tool, want.pin)
    BY <1>1, Keys, MadeModule DEF ModulesOf, DriverTrees
  <1>3. TypeOK
    <2>1. kstore \in [Kernels -> KernelBuilds \cup {None}]
      BY <1>1
    <2>2. mstore \in [ModuleKeys -> Modules \cup {None}]
      BY <1>2
    <2>3. fstore \in [Drivers -> DriverTrees \cup {None}]
      BY <1>1 DEF DriverTrees
    <2>4. /\ kstamp \in Pins \cup {None} /\ ktree \in KernelTrees \cup {None} /\ config \in Cfgs \cup {None}
          /\ symvers \in KernelBuilds \cup {None} /\ wdebs \in SUBSET KernelBuilds
          /\ dstamp \in Drivers \cup {None} /\ dtree \in DriverTrees \cup {None}
      BY <1>1 DEF KernelTrees, DriverTrees
    <2>5. runs \in 0..MaxRuns
      BY DEF KernelAssumption
    <2> QED BY <1>1, <2>1, <2>2, <2>3, <2>4, <2>5 DEF TypeOK
  <1>4. StoresHonest
    BY <1>1, <1>2, Keys DEF StoresHonest, ModuleIs
  <1>5. None \notin Stages /\ None \notin KernelTrees \cup DriverTrees
    BY DEF KernelAssumption
  <1>6. Steady /\ GoalInv /\ PlaceInv /\ StampInv /\ StagedInv
    BY <1>1, <1>5 DEF Steady, GoalInv, PlaceInv, StampInv, StagedInv, Trusted, Stages
  <1> QED BY <1>3, <1>4, <1>6 DEF KernelInv, Sound

\* While nobody edits the fragments under a run, every entry of the stores holds what its key
\* names and a run that succeeds has staged what it was asked for: whatever trees were reused,
\* wherever runs failed or were killed, inside the refresh of a tree too, and whatever other
\* recipes stored; unless a refresh was cut short and a pin has gone back.
THEOREM KernelStagesHonest ==
    ASSUME KernelAssumption, ~LiveEdits
    PROVE  Spec => [](TypeOK /\ KernelStagesAreHonest)
  <1>1. Init => KernelInv
    BY KernelInitial
  <1>2. KernelInv /\ [Next]_vars => KernelInv'
    BY KernelInductive
  <1>3. KernelInv => TypeOK /\ KernelStagesAreHonest
    <2> SUFFICES ASSUME KernelInv, ~Excused PROVE StoresHonest /\ StagesWhatItAsked
      BY DEF KernelInv, KernelStagesAreHonest, Excused
    <2> QED BY DEF KernelInv, Sound, StagesWhatItAsked, GoalInv, StagedInv, ModuleIs
  <1> QED BY <1>1, <1>2, <1>3, PTL DEF Spec
=============================================================================
