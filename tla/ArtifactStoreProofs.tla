------------------------ MODULE ArtifactStoreProofs ------------------------
(***************************************************************************)
(* What the artifact store guarantees for every set of keys, files and     *)
(* processes.  HitIsWhole and PresentIsComplete are not inductive alone: a *)
(* hit is whole because of what the copy loop has done so far, and a       *)
(* published entry is complete because of what its temp held.  IndInv      *)
(* carries those facts from step to step.                                  *)
(***************************************************************************)
EXTENDS ArtifactStore, TLAPS

\* A directory filed under k holds bytes of k or nothing.
HoldsOnly(d, k) == d.man \in {None, k} /\ \A f \in Files : d.file[f] \in {None, k}

FullOf(d, k) == d.there /\ d.man = k /\ \A f \in Files : d.file[f] = k

EntryInv ==
    \A k \in Keys :
        /\ HoldsOnly(entry[k], k)
        /\ entry[k].there \/ IsEmptyDir(entry[k])
        /\ (entry[k].there /\ k \notin swept) => FullOf(entry[k], k)
        /\ entry[k].man # None => k \in published

\* What p's loops have established, by its place in the stage.
ProcInv(p) ==
    /\ pc[p] # "idle" => key[p] \in Keys
    /\ pc[p] \in {"check", "copy", "hit"} => key[p] \in published
    /\ pc[p] \in {"copy", "compile"} => \A f \in Files \ todo[p] : out[p][f] = key[p]
    /\ pc[p] = "check" => todo[p] = Files
    /\ IF pc[p] = "copy" THEN part[p] \in todo[p] \cup {None} ELSE part[p] = None
    /\ pc[p] \in {"hit", "copyin"} => \A f \in Files : out[p][f] = key[p]
    /\ pc[p] = "copyin" =>
         /\ tmp[p][key[p]].there
         /\ \A f \in Files \ todo[p] : tmp[p][key[p]].file[f] = key[p]
    /\ pc[p] = "publish" => FullOf(tmp[p][key[p]], key[p])

IndInv == TypeOK /\ EntryInv /\ \A p \in Procs : ProcInv(p)

-----------------------------------------------------------------------------
(***************************************************************************)
(* What the directory operators return, so that the proofs below never     *)
(* look inside a record.                                                   *)
(***************************************************************************)
Contents == Keys \cup {None}

\* A fresh directory, there or not, is empty and well-typed.
LEMMA FreshDirs ==
    /\ NoDir \in Dirs /\ ~NoDir.there /\ NoDir.man = None
    /\ EmptyDir \in Dirs /\ EmptyDir.there /\ EmptyDir.man = None
    /\ \A f \in Files : NoDir.file[f] = None /\ EmptyDir.file[f] = None
  BY DEF NoDir, EmptyDir, Dirs

\* Setting the manifest touches nothing else.
LEMMA ManifestSet ==
    ASSUME NEW d \in Dirs, NEW k \in Contents
    PROVE  /\ WithManifest(d, k) \in Dirs
           /\ WithManifest(d, k).there = d.there
           /\ WithManifest(d, k).man = k
           /\ WithManifest(d, k).file = d.file
  BY DEF WithManifest, Dirs, Contents

\* Setting one file touches nothing else.
LEMMA FileSet ==
    ASSUME NEW d \in Dirs, NEW f \in Files, NEW c \in Contents
    PROVE  /\ WithFile(d, f, c) \in Dirs
           /\ WithFile(d, f, c).there = d.there
           /\ WithFile(d, f, c).man = d.man
           /\ \A g \in Files : WithFile(d, f, c).file[g] = IF g = f THEN c ELSE d.file[g]
  BY DEF WithFile, Dirs, Contents

\* An unlink only takes a part away.
LEMMA UnlinkShrinks ==
    ASSUME NEW d \in Dirs, NEW f \in Files \cup {None}
    PROVE  /\ Unlinked(d, f) \in Dirs
           /\ Unlinked(d, f).there = d.there
           /\ Unlinked(d, f).man \in {d.man, None}
           /\ \A g \in Files : Unlinked(d, f).file[g] \in {d.file[g], None}
<1>1. CASE f = None
  BY <1>1, ManifestSet DEF Unlinked, Contents
<1>2. CASE f # None
  BY <1>2, FileSet DEF Unlinked, Contents
<1> QED
  BY <1>1, <1>2

-----------------------------------------------------------------------------
\* Every action keeps the variables within their types.  A put copies what the
\* compile staged, so ProcInv is needed to know it is not a torn file.
LEMMA TypeInductive == ASSUME IndInv, [Next]_vars PROVE TypeOK'
<1> USE StoreAssumption DEF IndInv, TypeOK, Running, Ended, Goto, procVars, cleanVars
<1>1. ASSUME NEW p \in Procs, ReadManifest(p) PROVE TypeOK'
  BY <1>1 DEF ReadManifest
<1>2. ASSUME NEW p \in Procs, CheckFiles(p) PROVE TypeOK'
  BY <1>2 DEF CheckFiles
<1>3. ASSUME NEW p \in Procs, CopyClose(p) PROVE TypeOK'
  BY <1>3 DEF CopyClose
<1>4. ASSUME NEW p \in Procs, RestoreHit(p) PROVE TypeOK'
  BY <1>4 DEF RestoreHit
<1>5. ASSUME NEW p \in Procs, PutStart(p) PROVE TypeOK'
  <2>1. CASE Has(key[p])
    BY <1>5, <2>1 DEF PutStart
  <2>2. CASE ~Has(key[p])
    <3>1. /\ tmp' = [tmp EXCEPT ![p][key[p]] = EmptyDir]
          /\ todo' = [todo EXCEPT ![p] = Files]
          /\ Goto(p, "copyin")
          /\ UNCHANGED <<entry, out, key, part, cleanVars, published>>
      BY ONLY <1>5, <2>2 DEF PutStart
    <3>2. tmp' \in [Procs -> [Keys -> Dirs]]
      BY <3>1, FreshDirs
    <3> QED
      BY <3>1, <3>2
  <2> QED
    BY <2>1, <2>2
<1>6. ASSUME NEW p \in Procs, WriteManifest(p) PROVE TypeOK'
  BY <1>6, ManifestSet DEF WriteManifest, ProcInv, Contents
<1>7. ASSUME NEW p \in Procs, Publish(p) PROVE TypeOK'
  <2>1. CASE IsEmptyDir(entry[key[p]])
    <3>1. /\ entry' = [entry EXCEPT ![key[p]] = tmp[p][key[p]]]
          /\ tmp' = [tmp EXCEPT ![p][key[p]] = NoDir]
          /\ published' = published \cup {key[p]}
          /\ swept' = swept \ {key[p]}
          /\ Goto(p, "stored")
          /\ UNCHANGED <<out, key, todo, part, live, dead>>
      BY ONLY <1>7, <2>1 DEF Publish
    <3>2. tmp' \in [Procs -> [Keys -> Dirs]]
      BY <3>1, FreshDirs
    <3>3. key[p] \in Keys
      BY <1>7 DEF Publish, ProcInv
    <3> QED
      BY <3>1, <3>2, <3>3
  <2>2. CASE ~IsEmptyDir(entry[key[p]])
    BY <1>7, <2>2 DEF Publish
  <2> QED
    BY <2>1, <2>2
<1>8. ASSUME NEW p \in Procs, PublishLost(p) PROVE TypeOK'
  BY <1>8, FreshDirs DEF PublishLost
<1>9. ASSUME NEW p \in Procs, IoError(p) PROVE TypeOK'
  BY <1>9 DEF IoError
<1>10. ASSUME NEW p \in Procs, Crash(p) PROVE TypeOK'
  BY <1>10 DEF Crash
<1>11. ASSUME NEW p \in Procs, Return(p) PROVE TypeOK'
  BY <1>11 DEF Return
<1>12. ASSUME NEW p \in Procs, NEW f \in Files, CopyOpen(p, f) PROVE TypeOK'
  <2>1. CASE entry[key[p]].file[f] # None
    <3>1. /\ out' = [out EXCEPT ![p][f] = Torn]
          /\ part' = [part EXCEPT ![p] = f]
          /\ UNCHANGED <<pc, entry, tmp, key, todo, cleanVars, published>>
      BY ONLY <1>12, <2>1 DEF CopyOpen
    <3> QED
      BY <3>1
  <2>2. CASE ~(entry[key[p]].file[f] # None)
    BY <1>12, <2>2 DEF CopyOpen
  <2> QED
    BY <2>1, <2>2
<1>13. ASSUME NEW p \in Procs, NEW f \in Files, StageArtifact(p, f) PROVE TypeOK'
  BY <1>13 DEF StageArtifact
<1>14. ASSUME NEW p \in Procs, NEW f \in Files, CopyIn(p, f) PROVE TypeOK'
  BY <1>14, FileSet DEF CopyIn, ProcInv, Contents
<1>15. ASSUME NEW p \in Procs, NEW k \in Keys, NEW stale \in SUBSET Procs, Open(p, k, stale) PROVE TypeOK'
  BY <1>15, FreshDirs DEF Open
<1>16. ASSUME NEW keys \in SUBSET Keys, Relock(keys) PROVE TypeOK'
  BY <1>16 DEF Relock
<1>17. CASE CleanStart
  BY <1>17 DEF CleanStart
<1>18. CASE CleanAbort
  BY <1>18 DEF CleanAbort
<1>19. ASSUME NEW k \in Keys, CleanRmdir(k) PROVE TypeOK'
  BY <1>19, FreshDirs DEF CleanRmdir
<1>20. ASSUME NEW k \in Keys, NEW f \in Files \cup {None}, CleanUnlink(k, f) PROVE TypeOK'
  BY <1>20, UnlinkShrinks DEF CleanUnlink
<1>21. CASE UNCHANGED vars
  BY <1>21 DEF vars
<1> QED
  BY <1>1, <1>2, <1>3, <1>4, <1>5, <1>6, <1>7, <1>8, <1>9, <1>10, <1>11,
     <1>12, <1>13, <1>14, <1>15, <1>16, <1>17, <1>18, <1>19, <1>20, <1>21 DEF Next, Step, Clean

\* Only a publish and a clean change what the store holds.
LEMMA EntryInductive == ASSUME IndInv, [Next]_vars PROVE EntryInv'
<1> USE DEF IndInv, TypeOK, EntryInv
<1>1. ASSUME UNCHANGED <<entry, swept, published>> PROVE EntryInv'
  BY <1>1 DEF HoldsOnly, FullOf, IsEmptyDir
<1>2. ASSUME NEW p \in Procs, Publish(p) PROVE EntryInv'
  <2>1. CASE ~IsEmptyDir(entry[key[p]])
    BY <2>1, <1>2, <1>1 DEF Publish
  <2>2. CASE IsEmptyDir(entry[key[p]])
    <3>1. /\ entry' = [entry EXCEPT ![key[p]] = tmp[p][key[p]]]
          /\ published' = published \cup {key[p]}
          /\ swept' = swept \ {key[p]}
      BY ONLY <1>2, <2>2 DEF Publish
    <3>2. key[p] \in Keys /\ FullOf(tmp[p][key[p]], key[p])
      BY <1>2 DEF Publish, ProcInv
    <3> QED
      BY <3>1, <3>2 DEF HoldsOnly, FullOf, IsEmptyDir
  <2> QED
    BY <2>1, <2>2
<1>3. ASSUME NEW k \in Keys, CleanRmdir(k) PROVE EntryInv'
  BY <1>3, FreshDirs DEF CleanRmdir, HoldsOnly, FullOf, IsEmptyDir
<1>4. ASSUME NEW k \in Keys, NEW f \in Files \cup {None}, CleanUnlink(k, f) PROVE EntryInv'
  <2>1. /\ entry' = [entry EXCEPT ![k] = Unlinked(entry[k], f)]
        /\ swept' = swept \cup {k}
        /\ published' = published
    BY <1>4 DEF CleanUnlink
  <2>2. HoldsOnly(Unlinked(entry[k], f), k) /\ (IsEmptyDir(entry[k]) => IsEmptyDir(Unlinked(entry[k], f)))
    <3>1. entry[k] \in Dirs /\ HoldsOnly(entry[k], k)
      OBVIOUS
    <3> QED
      BY ONLY <3>1, UnlinkShrinks, f \in Files \cup {None} DEF HoldsOnly, IsEmptyDir
  <2>3. \A j \in Keys : j # k => entry'[j] = entry[j] /\ (j \in swept' <=> j \in swept)
    BY <2>1
  <2>4. entry'[k] = Unlinked(entry[k], f) /\ k \in swept'
    BY <2>1
  <2>5. entry'[k].there = entry[k].there /\ (entry'[k].man # None => k \in published)
    BY <2>4, UnlinkShrinks
  <2>6. ASSUME NEW j \in Keys
        PROVE  /\ HoldsOnly(entry'[j], j)
               /\ entry'[j].there \/ IsEmptyDir(entry'[j])
               /\ (entry'[j].there /\ j \notin swept') => FullOf(entry'[j], j)
               /\ entry'[j].man # None => j \in published
    <3>1. CASE j = k
      BY <3>1, <2>2, <2>4, <2>5
    <3>2. CASE j # k
      BY <3>2, <2>3
    <3> QED
      BY <3>1, <3>2
  <2> QED
    BY <2>1, <2>6 DEF HoldsOnly, FullOf, IsEmptyDir
<1> QED
  BY <1>1, <1>2, <1>3, <1>4
     DEF Next, Step, Clean, vars, procVars, cleanVars, ReadManifest, CheckFiles, CopyOpen,
         CopyClose, RestoreHit, StageArtifact, PutStart, CopyIn, WriteManifest, PublishLost,
         IoError, Crash, Return, Open, Relock, CleanStart, CleanAbort

\* A process keeps its invariant through a step that leaves its own state alone:
\* published keys stay published, and a stale-temp sweep spares a put.
Untouched(q) ==
    /\ pc'[q] = pc[q] /\ key'[q] = key[q] /\ todo'[q] = todo[q] /\ part'[q] = part[q]
    /\ out'[q] = out[q]
    /\ tmp'[q] = tmp[q] \/ ~InPut(q)
    /\ published \subseteq published'

LEMMA UntouchedKeeps ==
    ASSUME NEW q \in Procs, ProcInv(q), Untouched(q) PROVE ProcInv(q)'
  BY DEF ProcInv, Untouched, InPut, FullOf

\* A process's step, whatever it is, leaves the other processes untouched.
LEMMA OthersUntouched ==
    ASSUME IndInv, NEW p \in Procs, NEW q \in Procs, q # p,
           \/ Step(p) \/ IoError(p) \/ Crash(p) \/ Return(p)
           \/ \E k \in Keys, stale \in SUBSET Procs : Open(p, k, stale)
    PROVE  Untouched(q)
<1> USE DEF IndInv, TypeOK, Untouched, Goto, cleanVars
<1>1. CASE \E k \in Keys, stale \in SUBSET Procs : Open(p, k, stale)
  BY <1>1 DEF Open
<1>2. CASE ReadManifest(p) \/ CheckFiles(p) \/ CopyClose(p) \/ RestoreHit(p)
  BY <1>2 DEF ReadManifest, CheckFiles, CopyClose, RestoreHit
<1>3. ASSUME NEW f \in Files, CopyOpen(p, f) \/ StageArtifact(p, f) \/ CopyIn(p, f)
      PROVE  Untouched(q)
  BY <1>3 DEF CopyOpen, StageArtifact, CopyIn
<1>4. CASE PutStart(p) \/ WriteManifest(p) \/ PublishLost(p)
  BY <1>4 DEF PutStart, WriteManifest, PublishLost
<1>5. CASE Publish(p)
  BY <1>5 DEF Publish
<1>6. CASE IoError(p) \/ Crash(p) \/ Return(p)
  BY <1>6 DEF IoError, Crash, Return
<1> QED
  BY <1>1, <1>2, <1>3, <1>4, <1>5, <1>6 DEF Step

\* Each step of p establishes what ProcInv says at the place it leads to.
LEMMA OwnStep ==
    ASSUME IndInv, NEW p \in Procs,
           \/ Step(p) \/ IoError(p) \/ Crash(p) \/ Return(p)
           \/ \E k \in Keys, stale \in SUBSET Procs : Open(p, k, stale)
    PROVE  ProcInv(p)'
<1> USE StoreAssumption DEF IndInv, TypeOK, Goto, cleanVars, Running, Ended, ProcInv
<1>1. CASE \E k \in Keys, stale \in SUBSET Procs : Open(p, k, stale)
  BY <1>1 DEF Open
<1>2. CASE ReadManifest(p)
  BY <1>2 DEF ReadManifest, EntryInv
<1>3. CASE CheckFiles(p)
  BY <1>3 DEF CheckFiles
<1>4. CASE CopyClose(p)
  <2>1. part[p] \in todo[p] /\ part[p] \in Files /\ pc'[p] = "copy" /\ key' = key
    BY <1>4 DEF CopyClose
  <2>2. \A f \in Files : out'[p][f] = IF f = part[p] THEN key[p] ELSE out[p][f]
    BY <1>4, <2>1 DEF CopyClose
  <2>3. todo'[p] = todo[p] \ {part[p]} /\ part'[p] = None /\ published' = published
    BY <1>4 DEF CopyClose
  <2>4. \A f \in Files \ todo'[p] : out'[p][f] = key'[p]
    BY <1>4, <2>1, <2>2, <2>3 DEF CopyClose
  <2> QED
    BY <1>4, <2>1, <2>3, <2>4 DEF CopyClose
<1>5. CASE RestoreHit(p)
  BY <1>5 DEF RestoreHit
<1>6. ASSUME NEW f \in Files, CopyOpen(p, f) PROVE ProcInv(p)'
  BY <1>6 DEF CopyOpen
<1>7. ASSUME NEW f \in Files, StageArtifact(p, f) PROVE ProcInv(p)'
  BY <1>7 DEF StageArtifact
<1>8. ASSUME NEW f \in Files, CopyIn(p, f) PROVE ProcInv(p)'
  <2>1. /\ pc[p] = "copyin" /\ f \in todo[p] /\ key[p] \in Keys /\ out[p][f] \in Contents
        /\ pc' = pc /\ key' = key /\ out' = out /\ published' = published
        /\ todo'[p] = todo[p] \ {f}
    BY <1>8 DEF CopyIn, Contents
  <2>2. tmp'[p][key[p]] = WithFile(tmp[p][key[p]], f, out[p][f]) /\ tmp[p][key[p]] \in Dirs
    BY <1>8, <2>1 DEF CopyIn
  <2>3. /\ tmp'[p][key[p]].there
        /\ \A g \in Files \ todo'[p] : tmp'[p][key[p]].file[g] = key[p]
    <3>1. tmp[p][key[p]].there /\ \A g \in Files \ todo[p] : tmp[p][key[p]].file[g] = key[p]
      BY <2>1
    <3>2. out[p][f] = key[p]
      BY <2>1
    <3> QED
      BY ONLY <2>1, <2>2, <3>1, <3>2, FileSet, f \in Files
  <2>4. part'[p] = None
    BY <1>8, <2>1 DEF CopyIn
  <2> QED
    BY <2>1, <2>3, <2>4
<1>9. CASE PutStart(p)
  <2>1. /\ pc[p] = "compile" /\ todo[p] = {} /\ key[p] \in Keys /\ out' = out /\ key' = key
        /\ published' = published
    BY <1>9 DEF PutStart
  <2>2. \A f \in Files : out[p][f] = key[p]
    BY <2>1
  <2>3. CASE Has(key[p])
    BY <1>9, <2>1, <2>3 DEF PutStart
  <2>4. CASE ~Has(key[p])
    <3>1. tmp'[p][key[p]] = EmptyDir /\ todo'[p] = Files /\ pc'[p] = "copyin"
      BY <1>9, <2>1, <2>4 DEF PutStart
    <3>2. tmp'[p][key[p]].there /\ part'[p] = None
      BY <1>9, <2>1, <3>1, FreshDirs DEF PutStart
    <3> QED
      BY <2>1, <2>2, <3>1, <3>2
  <2> QED
    BY <2>3, <2>4
<1>10. CASE WriteManifest(p)
  <2>1. /\ pc[p] = "copyin" /\ todo[p] = {} /\ key[p] \in Keys
        /\ pc'[p] = "publish" /\ key' = key /\ published' = published
    BY <1>10 DEF WriteManifest
  <2>2. tmp'[p][key[p]] = WithManifest(tmp[p][key[p]], key[p]) /\ tmp[p][key[p]] \in Dirs
    BY <1>10, <2>1 DEF WriteManifest
  <2>3. tmp[p][key[p]].there /\ \A f \in Files : tmp[p][key[p]].file[f] = key[p]
    BY <2>1
  <2>4. FullOf(tmp'[p][key[p]], key[p])
    BY ONLY <2>1, <2>2, <2>3, ManifestSet DEF FullOf, Contents
  <2> QED
    BY <1>10, <2>1, <2>4 DEF FullOf, WriteManifest
<1>11. CASE Publish(p)
  BY <1>11 DEF Publish
<1>12. CASE PublishLost(p)
  BY <1>12 DEF PublishLost
<1>13. CASE IoError(p) \/ Crash(p) \/ Return(p)
  BY <1>13 DEF IoError, Crash, Return
<1> QED
  BY <1>1, <1>2, <1>3, <1>4, <1>5, <1>6, <1>7, <1>8, <1>9, <1>10, <1>11, <1>12, <1>13 DEF Step

LEMMA Inductive == ASSUME IndInv, [Next]_vars PROVE IndInv'
<1>1. TypeOK' /\ EntryInv'
  BY TypeInductive, EntryInductive
<1>2. ASSUME NEW q \in Procs PROVE ProcInv(q)'
  <2>1. ProcInv(q)
    BY DEF IndInv
  <2>2. ASSUME NEW p \in Procs,
               \/ Step(p) \/ IoError(p) \/ Crash(p) \/ Return(p)
               \/ \E k \in Keys, stale \in SUBSET Procs : Open(p, k, stale)
        PROVE  ProcInv(q)'
    <3>1. CASE q = p
      BY <2>2, <3>1, OwnStep
    <3>2. CASE q # p
      BY <2>1, <2>2, <3>2, OthersUntouched, UntouchedKeeps
    <3> QED
      BY <3>1, <3>2
  <2>3. CASE UNCHANGED <<tmp, out, procVars, published>>
    BY <2>1, <2>3, UntouchedKeeps DEF Untouched, procVars
  <2> QED
    BY <2>2, <2>3 DEF Next, Clean, Relock, CleanStart, CleanAbort, CleanRmdir, CleanUnlink, vars, procVars
<1> QED
  BY <1>1, <1>2 DEF IndInv

LEMMA Initially == Init => IndInv
  BY FreshDirs, StoreAssumption
     DEF Init, IndInv, TypeOK, EntryInv, ProcInv, HoldsOnly, IsEmptyDir, FullOf, Running, Ended

\* The inductive invariant of the store.
THEOREM Invariance == Spec => []IndInv
<1>1. IndInv /\ UNCHANGED vars => IndInv'
  BY Inductive
<1> QED
  BY Initially, Inductive, <1>1, PTL DEF Spec

\* The variables keep their types; in particular no put ever stores a torn file.
THEOREM TypeCorrect == Spec => []TypeOK
<1>1. IndInv => TypeOK
  BY DEF IndInv
<1> QED
  BY Invariance, <1>1, PTL

\* A restore that reports a hit has delivered every file of its key, however the
\* clean and the other processes move (artstore.rs restore).
THEOREM HitsAreWhole == Spec => []HitIsWhole
<1>1. IndInv => HitIsWhole
  BY DEF IndInv, ProcInv, HitIsWhole
<1> QED
  BY Invariance, <1>1, PTL

\* An entry that no clean has begun to remove is complete (artstore.rs put).
THEOREM EntriesAreComplete == Spec => []PresentIsComplete
<1>1. IndInv => PresentIsComplete
  BY DEF IndInv, EntryInv, FullOf, PresentIsComplete, Complete, Readable
<1> QED
  BY Invariance, <1>1, PTL

-----------------------------------------------------------------------------
\* A store step either leaves an entry, publishes a whole one where nothing was,
\* or removes a part of one.
EntryStep ==
    \A k \in Keys :
        \/ entry'[k] = entry[k]
        \/ IsEmptyDir(entry[k]) /\ Complete(k)'
        \/ /\ entry'[k].man \in {entry[k].man, None}
           /\ \A f \in Files : entry'[k].file[f] \in {entry[k].file[f], None}

LEMMA EveryStepIsEntryStep == ASSUME IndInv, [Next]_vars PROVE EntryStep
<1> USE DEF IndInv, TypeOK, EntryStep
<1>1. CASE UNCHANGED entry
  BY <1>1
<1>2. ASSUME NEW p \in Procs, Publish(p), entry' # entry PROVE EntryStep
  <2>1. entry' = [entry EXCEPT ![key[p]] = tmp[p][key[p]]] /\ IsEmptyDir(entry[key[p]])
    BY <1>2 DEF Publish
  <2>2. key[p] \in Keys /\ FullOf(tmp[p][key[p]], key[p])
    BY <1>2 DEF Publish, ProcInv
  <2> QED
    BY <2>1, <2>2 DEF Complete, Readable, FullOf
<1>3. ASSUME NEW k \in Keys, CleanRmdir(k) PROVE EntryStep
  BY <1>3, FreshDirs DEF CleanRmdir
<1>4. ASSUME NEW k \in Keys, NEW f \in Files \cup {None}, CleanUnlink(k, f) PROVE EntryStep
  <2>1. entry' = [entry EXCEPT ![k] = Unlinked(entry[k], f)] /\ entry[k] \in Dirs
    BY <1>4 DEF CleanUnlink
  <2> QED
    BY <2>1, UnlinkShrinks
<1> QED
  BY <1>1, <1>2, <1>3, <1>4
     DEF Next, Step, Clean, vars, ReadManifest, CheckFiles, CopyOpen, CopyClose, RestoreHit,
         StageArtifact, PutStart, CopyIn, WriteManifest, PublishLost, IoError, Crash, Return,
         Open, Relock, CleanStart, CleanAbort

\* No step rewrites, mixes or repairs a standing entry in place: put renames a
\* whole directory in, and a clean unlinks.
THEOREM EntriesAppearOrShrink == Spec => EntriesOnlyAppearOrShrink
<1>1. IndInv /\ [Next]_vars => [EntryStep]_vars
  BY EveryStepIsEntryStep
<1>2. Spec => [][EntryStep]_vars
  BY Invariance, <1>1, PTL DEF Spec
<1> QED
  BY <1>2 DEF EntryStep, EntriesOnlyAppearOrShrink

-----------------------------------------------------------------------------
(***************************************************************************)
(* The store implements ArtifactCache.                                     *)
(***************************************************************************)
Served == {k \in Keys : Complete(k)}
Delivered == [p \in Procs |-> IF pc[p] = "hit" THEN out[p] ELSE None]

LEMMA EmptyIsNotServed ==
    ASSUME NEW k \in Keys, IsEmptyDir(entry[k]) PROVE ~Complete(k)
  BY StoreAssumption DEF IsEmptyDir, Complete, Readable

\* Every step of the store is a step of the cache or leaves it unchanged.
LEMMA Simulation ==
    ASSUME IndInv, [Next]_vars
    PROVE  Cache!Next \/ UNCHANGED <<Served, published, Delivered>>
<1> USE DEF IndInv, TypeOK
<1>1. ASSUME UNCHANGED <<entry, published>>, UNCHANGED Delivered
      PROVE  UNCHANGED <<Served, published, Delivered>>
  BY <1>1 DEF Served, Complete, Readable
<1>2. ASSUME NEW p \in Procs, Publish(p), entry' # entry PROVE Cache!Next
  <2>1. /\ entry' = [entry EXCEPT ![key[p]] = tmp[p][key[p]]] /\ IsEmptyDir(entry[key[p]])
        /\ published' = published \cup {key[p]} /\ out' = out
        /\ pc[p] = "publish" /\ pc' = [pc EXCEPT ![p] = "stored"]
    BY <1>2 DEF Publish, Goto
  <2>2. key[p] \in Keys /\ FullOf(tmp[p][key[p]], key[p])
    BY <1>2 DEF Publish, ProcInv
  <2>3. ~Complete(key[p])
    BY <2>1, <2>2, EmptyIsNotServed
  <2>4. Served' = Served \cup {key[p]}
    BY <2>1, <2>2 DEF Served, Complete, Readable, FullOf
  <2>5. Delivered' = Delivered
    BY <2>1 DEF Delivered
  <2>6. Cache!Publish(key[p])
    BY <2>1, <2>2, <2>3, <2>4, <2>5 DEF Cache!Publish, Served, Delivered
  <2> QED
    BY <2>2, <2>6 DEF Cache!Next
<1>3. ASSUME NEW k \in Keys, CleanRmdir(k) PROVE UNCHANGED <<Served, published, Delivered>>
  <2>1. /\ entry' = [entry EXCEPT ![k] = NoDir] /\ IsEmptyDir(entry[k])
        /\ UNCHANGED <<published, out, pc>>
    BY <1>3 DEF CleanRmdir, procVars
  <2>2. ~Complete(k) /\ ~Complete(k)'
    BY <2>1, EmptyIsNotServed, FreshDirs, StoreAssumption DEF Complete, Readable
  <2>3. Served' = Served
    BY <2>1, <2>2 DEF Served, Complete, Readable
  <2> QED
    BY <2>1, <2>3 DEF Delivered
<1>4. ASSUME NEW k \in Keys, NEW f \in Files \cup {None}, CleanUnlink(k, f)
      PROVE  Cache!Next \/ UNCHANGED <<Served, published, Delivered>>
  <2>1. /\ entry' = [entry EXCEPT ![k] = Unlinked(entry[k], f)] /\ entry[k] \in Dirs
        /\ IF f = None THEN entry[k].man # None ELSE entry[k].file[f] # None
        /\ UNCHANGED <<published, out, pc>>
    BY <1>4 DEF CleanUnlink, procVars
  <2>2. ~Complete(k)'
    <3>1. entry'[k] = Unlinked(entry[k], f)
      BY <2>1
    <3>2. CASE f = None
      BY <2>1, <3>1, <3>2, ManifestSet, StoreAssumption DEF Unlinked, Contents, Complete, Readable
    <3>3. CASE f # None
      <4>1. entry'[k].file[f] = None /\ f \in Files
        BY <2>1, <3>1, <3>3, FileSet DEF Unlinked, Contents
      <4> QED
        BY ONLY <4>1, StoreAssumption, k \in Keys DEF Complete
    <3> QED
      BY <3>2, <3>3
  <2>3. Served' = Served \ {k}
    BY <2>1, <2>2 DEF Served, Complete, Readable
  <2>4. Delivered' = Delivered
    BY <2>1 DEF Delivered
  <2>5. CASE Complete(k)
    <3>1. Cache!Lose(k)
      BY <2>1, <2>3, <2>4, <2>5 DEF Cache!Lose, Served, Delivered
    <3> QED
      BY <3>1 DEF Cache!Next
  <2>6. CASE ~Complete(k)
    BY <2>1, <2>3, <2>4, <2>6 DEF Served
  <2> QED
    BY <2>5, <2>6
<1>5. ASSUME NEW p \in Procs, RestoreHit(p) PROVE Cache!Next
  <2>1. /\ pc[p] = "copy" /\ todo[p] = {} /\ pc' = [pc EXCEPT ![p] = "hit"]
        /\ UNCHANGED <<entry, out, key, published>>
    BY <1>5 DEF RestoreHit, Goto
  <2>2. key[p] \in Keys /\ key[p] \in published /\ \A f \in Files : out[p][f] = key[p]
    BY <2>1 DEF ProcInv
  <2>3. out[p] = [f \in Files |-> key[p]]
    BY <2>2
  <2>4. Delivered' = [Delivered EXCEPT ![p] = [f \in Files |-> key[p]]] /\ Delivered[p] = None
    BY <2>1, <2>3 DEF Delivered
  <2>5. Served' = Served
    BY <2>1 DEF Served, Complete, Readable
  <2>6. \E k \in Keys : Cache!Deliver(p, k)
    <3>1. PICK k \in Keys : k = key[p]
      BY <2>2
    <3>2. Cache!Deliver(p, k)
      BY <2>1, <2>2, <2>4, <2>5, <3>1 DEF Cache!Deliver, Cache!ArtifactsOf, Served, Delivered
    <3> QED
      BY ONLY <3>2, k \in Keys
  <2> QED
    BY ONLY <2>6, p \in Procs DEF Cache!Next
<1>6. ASSUME NEW p \in Procs, Return(p) PROVE Cache!Next \/ UNCHANGED <<Served, published, Delivered>>
  <2>1. pc' = [pc EXCEPT ![p] = "idle"] /\ UNCHANGED <<entry, out, published>>
    BY <1>6 DEF Return, Goto
  <2>2. CASE pc[p] = "hit"
    <3>1. out[p] \in [Files -> Keys]
      BY <2>2 DEF ProcInv
    <3>2. Delivered[p] # None /\ Delivered' = [Delivered EXCEPT ![p] = None]
      <4>1. out[p] # None
        BY <3>1, StoreAssumption
      <4> QED
        BY <2>1, <2>2, <4>1 DEF Delivered
    <3>3. Served' = Served
      BY <2>1 DEF Served, Complete, Readable
    <3>4. Cache!Release(p)
      BY <2>1, <3>2, <3>3 DEF Cache!Release, Served, Delivered
    <3> QED
      BY <3>4 DEF Cache!Next
  <2>3. CASE pc[p] # "hit"
    BY <1>1, <2>1, <2>3 DEF Delivered
  <2> QED
    BY <2>2, <2>3
<1>7. ASSUME NEW p \in Procs, IoError(p) \/ Crash(p)
             \/ (\E k \in Keys, stale \in SUBSET Procs : Open(p, k, stale))
             \/ (Step(p) /\ ~RestoreHit(p) /\ ~(Publish(p) /\ entry' # entry))
      PROVE  UNCHANGED <<Served, published, Delivered>>
  <2>1. /\ UNCHANGED <<entry, published>> /\ pc[p] # "hit" /\ pc'[p] # "hit"
        /\ pc' \in [Procs -> Running \cup Ended \cup {"idle"}]
    <3> USE <1>7 DEF Goto, Running, Ended
    <3>1. CASE IoError(p) \/ Crash(p) \/ \E k \in Keys, stale \in SUBSET Procs : Open(p, k, stale)
      BY <3>1 DEF IoError, Crash, Open
    <3>2. CASE ReadManifest(p) \/ CheckFiles(p) \/ CopyClose(p)
      BY <3>2 DEF ReadManifest, CheckFiles, CopyClose
    <3>3. CASE \E f \in Files : CopyOpen(p, f) \/ StageArtifact(p, f) \/ CopyIn(p, f)
      BY <3>3 DEF CopyOpen, StageArtifact, CopyIn
    <3>4. CASE PutStart(p) \/ WriteManifest(p) \/ PublishLost(p)
      BY <3>4 DEF PutStart, WriteManifest, PublishLost
    <3>5. CASE Publish(p) /\ entry' = entry
      <4>1. CASE IsEmptyDir(entry[key[p]])
        <5>1. key[p] \in Keys /\ FullOf(tmp[p][key[p]], key[p]) /\ entry'[key[p]] = tmp[p][key[p]]
          BY <3>5, <4>1 DEF Publish, ProcInv
        <5> QED
          BY <3>5, <4>1, <5>1, StoreAssumption DEF IsEmptyDir, FullOf
      <4>2. CASE ~IsEmptyDir(entry[key[p]])
        BY <3>5, <4>2 DEF Publish
      <4> QED
        BY <4>1, <4>2
    <3> QED
      BY <3>1, <3>2, <3>3, <3>4, <3>5 DEF Step
  <2>2. \A q \in Procs : q # p => pc'[q] = pc[q] /\ out'[q] = out[q]
    <3>1. ASSUME NEW q \in Procs, q # p PROVE Untouched(q)
      BY <1>7, <3>1, OthersUntouched
    <3> QED
      BY ONLY <3>1 DEF Untouched
  <2>3. Delivered' = Delivered
    BY <2>1, <2>2 DEF Delivered
  <2> QED
    BY <1>1, <2>1, <2>3
<1>8. CASE UNCHANGED <<entry, out, procVars, published>>
  BY <1>1, <1>8 DEF Delivered, procVars
<1> QED
  BY <1>2, <1>3, <1>4, <1>5, <1>6, <1>7, <1>8
     DEF Next, Clean, Step, Relock, CleanStart, CleanAbort, vars, procVars

\* The file-level store implements the abstract cache: keys become servable
\* whole and in one step, and a hit hands over exactly one published key's files.
THEOREM Refinement == Spec => ImplementsCache
<1>1. Init => Cache!Init
  BY FreshDirs, StoreAssumption DEF Init, Cache!Init, Complete, Readable
<1>2. IndInv /\ [Next]_vars => [Cache!Next]_(Cache!cacheVars)
  BY Simulation DEF Cache!cacheVars, Served, Delivered
<1> QED
  BY Invariance, <1>1, <1>2, PTL DEF Spec, ImplementsCache, Cache!Spec

=============================================================================
