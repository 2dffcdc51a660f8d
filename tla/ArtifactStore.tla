--------------------------- MODULE ArtifactStore ---------------------------
(***************************************************************************)
(* The Tier-2 artifact store (engine/src/artstore.rs) at the grain of its  *)
(* file-system calls, used the way a compile stage uses it: open, restore, *)
(* on a miss compile and stage, then put.  Several build processes share   *)
(* one store; `clean --artifacts` removes entries under them; any process  *)
(* may be killed between two calls.                                        *)
(*                                                                         *)
(* A key is one (node, signature) pair.  File contents are abstracted to   *)
(* the key whose compile produced the bytes, so "the right bytes" is       *)
(* "content = key".                                                        *)
(***************************************************************************)
EXTENDS FiniteSets

CONSTANTS
    Keys,    \* the (node, signature) addresses
    Files,   \* the artifact files one node produces (image and headers deb)
    Procs,   \* build processes, by pid; a pid may be reused after a crash
    None,    \* no file, no manifest, no key
    Torn     \* the content of a file whose copy was cut short

ASSUME StoreAssumption ==
    /\ None \notin Keys /\ None \notin Files /\ None \notin [Files -> Keys]
    /\ Torn \notin Keys /\ Torn # None
    /\ Files # {}

VARIABLES
    entry,     \* entry[k]: the directory <root>/<node>/<signature>
    tmp,       \* tmp[p][k]: p's staging sibling .<signature>.<pid>.partial
    out,       \* out[p][f]: f in the process's own output directory
    pc,        \* where the process is in the stage
    key,       \* the key it asks for
    todo,      \* files its current loop has not handled yet
    part,      \* the file whose copy into out is under way
    live,      \* the keys some lock of the config tree reaches
    dead,      \* the entries the running clean still has to remove
    swept,     \* history: entries a clean has begun to remove
    published  \* history: keys some put has renamed into place

vars == <<entry, tmp, out, pc, key, todo, part, live, dead, swept, published>>
procVars == <<pc, key, todo, part>>
cleanVars == <<live, dead, swept>>

Dirs == [there: BOOLEAN, man: Keys \cup {None}, file: [Files -> Keys \cup {None}]]
NoDir == [there |-> FALSE, man |-> None, file |-> [f \in Files |-> None]]
EmptyDir == [there |-> TRUE, man |-> None, file |-> [f \in Files |-> None]]
WithManifest(d, k) == [there |-> d.there, man |-> k, file |-> d.file]
WithFile(d, f, c) == [there |-> d.there, man |-> d.man, file |-> [d.file EXCEPT ![f] = c]]

Running == {"probe", "check", "copy", "compile", "put", "copyin", "manifest",
            "publish", "lost"}
Ended == {"hit", "stored", "failed"}

TypeOK ==
    /\ entry \in [Keys -> Dirs]
    /\ tmp \in [Procs -> [Keys -> Dirs]]
    /\ out \in [Procs -> [Files -> Keys \cup {None, Torn}]]
    /\ pc \in [Procs -> Running \cup Ended \cup {"idle"}]
    /\ key \in [Procs -> Keys \cup {None}]
    /\ todo \in [Procs -> SUBSET Files]
    /\ part \in [Procs -> Files \cup {None}]
    /\ live \in SUBSET Keys
    /\ dead \in SUBSET Keys
    /\ swept \in SUBSET Keys
    /\ published \in SUBSET Keys

Init ==
    /\ entry = [k \in Keys |-> NoDir]
    /\ tmp = [p \in Procs |-> [k \in Keys |-> NoDir]]
    /\ out = [p \in Procs |-> [f \in Files |-> None]]
    /\ pc = [p \in Procs |-> "idle"]
    /\ key = [p \in Procs |-> None]
    /\ todo = [p \in Procs |-> {}]
    /\ part = [p \in Procs |-> None]
    /\ live = Keys
    /\ dead = {}
    /\ swept = {}
    /\ published = {}

(***************************************************************************)
(* What the store answers about an entry.                                  *)
(***************************************************************************)
Has(k) == entry[k].man # None

AllPresent(k) == \A f \in Files : entry[k].file[f] # None

\* `entries` reads the key back from the manifest: none when no restore can
\* read the entry.
Readable(k) == entry[k].man = k

IsEmptyDir(d) == d.man = None /\ \A f \in Files : d.file[f] = None

(***************************************************************************)
(* restore                                                                 *)
(***************************************************************************)
Goto(p, label) == pc' = [pc EXCEPT ![p] = label]

\* ArtifactStore::open, which sweeps temps nobody has touched for STALE_AGE
\* (six hours).  A running put refreshes its temp's mtime with every file, so
\* only the temps of processes outside a put are old enough.
InPut(p) == pc[p] \in {"put", "copyin", "manifest", "publish", "lost"}

Open(p, k, stale) ==
    /\ pc[p] = "idle"
    /\ \A q \in stale : ~InPut(q)
    /\ tmp' = [q \in Procs |-> IF q \in stale THEN [j \in Keys |-> NoDir] ELSE tmp[q]]
    /\ key' = [key EXCEPT ![p] = k]
    /\ Goto(p, "probe")
    /\ UNCHANGED <<entry, out, todo, part, cleanVars, published>>

\* The manifest is read, parsed, and its signature compared; anything wrong is
\* a miss.
ReadManifest(p) ==
    /\ pc[p] = "probe"
    /\ Goto(p, IF entry[key[p]].man = key[p] THEN "check" ELSE "compile")
    /\ todo' = [todo EXCEPT ![p] = Files]
    /\ UNCHANGED <<entry, tmp, out, key, part, cleanVars, published>>

\* Every file is present before dest is touched, or it is a miss.
CheckFiles(p) ==
    /\ pc[p] = "check"
    /\ Goto(p, IF AllPresent(key[p]) THEN "copy" ELSE "compile")
    /\ UNCHANGED <<entry, tmp, out, key, todo, part, cleanVars, published>>

\* Mutant: a source that has gone is skipped instead of failing the stage.
CopyOpenSkips(p, f) ==
    /\ pc[p] = "copy" /\ part[p] = None /\ f \in todo[p]
    /\ IF entry[key[p]].file[f] # None
         THEN /\ out' = [out EXCEPT ![p][f] = Torn]
              /\ part' = [part EXCEPT ![p] = f]
              /\ UNCHANGED todo
         ELSE /\ todo' = [todo EXCEPT ![p] = @ \ {f}]
              /\ UNCHANGED <<out, part>>
    /\ UNCHANGED <<entry, tmp, pc, key, cleanVars, published>>

\* std::fs::copy truncates the destination at its final name, then fills it.
\* A source that has gone since the check is an error of the stage.
CopyOpen(p, f) ==
    /\ pc[p] = "copy" /\ part[p] = None /\ f \in todo[p]
    /\ IF entry[key[p]].file[f] # None
         THEN /\ out' = [out EXCEPT ![p][f] = Torn]
              /\ part' = [part EXCEPT ![p] = f]
              /\ UNCHANGED pc
         ELSE /\ Goto(p, "failed")
              /\ UNCHANGED <<out, part>>
    /\ UNCHANGED <<entry, tmp, key, todo, cleanVars, published>>

\* The source is an open descriptor by now: unlinking it does not cut the copy.
CopyClose(p) ==
    /\ pc[p] = "copy" /\ part[p] # None
    /\ out' = [out EXCEPT ![p][part[p]] = key[p]]
    /\ todo' = [todo EXCEPT ![p] = @ \ {part[p]}]
    /\ part' = [part EXCEPT ![p] = None]
    /\ UNCHANGED <<entry, tmp, pc, key, cleanVars, published>>

RestoreHit(p) ==
    /\ pc[p] = "copy" /\ todo[p] = {}
    /\ Goto(p, "hit")
    /\ UNCHANGED <<entry, tmp, out, key, todo, part, cleanVars, published>>

(***************************************************************************)
(* A miss: the stage compiles and stages each artifact by rename.          *)
(***************************************************************************)
\* Mutant: an artifact already at its name in the output directory is kept.
StageArtifactKeeps(p, f) ==
    /\ pc[p] = "compile" /\ f \in todo[p]
    /\ out' = [out EXCEPT ![p][f] = IF @ = None THEN key[p] ELSE @]
    /\ todo' = [todo EXCEPT ![p] = @ \ {f}]
    /\ UNCHANGED <<entry, tmp, pc, key, part, cleanVars, published>>

StageArtifact(p, f) ==
    /\ pc[p] = "compile" /\ f \in todo[p]
    /\ out' = [out EXCEPT ![p][f] = key[p]]
    /\ todo' = [todo EXCEPT ![p] = @ \ {f}]
    /\ UNCHANGED <<entry, tmp, pc, key, part, cleanVars, published>>

(***************************************************************************)
(* put                                                                     *)
(***************************************************************************)
\* An entry whose manifest stands is kept; otherwise the temp is made afresh.
PutStart(p) ==
    /\ pc[p] = "compile" /\ todo[p] = {}
    /\ IF Has(key[p])
         THEN Goto(p, "stored") /\ UNCHANGED <<tmp, todo>>
         ELSE /\ tmp' = [tmp EXCEPT ![p][key[p]] = EmptyDir]
              /\ todo' = [todo EXCEPT ![p] = Files]
              /\ Goto(p, "copyin")
    /\ UNCHANGED <<entry, out, key, part, cleanVars, published>>

CopyIn(p, f) ==
    /\ pc[p] = "copyin" /\ f \in todo[p]
    /\ tmp' = [tmp EXCEPT ![p][key[p]] = WithFile(@, f, out[p][f])]
    /\ todo' = [todo EXCEPT ![p] = @ \ {f}]
    /\ UNCHANGED <<entry, out, pc, key, part, cleanVars, published>>

\* Mutant: the manifest is written before every file is in the temp.
WriteManifestEarly(p) ==
    /\ pc[p] = "copyin"
    /\ tmp' = [tmp EXCEPT ![p][key[p]] = WithManifest(@, key[p])]
    /\ Goto(p, "publish")
    /\ UNCHANGED <<entry, out, key, todo, part, cleanVars, published>>

WriteManifest(p) ==
    /\ pc[p] = "copyin" /\ todo[p] = {}
    /\ tmp' = [tmp EXCEPT ![p][key[p]] = WithManifest(@, key[p])]
    /\ Goto(p, "publish")
    /\ UNCHANGED <<entry, out, key, todo, part, cleanVars, published>>

\* Mutant: the publish replaces whatever stands at the entry's name.
PublishOver(p) ==
    /\ pc[p] = "publish"
    /\ entry' = [entry EXCEPT ![key[p]] = tmp[p][key[p]]]
    /\ tmp' = [tmp EXCEPT ![p][key[p]] = NoDir]
    /\ published' = published \cup {key[p]}
    /\ swept' = swept \ {key[p]}
    /\ Goto(p, "stored")
    /\ UNCHANGED <<out, key, todo, part, live, dead>>

\* rename(2) of a directory succeeds onto nothing and onto an empty directory,
\* and fails on a directory that holds anything.
Publish(p) ==
    /\ pc[p] = "publish"
    /\ IF IsEmptyDir(entry[key[p]])
         THEN /\ entry' = [entry EXCEPT ![key[p]] = tmp[p][key[p]]]
              /\ tmp' = [tmp EXCEPT ![p][key[p]] = NoDir]
              /\ published' = published \cup {key[p]}
              /\ swept' = swept \ {key[p]}
              /\ Goto(p, "stored")
         ELSE Goto(p, "lost") /\ UNCHANGED <<entry, tmp, published, swept>>
    /\ UNCHANGED <<out, key, todo, part, live, dead>>

\* Mutant: a lost publish with no manifest standing is retried, temp in place.
PublishLostRetries(p) ==
    /\ pc[p] = "lost"
    /\ Goto(p, IF Has(key[p]) THEN "stored" ELSE "publish")
    /\ UNCHANGED <<entry, tmp, out, key, todo, part, cleanVars, published>>

\* The rename failed: an entry with a manifest means a concurrent put won,
\* anything else is an error.  The temp is dropped either way.
PublishLost(p) ==
    /\ pc[p] = "lost"
    /\ Goto(p, IF Has(key[p]) THEN "stored" ELSE "failed")
    /\ tmp' = [tmp EXCEPT ![p][key[p]] = NoDir]
    /\ UNCHANGED <<entry, out, key, todo, part, cleanVars, published>>

\* Any call of a running stage may fail: `?` ends the stage where it stands and
\* the temp stays behind.
IoError(p) ==
    /\ pc[p] \in {"copy", "compile", "copyin", "publish"}
    /\ Goto(p, "failed")
    /\ part' = [part EXCEPT ![p] = None]
    /\ UNCHANGED <<entry, tmp, out, key, todo, cleanVars, published>>

\* A hard kill, at any point of the stage.
Crash(p) ==
    /\ pc[p] \in Running
    /\ Goto(p, "idle")
    /\ key' = [key EXCEPT ![p] = None]
    /\ part' = [part EXCEPT ![p] = None]
    /\ todo' = [todo EXCEPT ![p] = {}]
    /\ UNCHANGED <<entry, tmp, out, cleanVars, published>>

Return(p) ==
    /\ pc[p] \in Ended
    /\ Goto(p, "idle")
    /\ key' = [key EXCEPT ![p] = None]
    /\ todo' = [todo EXCEPT ![p] = {}]
    /\ UNCHANGED <<entry, tmp, out, part, cleanVars, published>>

(***************************************************************************)
(* `clean --artifacts`, and the lock edits that make entries dead.         *)
(***************************************************************************)
Relock(keys) ==
    /\ live' = keys
    /\ UNCHANGED <<entry, tmp, out, procVars, dead, swept, published>>

\* live_artifacts then dead_artifacts: every key is known before anything is
\* removed.  An entry no restore can read is dead whatever the locks say.
CleanStart ==
    /\ dead = {}
    /\ dead' = {k \in Keys : entry[k].there /\ (~Readable(k) \/ k \notin live)}
    /\ UNCHANGED <<entry, tmp, out, procVars, live, swept, published>>

\* reclaim_tree unlinks what the directory holds in no particular order ...
Unlinked(d, f) == IF f = None THEN WithManifest(d, None) ELSE WithFile(d, f, None)

CleanUnlink(k, f) ==
    /\ k \in dead
    /\ IF f = None THEN entry[k].man # None ELSE entry[k].file[f] # None
    /\ entry' = [entry EXCEPT ![k] = Unlinked(@, f)]
    /\ swept' = swept \cup {k}
    /\ UNCHANGED <<tmp, out, procVars, live, dead, published>>

\* ... and removes the directory once it is empty.
CleanRmdir(k) ==
    /\ k \in dead
    /\ IsEmptyDir(entry[k])
    /\ entry' = [entry EXCEPT ![k] = NoDir]
    /\ dead' = dead \ {k}
    /\ swept' = swept \ {k}
    /\ UNCHANGED <<tmp, out, procVars, live, published>>

\* The clean is killed, or a removal fails: what it has not removed stays.
CleanAbort ==
    /\ dead # {}
    /\ dead' = {}
    /\ UNCHANGED <<entry, tmp, out, procVars, live, swept, published>>

-----------------------------------------------------------------------------
Step(p) ==
    \/ ReadManifest(p) \/ CheckFiles(p) \/ CopyClose(p) \/ RestoreHit(p)
    \/ \E f \in Files : CopyOpen(p, f) \/ StageArtifact(p, f) \/ CopyIn(p, f)
    \/ PutStart(p) \/ WriteManifest(p) \/ Publish(p) \/ PublishLost(p)

Clean ==
    \/ CleanStart \/ CleanAbort
    \/ \E k \in Keys : CleanRmdir(k) \/ \E f \in Files \cup {None} : CleanUnlink(k, f)

Next ==
    \/ \E p \in Procs : Step(p) \/ IoError(p) \/ Crash(p) \/ Return(p)
    \/ \E p \in Procs, k \in Keys, stale \in SUBSET Procs : Open(p, k, stale)
    \/ \E keys \in SUBSET Keys : Relock(keys)
    \/ Clean

Spec == Init /\ [][Next]_vars /\ \A p \in Procs : WF_vars(Step(p))
-----------------------------------------------------------------------------
(***************************************************************************)
(* Properties                                                              *)
(***************************************************************************)
Complete(k) == Readable(k) /\ \A f \in Files : entry[k].file[f] = k

\* A restore that reports a hit has delivered every file of the key it asked
\* for: no torn copy, no file of another build left from an earlier stage, even
\* when a clean removed the entry or a concurrent put replaced it under the
\* copy (restore checks every file, then copies them one by one).
HitIsWhole ==
    \A p \in Procs : pc[p] = "hit" => \A f \in Files : out[p][f] = key[p]

\* "A present entry directory is always complete" (put): only a clean that has
\* begun to remove an entry ever leaves one with something missing.
PresentIsComplete ==
    \A k \in Keys : (entry[k].there /\ k \notin swept) => Complete(k)

\* An entry changes only by appearing whole in one step or by losing parts: no
\* step rewrites, mixes or repairs a standing entry in place.
EntriesOnlyAppearOrShrink ==
    [][\A k \in Keys :
         \/ entry'[k] = entry[k]
         \/ IsEmptyDir(entry[k]) /\ Complete(k)'
         \/ /\ entry'[k].man \in {entry[k].man, None}
            /\ \A f \in Files : entry'[k].file[f] \in {entry[k].file[f], None}]_vars

\* A stage that has opened the store ends: in a hit, a store, an error, or the
\* kill that returns it to idle.  Nothing waits on another process.
StageEnds ==
    \A p \in Procs : pc[p] = "probe" ~> pc[p] \in Ended \cup {"idle"}

\* The store implements the cache its callers rely on: a key becomes servable in
\* one step and as a whole, and a hit hands over exactly the artifacts of a key
\* that some put published.
Cache == INSTANCE ArtifactCache WITH
    served <- {k \in Keys : Complete(k)},
    delivered <- [p \in Procs |-> IF pc[p] = "hit" THEN out[p] ELSE None]

ImplementsCache == Cache!Spec

\* The publish discipline of stage_artifact_as: an interrupted copy never
\* leaves a truncated artifact at its valid name.
NoTornArtifact == \A p \in Procs, f \in Files : out[p][f] = Torn => pc[p] = "copy"
=============================================================================
