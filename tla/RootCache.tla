----------------------------- MODULE RootCache -----------------------------
(***************************************************************************)
(* The rootfs early-cutoff cache (engine/src/rootcache.rs) as the rootfs   *)
(* node uses it (engine/src/rootfs/provisioner.rs): look the solved set    *)
(* up, restore the tar and its manifest or bootstrap them, and store what  *)
(* was bootstrapped.  A store replaces: the old entry is moved aside and   *)
(* the new one renamed in, two renames with a window between them.         *)
(*                                                                         *)
(* Several builds share the cache; `clean --all-caches` deletes it file by *)
(* file under them; a build may be killed between any two calls.  The      *)
(* content of a file is the bootstrap that wrote it: its key and a serial  *)
(* number, since two bootstraps of one key need not agree byte for byte.   *)
(* The directory a put moves aside is only ever deleted, so it is gone     *)
(* from the model as soon as it is moved.                                  *)
(***************************************************************************)
EXTENDS Naturals

CONSTANTS
    RootKeys,   \* what cache_key can hash the solved set and its inputs to
    Builders,   \* build processes, by pid
    NoTree,     \* no file
    MaxBoots    \* bound: bootstraps in a behaviour

VARIABLES
    rentry,     \* rentry[k]: <cache>/rootfs/<key>/
    partial,    \* partial[b]: the staging directory .<key>.<pid>.partial
    rout,       \* rout[b]: the tar and the manifest in b's output directory
    rpc, rkey,  \* where b is, and the key it computed
    boots,      \* bootstraps so far
    wiping,     \* the clean, of which a behaviour has at most one
    stored,     \* history: keys some put has published
    hurt        \* history: keys a clean, a kill or an I/O error has cost an entry

Boot == RootKeys \X (1..MaxBoots)

ASSUME RootCacheAssumption == MaxBoots \in Nat /\ NoTree \notin Boot

rootVars == <<rentry, partial, rout, rpc, rkey, boots, wiping, stored, hurt>>

Pair == [tar: Boot \cup {NoTree}, man: Boot \cup {NoTree}]
Dir == [there: BOOLEAN, tar: Boot \cup {NoTree}, man: Boot \cup {NoTree}]
Nothing == [tar |-> NoTree, man |-> NoTree]
Absent == [there |-> FALSE, tar |-> NoTree, man |-> NoTree]
Filled(t, m) == [there |-> TRUE, tar |-> t, man |-> m]
Vacant(d) == d.tar = NoTree /\ d.man = NoTree

RootTypeOK ==
    /\ rentry \in [RootKeys -> Dir]
    /\ partial \in [Builders -> Dir]
    /\ rout \in [Builders -> Pair]
    /\ rpc \in [Builders -> {"idle", "get", "tar", "man", "boot", "stage", "fill", "move",
                             "publish", "hit", "built", "failed"}]
    /\ rkey \in [Builders -> RootKeys \cup {NoTree}]
    /\ boots \in 0..MaxBoots
    /\ wiping \in {"not yet", "now", "over"}
    /\ stored \in SUBSET RootKeys /\ hurt \in SUBSET RootKeys

RootInit ==
    /\ rentry = [k \in RootKeys |-> Absent]
    /\ partial = [b \in Builders |-> Absent]
    /\ rout = [b \in Builders |-> Nothing]
    /\ rpc = [b \in Builders |-> "idle"]
    /\ rkey = [b \in Builders |-> NoTree]
    /\ boots = 0 /\ wiping = "not yet" /\ stored = {} /\ hurt = {}

GoRoot(b, label) == rpc' = [rpc EXCEPT ![b] = label]
Storing(b) == rpc[b] \in {"stage", "fill", "move", "publish"}

\* RootfsStore::new sweeps temps older than STALE_AGE, which no running put's staging
\* directory is.
OpenStore(b, k, refresh, stale) ==
    /\ rpc[b] = "idle"
    /\ partial' = [q \in Builders |-> IF stale /\ ~Storing(q) THEN Absent ELSE partial[q]]
    /\ rkey' = [rkey EXCEPT ![b] = k]
    /\ GoRoot(b, IF refresh THEN "boot" ELSE "get")
    /\ UNCHANGED <<rentry, rout, boots, wiping, stored, hurt>>

\* get: both files have to be there.
GetEntry(b) ==
    /\ rpc[b] = "get"
    /\ LET e == rentry[rkey[b]]
       IN GoRoot(b, IF e.tar # NoTree /\ e.man # NoTree THEN "tar" ELSE "boot")
    /\ UNCHANGED <<rentry, partial, rout, rkey, boots, wiping, stored, hurt>>

\* Mutant: a file that has gone since the check is skipped.
RestoreFileSkips(b, f, next) ==
    LET c == rentry[rkey[b]][f]
    IN /\ rout' = [rout EXCEPT ![b][f] = IF c = NoTree THEN @ ELSE c]
       /\ GoRoot(b, next)

\* The file is copied to the output directory by path; one that has gone since the check
\* fails the node.
RestoreFile(b, f, next) ==
    LET c == rentry[rkey[b]][f]
    IN /\ rout' = [rout EXCEPT ![b][f] = IF c = NoTree THEN @ ELSE c]
       /\ GoRoot(b, IF c = NoTree THEN "failed" ELSE next)

RestoreTar(b) ==
    /\ rpc[b] = "tar"
    /\ RestoreFile(b, "tar", "man")
    /\ UNCHANGED <<rentry, partial, rkey, boots, wiping, stored, hurt>>

RestoreManifest(b) ==
    /\ rpc[b] = "man"
    /\ RestoreFile(b, "man", "hit")
    /\ UNCHANGED <<rentry, partial, rkey, boots, wiping, stored, hurt>>

\* The bootstrap installs the plan the key was computed from, customizes, exports the tar
\* and writes the manifest; it may fail.
BootstrapTree(b) ==
    /\ rpc[b] = "boot"
    /\ \/ /\ boots < MaxBoots
          /\ boots' = boots + 1
          /\ rout' = [rout EXCEPT ![b] = [tar |-> <<rkey[b], boots'>>, man |-> <<rkey[b], boots'>>]]
          /\ GoRoot(b, "stage")
       \/ GoRoot(b, "failed") /\ UNCHANGED <<rout, boots>>
    /\ UNCHANGED <<rentry, partial, rkey, wiping, stored, hurt>>

\* Mutant: one staging directory per key instead of one per process.
SharedStaging(b) == CHOOSE q \in Builders : TRUE

\* The staging directory is named for the process.
Staging(b) == b

\* put clears its staging directory and copies the tar, then the manifest.
StageTar(b) ==
    /\ rpc[b] = "stage"
    /\ partial' = [partial EXCEPT ![Staging(b)] = Filled(rout[b].tar, NoTree)]
    /\ GoRoot(b, "fill")
    /\ UNCHANGED <<rentry, rout, rkey, boots, wiping, stored, hurt>>

StageManifest(b) ==
    /\ rpc[b] = "fill"
    /\ LET s == Staging(b)
       IN IF partial[s].there
            THEN /\ partial' = [partial EXCEPT ![s].man = rout[b].man]
                 /\ GoRoot(b, "move")
            ELSE GoRoot(b, "failed") /\ UNCHANGED partial
    /\ UNCHANGED <<rentry, rout, rkey, boots, wiping, stored, hurt>>

\* The first rename: the entry, if there is one, is moved to a cleared sibling.
MoveAside(b) ==
    /\ rpc[b] = "move"
    /\ rentry' = [rentry EXCEPT ![rkey[b]] = Absent]
    /\ GoRoot(b, "publish")
    /\ UNCHANGED <<partial, rout, rkey, boots, wiping, stored, hurt>>

\* Mutant: a loser of the race throws the winner's entry out.
PublishTreeEvicts(b) ==
    /\ rpc[b] = "publish"
    /\ LET k == rkey[b]
           s == Staging(b)
       IN /\ rentry' = [rentry EXCEPT ![k] = IF Vacant(rentry[k]) THEN partial[s] ELSE Absent]
          /\ partial' = [partial EXCEPT ![s] = Absent]
          /\ stored' = stored \cup {k}
          /\ GoRoot(b, "built")
    /\ UNCHANGED <<rout, rkey, boots, wiping, hurt>>

\* The second rename.  It replaces nothing or an empty directory.  A put that finds an
\* entry with a tar has lost the race and keeps the winner's; any other failure is an
\* error that drops both the new entry and the one moved aside.
PublishTree(b) ==
    /\ rpc[b] = "publish"
    /\ LET k == rkey[b]
           s == Staging(b)
       IN \/ /\ Vacant(rentry[k]) /\ partial[s].there
             /\ rentry' = [rentry EXCEPT ![k] = partial[s]]
             /\ partial' = [partial EXCEPT ![s] = Absent]
             /\ stored' = stored \cup {k}
             /\ GoRoot(b, "built")
             /\ UNCHANGED hurt
          \/ /\ rentry[k].tar # NoTree
             /\ partial' = [partial EXCEPT ![s] = Absent]
             /\ GoRoot(b, "built")
             /\ UNCHANGED <<rentry, stored, hurt>>
          \/ /\ rentry[k].tar = NoTree
             /\ partial' = [partial EXCEPT ![s] = Absent]
             /\ hurt' = hurt \cup {k}
             /\ GoRoot(b, "failed")
             /\ UNCHANGED <<rentry, stored>>
    /\ UNCHANGED <<rout, rkey, boots, wiping>>

\* The node has returned; the next build of this process starts over.
NextBuild(b) ==
    /\ rpc[b] \in {"hit", "built", "failed"}
    /\ GoRoot(b, "idle")
    /\ rkey' = [rkey EXCEPT ![b] = NoTree]
    /\ UNCHANGED <<rentry, partial, rout, boots, wiping, stored, hurt>>

\* A kill leaves every directory as it is.
KillBuild(b) ==
    /\ rpc[b] \notin {"idle", "hit", "built", "failed"}
    /\ GoRoot(b, "idle")
    /\ rkey' = [rkey EXCEPT ![b] = NoTree]
    /\ hurt' = IF rpc[b] = "publish" THEN hurt \cup {rkey[b]} ELSE hurt
    /\ UNCHANGED <<rentry, partial, rout, boots, wiping, stored>>

\* clean --all-caches deletes the cache directory recursively, in no particular order.
WipeBegins ==
    /\ wiping = "not yet"
    /\ wiping' = "now"
    /\ hurt' = RootKeys
    /\ UNCHANGED <<rentry, partial, rout, rpc, rkey, boots, stored>>

Without(d, f) ==
    IF Vacant(d) THEN Absent ELSE [d EXCEPT ![f] = NoTree]

WipeStep(f) ==
    /\ wiping = "now"
    /\ \/ \E k \in RootKeys : /\ rentry[k].there
                              /\ rentry' = [rentry EXCEPT ![k] = Without(@, f)]
                              /\ UNCHANGED partial
       \/ \E b \in Builders : /\ partial[b].there
                              /\ partial' = [partial EXCEPT ![b] = Without(@, f)]
                              /\ UNCHANGED rentry
    /\ UNCHANGED <<rout, rpc, rkey, boots, wiping, stored, hurt>>

WipeEnds ==
    /\ wiping = "now"
    /\ wiping' = "over"
    /\ UNCHANGED <<rentry, partial, rout, rpc, rkey, boots, stored, hurt>>

RootNext ==
    \/ \E b \in Builders :
          \/ \E k \in RootKeys, refresh \in BOOLEAN, stale \in BOOLEAN :
                OpenStore(b, k, refresh, stale)
          \/ GetEntry(b) \/ RestoreTar(b) \/ RestoreManifest(b) \/ BootstrapTree(b)
          \/ StageTar(b) \/ StageManifest(b) \/ MoveAside(b) \/ PublishTree(b)
          \/ NextBuild(b) \/ KillBuild(b)
    \/ WipeBegins \/ WipeEnds \/ \E f \in {"tar", "man"} : WipeStep(f)

RootSpec == RootInit /\ [][RootNext]_rootVars
-----------------------------------------------------------------------------
\* A build that ends well ends with a tar and a manifest made for the key it computed,
\* whatever puts, kills and cleans ran between the lookup and the two copies; an entry a
\* lookup can hit is one bootstrap's, never two puts' files mixed; and ("A concurrent `get`'s
\* exposure is then one rename") once a key is stored a lookup can miss it only while some
\* put is between its two renames, or after a fault or a clean.
RestoredIsOfKey ==
    /\ \A b \in Builders : rpc[b] \in {"hit", "built"} =>
          /\ rout[b].tar # NoTree /\ rout[b].tar[1] = rkey[b]
          /\ rout[b].man # NoTree /\ rout[b].man[1] = rkey[b]
    /\ \A k \in RootKeys : rentry[k].tar # NoTree /\ rentry[k].man # NoTree =>
          rentry[k].tar = rentry[k].man /\ rentry[k].tar[1] = k
    /\ \A k \in stored \ hurt :
          \/ rentry[k].tar # NoTree /\ rentry[k].man # NoTree
          \/ \E b \in Builders : rpc[b] = "publish" /\ rkey[b] = k
=============================================================================
