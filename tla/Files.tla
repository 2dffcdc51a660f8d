------------------------------- MODULE Files --------------------------------
(***************************************************************************)
(* File manifests (core/src/files.rs, engine/src/image/files.rs): the list *)
(* of every file of an image's root filesystem that a build writes beside  *)
(* the image, and the comparison of two of them, on which reproduce and    *)
(* verify-image rest.                                                      *)
(*                                                                         *)
(* A filesystem gives each name an inode number and each number an inode.  *)
(* A name is the sequence of its components, each the rank of its bytes;   *)
(* the root is <<>>.  An optional value is a sequence of at most one.      *)
(***************************************************************************)
EXTENDS Naturals, Sequences, FiniteSets, SequencesExt

CONSTANTS
    Trees,      \* the filesystems an image may hold
    Reserved,   \* Reserved: names the format keeps for itself
    Shadow      \* the name of the one file that differs in every image

\* A filesystem: each name's number has an inode, the root is a directory, and only files,
\* links and devices have data.
IsFilesystem(t) ==
    /\ IsFiniteSet(DOMAIN t.number) /\ <<>> \in DOMAIN t.number /\ t.inode[t.number[<<>>]].type = "dir"
    /\ \A name \in DOMAIN t.number :
          LET f == t.inode[t.number[name]] IN
          /\ name \in Seq(Nat)
          /\ f = [type |-> f.type, mode |-> f.mode, owner |-> f.owner, mtime |-> f.mtime, data |-> f.data, xattrs |-> f.xattrs]
          /\ f.type \notin {"reg", "lnk", "chr", "blk"} => f.data = <<>>
ASSUME FilesAssumption == \A t \in Trees : IsFilesystem(t)

FileType == {"reg", "dir", "lnk", "fifo", "chr", "blk", "sock"}
PerImageFields == {"mtime", "size", "sha256"}
-----------------------------------------------------------------------------
(* The walk *)

\* describe: what an entry says of the inode it names.
Describe(name, inode) ==
    [name |-> name, type |-> inode.type, mode |-> IF inode.type = "lnk" THEN 0 ELSE inode.mode,
     owner |-> inode.owner, mtime |-> inode.mtime,
     size |-> IF inode.type \in {"reg", "lnk"} THEN Len(inode.data) ELSE 0,
     sha256 |-> IF inode.type = "reg" THEN inode.data ELSE <<>>,
     target |-> IF inode.type = "lnk" THEN inode.data ELSE <<>>,
     device |-> IF inode.type \in {"chr", "blk"} THEN inode.data ELSE <<>>,
     token |-> 0, xattrs |-> inode.xattrs]

\* order, components: component by component, a directory before what is in it.
Before(a, b) ==
    \E i \in 1..(Len(b)) :
        /\ \A j \in 1..(i - 1) : j <= Len(a) /\ a[j] = b[j]
        /\ i > Len(a) \/ a[i] < b[i]

NamesOf(tree) == DOMAIN tree.number \ {<<>>}
InodeAt(tree, name) == tree.inode[tree.number[name]]
Links(tree, n) == {name \in NamesOf(tree) : tree.number[name] = n}
Shared(tree) ==
    {n \in {tree.number[name] : name \in NamesOf(tree)} :
        tree.inode[n].type # "dir" /\ Cardinality(Links(tree, n)) > 1}
FirstName(tree, n) == CHOOSE a \in Links(tree, n) : \A b \in Links(tree, n) : a = b \/ Before(a, b)

\* Tokens of shared inodes are counted in the order of their first names.
Token(tree, n) ==
    IF n \notin Shared(tree) THEN 0
    ELSE Cardinality({m \in Shared(tree) : m = n \/ Before(FirstName(tree, m), FirstName(tree, n))})

TokenOf(tree, name) == Token(tree, tree.number[name])

NthName(tree, i) == CHOOSE n \in NamesOf(tree) : Cardinality({m \in NamesOf(tree) : Before(m, n)}) = i - 1

\* FileManifest::assemble, walk: the root and every name in order.
Assemble(tree) ==
    [root |-> Describe(<<>>, InodeAt(tree, <<>>)),
     entries |-> [i \in 1..Cardinality(NamesOf(tree)) |->
                    LET name == NthName(tree, i) IN
                    [Describe(name, InodeAt(tree, name)) EXCEPT !.token = TokenOf(tree, name)]]]
-----------------------------------------------------------------------------
(* What a manifest may say *)

CheckName(name) == name # <<>> /\ name \notin Reserved

\* check_entry: which fields an entry of each type has.
CheckEntry(e, isRoot) ==
    /\ isRoot => e.type = "dir" /\ e.name = <<>>
    /\ e.type = "lnk" => e.mode = 0
    /\ e.type \notin {"reg", "lnk"} => e.size = 0
    /\ (e.sha256 # <<>>) = (e.type = "reg" /\ e.size > 0)
    /\ (e.target # <<>>) = (e.type = "lnk")
    /\ e.type = "lnk" => Len(e.target) = e.size
    /\ (e.device # <<>>) = (e.type \in {"chr", "blk"})
    /\ e.type = "dir" => e.token = 0

SameInode(a, b) == [a EXCEPT !.name = <<>>] = [b EXCEPT !.name = <<>>]

\* validate: in order, each below a directory already listed, tokens counted up and
\* shared only by names of one inode.
Validate(m) ==
    /\ CheckEntry(m.root, TRUE)
    /\ \A i \in DOMAIN m.entries :
          LET e == m.entries[i]
              seen == {m.entries[j] : j \in 1..(i - 1)} IN
          /\ CheckName(e.name) /\ CheckEntry(e, FALSE)
          /\ i > 1 => Before(m.entries[i - 1].name, e.name)
          /\ Len(e.name) > 1 => \E d \in seen : d.type = "dir" /\ d.name = Front(e.name)
          /\ e.token # 0 =>
                IF \E s \in seen : s.token = e.token
                THEN \A s \in seen : s.token = e.token => SameInode(s, e)
                ELSE e.token = 1 + Cardinality({s.token : s \in seen} \ {0})

\* A filesystem the format can say: no name it keeps for itself, each name in a directory,
\* and data where the type has some.
IsListable(t) ==
    /\ IsFilesystem(t)
    /\ \A name \in DOMAIN t.number :
          /\ t.number[name] \in DOMAIN t.inode /\ name \notin Reserved
          /\ Len(name) > 1 => Front(name) \in DOMAIN t.number /\ InodeAt(t, Front(name)).type = "dir"
          /\ InodeAt(t, name).data # <<>> => Len(InodeAt(t, name).data) > 0
          /\ InodeAt(t, name).type \in {"lnk", "chr", "blk"} => InodeAt(t, name).data # <<>>
-----------------------------------------------------------------------------
(* The text: one record for the root, one for each entry, and the trailer. *)

\* object: what each key of a record says, and which of them an entry has: a default is left out.
Values(e) ==
    [type |-> e.type, uid |-> e.owner, mTimeNSec |-> e.mtime, mediaType |-> "manifest", name |-> e.name,
     mode |-> e.mode, size |-> e.size, sha256 |-> e.sha256, contents |-> e.target, major |-> e.device,
     inodeToken |-> e.token, xattrs |-> e.xattrs]
Keys(e, isRoot) ==
    {"type", "uid", "mTimeNSec", IF isRoot THEN "mediaType" ELSE "name"}
    \cup {k \in {"mode"} : e.type # "lnk"} \cup {k \in {"size"} : e.type \in {"reg", "lnk"}}
    \cup {k \in {"sha256"} : e.sha256 # <<>>} \cup {k \in {"contents"} : e.target # <<>>}
    \cup {k \in {"major"} : e.device # <<>>} \cup {k \in {"inodeToken"} : e.token # 0}
    \cup {k \in {"xattrs"} : e.xattrs # {}}
Object(e, isRoot) == [k \in Keys(e, isRoot) |-> Values(e)[k]]
Trailer == [mediaType |-> "trailer"]

ToBytes(m) ==
    <<Object(m.root, TRUE)>> \o [i \in DOMAIN m.entries |-> Object(m.entries[i], FALSE)] \o <<Trailer>>

\* read_entry: a value that is absent is the default of its type.
Get(o, key, default) == IF key \in DOMAIN o THEN o[key] ELSE default
ReadEntry(o) ==
    [name |-> Get(o, "name", <<>>), type |-> o["type"], mode |-> Get(o, "mode", 0), owner |-> o["uid"],
     mtime |-> o["mTimeNSec"], size |-> Get(o, "size", 0), sha256 |-> Get(o, "sha256", <<>>),
     target |-> Get(o, "contents", <<>>), device |-> Get(o, "major", <<>>), token |-> Get(o, "inodeToken", 0),
     xattrs |-> Get(o, "xattrs", {})]

\* read_canonical: what is read has to be written the same way again.
ReadCanonical(o, isRoot) ==
    /\ {"type", "uid", "mTimeNSec"} \subseteq DOMAIN o
    /\ isRoot <=> "mediaType" \in DOMAIN o
    /\ Object(ReadEntry(o), isRoot) = o

\* Mutant: the trailer is not asked for.
ParsesWithoutTrailer(text) ==
    /\ Len(text) >= 1
    /\ ReadCanonical(Head(text), TRUE)
    /\ LET tail == Tail(text)
           middle == IF tail # <<>> /\ tail[Len(tail)] = Trailer THEN Front(tail) ELSE tail IN
       /\ \A i \in DOMAIN middle : ReadCanonical(middle[i], FALSE)
       /\ Validate([root |-> ReadEntry(Head(text)), entries |-> [i \in DOMAIN middle |-> ReadEntry(middle[i])]])
\* FileManifest::parse
Parses(text) ==
    /\ Len(text) >= 2 /\ text[Len(text)] = Trailer
    /\ ReadCanonical(Head(text), TRUE)
    /\ \A i \in 2..(Len(text) - 1) : ReadCanonical(text[i], FALSE)
    /\ Validate([root |-> ReadEntry(Head(text)), entries |-> [i \in 1..(Len(text) - 2) |-> ReadEntry(text[i + 1])]])
Parse(text) ==
    [root |-> ReadEntry(Head(text)), entries |-> [i \in 1..(Len(text) - 2) |-> ReadEntry(text[i + 1])]]
-----------------------------------------------------------------------------
(* The comparison *)

All(m) == {m.root} \cup {m.entries[i] : i \in DOMAIN m.entries}
Siblings(all, e) == IF e.token = 0 THEN {} ELSE {o.name : o \in {o \in all : o.token = e.token}} \ {e.name}

\* compare: paths only one side has, and the fields of each path that differ.
OwnFields == {"type", "mode", "owner", "mtime", "size", "sha256", "target", "device", "xattrs"}
\* Mutant: which names are one file is not compared.
ChangedContent(L, R, e, o) == {f \in OwnFields : e[f] # o[f]}
ChangedFields(L, R, e, o) ==
    {f \in OwnFields : e[f] # o[f]}
    \cup (IF Siblings(L, e) # Siblings(R, o) THEN {"hardlinks"} ELSE {})
FilesDiff(l, r) ==
    LET L == All(l)
        R == All(r)
        ln == {e.name : e \in L}
        rn == {e.name : e \in R} IN
    [added |-> rn \ ln, removed |-> ln \ rn,
     changed |-> {c \in UNION {{[name |-> e.name, fields |-> ChangedFields(L, R, e, o)] : o \in {o \in R : o.name = e.name}} : e \in L} :
                     c.fields # {}}]
IsEmpty(d) == d.added = {} /\ d.removed = {} /\ d.changed = {}

\* without_per_image: the content of the one per-image file is set aside, and nothing
\* else of it.
WithoutPerImage(d) ==
    LET rest(c) == IF c.name = Shadow THEN c.fields \ PerImageFields ELSE c.fields IN
    [d EXCEPT !.changed = {c \in {[name |-> c.name, fields |-> rest(c)] : c \in d.changed} : c.fields # {}}]
-----------------------------------------------------------------------------
(* Two images, each with the manifest beside it. *)

VARIABLES
    disks,     \* the filesystem of each image
    listing    \* the manifest beside each image, perhaps cut short; <<>> before

fileVars == <<disks, listing>>

\* write_manifest writes in place: a kill leaves any part of the text.
WriteListing ==
    \E i \in {1, 2} :
        /\ listing[i] = <<>>
        /\ LET text == ToBytes(Assemble(disks[i])) IN
           \E k \in 1..Len(text) : listing' = [listing EXCEPT ![i] = SubSeq(text, 1, k)]
        /\ disks' = disks

FilesInit == disks \in [{1, 2} -> Trees] /\ listing = [i \in {1, 2} |-> <<>>]
FilesNext == WriteListing
FilesSpec == FilesInit /\ [][FilesNext]_fileVars

FilesTypeOK == disks \in [{1, 2} -> Trees] /\ DOMAIN listing = {1, 2}

\* What a filesystem shows, without its numbers: the inode behind every name, and which
\* names are one file.
Visible(tree) ==
    [name \in DOMAIN tree.number |->
        [inode |-> [InodeAt(tree, name) EXCEPT !.mode = IF InodeAt(tree, name).type = "lnk" THEN 0 ELSE @],
         links |-> IF InodeAt(tree, name).type = "dir" THEN {} ELSE Links(tree, tree.number[name])]]

\* A manifest that reads back is the whole list of the filesystem it was written from
\* (one cut short anywhere is refused), and two of them compare equal exactly where the
\* filesystems show the same names, the same inodes and the same hard links, however
\* their inodes are numbered.
ListingIsTheFiles ==
    /\ \A i \in {1, 2} : Parses(listing[i]) => Parse(listing[i]) = Assemble(disks[i])
    /\ (\A i \in {1, 2} : Parses(listing[i])) =>
          (IsEmpty(FilesDiff(Parse(listing[1]), Parse(listing[2]))) <=> Visible(disks[1]) = Visible(disks[2]))
=============================================================================
