----------------------------- MODULE MCRecords ------------------------------
EXTENDS Records, MCFiles

\* A directory, the file an image names itself in and the one with the password.
MCIdentityName == <<1>>
RecordTree(data) ==
    [number |-> [n \in {<<>>, <<1>>, <<2>>, <<3>>} |-> IF n = <<>> THEN 0 ELSE n[1]],
     inode |-> [k \in 0..3 |-> IF k = 0 THEN Dir
                               ELSE IF k = 2 THEN Inode("reg", data) ELSE Inode("reg", <<0>>)]]

\* A compiled kernel with a series, and a second pin of it on a board without u-boot; an app
\* on an SDK.
NoPins == [a \in GitAxes |-> <<>>]
NoSeries == [x \in PatchAxes |-> <<>>]
LockAt(commit, app, uboot) ==
    [id |-> <<"mainline">>,
     git |-> [NoPins EXCEPT !["kernel"] = <<GitPin("up", "v7.1", commit)>>, !["lib"] = <<GitPin("up", "main", "l1")>>,
                            !["uboot"] = uboot, !["app"] = app, !["packaging"] = IF app = <<>> THEN <<>> ELSE <<GitPin("up", "main", "g1")>>],
     patches |-> [NoSeries EXCEPT !["patches"] = <<PatchesPin(<<"one">>, "up", "main", "s1")>>],
     blobs |-> IF uboot = <<>> THEN <<>> ELSE [atf |-> BlobPin("bl_v1", 1), tpl |-> BlobPin("tpl_v1", 1)], debs |-> <<>>,
     sdk |-> IF app = <<>> THEN <<>> ELSE <<[version |-> "8.0.100", sha |-> "d1"]>>, nuget |-> app,
     distro |-> <<"debian">>, suite |-> <<"forky">>, epoch |-> 1, manifest |-> <<>>, snapshot |-> <<>>]
BoardBuild ==
    [device |-> "board", suite |-> "forky", layout |-> "gpt", size |-> [kind |-> "bytes", n |-> 4], features |-> <<>>,
      arch |-> "arm64", user |-> "debian", kernel |-> [id |-> "mainline", flavor |-> "rt", package |-> <<>>]]

Host(arch, version) ==
    [arch |-> arch, version |-> version, commit |-> <<version>>, dirty |-> FALSE, config |-> <<"c1">>, config_dirty |-> FALSE,
     cage |-> "1", jobs |-> 8]
Row(mirror, suite, release) == [mirror |-> mirror, suite |-> suite, release |-> release, local |-> mirror = <<>>]
Pkg(name, version, sha) == [name |-> name, version |-> version, arch |-> "arm64", sha |-> sha]
Plan(release, sha) ==
    [rows |-> <<Row(<<"debian">>, "forky", release), Row(<<"debian">>, "forky-updates", 1), Row(<<>>, "pool", 1)>>,
     pkgs |-> <<Pkg("base-files", "13", 1), Pkg("zlib", "1.3", sha)>>]
World(l, h, s) == [lock |-> l, manifest |-> <<s.pkgs>>, build |-> BoardBuild, host |-> h, served |-> s]
MCWorlds ==
    {World(LockAt("k1", <<GitPin("up", "v1", "a1")>>, <<GitPin("up", "v2026", "u1")>>), Host("amd64", "v1"), Plan(1, 1)),
     World(LockAt("k1", <<GitPin("up", "v1", "a1")>>, <<GitPin("up", "v2026", "u1")>>), Host("amd64", "v1"), Plan(2, 2)),
     World(LockAt("k2", <<>>, <<>>), Host("arm64", "v1"), Plan(2, 2))}
MCDiffPairs == {<<"published", "rebuilt">>, <<"published", "recipe">>, <<"lock", "recipe">>}

\* What the same pins may be made to: the same again; another toolchain root, a
\* package and a partition; another mode of the password file.
Making ==
    [deb |-> 1, tar |-> 1, root |-> 1, tree |-> RecordTree(<<"x">>),
     disk |-> [bytes |-> 64, fs |-> [blocks |-> 8, block |-> 4], table |-> [bytes |-> 32, bootable |-> TRUE], free |-> 2]]
MCMakings ==
    {Making, [Making EXCEPT !.root = 2, !.disk.table.bootable = FALSE, !.deb = 2], [Making EXCEPT !.tree.inode[3].mode = 6]}
Flags(compress, cached, save) == [keep_raw |-> compress = "none", compress |-> compress, cached |-> cached, save |-> save]
MCRunFlags == {Flags("xz", FALSE, TRUE), Flags("gz", TRUE, FALSE)}

\* The records alone, with two images standing by.
FilesRest == disks = [i \in {1, 2} |-> CHOOSE t \in Trees : TRUE] /\ listing = [i \in {1, 2} |-> <<>>]
RecordsMC == RecordsInit /\ FilesRest /\ [][RecordsNext /\ UNCHANGED fileVars]_<<recordVars, fileVars>>
=============================================================================
