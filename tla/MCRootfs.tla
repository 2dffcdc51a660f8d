------------------------------ MODULE MCRootfs ------------------------------
(* A board's build and every way it can differ from it in one respect. *)
EXTENDS Rootfs, TLC

Deb(name, ver, sha) == [name |-> name, ver |-> ver, sha |-> sha, source |-> "local", component |-> "main"]
Pkg(name, ver, source, component) == [name |-> name, ver |-> ver, sha |-> ver, source |-> source, component |-> component]
Repo(keyring) == [uri |-> "repo", suite |-> "any", keyring |-> keyring]
Shipped(content, exec) == [content |-> <<content>>, exec |-> exec]

Plain ==
    [arch |-> "arm64", suite |-> "forky", features |-> {}, hostname |-> "rk1", epoch |-> 5, interpreter |-> Nil,
     boot |-> [method |-> "rkbin", board |-> Nil, compress |-> Nil],
     kernel |-> [package |-> Nil, release |-> "7.1.6", flavor |-> Nil], dtb |-> "rk1.dtb", cmdline |-> "quiet",
     pockets |-> {[mirror |-> "deb", suite |-> "forky"], [mirror |-> "deb", suite |-> "forky-updates"]},
     components |-> {"main"}, packages |-> {"kernel", "ssh"}, exclude |-> {}, aptSources |-> <<>>,
     debs |-> {Deb("kernel", 1, 1)},
     preLayers |-> <<"keyboard" :> Shipped("us", FALSE), "hook" :> Shipped("pre", TRUE)>>,
     layers |-> <<"fstab" :> Shipped("mine", FALSE), "hook" :> Shipped("one", TRUE), "hook" :> Shipped("two", TRUE)>>,
     partuuid |-> 1, volumes |-> <<>>, locale |-> "C", locales |-> <<>>, timezone |-> "UTC", keymap |-> Nil, ntp |-> <<>>,
     generator |-> "initramfs-tools", modules |-> <<>>, expectations |-> <<>>, selftest |-> FALSE,
     user |-> "debian", sudo |-> "nopasswd", keys |-> <<>>, groups |-> {"video"},
     known |-> [groups |-> {"video", "render"}, zones |-> {"UTC", "CET"}, loadable |-> {"nvme"}, builtin |-> {"mmc"}]]

Chromebook ==
    [Plain EXCEPT !.boot = [method |-> "depthcharge", board |-> "kevin", compress |-> "xz"], !.modules = <<"nvme", "mmc">>,
                  !.keymap = "us"]

Variants ==
    {Plain, Chromebook,
     [Plain EXCEPT !.layers = Append(SubSeq(@, 1, 2), "hook" :> Shipped("three", TRUE))],
     [Plain EXCEPT !.layers = Append(SubSeq(@, 1, 2), "hook" :> Shipped("two", FALSE))],
     [Plain EXCEPT !.preLayers = <<>>],
     [Plain EXCEPT !.debs = {Deb("kernel", 1, 2)}],
     [Plain EXCEPT !.aptSources = <<Repo("old")>>],
     [Plain EXCEPT !.aptSources = <<Repo("new")>>],
     [Plain EXCEPT !.sudo = "password"],
     [Plain EXCEPT !.keys = <<"a", "b">>],
     [Plain EXCEPT !.keys = <<"b", "a">>],
     [Plain EXCEPT !.epoch = 6],
     [Plain EXCEPT !.interpreter = "qemu"],
     [Plain EXCEPT !.components = {"main", "non-free"}],
     [Plain EXCEPT !.timezone = "CET"],
     [Plain EXCEPT !.timezone = "Mars"],
     [Plain EXCEPT !.generator = "dracut", !.modules = <<"nvme">>],
     [Plain EXCEPT !.modules = <<"nvme">>],
     [Plain EXCEPT !.modules = <<"absent">>],
     [Plain EXCEPT !.kernel = [package |-> "linux-image-arm64", release |-> Nil, flavor |-> "arm64"], !.debs = {}, !.components = {"main", "non-free"}],
     [Chromebook EXCEPT !.boot.compress = "lz4"]}

MCConfigs == Variants
MCFirsts == {Plain, Chromebook}
\* The account in other groups.
MCGroupConfigs == {Plain, [Plain EXCEPT !.groups = {"video", "render"}]}

Base(v) == {Pkg("base", 1, "archive", "main"), Pkg("ssh", v, "archive", "main"), Pkg("kernel", 3, "archive", "non-free"),
            Pkg("ssh", 2, "feature", "main")}
MCArchives == {Base(1), Base(3)}
MCHosts == {[umask |-> "002", checkout |-> 1, now |-> 8], [umask |-> "077", checkout |-> 7, now |-> 9]}
=============================================================================
