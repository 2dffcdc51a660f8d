---------------------------- MODULE MCResolution ----------------------------
EXTENDS Resolution

InSuite(n, s) == [name |-> n, plain |-> FALSE, suites |-> <<{s}>>, distros |-> <<>>]
InDistro(n, s) == [name |-> n, plain |-> FALSE, suites |-> <<>>, distros |-> <<{s}>>]
Nowhere(n) == [name |-> n, plain |-> FALSE, suites |-> <<{}>>, distros |-> <<>>]
DebAt(path, at) == [sha256 |-> "deb1", url |-> <<>>, path |-> <<path>>, targets |-> at]
RepoAt(u) == [git |-> u, ref |-> "v1"]
Check(kind, text) ==
    [f \in {"check", "path", "device", "driver", "name", "pattern"} |->
        IF f = "check" THEN kind ELSE IF f \in Takes(kind) THEN <<text>> ELSE <<>>]
Driver == Check("driver-bound", "rga")
Derived == Check("single-kernel", "")
Adding(groups, packages) ==
    [groups |-> groups, packages |-> packages, exclude |-> <<>>, debs |-> <<>>, expect |-> <<>>]
NoBlobs == [atf |-> <<>>, tpl |-> <<>>, bl32 |-> <<>>, upstream |-> <<>>]
HardwareOf(blobs, modules, firmware) ==
    [blobs |-> blobs, initramfs |-> [modules |-> modules], firmware |-> <<Plain(firmware)>>, caveats |-> <<"no sleep">>]

MCArchs ==
    [a \in Arch |-> [kernel |-> IF a = "armv7" THEN "arm" ELSE a, image |-> IF a = "armv7" THEN "zImage" ELSE "Image", cross |-> a]]

Mpp ==
    [name |-> "mpp", source |-> RepoAt("mpp"), debs |-> <<"librockchip-mpp1">>, links |-> <<"librockchip_mpp">>,
     flag |-> <<"rkmpp">>, needs |-> <<>>, patched |-> FALSE, optional |-> FALSE, deps |-> <<>>, filter |-> <<>>]

\* The silicon that has a media stack, and one without.
Rk3588 ==
    [arch |-> "arm64", modules |-> <<"rockchip">>,
     hw |-> HardwareOf([NoBlobs EXCEPT !.atf = <<"bl31">>, !.tpl = <<"ddr">>, !.upstream = <<[git |-> "rkbin", dir |-> "bin"]>>],
                       <<"dw-mmc">>, "fw-rk"),
     adds |-> [Adding({"video"}, <<Plain("mali"), InDistro("sysv", "devuan")>>) EXCEPT !.expect = <<Driver>>],
     userspace |-> <<Mpp>>, ffmpeg |-> <<[base |-> RepoAt("ffmpeg"), rockchip |-> <<>>]>>]
MCSocs ==
    [s \in {"rk3588", "rk3288"} |->
        IF s = "rk3588" THEN Rk3588
        ELSE [Rk3588 EXCEPT !.arch = "armv7", !.userspace = <<>>, !.ffmpeg = <<>>, !.adds = Adding({}, <<>>)]]

MCMethods ==
    [rkbin |-> [source |-> "u-boot", ref |-> "v2025", patchesUrl |-> <<"p">>, patchesRef |-> <<>>,
                offsets |-> [idbloader |-> "32K", itb |-> "8M", rootfs |-> "16M"],
                adds |-> Adding({}, <<Plain("u-boot-menu")>>)],
     depthcharge |-> [cmdline |-> {"quiet"}, slots |-> 2, priority |-> 10, tries |-> 5, successful |-> TRUE, at |-> 4, mib |-> 16,
                      adds |-> [Adding({}, <<Plain("vboot")>>) EXCEPT !.exclude = <<"u-boot-menu">>]]]

Compiled(socs, libre, series, patched) ==
    [compiled |-> TRUE, flavor |-> "mainline", socs |-> socs, libre |-> libre, source |-> [tree |-> "linux"], track |-> <<>>,
     defconfig |-> "defconfig", series |-> series, patchesUrl |-> IF patched THEN <<"p">> ELSE <<>>, patchesRef |-> <<>>,
     fragments |-> <<"base.cfg">>, expect |-> <<>>]
MCKernels ==
    [mainline |-> [Compiled({"rk3588", "rk3288"}, FALSE, <<"soc-fixes">>, TRUE) EXCEPT !.expect = <<Check("no-dmesg-match", "oops")>>],
     libre |-> [Compiled({"rk3588"}, TRUE, <<>>, FALSE) EXCEPT !.source = RepoAt("libre")],
     vendor |-> Compiled({"rk3566"}, FALSE, <<>>, TRUE),
     packaged |-> [compiled |-> FALSE, flavor |-> "distro-package", socs |-> {"rk3588"}, package |-> "linux-image-arm64",
                   expect |-> <<>>]]

MCDistros ==
    [debian |-> [suites |-> {"forky", "sid"}, rolling |-> {"sid"}, mirror |-> "http://deb", snapshot |-> <<"http://snap">>,
                 pockets |-> <<[suffix |-> "-updates", mirror |-> <<>>, snapshot |-> <<>>],
                               [suffix |-> "-security", mirror |-> <<"http://sec">>, snapshot |-> <<>>]>>,
                 free |-> {"main"}, components |-> {"main", "non-free-firmware"}, keyring |-> "debian", user |-> "debian",
                 generator |-> "initramfs-tools", packages |-> <<InSuite("late", "sid")>>, exclude |-> <<>>],
     devuan |-> [suites |-> {"daedalus"}, rolling |-> {}, mirror |-> "http://dev", snapshot |-> <<>>, pockets |-> <<>>,
                 free |-> {}, components |-> {"main"}, keyring |-> "devuan", user |-> "devuan",
                 generator |-> "dracut", packages |-> <<>>, exclude |-> <<"systemd">>]]

MCBase ==
    [adds |-> Adding({"audio"}, <<Plain("systemd"), Plain("ssh")>>),
     policy |-> [locale |-> <<"C.UTF-8">>, extras |-> <<{}>>, timezone |-> <<"Etc/UTC">>, ntp |-> <<{}>>,
                 sudo |-> <<"nopasswd">>, password |-> <<12>>, keys |-> <<{}>>]]

NoFeature ==
    [conflicts |-> {}, requires |-> {}, provides |-> {}, socs |-> {}, archs |-> {}, media |-> FALSE,
     nonfree |-> FALSE, fragments |-> <<>>, patches |-> <<>>, apt |-> <<>>, apps |-> <<>>, libs |-> <<>>,
     packages |-> <<>>, exclude |-> <<>>, debs |-> <<>>, caveats |-> <<>>, expect |-> <<>>]
AptAt(u) == [name |-> "jelly", uri |-> u, suite |-> "forky", components |-> {"main"}, keyring |-> "jelly"]
AnApp(n) ==
    [name |-> n, deb |-> "app-deb", source |-> RepoAt("app"), series |-> <<"app-fixes">>, patchesUrl |-> <<"p">>, patchesRef |-> <<>>,
     build |-> [packaging |-> RepoAt("app-deb"), sourceDir |-> "src", project |-> "src",
                sdk |-> [version |-> "9.0", sha512 |-> {[host |-> "amd64", hash |-> "sha"]}]]]
MCFeatures ==
    [accel |-> [NoFeature EXCEPT !.media = TRUE, !.provides = {"ffmpeg"}, !.patches = <<"vpu">>,
                             !.fragments = <<"vpu.cfg">>, !.socs = {"rk3588"}, !.expect = <<Driver>>],
     jelly |-> [NoFeature EXCEPT !.requires = {"ffmpeg"}, !.packages = <<Plain("jellyfin")>>,
                             !.apt = <<AptAt("http://a")>>, !.caveats = <<"no sleep">>],
     nonfree |-> [NoFeature EXCEPT !.nonfree = TRUE, !.requires = {"ffmpeg"},
                               !.libs = <<[flag |-> "fdk", links |-> <<"one">>]>>],
     codecs |-> [NoFeature EXCEPT !.libs = <<[flag |-> "fdk", links |-> <<"two">>]>>, !.patches = <<"vpu">>,
                              !.apt = <<AptAt("http://b")>>],
     server |-> [NoFeature EXCEPT !.conflicts = {"desktop"}, !.exclude = <<"ssh">>],
     desktop |-> [NoFeature EXCEPT !.packages = <<Plain("gnome"), Plain("ssh")>>, !.debs = <<DebAt("a.deb", {"image", "ffmpeg"})>>,
                               !.apps = <<AnApp("app")>>],
     escaping |-> [NoFeature EXCEPT !.debs = <<DebAt("../a.deb", {"image"})>>],
     nowhere |-> [NoFeature EXCEPT !.packages = <<Nowhere("late")>>],
     elsewhere |-> [NoFeature EXCEPT !.packages = <<InDistro("late", "ubuntu")>>],
     broken |-> [NoFeature EXCEPT !.apps = <<[AnApp("app") EXCEPT !.patchesUrl = <<>>]>>],
     derived |-> [NoFeature EXCEPT !.expect = <<Derived>>],
     data_volume |-> [NoFeature EXCEPT !.packages = <<Plain("cryptsetup")>>]]

Board ==
    [name |-> "board", soc |-> "rk3588", method |-> "rkbin", methods |-> {"rkbin"}, layout |-> "combined",
     dts |-> {}, dtb |-> "board", kmods |-> <<>>, cmdline |-> {"console"}, hostname |-> "board",
     hw |-> HardwareOf([NoBlobs EXCEPT !.atf = <<"">>, !.tpl = <<"ddr2">>], <<"dw_mmc">>, "fw-board"),
     series |-> {"util"}, defaultSeries |-> <<"util">>, depthcharge |-> <<>>, defconfig |-> "board_defconfig",
     kernel |-> "mainline", kernels |-> {"mainline", "libre", "packaged", "vendor"},
     fragments |-> <<>>, patches |-> <<>>, suite |-> "forky", suites |-> {"forky", "daedalus"},
     policy |-> [size |-> <<"4G">>, keymap |-> <<>>],
     adds |-> [Adding({"gpio"}, <<>>) EXCEPT !.debs = <<DebAt("b.deb", {"image"})>>]]

\* A board with its profiles, one with its own tree and module, and one whose module escapes its tree.
MCDevices ==
    [board |-> Board,
     chrome |-> [Board EXCEPT !.name = "chrome", !.method = "depthcharge", !.methods = {"depthcharge", "rkbin"},
                              !.depthcharge = <<[board |-> "speedy", boards |-> {"speedy", "libreboot"}, mib |-> <<32>>]>>,
                              !.suites = {"*"}, !.soc = "rk3288",
                              !.series = {}, !.defaultSeries = <<>>, !.defconfig = "",
                              !.policy = [size |-> <<"fit+20%">>, keymap |-> <<[FromLayout("us") EXCEPT !.variant = "chromebook"]>>]],
     evb |-> [Board EXCEPT !.name = "evb", !.dts = {"board"}, !.kmods = <<"wifi">>, !.patches = <<"panel">>,
                           !.defaultSeries = <<>>],
     escapes |-> [Board EXCEPT !.name = "escapes", !.kmods = <<"up">>]]

Wifi ==
    [source |-> RepoAt("wifi"), subdir |-> "src", patchDir |-> "debian/patches", repoPatches |-> <<"fix.patch">>, localPatches |-> <<>>,
     makeArgs |-> <<"CONFIG=m">>, modules |-> <<"wl.ko">>, firmware |-> <<[subdir |-> "fw", install |-> "lib/fw"]>>,
     expect |-> <<Check("firmware", "wl.bin")>>]
MCKmods == [wifi |-> Wifi, up |-> [Wifi EXCEPT !.subdir = "../src"]]

MCModuleKey == [n \in {"dw-mmc", "dw_mmc"} |-> "dw_mmc"]

ShapedTexts ==
    [hostname |-> {"board"}, module |-> {"dw-mmc", "dw_mmc"}, board |-> {"speedy", "libreboot"},
     suite |-> {"forky", "sid", "daedalus", "none"}, suffix |-> {"-updates", "-security"},
     url |-> {"http://deb", "http://snap", "http://sec", "http://dev", "http://a", "http://b"},
     stem |-> {"jelly", "debian", "devuan"}, flat |-> {}, user |-> {"debian", "devuan"},
     slots |-> 1..4, attribute |-> 0..15, offset |-> {"32K", "8M", "16M"}, digest |-> {"deb1"}, sha512 |-> {"sha"},
     path |-> {"a.deb", "b.deb", "src", "bin", "debian/patches", "fw", "lib/fw"}, file |-> {"fix.patch", "wl.ko"},
     assignment |-> {"CONFIG=m"}, app |-> {"app"}, deb |-> {"app-deb", "wifi", "up"}, release |-> {"9.0"},
     xkb |-> {"", "us", "de", "pc105", "chromebook"}, mount |-> {"/srv", "/media"}, label |-> {"data", "more"},
     caveat |-> {"no sleep", "no audio"}, commit |-> {"0123456789ab"}, firmware |-> {"wl.bin"}, devnode |-> {"/dev/sda"},
     size |-> {"4G", "2G", "fit+20%"}, locale |-> {"C.UTF-8", "de_DE.UTF-8"}, extras |-> {{}, {"fr_FR.UTF-8"}},
     timezone |-> {"Etc/UTC", "Europe/Paris"}, ntp |-> {{}, {"ntp"}}, keys |-> {{}, {"ed25519"}},
     group |-> {"audio", "video", "gpio", "dialout"}]
MCShaped ==
    [k \in DOMAIN ShapedTexts \cup {"driver-bound", "no-dmesg-match"} |->
        IF k \in DOMAIN ShapedTexts THEN ShapedTexts[k] ELSE {"rga", "oops"}]

\* What the two sources may name, malformed and unsupported values among them.
Asked ==
    [kernel |-> {"libre", "packaged", "vendor"}, suite |-> {"sid", "daedalus", "bad"}, generator |-> {"dracut"},
     features |-> {<<"accel">>, <<"accel", "jelly">>}, size |-> {"2G", "2GB!"}, locale |-> {"de_DE.UTF-8", "de_DE"},
     extras |-> {{"fr_FR.UTF-8"}}, timezone |-> {"Europe/Paris"}, ntp |-> {{"ntp"}}, keymap |-> {FromLayout("de"), FromLayout("")},
     sudo |-> {"password"}, password |-> {7, 8, 64}, keys |-> {{"ed25519"}}, groups |-> {{"dialout"}, {"Bad"}},
     series |-> {"none", "util", "other"}, layout |-> {"split"}, method |-> {"rkbin", "depthcharge"},
     board |-> {"libreboot", "other"}]

Silent == [a \in Axes |-> <<>>]
Naming(as) == {Silent} \cup UNION {{[Silent EXCEPT ![a] = <<v>>] : v \in Asked[a]} : a \in as}

Request(d, del, c, r, s) ==
    [device |-> d, deliverable |-> del, cli |-> c, recipe |-> r, suffix |-> s,
     volumes |-> <<>>, selftest |-> FALSE, support |-> <<>>]

\* Every selection of up to three, a repeated one and an unknown one included.
Malformed == {"escaping", "nowhere", "elsewhere", "broken", "derived"}
Names == DOMAIN MCFeatures
Selections == {<<a, b>> : a, b \in Names} \cup {<<a, b, c>> : a, b, c \in Names \ Malformed} \cup {<<"unknown">>}

\* A recipe's volumes and claim: none, sound ones, and one each that does not parse.
Volume(label, mount) ==
    [match |-> [by |-> "kind", at |-> "nvme"], label |-> label, fstype |-> "ext4", mount |-> mount, create |-> "if-blank"]
VolumeLists == {<<>>, <<Volume("data", "/srv"), Volume("more", "/media")>>, <<Volume("data", "/srv"), Volume("more", "/srv")>>}
Claim(status, commit, day) ==
    [status |-> status, commit |-> commit, date |-> [year |-> 2026, month |-> 2, day |-> day], caveats |-> <<"no sleep", "no audio">>]
ClaimsMade == {<<>>, <<Claim("validated", <<"0123456789ab">>, 28)>>, <<Claim("expected", <<>>, 29)>>, <<Claim("validated", <<>>, 1)>>}

MCRequests ==
    {Request(d, del, c, r, <<>>) :
        d \in DOMAIN MCDevices, del \in {"image", "uboot"}, c \in Naming(CliAxes), r \in Naming(RecipeAxes)}
    \cup {Request("board", "image", [Silent EXCEPT !["kernel"] = k], Silent, <<fs>>) :
            k \in {<<>>, <<"packaged">>}, fs \in Selections}
    \cup {[Request(d, del, Silent, [Silent EXCEPT !["features"] = fs], s) EXCEPT !.volumes = v, !.support = c, !.selftest = t] :
            d \in DOMAIN MCDevices, del \in {"image", "uboot"},
            fs \in {<<>>, <<<<"accel", "nonfree">>>>, <<<<"data_volume">>>>}, s \in {<<>>, <<<<"data_volume">>>>},
            v \in VolumeLists, c \in ClaimsMade, t \in BOOLEAN}
=============================================================================
