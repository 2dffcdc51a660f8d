-------------------------- MODULE MCPackageStages ---------------------------
EXTENDS PackageStages

Ask(node, src, cfg, dep, tool) == [node |-> node, src |-> src, cfg |-> cfg, dep |-> dep, tool |-> tool]

\* A first lock; other blobs and a configuration with USB images; another tree.
UbootAsks ==
    {Ask("uboot", 1, [maskrom |-> FALSE], 1, 1), Ask("uboot", 1, [maskrom |-> TRUE], 2, 1), Ask("uboot", 2, [maskrom |-> FALSE], 1, 1)}

\* librga links by itself, mpp only beside librga; a third tree is not linked at all.
Rga == [name |-> "rga", flag |-> TRUE, requires |-> {}, links |-> {"librga2", "librga-dev"}, runtime |-> "librga2"]
Mpp == [name |-> "mpp", flag |-> TRUE, requires |-> {"rga"}, links |-> {"librockchip-mpp1"}, runtime |-> "librockchip-mpp1"]
Tool == [name |-> "tool", flag |-> FALSE, requires |-> {}, links |-> {"tool"}, runtime |-> "tool"]
Mali == [name |-> "mali", links |-> {"libmali"}, runtime |-> "libmali"]
FfmpegAsk(s, t, d) ==
    Ask("ffmpeg", s, [trees |-> t, nonfree |-> FALSE, libs |-> {Mali}], [n \in {"rga", "mpp", "tool"} |-> IF n = "rga" THEN d ELSE 1], 1)
FfmpegAsks ==
    {FfmpegAsk(1, {Rga, Mpp, Tool}, 1), FfmpegAsk(1, {Mpp, Tool}, 1), FfmpegAsk(1, {Rga, Mpp, Tool}, 2), FfmpegAsk(2, {Rga, Mpp, Tool}, 1)}
AppAsks == {Ask("app", s, [project |-> p], p, 1) : s \in {1, 2}, p \in {1, 2}}

MCAsks == UbootAsks \cup FfmpegAsks \cup AppAsks
=============================================================================
