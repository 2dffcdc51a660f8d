----------------------------- MODULE MCPipeline -----------------------------
EXTENDS Pipeline, TLC

\* Every node at one version, and everything but the kernel moved on.
MCPinnings ==
    LET all(v) == [n \in Debs \cup {"uboot"} |-> v]
    IN {all(1), all(2), [all(2) EXCEPT !["kernel"] = 1]}

MirrorSymmetry == Permutations(Mirrors)
=============================================================================
