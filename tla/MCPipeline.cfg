CONSTANTS
    Debs = {"kernel", "kmod", "userspace", "ffmpeg"}
    Vers = {1, 2}
    Pinnings <- MCPinnings
    Mirrors = {m1, m2}
    None = None
    Torn = Torn
    Selections = {"all", "kernel", "uboot", "rootfs", "image", "ffmpeg"}
    Reverts = TRUE
    Faults = {"error", "kill"}
    MaxRuns = 2
SPECIFICATION Spec
SYMMETRY MirrorSymmetry
INVARIANTS TypeOK VouchedImageIsAsked VouchedImageIsDescribed
PROPERTY NothingMovesUnderAVouch
