CONSTANTS
    Debs = {"kernel", "userspace", "ffmpeg"}
    Vers = {1, 2}
    Pinnings <- MCPinnings
    Mirrors = {m1}
    None = None
    Torn = Torn
    Selections = {"all", "ffmpeg"}
    Reverts = TRUE
    Faults = {}
    MaxRuns = 2
SPECIFICATION Spec
INVARIANT FfmpegStoreHonest
