CONSTANTS
    Debs = {"kernel", "app"}
    Vers = {1, 2}
    Pinnings <- MCPinnings
    Mirrors = {m1}
    None = None
    Torn = Torn
    Selections = {"all"}
    Reverts = TRUE
    Faults = {}
    MaxRuns = 2
SPECIFICATION Spec
INVARIANT VouchedImageIsCurrent
