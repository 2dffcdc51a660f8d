CONSTANTS
    Pins = {1}
    Cfgs = {c1, c2}
    Tools = {t1}
    Drivers = {1}
    None = None
    Partial = 0
    Asks <- Wants
    Foreign = {}
    LiveEdits = FALSE
    Faults = {}
    MaxRuns = 2
SPECIFICATION Spec
INVARIANT ModulesFitKernel
