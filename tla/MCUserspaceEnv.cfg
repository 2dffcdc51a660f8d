CONSTANTS
    N = 1
    Parts = {"rt", "dev"}
    Pins = {1}
    Envs = {e1, e2}
    None = None
    Torn = Torn
    Cut = Cut
    Reverts = FALSE
    StoreModes = {TRUE}
    Faults = {}
SPECIFICATION Spec
INVARIANTS StoreHonest
