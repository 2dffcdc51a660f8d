CONSTANTS
    Keys = {k1}
    Files = {f1, f2}
    Procs = {p1, p2}
    None = None
    Torn = Torn
SPECIFICATION Spec
INVARIANTS NoTornArtifact
