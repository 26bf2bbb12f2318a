SPECIFICATION Spec
CONSTANTS
    l1 = l1
    l2 = l2
    b1 = b1
    b2 = b2
    k1 = k1
    k2 = k2
    body1 = body1
    h1 = h1
    h2 = h2
    Labs = {l1}
    Builds = {b1, b2}
    Keys = {k1}
    Bodies = {body1}
    Handlers = {h1, h2}
    Routes = {"generate", "get", "build", "validate", "deploy"}
    NoLab = NoLab
    NoBuild = NoBuild
    NoKey = NoKey
    MaxCrashes = 0
SYMMETRY MC_Symmetry
INVARIANTS
    ReleasedLabIsRevalidated
CHECK_DEADLOCK FALSE
