SPECIFICATION LabPageSpec
CONSTANTS
    l1 = l1
    l2 = l2
    b1 = b1
    b2 = b2
    k1 = k1
    k2 = k2
    body1 = body1
    h1 = h1
    h2 = h2
    Labs = {l1}
    Builds = {b1, b2}
    Keys = {k1}
    Bodies = {body1}
    Handlers = {h1, h2}
    Routes = {"generate", "get", "build", "validate", "deploy"}
    NoLab = NoLab
    NoBuild = NoBuild
    NoKey = NoKey
    MaxCrashes = 1
    labA = labA
    labB = labB
    f1 = f1
    PageLabs = {labA, labB}
    Slots = {f1}
    Polls <- MC_Polls
    MaxRuns = 1
    MaxClicks = 2
    MaxLosses = 1
    Verdicts = {"passed"}
    Nil = Nil
    Error = Error
SYMMETRY MC_Symmetry
INVARIANTS
    LabFollowsItsBuild
    PageIsCoherent
PROPERTIES
    ImplementsContract
CHECK_DEADLOCK FALSE
