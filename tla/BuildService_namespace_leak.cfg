SPECIFICATION Spec
CONSTANTS
    b1 = b1
    k1 = k1
    r1 = r1
    r2 = r2
    h1 = h1
    Builds = {b1}
    Keys = {k1}
    NoKey = NoKey
    NoBuild = NoBuild
    Replicas = {r1}
    Handlers = {h1}
    Home <- MC_OneHandlerHome
    Routes = {"POST", "GET", "DELETE"}
    CleanupAttempts = 1
    MaxCrashes = 0
INVARIANTS
    CleanedNamespaceIsGone
CHECK_DEADLOCK FALSE
