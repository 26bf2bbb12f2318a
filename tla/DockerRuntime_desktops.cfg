SPECIFICATION Spec
CONSTANTS
    r1 = r1
    h1 = h1
    h2 = h2
    Runs = {r1}
    BlueRuns = {r1}
    Handlers = {h1, h2}
    Cleaner = Cleaner
    NoRun = NoRun
    NoProc = NoProc
    MaxProvisions = 2
    MaxFaults = 1
SYMMETRY MC_Symmetry
INVARIANTS
    TypeOK
    DestroyedIsGone
    GivenIsWhole
    NothingLeaks
    NoStandstill
CHECK_DEADLOCK FALSE
