SPECIFICATION RacesSpec
CONSTANTS
    r1 = r1
    u1 = u1
    t1 = t1
    k1 = k1
    h1 = h1
    h2 = h2
    s1 = s1
    boss = boss
    temp = temp
    guest = guest
    team = team
    club = club
    lab = lab
    fight = fight
    first = first
    second = second
    pass = pass
    code = code
    someone = someone
    Runs = {r1}
    Users = {u1}
    Tickets = {t1}
    Keys = {k1}
    Handlers = {h1, h2}
    Sweeps = {s1}
    Routes = {"deploy", "view", "open", "submit", "terminate", "suspend"}
    NoRun = NoRun
    NoUser = NoUser
    NoKey = NoKey
    MaxCrashes = 1
    FixtureOrgs <- MC_Orgs
    FixtureUsers <- MC_Fixtures
    DevUser = boss
    HomeOf <- MC_HomeOf
    NewUsers = {guest}
    NewOrgs = {club}
    NewLabs = {lab}
    NewRuns = {fight}
    NewSeasons = {first, second}
    Passes = {pass}
    Subjects = {someone}
    Slugs = {0}
    Codes = {code}
    Nowhere = Nowhere
    NoPass = NoPass
    HalfSeason = 2
    Month = 2
    MaxDay = 4
    MaxStops = 3
SYMMETRY MC_Symmetry
INVARIANTS
    TypeOK
    RecordedWorkIsDone
    BootSettles
    HeldLabsStayDown
PROPERTIES
    ImplementsContract
    RepositoryImplementsContract
CHECK_DEADLOCK FALSE
