SPECIFICATION GatewaysSpec
CONSTANTS
  r1 = r1
  u1 = u1
  k1 = k1
  h1 = h1
  s1 = s1
  s2 = s2
  Runs = {r1}
  Users = {u1}
  Tickets = {}
  Keys = {k1}
  Handlers = {h1}
  Sweeps = {s1, s2}
  Routes = {"deploy", "view", "open", "submit", "terminate", "suspend"}
  NoRun = NoRun
  NoUser = NoUser
  NoKey = NoKey
  MaxCrashes = 1
  b1 = b1
  b2 = b2
  Browsers = {b1, b2}
  RunExpiry = 3
  MaxLife = 4
  CacheLife = 1
  AskLife = 1
  MaxTime = 5
  Never = Never
  Events = {"e1", "e2"}
  Expected = {"e1"}
  Questions <- MC_Questions
  Merits = {50}
  ElkWait = 5
  RubricWait = 12
  GraderWait = 20
  MaxTries = 1
  ann = ann
  bea = bea
  cas = cas
  org = org
  Learners <- MC_Learners
  Orgs <- MC_Orgs
  InOrg <- MC_InOrg
  Works <- MC_Works
  SeasonSpan <- MC_Season
  Shy = {org, cas}
  Ttl = 4
  Weekly = 1
  MaxResults = 3
  Today = 2
  Nobody = Nobody
  Rubrics = {"rubric"}
  LongIds = {"long"}
  Requests <- MC_Requests
  Catalogs <- MC_Catalogs
  Plans <- MC_Plans
  LookupsAtOnce = 1
  GatewayLimit = 4
  AiLimit = 6
  ApiLimit = 7
  MaxAttempts = 2
  Nothing = Nothing
INVARIANTS 
  DesktopEndsWithRun RightAnswersCount BoardIsConsistent
  WorkIsAwaited RefusalsAreKnown
PROPERTIES OverdueRunsEnd
CHECK_DEADLOCK FALSE
