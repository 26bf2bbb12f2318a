SPECIFICATION StandingsSpec
CONSTANTS
  ann = ann
  bea = bea
  org = org
  Learners <- MC_Learners
  Orgs <- MC_Orgs
  InOrg <- MC_InOrg
  Works <- MC_Works
  SeasonSpan <- MC_Season
  Shy = {}
  Ttl = 4
  Weekly = 1
  MaxResults = 2
  Today = 3
  Nobody = Nobody
INVARIANTS PointsHaveADomain
CHECK_DEADLOCK FALSE
