SPECIFICATION AccountsSpec
CONSTANTS
  ann = ann
  bea = bea
  cas = cas
  c1 = c1
  c2 = c2
  People = {ann, bea}
  Callers = {c1, c2}
  NoAccount = NoAccount
  Typed = {"word"}
  MaxVersion = 1
  Users = {ann, bea, cas}
  Handlers = {c1, c2}
  Founders = {ann, bea}
  Owner = ann
  OrgAdmins = {bea, cas}
  Retried <- MC_Retried
  Periods <- MC_Periods
  MaxCodes = 2
  MaxCuts = 1
INVARIANTS AccountsTypeOK LastAdminStays CodeIsTold OneActiveSeason
PROPERTIES SignUpSucceeds OnlyOwnerDemotes
CHECK_DEADLOCK FALSE
