SPECIFICATION PlaneSpec
CONSTANTS
  d1 = d1
  d2 = d2
  labA = labA
  labB = labB
  f1 = f1
  PageLabs = {labA, labB}
  Slots = {f1}
  Polls <- MC_Polls
  MaxRuns = 1
  MaxClicks = 1
  MaxLosses = 1
  Verdicts = {"passed", "rejected"}
  Nil = Nil
  Error = Error
  Destroyers = {d1, d2}
  MaxFaults = 1
  MaxTroubles = 2
INVARIANTS IsolationHolds ReadyIsUsable RevokedBeforeTornDown FilterBeforeTunnel
INVARIANTS PassIsEarned SandboxIsConfined
PROPERTIES ExpiredTunnelEnds GatewayRecovers CreatedIsRemoved PageMovesOn
CHECK_DEADLOCK FALSE
