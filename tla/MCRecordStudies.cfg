CONSTANTS
  Regimes <- AuditRegimes
  Decisions = 5
  TRegIdx = 3
  DeltaAudit = 1
  N0 = 1
  RatioNum = 3
  RatioDen = 2
  Res = 4
  TolMargin = 400
  PFloor = 820
  CPUpper <- AuditBounds
SPECIFICATION Spec
INVARIANTS
  GateIgnoresTheNote
  AlarmsAreComparable
  
CHECK_DEADLOCK FALSE
