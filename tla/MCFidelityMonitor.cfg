CONSTANTS
  LogLength = 6
  Logs <- MCLogs
  Deltas = {1, 2}
  NWindow = 2
  Theta = 0
  TReg = 2
SPECIFICATION Spec
INVARIANTS
  AuditQueueExact
  AlarmExact
  ExposureAccounts
CHECK_DEADLOCK FALSE
