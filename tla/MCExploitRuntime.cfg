CONSTANTS
  Domains <- MCDomains
  Table <- MCTable
  Eps <- MCEps
  Budget = 1
  Resolution = 1
  Privileged = "approve_transaction"
  Fallback = "manual_review"
  OtherSafe <- MCOtherSafe
  Pool <- MCPool
  NumEpisodes = 2
  Gates <- MCGates
  PushOver = 1
  Radii <- MCRadii
SPECIFICATION Spec
INVARIANTS
  SoundGatesCommitNothingUnsafe
  MarginalLeaksOnlyOnJointGap
  OracleAbstainsOnlyOnHarm
  LedgersMatchLogs
  WitnessRealizationUnsafe
PROPERTIES
  SoundGatesRefinePromise
CHECK_DEADLOCK FALSE
