SPECIFICATION Spec
CONSTANTS
  Proposals <- MCProposals
  EpsMargin = 1
  MaxDrivers = 2
  MaxFaults = 3
INVARIANTS
  RowsExact
  GatedHarmExplained
CHECK_DEADLOCK FALSE
