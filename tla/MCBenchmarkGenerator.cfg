CONSTANTS
  Domains <- MCDomains
  DomainOrder <- MCDomainOrder
  Table <- MCTable
  NumericGrid <- MCGrid
  Eps <- MCEps
  Budget = 1
  Resolution = 2
  PerCategory = 2
  NoWitness = NoWitness
SPECIFICATION Spec
INVARIANTS
  LabelsSound
  CellsFilled
CHECK_DEADLOCK FALSE
