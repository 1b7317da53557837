CONSTANTS
  Domains <- MCDomains
  Table <- MCTable
  CertPoints <- MCPoints
  Eps <- MCEps
  Budget = 1
  Resolution = 2
  Pending = Pending
SPECIFICATION Spec
INVARIANT HybridCertifiesJointBudget
CHECK_DEADLOCK FALSE
