CONSTANTS
  Worlds <- RegistryWorlds
  Urls <- RegistryUrls
  Key <- RegistryKey
  ListUrl <- RegistryListUrl
  DetailUrl <- RegistryDetailUrl
  GlamaUrl <- RegistryGlamaUrl
  NoCursor = "none"
  MaxServers = 2
  QuickServers = 1
  MaxRuns = 2
  MaxDrifts = 1
  Domains <- SweepDomains
  Table <- SweepTable
  Eps = 2
  Budget = 1
  Resolution = 1
  SweepDom = "synthetic"
  SweepAction = "act"
  Tracks <- SweepBothTracks
  CertRecs <- SweepRecs
  MaxD = 2
  LipGates <- SweepGates
  LipBound = 2
  CountMaps <- SweepCountMaps
  CountBound <- SweepEll
  RsTau = 900
  CostBlowup = 10
  CollapseNum = 1
  CollapseDen = 20
SPECIFICATION Spec
INVARIANTS
  DriftsExplained
  SweepIsSound
  VerifierIsExact
  FragmentExact
  AttackMeetsCertificate
  JudgeReportsHold
  RecordsAreReplayable
PROPERTIES
  RunsEnd
CHECK_DEADLOCK FALSE
