SPECIFICATION Spec
CONSTANTS
  p1 = p1
  p2 = p2
  p3 = p3
  a1 = a1
  a2 = a2
  Prompts <- MCPrompts
  Answers <- MCAnswers
  Grid <- MCGrid
  Episodes <- MCEpisodes
  Retries = 3
  MaxInvocations = 2
  MaxFaults <- MCMaxFaults
SYMMETRY MCSymmetry
INVARIANTS
  CacheNeverTorn
  QueriedOncePerPrompt
  GatesShareProposals
PROPERTY EntriesSurvive
CHECK_DEADLOCK FALSE
