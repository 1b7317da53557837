SPECIFICATION Spec
INVARIANTS
  OpaReportsSound
  EnginesRealiseTheRule
  NullIsForced
  
  CategoriesAgree
  CurvesInOrder
  AvailabilityIsPaidFor
CHECK_DEADLOCK FALSE
