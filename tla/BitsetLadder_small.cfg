SPECIFICATION Spec
CONSTANTS
  N = 17
  W = 2
INVARIANTS
  TypeOK
  SummariesExact
  SearchExact
