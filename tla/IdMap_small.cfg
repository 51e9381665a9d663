SPECIFICATION FairSpec
CONSTANTS
  Key = {1, 2, 3, 4}
  Val = {0, 1}
  HashValue = {0, 3, 6, 7}
  InitialCap = 4
INVARIANTS
  TypeOK
  ChainsUnbroken
  TableSound
  FindExact
PROPERTIES
  ImplementsIdTable
  EveryCallEnds
