SPECIFICATION HSpec
CONSTANTS
  Prices = {1, 2}
  Quantities = {1, 2}
  MaxIds = 5
INVARIANTS
  TypeOK
  IndexExact
  LevelsSound
PROPERTIES
  ImplementsPriceTime
