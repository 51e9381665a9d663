SPECIFICATION Spec
CONSTANTS
  MinPrice = 10
  MaxPrice = 10
  TickSize = 1
  MaxSlots = 3
  GenMod = 4
  QtyMod = 64
  Prices = {10}
  Quantities = {1, 2}
  Participants = {1, 2}
  Tifs = {"GTC", "FOK"}
  StpModes = {"CancelNewest", "CancelOldest"}
  MaxSeq = 3
  MaxOrders = 4
PROPERTIES
  FokAllOrNothing
