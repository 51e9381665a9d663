SPECIFICATION MonitorSpec
CONSTANTS
  MinPrice = 10
  MaxPrice = 10
  TickSize = 1
  MaxSlots = 2
  GenMod = 3
  QtyMod = 64
  Prices = {10}
  Quantities = {1, 2}
  Participants = {0}
  Tifs = {"GTC"}
  StpModes = {"None"}
  MaxSeq = 3
  MaxOrders = 3
INVARIANTS
  ValidIdIsNeverZero
