SPECIFICATION StreamSpec
CONSTANTS
  MinPrice = 1
  MaxPrice = 5
  TickSize = 1
  MaxSlots = 7
  GenMod = 16
  QtyMod = 64
  Prices = {1, 2, 4, 5}
  Quantities = {1, 2}
  Participants = {0}
  Tifs = {"GTC"}
  StpModes = {}
  MaxSeq = 8
  MaxOrders = 7
  Mid = 3
  Away = {1, 2}
  Depth = 1
  PerLevel = 1
  ClearEvery = 3
  MaxMessages = 4
INVARIANTS
  SameWork
