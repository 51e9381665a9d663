SPECIFICATION Spec
CONSTANTS
  MinPrice = 10
  MaxPrice = 15
  TickSize = 2
  MaxSlots = 3
  GenMod = 2
  QtyMod = 64
  Prices = {9, 10, 12, 14, 15}
  Quantities = {0, 1, 2}
  Participants = {1}
  Tifs = {"GTC", "IOC", "FOK"}
  StpModes = {"None", "CancelNewest", "CancelOldest"}
  MaxSeq = 1000000
  MaxOrders = 1000000
VIEW View
INVARIANTS
  TypeOK
  SlotsPartitioned
  QueuesIntact
  TouchExact
  FillableExact
  SweepAgreesWithFillable
  DepthShowsEveryOrder
  MicropriceLeans
