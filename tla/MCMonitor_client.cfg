SPECIFICATION MonitorSpec
CONSTANTS
  MinPrice = 10
  MaxPrice = 10
  TickSize = 1
  MaxSlots = 3
  GenMod = 8
  QtyMod = 64
  Prices = {10}
  Quantities = {1, 2, 3}
  Participants = {1}
  Tifs = {"GTC", "IOC"}
  StpModes = {"None", "CancelOldest"}
  MaxSeq = 3
  MaxOrders = 5
VIEW MonitorView
INVARIANTS
  FillsMatchTape
  OrdersConserved
  StaleIdsStayDead
