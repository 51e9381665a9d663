SPECIFICATION FairSpec
CONSTANTS
  MinPrice = 10
  MaxPrice = 15
  TickSize = 2
  MaxSlots = 3
  GenMod = 2
  QtyMod = 64
  Prices = {10, 14}
  Quantities = {1, 2}
  Participants = {0, 1}
  Tifs = {"GTC", "IOC", "FOK"}
  StpModes = {"None", "CancelNewest", "CancelOldest"}
  MaxSeq = 1000000
  MaxOrders = 1000000
VIEW ClientView
PROPERTIES
  ImplementsPriceTime
  FokFillsWithoutStp
  SweepForecastsMarket
  EveryCallReturns
