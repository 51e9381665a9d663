SPECIFICATION SimSpec
CONSTANTS
  MinPrice = 1
  MaxPrice = 5
  TickSize = 1
  MaxSlots = 6
  GenMod = 32
  QtyMod = 64
  Prices = {1, 2, 3, 4, 5}
  Quantities = {1, 2, 3}
  Participants = {0}
  Tifs = {"GTC"}
  StpModes = {}
  MaxSeq = 30
  MaxOrders = 30
  RefPrice = 3
  Distances = {1, 2}
  OrderSize = 1
  MarketSize = 2
  StudySizes = {2, 3}
  SeedLevels = 1
  PerLevel = 1
  GhostsAllowed = 1
  DrainEvery = 2
  Events = 3
  Warmups = {0, 1, 3}
  MaxRuns = 2
VIEW SimView
INVARIANTS
  SimTypeOK
  LiveCoversBook
  GhostsBounded
  QuotesArePassive
  TapeComplete
  TapeDrainedAfterWarmup
