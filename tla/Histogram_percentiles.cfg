SPECIFICATION Spec
CONSTANTS
  Mantissa = 2
  Width = 6
  Buckets = 22
  Samples = {0, 5, 8, 9, 15, 17, 38, 63}
  Overheads = {1, 9, 40}
  Permilles = {500, 900, 990, 999}
  MaxCount = 6
INVARIANTS
  BucketsExact
  PercentileExact
  CorrectionExact
