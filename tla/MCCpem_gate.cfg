\* D's pool 0 holds 3.5 MB: the dynamic thresholds are 23.7 kB / 37.9 kB,
\* below the fixed cpem_queue_threshold_low (50 kB) that
\* CpemPeriodicFeedbackCheck tests.  D's port holds 0 or 40 kB.
CONSTANTS
  MTU = 1048
  BufferCellLimitSp = 4224240
  PgMinCell = 1048
  PortMinCell = 1048
  PgAlphaDen = 16
  DynamicTh = TRUE
  UseDynamicThreshold = TRUE
  ThresholdLowFixed = 50000
  ThresholdHighFixed = 200000
  LowRatio = 50
  HighRatio = 80
  MaxCredit = 100
  DecayAlpha = 800
  InflightDiscount = 400
  RateGain = 800
  MinRateRatio = 100
  LinkRate = 100000
  QueueLens = {0, 40000}
  PoolUses = {3500000}
  UpPoolUses = {0}
  SendSizes = {1048}
  Decays = {0}
  CastOutcomes = {"wrap", "saturate"}
  MaxChan = 1
  MaxInflight = 1048
SPECIFICATION Spec
PROPERTY CongestionThrottles
