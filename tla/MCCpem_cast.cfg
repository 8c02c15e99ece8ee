\* D's pool 0 holds 4.3 MB, past m_buffer_cell_limit_sp by less than the
\* total PG headroom (12 x 14596 B): the PFC threshold of
\* CpemGetDynamicThresholds is negative.  D's port holds 0 or 60 kB.
CONSTANTS
  MTU = 1048
  BufferCellLimitSp = 4224240
  PgMinCell = 1048
  PortMinCell = 1048
  PgAlphaDen = 16
  DynamicTh = TRUE
  UseDynamicThreshold = TRUE
  ThresholdLowFixed = 50000
  ThresholdHighFixed = 200000
  LowRatio = 50
  HighRatio = 80
  MaxCredit = 100
  DecayAlpha = 800
  InflightDiscount = 400
  RateGain = 800
  MinRateRatio = 100
  LinkRate = 100000
  QueueLens = {0, 60000}
  PoolUses = {4300000}
  UpPoolUses = {0}
  SendSizes = {1048}
  Decays = {0}
  CastOutcomes = {"wrap", "saturate"}
  MaxChan = 1
  MaxInflight = 1048
SPECIFICATION Spec
PROPERTY CongestionThrottles
