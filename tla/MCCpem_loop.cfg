\* The CPEM loop with the simulator's defaults (12 ports of 375 kB,
\* PGHeadroomLimit 12500 + 2 MTU, ingress alpha 1/16, dynamic thresholds,
\* Settings.cc CPEM values) on a 100 Gb/s link.  D's pool-0 usage is 0 or
\* 3 MB, where the dynamic low threshold is 133 kB or 39 kB; D's port holds
\* 0, 60 kB (between the thresholds at 3 MB) or 90 kB (above both at 3 MB).
\* U's pool is empty or 4.3 MB, past the point where the PFC threshold in
\* CpemGetDynamicThresholds goes negative.  U sends MTU packets after long
\* gaps (decay exp(-dt/2T) ~ 0); MaxCredit is 25 to keep the EWMA's range
\* small (any value is a legal Settings::cpem_max_credit).
CONSTANTS
  MTU = 1048
  BufferCellLimitSp = 4224240
  PgMinCell = 1048
  PortMinCell = 1048
  PgAlphaDen = 16
  DynamicTh = TRUE
  UseDynamicThreshold = TRUE
  ThresholdLowFixed = 50000
  ThresholdHighFixed = 200000
  LowRatio = 50
  HighRatio = 80
  MaxCredit = 25
  DecayAlpha = 800
  InflightDiscount = 400
  RateGain = 800
  MinRateRatio = 100
  LinkRate = 100000
  QueueLens = {0, 60000, 90000}
  PoolUses = {0, 3000000}
  UpPoolUses = {0, 4300000}
  SendSizes = {1048}
  Decays = {0}
  CastOutcomes = {"wrap", "saturate"}
  MaxChan = 1
  MaxInflight = 1048
SPECIFICATION Spec
INVARIANT TypeOK
PROPERTY CongestionThrottles
