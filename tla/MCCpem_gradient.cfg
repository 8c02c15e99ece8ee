\* The defaults of MCCpem_loop.cfg; a feedback D sends after its port grew
\* by 32 kB or more since lastQueueLen.
CONSTANTS
  MTU = 1048
  BufferCellLimitSp = 4224240
  PgMinCell = 1048
  PortMinCell = 1048
  PgAlphaDen = 16
  DynamicTh = TRUE
  UseDynamicThreshold = TRUE
  ThresholdLowFixed = 50000
  ThresholdHighFixed = 200000
  LowRatio = 50
  HighRatio = 80
  MaxCredit = 100
  DecayAlpha = 800
  InflightDiscount = 400
  RateGain = 800
  MinRateRatio = 100
  LinkRate = 100000
  QueueLens = {0, 60000, 90000}
  PoolUses = {0, 3000000}
  UpPoolUses = {0, 4300000}
  SendSizes = {1048}
  Decays = {0}
  CastOutcomes = {"wrap", "saturate"}
  MaxChan = 1
  MaxInflight = 1048
SPECIFICATION Spec
PROPERTY GradientTracksQueue
