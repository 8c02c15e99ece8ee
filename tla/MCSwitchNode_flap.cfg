\* Dynamic-threshold PFC (m_dynamicth = true): pause and resume in one call.
\* The guarantees are 0 and OffDiff 0 so that, as with the defaults
\* (2 MTU and 16 bytes against alpha * pool limit ~ 250 kB), they are
\* negligible next to alpha * BufferCellLimitSp.
CONSTANTS
  Ports = {1, 2, 3}
  InPorts = {1, 2}
  OutPorts = {3}
  Queues = {1, 3}
  Sizes = {1, 2}
  MaxPkts = 4
  DynamicTh = TRUE
  MaxBuffer = 10
  BufferCellLimitSp = 3
  PgMinCell = 0
  PortMinCell = 0
  PgSharedLimitCell = 4
  PortMaxSharedCell = 6
  PgSharedLimitCellOff = 2
  PortMinCellOff = 5
  PgHdrmLimit = 3
  QMinCell <- MCQMinCell
  OpUcPortConfig1Cell = 10
  OpUcPortConfigCell = 10
  OpBufferSharedLimitCell = 8
  AlphaIngNum = 1
  AlphaIngDen = 1
  AlphaEgNum = 1
  AlphaEgDen = 1
  OffDiff = 0
  EcnEnabled = FALSE
  Kmin = 0
  Kmax = 0
  PmaxNum = 0
  PmaxDen = 1
SPECIFICATION Spec
PROPERTY NoPauseResumeFlap
