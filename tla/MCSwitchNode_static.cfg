\* Static-threshold PFC (m_dynamicth = false).
CONSTANTS
  Ports = {1, 2, 3}
  InPorts = {1, 2}
  OutPorts = {3}
  Queues = {1, 3}
  Sizes = {1, 2}
  MaxPkts = 4
  DynamicTh = FALSE
  MaxBuffer = 10
  BufferCellLimitSp = 4
  PgMinCell <- MCPgMinCell
  PortMinCell <- MCPortMinCell
  PgSharedLimitCell = 4
  PortMaxSharedCell = 6
  PgSharedLimitCellOff = 2
  PortMinCellOff = 5
  PgHdrmLimit = 3
  QMinCell <- MCQMinCell
  OpUcPortConfig1Cell = 10
  OpUcPortConfigCell = 10
  OpBufferSharedLimitCell = 8
  AlphaIngNum = 1
  AlphaIngDen = 2
  AlphaEgNum = 1
  AlphaEgDen = 1
  OffDiff = 1
  EcnEnabled = TRUE
  Kmin = 1
  Kmax = 2
  PmaxNum = 1
  PmaxDen = 2
SPECIFICATION Spec
INVARIANT TypeOK
INVARIANT IngressAccounting
INVARIANT EgressAccounting
PROPERTY NoPauseResumeFlap
PROPERTY CongestionMarking
