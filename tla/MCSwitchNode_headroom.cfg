\* Headroom use against m_pg_hdrm_limit, static thresholds.
CONSTANTS
  Ports = {1, 2, 3}
  InPorts = {1, 2}
  OutPorts = {3}
  Queues = {1, 3}
  Sizes = {1, 2}
  MaxPkts = 4
  DynamicTh = FALSE
  MaxBuffer = 10
  BufferCellLimitSp = 4
  PgMinCell <- MCPgMinCell
  PortMinCell <- MCPortMinCell
  PgSharedLimitCell = 4
  PortMaxSharedCell = 6
  PgSharedLimitCellOff = 2
  PortMinCellOff = 5
  PgHdrmLimit = 3
  QMinCell <- MCQMinCell
  OpUcPortConfig1Cell = 10
  OpUcPortConfigCell = 10
  OpBufferSharedLimitCell = 8
  AlphaIngNum = 1
  AlphaIngDen = 2
  AlphaEgNum = 1
  AlphaEgDen = 1
  OffDiff = 1
  EcnEnabled = FALSE
  Kmin = 0
  Kmax = 0
  PmaxNum = 0
  PmaxDen = 1
SPECIFICATION Spec
INVARIANT HeadroomWithinLimit
