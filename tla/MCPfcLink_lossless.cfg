\* Headroom of (InFlight + 1) largest packets against repeated pause cycles.
\* The guarantees are 0 and OffDiff 0, as in MCSwitchNode_flap.cfg; the
\* egress limits are out of the way so that only ingress admission refuses.
CONSTANTS
  Ports = {1, 2, 3}
  InPorts = {1, 2}
  OutPorts = {3}
  Queues = {1, 3}
  Sizes = {1, 2}
  MaxPkts = 6
  DynamicTh = TRUE
  MaxBuffer = 20
  BufferCellLimitSp = 3
  PgMinCell = 0
  PortMinCell = 0
  PgSharedLimitCell = 4
  PortMaxSharedCell = 6
  PgSharedLimitCellOff = 2
  PortMinCellOff = 5
  PgHdrmLimit = 4     \* (InFlight + 1) packets of the largest size
  QMinCell <- MCQMinCell
  OpUcPortConfig1Cell = 20
  OpUcPortConfigCell = 20
  OpBufferSharedLimitCell = 20
  AlphaIngNum = 1
  AlphaIngDen = 1
  AlphaEgNum = 1
  AlphaEgDen = 1
  OffDiff = 0
  EcnEnabled = FALSE
  Kmin = 0
  Kmax = 0
  PmaxNum = 0
  PmaxDen = 1
  InFlight = 1        \* one packet on the wire when a pause lands
SPECIFICATION LinkSpec
INVARIANT Lossless
