\* Dynamic-threshold PFC between the switch and two obeying upstreams.
\* The guarantees are 0 and OffDiff 0, as in MCSwitchNode_flap.cfg; the
\* egress pool holds 4 bytes past the guarantees, so that egress admission
\* refuses too once one queue has filled it.
\* Three packets buffered at once fill a queue's guarantee (QMinCell 3)
\* partly, then past it into the shared pool, and drain it back.
CONSTANTS
  Ports = {1, 2, 3}
  InPorts = {1, 2}
  OutPorts = {3}
  Queues = {1, 3}
  Sizes = {2}
  MaxPkts = 3
  DynamicTh = TRUE
  MaxBuffer = 20
  BufferCellLimitSp = 3
  PgMinCell = 0
  PortMinCell = 0
  PgSharedLimitCell = 4
  PortMaxSharedCell = 6
  PgSharedLimitCellOff = 2
  PortMinCellOff = 5
  PgHdrmLimit = 4
  QMinCell <- MCQMinCell
  OpUcPortConfig1Cell = 20
  OpUcPortConfigCell = 20
  OpBufferSharedLimitCell = 4
  AlphaIngNum = 1
  AlphaIngDen = 1
  AlphaEgNum = 1
  AlphaEgDen = 1
  OffDiff = 0
  EcnEnabled = TRUE
  Kmin = 0
  Kmax = 1
  PmaxNum = 1
  PmaxDen = 2
  InFlight = 1
SPECIFICATION LinkSpec
PROPERTY NoPhantomResume BufferRefinement
