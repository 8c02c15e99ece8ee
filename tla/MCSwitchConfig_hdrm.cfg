\* A 12-port switch with the GetTypeId defaults; the script may change the
\* port count, the buffer, the threshold mode and the headroom of any port
\* (the default 14596 B, or 30 kB for a longer or faster link).
CONSTANTS
  MTU = 1048
  QCnt = 8
  PortIdx = {0, 1, 2, 3, 4, 5, 6, 7, 8, 9, 10, 11, 12}
  PortCounts = {11, 12}
  PerPortSizes = {375000}
  StaticSizes = {0, 4500000}
  HdrmSizes = {14596, 30000}
SPECIFICATION Spec
INVARIANT HeadroomReserved
