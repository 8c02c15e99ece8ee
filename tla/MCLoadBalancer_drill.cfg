\* DRILL (lb_mode 2) on a switch with two uplinks towards one destination.
\* The script builds the table, may clear it and rebuild it with fewer
\* uplinks (as after a link failure), and the devices' queues hold 0 or
\* 1 000 bytes.  CPEM is on, so its feedback packet bypasses routing.
CONSTANTS
  Ports = {1, 2}
  Dips <- MCDips
  Flows <- MCFlows
  Loads = {0, 1000}
  LbMode = 2
  CpemEnabled = TRUE
  AckHighPrio = 1
  NodeId = 5
  Seeds = {5}
  MaxEntries = 2
SPECIFICATION Spec
INVARIANT RouteInTable
