--------------------------- MODULE MCSwitchNode ---------------------------
(***************************************************************************)
(* Model-checking instance of SwitchNode: two ports, the TCP class 1      *)
(* (ingress pool 1) and the RDMA class 3 (ingress pool 0), packets of one *)
(* and two bytes-units.  The thresholds are scaled down so that a handful  *)
(* of packets reaches the guarantee, the pool limit, the headroom and the *)
(* pause and resume thresholds; the relations between them follow          *)
(* InitSwitch (QMinCell = 1 + MTU, PgMinCell = PortMinCell = MTU, off     *)
(* thresholds below on thresholds, egress pool limit below the buffer).    *)
(***************************************************************************)
EXTENDS SwitchNode

MCMtu == 2
MCQMinCell == 1 + MCMtu
MCPgMinCell == MCMtu
MCPortMinCell == MCMtu
====
