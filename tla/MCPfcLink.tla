----------------------------- MODULE MCPfcLink -----------------------------
(***************************************************************************)
(* Model-checking instance of PfcLink, with the scaled thresholds of      *)
(* MCSwitchNode (QMinCell = 1 + MTU, PgMinCell = PortMinCell = MTU).      *)
(***************************************************************************)
EXTENDS PfcLink

MCMtu == 2
MCQMinCell == 1 + MCMtu
MCPgMinCell == MCMtu
MCPortMinCell == MCMtu
====
