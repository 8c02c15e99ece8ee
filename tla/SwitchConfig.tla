---------------------------- MODULE SwitchConfig ----------------------------
(***************************************************************************)
(* The configuration of a SwitchMmu (switch-mmu.cc, switch-mmu.h): the    *)
(* attribute setters and Config* calls a simulation script makes, each of *)
(* which ends in InitSwitch.                                               *)
(* InitSwitch derives the buffer and the limits every admission and PFC   *)
(* decision of SwitchMmu reads, and zeroes the byte counters (no traffic  *)
(* is modelled here, so they stay zero).                                  *)
(*                                                                         *)
(* The calls come from outside src/ in any order, with any arguments of   *)
(* the constant sets.  Init is the object CreateObject<SwitchMmu> returns: *)
(* the constructor, then the attribute defaults of GetTypeId applied in   *)
(* order, the last of which, PGHeadroomLimit, sets every port's headroom. *)
(* uint32_t results are kept as integers: one below 0 would wrap.         *)
(***************************************************************************)
EXTENDS Integers, Functions

CONSTANTS
  MTU,            \* SwitchMmu::MTU
  QCnt,           \* SwitchMmu::qCnt
  PortIdx,        \* the port indices whose headroom is modelled, 0 .. some n
  PortCounts,     \* active port counts the script sets
  PerPortSizes,   \* values of MaxTotalBufferPerPort
  StaticSizes,    \* values of ConfigBufferSize (0: derived from the ports)
  HdrmSizes       \* headroom limits the script sets

ASSUME PortCounts \subseteq PortIdx /\ 0 \in PortIdx

VARIABLES
  dynamicth,      \* m_dynamicth
  perPort,        \* m_maxBufferBytesPerPort
  staticMax,      \* m_staticMaxBufferBytes
  activePortCnt,  \* m_activePortCnt
  pgHdrmLimit,    \* m_pg_hdrm_limit[port]
  lim             \* the limits InitSwitch last set

cfgVars == <<dynamicth, perPort, staticMax, activePortCnt, pgHdrmLimit, lim>>

Larger(a, b) == IF a >= b THEN a ELSE b

(***************************************************************************)
(* SwitchMmu::InitSwitch for the given configuration: the buffer size,    *)
(* the static or dynamic pause limits, the ingress pool limit (the buffer *)
(* less the headroom of ports 0 .. n-1 and n port guarantees) and the     *)
(* egress limits.  The counters it zeroes are not modelled.               *)
(***************************************************************************)
InitSwitch(dyn, pp, st, n, hd) ==
  LET maxBuf   == IF st # 0 THEN st ELSE pp * n
      pgMin    == MTU
      portMin  == MTU
      totalHdrm == SumFunctionOnSet(hd, {i \in PortIdx : i < n})
      pgShared == IF dyn THEN maxBuf ELSE 20 * MTU
  IN [ maxBuffer         |-> maxBuf,
       pgSharedLimitCell |-> pgShared,
       portMaxSharedCell |-> IF dyn THEN maxBuf ELSE 4800 * MTU,
       pgMinCell         |-> pgMin,
       portMinCell       |-> portMin,
       bufferCellLimitSp |-> maxBuf - totalHdrm - n * Larger(QCnt * pgMin, portMin),
       portMinCellOff    |-> 4700 * MTU,
       pgSharedLimitCellOff |-> pgShared - 2 * MTU,
       opBufferSharedLimitCell |-> maxBuf - n * Larger(QCnt * pgMin, portMin),
       opUcPortConfigCell  |-> maxBuf,
       qMinCell            |-> 1 + MTU,
       opUcPortConfig1Cell |-> maxBuf ]

(* The GetTypeId defaults: DynamicThreshold true, MaxTotalBufferPerPort   *)
(* 375 kB, ActivePortCnt 12, PGHeadroomLimit 12500 + 2 MTU.  Each setter  *)
(* ran InitSwitch; the last run saw all of them.                          *)
DefaultHdrm == 12500 + 2 * MTU

Init ==
  /\ dynamicth = TRUE
  /\ perPort = 375000
  /\ staticMax = 0
  /\ activePortCnt = 12
  /\ pgHdrmLimit = [i \in PortIdx |-> DefaultHdrm]
  /\ lim = InitSwitch(TRUE, 375000, 0, 12, [i \in PortIdx |-> DefaultHdrm])

(* Set the configuration fields to the primed values and run InitSwitch. *)
Reinit(dyn, pp, st, n, hd) ==
  /\ dynamicth' = dyn /\ perPort' = pp /\ staticMax' = st
  /\ activePortCnt' = n /\ pgHdrmLimit' = hd
  /\ lim' = InitSwitch(dyn, pp, st, n, hd)

SetDynamicThreshold(v) ==
  Reinit(v, perPort, staticMax, activePortCnt, pgHdrmLimit)

SetMaxBufferBytesPerPort(v) ==
  Reinit(dynamicth, v, staticMax, activePortCnt, pgHdrmLimit)

(* SetActivePortCnt and ConfigNPort do the same.                         *)
ConfigNPort(n) ==
  Reinit(dynamicth, perPort, staticMax, n, pgHdrmLimit)

ConfigBufferSize(size) ==
  Reinit(dynamicth, perPort, size, activePortCnt, pgHdrmLimit)

(* The PGHeadroomLimit attribute: every port's headroom.                  *)
SetPgHdrmLimit(v) ==
  Reinit(dynamicth, perPort, staticMax, activePortCnt, [i \in PortIdx |-> v])

(* One port's headroom, as a script sets it from the port's link.         *)
ConfigHdrm(port, size) ==
  Reinit(dynamicth, perPort, staticMax, activePortCnt,
         [pgHdrmLimit EXCEPT ![port] = size])

Next ==
  \/ \E v \in BOOLEAN : SetDynamicThreshold(v)
  \/ \E v \in PerPortSizes : SetMaxBufferBytesPerPort(v)
  \/ \E n \in PortCounts : ConfigNPort(n)
  \/ \E s \in StaticSizes : ConfigBufferSize(s)
  \/ \E v \in HdrmSizes : SetPgHdrmLimit(v)
  \/ \E p \in PortIdx \ {0}, s \in HdrmSizes : ConfigHdrm(p, s)

Spec == Init /\ [][Next]_cfgVars

(***************************************************************************)
(* Properties                                                              *)
(***************************************************************************)

(* Headroom is reserved (spec glossary: "reserved buffer used after the   *)
(* shared pool is full"): the buffer the ingress pool limit leaves out    *)
(* covers the guarantees and the headroom of every port traffic can use,  *)
(* ports 1 .. m_activePortCnt (port 0 is not used), whatever the order   *)
(* and the values of the configuration calls.                            *)
HeadroomReserved ==
  LET used == {i \in PortIdx : 1 <= i /\ i <= activePortCnt}
  IN lim.bufferCellLimitSp + SumFunctionOnSet(pgHdrmLimit, used)
       + activePortCnt * Larger(QCnt * lim.pgMinCell, lim.portMinCell)
       <= lim.maxBuffer

=============================================================================
