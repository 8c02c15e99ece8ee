----------------------------- MODULE SwitchMmu -----------------------------
(***************************************************************************)
(* The switch memory-management unit of switch-mmu.cc: the ingress and     *)
(* egress byte counters, the admission checks, their updates and removals, *)
(* and the per-(port, class) PFC flags with their pause/resume decisions.  *)
(*                                                                         *)
(* SwitchMmu is an object whose methods are called from the SwitchNode     *)
(* handlers, so it is written, like a ring buffer kept beside a disruptor, *)
(* as operators that map an mmu record to the next one.  SwitchNode chains *)
(* them inside its actions in the order the handlers call them.            *)
(*                                                                         *)
(* Byte counts are integers.  The counters are uint32_t in the code; a     *)
(* removal that would underflow is kept as the (negative) difference so   *)
(* that an invariant asking for >= 0 reports the first wraparound.         *)
(***************************************************************************)
EXTENDS Integers, Functions

CONSTANTS
  Ports,          \* active port indices (port 0 is unused in the code)
  Queues,         \* modelled data classes (qIndex # 0), subset of 1..7
  DynamicTh,      \* m_dynamicth
  MaxBuffer,      \* m_maxBufferBytes
  BufferCellLimitSp, \* m_buffer_cell_limit_sp
  PgMinCell,      \* m_pg_min_cell
  PortMinCell,    \* m_port_min_cell
  PgSharedLimitCell,  \* m_pg_shared_limit_cell (static-threshold pause)
  PortMaxSharedCell,  \* m_port_max_shared_cell (static-threshold pause)
  PgSharedLimitCellOff, \* m_pg_shared_limit_cell_off (static resume)
  PortMinCellOff,     \* m_port_min_cell_off (static resume)
  PgHdrmLimit,    \* m_pg_hdrm_limit[port], the same for all ports
  QMinCell,       \* m_q_min_cell
  OpUcPortConfig1Cell, \* m_op_uc_port_config1_cell
  OpUcPortConfigCell,  \* m_op_uc_port_config_cell
  OpBufferSharedLimitCell, \* m_op_buffer_shared_limit_cell
  AlphaIngNum, AlphaIngDen, \* m_pg_shared_alpha_cell as a fraction
  AlphaEgNum, AlphaEgDen,   \* m_pg_shared_alpha_cell_egress as a fraction
  OffDiff,        \* m_pg_shared_alpha_cell_off_diff
  Kmin, Kmax,     \* kmin[port], kmax[port] as ConfigEcn left them, all ports
  PmaxNum, PmaxDen  \* pmax[port] as a fraction

ASSUME Queues \subseteq 1..7
ASSUME AlphaIngNum > 0 /\ AlphaIngDen > 0 /\ AlphaEgNum > 0 /\ AlphaEgDen > 0
ASSUME Kmin \in Nat /\ Kmax \in Nat /\ Kmin <= Kmax /\ PmaxNum \in Nat /\ PmaxDen \in Nat \ {0}

(* Service pools in use: GetIngressSP/GetEgressSP only return 0 or 1.     *)
Pools == {0, 1}

(* SwitchMmu::GetIngressSP: class 1 (TCP) has pool 1, the others pool 0.  *)
GetIngressSP(q) == IF q = 1 THEN 1 ELSE 0

(* SwitchMmu::GetEgressSP: class 0 has pool 0, the others pool 1.        *)
GetEgressSP(q) == IF q = 0 THEN 0 ELSE 1

PortQ(v) == [p \in Ports |-> [q \in Queues |-> v]]

(* SwitchMmu::InitSwitch: every counter zero.  The PFC arrays are not     *)
(* touched by InitSwitch; they start zeroed with the object.              *)
InitMmu ==
  [ usedTotal |-> 0,
    ingPG     |-> PortQ(0),
    ingPort   |-> [p \in Ports |-> 0],
    ingSP     |-> [sp \in Pools |-> 0],
    hdrm      |-> PortQ(0),
    egQMin    |-> PortQ(0),
    egQShared |-> PortQ(0),
    egPort    |-> [p \in Ports |-> 0],
    egSP      |-> [sp \in Pools |-> 0],
    paused    |-> PortQ(FALSE),
    resumeEvt |-> PortQ(FALSE),
    pauseRemote |-> PortQ(FALSE) ]

(***************************************************************************)
(* Admission checks                                                        *)
(***************************************************************************)

(* SwitchMmu::CheckIngressAdmission: reject when the whole buffer is full, *)
(* or when the packet is past both guarantees, the pool is already over    *)
(* its limit and the class's headroom cannot take it.                      *)
CheckIngressAdmission(m, port, q, psize) ==
  /\ m.usedTotal + psize <= MaxBuffer
  /\ ~ /\ m.ingPG[port][q] + psize > PgMinCell
       /\ m.ingPort[port] + psize > PortMinCell
       /\ m.ingSP[GetIngressSP(q)] > BufferCellLimitSp
       /\ m.hdrm[port][q] + psize > PgHdrmLimit

(* SwitchMmu::CheckEgressAdmission: pool, port and queue limits, then the  *)
(* dynamic threshold shared + psize <= alpha * (pool limit - pool used).   *)
CheckEgressAdmission(m, port, q, psize) ==
  LET sp == GetEgressSP(q) IN
  /\ m.egSP[sp] + psize <= OpBufferSharedLimitCell
  /\ m.egPort[port] + psize <= OpUcPortConfigCell
  /\ m.egQShared[port][q] + psize <= OpUcPortConfig1Cell
  /\ (m.egQShared[port][q] + psize) * AlphaEgDen
        <= AlphaEgNum * (OpBufferSharedLimitCell - m.egSP[sp])

(***************************************************************************)
(* Counter updates                                                         *)
(***************************************************************************)

(* SwitchMmu::UpdateIngressAdmission: add to total, pool, port and class; *)
(* if the pool is now over its limit the whole packet counts as headroom. *)
UpdateIngressAdmission(m, port, q, psize) ==
  LET sp == GetIngressSP(q)
      spNew == m.ingSP[sp] + psize
  IN [m EXCEPT
        !.usedTotal = @ + psize,
        !.ingSP[sp] = spNew,
        !.ingPort[port] = @ + psize,
        !.ingPG[port][q] = @ + psize,
        !.hdrm[port][q] = IF spNew > BufferCellLimitSp THEN @ + psize ELSE @]

(* Mutant of UpdateEgressAdmission: a partial fill charges the whole     *)
(* packet to the egress pool instead of the part past the guarantee.      *)
UpdateEgressAdmission_PoolChargesWholePacket(m, port, q, psize) ==
  LET qmin == m.egQMin[port][q]
      sp   == GetEgressSP(q)
  IN IF qmin + psize < QMinCell
     THEN [m EXCEPT !.egQMin[port][q] = @ + psize, !.egPort[port] = @ + psize]
     ELSE IF qmin # QMinCell
     THEN [m EXCEPT !.egQShared[port][q] = @ + psize + qmin - QMinCell,
                    !.egPort[port] = @ + psize,
                    !.egSP[sp] = @ + psize,
                    !.egQMin[port][q] = QMinCell]
     ELSE [m EXCEPT !.egQShared[port][q] = @ + psize, !.egPort[port] = @ + psize,
                    !.egSP[sp] = @ + psize]

(* SwitchMmu::UpdateEgressAdmission: fill the queue's guarantee first;    *)
(* the part past QMinCell goes to the shared counters.                    *)
UpdateEgressAdmission(m, port, q, psize) ==
  LET qmin == m.egQMin[port][q]
      sp   == GetEgressSP(q)
      over == psize + qmin - QMinCell   \* bytes past the guarantee
  IN IF qmin + psize < QMinCell
     THEN [m EXCEPT !.egQMin[port][q] = @ + psize,
                    !.egPort[port] = @ + psize]
     ELSE IF qmin # QMinCell
     THEN [m EXCEPT !.egQShared[port][q] = @ + over,
                    !.egPort[port] = @ + psize,
                    !.egSP[sp] = @ + over,
                    !.egQMin[port][q] = QMinCell]
     ELSE [m EXCEPT !.egQShared[port][q] = @ + psize,
                    !.egPort[port] = @ + psize,
                    !.egSP[sp] = @ + psize]

(* The "Illegal Remove" clamp of RemoveFromIngressAdmission: a counter    *)
(* smaller than psize is first set to psize, so the subtraction gives 0.  *)
ClampSub(x, psize) == IF x < psize THEN 0 ELSE x - psize

(* Mutant of RemoveFromIngressAdmission: the pool is looked up with       *)
(* GetEgressSP instead of GetIngressSP.                                   *)
RemoveFromIngressAdmission_EgressPool(m, port, q, psize) ==
  LET sp == GetEgressSP(q) IN
  [m EXCEPT !.usedTotal = ClampSub(@, psize), !.ingSP[sp] = ClampSub(@, psize),
            !.ingPort[port] = ClampSub(@, psize), !.ingPG[port][q] = ClampSub(@, psize),
            !.hdrm[port][q] = IF @ - psize > 0 THEN @ - psize ELSE 0]

(* Mutant of RemoveFromIngressAdmission: the headroom is decremented      *)
(* without the clamp at zero.                                             *)
RemoveFromIngressAdmission_NoHeadroomClamp(m, port, q, psize) ==
  LET sp == GetIngressSP(q) IN
  [m EXCEPT !.usedTotal = ClampSub(@, psize), !.ingSP[sp] = ClampSub(@, psize),
            !.ingPort[port] = ClampSub(@, psize), !.ingPG[port][q] = ClampSub(@, psize),
            !.hdrm[port][q] = @ - psize]

(* SwitchMmu::RemoveFromIngressAdmission.                                 *)
RemoveFromIngressAdmission(m, port, q, psize) ==
  LET sp == GetIngressSP(q) IN
  [m EXCEPT !.usedTotal = ClampSub(@, psize),
            !.ingSP[sp] = ClampSub(@, psize),
            !.ingPort[port] = ClampSub(@, psize),
            !.ingPG[port][q] = ClampSub(@, psize),
            !.hdrm[port][q] = IF @ - psize > 0 THEN @ - psize ELSE 0]

(* SwitchMmu::RemoveFromEgressAdmission.  "STOP overflow" is only logged: *)
(* the uint32_t subtraction goes ahead, so no clamp here.                 *)
RemoveFromEgressAdmission(m, port, q, psize) ==
  LET qmin   == m.egQMin[port][q]
      shared == m.egQShared[port][q]
      sp     == GetEgressSP(q)
  IN IF qmin < QMinCell
     THEN [m EXCEPT !.egQMin[port][q] = @ - psize,
                    !.egPort[port] = @ - psize]
     ELSE IF qmin = QMinCell /\ shared < psize
     THEN [m EXCEPT !.egQMin[port][q] = qmin + shared - psize,
                    !.egSP[sp] = @ - shared,
                    !.egQShared[port][q] = 0,
                    !.egPort[port] = @ - psize]
     ELSE [m EXCEPT !.egQShared[port][q] = @ - psize,
                    !.egPort[port] = @ - psize,
                    !.egSP[sp] = @ - psize]

(***************************************************************************)
(* PFC                                                                     *)
(***************************************************************************)

(* SwitchMmu::GetPauseClasses, the set of classes j with pClasses[j].     *)
(* In dynamic mode every class is compared with the pool of the class     *)
(* qIndex that triggered the check, and with qIndex's headroom.           *)
GetPauseClasses(m, port, qIndex) ==
  IF DynamicTh
  THEN { i \in Queues :
           /\ m.ingPG[port][i] > PgMinCell + PortMinCell
           /\ \/ (m.ingPG[port][i] - PgMinCell - PortMinCell) * AlphaIngDen
                    > AlphaIngNum * (BufferCellLimitSp - m.ingSP[GetIngressSP(qIndex)])
              \/ m.hdrm[port][qIndex] # 0 }
  ELSE IF m.ingPort[port] > PortMaxSharedCell
  THEN Queues
  ELSE IF m.ingPG[port][qIndex] > PgSharedLimitCell THEN {qIndex} ELSE {}

(* Mutant of GetResumeClasses: the paused flag is not tested.             *)
GetResumeClasses_NoPausedCheck(m, port, q) ==
  IF DynamicTh
  THEN /\ (m.ingPG[port][q] - PgMinCell - PortMinCell) * AlphaIngDen
            < AlphaIngNum * (BufferCellLimitSp - m.ingSP[GetIngressSP(q)] - OffDiff)
       /\ m.hdrm[port][q] = 0
  ELSE /\ m.ingPG[port][q] < PgSharedLimitCellOff
       /\ m.ingPort[port] < PortMinCellOff
(* Mutant of GetResumeClasses: the static resume test forgets the port    *)
(* threshold m_port_min_cell_off.                                         *)
GetResumeClasses_NoPortOff(m, port, q) ==
  /\ m.paused[port][q]
  /\ IF DynamicTh
     THEN /\ (m.ingPG[port][q] - PgMinCell - PortMinCell) * AlphaIngDen
               < AlphaIngNum * (BufferCellLimitSp - m.ingSP[GetIngressSP(q)] - OffDiff)
          /\ m.hdrm[port][q] = 0
     ELSE m.ingPG[port][q] < PgSharedLimitCellOff

(* SwitchMmu::GetResumeClasses.                                           *)
GetResumeClasses(m, port, q) ==
  /\ m.paused[port][q]
  /\ IF DynamicTh
     THEN /\ (m.ingPG[port][q] - PgMinCell - PortMinCell) * AlphaIngDen
               < AlphaIngNum * (BufferCellLimitSp - m.ingSP[GetIngressSP(q)] - OffDiff)
          /\ m.hdrm[port][q] = 0
     ELSE /\ m.ingPG[port][q] < PgSharedLimitCellOff
          /\ m.ingPort[port] < PortMinCellOff

(* SwitchMmu::SetPause for every class of S: mark it paused and replace  *)
(* its pending resume event (Cancel + Schedule).                          *)
SetPause(m, port, S) ==
  [m EXCEPT !.paused[port] = [q \in Queues |-> IF q \in S THEN TRUE ELSE @[q]],
            !.resumeEvt[port] = [q \in Queues |-> IF q \in S THEN TRUE ELSE @[q]]]

(* SwitchMmu::SetResume for every class of S: clear the flag and cancel  *)
(* the pending resume event.                                              *)
SetResume(m, port, S) ==
  [m EXCEPT !.paused[port] = [q \in Queues |-> IF q \in S THEN FALSE ELSE @[q]],
            !.resumeEvt[port] = [q \in Queues |-> IF q \in S THEN FALSE ELSE @[q]]]

(* Write the m_pause_remote flags of the classes of S.                    *)
SetPauseRemote(m, port, S, v) ==
  [m EXCEPT !.pauseRemote[port] = [q \in Queues |-> IF q \in S THEN v ELSE @[q]]]

(***************************************************************************)
(* The PFC handlers of SwitchNode, which act on the MMU alone             *)
(***************************************************************************)

Frames(p, S, kind) == {[port |-> p, q |-> j, kind |-> kind] : j \in S}

(***************************************************************************)
(* SwitchNode::CheckAndSendPfc: pause (SetPause + m_pause_remote) every    *)
(* class GetPauseClasses returns, then send a resume for every class with *)
(* m_pause_remote whose resume condition holds in the updated state.      *)
(* Both loops are over independent classes, so each is one set.          *)
(* The result is <<mmu after, frames sent>>.                               *)
(***************************************************************************)
CheckAndSendPfc(m, inDev, qIndex) ==
  LET P  == GetPauseClasses(m, inDev, qIndex)
      m1 == SetPauseRemote(SetPause(m, inDev, P), inDev, P, TRUE)
      R  == {j \in Queues : m1.pauseRemote[inDev][j] /\ GetResumeClasses(m1, inDev, j)}
      m2 == SetPauseRemote(SetResume(m1, inDev, R), inDev, R, FALSE)
  IN << m2, Frames(inDev, P, "pause") \cup Frames(inDev, R, "resume") >>

(* SwitchNode::CheckAndSendResume: resume one class; m_pause_remote is     *)
(* left as it is.                                                          *)
CheckAndSendResume(m, inDev, qIndex) ==
  IF GetResumeClasses(m, inDev, qIndex)
  THEN << SetResume(m, inDev, {qIndex}), Frames(inDev, {qIndex}, "resume") >>
  ELSE << m, {} >>


(* ShouldSendCN reading the port's egress bytes, guarantee included.      *)
ShouldSendCN_PortBytes(m, ifindex, q) ==
  LET used == m.egPort[ifindex]
      pNum == (used - Kmin) * PmaxNum
      pDen == (Kmax - Kmin) * PmaxDen
  IN IF q = 0 THEN {FALSE}
     ELSE IF used > Kmax THEN {TRUE}
     ELSE IF used > Kmin /\ Kmin # Kmax
          THEN {b \in BOOLEAN : (b /\ pNum > 0) \/ (~b /\ pNum < pDen)}
     ELSE {FALSE}

(***************************************************************************)
(* SwitchMmu::ShouldSendCN, as the set of answers it can give.  Class 0   *)
(* is never marked; above kmax the queue's shared bytes always are;       *)
(* between kmin and kmax (kmin # kmax) the answer is GetValue(0,1) < p    *)
(* for p = (shared - kmin) / (kmax - kmin) * pmax: a draw from [0, 1)     *)
(* can give TRUE when p > 0 and FALSE when p < 1.                          *)
(***************************************************************************)
ShouldSendCN(m, ifindex, q) ==
  LET used == m.egQShared[ifindex][q]
      pNum == (used - Kmin) * PmaxNum     \* p = pNum / pDen
      pDen == (Kmax - Kmin) * PmaxDen
  IN IF q = 0 THEN {FALSE}
     ELSE IF used > Kmax THEN {TRUE}
     ELSE IF used > Kmin /\ Kmin # Kmax
          THEN {b \in BOOLEAN : (b /\ pNum > 0) \/ (~b /\ pNum < pDen)}
     ELSE {FALSE}

=============================================================================
