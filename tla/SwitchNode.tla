----------------------------- MODULE SwitchNode -----------------------------
(***************************************************************************)
(* The data path of one switch (switch-node.cc) around its MMU             *)
(* (switch-mmu.cc): a data packet received on an ingress port is admitted *)
(* or dropped and queued on an egress FIFO (DoSwitchSend), a queued packet *)
(* leaves (SwitchNotifyDequeue), and a scheduled PFC resume event fires    *)
(* (SwitchMmu::SetResume).  Every simulator callback runs to completion,   *)
(* so each handler is one atomic action; their order is free.              *)
(*                                                                         *)
(* Abstractions.  A packet is its ingress port and size; its class is the  *)
(* FIFO it sits in.  Routing (GetOutDev) is a free choice of the egress    *)
(* port.  Class-0 (control) traffic never touches the MMU and is left out. *)
(* Of the rewrites of the departing packet, the ECN mark is kept as the   *)
(* flag ecn; the HPCC INT push and m_txBytes (telemetry only) are not.    *)
(* Time is not modelled: a pending                                         *)
(* resume event may fire at any later step.  CPEM is disabled here         *)
(* (Settings::cpem_enabled = false).                                       *)
(***************************************************************************)
EXTENDS Integers, Sequences, FiniteSets, Functions, SwitchMmu

CONSTANTS
  InPorts,   \* ports data arrives on
  OutPorts,  \* ports the routing table sends it to
  Sizes,     \* packet sizes in bytes that arrive
  MaxPkts,   \* bound on the packets buffered at once (arrival bound)
  EcnEnabled \* SwitchNode::m_ecnEnabled

ASSUME InPorts \cup OutPorts \subseteq Ports
ASSUME Sizes \subseteq Nat \ {0} /\ MaxPkts \in Nat \ {0} /\ EcnEnabled \in BOOLEAN

VARIABLES
  mmu,       \* the SwitchMmu object
  egq,       \* egq[o][q]: the egress FIFO of class q on port o
  pfcTx,     \* the PFC frames sent upstream by the last handler
  ecn        \* the last handler sent a packet out marked CE (ECN 0x03)

vars == <<mmu, egq, pfcTx, ecn>>

Pkt == [in : InPorts, size : Sizes]
Frame == [port : Ports, q : Queues, kind : {"pause", "resume"}]


Buffered == SumFunction([o \in OutPorts |-> SumFunction([q \in Queues |-> Len(egq[o][q])])])

Init ==
  /\ mmu = InitMmu
  /\ egq = [o \in OutPorts |-> [q \in Queues |-> <<>>]]
  /\ pfcTx = {}
  /\ ecn = FALSE

(***************************************************************************)
(* SwitchReceiveFromDevice -> SendToDev -> SendToDevContinue -> GetOutDev  *)
(* -> DoSwitchSend for a data packet (qIndex # 0) of size psize that       *)
(* arrived on inDev, routed to outDev: egress admission, then ingress      *)
(* admission, then both updates, the enqueue and CheckAndSendPfc.          *)
(***************************************************************************)
DoSwitchSend(inDev, outDev, qIndex, psize) ==
  /\ Buffered < MaxPkts
  /\ ecn' = FALSE
  /\ IF ~CheckEgressAdmission(mmu, outDev, qIndex, psize)
     THEN \* Settings::dropped_pkt_sw_egress++ (statistics, not modelled)
          UNCHANGED <<mmu, egq>> /\ pfcTx' = {}
     ELSE IF ~CheckIngressAdmission(mmu, inDev, qIndex, psize)
     THEN \* Settings::dropped_pkt_sw_ingress++ (statistics, not modelled)
          UNCHANGED <<mmu, egq>> /\ pfcTx' = {}
     ELSE LET m1  == UpdateIngressAdmission(mmu, inDev, qIndex, psize)
              m2  == UpdateEgressAdmission(m1, outDev, qIndex, psize)
              pfc == CheckAndSendPfc(m2, inDev, qIndex)
          IN /\ mmu' = pfc[1]
             /\ pfcTx' = pfc[2]
             /\ egq' = [egq EXCEPT ![outDev][qIndex] =
                          Append(@, [in |-> inDev, size |-> psize])]

(***************************************************************************)
(* SwitchNode::SwitchNotifyDequeue for the head packet of class qIndex on  *)
(* port ifIndex: remove it from the ingress and egress counters, with ECN *)
(* enabled ask ShouldSendCN on the counters as they are now and mark the  *)
(* packet, then CheckAndSendResume for its ingress port and class.        *)
(***************************************************************************)
SwitchNotifyDequeue(ifIndex, qIndex) ==
  /\ egq[ifIndex][qIndex] # <<>>
  /\ LET pkt == Head(egq[ifIndex][qIndex])
         m1  == RemoveFromIngressAdmission(mmu, pkt.in, qIndex, pkt.size)
         m2  == RemoveFromEgressAdmission(m1, ifIndex, qIndex, pkt.size)
         res == CheckAndSendResume(m2, pkt.in, qIndex)
     IN /\ ecn' \in (IF EcnEnabled THEN ShouldSendCN(m2, ifIndex, qIndex) ELSE {FALSE})
        /\ mmu' = res[1]
        /\ pfcTx' = res[2]
        /\ egq' = [egq EXCEPT ![ifIndex][qIndex] = Tail(@)]

(* The resume event scheduled by SwitchMmu::SetPause fires: SetResume.    *)
ResumeEvent(port, q) ==
  /\ mmu.resumeEvt[port][q]
  /\ mmu' = SetResume(mmu, port, {q})
  /\ pfcTx' = {}
  /\ ecn' = FALSE
  /\ UNCHANGED egq

Next ==
  \/ \E i \in InPorts, o \in OutPorts, q \in Queues, s \in Sizes : DoSwitchSend(i, o, q, s)
  \/ \E o \in OutPorts, q \in Queues : SwitchNotifyDequeue(o, q)
  \/ \E p \in Ports, q \in Queues : ResumeEvent(p, q)

Spec == Init /\ [][Next]_vars

(***************************************************************************)
(* Properties                                                              *)
(***************************************************************************)

(* Every counter is a uint32_t that stays >= 0, every flag a boolean.     *)
TypeOK ==
  /\ egq \in [OutPorts -> [Queues -> Seq(Pkt)]]
  /\ pfcTx \subseteq Frame
  /\ ecn \in BOOLEAN
  /\ \A f \in {"paused", "resumeEvt", "pauseRemote"} :
        mmu[f] \in [Ports -> [Queues -> BOOLEAN]]
  /\ \A f \in {"ingPG", "hdrm", "egQMin", "egQShared"} :
        mmu[f] \in [Ports -> [Queues -> Nat]]
  /\ \A f \in {"ingPort", "egPort"} : mmu[f] \in [Ports -> Nat]
  /\ \A f \in {"ingSP", "egSP"} : mmu[f] \in [Pools -> Nat]
  /\ mmu.usedTotal \in Nat

(* Bytes of the packets in FIFO s that satisfy Test.                      *)
BytesOf(s, Test(_)) ==
  SumFunctionOnSet([k \in DOMAIN s |-> s[k].size], {k \in DOMAIN s : Test(s[k])})

(* Bytes queued anywhere that entered on port p in class q.               *)
IngressBytes(p, q) ==
  SumFunction([o \in OutPorts |-> BytesOf(egq[o][q], LAMBDA pk : pk.in = p)])

(* Bytes queued in the egress FIFO of class q on port o.                  *)
EgressBytes(o, q) ==
  IF o \in OutPorts THEN BytesOf(egq[o][q], LAMBDA pk : TRUE) ELSE 0

(* Ingress accounting is exact: after any interleaving of admissions and  *)
(* dequeues, every ingress counter that UpdateIngressAdmission and         *)
(* RemoveFromIngressAdmission maintain equals the bytes actually buffered  *)
(* for it (so the "Illegal Remove" clamp never fires), and a class's       *)
(* headroom never exceeds its buffered bytes.                              *)
IngressAccounting ==
  /\ \A p \in Ports, q \in Queues :
        /\ mmu.ingPG[p][q] = IngressBytes(p, q)
        /\ mmu.hdrm[p][q] <= mmu.ingPG[p][q]
  /\ \A p \in Ports : mmu.ingPort[p] = SumFunction(mmu.ingPG[p])
  /\ \A sp \in Pools :
        mmu.ingSP[sp] = SumFunction([p \in Ports |->
                           SumFunctionOnSet(mmu.ingPG[p], {q \in Queues : GetIngressSP(q) = sp})])
  /\ mmu.usedTotal = SumFunction(mmu.ingPort)

(* Egress accounting is exact: the guaranteed and shared counters of each *)
(* queue add up to the bytes in its FIFO whatever the mix of sizes and the *)
(* order of partial fills and drains, the guarantee is full whenever the   *)
(* shared part is in use, and no counter goes below zero (a uint32_t       *)
(* wraparound in RemoveFromEgressAdmission).                               *)
EgressAccounting ==
  /\ \A o \in Ports, q \in Queues :
        /\ mmu.egQMin[o][q] + mmu.egQShared[o][q] = EgressBytes(o, q)
        /\ 0 <= mmu.egQMin[o][q] /\ mmu.egQMin[o][q] <= QMinCell
        /\ 0 <= mmu.egQShared[o][q]
        /\ mmu.egQShared[o][q] > 0 => mmu.egQMin[o][q] = QMinCell
  /\ \A o \in Ports : mmu.egPort[o] = SumFunction([q \in Queues |-> EgressBytes(o, q)])
  /\ mmu.egSP[1] = SumFunction([o \in Ports |-> SumFunction(mmu.egQShared[o])])
  /\ mmu.egSP[0] = 0


(* PFC hysteresis: one call of CheckAndSendPfc never sends both a PAUSE   *)
(* and a RESUME for the same (port, class).  It needs the pause predicate *)
(* of GetPauseClasses and the resume predicate of GetResumeClasses to be  *)
(* disjoint for every class the call touches.                             *)
NoPauseResumeFlap ==
  [][\A f \in pfcTx' :
       f.kind = "pause" => [f EXCEPT !.kind = "resume"] \notin pfcTx']_vars

(* The headroom a class has used never exceeds m_pg_hdrm_limit, the      *)
(* limit CheckIngressAdmission enforces ("exceed headroom space").        *)
HeadroomWithinLimit ==
  \A p \in Ports, q \in Queues : mmu.hdrm[p][q] <= PgHdrmLimit


(* ECN marks congestion of the queue the packet leaves (spec 4.3): with  *)
(* ECN on, SwitchNotifyDequeue marks a departing packet only when its    *)
(* FIFO still holds more than QMinCell + kmin bytes, and always when it   *)
(* holds more than QMinCell + kmax; the guarantee bytes never count.      *)
CongestionMarking ==
  [][\A o \in OutPorts, q \in Queues :
       Len(egq'[o][q]) < Len(egq[o][q]) =>
         LET left == EgressBytes(o, q)' IN
         /\ ecn' => left > QMinCell + Kmin
         /\ EcnEnabled /\ left > QMinCell + Kmax => ecn']_vars

=============================================================================
