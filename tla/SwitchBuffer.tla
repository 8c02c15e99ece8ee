---------------------------- MODULE SwitchBuffer ----------------------------
(***************************************************************************)
(* What the counters of SwitchMmu stand for: a switch that keeps no byte  *)
(* counters and takes every admission and PFC decision on the packets it *)
(* actually buffers.  Its state is the egress FIFOs, the headroom each    *)
(* (port, class) has charged (which depends on the order of arrivals, not *)
(* on the buffer's content alone), the PFC flags and the frames last sent.*)
(*                                                                         *)
(* The decision rules are the SwitchMmu operators, applied to View: the   *)
(* counters as they would be if each were recomputed from the FIFOs      *)
(* (an egress queue fills its QMinCell guarantee before the shared pool). *)
(* SwitchNode implements this specification (PfcLink, BufferRefinement): *)
(* the counters it updates packet by packet, partial fills and drains    *)
(* included, always lead to the decisions View leads to.                  *)
(***************************************************************************)
EXTENDS Integers, Sequences, SwitchMmu

CONSTANTS InPorts, OutPorts, Sizes, MaxPkts, EcnEnabled

VARIABLES
  queue,     \* queue[o][q]: the packets buffered for class q of port o
  hdrm,      \* hdrm[p][q]: headroom charged by port p, class q
  pfc,       \* the paused, resumeEvt and pauseRemote flags
  sent,      \* the PFC frames sent upstream by the last step
  ecn        \* the last step sent a packet out marked congested

bufVars == <<queue, hdrm, pfc, sent, ecn>>

(* Bytes of the packets of FIFO s that came in on a port of P.            *)
RECURSIVE Bytes(_, _)
Bytes(s, P) ==
  IF s = <<>> THEN 0
  ELSE (IF Head(s).in \in P THEN Head(s).size ELSE 0) + Bytes(Tail(s), P)

(* The sum of f[x] over the x of S.                                        *)
RECURSIVE Total(_, _)
Total(f, S) == IF S = {} THEN 0 ELSE LET x == CHOOSE x \in S : TRUE IN f[x] + Total(f, S \ {x})

(* The mmu record whose counters are recomputed from the FIFOs qu.        *)
View(qu, hd, fl) ==
  LET pg   == [p \in Ports |-> [q \in Queues |->
                 Total([o \in OutPorts |-> Bytes(qu[o][q], {p})], OutPorts)]]
      eq   == [o \in Ports |-> [q \in Queues |->
                 IF o \in OutPorts THEN Bytes(qu[o][q], Ports) ELSE 0]]
      qmin == [o \in Ports |-> [q \in Queues |->
                 IF eq[o][q] < QMinCell THEN eq[o][q] ELSE QMinCell]]
      shr  == [o \in Ports |-> [q \in Queues |-> eq[o][q] - qmin[o][q]]]
      ingQ(sp) == {q \in Queues : GetIngressSP(q) = sp}
      egQ(sp)  == {q \in Queues : GetEgressSP(q) = sp}
  IN [ usedTotal |-> Total([p \in Ports |-> Total(pg[p], Queues)], Ports),
       ingPG     |-> pg,
       ingPort   |-> [p \in Ports |-> Total(pg[p], Queues)],
       ingSP     |-> [sp \in Pools |-> Total([p \in Ports |-> Total(pg[p], ingQ(sp))], Ports)],
       hdrm      |-> hd,
       egQMin    |-> qmin,
       egQShared |-> shr,
       egPort    |-> [o \in Ports |-> Total(eq[o], Queues)],
       egSP      |-> [sp \in Pools |-> Total([o \in Ports |-> Total(shr[o], egQ(sp))], Ports)],
       paused    |-> fl.paused,
       resumeEvt |-> fl.resumeEvt,
       pauseRemote |-> fl.pauseRemote ]

Flags(m) == [paused |-> m.paused, resumeEvt |-> m.resumeEvt, pauseRemote |-> m.pauseRemote]

BufInit ==
  /\ queue = [o \in OutPorts |-> [q \in Queues |-> <<>>]]
  /\ hdrm = PortQ(0)
  /\ pfc = Flags(InitMmu)
  /\ sent = {}
  /\ ecn = FALSE

Buffered == Total([o \in OutPorts |-> Total([q \in Queues |-> Len(queue[o][q])], Queues)], OutPorts)

(***************************************************************************)
(* A data packet of class q and size s arrives on i for o and passes the  *)
(* egress and the ingress check on the buffered bytes: it is queued,      *)
(* charged to headroom when its ingress pool is now over                  *)
(* BufferCellLimitSp, and the PFC check of its port runs.  (The effect on *)
(* queue comes first: it tells at once which arrival a step is.)          *)
(***************************************************************************)
Admit(i, o, q, s) ==
  LET m  == View(queue, hdrm, pfc)
      qu == [queue EXCEPT ![o][q] = Append(@, [in |-> i, size |-> s])]
      hd == IF m.ingSP[GetIngressSP(q)] + s > BufferCellLimitSp
            THEN [hdrm EXCEPT ![i][q] = @ + s] ELSE hdrm
      r  == CheckAndSendPfc(View(qu, hd, pfc), i, q)
  IN /\ queue' = qu
     /\ Buffered < MaxPkts
     /\ CheckEgressAdmission(m, o, q, s)
     /\ CheckIngressAdmission(m, i, q, s)
     /\ hdrm' = hd
     /\ pfc' = Flags(r[1])
     /\ sent' = r[2]
     /\ ecn' = FALSE

(* The packet fails one of the checks: it is dropped and nothing changes. *)
Refuse(i, o, q, s) ==
  LET m == View(queue, hdrm, pfc) IN
  /\ UNCHANGED <<queue, hdrm, pfc>>
  /\ sent' = {} /\ ecn' = FALSE
  /\ Buffered < MaxPkts
  /\ ~(CheckEgressAdmission(m, o, q, s) /\ CheckIngressAdmission(m, i, q, s))

(* The head packet of class q on port o leaves: its headroom charge goes  *)
(* down by its size (not below 0), it is marked as ShouldSendCN decides   *)
(* on the bytes left behind, and its class may resume.                    *)
Leave(o, q) ==
  /\ queue[o][q] # <<>>
  /\ LET k  == Head(queue[o][q])
         qu == [queue EXCEPT ![o][q] = Tail(@)]
         hd == [hdrm EXCEPT ![k.in][q] = IF @ > k.size THEN @ - k.size ELSE 0]
         r  == CheckAndSendResume(View(qu, hd, pfc), k.in, q)
     IN /\ ecn' \in (IF EcnEnabled THEN ShouldSendCN(View(qu, hd, pfc), o, q) ELSE {FALSE})
        /\ queue' = qu /\ hdrm' = hd
        /\ pfc' = Flags(r[1]) /\ sent' = r[2]

(* The pause time of class q on port p runs out.                           *)
Expire(p, q) ==
  /\ UNCHANGED <<queue, hdrm>>
  /\ pfc.resumeEvt[p][q]
  /\ pfc' = SetResume(pfc, p, {q})
  /\ sent' = {} /\ ecn' = FALSE

BufNext ==
  \/ \E i \in InPorts, o \in OutPorts, q \in Queues, s \in Sizes :
        Admit(i, o, q, s) \/ Refuse(i, o, q, s)
  \/ \E o \in OutPorts, q \in Queues : Leave(o, q)
  \/ \E p \in Ports, q \in Queues : Expire(p, q)

BufSpec == BufInit /\ [][BufNext]_bufVars

=============================================================================
