------------------------------ MODULE PfcLink ------------------------------
(***************************************************************************)
(* The switch of SwitchNode together with the upstream devices that feed  *)
(* its ingress ports.  A PFC frame sent by CheckAndSendPfc or             *)
(* CheckAndSendResume (QbbNetDevice::SendPfc) reaches the upstream device *)
(* of that port, which stops or restarts the class.  An upstream that     *)
(* has just been paused may still deliver up to InFlight packets of the   *)
(* class: those already on the wire or in its transmit pipeline.  The     *)
(* pause an upstream obeys lasts the pause time the frame carries, the    *)
(* same paused_time SwitchMmu::SetPause schedules its resume event with,  *)
(* so the event that clears the switch's flag and the end of the          *)
(* upstream's pause are one step (Expire).                                *)
(*                                                                         *)
(* The upstream device (QbbNetDevice) lives outside src/; its reaction to *)
(* a frame is taken from spec 4.2.                                         *)
(***************************************************************************)
EXTENDS SwitchNode

CONSTANTS
  InFlight   \* packets an upstream may still deliver after a PAUSE reaches it

ASSUME InFlight \in Nat

VARIABLES
  peer,      \* peer[p][q]: the upstream of port p sends class q ("run") or not
  slack,     \* slack[p][q]: packets it may still deliver while paused
  lost       \* the last arrival was refused by CheckIngressAdmission

linkVars == <<mmu, egq, pfcTx, ecn, peer, slack, lost>>

(***************************************************************************)
(* The upstream receives the frames of one handler.  CheckAndSendPfc      *)
(* sends its pauses before its resumes, so a class that got both runs.    *)
(* A pause that reaches a running upstream leaves InFlight packets on     *)
(* their way; one that reaches a paused upstream restarts its timer only. *)
(***************************************************************************)
PeerReceive(pe, sl, F) ==
  LET Got(p, q, kind) == [port |-> p, q |-> q, kind |-> kind] \in F
  IN << [p \in InPorts |-> [q \in Queues |->
            IF Got(p, q, "resume") THEN "run"
            ELSE IF Got(p, q, "pause") THEN "paused" ELSE pe[p][q]]],
        [p \in InPorts |-> [q \in Queues |->
            IF Got(p, q, "pause") /\ ~Got(p, q, "resume") /\ pe[p][q] = "run"
            THEN InFlight ELSE sl[p][q]]] >>

LinkInit ==
  /\ Init
  /\ peer = [p \in InPorts |-> [q \in Queues |-> "run"]]
  /\ slack = [p \in InPorts |-> [q \in Queues |-> 0]]
  /\ lost = FALSE

(* The upstream of inDev delivers a packet of class qIndex (it runs, or   *)
(* the packet was already in flight) and the switch handles it.           *)
Deliver(inDev, outDev, qIndex, psize) ==
  /\ peer[inDev][qIndex] = "run" \/ slack[inDev][qIndex] > 0
  /\ DoSwitchSend(inDev, outDev, qIndex, psize)
  /\ LET sl == IF peer[inDev][qIndex] = "run" THEN slack
               ELSE [slack EXCEPT ![inDev][qIndex] = @ - 1]
         rx == PeerReceive(peer, sl, pfcTx')
     IN /\ peer' = rx[1]
        /\ slack' = rx[2]
  /\ lost' = /\ CheckEgressAdmission(mmu, outDev, qIndex, psize)
             /\ ~CheckIngressAdmission(mmu, inDev, qIndex, psize)

(* A packet leaves an egress queue; a resume it triggers reaches the      *)
(* upstream.                                                               *)
Dequeue(ifIndex, qIndex) ==
  /\ SwitchNotifyDequeue(ifIndex, qIndex)
  /\ LET rx == PeerReceive(peer, slack, pfcTx') IN
       /\ peer' = rx[1]
       /\ slack' = rx[2]
  /\ lost' = FALSE

(* The pause time runs out: SetResume at the switch, and the upstream     *)
(* sends again.                                                            *)
Expire(port, q) ==
  /\ ResumeEvent(port, q)
  /\ peer' = [peer EXCEPT ![port][q] = "run"]
  /\ UNCHANGED slack
  /\ lost' = FALSE

LinkNext ==
  \/ \E i \in InPorts, o \in OutPorts, q \in Queues, s \in Sizes : Deliver(i, o, q, s)
  \/ \E o \in OutPorts, q \in Queues : Dequeue(o, q)
  \/ \E p \in InPorts, q \in Queues : Expire(p, q)

LinkSpec == LinkInit /\ [][LinkNext]_linkVars

(* No fairness: every SetPause cancels the pending resume event and      *)
(* schedules a new one (switch-mmu.cc:467-469), so pauses that keep       *)
(* coming postpone the release without bound; the code guarantees no      *)
(* liveness of the pause that holds whatever the traffic does.            *)

(***************************************************************************)
(* Properties                                                              *)
(***************************************************************************)

(* PFC is lossless (spec glossary: headroom is "for in-flight packets    *)
(* between pause send and peer reaction"): an upstream that obeys every   *)
(* PAUSE never has a packet refused by CheckIngressAdmission, whatever    *)
(* the order of pauses, pause-time expiries and dequeues.                 *)
Lossless == ~lost

(* No phantom resume (spec 5, property 3): a RESUME reaches only an       *)
(* upstream that the switch is holding back, although CheckAndSendResume  *)
(* leaves m_pause_remote set after its resume and the timer clears        *)
(* paused without touching it.                                             *)
NoPhantomResume ==
  [][\A f \in pfcTx' :
       f.kind = "resume" =>
         \/ peer[f.port][f.q] = "paused"
         \/ [f EXCEPT !.kind = "pause"] \in pfcTx']_linkVars

(* The byte counters implement the buffer (SwitchBuffer): every admission,*)
(* refusal, headroom charge, pause and resume of the switch is the one    *)
(* the same rules give on the bytes it actually holds, whatever the order *)
(* of UpdateEgressAdmission's partial fills, RemoveFromEgressAdmission's  *)
(* drains, ingress removals and expiries; and every ECN mark is one the  *)
(* bytes the queue holds after the departure allow.                       *)
Buffer == INSTANCE SwitchBuffer
            WITH queue <- egq, hdrm <- mmu.hdrm, sent <- pfcTx,
                 pfc <- [paused |-> mmu.paused, resumeEvt |-> mmu.resumeEvt,
                         pauseRemote |-> mmu.pauseRemote]

BufferRefinement == Buffer!BufSpec

=============================================================================
