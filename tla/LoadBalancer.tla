---------------------------- MODULE LoadBalancer ----------------------------
(***************************************************************************)
(* The routing half of SwitchNode's receive path (switch-node.cc): the     *)
(* routing table the simulation script fills (AddTableEntry, ClearTable,   *)
(* SetEcmpSeed), and SwitchReceiveFromDevice -> SendToDev ->               *)
(* SendToDevContinue -> GetOutDev, which picks the egress port by flow     *)
(* ECMP (DoLbFlowECMP, EcmpHash) or by DRILL (DoLbDrill), and the class.   *)
(* The step ends at the call DoSwitchSend(p, ch, idx, qIndex), whose       *)
(* effect on the MMU is SwitchNode's, where the egress port is free.       *)
(*                                                                         *)
(* The egress queue lengths DRILL reads (CalculateInterfaceLoad) belong    *)
(* to the net devices; the environment changes them.  An assert(false) of  *)
(* the code (no table entry, a protocol ECMP cannot hash) ends the         *)
(* simulation: the step is disabled.  lb_mode 3, 6 and 9 hand the packet   *)
(* to routing components outside src/ and are left out.                    *)
(*                                                                         *)
(* uint32 values are pairs <<hi, lo>> of 16-bit halves, because TLC's      *)
(* integers are 32-bit signed; a product is formed byte by byte.           *)
(***************************************************************************)
EXTENDS Integers, Sequences, SequencesExt, Functions, Bitwise

CONSTANTS
  Ports,        \* interface indices of the switch (1 ..; port 0 is unused)
  Dips,         \* destination addresses the table may hold
  Flows,        \* packets: [sip, dip, sport, dport, l3Prot, pg]
  Loads,        \* egress queue byte counts a device may hold
  LbMode,       \* Settings::lb_mode
  CpemEnabled,  \* Settings::cpem_enabled
  AckHighPrio,  \* m_ackHighPrio
  NodeId,       \* m_id, the ECMP seed the constructor sets
  Seeds,        \* seeds a script passes to SetEcmpSeed
  MaxEntries    \* bound on the next hops of one destination

ASSUME LbMode \in {0, 2} /\ CpemEnabled \in BOOLEAN /\ AckHighPrio \in {0, 1}
ASSUME \A f \in Flows : f.dip \in Dips

VARIABLES
  rtTable,      \* m_rtTable[dip]: the next hops, in insertion order
  prevBest,     \* m_previousBestInterfaceMap[dip], NoBest when absent
  ecmpSeed,     \* m_ecmpSeed
  load,         \* load[i]: bytes queued on device i (GetNBytesTotal)
  fwd           \* what the last receive did with its packet

lbVars == <<rtTable, prevBest, ecmpSeed, load, fwd>>

NoBest == 0     \* no port 0 is ever chosen: it is also DRILL's initial pick
NoFwd  == [kind |-> "none"]

-----------------------------------------------------------------------------
(* uint32 arithmetic on <<hi, lo>> pairs.                                   *)
U32(x) == <<x \div 65536, x % 65536>>
Xor32(a, b) == <<a[1] ^^ b[1], a[2] ^^ b[2]>>
Add32(a, b) ==
  LET lo == a[2] + b[2] IN <<(a[1] + b[1] + lo \div 65536) % 65536, lo % 65536>>
Shl32(a, r) ==   \* a << r, 0 < r < 16
  <<((a[1] * 2^r) % 65536) + a[2] \div 2^(16 - r), (a[2] * 2^r) % 65536>>
Shr32(a, r) ==   \* a >> r, 0 < r <= 16
  IF r = 16 THEN <<0, a[1]>>
  ELSE <<a[1] \div 2^r, (a[1] % 2^r) * 2^(16 - r) + a[2] \div 2^r>>
Rotl32(a, r) ==  \* (a << r) | (a >> (32 - r)), 0 < r < 16
  <<((a[1] * 2^r) % 65536) + a[2] \div 2^(16 - r),
    ((a[2] * 2^r) % 65536) + a[1] \div 2^(16 - r)>>
Mul32(a, b) ==   \* a * b mod 2^32, by bytes x0..x3, y0..y3
  LET x == <<a[2] % 256, a[2] \div 256, a[1] % 256, a[1] \div 256>>
      y == <<b[2] % 256, b[2] \div 256, b[1] % 256, b[1] \div 256>>
      k0 == x[1] * y[1]
      k1 == x[1] * y[2] + x[2] * y[1] + k0 \div 256
      k2 == x[1] * y[3] + x[2] * y[2] + x[3] * y[1] + k1 \div 256
      k3 == x[1] * y[4] + x[2] * y[3] + x[3] * y[2] + x[4] * y[1] + k2 \div 256
  IN <<(k3 % 256) * 256 + (k2 % 256), (k1 % 256) * 256 + (k0 % 256)>>

(* The little-endian word of the bytes key[i+1 ..], at most 4 of them.     *)
Word(key, i, n) ==
  LET b(j) == IF j < n THEN key[i + j + 1] ELSE 0
  IN <<b(3) * 256 + b(2), b(1) * 256 + b(0)>>

(***************************************************************************)
(* SwitchNode::EcmpHash: MurmurHash3_x86_32 of the byte sequence key.      *)
(***************************************************************************)
C1 == <<\hcc9e, \h2d51>>
C2 == <<\h1b87, \h3593>>
MixK(k) == Mul32(Rotl32(Mul32(k, C1), 15), C2)
MixH(h, k) ==
  LET h1 == Rotl32(Xor32(h, MixK(k)), 13)
  IN Add32(h1, Add32(Shl32(h1, 2), <<\he654, \h6b64>>))

EcmpHash(key, seed) ==
  LET len    == Len(key)
      blocks == [j \in 1 .. len \div 4 |-> Word(key, 4 * (j - 1), 4)]
      hb     == FoldLeft(MixH, seed, blocks)
      ht     == IF len % 4 # 0
                THEN Xor32(hb, MixK(Word(key, 4 * (len \div 4), len % 4)))
                ELSE hb
      h1 == Xor32(ht, U32(len))
      h2 == Mul32(Xor32(h1, Shr32(h1, 16)), <<\h85eb, \hca6b>>)
      h3 == Mul32(Xor32(h2, Shr32(h2, 13)), <<\hc2b2, \hae35>>)
  IN Xor32(h3, Shr32(h3, 16))

(* The little-endian bytes of a 32-bit and of a 16-bit field.              *)
LE32(x) == <<x % 256, (x \div 256) % 256, (x \div 65536) % 256, x \div 16777216>>
LE16(x) == <<x % 256, x \div 256>>

(***************************************************************************)
(* DoLbFlowECMP: the key is the union {sip, dip, sport | dport << 16} read *)
(* as 12 bytes (little-endian words), hashed with m_ecmpSeed; the next hop *)
(* is nexthops[hash % size].  Other protocols trip its assert.             *)
(***************************************************************************)
EcmpProtocols == {6, 17, 252, 253}   \* TCP, UDP, ACK (0xFC), NACK (0xFD)

DoLbFlowECMP(f, nexthops) ==
  LET h == EcmpHash(LE32(f.sip) \o LE32(f.dip) \o LE16(f.sport) \o LE16(f.dport),
                    ecmpSeed)
      n == Len(nexthops)
  IN nexthops[((((h[1] % n) * (65536 % n)) + h[2]) % n) + 1]

(* CalculateInterfaceLoad: the bytes queued on the device's egress queue.  *)
CalculateInterfaceLoad(i) == load[i]

(***************************************************************************)
(* DoLbDrill: start from the port remembered for dip (its current load),   *)
(* or from port 0 with load UINT32_MAX; walk the first m_drill_candidate   *)
(* ports of a random shuffle of nexthops, keeping a strictly less loaded  *)
(* one; remember and return the result.  rand is the shuffle.              *)
(***************************************************************************)
DrillCandidate == 2                  \* m_drill_candidate, set by the constructor
UintMax == 2147483647   \* std::numeric_limits<uint32_t>::max(): above every load

DrillPick(dip, nexthops, rand) ==
  LET start  == IF prevBest[dip] # NoBest
                THEN <<prevBest[dip], CalculateInterfaceLoad(prevBest[dip])>>
                ELSE <<0, UintMax>>
      k      == IF DrillCandidate < Len(nexthops) THEN DrillCandidate ELSE Len(nexthops)
      sample == [j \in 1 .. k |-> nexthops[rand[j]]]
      Better(best, p) == IF CalculateInterfaceLoad(p) < best[2]
                         THEN <<p, CalculateInterfaceLoad(p)>> ELSE best
  IN FoldLeft(Better, start, sample)[1]

(* The shuffles of a sequence of length n: its index permutations.         *)
Shuffles(n) == {r \in [1 .. n -> 1 .. n] : IsInjective(r)}

(* SendToDevContinue's class: control traffic, and ACK/NACK when          *)
(* m_ackHighPrio, go to queue 0; TCP to queue 1; else the UDP pg.          *)
QIndex(f) ==
  IF f.l3Prot \in {255, 254, 251} \/ (AckHighPrio = 1 /\ f.l3Prot \in {253, 252})
  THEN 0 ELSE IF f.l3Prot = 6 THEN 1 ELSE f.pg

ControlPkt(f) == f.l3Prot \in {255, 254, 253, 252, 251}

-----------------------------------------------------------------------------
(* The switch as the constructor leaves it: an empty table, the node id   *)
(* as the seed, nothing remembered, and empty queues.                      *)
Init ==
  /\ rtTable = [d \in Dips |-> <<>>]
  /\ prevBest = [d \in Dips |-> NoBest]
  /\ ecmpSeed = U32(NodeId)
  /\ load = [i \in Ports |-> 0]
  /\ fwd = NoFwd

SetEcmpSeed(seed) ==
  /\ ecmpSeed' = U32(seed)
  /\ fwd' = NoFwd
  /\ UNCHANGED <<rtTable, prevBest, load>>

AddTableEntry(dip, intf) ==
  /\ Len(rtTable[dip]) < MaxEntries
  /\ rtTable' = [rtTable EXCEPT ![dip] = Append(@, intf)]
  /\ fwd' = NoFwd
  /\ UNCHANGED <<prevBest, ecmpSeed, load>>

(* m_rtTable.clear(); m_previousBestInterfaceMap is left as it is.         *)
ClearTable ==
  /\ rtTable' = [d \in Dips |-> <<>>]
  /\ fwd' = NoFwd
  /\ UNCHANGED <<prevBest, ecmpSeed, load>>

(* A device's egress queue grows or drains (outside this module).          *)
QueueChange(i, v) ==
  /\ load' = [load EXCEPT ![i] = v]
  /\ fwd' = NoFwd
  /\ UNCHANGED <<rtTable, prevBest, ecmpSeed>>

(***************************************************************************)
(* SwitchReceiveFromDevice(f): SendToDev hands a CPEM feedback packet      *)
(* straight to CpemHandleFeedback (modelled in Cpem); any other packet     *)
(* goes through SendToDevContinue -> GetOutDev, which asserts that dip has *)
(* an entry and uses ECMP for control packets or lb_mode 0, DRILL          *)
(* otherwise, and the packet is handed to DoSwitchSend(idx, qIndex).       *)
(***************************************************************************)
Receive(f) ==
  \/ /\ CpemEnabled /\ f.l3Prot = 251
     /\ fwd' = [kind |-> "feedback"]
     /\ UNCHANGED <<rtTable, prevBest, ecmpSeed, load>>
  \/ /\ ~(CpemEnabled /\ f.l3Prot = 251)
     /\ rtTable[f.dip] # <<>>
     /\ UNCHANGED <<rtTable, ecmpSeed, load>>
     /\ \/ /\ LbMode = 0 \/ ControlPkt(f)
           /\ f.l3Prot \in EcmpProtocols
           /\ fwd' = [kind |-> "send", dip |-> f.dip, q |-> QIndex(f),
                      out |-> DoLbFlowECMP(f, rtTable[f.dip])]
           /\ UNCHANGED prevBest
        \/ /\ LbMode = 2 /\ ~ControlPkt(f)
           /\ \E rand \in Shuffles(Len(rtTable[f.dip])) :
                LET out == DrillPick(f.dip, rtTable[f.dip], rand) IN
                /\ prevBest' = [prevBest EXCEPT ![f.dip] = out]
                /\ fwd' = [kind |-> "send", dip |-> f.dip, q |-> QIndex(f), out |-> out]

Next ==
  \/ \E s \in Seeds : SetEcmpSeed(s)
  \/ \E d \in Dips, i \in Ports : AddTableEntry(d, i)
  \/ ClearTable
  \/ \E i \in Ports, v \in Loads : QueueChange(i, v)
  \/ \E f \in Flows : Receive(f)

Spec == Init /\ [][Next]_lbVars

-----------------------------------------------------------------------------
(* Properties                                                              *)

(* A packet leaves on a next hop of its destination: SendToDevContinue     *)
(* asserts that "the routing table look up should return link that is up",*)
(* whatever the order of table rebuilds (ClearTable, AddTableEntry),       *)
(* queue changes and DRILL's remembered choices.                           *)
RouteInTable ==
  fwd.kind = "send" => \E j \in DOMAIN rtTable[fwd.dip] : rtTable[fwd.dip][j] = fwd.out

=============================================================================
