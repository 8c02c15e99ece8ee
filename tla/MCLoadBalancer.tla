-------------------------- MODULE MCLoadBalancer --------------------------
(***************************************************************************)
(* Model-checking instance of LoadBalancer: one destination host behind   *)
(* two uplinks of a switch, an RDMA (UDP) flow and its ACKs towards it,   *)
(* and a CPEM feedback packet.  Addresses follow node_id_to_ip.            *)
(***************************************************************************)
EXTENDS LoadBalancer

MCDip == \h0B000201                  \* node 2
MCSip == \h0B000101                  \* node 1

MCFlows ==
  { [sip |-> MCSip, dip |-> MCDip, sport |-> 1000, dport |-> 100,
     l3Prot |-> 17, pg |-> 3],       \* RDMA data
    [sip |-> MCSip, dip |-> MCDip, sport |-> 1000, dport |-> 100,
     l3Prot |-> 252, pg |-> 0],      \* an ACK on the same path
    [sip |-> MCSip, dip |-> MCDip, sport |-> 0, dport |-> 0,
     l3Prot |-> 251, pg |-> 0] }     \* CPEM feedback

MCDips == {MCDip}

(* EcmpHash is MurmurHash3_x86_32: the published vectors of the reference *)
(* implementation ("" with seeds 0, 1 and 0xffffffff; "a", "abc", "aaaa"  *)
(* and "Hello, world!" with seed 0x9747b28c; four zero bytes), and the     *)
(* 12-byte keys DoLbFlowECMP builds, as the compiled source hashes them.   *)
HashVectors ==
  << <<<<>>, <<0, 0>>, <<0, 0>>>>,
     <<<<>>, <<0, 1>>, <<\h514e, \h28b7>>>>,
     <<<<>>, <<\hffff, \hffff>>, <<\h81f1, \h6f39>>>>,
     <<<<97>>, <<\h9747, \hb28c>>, <<\h7fa0, \h9ea6>>>>,
     <<<<97, 98, 99>>, <<\h9747, \hb28c>>, <<\hc84a, \h62dd>>>>,
     <<<<97, 97, 97, 97>>, <<\h9747, \hb28c>>, <<\h5a97, \h808a>>>>,
     <<<<72, 101, 108, 108, 111, 44, 32, 119, 111, 114, 108, 100, 33>>,
       <<\h9747, \hb28c>>, <<\h2488, \h4cba>>>>,
     <<<<0, 0, 0, 0>>, <<0, 0>>, <<\h2362, \hf9de>>>>,
     <<LE32(MCSip) \o LE32(MCDip) \o LE16(1000) \o LE16(2000), <<0, 0>>,
       U32(507813502)>>,
     <<LE32(MCSip) \o LE32(MCDip) \o LE16(1001) \o LE16(2000), <<0, 0>>,
       <<\h9c3b, \h7f97>>>>,
     <<LE32(MCSip) \o LE32(MCDip) \o LE16(65535) \o LE16(65535), <<0, 7>>,
       <<\hd245, \h5761>>>> >>

ASSUME \A i \in DOMAIN HashVectors :
         EcmpHash(HashVectors[i][1], HashVectors[i][2]) = HashVectors[i][3]
=============================================================================
