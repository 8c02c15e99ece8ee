------------------------- MODULE CreditFeedbackHeader -------------------------
(***************************************************************************)
(* The CPEM feedback header (credit-feedback-header.cc/.h): a queue length *)
(* (uint32_t), a gradient (int16_t), a credit value (uint16_t) and a port  *)
(* index (uint8_t), set through the constructor or the setters and put on  *)
(* the wire by Serialize as 9 bytes, read back by Deserialize.             *)
(*                                                                         *)
(* Serialize writes with Buffer::Iterator::WriteU32/WriteU16/WriteU8 and   *)
(* Deserialize reads with ReadU32/ReadU16/ReadU8.  Those belong to ns-3's  *)
(* network module, outside this repository; the order in which they lay   *)
(* out the bytes of one value is the constant ByteOrder.                   *)
(***************************************************************************)
EXTENDS Integers, Sequences

CONSTANTS
  ByteOrder,     \* "lsb_first" or "msb_first": byte order of WriteU16/WriteU32
  QueueLens,     \* queue lengths the header is built with
  Gradients,     \* gradients (int16_t values)
  CreditValues,  \* credit values (uint16_t values)
  PortIndexes    \* port indexes (uint8_t values)

ASSUME ByteOrder \in {"lsb_first", "msb_first"}
ASSUME /\ QueueLens \subseteq 0 .. 2147483647
       /\ Gradients \subseteq -32768 .. 32767
       /\ CreditValues \subseteq 0 .. 65535
       /\ PortIndexes \subseteq 0 .. 255

VARIABLE hdr   \* the fields of one CreditFeedbackHeader object

(* The constructor with the four fields; the default constructor is      *)
(* MakeHeader(0, 0, 0, 0).                                                 *)
MakeHeader(q, g, c, p) ==
  [queueLen |-> q, gradient |-> g, creditValue |-> c, portIndex |-> p]

(* The n bytes of v in the order Buffer::Iterator::WriteU* puts them.      *)
WriteU(v, n) ==
  IF ByteOrder = "lsb_first"
  THEN [k \in 1 .. n |-> (v \div (256 ^ (k - 1))) % 256]
  ELSE [k \in 1 .. n |-> (v \div (256 ^ (n - k))) % 256]

(* Buffer::Iterator::ReadU*: the value of the bytes bs.                    *)
ReadU(bs) ==
  LET RECURSIVE MsbValue(_)
      MsbValue(s) == IF s = <<>> THEN 0 ELSE MsbValue(SubSeq(s, 1, Len(s) - 1)) * 256 + s[Len(s)]
      Rev(s) == [k \in 1 .. Len(s) |-> s[Len(s) + 1 - k]]
  IN IF ByteOrder = "lsb_first" THEN MsbValue(Rev(bs)) ELSE MsbValue(bs)

(* The (uint16_t) and (int16_t) casts.                                    *)
AsUint16(g) == (g + 65536) % 65536
AsInt16(u) == IF u >= 32768 THEN u - 65536 ELSE u

(* CreditFeedbackHeader::GetSerializedSize: 4 + 2 + 2 + 1.                 *)
GetSerializedSize == 9

(* CreditFeedbackHeader::Serialize.                                        *)
Serialize(h) ==
  WriteU(h.queueLen, 4) \o WriteU(AsUint16(h.gradient), 2)
    \o WriteU(h.creditValue, 2) \o WriteU(h.portIndex, 1)

(* Mutant of Deserialize: the credit value read with ReadU8, as for a    *)
(* one-byte field, so the port index is taken from its second byte.       *)
Deserialize_CreditReadU8(bs) ==
  [queueLen |-> ReadU(SubSeq(bs, 1, 4)), gradient |-> AsInt16(ReadU(SubSeq(bs, 5, 6))),
   creditValue |-> ReadU(SubSeq(bs, 7, 7)), portIndex |-> ReadU(SubSeq(bs, 8, 8))]

(* CreditFeedbackHeader::Deserialize: the fields read in the order they   *)
(* were written.                                                           *)
Deserialize(bs) ==
  [queueLen    |-> ReadU(SubSeq(bs, 1, 4)),
   gradient    |-> AsInt16(ReadU(SubSeq(bs, 5, 6))),
   creditValue |-> ReadU(SubSeq(bs, 7, 8)),
   portIndex   |-> ReadU(SubSeq(bs, 9, 9))]

Init == hdr = MakeHeader(0, 0, 0, 0)

(* The constructor CreditFeedbackHeader(queueLen, gradient, creditValue,  *)
(* portIndex), as CpemSendFeedback calls it.                              *)
Construct(q, g, c, p) == hdr' = MakeHeader(q, g, c, p)

SetQueueLen(v)    == hdr' = [hdr EXCEPT !.queueLen = v]
SetGradient(v)    == hdr' = [hdr EXCEPT !.gradient = v]
SetCreditValue(v) == hdr' = [hdr EXCEPT !.creditValue = v]
SetPortIndex(v)   == hdr' = [hdr EXCEPT !.portIndex = v]

Next ==
  \/ \E q \in QueueLens, g \in Gradients, c \in CreditValues, p \in PortIndexes :
        Construct(q, g, c, p)
  \/ \E v \in QueueLens : SetQueueLen(v)
  \/ \E v \in Gradients : SetGradient(v)
  \/ \E v \in CreditValues : SetCreditValue(v)
  \/ \E v \in PortIndexes : SetPortIndex(v)

Spec == Init /\ [][Next]_hdr

(***************************************************************************)
(* Properties                                                              *)
(***************************************************************************)

(* Serialization round trip (spec 5, property 7): the bytes Serialize     *)
(* writes are GetSerializedSize long and Deserialize gives back every      *)
(* field, the sign of the gradient through the uint16_t/int16_t casts      *)
(* included.                                                               *)
RoundTrip ==
  /\ Len(Serialize(hdr)) = GetSerializedSize
  /\ Deserialize(Serialize(hdr)) = hdr

=============================================================================
