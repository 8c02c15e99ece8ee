------------------------------- MODULE Cpem --------------------------------
(***************************************************************************)
(* The CPEM credit loop over one link: ingress port P of a downstream      *)
(* switch D reports its congestion to the upstream switch U at the other  *)
(* end of the link, and U integrates the reports into the effective rate  *)
(* of its egress port toward D.                                           *)
(*                                                                         *)
(*   D: SwitchNode::CpemPeriodicFeedbackCheck, which calls                *)
(*      CpemSendFeedback (gradient, thresholds, credit value, send on      *)
(*      queue 0).                                                          *)
(*   U: the CPEM part of DoSwitchSend (SwitchMmu::CpemUpdateInflightOnSend)*)
(*      and SwitchNode::CpemHandleFeedback (CpemUpdateCreditOnFeedback,   *)
(*      then CpemGetAdjustedRate).                                         *)
(*                                                                         *)
(* The link carries feedback packets in order and loses none (queue 0     *)
(* bypasses admission).  The data path of both switches is abstracted to  *)
(* the MMU counters CPEM reads: D's ingress bytes on P, and the ingress    *)
(* pool-0 usage of D and of U, which change by DataPathChange.           *)
(*                                                                         *)
(* Arithmetic.  Byte counts are exact.  uint32_t thresholds are kept in   *)
(* their two's-complement int32 reading: a value of 2^31 or more is       *)
(* stored negative, which makes uint32 addition wrap exactly and needs    *)
(* the unsigned comparisons below.  The int16_t gradient wraps mod 2^16.  *)
(* The doubles are rounded: ratios to 1/1000, credits down to whole       *)
(* credits, rates down to whole Mb/s.                                     *)
(***************************************************************************)
EXTENDS Integers, Sequences, FiniteSets

CONSTANTS
  MTU,                          \* SwitchMmu::MTU
  BufferCellLimitSp,            \* m_buffer_cell_limit_sp
  PgMinCell, PortMinCell,       \* m_pg_min_cell, m_port_min_cell
  PgAlphaDen,                   \* m_pg_shared_alpha_cell = 1 / PgAlphaDen
  DynamicTh,                    \* m_dynamicth
  UseDynamicThreshold,          \* Settings::cpem_use_dynamic_threshold
  ThresholdLowFixed,            \* Settings::cpem_queue_threshold_low
  ThresholdHighFixed,           \* Settings::cpem_queue_threshold_high
  LowRatio, HighRatio,          \* cpem_threshold_{low,high}_ratio, per cent
  MaxCredit,                    \* Settings::cpem_max_credit
  DecayAlpha,                   \* cpem_credit_decay_alpha, per mille
  InflightDiscount,             \* cpem_inflight_discount, per mille
  RateGain,                     \* cpem_credit_to_rate_gain, per mille
  MinRateRatio,                 \* cpem_min_rate_ratio, per mille
  LinkRate,                     \* the link's DataRate, in Mb/s
  QueueLens,                    \* values D's ingress bytes on P takes
  PoolUses,                     \* values D's ingress pool-0 usage takes
  UpPoolUses,                   \* values U's ingress pool-0 usage takes
  SendSizes,                    \* sizes of data packets U sends toward D
  Decays,                       \* exp(-dt / 2 interval) for the gaps between sends, per mille
  CastOutcomes,                 \* what (uint32_t) of a negative double gives
  MaxChan,                      \* bound: feedback packets in flight
  MaxInflight                   \* bound: U's inflightBytes

ASSUME CastOutcomes \subseteq {"wrap", "saturate"} /\ CastOutcomes # {}

VARIABLES
  qlen,       \* D: m_usedIngressPortBytes[P]
  dnSp,       \* D: m_usedIngressSPBytes[0]
  upSp,       \* U: m_usedIngressSPBytes[0]
  lastQueueLen, \* D: m_cpemState[P].lastQueueLen
  chan,       \* feedback packets on the link from D to U, oldest first
  feedbackCredit, inflightCredit, inflightBytes, \* U: m_cpemState of its port
  sentBefore, \* U: lastSendTime > 0
  effectiveRate, \* U: m_cpemState.effectiveRate
  conv        \* what the build's (uint32_t) of a negative double gives

vars == <<qlen, dnSp, upSp, lastQueueLen, chan, feedbackCredit,
          inflightCredit, inflightBytes, sentBefore, effectiveRate, conv>>

Header == [queueLen : Nat, gradient : -32768..32767, creditValue : Nat]

MinOf(a, b) == IF a <= b THEN a ELSE b
MaxOf(a, b) == IF a >= b THEN a ELSE b
Abs(x) == IF x < 0 THEN -x ELSE x

(* a / b to 1/1000, for 0 <= a and 0 < b.                                *)
PerMille(a, b) == (a * 1000) \div b

(* Unsigned order and max of two uint32_t held as int32.                 *)
ULt(a, b) == IF (a < 0) = (b < 0) THEN a < b ELSE b < 0
UMax(a, b) == IF ULt(a, b) THEN b ELSE a

(* Mutant: the difference kept as a uint16_t.                            *)
Int16_AsUint16(d) == d % 65536

(* (int16_t)(a - b) of two uint32_t.                                      *)
Int16(d) == ((d + 32768) % 65536) - 32768

(* (uint32_t)x for the double x = n / d, truncating; a negative x is     *)
(* undefined behaviour, which the build fixes once: the low 32 bits of    *)
(* the int64 conversion (x86-64, conv = "wrap") or 0 (a saturating        *)
(* conversion, conv = "saturate").                                        *)
CastU32(n, d) ==
  IF n >= 0 THEN n \div d
  ELSE IF conv = "wrap" THEN -((-n) \div d) ELSE 0

(***************************************************************************)
(* SwitchMmu::CpemGetDynamicThresholds(port) for a switch whose ingress   *)
(* pool 0 holds sp bytes: <<threshold_low, threshold_high>>.  pfc is the  *)
(* PFC threshold times PgAlphaDen.                                         *)
(***************************************************************************)
CpemGetDynamicThresholds(sp) ==
  IF UseDynamicThreshold /\ DynamicTh
  THEN LET pfc  == BufferCellLimitSp - sp + PgAlphaDen * (PgMinCell + PortMinCell)
           low  == UMax(CastU32(pfc * LowRatio, PgAlphaDen * 100), 10 * MTU)
           high == UMax(CastU32(pfc * HighRatio, PgAlphaDen * 100), low + 5 * MTU)
       IN <<low, high>>
  ELSE <<ThresholdLowFixed, ThresholdHighFixed>>

(***************************************************************************)
(* SwitchMmu::CpemCalculateCreditValue.  A threshold of 2^31 or more      *)
(* (stored negative) dwarfs every ratio it divides.                        *)
(***************************************************************************)
CpemCalculateCreditValue(queueLen, gradient, low, high) ==
  LET qRatio == IF ~ULt(queueLen, high) THEN 1000
                ELSE IF ULt(low, queueLen) THEN PerMille(queueLen - low, high - low)
                ELSE 0
      gRatio == IF low < 0 THEN 0 ELSE MinOf(PerMille(Abs(gradient), low), 1000)
      gradientFactor == IF gradient > 0 THEN 1000 + gRatio \div 2
                        ELSE IF gradient < 0 THEN 1000 - (gRatio * 3) \div 10
                        ELSE 1000
  IN MinOf((qRatio * gradientFactor * MaxCredit) \div 1000000, MaxCredit)

(***************************************************************************)
(* SwitchNode::CpemSendFeedback(P, P) on D: the gradient since the last    *)
(* report, lastQueueLen updated whatever follows, then the credit value   *)
(* and, unless it is 0, a feedback packet on queue 0 toward U.  The result*)
(* is <<new lastQueueLen, packets sent>>.                                  *)
(***************************************************************************)
CpemSendFeedback ==
  LET gradient == Int16(qlen - lastQueueLen)
      th       == CpemGetDynamicThresholds(dnSp)
      credit   == CpemCalculateCreditValue(qlen, gradient, th[1], th[2])
  IN << qlen,
        IF credit = 0 THEN <<>>
        ELSE << [queueLen |-> qlen, gradient |-> gradient, creditValue |-> credit] >> >>

(* The state SwitchMmu::CpemInitPort leaves on U's port, D's counters and *)
(* lastQueueLen at their InitSwitch and constructor values.               *)
Init ==
  /\ qlen = 0 /\ dnSp = 0 /\ upSp = 0
  /\ lastQueueLen = 0
  /\ chan = <<>>
  /\ feedbackCredit = 0 /\ inflightCredit = 0 /\ inflightBytes = 0
  /\ sentBefore = FALSE
  /\ effectiveRate = LinkRate
  /\ conv \in CastOutcomes

(* The data paths of D and U move the counters CPEM reads.               *)
DataPathChange(q, d, u) ==
  /\ qlen' = q /\ dnSp' = d /\ upSp' = u
  /\ UNCHANGED <<lastQueueLen, chan, feedbackCredit, inflightCredit,
                 inflightBytes, sentBefore, effectiveRate, conv>>

(***************************************************************************)
(* SwitchNode::CpemPeriodicFeedbackCheck(P) on D: feedback is considered  *)
(* only when the port's ingress bytes reach the FIXED low threshold.      *)
(***************************************************************************)
CpemPeriodicFeedbackCheck ==
  /\ Len(chan) < MaxChan
  /\ IF qlen >= ThresholdLowFixed
     THEN LET r == CpemSendFeedback
          IN /\ lastQueueLen' = r[1]
             /\ chan' = chan \o r[2]
     ELSE UNCHANGED <<lastQueueLen, chan>>
  /\ UNCHANGED <<qlen, dnSp, upSp, feedbackCredit, inflightCredit,
                 inflightBytes, sentBefore, effectiveRate, conv>>

(***************************************************************************)
(* SwitchMmu::CpemUpdateInflightOnSend(port, bytes), called by            *)
(* DoSwitchSend on U for an admitted data packet toward D.  decay is      *)
(* exp(-dt / (2 interval)) for the time since the previous send (1000     *)
(* when dt = 0, when no decay happens).                                   *)
(***************************************************************************)
CpemUpdateInflightOnSend(bytes, decay) ==
  LET decayed == IF sentBefore THEN (decay * inflightBytes) \div 1000 ELSE inflightBytes
      bytesN  == decayed + bytes
      high    == CpemGetDynamicThresholds(upSp)[2]
  IN /\ bytesN <= MaxInflight
     /\ inflightBytes' = bytesN
     /\ sentBefore' = TRUE
     /\ inflightCredit' = IF high < 0 THEN 0
                          ELSE MinOf((bytesN * MaxCredit) \div (2 * high), MaxCredit)
     /\ UNCHANGED <<qlen, dnSp, upSp, lastQueueLen, chan, feedbackCredit, effectiveRate, conv>>

(***************************************************************************)
(* SwitchMmu::CpemUpdateCreditOnFeedback: the EWMA of the credit value    *)
(* plus a bonus for a growing queue, clamped to MaxCredit; in-flight      *)
(* bytes halved.  The result is <<feedbackCredit, inflightBytes>>.        *)
(***************************************************************************)
CpemUpdateCreditOnFeedback(h) ==
  LET low   == CpemGetDynamicThresholds(upSp)[1]
      bonus == IF h.gradient > 0 /\ low >= 0
               THEN MinOf((PerMille(h.gradient, low) * MaxCredit) \div 5000,
                          (3 * MaxCredit) \div 10)
               ELSE 0
      newCredit == h.creditValue + bonus
      ewma  == (DecayAlpha * feedbackCredit + (1000 - DecayAlpha) * newCredit) \div 1000
  IN << MinOf(ewma, MaxCredit), inflightBytes \div 2 >>

(* Mutant: the rate stored only when it did not change.                 *)
CpemGetAdjustedRate_InvertedUpdate(fc, ic, prev) ==
  LET credit       == MinOf(fc + (InflightDiscount * ic) \div 1000, MaxCredit)
      rateRatio    == MaxOf(1000 - (credit * RateGain) \div MaxCredit, MinRateRatio)
      adjustedRate == (LinkRate * rateRatio) \div 1000
  IN IF prev = adjustedRate THEN adjustedRate ELSE prev

(***************************************************************************)
(* SwitchMmu::CpemGetAdjustedRate right after a feedback: the feedback is *)
(* 0 ns old, so CpemGetEffectiveCredit weighs it by exp(0) = 1.  The      *)
(* result is the port's effectiveRate after the call (it was prev).       *)
(***************************************************************************)
CpemGetAdjustedRate(fc, ic, prev) ==
  LET credit       == MinOf(fc + (InflightDiscount * ic) \div 1000, MaxCredit)
      rateRatio    == MaxOf(1000 - (credit * RateGain) \div MaxCredit, MinRateRatio)
      adjustedRate == (LinkRate * rateRatio) \div 1000
  IN IF prev # adjustedRate THEN adjustedRate ELSE prev

(***************************************************************************)
(* SwitchNode::CpemHandleFeedback on U for the oldest feedback packet.    *)
(***************************************************************************)
CpemHandleFeedback ==
  /\ chan # <<>>
  /\ LET r == CpemUpdateCreditOnFeedback(Head(chan))
     IN /\ feedbackCredit' = r[1]
        /\ inflightBytes' = r[2]
        /\ effectiveRate' = CpemGetAdjustedRate(r[1], inflightCredit, effectiveRate)
  /\ chan' = Tail(chan)
  /\ UNCHANGED <<qlen, dnSp, upSp, lastQueueLen, inflightCredit, sentBefore, conv>>

Next ==
  \/ \E q \in QueueLens, d \in PoolUses, u \in UpPoolUses : DataPathChange(q, d, u)
  \/ CpemPeriodicFeedbackCheck
  \/ \E b \in SendSizes, k \in Decays : CpemUpdateInflightOnSend(b, k)
  \/ CpemHandleFeedback

(* With the link up, the feedback timer is rescheduled on every tick and *)
(* the link delivers every packet: both are weakly fair.  A tick on a    *)
(* down link returns before rescheduling (switch-node.cc:525); the link  *)
(* is kept up here.  The data path needs no fairness.                    *)
Spec ==
  /\ Init /\ [][Next]_vars
  /\ WF_vars(CpemPeriodicFeedbackCheck)
  /\ WF_vars(CpemHandleFeedback)

(***************************************************************************)
(* Properties                                                              *)
(***************************************************************************)

TypeOK ==
  /\ qlen \in QueueLens /\ dnSp \in PoolUses /\ upSp \in UpPoolUses
  /\ lastQueueLen \in QueueLens \cup {0}
  /\ chan \in Seq(Header) /\ Len(chan) <= MaxChan
  /\ feedbackCredit \in Nat /\ inflightCredit \in Nat
  /\ inflightBytes \in 0..MaxInflight /\ sentBefore \in BOOLEAN
  /\ effectiveRate \in Nat /\ conv \in CastOutcomes

(* D's ingress port P is congested in the sense of the CPEM design: its  *)
(* bytes reach the high threshold computed in real arithmetic (16 pfc =  *)
(* pfc16 in dynamic mode, the fixed high threshold otherwise).           *)
Congested ==
  IF UseDynamicThreshold /\ DynamicTh
  THEN LET pfc16 == BufferCellLimitSp - dnSp + PgAlphaDen * (PgMinCell + PortMinCell)
       IN /\ qlen >= 15 * MTU
          /\ 100 * PgAlphaDen * (qlen - 5 * MTU) >= pfc16 * LowRatio
          /\ 100 * PgAlphaDen * qlen >= pfc16 * HighRatio
  ELSE qlen >= ThresholdHighFixed

(* The closed loop works: if D's port stays congested from some time on,  *)
(* the periodic check, CpemSendFeedback, the link and CpemHandleFeedback  *)
(* eventually keep U's effective rate toward D below the link rate.      *)
CongestionThrottles ==
  (<>[]Congested) => <>[](effectiveRate < LinkRate)

Sign(x) == IF x > 0 THEN 1 ELSE IF x < 0 THEN -1 ELSE 0

(* Every feedback D sends carries a gradient whose sign is that of the    *)
(* change of its port's bytes since lastQueueLen: growth is reported as   *)
(* growth (the gradient computed in CpemSendFeedback).                    *)
GradientTracksQueue ==
  [][Len(chan') > Len(chan) =>
       Sign(chan'[Len(chan')].gradient) = Sign(qlen - lastQueueLen)]_vars


=============================================================================
