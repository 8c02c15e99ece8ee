----------------------- MODULE MCCreditFeedbackHeader -----------------------
(***************************************************************************)
(* Model-checking instance of CreditFeedbackHeader: field values at the   *)
(* byte boundaries, the S5 values (0x01020304, -1, 500, 7), the int16_t   *)
(* extremes and the largest queue length TLC's integers hold.             *)
(***************************************************************************)
EXTENDS CreditFeedbackHeader

MCQueueLens == {0, 255, 256, 65536, 16909060, 2147483647}
MCGradients == {-32768, -1, 0, 1, 32767}
MCCreditValues == {0, 500, 65535}
MCPortIndexes == {0, 7, 255}
====
