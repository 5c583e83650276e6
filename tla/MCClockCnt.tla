----------------------------- MODULE MCClockCnt -----------------------------
(* Instances of ClockCnt for TLC: registers of a few values, so that both   *)
(* carries and long waits happen within a handful of ticks.                *)
EXTENDS ClockCnt

\* No wait, a short one, one that spans a carry.
MCAmounts == {0, 1, 4}
=============================================================================
