----------------------------- MODULE StreamTimes -----------------------------
(***************************************************************************)
(* What the two models of the streams table share: its ids and the         *)
(* timestamps of its rows.  The database stamps in microseconds; a Date,   *)
(* and every timestamp that has passed through the driver, has             *)
(* milliseconds.  A tick is the finer unit.                                *)
(***************************************************************************)
EXTENDS Naturals

CONSTANTS
  Ids,           \* stream ids
  PerMs,         \* ticks of a millisecond
  MaxClock       \* bound of the clocks

ASSUME ClockAssumption == PerMs \in Nat \ {0} /\ MaxClock \in Nat

Times == 0..MaxClock

\* A timestamp as a Date holds it.
MsRounded(t) == IF t % PerMs = 0 THEN t ELSE t - (t % PerMs) + PerMs
Ms(t) == t - (t % PerMs)
=============================================================================
