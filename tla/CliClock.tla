------------------------------ MODULE CliClock ------------------------------
(***************************************************************************)
(* The time base of the serial interface.  millis() is an unsigned 32-bit  *)
(* counter that starts at 0 when the chip starts and wraps after 49.7      *)
(* days.  Elapsed times are unsigned differences; a deadline is compared   *)
(* through the sign of the difference.                                     *)
(***************************************************************************)
EXTENDS Integers

CONSTANT ClockMod   \* 2^32 in the firmware, a small even number for TLC

ASSUME ClockAssumption == ClockMod \in Nat /\ ClockMod >= 2

Instant == 0 .. ClockMod - 1

\* t + d in the clock's own width, for a delay d of at most one turn.
Later(t, d) == IF t + d < ClockMod THEN t + d ELSE t + d - ClockMod

\* now - then in the clock's own width.
Since(now, then) == IF now >= then THEN now - then ELSE now - then + ClockMod

\* static_cast<int32_t>(now - deadline) >= 0: the difference is in the lower
\* half of the unsigned range.
deadline_reached(now, deadline) == 2 * Since(now, deadline) < ClockMod
=============================================================================
