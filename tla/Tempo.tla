------------------------------- MODULE Tempo -------------------------------
(***************************************************************************)
(* The arithmetic that turns a tempo into a timer interval, shared by the  *)
(* tapper, by drift.c and by the sandbox (each has its own copy of         *)
(* bpm_to_ns).  A minute has NsPerMinute clock units and a second          *)
(* NsPerSecond; the C program counts nanoseconds.  A signed `long' holds   *)
(* -LongHalf .. LongHalf - 1: 2^63 units on an LP64 machine, 2^31 on the   *)
(* 32-bit systems the Raspberry Pi also runs.                              *)
(***************************************************************************)
EXTENDS Integers

CONSTANTS NsPerMinute, NsPerSecond, LongHalf

ASSUME TempoAssumption ==
  /\ NsPerSecond \in Nat \ {0, 1}
  /\ NsPerMinute = 60 * NsPerSecond
  /\ LongHalf \in Nat
  /\ LongHalf > NsPerSecond

\* What the cast (long) makes of an integer: its two's complement residue.
AsLong(n) == ((n + LongHalf) % (2 * LongHalf)) - LongHalf

bpm_to_nsMutRoundUp(bpm) ==
  IF bpm > 0 THEN AsLong((NsPerMinute + bpm - 1) \div bpm) ELSE 0

bpm_to_ns(bpm) == IF bpm > 0 THEN AsLong(NsPerMinute \div bpm) ELSE 0

(* What timer_settime answers to a tv_nsec (tv_sec is always 0): EINVAL    *)
(* outside one second, otherwise the timer is armed, and disarmed by zero. *)
ValidNsec(ns) == ns \in 0 .. NsPerSecond - 1
============================================================================
