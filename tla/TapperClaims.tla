---------------------------- MODULE TapperClaims ---------------------------
(***************************************************************************)
(* What the option descriptions of src/tapper.ggo say of midi-tapper and   *)
(* the program does not do.  Each definition is the claim; a run with a    *)
(* command line of its own shows how the program departs from it.          *)
(***************************************************************************)
EXTENDS MCTapper

\* Line 8, "Desired tempo in bpm": with a serial device, a channel in range
\* and no system call failing, a positive tempo is tapped, not refused.
PositiveTempoIsTapped ==
  FailingCalls = {} /\ Devices = {"chr"} /\ args.parse = "ok" /\ ChannelInRange
  /\ args.tempo > 0 => exit # "failure"

\* Line 8 again: a timer that runs keeps that tempo (a 32-bit long).
TempoIsTheDesired ==
  timer = "armed" => /\ ns_interval * args.tempo <= NsPerMinute
                     /\ NsPerMinute < (ns_interval + 1) * args.tempo

\* Lines 20-21, "runs forever by default", default="-1": asking for the
\* default is the same as not asking.
DefaultRunsForever ==
  exit = "success" /\ args.parse = "ok" /\ running => args.repeats # -1

\* Line 20, "Desired number of repeats": success, without SIGINT, means that
\* many messages reached the serial line.
SuccessMeansDelivered ==
  exit = "success" /\ args.parse = "ok" /\ running => delivered >= args.repeats

TempoArgs   == {[Good EXCEPT !.tempo = t] : t \in 1..120}
RepeatArgs  == {[Good EXCEPT !.repeats_given = TRUE, !.repeats = r] : r \in -1..2}
CountedArgs == {[Good EXCEPT !.repeats_given = TRUE, !.repeats = r] : r \in 0..2}
NoMasks     == {{}}
============================================================================
