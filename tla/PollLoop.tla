------------------------------ MODULE PollLoop -----------------------------
(***************************************************************************)
(* The loops that tapped before there was a timer: they poll a             *)
(* free-running counter until the next beat is due.                        *)
(*                                                                         *)
(*   st     sandbox/st.c: beat, read the counter again for the next        *)
(*   old    sandbox/old.midi.c, and tapper.c 358-380: the same, until ^C   *)
(*   ttt    sandbox/ttt.c: read again, then beat                           *)
(*   clock  tapper.c 320-356: tv_nsec of the clock, a pause after 8 beats  *)
(*                                                                         *)
(* Those of tapper.c are under OLDSTUFF.  A counter of 32 bits starts over *)
(* at 2^32, tv_nsec at 10^9; Wrap is either.  A reading and the comparison *)
(* with it are one step, and so is a usleep with the reading after it.     *)
(***************************************************************************)
EXTENDS Integers

CONSTANTS
  Loops,    \* the loops to consider
  Wrap,     \* the counter runs from 0 to Wrap - 1
  Delay,    \* the units of a beat
  Gap,      \* the longest time between two steps of a loop
  Longest   \* bound: time stops this long after a beat

ASSUME PollAssumption ==
  /\ Loops \subseteq {"st", "old", "ttt", "clock"}
  /\ Wrap \in Nat /\ Delay \in Nat /\ Gap \in 1..(Delay - 1) /\ Delay + Gap <= Wrap
  /\ 3 * Gap < Wrap
  /\ Longest \in Nat

VARIABLES
  loop,     \* the program that runs
  pc,       \* its next statement
  running,
  counter,  \* the hardware's counter, or tv_nsec
  mark,     \* next; in the clock's loop last
  i

VARIABLES   \* history
  since,    \* time since the reading that mark comes from
  idle      \* time since the last step

time == <<counter, since, idle>>
vars == <<loop, pc, running, time, mark, i>>

Counts == 0..Wrap - 1
Pause  == 5 * Wrap      \* sleep(5)

TypeOK ==
  /\ loop \in Loops
  /\ pc \in {"poll", "send", "mark", "pause", "closed", "killed"}
  /\ running \in BOOLEAN
  /\ counter \in Counts /\ mark \in Counts
  /\ i \in 0..7
  /\ since \in Nat /\ idle \in Nat

WrappedMutWide(n) == n
Wrapped(n) == IF n >= Wrap THEN n - Wrap ELSE n

NextBeatMutNow == counter
NextBeat == Wrapped(counter + Delay)

Init ==
  /\ loop \in Loops /\ pc = "poll" /\ running = TRUE
  /\ counter \in Counts
  /\ mark = IF loop = "clock" THEN counter ELSE NextBeat
  /\ i = 0
  /\ since = 0 /\ idle = 0

----------------------------------------------------------------------------
(* Time.                                                                   *)

Alive == pc \notin {"closed", "killed"}

Elapse ==
  /\ Alive /\ since < Longest
  /\ idle < IF pc = "pause" THEN Pause + Gap ELSE Gap
  /\ counter' = IF counter + 1 = Wrap THEN 0 ELSE counter + 1
  /\ since' = since + 1
  /\ idle' = idle + 1
  /\ UNCHANGED <<loop, pc, running, mark, i>>

----------------------------------------------------------------------------
(* The loops.                                                              *)

At(p)   == pc = p
Goto(p) == pc' = p /\ idle' = 0

\* now - last, a second added when it is negative.
Diff == IF counter < mark THEN counter - mark + Wrap ELSE counter - mark

DueMutEqual == IF loop = "clock" THEN Diff = Delay ELSE counter = mark
Due == IF loop = "clock" THEN Diff >= Delay ELSE counter >= mark

StayInMutForever == TRUE
StayIn == running

\* What the clock's loop reads is also what the next difference is taken from.
Poll ==
  /\ At("poll") /\ StayIn
  /\ \/ ~Due /\ Goto("poll") /\ UNCHANGED <<mark, since>>
     \/ Due /\ loop \in {"st", "old"} /\ Goto("send") /\ UNCHANGED <<mark, since>>
     \/ Due /\ loop = "ttt" /\ Goto("mark") /\ UNCHANGED <<mark, since>>
     \/ Due /\ loop = "clock" /\ Goto("send") /\ mark' = counter /\ since' = 0
  /\ UNCHANGED <<loop, running, counter, i>>

Send ==
  /\ At("send")
  /\ i' = IF loop = "clock" THEN (i + 1) % 8 ELSE i
  /\ Goto(CASE loop \in {"st", "old"} -> "mark"
            [] loop = "ttt"           -> "poll"
            [] loop = "clock"         -> IF i = 7 THEN "pause" ELSE "poll")
  /\ UNCHANGED <<loop, running, counter, mark, since>>

Mark ==
  /\ At("mark")
  /\ mark' = NextBeat /\ since' = 0
  /\ Goto(IF loop = "ttt" THEN "send" ELSE "poll")
  /\ UNCHANGED <<loop, running, counter, i>>

EndPause ==
  /\ At("pause") /\ idle >= Pause
  /\ Goto("poll")
  /\ UNCHANGED <<loop, running, counter, mark, i, since>>

close_serial ==
  /\ At("poll") /\ ~StayIn
  /\ Goto("closed")
  /\ UNCHANGED <<loop, running, counter, mark, i, since>>

Step == Poll \/ Send \/ Mark \/ EndPause \/ close_serial

\* SIGINT, once: int_handler where there is one, which also ends a sleep().
int_handler ==
  /\ Alive /\ running
  /\ running' = FALSE
  /\ pc' = CASE loop \in {"st", "ttt"} -> "killed"
             [] At("pause")            -> "poll"
             [] OTHER                  -> pc
  /\ idle' = IF At("pause") THEN 0 ELSE idle
  /\ UNCHANGED <<loop, counter, since, mark, i>>

Next == Elapse \/ Step \/ int_handler

\* Time goes on and the loop is scheduled.
Fairness == WF_vars(Elapse) /\ WF_vars(Step)

SafeSpec == Init /\ [][Next]_vars
Spec     == SafeSpec /\ Fairness

----------------------------------------------------------------------------
(* Properties.                                                             *)

Polls == pc = "poll" /\ running

\* No beat comes before its time but in the last beat's length before the
\* counter starts over, where next has overflowed and every poll sends one; the
\* clock's loop never beats early (st.c 62-66, ttt.c 163-169, tapper.c 333-340).
EarlyOnlyAtTheTop ==
  Polls /\ Due /\ since < Delay => loop # "clock" /\ counter >= Wrap - Delay

\* A loop is silent for longer than a beat and the time between two polls only
\* if next lies so near the counter's end that a poll may miss what is left of
\* it; the clock's loop only after its eighth beat, and then not for longer than
\* its pause, a beat and two steps (st.c 63-66, ttt.c 167-172, tapper.c 333-350).
LateOnlyAtTheTop ==
  Polls /\ since > Delay + Gap =>
    IF loop = "clock" THEN i = 0 /\ since < Pause + Delay + 2 * Gap
                      ELSE mark > Wrap - Gap

\* SIGINT ends every loop (tapper.c 332, 369, old.midi.c 181).
IntEnds == ~running ~> ~Alive
============================================================================
