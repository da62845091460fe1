-------------------------------- MODULE Drift ------------------------------
(***************************************************************************)
(* The drift measurement (src/drift.c): a main thread that waits for one   *)
(* interval after another and prints how long each took.  main calls       *)
(* loop_usleep; the two other ways to wait, loop_nanosleep and the timer,  *)
(* are commented out at lines 241 and 243.  method says which of the three *)
(* is built.  Every time is read as the nanoseconds of the running second. *)
(***************************************************************************)
EXTENDS Integers

CONSTANTS
  Second,    \* clock units in a second
  Interval,  \* clock units in a beat of 114 bpm
  CutToUs,   \* the same, cut to whole microseconds as usleep wants it
  Methods,   \* the ways to wait to consider
  Checked,   \* may the system calls whose result is checked fail?
  MaxDelay   \* bound: scheduling delays stop this long after a measurement

ASSUME DriftAssumption ==
  /\ Second \in Nat \ {0}
  /\ Interval \in 1..Second
  /\ CutToUs \in 1..Interval
  /\ Methods \subseteq {"usleep", "nanosleep", "timer"}
  /\ Checked \in BOOLEAN
  /\ MaxDelay \in Nat

VARIABLES
  method,      \* which of the calls of main is not commented out
  pc,          \* the next statement of the main thread
  running, trigger,
  timer_last, timer_waited, timer_drift,
  now,         \* the static buffer of get_now_ns
  t0,          \* of loop_usleep and loop_nanosleep
  line,        \* what the last printf was given
  handled, blocked, pending,   \* signals, as the kernel keeps them
  to_go,       \* clock units to the timer's next expiry, 0 when it is not armed
  nsec         \* tv_nsec of the clock

VARIABLES      \* history
  since,       \* time since the reading the next measurement starts from
  real         \* the true length of what was measured last

measured == <<timer_last, timer_waited, timer_drift>>
kernel   == <<handled, blocked, to_go>>
clock    == <<nsec, since>>
vars == <<method, pc, running, trigger, measured, now, t0, line, kernel, pending, clock, real>>

Clocks == 0..Second - 1

TypeOK ==
  /\ method \in Methods
  /\ pc \in {"sigtimer", "sigint", "block", "create", "settime", "mark", "marked",
             "unblock", "while", "begin", "begun", "sleep", "asleep", "end", "print",
             "loop", "test", "clear", "args", "waited", "drift", "nap", "done"}
  /\ running \in BOOLEAN /\ trigger \in BOOLEAN
  /\ timer_last \in Clocks /\ timer_waited \in Clocks
  /\ timer_drift \in Int
  /\ now \in Clocks /\ t0 \in Clocks
  /\ line \in [waited : Clocks, drift : Int, real : Nat]
  /\ handled \subseteq {"timer", "int"} /\ blocked \subseteq {"timer"}
  /\ pending \subseteq {"timer", "int"}
  /\ to_go \in 0..Interval
  /\ nsec \in Clocks
  /\ since \in Nat /\ real \in Nat

Init ==
  /\ method \in Methods
  /\ pc = "sigtimer"
  /\ running = TRUE /\ trigger = FALSE
  /\ timer_last = 0 /\ timer_waited = 0 /\ timer_drift = 0
  /\ now = 0 /\ t0 = 0
  /\ line = [waited |-> 0, drift |-> Interval, real |-> 0]   \* nothing yet
  /\ handled = {} /\ blocked = {} /\ pending = {}
  /\ to_go = 0
  /\ nsec \in Clocks
  /\ since = 0 /\ real = 0

----------------------------------------------------------------------------
(* Time.                                                                   *)

\* The difference of two readings, and one second more if it is negative.
WaitedMutNegative(from, to) == to - from
Waited(from, to) ==
  LET waited == to - from IN IF waited < 0 THEN waited + Second ELSE waited

\* d units pass.  An expiry of the timer raises SIGRTMIN; a signal that is
\* pending already is not queued twice.
Elapse(d) ==
  /\ nsec' = IF nsec + d >= Second THEN nsec + d - Second ELSE nsec + d
  /\ since' = since + d
  /\ to_go > 0 => d <= to_go
  /\ to_go' = CASE to_go = 0 -> 0 [] d = to_go /\ to_go > 0 -> Interval [] OTHER -> to_go - d
  /\ pending' = IF d = to_go THEN pending \union {"timer"} ELSE pending

Running == pc # "done"

\* The process is not scheduled for a while, or works.
Delay ==
  /\ Running
  /\ \E d \in 1..Second : since + d <= MaxDelay /\ Elapse(d)
  /\ UNCHANGED <<method, pc, running, trigger, measured, now, t0, line, handled, blocked, real>>

----------------------------------------------------------------------------
(* init_sig_handlers and init_timer.                                       *)

Goto(from, to) == pc = from /\ pc' = to

\* A system call whose failure ends the program.
Call(from, to) == pc = from /\ (pc' = to \/ (Checked /\ pc' = "done"))

Install(s, from, to) ==
  /\ Call(from, to)
  /\ handled' = IF pc' = to THEN handled \union {s} ELSE handled
  /\ UNCHANGED <<method, running, trigger, measured, now, t0, line, blocked, to_go, pending,
                 clock, real>>

init_sig_handlers ==
  \/ Install("timer", "sigtimer", "sigint")
  \/ Install("int", "sigint", IF method = "timer" THEN "block" ELSE "while")

Mask(signals, from, to) ==
  /\ Call(from, to)
  /\ blocked' = IF pc' = to THEN signals ELSE blocked
  /\ UNCHANGED <<method, running, trigger, measured, now, t0, line, handled, to_go, pending,
                 clock, real>>

CreateTimer ==
  /\ Call("create", "settime")
  /\ UNCHANGED <<method, running, trigger, measured, now, t0, line, kernel, pending, clock, real>>

StartTimer ==
  /\ Call("settime", "mark")
  /\ to_go' = IF pc' = "mark" THEN Interval ELSE to_go
  /\ UNCHANGED <<method, running, trigger, measured, now, t0, line, handled, blocked, pending,
                 clock, real>>

\* clock_gettime writes the buffer that main and the handler share.
\* starts: is this the reading a measurement starts from?
clock_gettime(starts, from, to) ==
  /\ Goto(from, to)
  /\ now' = nsec
  /\ since' = IF starts THEN 0 ELSE since
  /\ real' = IF starts THEN real ELSE since
  /\ UNCHANGED <<method, running, trigger, measured, t0, line, kernel, pending, nsec>>

MarkStart ==
  /\ Goto("marked", "unblock")
  /\ timer_last' = now
  /\ UNCHANGED <<method, running, trigger, timer_waited, timer_drift, now, t0, line, kernel,
                 pending, clock, real>>

TimerMaskMutNone == {}
TimerMask        == {"timer"}

init_timer ==
  \/ Mask(TimerMask, "block", "create")
  \/ CreateTimer
  \/ StartTimer
  \/ clock_gettime(TRUE, "mark", "marked")
  \/ MarkStart
  \/ Mask({}, "unblock", "loop")

----------------------------------------------------------------------------
(* loop_usleep and loop_nanosleep.                                         *)

Jump(from, to) ==
  /\ Goto(from, to)
  /\ UNCHANGED <<method, running, trigger, measured, now, t0, line, kernel, pending, clock, real>>

Begin ==
  /\ Goto("begun", "sleep")
  /\ t0' = now
  /\ UNCHANGED <<method, running, trigger, measured, now, line, kernel, pending, clock, real>>

SleepLength == IF method = "usleep" THEN CutToUs ELSE Interval

\* A sleep lasts as long as asked or longer; what exceeds a second is left
\* to Delay.
SleepTimeout ==
  /\ Goto("asleep", "end")
  /\ \E d \in SleepLength..Second : Elapse(d)
  /\ UNCHANGED <<method, running, trigger, measured, now, t0, line, handled, blocked, real>>

PrintSlept ==
  /\ Goto("print", "while")
  /\ line' = [waited |-> Waited(t0, now), drift |-> Interval - Waited(t0, now), real |-> real]
  /\ UNCHANGED <<method, running, trigger, measured, now, t0, kernel, pending, clock, real>>

loop_sleep ==
  \/ Jump("while", IF running THEN "begin" ELSE "loop")
  \/ clock_gettime(TRUE, "begin", "begun")
  \/ Begin
  \/ Jump("sleep", "asleep")
  \/ SleepTimeout
  \/ clock_gettime(FALSE, "end", "print")
  \/ PrintSlept

----------------------------------------------------------------------------
(* The loop of main, with the handler's results.                           *)

Clear(from, to) ==
  /\ Goto(from, to)
  /\ trigger' = FALSE
  /\ UNCHANGED <<method, running, measured, now, t0, line, kernel, pending, clock, real>>

ReadWaited(from, to) ==
  /\ Goto(from, to)
  /\ line' = [line EXCEPT !.waited = timer_waited, !.real = real]
  /\ UNCHANGED <<method, running, trigger, measured, now, t0, kernel, pending, clock, real>>

ReadDrift(from, to) ==
  /\ Goto(from, to)
  /\ line' = [line EXCEPT !.drift = timer_drift]
  /\ UNCHANGED <<method, running, trigger, measured, now, t0, kernel, pending, clock, real>>

\* The order in which printf's arguments are evaluated is unspecified.
ReportMutClearLast ==
  \/ Jump("clear", "args")
  \/ ReadWaited("args", "drift") \/ ReadDrift("drift", "last")
  \/ ReadDrift("args", "waited") \/ ReadWaited("waited", "last")
  \/ Clear("last", "nap")
Report ==
  \/ Clear("clear", "args")
  \/ ReadWaited("args", "drift") \/ ReadDrift("drift", "nap")
  \/ ReadDrift("args", "waited") \/ ReadWaited("waited", "nap")

StayInLoopMutForever == TRUE
StayInLoop           == running

main_loop ==
  \/ Jump("loop", IF StayInLoop THEN "test" ELSE "done")
  \/ Jump("test", IF trigger THEN "clear" ELSE "nap")
  \/ Report
  \/ Jump("nap", "loop")

----------------------------------------------------------------------------
(* Signals.                                                                *)

\* A user presses Ctrl-C.
Interrupt ==
  /\ Running
  /\ pending' = pending \union {"int"}
  /\ UNCHANGED <<method, pc, running, trigger, measured, now, t0, line, kernel, clock, real>>

Deliver(s) == Running /\ s \in pending \ blocked /\ pending' = pending \ {s}

\* A handler that ran ends usleep and clock_nanosleep.
Woken == pc' = IF pc = "asleep" THEN "end" ELSE pc

handler_timer ==
  /\ Deliver("timer") /\ "timer" \in handled
  /\ now' = nsec
  /\ timer_waited' = Waited(timer_last, nsec)
  /\ timer_last' = nsec
  /\ timer_drift' = Interval - timer_waited'
  /\ trigger' = TRUE
  /\ since' = 0 /\ real' = since
  /\ Woken
  /\ UNCHANGED <<method, running, t0, line, kernel, nsec>>

handler_int ==
  /\ Deliver("int") /\ "int" \in handled
  /\ running' = FALSE
  /\ Woken
  /\ UNCHANGED <<method, trigger, measured, now, t0, line, kernel, clock, real>>

\* A signal without a handler ends the process.
DefaultAction ==
  /\ \E s \in {"timer", "int"} : Deliver(s) /\ s \notin handled
  /\ pc' = "done"
  /\ UNCHANGED <<method, running, trigger, measured, now, t0, line, kernel, clock, real>>

----------------------------------------------------------------------------

Main == init_sig_handlers \/ init_timer \/ loop_sleep \/ main_loop
Delivery == handler_timer \/ handler_int \/ DefaultAction
Next == Main \/ Delivery \/ Delay \/ Interrupt

SafeSpec == Init /\ [][Next]_vars
Fairness == WF_vars(Main) /\ WF_vars(handler_int \/ DefaultAction) /\ WF_vars(handler_timer)
Spec == SafeSpec /\ Fairness

----------------------------------------------------------------------------
(* Properties.                                                             *)

\* waited is what is left of time less whole seconds.
Rest(waited, time) == \E k \in 0..time : time = waited + k * Second

\* What is printed as waited is the time that passed (handler_timer, lines
\* 79-83, and the loops, lines 198-204), less whole seconds: tv_sec is never
\* read, so of a wait of a second or more only the rest shows.  No signal
\* between two readings, and no beat before timer_last is set, spoils it.
MeasuredModuloASecond == Rest(line.waited, line.real)

\* A line put together of two beats (lines 255 and 80-84: the handler runs
\* between the reads of timer_waited and timer_drift) is not the last word:
\* the flag is set again, and unless SIGINT comes another line follows.
TornLineIsFollowed ==
  (pc = "nap" /\ line.waited + line.drift # Interval) => trigger

\* The printf of line 255 has read one of its two values.
OnTheLine == pc \in {"waited", "drift"}

\* A beat is reported, or the program ends: whenever the flag is set, also while
\* a line is put together, a line is still to come that shows this beat or a
\* later one (lines 79-86, 248-258).
BeatIsReported == (trigger /\ Running) ~> (OnTheLine \/ ~Running)

\* SIGINT ends the program, whatever it is waiting for (lines 89-92): the
\* wait is cut short or runs out, and both loops look at running.
IntEnds == (~running) ~> ~Running
============================================================================
