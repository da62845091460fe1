----------------------------- MODULE DriftProof ----------------------------
(***************************************************************************)
(* Theorems about Drift, for every length of a second and of a beat, every *)
(* way to wait and every delay.                                            *)
(***************************************************************************)
EXTENDS Drift, TLAPS

USE DriftAssumption

Setup    == {"block", "create", "settime", "mark", "marked", "unblock"}
Sleeping == {"while", "begin", "begun", "sleep", "asleep", "end", "print"}
Printing == {"clear", "args", "waited", "drift"}
Looping  == {"loop", "test", "nap"} \union Printing

\* The timer runs, and raises its signal, only after init_timer started it,
\* and until init_timer is done the signal is blocked.
SignalInv ==
  /\ pc \in Sleeping => method # "timer"
  /\ (pc \in Setup \union Printing \/ trigger) => method = "timer"
  /\ ("timer" \in pending \/ to_go > 0) =>
       method = "timer" /\ pc \in {"mark", "marked", "unblock", "done"} \union Looping
  /\ pc \in Setup \ {"block"} => "timer" \in blocked

\* The reading that the next measurement starts from is since units old.
ReadingInv ==
  /\ method = "timer" /\ pc \in {"unblock"} \union Looping => Rest(Waited(timer_last,
        nsec), since)
  /\ pc \in {"marked", "begun"} => Rest(Waited(now, nsec), since)
  /\ pc \in {"sleep", "asleep", "end"} => Rest(Waited(t0, nsec), since)
  /\ pc = "print" => Rest(Waited(t0, now), real)
  /\ method = "timer" => Rest(timer_waited, real)
  /\ MeasuredModuloASecond

\* The handler's two results belong together, and half a line that has been
\* overtaken leaves the flag set.
TornInv ==
  /\ (trigger \/ pc \in Printing) => timer_waited + timer_drift = Interval
  /\ pc = "drift" => (line.waited = timer_waited \/ trigger)
  /\ pc = "waited" => (line.drift = timer_drift \/ trigger)
  /\ pc \notin Printing \union {"done"} =>
       (line.waited + line.drift = Interval \/ trigger)

----------------------------------------------------------------------------
(* Readings of the clock.                                                  *)

LEMMA WaitedType ==
  ASSUME NEW a \in Clocks, NEW b \in Clocks PROVE Waited(a, b) \in Clocks
  BY DEF Waited, Clocks

LEMMA ClocksAreInts == \A n \in Clocks : n \in Int
  BY DEF Clocks

LEMMA FreshReading == ASSUME NEW a \in Clocks PROVE Rest(Waited(a, a), 0)
  <1>1. Waited(a, a) = 0
    BY DEF Waited, Clocks
  <1>2. 0 = 0 + 0 * Second
    BY SMT
  <1>3. QED
    BY <1>1, <1>2 DEF Rest

\* The reading of the clock d units later.
Later(n, d) == IF n + d >= Second THEN n + d - Second ELSE n + d

LEMMA ReadingAges ==
  ASSUME NEW a \in Clocks, NEW n \in Clocks, NEW s \in Nat, NEW d \in 1..Second,
         Rest(Waited(a, n), s)
  PROVE  Later(n, d) \in Clocks /\ Rest(Waited(a, Later(n, d)), s + d)
  <1>1. Later(n, d) \in Clocks
    BY DEF Later, Clocks
  <1>2. PICK k \in 0..s : s = Waited(a, n) + k * Second
    BY DEF Rest
  <1>3. Waited(a, n) \in Int /\ k * Second \in Int
    BY WaitedType DEF Clocks
  <1>4. CASE Waited(a, Later(n, d)) = Waited(a, n) + d
    <2>1. s + d = Waited(a, Later(n, d)) + k * Second
      BY <1>2, <1>3, <1>4
    <2>2. k \in 0..(s + d)
      OBVIOUS
    <2>3. QED
      BY <1>1, <2>1, <2>2 DEF Rest
  <1>5. CASE Waited(a, Later(n, d)) = Waited(a, n) + d - Second
    <2>1. (k + 1) * Second = k * Second + Second
      BY SMT
    <2>2. s + d = Waited(a, Later(n, d)) + (k + 1) * Second
      BY <1>2, <1>3, <1>5, <2>1
    <2>3. k + 1 \in 0..(s + d)
      OBVIOUS
    <2>4. QED
      BY <1>1, <2>2, <2>3 DEF Rest
  <1>6. \/ Waited(a, Later(n, d)) = Waited(a, n) + d
        \/ Waited(a, Later(n, d)) = Waited(a, n) + d - Second
    BY DEF Waited, Later, Clocks
  <1>7. QED
    BY <1>4, <1>5, <1>6


LEMMA LaterType ==
  ASSUME NEW n \in Clocks, NEW d \in 0..Second PROVE Later(n, d) \in Clocks
  BY DEF Later, Clocks

----------------------------------------------------------------------------
(* Each part of the invariant is kept by every action.                     *)

LEMMA TypeStep ==
  ASSUME TypeOK, Next PROVE TypeOK'
  <1>1. CASE init_sig_handlers
    BY <1>1 DEF init_sig_handlers, Install, Call, TypeOK, measured, kernel, clock
  <1>2. CASE Mask(TimerMask, "block", "create") \/ Mask({}, "unblock", "loop")
    BY <1>2 DEF Mask, Call, TimerMask, TypeOK, measured, kernel, clock
  <1>3. CASE CreateTimer
    BY <1>3 DEF CreateTimer, Call, TypeOK, measured, kernel, clock
  <1>4. CASE StartTimer
    BY <1>4 DEF StartTimer, Call, TypeOK, measured, kernel, clock
  <1>5. CASE \/ clock_gettime(TRUE, "mark", "marked")
            \/ clock_gettime(TRUE, "begin", "begun")
            \/ clock_gettime(FALSE, "end", "print")
    <2>1. now' \in Clocks /\ since' \in Nat /\ real' \in Nat
      BY <1>5 DEF clock_gettime, TypeOK
    <2>2. pc' \in {"marked", "begun", "print"}
      BY <1>5 DEF clock_gettime, Goto
    <2>3. UNCHANGED <<method, running, trigger, measured, t0, line, kernel, pending, nsec>>
      BY <1>5 DEF clock_gettime
    <2>4. QED
      BY <2>1, <2>2, <2>3 DEF TypeOK, measured, kernel
  <1>6. CASE MarkStart
    BY <1>6 DEF MarkStart, Goto, TypeOK, measured, kernel, clock
  <1>7. CASE \/ Jump("while", IF running THEN "begin" ELSE "loop")
            \/ Jump("sleep", "asleep")
            \/ Jump("loop", IF StayInLoop THEN "test" ELSE "done")
            \/ Jump("test", IF trigger THEN "clear" ELSE "nap")
            \/ Jump("nap", "loop")
    BY <1>7 DEF Jump, Goto, TypeOK, measured, kernel, clock
  <1>8. CASE Begin
    BY <1>8 DEF Begin, Goto, TypeOK, measured, kernel, clock
  <1>9. CASE SleepTimeout
    <2>1. PICK d \in 1..Second : Elapse(d)
      BY <1>9 DEF SleepTimeout, SleepLength
    <2>2. nsec' \in Clocks /\ since' \in Nat
      BY <2>1, LaterType DEF Elapse, Later, TypeOK
    <2>3. to_go' \in 0..Interval /\ pending' \subseteq {"timer", "int"}
      BY <2>1 DEF Elapse, TypeOK
    <2>4. QED
      BY <1>9, <2>2, <2>3 DEF SleepTimeout, Goto, TypeOK, measured
  <1>10. CASE PrintSlept
    <2>1. Waited(t0, now) \in Clocks /\ Waited(t0, now) \in Int
      BY WaitedType, ClocksAreInts DEF TypeOK
    <2>2. line' \in [waited : Clocks, drift : Int, real : Nat]
      BY <1>10, <2>1 DEF PrintSlept, TypeOK
    <2>3. QED
      BY <1>10, <2>2 DEF PrintSlept, Goto, TypeOK, measured, kernel, clock
  <1>11. CASE Clear("clear", "args")
    BY <1>11 DEF Clear, Goto, TypeOK, measured, kernel, clock
  <1>12. CASE ReadWaited("args", "drift") \/ ReadWaited("waited", "nap")
    BY <1>12 DEF ReadWaited, Goto, TypeOK, measured, kernel, clock
  <1>13. CASE ReadDrift("drift", "nap") \/ ReadDrift("args", "waited")
    BY <1>13 DEF ReadDrift, Goto, TypeOK, measured, kernel, clock
  <1>14. CASE handler_timer
    <2>1. Waited(timer_last, nsec) \in Clocks /\ Waited(timer_last, nsec) \in Int
      BY WaitedType, ClocksAreInts DEF TypeOK
    <2>2. timer_waited' \in Clocks /\ timer_drift' \in Int
      BY <1>14, <2>1 DEF handler_timer
    <2>3. QED
      BY <1>14, <2>2 DEF handler_timer, Deliver, Running, Woken, TypeOK, kernel
  <1>15. CASE handler_int
    BY <1>15 DEF handler_int, Deliver, Running, Woken, TypeOK, measured, kernel, clock
  <1>16. CASE DefaultAction
    BY <1>16 DEF DefaultAction, Deliver, Running, TypeOK, measured, kernel, clock
  <1>17. CASE Delay
    <2>1. PICK d \in 1..Second : Elapse(d)
      BY <1>17 DEF Delay
    <2>2. nsec' \in Clocks /\ since' \in Nat
      BY <2>1, LaterType DEF Elapse, Later, TypeOK
    <2>3. to_go' \in 0..Interval /\ pending' \subseteq {"timer", "int"}
      BY <2>1 DEF Elapse, TypeOK
    <2>4. QED
      BY <1>17, <2>2, <2>3 DEF Delay, TypeOK, measured
  <1>18. CASE Interrupt
    BY <1>18 DEF Interrupt, Running, TypeOK, measured, kernel, clock
  <1>19. QED
    BY <1>1, <1>2, <1>3, <1>4, <1>5, <1>6, <1>7, <1>8, <1>9, <1>10, <1>11, <1>12, <1>13,
        <1>14, <1>15, <1>16, <1>17, <1>18
    DEF Next, Main, Delivery, init_timer, loop_sleep, main_loop, Report

LEMMA SignalStep ==
  ASSUME TypeOK, SignalInv, Next PROVE SignalInv'
  <1>1. CASE init_sig_handlers
    BY <1>1
    DEF init_sig_handlers, Install, Call, TypeOK, SignalInv, Setup, Sleeping, Printing,
        Looping, measured, kernel, clock
  <1>2. CASE Mask(TimerMask, "block", "create") \/ Mask({}, "unblock", "loop")
    BY <1>2
    DEF Mask, Call, TimerMask, TypeOK, SignalInv, Setup, Sleeping, Printing, Looping,
        measured, kernel, clock
  <1>3. CASE CreateTimer
    BY <1>3
    DEF CreateTimer, Call, TypeOK, SignalInv, Setup, Sleeping, Printing, Looping,
        measured, kernel, clock
  <1>4. CASE StartTimer
    BY <1>4
    DEF StartTimer, Call, TypeOK, SignalInv, Setup, Sleeping, Printing, Looping,
        measured, kernel, clock
  <1>5. CASE \/ clock_gettime(TRUE, "mark", "marked")
            \/ clock_gettime(TRUE, "begin", "begun")
            \/ clock_gettime(FALSE, "end", "print")
    BY <1>5
    DEF clock_gettime, Goto, TypeOK, SignalInv, Setup, Sleeping, Printing, Looping,
        measured, kernel, clock
  <1>6. CASE MarkStart
    BY <1>6
    DEF MarkStart, Goto, TypeOK, SignalInv, Setup, Sleeping, Printing, Looping, measured,
        kernel, clock
  <1>7. CASE \/ Jump("while", IF running THEN "begin" ELSE "loop")
            \/ Jump("sleep", "asleep")
            \/ Jump("loop", IF StayInLoop THEN "test" ELSE "done")
            \/ Jump("test", IF trigger THEN "clear" ELSE "nap")
            \/ Jump("nap", "loop")
    BY <1>7
    DEF Jump, Goto, TypeOK, SignalInv, Setup, Sleeping, Printing, Looping, measured,
        kernel, clock
  <1>8. CASE Begin
    BY <1>8
    DEF Begin, Goto, TypeOK, SignalInv, Setup, Sleeping, Printing, Looping, measured,
        kernel, clock
  <1>9. CASE SleepTimeout
    <2>1. PICK d \in 1..Second : Elapse(d)
      BY <1>9 DEF SleepTimeout, SleepLength
    <2>2. ("timer" \in pending' \/ to_go' > 0) => ("timer" \in pending \/ to_go > 0)
      BY <2>1 DEF Elapse, TypeOK
    <2>3. QED
      BY <1>9, <2>2 DEF SleepTimeout, Goto, SignalInv, Setup, Sleeping, Printing, Looping
  <1>10. CASE PrintSlept
    BY <1>10
    DEF PrintSlept, Goto, TypeOK, SignalInv, Setup, Sleeping, Printing, Looping,
        measured, kernel, clock
  <1>11. CASE Clear("clear", "args")
    BY <1>11
    DEF Clear, Goto, TypeOK, SignalInv, Setup, Sleeping, Printing, Looping, measured,
        kernel, clock
  <1>12. CASE ReadWaited("args", "drift") \/ ReadWaited("waited", "nap")
    BY <1>12
    DEF ReadWaited, Goto, TypeOK, SignalInv, Setup, Sleeping, Printing, Looping,
        measured, kernel, clock
  <1>13. CASE ReadDrift("drift", "nap") \/ ReadDrift("args", "waited")
    BY <1>13
    DEF ReadDrift, Goto, TypeOK, SignalInv, Setup, Sleeping, Printing, Looping, measured,
        kernel, clock
  <1>14. CASE handler_timer
    BY <1>14
    DEF handler_timer, Deliver, Running, Woken, TypeOK, SignalInv, Setup, Sleeping,
        Printing, Looping, measured, kernel, clock
  <1>15. CASE handler_int
    BY <1>15
    DEF handler_int, Deliver, Running, Woken, TypeOK, SignalInv, Setup, Sleeping,
        Printing, Looping, measured, kernel, clock
  <1>16. CASE DefaultAction
    BY <1>16
    DEF DefaultAction, Deliver, Running, TypeOK, SignalInv, Setup, Sleeping, Printing,
        Looping, measured, kernel, clock
  <1>17. CASE Delay
    <2>1. PICK d \in 1..Second : Elapse(d)
      BY <1>17 DEF Delay
    <2>2. ("timer" \in pending' \/ to_go' > 0) => ("timer" \in pending \/ to_go > 0)
      BY <2>1 DEF Elapse, TypeOK
    <2>3. QED
      BY <1>17, <2>2 DEF Delay, SignalInv
  <1>18. CASE Interrupt
    BY <1>18
    DEF Interrupt, Running, TypeOK, SignalInv, Setup, Sleeping, Printing, Looping,
        measured, kernel, clock
  <1>19. QED
    BY <1>1, <1>2, <1>3, <1>4, <1>5, <1>6, <1>7, <1>8, <1>9, <1>10, <1>11, <1>12, <1>13,
        <1>14, <1>15, <1>16, <1>17, <1>18
    DEF Next, Main, Delivery, init_timer, loop_sleep, main_loop, Report

LEMMA ReadingStep ==
  ASSUME TypeOK, SignalInv, ReadingInv, Next PROVE ReadingInv'
  <1>1. CASE init_sig_handlers
    BY <1>1
    DEF init_sig_handlers, Install, Call, ReadingInv, MeasuredModuloASecond, SignalInv,
        Setup, Sleeping, Printing, Looping, measured, kernel, clock
  <1>2. CASE Mask(TimerMask, "block", "create") \/ Mask({}, "unblock", "loop")
    BY <1>2
    DEF Mask, Call, TimerMask, ReadingInv, MeasuredModuloASecond, SignalInv, Setup,
        Sleeping, Printing, Looping, measured, kernel, clock
  <1>3. CASE CreateTimer
    BY <1>3
    DEF CreateTimer, Call, ReadingInv, MeasuredModuloASecond, SignalInv, Setup, Sleeping,
        Printing, Looping, measured, kernel, clock
  <1>4. CASE StartTimer
    BY <1>4
    DEF StartTimer, Call, ReadingInv, MeasuredModuloASecond, SignalInv, Setup, Sleeping,
        Printing, Looping, measured, kernel, clock
  <1>5. CASE \/ clock_gettime(TRUE, "mark", "marked")
            \/ clock_gettime(TRUE, "begin", "begun")
            \/ clock_gettime(FALSE, "end", "print")
    <2>1. nsec \in Clocks
      BY DEF TypeOK
    <2>2. Rest(Waited(nsec, nsec), 0)
      BY <2>1, FreshReading
    <2>3. UNCHANGED <<method, measured, t0, line, nsec>> /\ now' = nsec
      BY <1>5 DEF clock_gettime
    <2>4. CASE clock_gettime(TRUE, "mark", "marked") \/ clock_gettime(TRUE, "begin",
        "begun")
      <3>1. since' = 0 /\ real' = real /\ pc' \in {"marked", "begun"}
        BY <2>4 DEF clock_gettime, Goto
      <3>2. QED
        BY <2>2, <2>3, <3>1
    DEF ReadingInv, MeasuredModuloASecond, measured, Looping, Printing
    <2>5. CASE clock_gettime(FALSE, "end", "print")
      <3>1. real' = since /\ pc = "end" /\ pc' = "print"
        BY <2>5 DEF clock_gettime, Goto
      <3>2. method # "timer"
        BY <3>1 DEF SignalInv, Sleeping
      <3>3. QED
        BY <2>3, <3>1, <3>2
    DEF ReadingInv, MeasuredModuloASecond, measured, Looping, Printing
    <2>6. QED
      BY <1>5, <2>4, <2>5
  <1>6. CASE MarkStart
    BY <1>6
    DEF MarkStart, Goto, ReadingInv, MeasuredModuloASecond, SignalInv, Setup, Sleeping,
        Printing, Looping, measured, kernel, clock
  <1>7. CASE \/ Jump("while", IF running THEN "begin" ELSE "loop")
            \/ Jump("sleep", "asleep")
            \/ Jump("loop", IF StayInLoop THEN "test" ELSE "done")
            \/ Jump("test", IF trigger THEN "clear" ELSE "nap")
            \/ Jump("nap", "loop")
    BY <1>7
    DEF Jump, Goto, ReadingInv, MeasuredModuloASecond, SignalInv, Setup, Sleeping,
        Printing, Looping, measured, kernel, clock
  <1>8. CASE Begin
    BY <1>8
    DEF Begin, Goto, ReadingInv, MeasuredModuloASecond, SignalInv, Setup, Sleeping,
        Printing, Looping, measured, kernel, clock
  <1>9. CASE SleepTimeout
    <2>1. PICK d \in 1..Second : Elapse(d)
      BY <1>9 DEF SleepTimeout, SleepLength
    <2>2. d \in 1..Second /\ t0 \in Clocks /\ nsec \in Clocks /\ since \in Nat
      BY DEF TypeOK
    <2>3. nsec' = Later(nsec, d) /\ since' = since + d
      BY <2>1 DEF Elapse, Later
    <2>4. Rest(Waited(t0, nsec), since)
      BY <1>9 DEF SleepTimeout, Goto, ReadingInv
    <2>5. Rest(Waited(t0, nsec'), since')
      BY <2>2, <2>3, <2>4, ReadingAges
    <2>6. QED
      BY <1>9, <2>5
      DEF SleepTimeout, Goto, ReadingInv, MeasuredModuloASecond, measured, Looping, Printing
  <1>10. CASE PrintSlept
    BY <1>10
    DEF PrintSlept, Goto, ReadingInv, MeasuredModuloASecond, SignalInv, Setup, Sleeping,
        Printing, Looping, measured, kernel, clock
  <1>11. CASE Clear("clear", "args")
    BY <1>11
    DEF Clear, Goto, ReadingInv, MeasuredModuloASecond, SignalInv, Setup, Sleeping,
        Printing, Looping, measured, kernel, clock
  <1>12. CASE ReadWaited("args", "drift") \/ ReadWaited("waited", "nap")
    <2>1. line \in [waited : Clocks, drift : Int, real : Nat]
      BY DEF TypeOK
    <2>2. line'.waited = timer_waited /\ line'.real = real
      BY <1>12, <2>1 DEF ReadWaited
    <2>3. method = "timer" /\ pc \in Printing /\ pc' \in Looping
      BY <1>12 DEF ReadWaited, Goto, SignalInv, Printing, Looping
    <2>4. UNCHANGED <<method, measured, t0, now, nsec, since, real>>
      BY <1>12 DEF ReadWaited, clock
    <2>5. QED
      BY <2>2, <2>3, <2>4
      DEF ReadingInv, MeasuredModuloASecond, Looping, Printing, measured
  <1>13. CASE ReadDrift("drift", "nap") \/ ReadDrift("args", "waited")
    <2>1. line \in [waited : Clocks, drift : Int, real : Nat]
      BY DEF TypeOK
    <2>2. line'.waited = line.waited /\ line'.real = line.real
      BY <1>13, <2>1 DEF ReadDrift
    <2>3. pc \in Printing /\ pc' \in Looping
      BY <1>13 DEF ReadDrift, Goto, Printing, Looping
    <2>4. UNCHANGED <<method, measured, t0, now, nsec, since, real>>
      BY <1>13 DEF ReadDrift, clock
    <2>5. QED
      BY <2>2, <2>3, <2>4
      DEF ReadingInv, MeasuredModuloASecond, Looping, Printing, measured
  <1>14. CASE handler_timer
    <2>1. method = "timer" /\ pc \in Looping
      BY <1>14 DEF handler_timer, Deliver, Running, SignalInv, Setup
    <2>2. pc' \in Looping
      BY <1>14, <2>1 DEF handler_timer, Woken, Looping, Printing
    <2>3. nsec \in Clocks
      BY DEF TypeOK
    <2>4. Rest(Waited(nsec, nsec), 0)
      BY <2>3, FreshReading
    <2>5. timer_last' = nsec /\ nsec' = nsec /\ since' = 0 /\ line' = line
      BY <1>14 DEF handler_timer
    <2>6. timer_waited' = Waited(timer_last, nsec) /\ real' = since
      BY <1>14 DEF handler_timer
    <2>7. Rest(Waited(timer_last, nsec), since)
      BY <2>1 DEF ReadingInv
    <2>8. QED
      BY <2>2, <2>4, <2>5, <2>6, <2>7
      DEF ReadingInv, MeasuredModuloASecond, Looping, Printing
  <1>15. CASE handler_int
    BY <1>15
    DEF handler_int, Deliver, Running, Woken, ReadingInv, MeasuredModuloASecond,
        SignalInv, Setup, Sleeping, Printing, Looping, measured, kernel, clock
  <1>16. CASE DefaultAction
    BY <1>16
    DEF DefaultAction, Deliver, Running, ReadingInv, MeasuredModuloASecond, SignalInv,
        Setup, Sleeping, Printing, Looping, measured, kernel, clock
  <1>17. CASE Delay
    <2>1. PICK d \in 1..Second : Elapse(d)
      BY <1>17 DEF Delay
    <2>2. nsec' = Later(nsec, d) /\ since' = since + d
      BY <2>1 DEF Elapse, Later
    <2>3. nsec \in Clocks /\ since \in Nat
      BY DEF TypeOK
    <2>4. \A a \in Clocks : Rest(Waited(a, nsec), since) => Rest(Waited(a, nsec'), since')
      BY <2>2, <2>3, ReadingAges
    <2>5. t0 \in Clocks /\ now \in Clocks /\ timer_last \in Clocks
      BY DEF TypeOK
    <2>6. UNCHANGED <<method, pc, measured, t0, now, line, real>>
      BY <1>17 DEF Delay
    <2>7. QED
      BY <2>4, <2>5, <2>6 DEF ReadingInv, MeasuredModuloASecond, measured
  <1>18. CASE Interrupt
    BY <1>18
    DEF Interrupt, Running, ReadingInv, MeasuredModuloASecond, SignalInv, Setup,
        Sleeping, Printing, Looping, measured, kernel, clock
  <1>19. QED
    BY <1>1, <1>2, <1>3, <1>4, <1>5, <1>6, <1>7, <1>8, <1>9, <1>10, <1>11, <1>12, <1>13,
        <1>14, <1>15, <1>16, <1>17, <1>18
    DEF Next, Main, Delivery, init_timer, loop_sleep, main_loop, Report

LEMMA TornStep ==
  ASSUME TypeOK, TornInv, Next PROVE TornInv'
  <1>1. CASE init_sig_handlers
    BY <1>1
    DEF init_sig_handlers, Install, Call, TornInv, TypeOK, Printing, measured, kernel, clock
  <1>2. CASE Mask(TimerMask, "block", "create") \/ Mask({}, "unblock", "loop")
    BY <1>2 DEF Mask, Call, TimerMask, TornInv, TypeOK, Printing, measured, kernel, clock
  <1>3. CASE CreateTimer
    BY <1>3 DEF CreateTimer, Call, TornInv, TypeOK, Printing, measured, kernel, clock
  <1>4. CASE StartTimer
    BY <1>4 DEF StartTimer, Call, TornInv, TypeOK, Printing, measured, kernel, clock
  <1>5. CASE \/ clock_gettime(TRUE, "mark", "marked")
            \/ clock_gettime(TRUE, "begin", "begun")
            \/ clock_gettime(FALSE, "end", "print")
    BY <1>5 DEF clock_gettime, Goto, TornInv, TypeOK, Printing, measured, kernel, clock
  <1>6. CASE MarkStart
    BY <1>6 DEF MarkStart, Goto, TornInv, TypeOK, Printing, measured, kernel, clock
  <1>7. CASE \/ Jump("while", IF running THEN "begin" ELSE "loop")
            \/ Jump("sleep", "asleep")
            \/ Jump("loop", IF StayInLoop THEN "test" ELSE "done")
            \/ Jump("test", IF trigger THEN "clear" ELSE "nap")
            \/ Jump("nap", "loop")
    BY <1>7 DEF Jump, Goto, TornInv, TypeOK, Printing, measured, kernel, clock
  <1>8. CASE Begin
    BY <1>8 DEF Begin, Goto, TornInv, TypeOK, Printing, measured, kernel, clock
  <1>9. CASE SleepTimeout
    BY <1>9 DEF SleepTimeout, Goto, TornInv, TypeOK, Printing, measured, kernel, clock
  <1>10. CASE PrintSlept
    <2>1. Waited(t0, now) \in Int
      BY WaitedType, ClocksAreInts DEF TypeOK
    <2>2. line'.waited + line'.drift = Interval
      BY <1>10, <2>1 DEF PrintSlept
    <2>3. QED
      BY <1>10, <2>2 DEF PrintSlept, Goto, TornInv, Printing, measured
  <1>11. CASE Clear("clear", "args")
    BY <1>11 DEF Clear, Goto, TornInv, TypeOK, Printing, measured, kernel, clock
  <1>12. CASE ReadWaited("args", "drift") \/ ReadWaited("waited", "nap")
    BY <1>12 DEF ReadWaited, Goto, TornInv, TypeOK, Printing, measured, kernel, clock
  <1>13. CASE ReadDrift("drift", "nap") \/ ReadDrift("args", "waited")
    BY <1>13 DEF ReadDrift, Goto, TornInv, TypeOK, Printing, measured, kernel, clock
  <1>14. CASE handler_timer
    <2>1. Waited(timer_last, nsec) \in Int
      BY WaitedType, ClocksAreInts DEF TypeOK
    <2>2. timer_waited' + timer_drift' = Interval /\ trigger'
      BY <1>14, <2>1 DEF handler_timer
    <2>3. QED
      BY <2>2 DEF TornInv
  <1>15. CASE handler_int
    BY <1>15
    DEF handler_int, Deliver, Running, Woken, TornInv, TypeOK, Printing, measured,
        kernel, clock
  <1>16. CASE DefaultAction
    BY <1>16
    DEF DefaultAction, Deliver, Running, TornInv, TypeOK, Printing, measured, kernel, clock
  <1>17. CASE Delay
    BY <1>17 DEF Delay, Running, TornInv, TypeOK, Printing, measured, kernel, clock
  <1>18. CASE Interrupt
    BY <1>18 DEF Interrupt, Running, TornInv, TypeOK, Printing, measured, kernel, clock
  <1>19. QED
    BY <1>1, <1>2, <1>3, <1>4, <1>5, <1>6, <1>7, <1>8, <1>9, <1>10, <1>11, <1>12, <1>13,
        <1>14, <1>15, <1>16, <1>17, <1>18
    DEF Next, Main, Delivery, init_timer, loop_sleep, main_loop, Report

----------------------------------------------------------------------------
IInv == TypeOK /\ SignalInv /\ ReadingInv /\ TornInv

LEMMA InitIInv == Init => IInv
  <1> SUFFICES ASSUME Init PROVE IInv
    OBVIOUS
  <1>1. TypeOK
    <2>1. 0 \in Clocks /\ 0 \in 0..Interval /\ Interval \in Int
      BY DEF Clocks
    <2>2. line \in [waited : Clocks, drift : Int, real : Nat]
      BY <2>1 DEF Init
    <2>3. running \in BOOLEAN /\ trigger \in BOOLEAN
      BY DEF Init
    <2>4. /\ handled \subseteq {"timer", "int"} /\ blocked \subseteq {"timer"}
          /\ pending \subseteq {"timer", "int"}
      BY DEF Init
    <2>5. pc \in {"sigtimer"} /\ timer_drift \in Int /\ since \in Nat /\ real \in Nat
      BY DEF Init
    <2>6. /\ timer_last \in Clocks /\ timer_waited \in Clocks /\ now \in Clocks
          /\ t0 \in Clocks /\ nsec \in Clocks /\ to_go \in 0..Interval /\ method \in Methods
      BY <2>1 DEF Init
    <2>7. QED
      BY <2>2, <2>3, <2>4, <2>5, <2>6 DEF TypeOK
  <1>2. SignalInv
    BY DEF Init, SignalInv, Setup, Sleeping, Printing, Looping
  <1>3. Rest(0, 0)
    <2>1. 0 = 0 + 0 * Second
      BY SMT
    <2>2. QED
      BY <2>1 DEF Rest
  <1>4. ReadingInv
    BY <1>3 DEF Init, ReadingInv, MeasuredModuloASecond, Looping, Printing
  <1>5. TornInv
    BY DEF Init, TornInv, Printing
  <1>6. QED
    BY <1>1, <1>2, <1>4, <1>5 DEF IInv

LEMMA NextIInv == IInv /\ [Next]_vars => IInv'
  <1> SUFFICES ASSUME IInv, [Next]_vars PROVE IInv'
    OBVIOUS
  <1>1. CASE Next
    BY <1>1, TypeStep, SignalStep, ReadingStep, TornStep DEF IInv
  <1>2. CASE UNCHANGED vars
    BY <1>2 DEF IInv, TypeOK, SignalInv, ReadingInv, TornInv, MeasuredModuloASecond, vars,
                measured, kernel, clock
  <1>3. QED
    BY <1>1, <1>2

THEOREM Invariance == SafeSpec => []IInv
  BY InitIInv, NextIInv, PTL DEF SafeSpec

\* Every variable of drift.c keeps its type.
THEOREM TypeCorrect == SafeSpec => []TypeOK
  <1>1. IInv => TypeOK
    BY DEF IInv
  <1>2. QED
    BY <1>1, Invariance, PTL

\* Whatever is printed as waited, in any of the three loops and whenever
\* signals and delays come, is the true time less whole seconds.
THEOREM Measures == SafeSpec => []MeasuredModuloASecond
  <1>1. IInv => MeasuredModuloASecond
    BY DEF IInv, ReadingInv
  <1>2. QED
    BY <1>1, Invariance, PTL

\* A line made of two beats leaves the flag set for another one.
THEOREM TornLines == SafeSpec => []TornLineIsFollowed
  <1>1. IInv => TornLineIsFollowed
    BY DEF IInv, TornInv, TornLineIsFollowed, Printing
  <1>2. QED
    BY <1>1, Invariance, PTL

----------------------------------------------------------------------------
(* How near the end is once the SIGINT handler has run.                    *)

\* The most statements main can still execute if no loop goes round again.
Left == CASE pc = "sigtimer" -> 9 [] pc = "sigint"  -> 8
          [] pc = "block"    -> 7 [] pc = "create"  -> 6 [] pc = "settime" -> 5
          [] pc = "mark"     -> 4 [] pc = "marked"  -> 3 [] pc = "unblock" -> 2
          [] pc = "begin"    -> 8 [] pc = "begun"   -> 7 [] pc = "sleep"   -> 6
          [] pc = "asleep"   -> 5 [] pc = "end"     -> 4 [] pc = "print"   -> 3
          [] pc = "while"    -> 2 [] pc = "test"    -> 6 [] pc = "clear"   -> 5
          [] pc = "args"     -> 4 [] pc = "waited"  -> 3 [] pc = "drift"   -> 3
          [] pc = "nap"      -> 2 [] pc = "loop"    -> 1 [] pc = "done"    -> 0

\* running is cleared by a handler, and that is the last to be installed.
HandlerInv ==
  /\ ~running => "int" \in handled
  /\ "int" \in handled => pc \notin {"sigtimer", "sigint"}

LEMMA HandlerInvariant == SafeSpec => []HandlerInv
  <1>1. Init => HandlerInv
    BY DEF Init, HandlerInv
  <1>2. HandlerInv /\ [Next]_vars => HandlerInv'
    <2> SUFFICES ASSUME HandlerInv, [Next]_vars PROVE HandlerInv'
      OBVIOUS
    <2> USE DEF HandlerInv, kernel
    <2>1. CASE init_sig_handlers
      BY <2>1 DEF init_sig_handlers, Install, Call
    <2>2. CASE init_timer
      BY <2>2 DEF init_timer, Mask, CreateTimer, StartTimer, clock_gettime, MarkStart, Call, Goto
    <2>3. CASE loop_sleep
      BY <2>3 DEF loop_sleep, Jump, clock_gettime, Begin, SleepTimeout, PrintSlept, Goto
    <2>4. CASE main_loop
      BY <2>4 DEF main_loop, Report, Clear, ReadWaited, ReadDrift, Jump, Goto
    <2>5. CASE Delivery
      BY <2>5 DEF Delivery, handler_timer, handler_int, DefaultAction, Woken
    <2>6. CASE Delay \/ Interrupt \/ UNCHANGED vars
      BY <2>6 DEF Delay, Interrupt, vars
    <2>7. QED
      BY <2>1, <2>2, <2>3, <2>4, <2>5, <2>6 DEF Next, Main
  <1>3. QED
    BY <1>1, <1>2, PTL DEF SafeSpec

LEMMA MainGetsNearer ==
  ASSUME ~running, Main
  PROVE  Left' < Left
  <1> USE DEF Left, Call, Goto
  <1>1. CASE init_sig_handlers
    BY <1>1 DEF init_sig_handlers, Install
  <1>2. CASE init_timer
    BY <1>2 DEF init_timer, Mask, CreateTimer, StartTimer, clock_gettime, MarkStart
  <1>3. CASE loop_sleep
    BY <1>3 DEF loop_sleep, Jump, clock_gettime, Begin, SleepTimeout, PrintSlept
  <1>4. CASE main_loop
    BY <1>4 DEF main_loop, Report, Clear, ReadWaited, ReadDrift, Jump, StayInLoop
  <1>5. QED
    BY <1>1, <1>2, <1>3, <1>4 DEF Main

LEMMA OthersDoNotDelay ==
  ASSUME TypeOK, [Next]_vars, ~Main
  PROVE  Left' <= Left
  <1>1. pc' = pc \/ pc' = "done" \/ (pc = "asleep" /\ pc' = "end")
    BY DEF Next, Delivery, handler_timer, handler_int, DefaultAction, Woken, Delay,
           Interrupt, vars
  <1>2. Left \in 0..9
    BY DEF TypeOK, Left
  <1>3. CASE pc' = pc
    <2>1. Left' = Left
      BY <1>3 DEF Left
    <2>2. QED
      BY <1>2, <2>1
  <1>4. CASE pc' = "done"
    <2>1. Left' = 0
      BY <1>4 DEF Left
    <2>2. QED
      BY <1>2, <2>1
  <1>5. CASE pc = "asleep" /\ pc' = "end"
    BY <1>5 DEF Left
  <1>6. QED
    BY <1>1, <1>3, <1>4, <1>5

\* Once handler_int has run, main executes at most eight more statements, one of
\* them at most a wait: each takes it nearer to its end, and neither the timer nor
\* a delay takes it back (lines 89-92, 196-206, 248-258).  With the weak fairness
\* of Main this is why IntEnds holds.
THEOREM StopIsNear ==
  SafeSpec => /\ [](~running => Left \in 0..8)
              /\ [][~running => Left' <= Left /\ (Main => Left' < Left)]_vars
  <1>1. TypeOK /\ HandlerInv => (~running => Left \in 0..8)
    BY DEF TypeOK, HandlerInv, Left
  <1>2. IInv /\ [Next]_vars => [~running => Left' <= Left /\ (Main => Left' < Left)]_vars
    <2> SUFFICES ASSUME IInv, [Next]_vars, ~running
                 PROVE  Left' <= Left /\ (Main => Left' < Left)
      OBVIOUS
    <2>1. CASE Main
      <3>1. Left' < Left
        BY <2>1, MainGetsNearer
      <3>2. TypeOK /\ TypeOK'
        BY NextIInv DEF IInv
      <3>3. Left \in 0..9 /\ Left' \in 0..9
        BY <3>2 DEF TypeOK, Left
      <3>4. QED
        BY <3>1, <3>3
    <2>2. CASE ~Main
      BY <2>2, OthersDoNotDelay DEF IInv
    <2>3. QED
      BY <2>1, <2>2
  <1>3. QED
    BY <1>1, <1>2, Invariance, TypeCorrect, HandlerInvariant, PTL DEF SafeSpec
============================================================================
