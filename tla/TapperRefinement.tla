-------------------------- MODULE TapperRefinement -------------------------
(***************************************************************************)
(* The tapper keeps the safety part of the contract TapProcess, for every  *)
(* value of the constants: each step of Tapper is a step of the contract   *)
(* or leaves its four variables alone.  And once asked to stop, main has   *)
(* only a few statements left.                                             *)
(***************************************************************************)
EXTENDS TapperProof

\* running is cleared by a handler, so a handler was installed.
HandlerInv == ~running => "int" \in handlers

RInv == IInv /\ HandlerInv

LEMMA HandlerInvariant == SafeSpec => []HandlerInv
  <1>1. Init => HandlerInv
    BY DEF Init, HandlerInv
  <1>2. HandlerInv /\ [Next]_vars => HandlerInv'
    <2> SUFFICES ASSUME HandlerInv, [Next]_vars PROVE HandlerInv'
      OBVIOUS
    <2>1. "int" \in handlers => "int" \in handlers'
      BY DEF Next, Main, Delivery, Parse, CheckSerial, CheckMidi, init_serial,
             init_sig_handlers, Install, BlockTimerSignal, CreateTimer, ArmTimer,
             UnblockTimerSignal, Loop, EnterSleep, SleepTimeout, Check, Clear,
             sendCC, WriteMessage, Count, close_serial, TimerExpires, Kill,
             handler_timer, handler_int,
             DefaultAction, Terminated, vars, setup
    <2>2. running' = running \/ "int" \in handlers
      BY DEF Next, Main, Delivery, Parse, CheckSerial, CheckMidi, init_serial,
             init_sig_handlers, Install, BlockTimerSignal, CreateTimer, ArmTimer,
             UnblockTimerSignal, Loop, EnterSleep, SleepTimeout, Check, Clear,
             sendCC, WriteMessage, Count, close_serial, TimerExpires, Kill, handler_timer, handler_int, Handled,
             DefaultAction, Terminated, vars, flags
    <2>3. QED
      BY <2>1, <2>2 DEF HandlerInv
  <1>3. QED
    BY <1>1, <1>2, PTL DEF SafeSpec

LEMMA RefineInit == Init => Process!PInit
  BY DEF Init, Process!PInit, Phase

----------------------------------------------------------------------------
\* While main runs, leaving it is giving up, or stopping if SIGINT came.
LEMMA LeaveIsContract ==
  ASSUME RInv, exit = "alive", exit' # "alive",
         UNCHANGED <<pending, sent, late>>
  PROVE  Process!GiveUp \/ Process!Stop
  <1>1. Phase' = "dead"
    BY DEF Phase
  <1>2. Phase \in {"starting", "tapping", "stopping"}
    BY DEF Phase, RInv, IInv, TypeOK
  <1>3. QED
    BY <1>1, <1>2 DEF Process!GiveUp, Process!Stop, Process!Die

\* A step that leaves the phase's ingredients and the counters alone.
LEMMA SilentIsStutter ==
  ASSUME UNCHANGED <<exit, running, handlers, sent, late>>,
         pending' \ {"rtmin"} = pending \ {"rtmin"}
  PROVE  UNCHANGED Process!pvars
  BY DEF Process!pvars, Phase

LEMMA MainRefines == RInv /\ Main => [Process!PNext]_(Process!pvars)
  <1> SUFFICES ASSUME RInv, Main PROVE [Process!PNext]_(Process!pvars)
    OBVIOUS
  <1>1. exit = "alive"
    BY DEF Main, Parse, CheckSerial, CheckMidi, init_serial, init_sig_handlers, Install,
           BlockTimerSignal, CreateTimer, ArmTimer, UnblockTimerSignal, Loop, EnterSleep,
           SleepTimeout, Check, Clear, sendCC, WriteMessage, Count, close_serial, At
  <1>2. pending' = pending /\ running' = running
    BY DEF Main, Parse, CheckSerial, CheckMidi, init_serial, init_sig_handlers, Install,
           BlockTimerSignal, CreateTimer, ArmTimer, UnblockTimerSignal, Loop, EnterSleep,
           SleepTimeout, Check, Clear, sendCC, WriteMessage, Count, close_serial, flags
  <1>3. CASE sendCC
    <2>1. exit' = exit /\ handlers' = handlers /\ sent' = sent + 1
      BY <1>3 DEF sendCC, WriteMessage, Goto, setup
    <2>2. "int" \in handlers
      BY <1>3 DEF RInv, IInv, SetupInv, LoopPcs, sendCC, WriteMessage, At
    <2>3. Phase' = Phase /\ Phase = (IF running THEN "tapping" ELSE "stopping")
      BY <1>1, <1>2, <2>1, <2>2 DEF Phase, RInv, IInv, TypeOK
    <2>4. IF running THEN late' = late ELSE late = 0 /\ late' = 1
      <3>1. late = 0
        BY <1>3 DEF RInv, IInv, TypeOK, LateInv, sendCC, WriteMessage, At
      <3>2. QED
        BY <1>3, <3>1 DEF sendCC, WriteMessage, RInv, IInv, TypeOK
    <2>5. Process!Tap
      BY <1>2, <2>1, <2>3, <2>4 DEF Process!Tap
    <2>6. QED
      BY <2>5 DEF Process!PNext
  <1>4. CASE ~sendCC
    <2>1. UNCHANGED <<sent, late>>
      BY <1>4 DEF Main, Parse, CheckSerial, CheckMidi, init_serial, init_sig_handlers,
             Install, BlockTimerSignal, CreateTimer, ArmTimer, UnblockTimerSignal, Loop,
             EnterSleep, SleepTimeout, Check, Clear, Count, close_serial, history
    <2>2. CASE exit' # "alive"
      BY <1>1, <1>2, <2>1, <2>2, LeaveIsContract DEF Process!PNext
    <2>3. CASE exit' = "alive"
      <3>1. handlers' = handlers \/ \E s \in {"rtmin", "int"} : handlers' = handlers \union {s}
        BY DEF Main, Parse, CheckSerial, CheckMidi, init_serial, init_sig_handlers, Install,
               BlockTimerSignal, CreateTimer, ArmTimer, UnblockTimerSignal, Loop, EnterSleep,
               SleepTimeout, Check, Clear, sendCC, WriteMessage, Count, close_serial, setup
      <3>2. Phase' = Phase \/ (Phase = "starting" /\ Phase' = "tapping")
        BY <1>1, <1>2, <2>3, <3>1 DEF Phase, RInv, HandlerInv, IInv, TypeOK
      <3>3. QED
        BY <1>1, <1>2, <2>1, <2>3, <3>2 DEF Process!PNext, Process!Ready, Process!pvars
    <2>4. QED
      BY <2>2, <2>3
  <1>5. QED
    BY <1>3, <1>4

LEMMA DeliveryRefines == RInv /\ Delivery => [Process!PNext]_(Process!pvars)
  <1> SUFFICES ASSUME RInv, Delivery PROVE [Process!PNext]_(Process!pvars)
    OBVIOUS
  <1>1. CASE handler_timer
    <2>1. UNCHANGED <<exit, running, handlers, sent, late>> /\ pending' = pending \ {"rtmin"}
      BY <1>1 DEF handler_timer, Handled, Deliver, Goto, setup
    <2>2. QED
      BY <2>1, SilentIsStutter
  <1>2. CASE handler_int
    <2>1. /\ exit = "alive" /\ exit' = "alive" /\ running' = FALSE
          /\ "int" \in pending /\ pending' = pending \ {"int"}
          /\ UNCHANGED <<sent, late>> /\ "int" \in handlers
      BY <1>2 DEF handler_int, Handled, Deliver, Goto, history
    <2>2. Phase \in {"tapping", "stopping"} /\ Phase' = "stopping"
      BY <2>1 DEF Phase, RInv, IInv, TypeOK
    <2>3. QED
      BY <2>1, <2>2 DEF Process!PNext, Process!Interrupt
  <1>3. ASSUME NEW s \in Signals, DefaultAction(s) PROVE Process!PNext
    <2>1. /\ exit = "alive" /\ exit' # "alive" /\ Phase' = "dead" /\ s \notin handlers
          /\ s \in pending /\ pending' = pending \ {s} /\ UNCHANGED <<sent, late>>
      BY <1>3 DEF DefaultAction, Deliver, Exit, history, Phase
    <2>2. s # "rtmin"
      BY <2>1 DEF RInv, IInv, SetupInv
    <2>3. CASE s = "int"
      <3>1. Phase = "starting"
        BY <2>1, <2>3 DEF Phase, RInv, HandlerInv, IInv, TypeOK
      <3>2. QED
        BY <2>1, <2>3, <3>1 DEF Process!PNext, Process!Interrupt, Process!Die
    <2>4. CASE s = "term"
      <3>1. Phase # "dead"
        BY <2>1 DEF Phase
      <3>2. QED
        BY <2>1, <2>4, <3>1 DEF Process!PNext, Process!Terminate, Process!Die
    <2>5. QED
      BY <2>2, <2>3, <2>4 DEF Signals
  <1>4. QED
    BY <1>1, <1>2, <1>3 DEF Delivery

LEMMA RefineNext == RInv /\ [Next]_vars => [Process!PNext]_(Process!pvars)
  <1> SUFFICES ASSUME RInv, [Next]_vars PROVE [Process!PNext]_(Process!pvars)
    OBVIOUS
  <1>1. CASE TimerExpires
    <2>1. UNCHANGED <<exit, running, handlers, sent, late>>
          /\ pending' = pending \union {"rtmin"}
      BY <1>1 DEF TimerExpires, setup, history, flags
    <2>2. QED
      BY <2>1, SilentIsStutter
  <1>2. ASSUME NEW s \in {"int", "term"}, Kill(s) PROVE Process!Signal(s)
    <2>1. /\ exit = "alive" /\ s \notin pending /\ pending' = pending \union {s}
          /\ UNCHANGED <<exit, running, handlers, sent, late>>
      BY <1>2 DEF Kill, setup, history, flags
    <2>2. Phase' = Phase /\ Phase # "dead"
      BY <2>1 DEF Phase, RInv, IInv, TypeOK
    <2>3. QED
      BY <2>1, <2>2 DEF Process!Signal
  <1>3. CASE UNCHANGED vars
    BY <1>3, SilentIsStutter DEF vars, setup, history, flags
  <1>4. QED
    BY <1>1, <1>2, <1>3, MainRefines, DeliveryRefines DEF Next, Terminated, Process!PNext

\* The tapper implements the process contract the gateway relies on: it dies
\* of SIGINT only before its handler is installed, it sends nothing once
\* dead, at most one message once asked to stop, and leaves main only by the
\* ways the contract allows.
THEOREM KeepsContract == SafeSpec => Process!PSafeSpec
  <1>1. SafeSpec => []RInv
    BY Invariance, HandlerInvariant, PTL DEF RInv
  <1>2. QED
    BY <1>1, RefineInit, RefineNext, PTL DEF SafeSpec, Process!PSafeSpec

----------------------------------------------------------------------------
(* How near the end is once the SIGINT handler has run.                    *)

\* The most statements main can still execute if it never iterates again.
Left == CASE pc = "parse"    -> 12 [] pc = "stat"   -> 11 [] pc = "midi"   -> 10
          [] pc = "open"     -> 9  [] pc = "usleep" -> 8  [] pc = "sigtimer" -> 8
          [] pc = "asleep"   -> 7  [] pc = "sigint" -> 7
          [] pc = "check"    -> 6  [] pc = "block"  -> 6
          [] pc = "clear"    -> 5  [] pc = "create" -> 5
          [] pc = "send"     -> 4  [] pc = "arm"    -> 4
          [] pc = "count"    -> 3  [] pc = "unblock" -> 3
          [] pc = "loop"     -> 2  [] pc = "close"  -> 1 [] pc = "done" -> 0

EarlyPcs == BeforeTimerHandler \union {"sigint"}

\* The handler of SIGINT is the last to be installed.
IntLast == "int" \in handlers => pc \notin EarlyPcs

LEMMA IntLastInvariant == SafeSpec => []IntLast
  <1>1. Init => IntLast
    BY DEF Init, IntLast
  <1>2. IntLast /\ [Next]_vars => IntLast'
    <2> SUFFICES ASSUME IntLast, [Next]_vars PROVE IntLast'
      OBVIOUS
    <2> USE DEF IntLast, EarlyPcs, BeforeTimerHandler
    <2>1. CASE init_sig_handlers
      BY <2>1 DEF init_sig_handlers, Install, At, Goto, Exit
    <2>2. CASE Main /\ ~init_sig_handlers
      BY <2>2 DEF Main, Parse, CheckSerial, CheckMidi, init_serial, BlockTimerSignal,
             CreateTimer, ArmTimer, UnblockTimerSignal, Loop, EnterSleep, SleepTimeout,
             Check, Iterate, Clear, sendCC, WriteMessage, Count, close_serial, At, Goto, Exit, setup
    <2>3. CASE Delivery
      BY <2>3 DEF Delivery, handler_timer, handler_int, Handled, DefaultAction, Goto, Exit, setup
    <2>4. CASE TimerExpires \/ (\E s \in {"int", "term"} : Kill(s)) \/ Terminated \/ UNCHANGED vars
      BY <2>4 DEF TimerExpires, Kill, Terminated, vars, setup
    <2>5. QED
      BY <2>1, <2>2, <2>3, <2>4 DEF Next
  <1>3. QED
    BY <1>1, <1>2, PTL DEF SafeSpec

LEMMA MainGetsNearer ==
  ASSUME TypeOK, ~running, Main
  PROVE  Left' < Left
  <1> USE DEF At, Goto, Exit, Left
  <1>1. CASE Parse \/ CheckSerial \/ CheckMidi \/ init_serial
    BY <1>1 DEF Parse, CheckSerial, CheckMidi, init_serial, TypeOK, ArgsType
  <1>2. CASE init_sig_handlers
    BY <1>2 DEF init_sig_handlers, Install
  <1>3. CASE BlockTimerSignal \/ CreateTimer \/ ArmTimer \/ UnblockTimerSignal
    BY <1>3 DEF BlockTimerSignal, CreateTimer, ArmTimer, UnblockTimerSignal
  <1>4. CASE Loop \/ EnterSleep \/ SleepTimeout
    BY <1>4 DEF Loop, EnterSleep, SleepTimeout, StayInLoop
  <1>5. CASE Check \/ Clear \/ sendCC
    BY <1>5 DEF Check, Clear, sendCC, WriteMessage, Iterate
  <1>6. CASE Count \/ close_serial
    BY <1>6 DEF Count, close_serial, Iterate
  <1>7. QED
    BY <1>1, <1>2, <1>3, <1>4, <1>5, <1>6 DEF Main

LEMMA SignalsDoNotDelay ==
  ASSUME TypeOK, [Next]_vars, ~Main
  PROVE  Left' <= Left
  <1>1. pc' = pc \/ pc' = "done" \/ (pc = "asleep" /\ pc' = "check")
    BY DEF Next, TimerExpires, Kill, Delivery, handler_timer, handler_int, Handled,
           DefaultAction, Terminated, Goto, Exit, vars
  <1>2. Left \in 0..12
    BY DEF TypeOK, Left
  <1>3. CASE pc' = pc
    <2>1. Left' = Left
      BY <1>3 DEF Left
    <2>2. QED
      BY <1>2, <2>1
  <1>4. CASE pc' = "done"
    <2>1. Left' = 0
      BY <1>4 DEF Left
    <2>2. QED
      BY <1>2, <2>1
  <1>5. CASE pc = "asleep" /\ pc' = "check"
    BY <1>5 DEF Left
  <1>6. QED
    BY <1>1, <1>3, <1>4, <1>5

\* Once the SIGINT handler has run, main executes at most eight more statements,
\* one of them at most a sleep: each takes it nearer to its end, and no signal,
\* no expiry of the timer and no beat takes it back (lines 256-277).  With the
\* weak fairness of Main this is why IntEnds holds.
THEOREM StopIsNear ==
  SafeSpec => /\ [](~running => Left \in 0..8)
              /\ [][~running => Left' <= Left /\ (Main => Left' < Left)]_vars
  <1>1. TypeOK /\ HandlerInv /\ IntLast => (~running => Left \in 0..8)
    BY DEF TypeOK, HandlerInv, IntLast, EarlyPcs, BeforeTimerHandler, Left
  <1>2. IInv /\ [Next]_vars =>
          [~running => Left' <= Left /\ (Main => Left' < Left)]_vars
    <2> SUFFICES ASSUME IInv, [Next]_vars, ~running
                 PROVE  Left' <= Left /\ (Main => Left' < Left)
      OBVIOUS
    <2>1. CASE Main
      <3>1. Left' < Left
        BY <2>1, MainGetsNearer DEF IInv
      <3>2. TypeOK /\ TypeOK'
        BY NextIInv DEF IInv
      <3>3. Left \in 0..12 /\ Left' \in 0..12
        BY <3>2 DEF TypeOK, Left
      <3>4. QED
        BY <3>1, <3>3
    <2>2. CASE ~Main
      BY <2>2, SignalsDoNotDelay DEF IInv
    <2>3. QED
      BY <2>1, <2>2
  <1>3. QED
    BY <1>1, <1>2, Invariance, TypeCorrect, HandlerInvariant, IntLastInvariant, PTL DEF SafeSpec
============================================================================
