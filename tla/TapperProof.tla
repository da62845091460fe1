---------------------------- MODULE TapperProof ----------------------------
(***************************************************************************)
(* Proofs about Tapper, for every set of command lines, every set of       *)
(* failing system calls and every bound.  IInv is the inductive invariant; *)
(* its parts say what each phase of main has established.                  *)
(***************************************************************************)
EXTENDS Tapper, TLAPS

\* The statements of main, in the order they are reached.
BeforeTimerHandler == {"parse", "stat", "midi", "open", "sigtimer"}
InitTimer          == {"block", "create", "arm", "unblock"}
LoopPcs == {"loop", "usleep", "asleep", "check", "clear", "send", "count", "close"}

\* Handlers come first, then the mask, then the timer.
SetupInv ==
  /\ exit = "alive" <=> pc # "done"
  /\ pc \notin BeforeTimerHandler \union {"done"} => "rtmin" \in handlers
  /\ pc \in InitTimer \union LoopPcs => "int" \in handlers
  /\ timer # "none" => "rtmin" \in handlers
  /\ "rtmin" \in pending => "rtmin" \in handlers
  /\ pc \in {"create", "arm", "unblock"} => blocked = {"rtmin"}
  /\ pc \in LoopPcs => blocked = {}

\* From CheckMidi on the message is a control change on the right channel.
MessageInv ==
  /\ pc \in {"parse", "stat", "midi"} => sent = 0
  /\ pc \notin {"parse", "stat", "midi", "done"} \/ sent > 0 =>
       /\ args.channel \in 0..15 /\ midi_msg[1] = 176 + args.channel
       /\ args.message \in 0..255 => midi_msg[2] = args.message
       /\ args.value \in 0..255 => midi_msg[3] = args.value

\* The late message can only be the one being sent when SIGINT arrived.
LateInv ==
  /\ late <= 1
  /\ late = 1 => ~running /\ pc \in {"count", "loop", "close", "done"}

OwedInv ==
  /\ BeatsBalance
  /\ pc = "clear" => trigger

\* A sleep entered with trigger set is followed by the test that sees it.
SleptInv ==
  /\ slept <= 1
  /\ slept = 1 => trigger /\ pc \in {"asleep", "check", "clear", "done"}

RepeatInv ==
  /\ args.repeats_given => sent <= AtLeastOne(args.repeats)
  /\ args.repeats_given /\ pc \notin {"count", "close", "done"} =>
       sent = i /\ sent < AtLeastOne(args.repeats)
  /\ args.repeats_given /\ pc = "count" => sent = i + 1
  /\ pc = "close" /\ running => args.repeats_given /\ sent = AtLeastOne(args.repeats)
  /\ exit = "success" /\ args.parse = "ok" /\ running =>
       args.repeats_given /\ sent = AtLeastOne(args.repeats)

IInv == TypeOK /\ SetupInv /\ MessageInv /\ LateInv /\ OwedInv /\ SleptInv /\ RepeatInv

----------------------------------------------------------------------------
\* The low byte of an int, and the status byte of a channel in range.
LEMMA ByteFits == \A n \in Int : Byte(n) \in 0..255
  BY DEF Byte

LEMMA ByteKeeps == \A n \in 0..255 : Byte(n) = n
  BY DEF Byte

LEMMA StatusByteFits == \A c \in 0..15 : StatusByte(c) = 176 + c
  BY DEF StatusByte

LEMMA ArgsTyped ==
  ASSUME args \in Args
  PROVE  /\ args.parse \in {"ok", "success", "failure"} /\ args.repeats_given \in BOOLEAN
         /\ args.channel \in Int /\ args.message \in Int /\ args.value \in Int
         /\ args.tempo \in Int /\ args.repeats \in Int
  BY TapperAssumption DEF TapperAssumption, ArgsType

LEMMA InitIInv == Init => IInv
  <1> SUFFICES ASSUME Init PROVE IInv
    OBVIOUS
  <1> USE DEF Init
  <1>1. TypeOK
    <2>1. blocked \subseteq Signals
      BY TapperAssumption DEF TapperAssumption, Signals
    <2>2. midi_msg \in (0..255) \X (0..255) \X (0..255)
      OBVIOUS
    <2>3. handlers \subseteq {"rtmin", "int"} /\ pending \subseteq Signals
      OBVIOUS
    <2>4. pc \in {"parse"} /\ timer \in {"none"} /\ exit \in {"alive"}
      OBVIOUS
    <2>5. serial_fd \in {-1, 3} /\ i \in Nat /\ running \in BOOLEAN /\ trigger \in BOOLEAN
      OBVIOUS
    <2>6. sent \in Nat /\ delivered \in Nat /\ late \in Nat /\ owed \in Int /\ slept \in Nat
      OBVIOUS
    <2>7. due \in BOOLEAN
      OBVIOUS
    <2>8. QED
      BY <2>1, <2>2, <2>3, <2>4, <2>5, <2>6, <2>7 DEF TypeOK
  <1>2. SetupInv /\ MessageInv
    BY DEF SetupInv, MessageInv, BeforeTimerHandler, InitTimer, LoopPcs
  <1>3. LateInv /\ OwedInv /\ SleptInv
    BY DEF LateInv, OwedInv, SleptInv, BeatsBalance
  <1>4. RepeatInv
    BY ArgsTyped DEF RepeatInv, AtLeastOne
  <1>5. QED
    BY <1>1, <1>2, <1>3, <1>4 DEF IInv


LEMMA NextIInv == IInv /\ [Next]_vars => IInv'
  <1> SUFFICES ASSUME IInv, [Next]_vars PROVE IInv'
    OBVIOUS
  <1> USE ArgsTyped DEF IInv, TypeOK, vars, setup, history, flags, At, Goto
  <1>1. CASE Parse
    <2> USE <1>1 DEF Parse, Exit
    <2>1. TypeOK'
      BY DEF TypeOK, Signals
    <2>2. SetupInv'
      BY DEF SetupInv, BeforeTimerHandler, InitTimer, LoopPcs
    <2>3. MessageInv'
      BY DEF MessageInv
    <2>4. LateInv'
      BY DEF LateInv
    <2>5. OwedInv'
      BY DEF OwedInv, BeatsBalance
    <2>6. SleptInv'
      BY DEF SleptInv
    <2>7. RepeatInv'
      BY DEF RepeatInv, AtLeastOne
    <2>8. QED
      BY <2>1, <2>2, <2>3, <2>4, <2>5, <2>6, <2>7
  <1>2. CASE CheckSerial
    <2> USE <1>2 DEF CheckSerial, Exit
    <2>1. TypeOK'
      BY DEF TypeOK, Signals
    <2>2. SetupInv'
      BY DEF SetupInv, BeforeTimerHandler, InitTimer, LoopPcs
    <2>3. MessageInv'
      BY DEF MessageInv
    <2>4. LateInv'
      BY DEF LateInv
    <2>5. OwedInv'
      BY DEF OwedInv, BeatsBalance
    <2>6. SleptInv'
      BY DEF SleptInv
    <2>7. RepeatInv'
      BY DEF RepeatInv, AtLeastOne
    <2>8. QED
      BY <2>1, <2>2, <2>3, <2>4, <2>5, <2>6, <2>7
  <1>3. CASE CheckMidi
    <2> USE <1>3 DEF CheckMidi, Exit, ChannelInRange
    <2>1. TypeOK'
      <3>1. CASE ChannelInRange
        <4>1. StatusByte(args.channel) \in 0..255
          BY <3>1, StatusByteFits DEF ChannelInRange
        <4>2. Byte(args.message) \in 0..255 /\ Byte(args.value) \in 0..255
          BY ByteFits
        <4>3. midi_msg' \in (0..255) \X (0..255) \X (0..255)
          BY <3>1, <4>1, <4>2
        <4>4. QED
          BY <3>1, <4>3 DEF TypeOK, Signals
      <3>2. CASE ~ChannelInRange
        BY <3>2 DEF TypeOK, Signals
      <3>3. QED
        BY <3>1, <3>2
    <2>2. SetupInv'
      BY DEF SetupInv, BeforeTimerHandler, InitTimer, LoopPcs
    <2>3. MessageInv'
      <3>1. CASE ChannelInRange
        <4>1. midi_msg' = <<StatusByte(args.channel), Byte(args.message), Byte(args.value)>>
              /\ args' = args /\ sent' = sent
          BY <3>1
        <4>2. args.channel \in 0..15 /\ StatusByte(args.channel) = 176 + args.channel
          BY <3>1, StatusByteFits DEF ChannelInRange
        <4>3. /\ args.message \in 0..255 => Byte(args.message) = args.message
              /\ args.value \in 0..255 => Byte(args.value) = args.value
          BY ByteKeeps
        <4>4. /\ midi_msg'[1] = StatusByte(args.channel)
              /\ midi_msg'[2] = Byte(args.message) /\ midi_msg'[3] = Byte(args.value)
          BY <4>1
        <4>5. pc' \notin {"parse", "stat", "midi"}
          BY <3>1
        <4>6. QED
          BY <4>1, <4>2, <4>3, <4>4, <4>5 DEF MessageInv
      <3>2. CASE ~ChannelInRange
        BY <3>2 DEF MessageInv
      <3>3. QED
        BY <3>1, <3>2
    <2>4. LateInv'
      BY DEF LateInv
    <2>5. OwedInv'
      BY DEF OwedInv, BeatsBalance
    <2>6. SleptInv'
      BY DEF SleptInv
    <2>7. RepeatInv'
      BY DEF RepeatInv, AtLeastOne
    <2>8. QED
      BY <2>1, <2>2, <2>3, <2>4, <2>5, <2>6, <2>7
  <1>4. CASE init_serial
    <2> USE <1>4 DEF init_serial
    <2>1. TypeOK'
      BY DEF TypeOK, Signals
    <2>2. SetupInv'
      BY DEF SetupInv, BeforeTimerHandler, InitTimer, LoopPcs
    <2>3. MessageInv'
      BY DEF MessageInv
    <2>4. LateInv'
      BY DEF LateInv
    <2>5. OwedInv'
      BY DEF OwedInv, BeatsBalance
    <2>6. SleptInv'
      BY DEF SleptInv
    <2>7. RepeatInv'
      BY DEF RepeatInv, AtLeastOne
    <2>8. QED
      BY <2>1, <2>2, <2>3, <2>4, <2>5, <2>6, <2>7
  <1>5. CASE init_sig_handlers
    <2> USE <1>5 DEF init_sig_handlers, Install, Exit
    <2>1. TypeOK'
      <3>1. handlers' \subseteq {"rtmin", "int"} /\ pc' \in {"sigint", "block", "done"}
        OBVIOUS
      <3>2. exit' \in {"alive", "failure", "killed"}
        OBVIOUS
      <3>3. QED
        BY <3>1, <3>2
    <2>2. SetupInv'
      BY DEF SetupInv, BeforeTimerHandler, InitTimer, LoopPcs
    <2>3. MessageInv'
      BY DEF MessageInv
    <2>4. LateInv'
      BY DEF LateInv
    <2>5. OwedInv'
      BY DEF OwedInv, BeatsBalance
    <2>6. SleptInv'
      BY DEF SleptInv
    <2>7. RepeatInv'
      BY DEF RepeatInv, AtLeastOne
    <2>8. QED
      BY <2>1, <2>2, <2>3, <2>4, <2>5, <2>6, <2>7
  <1>6. CASE BlockTimerSignal
    <2> USE <1>6 DEF BlockTimerSignal, Exit, TimerMask, Signals
    <2>1. TypeOK'
      BY DEF TypeOK, Signals
    <2>2. SetupInv'
      BY DEF SetupInv, BeforeTimerHandler, InitTimer, LoopPcs
    <2>3. MessageInv'
      BY DEF MessageInv
    <2>4. LateInv'
      BY DEF LateInv
    <2>5. OwedInv'
      BY DEF OwedInv, BeatsBalance
    <2>6. SleptInv'
      BY DEF SleptInv
    <2>7. RepeatInv'
      BY DEF RepeatInv, AtLeastOne
    <2>8. QED
      BY <2>1, <2>2, <2>3, <2>4, <2>5, <2>6, <2>7
  <1>7. CASE CreateTimer
    <2> USE <1>7 DEF CreateTimer, Exit
    <2>1. TypeOK'
      BY DEF TypeOK, Signals
    <2>2. SetupInv'
      BY DEF SetupInv, BeforeTimerHandler, InitTimer, LoopPcs
    <2>3. MessageInv'
      BY DEF MessageInv
    <2>4. LateInv'
      BY DEF LateInv
    <2>5. OwedInv'
      BY DEF OwedInv, BeatsBalance
    <2>6. SleptInv'
      BY DEF SleptInv
    <2>7. RepeatInv'
      BY DEF RepeatInv, AtLeastOne
    <2>8. QED
      BY <2>1, <2>2, <2>3, <2>4, <2>5, <2>6, <2>7
  <1>8. CASE ArmTimer
    <2> USE <1>8 DEF ArmTimer, Exit
    <2>1. TypeOK'
      BY DEF TypeOK, Signals
    <2>2. SetupInv'
      BY DEF SetupInv, BeforeTimerHandler, InitTimer, LoopPcs
    <2>3. MessageInv'
      BY DEF MessageInv
    <2>4. LateInv'
      BY DEF LateInv
    <2>5. OwedInv'
      BY DEF OwedInv, BeatsBalance
    <2>6. SleptInv'
      BY DEF SleptInv
    <2>7. RepeatInv'
      BY DEF RepeatInv, AtLeastOne
    <2>8. QED
      BY <2>1, <2>2, <2>3, <2>4, <2>5, <2>6, <2>7
  <1>9. CASE UnblockTimerSignal
    <2> USE <1>9 DEF UnblockTimerSignal, Exit, Signals
    <2>1. TypeOK'
      BY DEF TypeOK, Signals
    <2>2. SetupInv'
      BY DEF SetupInv, BeforeTimerHandler, InitTimer, LoopPcs
    <2>3. MessageInv'
      BY DEF MessageInv
    <2>4. LateInv'
      BY DEF LateInv
    <2>5. OwedInv'
      BY DEF OwedInv, BeatsBalance
    <2>6. SleptInv'
      BY DEF SleptInv
    <2>7. RepeatInv'
      BY DEF RepeatInv, AtLeastOne
    <2>8. QED
      BY <2>1, <2>2, <2>3, <2>4, <2>5, <2>6, <2>7
  <1>10. CASE Loop
    <2> USE <1>10 DEF Loop, StayInLoop
    <2>1. TypeOK'
      BY DEF TypeOK, Signals
    <2>2. SetupInv'
      BY DEF SetupInv, BeforeTimerHandler, InitTimer, LoopPcs
    <2>3. MessageInv'
      BY DEF MessageInv
    <2>4. LateInv'
      BY DEF LateInv
    <2>5. OwedInv'
      BY DEF OwedInv, BeatsBalance
    <2>6. SleptInv'
      BY DEF SleptInv
    <2>7. RepeatInv'
      BY DEF RepeatInv, AtLeastOne
    <2>8. QED
      BY <2>1, <2>2, <2>3, <2>4, <2>5, <2>6, <2>7
  <1>11. CASE EnterSleep
    <2> USE <1>11 DEF EnterSleep
    <2>1. TypeOK'
      BY DEF TypeOK, Signals
    <2>2. SetupInv'
      BY DEF SetupInv, BeforeTimerHandler, InitTimer, LoopPcs
    <2>3. MessageInv'
      BY DEF MessageInv
    <2>4. LateInv'
      BY DEF LateInv
    <2>5. OwedInv'
      BY DEF OwedInv, BeatsBalance
    <2>6. SleptInv'
      BY DEF SleptInv
    <2>7. RepeatInv'
      BY DEF RepeatInv, AtLeastOne
    <2>8. QED
      BY <2>1, <2>2, <2>3, <2>4, <2>5, <2>6, <2>7
  <1>12. CASE SleepTimeout
    <2> USE <1>12 DEF SleepTimeout
    <2>1. TypeOK'
      BY DEF TypeOK, Signals
    <2>2. SetupInv'
      BY DEF SetupInv, BeforeTimerHandler, InitTimer, LoopPcs
    <2>3. MessageInv'
      BY DEF MessageInv
    <2>4. LateInv'
      BY DEF LateInv
    <2>5. OwedInv'
      BY DEF OwedInv, BeatsBalance
    <2>6. SleptInv'
      BY DEF SleptInv
    <2>7. RepeatInv'
      BY DEF RepeatInv, AtLeastOne
    <2>8. QED
      BY <2>1, <2>2, <2>3, <2>4, <2>5, <2>6, <2>7
  <1>13. CASE Check
    <2> USE <1>13 DEF Check, BeatDue, Iterate
    <2>1. TypeOK'
      BY DEF TypeOK, Signals
    <2>2. SetupInv'
      BY DEF SetupInv, BeforeTimerHandler, InitTimer, LoopPcs
    <2>3. MessageInv'
      BY DEF MessageInv
    <2>4. LateInv'
      BY DEF LateInv
    <2>5. OwedInv'
      BY DEF OwedInv, BeatsBalance
    <2>6. SleptInv'
      BY DEF SleptInv
    <2>7. RepeatInv'
      BY DEF RepeatInv, AtLeastOne
    <2>8. QED
      BY <2>1, <2>2, <2>3, <2>4, <2>5, <2>6, <2>7
  <1>14. CASE Clear
    <2> USE <1>14 DEF Clear
    <2>1. TypeOK'
      BY DEF TypeOK, Signals
    <2>2. SetupInv'
      BY DEF SetupInv, BeforeTimerHandler, InitTimer, LoopPcs
    <2>3. MessageInv'
      BY DEF MessageInv
    <2>4. LateInv'
      BY DEF LateInv
    <2>5. OwedInv'
      BY DEF OwedInv, BeatsBalance
    <2>6. SleptInv'
      BY DEF SleptInv
    <2>7. RepeatInv'
      BY DEF RepeatInv, AtLeastOne
    <2>8. QED
      BY <2>1, <2>2, <2>3, <2>4, <2>5, <2>6, <2>7
  <1>15. CASE sendCC
    <2> USE <1>15 DEF sendCC, WriteMessage
    <2>1. TypeOK'
      <3>1. due' \in BOOLEAN
        OBVIOUS
      <3>2. sent' \in Nat /\ delivered' \in Nat /\ late' \in Nat /\ owed' \in Int
        OBVIOUS
      <3>3. QED
        BY <3>1, <3>2 DEF TypeOK, Signals
    <2>2. SetupInv'
      BY DEF SetupInv, BeforeTimerHandler, InitTimer, LoopPcs
    <2>3. MessageInv'
      BY DEF MessageInv
    <2>4. LateInv'
      BY DEF LateInv
    <2>5. OwedInv'
      BY DEF OwedInv, BeatsBalance
    <2>6. SleptInv'
      BY DEF SleptInv
    <2>7. RepeatInv'
      BY DEF RepeatInv, AtLeastOne
    <2>8. QED
      BY <2>1, <2>2, <2>3, <2>4, <2>5, <2>6, <2>7
  <1>16. CASE Count
    <2> USE <1>16 DEF Count, RepeatsDone, Iterate
    <2>1. TypeOK'
      BY DEF TypeOK, Signals
    <2>2. SetupInv'
      BY DEF SetupInv, BeforeTimerHandler, InitTimer, LoopPcs
    <2>3. MessageInv'
      BY DEF MessageInv
    <2>4. LateInv'
      BY DEF LateInv
    <2>5. OwedInv'
      BY DEF OwedInv, BeatsBalance
    <2>6. SleptInv'
      BY DEF SleptInv
    <2>7. RepeatInv'
      BY DEF RepeatInv, AtLeastOne
    <2>8. QED
      BY <2>1, <2>2, <2>3, <2>4, <2>5, <2>6, <2>7
  <1>17. CASE close_serial
    <2> USE <1>17 DEF close_serial, Exit
    <2>1. TypeOK'
      BY DEF TypeOK, Signals
    <2>2. SetupInv'
      BY DEF SetupInv, BeforeTimerHandler, InitTimer, LoopPcs
    <2>3. MessageInv'
      BY DEF MessageInv
    <2>4. LateInv'
      BY DEF LateInv
    <2>5. OwedInv'
      BY DEF OwedInv, BeatsBalance
    <2>6. SleptInv'
      BY DEF SleptInv
    <2>7. RepeatInv'
      BY DEF RepeatInv, AtLeastOne
    <2>8. QED
      BY <2>1, <2>2, <2>3, <2>4, <2>5, <2>6, <2>7
  <1>18. CASE TimerExpires
    <2> USE <1>18 DEF TimerExpires
    <2>1. TypeOK'
      BY DEF TypeOK, Signals
    <2>2. SetupInv'
      BY DEF SetupInv, BeforeTimerHandler, InitTimer, LoopPcs
    <2>3. MessageInv'
      BY DEF MessageInv
    <2>4. LateInv'
      BY DEF LateInv
    <2>5. OwedInv'
      BY DEF OwedInv, BeatsBalance
    <2>6. SleptInv'
      BY DEF SleptInv
    <2>7. RepeatInv'
      BY DEF RepeatInv, AtLeastOne
    <2>8. QED
      BY <2>1, <2>2, <2>3, <2>4, <2>5, <2>6, <2>7
  <1>19. CASE handler_timer
    <2> USE <1>19 DEF handler_timer, Handled, Deliver
    <2>1. TypeOK'
      BY DEF TypeOK, Signals
    <2>2. SetupInv'
      BY DEF SetupInv, BeforeTimerHandler, InitTimer, LoopPcs
    <2>3. MessageInv'
      BY DEF MessageInv
    <2>4. LateInv'
      BY DEF LateInv
    <2>5. OwedInv'
      BY DEF OwedInv, BeatsBalance
    <2>6. SleptInv'
      BY DEF SleptInv
    <2>7. RepeatInv'
      BY DEF RepeatInv, AtLeastOne
    <2>8. QED
      BY <2>1, <2>2, <2>3, <2>4, <2>5, <2>6, <2>7
  <1>20. CASE handler_int
    <2> USE <1>20 DEF handler_int, Handled, Deliver
    <2>1. TypeOK'
      BY DEF TypeOK, Signals
    <2>2. SetupInv'
      BY DEF SetupInv, BeforeTimerHandler, InitTimer, LoopPcs
    <2>3. MessageInv'
      BY DEF MessageInv
    <2>4. LateInv'
      BY DEF LateInv
    <2>5. OwedInv'
      BY DEF OwedInv, BeatsBalance
    <2>6. SleptInv'
      BY DEF SleptInv
    <2>7. RepeatInv'
      BY DEF RepeatInv, AtLeastOne
    <2>8. QED
      BY <2>1, <2>2, <2>3, <2>4, <2>5, <2>6, <2>7
  <1>21. CASE \E s \in {"int", "term"} : Kill(s)
    <2> USE <1>21 DEF Kill
    <2>1. TypeOK'
      BY DEF TypeOK, Signals
    <2>2. SetupInv'
      BY DEF SetupInv, BeforeTimerHandler, InitTimer, LoopPcs
    <2>3. MessageInv'
      BY DEF MessageInv
    <2>4. LateInv'
      BY DEF LateInv
    <2>5. OwedInv'
      BY DEF OwedInv, BeatsBalance
    <2>6. SleptInv'
      BY DEF SleptInv
    <2>7. RepeatInv'
      BY DEF RepeatInv, AtLeastOne
    <2>8. QED
      BY <2>1, <2>2, <2>3, <2>4, <2>5, <2>6, <2>7
  <1>22. CASE \E s \in Signals : DefaultAction(s)
    <2> USE <1>22 DEF DefaultAction, Deliver, Exit
    <2>1. TypeOK'
      BY DEF TypeOK, Signals
    <2>2. SetupInv'
      BY DEF SetupInv, BeforeTimerHandler, InitTimer, LoopPcs
    <2>3. MessageInv'
      BY DEF MessageInv
    <2>4. LateInv'
      BY DEF LateInv
    <2>5. OwedInv'
      BY DEF OwedInv, BeatsBalance
    <2>6. SleptInv'
      BY DEF SleptInv
    <2>7. RepeatInv'
      BY DEF RepeatInv, AtLeastOne
    <2>8. QED
      BY <2>1, <2>2, <2>3, <2>4, <2>5, <2>6, <2>7
  <1>23. CASE UNCHANGED vars
    BY <1>23 DEF SetupInv, MessageInv, LateInv, OwedInv, BeatsBalance, SleptInv, RepeatInv, AtLeastOne
  <1>24. QED
    BY <1>1, <1>2, <1>3, <1>4, <1>5, <1>6, <1>7, <1>8, <1>9, <1>10, <1>11, <1>12, <1>13, <1>14, <1>15, <1>16, <1>17, <1>18, <1>19, <1>20, <1>21, <1>22, <1>23 DEF Next, Main, Delivery, Terminated

\* The invariant holds in every reachable state.
LEMMA Invariance == SafeSpec => []IInv
  BY InitIInv, NextIInv, PTL DEF SafeSpec

----------------------------------------------------------------------------
(* The safety properties of Tapper.                                        *)

\* Every variable keeps its type; the three bytes of the message in
\* particular stay unsigned chars (lines 30, 241-243).
THEOREM TypeCorrect == SafeSpec => []TypeOK
  BY Invariance, PTL DEF IInv

\* After the SIGINT handler ran at most one more message is sent.
THEOREM LateBeats == SafeSpec => []AtMostOneLateBeat
  <1>1. IInv => AtMostOneLateBeat
    BY DEF IInv, LateInv, AtMostOneLateBeat
  <1>2. QED
    BY <1>1, Invariance, PTL

\* The handler and the loop never lose, double or invent a beat.
THEOREM Balance == SafeSpec => []BeatsBalance
  <1>1. IInv => BeatsBalance
    BY DEF IInv, OwedInv
  <1>2. QED
    BY <1>1, Invariance, PTL

\* A beat waits for at most one usleep.
THEOREM Latency == SafeSpec => []BeatWaitsOneSleep
  <1>1. IInv => BeatWaitsOneSleep
    BY DEF IInv, SleptInv, BeatWaitsOneSleep
  <1>2. QED
    BY <1>1, Invariance, PTL

\* The repeat count is kept, and success means it was reached or SIGINT came.
THEOREM Repeats == SafeSpec => []RepeatsRespected
  <1>1. IInv => RepeatsRespected
    BY DEF IInv, RepeatInv, RepeatsRespected
  <1>2. QED
    BY <1>1, Invariance, PTL

\* Handlers before timer, and no signal blocked in the loop.
THEOREM SignalSetup == SafeSpec => [](TickIsHandled /\ NothingBlockedInLoop)
  <1>1. IInv => TickIsHandled /\ NothingBlockedInLoop
    BY DEF IInv, SetupInv, TickIsHandled, NothingBlockedInLoop, InLoop, LoopPcs
  <1>2. QED
    BY <1>1, Invariance, PTL

\* In the loop no signal is blocked, whatever mask the process inherited.
THEOREM LoopUnblocked == SafeSpec => []NothingBlockedInLoop
  BY SignalSetup, PTL

\* Whatever is sent is a control change on the channel asked for.
THEOREM RightChannel == SafeSpec => []MessageAsAsked
  <1>1. IInv => MessageAsAsked
    BY DEF IInv, TypeOK, MessageInv, MessageAsAsked
  <1>2. QED
    BY <1>1, Invariance, PTL

\* In the loop nothing but SIGTERM kills the process.
THEOREM Kills == SafeSpec => OnlyTermKills
  <1>1. IInv /\ [Next]_vars =>
          [InLoop /\ exit' = "killed" /\ exit = "alive" =>
             "term" \in pending \/ LastOutputFails]_vars
    <2> SUFFICES ASSUME IInv, [Next]_vars, InLoop, exit' = "killed", exit = "alive",
                        ~LastOutputFails
                 PROVE  "term" \in pending
      OBVIOUS
    <2>1. "int" \in handlers /\ ("rtmin" \in pending => "rtmin" \in handlers)
      BY DEF IInv, SetupInv, InLoop, LoopPcs
    <2>2. \E s \in Signals : DefaultAction(s)
      <3>1. ~Main
        BY DEF LastOutputFails, InLoop, Main, At, Goto, Exit, Parse, CheckSerial, CheckMidi, init_serial,
               init_sig_handlers, Install, BlockTimerSignal, CreateTimer, ArmTimer,
               UnblockTimerSignal, Loop, EnterSleep, SleepTimeout, Check, Iterate, Clear,
               sendCC, WriteMessage, Count, close_serial
      <3>2. ~TimerExpires /\ ~(\E s \in {"int", "term"} : Kill(s)) /\ ~Terminated
        BY DEF TimerExpires, Kill, Terminated
      <3>3. ~handler_timer /\ ~handler_int
        BY DEF handler_timer, handler_int, Handled, Goto
      <3>4. QED
        BY <3>1, <3>2, <3>3 DEF Next, Delivery, vars
    <2>3. QED
      BY <2>1, <2>2 DEF DefaultAction, Deliver, Signals
  <1>2. QED
    BY <1>1, Invariance, PTL DEF SafeSpec, OnlyTermKills

----------------------------------------------------------------------------
(* Tempo.                                                                  *)

\* Integer division rounds down.
LEMMA DivBounds ==
  ASSUME NEW a \in Nat, NEW b \in Nat \ {0}
  PROVE  /\ a \div b \in 0..a
         /\ (a \div b) * b <= a
         /\ a < (a \div b + 1) * b
  BY SMT

\* On a machine whose long holds a minute the cast changes nothing.
LEMMA NoWrap ==
  ASSUME LongHalf > NsPerMinute, NEW n \in 0..NsPerMinute
  PROVE  AsLong(n) = n
  BY TempoAssumption DEF TempoAssumption, AsLong

\* On such a machine an armed timer keeps the tempo asked for, and the timer
\* is disarmed only for a tempo that is not positive.  An int is smaller than
\* the number of nanoseconds in a minute, hence the bound on tempo.
THEOREM TempoIsKept ==
  ASSUME LongHalf > NsPerMinute, \A a \in Args : a.tempo <= NsPerMinute
  PROVE  SafeSpec => []TempoKept
  <1>1. Init => TempoKept
    BY DEF Init, TempoKept
  <1>2. ASSUME TypeOK, TempoKept, [Next]_vars PROVE TempoKept'
    <2>1. CASE timer' = timer
      <3>1. args' = args
        BY <1>2 DEF Next, Main, Delivery, Parse, CheckSerial, CheckMidi, init_serial,
               init_sig_handlers, Install, BlockTimerSignal, CreateTimer, ArmTimer,
               UnblockTimerSignal, Loop, EnterSleep, SleepTimeout, Check, Clear,
               sendCC, WriteMessage, Count, close_serial, TimerExpires, Kill,
               handler_timer, handler_int,
               DefaultAction, Terminated, vars, setup
      <3>2. QED
        BY <1>2, <2>1, <3>1 DEF TempoKept, ns_interval
    <2>2. CASE timer' # timer
      <3>1. ArmTimer \/ timer' = "created"
        BY <1>2, <2>2 DEF Next, Main, Delivery, Parse, CheckSerial, CheckMidi, init_serial,
               init_sig_handlers, Install, BlockTimerSignal, CreateTimer,
               UnblockTimerSignal, Loop, EnterSleep, SleepTimeout, Check, Clear,
               sendCC, WriteMessage, Count, close_serial, TimerExpires, Kill,
               handler_timer, handler_int,
               DefaultAction, Terminated, vars, setup
      <3>2. CASE timer' = "created"
        BY <3>2 DEF TempoKept
      <3>3. CASE ArmTimer
        <4>1. /\ args' = args
              /\ timer' = IF ns_interval = 0 THEN "disarmed" ELSE "armed"
          BY <2>2, <3>3 DEF ArmTimer
        <4>2. args.tempo \in Int /\ args.tempo <= NsPerMinute
          BY <1>2, ArgsTyped DEF TypeOK
        <4>3. CASE args.tempo <= 0
          BY <4>1, <4>2, <4>3 DEF TempoKept, ns_interval, bpm_to_ns
        <4>4. CASE args.tempo > 0
          <5> DEFINE q == NsPerMinute \div args.tempo
          <5>1. NsPerMinute \in Nat /\ args.tempo \in Nat \ {0}
            BY <4>2, <4>4, TempoAssumption DEF TempoAssumption
          <5>2. /\ q \in 0..NsPerMinute
                /\ q * args.tempo <= NsPerMinute
                /\ NsPerMinute < (q + 1) * args.tempo
            BY <5>1, DivBounds
          <5>3. ns_interval = q
            BY <4>4, <4>2, <5>2, NoWrap DEF ns_interval, bpm_to_ns
          <5>4. q # 0
            BY <4>2, <5>1, <5>2 DEF q
          <5> QED
            BY <4>1, <4>4, <5>2, <5>3, <5>4 DEF TempoKept, ns_interval
        <4>5. QED
          BY <4>2, <4>3, <4>4
      <3>4. QED
        BY <3>1, <3>2, <3>3
    <2>3. QED
      BY <2>1, <2>2
  <1>3. QED
    BY <1>1, <1>2, TypeCorrect, PTL DEF SafeSpec

\* tv_sec is always 0, so that timer_settime refuses a beat of a second or more:
\* the tempos it takes a beat for are those above 60.
LEMMA RefusedTempos ==
  ASSUME LongHalf > NsPerMinute, NEW bpm \in Int,
         ValidNsec(bpm_to_ns(bpm)), bpm_to_ns(bpm) # 0
  PROVE  bpm > 60
  <1>1. bpm > 0
    BY DEF bpm_to_ns
  <1>2. NsPerMinute = 60 * NsPerSecond /\ NsPerMinute \in Nat /\ NsPerSecond \in Nat \ {0}
    BY TempoAssumption DEF TempoAssumption
  <1> DEFINE q == NsPerMinute \div bpm
  <1>3. /\ q \in 0..NsPerMinute
        /\ NsPerMinute < (q + 1) * bpm
    BY <1>1, <1>2, DivBounds
  <1>4. bpm_to_ns(bpm) = q
    BY <1>1, <1>3, NoWrap DEF bpm_to_ns
  <1>5. q + 1 <= NsPerSecond
    BY <1>2, <1>3, <1>4 DEF ValidNsec
  <1> HIDE DEF q
  <1>6. SUFFICES ASSUME bpm <= 60 PROVE FALSE
    OBVIOUS
  <1>7. (q + 1) * bpm <= NsPerSecond * bpm
    BY <1>1, <1>2, <1>3, <1>5
  <1>8. NsPerSecond * bpm <= NsPerSecond * 60
    BY <1>1, <1>2, <1>6
  <1>9. (q + 1) * bpm \in Int /\ NsPerSecond * bpm \in Int /\ NsPerSecond * 60 = NsPerMinute
    BY <1>2, <1>3
  <1>10. QED
    BY <1>2, <1>3, <1>7, <1>8, <1>9

LEMMA AcceptedTempos ==
  ASSUME LongHalf > NsPerMinute, NEW bpm \in 61..NsPerMinute
  PROVE  ValidNsec(bpm_to_ns(bpm)) /\ bpm_to_ns(bpm) # 0
  <1>1. NsPerMinute = 60 * NsPerSecond /\ NsPerMinute \in Nat /\ NsPerSecond \in Nat \ {0}
    BY TempoAssumption DEF TempoAssumption
  <1> DEFINE q == NsPerMinute \div bpm
  <1>2. bpm \in Nat \ {0} /\ bpm > 60 /\ bpm <= NsPerMinute
    BY <1>1
  <1>3. /\ q \in 0..NsPerMinute
        /\ q * bpm <= NsPerMinute
        /\ NsPerMinute < (q + 1) * bpm
    BY <1>1, <1>2, DivBounds
  <1>4. bpm_to_ns(bpm) = q
    BY <1>2, <1>3, NoWrap DEF bpm_to_ns
  <1> HIDE DEF q
  <1>5. q # 0
    BY <1>1, <1>2, <1>3
  <1>6. ASSUME q >= NsPerSecond PROVE FALSE
    <2>1. q * bpm >= NsPerSecond * bpm
      BY <1>1, <1>2, <1>3, <1>6
    <2>2. NsPerSecond * bpm > NsPerSecond * 60
      BY <1>1, <1>2
    <2>3. q * bpm \in Int /\ NsPerSecond * bpm \in Int /\ NsPerSecond * 60 = NsPerMinute
      BY <1>1, <1>2, <1>3
    <2>4. QED
      BY <1>1, <1>3, <2>1, <2>2, <2>3
  <1>7. q <= NsPerSecond - 1
    BY <1>1, <1>3, <1>6
  <1>8. QED
    BY <1>1, <1>3, <1>4, <1>5, <1>7 DEF ValidNsec

\* On a machine whose long holds a minute, the tempos that midi-tapper can set its
\* timer to are exactly those above 60 (bpm_to_ns and init_timer, lines 120-129
\* and 192-197): what Claim_tempo shows of one tempo holds of all the others.
THEOREM TappableTempos ==
  ASSUME LongHalf > NsPerMinute, NEW bpm \in Int, bpm <= NsPerMinute
  PROVE  ValidNsec(bpm_to_ns(bpm)) /\ bpm_to_ns(bpm) # 0 <=> bpm > 60
  <1>1. NsPerMinute \in Nat
    BY TempoAssumption DEF TempoAssumption
  <1>2. bpm > 60 => bpm \in 61..NsPerMinute
    BY <1>1
  <1>3. QED
    BY <1>2, RefusedTempos, AcceptedTempos

\* A beat needs the timer, and the timer a tempo it can be set to.
BeatNeedsTimer ==
  /\ trigger \/ "rtmin" \in pending \/ sent > 0 => timer = "armed"
  /\ pc \in {"clear", "send"} => timer = "armed"
  /\ pc \in {"parse", "stat", "midi", "open", "sigtimer", "sigint", "block", "create"} =>
       timer = "none"
  /\ pc = "arm" => timer = "created"
  /\ timer = "armed" => args.tempo > 60

LEMMA ArmKeepsBeatNeedsTimer ==
  ASSUME LongHalf > NsPerMinute, TypeOK, BeatNeedsTimer, ArmTimer
  PROVE  BeatNeedsTimer'
  <1>1. /\ pc = "arm" /\ timer = "created"
        /\ UNCHANGED <<args, trigger, pending, sent>>
        /\ ~trigger /\ "rtmin" \notin pending /\ ~(sent > 0)
    BY DEF ArmTimer, At, history, flags, BeatNeedsTimer
  <1>2. \/ pc' = "unblock" /\ ValidNsec(ns_interval)
           /\ timer' = IF ns_interval = 0 THEN "disarmed" ELSE "armed"
        \/ pc' = "done" /\ timer' = timer
    BY DEF ArmTimer, Goto, Exit
  <1>3. args.tempo \in Int
    BY ArgsTyped DEF TypeOK
  <1>4. timer' = "armed" => args.tempo > 60
    BY <1>1, <1>2, <1>3, RefusedTempos DEF ns_interval
  <1>5. QED
    BY <1>1, <1>2, <1>4 DEF BeatNeedsTimer

LEMMA StepKeepsBeatNeedsTimer ==
  ASSUME LongHalf > NsPerMinute, TypeOK, BeatNeedsTimer, [Next]_vars
  PROVE  BeatNeedsTimer'
  <1> USE DEF BeatNeedsTimer, At, Goto, Exit, setup, history, flags
  <1>1. CASE Parse \/ CheckSerial \/ CheckMidi \/ init_serial \/ init_sig_handlers
    BY <1>1 DEF Parse, CheckSerial, CheckMidi, init_serial, init_sig_handlers, Install,
           TypeOK, ArgsType
  <1>2. CASE BlockTimerSignal \/ CreateTimer \/ UnblockTimerSignal
    BY <1>2 DEF BlockTimerSignal, CreateTimer, UnblockTimerSignal
  <1>3. CASE ArmTimer
    BY <1>3, ArmKeepsBeatNeedsTimer
  <1>4. CASE Loop \/ EnterSleep \/ SleepTimeout \/ Check
    BY <1>4 DEF Loop, EnterSleep, SleepTimeout, Check, Iterate, BeatDue
  <1>5. CASE Clear \/ sendCC \/ Count \/ close_serial
    BY <1>5 DEF Clear, sendCC, WriteMessage, Count, Iterate, close_serial
  <1>6. CASE TimerExpires \/ \E s \in {"int", "term"} : Kill(s)
    BY <1>6 DEF TimerExpires, Kill
  <1>7. CASE Delivery
    BY <1>7 DEF Delivery, handler_timer, handler_int, Handled, Deliver, DefaultAction
  <1>8. CASE Terminated \/ UNCHANGED vars
    BY <1>8 DEF Terminated, vars
  <1>9. QED
    BY <1>1, <1>2, <1>3, <1>4, <1>5, <1>6, <1>7, <1>8 DEF Next, Main

\* On such a machine midi-tapper plays only tempos above 60: for every other one,
\* positive or not, timer_settime refuses the beat or is given none (lines
\* 120-129), and no message is ever sent.
THEOREM SlowTemposAreSilent ==
  ASSUME LongHalf > NsPerMinute
  PROVE  SafeSpec => [](sent > 0 \/ trigger => args.tempo > 60)
  <1>1. Init => BeatNeedsTimer
    BY DEF Init, BeatNeedsTimer
  <1>2. TypeOK /\ BeatNeedsTimer /\ [Next]_vars => BeatNeedsTimer'
    BY StepKeepsBeatNeedsTimer
  <1>3. BeatNeedsTimer => (sent > 0 \/ trigger => args.tempo > 60)
    BY DEF BeatNeedsTimer
  <1>4. QED
    BY <1>1, <1>2, <1>3, TypeCorrect, PTL DEF SafeSpec
============================================================================
