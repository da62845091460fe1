------------------------------- MODULE Tapper ------------------------------
(***************************************************************************)
(* The midi-tapper program (src/tapper.c): one main thread, a POSIX timer  *)
(* that raises SIGRTMIN, and the signals SIGINT and SIGTERM sent by        *)
(* others.  pc names the statement the main thread executes next; a signal *)
(* may be delivered between any two of them.                               *)
(***************************************************************************)
EXTENDS Tempo, FiniteSets

CONSTANTS
  Args,            \* the outcomes of the command line parser to consider
  Devices,         \* what stat() may say of the serial path
  FailingCalls,    \* the system calls that may fail; "stdout": nobody reads the pipe
  InheritedMasks,  \* the signal masks the parent may have passed on
  MaxSent          \* bound: the timer stops after this many messages

Signals == {"rtmin", "int", "term"}

ArgsType == [parse : {"ok", "success", "failure"},
             channel : Int, message : Int, value : Int, tempo : Int,
             repeats_given : BOOLEAN, repeats : Int]

ASSUME TapperAssumption ==
  /\ Args \subseteq ArgsType
  /\ Devices \subseteq {"missing", "file", "chr"}
  /\ FailingCalls \subseteq {"open", "sigaction", "sigprocmask", "timer_create", "write",
                        "stdout"}
  /\ InheritedMasks \subseteq SUBSET {"int", "term"}
  /\ MaxSent \in Nat

VARIABLES
  args,       \* struct gengetopt_args_info
  pc,         \* the next statement of main
  running, trigger, serial_fd, midi_msg, i,
  handlers,   \* the signals for which sigaction was called
  blocked,    \* the signal mask
  pending,    \* signals raised and not yet delivered
  timer,      \* "none", "created", "armed" or "disarmed"
  exit        \* "alive", "success", "failure" or "killed"

VARIABLES     \* history
  sent,       \* calls of sendCC
  delivered,  \* calls of sendCC that put the whole message on the line
  late,       \* calls of sendCC made after the SIGINT handler ran
  owed,       \* settings of trigger minus messages sent
  due,        \* a timer signal was handled, and no message sent since
  slept       \* calls of usleep made since trigger was set (bound: 2)

setup   == <<args, serial_fd, midi_msg, handlers, blocked, timer>>
history == <<sent, delivered, late, owed, due, slept>>
flags   == <<running, trigger, i>>
vars    == <<setup, history, flags, pc, pending, exit>>

TypeOK ==
  /\ args \in Args
  /\ pc \in {"parse", "stat", "midi", "open", "sigtimer", "sigint", "block", "create",
             "arm", "unblock", "loop", "usleep", "asleep", "check", "clear", "send",
             "count", "close", "done"}
  /\ running \in BOOLEAN /\ trigger \in BOOLEAN
  /\ serial_fd \in {-1, 3} /\ i \in Nat
  /\ midi_msg \in (0..255) \X (0..255) \X (0..255)
  /\ handlers \subseteq {"rtmin", "int"}
  /\ blocked \subseteq Signals /\ pending \subseteq Signals
  /\ timer \in {"none", "created", "armed", "disarmed"}
  /\ exit \in {"alive", "success", "failure", "killed"}
  /\ sent \in Nat /\ delivered \in Nat /\ late \in Nat
  /\ owed \in Int /\ due \in BOOLEAN /\ slept \in Nat

Init ==
  /\ args \in Args
  /\ pc = "parse"
  /\ running = TRUE /\ trigger = FALSE /\ i = 0
  /\ serial_fd = -1
  /\ midi_msg = <<0, 0, 0>>
  /\ handlers = {}
  /\ blocked \in InheritedMasks
  /\ pending = {}
  /\ timer = "none"
  /\ exit = "alive"
  /\ sent = 0 /\ delivered = 0 /\ late = 0 /\ owed = 0 /\ due = FALSE /\ slept = 0

----------------------------------------------------------------------------
(* Getting ready: main from the command line to the loop.                  *)

At(p)      == exit = "alive" /\ pc = p
Goto(p)    == pc' = p /\ exit' = exit
MayFail(c) == c \in FailingCalls

\* Every way out prints, at the latest when exit flushes stdout.  Under the
\* gateway that is a pipe, and SIGPIPE kills once its reader is gone.
Exit(status) ==
  /\ pc' = "done"
  /\ exit' \in {status} \union (IF MayFail("stdout") THEN {"killed"} ELSE {})

\* An unsigned char made of an int, and ((MIDI_CC << 4) | channel) as one:
\* bits 7, 5 and 4 are set already, bit 6 and the low nibble come from c.
ByteMutNoCast(n) == n
Byte(n)       == n % 256
StatusByte(c) == 176 + (c % 16) + 64 * ((c \div 64) % 2)

ns_interval == bpm_to_ns(args.tempo)

Parse ==
  /\ At("parse")
  /\ IF args.parse = "ok" THEN Goto("stat") ELSE Exit(args.parse)
  /\ UNCHANGED <<setup, history, flags, pending>>

CheckSerial ==
  /\ At("stat")
  /\ \E d \in Devices : IF d = "chr" THEN Goto("midi") ELSE Exit("failure")
  /\ UNCHANGED <<setup, history, flags, pending>>

ChannelInRangeMutNone == TRUE
ChannelInRange        == args.channel \in 0..15

CheckMidi ==
  /\ At("midi")
  /\ IF ChannelInRange
     THEN /\ midi_msg' = <<StatusByte(args.channel), Byte(args.message), Byte(args.value)>>
          /\ Goto("open")
     ELSE Exit("failure") /\ UNCHANGED midi_msg
  /\ UNCHANGED <<args, serial_fd, handlers, blocked, timer, history, flags, pending>>

\* A failed open, like the failed tcgetattr and tcsetattr that follow it, is
\* printed and nothing more.
init_serial ==
  /\ At("open")
  /\ serial_fd' \in {3} \union (IF MayFail("open") THEN {-1} ELSE {})
  /\ Goto("sigtimer")
  /\ UNCHANGED <<args, midi_msg, handlers, blocked, timer, history, flags, pending>>

\* One of the two sigaction calls of init_sig_handlers.
Install(s, from, to) ==
  /\ At(from)
  /\ \/ handlers' = handlers \union {s} /\ Goto(to)
     \/ MayFail("sigaction") /\ Exit("failure") /\ UNCHANGED handlers
  /\ UNCHANGED <<args, serial_fd, midi_msg, blocked, timer, history, flags, pending>>

init_sig_handlersMutNoTimer == Install("int", "sigtimer", "block")
init_sig_handlers == Install("rtmin", "sigtimer", "sigint") \/ Install("int", "sigint", "block")

\* init_timer, one action per system call.  SIG_SETMASK replaces the
\* inherited mask.
TimerMaskMutSigBlock == blocked \union {"rtmin"}
TimerMask            == {"rtmin"}

BlockTimerSignal ==
  /\ At("block")
  /\ \/ blocked' = TimerMask /\ Goto("create")
     \/ MayFail("sigprocmask") /\ Exit("failure") /\ UNCHANGED blocked
  /\ UNCHANGED <<args, serial_fd, midi_msg, handlers, timer, history, flags, pending>>

CreateTimer ==
  /\ At("create")
  /\ \/ timer' = "created" /\ Goto("arm")
     \/ MayFail("timer_create") /\ Exit("failure") /\ UNCHANGED timer
  /\ UNCHANGED <<args, serial_fd, midi_msg, handlers, blocked, history, flags, pending>>

ArmTimer ==
  /\ At("arm")
  /\ IF ValidNsec(ns_interval)
     THEN timer' = (IF ns_interval = 0 THEN "disarmed" ELSE "armed") /\ Goto("unblock")
     ELSE Exit("failure") /\ UNCHANGED timer
  /\ UNCHANGED <<args, serial_fd, midi_msg, handlers, blocked, history, flags, pending>>

UnblockTimerSignal ==
  /\ At("unblock")
  /\ \/ blocked' = blocked \ {"rtmin"} /\ Goto("loop")
     \/ MayFail("sigprocmask") /\ Exit("failure") /\ UNCHANGED blocked
  /\ UNCHANGED <<args, serial_fd, midi_msg, handlers, timer, history, flags, pending>>

----------------------------------------------------------------------------
(* The loop of main, statement by statement.                               *)

StayInLoopMutForever == TRUE
StayInLoop           == running

IterateMutNoRecheck == Goto("usleep")
Iterate             == Goto("loop")

BeatDueMutCountsFirst == trigger /\ i < args.repeats
BeatDue               == trigger

RepeatsDoneMutPostIncrement == args.repeats_given /\ i >= args.repeats
RepeatsDoneMutEqual         == args.repeats_given /\ i + 1 = args.repeats
RepeatsDone                 == args.repeats_given /\ i + 1 >= args.repeats

Loop ==
  /\ At("loop")
  /\ Goto(IF StayInLoop THEN "usleep" ELSE "close")
  /\ UNCHANGED <<setup, history, flags, pending>>

\* usleep enters the kernel: from here on a signal handler cuts it short.
EnterSleep ==
  /\ At("usleep")
  /\ Goto("asleep")
  /\ slept' = IF trigger /\ slept < 2 THEN slept + 1 ELSE slept
  /\ UNCHANGED <<setup, flags, pending, sent, delivered, late, owed, due>>

SleepTimeout ==
  /\ At("asleep")
  /\ Goto("check")
  /\ UNCHANGED <<setup, history, flags, pending>>

Check ==
  /\ At("check")
  /\ IF BeatDue THEN Goto("clear") ELSE Iterate
  /\ UNCHANGED <<setup, history, flags, pending>>

Clear ==
  /\ At("clear")
  /\ trigger' = FALSE
  /\ slept' = 0
  /\ Goto("send")
  /\ UNCHANGED <<setup, running, i, pending, sent, delivered, late, owed, due>>

\* write() on the non-blocking descriptor; its result is not looked at.
WriteMessage ==
  /\ At("send")
  /\ Goto("count")
  /\ sent' = sent + 1
  /\ late' = IF running THEN late ELSE late + 1
  /\ owed' = owed - 1
  /\ due' = FALSE
  /\ delivered' \in (IF serial_fd = -1 THEN {delivered}
                     ELSE {delivered + 1} \union (IF MayFail("write") THEN {delivered} ELSE {}))
  /\ UNCHANGED <<setup, pending, slept, running, i>>

sendCCMutClearsAfter == WriteMessage /\ trigger' = FALSE
sendCC               == WriteMessage /\ UNCHANGED trigger

Count ==
  /\ At("count")
  /\ i' = IF args.repeats_given THEN i + 1 ELSE i
  /\ IF RepeatsDone THEN Goto("close") ELSE Iterate
  /\ UNCHANGED <<setup, history, running, trigger, pending>>

\* close_serial, then return 0 whether close succeeds or not.
close_serial ==
  /\ At("close")
  /\ Exit("success")
  /\ UNCHANGED <<setup, history, flags, pending>>

Main == \/ Parse \/ CheckSerial \/ CheckMidi \/ init_serial \/ init_sig_handlers
        \/ BlockTimerSignal \/ CreateTimer \/ ArmTimer \/ UnblockTimerSignal
        \/ Loop \/ EnterSleep \/ SleepTimeout \/ Check \/ Clear \/ sendCC \/ Count
        \/ close_serial

----------------------------------------------------------------------------
(* Signals.                                                                *)

\* The kernel queues at most one SIGRTMIN for a timer; an expiration that
\* finds it pending is only counted as an overrun.
TimerExpires ==
  /\ exit = "alive" /\ timer = "armed"
  /\ "rtmin" \notin pending
  /\ sent < MaxSent
  /\ pending' = pending \union {"rtmin"}
  /\ UNCHANGED <<setup, history, flags, pc, exit>>

\* Somebody else, the gateway or a user, sends SIGINT or SIGTERM.
Kill(s) ==
  /\ exit = "alive"
  /\ s \notin pending
  /\ pending' = pending \union {s}
  /\ UNCHANGED <<setup, history, flags, pc, exit>>

Deliver(s) ==
  /\ exit = "alive"
  /\ s \in pending \ blocked
  /\ pending' = pending \ {s}

\* usleep returns early (EINTR) when a handler has run.
Handled(s) ==
  /\ Deliver(s)
  /\ s \in handlers
  /\ Goto(IF pc = "asleep" THEN "check" ELSE pc)

handler_timer ==
  /\ Handled("rtmin")
  /\ trigger' = TRUE
  /\ owed' = IF trigger THEN owed ELSE owed + 1
  /\ due' = TRUE
  /\ UNCHANGED <<setup, running, i, sent, delivered, late, slept>>

handler_intMutResetHand ==
  /\ Handled("int")
  /\ running' = FALSE
  /\ handlers' = handlers \ {"int"}
  /\ UNCHANGED <<args, serial_fd, midi_msg, blocked, timer, history, trigger, i>>

handler_int ==
  /\ Handled("int")
  /\ running' = FALSE
  /\ UNCHANGED <<setup, history, trigger, i>>

DefaultAction(s) ==
  /\ Deliver(s)
  /\ s \notin handlers
  /\ Exit("killed")
  /\ UNCHANGED <<setup, history, flags>>

Delivery == handler_timer \/ handler_int \/ \E s \in Signals : DefaultAction(s)

Terminated == exit # "alive" /\ UNCHANGED vars

Next == \/ Main
        \/ TimerExpires
        \/ \E s \in {"int", "term"} : Kill(s)
        \/ Delivery
        \/ Terminated

\* The main thread runs, the timer goes off and the kernel delivers signals.
\* Nobody is obliged to send SIGINT or SIGTERM.
Fairness ==
  /\ WF_vars(Main)
  /\ WF_vars(TimerExpires)
  /\ WF_vars(handler_timer)
  /\ WF_vars(handler_int)
  /\ \A s \in Signals : WF_vars(DefaultAction(s))

SafeSpec == Init /\ [][Next]_vars
Spec     == SafeSpec /\ Fairness

----------------------------------------------------------------------------
(* Safety.                                                                 *)

InLoop == pc \in {"loop", "usleep", "asleep", "check", "clear", "send", "count", "close"}

AtLeastOne(n) == IF n > 1 THEN n ELSE 1

\* Once the SIGINT handler has run, at most one more message goes out,
\* wherever in the loop the signal found the main thread (lines 256-273).
AtMostOneLateBeat == late <= 1

\* Every message answers one distinct setting of trigger, every setting is
\* answered, and no timer signal is forgotten: one that finds the flag set, as
\* between its test and its reset (lines 258-259) or during a long iteration,
\* merges with the beat before, but a message still goes out after it.
BeatsBalance ==
  exit = "alive" =>
    /\ owed = (IF trigger THEN 1 ELSE 0) + (IF pc = "send" THEN 1 ELSE 0)
    /\ due => trigger \/ pc = "send"

\* A beat waits for at most one 25 ms usleep, even when the timer signal
\* arrives between the test of trigger and the next usleep (lines 257-258).
BeatWaitsOneSleep == slept <= 1

\* With -r the tapper sends no more than the repeats asked for, one if fewer
\* were asked for; and it exits with success only after a SIGINT or after
\* exactly that many messages (lines 256, 268-277).
RepeatsRespected ==
  /\ args.repeats_given => sent <= AtLeastOne(args.repeats)
  /\ exit = "success" /\ args.parse = "ok" /\ running =>
       args.repeats_given /\ sent = AtLeastOne(args.repeats)

\* The timer signal never finds its default action, which would kill the
\* process: its handler is in place before the timer can fire (lines 251-252).
TickIsHandled == "rtmin" \in pending => "rtmin" \in handlers

\* In the loop no signal is blocked, whatever mask the parent passed on
\* (lines 102-135), so that SIGINT and SIGTERM reach the tapper.
NothingBlockedInLoop == InLoop => blocked = {}

\* What goes out is a control change on the channel asked for, with the number
\* and the value asked for where these are in the documented range; no other
\* channel is ever played, whatever int the parser delivers (lines 236-243).
MessageAsAsked ==
  sent > 0 => /\ midi_msg[1] \in 176..191
              /\ midi_msg[1] - 176 = args.channel
              /\ args.message \in 0..255 => midi_msg[2] = args.message
              /\ args.value \in 0..255 => midi_msg[3] = args.value

\* On an LP64 machine: a timer that runs keeps the tempo asked for, and a
\* timer is left disarmed only for a tempo that is not positive
\* (lines 121-129, 192-197).
TempoKept ==
  /\ timer = "armed" => /\ args.tempo > 0
                        /\ ns_interval * args.tempo <= NsPerMinute
                        /\ NsPerMinute < (ns_interval + 1) * args.tempo
  /\ timer = "disarmed" => args.tempo <= 0

----------------------------------------------------------------------------
(* Action and liveness properties.                                         *)

\* In the loop only SIGTERM kills the process: however often SIGINT and the
\* timer signal come, they take the orderly way out (lines 71-92, 276-277), on
\* which the last output may still find its pipe closed.
LastOutputFails == pc = "close" /\ MayFail("stdout")

OnlyTermKills ==
  [][InLoop /\ exit' = "killed" /\ exit = "alive" =>
       "term" \in pending \/ LastOutputFails]_vars

\* A SIGINT sent to the tapper ends it.
IntEnds == "int" \in pending \/ ~running ~> exit # "alive"

\* A beat is sent, unless the process ends first.
BeatIsSent == trigger ~> pc = "send" \/ exit # "alive"

\* With -r and a running timer the tapper ends by itself.
RepeatsEnd == args.repeats_given /\ timer = "armed" ~> exit # "alive"

----------------------------------------------------------------------------
(* Refinement: the tapper is a TapProcess.                                 *)

Phase == CASE exit # "alive" -> "dead"
           [] exit = "alive" /\ ~running -> "stopping"
           [] exit = "alive" /\ running /\ "int" \in handlers -> "tapping"
           [] exit = "alive" /\ running /\ "int" \notin handlers -> "starting"

Process == INSTANCE TapProcess
             WITH state <- Phase,
                  pend <- IF exit = "alive" THEN pending \ {"rtmin"} ELSE {}

ProcessSpec == Process!PSpec
============================================================================
