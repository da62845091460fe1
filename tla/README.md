# midigw in TLA+

midigw lets an HTTP client play MIDI control changes on a serial port: a Flask
gateway (`src/src/midi-gw.py`) starts and stops a C program, `midi-tapper`
(`src/src/tapper.c`), that sends one control change per beat.  This directory
holds the models of that system, the TLC runs that check them and the proofs
TLAPS checks.  Paths below start at the repository's parent, as in
`PROJECT.json`, which lists for each definition the lines it models.

## 1. The system

| component | state | operations | talks to |
|---|---|---|---|
| **midi-tapper** `src/src/tapper.c` | `running`, `trigger`, `serial_fd`, `midi_msg`, loop counter `i`; in the kernel: handlers, signal mask, pending signals, the timer | `main` (parse, check the device and the channel, open it, install handlers, arm the timer, loop), `handler_timer`, `handler_int` | is signalled by its timer and by the gateway, writes to the serial line |
| **tempo arithmetic** `bpm_to_ns` in `tapper.c`, `drift.c` and the sandbox | none | beats per minute to a timer interval | `timer_settime` |
| **gateway** `src/src/midi-gw.py` | the global `tap_proc`; one thread per request | `/midi/tap/start`, `/midi/tap/stop`, `/midi/cc`, `/ping`, `check_deps` at start | starts and signals tappers, writes to the serial line itself |
| **systemd unit** `src/config/midigw.service` | whether the gateway runs | restarts it 5 s after it ended | kills what the gateway left in its control group |
| **option parser** `src/src/cmdline.c/.h`, generated from `tapper.ggo` | `struct gengetopt_args_info`, a local copy, heap strings | parse, parse again, free | called once by the tapper |
| **drift.c** | `timer_last`, `timer_waited`, `timer_drift`, `running`, `trigger` | measures how far a timer or a sleep is off | not built by `CMakeLists.txt` |
| **serial line** | the driver's queue, shared by every descriptor that is open on it; at its end a MIDI receiver with its running status | bytes queue up, bytes go out | written by the tappers (one non-blocking `write`, result ignored), by `/midi/cc` (pyserial, until all is queued) and by `src/sandbox/midi_so.c` (one blocking `write`) |
| **polling loops** `src/sandbox/st.c`, `ttt.c`, `old.midi.c`, and under OLDSTUFF in `tapper.c` | a free-running counter, `next` or `last` | earlier tappers without a timer | not built |
| **sandbox** `src/sandbox/midi_so.c`, `timer.c`, `midi.py`, `clock.c` | as the tapper | earlier drafts and experiments | not built |

What is hard here:

* a signal can arrive between any two statements of `main`; two flags are all
  that handlers and loop share;
* the gateway's request threads interleave between any two statements and read
  the same global three times in one request;
* a tapper ends by itself, is killed, is forgotten, outlives a gateway that
  crashes; a gateway that crashes is started again;
* numbers at their edges: a tempo whose interval does not fit, a repeat count
  of zero, ints put into bytes;
* failures that are printed and otherwise ignored;
* writers that know nothing of each other on one line, in pieces whose size the
  driver's queue decides, and a receiver that remembers the last status byte;
* counters that start over.

`hazards` in `PROJECT.json` lists them one by one, at the line where each
bites, with the properties that watch it.

### What makes each component right

* **midi-tapper**: beats signalled are beats sent, once each and soon; once
  asked to stop it sends at most one more message; it stops after the repeats
  asked for; nothing but SIGTERM kills it once it taps; it plays the channel
  asked for, in the tempo asked for.
* **gateway**: a stop stops the tapper that was started; a stop fails only for
  a reason; no tapper escapes clients that take turns; after a crash there is
  no tapper from before.
* **serial line**: a message is heard as what it is, or not at all; bytes that
  get lost do not turn into another message; a request is answered.
* **polling loops**: one beat per beat, wherever the counter stands.
* **drift.c**: what is printed is the time that passed; no beat is left out.
* **option parser**: a parse that returns has stored what the command line
  says, with numbers too large for an int wrapped; one that fails had a reason; each string is freed once.

## 2. The modules

| module | models | kind |
|---|---|---|
| `Tempo` | `bpm_to_ns`, the cast to `long`, what `timer_settime` accepts | operators |
| `TapProcess` | what a tapper promises to whoever started it | abstract specification |
| `Tapper` | `tapper.c` statement by statement, with signals | detailed specification, implements `TapProcess` |
| `TapperProof`, `TapperRefinement` | the theorems about `Tapper` | proofs |
| `MCTapper`, `TapperClaims` | command lines for TLC; what `tapper.ggo` says and the program does not do | model checking |
| `Gateway` | the request threads, `tap_proc`, systemd; every tapper is an instance of `TapProcess` | composition |
| `OneTapper` | what the gateway promises to clients that take turns: one tapper at a time | abstract specification |
| `MCGateway`, `GatewayProof`, `GatewayRefinement` | symmetry; the theorems about `Gateway` | model checking, proofs |
| `Cmdline`, `MCCmdline`, `CmdlineProof` | the option parser; short command lines; the theorems about it | specification, model checking, proofs |
| `SerialLine`, `MCSerialLine`, `SerialLineProof` | the driver's queue, the three kinds of writer, `/midi/cc`, the receiver; messages for TLC; the theorems about it | specification, model checking, proofs |
| `PollLoop`, `PollLoopProof` | four polling loops on a counter that wraps; the theorems about them | specification, proofs |
| `Drift`, `DriftProof` | `drift.c`: its three ways to wait, its timer, its handlers; the theorems about it | specification, proofs |

### Tapper

`pc` is the statement `main` executes next.  `Parse` to `UnblockTimerSignal`
are the statements from the command line to the loop: `init_timer` is one
action for each of its four system calls, `init_sig_handlers` one for each
`sigaction`.  The loop is cut at every access to a shared flag: `Loop` tests
`running`, `EnterSleep` and `SleepTimeout` are `usleep`, `Check` tests
`trigger`, `Clear` resets it, `sendCC` writes, `Count` is the repeat test.
`handler_timer` and `handler_int` may run between any two of these; one that
runs while `pc = "asleep"` ends the sleep (`EINTR`).

The kernel is what POSIX says: one pending SIGRTMIN per timer, a blocked
signal stays pending, a signal without a handler kills.  A system call that
the code does not check after printing (`open`, `tcgetattr`, `tcsetattr`), or
not at all (`write`), fails silently; one it checks ends the program.  `FailingCalls`
names them.  "stdout" among them is the pipe the gateway gives its tappers and never
reads: if nobody holds its other end any more, what `close_serial` prints and the
program flushes as it returns raises SIGPIPE (`Exit`).  The
termios flags have no part in the model.  The parser appears as its outcome,
`args`; `Cmdline` models how it comes about.

`sent`, `delivered`, `late`, `owed`, `due` and `slept` are history: they count
messages, settings of the flag and sleeps, `due` says that a timer signal was
handled and no message sent since, and no action reads them, except that the timer
stops after `MaxSent` messages.

### Gateway

Each thread runs one request at a time.  A start is `Spawn` (Popen, which may
raise) and `Assign`; a stop is `Check`, and then twice `Load` (the global is
read again) and `send_signal`, and at last `Clear`.  The second of sleep
between the two signals is not a number: between any two statements the other
threads and the tappers take any number of steps.  A tapper does what
`TapProcess` allows and nothing is known of its options, so it may also give
up at any time.  `Crash` is any end of the gateway process; systemd's reaction
(SIGTERM to the control group, a restart when that is empty) is modelled from
the unit file, which leaves `KillMode` at its default.

`OneTapper` is the same system without threads, requests and `Popen` objects: a
tapper is started, ends or is stopped; clients may break the rule of taking
turns, after which nothing is promised; a crash stops everything.  A tapper of
`Gateway` is `playing` there while it is alive and SIGTERM is not pending for
it, and `stopped` afterwards; a tapper that dies before it plays a note played
all the same.  `OneAtATime` says that `Gateway` implements it.

History: `asked` (which signals a tapper was sent), `rival` (which requests
overlapped this thread's), `raced` (tappers registered during a stop) and
`polite` (whether clients so far started tappers one at a time, with nothing
registered).

### Cmdline

One action per option `getopt_long` returns.  An argument is the number strtol
finds and whether anything follows it; a string is a number too.  The heap is
counted: which fields hold a string, how many strings no field holds any more
(`leaked`), and whether one was freed twice.  `Stack` is what the caller's struct,
an automatic variable, may hold before it is initialised; its pointers then
point to nothing that could be lost (`Lost`).  An option that is given twice fails
before it changes anything, a malformed number after its value was stored.

### Drift

`method` is one of the three calls in `main` of which two are commented out;
as committed it is "usleep".  The clock is what the code reads of it: `nsec`,
which starts again every second.  `Delay` lets any time pass between two
statements; the timer expires when `to_go` units are over.  The arguments of
the `printf` at line 255 are read one after the other, in either order, and
the handler may run in between.  `get_now_ns` is cut between the call that
fills its static buffer and the use of that buffer.  History: `since`, the
time since the reading the next measurement starts from, and `real`, the true
length of the last one.  Signals are taken to be unblocked at the start.

### SerialLine

`line` is what is queued: each byte as a place (1 to 3) in a message.  A tapper
(`sendCC`) queues what fits of its three bytes and forgets the rest; while a
draft of the earlier kind sleeps inside its blocking `write` it queues nothing,
for the tty takes one writer at a time.  `Push` is that blocking write: it
goes on as the queue drains, until all is queued or `handler` (SIGRTMIN, without
SA_RESTART) interrupts it.  The flag that starts it is abstracted: a beat may
begin whenever nothing holds the device.  A `/midi/cc` thread goes through
`midi_cc`, `OpenSerial` (`bytes()` may raise before, `serial.Serial` in it) and
then as often as needed `Write` and `Select`, as pyserial does: one `os.write`
of what is left, then a wait until the device is writable, which the kernel
says when fewer than `Wakeup` bytes are queued.  `Crash` ends the gateway with
any number of bytes written, `WriteFails` one request: with `DeviceFails` the
device may refuse to be opened, and an `os.write` may fail before or in the middle
of a message, whose bytes so far stay queued.  `Transmit` sends one byte to the receiver, whose
`status` and `data` are what MIDI 1.0 has it remember; `Heard` is the message
the byte makes it act on.

`torn` and the field of that name are history: bytes of another writer were
queued between the bytes of this message.

The gateway's other requests touch nothing of this, so the two are not
composed; several threads of one gateway, the tappers it started and those of
another gateway are all just writers here.

### PollLoop

`loop` says which of the four programs runs.  `mark` is `next`, or `last` in the
loop that reads the clock.  `Elapse` moves `counter`; between two steps of a loop
at most `Gap` units pass, its `usleep` and its time off the processor included.
`since` (time since the reading `mark` comes from) and `idle` (since the last
step) are history.

## 3. The runs

| run | bounds | shows |
|---|---|---|
| `Tapper` | 21 command lines: each way the parser ends, the edges of channel, tempo and repeats; every system call may fail, the output at exit too; three inherited masks; 4 messages | safety on an LP64 machine; SIGINT ends the tapper, beats are sent, a repeat count ends it; `Tapper` implements `TapProcess` |
| `Gateway_safety` | 2 threads, 3 tappers | what overlapping requests can and cannot do |
| `Gateway_live` | 2 threads, 2 tappers, 1 restart, fairness | `Gateway` implements `OneTapper`; a signalled tapper dies; the unit comes back |
| `Cmdline_parse` | all command lines of up to 2 of 10 words and two of 3, two calls, all parameters, 16 contents of the struct on the stack | values, errors, ownership |
| `Drift` | all three ways to wait, every starting phase of the clock, a second of 4 units and a beat of 3, waits of up to 9 units | measurements, reports, the end |
| `SerialLine` | 1 tapper, 1 draft, 2 threads; a queue of 3 bytes, writable below 2; three requests: in range, a channel that makes a system message with a value that is a status byte, a channel that makes no byte; the device may fail at any call; fairness | what the receiver hears, that requests are answered |
| `PollLoop` | all four loops, a counter of 12 values, beats of 4, up to 3 units between two steps, silences of up to 90; fairness | where beats are early or late, the end |
| `Claim_*` | see the cfg | five places where the code departs from its own words |

Why the bounds are enough: the tapper's loop keeps nothing from one iteration
to the next but the flags and `i`, so two messages already show every order of
handler and loop, and four exceed every repeat count of the run.  In the
gateway a stop looks at `tap_proc` three times and can meet at most that many
tappers; two threads suffice for every overlap of two requests.  In the parser
an option interacts with itself only, so two uses in one call, or one in each
of two calls, are all the cases.  In `Drift` a wait of up to 9 units
crosses the end of a second twice, and from every phase.  A queue of
three bytes is the smallest that a message fills, so every way to cut one
occurs, and so do a message inside another's gap and one that follows a piece;
the proofs cover every size and every number of writers.  `Longest` in
`PollLoop` is seven turns of the counter: the pause is five, and a loop that
misses its beat may go on missing it.  Time in `Tapper` is counted in microseconds,
for TLC's integers have 32 bits; `Tempo` takes the unit as a constant and the
proof covers nanoseconds.

`CHECK_DEADLOCK FALSE` is set where the model really stops: the gateway after
the last restart and when no tapper is left to start, the parser and `drift` at
exit, the polling loops after SIGINT.

### Properties of the tapper

* `AtMostOneLateBeat`, `BeatWaitsOneSleep`: what SIGINT or the timer signal may
  meet in the loop (lines 256-263).
* `BeatsBalance`: each setting of the flag is answered by one message, and after
  each timer signal a message still goes out.  One that finds the flag set, as
  between its test (258) and its reset (259), merges with the one before; it would be
  forgotten if the flag were reset after the message.
* `RepeatsRespected`: `-r n` sends exactly max(n, 1) messages unless SIGINT
  comes first.
* `TickIsHandled`, `NothingBlockedInLoop`, `OnlyTermKills`: the order in which
  handlers, mask and timer are set up (lines 71-136).  The last allows for one other
  death, SIGPIPE at `close`, with the closed pipe described above.
* `MessageAsAsked`, `TempoKept`: what is sent, and how often.
* `IntEnds`, `BeatIsSent`, `RepeatsEnd` under weak fairness of the main
  thread, the timer and the delivery of signals - what the kernel's scheduler
  gives every process.  Nobody is obliged to send a signal.

### Properties of the gateway

* `StopErrorNeedsRival`: a stop ends in a 500 only if another stop overlapped.
* `IntComesFirst`: a stop sends SIGTERM to a tapper, or forgets one, without an
  earlier SIGINT only if that tapper was registered while a stop was under way.
  That does happen: the tapper then taps on with nothing pointing to it.
* `PoliteNoOrphan`, `PoliteStopStops`: clients that start a tapper only when
  none is registered and nothing else is under way lose none, even if their
  stops overlap, and "Not running" is true.
* `OneAtATime`: seen from outside, such clients never hear two tappers at once,
  and a tapper once stopped stays stopped, across a crash and a restart.
* `StopKills`, `ServiceComesBack` under weak fairness of each thread, of
  systemd, and of the three steps `TapProcess` promises.

### Properties of the serial line

* `IntactIsHeard`: a control change within MIDI's ranges whose bytes nobody
  else's came between is heard as what it is, whatever was left unfinished
  before it.  A tapper's message, which goes out in one piece or loses its end,
  is thus heard even in the middle of somebody else's.
* `NothingInvented`: the receiver hears what nobody sent only at a byte of a
  `/midi/cc` message that was torn, or of a message out of MIDI's ranges.  What
  tappers and drafts lose or cut short never completes another message; the
  exceptions do occur (two requests at once, a value above 127, which
  `tapper.ggo` lines 14 and 17 offer).
* `TypeOK` says among other things that no byte is written that is none: a
  channel of 256 and above ends in a 500 before anything is written.
* `CcAnswered`: once tappers and clients leave the line alone, every request is
  answered.  Without that condition it is false: only weak fairness is assumed
  of threads and of the line, and a tapper may fill the queue whenever a thread
  finds it full again.

### Properties of the polling loops

* `EarlyOnlyAtTheTop`: a beat comes early only while the counter is within one
  beat of its end, where `next` has overflowed - there every poll sends one.
  The clock's loop never beats early.
* `LateOnlyAtTheTop`: a loop is silent longer than a beat and `Gap` only if
  `next` lies less than `Gap` below the counter's end, where a poll may miss it;
  the clock's loop only after its eighth beat, and then not longer than its
  pause, a beat and two steps.
* `IntEnds` under weak fairness of time and of the loop.

### Properties of the drift measurement

* `MeasuredModuloASecond`: what is printed as waited is the true time less
  whole seconds, whatever signals and delays come in between.  A wait of 1.53 s
  is thus reported as 0.53 s.
* `TornLineIsFollowed`: a line that mixes two beats leaves the flag set, so
  another line follows.
* `BeatIsReported`: whenever the flag is set, also while a line is put together, a
  line is still to come, unless the program ends.
* It and `IntEnds` need weak fairness of the main thread and of signal delivery.

### Where the code departs from its words

| run | what happens |
|---|---|
| `Claim_tempo` | 60 bpm or less: `tv_nsec` is a second or more, `timer_settime` answers EINVAL, the tapper exits |
| `Claim_long32` | 32-bit `long`: 12 bpm, an interval cut to 705 ms, is tapped as 85 (13 as 187, and so on) |
| `Claim_default` | `-r -1`, the default, stops after one message |
| `Claim_delivery` | the device cannot be opened or written: repeats are counted, exit with success |
| `Claim_orphan` | a second start leaves the first tapper running for good |

## 4. The proofs

`TapperProof` proves every safety property of the run `Tapper`, for every set of
command lines, failing calls, devices, inherited masks, and every bound.  The
assumptions are `TapperAssumption` and `TempoAssumption`, which say what type
the constants have.

None of the properties is inductive.  `IInv` adds to the types:

* `SetupInv`: what `pc` says of handlers and mask.  "int" is not blocked in
  the loop because SIG_SETMASK replaced the inherited mask before the loop.
* `LateInv`: once the late message is sent, `main` is on its way to the test
  of `running`.
* `OwedInv`: at `Clear` the flag is still set, for only `Clear` resets it; and it is
  set, or the message about to be sent, while a timer signal is unanswered.
* `SleptInv`: a sleep entered with the flag set is followed by the test that
  sees it.
* `RepeatInv`: outside `Count`, `sent = i` and the count is not reached.
* `MessageInv`: from `CheckMidi` on the message is the right one.

`InitIInv` and `NextIInv` prove it inductive, with one step per action and
under it one per part.  `TempoIsKept` needs two more facts: a long that holds a
minute, and a tempo not above the number of clock units in one - true of an
int and nanoseconds.

Two theorems say of every tempo what `Claim_tempo` shows of one.
`TappableTempos` is arithmetic: with a long that holds a minute of nanoseconds,
the interval is one `timer_settime` accepts and is not zero exactly if the tempo
is above 60 (`RefusedTempos`, `AcceptedTempos`).  `SlowTemposAreSilent` carries
this to the program: no beat is ever signalled and no message sent unless the
tempo asked for is above 60.  Its invariant `BeatNeedsTimer` says that a beat
or a message needs an armed timer, and an armed timer such a tempo.

`TapperRefinement` proves `KeepsContract`: `Tapper` implements the safety part
of `TapProcess`, with `HandlerInv` (the flag is cleared only by an installed
handler) as the extra invariant.  It also proves `StopIsNear`, the safety half of
`IntEnds`: `Left` counts the statements `main` has still to execute, once
`running` is cleared at most eight; each statement of `main` lowers it and no
signal, beat or expiry of the timer raises it.  What is left for liveness is
that `main` is scheduled.  `IntLast` says that `handler_int` is installed last but
for the timer, so that SIGINT never meets `main` further up.  `DriftProof` and `PollLoopProof` prove the same of their
programs (at most eight statements, at most three steps), with `HandlerInv` and
`KilledInv`.

`DriftProof` proves `MeasuredModuloASecond` and `TornLineIsFollowed` for every
length of a second and of a beat and for every delay, from `DriftAssumption`
(a beat of 114 bpm is not longer than a second).  Its invariant has three parts
beside the types: `SignalInv` (no beat before `timer_last` is set, and only with
the timer method), `ReadingInv` (the reading a measurement starts from is
`since` units old, modulo a second) and `TornInv` (the handler's two results
belong together; a half-read line that was overtaken leaves the flag set).
`ReadingAges` is the arithmetic: a reading that fits goes on fitting while the
clock runs past the end of a second.

`SerialLineProof` proves `TypeOK`, `IntactIsHeard` and `NothingInvented` for any
number of tappers, drafts and threads, any messages and any size of the queue,
from `SerialAssumption`.  The idea is one link: an untorn byte that is not the
first of its message follows the byte before it.  `LinkedInv` says it of two
neighbours in the queue, `HeadInv` of the byte at the head and the receiver
(`After`: what the receiver remembers of a message in MIDI's ranges), `HalfInv`
of a writer that is in the middle of a message and the end of the queue
(`LastQueued`).  `RequestInv` and `BusyInv` say when a writer is in the middle:
a thread only between its writes, a draft only while it holds the device.
`QueueKeeps` and `TransmitKeeps` show that adding bytes and taking one keep the
links, whoever wrote them; the steps of the writers then only differ in what
they leave half done.

Two more theorems follow.  `TappersAreNeverMisheard` says what users rely on
when they tap and leave `/midi/cc` alone: any number of tappers and drafts are
heard whole or not at all (its hypothesis is that of the C side, messages in
MIDI's ranges, and an empty set of requests).  `RequestIsShort` is the safety half of
`CcAnswered`: a thread has at most nine steps left (`Left`), each of its steps
lowers that, for a write queues at least one byte, and nobody else's raises it.
What only TLC shows is that the queue has room again and again.

`PollLoopProof` proves `EarlyOnlyAtTheTop` and `LateOnlyAtTheTop` for every
size of the counter, beat and distance of polls that `PollAssumption` allows (a
`Gap` shorter than a beat, and a beat and a `Gap` not longer than the counter).
`SyncInv` ties the counter to the time since the last reading for six turns,
one more than the pause lasts; `PolledInv` says that the poll before came
before the beat was due.  `DueInTime` is the arithmetic of the wrap.

`GatewayProof` proves the five invariants of the run `Gateway_safety` for any
number of threads, tappers and restarts, from `GatewayAssumption` (None is no
tapper).  Of a tapper it uses only what `ContractFacts` reads off `TapProcess`.
`IInv` adds to the types:

* `HandInv`: a thread has an object in hand at exactly the statements that need
  one; nobody signals an unborn tapper; a SIGTERM sent to a tapper that lives
  is still pending.
* `RivalInv`: two stops under way know of each other, and a stop that passed the
  test of `tap_proc` and finds None has a rival, for only `Clear` resets it.
* `RacedInv`: at each statement of `stop_tap_proc`, the tapper it would signal
  next, or forget, got SIGINT or was registered behind its back.
* `ServiceInv`: while the gateway does not serve nothing is registered or under
  way, and it boots only in an empty control group.
* `PoliteInv`: with polite clients a start has the gateway for itself, and a stop
  deals with the registered tapper or finds that another stop has done so.

There is one lemma per statement.  `OnlyOneMoved` and `AnswerKeepsRivals` say
what all the statements of one thread leave to the others.

`GatewayRefinement` looks at the gateway from outside.  `ThreadIs`,
`ServiceIsApart` and `TapperIs` sort its steps by what they are to the tappers:
nothing (`Apart`), a birth (`Born`, with nobody playing if the clients are
polite: `NobodyPlays`), a signal (`Signalled`), a step of one tapper.  From this
follow

* `TappersKeepContract`: whatever the gateway and systemd do to it, each tapper
  goes through a behaviour of `TapProcess` - the composition adds no step that
  the C program, which `KeepsContract` shows to implement the same contract,
  does not have.  It holds only because nobody signals an unborn tapper
  (`UnbornUntouched`, from `HandInv`).
* `OneTapperAtATime`: the property `OneAtATime` for any number of threads,
  tappers and restarts.
* `PoliteHearOne`: with polite clients two tappers that play are the same one.
  It is proved of `OneTapper` and holds of the gateway by refinement.
* `Doomed` and `UnitEmpties`, the safety halves of `StopKills` and
  `ServiceComesBack`: a tapper that was sent a signal has it pending, is
  stopping or is dead, and no step takes that back; while the unit is down all
  that is alive in its control group has SIGTERM pending.

`CmdlineProof` proves all five invariants of the run `Cmdline_parse` for command
lines of any length, ints and longs of any size and any number of parses, from
`CmdlineAssumption`, which says what a word is.  `OptionInv` is the invariant of
the getopt loop: an option is `Settled` with regard to its uses among the words
read so far (`Done`), and `local_args_info` counts the one use that took effect;
it becomes a statement about all its uses when no option is left.  `HeapInv`
says that a tidy caller holds no string when a parse begins, and that a parse
that initialised has no inputs to lose or to free twice.  `ReadsValue` says of
`Value`, which stores by shifting and cutting, what the property asks for: an int that differs
from the number by whole turns (`WholeTurns`, `CastTurns`).

`FirstParse` is what follows for midi-tapper, which parses once into a fresh
struct, and what `Tapper` takes for granted of `args`: each option has its
default and is not marked as given, or has the value of its only use, one that
fits an int (`CastFits`), and is marked as given once.  `GivenInv` adds the
`..._given` counters of the caller's struct to the invariant.

Only model-checked: the liveness properties themselves (`IntEnds`, `BeatIsSent`,
`RepeatsEnd`, `StopKills`, `ServiceComesBack`, `CcAnswered`, `BeatIsReported`)
and the fairness half of the contract (`ProcessSpec` includes it).  They need
fairness and ENABLED, which are beyond the prover.  The theorems
`StopIsNear`, `RequestIsShort`, `Doomed` and `UnitEmpties` prove the part of
them that is safety: the distance to the end is bounded, and no step gains
distance.

## 5. Not modelled

`/ping`, `usage`, getopt in the gateway, `cmdline_parser_dump` and
`cmdline_parser_file_save`: they print and keep no state.  The termios
settings, and with them the line's speed: 31250 is no speed constant, so the
C programs leave the speed at what it was, unchecked; `midi_so.c` also leaves
`c_oflag`, so a terminal that processes its output would send a carriage return with a
byte of value 10.  DEBUG output: the
gateway never reads the pipes it gives its tappers, and a build that prints on
every beat fills them and then prints only as far as the next timer signal
interrupts the write.  `sleep_ns_p`, `adjust_timer` and `main_foo` in `drift.c`,
which nothing calls.  In the sandbox: `timer.c`, which waits for a signal and
prints; the measurements that `clock.c`, `old.midi.c` (`test`) and `st.c`
(`main_old`) print; `midi.py`, one more pyserial writer.  `main_nanosleep` in
`tapper.c` under OLDSTUFF waits as `loop_nanosleep` in `drift.c` does.  How much
real time a statement takes: when beats merge because a write takes longer than
a beat, or whether a tapper ends within the gateway's second.

## 6. What could come next

* The parser as one atomic step: an abstract specification that maps a command
  line to values, implemented by `Cmdline`'s loop.
* The tapper in discrete time: when beats merge, and how long a stop takes against
  the gateway's second.
