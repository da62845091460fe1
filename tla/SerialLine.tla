----------------------------- MODULE SerialLine ----------------------------
(***************************************************************************)
(* The serial line that the tappers and the gateway's /midi/cc handler     *)
(* write to on descriptors of their own, and the MIDI receiver at its end. *)
(*                                                                         *)
(*   tapper.c     one write on a non-blocking descriptor, result ignored   *)
(*   midi_so.c    one write on a blocking descriptor, which the next timer *)
(*                signal interrupts; result ignored                        *)
(*   midi-gw.py   pyserial: writes on a non-blocking descriptor until all  *)
(*                bytes are queued                                         *)
(*                                                                         *)
(* The kernel, pyserial and the receiver are modelled from their use.      *)
(***************************************************************************)
EXTENDS Integers, Sequences

CONSTANTS
  Tappers,    \* the tappers (tapper.c)
  Drafts,     \* the tappers of the earlier kind (midi_so.c)
  Threads,    \* the gateway's threads that serve /midi/cc
  Beats,      \* the messages a tapper may have been started with
  Controls,   \* the <<channel, message, value>> a request may carry
  DeviceFails,\* whether the gateway may meet an error of the device
  Room,       \* how many bytes the driver's queue takes
  Wakeup,     \* select() waits until fewer bytes than this are queued
  None

Byte     == 0..255
Message  == Byte \X Byte \X Byte
Senders  == Drafts \union Threads    \* those whose message may take several steps

ASSUME SerialAssumption ==
  /\ Beats \subseteq Message /\ \A m \in Beats : m[1] \in 176..191
  /\ Controls \subseteq Nat \X Nat \X Nat
  /\ DeviceFails \in BOOLEAN
  /\ Room \in Nat /\ Wakeup \in 1..Room
  /\ None \notin Drafts \union Controls
  /\ Threads \intersect (Tappers \union Drafts) = {}

VARIABLES
  line,     \* the queued bytes, each as a place in a message
  busy,     \* the draft asleep inside write(), or None
  status,   \* the receiver's running status, or 0
  data,     \* the data bytes it has collected
  midi_msg, \* per tapper and draft
  pc,       \* per thread: "idle", "open", "write" or "select"
  cc,       \* per thread: what its request carries, or None
  done,     \* per sender: how many bytes of its message are queued
  torn      \* history, per thread: other bytes were queued between those

receiver == <<status, data>>
vars     == <<line, busy, receiver, midi_msg, pc, cc, done, torn>>

TypeOK ==
  /\ line \in Seq([msg : Message, pos : 1..3, torn : BOOLEAN]) /\ Len(line) <= Room
  /\ busy \in Drafts \union {None}
  /\ status \in {0} \union 128..239
  /\ data \in {<<>>} \union {<<n>> : n \in 0..127}
  /\ midi_msg \in [Tappers \union Drafts -> Beats]
  /\ pc \in [Threads -> {"idle", "open", "write", "select"}]
  /\ cc \in [Threads -> Controls \union {None}]
  /\ done \in [Senders -> 0..3]
  /\ torn \in [Threads -> BOOLEAN]

Init ==
  /\ line = <<>> /\ busy = None
  /\ status = 0 /\ data = <<>>
  /\ midi_msg \in [Tappers \union Drafts -> Beats]
  /\ pc = [t \in Threads |-> "idle"]
  /\ cc = [t \in Threads |-> None]
  /\ done = [s \in Senders |-> 0]
  /\ torn = [t \in Threads |-> FALSE]

----------------------------------------------------------------------------
(* The queue of the serial driver.                                         *)

Free       == Room - Len(line)
Least(a, b) == IF a < b THEN a ELSE b

\* n more bytes of message m, of which a number are queued already.
Queue(m, queued, n, t) ==
  line' = line \o [k \in 1..n |-> [msg |-> m, pos |-> queued + k, torn |-> t]]

\* Writer w queues n bytes: the messages of others that are half queued are torn.
Tears(w, n) == [t \in Threads |-> torn[t] \/ (n > 0 /\ t # w /\ done[t] \in {1, 2})]

----------------------------------------------------------------------------
(* tapper.c: whatever does not fit at once is dropped; so is everything     *)
(* while another write holds the device.                                   *)

sendCCMutRunningStatus(w) ==
  LET n == IF busy = None THEN Least(2, Free) ELSE 0
  IN  /\ Queue(midi_msg[w], 1, n, FALSE)
      /\ torn' = Tears(w, n)
      /\ UNCHANGED <<busy, receiver, midi_msg, pc, cc, done>>

sendCC(w) ==
  LET n == IF busy = None THEN Least(3, Free) ELSE 0
  IN  /\ Queue(midi_msg[w], 0, n, FALSE)
      /\ torn' = Tears(w, n)
      /\ UNCHANGED <<busy, receiver, midi_msg, pc, cc, done>>

----------------------------------------------------------------------------
(* midi_so.c: a blocking write, which holds the device until it returns.   *)
(* It leaves c_oflag as it found it: that the terminal writes a byte 10 as *)
(* it is belongs to the line's settings, which are left out.               *)

PushMutLetsGo(d) ==
  LET n == Least(3 - done[d], Free)
      q == done[d] + n
  IN  /\ Queue(midi_msg[d], done[d], n, FALSE)
      /\ torn' = Tears(d, n)
      /\ busy' = None
      /\ done' = [done EXCEPT ![d] = IF q = 3 THEN 0 ELSE q]
      /\ UNCHANGED <<receiver, midi_msg, pc, cc>>

Push(d) ==
  LET n == Least(3 - done[d], Free)
      q == done[d] + n
  IN  /\ Queue(midi_msg[d], done[d], n, FALSE)
      /\ torn' = Tears(d, n)
      /\ busy' = IF q = 3 THEN None ELSE d
      /\ done' = [done EXCEPT ![d] = IF q = 3 THEN 0 ELSE q]
      /\ UNCHANGED <<receiver, midi_msg, pc, cc>>

\* The loop finds its flag set.
DraftBeat(d) == busy = None /\ Push(d)

DraftWrites(d) == busy = d /\ Free > 0 /\ Push(d)

\* The handler for SIGRTMIN, installed without SA_RESTART: write() returns
\* what it has done so far, or EINTR.
handler(d) ==
  /\ busy = d
  /\ busy' = None
  /\ done' = [done EXCEPT ![d] = 0]
  /\ UNCHANGED <<line, receiver, midi_msg, pc, cc, torn>>

----------------------------------------------------------------------------
(* midi-gw.py: /midi/cc.                                                   *)

\* (0xB << 4) | channel sets bits 7, 5 and 4.
StatusByte(c) == (c \div 256) * 256 + 176 + (c % 16) + 64 * ((c \div 64) % 2)
CcBytes(c)    == <<StatusByte(c[1]), c[2], c[3]>>

AtPc(t, p) == pc[t] = p
Goto(t, p) == pc' = [pc EXCEPT ![t] = p]

\* The answer, OK or a 500; the request is over.
Answer(t) ==
  /\ Goto(t, "idle")
  /\ cc' = [cc EXCEPT ![t] = None]
  /\ done' = [done EXCEPT ![t] = 0]
  /\ torn' = [torn EXCEPT ![t] = FALSE]

midi_cc(t) ==
  /\ AtPc(t, "idle")
  /\ \E c \in Controls : cc' = [cc EXCEPT ![t] = c]
  /\ Goto(t, "open")
  /\ UNCHANGED <<line, busy, receiver, midi_msg, done, torn>>

\* bytes() raises ValueError for what is no byte, before anything is opened.
BytesFitMutUnchecked(t) == TRUE
BytesFit(t) == CcBytes(cc[t]) \in Message

OpenSerial(t) ==
  /\ AtPc(t, "open")
  /\ \/ BytesFit(t) /\ Goto(t, "write") /\ UNCHANGED <<cc, done, torn>>
     \/ (~BytesFit(t) \/ DeviceFails) /\ Answer(t)
  /\ UNCHANGED <<line, busy, receiver, midi_msg>>

\* pyserial's write: one os.write of what is left; EAGAIN is tried again.
WriteMutRestarts(t) ==
  LET n == Least(3, Free)
  IN  /\ AtPc(t, "write") /\ busy = None /\ Free > 0
      /\ Queue(CcBytes(cc[t]), 0, n, torn[t])
      /\ torn' = Tears(t, n)
      /\ done' = [done EXCEPT ![t] = n]
      /\ Goto(t, "select")
      /\ UNCHANGED <<busy, receiver, midi_msg, cc>>

Write(t) ==
  LET n == Least(3 - done[t], Free)
  IN  /\ AtPc(t, "write") /\ busy = None /\ Free > 0
      /\ Queue(CcBytes(cc[t]), done[t], n, torn[t])
      /\ torn' = Tears(t, n)
      /\ done' = [done EXCEPT ![t] = @ + n]
      /\ Goto(t, "select")
      /\ UNCHANGED <<busy, receiver, midi_msg, cc>>

\* After each os.write it waits until the device is writable again.
Select(t) ==
  /\ AtPc(t, "select") /\ Len(line) < Wakeup
  /\ IF done[t] = 3 THEN Answer(t) ELSE Goto(t, "write") /\ UNCHANGED <<cc, done, torn>>
  /\ UNCHANGED <<line, busy, receiver, midi_msg>>

\* os.write fails, in mid-message or before: SerialException, and what is queued
\* stays.  (An error that meets a tapper or a draft queues nothing.)
WriteFails(t) ==
  /\ AtPc(t, "write") /\ DeviceFails
  /\ Answer(t)
  /\ UNCHANGED <<line, busy, receiver, midi_msg>>

Serve(t) == OpenSerial(t) \/ Write(t) \/ Select(t)

\* The gateway ends, in the middle of a message or not.
Crash ==
  /\ pc' = [t \in Threads |-> "idle"]
  /\ cc' = [t \in Threads |-> None]
  /\ done' = [s \in Senders |-> IF s \in Threads THEN 0 ELSE done[s]]
  /\ torn' = [t \in Threads |-> FALSE]
  /\ UNCHANGED <<line, busy, receiver, midi_msg>>

----------------------------------------------------------------------------
(* The receiver (MIDI 1.0): a status byte starts a message, which is kept  *)
(* as running status; system bytes clear it, real-time bytes do nothing.   *)

Needs(s) == IF s \in 192..223 THEN 1 ELSE 2   \* program change, channel pressure

HeadByte  == Head(line).msg[Head(line).pos]
Completes == status # 0 /\ HeadByte < 128 /\ Len(data) + 1 = Needs(status)

\* The message that the byte at the head of the queue makes it act on, or <<>>.
Heard == IF Completes THEN <<status>> \o data \o <<HeadByte>> ELSE <<>>

Receive(b) ==
  \/ b < 128 /\ status' = status /\ data' = (IF status = 0 \/ Completes THEN <<>> ELSE <<b>>)
  \/ b \in 128..239 /\ status' = b /\ data' = <<>>
  \/ b \in 240..247 /\ status' = 0 /\ data' = <<>>
  \/ b \in 248..255 /\ UNCHANGED receiver

\* One byte leaves the queue.
Transmit ==
  /\ line # <<>>
  /\ line' = Tail(line)
  /\ Receive(HeadByte)
  /\ UNCHANGED <<busy, midi_msg, pc, cc, done, torn>>

Next == \/ \E w \in Tappers : sendCC(w)
        \/ \E d \in Drafts : DraftBeat(d) \/ DraftWrites(d) \/ handler(d)
        \/ \E t \in Threads : midi_cc(t) \/ Serve(t) \/ WriteFails(t)
        \/ Crash
        \/ Transmit

\* The line is drained, threads and writes in progress are scheduled.
Fairness == /\ WF_vars(Transmit)
            /\ \A t \in Threads : WF_vars(Serve(t))
            /\ \A d \in Drafts : WF_vars(DraftWrites(d))

SafeSpec == Init /\ [][Next]_vars
Spec     == SafeSpec /\ Fairness

----------------------------------------------------------------------------
(* Properties.                                                             *)

InRange(m) == m[1] \in 176..191 /\ m[2] < 128 /\ m[3] < 128

\* A control change within MIDI's ranges whose bytes nobody else's came
\* between is heard, and as what it is - whatever the writers before it left
\* unfinished, and whoever's unfinished message it is written into
\* (tapper.c 34-38, midi_so.c 27-30, midi-gw.py 24-32).
IntactIsHeard ==
  line # <<>> /\ Head(line).pos = 3 /\ ~Head(line).torn /\ InRange(Head(line).msg)
    => Heard = Head(line).msg

\* The receiver hears what nobody asked for only at a byte of a /midi/cc
\* message that was torn, or of a message out of MIDI's ranges: what tappers
\* and drafts lose or cut short is never heard as something else.
NothingInvented ==
  line # <<>> /\ Heard \notin {<<>>, Head(line).msg} =>
    Head(line).torn \/ ~InRange(Head(line).msg)

\* Every request is answered once tappers and clients leave the line alone.
NewWrite == \/ \E w \in Tappers : sendCC(w)
            \/ \E d \in Drafts : DraftBeat(d)
            \/ \E t \in Threads : midi_cc(t)
CcAnswered == <>[][~NewWrite]_vars => \A t \in Threads : pc[t] # "idle" ~> pc[t] = "idle"
============================================================================
