---------------------------- MODULE PollLoopProof --------------------------
(***************************************************************************)
(* Proofs about the polling loops, for every size of the counter, length   *)
(* of the beat and time between two polls.                                 *)
(***************************************************************************)
EXTENDS PollLoop, TLAPS

\* The counter's value when mark was computed.
Base == IF loop = "clock" THEN mark
        ELSE IF mark < Delay THEN mark - Delay + Wrap ELSE mark - Delay

Laps == {0, Wrap, 2 * Wrap, 3 * Wrap, 4 * Wrap, 5 * Wrap}

\* The counter follows the time, as far as the proofs need it: for six laps.
SyncInv ==
  \A k \in Laps : k <= since /\ since <= k + Wrap => counter = Wrapped(Base + since - k)

IdleInv ==
  Alive => /\ idle <= since
           /\ idle <= IF pc = "pause" THEN Pause + Gap ELSE Gap

\* Unless next is too near the end, the poll before this one came before the
\* beat was due; the clock's loop may have come from its pause.
PolledInv ==
  pc = "poll" =>
    IF loop = "clock"
      THEN \/ since - idle < Delay
           \/ i = 0 /\ (since - idle < Pause + Delay \/ since - idle <= Pause + 2 * Gap)
      ELSE mark <= Wrap - Gap => since - idle < Delay

\* What the clock's loop and ttt.c send has just been marked.
SentInv ==
  /\ pc = "send" /\ loop \in {"clock", "ttt"} => since = idle
  /\ pc = "pause" => loop = "clock" /\ i = 0 /\ since - idle <= Gap

MarkInv == pc = "mark" => loop # "clock"

IInv == TypeOK /\ SyncInv /\ IdleInv /\ PolledInv /\ SentInv /\ MarkInv

----------------------------------------------------------------------------
LEMMA Numbers ==
  /\ Wrap \in Nat /\ Delay \in Nat /\ Gap \in Nat
  /\ 0 < Gap /\ Gap < Delay /\ Delay + Gap <= Wrap /\ 3 * Gap < Wrap
  /\ Pause = 5 * Wrap
  BY PollAssumption DEF Pause

LEMMA BaseType == TypeOK => Base \in Nat /\ Base < Wrap
  BY Numbers DEF TypeOK, Counts, Base

\* Due tells whether the time has come, unless next has overflowed or less than
\* a poll's distance is left of it.
LEMMA DueInTime ==
  ASSUME TypeOK, SyncInv
  PROVE  /\ since < Delay /\ Due => loop # "clock" /\ counter >= Wrap - Delay
         /\ loop # "clock" /\ mark <= Wrap - Gap /\ since >= Delay /\ since < Delay + Gap => Due
         /\ loop = "clock" /\ since >= Delay /\ since < Wrap => Due
         /\ loop = "clock" /\ since >= Pause + Delay /\ since < Pause + Wrap => Due
  <1>1. counter \in Nat /\ counter < Wrap /\ mark \in Nat /\ mark < Wrap /\ since \in Nat
    BY Numbers DEF TypeOK, Counts
  <1>2. since <= Wrap => counter = Wrapped(Base + since)
    <2>1. 0 \in Laps
      BY DEF Laps
    <2>2. 0 <= since /\ since <= 0 + Wrap => counter = Wrapped(Base + since - 0)
      BY <2>1 DEF SyncInv
    <2>3. Base + since - 0 = Base + since
      BY <1>1, BaseType
    <2>4. QED
      BY <1>1, <2>2, <2>3, Numbers
  <1>3. since >= Pause /\ since <= Pause + Wrap => counter = Wrapped(Base + since - Pause)
    <2>1. Pause \in Laps
      BY Numbers DEF Laps
    <2>2. QED
      BY <2>1 DEF SyncInv
  <1>4. CASE loop = "clock"
    <2>1. Base = mark /\ (Due <=> Diff >= Delay)
      BY <1>4 DEF Base, Due
    <2>2. since < Wrap => Diff = since
      BY <1>1, <1>2, <2>1, Numbers DEF Wrapped, Diff
    <2>3. since >= Pause /\ since < Pause + Wrap => Diff = since - Pause
      BY <1>1, <1>3, <2>1, Numbers DEF Wrapped, Diff
    <2>4. QED
      BY <1>1, <1>4, <2>1, <2>2, <2>3, Numbers
  <1>5. CASE loop # "clock"
    <2>1. Due <=> counter >= mark
      BY <1>5 DEF Due
    <2>2. Base = IF mark < Delay THEN mark - Delay + Wrap ELSE mark - Delay
      BY <1>5 DEF Base
    <2>3. since < Delay /\ counter >= mark => counter >= Wrap - Delay
      BY <1>1, <1>2, <2>2, Numbers DEF Wrapped
    <2>4. mark <= Wrap - Gap /\ since >= Delay /\ since < Delay + Gap => counter >= mark
      BY <1>1, <1>2, <2>2, Numbers DEF Wrapped
    <2>5. QED
      BY <1>5, <2>1, <2>3, <2>4
  <1>6. QED
    BY <1>4, <1>5

----------------------------------------------------------------------------
(* Each action keeps the invariant.                                        *)

LEMMA Initially == Init => IInv
  <1> SUFFICES ASSUME Init PROVE IInv
    OBVIOUS
  <1>1. /\ counter \in Nat /\ counter < Wrap /\ since = 0 /\ idle = 0 /\ pc = "poll" /\ i = 0
        /\ counter \in Counts
    BY Numbers DEF Init, Counts
  <1>2. mark \in Counts
    BY <1>1, Numbers DEF Init, NextBeat, Wrapped, Counts
  <1>3. TypeOK
    BY <1>1, <1>2 DEF Init, TypeOK
  <1>4. Base = counter
    BY <1>1, Numbers DEF Init, Base, NextBeat, Wrapped
  <1>5. SyncInv
    BY <1>1, <1>4, Numbers DEF SyncInv, Laps, Wrapped
  <1>6. IdleInv /\ PolledInv /\ SentInv /\ MarkInv
    BY <1>1, Numbers DEF IdleInv, PolledInv, SentInv, MarkInv, MarkInv
  <1>7. QED
    BY <1>3, <1>5, <1>6 DEF IInv

LEMMA StepElapse == IInv /\ Elapse => IInv'
  <1> SUFFICES ASSUME IInv, Elapse PROVE IInv'
    OBVIOUS
  <1>1. /\ counter \in Nat /\ counter < Wrap /\ mark \in Nat /\ mark < Wrap
        /\ since \in Nat /\ idle \in Nat
        /\ counter' = IF counter + 1 = Wrap THEN 0 ELSE counter + 1
        /\ since' = since + 1 /\ idle' = idle + 1
        /\ UNCHANGED <<loop, pc, running, mark, i>>
    BY Numbers DEF IInv, TypeOK, Counts, Elapse
  <1>2. TypeOK'
    BY <1>1, Numbers DEF IInv, TypeOK, Counts
  <1>3. SyncInv'
    <2>1. Base' = Base /\ Base \in Nat /\ Base < Wrap
      BY <1>1, BaseType DEF Base, IInv
    <2>2. ASSUME NEW k \in Laps, k <= since + 1, since + 1 <= k + Wrap
          PROVE  counter' = Wrapped(Base + (since + 1) - k)
      <3>1. k \in Nat
        BY Numbers DEF Laps
      <3>2. CASE k <= since
        <4>1. counter = Wrapped(Base + since - k)
          BY <1>1, <2>2, <3>1, <3>2, Numbers DEF IInv, SyncInv
        <4>2. QED
          BY <1>1, <2>1, <2>2, <3>1, <3>2, <4>1, Numbers DEF Wrapped
      <3>3. CASE k = since + 1
        <4>1. k - Wrap \in Laps
          BY <1>1, <3>3, Numbers DEF Laps
        <4>2. k - Wrap <= since /\ since <= (k - Wrap) + Wrap
          BY <1>1, <3>1, <3>3, Numbers
        <4>3. counter = Wrapped(Base + since - (k - Wrap))
          BY <4>1, <4>2 DEF IInv, SyncInv
        <4>4. QED
          BY <1>1, <2>1, <3>1, <3>3, <4>3, Numbers DEF Wrapped
      <3>4. QED
        BY <1>1, <2>2, <3>1, <3>2, <3>3
    <2>3. QED
      BY <1>1, <2>1, <2>2 DEF SyncInv, Wrapped
  <1>4. IdleInv'
    BY <1>1, Numbers DEF IInv, IdleInv, Elapse, Alive
  <1>5. PolledInv' /\ SentInv' /\ MarkInv'
    <2>1. since' - idle' = since - idle
      BY <1>1
    <2>2. QED
      BY <1>1, <2>1 DEF IInv, PolledInv, SentInv, MarkInv
  <1>6. QED
    BY <1>2, <1>3, <1>4, <1>5 DEF IInv

\* Steps that take no reading.
LEMMA SyncKept ==
  ASSUME SyncInv, UNCHANGED <<loop, counter, since, mark>>
  PROVE  SyncInv'
  BY DEF SyncInv, Base, Wrapped

LEMMA SyncFresh ==
  ASSUME TypeOK, since' = 0, Base' = counter, counter' = counter
  PROVE  SyncInv'
  <1>1. counter \in Nat /\ counter < Wrap
    BY Numbers DEF TypeOK, Counts
  <1>2. \A k \in Laps : k <= since' => k = 0
    BY Numbers DEF Laps
  <1>3. counter + 0 - 0 = counter /\ ~(counter >= Wrap)
    BY <1>1, Numbers
  <1>4. QED
    BY <1>1, <1>2, <1>3 DEF SyncInv, Wrapped

LEMMA StepPoll == IInv /\ Poll => IInv'
  <1> SUFFICES ASSUME IInv, Poll PROVE IInv'
    OBVIOUS
  <1>1. /\ counter \in Counts /\ mark \in Counts /\ since \in Nat /\ idle \in Nat
        /\ pc = "poll" /\ idle' = 0 /\ UNCHANGED <<loop, running, counter, i>>
        /\ idle <= Gap
    BY DEF IInv, TypeOK, IdleInv, Alive, Poll, At, Goto
  <1>2. CASE ~Due /\ pc' = "poll" /\ UNCHANGED <<mark, since>>
    <2>1. TypeOK' /\ SyncInv' /\ IdleInv' /\ SentInv' /\ MarkInv'
      BY <1>1, <1>2, SyncKept, Numbers DEF IInv, TypeOK, IdleInv, SentInv, MarkInv
    <2>2. CASE loop = "clock"
      <3>1. since < Pause + Wrap
        BY <1>1, <2>2, Numbers DEF IInv, PolledInv
      <3>2. since < Wrap => since < Delay
        BY <1>1, <1>2, <2>2, DueInTime, Numbers DEF IInv
      <3>3. since < Pause + Delay
        BY <1>1, <1>2, <2>2, <3>1, DueInTime, Numbers DEF IInv
      <3>4. i # 0 => since < Wrap
        BY <1>1, <2>2, Numbers DEF IInv, PolledInv
      <3>5. QED
        BY <1>1, <1>2, <2>1, <2>2, <3>2, <3>3, <3>4 DEF IInv, PolledInv
    <2>3. CASE loop # "clock"
      <3>1. mark <= Wrap - Gap => since < Delay + Gap
        BY <1>1, <2>3, Numbers DEF IInv, PolledInv
      <3>2. mark <= Wrap - Gap => since < Delay
        BY <1>1, <1>2, <2>3, <3>1, DueInTime, Numbers DEF IInv
      <3>3. QED
        BY <1>1, <1>2, <2>1, <2>3, <3>2 DEF IInv, PolledInv
    <2>4. QED
      BY <2>2, <2>3
  <1>3. CASE loop # "clock" /\ pc' \in {"send", "mark"} /\ (loop = "ttt" => pc' = "mark")
             /\ UNCHANGED <<mark, since>>
    BY <1>1, <1>3, SyncKept, Numbers DEF IInv, TypeOK, IdleInv, PolledInv, SentInv, MarkInv
  <1>4. CASE loop = "clock" /\ pc' = "send" /\ mark' = counter /\ since' = 0
    <2>1. SyncInv'
      <3>1. Base' = counter
        BY <1>1, <1>4 DEF Base
      <3>2. QED
        BY <1>1, <1>4, <3>1, SyncFresh DEF IInv
    <2>2. QED
      BY <1>1, <1>4, <2>1, Numbers DEF IInv, TypeOK, IdleInv, PolledInv, SentInv, MarkInv
  <1>5. QED
    BY <1>1, <1>2, <1>3, <1>4 DEF Poll, Goto

LEMMA StepSend == IInv /\ Send => IInv'
  <1> SUFFICES ASSUME IInv, Send PROVE IInv'
    OBVIOUS
  <1>1. /\ pc = "send" /\ idle' = 0 /\ i \in 0..7 /\ i' \in 0..7
        /\ since \in Nat /\ idle \in Nat /\ idle <= Gap
        /\ UNCHANGED <<loop, running, counter, mark, since>>
    BY DEF IInv, TypeOK, IdleInv, Alive, Send, At, Goto
  <1>2. \/ loop \in {"st", "old"} /\ pc' = "mark"
        \/ loop = "ttt" /\ pc' = "poll"
        \/ loop = "clock" /\ pc' = "poll"
        \/ loop = "clock" /\ pc' = "pause" /\ i' = 0
    <2>1. loop \in {"st", "old", "ttt", "clock"}
      BY PollAssumption DEF IInv, TypeOK
    <2>2. i = 7 => (i + 1) % 8 = 0
      OBVIOUS
    <2>3. QED
      BY <2>1, <2>2 DEF Send, Goto
  <1>3. QED
    BY <1>1, <1>2, SyncKept, Numbers DEF IInv, TypeOK, IdleInv, PolledInv, SentInv, MarkInv, Alive

LEMMA StepMark == IInv /\ Mark => IInv'
  <1> SUFFICES ASSUME IInv, Mark PROVE IInv'
    OBVIOUS
  <1>1. /\ pc = "mark" /\ idle' = 0 /\ since' = 0 /\ mark' = Wrapped(counter + Delay)
        /\ counter \in Nat /\ counter < Wrap
        /\ UNCHANGED <<loop, running, counter, i>>
        /\ pc' = IF loop = "ttt" THEN "send" ELSE "poll"
    BY Numbers DEF IInv, TypeOK, Counts, Mark, At, Goto, NextBeat
  <1>2. loop # "clock"
    BY <1>1 DEF IInv, MarkInv
  <1>3. mark' \in Counts
    BY <1>1, Numbers DEF Wrapped, Counts
  <1>4. SyncInv'
    <2>1. Base' = counter
      BY <1>1, <1>2, Numbers DEF Base, Wrapped
    <2>2. QED
      BY <1>1, <2>1, SyncFresh DEF IInv
  <1>5. QED
    BY <1>1, <1>2, <1>3, <1>4, Numbers
    DEF IInv, TypeOK, IdleInv, PolledInv, SentInv, MarkInv, Alive

LEMMA StepOther == IInv /\ (EndPause \/ close_serial \/ int_handler) => IInv'
  <1> SUFFICES ASSUME IInv, EndPause \/ close_serial \/ int_handler PROVE IInv'
    OBVIOUS
  <1>1. /\ UNCHANGED <<loop, counter, since, mark, i>> /\ running' \in BOOLEAN
        /\ since \in Nat /\ idle \in Nat
    BY DEF IInv, TypeOK, EndPause, close_serial, int_handler
  <1>2. SyncInv'
    BY <1>1, SyncKept DEF IInv
  <1>3. CASE pc = "pause" /\ pc' = "poll" /\ idle' = 0
    BY <1>1, <1>2, <1>3, Numbers
    DEF IInv, TypeOK, IdleInv, PolledInv, SentInv, MarkInv, Alive
  <1>4. CASE pc' \in {"closed", "killed"} /\ idle' \in Nat
    BY <1>1, <1>2, <1>4 DEF IInv, TypeOK, IdleInv, PolledInv, SentInv, MarkInv, Alive
  <1>5. CASE UNCHANGED <<pc, idle>>
    BY <1>1, <1>2, <1>5 DEF IInv, TypeOK, IdleInv, PolledInv, SentInv, MarkInv, Alive
  <1>6. QED
    BY <1>1, <1>3, <1>4, <1>5, PollAssumption
    DEF EndPause, close_serial, int_handler, At, Goto, IInv, TypeOK

----------------------------------------------------------------------------
(* The invariant, and what follows from it.                                *)

\* The invariant that the theorems below rest on.
THEOREM Invariance == SafeSpec => []IInv
  <1>1. ASSUME IInv, [Next]_vars PROVE IInv'
    <2>1. CASE UNCHANGED vars
      <3>1. UNCHANGED <<loop, pc, running, counter, since, idle, mark, i>>
        BY <2>1 DEF vars, time
      <3>2. QED
        BY <1>1, <3>1, SyncKept
        DEF IInv, TypeOK, IdleInv, PolledInv, SentInv, MarkInv, Alive
    <2>2. QED
      BY <1>1, <2>1, StepElapse, StepPoll, StepSend, StepMark, StepOther DEF Next, Step
  <1>2. QED
    BY <1>1, Initially, PTL DEF SafeSpec

\* Every variable of the polling loops keeps its type.
THEOREM TypeCorrect == SafeSpec => []TypeOK
  <1>1. IInv => TypeOK
    BY DEF IInv
  <1>2. QED
    BY <1>1, Invariance, PTL

\* Beats come early only where next has overflowed (st.c 62-66).
THEOREM NeverEarly == SafeSpec => []EarlyOnlyAtTheTop
  <1>1. IInv => EarlyOnlyAtTheTop
    BY DueInTime DEF IInv, EarlyOnlyAtTheTop
  <1>2. QED
    BY <1>1, Invariance, PTL

\* Beats come late only where next lies near the counter's end, or after the
\* pause (st.c 63-66, tapper.c 333-350).
THEOREM NeverLate == SafeSpec => []LateOnlyAtTheTop
  <1>1. ASSUME IInv PROVE LateOnlyAtTheTop
    <2> SUFFICES ASSUME pc = "poll", since > Delay + Gap
                 PROVE  IF loop = "clock" THEN i = 0 /\ since < Pause + Delay + 2 * Gap
                                          ELSE mark > Wrap - Gap
      BY DEF LateOnlyAtTheTop, Polls
    <2>1. since \in Nat /\ idle \in Nat /\ idle <= Gap /\ mark \in Nat
      BY <1>1, Numbers DEF IInv, TypeOK, IdleInv, Alive, Counts
    <2>2. QED
      BY <1>1, <2>1, Numbers DEF IInv, PolledInv
  <1>2. QED
    BY <1>1, Invariance, PTL

----------------------------------------------------------------------------
(* How near the end is once SIGINT came.                                   *)

\* The most steps a loop can still take if it does not poll again.
Left == CASE pc = "send" -> 3 [] pc = "mark" -> 2 [] pc = "pause" -> 2
          [] pc = "poll" -> 1 [] pc = "closed" -> 0 [] pc = "killed" -> 0

\* The two programs without a handler are killed, and only they take mark first.
KilledInv ==
  /\ ~running /\ loop \in {"st", "ttt"} => pc = "killed"
  /\ pc = "pause" => loop = "clock"

LEMMA KilledInvariant == SafeSpec => []KilledInv
  <1>1. Init => KilledInv
    BY DEF Init, KilledInv
  <1>2. TypeOK /\ KilledInv /\ [Next]_vars => KilledInv'
    <2> SUFFICES ASSUME TypeOK, KilledInv, [Next]_vars PROVE KilledInv'
      OBVIOUS
    <2>1. loop' = loop /\ loop \in {"st", "old", "ttt", "clock"}
      BY PollAssumption DEF TypeOK, Next, Step, Elapse, Poll, Send, Mark, EndPause,
         close_serial, int_handler, vars
    <2>2. CASE Elapse \/ UNCHANGED vars
      BY <2>2 DEF KilledInv, Elapse, vars
    <2>3. CASE Poll
      BY <2>1, <2>3 DEF KilledInv, Poll, At, Goto
    <2>4. CASE Send
      BY <2>1, <2>4 DEF KilledInv, Send, At, Goto
    <2>5. CASE Mark
      BY <2>1, <2>5 DEF KilledInv, Mark, At, Goto
    <2>6. CASE EndPause \/ close_serial
      BY <2>1, <2>6 DEF KilledInv, EndPause, close_serial, At, Goto
    <2>7. CASE int_handler
      BY <2>1, <2>7 DEF KilledInv, int_handler, At
    <2>8. QED
      BY <2>2, <2>3, <2>4, <2>5, <2>6, <2>7 DEF Next, Step
  <1>3. QED
    BY <1>1, <1>2, TypeCorrect, PTL DEF SafeSpec

\* Once SIGINT came, a loop takes at most three more steps: it sends the beat it
\* is at, reads the counter once more and leaves, without another beat, however
\* the counter runs (tapper.c 332, 369, old.midi.c 181).  With the weak fairness
\* of Step this is why IntEnds holds.
THEOREM StopIsNear ==
  SafeSpec => [][~running => Left' <= Left /\ (Step => Left' < Left)]_vars
  <1>1. ASSUME TypeOK, KilledInv, [Next]_vars, ~running
        PROVE  Left' <= Left /\ (Step => Left' < Left)
    <2>1. CASE Step
      <3>1. ~Poll
        BY <1>1 DEF Poll, StayIn
      <3>2. CASE Send
        <4>1. loop \in {"old", "clock"}
          BY <1>1, <3>2, PollAssumption DEF Send, At, KilledInv, TypeOK
        <4>2. pc = "send" /\ pc' \in {"mark", "pause", "poll"}
          BY <3>2, <4>1 DEF Send, At, Goto
        <4>3. Left = 3 /\ Left' \in {1, 2}
          BY <4>2 DEF Left
        <4>4. QED
          BY <4>3
      <3>3. CASE Mark
        BY <1>1, <3>3 DEF Mark, At, Goto, Left, KilledInv
      <3>4. CASE EndPause \/ close_serial
        BY <3>4 DEF EndPause, close_serial, At, Goto, Left
      <3>5. QED
        BY <2>1, <3>1, <3>2, <3>3, <3>4 DEF Step
    <2>2. CASE ~Step
      <3>1. pc' = pc
        BY <1>1, <2>2 DEF Next, Elapse, int_handler, vars
      <3>2. Left \in 0..3 /\ Left' = Left
        BY <1>1, <3>1 DEF TypeOK, Left
      <3>3. QED
        BY <2>2, <3>2
    <2>3. QED
      BY <2>1, <2>2
  <1>2. TypeOK /\ KilledInv /\ [Next]_vars =>
          [~running => Left' <= Left /\ (Step => Left' < Left)]_vars
    BY <1>1
  <1>3. QED
    BY <1>2, TypeCorrect, KilledInvariant, PTL DEF SafeSpec
============================================================================
