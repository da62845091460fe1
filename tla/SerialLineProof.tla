--------------------------- MODULE SerialLineProof --------------------------
(***************************************************************************)
(* Proofs about the serial line, for any number of writers, any messages   *)
(* and any size of the driver's queue.                                     *)
(***************************************************************************)
EXTENDS SerialLine, SequenceTheorems, TLAPS

Place == [msg : Message, pos : 1..3, torn : BOOLEAN]

----------------------------------------------------------------------------
(* The queue.                                                              *)

LEMMA QueueEffect ==
  ASSUME NEW m \in Message, NEW q \in 0..3, NEW n \in 0..(3 - q), NEW t \in BOOLEAN,
         line \in Seq(Place), Queue(m, q, n, t)
  PROVE  /\ line' \in Seq(Place)
         /\ Len(line') = Len(line) + n
         /\ \A k \in 1..Len(line) : line'[k] = line[k]
         /\ \A k \in 1..n : line'[Len(line) + k] = [msg |-> m, pos |-> q + k, torn |-> t]
  <1> DEFINE new == [k \in 1..n |-> [msg |-> m, pos |-> q + k, torn |-> t]]
  <1>1. \A k \in 1..n : [msg |-> m, pos |-> q + k, torn |-> t] \in Place
    BY DEF Place
  <1>2. n \in Nat /\ q \in Nat
    OBVIOUS
  <1>a. new \in [1..n -> Place]
    BY <1>1, Zenon
  <1>3. new \in Seq(Place)
    <2> HIDE DEF new
    <2>1. new \in UNION {[1..j -> Place] : j \in Nat}
      BY <1>2, <1>a
    <2>2. QED
      BY <2>1, SeqDef, Zenon
  <1>4. Len(new) = n
    BY <1>2, <1>3, <1>a, LenProperties
  <1>5. line' = line \o new
    BY DEF Queue
  <1>6. \A k \in 1..n : new[k] = [msg |-> m, pos |-> q + k, torn |-> t]
    OBVIOUS
  <1> HIDE DEF new
  <1>7. /\ line' \in Seq(Place) /\ Len(line') = Len(line) + n
        /\ \A k \in 1..(Len(line) + n) :
             line'[k] = IF k <= Len(line) THEN line[k] ELSE new[k - Len(line)]
    BY <1>3, <1>4, <1>5, ConcatProperties
  <1>8. Len(line) \in Nat
    BY LenProperties
  <1>9. QED
    <2>1. ASSUME NEW k \in 1..Len(line) PROVE line'[k] = line[k]
      BY <1>2, <1>7, <1>8
    <2>2. ASSUME NEW k \in 1..n PROVE line'[Len(line) + k] = new[k]
      <3>1. Len(line) + k \in 1..(Len(line) + n) /\ ~(Len(line) + k <= Len(line))
            /\ Len(line) + k - Len(line) = k
        BY <1>2, <1>8
      <3>2. QED
        BY <3>1, <1>7
    <2>3. QED
      BY <1>6, <1>7, <2>1, <2>2

LEMMA TailEffect ==
  ASSUME line \in Seq(Place), line # <<>>, line' = Tail(line)
  PROVE  /\ line' \in Seq(Place)
         /\ Len(line) \in Nat \ {0}
         /\ Len(line') = Len(line) - 1
         /\ \A k \in 1..Len(line') : line'[k] = line[k + 1]
         /\ Head(line) = line[1] /\ line[1] \in Place
  <1>1. Len(line) \in Nat \ {0}
    BY EmptySeq
  <1>2. Head(line) = line[1] /\ line[1] \in Place
    BY <1>1, ElementOfSeq, SMT
  <1>3. QED
    BY <1>1, <1>2, HeadTailProperties

----------------------------------------------------------------------------
(* The inductive invariant: an untorn byte that is not the first of its    *)
(* message follows the byte before it, in the queue or at the receiver.    *)

\* The receiver has taken the first q bytes of message m.
After(m, q) ==
  InRange(m) => status = m[1] /\ data = (IF q = 2 THEN <<m[2]>> ELSE <<>>)

\* The byte queued last was byte q of message m, and untorn.
LastQueued(m, q) ==
  IF line = <<>> THEN After(m, q)
  ELSE LET e == line[Len(line)] IN e.msg = m /\ e.pos = q /\ ~e.torn

LinkedInv ==
  \A k \in 2..Len(line) : line[k].pos > 1 /\ ~line[k].torn =>
    /\ line[k - 1].msg = line[k].msg
    /\ line[k - 1].pos = line[k].pos - 1
    /\ ~line[k - 1].torn

HeadInv ==
  line # <<>> /\ line[1].pos > 1 /\ ~line[1].torn => After(line[1].msg, line[1].pos - 1)

\* Half a message is followed by its rest, or torn.
HalfInv ==
  /\ \A t \in Threads : done[t] \in {1, 2} /\ ~torn[t] => LastQueued(CcBytes(cc[t]), done[t])
  /\ \A d \in Drafts : done[d] \in {1, 2} => LastQueued(midi_msg[d], done[d])

RequestInv ==
  \A t \in Threads :
    /\ pc[t] # "idle" => cc[t] \in Controls
    /\ pc[t] \in {"write", "select"} => CcBytes(cc[t]) \in Message
    /\ pc[t] \in {"idle", "open"} => done[t] = 0
    /\ pc[t] = "write" => done[t] \in 0..2

\* Only the draft that holds the device is in the middle of a message.
BusyInv ==
  \A d \in Drafts : IF busy = d THEN done[d] \in 0..2 ELSE done[d] = 0

IInv == TypeOK /\ LinkedInv /\ HeadInv /\ HalfInv /\ RequestInv /\ BusyInv

LineType == line \in Seq(Place) /\ Len(line) \in 0..Room

LEMMA TypeOfLine == TypeOK <=> TypeOK /\ LineType
  <1>1. TypeOK => line \in Seq(Place) /\ Len(line) <= Room
    BY DEF TypeOK, Place
  <1>2. line \in Seq(Place) => Len(line) \in Nat
    BY LenProperties
  <1>3. QED
    BY <1>1, <1>2, SerialAssumption DEF LineType

LEMMA MessageBytes ==
  ASSUME NEW m \in Message
  PROVE  m[1] \in Byte /\ m[2] \in Byte /\ m[3] \in Byte /\ m = <<m[1], m[2], m[3]>>
  BY DEF Message

----------------------------------------------------------------------------
(* Queueing.                                                               *)

LEMMA NothingQueued ==
  ASSUME NEW m \in Message, NEW q \in 0..3, NEW t \in BOOLEAN,
         line \in Seq(Place), Queue(m, q, 0, t)
  PROVE  line' = line
  <1>1. /\ line' \in Seq(Place) /\ Len(line') = Len(line)
        /\ \A k \in 1..Len(line) : line'[k] = line[k]
    BY QueueEffect, LenProperties
  <1>2. QED
    BY <1>1, SeqEqual

\* Queueing the next bytes of a message after its last keeps the links.
LEMMA QueueKeeps ==
  ASSUME NEW m \in Message, NEW q \in 0..2, NEW n \in 1..(3 - q), NEW t \in BOOLEAN,
         LineType, LinkedInv, HeadInv,
         Queue(m, q, n, t), UNCHANGED receiver,
         q > 0 /\ ~t => LastQueued(m, q)
  PROVE  LinkedInv' /\ HeadInv' /\ (~t => LastQueued(m, q + n)')
  <1>0. n \in 0..(3 - q) /\ q \in 0..3
    OBVIOUS
  <1>1. /\ line' \in Seq(Place)
        /\ Len(line') = Len(line) + n
        /\ \A k \in 1..Len(line) : line'[k] = line[k]
        /\ \A k \in 1..n : line'[Len(line) + k] = [msg |-> m, pos |-> q + k, torn |-> t]
    BY <1>0, QueueEffect DEF LineType
  <1>2. Len(line) \in Nat /\ (line = <<>> <=> Len(line) = 0) /\ line' # <<>>
    <2>1. Len(line) \in Nat
      BY DEF LineType
    <2>2. line # <<>> => Len(line) \in Nat \ {0}
      BY EmptySeq DEF LineType
    <2>3. Len(<<>>) = 0
      BY EmptySeq
    <2>4. QED
      BY <1>1, <2>1, <2>2, <2>3
  <1>3. q > 0 /\ ~t /\ Len(line) > 0 =>
          LET e == line'[Len(line)] IN e.msg = m /\ e.pos = q /\ ~e.torn
    BY <1>1, <1>2 DEF LastQueued
  <1>4. LinkedInv'
    <2> SUFFICES ASSUME NEW k \in 2..Len(line'), line'[k].pos > 1, ~line'[k].torn
                 PROVE  /\ line'[k - 1].msg = line'[k].msg
                        /\ line'[k - 1].pos = line'[k].pos - 1
                        /\ ~line'[k - 1].torn
      BY DEF LinkedInv
    <2>1. CASE k <= Len(line)
      <3>1. line'[k] = line[k] /\ line'[k - 1] = line[k - 1] /\ k \in 2..Len(line)
        BY <1>1, <1>2, <2>1
      <3>2. QED
        BY <3>1 DEF LinkedInv
    <2>2. CASE k = Len(line) + 1
      <3>1. line'[k] = [msg |-> m, pos |-> q + 1, torn |-> t]
        BY <1>1, <1>2, <2>2
      <3>2. QED
        BY <1>2, <1>3, <2>2, <3>1
    <2>3. CASE k > Len(line) + 1
      <3>1. PICK j \in 2..n : k = Len(line) + j
        <4>1. k - Len(line) \in 2..n /\ k = Len(line) + (k - Len(line))
          BY <1>1, <1>2, <2>3
        <4>2. QED
          BY <4>1
      <3>2. /\ line'[k] = [msg |-> m, pos |-> q + j, torn |-> t]
            /\ line'[k - 1] = [msg |-> m, pos |-> q + (j - 1), torn |-> t]
        <4>1. j \in 1..n /\ j - 1 \in 1..n /\ k - 1 = Len(line) + (j - 1)
          BY <1>2, <3>1
        <4>2. QED
          BY <1>1, <3>1, <4>1
      <3>3. QED
        BY <3>1, <3>2
    <2>4. QED
      BY <1>1, <1>2, <2>1, <2>2, <2>3
  <1>5. HeadInv'
    <2>2. CASE Len(line) > 0
      <3>1. line'[1] = line[1] /\ line # <<>>
        BY <1>1, <1>2, <2>2
      <3>2. QED
        BY <3>1 DEF HeadInv, After, receiver
    <2>3. CASE Len(line) = 0
      <3>1. line'[1] = [msg |-> m, pos |-> q + 1, torn |-> t]
        BY <1>1, <2>3
      <3>2. line = <<>>
        BY <1>2, <2>3
      <3>3. QED
        BY <3>1, <3>2 DEF HeadInv, After, receiver, LastQueued
    <2>4. QED
      BY <1>2, <2>2, <2>3
  <1>6. ~t => LastQueued(m, q + n)'
    <2>1. n \in 1..n /\ Len(line') = Len(line) + n
      BY <1>1
    <2>2. line'[Len(line')] = [msg |-> m, pos |-> q + n, torn |-> t]
      BY <1>1, <2>1
    <2>3. QED
      BY <1>2, <2>2 DEF LastQueued
  <1>7. QED
    BY <1>4, <1>5, <1>6

----------------------------------------------------------------------------
(* Transmitting.                                                           *)

\* The receiver takes the first or second byte of an untorn message.
LEMMA ReceiverFollows ==
  ASSUME TypeOK, HeadInv, Transmit, Head(line) = line[1],
         NEW m \in Message, NEW q \in {1, 2},
         line[1].msg = m, line[1].pos = q, ~line[1].torn
  PROVE  After(m, q)'
  <1>1. /\ line # <<>> /\ line' = Tail(line)
        /\ HeadByte = m[q] /\ Receive(HeadByte)
    BY DEF Transmit, HeadByte
  <1>2. m[1] \in Byte /\ m[2] \in Byte
    BY MessageBytes
  <1>3. ASSUME InRange(m)
        PROVE  status' = m[1] /\ data' = (IF q = 2 THEN <<m[2]>> ELSE <<>>)
    <2>1. m[1] \in 176..191 /\ m[2] < 128
      BY <1>3 DEF InRange
    <2>2. CASE q = 1
      <3>0. HeadByte = m[1]
        BY <1>1, <2>2
      <3>1. HeadByte \in 128..239 /\ ~(HeadByte < 128)
            /\ HeadByte \notin 240..247 /\ HeadByte \notin 248..255
        BY <2>1, <3>0
      <3>2. QED
        BY <1>1, <2>2, <3>0, <3>1 DEF Receive
    <2>3. CASE q = 2
      <3>1. status = m[1] /\ data = <<>>
        BY <1>1, <1>3, <2>3 DEF HeadInv, After
      <3>2. Len(data) + 1 = 1 /\ Needs(status) = 2
        <4>1. Len(<<>>) = 0
          OBVIOUS
        <4>2. status \notin 192..223
          <5>1. status = m[1]
            BY <3>1
          <5>2. QED
            BY <2>1, <5>1
        <4>3. QED
          BY <3>1, <4>1, <4>2 DEF Needs
      <3>3. ~Completes /\ status # 0
        BY <2>1, <3>1, <3>2 DEF Completes
      <3>4. HeadByte = m[2]
        BY <1>1, <2>3
      <3>5. HeadByte < 128 /\ HeadByte \notin 128..239
            /\ HeadByte \notin 240..247 /\ HeadByte \notin 248..255
        BY <1>2, <2>1, <3>4 DEF Byte
      <3>6. QED
        BY <1>1, <2>3, <3>1, <3>3, <3>4, <3>5 DEF Receive
    <2>4. QED
      BY <2>2, <2>3
  <1>4. QED
    BY <1>3 DEF After, InRange

LEMMA TransmitKeeps ==
  ASSUME TypeOK, LinkedInv, HeadInv, Transmit
  PROVE  /\ LinkedInv' /\ HeadInv'
         /\ \A m \in Message : \A q \in {1, 2} : LastQueued(m, q) => LastQueued(m, q)'
  <1>1. LineType
    BY TypeOfLine
  <1>2. line # <<>> /\ line' = Tail(line)
    BY DEF Transmit
  <1>3. /\ Len(line) \in Nat \ {0}
        /\ Len(line') = Len(line) - 1
        /\ \A k \in 1..Len(line') : line'[k] = line[k + 1]
        /\ Head(line) = line[1] /\ line[1] \in Place
    BY <1>1, <1>2, TailEffect DEF LineType
  <1>4. (line' = <<>> <=> Len(line') = 0)
    <2>1. line' \in Seq(Place)
      BY <1>1, <1>2, TailEffect DEF LineType
    <2>2. line' # <<>> => Len(line') \in Nat \ {0}
      BY <2>1, EmptySeq
    <2>3. Len(<<>>) = 0
      OBVIOUS
    <2>4. QED
      BY <2>2, <2>3
  <1>5. LinkedInv'
    <2> SUFFICES ASSUME NEW k \in 2..Len(line'), line'[k].pos > 1, ~line'[k].torn
                 PROVE  /\ line'[k - 1].msg = line'[k].msg
                        /\ line'[k - 1].pos = line'[k].pos - 1
                        /\ ~line'[k - 1].torn
      BY DEF LinkedInv
    <2>1. k + 1 \in 2..Len(line) /\ line'[k] = line[k + 1]
          /\ line'[k - 1] = line[k] /\ (k + 1) - 1 = k
      BY <1>3
    <2>2. QED
      BY <2>1 DEF LinkedInv
  <1>6. ASSUME NEW m \in Message, NEW q \in {1, 2},
               line[1].msg = m, line[1].pos = q, ~line[1].torn
        PROVE  After(m, q)'
    BY <1>3, <1>6, ReceiverFollows
  <1>7. HeadInv'
    <2>1. ASSUME line' # <<>>, line'[1].pos > 1, ~line'[1].torn
          PROVE  \E m \in Message : \E q \in {1, 2} :
                   After(m, q)' /\ line'[1].msg = m /\ line'[1].pos - 1 = q
      <3>1. Len(line') >= 1 /\ 2 \in 2..Len(line) /\ line'[1] = line[2]
        BY <1>3, <1>4, <2>1
      <3>2. /\ line[1].msg = line[2].msg /\ line[1].pos = line[2].pos - 1
            /\ ~line[1].torn
        BY <2>1, <3>1 DEF LinkedInv
      <3>3. line[2] \in Place
        BY <1>1, <3>1, ElementOfSeq DEF LineType
      <3>4. line[1].msg \in Message /\ line[1].pos \in {1, 2}
        BY <1>3, <3>2, <3>3 DEF Place
      <3>5. \A m \in Message : \A q \in {1, 2} :
              line[1].msg = m /\ line[1].pos = q => After(m, q)'
        BY <1>6, <3>2
      <3>6. PICK m \in Message, q \in {1, 2} : line[1].msg = m /\ line[1].pos = q
        BY <3>4
      <3>7. After(m, q)' /\ line'[1].msg = m /\ line'[1].pos - 1 = q
        BY <3>1, <3>2, <3>5, <3>6
      <3>8. QED
        BY <3>7
    <2>2. QED
      BY <2>1 DEF HeadInv, After
  <1>8. ASSUME NEW m \in Message, NEW q \in {1, 2}, LastQueued(m, q)
        PROVE  LastQueued(m, q)'
    <2>1. CASE Len(line) = 1
      <3>1. line[1].msg = m /\ line[1].pos = q /\ ~line[1].torn
        BY <1>2, <1>8, <2>1 DEF LastQueued
      <3>2. line' = <<>>
        BY <1>3, <1>4, <2>1
      <3>3. QED
        BY <1>6, <3>1, <3>2 DEF LastQueued
    <2>2. CASE Len(line) > 1
      <3>1. Len(line') \in 1..Len(line') /\ line'[Len(line')] = line[Len(line)] /\ line' # <<>>
        BY <1>3, <1>4, <2>2
      <3>2. QED
        BY <1>2, <1>8, <3>1 DEF LastQueued
    <2>3. QED
      BY <1>3, <2>1, <2>2
  <1>9. QED
    BY <1>5, <1>7, <1>8

----------------------------------------------------------------------------
(* Each action keeps the invariant.                                        *)

LEMMA LineLeftAlone ==
  ASSUME LinkedInv, HeadInv, UNCHANGED <<line, receiver>>
  PROVE  /\ LinkedInv' /\ HeadInv'
         /\ \A m, q : LastQueued(m, q)' <=> LastQueued(m, q)
  BY DEF LinkedInv, HeadInv, LastQueued, After, receiver

LEMMA Chunk ==
  ASSUME LineType, NEW q \in 0..3
  PROVE  /\ Free \in 0..Room
         /\ Least(3 - q, Free) \in 0..(3 - q)
         /\ Least(3 - q, Free) <= Free
         /\ Free > 0 /\ q < 3 => Least(3 - q, Free) > 0
  BY SerialAssumption DEF LineType, Free, Least

\* What queueing does to the types and to the links, whoever does it.
LEMMA Queueing ==
  ASSUME IInv, NEW m \in Message, NEW q \in 0..3, NEW n \in 0..(3 - q), NEW t \in BOOLEAN,
         Queue(m, q, n, t), UNCHANGED receiver, n <= Free,
         q \in {1, 2} /\ ~t => LastQueued(m, q)
  PROVE  /\ LineType' /\ LinkedInv' /\ HeadInv'
         /\ n > 0 /\ ~t => LastQueued(m, q + n)'
         /\ n = 0 => \A x, y : LastQueued(x, y)' <=> LastQueued(x, y)
  <1>1. LineType /\ LinkedInv /\ HeadInv
    BY TypeOfLine DEF IInv
  <1>2. LineType'
    <2>1. line' \in Seq(Place) /\ Len(line') = Len(line) + n
      BY <1>1, QueueEffect DEF LineType
    <2>2. QED
      BY <1>1, <2>1, SerialAssumption DEF LineType, Free
  <1>3. CASE n = 0
    <2>1. line' = line
      BY <1>1, <1>3, NothingQueued DEF LineType
    <2>2. QED
      BY <1>1, <1>2, <1>3, <2>1, LineLeftAlone
  <1>4. CASE n > 0
    <2>1. n \in 1..(3 - q) /\ q \in 0..2
      BY <1>4
    <2>2. q > 0 /\ ~t => LastQueued(m, q)
      BY <2>1
    <2>3. LinkedInv' /\ HeadInv' /\ (~t => LastQueued(m, q + n)')
      BY <1>1, <2>1, <2>2, QueueKeeps
    <2>4. QED
      BY <1>2, <1>4, <2>3
  <1>5. QED
    BY <1>3, <1>4

LEMMA StepTapper ==
  ASSUME IInv, NEW w \in Tappers, sendCC(w)
  PROVE  IInv'
  <1> DEFINE n == IF busy = None THEN Least(3, Free) ELSE 0
             m == midi_msg[w]
  <1>1. /\ Queue(m, 0, n, FALSE) /\ torn' = Tears(w, n)
        /\ UNCHANGED <<busy, receiver, midi_msg, pc, cc, done>>
    BY DEF sendCC
  <1>2. m \in Message
    BY SerialAssumption DEF IInv, TypeOK
  <1>3. LineType
    BY TypeOfLine DEF IInv
  <1>4. n \in 0..3 /\ n <= Free
    <2>1. 0 \in 0..3 /\ 3 - 0 = 3
      OBVIOUS
    <2>2. Least(3, Free) \in 0..3 /\ Least(3, Free) <= Free /\ Free \in 0..Room
      BY <1>3, <2>1, Chunk
    <2>3. QED
      BY <2>2, SerialAssumption
  <1>5. /\ LineType' /\ LinkedInv' /\ HeadInv'
        /\ n = 0 => \A x, y : LastQueued(x, y)' <=> LastQueued(x, y)
    <2>1. 0 \in 0..3 /\ n \in 0..(3 - 0) /\ n <= Free /\ ~(0 \in {1, 2})
      BY <1>4
    <2> HIDE DEF m, n
    <2>2. Queue(m, 0, n, FALSE) /\ UNCHANGED receiver
      BY <1>1
    <2>3. QED
      BY <1>2, <2>1, <2>2, Queueing
  <1>6. n > 0 => busy = None
    OBVIOUS
  <1> HIDE DEF m, n
  <1>7. TypeOK'
    <2>1. torn' \in [Threads -> BOOLEAN]
      BY <1>1 DEF Tears, IInv, TypeOK
    <2>2. QED
      BY <1>1, <1>5, <2>1 DEF IInv, TypeOK, LineType, Place, receiver
  <1>8. RequestInv' /\ BusyInv'
    BY <1>1 DEF IInv, RequestInv, BusyInv
  <1>9. HalfInv'
    <2>1. ASSUME NEW t \in Threads, done'[t] \in {1, 2}, ~torn'[t]
          PROVE  LastQueued(CcBytes(cc[t]), done[t])'
      <3>1. t # w /\ w \notin Threads
        BY SerialAssumption
      <3>2. ~torn[t] /\ ~(n > 0) /\ done[t] \in {1, 2}
        BY <1>1, <2>1, <3>1 DEF Tears
      <3>3. n = 0
        BY <1>4, <3>2
      <3>4. LastQueued(CcBytes(cc[t]), done[t])
        BY <3>2 DEF IInv, HalfInv
      <3>5. QED
        BY <1>1, <1>5, <3>3, <3>4 DEF LastQueued, After
    <2>2. ASSUME NEW d \in Drafts, done'[d] \in {1, 2}
          PROVE  LastQueued(midi_msg[d], done[d])'
      <3>1. done[d] \in {1, 2} /\ busy = d
        BY <1>1, <2>2 DEF IInv, BusyInv
      <3>2. n = 0
        BY <1>4, <1>6, <3>1, SerialAssumption
      <3>3. LastQueued(midi_msg[d], done[d])
        BY <3>1 DEF IInv, HalfInv
      <3>4. QED
        BY <1>1, <1>5, <3>2, <3>3 DEF LastQueued, After
    <2>3. QED
      BY <2>1, <2>2 DEF HalfInv
  <1>10. QED
    BY <1>5, <1>7, <1>8, <1>9 DEF IInv

LEMMA StepPush ==
  ASSUME IInv, NEW d \in Drafts, Push(d), busy \in {None, d}
  PROVE  IInv'
  <1>1. /\ midi_msg[d] \in Message /\ done[d] \in 0..2
        /\ d \notin Threads /\ d \in Senders /\ None \notin Drafts
    BY SerialAssumption DEF IInv, TypeOK, BusyInv, Senders
  <1>2. PICK m \in Message, q \in 0..2 : m = midi_msg[d] /\ q = done[d]
    BY <1>1
  <1>3. PICK n \in 0..(3 - q) : n = Least(3 - q, Free) /\ n <= Free
    <2>1. LineType /\ q \in 0..3
      BY <1>2, TypeOfLine DEF IInv
    <2>2. QED
      BY <2>1, Chunk
  <1>4. /\ Queue(m, q, n, FALSE) /\ torn' = Tears(d, n)
        /\ busy' = IF q + n = 3 THEN None ELSE d
        /\ done' = [done EXCEPT ![d] = IF q + n = 3 THEN 0 ELSE q + n]
        /\ UNCHANGED <<receiver, midi_msg, pc, cc>>
    BY <1>2, <1>3 DEF Push
  <1>5. q \in {1, 2} => LastQueued(m, q)
    BY <1>2 DEF IInv, HalfInv
  <1>6. /\ LineType' /\ LinkedInv' /\ HeadInv'
        /\ n > 0 => LastQueued(m, q + n)'
        /\ n = 0 => \A x, y : LastQueued(x, y)' <=> LastQueued(x, y)
    <2>a. UNCHANGED receiver /\ Queue(m, q, n, FALSE)
      BY <1>4, Zenon
    <2>b. q \in 0..3 /\ n <= Free
      BY <1>3
    <2>1. UNCHANGED receiver /\ Queue(m, q, n, FALSE) /\ q \in 0..3 /\ n <= Free
      BY <2>a, <2>b
    <2>2. PICK t \in BOOLEAN : ~t /\ Queue(m, q, n, t) /\ (q \in {1, 2} /\ ~t => LastQueued(m, q))
      BY <1>5, <2>1
    <2>3. /\ LineType' /\ LinkedInv' /\ HeadInv'
          /\ n > 0 /\ ~t => LastQueued(m, q + n)'
          /\ n = 0 => \A x, y : LastQueued(x, y)' <=> LastQueued(x, y)
      BY <2>1, <2>2, Queueing
    <2>4. QED
      BY <2>2, <2>3
  <1>7. TypeOK'
    <2>1. torn' \in [Threads -> BOOLEAN]
      BY <1>4 DEF Tears, IInv, TypeOK
    <2>2. done' \in [Senders -> 0..3] /\ busy' \in Drafts \union {None}
      BY <1>1, <1>2, <1>3, <1>4 DEF IInv, TypeOK
    <2>3. QED
      BY <1>4, <1>6, <2>1, <2>2 DEF IInv, TypeOK, LineType, Place, receiver
  <1>8. RequestInv' /\ BusyInv'
    <2>1. \A t \in Threads : done'[t] = done[t]
      BY <1>1, <1>2, <1>3, <1>4 DEF IInv, TypeOK, Senders
    <2>2. RequestInv'
      BY <1>4, <2>1 DEF IInv, RequestInv
    <2>3. done'[d] = (IF q + n = 3 THEN 0 ELSE q + n) /\ (q + n # 3 => q + n \in 0..2)
      BY <1>1, <1>2, <1>3, <1>4 DEF IInv, TypeOK
    <2>4. \A e \in Drafts \ {d} : done'[e] = 0
      BY <1>1, <1>2, <1>3, <1>4 DEF IInv, TypeOK, BusyInv, Senders
    <2>5. BusyInv'
      BY <1>1, <1>2, <1>3, <1>4, <2>3, <2>4 DEF BusyInv
    <2>6. QED
      BY <2>2, <2>5
  <1>9. HalfInv'
    <2>1. ASSUME NEW t \in Threads, done'[t] \in {1, 2}, ~torn'[t]
          PROVE  LastQueued(CcBytes(cc[t]), done[t])'
      <3>1. t # d /\ done'[t] = done[t]
        BY <1>1, <1>2, <1>3, <1>4 DEF IInv, TypeOK, Senders
      <3>2. ~torn[t] /\ ~(n > 0) /\ done[t] \in {1, 2}
        BY <1>4, <2>1, <3>1 DEF Tears
      <3>3. n = 0
        BY <1>3, <3>2
      <3>4. LastQueued(CcBytes(cc[t]), done[t])
        BY <3>2 DEF IInv, HalfInv
      <3>5. LastQueued(CcBytes(cc[t]), done[t])'
        BY <1>4, <1>6, <3>1, <3>3, <3>4 DEF LastQueued, After
      <3>6. QED
        BY <3>5
    <2>2. ASSUME NEW e \in Drafts, done'[e] \in {1, 2}
          PROVE  LastQueued(midi_msg[e], done[e])'
      <3>1. e = d /\ done'[d] = q + n
        <4>1. e # d => done'[e] = 0
          BY <1>1, <1>2, <1>3, <1>4 DEF IInv, TypeOK, BusyInv, Senders
        <4>2. done'[d] = IF q + n = 3 THEN 0 ELSE q + n
          BY <1>1, <1>2, <1>3, <1>4 DEF IInv, TypeOK
        <4>3. QED
          BY <2>2, <4>1, <4>2
      <3>2. n = 0 => LastQueued(m, q)
        <4>1. n = 0 => q \in {1, 2}
          BY <1>2, <2>2, <3>1
        <4>2. QED
          BY <1>5, <4>1
      <3>3. midi_msg'[d] = m
        BY <1>2, <1>4
      <3>4. CASE n > 0
        BY <1>6, <3>1, <3>3, <3>4 DEF LastQueued, After
      <3>5. CASE n = 0
        <4>1. done'[d] = q
          BY <1>2, <3>1, <3>5
        <4>2. QED
          BY <1>6, <3>1, <3>2, <3>3, <3>5, <4>1 DEF LastQueued, After
      <3>6. QED
        BY <1>2, <1>4, <3>4, <3>5
    <2>3. QED
      BY <2>1, <2>2 DEF HalfInv
  <1>10. QED
    BY <1>6, <1>7, <1>8, <1>9 DEF IInv

LEMMA StepWrite ==
  ASSUME IInv, NEW t \in Threads, Write(t)
  PROVE  IInv'
  <1>1. /\ CcBytes(cc[t]) \in Message /\ done[t] \in 0..2 /\ torn[t] \in BOOLEAN
        /\ t \notin Drafts /\ t \in Senders /\ None \notin Drafts
        /\ pc[t] = "write" /\ busy = None /\ Free > 0
    BY SerialAssumption DEF IInv, TypeOK, RequestInv, Senders, Write, AtPc
  <1>2. PICK m \in Message, q \in 0..2, x \in BOOLEAN :
          m = CcBytes(cc[t]) /\ q = done[t] /\ x = torn[t]
    BY <1>1
  <1>3. PICK n \in 1..(3 - q) : n = Least(3 - q, Free) /\ n <= Free
    <2>1. LineType /\ q \in 0..3
      BY <1>2, TypeOfLine DEF IInv
    <2>2. Least(3 - q, Free) \in 0..(3 - q) /\ Least(3 - q, Free) <= Free
          /\ Least(3 - q, Free) > 0
      BY <1>1, <2>1, Chunk
    <2>3. QED
      BY <2>2
  <1>4. /\ Queue(m, q, n, x) /\ torn' = Tears(t, n)
        /\ done' = [done EXCEPT ![t] = q + n]
        /\ pc' = [pc EXCEPT ![t] = "select"]
        /\ UNCHANGED <<busy, receiver, midi_msg, cc>>
    BY <1>2, <1>3 DEF Write, Goto
  <1>5. q \in {1, 2} /\ ~x => LastQueued(m, q)
    BY <1>2 DEF IInv, HalfInv
  <1>6. LineType' /\ LinkedInv' /\ HeadInv' /\ (~x => LastQueued(m, q + n)')
    <2>1. UNCHANGED receiver /\ Queue(m, q, n, x)
      BY <1>4, Zenon
    <2>2. q \in 0..3 /\ n \in 0..(3 - q) /\ n <= Free /\ n > 0
      BY <1>3
    <2>3. /\ LineType' /\ LinkedInv' /\ HeadInv'
          /\ n > 0 /\ ~x => LastQueued(m, q + n)'
      BY <1>5, <2>1, <2>2, Queueing
    <2>4. QED
      BY <2>2, <2>3
  <1>a. /\ done'[t] = q + n /\ pc'[t] = "select"
        /\ \A s \in Senders \ {t} : done'[s] = done[s]
        /\ \A u \in Threads \ {t} : pc'[u] = pc[u]
        /\ q + n \in 1..3
    BY <1>1, <1>2, <1>3, <1>4 DEF IInv, TypeOK
  <1>b. \A u \in Threads : torn'[u] <=> torn[u] \/ (u # t /\ done[u] \in {1, 2})
    <2>1. \A u \in Threads : torn'[u] = (torn[u] \/ (n > 0 /\ u # t /\ done[u] \in {1, 2}))
      BY <1>4, Zenon DEF Tears
    <2>2. n > 0
      BY <1>3
    <2>3. QED
      BY <2>1, <2>2, Zenon
  <1>7. TypeOK'
    <2>1. torn' \in [Threads -> BOOLEAN]
      BY <1>4 DEF Tears, IInv, TypeOK
    <2>2. done' \in [Senders -> 0..3]
      <3>1. done \in [Senders -> 0..3] /\ q + n \in 0..3
        BY <1>a DEF IInv, TypeOK
      <3>2. QED
        BY <1>4, <3>1
    <2>3. pc' \in [Threads -> {"idle", "open", "write", "select"}]
      BY <1>4 DEF IInv, TypeOK
    <2>4. QED
      BY <1>4, <1>6, <2>1, <2>2, <2>3 DEF IInv, TypeOK, LineType, Place, receiver
  <1>8. RequestInv'
    <2>1. ASSUME NEW u \in Threads
          PROVE  /\ pc'[u] # "idle" => cc[u] \in Controls
                 /\ pc'[u] \in {"write", "select"} => CcBytes(cc[u]) \in Message
                 /\ pc'[u] \in {"idle", "open"} => done'[u] = 0
                 /\ pc'[u] = "write" => done'[u] \in 0..2
      BY <1>1, <1>a DEF IInv, RequestInv, Senders
    <2>2. QED
      BY <1>4, <2>1 DEF RequestInv, CcBytes, StatusByte
  <1>9. BusyInv'
    BY <1>1, <1>4, <1>a DEF IInv, BusyInv, Senders
  <1>10. HalfInv'
    <2>1. ASSUME NEW u \in Threads, done'[u] \in {1, 2}, ~torn'[u]
          PROVE  LastQueued(CcBytes(cc[u]), done[u])'
      <3>1. u = t
        <4>1. u # t => done'[u] = done[u] /\ (done[u] \in {1, 2} => torn'[u])
          BY <1>a, <1>b DEF Senders
        <4>2. QED
          BY <2>1, <4>1
      <3>2. ~x /\ CcBytes(cc'[t]) = m /\ done'[t] = q + n
        <4>1. ~x
          BY <1>2, <1>b, <2>1, <3>1, Zenon
        <4>2. QED
          BY <1>2, <1>4, <1>a, <4>1
      <3>3. LastQueued(m, q + n)'
        BY <1>6, <3>2
      <3>4. QED
        BY <3>1, <3>2, <3>3 DEF LastQueued, After, CcBytes, StatusByte
    <2>2. \A d \in Drafts : done'[d] = 0
      BY <1>1, <1>a DEF IInv, BusyInv, Senders
    <2>3. QED
      BY <2>1, <2>2 DEF HalfInv
  <1>11. QED
    BY <1>6, <1>7, <1>8, <1>9, <1>10 DEF IInv

\* Actions that leave the line alone, and finish, abandon or begin messages.
LEMMA StepBeside ==
  ASSUME IInv, UNCHANGED <<line, receiver, midi_msg>>, TypeOK', RequestInv', BusyInv',
         \A t \in Threads : done'[t] \in {1, 2} =>
           done'[t] = done[t] /\ cc'[t] = cc[t] /\ (torn'[t] <=> torn[t]),
         \A d \in Drafts : done'[d] \in {1, 2} => done'[d] = done[d]
  PROVE  IInv'
  <1>1. /\ LinkedInv' /\ HeadInv'
        /\ \A m, q : LastQueued(m, q)' <=> LastQueued(m, q)
    BY LineLeftAlone DEF IInv
  <1>2. HalfInv'
    <2>1. ASSUME NEW t \in Threads, done'[t] \in {1, 2}, ~torn'[t]
          PROVE  LastQueued(CcBytes(cc[t]), done[t])'
      <3>1. PICK m, q : m = CcBytes(cc[t]) /\ q = done[t]
        OBVIOUS
      <3>2. done'[t] = q /\ q \in {1, 2} /\ ~torn[t] /\ cc'[t] = cc[t]
        BY <2>1, <3>1
      <3>3. LastQueued(m, q)
        BY <3>1, <3>2 DEF IInv, HalfInv
      <3>4. LastQueued(m, q)'
        BY <1>1, <3>3
      <3>5. QED
        BY <3>1, <3>2, <3>4 DEF LastQueued, After, CcBytes, StatusByte
    <2>2. ASSUME NEW d \in Drafts, done'[d] \in {1, 2}
          PROVE  LastQueued(midi_msg[d], done[d])'
      <3>1. PICK m, q : m = midi_msg[d] /\ q = done[d]
        OBVIOUS
      <3>2. done'[d] = q /\ q \in {1, 2} /\ midi_msg'[d] = m
        BY <2>2, <3>1
      <3>3. LastQueued(m, q)
        BY <3>1, <3>2 DEF IInv, HalfInv
      <3>4. LastQueued(m, q)'
        BY <1>1, <3>3
      <3>5. QED
        BY <3>2, <3>4 DEF LastQueued, After
    <2>3. QED
      BY <2>1, <2>2 DEF HalfInv
  <1>3. QED
    BY <1>1, <1>2 DEF IInv

LEMMA StepAnswer ==
  ASSUME IInv, NEW t \in Threads, Answer(t), UNCHANGED <<line, busy, receiver, midi_msg>>
  PROVE  IInv'
  <1>1. t \notin Drafts /\ t \in Senders
    BY SerialAssumption DEF Senders
  <1>2. /\ pc'[t] = "idle" /\ done'[t] = 0
        /\ \A u \in Threads \ {t} : pc'[u] = pc[u] /\ cc'[u] = cc[u]
        /\ \A s \in Senders \ {t} : done'[s] = done[s]
    BY <1>1 DEF IInv, TypeOK, Answer, Goto
  <1>3. \A u \in Threads \ {t} : torn'[u] = torn[u]
    BY Zenon DEF IInv, TypeOK, Answer
  <1>4. TypeOK'
    BY <1>1 DEF IInv, TypeOK, Answer, Goto, receiver
  <1>5. RequestInv'
    <2>1. \A u \in Threads : u # t => CcBytes(cc[u])' = CcBytes(cc[u])
      BY <1>2 DEF CcBytes, StatusByte
    <2>2. QED
      BY <1>2, <2>1 DEF IInv, RequestInv, Senders
  <1>6. BusyInv'
    BY <1>1, <1>2 DEF IInv, BusyInv, Senders
  <1>7. QED
    <2>1. \A u \in Threads : done'[u] \in {1, 2} =>
            done'[u] = done[u] /\ cc'[u] = cc[u] /\ (torn'[u] <=> torn[u])
      BY <1>2, <1>3 DEF Senders
    <2>2. \A d \in Drafts : done'[d] = done[d]
      BY <1>1, <1>2 DEF Senders
    <2>3. QED
      BY <1>4, <1>5, <1>6, <2>1, <2>2, StepBeside

LEMMA StepThread ==
  ASSUME IInv, NEW t \in Threads, midi_cc(t) \/ OpenSerial(t) \/ Select(t) \/ WriteFails(t)
  PROVE  IInv'
  <1>1. CASE midi_cc(t)
    <2>1. /\ pc[t] = "idle" /\ pc'[t] = "open" /\ cc'[t] \in Controls /\ done[t] = 0
          /\ \A u \in Threads \ {t} : pc'[u] = pc[u] /\ cc'[u] = cc[u]
          /\ UNCHANGED <<line, busy, receiver, midi_msg, done, torn>>
      BY <1>1 DEF IInv, TypeOK, RequestInv, midi_cc, AtPc, Goto
    <2>2. TypeOK'
      BY <1>1 DEF IInv, TypeOK, midi_cc, Goto, receiver
    <2>3. RequestInv'
      <3>1. \A u \in Threads : u # t => CcBytes(cc[u])' = CcBytes(cc[u])
        BY <2>1 DEF CcBytes, StatusByte
      <3>2. QED
        BY <2>1, <3>1 DEF IInv, RequestInv
    <2>4. BusyInv'
      BY <2>1 DEF IInv, BusyInv
    <2>5. \A u \in Threads : done'[u] \in {1, 2} =>
            done'[u] = done[u] /\ cc'[u] = cc[u] /\ (torn'[u] <=> torn[u])
      BY <2>1
    <2>6. QED
      BY <2>1, <2>2, <2>3, <2>4, <2>5, StepBeside
  <1>2. ASSUME Goto(t, "write"), UNCHANGED <<line, busy, receiver, midi_msg, cc, done, torn>>,
               CcBytes(cc[t]) \in Message, cc[t] \in Controls, done[t] \in 0..2
        PROVE  IInv'
    <2>1. pc'[t] = "write" /\ \A u \in Threads \ {t} : pc'[u] = pc[u]
      BY <1>2 DEF IInv, TypeOK, Goto
    <2>2. TypeOK'
      BY <1>2 DEF IInv, TypeOK, Goto, receiver
    <2>3. RequestInv'
      <3>1. \A u \in Threads : CcBytes(cc[u])' = CcBytes(cc[u])
        BY <1>2 DEF CcBytes, StatusByte
      <3>2. QED
        BY <1>2, <2>1, <3>1 DEF IInv, RequestInv
    <2>4. BusyInv'
      BY <1>2 DEF IInv, BusyInv
    <2>5. QED
      BY <1>2, <2>2, <2>3, <2>4, StepBeside
  <1>3. CASE OpenSerial(t)
    <2>1. CASE BytesFit(t) /\ Goto(t, "write") /\ UNCHANGED <<cc, done, torn>>
      <3>1. CcBytes(cc[t]) \in Message /\ cc[t] \in Controls /\ done[t] \in 0..2
        BY <1>3, <2>1 DEF OpenSerial, AtPc, IInv, RequestInv, BytesFit
      <3>2. QED
        BY <1>2, <1>3, <2>1, <3>1 DEF OpenSerial
    <2>2. CASE Answer(t)
      BY <1>3, <2>2, StepAnswer DEF OpenSerial
    <2>3. QED
      BY <1>3, <2>1, <2>2 DEF OpenSerial
  <1>4. CASE Select(t)
    <2>1. CASE done[t] = 3
      BY <1>4, <2>1, StepAnswer DEF Select
    <2>2. CASE done[t] # 3
      <3>1. CcBytes(cc[t]) \in Message /\ cc[t] \in Controls /\ done[t] \in 0..2
        BY <1>4, <2>2 DEF Select, AtPc, IInv, RequestInv, TypeOK, Senders
      <3>2. QED
        BY <1>2, <1>4, <2>2, <3>1 DEF Select
    <2>3. QED
      BY <2>1, <2>2
  <1>5. CASE WriteFails(t)
    BY <1>5, StepAnswer DEF WriteFails
  <1>6. QED
    BY <1>1, <1>3, <1>4, <1>5

LEMMA StepInterrupted ==
  ASSUME IInv, NEW d \in Drafts, handler(d)
  PROVE  IInv'
  <1>1. d \notin Threads /\ d \in Senders /\ None \notin Drafts
    BY SerialAssumption DEF Senders
  <1>2. /\ done'[d] = 0 /\ \A s \in Senders \ {d} : done'[s] = done[s]
        /\ busy = d /\ busy' = None
        /\ UNCHANGED <<line, receiver, midi_msg, pc, cc, torn>>
    BY <1>1 DEF IInv, TypeOK, handler
  <1>3. TypeOK'
    <2>1. done' \in [Senders -> 0..3]
      <3>1. done \in [Senders -> 0..3] /\ 0 \in 0..3 /\ done' = [done EXCEPT ![d] = 0]
        BY DEF IInv, TypeOK, handler
      <3>2. QED
        BY <3>1
    <2>2. QED
      BY <1>2, <2>1 DEF IInv, TypeOK, receiver
  <1>4. RequestInv'
    BY <1>1, <1>2 DEF IInv, RequestInv, Senders, CcBytes, StatusByte
  <1>5. BusyInv'
    BY <1>1, <1>2 DEF IInv, BusyInv, Senders
  <1>6. \A t \in Threads : done'[t] = done[t]
    BY <1>1, <1>2 DEF Senders
  <1>7. \A e \in Drafts : done'[e] \in {1, 2} => done'[e] = done[e]
    BY <1>2 DEF Senders
  <1>8. QED
    BY <1>2, <1>3, <1>4, <1>5, <1>6, <1>7, StepBeside

LEMMA StepCrash ==
  ASSUME IInv, Crash
  PROVE  IInv'
  <1>1. /\ \A t \in Threads : pc'[t] = "idle" /\ done'[t] = 0
        /\ \A d \in Drafts : done'[d] = done[d]
        /\ UNCHANGED <<line, busy, receiver, midi_msg>>
    BY SerialAssumption DEF IInv, TypeOK, Crash, Senders
  <1>2. TypeOK'
    <2>1. /\ pc' \in [Threads -> {"idle", "open", "write", "select"}]
          /\ cc' \in [Threads -> Controls \union {None}]
          /\ torn' \in [Threads -> BOOLEAN]
      BY DEF Crash
    <2>2. done' \in [Senders -> 0..3]
      BY DEF IInv, TypeOK, Crash
    <2>3. QED
      BY <1>1, <2>1, <2>2 DEF IInv, TypeOK, receiver
  <1>3. RequestInv'
    BY <1>1 DEF RequestInv
  <1>4. BusyInv'
    BY <1>1 DEF IInv, BusyInv
  <1>5. QED
    BY <1>1, <1>2, <1>3, <1>4, StepBeside

LEMMA StepTransmit ==
  ASSUME IInv, Transmit
  PROVE  IInv'
  <1>1. /\ LinkedInv' /\ HeadInv'
        /\ \A m \in Message : \A q \in {1, 2} : LastQueued(m, q) => LastQueued(m, q)'
    BY TransmitKeeps DEF IInv
  <1>2. UNCHANGED <<busy, midi_msg, pc, cc, done, torn>>
    BY DEF Transmit
  <1>3. TypeOK'
    <2>1. /\ line' \in Seq(Place) /\ Len(line') = Len(line) - 1 /\ Len(line) \in 0..Room
          /\ Head(line) \in Place
      BY TypeOfLine, TailEffect DEF LineType, IInv, Transmit
    <2>2. HeadByte \in Byte
      BY <2>1, MessageBytes DEF HeadByte, Place
    <2>3. status' \in {0} \union 128..239 /\ data' \in {<<>>} \union {<<n>> : n \in 0..127}
      <3>1. Receive(HeadByte) /\ status \in {0} \union 128..239
            /\ data \in {<<>>} \union {<<n>> : n \in 0..127}
        BY DEF IInv, TypeOK, Transmit
      <3>2. CASE HeadByte < 128 /\ status' = status
                 /\ data' = (IF status = 0 \/ Completes THEN <<>> ELSE <<HeadByte>>)
        <4>1. HeadByte \in 0..127
          BY <2>2, <3>2 DEF Byte
        <4>2. QED
          BY <3>1, <3>2, <4>1
      <3>3. CASE HeadByte \in 128..239 /\ status' = HeadByte /\ data' = <<>>
        BY <3>3
      <3>4. CASE status' = 0 /\ data' = <<>>
        BY <3>4
      <3>5. CASE UNCHANGED receiver
        BY <3>1, <3>5 DEF receiver
      <3>6. QED
        BY <3>1, <3>2, <3>3, <3>4, <3>5 DEF Receive
    <2>4. Len(line') <= Room
      BY <2>1, SerialAssumption
    <2>5. QED
      BY <1>2, <2>1, <2>3, <2>4 DEF IInv, TypeOK, Place
  <1>4. RequestInv' /\ BusyInv'
    BY <1>2 DEF IInv, RequestInv, BusyInv, CcBytes, StatusByte
  <1>5. HalfInv'
    <2>1. ASSUME NEW t \in Threads, done'[t] \in {1, 2}, ~torn'[t]
          PROVE  LastQueued(CcBytes(cc[t]), done[t])'
      <3>1. done[t] \in {1, 2} /\ ~torn[t] /\ CcBytes(cc[t]) \in Message
        BY <1>2, <2>1 DEF IInv, RequestInv, TypeOK
      <3>2. PICK m \in Message, q \in {1, 2} : m = CcBytes(cc[t]) /\ q = done[t]
        BY <3>1
      <3>3. LastQueued(m, q)
        BY <3>1, <3>2 DEF IInv, HalfInv
      <3>4. LastQueued(m, q)'
        BY <1>1, <3>3
      <3>5. QED
        BY <1>2, <3>2, <3>4 DEF LastQueued, After, CcBytes, StatusByte
    <2>2. ASSUME NEW d \in Drafts, done'[d] \in {1, 2}
          PROVE  LastQueued(midi_msg[d], done[d])'
      <3>1. done[d] \in {1, 2} /\ midi_msg[d] \in Message
        BY <1>2, <2>2, SerialAssumption DEF IInv, TypeOK
      <3>2. PICK m \in Message, q \in {1, 2} : m = midi_msg[d] /\ q = done[d]
        BY <3>1
      <3>3. LastQueued(m, q)
        BY <3>1, <3>2 DEF IInv, HalfInv
      <3>4. LastQueued(m, q)'
        BY <1>1, <3>3
      <3>5. QED
        BY <1>2, <3>2, <3>4 DEF LastQueued, After
    <2>3. QED
      BY <2>1, <2>2 DEF HalfInv
  <1>6. QED
    BY <1>1, <1>3, <1>4, <1>5 DEF IInv

----------------------------------------------------------------------------
(* The invariant, and what follows from it.                                *)

LEMMA ThreeBytes ==
  ASSUME NEW a \in Byte, NEW b \in Byte, NEW c \in Byte
  PROVE  <<a>> \o <<b>> \o <<c>> = <<a, b, c>>
  <1>1. <<a>> \in Seq(Byte) /\ <<b>> \in Seq(Byte) /\ <<c>> \in Seq(Byte)
    OBVIOUS
  <1>a. PICK s : s = <<a>> \o <<b>>
    OBVIOUS
  <1>b. Len(<<a>>) = 1 /\ Len(<<b>>) = 1 /\ <<a>>[1] = a /\ <<b>>[1] = b
    OBVIOUS
  <1>c. /\ s \in Seq(Byte) /\ Len(s) = 2
        /\ \A i \in 1..2 : s[i] = IF i <= 1 THEN <<a>>[i] ELSE <<b>>[i - 1]
    BY <1>1, <1>a, <1>b, ConcatProperties
  <1>2. s = <<a>> \o <<b>> /\ Len(s) = 2 /\ s[1] = a /\ s[2] = b /\ s \in Seq(Byte)
    BY <1>a, <1>b, <1>c
  <1>3. Len(<<c>>) = 1 /\ <<c>>[1] = c
    OBVIOUS
  <1>4. PICK r : r = s \o <<c>>
    OBVIOUS
  <1>5. /\ r \in Seq(Byte) /\ Len(r) = 3
        /\ \A i \in 1..3 : r[i] = IF i <= 2 THEN s[i] ELSE <<c>>[i - 2]
    BY <1>1, <1>2, <1>3, <1>4, ConcatProperties
  <1>6. r[1] = a /\ r[2] = b /\ r[3] = c
    BY <1>2, <1>3, <1>5
  <1>7. r = <<r[1], r[2], r[3]>>
    BY <1>5
  <1>8. QED
    BY <1>2, <1>4, <1>6, <1>7

LEMMA CcNeeds ==
  ASSUME NEW s \in 176..191
  PROVE  Needs(s) = 2 /\ s # 0
  BY DEF Needs

LEMMA Initially == Init => IInv
  <1> SUFFICES ASSUME Init PROVE IInv
    OBVIOUS
  <1>1. line = <<>> /\ Len(line) = 0 /\ busy = None /\ None \notin Drafts
        /\ (\A t \in Threads : pc[t] = "idle") /\ (\A s \in Senders : done[s] = 0)
    BY SerialAssumption DEF Init
  <1>2. TypeOK
    <2>1. line \in Seq([msg : Message, pos : 1..3, torn : BOOLEAN])
      BY <1>1
    <2>2. QED
      BY <1>1, <2>1, SerialAssumption DEF Init, TypeOK
  <1>3. LinkedInv /\ HeadInv
    BY <1>1 DEF LinkedInv, HeadInv
  <1>4. HalfInv /\ RequestInv /\ BusyInv
    BY <1>1 DEF HalfInv, RequestInv, BusyInv, Senders
  <1>5. QED
    BY <1>2, <1>3, <1>4 DEF IInv

\* The invariant that the theorems below rest on.
THEOREM Invariance == SafeSpec => []IInv
  <1>1. ASSUME IInv, [Next]_vars PROVE IInv'
    <2>1. ASSUME NEW w \in Tappers, sendCC(w) PROVE IInv'
      BY <1>1, <2>1, StepTapper
    <2>2. ASSUME NEW d \in Drafts, DraftBeat(d) \/ DraftWrites(d) PROVE IInv'
      BY <1>1, <2>2, StepPush DEF DraftBeat, DraftWrites
    <2>3. ASSUME NEW d \in Drafts, handler(d) PROVE IInv'
      BY <1>1, <2>3, StepInterrupted
    <2>4. ASSUME NEW t \in Threads, midi_cc(t) \/ Serve(t) \/ WriteFails(t) PROVE IInv'
      BY <1>1, <2>4, StepThread, StepWrite DEF Serve
    <2>5. CASE UNCHANGED vars
      <3>1. UNCHANGED <<line, receiver, midi_msg, busy, pc, cc, done, torn>>
        BY <2>5 DEF vars
      <3>2. TypeOK' /\ RequestInv' /\ BusyInv'
        BY <1>1, <3>1 DEF IInv, TypeOK, RequestInv, BusyInv, receiver, CcBytes, StatusByte
      <3>3. QED
        BY <1>1, <3>1, <3>2, StepBeside
    <2>6. QED
      BY <1>1, <2>1, <2>2, <2>3, <2>4, <2>5, StepCrash, StepTransmit DEF Next
  <1>2. QED
    BY <1>1, Initially, PTL DEF SafeSpec

\* Every state of the line, of the receiver and of those who write is typed:
\* no byte goes out that is none, and the driver's queue is not exceeded.
THEOREM TypeCorrect == SafeSpec => []TypeOK
  <1>1. IInv => TypeOK
    BY DEF IInv
  <1>2. QED
    BY <1>1, Invariance, PTL

\* A control change within MIDI's ranges that nobody else's bytes came between
\* is heard as what it is (tapper.c 34-38, midi_so.c 27-30, midi-gw.py 24-32).
THEOREM IntactHeard == SafeSpec => []IntactIsHeard
  <1>1. ASSUME IInv PROVE IntactIsHeard
    <2> SUFFICES ASSUME line # <<>>, Head(line).pos = 3, ~Head(line).torn,
                        InRange(Head(line).msg)
                 PROVE  Heard = Head(line).msg
      BY DEF IntactIsHeard
    <2>1. Head(line) = line[1] /\ line[1] \in Place
      <3>1. line \in Seq(Place)
        BY <1>1, TypeOfLine DEF IInv, LineType
      <3>2. Len(line) \in Nat \ {0}
        BY <3>1, EmptySeq
      <3>3. QED
        BY <3>1, <3>2, ElementOfSeq, SMT
    <2>2. PICK m \in Message : m = line[1].msg
      BY <2>1 DEF Place
    <2>3. status = m[1] /\ data = <<m[2]>>
      BY <1>1, <2>1, <2>2 DEF IInv, HeadInv, After
    <2>4. HeadByte = m[3] /\ m[1] \in 176..191 /\ m[3] < 128
      BY <2>1, <2>2 DEF HeadByte, InRange
    <2>5. Len(data) + 1 = 2
      BY <2>3
    <2>6. Needs(status) = 2 /\ status # 0
      <3>1. status = m[1] /\ m[1] \in 176..191
        BY <2>3, <2>4
      <3>2. QED
        BY <3>1, CcNeeds
    <2>7. Completes
      BY <2>4, <2>5, <2>6 DEF Completes
    <2>8. Heard = <<m[1]>> \o <<m[2]>> \o <<m[3]>>
      BY <2>3, <2>4, <2>7 DEF Heard
    <2>9. <<m[1]>> \o <<m[2]>> \o <<m[3]>> = <<m[1], m[2], m[3]>>
      BY MessageBytes, ThreeBytes
    <2>10. QED
      BY <2>1, <2>2, <2>8, <2>9, MessageBytes
  <1>2. QED
    BY <1>1, Invariance, PTL

\* What the receiver hears and nobody sent needs a torn /midi/cc message, or
\* one out of MIDI's ranges: bytes that tappers lose do not do it.
THEOREM NothingIsInvented == SafeSpec => []NothingInvented
  <1>1. ASSUME IInv, IntactIsHeard PROVE NothingInvented
    <2> SUFFICES ASSUME line # <<>>, ~Head(line).torn, InRange(Head(line).msg)
                 PROVE  Heard \in {<<>>, Head(line).msg}
      BY DEF NothingInvented
    <2>1. Head(line) = line[1] /\ line[1] \in Place
      <3>1. line \in Seq(Place)
        BY <1>1, TypeOfLine DEF IInv, LineType
      <3>2. Len(line) \in Nat \ {0}
        BY <3>1, EmptySeq
      <3>3. QED
        BY <3>1, <3>2, ElementOfSeq, SMT
    <2>2. PICK m \in Message : m = line[1].msg
      BY <2>1 DEF Place
    <2>3. m[1] \in 176..191 /\ HeadByte = m[line[1].pos]
      BY <2>1, <2>2 DEF HeadByte, InRange
    <2>4. CASE line[1].pos = 1
      BY <2>3, <2>4 DEF Heard, Completes
    <2>5. CASE line[1].pos = 2
      <3>1. status = m[1] /\ data = <<>>
        BY <1>1, <2>1, <2>2, <2>5 DEF IInv, HeadInv, After
      <3>2. Len(data) + 1 = 1
        BY <3>1
      <3>3. Needs(status) = 2
        <4>1. status = m[1] /\ m[1] \in 176..191
          BY <2>3, <3>1
        <4>2. QED
          BY <4>1, CcNeeds
      <3>4. QED
        BY <3>2, <3>3 DEF Heard, Completes
    <2>6. CASE line[1].pos = 3
      BY <1>1, <2>1, <2>6 DEF IntactIsHeard
    <2>7. QED
      BY <2>1, <2>4, <2>5, <2>6 DEF Place
  <1>2. QED
    BY <1>1, Invariance, IntactHeard, PTL

----------------------------------------------------------------------------
(* The line without requests.                                              *)

TapsOnly == \A k \in 1..Len(line) : ~line[k].torn /\ line[k].msg \in Beats

LEMMA QueueTaps ==
  ASSUME IInv, TapsOnly, NEW m \in Beats, NEW q \in 0..2, NEW n \in 0..(3 - q),
         Queue(m, q, n, FALSE)
  PROVE  TapsOnly'
  <1>1. line \in Seq(Place) /\ Len(line) \in Nat
    BY TypeOfLine, SerialAssumption DEF IInv, LineType
  <1>2. m \in Message /\ q \in 0..3 /\ FALSE \in BOOLEAN
    BY SerialAssumption
  <1>3. /\ Len(line') = Len(line) + n
        /\ \A k \in 1..Len(line) : line'[k] = line[k]
        /\ \A k \in 1..n : line'[Len(line) + k] = [msg |-> m, pos |-> q + k, torn |-> FALSE]
    BY <1>1, <1>2, QueueEffect
  <1>4. ASSUME NEW k \in 1..Len(line') PROVE ~line'[k].torn /\ line'[k].msg \in Beats
    <2>1. CASE k \in 1..Len(line)
      BY <1>3, <2>1 DEF TapsOnly
    <2>2. CASE k \notin 1..Len(line)
      <3>1. k - Len(line) \in 1..n /\ Len(line) + (k - Len(line)) = k
        BY <1>1, <1>3, <2>2
      <3>2. line'[k] = [msg |-> m, pos |-> q + (k - Len(line)), torn |-> FALSE]
        BY <1>3, <3>1
      <3>3. QED
        BY <3>2
    <2>3. QED
      BY <2>1, <2>2
  <1>5. QED
    BY <1>4 DEF TapsOnly

LEMMA StepTaps ==
  ASSUME Controls = {}, IInv, TapsOnly, [Next]_vars
  PROVE  TapsOnly'
  <1>1. ASSUME NEW w \in Tappers, sendCC(w) PROVE TapsOnly'
    <2>1. midi_msg[w] \in Beats
      BY DEF IInv, TypeOK
    <2>2. LineType /\ 3 \in 0..3 /\ 0 \in 0..3 /\ 3 - 0 = 3
      BY TypeOfLine DEF IInv
    <2>3. Least(3, Free) \in 0..3
      BY <2>2, Chunk
    <2> DEFINE n == IF busy = None THEN Least(3, Free) ELSE 0
    <2>4. Queue(midi_msg[w], 0, n, FALSE)
      BY <1>1 DEF sendCC
    <2>5. 0 \in 0..2 /\ n \in 0..(3 - 0)
      BY <2>3
    <2> HIDE DEF n
    <2>6. QED
      BY <2>1, <2>4, <2>5, QueueTaps
  <1>2. ASSUME NEW d \in Drafts, DraftBeat(d) \/ DraftWrites(d) PROVE TapsOnly'
    <2>1. midi_msg[d] \in Beats /\ done[d] \in 0..2
      BY DEF IInv, TypeOK, BusyInv
    <2>2. PICK q \in 0..2 : q = done[d]
      BY <2>1
    <2>3. LineType /\ q \in 0..3
      BY TypeOfLine DEF IInv
    <2>4. Least(3 - q, Free) \in 0..(3 - q)
      BY <2>3, Chunk
    <2>5. PICK n \in 0..(3 - q) : Queue(midi_msg[d], q, n, FALSE)
      BY <1>2, <2>2, <2>4 DEF DraftBeat, DraftWrites, Push
    <2>6. QED
      BY <2>1, <2>5, QueueTaps
  <1>3. ASSUME NEW t \in Threads, midi_cc(t) \/ Serve(t) \/ WriteFails(t) PROVE FALSE
    <2>1. pc[t] = "idle"
      BY DEF IInv, RequestInv
    <2>2. QED
      BY <1>3, <2>1 DEF midi_cc, Serve, WriteFails, OpenSerial, Write, Select, AtPc
  <1>4. CASE Crash \/ (\E d \in Drafts : handler(d)) \/ UNCHANGED vars
    <2>1. line' = line
      BY <1>4 DEF Crash, handler, vars
    <2>2. QED
      BY <2>1 DEF TapsOnly
  <1>5. CASE Transmit
    <2>1. line \in Seq(Place) /\ line # <<>> /\ line' = Tail(line)
      BY <1>5, TypeOfLine DEF Transmit, IInv, LineType
    <2>2. /\ Len(line) \in Nat \ {0} /\ Len(line') = Len(line) - 1
          /\ \A k \in 1..Len(line') : line'[k] = line[k + 1]
      BY <2>1, TailEffect
    <2>3. \A k \in 1..Len(line') : k + 1 \in 1..Len(line)
      BY <2>2
    <2>4. QED
      BY <2>2, <2>3 DEF TapsOnly
  <1>6. QED
    BY <1>1, <1>2, <1>3, <1>4, <1>5 DEF Next

\* As long as nobody requests /midi/cc, and the tappers play within MIDI's ranges,
\* the receiver hears whole messages of theirs or nothing: however many tappers of
\* both kinds share the line, whatever the queue drops, and wherever a signal cuts
\* a blocking write (tapper.c 32-38, midi_so.c 27-43).
THEOREM TappersAreNeverMisheard ==
  ASSUME Controls = {}, \A m \in Beats : InRange(m)
  PROVE  SafeSpec => [](line # <<>> => Heard \in {<<>>, Head(line).msg}
                                       /\ Head(line).msg \in Beats)
  <1>1. Init => TapsOnly
    BY DEF Init, TapsOnly
  <1>2. IInv /\ TapsOnly /\ [Next]_vars => TapsOnly'
    BY StepTaps
  <1>3. IInv /\ TapsOnly /\ NothingInvented =>
          (line # <<>> => Heard \in {<<>>, Head(line).msg} /\ Head(line).msg \in Beats)
    <2> SUFFICES ASSUME IInv, TapsOnly, NothingInvented, line # <<>>
                 PROVE  Heard \in {<<>>, Head(line).msg} /\ Head(line).msg \in Beats
      OBVIOUS
    <2>1. line \in Seq(Place) /\ Len(line) \in Nat \ {0}
      BY TypeOfLine, EmptySeq DEF IInv, LineType
    <2>2. Head(line) = line[1]
      BY <2>1
    <2>3. ~Head(line).torn /\ Head(line).msg \in Beats
      BY <2>1, <2>2 DEF TapsOnly
    <2>4. QED
      BY <2>3 DEF NothingInvented
  <1>4. QED
    BY <1>1, <1>2, <1>3, Invariance, NothingIsInvented, PTL DEF SafeSpec

----------------------------------------------------------------------------
(* How near its answer a request is.                                       *)

\* The most steps a request can still need: each os.write queues a byte or more.
Left(t) == CASE pc[t] = "open"   -> 9
             [] pc[t] = "select" -> 2 * (3 - done[t]) + 3
             [] pc[t] = "write"  -> 2 * (3 - done[t]) + 2
             [] pc[t] = "idle"   -> 0

LEMMA LeftType ==
  ASSUME IInv, NEW t \in Threads
  PROVE  Left(t) \in 0..9
  <1>1. pc[t] \in {"idle", "open", "write", "select"} /\ done[t] \in 0..3
    BY DEF IInv, TypeOK, Senders
  <1>2. PICK q \in 0..3 : q = done[t]
    BY <1>1
  <1>3. 2 * (3 - q) + 3 \in 0..9 /\ (2 * (3 - q) + 2) \in 0..9
    OBVIOUS
  <1>4. QED
    BY <1>1, <1>2, <1>3 DEF Left

LEMMA AnswerIsNear ==
  ASSUME IInv, NEW t \in Threads, Answer(t)
  PROVE  Left(t)' = 0
  BY DEF Answer, Goto, Left, IInv, TypeOK

LEMMA ServeGetsNearer ==
  ASSUME IInv, NEW t \in Threads, Serve(t)
  PROVE  Left(t) \in Nat /\ Left(t)' \in Nat /\ Left(t)' < Left(t)
  <1>1. /\ pc \in [Threads -> {"idle", "open", "write", "select"}]
        /\ done \in [Senders -> 0..3] /\ t \in Senders
        /\ pc[t] = "write" => done[t] \in 0..2
    BY DEF IInv, TypeOK, RequestInv, Senders
  <1>2. CASE OpenSerial(t)
    <2>1. Left(t) = 9
      BY <1>2 DEF OpenSerial, AtPc, Left
    <2>2. CASE Answer(t)
      BY <2>1, <2>2, AnswerIsNear
    <2>3. CASE Goto(t, "write") /\ UNCHANGED done
      <3>1. pc'[t] = "write" /\ done'[t] = 0
        BY <1>1, <1>2, <2>3 DEF OpenSerial, AtPc, Goto, IInv, RequestInv
      <3>2. Left(t)' = 8
        BY <3>1 DEF Left
      <3>3. QED
        BY <2>1, <3>2
    <2>4. QED
      BY <1>2, <2>2, <2>3 DEF OpenSerial
  <1>3. CASE Write(t)
    <2>1. PICK q \in 0..2 : q = done[t]
      BY <1>1, <1>3 DEF Write, AtPc
    <2>2. LineType /\ q \in 0..3 /\ Free > 0
      BY <1>3, TypeOfLine DEF IInv, Write
    <2>3. PICK n \in 1..(3 - q) : n = Least(3 - q, Free)
      <3>1. Least(3 - q, Free) \in 0..(3 - q) /\ Least(3 - q, Free) > 0
        BY <2>1, <2>2, Chunk
      <3>2. QED
        BY <3>1
    <2>4. pc[t] = "write" /\ pc'[t] = "select" /\ done'[t] = q + n
      BY <1>1, <1>3, <2>1, <2>3 DEF Write, AtPc, Goto
    <2>5. Left(t) = 2 * (3 - q) + 2 /\ Left(t)' = 2 * (3 - (q + n)) + 3
      BY <2>1, <2>4 DEF Left
    <2>6. QED
      BY <2>5
  <1>4. CASE Select(t)
    <2>1. pc[t] = "select" /\ Left(t) = 2 * (3 - done[t]) + 3 /\ done[t] \in 0..3
      BY <1>1, <1>4 DEF Select, AtPc, Left
    <2>2. CASE Answer(t)
      BY <2>1, <2>2, AnswerIsNear
    <2>3. CASE Goto(t, "write") /\ UNCHANGED done
      <3>1. Left(t)' = 2 * (3 - done[t]) + 2
        BY <1>1, <2>3 DEF Goto, Left
      <3>2. QED
        BY <2>1, <3>1
    <2>4. QED
      BY <1>4, <2>2, <2>3 DEF Select
  <1>5. QED
    BY <1>2, <1>3, <1>4 DEF Serve

LEMMA OthersDoNotDelay ==
  ASSUME IInv, NEW t \in Threads, pc[t] # "idle", [Next]_vars, ~Serve(t)
  PROVE  Left(t)' <= Left(t)
  <1>1. /\ pc \in [Threads -> {"idle", "open", "write", "select"}]
        /\ done \in [Senders -> 0..3] /\ t \in Senders /\ t \notin Drafts
        /\ Left(t) \in 0..9
    BY SerialAssumption, LeftType DEF IInv, TypeOK, Senders
  <1>2. ASSUME pc'[t] = pc[t], done'[t] = done[t] PROVE Left(t)' <= Left(t)
    <2>1. Left(t)' = Left(t)
      BY <1>2 DEF Left
    <2>2. QED
      BY <1>1, <2>1
  <1>3. CASE (\E w \in Tappers : sendCC(w)) \/ Transmit \/ UNCHANGED vars
    BY <1>2, <1>3 DEF sendCC, Transmit, vars
  <1>4. ASSUME NEW d \in Drafts, DraftBeat(d) \/ DraftWrites(d) \/ handler(d)
        PROVE  Left(t)' <= Left(t)
    <2>1. pc' = pc /\ \E q : done' = [done EXCEPT ![d] = q]
      BY <1>4 DEF DraftBeat, DraftWrites, Push, handler
    <2>2. done'[t] = done[t]
      BY <1>1, <2>1
    <2>3. QED
      BY <1>2, <2>1, <2>2
  <1>5. ASSUME NEW u \in Threads, midi_cc(u) \/ Serve(u) PROVE Left(t)' <= Left(t)
    <2>1. u # t
      BY <1>5 DEF midi_cc, AtPc
    <2>2. /\ \E p : pc' = [pc EXCEPT ![u] = p]
          /\ done' = done \/ \E q : done' = [done EXCEPT ![u] = q]
      BY <1>5 DEF midi_cc, Serve, OpenSerial, Write, Select, Answer, Goto
    <2>3. pc'[t] = pc[t] /\ done'[t] = done[t]
      BY <1>1, <2>1, <2>2
    <2>4. QED
      BY <1>2, <2>3
  <1>6. CASE Crash
    <2>1. Left(t)' = 0
      BY <1>6 DEF Crash, Left
    <2>2. QED
      BY <1>1, <2>1
  <1>7. ASSUME NEW u \in Threads, WriteFails(u) PROVE Left(t)' <= Left(t)
    <2>1. CASE u = t
      BY <1>1, <1>7, <2>1, AnswerIsNear DEF WriteFails
    <2>2. CASE u # t
      BY <1>1, <1>2, <1>7, <2>2 DEF WriteFails, Answer, Goto
    <2>3. QED
      BY <2>1, <2>2
  <1>8. QED
    BY <1>3, <1>4, <1>5, <1>6, <1>7 DEF Next

\* A /midi/cc request is answered after at most nine steps of its thread, whatever
\* other writers do to the queue meanwhile: each step takes it nearer, and no step
\* of anybody else's takes it back (midi-gw.py 24-32, 69-72).  What remains for
\* CcAnswered is that the queue has room again and again.
THEOREM RequestIsShort ==
  SafeSpec => /\ [](\A t \in Threads : Left(t) \in 0..9)
              /\ [][\A t \in Threads : pc[t] # "idle" =>
                      /\ Left(t)' <= Left(t)
                      /\ Serve(t) => Left(t)' < Left(t)]_vars
  <1>1. ASSUME IInv, [Next]_vars, NEW t \in Threads, pc[t] # "idle"
        PROVE  Left(t)' <= Left(t) /\ (Serve(t) => Left(t)' < Left(t))
    <2>1. CASE Serve(t)
      BY <1>1, <2>1, ServeGetsNearer
    <2>2. CASE ~Serve(t)
      BY <1>1, <2>2, OthersDoNotDelay
    <2>3. QED
      BY <2>1, <2>2
  <1>2. IInv /\ [Next]_vars =>
          [\A t \in Threads : pc[t] # "idle" =>
             /\ Left(t)' <= Left(t)
             /\ Serve(t) => Left(t)' < Left(t)]_vars
    BY <1>1
  <1>3. IInv => \A t \in Threads : Left(t) \in 0..9
    BY LeftType
  <1>4. QED
    BY <1>2, <1>3, Invariance, PTL DEF SafeSpec
============================================================================
