----------------------------- MODULE GatewayProof --------------------------
(***************************************************************************)
(* Proofs about the gateway, for any number of threads and tappers and any *)
(* number of restarts.                                                     *)
(***************************************************************************)
EXTENDS Gateway, TLAPS

HandPcs == {"assign", "kill int", "kill term"}
Tested  == {"load int", "kill int", "load term", "kill term"}
Pcs     == {"idle"} \union StartPcs \union StopPcs

\* Who is in hand or registered has been started, and nobody else was signalled.
HandInv ==
  /\ \A t \in Threads : IF pc[t] \in HandPcs THEN obj[t] \in Procs /\ phase[obj[t]] # "unborn"
                                             ELSE obj[t] = None
  /\ tap_proc # None => phase[tap_proc] # "unborn"
  /\ \A p \in Procs : asked[p] # {} => phase[p] # "unborn"
  /\ \A p \in Procs : Alive(p) /\ "term" \in asked[p] => "term" \in sig[p]

\* Overlapping stops know of each other, and only a stop resets tap_proc.
RivalInv ==
  /\ \A t \in Threads : reply[t] = "attribute error" => pc[t] = "idle" /\ "stop" \in rival[t]
  /\ \A t, u \in Threads :
       t # u /\ pc[t] \in StopPcs /\ pc[u] \in StopPcs => "stop" \in rival[t]
  /\ \A t \in Threads : pc[t] \in Tested /\ tap_proc = None => "stop" \in rival[t]

\* What tap_proc was set to while a stop is under way is in raced; so once a
\* stop has sent SIGINT, what is registered got it or is in raced.
AfterInt == {"load term", "kill term", "clear"}

RacedInv ==
  /\ \A p \in Procs : "term" \in asked[p] /\ "int" \notin asked[p] => p \in raced
  /\ \A t \in Threads :
       /\ pc[t] = "kill int" => tap_proc \in {obj[t], None} \union raced
       /\ pc[t] \in AfterInt /\ tap_proc # None =>
            tap_proc \in raced \/ "int" \in asked[tap_proc]
       /\ pc[t] = "kill term" => obj[t] \in raced \/ "int" \in asked[obj[t]]

\* While nobody serves, there is nothing to lose.
ServiceInv ==
  /\ service # "up" => tap_proc = None /\ \A t \in Threads : pc[t] = "idle"
  /\ service = "booting" => \A p \in Procs : ~Alive(p)

\* With polite clients a start has the gateway for itself, and a stop deals with
\* the one tapper that is registered, or another stop has dealt with it.
PoliteInv ==
  polite /\ service = "up" =>
    /\ \A p \in Procs : Alive(p) => p = tap_proc \/ InHand(p) \/ "term" \in asked[p]
    /\ \A t \in Threads :
         /\ pc[t] \in StartPcs => tap_proc = None /\ \A u \in Threads \ {t} : pc[u] = "idle"
         /\ pc[t] \in {"kill int", "kill term"} =>
              /\ tap_proc \in {obj[t], None}
              /\ tap_proc = None => "term" \in asked[obj[t]]
         /\ pc[t] = "clear" /\ tap_proc # None => "term" \in asked[tap_proc]

IInv == TypeOK /\ HandInv /\ RivalInv /\ RacedInv /\ ServiceInv /\ PoliteInv

----------------------------------------------------------------------------
LEMMA ContractFacts ==
  ASSUME NEW p \in Procs, NEW s
  PROVE  /\ P(p)!Ready => phase[p] = "starting"
         /\ P(p)!Interrupt /\ phase'[p] # "dead" => phase[p] \in {"tapping", "stopping"}
         /\ P(p)!Signal(s) => s \notin sig[p]
  BY DEF P!Ready, P!Interrupt, P!Signal, P!Die

\* What a statement does to the thread that executes it, and to no other.
LEMMA Moves ==
  ASSUME TypeOK, NEW t \in Threads, NEW q \in Pcs, Goto(t, q)
  PROVE  /\ pc' \in [Threads -> Pcs] /\ pc'[t] = q
         /\ \A u \in Threads \ {t} : pc'[u] = pc[u]
         /\ UNCHANGED <<reply, rival>>
  BY DEF TypeOK, Goto, Pcs

Replies == {"none", "OK", "not running", "spawn error", "attribute error"}

LEMMA Answers ==
  ASSUME TypeOK, NEW t \in Threads, NEW r \in Replies, Answer(t, r)
  PROVE  /\ pc' \in [Threads -> Pcs] /\ pc'[t] = "idle"
         /\ \A u \in Threads \ {t} : pc'[u] = pc[u] /\ reply'[u] = reply[u] /\ rival'[u] = rival[u]
         /\ reply' \in [Threads -> Replies] /\ reply'[t] = r
         /\ rival' \in [Threads -> SUBSET {"start", "stop"}]
         /\ r = "attribute error" => rival'[t] = rival[t]
  BY DEF TypeOK, Answer, Pcs, Replies

\* A thread that answers for a reason leaves the stops' knowledge of each other.
LEMMA AnswerKeepsRivals ==
  ASSUME TypeOK, RivalInv, NEW t \in Threads, NEW r \in Replies, Answer(t, r),
         r = "attribute error" => "stop" \in rival[t],
         \A u \in Threads \ {t} : pc[u] \in Tested /\ tap_proc' = None => "stop" \in rival[u]
  PROVE  RivalInv'
  <1>1. /\ pc'[t] = "idle"
        /\ \A u \in Threads \ {t} : pc'[u] = pc[u] /\ reply'[u] = reply[u] /\ rival'[u] = rival[u]
        /\ reply'[t] = r
        /\ r = "attribute error" => rival'[t] = rival[t]
    BY Answers
  <1>2. QED
    BY <1>1 DEF RivalInv, StopPcs, Tested

LEMMA StepSpawn ==
  ASSUME IInv, NEW t \in Threads, Spawn(t)
  PROVE  IInv'
  <1>1. /\ service = "up" /\ pc[t] = "popen" /\ obj[t] = None
        /\ UNCHANGED <<service, restarts, tap_proc, sig, asked, raced, polite>>
    BY DEF Spawn, At, gateway, record, IInv, HandInv, HandPcs
  <1>2. ASSUME NEW p \in Unborn, phase' = [phase EXCEPT ![p] = "starting"],
               obj' = [obj EXCEPT ![t] = p], Goto(t, "assign")
        PROVE  IInv'
    <2>1. /\ pc' \in [Threads -> Pcs] /\ pc'[t] = "assign"
          /\ \A u \in Threads \ {t} : pc'[u] = pc[u]
          /\ UNCHANGED <<reply, rival>>
      BY <1>2, Moves DEF IInv, Pcs, StartPcs
    <2>2. /\ p \in Procs /\ phase[p] = "unborn" /\ phase'[p] = "starting"
          /\ \A q \in Procs \ {p} : phase'[q] = phase[q]
          /\ obj'[t] = p /\ \A u \in Threads \ {t} : obj'[u] = obj[u]
      BY <1>2 DEF IInv, TypeOK, Unborn
    <2>3. TypeOK'
      BY <1>1, <1>2, <2>1, <2>2 DEF IInv, TypeOK, Pcs
    <2>4. HandInv'
      <3>1. \A u \in Threads : IF pc'[u] \in HandPcs THEN obj'[u] \in Procs /\ phase'[obj'[u]] # "unborn"
                                                    ELSE obj'[u] = None
        <4>1. pc'[t] \in HandPcs /\ obj'[t] \in Procs /\ phase'[obj'[t]] # "unborn"
          BY <2>1, <2>2 DEF HandPcs
        <4>2. ASSUME NEW u \in Threads, u # t, pc[u] \in HandPcs
              PROVE  obj[u] \in Procs \ {p} /\ phase[obj[u]] # "unborn"
          BY <2>2, <4>2 DEF IInv, HandInv
        <4>3. \A u \in Threads \ {t} : pc[u] \notin HandPcs => obj[u] = None
          BY DEF IInv, HandInv
        <4>4. QED
          BY <2>1, <2>2, <4>1, <4>2, <4>3
      <3>2. tap_proc' # None => phase'[tap_proc'] # "unborn"
        BY <1>1, <2>2 DEF IInv, TypeOK, HandInv
      <3>3. \A q \in Procs : asked'[q] # {} => phase'[q] # "unborn"
        BY <1>1, <2>2 DEF IInv, HandInv
      <3>4. \A q \in Procs : Alive(q)' /\ "term" \in asked'[q] => "term" \in sig'[q]
        BY <1>1, <2>2 DEF IInv, HandInv, Alive
      <3>5. QED
        BY <3>1, <3>2, <3>3, <3>4 DEF HandInv
    <2>5. RivalInv'
      BY <1>1, <2>1 DEF IInv, RivalInv, StopPcs, Tested
    <2>6. RacedInv'
      BY <1>1, <2>1, <2>2 DEF IInv, RacedInv, AfterInt
    <2>7. ServiceInv'
      BY <1>1 DEF ServiceInv
    <2>8. PoliteInv'
      <3> SUFFICES ASSUME polite PROVE PoliteInv'
        BY <1>1 DEF PoliteInv
      <3>1. tap_proc = None /\ \A u \in Threads \ {t} : pc[u] = "idle"
        BY <1>1 DEF IInv, PoliteInv, StartPcs
      <3>2. \A q \in Procs : Alive(q)' => q = tap_proc' \/ InHand(q)' \/ "term" \in asked'[q]
        BY <1>1, <2>2, GatewayAssumption DEF IInv, PoliteInv, Alive, InHand
      <3>3. QED
        BY <1>1, <2>1, <3>1, <3>2 DEF PoliteInv, StartPcs
    <2>9. QED
      BY <2>3, <2>4, <2>5, <2>6, <2>7, <2>8 DEF IInv
  <1>3. ASSUME Answer(t, "spawn error"), UNCHANGED <<phase, obj>>
        PROVE  IInv'
    <2>1. /\ pc' \in [Threads -> Pcs] /\ pc'[t] = "idle"
          /\ \A u \in Threads \ {t} : pc'[u] = pc[u]
          /\ reply' \in [Threads -> Replies] /\ rival' \in [Threads -> SUBSET {"start", "stop"}]
      BY <1>3, Answers DEF IInv, Replies
    <2>2. TypeOK'
      BY <1>1, <1>3, <2>1 DEF IInv, TypeOK, Pcs, Replies
    <2>3. HandInv'
      BY <1>1, <1>3, <2>1 DEF IInv, HandInv, HandPcs, Alive
    <2>4. RivalInv'
      BY <1>1, <1>3, AnswerKeepsRivals DEF IInv, RivalInv, Replies
    <2>5. RacedInv' /\ ServiceInv'
      BY <1>1, <1>3, <2>1 DEF IInv, RacedInv, ServiceInv, AfterInt
    <2>6. PoliteInv'
      BY <1>1, <1>3, <2>1 DEF IInv, PoliteInv, Alive, InHand, StartPcs
    <2>7. QED
      BY <2>2, <2>3, <2>4, <2>5, <2>6 DEF IInv
  <1>4. QED
    BY <1>2, <1>3 DEF Spawn

LEMMA StepAssign ==
  ASSUME IInv, NEW t \in Threads, Assign(t)
  PROVE  IInv'
  <1>1. /\ service = "up" /\ pc[t] = "assign" /\ obj[t] \in Procs /\ obj[t] # None
        /\ phase[obj[t]] # "unborn" /\ tap_proc' = obj[t]
        /\ raced' = (IF "stop" \in Others(t) THEN raced \union {obj[t]} ELSE raced)
        /\ obj' = [obj EXCEPT ![t] = None] /\ Answer(t, "OK")
        /\ UNCHANGED <<service, restarts, phase, sig, asked, polite>>
    BY GatewayAssumption DEF Assign, At, tappers, IInv, HandInv, HandPcs
  <1>2. /\ pc' \in [Threads -> Pcs] /\ pc'[t] = "idle"
        /\ \A u \in Threads \ {t} : pc'[u] = pc[u]
        /\ reply' \in [Threads -> Replies] /\ rival' \in [Threads -> SUBSET {"start", "stop"}]
    BY <1>1, Answers DEF IInv, Replies
  <1>3. obj'[t] = None /\ \A u \in Threads \ {t} : obj'[u] = obj[u]
    BY <1>1 DEF IInv, TypeOK
  <1>4. raced \subseteq raced' /\ \A u \in Threads \ {t} : pc[u] \in StopPcs => obj[t] \in raced'
    <2>1. ASSUME NEW u \in Threads \ {t}, pc[u] \in StopPcs PROVE "stop" \in Others(t)
      BY <2>1 DEF Others, Kind, StartPcs, StopPcs
    <2>2. QED
      BY <1>1, <2>1
  <1>5. TypeOK'
    BY <1>1, <1>2 DEF IInv, TypeOK, Pcs, Replies
  <1>6. HandInv'
    BY <1>1, <1>2, <1>3 DEF IInv, HandInv, HandPcs, Alive
  <1>7. RivalInv'
    BY <1>1, AnswerKeepsRivals DEF IInv, Replies
  <1>8. RacedInv'
    <2>1. \A p \in Procs : "term" \in asked'[p] /\ "int" \notin asked'[p] => p \in raced'
      BY <1>1, <1>4 DEF IInv, RacedInv
    <2>2. ASSUME NEW u \in Threads, u # t
          PROVE  /\ pc'[u] = "kill int" => tap_proc' \in {obj'[u], None} \union raced'
                 /\ pc'[u] \in AfterInt /\ tap_proc' # None =>
                      tap_proc' \in raced' \/ "int" \in asked'[tap_proc']
                 /\ pc'[u] = "kill term" => obj'[u] \in raced' \/ "int" \in asked'[obj'[u]]
      <3>1. pc[u] \in {"kill int"} \union AfterInt => obj[t] \in raced'
        <4>1. pc[u] \in {"kill int"} \union AfterInt => pc[u] \in StopPcs
          BY DEF StopPcs, AfterInt
        <4>2. QED
          BY <1>4, <2>2, <4>1
      <3>2. pc'[u] = pc[u] /\ obj'[u] = obj[u]
        BY <1>2, <1>3, <2>2
      <3>3. pc[u] = "kill term" => obj[u] \in raced \/ "int" \in asked[obj[u]]
        BY DEF IInv, RacedInv
      <3>4. QED
        BY <1>1, <1>4, <3>1, <3>2, <3>3
    <2>3. QED
      BY <1>2, <2>1, <2>2 DEF RacedInv, AfterInt
  <1>9. ServiceInv'
    BY <1>1 DEF ServiceInv
  <1>10. PoliteInv'
    <2> SUFFICES ASSUME polite PROVE PoliteInv'
      BY <1>1 DEF PoliteInv
    <2>1. tap_proc = None /\ \A u \in Threads \ {t} : pc[u] = "idle" /\ obj[u] = None
      BY <1>1 DEF IInv, PoliteInv, StartPcs, HandInv, HandPcs
    <2>2. \A q \in Procs : Alive(q)' => q = tap_proc' \/ "term" \in asked'[q]
      BY <1>1, <2>1, GatewayAssumption DEF IInv, PoliteInv, Alive, InHand
    <2>3. \A u \in Threads : pc'[u] = "idle"
      BY <1>2, <2>1
    <2>4. QED
      BY <2>2, <2>3 DEF PoliteInv, StartPcs
  <1>11. QED
    BY <1>5, <1>6, <1>7, <1>8, <1>9, <1>10 DEF IInv

\* A request only adds to what the threads that serve know of each other.
LEMMA StepRequest ==
  ASSUME IInv, NEW t \in Threads, NEW k, NEW first, Request(t, k, first),
         \/ k = "start" /\ first = "popen" /\ (polite' => tap_proc = None /\ Others(t) = {})
         \/ k = "stop" /\ first = "check" /\ (polite' => "start" \notin Others(t)),
         polite' \in BOOLEAN, polite' => polite
  PROVE  IInv'
  <1>1. /\ service = "up" /\ pc[t] = "idle" /\ obj[t] = None
        /\ pc' = [pc EXCEPT ![t] = first] /\ reply' = [reply EXCEPT ![t] = "none"]
        /\ rival' = [u \in Threads |-> IF u = t THEN Others(t)
                                       ELSE IF pc[u] = "idle" THEN rival[u]
                                       ELSE rival[u] \union {k}]
        /\ UNCHANGED <<service, restarts, tap_proc, obj, phase, sig, asked, raced>>
    BY DEF Request, At, gateway, tappers, IInv, HandInv, HandPcs
  <1>2. /\ pc' \in [Threads -> Pcs] /\ pc'[t] = first
        /\ \A u \in Threads \ {t} : pc'[u] = pc[u] /\ reply'[u] = reply[u]
        /\ reply'[t] = "none"
    BY <1>1 DEF IInv, TypeOK, Pcs, StartPcs, StopPcs
  <1>3. \A u \in Threads : /\ Kind(u) \subseteq {"start", "stop"}
                           /\ pc[u] \in StartPcs => "start" \in Kind(u)
                           /\ pc[u] \in StopPcs => "stop" \in Kind(u)
    BY DEF Kind, StartPcs, StopPcs
  <1>4. /\ Others(t) \subseteq {"start", "stop"}
        /\ \A u \in Threads \ {t} : /\ pc[u] \in StartPcs => "start" \in Others(t)
                                    /\ pc[u] \in StopPcs => "stop" \in Others(t)
    BY <1>3 DEF Others
  <1>5. TypeOK'
    <2>1. rival' \in [Threads -> SUBSET {"start", "stop"}]
      BY <1>1, <1>4 DEF IInv, TypeOK
    <2>2. reply' \in [Threads -> {"none", "OK", "not running", "spawn error", "attribute error"}]
      BY <1>1 DEF IInv, TypeOK
    <2>3. QED
      BY <1>1, <1>2, <2>1, <2>2 DEF IInv, TypeOK, Pcs
  <1>6. HandInv'
    BY <1>1, <1>2 DEF IInv, HandInv, HandPcs, Alive
  <1>7. RivalInv'
    <2>1. \A u \in Threads : reply'[u] = "attribute error" => pc'[u] = "idle" /\ "stop" \in rival'[u]
      BY <1>1, <1>2 DEF IInv, RivalInv
    <2>2. ASSUME NEW v \in Threads, NEW u \in Threads,
                 v # u, pc'[v] \in StopPcs, pc'[u] \in StopPcs
          PROVE  "stop" \in rival'[v]
      <3>1. CASE v = t
        BY <1>1, <1>2, <1>4, <2>2, <3>1
      <3>2. CASE u = t
        <4>1. k = "stop" /\ pc[v] \in StopPcs
          BY <1>2, <2>2, <3>2 DEF StopPcs
        <4>2. QED
          BY <1>1, <2>2, <3>2, <4>1 DEF StopPcs
      <3>3. CASE v # t /\ u # t
        <4>1. "stop" \in rival[v]
          BY <1>2, <2>2, <3>3 DEF IInv, RivalInv
        <4>2. QED
          BY <1>1, <3>3, <4>1
      <3>4. QED
        BY <3>1, <3>2, <3>3
    <2>3. ASSUME NEW u \in Threads, pc'[u] \in Tested, tap_proc' = None
          PROVE  "stop" \in rival'[u]
      <3>1. u # t
        BY <1>2, <2>3 DEF Tested
      <3>2. "stop" \in rival[u]
        BY <1>1, <1>2, <2>3, <3>1 DEF IInv, RivalInv
      <3>3. QED
        BY <1>1, <3>1, <3>2
    <2>4. QED
      BY <2>1, <2>2, <2>3 DEF RivalInv
  <1>8. RacedInv'
    BY <1>1, <1>2 DEF IInv, RacedInv, AfterInt
  <1>9. ServiceInv'
    BY <1>1 DEF ServiceInv
  <1>10. PoliteInv'
    <2> SUFFICES ASSUME polite' PROVE PoliteInv'
      BY DEF PoliteInv
    <2>1. \A q \in Procs : Alive(q)' => q = tap_proc' \/ InHand(q)' \/ "term" \in asked'[q]
      BY <1>1 DEF IInv, PoliteInv, Alive, InHand
    <2>2. ASSUME NEW u \in Threads, pc'[u] \in StartPcs
          PROVE  tap_proc' = None /\ \A v \in Threads \ {u} : pc'[v] = "idle"
      <3>1. CASE u = t
        <4>1. first = "popen"
          BY <1>2, <2>2, <3>1 DEF StartPcs
        <4>2. tap_proc = None /\ Others(t) = {}
          BY <4>1
        <4>3. \A v \in Threads \ {t} : pc[v] = "idle"
          BY <1>4, <4>2 DEF IInv, TypeOK
        <4>4. QED
          BY <1>1, <1>2, <3>1, <4>2, <4>3
      <3>2. CASE u # t
        BY <1>2, <1>4, <2>2, <3>2
      <3>3. QED
        BY <3>1, <3>2
    <2>3. QED
      BY <1>1, <1>2, <2>1, <2>2 DEF IInv, PoliteInv
  <1>11. QED
    BY <1>5, <1>6, <1>7, <1>8, <1>9, <1>10 DEF IInv

LEMMA StepStart ==
  ASSUME IInv, NEW t \in Threads, midi_tap_start(t)
  PROVE  IInv'
  <1>1. /\ Request(t, "start", "popen")
        /\ polite' = (polite /\ tap_proc = None /\ Others(t) = {})
    BY DEF midi_tap_start
  <1>2. QED
    BY <1>1, StepRequest

LEMMA StepStop ==
  ASSUME IInv, NEW t \in Threads, midi_tap_stop(t)
  PROVE  IInv'
  <1>1. /\ Request(t, "stop", "check")
        /\ polite' = (polite /\ "start" \notin Others(t))
    BY DEF midi_tap_stop
  <1>2. QED
    BY <1>1, StepRequest

\* While a thread serves a stop, polite clients have no start under way.
LEMMA NoStartBesideStop ==
  ASSUME IInv, polite, service = "up", NEW t \in Threads, pc[t] \in StopPcs
  PROVE  \A u \in Threads : pc[u] \notin StartPcs
  BY DEF IInv, PoliteInv, StopPcs, StartPcs

LEMMA StepCheck ==
  ASSUME IInv, NEW t \in Threads, Check(t)
  PROVE  IInv'
  <1>1. /\ service = "up" /\ pc[t] = "check" /\ obj[t] = None
        /\ UNCHANGED <<service, restarts, tap_proc, obj, phase, sig, asked, raced, polite>>
    BY DEF Check, At, gateway, tappers, record, IInv, HandInv, HandPcs
  <1>2. /\ pc' \in [Threads -> Pcs] /\ pc'[t] \in {"idle", "load int"}
        /\ \A u \in Threads \ {t} : pc'[u] = pc[u]
        /\ reply' \in [Threads -> Replies] /\ rival' \in [Threads -> SUBSET {"start", "stop"}]
    <2>1. CASE Answer(t, "not running")
      BY <2>1, Answers DEF IInv, Replies
    <2>2. CASE Goto(t, "load int")
      BY <2>2, Moves DEF IInv, TypeOK, Pcs, StopPcs, Replies
    <2>3. QED
      BY <2>1, <2>2 DEF Check
  <1>3. TypeOK'
    BY <1>1, <1>2 DEF IInv, TypeOK, Pcs, Replies
  <1>4. HandInv'
    BY <1>1, <1>2 DEF IInv, HandInv, HandPcs, Alive
  <1>5. RivalInv'
    <2>1. CASE tap_proc = None
      <3>1. Answer(t, "not running")
        BY <2>1 DEF Check
      <3>2. QED
        BY <1>1, <3>1, AnswerKeepsRivals DEF IInv, RivalInv, Replies
    <2>2. CASE tap_proc # None
      <3>1. Goto(t, "load int")
        BY <2>2 DEF Check
      <3>2. /\ pc'[t] = "load int" /\ \A u \in Threads \ {t} : pc'[u] = pc[u]
            /\ UNCHANGED <<reply, rival>>
        BY <3>1, Moves DEF IInv, Pcs, StopPcs
      <3>3. QED
        BY <1>1, <2>2, <3>2 DEF IInv, RivalInv, StopPcs, Tested
    <2>3. QED
      BY <2>1, <2>2
  <1>6. RacedInv' /\ ServiceInv'
    BY <1>1, <1>2 DEF IInv, RacedInv, ServiceInv, AfterInt
  <1>7. PoliteInv'
    <2> SUFFICES ASSUME polite PROVE PoliteInv'
      BY <1>1 DEF PoliteInv
    <2>1. \A u \in Threads : pc[u] \notin StartPcs
      BY <1>1, NoStartBesideStop DEF StopPcs
    <2>2. QED
      BY <1>1, <1>2, <2>1 DEF IInv, PoliteInv, Alive, InHand, StartPcs
  <1>8. QED
    BY <1>3, <1>4, <1>5, <1>6, <1>7 DEF IInv

\* What RacedInv says of one thread, after a step of that thread alone.
Raced(t) ==
  /\ pc[t] = "kill int" => tap_proc \in {obj[t], None} \union raced
  /\ pc[t] \in AfterInt /\ tap_proc # None => tap_proc \in raced \/ "int" \in asked[tap_proc]
  /\ pc[t] = "kill term" => obj[t] \in raced \/ "int" \in asked[obj[t]]

LEMMA OnlyOneMoved ==
  ASSUME RacedInv, NEW t \in Threads, Raced(t)', UNCHANGED <<tap_proc, asked, raced>>,
         \A u \in Threads \ {t} : pc'[u] = pc[u] /\ obj'[u] = obj[u]
  PROVE  RacedInv'
  <1>1. \A u \in Threads : Raced(u)
    BY DEF RacedInv, Raced
  <1>2. ASSUME NEW u \in Threads \ {t} PROVE Raced(u)'
    BY <1>1, <1>2 DEF Raced
  <1>3. \A u \in Threads : Raced(u)'
    BY <1>2
  <1>4. QED
    BY <1>3 DEF RacedInv, Raced

LEMMA StepLoad ==
  ASSUME IInv, NEW t \in Threads, NEW from, NEW to, Load(t, from, to),
         \/ from = "load int" /\ to = "kill int"
         \/ from = "load term" /\ to = "kill term"
  PROVE  IInv'
  <1>1. /\ service = "up" /\ pc[t] = from /\ obj[t] = None
        /\ obj' = [obj EXCEPT ![t] = tap_proc]
        /\ UNCHANGED <<service, restarts, tap_proc, phase, sig, asked, raced, polite>>
    BY DEF Load, At, gateway, tappers, record, IInv, HandInv, HandPcs
  <1>2. obj'[t] = tap_proc /\ \A u \in Threads \ {t} : obj'[u] = obj[u]
    BY <1>1 DEF IInv, TypeOK
  <1>3. pc[t] \in StopPcs /\ pc[t] \in Tested /\ pc[t] # "idle"
    BY <1>1 DEF StopPcs, Tested
  <1>4. CASE tap_proc = None
    <2>1. Answer(t, "attribute error") /\ "stop" \in rival[t]
      BY <1>3, <1>4 DEF Load, IInv, RivalInv
    <2>2. /\ pc' \in [Threads -> Pcs] /\ pc'[t] = "idle"
          /\ \A u \in Threads \ {t} : pc'[u] = pc[u]
          /\ reply' \in [Threads -> Replies] /\ rival' \in [Threads -> SUBSET {"start", "stop"}]
      BY <2>1, Answers DEF IInv, Replies
    <2>3. TypeOK'
      BY <1>1, <2>2 DEF IInv, TypeOK, Pcs, Replies
    <2>4. HandInv'
      BY <1>1, <1>2, <1>4, <2>2 DEF IInv, HandInv, HandPcs, Alive
    <2>5. RivalInv'
      BY <1>1, <2>1, AnswerKeepsRivals DEF IInv, RivalInv, Replies
    <2>6. RacedInv' /\ ServiceInv'
      <3>1. Raced(t)'
        BY <2>2 DEF Raced, AfterInt
      <3>2. QED
        BY <1>1, <1>2, <2>2, <3>1, OnlyOneMoved DEF IInv, ServiceInv
    <2>7. PoliteInv'
      <3> SUFFICES ASSUME polite PROVE PoliteInv'
        BY <1>1 DEF PoliteInv
      <3>1. \A u \in Threads : pc[u] \notin StartPcs
        BY <1>1, <1>3, NoStartBesideStop
      <3>2. obj'[t] = None /\ pc'[t] \notin StartPcs \union {"kill int", "kill term", "clear"}
        BY <1>2, <1>4, <2>2 DEF StartPcs
      <3>3. \A q \in Procs : Alive(q)' => q = tap_proc' \/ InHand(q)' \/ "term" \in asked'[q]
        BY <1>1, <1>2, GatewayAssumption DEF IInv, PoliteInv, Alive, InHand
      <3>4. QED
        BY <1>1, <1>2, <2>2, <3>1, <3>2, <3>3 DEF IInv, PoliteInv
    <2>8. QED
      BY <2>3, <2>4, <2>5, <2>6, <2>7 DEF IInv
  <1>5. CASE tap_proc # None
    <2>1. tap_proc \in Procs /\ phase[tap_proc] # "unborn" /\ Goto(t, to)
      BY <1>5 DEF Load, IInv, TypeOK, HandInv
    <2>2. /\ pc' \in [Threads -> Pcs] /\ pc'[t] = to
          /\ \A u \in Threads \ {t} : pc'[u] = pc[u]
          /\ UNCHANGED <<reply, rival>>
      BY <2>1, Moves DEF IInv, Pcs, StopPcs
    <2>3. TypeOK'
      BY <1>1, <2>1, <2>2 DEF IInv, TypeOK, Pcs
    <2>4. HandInv'
      BY <1>1, <1>2, <2>1, <2>2 DEF IInv, HandInv, HandPcs, Alive
    <2>5. RivalInv'
      BY <1>1, <1>3, <1>5, <2>2 DEF IInv, RivalInv, StopPcs, Tested
    <2>6. RacedInv' /\ ServiceInv'
      <3>1. Raced(t)'
        <4>1. CASE from = "load int"
          BY <1>1, <1>2, <2>2, <4>1 DEF Raced, AfterInt
        <4>2. CASE from = "load term"
          <5>1. tap_proc \in raced \/ "int" \in asked[tap_proc]
            BY <1>1, <1>5, <4>2 DEF IInv, RacedInv, AfterInt
          <5>2. obj'[t] = tap_proc /\ raced' = raced /\ asked' = asked
            BY <1>1, <1>2
          <5>3. obj'[t] \in raced' \/ "int" \in asked'[obj'[t]]
            BY <5>1, <5>2
          <5>4. pc'[t] = "kill term"
            BY <2>2, <4>2
          <5>5. QED
            BY <1>1, <1>2, <5>1, <5>3, <5>4 DEF Raced, AfterInt
        <4>3. QED
          BY <4>1, <4>2
      <3>2. QED
        BY <1>1, <1>2, <2>2, <3>1, OnlyOneMoved DEF IInv, ServiceInv
    <2>7. PoliteInv'
      <3> SUFFICES ASSUME polite PROVE PoliteInv'
        BY <1>1 DEF PoliteInv
      <3>1. \A u \in Threads : pc[u] \notin StartPcs
        BY <1>1, <1>3, NoStartBesideStop
      <3>2. \A q \in Procs : Alive(q)' => q = tap_proc' \/ InHand(q)' \/ "term" \in asked'[q]
        BY <1>1, <1>2, GatewayAssumption DEF IInv, PoliteInv, Alive, InHand
      <3>3. QED
        BY <1>1, <1>2, <1>5, <2>2, <3>1, <3>2 DEF IInv, PoliteInv, StartPcs
    <2>8. QED
      BY <2>3, <2>4, <2>5, <2>6, <2>7 DEF IInv
  <1>6. QED
    BY <1>4, <1>5

LEMMA StepSignal ==
  ASSUME IInv, NEW t \in Threads, NEW from, NEW s, NEW to, send_signal(t, from, s, to),
         \/ from = "kill int" /\ s = "int" /\ to = "load term"
         \/ from = "kill term" /\ s = "term" /\ to = "clear"
  PROVE  IInv'
  <1>1. /\ service = "up" /\ pc[t] = from /\ obj[t] \in Procs /\ phase[obj[t]] # "unborn"
        /\ Send(obj[t], s) /\ asked' = [asked EXCEPT ![obj[t]] = @ \union {s}]
        /\ obj' = [obj EXCEPT ![t] = None] /\ Goto(t, to)
        /\ UNCHANGED <<service, restarts, tap_proc, phase, raced, polite>>
    BY DEF send_signal, At, gateway, IInv, HandInv, HandPcs
  <1>2. obj'[t] = None /\ \A u \in Threads \ {t} : obj'[u] = obj[u]
    BY <1>1 DEF IInv, TypeOK
  <1>3. /\ pc' \in [Threads -> Pcs] /\ pc'[t] = to
        /\ \A u \in Threads \ {t} : pc'[u] = pc[u]
        /\ UNCHANGED <<reply, rival>>
    BY <1>1, Moves DEF IInv, Pcs, StopPcs
  <1>4. /\ asked' \in [Procs -> SUBSET {"int", "term"}]
        /\ asked'[obj[t]] = asked[obj[t]] \union {s}
        /\ \A q \in Procs \ {obj[t]} : asked'[q] = asked[q]
    BY <1>1 DEF IInv, TypeOK
  <1>5. /\ sig' \in [Procs -> SUBSET {"int", "term"}]
        /\ \A q \in Procs : sig[q] \subseteq sig'[q]
        /\ Alive(obj[t]) => s \in sig'[obj[t]]
    <2>1. s \in {"int", "term"} /\ sig \in [Procs -> SUBSET {"int", "term"}]
      BY DEF IInv, TypeOK
    <2>2. CASE sig' = [sig EXCEPT ![obj[t]] = @ \union {s}]
      BY <1>1, <2>1, <2>2
    <2>3. CASE (~Alive(obj[t]) \/ s \in sig[obj[t]]) /\ sig' = sig
      BY <1>1, <2>1, <2>3
    <2>4. QED
      BY <1>1, <2>2, <2>3 DEF Send
  <1>6. TypeOK'
    BY <1>1, <1>3, <1>4, <1>5 DEF IInv, TypeOK, Pcs
  <1>7. HandInv'
    <2>1. \A u \in Threads : IF pc'[u] \in HandPcs THEN obj'[u] \in Procs /\ phase'[obj'[u]] # "unborn"
                                                  ELSE obj'[u] = None
      BY <1>1, <1>2, <1>3 DEF IInv, HandInv, HandPcs
    <2>2. tap_proc' # None => phase'[tap_proc'] # "unborn"
      BY <1>1 DEF IInv, HandInv
    <2>3. \A q \in Procs : asked'[q] # {} => phase'[q] # "unborn"
      BY <1>1, <1>4 DEF IInv, HandInv
    <2>4. ASSUME NEW q \in Procs, Alive(q)', "term" \in asked'[q] PROVE "term" \in sig'[q]
      <3>1. Alive(q)
        BY <1>1, <2>4 DEF Alive
      <3>2. CASE "term" \in asked[q]
        BY <1>5, <3>1, <3>2 DEF IInv, HandInv
      <3>3. CASE q = obj[t] /\ s = "term"
        BY <1>5, <3>1, <3>3
      <3>4. QED
        BY <1>4, <2>4, <3>2, <3>3
    <2>5. QED
      BY <2>1, <2>2, <2>3, <2>4 DEF HandInv
  <1>8. RivalInv'
    BY <1>1, <1>3 DEF IInv, RivalInv, StopPcs, Tested
  <1>9. \A q \in Procs : asked[q] \subseteq asked'[q]
    BY <1>4
  <1>10. RacedInv'
    <2>1. ASSUME NEW q \in Procs, "term" \in asked'[q], "int" \notin asked'[q] PROVE q \in raced'
      <3>1. CASE q = obj[t] /\ s = "term"
        BY <1>1, <1>9, <2>1, <3>1 DEF IInv, RacedInv
      <3>2. CASE "term" \in asked[q]
        BY <1>1, <1>9, <2>1, <3>2 DEF IInv, RacedInv
      <3>3. QED
        BY <1>4, <2>1, <3>1, <3>2
    <2>2. /\ pc'[t] \notin {"kill int", "kill term"}
          /\ tap_proc' # None => tap_proc' \in raced' \/ "int" \in asked'[tap_proc']
      <3>1. tap_proc # None => tap_proc \in Procs
        BY DEF IInv, TypeOK
      <3>2. CASE from = "kill int"
        BY <1>1, <1>3, <1>4, <3>2 DEF IInv, RacedInv
      <3>3. CASE from = "kill term"
        BY <1>1, <1>3, <1>9, <3>1, <3>3 DEF IInv, RacedInv, AfterInt
      <3>4. QED
        BY <3>2, <3>3
    <2>3. ASSUME NEW u \in Threads, u # t
          PROVE  /\ pc'[u] = "kill int" => tap_proc' \in {obj'[u], None} \union raced'
                 /\ pc'[u] \in AfterInt /\ tap_proc' # None =>
                      tap_proc' \in raced' \/ "int" \in asked'[tap_proc']
                 /\ pc'[u] = "kill term" => obj'[u] \in raced' \/ "int" \in asked'[obj'[u]]
      <3>1. pc'[u] = pc[u] /\ obj'[u] = obj[u]
        BY <1>2, <1>3, <2>3
      <3>2. pc[u] = "kill term" => obj[u] \in Procs
        BY DEF IInv, HandInv, HandPcs
      <3>3. tap_proc # None => tap_proc \in Procs
        BY DEF IInv, TypeOK
      <3>4. QED
        <4>1. pc[u] = "kill int" => tap_proc \in {obj[u], None} \union raced
          BY DEF IInv, RacedInv
        <4>2. pc[u] \in AfterInt /\ tap_proc # None =>
                tap_proc \in raced \/ "int" \in asked[tap_proc]
          BY DEF IInv, RacedInv
        <4>3. pc[u] = "kill term" => obj[u] \in raced \/ "int" \in asked[obj[u]]
          BY DEF IInv, RacedInv
        <4>4. pc'[u] = "kill int" => tap_proc' \in {obj'[u], None} \union raced'
          <5>1. obj'[u] = obj[u] /\ pc'[u] = pc[u] /\ raced' = raced /\ tap_proc' = tap_proc
            BY <1>1, <3>1
          <5>2. QED
            BY <4>1, <5>1
        <4>5. pc'[u] \in AfterInt /\ tap_proc' # None =>
                tap_proc' \in raced' \/ "int" \in asked'[tap_proc']
          BY <1>1, <1>9, <3>1, <3>3, <4>2
        <4>6. pc'[u] = "kill term" => obj'[u] \in raced' \/ "int" \in asked'[obj'[u]]
          <5>1. obj'[u] = obj[u] /\ pc'[u] = pc[u] /\ raced' = raced
            BY <1>1, <3>1
          <5>2. pc[u] = "kill term" => asked[obj[u]] \subseteq asked'[obj[u]]
            BY <1>9, <3>2
          <5>3. QED
            BY <4>3, <5>1, <5>2
        <4>7. QED
          BY <4>4, <4>5, <4>6
    <2>4. QED
      BY <2>1, <2>2, <2>3 DEF RacedInv
  <1>11. ServiceInv'
    BY <1>1 DEF ServiceInv
  <1>12. PoliteInv'
    <2> SUFFICES ASSUME polite PROVE PoliteInv'
      BY <1>1 DEF PoliteInv
    <2>1. pc[t] \in StopPcs /\ from \in {"kill int", "kill term"}
      BY <1>1 DEF StopPcs
    <2>2. \A u \in Threads : pc[u] \notin StartPcs
      BY <1>1, <2>1, NoStartBesideStop
    <2>3. tap_proc \in {obj[t], None} /\ (tap_proc = None => "term" \in asked[obj[t]])
      BY <1>1, <2>1 DEF IInv, PoliteInv
    <2>4. ASSUME NEW q \in Procs, Alive(q)'
          PROVE  q = tap_proc' \/ InHand(q)' \/ "term" \in asked'[q]
      <3>1. q = tap_proc \/ InHand(q) \/ "term" \in asked[q]
        BY <1>1, <2>4 DEF IInv, PoliteInv, Alive
      <3>2. CASE q = tap_proc \/ "term" \in asked[q]
        BY <1>1, <1>9, <3>2
      <3>3. CASE q = obj[t]
        BY <1>1, <1>9, <2>3, <3>3
      <3>4. ASSUME NEW u \in Threads \ {t}, obj[u] = q PROVE InHand(q)'
        BY <1>2, <3>4 DEF InHand
      <3>5. QED
        BY <3>1, <3>2, <3>3, <3>4 DEF InHand
    <2>5. ASSUME NEW u \in Threads
          PROVE  /\ pc'[u] \notin StartPcs
                 /\ pc'[u] \in {"kill int", "kill term"} =>
                      /\ tap_proc' \in {obj'[u], None}
                      /\ tap_proc' = None => "term" \in asked'[obj'[u]]
                 /\ pc'[u] = "clear" /\ tap_proc' # None => "term" \in asked'[tap_proc']
      <3>1. CASE u = t
        BY <1>1, <1>3, <1>4, <2>3, <3>1 DEF StartPcs
      <3>2. CASE u # t
        <4>1. pc'[u] = pc[u] /\ obj'[u] = obj[u]
          BY <1>2, <1>3, <3>2
        <4>2. pc[u] \in {"kill int", "kill term"} => obj[u] \in Procs
          BY DEF IInv, HandInv, HandPcs
        <4>3. tap_proc # None => tap_proc \in Procs
          BY DEF IInv, TypeOK
        <4>4. QED
          BY <1>1, <1>9, <2>2, <4>1, <4>2, <4>3 DEF IInv, PoliteInv
      <3>3. QED
        BY <3>1, <3>2
    <2>6. QED
      BY <2>4, <2>5 DEF PoliteInv
  <1>13. QED
    BY <1>6, <1>7, <1>8, <1>10, <1>11, <1>12 DEF IInv

LEMMA StepClear ==
  ASSUME IInv, NEW t \in Threads, Clear(t)
  PROVE  IInv'
  <1>1. /\ service = "up" /\ pc[t] = "clear" /\ tap_proc' = None /\ Answer(t, "OK")
        /\ UNCHANGED <<service, restarts, obj, phase, sig, asked, raced, polite>>
    BY DEF Clear, At, tappers, record
  <1>2. /\ pc' \in [Threads -> Pcs] /\ pc'[t] = "idle"
        /\ \A u \in Threads \ {t} : pc'[u] = pc[u]
        /\ reply' \in [Threads -> Replies] /\ rival' \in [Threads -> SUBSET {"start", "stop"}]
    BY <1>1, Answers DEF IInv, Replies
  <1>3. TypeOK'
    BY <1>1, <1>2 DEF IInv, TypeOK, Pcs, Replies
  <1>4. HandInv'
    BY <1>1, <1>2 DEF IInv, HandInv, HandPcs, Alive
  <1>5. RivalInv'
    <2>1. ASSUME NEW u \in Threads \ {t}, pc[u] \in Tested PROVE "stop" \in rival[u]
      <3>1. pc[t] \in StopPcs /\ pc[u] \in StopPcs /\ t # u
        BY <1>1, <2>1 DEF StopPcs, Tested
      <3>2. QED
        BY <3>1 DEF IInv, RivalInv
    <2>2. QED
      BY <1>1, <2>1, AnswerKeepsRivals DEF IInv, Replies
  <1>6. RacedInv'
    <2>1. \A p \in Procs : "term" \in asked'[p] /\ "int" \notin asked'[p] => p \in raced'
      BY <1>1 DEF IInv, RacedInv
    <2>2. ASSUME NEW u \in Threads
          PROVE  pc'[u] = "kill term" => obj'[u] \in raced' \/ "int" \in asked'[obj'[u]]
      <3>1. pc'[u] = "kill term" => pc[u] = "kill term"
        BY <1>2
      <3>2. obj' = obj /\ raced' = raced /\ asked' = asked
        BY <1>1
      <3>3. pc[u] = "kill term" => obj[u] \in raced \/ "int" \in asked[obj[u]]
        BY DEF IInv, RacedInv
      <3>4. QED
        BY <3>1, <3>2, <3>3
    <2>3. QED
      BY <1>1, <2>1, <2>2 DEF RacedInv
  <1>7. ServiceInv'
    BY <1>1 DEF ServiceInv
  <1>8. PoliteInv'
    <2> SUFFICES ASSUME polite PROVE PoliteInv'
      BY <1>1 DEF PoliteInv
    <2>1. \A u \in Threads : pc[u] \notin StartPcs
      BY <1>1, NoStartBesideStop DEF StopPcs
    <2>2. tap_proc # None => "term" \in asked[tap_proc]
      BY <1>1 DEF IInv, PoliteInv
    <2>3. \A q \in Procs : Alive(q)' => InHand(q)' \/ "term" \in asked'[q]
      BY <1>1, <2>2, GatewayAssumption DEF IInv, PoliteInv, Alive, InHand
    <2>4. ASSUME NEW u \in Threads
          PROVE  /\ pc'[u] \notin StartPcs
                 /\ pc'[u] \in {"kill int", "kill term"} => "term" \in asked'[obj'[u]]
      <3>1. pc'[u] = "idle" \/ pc'[u] = pc[u]
        BY <1>2
      <3>2. pc[u] \in {"kill int", "kill term"} =>
              tap_proc \in {obj[u], None} /\ (tap_proc = None => "term" \in asked[obj[u]])
        BY <1>1 DEF IInv, PoliteInv
      <3>3. pc[u] \in {"kill int", "kill term"} => "term" \in asked[obj[u]]
        BY <2>2, <3>2
      <3>4. obj' = obj /\ asked' = asked
        BY <1>1
      <3>5. QED
        BY <2>1, <3>1, <3>3, <3>4 DEF StartPcs
    <2>5. QED
      BY <1>1, <2>3, <2>4 DEF PoliteInv
  <1>9. QED
    BY <1>3, <1>4, <1>5, <1>6, <1>7, <1>8 DEF IInv

LEMMA StepServe ==
  ASSUME IInv, NEW t \in Threads, Serve(t)
  PROVE  IInv'
  <1>1. CASE Load(t, "load int", "kill int") \/ Load(t, "load term", "kill term")
    BY <1>1, StepLoad
  <1>2. CASE send_signal(t, "kill int", "int", "load term") \/ send_signal(t, "kill term", "term", "clear")
    BY <1>2, StepSignal
  <1>3. QED
    BY <1>1, <1>2, StepSpawn, StepAssign, StepCheck, StepClear DEF Serve, stop_tap_proc

----------------------------------------------------------------------------
\* A tapper never comes back, and loses SIGTERM only by dying.
LEMMA StepBecomes ==
  ASSUME IInv, NEW p \in Procs,
         NEW ph \in {"tapping", "stopping", "dead"}, NEW g \in SUBSET {"int", "term"},
         Becomes(p, ph, g),
         ph # "dead" => Alive(p) /\ ("term" \in sig[p] => "term" \in g)
  PROVE  IInv'
  <1>1. /\ phase' = [phase EXCEPT ![p] = ph] /\ sig' = [sig EXCEPT ![p] = g]
        /\ UNCHANGED <<service, restarts, tap_proc, pc, obj, reply, asked, rival, raced, polite>>
    BY DEF Becomes, gateway, threads, history, record
  <1>2. /\ phase'[p] = ph /\ sig'[p] = g
        /\ \A q \in Procs \ {p} : phase'[q] = phase[q] /\ sig'[q] = sig[q]
    BY <1>1 DEF IInv, TypeOK
  <1>3. /\ \A q \in Procs : Alive(q)' => Alive(q)
        /\ \A q \in Procs : phase[q] # "unborn" => phase'[q] # "unborn"
        /\ \A q \in Procs : Alive(q)' /\ "term" \in sig[q] => "term" \in sig'[q]
    BY <1>2 DEF Alive
  <1>4. TypeOK'
    BY <1>1 DEF IInv, TypeOK
  <1>5. HandInv'
    <2>1. \A u \in Threads : IF pc'[u] \in HandPcs THEN obj'[u] \in Procs /\ phase'[obj'[u]] # "unborn"
                                                  ELSE obj'[u] = None
      BY <1>1, <1>3 DEF IInv, HandInv
    <2>2. tap_proc' # None => phase'[tap_proc'] # "unborn"
      BY <1>1, <1>3 DEF IInv, TypeOK, HandInv
    <2>3. \A q \in Procs : asked'[q] # {} => phase'[q] # "unborn"
      BY <1>1, <1>3 DEF IInv, HandInv
    <2>4. \A q \in Procs : Alive(q)' /\ "term" \in asked'[q] => "term" \in sig'[q]
      BY <1>1, <1>3 DEF IInv, HandInv
    <2>5. QED
      BY <2>1, <2>2, <2>3, <2>4 DEF HandInv
  <1>6. RivalInv' /\ RacedInv'
    BY <1>1 DEF IInv, RivalInv, RacedInv
  <1>7. ServiceInv'
    BY <1>1, <1>3 DEF IInv, ServiceInv
  <1>8. PoliteInv'
    <2> SUFFICES ASSUME polite, service = "up" PROVE PoliteInv'
      BY <1>1 DEF PoliteInv
    <2>1. \A q \in Procs : Alive(q)' => q = tap_proc' \/ InHand(q)' \/ "term" \in asked'[q]
      BY <1>1, <1>3 DEF IInv, PoliteInv, InHand
    <2>2. QED
      BY <1>1, <2>1 DEF IInv, PoliteInv
  <1>9. QED
    BY <1>4, <1>5, <1>6, <1>7, <1>8 DEF IInv

LEMMA StepTapper ==
  ASSUME IInv, NEW p \in Procs, TapperStep(p)
  PROVE  IInv'
  <1>1. sig[p] \subseteq {"int", "term"}
    BY DEF IInv, TypeOK
  <1>2. CASE Dies(p)
    BY <1>2, StepBecomes DEF Dies
  <1>3. CASE Ready(p)
    <2>1. Becomes(p, "tapping", sig[p]) /\ Alive(p)
      BY <1>3, ContractFacts DEF Ready, Alive
    <2>2. QED
      BY <1>1, <2>1, StepBecomes
  <1>4. CASE Becomes(p, "stopping", sig[p] \ {"int"}) /\ P(p)!Interrupt
    <2>1. phase'[p] = "stopping"
      BY <1>4 DEF Becomes, IInv, TypeOK
    <2>2. Alive(p)
      BY <1>4, <2>1, ContractFacts DEF Alive
    <2>3. "term" \in sig[p] => "term" \in sig[p] \ {"int"}
      OBVIOUS
    <2>4. sig[p] \ {"int"} \in SUBSET {"int", "term"}
      BY <1>1
    <2>5. QED
      BY <1>4, <2>2, <2>3, <2>4, StepBecomes
  <1>5. QED
    BY <1>2, <1>3, <1>4 DEF TapperStep, GiveUp, Stop, Terminate, Interrupt

----------------------------------------------------------------------------
LEMMA StepService ==
  ASSUME IInv, check_deps \/ Restart
  PROVE  IInv'
  <1>1. /\ service # "up" /\ service' \in {"booting", "up", "down"} /\ restarts' \in Nat
        /\ \A p \in Procs : ~Alive(p) \/ service' = "down"
        /\ UNCHANGED <<tap_proc, pc, obj, reply, phase, sig, asked, rival, raced, polite>>
    <2>1. CASE check_deps
      <3>1. restarts' = restarts /\ service = "booting" /\ service' \in {"up", "down"}
        BY <2>1 DEF check_deps
      <3>2. \A p \in Procs : ~Alive(p)
        BY <3>1 DEF IInv, ServiceInv
      <3>3. QED
        BY <2>1, <3>1, <3>2 DEF check_deps, threads, tappers, history, record, IInv, TypeOK
    <2>2. CASE Restart
      <3>1. restarts \in Nat
        BY DEF IInv, TypeOK
      <3>2. restarts' = restarts + 1 /\ service = "down" /\ service' = "booting"
        BY <2>2 DEF Restart
      <3>3. restarts' \in Nat
        BY <3>1, <3>2
      <3>4. QED
        BY <2>2, <3>2, <3>3 DEF Restart, threads, tappers, history, record
    <2>3. QED
      BY <2>1, <2>2
  <1>2. TypeOK'
    BY <1>1 DEF IInv, TypeOK
  <1>3. HandInv'
    BY <1>1 DEF IInv, HandInv, Alive
  <1>4. RivalInv' /\ RacedInv'
    BY <1>1 DEF IInv, RivalInv, RacedInv
  <1>5. ServiceInv'
    BY <1>1 DEF IInv, ServiceInv, Alive
  <1>6. PoliteInv'
    BY <1>1 DEF IInv, ServiceInv, PoliteInv, Alive, StartPcs
  <1>7. QED
    BY <1>2, <1>3, <1>4, <1>5, <1>6 DEF IInv

LEMMA StepCrash ==
  ASSUME IInv, Crash
  PROVE  IInv'
  <1>1. /\ service' = "down" /\ tap_proc' = None /\ polite' = TRUE
        /\ pc' = [t \in Threads |-> "idle"] /\ obj' = [t \in Threads |-> None]
        /\ reply' = [t \in Threads |-> "none"] /\ rival' = [t \in Threads |-> {}]
        /\ sig' = [p \in Procs |-> IF Alive(p) THEN sig[p] \union {"term"} ELSE sig[p]]
        /\ UNCHANGED <<restarts, phase, asked, raced>>
    BY DEF Crash, Forget
  <1>2. TypeOK'
    BY <1>1 DEF IInv, TypeOK
  <1>3. HandInv'
    BY <1>1 DEF IInv, HandInv, HandPcs, Alive
  <1>4. RivalInv'
    BY <1>1 DEF RivalInv, StopPcs, Tested
  <1>5. RacedInv'
    BY <1>1 DEF IInv, RacedInv
  <1>6. ServiceInv' /\ PoliteInv'
    BY <1>1 DEF ServiceInv, PoliteInv
  <1>7. QED
    BY <1>2, <1>3, <1>4, <1>5, <1>6 DEF IInv

LEMMA StepStutter ==
  ASSUME IInv, UNCHANGED vars
  PROVE  IInv'
  <1>1. UNCHANGED <<service, restarts, tap_proc, pc, obj, reply, phase, sig,
                    asked, rival, raced, polite>>
    BY DEF vars, gateway, threads, tappers, history, record
  <1>2. TypeOK' /\ HandInv'
    BY <1>1 DEF IInv, TypeOK, HandInv, Alive
  <1>3. RivalInv' /\ RacedInv'
    BY <1>1 DEF IInv, RivalInv, RacedInv
  <1>4. ServiceInv' /\ PoliteInv'
    BY <1>1 DEF IInv, ServiceInv, PoliteInv, Alive, InHand
  <1>5. QED
    BY <1>2, <1>3, <1>4 DEF IInv

LEMMA Initially == Init => IInv
  <1> SUFFICES ASSUME Init PROVE IInv
    OBVIOUS
  <1>1. TypeOK
    BY DEF Init, TypeOK
  <1>2. HandInv
    BY DEF Init, HandInv, HandPcs, Alive
  <1>3. RivalInv /\ RacedInv
    BY DEF Init, RivalInv, RacedInv, StopPcs, Tested
  <1>4. ServiceInv /\ PoliteInv
    BY DEF Init, ServiceInv, PoliteInv, Alive
  <1>5. QED
    BY <1>1, <1>2, <1>3, <1>4 DEF IInv

LEMMA Inductive == IInv /\ [Next]_vars => IInv'
  <1> SUFFICES ASSUME IInv, [Next]_vars PROVE IInv'
    OBVIOUS
  <1>1. CASE \E t \in Threads : midi_tap_start(t) \/ midi_tap_stop(t) \/ Serve(t)
    BY <1>1, StepStart, StepStop, StepServe
  <1>2. CASE \E p \in Procs : TapperStep(p)
    BY <1>2, StepTapper
  <1>3. CASE check_deps \/ Restart
    BY <1>3, StepService
  <1>4. CASE Crash
    BY <1>4, StepCrash
  <1>5. CASE UNCHANGED vars
    BY <1>5, StepStutter
  <1>6. QED
    BY <1>1, <1>2, <1>3, <1>4, <1>5 DEF Next

----------------------------------------------------------------------------
\* The inductive invariant holds in every reachable state of the gateway,
\* however its threads, its tappers and systemd interleave.
THEOREM Invariance == SafeSpec => []IInv
  BY Initially, Inductive, PTL DEF SafeSpec

\* Every variable keeps its type: tap_proc is None or a tapper that was started,
\* also across crashes and restarts of the service.
THEOREM TypeCorrect == SafeSpec => []TypeOK
  <1>1. IInv => TypeOK
    BY DEF IInv
  <1>2. QED
    BY <1>1, Invariance, PTL

\* A 500 from /stop_tap (send_signal called on None) means that a second stop
\* overlapped this one, for any number of threads and of overlapping starts.
THEOREM StopErrors == SafeSpec => []StopErrorNeedsRival
  <1>1. IInv => StopErrorNeedsRival
    BY DEF IInv, RivalInv, StopErrorNeedsRival
  <1>2. QED
    BY <1>1, Invariance, PTL

\* stop_tap_proc neither sends SIGTERM to a tapper nor drops the reference to it
\* before it got SIGINT, unless that tapper was registered while a stop was under
\* way (midi-gw.py 50-55).
THEOREM IntFirst == SafeSpec => []IntComesFirst
  <1>1. IInv => IntComesFirst
    BY DEF IInv, RacedInv, IntComesFirst, AfterInt
  <1>2. QED
    BY <1>1, Invariance, PTL

\* Clients that start a tapper only when nothing is registered or under way never
\* lose one: it is registered, in a thread's hand, or was sent SIGTERM.
THEOREM NoOrphan == SafeSpec => []PoliteNoOrphan
  <1>1. IInv => PoliteNoOrphan
    BY DEF IInv, PoliteInv, PoliteNoOrphan
  <1>2. QED
    BY <1>1, Invariance, PTL

\* For such clients an idle gateway with no tapper registered has none running
\* that SIGTERM is not about to kill: "Not running" is the truth.
THEOREM StopsStop == SafeSpec => []PoliteStopStops
  <1>1. ASSUME IInv PROVE PoliteStopStops
    <2> SUFFICES ASSUME polite, Quiet, tap_proc = None, NEW p \in Procs, Alive(p)
                 PROVE  "term" \in sig[p]
      BY DEF PoliteStopStops
    <2>1. \A t \in Threads : obj[t] = None
      BY <1>1 DEF Quiet, IInv, HandInv, HandPcs
    <2>2. ~InHand(p) /\ p # tap_proc
      BY <2>1, GatewayAssumption DEF InHand
    <2>3. "term" \in asked[p]
      BY <1>1, <2>2 DEF Quiet, IInv, PoliteInv
    <2>4. QED
      BY <1>1, <2>3 DEF IInv, HandInv
  <1>2. IInv => PoliteStopStops
    BY <1>1
  <1>3. QED
    BY <1>2, Invariance, PTL
============================================================================
