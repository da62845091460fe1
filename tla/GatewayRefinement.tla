-------------------------- MODULE GatewayRefinement ------------------------
(***************************************************************************)
(* The gateway as its clients and its tappers see it, for any number of    *)
(* threads and tappers: it implements OneTapper, every tapper it deals     *)
(* with keeps the contract TapProcess, and the safety halves of StopKills  *)
(* and ServiceComesBack hold.                                              *)
(***************************************************************************)
EXTENDS GatewayProof

\* Each tapper as the contract sees it; before its birth it has not begun.
Contract(p) == INSTANCE TapProcess
                 WITH state <- IF phase[p] = "unborn" THEN "starting" ELSE phase[p],
                      pend <- sig[p], sent <- 0, late <- 0

\* A tapper that was sent a signal is on its way out: the signal is pending, or
\* it is stopping, or dead; no step takes that back (lines 52-54).
SignalledIsDoomed ==
  \A p \in Procs : asked[p] # {} => sig[p] # {} \/ phase[p] \in {"stopping", "dead"}

\* While the service is down, every tapper that keeps the unit's control group
\* busy has SIGTERM pending (midigw.service).
DownEmpties ==
  service = "down" => \A p \in Procs : Alive(p) => "term" \in sig[p]

UnbornUntouched == \A p \in Procs : phase[p] = "unborn" => sig[p] = {}

FateInv == SignalledIsDoomed /\ DownEmpties /\ UnbornUntouched

RInv == IInv /\ FateInv

----------------------------------------------------------------------------
(* What a step of the gateway is to its tappers.                           *)

\* No tapper is touched, and the clients may only become impolite.
Apart == /\ UNCHANGED <<phase, sig, asked>>
         /\ polite' \in {polite, FALSE}
         /\ service' # "down" \/ service = "down" \/ \A p \in Procs : ~Alive(p)

Born(p) == /\ service = "up" /\ phase[p] = "unborn"
           /\ phase' = [phase EXCEPT ![p] = "starting"]
           /\ polite => ~\E q \in Procs : Playing(q)
           /\ UNCHANGED <<sig, asked, polite, service>>

Signalled(p, s) == /\ service = "up" /\ phase[p] # "unborn"
                   /\ \/ Alive(p) /\ s \notin sig[p] /\ sig' = [sig EXCEPT ![p] = @ \union {s}]
                      \/ (~Alive(p) \/ s \in sig[p]) /\ sig' = sig
                   /\ asked' = [asked EXCEPT ![p] = @ \union {s}]
                   /\ UNCHANGED <<phase, polite, service>>

\* With polite clients a thread about to start a tapper is alone.
LEMMA NobodyPlays ==
  ASSUME IInv, NEW t \in Threads, service = "up", polite, pc[t] = "popen"
  PROVE  ~\E q \in Procs : Playing(q)
  <1>1. tap_proc = None /\ obj[t] = None /\ \A u \in Threads \ {t} : pc[u] = "idle"
    BY DEF IInv, PoliteInv, HandInv, HandPcs, StartPcs
  <1>2. \A u \in Threads : obj[u] = None
    BY <1>1 DEF IInv, HandInv, HandPcs
  <1>3. ASSUME NEW q \in Procs, Alive(q) PROVE "term" \in sig[q]
    <2>1. ~InHand(q) /\ q # tap_proc
      BY <1>1, <1>2, GatewayAssumption DEF InHand
    <2>2. "term" \in asked[q]
      BY <1>3, <2>1 DEF IInv, PoliteInv
    <2>3. QED
      BY <1>3, <2>2 DEF IInv, HandInv
  <1>4. QED
    BY <1>3 DEF Playing

\* A statement of a thread leaves the tappers alone, starts one or signals one.
LEMMA ThreadIs ==
  ASSUME IInv, NEW t \in Threads, midi_tap_start(t) \/ midi_tap_stop(t) \/ Serve(t)
  PROVE  \/ Apart
         \/ \E p \in Procs : Born(p)
         \/ \E p \in Procs, s \in {"int", "term"} : Signalled(p, s)
  <1>0. polite \in BOOLEAN
    BY DEF IInv, TypeOK
  <1>1. CASE midi_tap_start(t) \/ midi_tap_stop(t)
    <2>1. UNCHANGED <<service, phase, sig, asked>>
      BY <1>1 DEF midi_tap_start, midi_tap_stop, Request, gateway, tappers
    <2>2. polite' \in {polite, FALSE}
      BY <1>0, <1>1 DEF midi_tap_start, midi_tap_stop
    <2>3. QED
      BY <2>1, <2>2 DEF Apart
  <1>2. CASE Spawn(t)
    <2>1. /\ service = "up" /\ pc[t] = "popen"
          /\ UNCHANGED <<service, sig, asked, polite>>
      BY <1>2 DEF Spawn, At, gateway, record
    <2>2. ASSUME NEW p \in Unborn, phase' = [phase EXCEPT ![p] = "starting"]
          PROVE  Born(p) /\ p \in Procs
      <3>1. p \in Procs /\ phase[p] = "unborn"
        BY DEF Unborn
      <3>2. polite => ~\E q \in Procs : Playing(q)
        BY <2>1, NobodyPlays
      <3>3. QED
        BY <2>1, <2>2, <3>1, <3>2 DEF Born
    <2>3. phase' = phase => Apart
      BY <2>1 DEF Apart
    <2>4. QED
      BY <1>2, <2>2, <2>3 DEF Spawn
  <1>3. CASE Assign(t) \/ Check(t) \/ Clear(t)
    BY <1>3 DEF Assign, Check, Clear, At, Apart, gateway, tappers, record
  <1>4. CASE \E from, to : Load(t, from, to)
    BY <1>4 DEF Load, At, Apart, gateway, tappers, record
  <1>5. ASSUME NEW from, NEW s \in {"int", "term"}, NEW to, send_signal(t, from, s, to),
               from \in HandPcs
        PROVE  \E p \in Procs : Signalled(p, s)
    <2>1. PICK p \in Procs : /\ p = obj[t] /\ Send(p, s)
                             /\ asked' = [asked EXCEPT ![p] = @ \union {s}]
      BY <1>5 DEF send_signal
    <2>2. /\ service = "up" /\ pc[t] = from
          /\ UNCHANGED <<service, phase, polite>>
      BY <1>5 DEF send_signal, At, gateway
    <2>3. phase[p] # "unborn"
      BY <1>5, <2>1, <2>2 DEF IInv, HandInv
    <2>4. P(p)!Signal(s) => phase[p] # "dead" /\ s \notin sig[p]
      BY DEF P!Signal
    <2>5. phase[p] # "dead" => Alive(p)
      BY <2>3 DEF Alive, IInv, TypeOK
    <2>6. QED
      BY <2>1, <2>2, <2>3, <2>4, <2>5 DEF Signalled, Send
  <1>6. CASE stop_tap_proc(t)
    <2>1. ASSUME send_signal(t, "kill int", "int", "load term")
          PROVE  \E p \in Procs : Signalled(p, "int")
      BY <1>5, <2>1 DEF HandPcs
    <2>2. ASSUME send_signal(t, "kill term", "term", "clear")
          PROVE  \E p \in Procs : Signalled(p, "term")
      BY <1>5, <2>2 DEF HandPcs
    <2>3. QED
      BY <1>3, <1>4, <1>6, <2>1, <2>2 DEF stop_tap_proc
  <1>7. QED
    BY <1>1, <1>2, <1>3, <1>6 DEF Serve

LEMMA ServiceIsApart ==
  ASSUME IInv, check_deps \/ Restart \/ UNCHANGED vars
  PROVE  Apart
  <1>1. UNCHANGED <<phase, sig, asked, polite>>
    BY DEF check_deps, Restart, vars, tappers, history, record
  <1>2. service' # "down" \/ service = "down" \/ \A p \in Procs : ~Alive(p)
    BY DEF check_deps, Restart, vars, gateway, IInv, ServiceInv
  <1>3. QED
    BY <1>1, <1>2 DEF Apart

\* A step of a tapper, as the contract has it.
LEMMA TapperIs ==
  ASSUME IInv, UnbornUntouched, NEW p \in Procs, TapperStep(p)
  PROVE  /\ UNCHANGED <<service, asked, polite>>
         /\ Alive(p) /\ phase'[p] # "unborn"
         /\ \A q \in Procs \ {p} : phase'[q] = phase[q] /\ sig'[q] = sig[q]
         /\ \/ phase'[p] = "dead" /\ sig'[p] = {}
            \/ phase[p] = "starting" /\ phase'[p] = "tapping" /\ sig'[p] = sig[p]
            \/ phase'[p] = "stopping" /\ sig'[p] = sig[p] \ {"int"}
         /\ Contract(p)!PNext
  <1>1. UNCHANGED <<service, asked, polite>>
    BY DEF TapperStep, Ready, GiveUp, Stop, Terminate, Interrupt, Dies, Becomes,
           gateway, history, record
  <1>2. phase \in [Procs -> {"unborn", "starting", "tapping", "stopping", "dead"}]
        /\ sig \in [Procs -> SUBSET {"int", "term"}]
    BY DEF IInv, TypeOK
  <1>3. ASSUME NEW ph, NEW g, Becomes(p, ph, g)
        PROVE  /\ phase'[p] = ph /\ sig'[p] = g
               /\ \A q \in Procs \ {p} : phase'[q] = phase[q] /\ sig'[q] = sig[q]
    BY <1>2, <1>3 DEF Becomes
  <1>4. CASE Ready(p)
    <2>1. phase'[p] = "tapping" /\ sig'[p] = sig[p] /\ phase[p] = "starting"
      BY <1>3, <1>4 DEF Ready, P!Ready
    <2>2. \A q \in Procs \ {p} : phase'[q] = phase[q] /\ sig'[q] = sig[q]
      BY <1>3, <1>4 DEF Ready
    <2>3. Contract(p)!Ready
      BY <2>1 DEF Contract!Ready
    <2>4. QED
      BY <1>1, <2>1, <2>2, <2>3 DEF Alive, Contract!PNext
  <1>5. CASE GiveUp(p) \/ Stop(p) \/ Terminate(p) \/ (Dies(p) /\ P(p)!Interrupt)
    <2>1. Dies(p)
      BY <1>5 DEF GiveUp, Stop, Terminate
    <2>2. phase'[p] = "dead" /\ sig'[p] = {}
          /\ \A q \in Procs \ {p} : phase'[q] = phase[q] /\ sig'[q] = sig[q]
      BY <1>3, <2>1 DEF Dies
    <2>3. Contract(p)!Die
      BY <2>2 DEF Contract!Die
    <2>4. /\ P(p)!GiveUp => phase[p] \in {"starting", "tapping"}
          /\ P(p)!Stop => phase[p] = "stopping"
          /\ P(p)!Terminate => phase[p] # "dead" /\ "term" \in sig[p]
          /\ P(p)!Interrupt /\ phase'[p] = "dead" => phase[p] = "starting" /\ "int" \in sig[p]
      BY DEF P!GiveUp, P!Stop, P!Terminate, P!Interrupt
    <2>5. CASE GiveUp(p)
      <3>1. Contract(p)!GiveUp /\ Alive(p)
        BY <2>3, <2>4, <2>5 DEF GiveUp, Contract!GiveUp, Alive
      <3>2. QED
        BY <1>1, <2>2, <3>1 DEF Contract!PNext
    <2>6. CASE Stop(p)
      <3>1. Contract(p)!Stop /\ Alive(p)
        BY <2>3, <2>4, <2>6 DEF Stop, Contract!Stop, Alive
      <3>2. QED
        BY <1>1, <2>2, <3>1 DEF Contract!PNext
    <2>7. CASE Terminate(p)
      <3>1. phase[p] # "unborn"
        BY <2>4, <2>7 DEF Terminate, UnbornUntouched
      <3>2. Contract(p)!Terminate /\ Alive(p)
        BY <1>2, <2>3, <2>4, <2>7, <3>1 DEF Terminate, Contract!Terminate, Alive
      <3>3. QED
        BY <1>1, <2>2, <3>2 DEF Contract!PNext
    <2>8. CASE Dies(p) /\ P(p)!Interrupt
      <3>1. Contract(p)!Interrupt /\ Alive(p)
        BY <2>2, <2>3, <2>4, <2>8 DEF Contract!Interrupt, Alive
      <3>2. QED
        BY <1>1, <2>2, <3>1 DEF Contract!PNext
    <2>9. QED
      BY <1>5, <2>5, <2>6, <2>7, <2>8
  <1>6. CASE Becomes(p, "stopping", sig[p] \ {"int"}) /\ P(p)!Interrupt
    <2>1. phase'[p] = "stopping" /\ sig'[p] = sig[p] \ {"int"}
          /\ \A q \in Procs \ {p} : phase'[q] = phase[q] /\ sig'[q] = sig[q]
      BY <1>3, <1>6
    <2>2. phase[p] \in {"tapping", "stopping"} /\ "int" \in sig[p]
      BY <1>6, <2>1 DEF P!Interrupt, P!Die
    <2>3. Contract(p)!Interrupt
      BY <2>1, <2>2 DEF Contract!Interrupt
    <2>4. QED
      BY <1>1, <2>1, <2>2, <2>3 DEF Alive, Contract!PNext
  <1>7. QED
    BY <1>4, <1>5, <1>6 DEF TapperStep, Interrupt

\* The tappers that a crash of the gateway leaves are all sent SIGTERM.
LEMMA CrashIs ==
  ASSUME IInv, Crash
  PROVE  /\ UNCHANGED <<phase, asked>> /\ polite' = TRUE
         /\ \A p \in Procs : sig'[p] = IF Alive(p) THEN sig[p] \union {"term"} ELSE sig[p]
  BY DEF Crash, Forget

LEMMA StepIs ==
  ASSUME IInv, [Next]_vars
  PROVE  \/ Apart
         \/ \E p \in Procs : Born(p)
         \/ \E p \in Procs, s \in {"int", "term"} : Signalled(p, s)
         \/ \E p \in Procs : TapperStep(p)
         \/ Crash
  <1>1. CASE \E t \in Threads : midi_tap_start(t) \/ midi_tap_stop(t) \/ Serve(t)
    BY <1>1, ThreadIs
  <1>2. CASE check_deps \/ Restart \/ UNCHANGED vars
    BY <1>2, ServiceIsApart
  <1>3. QED
    BY <1>1, <1>2 DEF Next

----------------------------------------------------------------------------
(* The invariant.                                                          *)

LEMMA SignalledKeepsFate ==
  ASSUME RInv, NEW p \in Procs, NEW s \in {"int", "term"}, Signalled(p, s)
  PROVE  FateInv'
  <1>1. /\ UNCHANGED <<phase, service>> /\ phase[p] # "unborn" /\ service = "up"
        /\ asked' = [asked EXCEPT ![p] = @ \union {s}]
        /\ sig' = [sig EXCEPT ![p] = @ \union {s}] \/ sig' = sig
        /\ sig' = sig => ~Alive(p) \/ s \in sig[p]
    <2>1. sig' = [sig EXCEPT ![p] = @ \union {s}] => s \in sig'[p]
      BY DEF RInv, IInv, TypeOK
    <2>2. QED
      BY <2>1 DEF Signalled
  <1>2. \A q \in Procs \ {p} : sig'[q] = sig[q] /\ asked'[q] = asked[q]
    BY <1>1 DEF RInv, IInv, TypeOK
  <1>3. sig'[p] # {} \/ phase[p] = "dead"
    <2>1. CASE sig' = sig
      <3>1. ~Alive(p) => phase[p] = "dead"
        BY <1>1 DEF Alive, RInv, IInv, TypeOK
      <3>2. QED
        BY <1>1, <2>1, <3>1
    <2>2. CASE sig' = [sig EXCEPT ![p] = @ \union {s}]
      <3>1. sig'[p] = sig[p] \union {s}
        BY <2>2 DEF RInv, IInv, TypeOK
      <3>2. QED
        BY <3>1
    <2>3. QED
      BY <1>1, <2>1, <2>2
  <1>4. SignalledIsDoomed'
    BY <1>1, <1>2, <1>3 DEF RInv, FateInv, SignalledIsDoomed
  <1>5. DownEmpties'
    BY <1>1 DEF DownEmpties
  <1>6. UnbornUntouched'
    BY <1>1, <1>2 DEF RInv, FateInv, UnbornUntouched
  <1>7. QED
    BY <1>4, <1>5, <1>6 DEF FateInv

LEMMA TapperKeepsFate ==
  ASSUME RInv, NEW p \in Procs, TapperStep(p)
  PROVE  FateInv'
  <1>1. /\ UNCHANGED <<service, asked, polite>>
        /\ Alive(p) /\ phase'[p] # "unborn"
        /\ \A q \in Procs \ {p} : phase'[q] = phase[q] /\ sig'[q] = sig[q]
        /\ \/ phase'[p] = "dead" /\ sig'[p] = {}
           \/ phase[p] = "starting" /\ phase'[p] = "tapping" /\ sig'[p] = sig[p]
           \/ phase'[p] = "stopping" /\ sig'[p] = sig[p] \ {"int"}
    BY TapperIs DEF RInv, FateInv
  <1>2. SignalledIsDoomed'
    BY <1>1 DEF RInv, FateInv, SignalledIsDoomed
  <1>3. DownEmpties'
    BY <1>1 DEF RInv, FateInv, DownEmpties, Alive
  <1>4. UnbornUntouched'
    BY <1>1 DEF RInv, FateInv, UnbornUntouched
  <1>5. QED
    BY <1>2, <1>3, <1>4 DEF FateInv

LEMMA FateInductive == RInv /\ [Next]_vars => FateInv'
  <1> SUFFICES ASSUME RInv, [Next]_vars PROVE FateInv'
    OBVIOUS
  <1>1. CASE Apart
    BY <1>1 DEF Apart, RInv, FateInv, SignalledIsDoomed, DownEmpties, UnbornUntouched, Alive
  <1>2. ASSUME NEW p \in Procs, Born(p) PROVE FateInv'
    <2>1. /\ service' = "up" /\ UNCHANGED <<sig, asked>> /\ phase[p] = "unborn"
          /\ phase'[p] = "starting" /\ \A q \in Procs \ {p} : phase'[q] = phase[q]
      BY <1>2 DEF Born, RInv, IInv, TypeOK
    <2>2. QED
      BY <2>1 DEF RInv, FateInv, SignalledIsDoomed, DownEmpties, UnbornUntouched
  <1>3. ASSUME NEW p \in Procs, NEW s \in {"int", "term"}, Signalled(p, s) PROVE FateInv'
    BY <1>3, SignalledKeepsFate
  <1>4. ASSUME NEW p \in Procs, TapperStep(p) PROVE FateInv'
    BY <1>4, TapperKeepsFate
  <1>5. CASE Crash
    <2>1. /\ UNCHANGED <<phase, asked>>
          /\ \A p \in Procs : sig'[p] = IF Alive(p) THEN sig[p] \union {"term"} ELSE sig[p]
      BY <1>5, CrashIs DEF RInv
    <2>2. \A p \in Procs : phase[p] = "unborn" => ~Alive(p)
      BY DEF Alive
    <2>3. SignalledIsDoomed' /\ UnbornUntouched'
      BY <2>1, <2>2 DEF RInv, FateInv, SignalledIsDoomed, UnbornUntouched
    <2>4. DownEmpties'
      BY <2>1 DEF DownEmpties, Alive
    <2>5. QED
      BY <2>3, <2>4 DEF FateInv
  <1>6. QED
    BY <1>1, <1>2, <1>3, <1>4, <1>5, StepIs DEF RInv

LEMMA RInvariant == SafeSpec => []RInv
  <1>1. Init => FateInv
    BY DEF Init, FateInv, SignalledIsDoomed, DownEmpties, UnbornUntouched
  <1>2. RInv /\ [Next]_vars => RInv'
    BY FateInductive, Inductive DEF RInv
  <1>3. Init => RInv
    BY <1>1, Initially DEF RInv
  <1>4. QED
    BY <1>2, <1>3, PTL DEF SafeSpec

----------------------------------------------------------------------------
(* Theorems.                                                               *)

\* A tapper that stop_tap_proc sent a signal never taps on untouched: the signal
\* is pending, the tapper is stopping, or it is dead, whatever other threads, a
\* crash and systemd do - the part of StopKills that needs no fairness.
THEOREM Doomed == SafeSpec => []SignalledIsDoomed
  <1>1. RInv => SignalledIsDoomed
    BY DEF RInv, FateInv
  <1>2. QED
    BY <1>1, RInvariant, PTL

\* While the unit is down, each of its tappers has SIGTERM pending, so that only
\* signals have to be delivered before systemd can start the gateway again: the
\* part of ServiceComesBack that needs no fairness.
THEOREM UnitEmpties == SafeSpec => []DownEmpties
  <1>1. RInv => DownEmpties
    BY DEF RInv, FateInv
  <1>2. QED
    BY <1>1, RInvariant, PTL

LEMMA StepKeepsContract ==
  ASSUME RInv, [Next]_vars, NEW p \in Procs
  PROVE  [Contract(p)!PNext]_(Contract(p)!pvars)
  <1>1. ASSUME phase'[p] = phase[p] \/ (phase[p] = "unborn" /\ phase'[p] = "starting"),
               sig'[p] = sig[p]
        PROVE  UNCHANGED Contract(p)!pvars
    BY <1>1 DEF Contract!pvars
  <1>2. ASSUME Alive(p), phase'[p] = phase[p], NEW s \in {"int", "term"},
               s \notin sig[p], sig'[p] = sig[p] \union {s}
        PROVE  Contract(p)!PNext
    <2>1. Contract(p)!Signal(s)
      BY <1>2 DEF Contract!Signal, Alive
    <2>2. QED
      BY <2>1 DEF Contract!PNext
  <1>3. CASE Apart
    BY <1>1, <1>3 DEF Apart
  <1>4. ASSUME NEW q \in Procs, Born(q) PROVE UNCHANGED Contract(p)!pvars
    <2>1. /\ phase[q] = "unborn" /\ sig' = sig
          /\ phase'[q] = "starting" /\ \A r \in Procs \ {q} : phase'[r] = phase[r]
      BY <1>4 DEF Born, RInv, IInv, TypeOK
    <2>2. QED
      BY <1>1, <2>1
  <1>5. ASSUME NEW q \in Procs, NEW s \in {"int", "term"}, Signalled(q, s)
        PROVE  [Contract(p)!PNext]_(Contract(p)!pvars)
    <2>1. phase' = phase
      BY <1>5 DEF Signalled
    <2>2. \/ sig' = sig
          \/ Alive(q) /\ s \notin sig[q] /\ sig' = [sig EXCEPT ![q] = @ \union {s}]
      BY <1>5 DEF Signalled
    <2>3. CASE sig' = sig \/ p # q
      <3>1. sig'[p] = sig[p]
        BY <2>2, <2>3 DEF RInv, IInv, TypeOK
      <3>2. QED
        BY <1>1, <2>1, <3>1
    <2>4. CASE sig' # sig /\ p = q
      <3>1. Alive(p) /\ s \notin sig[p] /\ sig'[p] = sig[p] \union {s}
        BY <2>2, <2>4 DEF RInv, IInv, TypeOK
      <3>2. QED
        BY <1>2, <2>1, <3>1
    <2>5. QED
      BY <2>3, <2>4
  <1>6. ASSUME NEW q \in Procs, TapperStep(q)
        PROVE  [Contract(p)!PNext]_(Contract(p)!pvars)
    <2>1. CASE p = q
      BY <1>6, <2>1, TapperIs DEF RInv, FateInv
    <2>2. CASE p # q
      <3>1. phase'[p] = phase[p] /\ sig'[p] = sig[p]
        BY <1>6, <2>2, TapperIs DEF RInv, FateInv
      <3>2. QED
        BY <1>1, <3>1
    <2>3. QED
      BY <2>1, <2>2
  <1>7. CASE Crash
    <2>1. phase' = phase /\ sig'[p] = IF Alive(p) THEN sig[p] \union {"term"} ELSE sig[p]
      BY <1>7, CrashIs DEF RInv
    <2>2. CASE Alive(p) /\ "term" \notin sig[p]
      BY <1>2, <2>1, <2>2
    <2>3. CASE ~Alive(p) \/ "term" \in sig[p]
      <3>1. sig'[p] = sig[p]
        BY <2>1, <2>3
      <3>2. QED
        BY <1>1, <2>1, <3>1
    <2>4. QED
      BY <2>2, <2>3
  <1>8. QED
    BY <1>3, <1>4, <1>5, <1>6, <1>7, StepIs DEF RInv

\* To every tapper it starts, the gateway is an environment the contract allows,
\* and all along the tapper behaves as TapProcess: SIGINT and SIGTERM reach only
\* processes that are alive, none is sent twice while pending, none before birth.
\* With KeepsContract, what Tapper guarantees holds of each tapper in here.
THEOREM TappersKeepContract ==
  ASSUME NEW p \in Procs
  PROVE  SafeSpec => Contract(p)!PSafeSpec
  <1>1. Init => Contract(p)!PInit
    BY DEF Init, Contract!PInit
  <1>2. RInv /\ [Next]_vars => [Contract(p)!PNext]_(Contract(p)!pvars)
    BY StepKeepsContract
  <1>3. QED
    BY <1>1, <1>2, RInvariant, PTL DEF SafeSpec, Contract!PSafeSpec

Now  == {p \in Procs : Playing(p)}
Past == {p \in Procs : phase[p] # "unborn" /\ ~Playing(p)}

\* A step that changes neither who is playing nor who was is the clients'.
LEMMA SameIsOne ==
  ASSUME \A q \in Procs : /\ Playing(q)' <=> Playing(q)
                          /\ phase'[q] = "unborn" <=> phase[q] = "unborn",
         polite' \in {polite, FALSE}
  PROVE  [One!ONext]_(One!ovars)
  <1>1. Now' = Now /\ Past' = Past
    BY DEF Now, Past
  <1>2. CASE polite' = polite
    BY <1>1, <1>2 DEF One!ovars, Now, Past
  <1>3. CASE polite' = FALSE
    <2>1. One!Impolite
      BY <1>1, <1>3 DEF One!Impolite, Now, Past
    <2>2. QED
      BY <2>1 DEF One!ONext
  <1>4. QED
    BY <1>2, <1>3

\* One tapper that was playing is stopped.
LEMMA OneStopped ==
  ASSUME NEW p \in Procs, Playing(p), ~Playing(p)', phase'[p] # "unborn",
         \A q \in Procs \ {p} : /\ Playing(q)' <=> Playing(q)
                                /\ phase'[q] = "unborn" <=> phase[q] = "unborn",
         polite' = polite
  PROVE  One!ONext
  <1>1. p \in Now /\ Now' = Now \ {p} /\ Past' = Past \union {p}
    BY DEF Now, Past
  <1>2. One!End(p)
    BY <1>1 DEF One!End, Now, Past
  <1>3. QED
    BY <1>2 DEF One!ONext

LEMMA StepIsOne ==
  ASSUME RInv, [Next]_vars
  PROVE  [One!ONext]_(One!ovars)
  <1>1. CASE Apart
    BY <1>1, SameIsOne DEF Apart, Playing, Alive
  <1>2. ASSUME NEW p \in Procs, Born(p) PROVE One!ONext
    <2>1. /\ phase[p] = "unborn" /\ phase'[p] = "starting"
          /\ \A q \in Procs \ {p} : phase'[q] = phase[q]
          /\ sig' = sig /\ sig[p] = {} /\ polite' = polite
      BY <1>2 DEF Born, RInv, IInv, TypeOK, FateInv, UnbornUntouched
    <2>2. polite => Now = {}
      BY <1>2 DEF Born, Now
    <2>3. /\ p \notin Now /\ p \notin Past
          /\ Now' = Now \union {p} /\ Past' = Past
      BY <2>1 DEF Now, Past, Playing, Alive
    <2>4. One!Start(p)
      BY <2>1, <2>2, <2>3 DEF One!Start, Now, Past
    <2>5. QED
      BY <2>4 DEF One!ONext
  <1>3. ASSUME NEW p \in Procs, NEW s \in {"int", "term"}, Signalled(p, s)
        PROVE  [One!ONext]_(One!ovars)
    <2>1. phase' = phase /\ polite' = polite /\ phase[p] # "unborn"
      BY <1>3 DEF Signalled
    <2>2. \/ sig' = sig
          \/ /\ Alive(p) /\ s \notin sig[p] /\ sig'[p] = sig[p] \union {s}
             /\ \A q \in Procs \ {p} : sig'[q] = sig[q]
      BY <1>3 DEF Signalled, RInv, IInv, TypeOK
    <2>3. CASE sig' = sig
      BY <2>1, <2>3, SameIsOne DEF Playing, Alive
    <2>4. CASE /\ Alive(p) /\ s \notin sig[p] /\ sig'[p] = sig[p] \union {s}
               /\ \A q \in Procs \ {p} : sig'[q] = sig[q]
      <3>1. \A q \in Procs \ {p} : Playing(q)' <=> Playing(q)
        BY <2>1, <2>4 DEF Playing, Alive
      <3>2. CASE s = "int"
        <4>1. Playing(p)' <=> Playing(p)
          BY <2>1, <2>4, <3>2 DEF Playing, Alive
        <4>2. \A q \in Procs : Playing(q)' <=> Playing(q)
          BY <3>1, <4>1
        <4>3. QED
          BY <2>1, <4>2, SameIsOne
      <3>3. CASE s = "term"
        <4>1. Playing(p) /\ ~Playing(p)'
          BY <2>1, <2>4, <3>3 DEF Playing, Alive
        <4>2. QED
          BY <2>1, <3>1, <4>1, OneStopped
      <3>4. QED
        BY <3>2, <3>3
    <2>5. QED
      BY <2>2, <2>3, <2>4
  <1>4. ASSUME NEW p \in Procs, TapperStep(p)
        PROVE  [One!ONext]_(One!ovars)
    <2>1. /\ polite' = polite /\ Alive(p) /\ phase'[p] # "unborn"
          /\ \A q \in Procs \ {p} : phase'[q] = phase[q] /\ sig'[q] = sig[q]
          /\ \/ phase'[p] = "dead" /\ sig'[p] = {}
             \/ phase[p] = "starting" /\ phase'[p] = "tapping" /\ sig'[p] = sig[p]
             \/ phase'[p] = "stopping" /\ sig'[p] = sig[p] \ {"int"}
      BY <1>4, TapperIs DEF RInv, FateInv
    <2>2. \A q \in Procs \ {p} : Playing(q)' <=> Playing(q)
      BY <2>1 DEF Playing, Alive
    <2>3. /\ phase[p] # "unborn" /\ phase'[p] # "unborn"
          /\ Playing(p)' => Playing(p)
      BY <2>1 DEF Playing, Alive
    <2>4. CASE Playing(p)' <=> Playing(p)
      <3>1. \A q \in Procs : /\ Playing(q)' <=> Playing(q)
                             /\ phase'[q] = "unborn" <=> phase[q] = "unborn"
        BY <2>1, <2>2, <2>3, <2>4
      <3>2. QED
        BY <2>1, <3>1, SameIsOne
    <2>5. CASE Playing(p) /\ ~Playing(p)'
      BY <2>1, <2>2, <2>3, <2>5, OneStopped
    <2>6. QED
      BY <2>3, <2>4, <2>5
  <1>5. CASE Crash
    <2>1. /\ phase' = phase /\ polite' = TRUE
          /\ \A p \in Procs : sig'[p] = IF Alive(p) THEN sig[p] \union {"term"} ELSE sig[p]
      BY <1>5, CrashIs DEF RInv
    <2>2. \A p \in Procs : ~Playing(p)'
      BY <2>1 DEF Playing, Alive
    <2>3. \A p \in Procs : Playing(p) => phase[p] # "unborn"
      BY DEF Playing, Alive
    <2>4. Now' = {} /\ Past' = Past \union Now
      BY <2>1, <2>2, <2>3 DEF Now, Past
    <2>5. One!Crash
      BY <2>1, <2>4 DEF One!Crash, Now, Past
    <2>6. QED
      BY <2>5 DEF One!ONext
  <1>6. QED
    BY <1>1, <1>2, <1>3, <1>4, <1>5, StepIs DEF RInv

\* The gateway implements OneTapper: clients that start a tapper only when nothing
\* is registered or under way never have two playing, and no stopped tapper plays
\* again, with any number of threads, overlapping stops, crashes and restarts.
THEOREM OneTapperAtATime == SafeSpec => OneAtATime
  <1>1. Init => One!OInit
    <2>1. Init => Now = {} /\ Past = {} /\ polite = TRUE
      BY DEF Init, Now, Past, Playing, Alive
    <2>2. QED
      BY <2>1 DEF One!OInit, Now, Past
  <1>2. RInv /\ [Next]_vars => [One!ONext]_(One!ovars)
    BY StepIsOne
  <1>3. QED
    BY <1>1, <1>2, RInvariant, PTL DEF SafeSpec, OneAtATime, One!OSpec

\* What that promise comes to, drawn from OneTapper alone: with polite clients no
\* two tappers play at a time.
THEOREM PoliteHearOne ==
  SafeSpec => [](polite => \A p, q \in Procs : Playing(p) /\ Playing(q) => p = q)
  <1> DEFINE Alone == polite => \A p, q \in Now : p = q
  <1>1. One!OInit => Alone
    BY DEF One!OInit, Now
  <1>2. ASSUME Alone, [One!ONext]_(One!ovars) PROVE Alone'
    <2>1. ASSUME NEW p \in Procs, One!Start(p) PROVE Alone'
      <3>1. polite' = polite /\ Now' = Now \union {p} /\ (polite => Now = {})
        BY <2>1 DEF One!Start, Now
      <3>2. QED
        BY <3>1
    <2>2. ASSUME NEW p \in Procs, One!End(p) PROVE Alone'
      <3>1. polite' = polite /\ Now' = Now \ {p}
        BY <2>2 DEF One!End, Now
      <3>2. QED
        BY <1>2, <3>1
    <2>3. CASE One!Impolite
      BY <2>3 DEF One!Impolite
    <2>4. CASE One!Crash
      <3>1. Now' = {}
        BY <2>4 DEF One!Crash, Now
      <3>2. QED
        BY <3>1
    <2>5. CASE UNCHANGED One!ovars
      <3>1. polite' = polite /\ Now' = Now
        BY <2>5 DEF One!ovars, Now
      <3>2. QED
        BY <1>2, <3>1
    <2>6. QED
      BY <1>2, <2>1, <2>2, <2>3, <2>4, <2>5 DEF One!ONext
  <1>3. Alone => (polite => \A p, q \in Procs : Playing(p) /\ Playing(q) => p = q)
    BY DEF Now
  <1>4. One!OSpec => []Alone
    BY <1>1, <1>2, PTL DEF One!OSpec
  <1>5. QED
    BY <1>3, <1>4, OneTapperAtATime, PTL DEF OneAtATime
============================================================================
