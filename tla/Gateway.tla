------------------------------- MODULE Gateway -----------------------------
(***************************************************************************)
(* The HTTP gateway (src/midi-gw.py) under systemd: Flask serves requests  *)
(* in concurrent threads, which share the global tap_proc and start and    *)
(* stop midi-tapper processes.  A thread may be suspended between any two  *)
(* statements.  Each tapper is only known to keep the contract TapProcess, *)
(* which Tapper is shown to implement; its messages are not looked at.     *)
(***************************************************************************)
EXTENDS Naturals, FiniteSets

CONSTANTS
  Threads,      \* the threads that serve requests
  Procs,        \* the tappers that may ever be started (bound)
  None,         \* Python's None
  SpawnFails,   \* whether Popen may raise an exception
  MaxRestarts   \* bound: how often systemd starts the gateway again

ASSUME GatewayAssumption ==
  /\ None \notin Procs
  /\ SpawnFails \in BOOLEAN
  /\ MaxRestarts \in Nat

VARIABLES
  service,    \* the unit: "booting", "up" or "down"
  restarts,
  tap_proc,   \* the global variable
  pc,         \* per thread: the next statement of its handler
  obj,        \* per thread: the Popen object it has in hand
  reply,      \* per thread: the outcome of its request
  phase,      \* per tapper: "unborn" or a state of TapProcess
  sig         \* per tapper: signals sent and not yet delivered

VARIABLES     \* history
  asked,      \* per tapper: the signals the gateway sent it
  rival,      \* per thread: the kinds of request that overlap its own, kept after a 500
  raced,      \* tappers registered while a stop was under way
  polite      \* starts came one at a time and only when nothing was registered

gateway == <<service, restarts, tap_proc>>
threads == <<pc, obj, reply>>
tappers == <<phase, sig>>
record  == <<asked, raced, polite>>
history == <<record, rival>>
vars    == <<gateway, threads, tappers, history>>

StartPcs == {"popen", "assign"}
StopPcs  == {"check", "load int", "kill int", "load term", "kill term", "clear"}

P(p) == INSTANCE TapProcess
          WITH state <- phase[p], pend <- sig[p], sent <- 0, late <- 0

Alive(p) == phase[p] \in {"starting", "tapping", "stopping"}
Unborn   == {p \in Procs : phase[p] = "unborn"}

TypeOK ==
  /\ service \in {"booting", "up", "down"}
  /\ restarts \in Nat
  /\ tap_proc \in Procs \union {None}
  /\ pc \in [Threads -> {"idle"} \union StartPcs \union StopPcs]
  /\ obj \in [Threads -> Procs \union {None}]
  /\ reply \in [Threads -> {"none", "OK", "not running", "spawn error", "attribute error"}]
  /\ phase \in [Procs -> {"unborn", "starting", "tapping", "stopping", "dead"}]
  /\ sig \in [Procs -> SUBSET {"int", "term"}]
  /\ asked \in [Procs -> SUBSET {"int", "term"}]
  /\ rival \in [Threads -> SUBSET {"start", "stop"}]
  /\ raced \subseteq Procs
  /\ polite \in BOOLEAN

Init ==
  /\ service = "booting" /\ restarts = 0
  /\ tap_proc = None
  /\ pc = [t \in Threads |-> "idle"]
  /\ obj = [t \in Threads |-> None]
  /\ reply = [t \in Threads |-> "none"]
  /\ phase = [p \in Procs |-> "unborn"]
  /\ sig = [p \in Procs |-> {}]
  /\ asked = [p \in Procs |-> {}]
  /\ rival = [t \in Threads |-> {}]
  /\ raced = {}
  /\ polite = TRUE

----------------------------------------------------------------------------
(* Requests.                                                               *)

At(t, p)    == service = "up" /\ pc[t] = p
Goto(t, p)  == pc' = [pc EXCEPT ![t] = p] /\ UNCHANGED <<reply, rival>>
Answer(t, r) == /\ pc' = [pc EXCEPT ![t] = "idle"]
                /\ reply' = [reply EXCEPT ![t] = r]
                /\ rival' = IF r = "attribute error" THEN rival ELSE [rival EXCEPT ![t] = {}]

Kind(t) == IF pc[t] \in StartPcs THEN {"start"}
           ELSE IF pc[t] \in StopPcs THEN {"stop"} ELSE {}
Others(t) == UNION {Kind(u) : u \in Threads \ {t}}

\* Flask hands a request of kind k to thread t.
Request(t, k, first) ==
  /\ At(t, "idle")
  /\ pc' = [pc EXCEPT ![t] = first]
  /\ reply' = [reply EXCEPT ![t] = "none"]
  /\ rival' = [u \in Threads |-> IF u = t THEN Others(t)
                                 ELSE IF pc[u] = "idle" THEN rival[u]
                                 ELSE rival[u] \union {k}]
  /\ UNCHANGED <<gateway, obj, tappers, asked, raced>>

midi_tap_start(t) ==
  /\ Cardinality({u \in Threads : pc[u] = "popen"}) < Cardinality(Unborn)
  /\ Request(t, "start", "popen")
  /\ polite' = (polite /\ tap_proc = None /\ Others(t) = {})

midi_tap_stop(t) ==
  /\ Request(t, "stop", "check")
  /\ polite' = (polite /\ "start" \notin Others(t))

\* Popen returns once the child runs midi-tapper, or raises an exception
\* that Flask answers with a 500.
Spawn(t) ==
  /\ At(t, "popen")
  /\ \/ \E p \in Unborn :
          /\ phase' = [phase EXCEPT ![p] = "starting"]
          /\ obj' = [obj EXCEPT ![t] = p]
          /\ Goto(t, "assign")
     \/ SpawnFails /\ Answer(t, "spawn error") /\ UNCHANGED <<phase, obj>>
  /\ UNCHANGED <<gateway, sig, record>>

AssignMutLocal(t) ==
  /\ At(t, "assign")
  /\ Answer(t, "OK")
  /\ obj' = [obj EXCEPT ![t] = None]
  /\ UNCHANGED <<gateway, tappers, record>>

Assign(t) ==
  /\ At(t, "assign")
  /\ tap_proc' = obj[t]
  /\ raced' = IF "stop" \in Others(t) THEN raced \union {obj[t]} ELSE raced
  /\ Answer(t, "OK")
  /\ obj' = [obj EXCEPT ![t] = None]
  /\ UNCHANGED <<service, restarts, tappers, asked, polite>>

CheckMutAlways(t) ==
  /\ At(t, "check")
  /\ Goto(t, "load int")
  /\ UNCHANGED <<gateway, obj, tappers, record>>

Check(t) ==
  /\ At(t, "check")
  /\ IF tap_proc = None THEN Answer(t, "not running") ELSE Goto(t, "load int")
  /\ UNCHANGED <<gateway, obj, tappers, record>>

\* tap_proc is read again for each call of send_signal; None has no such method.
Load(t, from, to) ==
  /\ At(t, from)
  /\ obj' = [obj EXCEPT ![t] = tap_proc]
  /\ IF tap_proc = None THEN Answer(t, "attribute error") ELSE Goto(t, to)
  /\ UNCHANGED <<gateway, tappers, record>>

\* os.kill; Popen.send_signal does nothing for a process that has ended.
Send(p, s) ==
  \/ sig' = [sig EXCEPT ![p] = @ \union {s}] /\ P(p)!Signal(s)
  \/ (~Alive(p) \/ s \in sig[p]) /\ sig' = sig

send_signalMutDropped(t, from, s, to) ==
  /\ At(t, from)
  /\ asked' = [asked EXCEPT ![obj[t]] = @ \union {s}]
  /\ obj' = [obj EXCEPT ![t] = None]
  /\ Goto(t, to)
  /\ UNCHANGED <<gateway, tappers, raced, polite>>

send_signal(t, from, s, to) ==
  /\ At(t, from)
  /\ UNCHANGED <<gateway, phase, raced, polite>>
  /\ \E p \in Procs :
       /\ p = obj[t]
       /\ Send(p, s)
       /\ asked' = [asked EXCEPT ![p] = @ \union {s}]
  /\ obj' = [obj EXCEPT ![t] = None]
  /\ Goto(t, to)

ClearMutZero(t) ==
  /\ At(t, "clear")
  /\ tap_proc' = 0
  /\ Answer(t, "OK")
  /\ UNCHANGED <<service, restarts, obj, tappers, record>>

Clear(t) ==
  /\ At(t, "clear")
  /\ tap_proc' = None
  /\ Answer(t, "OK")
  /\ UNCHANGED <<service, restarts, obj, tappers, record>>

\* One statement of stop_tap_proc; one second passes after the first signal.
stop_tap_procMutNoInt(t) ==
  \/ Load(t, "load int", "load term")
  \/ Load(t, "load term", "kill term") \/ send_signal(t, "kill term", "term", "clear")
  \/ Clear(t)
stop_tap_procMutNoTerm(t) ==
  \/ Load(t, "load int", "kill int") \/ send_signal(t, "kill int", "int", "clear")
  \/ Clear(t)

stop_tap_proc(t) ==
  \/ Load(t, "load int", "kill int")   \/ send_signal(t, "kill int", "int", "load term")
  \/ Load(t, "load term", "kill term") \/ send_signal(t, "kill term", "term", "clear")
  \/ Clear(t)

Serve(t) == Spawn(t) \/ Assign(t) \/ Check(t) \/ stop_tap_proc(t)

----------------------------------------------------------------------------
(* The tappers, each a TapProcess.                                         *)

Becomes(p, ph, g) == /\ phase' = [phase EXCEPT ![p] = ph]
                     /\ sig' = [sig EXCEPT ![p] = g]
                     /\ UNCHANGED <<gateway, threads, history>>
Dies(p)           == Becomes(p, "dead", {})

Ready(p)     == Becomes(p, "tapping", sig[p]) /\ P(p)!Ready
GiveUp(p)    == Dies(p) /\ P(p)!GiveUp
Stop(p)      == Dies(p) /\ P(p)!Stop
Terminate(p) == Dies(p) /\ P(p)!Terminate
Interrupt(p) == (Dies(p) \/ Becomes(p, "stopping", sig[p] \ {"int"})) /\ P(p)!Interrupt

TapperStep(p) == Ready(p) \/ GiveUp(p) \/ Stop(p) \/ Terminate(p) \/ Interrupt(p)

----------------------------------------------------------------------------
(* The service.                                                            *)

\* main: the gateway serves requests, or exits because a dependency is missing.
check_deps ==
  /\ service = "booting"
  /\ service' \in {"up", "down"}
  /\ UNCHANGED <<restarts, tap_proc, threads, tappers, history>>

\* With the process goes all of Python's state.
Forget ==
  /\ tap_proc' = None
  /\ pc' = [t \in Threads |-> "idle"]
  /\ obj' = [t \in Threads |-> None]
  /\ reply' = [t \in Threads |-> "none"]
  /\ rival' = [t \in Threads |-> {}]
  /\ polite' = TRUE

\* The gateway ends for whatever reason; systemd then sends SIGTERM to every
\* process left in the unit's control group.
Crash ==
  /\ service = "up"
  /\ service' = "down"
  /\ sig' = [p \in Procs |-> IF Alive(p) THEN sig[p] \union {"term"} ELSE sig[p]]
  /\ Forget
  /\ UNCHANGED <<restarts, phase, asked, raced>>

RestartMutNo == FALSE

\* Restart=always, once the control group is empty.
Restart ==
  /\ service = "down"
  /\ restarts < MaxRestarts
  /\ \A p \in Procs : ~Alive(p)
  /\ service' = "booting"
  /\ restarts' = restarts + 1
  /\ UNCHANGED <<tap_proc, threads, tappers, history>>

Next == \/ \E t \in Threads : midi_tap_start(t) \/ midi_tap_stop(t) \/ Serve(t)
        \/ \E p \in Procs : TapperStep(p)
        \/ check_deps \/ Crash \/ Restart

\* Threads are scheduled, tappers keep their contract, systemd restarts the
\* gateway.  Nobody is obliged to send a request, and nothing has to crash.
Fairness ==
  /\ \A t \in Threads : WF_vars(Serve(t))
  /\ \A p \in Procs : WF_vars(Stop(p)) /\ WF_vars(Terminate(p)) /\ WF_vars(Interrupt(p))
  /\ WF_vars(check_deps) /\ WF_vars(Restart)

SafeSpec == Init /\ [][Next]_vars
Spec     == SafeSpec /\ Fairness

----------------------------------------------------------------------------
(* Properties.                                                             *)

InHand(p) == \E t \in Threads : obj[t] = p
Quiet     == service = "up" /\ \A t \in Threads : pc[t] = "idle"

\* A stop is answered with a 500 (AttributeError on None) only if another
\* stop overlapped it: the test in midi_tap_stop rules out the other ways to
\* meet None, also when the tapper was replaced in between (lines 52-55, 64-66).
StopErrorNeedsRival ==
  \A t \in Threads : reply[t] = "attribute error" => "stop" \in rival[t]

\* What a stop sends SIGTERM to, and what it makes the gateway forget, has been
\* sent SIGINT before - unless it was registered while a stop was under way:
\* then it may be cut short, or tap on with nothing to stop it by (lines 52-55).
IntComesFirst ==
  /\ \A p \in Procs : "term" \in asked[p] => "int" \in asked[p] \/ p \in raced
  /\ \A t \in Threads : pc[t] = "clear" /\ tap_proc # None =>
       "int" \in asked[tap_proc] \/ tap_proc \in raced

\* If clients start a tapper only when nothing is registered and nothing else
\* is under way, no tapper escapes: each one alive is registered, or in the
\* hand of a thread, or was sent SIGTERM - however stops overlap (lines 48-55).
PoliteNoOrphan ==
  polite /\ service = "up" =>
    \A p \in Procs : Alive(p) => p = tap_proc \/ InHand(p) \/ "term" \in asked[p]

\* For such clients "Not running" is the truth: between requests, with nothing
\* registered, every tapper still alive has SIGTERM pending (lines 48-66).
PoliteStopStops ==
  polite /\ Quiet /\ tap_proc = None =>
    \A p \in Procs : Alive(p) => "term" \in sig[p]

\* The tapper a stop took its last look at dies (lines 50-55).
StopKills == \A p \in Procs : asked[p] # {} ~> phase[p] = "dead"

\* After a crash the service boots again: the tappers it left do not keep the
\* unit busy for ever, whatever they were doing (midigw.service).
ServiceComesBack == service = "down" /\ restarts < MaxRestarts ~> service = "booting"

\* The gateway keeps the promise of OneTapper: a tapper plays from its start
\* until it ends or has SIGTERM pending, and polite clients never hear two,
\* however their stops overlap and whenever the gateway crashes (lines 48-67).
Playing(p) == Alive(p) /\ "term" \notin sig[p]

One == INSTANCE OneTapper
         WITH Tappers <- Procs,
              playing <- {p \in Procs : Playing(p)},
              stopped <- {p \in Procs : phase[p] # "unborn" /\ ~Playing(p)}

OneAtATime == One!OSpec

\* What the comment on line 21 says of tap_proc, "pointer" to running tapper
\* proc: between requests it points to every tapper that nobody has stopped.
RunningIsPointedTo ==
  Quiet => \A p \in Procs : Alive(p) /\ asked[p] = {} => p = tap_proc
============================================================================
