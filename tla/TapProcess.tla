---------------------------- MODULE TapProcess -----------------------------
(***************************************************************************)
(* What a midi-tapper process promises to whoever started it: the contract *)
(* the gateway relies on when it stops a tapper with SIGINT and SIGTERM,   *)
(* and that the detailed Tapper is shown to implement.                     *)
(*                                                                         *)
(*   starting   the SIGINT handler is not installed: SIGINT kills          *)
(*   tapping    SIGINT asks the process to stop                            *)
(*   stopping   the process was asked to stop; it may finish one message   *)
(*   dead       exited or killed                                           *)
(***************************************************************************)
EXTENDS Naturals

VARIABLES state,   \* the phase of the process
          pend,    \* the signals sent to it and not yet delivered
          sent,    \* how many MIDI messages it has tried to write
          late     \* how many of those after it was asked to stop

pvars == <<state, pend, sent, late>>

PStates == {"starting", "tapping", "stopping", "dead"}

PInit == /\ state = "starting"
         /\ pend = {}
         /\ sent = 0
         /\ late = 0

\* The process has its signal handlers.
Ready == /\ state = "starting"
         /\ state' = "tapping"
         /\ UNCHANGED <<pend, sent, late>>

\* A beat; at most one more once the process is stopping.
Tap == /\ \/ state = "tapping" /\ late' = late
          \/ state = "stopping" /\ late = 0 /\ late' = 1
       /\ sent' = sent + 1
       /\ UNCHANGED <<state, pend>>

\* Signals still pending die with the process.
Die == state' = "dead" /\ pend' = {} /\ UNCHANGED <<sent, late>>

\* The process ends by itself: bad options, no timer, all repeats done.
GiveUp == state \in {"starting", "tapping"} /\ Die

\* The process ends because it was asked to.
Stop == state = "stopping" /\ Die

\* Somebody sends a signal; a signal that is already pending is not queued.
Signal(s) == /\ state # "dead"
             /\ s \notin pend
             /\ pend' = pend \union {s}
             /\ UNCHANGED <<state, sent, late>>

Interrupt == /\ "int" \in pend
             /\ \/ state = "starting" /\ Die
                \/ /\ state \in {"tapping", "stopping"}
                   /\ state' = "stopping"
                   /\ pend' = pend \ {"int"}
                   /\ UNCHANGED <<sent, late>>

Terminate == state # "dead" /\ "term" \in pend /\ Die

PNext == \/ Ready \/ Tap \/ GiveUp \/ Stop
         \/ \E s \in {"int", "term"} : Signal(s)
         \/ Interrupt \/ Terminate

\* A signal is delivered in the end, and a process asked to stop does so.
PFairness == WF_pvars(Interrupt) /\ WF_pvars(Terminate) /\ WF_pvars(Stop)

PSafeSpec == PInit /\ [][PNext]_pvars

PSpec == PSafeSpec /\ PFairness
============================================================================
