----------------------------- MODULE OneTapper -----------------------------
(***************************************************************************)
(* What the gateway promises to its clients, without its threads, its      *)
(* requests and its Popen objects: while the clients start a tapper only   *)
(* when they were told that none is registered, at most one taps at any    *)
(* time, and the next one starts only when it was stopped.  A tapper that  *)
(* SIGTERM is on its way to counts as stopped, and stays stopped.          *)
(***************************************************************************)
EXTENDS Naturals

CONSTANT Tappers

VARIABLES playing,   \* the tappers started and not yet stopped
          stopped,   \* those that were playing once
          polite     \* the clients have kept to the rule since the last boot

ovars == <<playing, stopped, polite>>

OInit == playing = {} /\ stopped = {} /\ polite = TRUE

\* A tapper starts: for clients that keep to the rule, when none is playing.
Start(p) == /\ p \in Tappers \ (playing \union stopped)
            /\ polite => playing = {}
            /\ playing' = playing \union {p}
            /\ UNCHANGED <<stopped, polite>>

\* It is stopped, or ends by itself.
End(p) == /\ p \in playing
          /\ playing' = playing \ {p}
          /\ stopped' = stopped \union {p}
          /\ UNCHANGED polite

\* A client breaks the rule; nobody is stopped or started by that.
Impolite == polite' = FALSE /\ UNCHANGED <<playing, stopped>>

\* The gateway ends, and with it every tapper; the next one begins afresh.
Crash == /\ polite' = TRUE
         /\ playing' = {}
         /\ stopped' = stopped \union playing

ONext == \/ \E p \in Tappers : Start(p) \/ End(p)
         \/ Impolite \/ Crash

OSpec == OInit /\ [][ONext]_ovars
============================================================================
