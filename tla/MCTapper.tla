------------------------------ MODULE MCTapper -----------------------------
(* Small command lines for Tapper.  Time is counted in microseconds.       *)
EXTENDS Tapper

Good == [parse |-> "ok", channel |-> 3, message |-> 44, value |-> 0, tempo |-> 114,
         repeats_given |-> FALSE, repeats |-> -1]

\* Every way of leaving main early, and every edge of channel and tempo.
MCArgs ==
  {[Good EXCEPT !.parse = p] : p \in {"success", "failure"}} \union
  {[Good EXCEPT !.channel = c, !.message = 300, !.value = -1] : c \in {-1, 0, 15, 16, 64}} \union
  {[Good EXCEPT !.tempo = t] : t \in {-120, 0, 1, 13, 60, 61, 120, 2400, 999983}} \union
  {[Good EXCEPT !.repeats_given = TRUE, !.repeats = r] : r \in -1..3}

MCMasks == {{}, {"int"}, {"int", "term"}}
============================================================================
