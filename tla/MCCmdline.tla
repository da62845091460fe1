------------------------------ MODULE MCCmdline ----------------------------
(* Short command lines: an int has 8 bits, a long 16.                      *)
EXTENDS Cmdline

Opt(o, n, t) == [kind |-> o, n |-> n, tail |-> t]
Word(k)      == [kind |-> k]

\* 0 stands for the empty string too, which strtol accepts; 300 does not fit
\* an int, and 40000 and -40000 not a long.
Words == {Opt("serial", 1, FALSE), Opt("serial", 2, TRUE)}
         \union {Opt("tempo", n, FALSE) : n \in {0, 300, 40000, -40000}}
         \union {Opt("repeats", 2, FALSE), Opt("repeats", 3, TRUE)}
         \union {Word(k) : k \in {"bad", "help", "input"}}

MCArgvs == UNION {[1..n -> Words] : n \in 0..2}
           \union {<<Opt("tempo", 5, FALSE), Word("input"), Opt("tempo", 6, FALSE)>>,
                   <<Word("input"), Opt("repeats", 7, FALSE), Word("input")>>}

\* A struct of zeros, one of garbage, and what lies between.
MCStack == {[arg |-> [o \in Opts |-> 77], given |-> [o \in Opts |-> g], orig |-> s,
             serial_held |-> s # {}, inputs |-> p, inputs_num |-> n] :
              g \in {0, 1}, s \in {{}, Opts}, p \in {"null", "freed"}, n \in {0, 3}}
============================================================================
