------------------------------- MODULE Cmdline -----------------------------
(***************************************************************************)
(* The option parser (src/cmdline.c).  A caller parses a command line into *)
(* a struct gengetopt_args_info, once as midi-tapper does or several times *)
(* with the parameters of cmdline_parser_ext, and may free the struct in   *)
(* between.  getopt_long hands over one option after the other; the words  *)
(* that are no options come last.                                          *)
(*                                                                         *)
(* An argument is [n, tail]: the number strtol finds in it and whether     *)
(* anything follows the number.  The argument of --serial is just its n.   *)
(***************************************************************************)
EXTENDS Integers, Sequences, FiniteSets

CONSTANTS
  Argvs,      \* the command lines to consider, sequences of Words
  Stack,      \* what the caller's struct may contain before it is initialised
  IntHalf,    \* an int holds -IntHalf .. IntHalf - 1
  LongHalf,   \* and a long -LongHalf .. LongHalf - 1
  MaxCalls    \* bound: how often the caller parses

Ints == {"tempo", "channel", "message", "value", "repeats"}
Opts == Ints \union {"serial"}

\* What getopt_long makes of a word; "bad" stands for an unknown option and
\* for a missing argument.
WordType(w) ==
  \/ w.kind \in {"help", "version", "bad"}
  \/ w.kind = "input"
  \/ w.kind \in Opts /\ w.n \in Int /\ w.tail \in BOOLEAN

StackType == [arg : [Opts -> Int], given : [Opts -> Nat], orig : SUBSET Opts,
              serial_held : BOOLEAN, inputs : {"null", "freed"}, inputs_num : Nat]

ASSUME CmdlineAssumption ==
  /\ Stack \subseteq StackType
  /\ IntHalf \in Nat \ {0} /\ LongHalf \in Nat /\ LongHalf >= IntHalf
  /\ MaxCalls \in Nat
  /\ \A a \in Argvs : a \in Seq({a[k] : k \in DOMAIN a}) /\ \A k \in DOMAIN a : WordType(a[k])

VARIABLES
  arg, given,         \* args_info->..._arg and ..._given, per option
  orig,               \* the options whose ..._orig is not null
  serial_held,        \* nor is serial_arg
  inputs, inputs_num, \* inputs is "null", "held" or "freed" (points to nothing of ours)
  local_given,        \* local_args_info, per option
  local_held,         \* its serial_arg holds a string
  params, argv, optind,
  pc                  \* "client", "init", "getopt", "inputs" or how the program ended

VARIABLES             \* history
  calls,
  before,             \* arg and given when the options of this call were first seen
  tidy,               \* the caller always initialises, and freed what it parsed before
  leaked,             \* strings no pointer is left to
  double_free

struct  == <<arg, given, orig, serial_held, inputs, inputs_num>>
local   == <<local_given, local_held>>
call    == <<params, argv, calls, tidy>>
vars    == <<struct, local, call, before, optind, pc, leaked, double_free>>

ParamsType == [override : BOOLEAN, initialize : BOOLEAN, check_ambiguity : BOOLEAN]

TypeOK ==
  /\ arg \in [Opts -> Int] /\ given \in [Opts -> Nat]
  /\ orig \subseteq Opts /\ serial_held \in BOOLEAN
  /\ inputs \in {"null", "held", "freed"} /\ inputs_num \in Nat
  /\ local_given \in [Opts -> 0..1] /\ local_held \in BOOLEAN
  /\ params \in ParamsType /\ argv \in Argvs
  /\ optind \in 1 .. Len(argv) + 1
  /\ pc \in {"client", "init", "getopt", "inputs", "success", "failure"}
  /\ calls \in 0..MaxCalls /\ tidy \in BOOLEAN
  /\ before \in [arg : [Opts -> Int], given : [Opts -> Nat]]
  /\ leaked \in Nat /\ double_free \in BOOLEAN

Default == [o \in Opts |-> CASE o = "tempo"   -> 120
                             [] o = "repeats" -> -1
                             [] OTHER         -> 0]
Zero    == [o \in Opts |-> 0]

\* main's struct is an uninitialised local variable: numbers and pointers are
\* whatever was on the stack.
Init ==
  /\ \E s \in Stack : /\ arg = s.arg /\ given = s.given
                     /\ orig = s.orig /\ serial_held = s.serial_held
                     /\ inputs = s.inputs /\ inputs_num = s.inputs_num
  /\ local_given = Zero /\ local_held = FALSE
  /\ params = [override |-> FALSE, initialize |-> TRUE, check_ambiguity |-> FALSE]
  /\ argv \in Argvs /\ optind = 1
  /\ pc = "client"
  /\ calls = 0 /\ tidy = TRUE /\ leaked = 0 /\ double_free = FALSE
  /\ before = [arg |-> Default, given |-> Zero]

----------------------------------------------------------------------------
(* Heap bookkeeping.                                                       *)

Count(b)    == IF b THEN 1 ELSE 0
Holding     == Cardinality(orig) + Count(serial_held) + (IF inputs = "held" THEN inputs_num ELSE 0)

ReleaseMutKeepsOrig ==
  /\ serial_held' = FALSE
  /\ leaked' = leaked + Cardinality(orig) /\ orig' = {}
  /\ inputs' = IF inputs_num > 0 THEN "freed" ELSE inputs
  /\ double_free' = (double_free \/ (inputs_num > 0 /\ inputs = "freed"))
  /\ given' = Zero
  /\ UNCHANGED inputs_num

\* cmdline_parser_release of the caller's struct: the strings are set to
\* null, inputs and inputs_num are not.
Release ==
  /\ serial_held' = FALSE
  /\ orig' = {}
  /\ inputs' = IF inputs_num > 0 THEN "freed" ELSE inputs
  /\ double_free' = (double_free \/ (inputs_num > 0 /\ inputs = "freed"))
  /\ given' = Zero
  /\ UNCHANGED <<inputs_num, leaked>>

----------------------------------------------------------------------------
(* The caller.                                                             *)

\* cmdline_parser, cmdline_parser2 or cmdline_parser_ext.  The first call
\* initialises the struct.
cmdline_parser ==
  /\ pc = "client" /\ calls < MaxCalls
  /\ params' \in ParamsType
  /\ argv' \in Argvs
  /\ calls = 0 => params'.initialize
  /\ tidy' = (tidy /\ params'.initialize /\ (calls = 0 \/ Holding = 0))
  /\ calls' = calls + 1
  /\ optind' = 1
  /\ pc' = "init"
  /\ UNCHANGED <<struct, local, before, leaked, double_free>>

cmdline_parser_free ==
  /\ pc = "client" /\ calls > 0
  /\ Release
  /\ tidy' = (tidy /\ Holding > 0)
  /\ UNCHANGED <<arg, local, params, argv, calls, before, optind, pc>>

----------------------------------------------------------------------------
(* cmdline_parser_internal.                                                *)

\* What the pointers of a struct parsed before held is lost when they are reset.
Lost == IF calls = 1 THEN 0 ELSE Holding

\* cmdline_parser_init of both structs.
cmdline_parser_initMutNoGiven ==
  /\ pc = "init"
  /\ local_given' = Zero /\ local_held' = TRUE
  /\ IF params.initialize
     THEN /\ arg' = Default /\ given' = given /\ orig' = {} /\ serial_held' = TRUE
          /\ inputs' = "null" /\ inputs_num' = 0
          /\ leaked' = leaked + Lost
          /\ before' = [arg |-> Default, given |-> Zero]
     ELSE UNCHANGED <<struct, leaked>> /\ before' = [arg |-> arg, given |-> given]
  /\ pc' = "getopt"
  /\ UNCHANGED <<call, optind, double_free>>

cmdline_parser_init ==
  /\ pc = "init"
  /\ local_given' = Zero /\ local_held' = TRUE
  /\ IF params.initialize
     THEN /\ arg' = Default /\ given' = Zero /\ orig' = {} /\ serial_held' = TRUE
          /\ inputs' = "null" /\ inputs_num' = 0
          /\ leaked' = leaked + Lost
          /\ before' = [arg |-> Default, given |-> Zero]
     ELSE UNCHANGED <<struct, leaked>> /\ before' = [arg |-> arg, given |-> given]
  /\ pc' = "getopt"
  /\ UNCHANGED <<call, optind, double_free>>

\* getopt_long skips the words that are no options and comes back to them last.
IsOption(w)  == w.kind # "input"
NextOption   == {k \in optind .. Len(argv) : IsOption(argv[k])}
AtOption(k)  == pc = "getopt" /\ k \in NextOption /\ \A j \in NextOption : k <= j
Inputs       == {k \in DOMAIN argv : ~IsOption(argv[k])}

\* (int) strtol(...): strtol stops at the ends of a long, the cast to int
\* keeps the low bits.
strtol(n) == IF n >= LongHalf THEN LongHalf - 1 ELSE IF n < -LongHalf THEN -LongHalf ELSE n
AsIntMutSaturates(n) ==
  IF n >= IntHalf THEN IntHalf - 1 ELSE IF n < -IntHalf THEN -IntHalf ELSE n
AsInt(n)  == ((strtol(n) + IntHalf) % (2 * IntHalf)) - IntHalf
Value(w)  == IF w.kind \in Ints THEN AsInt(w.n) ELSE w.n

\* update_arg, its early returns first.
GivenTwiceMutGivenOnly(o) == params.check_ambiguity /\ given[o] > 0
GivenTwiceMutAlwaysAmbiguous(o) == local_given[o] > 0 \/ given[o] > 0
GivenTwice(o) == local_given[o] > 0 \/ (params.check_ambiguity /\ given[o] > 0)

KeepsOld(o) == given[o] > 0 /\ ~params.override

\* The counters, the value and, for a well-formed one, the original string.
Store(w) ==
  LET o == w.kind IN
  /\ local_given' = [local_given EXCEPT ![o] = @ + 1]
  /\ given' = [given EXCEPT ![o] = @ + 1]
  /\ arg' = [arg EXCEPT ![o] = Value(w)]
  /\ serial_held' = (serial_held \/ o = "serial")
  /\ orig' = orig \union {o}

\* cmdline_parser_release of the local struct.
ReleaseLocal == local_held' = FALSE /\ local_given' = Zero

\* A parse error: the local struct is released, then cmdline_parser2 or
\* cmdline_parser_ext frees the caller's and exits.  Both set the counters to zero.
Fail ==
  /\ pc' = "failure"
  /\ ReleaseLocal
  /\ Release
  /\ UNCHANGED <<call, before, optind>>

InvalidMutIgnored(w) == FALSE
Invalid(w) == w.kind \in Ints /\ w.tail

\* The value is stored before what follows the number is looked at.
update_arg ==
  \E k \in DOMAIN argv :
    /\ AtOption(k)
    /\ argv[k].kind \in Opts
    /\ LET w == argv[k] IN
       \/ GivenTwice(w.kind) /\ Fail /\ UNCHANGED arg
       \/ /\ ~GivenTwice(w.kind) /\ KeepsOld(w.kind)
          /\ optind' = k + 1
          /\ UNCHANGED <<struct, local, call, before, pc, leaked, double_free>>
       \/ /\ ~GivenTwice(w.kind) /\ ~KeepsOld(w.kind)
          /\ IF Invalid(w)
             THEN Fail /\ arg' = [arg EXCEPT ![w.kind] = Value(w)]
             ELSE /\ Store(w)
                  /\ optind' = k + 1
                  /\ UNCHANGED <<inputs, inputs_num, local_held, call, before, pc, leaked,
                                 double_free>>

BadOption ==
  \E k \in DOMAIN argv : AtOption(k) /\ argv[k].kind = "bad" /\ Fail /\ UNCHANGED arg

\* -h and -V print and exit; only the local struct is released.
PrintAndExit ==
  \E k \in DOMAIN argv :
    /\ AtOption(k)
    /\ argv[k].kind \in {"help", "version"}
    /\ pc' = "success" /\ ReleaseLocal
    /\ UNCHANGED <<struct, call, before, optind, leaked, double_free>>

\* No option is left: the local struct is released and the other words are
\* copied; an older copy is lost.
TakeInputs ==
  /\ pc = "getopt" /\ NextOption = {}
  /\ ReleaseLocal
  /\ IF Inputs = {}
     THEN UNCHANGED <<inputs, inputs_num, leaked>>
     ELSE /\ inputs' = "held" /\ inputs_num' = Cardinality(Inputs)
          /\ leaked' = leaked + (IF inputs = "held" THEN inputs_num ELSE 0)
  /\ optind' = Len(argv) + 1
  /\ pc' = "client"
  /\ UNCHANGED <<arg, given, orig, serial_held, call, before, double_free>>

Next == cmdline_parser \/ cmdline_parser_free \/ cmdline_parser_init
        \/ update_arg \/ BadOption \/ PrintAndExit \/ TakeInputs

Spec == Init /\ [][Next]_vars

----------------------------------------------------------------------------
(* Properties.                                                             *)

Returned == pc = "client" /\ calls > 0 /\ optind > Len(argv)
Uses(o)  == {k \in DOMAIN argv : argv[k].kind = o}
Old(o)   == before.given[o] > 0 /\ ~params.override

\* What v may be when w was given: for a number the int that differs from it,
\* or from the end of a long it lies beyond, by whole turns of an int - which is
\* the number itself if it fits.
Reads(v, w) ==
  IF w.kind \in Ints
  THEN /\ v \in -IntHalf .. IntHalf - 1
       /\ w.n \in -LongHalf .. LongHalf - 1 => (v - w.n) % (2 * IntHalf) = 0
       /\ w.n >= LongHalf => (v - (LongHalf - 1)) % (2 * IntHalf) = 0
       /\ w.n < -LongHalf => (v + LongHalf) % (2 * IntHalf) = 0
  ELSE v = w.n

\* A parse that returns has read the whole command line, and each option has
\* the value given for it in this call, or else what it had before: the
\* default, or what an earlier call stored (lines 382-471).  This is for the
\* struct not freed since.
ValuesAreThoseGiven ==
  Returned /\ serial_held =>
    \A o \in Opts :
      IF Uses(o) = {} \/ Old(o) THEN arg[o] = before.arg[o]
      ELSE \E k \in Uses(o) : Reads(arg[o], argv[k])

\* A parse that returns accepted no option twice and no malformed number,
\* unless the option was skipped because an earlier call had set it
\* (lines 402-417).
NothingBadAccepted ==
  Returned =>
    /\ \A k \in DOMAIN argv : argv[k].kind \notin {"bad", "help", "version"}
    /\ \A o \in Opts : ~Old(o) =>
         Cardinality(Uses(o)) <= 1 /\ \A k \in Uses(o) : o \in Ints => ~argv[k].tail

\* The program fails only over a bad word: an unknown option, a malformed
\* number, an option repeated in one call, or one repeated across calls that
\* asks for check_ambiguity.
FailureIsDeserved ==
  pc = "failure" =>
    \/ \E k \in DOMAIN argv : argv[k].kind = "bad" \/ (argv[k].kind \in Ints /\ argv[k].tail)
    \/ \E o \in Opts : \/ Cardinality(Uses(o)) > 1
                       \/ params.check_ambiguity /\ before.given[o] > 0 /\ Uses(o) # {}

\* A caller that initialises on every parse and frees once in between never
\* loses or frees twice a string, and the parser's own struct is gone whenever
\* the parser is left, however the parses end (lines 199-219, 534-542, 632, 665).
HeapBalanced ==
  /\ tidy => leaked = 0 /\ ~double_free
  /\ pc # "getopt" => ~local_held
============================================================================
