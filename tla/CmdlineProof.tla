---------------------------- MODULE CmdlineProof ----------------------------
(***************************************************************************)
(* Proofs about the option parser, for command lines of any length, any    *)
(* sizes of int and long, and any number of parses.                        *)
(***************************************************************************)
EXTENDS Cmdline, FiniteSetTheorems, TLAPS

\* The uses of an option among the words that have been looked at.
Done(o) == {k \in DOMAIN argv : k < optind /\ argv[k].kind = o}

\* arg[o] is what its uses, those in D, make of it.
Settled(o, D) ==
  IF Old(o) \/ D = {} THEN arg[o] = before.arg[o]
  ELSE \E j \in D : D = {j} /\ arg[o] = Value(argv[j]) /\ ~Invalid(argv[j])

\* Until the options are read, local_args_info tells which of them this call has set.
OptionInv ==
  /\ pc = "init" => optind = 1
  /\ pc = "getopt" =>
       /\ \A o \in Opts : /\ Settled(o, Done(o))
                          /\ given[o] = before.given[o] + local_given[o]
                          /\ local_given[o] = IF Old(o) \/ Done(o) = {} THEN 0 ELSE 1
       /\ \A k \in DOMAIN argv : k < optind => argv[k].kind \in Opts \union {"input"}
  /\ pc = "client" /\ calls > 0 =>
       /\ \A o \in Opts : Settled(o, Uses(o))
       /\ \A k \in DOMAIN argv : argv[k].kind \in Opts \union {"input"}

\* Who initialises and frees holds nothing when a parse begins, and no inputs in
\* it; the first parse finds only what was on the stack.
HeapInv ==
  /\ tidy /\ pc = "init" => params.initialize /\ Lost = 0
  /\ tidy /\ pc = "getopt" => inputs = "null"
  /\ tidy /\ pc = "client" /\ calls > 0 /\ inputs = "freed" => Holding = 0

\* Only the caller may not have parsed yet.
CallsInv == pc # "client" => calls # 0

IInv == TypeOK /\ CallsInv /\ OptionInv /\ HeapInv /\ FailureIsDeserved /\ HeapBalanced

----------------------------------------------------------------------------
LEMMA SequenceDomain ==
  ASSUME NEW S, NEW a \in Seq(S)
  PROVE  Len(a) \in Nat /\ DOMAIN a = 1 .. Len(a)
  OBVIOUS

LEMMA Argv ==
  ASSUME TypeOK
  PROVE  /\ Len(argv) \in Nat /\ DOMAIN argv = 1 .. Len(argv)
         /\ \A k \in DOMAIN argv : WordType(argv[k])
  <1>1. argv \in Seq({argv[k] : k \in DOMAIN argv})
    BY CmdlineAssumption DEF TypeOK
  <1>2. \A S : argv \in Seq(S) => Len(argv) \in Nat /\ DOMAIN argv = 1 .. Len(argv)
    BY SequenceDomain
  <1>3. Len(argv) \in Nat /\ DOMAIN argv = 1 .. Len(argv)
    BY <1>1, <1>2
  <1>4. \A k \in DOMAIN argv : WordType(argv[k])
    BY CmdlineAssumption DEF TypeOK
  <1>5. QED
    BY <1>3, <1>4

LEMMA FiniteOptions ==
  ASSUME NEW S \in SUBSET Opts
  PROVE  IsFiniteSet(S)
  <1>1. \A T, x : IsFiniteSet(T) => IsFiniteSet(T \union {x})
    BY FS_AddElement
  <1>2. IsFiniteSet({"tempo"}) /\ {"tempo"} \union {"channel"} = {"tempo", "channel"}
    BY FS_Singleton
  <1>3. IsFiniteSet({"tempo", "channel"} \union {"message"})
    BY <1>1, <1>2
  <1>4. IsFiniteSet({"tempo", "channel"} \union {"message"} \union {"value"})
    BY <1>1, <1>3
  <1>5. IsFiniteSet({"tempo", "channel"} \union {"message"} \union {"value"} \union {"repeats"})
    BY <1>1, <1>4
  <1>6. IsFiniteSet({"tempo", "channel"} \union {"message"} \union {"value"} \union {"repeats"}
                    \union {"serial"})
    BY <1>1, <1>5
  <1>7. Opts = {"tempo", "channel"} \union {"message"} \union {"value"} \union {"repeats"}
               \union {"serial"}
    BY DEF Opts, Ints
  <1>8. QED
    BY <1>6, <1>7, FS_Subset

\* What Holding counts is a number, and it is zero for a struct without strings.
LEMMA HoldingType ==
  ASSUME TypeOK
  PROVE  Holding \in Nat
  <1>1. Cardinality(orig) \in Nat
    BY FiniteOptions, FS_CardinalityType DEF TypeOK
  <1>2. Count(serial_held) \in Nat
    BY DEF Count
  <1>3. QED
    BY <1>1, <1>2 DEF Holding, TypeOK

LEMMA ValueType ==
  ASSUME TypeOK, NEW k \in DOMAIN argv, argv[k].kind \in Opts
  PROVE  Value(argv[k]) \in Int
  <1>1. argv[k].n \in Int
    BY Argv DEF WordType, Opts, Ints
  <1>2. \A n \in Int : AsInt(n) \in Int
    <2>1. ASSUME NEW n \in Int PROVE strtol(n) \in Int
      BY CmdlineAssumption DEF strtol
    <2>2. ASSUME NEW n \in Int PROVE n % (2 * IntHalf) \in Int
      BY CmdlineAssumption
    <2>3. QED
      BY <2>1, <2>2, CmdlineAssumption DEF AsInt
  <1>3. QED
    BY <1>1, <1>2 DEF Value

----------------------------------------------------------------------------
LEMMA Initially == Init => IInv
  <1> SUFFICES ASSUME Init PROVE IInv
    OBVIOUS
  <1>1. TypeOK
    <2>1. argv \in Argvs /\ argv \in Seq({argv[k] : k \in DOMAIN argv})
      BY CmdlineAssumption DEF Init
    <2>2. optind \in 1 .. Len(argv) + 1
      BY <2>1 DEF Init
    <2>3. /\ arg \in [Opts -> Int] /\ given \in [Opts -> Nat] /\ orig \subseteq Opts
          /\ inputs \in {"null", "freed"} /\ inputs_num \in Nat /\ serial_held \in BOOLEAN
      <3>1. PICK s \in Stack : /\ arg = s.arg /\ given = s.given
                              /\ orig = s.orig /\ serial_held = s.serial_held
                              /\ inputs = s.inputs /\ inputs_num = s.inputs_num
        BY DEF Init
      <3>2. s \in StackType
        BY CmdlineAssumption
      <3>3. QED
        BY <3>1, <3>2 DEF StackType
    <2>4. Zero \in [Opts -> 0..1] /\ Zero \in [Opts -> Nat] /\ Default \in [Opts -> Int]
      BY DEF Zero, Default
    <2>5. params \in ParamsType
      BY DEF Init, ParamsType
    <2>6. before \in [arg : [Opts -> Int], given : [Opts -> Nat]]
      BY <2>4 DEF Init
    <2>7. calls \in 0..MaxCalls
      BY CmdlineAssumption DEF Init
    <2>8. local_given \in [Opts -> 0..1]
      BY <2>4 DEF Init
    <2>9. QED
      BY <2>1, <2>2, <2>3, <2>5, <2>6, <2>7, <2>8 DEF Init, TypeOK
  <1>2. OptionInv
    BY DEF Init, OptionInv
  <1>3. HeapInv
    BY DEF Init, HeapInv
  <1>4. FailureIsDeserved /\ HeapBalanced
    BY DEF Init, FailureIsDeserved, HeapBalanced
  <1>5. CallsInv
    BY DEF Init, CallsInv
  <1>6. QED
    BY <1>1, <1>2, <1>3, <1>4, <1>5 DEF IInv

\* A new parse begins: nothing of the last one is left to be told.
LEMMA StepParse ==
  ASSUME IInv, cmdline_parser
  PROVE  IInv'
  <1>1. /\ pc = "client" /\ calls < MaxCalls /\ calls' = calls + 1 /\ pc' = "init"
        /\ params' \in ParamsType /\ argv' \in Argvs /\ optind' = 1
        /\ tidy' = (tidy /\ params'.initialize /\ (calls = 0 \/ Holding = 0))
        /\ UNCHANGED <<arg, given, orig, serial_held, inputs, inputs_num, local_given, local_held,
                       before, leaked, double_free>>
    BY DEF cmdline_parser, struct, local
  <1>2. TypeOK'
    <2>1. argv' \in Seq({argv'[k] : k \in DOMAIN argv'})
      BY <1>1, CmdlineAssumption
    <2>2. optind' \in 1 .. Len(argv') + 1
      BY <1>1, <2>1
    <2>3. calls' \in 0..MaxCalls
      BY <1>1, CmdlineAssumption DEF IInv, TypeOK
    <2>4. tidy' \in BOOLEAN
      BY <1>1 DEF IInv, TypeOK
    <2>5. QED
      BY <1>1, <2>2, <2>3, <2>4 DEF IInv, TypeOK
  <1>3. OptionInv'
    BY <1>1 DEF OptionInv
  <1>4. HeapInv'
    <2>1. calls = 0 => calls' = 1
      BY <1>1
    <2>2. Holding' = Holding
      BY <1>1 DEF Holding
    <2>3. tidy' => params'.initialize /\ Lost' = 0
      BY <1>1, <2>1, <2>2 DEF Lost
    <2>4. QED
      BY <1>1, <2>3 DEF HeapInv
  <1>5. FailureIsDeserved' /\ HeapBalanced'
    BY <1>1 DEF IInv, FailureIsDeserved, HeapBalanced
  <1>6. CallsInv'
    BY <1>1 DEF IInv, TypeOK, CallsInv
  <1>7. QED
    BY <1>2, <1>3, <1>4, <1>5, <1>6 DEF IInv

LEMMA StepInit ==
  ASSUME IInv, cmdline_parser_init
  PROVE  IInv'
  <1>1. /\ pc = "init" /\ pc' = "getopt" /\ optind = 1 /\ optind' = 1
        /\ local_given' = Zero /\ local_held' = TRUE
        /\ UNCHANGED <<params, argv, calls, tidy, double_free>>
    BY DEF cmdline_parser_init, call, IInv, OptionInv
  <1>2. \/ /\ params.initialize
           /\ arg' = Default /\ given' = Zero /\ orig' = {} /\ serial_held' = TRUE
           /\ inputs' = "null" /\ inputs_num' = 0 /\ leaked' = leaked + Lost
           /\ before' = [arg |-> Default, given |-> Zero]
        \/ /\ ~params.initialize
           /\ UNCHANGED <<arg, given, orig, serial_held, inputs, inputs_num, leaked>>
           /\ before' = [arg |-> arg, given |-> given]
    BY DEF cmdline_parser_init, struct
  <1>3. Zero \in [Opts -> Nat] /\ Zero \in [Opts -> 0..1] /\ Default \in [Opts -> Int]
    BY DEF Zero, Default
  <1>4. TypeOK'
    <2>1. Lost \in Nat
      BY HoldingType DEF IInv, Lost
    <2>2. CASE params.initialize
      BY <1>1, <1>2, <1>3, <2>1, <2>2 DEF IInv, TypeOK
    <2>3. CASE ~params.initialize
      BY <1>1, <1>2, <1>3, <2>3 DEF IInv, TypeOK
    <2>4. QED
      BY <2>2, <2>3
  <1>5. before'.arg = arg' /\ before'.given = given'
    BY <1>2
  <1>6. OptionInv'
    <2>1. \A k \in DOMAIN argv' : ~(k < optind')
      BY <1>1, Argv DEF IInv
    <2>2. \A o \in Opts : Done(o)' = {}
      BY <2>1 DEF Done
    <2>3. \A o \in Opts : local_given'[o] = 0
      BY <1>1 DEF Zero
    <2>4. \A o \in Opts : given'[o] \in Nat
      BY <1>4 DEF TypeOK
    <2>5. QED
      BY <1>1, <1>5, <2>1, <2>2, <2>3, <2>4 DEF OptionInv, Settled
  <1>7. HeapInv'
    <2>1. tidy => inputs' = "null"
      BY <1>1, <1>2 DEF IInv, HeapInv
    <2>2. calls' # 0
      BY <1>1 DEF IInv, CallsInv
    <2>3. QED
      BY <1>1, <2>1, <2>2 DEF HeapInv
  <1>8. HeapBalanced'
    <2>1. ASSUME tidy PROVE leaked' = leaked
      <3>1. params.initialize /\ Lost = 0 /\ leaked = 0
        BY <1>1, <2>1 DEF IInv, HeapInv, HeapBalanced
      <3>2. QED
        BY <1>2, <3>1
    <2>2. QED
      BY <1>1, <2>1 DEF IInv, HeapBalanced
  <1>9. FailureIsDeserved'
    BY <1>1 DEF FailureIsDeserved
  <1>10. QED
    BY <1>1, <1>4, <1>6, <1>7, <1>8, <1>9 DEF IInv, CallsInv

----------------------------------------------------------------------------
\* Between optind and the option getopt_long returns there are only other words.
LEMMA OptionOrder ==
  ASSUME TypeOK, NEW k \in DOMAIN argv, AtOption(k)
  PROVE  /\ pc = "getopt" /\ optind <= k /\ k \in Nat /\ k <= Len(argv)
         /\ \A j \in DOMAIN argv : optind <= j /\ j < k => argv[j].kind = "input"
  <1>1. pc = "getopt" /\ k \in NextOption /\ \A j \in NextOption : k <= j
    BY DEF AtOption
  <1>2. Len(argv) \in Nat /\ DOMAIN argv = 1 .. Len(argv) /\ optind \in Nat
    BY Argv DEF TypeOK
  <1>3. ASSUME NEW j \in DOMAIN argv, optind <= j, j < k PROVE argv[j].kind = "input"
    <2>1. j \notin NextOption
      BY <1>1, <1>2, <1>3
    <2>2. j \in optind .. Len(argv)
      BY <1>2, <1>3
    <2>3. QED
      BY <2>1, <2>2 DEF NextOption, IsOption
  <1>4. QED
    BY <1>1, <1>2, <1>3 DEF NextOption

LEMMA TwoUses ==
  ASSUME TypeOK, NEW o, NEW j \in Uses(o), NEW k \in Uses(o), j # k
  PROVE  Cardinality(Uses(o)) > 1
  <1>1. IsFiniteSet(Uses(o))
    <2>1. IsFiniteSet(1 .. Len(argv))
      BY Argv, FS_Interval
    <2>2. Uses(o) \in SUBSET (1 .. Len(argv))
      BY Argv DEF Uses
    <2>3. QED
      BY <2>1, <2>2, FS_Subset
  <1>2. Cardinality(Uses(o)) \in Nat
    BY <1>1, FS_CardinalityType
  <1>3. Cardinality(Uses(o)) # 0
    BY <1>1, FS_EmptySet
  <1>4. Cardinality(Uses(o)) # 1
    <2>1. \A x : Uses(o) # {x}
      OBVIOUS
    <2>2. QED
      BY <1>1, <2>1, FS_Singleton
  <1>5. QED
    BY <1>2, <1>3, <1>4

\* A failure releases both structs.
LEMMA StepFail ==
  ASSUME IInv, pc = "getopt", Fail, arg' \in [Opts -> Int], FailureIsDeserved'
  PROVE  IInv'
  <1>1. /\ pc' = "failure" /\ local_held' = FALSE /\ local_given' = Zero
        /\ serial_held' = FALSE /\ orig' = {} /\ given' = Zero
        /\ inputs' = IF inputs_num > 0 THEN "freed" ELSE inputs
        /\ double_free' = (double_free \/ (inputs_num > 0 /\ inputs = "freed"))
        /\ UNCHANGED <<inputs_num, leaked, params, argv, calls, tidy, before, optind>>
    BY DEF Fail, ReleaseLocal, Release, call
  <1>2. Zero \in [Opts -> Nat] /\ Zero \in [Opts -> 0..1]
    BY DEF Zero
  <1>3. TypeOK'
    <2>1. inputs' \in {"null", "held", "freed"} /\ double_free' \in BOOLEAN
      BY <1>1 DEF IInv, TypeOK
    <2>2. QED
      BY <1>1, <1>2, <2>1 DEF IInv, TypeOK
  <1>4. OptionInv'
    BY <1>1 DEF OptionInv
  <1>5. HeapInv'
    BY <1>1 DEF IInv, CallsInv, HeapInv
  <1>6. HeapBalanced'
    BY <1>1 DEF IInv, HeapInv, HeapBalanced
  <1>7. QED
    BY <1>1, <1>3, <1>4, <1>5, <1>6 DEF IInv, CallsInv

\* What it means to be done with one more option.
LEMMA DoneAfter ==
  ASSUME TypeOK, OptionInv, NEW k \in DOMAIN argv, AtOption(k),
         NEW o \in Opts, argv[k].kind = o, optind' = k + 1, argv' = argv
  PROVE  /\ Done(o)' = Done(o) \union {k}
         /\ \A q \in Opts : q # o => Done(q)' = Done(q)
         /\ \A j \in DOMAIN argv' : j < optind' => argv'[j].kind \in Opts \union {"input"}
         /\ optind' \in 1 .. Len(argv') + 1
  <1>1. /\ pc = "getopt" /\ optind <= k /\ k \in Nat /\ k <= Len(argv)
        /\ \A j \in DOMAIN argv : optind <= j /\ j < k => argv[j].kind = "input"
    BY OptionOrder
  <1>2. Len(argv) \in Nat /\ DOMAIN argv = 1 .. Len(argv) /\ optind \in Nat
    BY Argv DEF TypeOK
  <1>3. "input" \notin Opts
    BY DEF Opts, Ints
  <1>4. ASSUME NEW j \in DOMAIN argv
        PROVE  /\ j < k + 1 <=> j < k \/ j = k
               /\ j < k => j < optind \/ argv[j].kind = "input"
               /\ j < optind => j < k
    BY <1>1, <1>2, <1>4
  <1>5. ASSUME NEW q \in Opts
        PROVE  Done(q)' = Done(q) \union (IF q = o THEN {k} ELSE {})
    <2>1. Done(q)' = {j \in DOMAIN argv : j < k + 1 /\ argv[j].kind = q}
      BY DEF Done
    <2>2. QED
      BY <1>3, <1>4, <1>5, <2>1 DEF Done
  <1>6. \A j \in DOMAIN argv : j < k + 1 => argv[j].kind \in Opts \union {"input"}
    BY <1>1, <1>4 DEF OptionInv
  <1>7. k + 1 \in 1 .. Len(argv) + 1
    BY <1>1, <1>2
  <1>8. Done(o)' = Done(o) \union {k}
    BY <1>5
  <1>9. \A q \in Opts : q # o => Done(q)' = Done(q)
    BY <1>5
  <1>10. \A j \in DOMAIN argv' : j < optind' => argv'[j].kind \in Opts \union {"input"}
    BY <1>6
  <1>11. optind' \in 1 .. Len(argv') + 1
    BY <1>7
  <1>12. QED
    BY <1>8, <1>9, <1>10, <1>11

\* An option that an earlier call has set, and that is not to be overridden.
LEMMA StepKeep ==
  ASSUME IInv, NEW k \in DOMAIN argv, AtOption(k), NEW o \in Opts, argv[k].kind = o,
         ~GivenTwice(o), KeepsOld(o), optind' = k + 1,
         UNCHANGED <<struct, local, call, before, pc, leaked, double_free>>
  PROVE  IInv'
  <1>1. UNCHANGED <<arg, given, orig, serial_held, inputs, inputs_num, local_given, local_held,
                    params, argv, calls, tidy, before, pc, leaked, double_free>>
    BY DEF struct, local, call
  <1>2. pc = "getopt"
    BY DEF AtOption
  <1>3. /\ Done(o)' = Done(o) \union {k}
        /\ \A q \in Opts : q # o => Done(q)' = Done(q)
        /\ \A j \in DOMAIN argv' : j < optind' => argv'[j].kind \in Opts \union {"input"}
        /\ optind' \in 1 .. Len(argv') + 1
    BY <1>1, DoneAfter DEF IInv
  <1>4. \A q \in Opts : Old(q)' = Old(q)
    BY <1>1 DEF Old
  <1>5. Old(o)
    <2>1. local_given[o] = 0
      BY DEF GivenTwice, IInv, TypeOK
    <2>2. given[o] = before.given[o] + local_given[o] /\ before.given[o] \in Nat
      BY <1>2 DEF IInv, OptionInv, TypeOK
    <2>3. QED
      BY <2>1, <2>2 DEF KeepsOld, Old
  <1>6. TypeOK'
    BY <1>1, <1>3 DEF IInv, TypeOK
  <1>7. OptionInv'
    <2>1. ASSUME NEW q \in Opts
          PROVE  /\ Settled(q, Done(q))'
                 /\ given'[q] = before'.given[q] + local_given'[q]
                 /\ local_given'[q] = IF Old(q)' \/ Done(q)' = {} THEN 0 ELSE 1
      <3>1. /\ Settled(q, Done(q))
            /\ given[q] = before.given[q] + local_given[q]
            /\ local_given[q] = IF Old(q) \/ Done(q) = {} THEN 0 ELSE 1
        BY <1>2 DEF IInv, OptionInv
      <3>2. CASE q = o
        BY <1>1, <1>4, <1>5, <3>1, <3>2 DEF Settled
      <3>3. CASE q # o
        <4>1. Done(q)' = Done(q)
          BY <1>3, <3>3
        <4>2. Settled(q, Done(q))'
          BY <1>1, <1>4, <3>1, <4>1 DEF Settled, Invalid, Value, AsInt, strtol
        <4>3. QED
          BY <1>1, <1>4, <3>1, <4>1, <4>2
      <3>4. QED
        BY <3>2, <3>3
    <2>2. QED
      BY <1>1, <1>2, <1>3, <2>1 DEF OptionInv
  <1>8. HeapInv' /\ CallsInv'
    BY <1>1, <1>2 DEF IInv, HeapInv, CallsInv
  <1>9. FailureIsDeserved' /\ HeapBalanced'
    BY <1>1, <1>2 DEF IInv, FailureIsDeserved, HeapBalanced
  <1>10. QED
    BY <1>6, <1>7, <1>8, <1>9 DEF IInv

\* An option that takes its value.
LEMMA StepStore ==
  ASSUME IInv, NEW k \in DOMAIN argv, AtOption(k), NEW o \in Opts, argv[k].kind = o,
         ~GivenTwice(o), ~KeepsOld(o), ~Invalid(argv[k]),
         Store(argv[k]), optind' = k + 1,
         UNCHANGED <<inputs, inputs_num, local_held, call, before, pc, leaked, double_free>>
  PROVE  IInv'
  <1>1. /\ local_given' = [local_given EXCEPT ![o] = @ + 1]
        /\ given' = [given EXCEPT ![o] = @ + 1]
        /\ arg' = [arg EXCEPT ![o] = Value(argv[k])]
        /\ serial_held' = (serial_held \/ o = "serial")
        /\ orig' = orig \union {o}
        /\ UNCHANGED <<inputs, inputs_num, local_held, params, argv, calls, tidy, before,
                       pc, leaked, double_free>>
    BY DEF Store, call
  <1>2. pc = "getopt"
    BY DEF AtOption
  <1>3. /\ Done(o)' = Done(o) \union {k}
        /\ \A q \in Opts : q # o => Done(q)' = Done(q)
        /\ \A j \in DOMAIN argv' : j < optind' => argv'[j].kind \in Opts \union {"input"}
        /\ optind' \in 1 .. Len(argv') + 1
    BY <1>1, DoneAfter DEF IInv
  <1>4. \A q \in Opts : Old(q)' = Old(q)
    BY <1>1 DEF Old
  <1>5. local_given[o] = 0 /\ ~Old(o) /\ Done(o) = {}
    <2>1. local_given[o] = 0
      BY DEF GivenTwice, IInv, TypeOK
    <2>2. given[o] = before.given[o] + local_given[o] /\ before.given[o] \in Nat
      BY <1>2 DEF IInv, OptionInv, TypeOK
    <2>3. ~Old(o)
      BY <2>1, <2>2 DEF KeepsOld, Old
    <2>4. QED
      BY <1>2, <2>1, <2>3 DEF IInv, OptionInv
  <1>6. TypeOK'
    <2>1. Value(argv[k]) \in Int
      BY ValueType DEF IInv
    <2>2. arg' \in [Opts -> Int] /\ given' \in [Opts -> Nat] /\ orig' \subseteq Opts
      BY <1>1, <2>1 DEF IInv, TypeOK
    <2>3. local_given' \in [Opts -> 0..1]
      BY <1>1, <1>5 DEF IInv, TypeOK
    <2>4. serial_held' \in BOOLEAN
      BY <1>1 DEF IInv, TypeOK
    <2>5. QED
      BY <1>1, <1>3, <2>2, <2>3, <2>4 DEF IInv, TypeOK
  <1>7. OptionInv'
    <2>1. ASSUME NEW q \in Opts
          PROVE  /\ Settled(q, Done(q))'
                 /\ given'[q] = before'.given[q] + local_given'[q]
                 /\ local_given'[q] = IF Old(q)' \/ Done(q)' = {} THEN 0 ELSE 1
      <3>1. /\ Settled(q, Done(q))
            /\ given[q] = before.given[q] + local_given[q]
            /\ local_given[q] = IF Old(q) \/ Done(q) = {} THEN 0 ELSE 1
        BY <1>2 DEF IInv, OptionInv
      <3>2. CASE q = o
        <4>1. Done(o)' = {k} /\ ~Old(o)'
          BY <1>3, <1>4, <1>5
        <4>2. arg'[o] = Value(argv[k]) /\ local_given'[o] = 1 /\ given'[o] = given[o] + 1
          BY <1>1, <1>5 DEF IInv, TypeOK
        <4>3. Value(argv[k])' = Value(argv[k]) /\ Invalid(argv[k])' = Invalid(argv[k])
          BY <1>1 DEF Value, AsInt, strtol, Invalid
        <4>4. Settled(o, Done(o))'
          BY <4>1, <4>2, <4>3 DEF Settled
        <4>5. given[o] = before.given[o] /\ before' = before /\ given[o] \in Nat
          BY <1>1, <1>5, <3>1, <3>2 DEF IInv, TypeOK
        <4>6. QED
          BY <3>2, <4>1, <4>2, <4>4, <4>5
      <3>3. CASE q # o
        <4>1. Done(q)' = Done(q)
          BY <1>3, <3>3
        <4>2. arg'[q] = arg[q] /\ given'[q] = given[q] /\ local_given'[q] = local_given[q]
          BY <1>1, <3>3 DEF IInv, TypeOK
        <4>3. Settled(q, Done(q))'
          BY <1>1, <1>4, <3>1, <4>1, <4>2 DEF Settled, Invalid, Value, AsInt, strtol
        <4>4. QED
          BY <1>1, <1>4, <3>1, <4>1, <4>2, <4>3
      <3>4. QED
        BY <3>2, <3>3
    <2>2. QED
      BY <1>1, <1>2, <1>3, <2>1 DEF OptionInv
  <1>8. HeapInv' /\ CallsInv'
    BY <1>1, <1>2 DEF IInv, HeapInv, CallsInv
  <1>9. FailureIsDeserved' /\ HeapBalanced'
    BY <1>1, <1>2 DEF IInv, FailureIsDeserved, HeapBalanced
  <1>10. QED
    BY <1>6, <1>7, <1>8, <1>9 DEF IInv

\* An option given twice, in this call or across calls.
LEMMA StepTwice ==
  ASSUME IInv, NEW k \in DOMAIN argv, AtOption(k), NEW o \in Opts, argv[k].kind = o,
         GivenTwice(o), Fail, UNCHANGED arg
  PROVE  IInv'
  <1>1. pc = "getopt" /\ optind <= k /\ k \in Nat /\ k \in Uses(o) /\ optind \in Nat
    BY OptionOrder, Argv DEF IInv, TypeOK, Uses
  <1>2. Cardinality(Uses(o)) > 1 \/ (params.check_ambiguity /\ before.given[o] > 0)
    <2>1. CASE local_given[o] > 0
      <3>1. Done(o) # {}
        BY <1>1, <2>1 DEF IInv, OptionInv
      <3>2. PICK j \in DOMAIN argv : j < optind /\ argv[j].kind = o
        BY <3>1 DEF Done
      <3>3. j \in Uses(o) /\ j # k
        <4>1. j \in Nat
          BY Argv DEF IInv
        <4>2. QED
          BY <1>1, <3>2, <4>1 DEF Uses
      <3>4. QED
        BY <1>1, <3>3, TwoUses DEF IInv
    <2>2. CASE ~(local_given[o] > 0)
      <3>1. local_given[o] = 0
        BY <2>2 DEF IInv, TypeOK
      <3>2. given[o] = before.given[o] + local_given[o] /\ before.given[o] \in Nat
        BY <1>1 DEF IInv, OptionInv, TypeOK
      <3>3. QED
        BY <2>2, <3>1, <3>2 DEF GivenTwice
    <2>3. QED
      BY <2>1, <2>2
  <1>3. UNCHANGED <<params, argv, before>>
    BY DEF Fail, call
  <1>4. Uses(o)' = Uses(o)
    BY <1>3 DEF Uses
  <1>5. FailureIsDeserved'
    BY <1>1, <1>2, <1>3, <1>4 DEF FailureIsDeserved
  <1>6. QED
    BY <1>1, <1>5, StepFail DEF IInv, TypeOK

LEMMA StepUpdate ==
  ASSUME IInv, update_arg
  PROVE  IInv'
  <1>1. PICK k \in DOMAIN argv :
          /\ AtOption(k) /\ argv[k].kind \in Opts
          /\ \/ GivenTwice(argv[k].kind) /\ Fail /\ UNCHANGED arg
             \/ /\ ~GivenTwice(argv[k].kind) /\ KeepsOld(argv[k].kind)
                /\ optind' = k + 1
                /\ UNCHANGED <<struct, local, call, before, pc, leaked, double_free>>
             \/ /\ ~GivenTwice(argv[k].kind) /\ ~KeepsOld(argv[k].kind)
                /\ IF Invalid(argv[k])
                   THEN Fail /\ arg' = [arg EXCEPT ![argv[k].kind] = Value(argv[k])]
                   ELSE /\ Store(argv[k])
                        /\ optind' = k + 1
                        /\ UNCHANGED <<inputs, inputs_num, local_held, call, before, pc,
                                       leaked, double_free>>
    BY DEF update_arg
  <1>2. PICK o \in Opts : argv[k].kind = o
    BY <1>1
  <1>3. CASE GivenTwice(o)
    BY <1>1, <1>2, <1>3, StepTwice
  <1>4. CASE ~GivenTwice(o) /\ KeepsOld(o)
    BY <1>1, <1>2, <1>4, StepKeep
  <1>5. CASE ~GivenTwice(o) /\ ~KeepsOld(o) /\ Invalid(argv[k])
    <2>1. pc = "getopt" /\ Fail /\ arg' = [arg EXCEPT ![o] = Value(argv[k])]
      BY <1>1, <1>2, <1>5 DEF AtOption
    <2>2. argv' = argv
      BY <2>1 DEF Fail, call
    <2>3. FailureIsDeserved'
      BY <1>5, <2>2 DEF FailureIsDeserved, Invalid
    <2>4. arg' \in [Opts -> Int]
      <3>1. Value(argv[k]) \in Int
        BY <1>2, ValueType DEF IInv
      <3>2. QED
        BY <2>1, <3>1 DEF IInv, TypeOK
    <2>5. QED
      BY <2>1, <2>3, <2>4, StepFail
  <1>6. CASE ~GivenTwice(o) /\ ~KeepsOld(o) /\ ~Invalid(argv[k])
    BY <1>1, <1>2, <1>6, StepStore
  <1>7. QED
    BY <1>3, <1>4, <1>5, <1>6

LEMMA StepBad ==
  ASSUME IInv, BadOption
  PROVE  IInv'
  <1>1. PICK k \in DOMAIN argv : AtOption(k) /\ argv[k].kind = "bad" /\ Fail /\ UNCHANGED arg
    BY DEF BadOption
  <1>2. pc = "getopt" /\ argv' = argv
    BY <1>1 DEF AtOption, Fail, call
  <1>3. FailureIsDeserved'
    BY <1>1, <1>2 DEF FailureIsDeserved
  <1>4. QED
    BY <1>1, <1>2, <1>3, StepFail DEF IInv, TypeOK

LEMMA StepPrint ==
  ASSUME IInv, PrintAndExit
  PROVE  IInv'
  <1>1. /\ pc = "getopt" /\ pc' = "success" /\ local_held' = FALSE /\ local_given' = Zero
        /\ UNCHANGED <<arg, given, orig, serial_held, inputs, inputs_num,
                       params, argv, calls, tidy, before, optind, leaked, double_free>>
    BY DEF PrintAndExit, AtOption, ReleaseLocal, struct, call
  <1>2. TypeOK'
    <2>1. Zero \in [Opts -> 0..1]
      BY DEF Zero
    <2>2. QED
      BY <1>1, <2>1 DEF IInv, TypeOK
  <1>3. OptionInv' /\ FailureIsDeserved'
    BY <1>1 DEF OptionInv, FailureIsDeserved
  <1>4. HeapInv' /\ HeapBalanced' /\ CallsInv'
    BY <1>1 DEF IInv, HeapInv, HeapBalanced, CallsInv
  <1>5. QED
    BY <1>2, <1>3, <1>4 DEF IInv

\* When no option is left, what is done with is the whole command line.
LEMMA AllDone ==
  ASSUME TypeOK, NextOption = {}
  PROVE  /\ \A j \in DOMAIN argv : ~(j < optind) => argv[j].kind = "input"
         /\ \A o \in Opts : Done(o) = Uses(o)
  <1>1. Len(argv) \in Nat /\ DOMAIN argv = 1 .. Len(argv) /\ optind \in Nat
    BY Argv DEF TypeOK
  <1>2. ASSUME NEW j \in DOMAIN argv, ~(j < optind) PROVE argv[j].kind = "input"
    <2>1. j \in optind .. Len(argv)
      BY <1>1, <1>2
    <2>2. QED
      BY <2>1 DEF NextOption, IsOption
  <1>3. ASSUME NEW o \in Opts PROVE Done(o) = Uses(o)
    <2>1. "input" # o
      BY DEF Opts, Ints
    <2>2. QED
      BY <1>2, <2>1 DEF Done, Uses
  <1>4. QED
    BY <1>2, <1>3

\* The options are read: what was done with them is what was asked for.
LEMMA StepInputs ==
  ASSUME IInv, TakeInputs
  PROVE  IInv'
  <1>1. /\ pc = "getopt" /\ pc' = "client" /\ NextOption = {}
        /\ local_held' = FALSE /\ local_given' = Zero /\ optind' = Len(argv) + 1
        /\ UNCHANGED <<arg, given, orig, serial_held, params, argv, calls, tidy, before,
                       double_free>>
    BY DEF TakeInputs, ReleaseLocal, call
  <1>2. \/ UNCHANGED <<inputs, inputs_num, leaked>>
        \/ /\ inputs' = "held" /\ inputs_num' = Cardinality(Inputs)
           /\ leaked' = leaked + (IF inputs = "held" THEN inputs_num ELSE 0)
    BY DEF TakeInputs
  <1>3. Len(argv) \in Nat /\ DOMAIN argv = 1 .. Len(argv) /\ optind \in Nat
    BY Argv DEF IInv, TypeOK
  <1>4. Cardinality(Inputs) \in Nat
    <2>1. IsFiniteSet(1 .. Len(argv)) /\ Inputs \in SUBSET (1 .. Len(argv))
      BY <1>3, FS_Interval DEF Inputs
    <2>2. QED
      BY <2>1, FS_Subset, FS_CardinalityType
  <1>5. TypeOK'
    <2>1. Zero \in [Opts -> 0..1]
      BY DEF Zero
    <2>2. inputs' \in {"null", "held", "freed"} /\ inputs_num' \in Nat /\ leaked' \in Nat
      BY <1>2, <1>4 DEF IInv, TypeOK
    <2>3. optind' \in 1 .. Len(argv') + 1
      BY <1>1, <1>3
    <2>4. QED
      BY <1>1, <2>1, <2>2, <2>3 DEF IInv, TypeOK
  <1>6. OptionInv'
    <2>1. ASSUME NEW j \in DOMAIN argv, ~(j < optind) PROVE argv[j].kind = "input"
      BY <1>1, <2>1, AllDone DEF IInv
    <2>2. \A j \in DOMAIN argv : argv[j].kind \in Opts \union {"input"}
      BY <1>1, <2>1 DEF IInv, OptionInv
    <2>3. ASSUME NEW o \in Opts PROVE Settled(o, Uses(o))'
      <3>2. Done(o) = Uses(o)
        BY <1>1, AllDone DEF IInv
      <3>3. Settled(o, Uses(o))
        BY <1>1, <3>2 DEF IInv, OptionInv
      <3>4. Uses(o)' = Uses(o) /\ Old(o)' = Old(o)
        BY <1>1 DEF Uses, Old
      <3>5. QED
        BY <1>1, <3>3, <3>4 DEF Settled, Invalid, Value, AsInt, strtol
    <2>4. QED
      BY <1>1, <2>2, <2>3 DEF OptionInv
  <1>7. tidy => inputs = "null"
    BY <1>1 DEF IInv, HeapInv
  <1>8. HeapInv' /\ CallsInv'
    BY <1>1, <1>2, <1>7 DEF IInv, HeapInv, CallsInv
  <1>9. HeapBalanced'
    BY <1>1, <1>2, <1>7 DEF IInv, TypeOK, HeapBalanced
  <1>10. FailureIsDeserved'
    BY <1>1 DEF FailureIsDeserved
  <1>11. QED
    BY <1>5, <1>6, <1>8, <1>9, <1>10 DEF IInv

\* The caller frees its struct, which then holds nothing.
LEMMA StepFree ==
  ASSUME IInv, cmdline_parser_free
  PROVE  IInv'
  <1>1. /\ pc = "client" /\ calls > 0 /\ tidy' = (tidy /\ Holding > 0)
        /\ serial_held' = FALSE /\ orig' = {} /\ given' = Zero
        /\ inputs' = IF inputs_num > 0 THEN "freed" ELSE inputs
        /\ double_free' = (double_free \/ (inputs_num > 0 /\ inputs = "freed"))
        /\ UNCHANGED <<arg, inputs_num, leaked, local_given, local_held, params, argv, calls,
                       before, optind, pc>>
    BY DEF cmdline_parser_free, Release, local
  <1>2. TypeOK'
    <2>1. Zero \in [Opts -> Nat]
      BY DEF Zero
    <2>2. inputs' \in {"null", "held", "freed"} /\ double_free' \in BOOLEAN /\ tidy' \in BOOLEAN
      BY <1>1 DEF IInv, TypeOK
    <2>3. QED
      BY <1>1, <2>1, <2>2 DEF IInv, TypeOK
  <1>3. OptionInv'
    <2>1. ASSUME NEW o \in Opts, Settled(o, Uses(o)) PROVE Settled(o, Uses(o))'
      <3>1. Uses(o)' = Uses(o) /\ Old(o)' = Old(o)
        BY <1>1 DEF Uses, Old
      <3>2. QED
        BY <1>1, <2>1, <3>1 DEF Settled, Invalid, Value, AsInt, strtol
    <2>2. QED
      BY <1>1, <2>1 DEF IInv, OptionInv
  <1>4. Holding' = 0
    <2>1. inputs' = "held" => inputs_num' = 0
      BY <1>1 DEF IInv, TypeOK
    <2>2. QED
      BY <1>1, <2>1, FS_EmptySet DEF Holding, Count
  <1>5. HeapInv' /\ CallsInv'
    BY <1>1, <1>4 DEF IInv, HeapInv, CallsInv
  <1>6. HeapBalanced'
    <2>1. ASSUME tidy' PROVE inputs # "freed"
      <3>1. tidy /\ Holding > 0
        BY <1>1, <2>1
      <3>2. Holding # 0
        BY <3>1
      <3>3. QED
        BY <1>1, <3>1, <3>2 DEF IInv, HeapInv
    <2>2. QED
      BY <1>1, <2>1 DEF IInv, HeapBalanced
  <1>7. FailureIsDeserved'
    BY <1>1 DEF FailureIsDeserved
  <1>8. QED
    BY <1>2, <1>3, <1>5, <1>6, <1>7 DEF IInv

LEMMA StepStutter ==
  ASSUME IInv, UNCHANGED vars
  PROVE  IInv'
  <1>1. UNCHANGED <<arg, given, orig, serial_held, inputs, inputs_num, local_given, local_held,
                    params, argv, calls, tidy, before, optind, pc, leaked, double_free>>
    BY DEF vars, struct, local, call
  <1>2. TypeOK' /\ CallsInv'
    BY <1>1 DEF IInv, TypeOK, CallsInv
  <1>3. OptionInv'
    <2>1. \A o \in Opts : /\ Done(o)' = Done(o) /\ Uses(o)' = Uses(o) /\ Old(o)' = Old(o)
                          /\ Settled(o, Done(o))' = Settled(o, Done(o))
                          /\ Settled(o, Uses(o))' = Settled(o, Uses(o))
      BY <1>1 DEF Done, Uses, Old, Settled, Invalid, Value, AsInt, strtol
    <2>2. QED
      BY <1>1, <2>1 DEF IInv, OptionInv
  <1>4. HeapInv' /\ HeapBalanced'
    BY <1>1 DEF IInv, HeapInv, HeapBalanced, Lost, Holding
  <1>5. FailureIsDeserved'
    BY <1>1 DEF IInv, FailureIsDeserved, Uses
  <1>6. QED
    BY <1>2, <1>3, <1>4, <1>5 DEF IInv

LEMMA Inductive == IInv /\ [Next]_vars => IInv'
  BY StepParse, StepFree, StepInit, StepUpdate, StepBad, StepPrint, StepInputs, StepStutter
     DEF Next

----------------------------------------------------------------------------
LEMMA UsesOf ==
  ASSUME TypeOK, NEW o, NEW j, Uses(o) = {j}
  PROVE  Cardinality(Uses(o)) = 1 /\ (CHOOSE k \in Uses(o) : TRUE) = j
  BY FS_Singleton

\* The cast of strtol's result keeps it within an int.
LEMMA CastFits ==
  ASSUME NEW n \in Int
  PROVE  AsInt(n) \in -IntHalf .. IntHalf - 1
  <1>1. strtol(n) \in Int /\ IntHalf \in Nat /\ IntHalf > 0
    BY CmdlineAssumption DEF strtol
  <1>2. \A a \in Int, b \in Nat : b > 0 => a % b \in 0 .. b - 1
    OBVIOUS
  <1>3. (strtol(n) + IntHalf) % (2 * IntHalf) \in 0 .. 2 * IntHalf - 1
    BY <1>1, <1>2
  <1>4. QED
    BY <1>1, <1>3 DEF AsInt

\* Whole turns of an int leave no remainder.
LEMMA WholeTurns ==
  ASSUME NEW k \in Int, NEW b \in Nat, b > 0
  PROVE  (b * k) % b = 0
  BY SMTT(30)

LEMMA CastTurns ==
  ASSUME NEW n \in Int
  PROVE  (AsInt(n) - strtol(n)) % (2 * IntHalf) = 0
  <1> DEFINE s == strtol(n) + IntHalf
             b == 2 * IntHalf
             q == s \div b
  <1>1. s \in Int /\ b \in Nat /\ b > 0 /\ strtol(n) \in Int
    BY CmdlineAssumption DEF strtol
  <1>2. s = b * q + (s % b) /\ q \in Int /\ s % b \in Int
    <2> HIDE DEF s, b
    <2>1. \A x \in Int, y \in Nat : y > 0 => /\ x = y * (x \div y) + (x % y)
                                           /\ x \div y \in Int /\ x % y \in Int
      BY SMT
    <2>2. QED
      BY <1>1, <2>1 DEF q
  <1>3. AsInt(n) - strtol(n) = (s % b) - s
    BY <1>1, <1>2, CmdlineAssumption DEF AsInt
  <1>4. (s % b) - s = b * (-q)
    <2> HIDE DEF s, b, q
    <2>1. QED
      BY <1>1, <1>2
  <1>5. (b * (-q)) % b = 0
    <2> HIDE DEF s, b, q
    <2>1. -q \in Int
      BY <1>2
    <2>2. QED
      BY <1>1, <2>1, WholeTurns
  <1>6. QED
    BY <1>3, <1>4, <1>5

\* What the parser stores for a word is what the word reads as.
LEMMA ReadsValue ==
  ASSUME TypeOK, NEW k \in DOMAIN argv, argv[k].kind \in Opts
  PROVE  Reads(Value(argv[k]), argv[k])
  <1> DEFINE n == argv[k].n
  <1>1. n \in Int
    BY Argv DEF WordType, Opts, Ints
  <1>2. AsInt(n) \in -IntHalf .. IntHalf - 1 /\ (AsInt(n) - strtol(n)) % (2 * IntHalf) = 0
    BY <1>1, CastFits, CastTurns
  <1>3. /\ n \in -LongHalf .. LongHalf - 1 => strtol(n) = n
        /\ n >= LongHalf => strtol(n) = LongHalf - 1
        /\ n < -LongHalf => strtol(n) = -LongHalf
    BY <1>1, CmdlineAssumption DEF strtol
  <1>4. AsInt(n) \in Int /\ AsInt(n) - (-LongHalf) = AsInt(n) + LongHalf
    BY <1>2, CmdlineAssumption
  <1> HIDE DEF n
  <1>5. ASSUME argv[k].kind \in Ints PROVE Reads(AsInt(n), argv[k])
    BY <1>2, <1>3, <1>4, <1>5 DEF Reads, n
  <1>6. QED
    BY <1>5 DEF Reads, Value, n

\* The inductive invariant holds in every reachable state of the parser.
THEOREM Invariance == Spec => []IInv
  BY Initially, Inductive, PTL DEF Spec

\* Every field keeps its type, also that of a struct whose first content is
\* whatever was on the stack, and ..._given of the local struct counts to one.
THEOREM TypeCorrect == Spec => []TypeOK
  <1>1. IInv => TypeOK
    BY DEF IInv
  <1>2. QED
    BY <1>1, Invariance, PTL

\* A caller that initialises on every parse and frees once in between neither
\* loses a string nor frees one twice, and the local struct is always released.
THEOREM Balanced == Spec => []HeapBalanced
  <1>1. IInv => HeapBalanced
    BY DEF IInv
  <1>2. QED
    BY <1>1, Invariance, PTL

\* The parser gives up only over a word that is wrong, for every combination of
\* override, initialize and check_ambiguity.
THEOREM Deserved == Spec => []FailureIsDeserved
  <1>1. IInv => FailureIsDeserved
    BY DEF IInv
  <1>2. QED
    BY <1>1, Invariance, PTL

\* A parse that returns has given each option the value of its one use in this
\* call, or left it what it was before the call.
THEOREM ValuesGiven == Spec => []ValuesAreThoseGiven
  <1>1. ASSUME IInv PROVE ValuesAreThoseGiven
    <2> SUFFICES ASSUME Returned, NEW o \in Opts
                 PROVE  IF Uses(o) = {} \/ Old(o) THEN arg[o] = before.arg[o]
                        ELSE \E k \in Uses(o) : Reads(arg[o], argv[k])
      BY DEF ValuesAreThoseGiven
    <2>1. Settled(o, Uses(o))
      BY <1>1 DEF Returned, IInv, OptionInv
    <2>2. CASE Uses(o) = {} \/ Old(o)
      BY <2>1, <2>2 DEF Settled
    <2>3. CASE ~(Uses(o) = {} \/ Old(o))
      <3>1. PICK j \in Uses(o) : Uses(o) = {j} /\ arg[o] = Value(argv[j])
        BY <2>1, <2>3 DEF Settled
      <3>2. j \in DOMAIN argv /\ argv[j].kind \in Opts
        BY <3>1 DEF Uses
      <3>3. Reads(arg[o], argv[j])
        BY <1>1, <3>1, <3>2, ReadsValue DEF IInv
      <3>4. QED
        BY <2>3, <3>1, <3>3
    <2>4. QED
      BY <2>2, <2>3
  <1>2. IInv => ValuesAreThoseGiven
    BY <1>1
  <1>3. QED
    BY <1>2, Invariance, PTL

\* A parse that returns has accepted no unknown word, and no repeated option or
\* malformed number but those of an option it skipped.
THEOREM NothingBad == Spec => []NothingBadAccepted
  <1>1. ASSUME IInv PROVE NothingBadAccepted
    <2> SUFFICES ASSUME Returned PROVE NothingBadAccepted
      BY DEF NothingBadAccepted
    <2>1. /\ \A o \in Opts : Settled(o, Uses(o))
          /\ \A k \in DOMAIN argv : argv[k].kind \in Opts \union {"input"}
      BY <1>1 DEF Returned, IInv, OptionInv
    <2>2. \A k \in DOMAIN argv : argv[k].kind \notin {"bad", "help", "version"}
      BY <2>1 DEF Opts, Ints
    <2>3. ASSUME NEW o \in Opts, ~Old(o)
          PROVE  Cardinality(Uses(o)) <= 1 /\ \A k \in Uses(o) : o \in Ints => ~argv[k].tail
      <3>1. CASE Uses(o) = {}
        BY <3>1, FS_EmptySet
      <3>2. CASE Uses(o) # {}
        <4>1. PICK j \in Uses(o) : Uses(o) = {j} /\ ~Invalid(argv[j])
          BY <2>1, <2>3, <3>2 DEF Settled
        <4>2. Cardinality(Uses(o)) = 1
          BY <1>1, <4>1, UsesOf DEF IInv
        <4>3. argv[j].kind = o
          BY DEF Uses
        <4>4. \A k \in Uses(o) : o \in Ints => ~argv[k].tail
          BY <4>1, <4>3 DEF Invalid
        <4>5. QED
          BY <4>2, <4>4
      <3>3. QED
        BY <3>1, <3>2
    <2>4. QED
      BY <2>2, <2>3 DEF NothingBadAccepted
  <1>2. IInv => NothingBadAccepted
    BY <1>1
  <1>3. QED
    BY <1>2, Invariance, PTL
----------------------------------------------------------------------------
(* What midi-tapper, which parses once into a fresh struct, can rely on.   *)

\* The first parse starts from the defaults; and ..._given counts the one use
\* that took effect, until the struct is freed.
GivenInv ==
  /\ calls = 1 => IF pc = "init" THEN params.initialize
                  ELSE before.arg = Default /\ before.given = Zero
  /\ pc = "client" /\ calls > 0 /\ serial_held =>
       \A o \in Opts :
         given[o] = before.given[o] + (IF Old(o) \/ Uses(o) = {} THEN 0 ELSE 1)

LEMMA StepKeepsGiven ==
  ASSUME IInv, GivenInv, [Next]_vars
  PROVE  GivenInv'
  <1>1. CASE cmdline_parser
    <2>1. pc = "client" /\ pc' = "init" /\ calls' = calls + 1 /\ (calls = 0 => params'.initialize)
      BY <1>1 DEF cmdline_parser
    <2>2. calls \in Nat
      BY CmdlineAssumption DEF IInv, TypeOK
    <2>3. QED
      BY <2>1, <2>2 DEF GivenInv
  <1>2. CASE cmdline_parser_init
    BY <1>2 DEF cmdline_parser_init, call, GivenInv
  <1>3. CASE cmdline_parser_free
    BY <1>3 DEF cmdline_parser_free, Release, GivenInv
  <1>4. CASE TakeInputs
    <2>1. /\ pc = "getopt" /\ NextOption = {} /\ pc' = "client"
          /\ UNCHANGED <<given, params, argv, calls, before>>
      BY <1>4 DEF TakeInputs, call
    <2>2. ASSUME NEW o \in Opts
          PROVE  given[o] = before.given[o] + (IF Old(o) \/ Uses(o) = {} THEN 0 ELSE 1)
      <3>1. /\ given[o] = before.given[o] + local_given[o]
            /\ local_given[o] = IF Old(o) \/ Done(o) = {} THEN 0 ELSE 1
        BY <2>1 DEF IInv, OptionInv
      <3>2. Done(o) = Uses(o)
        BY <2>1, AllDone DEF IInv
      <3>3. QED
        BY <3>1, <3>2
    <2>3. \A o \in Opts : Uses(o)' = Uses(o) /\ Old(o)' = Old(o)
      BY <2>1 DEF Uses, Old
    <2>4. QED
      BY <2>1, <2>2, <2>3 DEF GivenInv
  <1>5. CASE update_arg \/ BadOption \/ PrintAndExit
    <2>1. pc = "getopt" /\ UNCHANGED <<calls, before>> /\ pc' # "client" /\ pc' # "init"
      <3>1. CASE update_arg
        BY <3>1 DEF update_arg, AtOption, Fail, call
      <3>2. CASE BadOption
        BY <3>2 DEF BadOption, AtOption, Fail, call
      <3>3. CASE PrintAndExit
        BY <3>3 DEF PrintAndExit, AtOption, call
      <3>4. QED
        BY <1>5, <3>1, <3>2, <3>3
    <2>2. QED
      BY <2>1 DEF GivenInv
  <1>6. CASE UNCHANGED vars
    <2>1. UNCHANGED <<serial_held, given, params, argv, calls, before, pc>>
      BY <1>6 DEF vars, struct, call
    <2>2. \A o \in Opts : Uses(o)' = Uses(o) /\ Old(o)' = Old(o)
      BY <2>1 DEF Uses, Old
    <2>3. QED
      BY <2>1, <2>2 DEF GivenInv
  <1>7. QED
    BY <1>1, <1>2, <1>3, <1>4, <1>5, <1>6 DEF Next

\* After its one parse, and until it frees the struct (which takes the string of
\* --serial away), midi-tapper finds in args_info, for each option, either the
\* default of tapper.ggo with ..._given unset, or what its only use reads as with
\* ..._given set, for a number one that fits an int: repeats_given, which main
\* asks (tapper.c 268), tells the default -1 from a -1 that was asked for
\* (cmdline.c 382-471, 541).
THEOREM FirstParse ==
  Spec => [](Returned /\ calls = 1 /\ serial_held =>
               \A o \in Opts :
                 IF Uses(o) = {} THEN given[o] = 0 /\ arg[o] = Default[o]
                 ELSE /\ given[o] = 1
                      /\ \E k \in Uses(o) : Uses(o) = {k} /\ Reads(arg[o], argv[k]))
  <1>1. Init => GivenInv
    BY DEF Init, GivenInv
  <1>2. IInv /\ GivenInv /\ [Next]_vars => GivenInv'
    BY StepKeepsGiven
  <1> DEFINE Told(o) ==
        IF Uses(o) = {} THEN given[o] = 0 /\ arg[o] = Default[o]
        ELSE /\ given[o] = 1
             /\ \E k \in Uses(o) : Uses(o) = {k} /\ Reads(arg[o], argv[k])
  <1>3. ASSUME IInv, GivenInv, Returned, calls = 1, serial_held, NEW o \in Opts
        PROVE  Told(o)
    <2>1. before.arg = Default /\ before.given[o] = 0 /\ ~Old(o)
      BY <1>3 DEF GivenInv, Returned, Zero, Old
    <2>2. given[o] = IF Uses(o) = {} THEN 0 ELSE 1
      BY <1>3, <2>1 DEF GivenInv, Returned
    <2>3. Settled(o, Uses(o))
      BY <1>3 DEF Returned, IInv, OptionInv
    <2>4. CASE Uses(o) = {}
      BY <2>1, <2>2, <2>3, <2>4 DEF Settled
    <2>5. CASE Uses(o) # {}
      <3>1. PICK k \in Uses(o) : Uses(o) = {k} /\ arg[o] = Value(argv[k])
        BY <2>1, <2>3, <2>5 DEF Settled
      <3>2. k \in DOMAIN argv /\ argv[k].kind = o
        BY DEF Uses
      <3>3. Reads(arg[o], argv[k])
        BY <1>3, <3>1, <3>2, ReadsValue DEF IInv
      <3>4. QED
        BY <2>2, <2>5, <3>1, <3>3
    <2>6. QED
      BY <2>4, <2>5
  <1>4. IInv /\ GivenInv => (Returned /\ calls = 1 /\ serial_held => \A o \in Opts : Told(o))
    BY <1>3
  <1>5. QED
    BY <1>1, <1>2, <1>4, Invariance, PTL DEF Spec
============================================================================
