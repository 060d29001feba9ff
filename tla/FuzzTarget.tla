----------------------------- MODULE FuzzTarget -----------------------------
(***************************************************************************)
(* The fuzz target: run_readings() (src/jsonfuzz_readings.cpp) on one      *)
(* input after another, and the guard that fails the run at its end when a *)
(* reading or a law starved (fuzz/fuzz_jsonfuzz.cpp).  A check_all() in it *)
(* is the whole of CheckAll, call by call, on any SUT; FrontEnds gives it  *)
(* the toy, the one the code runs it on.                                   *)
(***************************************************************************)
EXTENDS CheckAll

CONSTANTS
  FuzzInputs,    \* what libFuzzer hands over: [raw, generated], a text each
  Mutations(_),  \* the texts mutate() can make of a text, in place
  MaxInputs      \* bound: inputs of one run

\* check_all(): its routines, in order.
AllRoutines == <<"O1O2", "O3", "O4", "O5", "O6", "O7">>

\* The oracle is run on these texts, under the default ParseConfig, by check_all().
ASSUME FuzzAssumption ==
  /\ FuzzInputs # {} /\ FuzzInputs \subseteq [raw : Inputs, generated : Inputs]
  /\ \A text \in Inputs : Mutations(text) \subseteq Inputs
  /\ MaxInputs \in Nat
  /\ [strict |-> FALSE, comments |-> FALSE] \in Configs
  /\ AllRoutines \in Plans

VARIABLES
  phase,  \* where the program is
  bytes,  \* the input of this turn: FuzzInputs
  todo,   \* the texts run_readings() still has to check
  res,    \* ReadingsResult
  guard,  \* g_reach
  ran     \* history: the laws some check_all() evaluated, on any text of any input

fuzzvars == <<phase, bytes, todo, res, guard, ran>>

Reading == 1 .. 3

NoReadings ==
  [reach |-> {}, accept |-> {}, violations |-> {}, intent_mismatch |-> FALSE, evaluated |-> {}]
NoReach == [reach |-> {}, total |-> 0, accept |-> [k \in Reading |-> 0],
            evaluated |-> [L \in Law |-> 0]]

FuzzIdle ==
  /\ bytes = (CHOOSE in \in FuzzInputs : TRUE) /\ todo = << >>
  /\ res = NoReadings /\ guard = NoReach /\ ran = {}

\* check_all(), called for `text` with the default ParseConfig.
CheckAllCalled(text) ==
  /\ input' = text /\ strict' = FALSE /\ comments' = FALSE
  /\ offers' \in {o \in Offered : o.numbers => TokensSurvive(text)}
  /\ model' = NoModel /\ honest' = TRUE /\ log' = << >>
  /\ law' = Head(AllRoutines) /\ plan' = Tail(AllRoutines)
  /\ pc' = FirstStep(Head(AllRoutines))
  /\ r' = NoResult
  /\ rep' = [violations |-> {}, evaluated |-> [L \in Law |-> FALSE], reasons |-> [L \in Law |-> ""]]
  /\ canonical' = NoText /\ ptrs' = << >> /\ resolved' = << >>
  /\ parents' = << >> /\ i' = 0 /\ count' = 0 /\ modes' = << >>

Evaluated == {L \in Law : rep.evaluated[L]}

\* Mutant: the laws of the last text are the input's.
CheckedLast == [res EXCEPT !.violations = @ \cup rep.violations, !.evaluated = Evaluated]

\* check_text(), after check_all().
Checked == [res EXCEPT !.violations = @ \cup rep.violations, !.evaluated = @ \cup Evaluated]

\* The primary texts of readings 1 and 2.
Primary(k) == IF k = 1 THEN bytes.generated ELSE bytes.raw

TextParses(text) == Ref[text] # NoValue

\* Mutant: reading 3 looks at the input instead of the generated text.
MismatchRaw == ~TextParses(bytes.raw)

\* intent_matches_text().  That the record agrees with the count of a text that parses is
\* IntentAgrees of IntentReading.
Mismatch == ~TextParses(bytes.generated)

\* What run_readings() adds when the last text is checked: which of the primary texts another
\* fresh SUT accepted (toy_accepts()), and whether the generated one parses.
Finished(accepted) ==
  [Checked EXCEPT
    !.reach = Reading,
    !.accept = accepted \cup (IF TextParses(bytes.generated) THEN {3} ELSE {}),
    !.intent_mismatch = Mismatch]

-----------------------------------------------------------------------------
\* LLVMFuzzerTestOneInput(), run_readings(): the generated text first.
TestOneInput(in) ==
  /\ phase = "idle" /\ guard.total < MaxInputs
  /\ phase' = "reading" /\ bytes' = in /\ res' = NoReadings
  /\ \E first \in Mutations(in.generated), second \in Mutations(in.raw) :
       todo' = <<first, in.raw, second>>
  /\ CheckAllCalled(in.generated)
  /\ UNCHANGED <<guard, ran>>

\* Mutant: the text is not taken off.
NextTextAgain ==
  /\ phase = "reading" /\ law = "done" /\ todo # << >>
  /\ res' = Checked /\ ran' = ran \cup Evaluated
  /\ CheckAllCalled(Head(todo))
  /\ UNCHANGED <<phase, bytes, todo, guard>>

\* check_text() of the next text, on a fresh SUT.
NextText ==
  /\ phase = "reading" /\ law = "done" /\ todo # << >>
  /\ res' = Checked /\ ran' = ran \cup Evaluated
  /\ todo' = Tail(todo)
  /\ CheckAllCalled(Head(todo))
  /\ UNCHANGED <<phase, bytes, guard>>

Found(result) == result.violations # {} \/ result.intent_mismatch

\* The counts are taken first, then a finding traps.
Counted(accepted) ==
  /\ phase = "reading" /\ law = "done" /\ todo = << >>
  /\ res' = Finished(accepted) /\ ran' = ran \cup Evaluated
  /\ guard' = [reach |-> guard.reach \cup res'.reach,
               total |-> guard.total + 1,
               accept |-> [k \in Reading |-> guard.accept[k] + IF k \in res'.accept THEN 1 ELSE 0],
               evaluated |-> [L \in Law |->
                                guard.evaluated[L] + IF L \in res'.evaluated THEN 1 ELSE 0]]
  /\ phase' = IF Found(res') THEN "trapped" ELSE "idle"
  /\ UNCHANGED <<vars, bytes, todo>>

\* ~ReachGuard(), with JSONFUZZ_REQUIRE_REACH.
Starved == guard.reach # Reading \/ \E L \in Law : guard.evaluated[L] = 0
AtExit ==
  /\ phase = "idle"
  /\ phase' = IF Starved THEN "starved" ELSE "passed"
  /\ UNCHANGED <<vars, bytes, todo, res, guard, ran>>

FuzzCheck == phase = "reading" /\ Next /\ UNCHANGED fuzzvars

FuzzNext ==
  \/ \E in \in FuzzInputs : TestOneInput(in)
  \/ FuzzCheck
  \/ NextText
  \/ \E accepted \in SUBSET {1, 2} : Counted(accepted)
  \/ AtExit

FuzzInit == Init /\ FuzzIdle /\ phase = "idle"

FuzzSpec == FuzzInit /\ [][FuzzNext]_<<vars, fuzzvars>>

-----------------------------------------------------------------------------
(* "A finding here is a bug in the generator, the mutators, the oracles, or  *)
(* the toy itself" (fuzz_jsonfuzz.cpp:8-9): with these four as they are, no  *)
(* input traps, whatever was made of it.                                     *)
NeverTraps == phase # "trapped"

(* "An accepted parse means both O1 and O2 were evaluated" (readings.hpp:    *)
(* 38-40): the fresh toy that says accepted is another one than those the    *)
(* laws ran on.                                                              *)
AcceptedIsEvaluated ==
  res.reach = Reading /\ res.accept \cap {1, 2} # {} => {"O1", "O2"} \subseteq res.evaluated

(* "JSONFUZZ_REQUIRE_REACH also fails the run when a law was never           *)
(* evaluated" (fuzz_jsonfuzz.cpp:19-21), and only then: a law counts when    *)
(* any of the four texts of any input reached it.                            *)
GuardCountsLaws == (phase = "passed" => ran = Law) /\ (phase = "starved" => ran # Law)
=============================================================================
