-------------------------- MODULE FrontEnds_proofs --------------------------
(***************************************************************************)
(* The two programs that call the oracle, on any SUT.                      *)
(*                                                                         *)
(* The fuzz target, for any inputs and mutations, any number of them: what *)
(* its exit status means, and what its counts mean.  Every check_all() it  *)
(* makes starts as CheckAll does, so what is proved of one oracle call     *)
(* holds of each of them (CallsKeep).                                      *)
(*                                                                         *)
(* The command line, for every command line, every file, every registry    *)
(* and every SUT in it: what the exit status says.  parse_options() takes  *)
(* a line pair by pair; what it makes of it is read off the whole line at  *)
(* once (OptionsAre), by induction on the pairs.  The check under way is   *)
(* one of CheckAll's, so that what is proved of an oracle call holds of it *)
(* (CliCallsKeep).                                                         *)
(***************************************************************************)
EXTENDS Cli, NoFalseAlarm_proofs, WellFoundedInduction

Readings ==
  [reach : SUBSET Reading, accept : SUBSET Reading, violations : SUBSET Violation,
   intent_mismatch : BOOLEAN, evaluated : SUBSET Law]
Reach ==
  [reach : SUBSET Reading, total : Nat, accept : [Reading -> Nat], evaluated : [Law -> Nat]]

FuzzTypeOK ==
  /\ phase \in {"idle", "reading", "passed", "starved", "trapped"}
  /\ bytes \in FuzzInputs /\ todo \in Seq(Inputs)
  /\ res \in Readings /\ guard \in Reach /\ ran \subseteq Law

(* What is proved of an oracle call, and holds of every one of a campaign.   *)
CallInv == TypeInv /\ SkipInv /\ AlarmInv

-----------------------------------------------------------------------------
(* check_all() is called in an initial state of CheckAll.                    *)
LEMMA CallStarts ==
  ASSUME NEW text \in Inputs, CheckAllCalled(text)
  PROVE  Init'
<1>1. SutInit'
  <2>1. \E c \in Configs : strict' = c.strict /\ comments' = c.comments
    <3>1. strict' = FALSE /\ comments' = FALSE
      BY DEF CheckAllCalled
    <3> QED
      BY <3>1, FuzzAssumption
  <2>2. offers' \in {o \in Offered : o.numbers => TokensSurvive(input')}
    BY DEF CheckAllCalled
  <2> QED
    BY <2>1, <2>2 DEF SutInit, CheckAllCalled, TokensSurvive
<1>2. OracleInit'
  BY FuzzAssumption DEF OracleInit, NoLocals, CheckAllCalled
<1> QED
  BY <1>1, <1>2 DEF Init

(* An initial state of CheckAll has what is proved of one.                   *)
LEMMA CallInit == Init => CallInv
BY TypeInit, SkipInit, AlarmInit DEF CallInv

(* The texts the fuzz target checks are ones the oracle is run on.           *)
LEMMA TextsAreInputs ==
  /\ \A in \in FuzzInputs : in.raw \in Inputs /\ in.generated \in Inputs
  /\ \A text \in Inputs : Mutations(text) \subseteq Inputs
BY FuzzAssumption

(* A step of the campaign is a step of the check under way, or starts a new  *)
(* one.                                                                      *)
LEMMA CampaignSteps ==
  ASSUME FuzzTypeOK, [FuzzNext]_<<vars, fuzzvars>>
  PROVE  [Next]_vars \/ Init'
<1>1. ASSUME NEW in \in FuzzInputs, TestOneInput(in) PROVE Init'
  BY <1>1, TextsAreInputs, CallStarts DEF TestOneInput
<1>2. CASE FuzzCheck
  BY <1>2 DEF FuzzCheck
<1>3. CASE NextText
  <2>1. Head(todo) \in Inputs
    BY <1>3 DEF NextText, FuzzTypeOK
  <2> QED
    BY <1>3, <2>1, CallStarts DEF NextText
<1>4. ASSUME NEW accepted, Counted(accepted) PROVE UNCHANGED vars
  BY <1>4 DEF Counted
<1>5. CASE AtExit
  BY <1>5 DEF AtExit
<1> QED
  BY <1>1, <1>2, <1>3, <1>4, <1>5 DEF FuzzNext

(* So what is proved of one oracle call is kept through a campaign.          *)
LEMMA CallsKeep ==
  FuzzTypeOK /\ CallInv /\ [FuzzNext]_<<vars, fuzzvars>> => CallInv'
<1>1. CallInv /\ [Next]_vars => CallInv'
  BY TypeStep, SkipStep, AlarmStep DEF CallInv
<1>2. Init' => CallInv'
  BY CallInit, PTL
<1> QED
  BY <1>1, <1>2, CampaignSteps

-----------------------------------------------------------------------------
(* What one check_all() evaluated and found are laws and violations.         *)
LEMMA ReportedType ==
  ASSUME TypeInv
  PROVE  Evaluated \subseteq Law /\ rep.violations \subseteq Violation
BY DEF Evaluated, TypeInv, TypeOK, Report

(* check_text() keeps the result of an input well typed, and adds to it.     *)
LEMMA CheckedType ==
  ASSUME TypeInv, res \in Readings
  PROVE  /\ Checked \in Readings
         /\ Checked.evaluated = res.evaluated \cup Evaluated
         /\ Checked.violations = res.violations \cup rep.violations
         /\ Checked.reach = res.reach /\ Checked.intent_mismatch = res.intent_mismatch
BY ReportedType DEF Checked, Readings

\* What the readings that are taken last fill in.
Filled(c, s, b) == [c EXCEPT !.reach = Reading, !.accept = s, !.intent_mismatch = b]

(* It leaves the findings and the laws of an input alone.                    *)
LEMMA FilledIn ==
  ASSUME NEW c \in Readings, NEW s \in SUBSET Reading, NEW b \in BOOLEAN, NEW f,
         f = Filled(c, s, b)
  PROVE  /\ f \in Readings
         /\ f.evaluated = c.evaluated /\ f.violations = c.violations
         /\ f.reach = Reading /\ f.accept = s
         /\ f.intent_mismatch = b
<1>1. f = [reach |-> Reading, accept |-> s, violations |-> c.violations,
           intent_mismatch |-> b, evaluated |-> c.evaluated]
  BY DEF Readings, Filled
<1>2. c.violations \in SUBSET Violation /\ c.evaluated \in SUBSET Law
  BY DEF Readings
<1> QED
  BY <1>1, <1>2 DEF Readings

(* So do the readings that are taken last.                                   *)
LEMMA FinishedType ==
  ASSUME TypeInv, res \in Readings, NEW accepted \in SUBSET {1, 2}
  PROVE  /\ Finished(accepted) \in Readings
         /\ Finished(accepted).evaluated = res.evaluated \cup Evaluated
         /\ Finished(accepted).violations = res.violations \cup rep.violations
         /\ Finished(accepted).reach = Reading
         /\ Finished(accepted).intent_mismatch <=> ~TextParses(bytes.generated)
         /\ Finished(accepted).accept \cap {1, 2} = accepted
<1>1. PICK third \in SUBSET {3} : third = IF TextParses(bytes.generated) THEN {3} ELSE {}
  OBVIOUS
<1>2. PICK bad \in BOOLEAN : bad = ~TextParses(bytes.generated)
  BY DEF TextParses
<1>3. Finished(accepted) =
        [Checked EXCEPT !.reach = Reading, !.accept = accepted \cup third,
                        !.intent_mismatch = bad]
  BY <1>1, <1>2 DEF Finished, Mismatch
<1>4. PICK s : s = accepted \cup third
  OBVIOUS
<1>5. s \in SUBSET Reading
  BY <1>4 DEF Reading
<1>6. s \cap {1, 2} = accepted
  <2>1. 3 # 1 /\ 3 # 2
    OBVIOUS
  <2> QED
    BY <1>4, <2>1, Zenon
<1>7. PICK c : c = Checked
  OBVIOUS
<1>8. PICK f : f = Finished(accepted)
  OBVIOUS
<1>9. /\ f \in Readings
      /\ f.evaluated = c.evaluated /\ f.violations = c.violations
      /\ f.reach = Reading /\ f.accept = s
      /\ f.intent_mismatch = bad
  <2>1. c \in Readings
    BY <1>7, CheckedType
  <2>2. f = Filled(c, s, bad)
    BY <1>3, <1>4, <1>7, <1>8 DEF Filled
  <2> QED
    BY <1>5, <2>1, <2>2, FilledIn
<1> QED
  BY <1>2, <1>6, <1>7, <1>8, <1>9, CheckedType

(* The campaign's own state is well typed: what it still has to check are    *)
(* inputs of the oracle, and the counts are numbers.                         *)
LEMMA FuzzTypeInit == FuzzInit => FuzzTypeOK
<1> SUFFICES ASSUME FuzzInit PROVE FuzzTypeOK
  OBVIOUS
<1>1. bytes \in FuzzInputs
  BY FuzzAssumption DEF FuzzInit, FuzzIdle
<1>2. res \in Readings /\ guard \in Reach
  BY DEF FuzzInit, FuzzIdle, NoReadings, NoReach, Readings, Reach
<1> QED
  BY <1>1, <1>2 DEF FuzzInit, FuzzIdle, FuzzTypeOK

(* Every step of a campaign keeps its types.                                 *)
LEMMA FuzzTypeStep ==
  FuzzTypeOK /\ TypeInv /\ [FuzzNext]_<<vars, fuzzvars>> => FuzzTypeOK'
<1> SUFFICES ASSUME FuzzTypeOK, TypeInv, [FuzzNext]_<<vars, fuzzvars>> PROVE FuzzTypeOK'
  OBVIOUS
<1>1. ASSUME NEW in \in FuzzInputs, TestOneInput(in) PROVE FuzzTypeOK'
  <2>1. /\ phase' = "reading" /\ bytes' = in /\ res' = NoReadings
        /\ UNCHANGED <<guard, ran>>
    BY <1>1 DEF TestOneInput
  <2>2. PICK first \in Mutations(in.generated), second \in Mutations(in.raw) :
          todo' = <<first, in.raw, second>>
    BY <1>1 DEF TestOneInput
  <2>3. todo' \in Seq(Inputs)
    BY <2>2, TextsAreInputs
  <2>4. res' \in Readings
    BY <2>1 DEF NoReadings, Readings
  <2> QED
    BY <2>1, <2>3, <2>4 DEF FuzzTypeOK
<1>2. CASE NextText
  <2>1. phase' = phase /\ bytes' = bytes /\ guard' = guard
    BY <1>2 DEF NextText
  <2>2. todo' \in Seq(Inputs)
    BY <1>2 DEF NextText, FuzzTypeOK
  <2>3. res' \in Readings
    BY <1>2, CheckedType DEF NextText, FuzzTypeOK
  <2>4. ran' \subseteq Law
    BY <1>2, ReportedType DEF NextText, FuzzTypeOK
  <2> QED
    BY <2>1, <2>2, <2>3, <2>4 DEF FuzzTypeOK
<1>3. ASSUME NEW accepted \in SUBSET {1, 2}, Counted(accepted) PROVE FuzzTypeOK'
  <2>1. res' \in Readings
    BY <1>3, FinishedType DEF Counted, FuzzTypeOK
  <2>2. guard' \in Reach
    BY <1>3, <2>1 DEF Counted, FuzzTypeOK, Reach, Readings
  <2>3. ran' \subseteq Law
    BY <1>3, ReportedType DEF Counted, FuzzTypeOK
  <2> QED
    BY <1>3, <2>1, <2>2, <2>3 DEF Counted, FuzzTypeOK
<1>4. FuzzCheck \/ UNCHANGED <<vars, fuzzvars>> => FuzzTypeOK'
  BY DEF FuzzCheck, fuzzvars, FuzzTypeOK
<1>5. CASE AtExit
  BY <1>5 DEF AtExit, FuzzTypeOK
<1> QED
  BY <1>1, <1>2, <1>3, <1>4, <1>5 DEF FuzzNext

-----------------------------------------------------------------------------
CountedLaws == {L \in Law : guard.evaluated[L] > 0}

(* The guard's counts and the laws that ran are two accounts of the same     *)
(* thing, except in the middle of an input, whose laws are counted at its    *)
(* end; and nothing is counted before the readings of some input were.       *)
GuardInv ==
  /\ phase = "reading" => ran = CountedLaws \cup res.evaluated
  /\ phase # "reading" => ran = CountedLaws
  /\ guard.reach = (IF guard.total = 0 THEN {} ELSE Reading)
  /\ guard.total = 0 => CountedLaws = {}
  /\ phase = "passed" => ~Starved
  /\ phase = "starved" => Starved

(* A campaign starts with nothing counted and nothing run.                   *)
LEMMA GuardInit == FuzzInit => GuardInv
<1> SUFFICES ASSUME FuzzInit PROVE GuardInv
  OBVIOUS
<1>1. /\ ran = {} /\ guard.reach = {} /\ guard.total = 0 /\ phase = "idle"
      /\ \A L \in Law : guard.evaluated[L] = 0
  BY DEF FuzzInit, FuzzIdle, NoReach
<1>2. CountedLaws = {}
  BY <1>1 DEF CountedLaws
<1> QED
  BY <1>1, <1>2 DEF GuardInv

(* At the end of an input, the laws counted are the ones that ran by then:   *)
(* those of its last text are counted and noted at once.                     *)
LEMMA CountedKeeps ==
  ASSUME FuzzTypeOK, TypeInv, GuardInv, NEW accepted \in SUBSET {1, 2}, Counted(accepted)
  PROVE  GuardInv'
<1>1. /\ phase = "reading" /\ phase' \in {"trapped", "idle"}
      /\ guard'.total = guard.total + 1 /\ guard'.reach = guard.reach \cup res'.reach
      /\ guard'.evaluated = [L \in Law |-> guard.evaluated[L]
                                            + IF L \in res'.evaluated THEN 1 ELSE 0]
      /\ ran' = ran \cup Evaluated
  BY DEF Counted
<1>2. /\ res'.reach = Reading
      /\ res'.evaluated = res.evaluated \cup Evaluated
      /\ res'.evaluated \subseteq Law
  BY FinishedType DEF Counted, FuzzTypeOK, Readings
<1>3. guard.total \in Nat /\ \A L \in Law : guard.evaluated[L] \in Nat
  BY DEF FuzzTypeOK, Reach
<1>4. CountedLaws' = CountedLaws \cup res'.evaluated
  <2>1. \A L \in Law : guard'.evaluated[L] > 0
                         <=> guard.evaluated[L] > 0 \/ L \in res'.evaluated
    BY <1>1, <1>3
  <2> QED
    BY <1>2, <2>1 DEF CountedLaws
<1>5. ran' = CountedLaws'
  BY <1>1, <1>2, <1>4 DEF GuardInv
<1>6. guard'.total # 0 /\ guard'.reach = Reading
  BY <1>1, <1>2, <1>3 DEF GuardInv
<1> QED
  BY <1>1, <1>5, <1>6 DEF GuardInv

(* Every step of a campaign keeps the two accounts equal.                    *)
LEMMA GuardStep ==
  FuzzTypeOK /\ TypeInv /\ GuardInv /\ [FuzzNext]_<<vars, fuzzvars>> => GuardInv'
<1> SUFFICES ASSUME FuzzTypeOK, TypeInv, GuardInv, [FuzzNext]_<<vars, fuzzvars>>
             PROVE  GuardInv'
  OBVIOUS
<1>1. ASSUME NEW in \in FuzzInputs, TestOneInput(in) PROVE GuardInv'
  <2>1. /\ phase = "idle" /\ phase' = "reading" /\ UNCHANGED <<guard, ran>>
        /\ res'.evaluated = {}
    BY <1>1 DEF TestOneInput, NoReadings
  <2> QED
    BY <2>1 DEF GuardInv, CountedLaws
<1>2. CASE NextText
  <2>1. /\ phase = "reading" /\ UNCHANGED <<phase, guard>>
        /\ res'.evaluated = res.evaluated \cup Evaluated /\ ran' = ran \cup Evaluated
    BY <1>2, CheckedType DEF NextText, FuzzTypeOK
  <2> QED
    BY <2>1 DEF GuardInv, CountedLaws
<1>3. ASSUME NEW accepted \in SUBSET {1, 2}, Counted(accepted) PROVE GuardInv'
  BY <1>3, CountedKeeps
<1>4. CASE FuzzCheck \/ UNCHANGED <<vars, fuzzvars>>
  BY <1>4 DEF FuzzCheck, fuzzvars, GuardInv, CountedLaws, Starved
<1>5. CASE AtExit
  <2>1. /\ phase = "idle" /\ UNCHANGED <<guard, ran, res>>
        /\ phase' = IF Starved THEN "starved" ELSE "passed"
    BY <1>5 DEF AtExit
  <2>2. Starved' <=> Starved
    BY <2>1 DEF Starved
  <2> QED
    BY <2>1, <2>2 DEF GuardInv, CountedLaws
<1> QED
  BY <1>1, <1>2, <1>3, <1>4, <1>5 DEF FuzzNext

(* With the two accounts equal, starving is a law that never ran: a reading  *)
(* is missed only by a campaign of no input, in which no law ran either.     *)
LEMMA StarvedIsUnrun == FuzzTypeOK /\ GuardInv => GuardCountsLaws
<1> SUFFICES ASSUME FuzzTypeOK, GuardInv PROVE GuardCountsLaws
  OBVIOUS
<1>1. \A L \in Law : guard.evaluated[L] \in Nat
  BY DEF FuzzTypeOK, Reach
<1>2. ~Starved => CountedLaws = Law
  BY <1>1 DEF Starved, CountedLaws
<1>3. "O1" \in Law /\ 1 \in Reading
  BY DEF Law, Reading
<1>4. Starved => CountedLaws # Law
  BY <1>1, <1>3 DEF Starved, CountedLaws, GuardInv
<1> QED
  BY <1>2, <1>4 DEF GuardInv, GuardCountsLaws

(* The guard at exit passes only a campaign in which every law ran on some   *)
(* text of some input, and fails only one in which some law never did, for   *)
(* any SUT, inputs, mutations and number of them: no law of one of the four  *)
(* texts is lost on its way to the counts, or counted for nothing.           *)
THEOREM ExitMeansEveryLawRan == FuzzSpec => []GuardCountsLaws
<1>1. FuzzInit => FuzzTypeOK /\ CallInv /\ GuardInv
  BY FuzzTypeInit, CallInit, GuardInit DEF FuzzInit
<1>2. CallInv => TypeInv
  BY DEF CallInv
<1>3. (FuzzTypeOK /\ CallInv /\ GuardInv) /\ [FuzzNext]_<<vars, fuzzvars>>
        => (FuzzTypeOK /\ CallInv /\ GuardInv)'
  BY <1>2, FuzzTypeStep, CallsKeep, GuardStep
<1>4. FuzzTypeOK /\ CallInv /\ GuardInv => GuardCountsLaws
  BY StarvedIsUnrun
<1> QED
  BY <1>1, <1>3, <1>4, PTL DEF FuzzSpec

-----------------------------------------------------------------------------
(* No oracle call of a campaign blames an honest SUT, and no report of one   *)
(* says of a law both that it ran and why it did not: the fuzz target calls  *)
(* check_all() again and again, with a state that is each time as new.       *)
THEOREM EveryCallKeepsItsWord == FuzzSpec => [](NoFalseAlarm /\ SkippedIsNotEvaluated)
<1>1. FuzzInit => FuzzTypeOK /\ CallInv
  BY FuzzTypeInit, CallInit DEF FuzzInit
<1>2. CallInv => TypeInv /\ NoFalseAlarm /\ SkippedIsNotEvaluated
  BY DEF CallInv, AlarmInv, Clean, NoFalseAlarm, SkipInv
<1>3. (FuzzTypeOK /\ CallInv) /\ [FuzzNext]_<<vars, fuzzvars>> => (FuzzTypeOK /\ CallInv)'
  BY <1>2, FuzzTypeStep, CallsKeep
<1> QED
  BY <1>1, <1>2, <1>3, PTL DEF FuzzSpec

-----------------------------------------------------------------------------
\* A campaign on SUTs that keep the contract, of inputs whose generated text parses.
HonestSuts == honest /\ WritePathWhole
GeneratedParse == \A in \in FuzzInputs : TextParses(in.generated)

\* Nothing was found in the texts of the input checked so far.
CleanInput == phase # "trapped" /\ res.violations = {} /\ ~res.intent_mismatch

(* A campaign starts with nothing found.                                     *)
LEMMA CleanInit == FuzzInit => CleanInput
BY DEF FuzzInit, FuzzIdle, NoReadings, CleanInput

(* Each text of an input adds what its check found, which is nothing, and    *)
(* the last one adds a mismatch, which there is none of.                     *)
LEMMA CleanStep ==
  ASSUME FuzzTypeOK, TypeInv, AlarmInv, CleanInput, HonestSuts, GeneratedParse,
         [FuzzNext]_<<vars, fuzzvars>>
  PROVE  CleanInput'
<1>1. rep.violations = {}
  BY DEF AlarmInv, HonestSuts, Clean
<1>2. ASSUME NEW in \in FuzzInputs, TestOneInput(in) PROVE CleanInput'
  BY <1>2 DEF TestOneInput, NoReadings, CleanInput
<1>3. CASE NextText
  BY <1>1, <1>3, CheckedType DEF NextText, FuzzTypeOK, CleanInput
<1>4. ASSUME NEW accepted \in SUBSET {1, 2}, Counted(accepted) PROVE CleanInput'
  <2>1. TextParses(bytes.generated)
    BY DEF FuzzTypeOK, GeneratedParse
  <2>2. res'.violations = {} /\ ~res'.intent_mismatch
    BY <1>1, <1>4, <2>1, FinishedType DEF Counted, FuzzTypeOK, CleanInput
  <2> QED
    BY <1>4, <2>2 DEF Counted, Found, CleanInput
<1>5. CASE FuzzCheck \/ UNCHANGED <<vars, fuzzvars>>
  BY <1>5 DEF FuzzCheck, fuzzvars, CleanInput
<1>6. CASE AtExit
  BY <1>6 DEF AtExit, CleanInput
<1> QED
  BY <1>2, <1>3, <1>4, <1>5, <1>6 DEF FuzzNext

(* The campaign never traps on SUTs that keep the contract, whatever the     *)
(* bytes and the mutations, as long as the generator writes texts the        *)
(* reference parses: a trap is a bug of one of the four, never of the input. *)
THEOREM HonestNeverTraps ==
  GeneratedParse /\ FuzzSpec /\ []HonestSuts => []NeverTraps
<1> SUFFICES ASSUME GeneratedParse PROVE FuzzSpec /\ []HonestSuts => []NeverTraps
  OBVIOUS
<1>1. FuzzInit => FuzzTypeOK /\ CallInv /\ CleanInput
  BY FuzzTypeInit, CallInit, CleanInit DEF FuzzInit
<1>2. CallInv => TypeInv /\ AlarmInv
  BY DEF CallInv
<1>3. (FuzzTypeOK /\ CallInv /\ CleanInput) /\ HonestSuts /\ [FuzzNext]_<<vars, fuzzvars>>
        => (FuzzTypeOK /\ CallInv /\ CleanInput)'
  BY <1>2, FuzzTypeStep, CallsKeep, CleanStep
<1>4. CleanInput => NeverTraps
  BY DEF CleanInput, NeverTraps
<1> QED
  BY <1>1, <1>3, <1>4, PTL DEF FuzzSpec

-----------------------------------------------------------------------------
Pair == {"O1", "O2"}
AcceptedText(text) == Reads[text] # NoValue /\ text \notin Commented

\* The SUT toy_accepts() asks is honest too, and parses as check_text() does.
FreshSutHonest ==
  res.reach = Reading => res.accept \cap {1, 2} = {k \in {1, 2} : AcceptedText(Primary(k))}

(* Once check_v01() has parsed an accepted text, on an honest SUT, its       *)
(* result says evaluated, and once it has returned, the report says so of    *)
(* both its laws.                                                            *)
PairRuns ==
  /\ ~strict /\ ~comments
  /\ AcceptedText(input) =>
       IF law = "O1O2" THEN pc = "parse" \/ r.evaluated
       ELSE rep.evaluated["O1"] /\ rep.evaluated["O2"]

\* The primary text of a reading that was checked was evaluated, if it is accepted.
Ran(text) == AcceptedText(text) => Pair \subseteq res.evaluated

(* Which of the four texts is being checked shows in how many are left: the  *)
(* generated one, its mutation, the raw one, its mutation.                   *)
TextsInOrder ==
  phase = "reading" =>
    /\ Len(todo) \in 0 .. 3 /\ res.reach = {}
    /\ Len(todo) = 3 => input = bytes.generated /\ todo[2] = bytes.raw
    /\ Len(todo) = 2 => todo[1] = bytes.raw
    /\ Len(todo) = 1 => input = bytes.raw
    /\ Len(todo) < 3 => Ran(bytes.generated)
    /\ Len(todo) < 1 => Ran(bytes.raw)

PairInv == (phase = "reading" => PairRuns) /\ TextsInOrder /\ AcceptedIsEvaluated

(* check_v01() leaves the parse with `accepted` set, and no later step of    *)
(* it takes that back.                                                       *)
LEMMA V01Runs ==
  ASSUME TypeInv, V01Next, honest', ~strict, ~comments, AcceptedText(input),
         pc = "parse" \/ r.evaluated
  PROVE  r'.evaluated
<1>a. r \in Result
  BY DEF TypeInv, TypeOK
<1>1. ASSUME NEW ans \in ParseAnswers, V01Parse(ans) PROVE r'.evaluated
  <2>1. ParseCall(input, strict, ans) /\ Accepts(input, strict)
    BY <1>1 DEF V01Parse, Accepts, AcceptedText
  <2>2. ans = "accepted"
    <3>1. PICK t : t = input
      OBVIOUS
    <3>2. PICK st : st = strict
      OBVIOUS
    <3> QED
      BY <2>1, <3>1, <3>2 DEF ParseCall, Answered
  <2> QED
    BY <1>1, <1>a, <2>2 DEF V01Parse, Result
<1>2. pc # "parse" => r.evaluated
  OBVIOUS
<1>3. ASSUME NEW ans, V01Reparse(ans) PROVE r'.evaluated
  BY <1>3, <1>2, <1>a, BlameAdds DEF V01Reparse, Step
<1>4. ASSUME NEW ans, V01GetReparse(ans) PROVE r'.evaluated
  BY <1>4, <1>2, <1>a, BlameAdds DEF V01GetReparse, Step
<1>5. ASSUME NEW ans, V01Serialize(ans) PROVE r'.evaluated
  BY <1>5, <1>2, <1>a, BlameAdds DEF V01Serialize, Step, Return
<1>6. ASSUME NEW ans, V01Again(ans) PROVE r'.evaluated
  BY <1>6, <1>2, <1>a, BlameAdds DEF V01Again, Step
<1>7. ASSUME NEW ans, V01Pointers(ans) PROVE r'.evaluated
  BY <1>7, <1>2, <1>a, BlameAdds DEF V01Pointers, Step, Return
<1>8. ASSUME NEW ans, V01Get(ans) PROVE r'.evaluated
  BY <1>8, <1>2, <1>a, BlameAdds DEF V01Get, Step
<1>9. CASE V01PhaseB \/ V01Done
  BY <1>9, <1>2 DEF V01PhaseB, V01Done, Step, Return
<1> QED
  BY <1>1, <1>3, <1>4, <1>5, <1>6, <1>7, <1>8, <1>9 DEF V01Next

(* The steps of a routine are taken while it runs.                           *)
LEMMA RoutinesTakeTurns ==
  /\ V01Next => law = "O1O2"
  /\ O3Next => law = "O3"
  /\ O4Next => law = "O4"
  /\ O5Next => law = "O5"
  /\ O6Next => law = "O6"
  /\ O7Next => law = "O7"
<1>0. V01Next => law = "O1O2"
  BY DEF V01Next, V01Parse, V01Serialize, V01Reparse, V01Again, V01Pointers, V01Get, V01PhaseB,
         V01GetReparse, V01Done, Step
<1>1. O3Next => law = "O3"
  BY DEF O3Next, O3Parse, O3Serialize, O3Pointers, O3PassOver, O3Unresolved, O3Get, O3Done,
         AcceptedInput, Enumerated, NextPointer, Step
<1>2. O4Next => law = "O4"
  BY DEF O4Next, O4Parse, O4Restore, O4Serialize, O4After, O4Reserialize, O4Pointers, O4Get,
         O4Set, O4Remove, O4Choose, O4Chosen, O4Done, AcceptedInput, Enumerated, Step
<1>3. O5Next => law = "O5"
  BY DEF O5Next, O5Count, O5Parse, O5Serialize, O5Capture, O5Captured, O5Reparse, O5Same,
         O5Twice, O5Done, AcceptedInput, Step
<1>4. O6Next => law = "O6"
  BY DEF O6Next, O6Declared, O6Parse, O6Serialize, O6Reparse, O6Again, AcceptedInput, Step
<1>5. O7Next => law = "O7"
  BY DEF O7Next, O7Strict, O7StrictText, O7Lazy, O7LazyText, AcceptedInput, Step
<1> QED
  BY <1>0, <1>1, <1>2, <1>3, <1>4, <1>5

(* Only check_v01() writes the result of O1 and O2, and nobody else's entry  *)
(* of the report is theirs.                                                  *)
LEMMA PairKept ==
  ASSUME TypeInv, SkipInv, Next, PairRuns, honest'
  PROVE  PairRuns'
<1>1. UNCHANGED <<input, strict, comments>>
  BY RoutineJudged DEF Judged, Within, Add, given
<1> SUFFICES ASSUME AcceptedText(input)
             PROVE  IF law' = "O1O2" THEN pc' = "parse" \/ r'.evaluated
                    ELSE rep'.evaluated["O1"] /\ rep'.evaluated["O2"]
  BY <1>1 DEF PairRuns, AcceptedText
<1>2. IF law = "O1O2" THEN pc = "parse" \/ r.evaluated
      ELSE rep.evaluated["O1"] /\ rep.evaluated["O2"]
  BY DEF PairRuns
<1>3. CASE Add
  <2>1. /\ rep'.evaluated = [L \in Law |-> IF L \in LawsOf(law) THEN r.evaluated
                                           ELSE rep.evaluated[L]]
        /\ law' = "O1O2" => pc' = "parse"
        /\ pc = "return"
    BY <1>3 DEF Add, Merged, WithFindings, FirstStep
  <2>2. /\ law = "O1O2" => LawsOf(law) = Pair
        /\ law # "O1O2" => "O1" \notin LawsOf(law) /\ "O2" \notin LawsOf(law)
    BY <1>3 DEF TypeInv, TypeOK, LawsOf, Pair, Routine, Add
  <2>3. rep'.evaluated["O1"] /\ rep'.evaluated["O2"]
    BY <2>1, <1>2, <2>2 DEF Law, Pair
  <2> QED
    BY <2>1, <2>3
<1>4. CASE ~Add
  <2>1. UNCHANGED <<law, rep>>
    BY <1>4, RoutineJudged DEF Judged, Within
  <2>2. CASE law # "O1O2"
    BY <1>2, <2>1, <2>2
  <2>3. CASE law = "O1O2"
    <3>1. V01Next
      BY <1>4, <2>3, RoutinesTakeTurns DEF Next
    <3> QED
      BY <1>2, <2>1, <2>3, <3>1, V01Runs DEF PairRuns
  <2> QED
    BY <2>2, <2>3
<1> QED
  BY <1>3, <1>4

(* A campaign starts before its first input.                                 *)
LEMMA PairInit == FuzzInit => PairInv
BY DEF FuzzInit, FuzzIdle, NoReadings, Reading, PairInv, PairRuns, TextsInOrder,
       AcceptedIsEvaluated

(* When the check of a text is over, both laws of the pair ran on it, if it  *)
(* is accepted.                                                              *)
LEMMA TextRan ==
  ASSUME FuzzTypeOK, TypeInv, PairInv, phase = "reading", law = "done"
  PROVE  AcceptedText(input) => Pair \subseteq Evaluated
<1>1. law # "O1O2"
  OBVIOUS
<1>2. AcceptedText(input) => rep.evaluated["O1"] /\ rep.evaluated["O2"]
  BY <1>1 DEF PairInv, PairRuns
<1> QED
  BY <1>2 DEF Pair, Evaluated, Law

(* check_all() parses its text by default rules, for the pair, before        *)
(* anything else.                                                            *)
LEMMA CallParses ==
  ASSUME NEW text, CheckAllCalled(text)
  PROVE  input' = text /\ ~strict' /\ ~comments' /\ law' = "O1O2" /\ pc' = "parse"
<1>1. Head(AllRoutines) = "O1O2"
  BY DEF AllRoutines
<1>2. FirstStep("O1O2") = "parse"
  BY DEF FirstStep
<1> QED
  BY <1>1, <1>2 DEF CheckAllCalled

(* The first text of an input is its generated one.                          *)
LEMMA StartsPair ==
  ASSUME NEW in \in FuzzInputs, TestOneInput(in)
  PROVE  PairInv'
<1>1. /\ phase' = "reading" /\ bytes' = in /\ res' = NoReadings
      /\ input' = in.generated /\ ~strict' /\ ~comments' /\ law' = "O1O2" /\ pc' = "parse"
  BY CallParses DEF TestOneInput
<1>2. Len(todo') = 3 /\ todo'[2] = in.raw
  BY DEF TestOneInput
<1>3. res'.reach = {}
  BY <1>1 DEF NoReadings
<1> QED
  BY <1>1, <1>2, <1>3 DEF PairInv, PairRuns, TextsInOrder, AcceptedIsEvaluated, Reading

(* The next text, when the laws of the last one are noted.                   *)
LEMMA NextPair ==
  ASSUME FuzzTypeOK, TypeInv, PairInv, NextText
  PROVE  PairInv'
<1>1. /\ phase = "reading" /\ law = "done" /\ UNCHANGED <<phase, bytes>>
      /\ todo # << >> /\ todo' = Tail(todo) /\ input' = Head(todo)
      /\ ~strict' /\ ~comments' /\ law' = "O1O2" /\ pc' = "parse"
  BY CallParses DEF NextText
<1>2. res'.evaluated = res.evaluated \cup Evaluated /\ res'.reach = {}
  BY <1>1, CheckedType DEF NextText, FuzzTypeOK, PairInv, TextsInOrder
<1>3. /\ Len(todo) \in 1 .. 3 /\ Len(todo') = Len(todo) - 1
      /\ Head(todo) = todo[1]
      /\ Len(todo) = 3 => todo'[1] = todo[2]
  BY <1>1 DEF FuzzTypeOK, PairInv, TextsInOrder
<1>4. AcceptedText(input) => Pair \subseteq res'.evaluated
  BY <1>1, <1>2, TextRan
<1>5. /\ Ran(bytes.generated) => Ran(bytes.generated)'
      /\ Ran(bytes.raw) => Ran(bytes.raw)'
  BY <1>1, <1>2 DEF Ran, AcceptedText
<1>6. Ran(bytes.generated)'
  <2>1. CASE Len(todo) = 3
    BY <1>1, <1>4, <2>1 DEF PairInv, TextsInOrder, Ran, AcceptedText
  <2>2. CASE Len(todo) # 3
    BY <1>1, <1>3, <1>5, <2>2 DEF PairInv, TextsInOrder
  <2> QED
    BY <2>1, <2>2
<1>7. Len(todo) = 1 => Ran(bytes.raw)'
  BY <1>1, <1>4 DEF PairInv, TextsInOrder, Ran, AcceptedText
<1>8. TextsInOrder'
  <2>1. Len(todo') = 2 => todo'[1] = bytes'.raw
    BY <1>1, <1>3 DEF PairInv, TextsInOrder
  <2>2. Len(todo') = 1 => input' = bytes'.raw
    BY <1>1, <1>3 DEF PairInv, TextsInOrder
  <2>3. Len(todo') # 3 /\ Len(todo') \in 0 .. 3 /\ (Len(todo') < 1 => Len(todo) = 1)
    <3>1. PICK n \in 1 .. 3 : n = Len(todo)
      BY <1>3
    <3>2. Len(todo') = n - 1
      BY <1>3, <3>1
    <3>3. n - 1 # 3 /\ n - 1 \in 0 .. 3 /\ (n - 1 < 1 => n = 1)
      OBVIOUS
    <3> QED
      BY <3>1, <3>2, <3>3
  <2> QED
    BY <1>2, <1>6, <1>7, <2>1, <2>2, <2>3 DEF TextsInOrder
<1> QED
  BY <1>1, <1>2, <1>8 DEF PairInv, PairRuns, AcceptedIsEvaluated, Reading

(* At the end of an input both its primary texts were checked, and the       *)
(* fresh SUT accepts what the checked ones did.                              *)
LEMMA CountedPair ==
  ASSUME FuzzTypeOK, TypeInv, PairInv, FreshSutHonest',
         NEW accepted \in SUBSET {1, 2}, Counted(accepted)
  PROVE  PairInv'
<1>1. /\ phase = "reading" /\ law = "done" /\ todo = << >> /\ phase' # "reading"
      /\ UNCHANGED bytes /\ UNCHANGED vars
  BY DEF Counted
<1>2. res'.evaluated = res.evaluated \cup Evaluated /\ res'.reach = Reading
  BY FinishedType DEF Counted, FuzzTypeOK
<1>3. Ran(bytes.generated) /\ Ran(bytes.raw)
  BY <1>1 DEF PairInv, TextsInOrder
<1>4. \A k \in {1, 2} : AcceptedText(Primary(k)) => Pair \subseteq res'.evaluated
  BY <1>2, <1>3 DEF Ran, Primary
<1>5. \A k \in {1, 2} : Primary(k)' = Primary(k)
  BY <1>1 DEF Primary
<1>6. res'.accept \cap {1, 2} = {k \in {1, 2} : AcceptedText(Primary(k)')}
  BY <1>2 DEF FreshSutHonest, AcceptedText
<1>7. AcceptedIsEvaluated'
  BY <1>4, <1>5, <1>6 DEF AcceptedIsEvaluated, Pair
<1> QED
  BY <1>1, <1>7 DEF PairInv, PairRuns, TextsInOrder

(* Every step of a campaign on honest SUTs keeps the invariant.              *)
LEMMA PairStep ==
  ASSUME FuzzTypeOK, TypeInv, SkipInv, PairInv, honest', FreshSutHonest',
         [FuzzNext]_<<vars, fuzzvars>>
  PROVE  PairInv'
<1>1. ASSUME NEW in \in FuzzInputs, TestOneInput(in) PROVE PairInv'
  BY <1>1, StartsPair
<1>2. CASE FuzzCheck
  <2>1. UNCHANGED <<phase, bytes, todo, res>> /\ phase = "reading" /\ Next
    BY <1>2 DEF FuzzCheck, fuzzvars
  <2>2. PairRuns'
    BY <2>1, PairKept DEF PairInv
  <2>3. UNCHANGED input
    BY <2>1, RoutineJudged DEF Judged, Within, Add, given
  <2>4. TextsInOrder'
    BY <2>1, <2>3 DEF PairInv, TextsInOrder, Ran, AcceptedText
  <2> QED
    BY <2>1, <2>2, <2>4 DEF PairInv, AcceptedIsEvaluated
<1>3. CASE NextText
  BY <1>3, NextPair
<1>4. ASSUME NEW accepted \in SUBSET {1, 2}, Counted(accepted) PROVE PairInv'
  BY <1>4, CountedPair
<1>5. CASE AtExit
  BY <1>5 DEF AtExit, PairInv, PairRuns, TextsInOrder, AcceptedIsEvaluated
<1>6. CASE UNCHANGED <<vars, fuzzvars>>
  BY <1>6 DEF vars, given, control, fuzzvars, PairInv, PairRuns, TextsInOrder,
              AcceptedIsEvaluated, Ran, AcceptedText
<1> QED
  BY <1>1, <1>2, <1>3, <1>4, <1>5, <1>6 DEF FuzzNext

(* On SUTs that keep the contract, an input whose text the fresh SUT accepts *)
(* was evaluated by O1 and O2, though the SUT they ran on is another one and *)
(* four texts share one result: no text is taken for another, none checked   *)
(* under other options, and none left out.                                   *)
THEOREM AcceptedMeansEvaluated ==
  FuzzSpec /\ [](honest /\ FreshSutHonest) => []AcceptedIsEvaluated
<1>1. FuzzInit => FuzzTypeOK /\ CallInv /\ PairInv
  BY FuzzTypeInit, CallInit, PairInit DEF FuzzInit
<1>2. CallInv => TypeInv /\ SkipInv
  BY DEF CallInv
<1>3. /\ FuzzTypeOK /\ CallInv /\ PairInv
      /\ (honest /\ FreshSutHonest)'
      /\ [FuzzNext]_<<vars, fuzzvars>>
      => (FuzzTypeOK /\ CallInv /\ PairInv)'
  BY <1>2, FuzzTypeStep, CallsKeep, PairStep
<1>4. PairInv => AcceptedIsEvaluated
  BY DEF PairInv
<1> QED
  BY <1>1, <1>3, <1>4, PTL DEF FuzzSpec

-----------------------------------------------------------------------------
(* Induction, with the property as the set of the numbers that have it.      *)
LEMMA NatMin ==
  ASSUME NEW T, T \subseteq Nat, T # {}
  PROVE  \E x \in T : \A y \in T : x =< y
<1> DEFINE R == OpToRel(<, Nat)
<1>1. IsWellFoundedOn(R, Nat)
  BY NatLessThanWellFounded, Zenon
<1>2. \A x, y \in Nat : <<y, x>> \in R <=> y < x
  <2>1. R = {ss \in Nat \X Nat : ss[1] < ss[2]}
    BY Zenon DEF OpToRel
  <2> QED
    BY <2>1
<1> HIDE DEF R
<1>3. \E x \in T : \A y \in T : ~(<<y, x>> \in R)
  BY <1>1, WFMin
<1>4. \E x \in T : \A y \in T : ~(y < x)
  BY <1>2, <1>3
<1> QED
  BY <1>4

LEMMA NatInd ==
  ASSUME NEW S, 0 \in S, \A n \in Nat : n \in S => n + 1 \in S
  PROVE  \A n \in Nat : n \in S
<1> SUFFICES ASSUME Nat \ S # {} PROVE FALSE
  OBVIOUS
<1>1. PICK x \in Nat \ S : \A y \in Nat \ S : x =< y
  BY NatMin
<1>2. x # 0 /\ x - 1 \in Nat /\ x - 1 \in S
  BY <1>1
<1> QED
  BY <1>1, <1>2

-----------------------------------------------------------------------------
(* The turns of parse_options() on a line, the last one n.                   *)
Turns(f, n, known) ==
  /\ f[0] = NoOptions
  /\ \A k \in 1 .. n : f[k] = TakePair(f[k - 1], k, known)

(* The loop of parse_options() exists: it is a recursive function of the     *)
(* number of pairs.                                                          *)
LEMMA OptionsLoop ==
  ASSUME NEW known, Len(argv) \in Nat
  PROVE  \E f : Turns(f, Len(argv) \div 2, known) /\ Options(known) = f[Len(argv) \div 2]
<1>a. PICK N : N = Len(argv) \div 2
  OBVIOUS
<1>b. N \in Nat
  BY <1>a
<1> DEFINE Body(f, k) == IF k = 0 THEN NoOptions ELSE TakePair(f[k - 1], k, known)
           S == {n \in Nat : \E f : \A k \in 0 .. n : k =< N => f[k] = Body(f, k)}
<1>1. 0 \in S
  <2> DEFINE g == [k \in 0 .. N |-> NoOptions]
  <2>1. \A k \in 0 .. 0 : k =< N => g[k] = Body(g, k)
    BY <1>b
  <2> HIDE DEF g
  <2> QED
    BY <2>1
<1>2. ASSUME NEW n \in Nat, n \in S PROVE n + 1 \in S
  <2>1. PICK f : \A k \in 0 .. n : k =< N => f[k] = Body(f, k)
    BY <1>2
  <2> DEFINE g == [k \in 0 .. N |-> IF k = n + 1 THEN Body(f, k) ELSE f[k]]
  <2>2. ASSUME NEW k \in 0 .. n + 1, k =< N PROVE g[k] = Body(g, k)
    <3>1. k \in 0 .. N
      BY <2>2
    <3>2. k # 0 => g[k - 1] = f[k - 1]
      <4>1. k # 0 => k - 1 \in 0 .. N /\ k - 1 # n + 1
        BY <2>2, <3>1, <1>b
      <4> QED
        BY <4>1, Zenon
    <3>3. Body(g, k) = Body(f, k)
      BY <3>2
    <3>4. k = n + 1 \/ k \in 0 .. n
      OBVIOUS
    <3> QED
      BY <2>1, <2>2, <3>1, <3>3, <3>4
  <2> HIDE DEF g
  <2> QED
    BY <2>2
<1>3. N \in S
  <2> HIDE DEF S
  <2> QED
    BY <1>1, <1>2, <1>b, NatInd
<1>4. PICK f : \A k \in 0 .. N : k =< N => f[k] = Body(f, k)
  BY <1>3
<1> DEFINE h == [k \in 0 .. N |-> f[k]]
<1>5. h = [k \in 0 .. N |-> Body(h, k)]
  <2>1. ASSUME NEW k \in 0 .. N PROVE Body(h, k) = f[k]
    <3>1. k # 0 => h[k - 1] = f[k - 1]
      BY <1>b
    <3>2. Body(h, k) = Body(f, k)
      BY <3>1
    <3> QED
      BY <1>4, <1>b, <3>2
  <2> HIDE DEF Body
  <2> QED
    BY <2>1, Zenon
<1> HIDE DEF h
<1> DEFINE g == CHOOSE f1 : f1 = [k \in 0 .. N |-> Body(f1, k)]
<1>6. g = [k \in 0 .. N |-> Body(g, k)]
  BY <1>5, Zenon
<1>7. Options(known) = g[N]
  BY <1>a, Zenon DEF Options
<1> HIDE DEF g
<1>8. \A k \in 0 .. N : g[k] = Body(g, k)
  BY <1>6, Zenon
<1>9. Turns(g, N, known)
  <2>1. 0 \in 0 .. N /\ \A k \in 1 .. N : k \in 0 .. N /\ k # 0
    BY <1>b
  <2> QED
    BY <1>8, <2>1 DEF Turns
<1> QED
  BY <1>7, <1>9, <1>a

-----------------------------------------------------------------------------
(* What parse_options() has after n pairs: every name known and followed by  *)
(* a value, and the last value of each.                                      *)
Valued(k, known) == 2 * k < Len(argv) /\ argv[2 * k] \in known
LastOf(k, n, name) ==
  /\ k \in 1 .. n /\ argv[2 * k] = name
  /\ \A j \in 1 .. n : argv[2 * j] = name => j =< k
ReadOff(read, n, known) ==
  /\ read.ok \in BOOLEAN
  /\ read.ok <=> \A k \in 1 .. n : Valued(k, known)
  /\ read.ok =>
       /\ \A name : name \in DOMAIN read.o <=> \E k \in 1 .. n : argv[2 * k] = name
       /\ \A name \in DOMAIN read.o :
            \E k : LastOf(k, n, name) /\ read.o[name] = argv[2 * k + 1]

(* Before the first pair nothing is given.                                   *)
LEMMA NothingRead ==
  ASSUME NEW known
  PROVE  ReadOff(NoOptions, 0, known)
BY DEF ReadOff, NoOptions

(* One turn reads one pair more.                                             *)
LEMMA PairRead ==
  ASSUME NEW known, NEW n \in Nat, NEW before, ReadOff(before, n, known)
  PROVE  ReadOff(TakePair(before, n + 1, known), n + 1, known)
<1> DEFINE m == n + 1
<1>0. PICK after : after = TakePair(before, m, known)
  OBVIOUS
<1>1. \A k : k \in 1 .. m <=> k \in 1 .. n \/ k = m
  OBVIOUS
<1>2. CASE ~(before.ok /\ Valued(m, known))
  <2>1. after.ok = FALSE
    BY <1>0, <1>2 DEF TakePair, Valued, UsageError
  <2>2. ~ \A k \in 1 .. m : Valued(k, known)
    BY <1>1, <1>2 DEF ReadOff
  <2>3. ReadOff(after, m, known)
    BY <2>1, <2>2 DEF ReadOff
  <2> QED
    BY <1>0, <2>3
<1>3. CASE before.ok /\ Valued(m, known)
  <2> DEFINE name == argv[2 * m]
  <2>1. after.ok = TRUE /\ after.o = WithOption(before.o, name, argv[2 * m + 1])
    BY <1>0, <1>3 DEF TakePair, Valued
  <2>2. \A k \in 1 .. m : Valued(k, known)
    BY <1>1, <1>3 DEF ReadOff
  <2>3. DOMAIN after.o = DOMAIN before.o \cup {name}
    BY <2>1 DEF WithOption
  <2>4. \A x : x \in DOMAIN after.o <=> \E k \in 1 .. m : argv[2 * k] = x
    BY <1>1, <1>3, <2>3 DEF ReadOff
  <2>5. ASSUME NEW x \in DOMAIN after.o
        PROVE  \E k : LastOf(k, m, x) /\ after.o[x] = argv[2 * k + 1]
    <3>1. CASE x = name
      <4>1. after.o[x] = argv[2 * m + 1]
        BY <2>1, <3>1 DEF WithOption
      <4>2. LastOf(m, m, x)
        BY <3>1 DEF LastOf
      <4> QED
        BY <4>1, <4>2
    <3>2. CASE x # name
      <4>1. x \in DOMAIN before.o /\ after.o[x] = before.o[x]
        BY <2>1, <2>3, <3>2 DEF WithOption
      <4>2. PICK k : LastOf(k, n, x) /\ before.o[x] = argv[2 * k + 1]
        BY <1>3, <4>1 DEF ReadOff
      <4>3. LastOf(k, m, x)
        BY <1>1, <3>2, <4>2 DEF LastOf
      <4> QED
        BY <4>1, <4>2, <4>3
    <3> QED
      BY <3>1, <3>2
  <2> QED
    BY <1>0, <2>1, <2>2, <2>4, <2>5 DEF ReadOff
<1> QED
  BY <1>2, <1>3

(* parse_options() makes of a line what is read off it at once: it is well   *)
(* formed, and each name given has its last value.                           *)
LEMMA OptionsAre ==
  ASSUME NEW known, Len(argv) \in Nat \ {0}
  PROVE  LET read == Options(known)
         IN  /\ read.ok <=> WellFormed(known)
             /\ read.ok => \A name : name \in DOMAIN read.o <=> GivenAt(name) # {}
             /\ read.ok => \A name \in DOMAIN read.o : read.o[name] = LastGiven(name)
<1>a. PICK N : N = Len(argv) \div 2
  OBVIOUS
<1>b. N \in Nat /\ 2 * N =< Len(argv) /\ Len(argv) =< 2 * N + 1
  BY <1>a
<1>1. PICK f : Turns(f, N, known) /\ Options(known) = f[N]
  BY <1>a, OptionsLoop
<1> DEFINE S == {n \in Nat : n =< N => ReadOff(f[n], n, known)}
<1>2. 0 \in S
  BY <1>1, NothingRead DEF Turns
<1>3. ASSUME NEW n \in Nat, n \in S PROVE n + 1 \in S
  <2>1. SUFFICES ASSUME n + 1 =< N PROVE ReadOff(f[n + 1], n + 1, known)
    OBVIOUS
  <2>2. ReadOff(f[n], n, known)
    BY <1>3, <1>b, <2>1
  <2>3. n + 1 \in 1 .. N /\ (n + 1) - 1 = n
    BY <1>b, <2>1
  <2>4. f[n + 1] = TakePair(f[n], n + 1, known)
    BY <1>1, <2>3 DEF Turns
  <2> QED
    BY <2>2, <2>4, PairRead
<1>4. N \in S
  <2> HIDE DEF S
  <2> QED
    BY <1>2, <1>3, <1>b, NatInd
<1>5. ReadOff(Options(known), N, known)
  BY <1>1, <1>4
<1>6. Pairs = 1 .. N
  BY <1>a DEF Pairs
<1>7. (\A k \in 1 .. N : Valued(k, known)) <=> WellFormed(known)
  <2>1. 2 * N # Len(argv) => \A k \in 1 .. N : 2 * k < Len(argv)
    BY <1>b
  <2>2. 2 * N = Len(argv) => N \in 1 .. N /\ ~(2 * N < Len(argv))
    BY <1>b
  <2> QED
    BY <1>a, <1>6, <2>1, <2>2 DEF WellFormed, Valued
<1>8. \A name : GivenAt(name) = {k \in 1 .. N : argv[2 * k] = name}
  BY <1>6 DEF GivenAt
<1>9. ASSUME NEW name, NEW k, LastOf(k, N, name) PROVE LastGiven(name) = argv[2 * k + 1]
  <2> DEFINE Top(x) == x \in GivenAt(name) /\ \A j \in GivenAt(name) : j =< x
             c == CHOOSE x \in GivenAt(name) : \A j \in GivenAt(name) : j =< x
  <2>1. Top(k)
    BY <1>8, <1>9 DEF LastOf
  <2>2. Top(c)
    BY <2>1
  <2>3. LastGiven(name) = argv[2 * c + 1]
    BY DEF LastGiven
  <2> HIDE DEF c
  <2>4. c \in Int /\ k \in Int /\ c =< k /\ k =< c
    BY <1>8, <2>1, <2>2
  <2>5. c = k
    BY <2>4
  <2> QED
    BY <2>3, <2>5
<1> QED
  BY <1>5, <1>7, <1>8, <1>9 DEF ReadOff

-----------------------------------------------------------------------------
(* A line is a sequence, and is what the program was started with.           *)
LineOK == argv \in Seq(STRING)

(* The parts of an invariant of the program that are about the line.         *)
Named == Complete /\ AskedSut \in Registered /\ AskedFile \in DOMAIN Files
Settled ==
  phase = "exited" =>
    /\ UnknownIsUsageError
    /\ Verb # "check" => status # 1
    /\ Verb = "check" =>
         IF ~Complete THEN status = 2
         ELSE IF AskedSut \notin Registered THEN status = 3
         ELSE IF AskedFile \notin DOMAIN Files THEN status = 2
         ELSE /\ status = IF rep.violations = {} THEN 0 ELSE 1
              /\ status = 1 => input = Files[AskedFile] /\ law = "done"

CliInv ==
  /\ LineOK
  /\ phase \in {"start", "checking", "exited"}
  /\ phase = "start" => rep.violations = {}
  /\ phase = "checking" => Verb = "check" /\ Named /\ input = Files[AskedFile]
  /\ Settled

(* The line stays, and what is read off it.                                  *)
LEMMA OptionsStay ==
  ASSUME UNCHANGED argv, NEW known
  PROVE  Options(known)' = Options(known) /\ WellFormed(known)' = WellFormed(known)
<1>1. Options(known)' = Options(known)
  BY ZenonT(60) DEF Options, TakePair
<1>2. WellFormed(known)' = WellFormed(known)
  BY DEF WellFormed, Pairs
<1> QED
  BY <1>1, <1>2

LEMMA LineStays ==
  ASSUME UNCHANGED argv
  PROVE  /\ Verb' = Verb /\ Complete' = Complete /\ AskedSut' = AskedSut /\ AskedFile' = AskedFile
         /\ Named' = Named
<1>1. Verb' = Verb
  BY DEF Verb
<1>2. Asked' = Asked
  BY OptionsStay, Zenon DEF Asked
<1> QED
  BY <1>1, <1>2 DEF Complete, AskedSut, AskedFile, Named

(* The program starts with a line, and nothing found.                        *)
LEMMA CliStart == CliInit => CliInv
<1> SUFFICES ASSUME CliInit PROVE CliInv
  OBVIOUS
<1>1. argv \in Argvs /\ phase = "start"
  BY DEF CliInit
<1>2. rep.violations = {}
  BY DEF CliInit, Init, OracleInit
<1>3. LineOK
  BY <1>1, CliAssumption DEF LineOK
<1> QED
  BY <1>1, <1>2, <1>3 DEF CliInv, Settled

(* The verbs that are not check exit with 0, with 2, or on the signal, and   *)
(* with 0 only where the line was understood.                                *)
LEMMA CommandSettles ==
  ASSUME CliInv, Command
  PROVE  CliInv'
<1>1. phase' = "exited" /\ UNCHANGED argv /\ Verb # "check"
  BY DEF Command, Exit
<1>2. Len(argv) \in Nat
  BY DEF CliInv, LineOK
<1>3. Verb' = Verb /\ \A known : Options(known).ok => (argv # << >> => WellFormed(known))
  <2>1. ASSUME NEW known, Options(known).ok, argv # << >> PROVE WellFormed(known)
    <3>1. Len(argv) \in Nat \ {0}
      BY <1>2, <2>1 DEF CliInv, LineOK
    <3> QED
      BY <2>1, <3>1, OptionsAre
  <2> QED
    BY <1>1, <2>1, LineStays
<1>4. Verb \in {"gen", "mutate"} => argv # << >>
  BY DEF Verb
<1>5. GenStatus \in {0, 2, Aborted} /\ (GenStatus # 2 => Options(GenOptions).ok)
  BY DEF GenStatus
<1>6. MutateStatus \in {0, 2} /\ (MutateStatus # 2 => Options(MutateOptions).ok)
  BY DEF MutateStatus
<1>7. status' = CASE Verb \in Flags -> 0
                  [] Verb = "gen" -> GenStatus
                  [] Verb = "mutate" -> MutateStatus
                  [] OTHER -> 2
  BY DEF Command, Exit
<1>8. status' # 1
  BY <1>5, <1>6, <1>7 DEF Flags, Aborted
<1>9. \/ status' = 2
      \/ Verb \in Flags
      \/ Verb = "gen" /\ WellFormed(GenOptions)
      \/ Verb = "mutate" /\ WellFormed(MutateOptions)
  BY <1>3, <1>4, <1>5, <1>6, <1>7 DEF Flags
<1>10. UnknownIsUsageError'
  <2>1. /\ WellFormed(GenOptions)' = WellFormed(GenOptions)
        /\ WellFormed(MutateOptions)' = WellFormed(MutateOptions)
    BY <1>1, OptionsStay
  <2> QED
    BY <1>3, <1>9, <2>1 DEF UnknownIsUsageError
<1> QED
  BY <1>1, <1>3, <1>8, <1>10 DEF CliInv, LineOK, Settled

(* A line check has all its options on is well formed.                       *)
LEMMA CompleteIsWellFormed ==
  ASSUME LineOK, Verb = "check"
  PROVE  /\ Len(argv) \in Nat \ {0}
         /\ Complete => WellFormed(CheckOptions)
<1>1. Len(argv) \in Nat \ {0}
  BY DEF LineOK, Verb
<1> QED
  BY <1>1, OptionsAre DEF Complete, Asked

(* check exits before the probe with 2 or 3, each for its reason.            *)
LEMMA RefusedSettles ==
  ASSUME CliInv, CheckRefused
  PROVE  CliInv'
<1>1. /\ phase' = "exited" /\ UNCHANGED argv /\ Verb = "check"
      /\ \/ ~Complete /\ status' = 2
         \/ Complete /\ AskedSut \notin Registered /\ status' = 3
         \/ Complete /\ AskedSut \in Registered /\ AskedFile \notin DOMAIN Files /\ status' = 2
  BY DEF CheckRefused, Exit
<1>2. Complete => WellFormed(CheckOptions)
  BY <1>1, CompleteIsWellFormed DEF CliInv
<1>3. UnknownIsUsageError'
  BY <1>1, <1>2, LineStays, OptionsStay DEF UnknownIsUsageError
<1> QED
  BY <1>1, <1>3, LineStays DEF CliInv, LineOK, Settled

(* The probe starts the check of the file, or ends it, and so does the       *)
(* summary, with what the check found.                                       *)
LEMMA ProbeSettles ==
  ASSUME CliInv, NEW accepted \in BOOLEAN, Probe(accepted)
  PROVE  CliInv'
<1>1. phase = "start" /\ UNCHANGED argv /\ Verb = "check" /\ Named
  BY DEF Probe, Named
<1>2. WellFormed(CheckOptions)
  BY <1>1, CompleteIsWellFormed DEF CliInv, Named
<1>3. UnknownIsUsageError'
  BY <1>1, <1>2, LineStays, OptionsStay DEF UnknownIsUsageError
<1>4. CASE accepted
  <2>1. phase' = "checking" /\ input' = Files[AskedFile]
    BY <1>4 DEF Probe, CheckAllCalled
  <2> QED
    BY <1>1, <2>1, LineStays DEF CliInv, LineOK, Settled
<1>5. CASE ~accepted
  <2>1. phase' = "exited" /\ status' = 0 /\ UNCHANGED <<rep, input, law>>
    BY <1>5 DEF Probe, Exit, vars, given, control
  <2>2. rep.violations = {}
    BY <1>1 DEF CliInv
  <2> QED
    BY <1>1, <1>3, <2>1, <2>2, LineStays DEF CliInv, LineOK, Settled, Named
<1> QED
  BY <1>4, <1>5

LEMMA SummarySettles ==
  ASSUME CliInv, Summary
  PROVE  CliInv'
<1>1. /\ phase = "checking" /\ law = "done" /\ phase' = "exited"
      /\ status' = IF rep.violations = {} THEN 0 ELSE 1
      /\ UNCHANGED argv /\ UNCHANGED <<rep, input, law>>
  BY DEF Summary, Exit, vars, given, control
<1>2. Verb = "check" /\ Named /\ input = Files[AskedFile]
  BY <1>1 DEF CliInv
<1>3. WellFormed(CheckOptions)
  BY <1>2, CompleteIsWellFormed DEF CliInv, Named
<1>4. UnknownIsUsageError'
  BY <1>1, <1>2, <1>3, LineStays, OptionsStay DEF UnknownIsUsageError
<1> QED
  BY <1>1, <1>2, <1>4, LineStays DEF CliInv, LineOK, Settled, Named

(* Every step of the program keeps the invariant.                            *)
LEMMA CliStep ==
  ASSUME CliInv, TypeInv, SkipInv, [CliNext]_<<vars, fuzzvars, clivars>>
  PROVE  CliInv'
<1>1. CASE CliCheck
  <2>1. phase = "checking" /\ UNCHANGED phase /\ UNCHANGED argv /\ UNCHANGED input
    BY <1>1, RoutineJudged DEF CliCheck, fuzzvars, clivars, Judged, Within, Add, given, Next
  <2> QED
    BY <2>1, LineStays DEF CliInv, LineOK, Settled
<1>2. CASE UNCHANGED <<vars, fuzzvars, clivars>>
  <2>1. UNCHANGED <<phase, argv, status, input, rep, law>> /\ UNCHANGED argv
    BY <1>2 DEF fuzzvars, clivars, vars, given, control
  <2>2. UnknownIsUsageError' = UnknownIsUsageError
    <3>1. /\ WellFormed(GenOptions)' = WellFormed(GenOptions)
          /\ WellFormed(MutateOptions)' = WellFormed(MutateOptions)
          /\ WellFormed(CheckOptions)' = WellFormed(CheckOptions)
      BY <2>1, OptionsStay
    <3> QED
      BY <2>1, <3>1, LineStays DEF UnknownIsUsageError
  <2> QED
    BY <2>1, <2>2, LineStays DEF CliInv, LineOK, Settled
<1> QED
  BY <1>1, <1>2, CommandSettles, RefusedSettles, ProbeSettles, SummarySettles DEF CliNext

(* A step of the program is one of the check under way, or starts one, or    *)
(* leaves the oracle alone: what is proved of an oracle call is kept.        *)
LEMMA CliCallsKeep ==
  ASSUME CallInv, [CliNext]_<<vars, fuzzvars, clivars>>
  PROVE  CallInv'
<1>1. CallInv /\ [Next]_vars => CallInv'
  BY TypeStep, SkipStep, AlarmStep DEF CallInv
<1>2. Init' => CallInv'
  BY CallInit, PTL
<1>3. ASSUME NEW accepted \in BOOLEAN, Probe(accepted) PROVE Init' \/ UNCHANGED vars
  <2>1. Files[AskedFile] \in Inputs
    BY <1>3, CliAssumption DEF Probe
  <2> QED
    BY <1>3, <2>1, CallStarts DEF Probe
<1>4. Command \/ CheckRefused \/ Summary => UNCHANGED vars
  BY DEF Command, CheckRefused, Summary
<1> QED
  BY <1>1, <1>2, <1>3, <1>4 DEF CliNext, CliCheck

(* The exit status says what happened, on every line, whatever is in the     *)
(* registry and whatever the SUTs in it answer: a repeated option, a value   *)
(* that looks like an option, a name without a value included.               *)
THEOREM StatusSaysWhatHappened == CliSpec => []StatusIsTheReport
<1>1. CliInit => CliInv /\ CallInv
  BY CliStart, CallInit DEF CliInit
<1>2. CallInv => TypeInv /\ SkipInv
  BY DEF CallInv
<1>3. (CliInv /\ CallInv) /\ [CliNext]_<<vars, fuzzvars, clivars>> => (CliInv /\ CallInv)'
  BY <1>2, CliStep, CliCallsKeep
<1>4. CliInv => StatusIsTheReport
  <2> SUFFICES ASSUME CliInv, phase = "exited", Verb = "check" PROVE StatusIsTheReport
    BY DEF StatusIsTheReport
  <2>1. /\ Asked.ok <=> WellFormed(CheckOptions)
        /\ Asked.ok => \A name : name \in DOMAIN Asked.o <=> GivenAt(name) # {}
        /\ Asked.ok => \A name \in DOMAIN Asked.o : Asked.o[name] = LastGiven(name)
    <3>1. Len(argv) \in Nat \ {0}
      BY CompleteIsWellFormed DEF CliInv
    <3> QED
      BY <3>1, OptionsAre DEF Asked
  <2>2. Complete <=> WellFormed(CheckOptions) /\ \A name \in CheckOptions : GivenAt(name) # {}
    BY <2>1 DEF Complete
  <2>3. Complete => AskedSut = LastGiven("--sut") /\ AskedFile = LastGiven("--in")
    BY <2>1 DEF Complete, CheckOptions, AskedSut, AskedFile
  <2> QED
    BY <2>2, <2>3 DEF CliInv, Settled, StatusIsTheReport
<1> QED
  BY <1>1, <1>3, <1>4, PTL DEF CliSpec

(* No line with an argument the program does not know ends well, in a verb   *)
(* that takes options.                                                       *)
THEOREM UnknownFails == CliSpec => []UnknownIsUsageError
<1>1. CliInit => CliInv /\ CallInv
  BY CliStart, CallInit DEF CliInit
<1>2. CallInv => TypeInv /\ SkipInv
  BY DEF CallInv
<1>3. (CliInv /\ CallInv) /\ [CliNext]_<<vars, fuzzvars, clivars>> => (CliInv /\ CallInv)'
  BY <1>2, CliStep, CliCallsKeep
<1>4. CliInv => UnknownIsUsageError
  BY DEF CliInv, Settled, UnknownIsUsageError
<1> QED
  BY <1>1, <1>3, <1>4, PTL DEF CliSpec

\* A SUT that kept the contract, and can take back what it writes.
KeptContract == honest /\ WritePathWhole

(* No command line exits with 1 on a SUT that keeps the contract, whatever   *)
(* the file and whatever the probe left in the SUT.                          *)
THEOREM HonestNeverFails == CliSpec => [](phase = "exited" /\ KeptContract => status # 1)
<1>1. CliInit => CliInv /\ CallInv
  BY CliStart, CallInit DEF CliInit
<1>2. CallInv => TypeInv /\ SkipInv /\ AlarmInv
  BY DEF CallInv
<1>3. (CliInv /\ CallInv) /\ [CliNext]_<<vars, fuzzvars, clivars>> => (CliInv /\ CallInv)'
  BY <1>2, CliStep, CliCallsKeep
<1>4. CliInv /\ CallInv => (phase = "exited" /\ KeptContract => status # 1)
  <2> SUFFICES ASSUME CliInv, AlarmInv, phase = "exited", KeptContract PROVE status # 1
    BY <1>2
  <2>1. rep.violations = {}
    BY DEF AlarmInv, KeptContract, Clean
  <2> QED
    BY <2>1 DEF CliInv, Settled
<1> QED
  BY <1>1, <1>3, <1>4, PTL DEF CliSpec

-----------------------------------------------------------------------------
(* O7 runs on a text an honest SUT accepts by the strict rules too: its turn *)
(* is still to come, or it has parsed it and serialized it, or it is done    *)
(* and in the report.                                                        *)
StrictRuns ==
  /\ law = "done" => plan = << >>
  /\ AcceptedText(input) /\ input \in Strict =>
       IF law = "O7" THEN pc \in {"parse", "serialize"} \/ r.evaluated
       ELSE (\E k \in 1 .. Len(plan) : plan[k] = "O7") \/ rep.evaluated["O7"]

(* check_strict_subset() is not skipped, and sees its first serialization    *)
(* through: an honest SUT does not throw.                                    *)
LEMMA O7Runs ==
  ASSUME TypeInv, O7Next, honest', AcceptedText(input), input \in Strict,
         pc \in {"parse", "serialize"} \/ r.evaluated
  PROVE  pc' \in {"parse", "serialize"} \/ r'.evaluated
<1>a. r \in Result /\ model \in Model
  BY DEF TypeInv, TypeOK
<1>1. ASSUME NEW ans \in ParseAnswers, O7Strict(ans) PROVE pc' = "serialize"
  <2>1. ParseCall(input, TRUE, ans) /\ Accepts(input, TRUE)
    BY <1>1 DEF O7Strict, AcceptedInput, Accepts, AcceptedText
  <2>2. ans = "accepted"
    <3>1. PICK t : t = input
      OBVIOUS
    <3> QED
      BY <2>1, <3>1 DEF ParseCall, Answered
  <2> QED
    BY <1>1, <2>2, Sentinels DEF O7Strict, AcceptedInput
<1>2. ASSUME NEW ans \in TextAnswers, O7StrictText(ans) PROVE r'.evaluated
  <2>1. Serializes(Canon, ans)
    BY <1>2 DEF O7StrictText, SerializeCall, Answered
  <2>2. ans \in Text
    BY <2>1, <1>a, Sentinels, ConstantTypes DEF Serializes, Model
  <2>3. ans # Threw
    BY <2>2, Sentinels
  <2> QED
    BY <1>2, <1>a, <2>3 DEF O7StrictText, Result
<1>3. ASSUME NEW ans \in ParseAnswers, O7Lazy(ans) PROVE r'.evaluated
  <2>1. r.evaluated
    BY <1>3 DEF O7Lazy, Step
  <2> QED
    BY <1>3, <1>a, <2>1, BlameAdds, Sentinels DEF O7Lazy, ParseAnswers, Return
<1>4. ASSUME NEW ans, O7LazyText(ans) PROVE r'.evaluated
  <2>1. r.evaluated
    BY <1>4 DEF O7LazyText, Step
  <2> QED
    BY <1>4, <1>a, <2>1, BlameAdds DEF O7LazyText, Return
<1> QED
  BY <1>1, <1>2, <1>3, <1>4 DEF O7Next

(* What is not first in a sequence is in its tail.                           *)
LEMMA TailAt ==
  ASSUME NEW S, NEW s \in Seq(S), NEW k \in 2 .. Len(s)
  PROVE  k - 1 \in 1 .. Len(Tail(s)) /\ Tail(s)[k - 1] = s[k]
OBVIOUS

(* No step of a check takes O7 out of turn, or its entry from the report.    *)
LEMMA StrictKept ==
  ASSUME TypeInv, SkipInv, Next, StrictRuns, honest'
  PROVE  StrictRuns'
<1>1. UNCHANGED input
  BY RoutineJudged DEF Judged, Within, Add, given
<1>2. CASE Add
  <2>1. /\ rep'.evaluated = [L \in Law |-> IF L \in LawsOf(law) THEN r.evaluated
                                           ELSE rep.evaluated[L]]
        /\ plan = << >> => law' = "done" /\ plan' = << >>
        /\ plan # << >> => law' = Head(plan) /\ plan' = Tail(plan)
        /\ law' = "O7" => pc' = "parse"
        /\ pc = "return"
    BY <1>2 DEF Add, Merged, WithFindings, FirstStep
  <2>2. plan \in Seq(Routine) /\ plan # << >> => law' # "done"
    <3>1. plan \in Seq(Routine) /\ plan # << >> => Head(plan) \in Routine
      BY HeadTail
    <3> QED
      BY <2>1, <3>1 DEF Routine
  <2>3. "O7" \in LawsOf(law) <=> law = "O7"
    BY <1>2 DEF TypeInv, TypeOK, LawsOf, Routine, Add
  <2>4. ASSUME AcceptedText(input), input \in Strict, law' # "O7", law = "O7"
        PROVE  rep'.evaluated["O7"]
    BY <2>1, <2>3, <2>4 DEF StrictRuns, Law
  <2>5. ASSUME AcceptedText(input), input \in Strict, law' # "O7", law # "O7"
        PROVE  (\E k \in 1 .. Len(plan') : plan'[k] = "O7") \/ rep'.evaluated["O7"]
    <3>1. CASE rep.evaluated["O7"]
      BY <2>1, <2>3, <2>5, <3>1 DEF Law
    <3>2. ASSUME NEW k \in 1 .. Len(plan), plan[k] = "O7"
          PROVE  \E j \in 1 .. Len(plan') : plan'[j] = "O7"
      <4>1. plan # << >> /\ plan \in Seq(Routine)
        BY <3>2 DEF TypeInv, TypeOK
      <4>2. k \in 2 .. Len(plan)
        BY <2>1, <2>5, <3>2, <4>1
      <4>3. k - 1 \in 1 .. Len(plan') /\ plan'[k - 1] = plan[k]
        BY <2>1, <4>1, <4>2, TailAt
      <4> QED
        BY <3>2, <4>3
    <3> QED
      BY <2>5, <3>1, <3>2 DEF StrictRuns
  <2> QED
    BY <1>1, <2>1, <2>2, <2>4, <2>5 DEF StrictRuns, AcceptedText, TypeInv, TypeOK
<1>3. CASE ~Add
  <2>1. UNCHANGED <<law, plan, rep>>
    BY <1>3, RoutineJudged DEF Judged, Within
  <2>2. CASE law # "O7"
    BY <1>1, <2>1, <2>2 DEF StrictRuns, AcceptedText
  <2>3. CASE law = "O7"
    <3>1. O7Next
      BY <1>3, <2>3, RoutinesTakeTurns DEF Next
    <3> QED
      BY <1>1, <2>1, <2>3, <3>1, O7Runs DEF StrictRuns, AcceptedText
  <2> QED
    BY <2>2, <2>3
<1> QED
  BY <1>2, <1>3

CheckRuns == phase = "checking" => PairRuns /\ StrictRuns

(* The check the probe starts has all its laws before it.                    *)
LEMMA ProbeRuns ==
  ASSUME NEW accepted \in BOOLEAN, Probe(accepted)
  PROVE  CheckRuns'
<1>1. CASE accepted
  <2>1. CheckAllCalled(Files[AskedFile])
    BY <1>1 DEF Probe
  <2>2. ~strict' /\ ~comments' /\ law' = "O1O2" /\ pc' = "parse"
    BY <2>1, CallParses
  <2>3. 5 \in 1 .. Len(plan') /\ plan'[5] = "O7"
    <3>1. PICK all \in Seq(Routine) : all = AllRoutines
      BY FuzzAssumption, PlansAssumption
    <3>2. Len(all) = 6 /\ all[6] = "O7"
      BY <3>1 DEF AllRoutines
    <3>3. 6 \in 2 .. Len(all) /\ 6 - 1 = 5
      BY <3>2
    <3>4. 5 \in 1 .. Len(Tail(all)) /\ Tail(all)[5] = all[6]
      BY <3>3, TailAt
    <3>5. plan' = Tail(all)
      BY <2>1, <3>1 DEF CheckAllCalled
    <3> QED
      BY <3>2, <3>4, <3>5, Zenon
  <2>4. PairRuns'
    BY <2>2 DEF PairRuns
  <2>5. StrictRuns'
    BY <2>2, <2>3 DEF StrictRuns
  <2> QED
    BY <2>4, <2>5 DEF CheckRuns
<1>2. CASE ~accepted
  BY <1>2 DEF Probe, Exit, CheckRuns
<1> QED
  BY <1>1, <1>2

(* Every step of the program, on an honest SUT, keeps the laws running.      *)
LEMMA RunsStep ==
  ASSUME TypeInv, SkipInv, CheckRuns, honest', [CliNext]_<<vars, fuzzvars, clivars>>
  PROVE  CheckRuns'
<1>1. CASE CliCheck
  BY <1>1, PairKept, StrictKept DEF CliCheck, CheckRuns
<1>2. CASE Command \/ CheckRefused \/ Summary
  BY <1>2 DEF Command, CheckRefused, Summary, Exit, CheckRuns
<1>3. CASE UNCHANGED <<vars, fuzzvars, clivars>>
  BY <1>3 DEF vars, given, control, fuzzvars, CheckRuns, PairRuns, StrictRuns, AcceptedText
<1> QED
  BY <1>1, <1>2, <1>3, ProbeRuns DEF CliNext

\* The probe, a call before the check, was answered as the contract says.
HonestProbe == phase = "checking" => AcceptedText(input)

(* On a SUT that keeps the contract, what the probe accepted is checked by   *)
(* O1 and O2, and by O7 where it is strict: the state the probe leaves in    *)
(* the SUT takes no law away.                                                *)
THEOREM ProbedMeansChecked == CliSpec /\ [](honest /\ HonestProbe) => []ProbedIsChecked
<1>1. CliInit => CallInv /\ CheckRuns
  BY CallInit DEF CliInit, CheckRuns
<1>2. CallInv => TypeInv /\ SkipInv
  BY DEF CallInv
<1>3. /\ CallInv /\ CheckRuns
      /\ (honest /\ HonestProbe)'
      /\ [CliNext]_<<vars, fuzzvars, clivars>>
      => (CallInv /\ CheckRuns)'
  BY <1>2, CliCallsKeep, RunsStep
<1>4. CheckRuns /\ HonestProbe => ProbedIsChecked
  <2> SUFFICES ASSUME CheckRuns, HonestProbe, phase = "checking", law = "done"
               PROVE  /\ rep.evaluated["O1"] /\ rep.evaluated["O2"]
                      /\ input \in Strict => rep.evaluated["O7"]
    BY DEF ProbedIsChecked, Evaluated, Law
  <2>1. plan = << >> /\ AcceptedText(input)
    BY DEF CheckRuns, StrictRuns, HonestProbe
  <2>2. rep.evaluated["O1"] /\ rep.evaluated["O2"]
    BY <2>1 DEF CheckRuns, PairRuns
  <2>3. input \in Strict => rep.evaluated["O7"]
    BY <2>1 DEF CheckRuns, StrictRuns
  <2> QED
    BY <2>2, <2>3
<1> QED
  BY <1>1, <1>3, <1>4, PTL DEF CliSpec
=============================================================================
