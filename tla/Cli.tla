-------------------------------- MODULE Cli --------------------------------
(***************************************************************************)
(* The command line (src/jsonfuzz_cli.cpp): the options, the verbs, the    *)
(* exit status.  "check" probes the SUT with a parse and then runs         *)
(* check_all() on the same SUT, call by call as in CheckAll, whatever SUT  *)
(* the registry has under the name; FrontEnds gives it the registered ones.*)
(***************************************************************************)
EXTENDS FuzzTarget

CONSTANTS
  Argvs,      \* command lines: sequences of arguments, the verb first
  Registered, \* default_registry().names()
  Files,      \* the readable files: [name -> text]
  Ints,       \* the arguments strtol() reads to their end: [argument -> number]
  IntBits     \* the width of int

\* Arguments are strings, and "check" is run on the texts of files.
ASSUME CliAssumption ==
  /\ Argvs \subseteq Seq(STRING)
  /\ \A name \in DOMAIN Files : Files[name] \in Inputs

VARIABLES
  argv,    \* the command line
  status   \* the exit status, or Running

clivars == <<argv, status>>

Running == -1   \* no status yet

\* The options read so far: [ok, o], o from a name to its value.
NoOptions == [ok |-> TRUE, o |-> [name \in {} |-> ""]]
UsageError == [ok |-> FALSE, o |-> [name \in {} |-> ""]]

\* Mutant: the first of a repeated option counts.
WithOptionFirst(o, name, val) ==
  [n \in DOMAIN o \cup {name} |-> IF n \in DOMAIN o THEN o[n] ELSE val]

\* out[name] = argv[++i]
WithOption(o, name, val) ==
  [n \in DOMAIN o \cup {name} |-> IF n = name THEN val ELSE o[n]]

\* Mutant: an unknown option is passed over.
TakePairSwallowing(before, n, known) ==
  IF before.ok /\ 2 * n < Len(argv)
  THEN IF argv[2 * n] \in known
       THEN [ok |-> TRUE, o |-> WithOption(before.o, argv[2 * n], argv[2 * n + 1])]
       ELSE before
  ELSE UsageError

\* The n-th turn of parse_options(): argv[2n] is a name and has a value behind it.
TakePair(before, n, known) ==
  IF before.ok /\ 2 * n < Len(argv) /\ argv[2 * n] \in known
  THEN [ok |-> TRUE, o |-> WithOption(before.o, argv[2 * n], argv[2 * n + 1])]
  ELSE UsageError

\* parse_options(), until nothing is left after the pairs.
Options(known) ==
  LET Read[n \in 0 .. Len(argv) \div 2] ==
        IF n = 0 THEN NoOptions ELSE TakePair(Read[n - 1], n, known)
  IN  Read[Len(argv) \div 2]

\* to_int(): a long, cut to an int.
Narrowed(v) == ((v + 2 ^ (IntBits - 1)) % 2 ^ IntBits) - 2 ^ (IntBits - 1)

-----------------------------------------------------------------------------
Numbers == {"--seed", "--bytes", "--max-depth", "--max-members", "--max-string",
            "--nesting-bias", "--adversarial-weight"}

GenOptions == Numbers \cup {"--intent"}

Aborted == 134   \* killed by SIGABRT, as a shell reports it

\* cmd_gen(): a negative length is a huge one, and reserve() throws out of main().  What the
\* other numbers make the generator do is in Generator (PickTraps is about the one that traps).
GenStatus ==
  LET g == Options(GenOptions)
  IN  IF ~g.ok \/ \E n \in Numbers \cap DOMAIN g.o : g.o[n] \notin DOMAIN Ints THEN 2
      ELSE IF "--bytes" \in DOMAIN g.o /\ Narrowed(Ints[g.o["--bytes"]]) < 0 THEN Aborted
      ELSE 0

OpNames == {"swap-members", "wrap-in-array"}

MutateOptions == {"--in", "--op", "--seed"}

\* cmd_mutate()
MutateStatus ==
  LET g == Options(MutateOptions)
      good == /\ g.ok /\ {"--in", "--op"} \subseteq DOMAIN g.o
              /\ g.o["--in"] \in DOMAIN Files /\ g.o["--op"] \in OpNames
              /\ "--seed" \in DOMAIN g.o => g.o["--seed"] \in DOMAIN Ints
  IN  IF good THEN 0 ELSE 2

Verb == IF argv = << >> THEN "none" ELSE argv[1]

Flags == {"--version", "--help", "-h", "--list-ops", "--list-suts"}

Exit(code) == status' = code /\ phase' = "exited"

Command ==
  /\ phase = "start" /\ Verb # "check"
  /\ Exit(CASE Verb \in Flags -> 0
            [] Verb = "gen" -> GenStatus
            [] Verb = "mutate" -> MutateStatus
            [] OTHER -> 2)
  /\ UNCHANGED <<vars, bytes, todo, res, guard, ran, argv>>

-----------------------------------------------------------------------------
CheckOptions == {"--sut", "--in"}
Asked == Options(CheckOptions)
Complete == Asked.ok /\ CheckOptions \subseteq DOMAIN Asked.o
AskedSut == Asked.o["--sut"]
AskedFile == Asked.o["--in"]

\* Mutant: the file is read before the SUT is created.
CheckRefusedFileFirst ==
  /\ phase = "start" /\ Verb = "check"
  /\ \/ ~Complete /\ Exit(2)
     \/ Complete /\ AskedFile \notin DOMAIN Files /\ Exit(2)
     \/ Complete /\ AskedFile \in DOMAIN Files /\ AskedSut \notin Registered /\ Exit(3)
  /\ UNCHANGED <<vars, bytes, todo, res, guard, ran, argv>>

\* cmd_check(), up to the probe: the SUT is created before the file is read.
CheckRefused ==
  /\ phase = "start" /\ Verb = "check"
  /\ \/ ~Complete /\ Exit(2)
     \/ Complete /\ AskedSut \notin Registered /\ Exit(3)
     \/ Complete /\ AskedSut \in Registered /\ AskedFile \notin DOMAIN Files /\ Exit(2)
  /\ UNCHANGED <<vars, bytes, todo, res, guard, ran, argv>>

\* The probe, of a SUT that accepts the text, or rejects it or throws: that is an outcome.
Probe(accepted) ==
  /\ phase = "start" /\ Verb = "check"
  /\ Complete /\ AskedSut \in Registered /\ AskedFile \in DOMAIN Files
  /\ IF accepted
     THEN CheckAllCalled(Files[AskedFile]) /\ phase' = "checking" /\ UNCHANGED status
     ELSE Exit(0) /\ UNCHANGED vars
  /\ UNCHANGED <<bytes, todo, res, guard, ran, argv>>

CliCheck == phase = "checking" /\ Next /\ UNCHANGED <<fuzzvars, clivars>>

\* The summary.
Summary ==
  /\ phase = "checking" /\ law = "done"
  /\ Exit(IF rep.violations = {} THEN 0 ELSE 1)
  /\ UNCHANGED <<vars, bytes, todo, res, guard, ran, argv>>

CliNext ==
  \/ Command
  \/ CheckRefused
  \/ \E accepted \in BOOLEAN : Probe(accepted)
  \/ CliCheck
  \/ Summary

CliInit == Init /\ FuzzIdle /\ phase = "start" /\ argv \in Argvs /\ status = Running

CliSpec == CliInit /\ [][CliNext]_<<vars, fuzzvars, clivars>>

-----------------------------------------------------------------------------
(* The options a command line gives, read off it at once: pairs, all of      *)
(* known names, the last of a name counting.                                 *)
Pairs == 1 .. Len(argv) \div 2
GivenAt(name) == {k \in Pairs : argv[2 * k] = name}
LastGiven(name) ==
  argv[2 * (CHOOSE k \in GivenAt(name) : \A j \in GivenAt(name) : j =< k) + 1]
WellFormed(known) == 2 * (Len(argv) \div 2) # Len(argv) /\ \A k \in Pairs : argv[2 * k] \in known

(* "An unknown flag or verb is a usage error (exit 2) — JSOM once shipped a  *)
(* CLI that swallowed unknown options and exited 0" (jsonfuzz_cli.cpp:23-25):*)
(* a verb that takes options exits with 2 when one of its arguments is       *)
(* unknown, or an option has no value, wherever in the line that is.         *)
UnknownIsUsageError ==
  phase = "exited" =>
    \/ status = 2
    \/ Verb \in Flags
    \/ Verb = "gen" /\ WellFormed(GenOptions)
    \/ Verb = "mutate" /\ WellFormed(MutateOptions)
    \/ Verb = "check" /\ WellFormed(CheckOptions)

(* "Exit codes: 0 ok, 1 an oracle violation, 2 usage error, 3 no such SUT"   *)
(* (print_help()): what check exits with says, whatever the SUT answered,    *)
(* which of the four it was - a bad line before an unknown SUT, an unknown   *)
(* SUT before a missing file, and 1 exactly when the report of the check has *)
(* a violation, the check being one of the file that was last asked for.     *)
StatusIsTheReport ==
  phase = "exited" /\ Verb = "check" =>
    IF ~WellFormed(CheckOptions) \/ \E name \in CheckOptions : GivenAt(name) = {}
    THEN status = 2
    ELSE IF LastGiven("--sut") \notin Registered THEN status = 3
    ELSE IF LastGiven("--in") \notin DOMAIN Files THEN status = 2
    ELSE /\ status = IF rep.violations = {} THEN 0 ELSE 1
         /\ status = 1 => input = Files[LastGiven("--in")] /\ law = "done"

(* An input the probe saw accepted is never summed up as one no law ran on:  *)
(* check_all() parses it once more, on a SUT that is no longer fresh.  Where *)
(* the strict rules accept it too, O7 runs as well.                          *)
ProbedIsChecked ==
  phase = "checking" /\ law = "done" =>
    /\ {"O1", "O2"} \subseteq Evaluated
    /\ input \in Strict => "O7" \in Evaluated
=============================================================================
