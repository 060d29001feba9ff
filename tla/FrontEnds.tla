----------------------------- MODULE FrontEnds -----------------------------
(***************************************************************************)
(* The three callers of check_all(): a program that links the library (any *)
(* configuration, any registered SUT), the command line, the fuzz target.  *)
(***************************************************************************)
EXTENDS Cli, ToyOracle

\* The registry is filled once, before main(), with the SUTs ToyOracle has the code of.
ASSUME RegistryAssumption == Registered = Suts

Idle ==
  /\ strict = FALSE /\ comments = FALSE
  /\ input = CHOOSE text \in Inputs : TRUE
  /\ sut = "toy"

FrontInit ==
  /\ ToyInit /\ FuzzIdle /\ status = Running
  /\ \/ phase = "library" /\ argv = << >>
     \/ phase = "idle" /\ argv = << >> /\ Idle
     \/ phase = "start" /\ argv \in Argvs /\ Idle

Library == phase = "library" /\ ToyNext /\ UNCHANGED <<fuzzvars, clivars>>

\* check_text() and toy_accepts(): each has a toy of its own.
ToysFuzzed ==
  IF todo' # todo THEN sut' = "toy" /\ held' = Nowhere
  ELSE /\ ToyReplies
       /\ guard' # guard =>
            res'.accept \cap {1, 2} = {k \in {1, 2} : ToyAccepts(TreeOf(Primary(k)))}

FuzzToy == FuzzNext /\ ToysFuzzed /\ UNCHANGED clivars

\* cmd_check() has one SUT, which keeps what the probe left in it.
ToyCommand ==
  \/ (Command \/ CheckRefused \/ Summary) /\ UNCHANGED toyvars
  \/ \E accepted \in BOOLEAN :
       /\ Probe(accepted)
       /\ accepted = (ToyParse(Files[AskedFile]) = "accepted")
       /\ IF accepted THEN sut' = AskedSut /\ held' = TreeOf(Files[AskedFile])
          ELSE UNCHANGED toyvars
  \/ CliCheck /\ ToyReplies

FrontNext == Library \/ FuzzToy \/ ToyCommand

frontvars == <<vars, toyvars, fuzzvars, clivars>>

FrontSpec == FrontInit /\ [][FrontNext]_frontvars /\ WF_frontvars(FrontNext)

-----------------------------------------------------------------------------
\* What "check" was asked, and could be asked: a registered SUT and a file that can be read.
WellAsked ==
  /\ Verb = "check" /\ WellFormed(CheckOptions)
  /\ \A name \in CheckOptions : GivenAt(name) # {}
  /\ LastGiven("--sut") \in Suts /\ LastGiven("--in") \in DOMAIN Files

(* The exit status, end to end: check exits with 1 exactly when the SUT that *)
(* was asked for is one of the broken ones and the file it was asked about   *)
(* shows it, whatever the probe left in the SUT.                             *)
StatusIsTheVerdict ==
  phase = "exited" /\ WellAsked =>
    LET d == TreeOf(Files[LastGiven("--in")])
        name == LastGiven("--sut")
    IN  status = IF \/ name = "broken-comma" /\ ToyAccepts(d) /\ IsContainer(d)
                    \/ /\ name = "broken-sibling" /\ ToyAccepts(d)
                       /\ Ref[Canon[d]] # NoValue /\ Misread(d)
                 THEN 1 ELSE 0

(* Every program ends: a check returns, a campaign of so many inputs exits,  *)
(* a command has a status.                                                   *)
ProgramsEnd ==
  <>(phase \in {"exited", "passed", "starved", "trapped"} \/ (phase = "library" /\ law = "done"))
=============================================================================
