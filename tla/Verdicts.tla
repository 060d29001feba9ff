------------------------------ MODULE Verdicts ------------------------------
(***************************************************************************)
(* What a call of the oracle's API promises (oracle.hpp:81-104), whatever  *)
(* the SUT answers: the routines it names run once each and in order, a    *)
(* routine speaks for its own laws and for no other, nothing found is      *)
(* taken back, and the call returns.  CheckAll implements it.              *)
(***************************************************************************)
EXTENDS Sequences

CONSTANTS
  Law,      \* the laws a report speaks of
  Routine,  \* what the oracle runs
  Covers    \* the laws a routine speaks for

VARIABLES
  todo,     \* the routines that have not reported yet
  blamed,   \* the laws with a violation in the report
  ran       \* the laws the report says were evaluated

account == <<todo, blamed, ran>>

VerdictInit ==
  /\ todo \in Seq(Routine) \ {<< >>}
  /\ blamed = {} /\ ran = {}

\* The next routine reports: it blames some of its laws, and either ran or did not.
Report ==
  /\ todo # << >>
  /\ todo' = Tail(todo)
  /\ \E found \in SUBSET Covers[Head(todo)] : blamed' = blamed \cup found
  /\ \E counted \in {{}, Covers[Head(todo)]} : ran' = (ran \ Covers[Head(todo)]) \cup counted

VerdictSteps == VerdictInit /\ [][Report]_account
VerdictSpec == VerdictSteps /\ WF_account(Report)
=============================================================================
