----------------------------- MODULE CheckAll -----------------------------
(***************************************************************************)
(* check_all(), and check() and the check_*() routines on their own: one   *)
(* oracle call, against a SUT that may lie and throw, and what the report  *)
(* is worth.                                                               *)
(***************************************************************************)
EXTENDS OracleO1O2, OracleO3, OracleO4, OracleO5, OracleO6, OracleO7,
        Laws

Init == SutInit /\ OracleInit

Next == V01Next \/ O3Next \/ O4Next \/ O5Next \/ O6Next \/ O7Next \/ Add

\* Every SUT call returns or throws, and the oracle runs on: weak fairness of its steps.
Spec == Init /\ [][Next]_vars /\ WF_vars(Next)

-----------------------------------------------------------------------------
(* Types, with the bounds the code keeps: at most kSetRemoveParents parents, *)
(* a law with a skip reason is not evaluated.                                *)
Resolved == [ptr : Pointer, text : Text]
Parent == [ptr : Pointer, node : Container]
Result == [violations : SUBSET Violation, evaluated : BOOLEAN, reason : Reasons]
Report == [violations : SUBSET Violation,
           evaluated : [Law -> BOOLEAN], reasons : [Law -> Reasons]]

TypeOK ==
  /\ input \in Text /\ strict \in BOOLEAN /\ comments \in BOOLEAN
  /\ offers \in Offered
  /\ model \in Model /\ honest \in BOOLEAN
  /\ law \in Routine \cup {"done"} /\ plan \in Seq(Routine) /\ pc \in Steps
  /\ r \in Result /\ rep \in Report
  /\ canonical \in Text \cup {NoText}
  /\ ptrs \in Seq(Pointer) /\ resolved \in Seq(Resolved)
  /\ parents \in Seq(Parent) /\ Len(parents) =< kSetRemoveParents
  /\ i \in Nat /\ count \in 0 .. MaxModes
  /\ modes \in Seq(Text) /\ Len(modes) =< count

-----------------------------------------------------------------------------
(* No false alarm.  A SUT that answers every call of the whole run as the    *)
(* contract in sut.hpp allows, and offers remove() whenever it offers set(), *)
(* is never blamed by any law: not because phase B replaced the model, not   *)
(* because the reference keeps another duplicate, not because a number was   *)
(* re-spelled by a SUT that never promised to keep it.                       *)
WritePathWhole == offers.set => offers.remove
NoFalseAlarm ==
  honest /\ WritePathWhole => rep.violations = {} /\ r.violations = {}

(* sut.hpp:76-77, README: a SUT that does not offer an optional capability   *)
(* is skipped by the law that needs it, never failed by it.                  *)
UnofferedIsSkipped == honest => rep.violations = {} /\ r.violations = {}

(* O4 writes to an honest SUT only where nothing is: the pointer it sets     *)
(* does not resolve in the document the SUT holds, and nothing written       *)
(* earlier is left in it (oracle.hpp:120-123).                               *)
WritesAreFresh ==
  honest /\ Step("O4", "write") /\ parents # << >> =>
    /\ Untouched
    /\ FreshPointer \in Addable[model.doc]

(* O4's next write, to any SUT, starts from the text it will be compared     *)
(* with: whatever went wrong under the previous parent, the last thing the   *)
(* SUT did was serialize the document as `canonical`, with no write since    *)
(* ("After a violation the model is unknown: put the canonical document      *)
(* back", oracle.cpp:575).                                                   *)
WritesStartFromCanonical ==
  Step("O4", "write") /\ parents # << >> =>
    LET writes == {k \in 1 .. Len(log) : log[k].op \in {"set", "remove"}}
        spelt  == {k \in 1 .. Len(log) : log[k].op = "serialize" /\ log[k].ans = canonical}
    IN  \E k \in spelt : \A w \in writes : w < k

(* A skipped law is not an evaluated one: no report gives a reason for not   *)
(* running a law it says ran, in whatever order capabilities came and went   *)
(* during the law (oracle.hpp:72-79).                                        *)
SkippedIsNotEvaluated ==
  \A L \in Law : ~(rep.evaluated[L] /\ rep.reasons[L] # "")

(* No violation is ever dropped, from a running law or from the report, and  *)
(* the report's account of a law is changed by that law's routine only.      *)
NothingLost ==
  /\ rep.violations \subseteq rep'.violations
  /\ r.violations \subseteq r'.violations \cup rep'.violations
  /\ \A L \in Law \ LawsOf(law) :
       rep'.evaluated[L] = rep.evaluated[L] /\ rep'.reasons[L] = rep.reasons[L]
FindingsStay == [][NothingLost]_<<rep, r>>

(* A law that ran has the verdict its statement deserves on the calls that   *)
(* were made, whatever the SUT is: no violation of it exactly when the SUT's *)
(* answers satisfied it.  Two cases are left out: O1 takes a throw of the    *)
(* second serialize() for the empty text (ThrowIsNoPass), and O2 counts as   *)
(* evaluated also when O1 ended the routine before it.                       *)
BlankThenThrew == Answer(2) = EmptyText /\ Answer(3) = "accepted" /\ Answer(4) = Threw
VerdictMatchesLaw ==
  pc = "return" /\ law # "done" /\ r.evaluated =>
    \A L \in LawsOf(law) :
      \/ L = "O1" /\ BlankThenThrew
      \/ L = "O2" /\ Calls("pointers") = {}
      \/ (\A v \in r.violations : v.law # L) <=> LawHeld(L)

ThrewLater == \E k \in LaterCalls : log[k].ans = Threw

(* oracle.cpp:22-24: the guard around a SUT call "converts a failure into a  *)
(* REPORTED violation — it never converts a wrong answer into a pass".  A    *)
(* routine that ran and reports nothing saw no throw after the input parse.  *)
ThrowIsNoPass ==
  pc = "return" /\ law # "done" /\ r.evaluated /\ ThrewLater => r.violations # {}

(* All but one, that is: the empty text that stands for a thrown second      *)
(* serialize() and equals the first one.  No other throw, in no other place  *)
(* of the seven laws, goes without a finding or takes the law back.          *)
OnlyBlankThrowPasses == ThrowIsNoPass \/ (law = "O1O2" /\ BlankThenThrew)

(* check_all() returns: whatever the SUT answers, each loop runs out.        *)
Terminates == <>(law = "done")

(* What is left to do, most significant first: routines, stages of the       *)
(* running one, rounds of its loop, calls of the round.                      *)
InLoop ==
  \/ pc \in {"write", "get", "remove", "after", "restore", "reserialize", "same", "twice"}
  \/ law = "O5" /\ pc = "reparse"
RoutinesLeft == Len(plan) + IF law = "done" THEN 0 ELSE 1
StagesLeft ==
  CASE pc = "return"                             -> 0
    [] InLoop \/ pc \in {"reget", "lazytext"}    -> 1
    [] pc \in {"walk", "choose", "capture", "lazy"} -> 2
    [] pc = "pointers"                           -> 3
    [] pc = "again"                              -> 4
    [] pc = "reparse" /\ ~InLoop                 -> 5
    [] pc = "serialize"                          -> 6
    [] pc = "parse"                              -> 7
    [] pc \in {"count", "declared"}              -> 8
RoundsLeft ==
  CASE pc \in {"walk", "choose"} -> Len(ptrs)
    [] pc = "reget"              -> Len(resolved)
    [] pc = "capture"            -> count - Len(modes)
    [] InLoop /\ law = "O4"      -> Len(parents)
    [] InLoop /\ law = "O5"      -> Len(modes) - i
    [] OTHER                     -> 0
CallsLeft ==
  CASE pc = "write"             -> 5
    [] pc = "get"               -> 4
    [] pc = "remove"            -> 3
    [] pc = "after"             -> 2
    [] pc = "restore"           -> 1
    [] InLoop /\ pc = "reparse" -> 2
    [] InLoop /\ pc = "same"    -> 1
    [] OTHER                    -> 0
Left == <<RoutinesLeft, StagesLeft, RoundsLeft, CallsLeft>>

(* Each step uses up some of it, whatever the SUT answered: no retry without *)
(* an end, no round that is taken twice, no routine that starts over.  So    *)
(* check_all() takes finitely many steps, and no list is read past its end.  *)
Spends ==
  /\ \A k \in 1 .. 4 : Left[k] \in Nat
  /\ \E k \in 1 .. 4 : Left'[k] < Left[k] /\ \A j \in 1 .. k - 1 : Left'[j] = Left[j]
EveryStepSpends == [][Spends]_vars

(* The report keeps what the API promises (Verdicts): every routine of the   *)
(* call reports once, in order, blames only the laws it speaks for and       *)
(* records only them as run, loses no blame, and the call ends - through     *)
(* every throw, skip and lie of the SUT (oracle.hpp:81-104).                 *)
Verdict == INSTANCE Verdicts WITH
  todo <- IF law = "done" THEN << >> ELSE <<law>> \o plan,
  blamed <- {v.law : v \in rep.violations},
  ran <- {L \in Law : rep.evaluated[L]},
  Covers <- [rt \in Routine |-> LawsOf(rt)]
ReportsVerdicts == Verdict!VerdictSpec
=============================================================================
