------------------------------ MODULE Oracle ------------------------------
(***************************************************************************)
(* What the laws of src/jsonfuzz_oracle.cpp share: the routine that is     *)
(* running and how far it got, its LawResult, its local variables, the     *)
(* report check_all() collects, and the guarded SUT calls the routines     *)
(* have in common (accepted_input, serialized, enumerated).                *)
(*                                                                         *)
(* A routine is a sequence of SUT calls: one action is one call, and the   *)
(* code up to the next one.  O1 and O2 are one routine, check_v01().       *)
(* The vector of violations is kept as a set: its order is not observed.   *)
(***************************************************************************)
EXTENDS Sut

Law == {"O1", "O2", "O3", "O4", "O5", "O6", "O7"}
Routine == {"O1O2", "O3", "O4", "O5", "O6", "O7"}
kSetRemoveParents == 4
LawsOf(rt) == IF rt = "O1O2" THEN {"O1", "O2"} ELSE {rt}

CONSTANT Plans   \* the calls of the oracle's API: sequences of routines

ASSUME PlansAssumption == Plans \subseteq (Seq(Routine) \ {<< >>})

VARIABLES
  law,       \* the routine that is running, or "done"
  plan,      \* the routines still to run
  pc,        \* the step the routine is at
  r,         \* its LawResult
  rep,       \* the OracleReport
  \* locals of the routines
  canonical, \* the serialization a law compares with (once, canonical, c1, strict_text)
  ptrs,      \* the pointers still to visit
  resolved,  \* O2: the pointers and texts phase A collected
  parents,   \* O4: the parents still to write into
  i,         \* O4, O5: parents or modes done
  count,     \* O5: the number of modes the SUT claims
  modes      \* O5: the serializations captured

locals == <<canonical, ptrs, resolved, parents, i, count, modes>>
control == <<law, plan, pc, r, rep>>
vars == <<given, sutvars, control, locals>>

Steps == {"parse", "serialize", "reparse", "again", "pointers", "walk", "reget",
          "choose", "write", "get", "remove", "after", "restore", "reserialize",
          "count", "capture", "same", "twice", "declared", "lazy", "lazytext",
          "return"}

Reasons == {"", "rejected", "parse threw", "reference cannot model", "no container",
            "no write path", "single mode", "not declared", "comments",
            "scan incomplete", "duplicated key", "canonical does not reparse"}

NoResult == [violations |-> {}, evaluated |-> FALSE, reason |-> ""]

\* The messages, as far as the code tells outcomes apart.
Messages == {"serialize threw", "pointers threw", "get threw", "set threw", "remove threw",
             "mode count threw", "mode threw", "declaration threw", "lazy threw",
             "does not reparse", "not byte-identical", "no value", "not in the reference",
             "disagrees", "set refused", "did not take", "remove refused",
             "not the canonical text", "different document", "not byte-stable",
             "number lost", "lazy rejected", "texts differ"}

Violation == [law : Law, what : Messages, ptr : Pointer \cup {NoPointer}]

Violates(L, what, p) == [law |-> L, what |-> what, ptr |-> p]

Blamed(L, what, p) == [r EXCEPT !.violations = @ \cup {Violates(L, what, p)}]

FirstStep(rt) ==
  CASE rt = "O5" -> "count"
    [] rt = "O6" -> "declared"
    [] OTHER     -> "parse"

Step(rt, s) == law = rt /\ pc = s

-----------------------------------------------------------------------------
NoLocals ==
  /\ canonical = NoText /\ ptrs = << >> /\ resolved = << >>
  /\ parents = << >> /\ i = 0 /\ count = 0 /\ modes = << >>

OracleInit ==
  /\ \E p \in Plans : law = Head(p) /\ plan = Tail(p) /\ pc = FirstStep(Head(p))
  /\ r = NoResult
  /\ rep = [violations |-> {},
            evaluated |-> [L \in Law |-> FALSE],
            reasons |-> [L \in Law |-> ""]]
  /\ NoLocals

\* Stays within the running routine.
Within == UNCHANGED <<given, law, plan, rep>>

\* The routine returns what it has found so far; its locals die in Add.
Return(result) ==
  /\ r' = result /\ pc' = "return"
  /\ UNCHANGED locals

Skip(reason) == Return([r EXCEPT !.reason = reason])

\* accepted_input(): a rejection, or a throw, is a skip.
AcceptedInput(rt, st, next, ans) ==
  /\ Step(rt, "parse")
  /\ ParseCall(input, st, ans)
  /\ Within
  /\ CASE ans = "accepted" -> pc' = next /\ UNCHANGED <<r, locals>>
       [] ans = "rejected" -> Skip("rejected")
       [] ans = Threw    -> Skip("parse threw")

\* Mutant: the throw of pointers() is O2's, whichever law enumerates.
EnumeratedForO2(rt, next, result, ans) ==
  /\ Step(rt, "pointers")
  /\ PointersCall(ans)
  /\ Within
  /\ \/ /\ ans = Threw
        /\ Return(Blamed("O2", "pointers threw", NoPointer))
     \/ /\ ans # Threw
        /\ ptrs' = ans /\ pc' = next /\ r' = result
        /\ UNCHANGED <<canonical, resolved, parents, i, count, modes>>

\* enumerated(), for the laws that then visit the pointers in order.
Enumerated(rt, next, result, ans) ==
  /\ Step(rt, "pointers")
  /\ PointersCall(ans)
  /\ Within
  /\ \/ /\ ans = Threw
        /\ Return(Blamed(rt, "pointers threw", NoPointer))
     \/ /\ ans # Threw
        /\ ptrs' = ans /\ pc' = next /\ r' = result
        /\ UNCHANGED <<canonical, resolved, parents, i, count, modes>>

-----------------------------------------------------------------------------
\* check_all(), add(): the LawResult copied into the report.  check_v01() hands back its
\* violations and whether the input was accepted; no reason is recorded for O1 and O2.
WithFindings(found) ==
  [violations |-> found,
   evaluated |-> [L \in Law |-> IF L \in LawsOf(law) THEN r.evaluated ELSE rep.evaluated[L]],
   reasons |-> [L \in Law |-> IF L \in LawsOf(law) THEN r.reason ELSE rep.reasons[L]]]

\* Mutant: the violations of the last law are the report's.
MergedLast == WithFindings(r.violations)

Merged == WithFindings(rep.violations \cup r.violations)

\* Then the next law runs.
Add ==
  /\ pc = "return" /\ law # "done"
  /\ rep' = Merged
  /\ law' = IF plan = << >> THEN "done" ELSE Head(plan)
  /\ plan' = IF plan = << >> THEN << >> ELSE Tail(plan)
  /\ pc' = IF plan = << >> THEN "return" ELSE FirstStep(Head(plan))
  /\ r' = NoResult
  /\ canonical' = NoText /\ ptrs' = << >> /\ resolved' = << >>
  /\ parents' = << >> /\ i' = 0 /\ count' = 0 /\ modes' = << >>
  /\ log' = << >>
  /\ UNCHANGED <<given, model, honest>>
=============================================================================
