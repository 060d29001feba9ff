---------------------------- MODULE OracleO1O2 ----------------------------
(***************************************************************************)
(* check_v01(): the fixed-point law O1 and the pointer contract O2.        *)
(*                                                                         *)
(* The input parse is the only call whose throw means "nothing to check".  *)
(* O2 has two phases: phase A gets every pointer from one model, phase B   *)
(* reparses the texts it got, which replaces the model.                    *)
(***************************************************************************)
EXTENDS Oracle

\* A rejection is an outcome, not a finding; so is a throw.  r.evaluated is `accepted`.
V01Parse(ans) ==
  /\ Step("O1O2", "parse")
  /\ ParseCall(input, strict, ans)
  /\ Within
  /\ \/ /\ ans = "accepted"
        /\ r' = [r EXCEPT !.evaluated = TRUE] /\ pc' = "serialize"
        /\ UNCHANGED locals
     \/ ans # "accepted" /\ Return(r)

V01Serialize(ans) ==
  /\ Step("O1O2", "serialize")
  /\ SerializeCall(ans)
  /\ Within
  /\ \/ ans = Threw /\ Return(Blamed("O1", "serialize threw", NoPointer))
     \/ /\ ans # Threw
        /\ canonical' = ans /\ pc' = "reparse"
        /\ UNCHANGED <<r, ptrs, resolved, parents, i, count, modes>>

\* Mutant: the outcome of the reparse is not looked at.
V01ReparseTrusting(ans) ==
  /\ Step("O1O2", "reparse")
  /\ ParseCall(canonical, strict, ans)
  /\ Within /\ UNCHANGED <<r, locals>>
  /\ pc' = "again"

\* safe_parse(): a throw counts as a rejection here.
V01Reparse(ans) ==
  /\ Step("O1O2", "reparse")
  /\ ParseCall(canonical, strict, ans)
  /\ Within /\ UNCHANGED locals
  /\ \/ ans = "accepted" /\ pc' = "again" /\ r' = r
     \/ /\ ans # "accepted" /\ pc' = "pointers"
        /\ r' = Blamed("O1", "does not reparse", NoPointer)

\* A throw is turned into the empty text, and compared like an answer.
V01Again(ans) ==
  /\ Step("O1O2", "again")
  /\ SerializeCall(ans)
  /\ Within /\ UNCHANGED locals
  /\ LET twice == IF ans = Threw THEN EmptyText ELSE ans
     IN  r' = IF twice = canonical THEN r
              ELSE Blamed("O1", "not byte-identical", NoPointer)
  /\ pc' = "pointers"

V01Pointers(ans) ==
  /\ Step("O1O2", "pointers")
  /\ PointersCall(ans)
  /\ Within
  /\ \/ ans = Threw /\ Return(Blamed("O2", "pointers threw", NoPointer))
     \/ /\ ans # Threw
        /\ ptrs' = ans /\ pc' = "walk"
        /\ UNCHANGED <<r, canonical, resolved, parents, i, count, modes>>

\* Phase A, one pointer.
V01Get(ans) ==
  /\ Step("O1O2", "walk") /\ ptrs # << >>
  /\ GetCall(Head(ptrs), ans)
  /\ Within /\ pc' = pc
  /\ \/ /\ ans \in Text
        /\ resolved' = Append(resolved, [ptr |-> Head(ptrs), text |-> ans])
        /\ r' = r
     \/ /\ ans \notin Text
        /\ r' = Blamed("O2", IF ans = Threw THEN "get threw" ELSE "no value", Head(ptrs))
        /\ resolved' = resolved
  /\ ptrs' = Tail(ptrs)
  /\ UNCHANGED <<canonical, parents, i, count, modes>>

V01PhaseB ==
  /\ Step("O1O2", "walk") /\ ptrs = << >>
  /\ pc' = "reget"
  /\ Within /\ UNCHANGED <<sutvars, r, locals>>

\* Mutant: a throw of the phase B parse is taken for "nothing to check".
V01GetReparseForgiving(ans) ==
  /\ Step("O1O2", "reget") /\ resolved # << >>
  /\ ParseCall(Head(resolved).text, strict, ans)
  /\ Within /\ pc' = pc
  /\ r' = IF ans \in {"accepted", Threw} THEN r
          ELSE Blamed("O2", "does not reparse", Head(resolved).ptr)
  /\ resolved' = Tail(resolved)
  /\ UNCHANGED <<canonical, ptrs, parents, i, count, modes>>

\* Phase B, one collected text.
V01GetReparse(ans) ==
  /\ Step("O1O2", "reget") /\ resolved # << >>
  /\ ParseCall(Head(resolved).text, strict, ans)
  /\ Within /\ pc' = pc
  /\ r' = IF ans = "accepted" THEN r
          ELSE Blamed("O2", "does not reparse", Head(resolved).ptr)
  /\ resolved' = Tail(resolved)
  /\ UNCHANGED <<canonical, ptrs, parents, i, count, modes>>

V01Done ==
  /\ Step("O1O2", "reget") /\ resolved = << >>
  /\ Within /\ UNCHANGED sutvars
  /\ Return(r)

V01Next ==
  \/ \E ans \in ParseAnswers : V01Parse(ans) \/ V01Reparse(ans) \/ V01GetReparse(ans)
  \/ \E ans \in TextAnswers : V01Serialize(ans) \/ V01Again(ans)
  \/ \E ans \in PointersAnswers : V01Pointers(ans)
  \/ \E ans \in GetAnswers : V01Get(ans)
  \/ V01PhaseB
  \/ V01Done
=============================================================================
