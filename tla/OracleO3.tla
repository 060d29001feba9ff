----------------------------- MODULE OracleO3 -----------------------------
(***************************************************************************)
(* check_pointer_values(): law O3.  Every enumerated pointer is walked in  *)
(* the reference's reading of the canonical text, and get() must serialize *)
(* a value the reference reads as equal.                                   *)
(***************************************************************************)
EXTENDS Oracle

O3Parse(ans) == AcceptedInput("O3", strict, "serialize", ans)

\* serialized(), then reference_parse(): a text it cannot model is a skip.
O3Serialize(ans) ==
  /\ Step("O3", "serialize")
  /\ SerializeCall(ans)
  /\ Within
  /\ \/ ans = Threw /\ Return(Blamed("O3", "serialize threw", NoPointer))
     \/ /\ ans # Threw /\ Ref[ans] = NoValue
        /\ Skip("reference cannot model")
     \/ /\ ans # Threw /\ Ref[ans] # NoValue
        /\ canonical' = ans /\ pc' = "pointers"
        /\ UNCHANGED <<r, ptrs, resolved, parents, i, count, modes>>

O3Pointers(ans) == Enumerated("O3", "walk", [r EXCEPT !.evaluated = TRUE], ans)

Expected == RefAt[Ref[canonical]][Head(ptrs)]

NextPointer ==
  /\ ptrs' = Tail(ptrs)
  /\ pc' = pc
  /\ Within /\ UNCHANGED <<canonical, resolved, parents, i, count, modes>>

\* through_duplicate(): the reference keeps the last duplicate, a SUT may keep the first.
O3PassOver ==
  /\ Step("O3", "walk") /\ ptrs # << >>
  /\ Head(ptrs) \in Dups[canonical]
  /\ NextPointer /\ UNCHANGED <<sutvars, r>>

O3Unresolved ==
  /\ Step("O3", "walk") /\ ptrs # << >>
  /\ Head(ptrs) \notin Dups[canonical]
  /\ Expected = NoValue
  /\ r' = Blamed("O3", "not in the reference", Head(ptrs))
  /\ NextPointer /\ UNCHANGED sutvars

GetFault(ans) ==
  CASE ans = Threw  -> "get threw"
    [] ans = NoText -> "no value"
    [] OTHER        -> "disagrees"

O3Get(ans) ==
  /\ Step("O3", "walk") /\ ptrs # << >>
  /\ Head(ptrs) \notin Dups[canonical]
  /\ Expected # NoValue
  /\ GetCall(Head(ptrs), ans)
  /\ r' = IF ans \in Text /\ Ref[ans] = Expected THEN r
          ELSE Blamed("O3", GetFault(ans), Head(ptrs))
  /\ NextPointer

O3Done ==
  /\ Step("O3", "walk") /\ ptrs = << >>
  /\ Within /\ UNCHANGED sutvars
  /\ Return(r)

O3Next ==
  \/ \E ans \in ParseAnswers : O3Parse(ans)
  \/ \E ans \in TextAnswers : O3Serialize(ans)
  \/ \E ans \in PointersAnswers : O3Pointers(ans)
  \/ O3PassOver \/ O3Unresolved
  \/ \E ans \in GetAnswers : O3Get(ans)
  \/ O3Done
=============================================================================
