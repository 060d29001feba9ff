----------------------------- MODULE OracleO5 -----------------------------
(***************************************************************************)
(* check_mode_agreement(): law O5.  Every serialization mode is captured   *)
(* from one model; each capture must reparse to the same document and be   *)
(* spelled the same way again by the reparse.                              *)
(***************************************************************************)
EXTENDS Oracle

fixedO5 == <<canonical, ptrs, resolved, parents, count>>

\* Mutant: two modes count as one.
O5CountThree(ans) ==
  /\ Step("O5", "count")
  /\ ModeCountCall(ans)
  /\ Within
  /\ \/ ans = Threw /\ Return(Blamed("O5", "mode count threw", NoPointer))
     \/ ans # Threw /\ ans < 3 /\ Skip("single mode")
     \/ ans # Threw /\ ans >= 3
        /\ count' = ans /\ pc' = "parse"
        /\ UNCHANGED <<r, canonical, ptrs, resolved, parents, i, modes>>

O5Count(ans) ==
  /\ Step("O5", "count")
  /\ ModeCountCall(ans)
  /\ Within
  /\ \/ ans = Threw /\ Return(Blamed("O5", "mode count threw", NoPointer))
     \/ ans # Threw /\ ans < 2 /\ Skip("single mode")
     \/ ans # Threw /\ ans >= 2
        /\ count' = ans /\ pc' = "parse"
        /\ UNCHANGED <<r, canonical, ptrs, resolved, parents, i, modes>>

O5Parse(ans) == AcceptedInput("O5", strict, "serialize", ans)

O5Serialize(ans) ==
  /\ Step("O5", "serialize")
  /\ SerializeCall(ans)
  /\ Within
  /\ \/ ans = Threw /\ Return(Blamed("O5", "serialize threw", NoPointer))
     \/ /\ ans # Threw
        /\ canonical' = ans /\ pc' = "capture"
        /\ UNCHANGED <<r, ptrs, resolved, parents, i, count, modes>>

\* One mode of the capture loop, before any reparse replaces the model.
O5Capture(ans) ==
  /\ Step("O5", "capture") /\ Len(modes) < count
  /\ SerializeModeCall(Len(modes), ans)
  /\ Within
  /\ \/ ans = Threw /\ Return(Blamed("O5", "mode threw", NoPointer))
     \/ /\ ans # Threw
        /\ modes' = Append(modes, ans)
        /\ UNCHANGED <<pc, r, i, fixedO5>>

O5Captured ==
  /\ Step("O5", "capture") /\ Len(modes) = count
  /\ r' = [r EXCEPT !.evaluated = TRUE] /\ pc' = "reparse"
  /\ Within /\ UNCHANGED <<sutvars, locals>>

\* The loop goes on to the next mode.
NextMode == pc' = "reparse" /\ i' = i + 1 /\ UNCHANGED <<modes, fixedO5>>

Once == modes[i + 1]

O5Reparse(ans) ==
  /\ Step("O5", "reparse") /\ i < Len(modes)
  /\ ParseCall(Once, strict, ans)
  /\ Within
  /\ \/ ans = "accepted" /\ pc' = "same" /\ UNCHANGED <<r, locals>>
     \/ ans # "accepted" /\ r' = Blamed("O5", "does not reparse", NoPointer) /\ NextMode

O5Same(ans) ==
  /\ Step("O5", "same")
  /\ SerializeCall(ans)
  /\ Within
  /\ \/ ans = Threw /\ Return(Blamed("O5", "serialize threw", NoPointer))
     \/ /\ ans # Threw
        /\ r' = IF ans = canonical THEN r
                ELSE Blamed("O5", "different document", NoPointer)
        /\ pc' = "twice" /\ UNCHANGED locals

O5Twice(ans) ==
  /\ Step("O5", "twice")
  /\ SerializeModeCall(i, ans)
  /\ Within
  /\ r' = IF ans = Once THEN r
          ELSE Blamed("O5", IF ans = Threw THEN "mode threw" ELSE "not byte-stable", NoPointer)
  /\ NextMode

O5Done ==
  /\ Step("O5", "reparse") /\ i = Len(modes)
  /\ Within /\ UNCHANGED sutvars
  /\ Return(r)

O5Next ==
  \/ \E ans \in CountAnswers : O5Count(ans)
  \/ \E ans \in ParseAnswers : O5Parse(ans) \/ O5Reparse(ans)
  \/ \E ans \in TextAnswers : \/ O5Serialize(ans) \/ O5Capture(ans)
                              \/ O5Same(ans) \/ O5Twice(ans)
  \/ O5Captured \/ O5Done
=============================================================================
