----------------------------- MODULE OracleO7 -----------------------------
(***************************************************************************)
(* check_strict_subset(): law O7.  What a strict parse accepts, a lazy     *)
(* parse must accept too, as the same document; one direction only.        *)
(***************************************************************************)
EXTENDS Oracle

O7Strict(ans) == AcceptedInput("O7", TRUE, "serialize", ans)

O7StrictText(ans) ==
  /\ Step("O7", "serialize")
  /\ SerializeCall(ans)
  /\ Within
  /\ \/ ans = Threw /\ Return(Blamed("O7", "serialize threw", NoPointer))
     \/ /\ ans # Threw
        /\ r' = [r EXCEPT !.evaluated = TRUE]
        /\ canonical' = ans /\ pc' = "lazy"
        /\ UNCHANGED <<ptrs, resolved, parents, i, count, modes>>

O7Lazy(ans) ==
  /\ Step("O7", "lazy")
  /\ ParseCall(input, FALSE, ans)
  /\ Within
  /\ CASE ans = "accepted" -> pc' = "lazytext" /\ UNCHANGED <<r, locals>>
       [] ans = "rejected" -> Return(Blamed("O7", "lazy rejected", NoPointer))
       [] ans = Threw    -> Return(Blamed("O7", "lazy threw", NoPointer))

O7LazyText(ans) ==
  /\ Step("O7", "lazytext")
  /\ SerializeCall(ans)
  /\ Within
  /\ \/ ans = Threw /\ Return(Blamed("O7", "serialize threw", NoPointer))
     \/ ans = canonical /\ Return(r)
     \/ /\ ans \notin {Threw, canonical}
        /\ Return(Blamed("O7", "texts differ", NoPointer))

O7Next ==
  \/ \E ans \in ParseAnswers : O7Strict(ans) \/ O7Lazy(ans)
  \/ \E ans \in TextAnswers : O7StrictText(ans) \/ O7LazyText(ans)
=============================================================================
