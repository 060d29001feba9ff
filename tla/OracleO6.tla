----------------------------- MODULE OracleO6 -----------------------------
(***************************************************************************)
(* check_number_text(): law O6, held only against a SUT that promises to   *)
(* preserve the text of numbers.  Every number token of the input must     *)
(* appear, as often, in the serialization of the reparsed document.        *)
(***************************************************************************)
EXTENDS Oracle

\* Mutant: the law is held against an input with a duplicated key.
O6DeclaredDoubled(ans) ==
  /\ Step("O6", "declared")
  /\ PreservesCall(ans)
  /\ Within
  /\ \/ ans = Threw /\ Return(Blamed("O6", "declaration threw", NoPointer))
     \/ ans = "no" /\ Skip("not declared")
     \/ ans = "yes" /\ comments /\ Skip("comments")
     \/ ans = "yes" /\ ~comments /\ input \notin Scannable /\ Skip("scan incomplete")
     \/ /\ ans = "yes" /\ ~comments /\ input \in Scannable
        /\ pc' = "parse" /\ UNCHANGED <<r, locals>>

\* Mutant: an unfinished scan that found nothing is read as "no duplicates".
O6DeclaredUnfinished(ans) ==
  /\ Step("O6", "declared")
  /\ PreservesCall(ans)
  /\ Within
  /\ \/ ans = Threw /\ Return(Blamed("O6", "declaration threw", NoPointer))
     \/ ans = "no" /\ Skip("not declared")
     \/ ans = "yes" /\ comments /\ Skip("comments")
     \/ ans = "yes" /\ ~comments /\ Dups[input] # {} /\ Skip("duplicated key")
     \/ /\ ans = "yes" /\ ~comments /\ Dups[input] = {}
        /\ pc' = "parse" /\ UNCHANGED <<r, locals>>

\* The declaration, and the three reasons not to hold the law against this input.
O6Declared(ans) ==
  /\ Step("O6", "declared")
  /\ PreservesCall(ans)
  /\ Within
  /\ \/ ans = Threw /\ Return(Blamed("O6", "declaration threw", NoPointer))
     \/ ans = "no" /\ Skip("not declared")
     \/ ans = "yes" /\ comments /\ Skip("comments")
     \/ ans = "yes" /\ ~comments /\ input \notin Scannable /\ Skip("scan incomplete")
     \/ /\ ans = "yes" /\ ~comments /\ input \in Scannable
        /\ Dups[input] # {} /\ Skip("duplicated key")
     \/ /\ ans = "yes" /\ ~comments /\ input \in Scannable
        /\ Dups[input] = {} /\ pc' = "parse" /\ UNCHANGED <<r, locals>>

O6Parse(ans) == AcceptedInput("O6", strict, "serialize", ans)

O6Serialize(ans) ==
  /\ Step("O6", "serialize")
  /\ SerializeCall(ans)
  /\ Within
  /\ \/ ans = Threw /\ Return(Blamed("O6", "serialize threw", NoPointer))
     \/ /\ ans # Threw
        /\ canonical' = ans /\ pc' = "reparse"
        /\ UNCHANGED <<r, ptrs, resolved, parents, i, count, modes>>

\* A canonical text that does not reparse is O1's finding, not this law's.
O6Reparse(ans) ==
  /\ Step("O6", "reparse")
  /\ ParseCall(canonical, strict, ans)
  /\ Within
  /\ \/ ans = "accepted" /\ pc' = "again" /\ UNCHANGED <<r, locals>>
     \/ ans # "accepted" /\ Skip("canonical does not reparse")

\* Mutant: a token is looked for, its occurrences are not counted.
LostTokensUncounted(c2) == {k \in Token : Tokens[input][k] > 0 /\ Tokens[c2][k] = 0}

\* The tokens of the input that c2 has too few of.
LostTokens(c2) == {k \in Token : Tokens[input][k] > Tokens[c2][k]}

O6Again(ans) ==
  /\ Step("O6", "again")
  /\ SerializeCall(ans)
  /\ Within
  /\ \/ ans = Threw /\ Return(Blamed("O6", "serialize threw", NoPointer))
     \/ /\ ans # Threw
        /\ Return([r EXCEPT !.evaluated = TRUE,
                            !.violations = @ \cup {Violates("O6", "number lost", NoPointer) :
                                                   k \in LostTokens(ans)}])

O6Next ==
  \/ \E ans \in BoolAnswers : O6Declared(ans)
  \/ \E ans \in ParseAnswers : O6Parse(ans) \/ O6Reparse(ans)
  \/ \E ans \in TextAnswers : O6Serialize(ans) \/ O6Again(ans)
=============================================================================
