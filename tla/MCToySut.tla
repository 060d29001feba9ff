------------------------------ MODULE MCToySut ------------------------------
(* A small instance of ToySut and of the store it implements.                *)
EXTENDS ToyStore, ToyListing

One == Leaf("1")
Pair == Arr(<<One, Leaf("0")>>)
Twice == Obj(<<Member("a", Pair), Member("\\u0061", One)>>)
Deep == Arr(<<Arr(<<Arr(<<Arr(<<One>>)>>)>>)>>)

MCDecoded == ("\\u0061" :> "a") @@ ("\\\"" :> "\"")
MCEncoded == ("\"" :> "\\\"")
MCDigits ==
  [token \in {ToString(n) : n \in 0 .. 15} |->
     LET n == CHOOSE n \in 0 .. 15 : ToString(n) = token
     IN  IF n < 10 THEN <<n>> ELSE <<1, n - 10>>]
Nested == Arr(<<Twice, Pair>>)
MCTexts == {Malformed, One, Twice, Nested, Deep}
MCPaths ==
  {NotAPointer, << >>, <<"\"">>, <<"a">>, <<"0">>, <<"1">>, <<"2">>, <<"-">>, <<"a", "0">>,
   <<"a", "-">>, <<"0", "a">>, <<"1", "0">>, <<"1", "3">>, <<"\"", "-">>}
=============================================================================
