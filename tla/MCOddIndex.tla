----------------------------- MODULE MCOddIndex -----------------------------
(* Indices RFC 6901 does not allow, or no array of these reaches: 16 is 2^4. *)
EXTENDS ToySut

One == Leaf("1")
Pair == Arr(<<One, Leaf("0")>>)
Twice == Obj(<<Member("a", Pair), Member("\\u0061", One)>>)

MCDecoded == ("\\u0061" :> "a") @@ ("\\\"" :> "\"")
MCEncoded == ("\"" :> "\\\"")
OddTexts == {Malformed, One, Twice, Arr(<<Twice, Pair>>)}
OddDigits == ("0" :> <<0>>) @@ ("1" :> <<1>>) @@ ("01" :> <<0, 1>>) @@ ("16" :> <<1, 6>>)
OddPaths == {<<"0">>, <<"01">>, <<"16">>}
=============================================================================
