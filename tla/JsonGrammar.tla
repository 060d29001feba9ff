---------------------------- MODULE JsonGrammar ----------------------------
(***************************************************************************)
(* The grammar of RFC 8259 over the symbols of JsonText, stated as what a  *)
(* text is made of, and the promises of the toy's parser and serializers   *)
(* in its terms.                                                           *)
(***************************************************************************)
EXTENDS JsonText

AllDigits(s) == s # << >> /\ \A k \in DOMAIN s : s[k] \in Digit
IsInt(s)  == s = <<"0">> \/ (AllDigits(s) /\ s[1] # "0")
IsFrac(s) == s = << >> \/ (s[1] = "." /\ AllDigits(Tail(s)))
IsExp(s)  == \/ s = << >>
             \/ /\ s[1] = "e"
                /\ \/ AllDigits(Tail(s))
                   \/ Len(s) > 1 /\ s[2] \in {"+", "-"} /\ AllDigits(SubSeq(s, 3, Len(s)))

\* number = [ minus ] int [ frac ] [ exp ]
IsNumber(s) ==
  \E a \in 0 .. 1, b, c \in 1 .. Len(s) :
    /\ a =< b /\ b =< c
    /\ a = 1 => s[1] = "-"
    /\ IsInt(SubSeq(s, a + 1, b))
    /\ IsFrac(SubSeq(s, b + 1, c))
    /\ IsExp(SubSeq(s, c + 1, Len(s)))

\* *char
RECURSIVE IsChars(_)
IsChars(s) ==
  \/ s = << >>
  \/ Head(s) \notin Control \cup {"\"", "\\"} /\ IsChars(Tail(s))
  \/ Len(s) > 1 /\ s[1] = "\\" /\ s[2] \in Escaped /\ IsChars(SubSeq(s, 3, Len(s)))
  \/ Len(s) > 2 /\ s[1] = "\\" /\ s[2] = "u" /\ s[3] \in Quad /\ IsChars(SubSeq(s, 4, Len(s)))

Within(s, open, close) == Len(s) > 1 /\ s[1] = open /\ s[Len(s)] = close
Inner(s) == SubSeq(s, 2, Len(s) - 1)
IsString(s) == Within(s, "\"", "\"") /\ IsChars(Inner(s))

\* The text without the white space around it.
Stripped(s) ==
  LET solid == {k \in DOMAIN s : s[k] \notin Ws}
  IN  IF solid = {} THEN << >> ELSE SubSeq(s, Min(solid), Max(solid))

Cuts(s, symbol) == {k \in DOMAIN s : s[k] = symbol}
Before(s, k) == SubSeq(s, 1, k - 1)
After(s, k) == SubSeq(s, k + 1, Len(s))

\* value with at most `room` levels of nesting; elements and members without their brackets.
RECURSIVE IsJson(_, _), IsElements(_, _), IsMembers(_, _)
IsJson(t, room) ==
  LET s == Stripped(t)
  IN  /\ room >= 0
      /\ \/ Len(s) = 1 /\ s[1] \in Literal
         \/ IsNumber(s)
         \/ IsString(s)
         \/ Within(s, "[", "]") /\ (Stripped(Inner(s)) = << >> \/ IsElements(Inner(s), room - 1))
         \/ Within(s, "{", "}") /\ (Stripped(Inner(s)) = << >> \/ IsMembers(Inner(s), room - 1))
IsElements(s, room) ==
  \/ IsJson(s, room)
  \/ \E k \in Cuts(s, ",") : IsJson(Before(s, k), room) /\ IsElements(After(s, k), room)
IsMember(s, room) ==
  \E k \in Cuts(s, ":") : IsString(Stripped(Before(s, k))) /\ IsJson(After(s, k), room)
IsMembers(s, room) ==
  \/ IsMember(s, room)
  \/ \E k \in Cuts(s, ",") : IsMember(Before(s, k), room) /\ IsMembers(After(s, k), room)
=============================================================================
