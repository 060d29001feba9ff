--------------------------- MODULE ReferenceText ---------------------------
(***************************************************************************)
(* The reference's reading of a text: the tagger of numbers that no double *)
(* holds (jsonfuzz_reference.cpp), nlohmann's parser and dump() as far as  *)
(* this code uses them, and reference_parse() of the oracle.               *)
(***************************************************************************)
EXTENDS JsonGrammar

InNumber == Digit \cup {".", "e", "+", "-"}

\* strtod() of the token is infinite: it reads the longest prefix that is a number.
Overflows(token) ==
  LET int   == IF token[1] = "-" THEN 2 ELSE 1
      whole == Past(token, int, Digit)
      frac  == IF At(token, whole) = "." THEN Past(token, whole + 1, Digit) ELSE whole
      sign  == IF At(token, frac + 1) = "+" THEN frac + 2 ELSE frac + 1
      power == IF At(token, frac) = "e" THEN Past(token, sign, Digit) ELSE sign
      Holds(symbols, from, upto) == \E k \in from .. upto - 1 : token[k] \in symbols
  IN  \/ Holds({"H"}, int, whole)
      \/ Holds({"H"}, sign, power) /\ Holds(Digit \ {"0"}, int, frac)

Copied(s, rest) == [text |-> s \o rest.text, tagged |-> rest.tagged]

\* Mutant: a quote behind a backslash ends the string.
StringStepUnescaped(t, i) == [upto |-> i, in_string |-> t[i] # "\""]

\* One step of the tagger in a string: what it copies, and whether it is still in it.
StringStep(t, i) ==
  IF t[i] = "\\" /\ i < Len(t) THEN [upto |-> i + 1, in_string |-> TRUE]
  ELSE [upto |-> i, in_string |-> t[i] # "\""]

\* tag_unmodelable_numbers(): the text from position i on, and how many it tagged.
RECURSIVE TagFrom(_, _, _)
TagFrom(t, i, in_string) ==
  LET c == At(t, i)
      j == Past(t, i, InNumber)
      token == SubSeq(t, i, j - 1)
      rest == TagFrom(t, j, FALSE)
      step == StringStep(t, i)
  IN  CASE c = "end" -> [text |-> << >>, tagged |-> 0]
        [] c # "end" /\ in_string ->
             Copied(SubSeq(t, i, step.upto), TagFrom(t, step.upto + 1, step.in_string))
        [] ~in_string /\ c \in Digit \cup {"-"} ->
             IF Overflows(token)
             THEN [text |-> <<"\"", "tag">> \o token \o <<"\"">> \o rest.text,
                   tagged |-> rest.tagged + 1]
             ELSE Copied(token, rest)
        [] OTHER -> Copied(<<c>>, TagFrom(t, i + 1, c = "\""))

Tagged(t) == TagFrom(t, 1, FALSE)

\* untag_numbers()
RECURSIVE Untag(_)
Untag(t) ==
  LET opens == {k \in 1 .. Len(t) - 1 : t[k] = "\"" /\ t[k + 1] = "tag"}
      open  == Min(opens)
      close == {k \in open + 2 .. Len(t) : t[k] = "\""}
  IN  IF opens = {} \/ close = {} THEN t
      ELSE Before(t, open) \o SubSeq(t, open + 2, Min(close) - 1) \o Untag(After(t, Min(close)))

-----------------------------------------------------------------------------
(* nlohmann.  It has no depth limit; it refuses a lone surrogate, a byte that*)
(* is no UTF-8, and a number a double cannot hold.  Its tree is a map.       *)
Leaves(v) == {u \in Parts(v) : u.kind = "scalar"}
IsText(v) == v.kind = "scalar" /\ Head(v.atom) = "\""
IsNumeric(v) == v.kind = "scalar" /\ Head(v.atom) \in Digit \cup {"-"}

RefParses(t) ==
  LET v == Parse(t, Len(t))
  IN  /\ v # NotJson
      /\ \A k \in DOMAIN t : t[k] \notin {"ff", "d800"}
      /\ \A u \in Leaves(v) : ~(IsNumeric(u) /\ Overflows(u.atom))

\* dump(): a body is decoded and spelled again, a float gets its shortest form.
RECURSIVE Respelled(_)
Respelled(s) ==
  CASE s = << >> -> << >>
    [] s # << >> /\ s[1] \in Tag -> <<"tag">> \o Respelled(Tail(s))
    [] Len(s) > 2 /\ s[1] = "\\" /\ s[2] = "u" ->
         (IF s[3] = "FFFF" THEN <<"U">> ELSE SubSeq(s, 1, 3)) \o Respelled(SubSeq(s, 4, Len(s)))
    [] Len(s) > 1 /\ s[1] = "\\" /\ s[2] # "u" ->
         SubSeq(s, 1, 2) \o Respelled(SubSeq(s, 3, Len(s)))
    [] OTHER -> <<s[1]>> \o Respelled(Tail(s))

DumpNumber(s) ==
  IF ~Overflows(s) /\ \E k \in DOMAIN s : s[k] \in {".", "e"} THEN <<"1", ".", "0">>
  ELSE IF s = <<"-", "0">> THEN <<"0">> ELSE s

DumpAtom(v) ==
  IF IsText(v) THEN Respelled(v.atom) ELSE IF IsNumeric(v) THEN DumpNumber(v.atom) ELSE v.atom

\* The tree nlohmann keeps of one the toy reads: the last of a duplicated key.  The members
\* stay in the order of the text; that a map sorts them is not observed.
RECURSIVE Kept(_)
Kept(v) ==
  LET last == SelectSeq([k \in DOMAIN v.members |-> k], LAMBDA k : LastMember(v, KeyOf(v.members[k])) = k)
  IN  [kind |-> v.kind, atom |-> IF v.kind = "scalar" THEN DumpAtom(v) ELSE v.atom,
       members |-> [j \in DOMAIN last |-> LET m == v.members[last[j]]
                                          IN  Member(Respelled(m.key), Kept(m.val))]]

\* json::parse() of a text it parses.
RefParse(t) == Kept(Parse(t, Len(t)))

\* TagCounter: the string values, of every duplicate, that begin with the tag.
RECURSIVE TagCount(_)
TagCount(v) ==
  LET below == [k \in DOMAIN v.members |-> TagCount(v.members[k].val)]
  IN  (IF IsText(v) /\ v.atom[2] \in Tag THEN 1 ELSE 0) + FoldLeft(LAMBDA a, b : a + b, 0, below)

\* Mutant: the tagged strings are not counted.
ReferenceParseUncounted(t) ==
  LET g == Tagged(t) IN IF RefParses(g.text) THEN RefParse(g.text) ELSE NotJson

\* reference_parse(); NotJson when the reference cannot model the text.
ReferenceParse(t) ==
  LET g == Tagged(t)
  IN  IF RefParses(g.text) /\ TagCount(Parse(g.text, Len(g.text))) = g.tagged
      THEN RefParse(g.text) ELSE NotJson

\* shown()
Shown(v) == Untag(Compact(v))
=============================================================================
