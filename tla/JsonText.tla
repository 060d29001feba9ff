----------------------------- MODULE JsonText -----------------------------
(***************************************************************************)
(* Texts, the toy SUT's parser over them (class Parser) and its two        *)
(* serializers.  A text is a sequence of symbols.  A symbol is one         *)
(* character, except that one symbol stands for                            *)
(*   - a literal spelled right: "null", "true", "false";                   *)
(*   - the four digits of a unicode escape: the members of Quad;           *)
(*   - "H", more digits than the exponent of a double can hold;            *)
(*   - the members of Tag: "\u0000jsonfuzz-number:", and another spelling  *)
(*     of it ("\u0000jsonfuzz\u002dnumber:").                              *)
(* A tree is a node of JsonTree whose atoms and keys are texts.            *)
(***************************************************************************)
EXTENDS JsonTree, SequencesExt

Ws == {" ", "nl"}
Digit == {"0", "1", "2", "3", "H"}
Quad == {"d800", "0000", "FFFF"}
Tag == {"tag", "TAG"}
Literal == {"null", "true", "false"}
Control == {"nl"}
\* What may follow a backslash; a tag begins with one.
Escaped == {"\"", "\\", "n"} \cup Tag

Node(kind, members) == [kind |-> kind, atom |-> << >>, members |-> members]
Element(k, val) == Member(<<ToString(k - 1)>>, val)
ArrayOf(vals) == Node("array", [k \in DOMAIN vals |-> Element(k, vals[k])])
ObjectOf(members) == Node("object", members)
NotJson == Node("none", << >>)

-----------------------------------------------------------------------------
At(t, p) == IF p \in DOMAIN t THEN t[p] ELSE "end"

\* The first position from p on whose symbol is not in S.
Past(t, p, S) ==
  CHOOSE q \in p .. Len(t) + 1 : At(t, q) \notin S /\ \A k \in p .. q - 1 : t[k] \in S

\* A result of the parser: the value and where it ends.  Rejections are not told apart.
Got(pos, val) == [ok |-> TRUE, pos |-> pos, val |-> val]
Failed == [ok |-> FALSE, pos |-> 1, val |-> NotJson]

\* parse_string(): where the string that begins at p - 1 has its closing quote, or 0.
RECURSIVE Close(_, _)
Close(t, p) ==
  CASE At(t, p) = "end" -> 0
    [] At(t, p) = "\"" -> p
    [] At(t, p) = "\\" /\ At(t, p + 1) \in Escaped -> Close(t, p + 2)
    [] At(t, p) = "\\" /\ At(t, p + 1) = "u" /\ At(t, p + 2) \in Quad -> Close(t, p + 3)
    [] At(t, p) = "\\" /\ At(t, p + 1) = "u" /\ At(t, p + 2) \notin Quad -> 0
    [] At(t, p) = "\\" /\ At(t, p + 1) \notin Escaped \cup {"u"} -> 0
    [] At(t, p) \in Control -> 0
    [] OTHER -> Close(t, p + 1)

\* Mutant: a number may go on after a leading zero.
WholeEndLax(t, int) == Past(t, int, Digit)

WholeEnd(t, int) == IF At(t, int) = "0" THEN int + 1 ELSE Past(t, int, Digit)

\* parse_number(): the position after the number at p, or 0.
NumberEnd(t, p) ==
  LET int   == IF At(t, p) = "-" THEN p + 1 ELSE p
      whole == WholeEnd(t, int)
      point == At(t, whole) = "."
      frac  == IF point THEN Past(t, whole + 1, Digit) ELSE whole
      power == At(t, frac) = "e"
      sign  == IF At(t, frac + 1) \in {"+", "-"} THEN frac + 2 ELSE frac + 1
  IN  IF /\ At(t, int) \in Digit
         /\ point => At(t, whole + 1) \in Digit
         /\ power => At(t, sign) \in Digit
      THEN IF power THEN Past(t, sign, Digit) ELSE frac
      ELSE 0

\* parse_value(), with the levels of nesting that are left.
RECURSIVE ParseValue(_, _, _), ParseElements(_, _, _, _), ParseMembers(_, _, _, _)
ParseValue(t, pos, room) ==
  LET p == Past(t, pos, Ws)
      c == At(t, p)
      inside == Past(t, p + 1, Ws)
      upTo(end) == IF end = 0 THEN Failed ELSE Got(end, Leaf(SubSeq(t, p, end - 1)))
  IN  IF room < 0 THEN Failed
      ELSE CASE c \in Literal -> upTo(p + 1)
             [] c = "\"" -> upTo(IF Close(t, p + 1) = 0 THEN 0 ELSE Close(t, p + 1) + 1)
             [] c \in Digit \cup {"-"} -> upTo(NumberEnd(t, p))
             [] c = "[" -> IF At(t, inside) = "]" THEN Got(inside + 1, ArrayOf(<< >>))
                           ELSE ParseElements(t, inside, room, << >>)
             [] c = "{" -> IF At(t, inside) = "}" THEN Got(inside + 1, ObjectOf(<< >>))
                           ELSE ParseMembers(t, inside, room, << >>)
             [] OTHER -> Failed

\* parse_array() and parse_object(), after what was read so far.
ParseElements(t, pos, room, vals) ==
  LET v == ParseValue(t, pos, room - 1)
      p == Past(t, v.pos, Ws)
      read == Append(vals, v.val)
  IN  CASE v.ok /\ At(t, p) = "," -> ParseElements(t, p + 1, room, read)
        [] v.ok /\ At(t, p) = "]" -> Got(p + 1, ArrayOf(read))
        [] OTHER -> Failed

ParseMembers(t, pos, room, members) ==
  LET key   == Past(t, pos, Ws)
      close == IF At(t, key) = "\"" THEN Close(t, key + 1) ELSE 0
      colon == Past(t, close + 1, Ws)
      v     == ParseValue(t, colon + 1, room - 1)
      p     == Past(t, v.pos, Ws)
      read  == Append(members, Member(SubSeq(t, key + 1, close - 1), v.val))
      good  == close # 0 /\ At(t, colon) = ":" /\ v.ok
  IN  CASE good /\ At(t, p) = "," -> ParseMembers(t, p + 1, room, read)
        [] good /\ At(t, p) = "}" -> Got(p + 1, ObjectOf(read))
        [] OTHER -> Failed

\* Parser::parse(), with config.max_depth.
Parse(t, max_depth) ==
  LET v == ParseValue(t, 1, max_depth)
  IN  IF v.ok /\ Past(t, v.pos, Ws) > Len(t) THEN v.val ELSE NotJson

Accepts(t, max_depth) == Parse(t, max_depth) # NotJson

-----------------------------------------------------------------------------
\* Mutant: a comma after each part.
ListedAll(parts) == FlattenSeq([k \in DOMAIN parts |-> parts[k] \o <<",">>])

\* The parts of a container, with commas between them.
Listed(parts) ==
  FlattenSeq([k \in DOMAIN parts |-> IF k = 1 THEN parts[k] ELSE <<",">> \o parts[k]])

Bracketed(v, parts, closing) ==
  IF v.kind = "array" THEN <<"[">> \o Listed(parts) \o closing \o <<"]">>
  ELSE <<"{">> \o Listed(parts) \o closing \o <<"}">>

KeyText(v, k, sep) ==
  IF v.kind = "array" THEN << >> ELSE <<"\"">> \o v.members[k].key \o <<"\"">> \o sep

\* serialize_value()
RECURSIVE Compact(_)
Compact(v) ==
  IF v.kind = "scalar" THEN v.atom
  ELSE Bracketed(v, [k \in DOMAIN v.members |->
                       KeyText(v, k, <<":">>) \o Compact(v.members[k].val)], << >>)

NewLine(indent) == <<"nl">> \o [k \in 1 .. 2 * indent |-> " "]

\* serialize_pretty()
RECURSIVE Pretty(_, _)
Pretty(v, indent) ==
  IF v.members = << >> THEN Compact(v)
  ELSE Bracketed(v, [k \in DOMAIN v.members |->
                       NewLine(indent + 1) \o KeyText(v, k, <<":", " ">>)
                         \o Pretty(v.members[k].val, indent + 1)], NewLine(indent))
=============================================================================
