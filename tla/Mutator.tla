------------------------------ MODULE Mutator ------------------------------
(***************************************************************************)
(* The mutation operators of src/jsonfuzz_mutate.cpp, on a text.  Each     *)
(* yields the set of results its random picks can give.                    *)
(***************************************************************************)
EXTENDS ReferenceText

Unchanged(s) == {[text |-> s, changed |-> FALSE]}

\* Nothing to pick from: the text as it was.
Picked(s, texts) ==
  IF texts = {} THEN Unchanged(s) ELSE {[text |-> x, changed |-> TRUE] : x \in texts}

Spliced(s, from, upto, new) == Before(s, from) \o new \o SubSeq(s, upto, Len(s))

\* Mutant: what is behind the boundary is kept.
TruncateAtFront(s, boundary, cut_after) ==
  Picked(s, {SubSeq(s, IF cut_after THEN k + 1 ELSE k, Len(s)) : k \in {k \in DOMAIN s : s[k] \in boundary}})

\* truncate_at()
TruncateAt(s, boundary, cut_after) ==
  Picked(s, {SubSeq(s, 1, IF cut_after THEN k ELSE k - 1) : k \in {k \in DOMAIN s : s[k] \in boundary}})

-----------------------------------------------------------------------------
\* collect_nodes(): every node, by the positions of members that lead to it.
RECURSIVE Positions(_)
Positions(v) ==
  {<< >>} \cup UNION {{<<k>> \o q : q \in Positions(v.members[k].val)} : k \in DOMAIN v.members}

RECURSIVE NodeAt(_, _), Replaced(_, _, _)
NodeAt(v, q) == IF q = << >> THEN v ELSE NodeAt(v.members[Head(q)].val, Tail(q))
Replaced(v, q, new) ==
  IF q = << >> THEN new
  ELSE [v EXCEPT !.members[Head(q)].val = Replaced(@, Tail(q), new)]

Containers(v, kind, least) ==
  {q \in Positions(v) : NodeAt(v, q).kind = kind /\ Len(NodeAt(v, q).members) >= least}

\* op_delete_member() and op_delete_element()
DeleteFrom(j, kind) ==
  LET without(q) == {Replaced(j, q, [NodeAt(j, q) EXCEPT !.members = RemoveAt(@, k)]) :
                     k \in DOMAIN NodeAt(j, q).members}
  IN  UNION {without(q) : q \in Containers(j, kind, 1)}

\* Mutant: the duplicate is appended, whatever members there are.
WithDupTwice(j, val) == [j EXCEPT !.members = Append(@, Member(<<"d">>, val))]

\* j["dup"] = val
WithDup(j, val) ==
  LET dup == <<"d">>
  IN  IF dup \in KeysOf(j) THEN Replaced(j, <<LastMember(j, dup)>>, val)
      ELSE [j EXCEPT !.members = Append(@, Member(dup, val))]

\* op_duplicate_subtree()
DuplicateSubtree(j) ==
  LET more(val) == IF j.kind = "object" THEN WithDup(j, val)
                   ELSE [j EXCEPT !.members = Append(@, Element(Len(@) + 1, val))]
  IN  IF j.kind = "scalar" THEN {} ELSE {more(NodeAt(j, q)) : q \in Positions(j)}

\* op_change_value_kind()
OtherKind(v) ==
  CASE IsNumeric(v) -> <<"\"">> \o v.atom \o <<"\"">>
    [] IsText(v) -> <<"0">>
    [] v.atom = <<"true">> -> <<"1">>
    [] v.atom = <<"false">> -> <<"0">>
    [] v.atom = <<"null">> -> <<"\"", "null", "\"">>
ChangeValueKind(j) ==
  {Replaced(j, q, Leaf(OtherKind(NodeAt(j, q)))) : q \in {p \in Positions(j) : NodeAt(j, p).kind = "scalar"}}

\* op_swap_members()
SwapMembers(j) ==
  LET swapped(q) == LET ms == NodeAt(j, q).members
                    IN  {Replaced(Replaced(j, Append(q, a), ms[b].val), Append(q, b), ms[a].val) :
                         <<a, b>> \in {d \in (DOMAIN ms) \X (DOMAIN ms) : d[1] # d[2]}}
  IN  UNION {swapped(q) : q \in Containers(j, "object", 2)}

\* The operators that work on the tree, and the text of what they make of it.  A container
\* that op_change_value_kind() picks stays as it is.
OnTree(j, op) ==
  CASE op = "DeleteMember" -> DeleteFrom(j, "object")
    [] op = "DeleteElement" -> DeleteFrom(j, "array")
    [] op = "DuplicateSubtree" -> DuplicateSubtree(j)
    [] op = "ChangeValueKind" -> ChangeValueKind(j)
    [] op = "SwapMembers" -> SwapMembers(j)

Dumped(s, j, op) ==
  Picked(s, {Compact(v) : v \in OnTree(j, op)})
    \cup (IF op = "ChangeValueKind" /\ j.kind # "scalar" THEN Unchanged(s) ELSE {})

-----------------------------------------------------------------------------
\* The digits of an escape are digits to a scan of characters.
ScanDigit == Digit \cup {"0000"}
StartsNumber(s, i) == At(s, i) \in ScanDigit \/ (At(s, i) = "-" /\ At(s, i + 1) \in ScanDigit)
ScanEnd(s, i) ==
  LET whole == Past(s, IF s[i] = "-" THEN i + 1 ELSE i, ScanDigit)
      frac  == IF At(s, whole) = "." THEN Past(s, whole + 1, ScanDigit) ELSE whole
      sign  == IF At(s, frac + 1) \in {"+", "-"} THEN frac + 2 ELSE frac + 1
  IN  IF At(s, frac) = "e" THEN Past(s, sign, ScanDigit) ELSE frac

RECURSIVE NumberSpans(_, _)
NumberSpans(s, i) ==
  CASE i > Len(s) -> {}
    [] i =< Len(s) /\ StartsNumber(s, i) -> {<<i, ScanEnd(s, i)>>} \cup NumberSpans(s, ScanEnd(s, i))
    [] OTHER -> NumberSpans(s, i + 1)

\* Mutant: one of them is a number.
BrokenButOne == {<<"-", "1">>, <<"1", ".", "0", ".">>, <<"2", ".", "e", "+", "3">>}

Broken == {<<"-", "0", "1">>, <<"1", ".", "0", ".">>, <<"2", ".", "e", "+", "3">>}

\* op_break_number()
BreakNumber(s) ==
  Picked(s, {Spliced(s, n[1], n[2], new) : n \in NumberSpans(s, 1), new \in Broken})

RECURSIVE StringSpans(_, _)
StringSpans(s, i) ==
  CASE i > Len(s) -> {}
    [] i =< Len(s) /\ s[i] = "\"" -> {<<i + 1, Close(s, i + 1)>>} \cup StringSpans(s, Close(s, i + 1) + 1)
    [] OTHER -> StringSpans(s, i + 1)

Adversarial == {<<"\\", "u", x>> : x \in Quad}

\* op_adversarial_escape()
AdversarialEscape(s) ==
  Picked(s, {Spliced(s, n[1], n[2], new) : n \in StringSpans(s, 1), new \in Adversarial})

Bracket == {"{", "}", "[", "]"}
Closer == {"}", "]"}

\* op_unbalance(), op_mismatch_closer(), op_inject_utf8()
Unbalance(s) == Picked(s, {RemoveAt(s, k) : k \in {k \in DOMAIN s : s[k] \in Bracket}})
MismatchCloser(s) ==
  Picked(s, {[s EXCEPT ![k] = IF @ = "}" THEN "]" ELSE "}"] : k \in {k \in DOMAIN s : s[k] \in Closer}})
InjectInvalidUtf8(s) ==
  IF s = << >> THEN Unchanged(s) ELSE Picked(s, {InsertAt(s, k, "ff") : k \in 1 .. Len(s) + 1})

-----------------------------------------------------------------------------
Truncations == {"TruncateAtValue", "TruncateAtKey", "TruncateAtStructure", "TruncateAtEscape"}
TreeOps == {"DeleteMember", "DeleteElement", "DuplicateSubtree", "ChangeValueKind", "SwapMembers"}
Wraps == {"WrapInArray", "WrapInObject"}
Breakers == {"BreakNumberGrammar", "UnbalanceBrackets", "MismatchCloser"}
Op == Truncations \cup TreeOps \cup Wraps \cup Breakers \cup {"AdversarialEscape", "InjectInvalidUtf8"}

Applied(s, op) ==
  CASE op = "TruncateAtValue" -> TruncateAt(s, {":", "{", "["}, TRUE)
    [] op = "TruncateAtKey" -> TruncateAt(s, {"{", ","}, TRUE)
    [] op = "TruncateAtStructure" -> TruncateAt(s, {"{", "[", ",", ":"}, FALSE)
    [] op = "TruncateAtEscape" -> TruncateAt(s, {"\\"} \cup Tag, FALSE)
    [] op = "WrapInArray" -> Picked(s, {<<"[">> \o s \o <<"]">>})
    [] op = "WrapInObject" -> Picked(s, {<<"{", "\"", "k", "\"", ":">> \o s \o <<"}">>})
    [] op = "BreakNumberGrammar" -> BreakNumber(s)
    [] op = "AdversarialEscape" -> AdversarialEscape(s)
    [] op = "UnbalanceBrackets" -> Unbalance(s)
    [] op = "MismatchCloser" -> MismatchCloser(s)
    [] op = "InjectInvalidUtf8" -> InjectInvalidUtf8(s)
    [] op \in TreeOps -> Dumped(s, RefParse(s), op)

\* apply(): what does not parse is returned as it was.
Apply(s, op) == IF RefParses(s) THEN Applied(s, op) ELSE Unchanged(s)

\* Mutant: the size is returned cut, the bytes are written whole.
InPlaceUncut(s, r, max_size) == IF ~r.changed THEN s ELSE r.text

\* mutate(): what the buffer holds afterwards.
InPlace(s, r, max_size) ==
  IF ~r.changed THEN s ELSE SubSeq(r.text, 1, IF Len(r.text) > max_size THEN max_size ELSE Len(r.text))
=============================================================================
