----------------------------- MODULE Generator -----------------------------
(***************************************************************************)
(* The generator (src/jsonfuzz_generator.cpp): a byte stream in, a JSON    *)
(* text and the intent record out.  The recursion over values is the       *)
(* stack, one frame per container that is open; the text is the sequence   *)
(* of its JSON tokens.  A key or a string is what it is made of: a letter, *)
(* a character special in a pointer, an escape.                            *)
(***************************************************************************)
EXTENDS Integers, Sequences, FiniteSets, TLC
LOCAL INSTANCE SequencesExt

CONSTANTS
  Bytes,       \* bound: the bytes the stream holds
  AllOptions   \* bound: the GenOptions it is run with

ASSUME OptionsAssumption ==
  AllOptions \subseteq [max_depth : Int, max_members : Int, max_string : Int,
                        nesting_bias : Int, adversarial_weight : Int]
ASSUME BytesAssumption == Bytes \subseteq 0 .. 255 /\ 0 \in Bytes

\* ByteSource::next(): any byte, and 0 past the end of the stream.
Byte == Bytes

VARIABLES
  options,  \* GenOptions
  text,     \* the tokens written
  stack,    \* the open containers: [kind, size, left, used]
  pc,       \* "value", "key", "close", "done"; "trapped" once a division failed
  intent    \* the Intent record

vars == <<options, text, stack, pc, intent>>

Kinds == {"null", "bool", "number", "string", "array", "object"}

-----------------------------------------------------------------------------
(* The choices.  n is cut to a byte before the division (generator.cpp:33).  *)
Traps(n) == n > 0 /\ n % 2^8 = 0

Pick(n, b) == IF n =< 0 THEN 0 ELSE b % (n % 2^8)

\* Everything pick(n) can yield here.
Picks(n) == {Pick(n, b) : b \in Byte}

Adversarial(b) ==
  /\ options.adversarial_weight > 0
  /\ options.adversarial_weight >= 100 \/ b % 100 < options.adversarial_weight

Scalars == <<"null", "bool", "number", "string">>

\* pick_kind()'s weights, in its order; pick_spread() scales a byte onto their sum.
Weights ==
  LET bias == options.nesting_bias
      w == 2 + (IF bias >= 0 THEN bias \div 20 ELSE -((-bias) \div 20))
  IN  <<1, 1, 2, 3, w, w>>
WeightedKinds == <<"null", "bool", "number", "string", "array", "object">>
SumTo(k) == FoldLeft(+, 0, SubSeq(Weights, 1, k))

\* Mutant: the depth limit is noticed one level late.
KindOfLate(b) ==
  IF Len(stack) > options.max_depth THEN Scalars[Pick(4, b) + 1]
  ELSE LET r == (((b * 185) % 2^8) * SumTo(6)) \div 2^8
       IN  WeightedKinds[CHOOSE k \in 1 .. 6 : SumTo(k - 1) =< r /\ r < SumTo(k)]

KindOf(b) ==
  IF Len(stack) >= options.max_depth THEN Scalars[Pick(4, b) + 1]
  ELSE LET r == (((b * 185) % 2^8) * SumTo(6)) \div 2^8
       IN  WeightedKinds[CHOOSE k \in 1 .. 6 : SumTo(k - 1) =< r /\ r < SumTo(k)]

-----------------------------------------------------------------------------
Counters == {"object", "array", "string", "number", "bool", "null", "members", "depth"}
Flags == {"duplicate_key", "empty_key", "pointer_key", "lone_surrogate",
          "control_char", "boundary_number", "out_of_range_number"}

NoIntent == [f \in Counters \cup Flags |-> IF f \in Flags THEN FALSE ELSE 0]

Token(kind, word) == [kind |-> kind, word |-> word]

Init ==
  /\ options \in AllOptions
  /\ text = << >> /\ stack = << >> /\ pc = "value"
  /\ intent = NoIntent

Top == stack[Len(stack)]

\* One more value of the container that is open, if one is, has been written.
Counted(s) == IF s = << >> THEN s ELSE [s EXCEPT ![Len(s)].left = @ - 1]

NextIn(s) ==
  IF s = << >> THEN "done"
  ELSE IF s[Len(s)].left = 0 THEN "close"
  ELSE IF s[Len(s)].kind = "object" THEN "key" ELSE "value"

Reached(record) ==
  [record EXCEPT !["depth"] = IF Len(stack) > @ THEN Len(stack) ELSE @]

\* A scalar: its token, the flags it raises, its count.
Wrote(kind, word, raised) ==
  /\ text' = Append(text, Token(kind, word))
  /\ intent' = [f \in Counters \cup Flags |->
                  IF f = kind THEN Reached(intent)[f] + 1
                  ELSE IF f \in raised THEN TRUE ELSE Reached(intent)[f]]
  /\ stack' = Counted(stack)
  /\ pc' = NextIn(stack')
  /\ UNCHANGED options

Trap == pc' = "trapped" /\ UNCHANGED <<options, text, stack, intent>>

-----------------------------------------------------------------------------
(* gen_string_body(): the word, and the flags it raises.                     *)
Escapes == <<"\\u0000", "\\ud800", "\\uDBFF", "\\uDC00", "\\uFFFF", "\\u0001", "\\u001f">>
Surrogates == {"\\ud800", "\\uDBFF", "\\uDC00"}

\* "adversarial() && pick(n) == 0" can come out true, and false.
Happens(n) == {a \in Byte : Adversarial(a)} # {} /\ 0 \in Picks(n)
Fails(n) == {a \in Byte : ~Adversarial(a)} # {} \/ Picks(n) # {0}

\* The characters drawn: none, one that needs nothing, one special in a pointer.
Characters ==
  IF Traps(options.max_string + 1) THEN {}
  ELSE UNION {IF n = 0 THEN {""} ELSE {"a", "/"} : n \in Picks(options.max_string + 1)}

StringBodies ==
  {[word |-> Escapes[n + 1],
    raised |-> IF Escapes[n + 1] \in Surrogates THEN {"lone_surrogate"} ELSE {"control_char"}] :
      n \in IF Happens(4) THEN Picks(7) ELSE {}}
  \cup
  {[word |-> w, raised |-> {}] : w \in IF Fails(4) THEN Characters ELSE {}}

BodyTraps == Fails(4) /\ Traps(options.max_string + 1)

\* gen_number(): a boundary number, a form a serializer may rewrite, one no double
\* holds, or any other.
Boundaries == <<"0", "-0", "1e309", "1e-400", "12345678901234567890">>

Numbers ==
  {[word |-> Boundaries[n + 1], raised |-> {"boundary_number"}] :
      n \in IF Happens(3) THEN Picks(5) ELSE {}}
  \cup
  {[word |-> IF n < 7 THEN "form" ELSE "huge",
    raised |-> IF n < 7 THEN {} ELSE {"out_of_range_number"}] :
      n \in IF Fails(3) /\ 0 \in Picks(6) THEN Picks(8) ELSE {}}
  \cup {[word |-> "digits", raised |-> {}] : n \in IF Fails(3) THEN Picks(6) \ {0} ELSE {}}

-----------------------------------------------------------------------------
(* gen_value()                                                               *)
KindsDrawn == {KindOf(b) : b \in Byte}

Null == /\ pc = "value" /\ "null" \in KindsDrawn
        /\ Wrote("null", "null", {})

Bool == /\ pc = "value" /\ "bool" \in KindsDrawn
        /\ Wrote("bool", "bool", {})

Number == /\ pc = "value" /\ "number" \in KindsDrawn
          /\ \E n \in Numbers : Wrote("number", n.word, n.raised)

String ==
  /\ pc = "value" /\ "string" \in KindsDrawn
  /\ \/ BodyTraps /\ Trap
     \/ \E s \in StringBodies : Wrote("string", s.word, s.raised)

\* gen_array(), gen_object(): how many members, once.
Open ==
  /\ pc = "value"
  /\ \E kind \in KindsDrawn \cap {"array", "object"} :
       \/ Traps(options.max_members + 1) /\ Trap
       \/ /\ ~Traps(options.max_members + 1)
          /\ \E n \in Picks(options.max_members + 1) :
               /\ text' = Append(text, Token("open", kind))
               /\ stack' = Append(stack, [kind |-> kind, size |-> n, left |-> n,
                                          used |-> << >>])
               /\ pc' = NextIn(stack')
               /\ intent' = Reached(intent)
               /\ UNCHANGED options

\* Mutant: a container counts its members again in its parent.
CloseTwice ==
  /\ pc = "close"
  /\ text' = Append(text, Token("close", Top.kind))
  /\ intent' = [intent EXCEPT ![Top.kind] = @ + 1, !["members"] = @ + Top.size + Len(stack) - 1]
  /\ stack' = Counted(SubSeq(stack, 1, Len(stack) - 1))
  /\ pc' = NextIn(stack')
  /\ UNCHANGED options

Close ==
  /\ pc = "close"
  /\ text' = Append(text, Token("close", Top.kind))
  /\ intent' = [intent EXCEPT ![Top.kind] = @ + 1, !["members"] = @ + Top.size]
  /\ stack' = Counted(SubSeq(stack, 1, Len(stack) - 1))
  /\ pc' = NextIn(stack')
  /\ UNCHANGED options

-----------------------------------------------------------------------------
(* gen_key(): three adversarial chances, then a string body.                 *)
Keyed(word, raised, used) ==
  /\ text' = Append(text, Token("key", word))
  /\ intent' = [f \in Counters \cup Flags |-> IF f \in raised THEN TRUE ELSE intent[f]]
  /\ stack' = [stack EXCEPT ![Len(stack)].used = used]
  /\ pc' = "value"
  /\ UNCHANGED options

EmptyKey == pc = "key" /\ Happens(3) /\ Keyed("", {"empty_key"}, Top.used)

\* Mutant: an object with no key yet repeats the empty one.
DuplicateKeyAnyway ==
  /\ pc = "key" /\ Fails(3) /\ Happens(3)
  /\ \E n \in Picks(Len(Top.used)) :
       Keyed(IF Top.used = << >> THEN "" ELSE Top.used[n + 1], {"duplicate_key"}, Top.used)

DuplicateKey ==
  /\ pc = "key" /\ Fails(3) /\ Happens(3) /\ Top.used # << >>
  /\ \E n \in Picks(Len(Top.used)) : Keyed(Top.used[n + 1], {"duplicate_key"}, Top.used)

PointerKey ==
  /\ pc = "key" /\ Fails(3) /\ Happens(3)
  /\ \E word \in {"/", "~"} : Keyed(word, {"pointer_key"}, Top.used)

PlainKey ==
  /\ pc = "key" /\ Fails(3)
  /\ \/ BodyTraps /\ Trap
     \/ \E s \in StringBodies : Keyed(s.word, s.raised, Append(Top.used, s.word))

Next ==
  \/ Null \/ Bool \/ Number \/ String \/ Open \/ Close
  \/ EmptyKey \/ DuplicateKey \/ PointerKey \/ PlainKey

(* The recursion is as deep as the option says, and so is the text: values   *)
(* that nest past the limit would take the generator's own stack with them.  *)
DepthBounded ==
  /\ Len(stack) # 0 => Len(stack) =< options.max_depth
  /\ intent["depth"] # 0 => intent["depth"] =< options.max_depth

\* The generator is a function: it runs on until it returns.
Spec == Init /\ [][Next]_vars /\ WF_vars(Next)
=============================================================================
