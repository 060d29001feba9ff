--------------------------- MODULE IntentReading ---------------------------
(***************************************************************************)
(* Reading 3 of the fuzz target: the generator's intent record against an  *)
(* independent reading of its text, the SAX counter of                     *)
(* src/jsonfuzz_readings.cpp.                                              *)
(***************************************************************************)
EXTENDS Generator, SequencesExt

Huge == {"1e309", "huge"}   \* no double holds it: tagged, and read as a string

NoCounts == [object |-> 0, array |-> 0, string |-> 0, number |-> 0, bool |-> 0, null |-> 0,
             members |-> 0, tagged |-> 0, in_array |-> << >>, deepest |-> 0]

\* value_in_array()
InArray(c) ==
  IF c.in_array # << >> /\ Last(c.in_array) = "array"
  THEN [c EXCEPT !.members = @ + 1] ELSE c

\* The callback of one token.
Sax(c, t) ==
  CASE t.kind = "key" -> [c EXCEPT !.members = @ + 1]
    [] t.kind = "open" ->
         [InArray(c) EXCEPT ![t.word] = @ + 1, !.in_array = Append(@, t.word),
                            !.deepest = IF Len(c.in_array) > @ THEN Len(c.in_array) ELSE @]
    [] t.kind = "close" -> [c EXCEPT !.in_array = Front(@)]
    [] t.kind = "number" /\ t.word \in Huge ->
         [InArray(c) EXCEPT !.string = @ + 1, !.tagged = @ + 1,
                            !.deepest = IF Len(c.in_array) > @ THEN Len(c.in_array) ELSE @]
    [] OTHER ->
         [InArray(c) EXCEPT ![t.kind] = @ + 1,
                            !.deepest = IF Len(c.in_array) > @ THEN Len(c.in_array) ELSE @]

\* The counter after the first n tokens, and at the end.
CountsAfter[n \in 0 .. Len(text)] ==
  IF n = 0 THEN NoCounts ELSE Sax(CountsAfter[n - 1], text[n])

Read == CountsAfter[Len(text)]

\* nlohmann refuses a lone surrogate.
Parses == \A k \in DOMAIN text : text[k].word \notin Surrogates

\* intent_matches_text()
IntentMatchesText ==
  /\ Parses
  /\ intent["string"] = Read.string - Read.tagged
  /\ intent["number"] = Read.number + Read.tagged
  /\ \A c \in {"object", "array", "bool", "null", "members"} : intent[c] = Read[c]

-----------------------------------------------------------------------------
(* Reading 3 never blames a document the reference can read: the counts the  *)
(* generator keeps on the way, containers when they close and members when   *)
(* their container closes, are those of the finished text.                   *)
IntentAgrees == pc = "done" /\ Parses => IntentMatchesText

(* No value lies deeper than max_depth, and max_depth_reached is the depth   *)
(* the text has: a limit noticed one level late, or a depth recorded before  *)
(* the kind is known, shows in one of the two.                               *)
DepthKept ==
  /\ DepthBounded
  /\ pc = "done" => intent["depth"] = Read.deepest

\* How many containers are open after the first n tokens.
DepthAfter(n) == Len(CountsAfter[n].in_array)

\* Two keys of one object: nothing closes below them in between.
InOneObject(k, j) ==
  /\ DepthAfter(k) = DepthAfter(j)
  /\ \A m \in k .. j : DepthAfter(m) >= DepthAfter(j)

KeyTokens == {k \in DOMAIN text : text[k].kind = "key"}

HasDuplicate ==
  \E k, j \in KeyTokens : k < j /\ text[k].word = text[j].word /\ InOneObject(k, j)

(* A flag of the intent record is earned by the text: when it says a key was *)
(* repeated, the two are in one object and not in nested ones.               *)
FlagsAreEarned ==
  /\ intent["duplicate_key"] => HasDuplicate
  /\ intent["empty_key"] => \E k \in KeyTokens : text[k].word = ""
  /\ intent["pointer_key"] => \E k \in KeyTokens : text[k].word \in {"/", "~"}
  /\ intent["lone_surrogate"] <=> ~Parses

(* generator.hpp:10, "any byte stream produces a document and generation     *)
(* never fails", and generate(), "Never fails" (generator.hpp:74).           *)
NeverFails == pc # "trapped"
=============================================================================
