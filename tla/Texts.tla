------------------------------- MODULE Texts -------------------------------
(***************************************************************************)
(* A buffer of bytes that the fuzzer edits and mutate() rewrites in place, *)
(* and what the toy's parser, its serializers, the reference and the       *)
(* mutator make of every text it can hold.                                 *)
(***************************************************************************)
EXTENDS Mutator

CONSTANTS
  Seeds,      \* the texts to start from
  Symbols,    \* what the fuzzer puts in
  MaxEdits,   \* bound: edits from a seed, a mutation among them
  MaxDepth,   \* ParseConfig::max_depth
  Room        \* what max_size may exceed the size by

ASSUME TextBounds == MaxEdits \in Nat /\ MaxDepth \in Nat /\ Room \subseteq Nat

VARIABLES
  data,    \* the buffer
  edits,   \* how many edits were made
  last     \* the last mutation: of which text, by which operator, to what, cut to how much

vars == <<data, edits, last>>

NoMutation == [op |-> "none", from |-> << >>, text |-> << >>, changed |-> FALSE, max_size |-> 0]

Init == data \in Seeds /\ edits = 0 /\ last = NoMutation

EditedTo(new) ==
  /\ last = NoMutation /\ edits < MaxEdits
  /\ edits' = edits + 1 /\ data' = new /\ UNCHANGED last

Insert(k, c) == EditedTo(InsertAt(data, k, c))
Overwrite(k, c) == EditedTo([data EXCEPT ![k] = c])
Erase(k) == EditedTo(RemoveAt(data, k))

\* mutate(data, size, max_size, seed): the seed picks the operator and its places.  A text
\* with a tag in it is left out: one symbol of it holds digits and a backslash.
Mutate(op, max_size) ==
  /\ last = NoMutation /\ edits < MaxEdits
  /\ \A k \in DOMAIN data : data[k] \notin Tag
  /\ \E r \in Apply(data, op) :
       /\ last' = [op |-> op, from |-> data, text |-> r.text, changed |-> r.changed,
                   max_size |-> max_size]
       /\ data' = InPlace(data, r, max_size)
  /\ edits' = edits + 1

Next ==
  \/ \E k \in 1 .. Len(data) + 1, c \in Symbols : Insert(k, c)
  \/ \E k \in DOMAIN data, c \in Symbols : Overwrite(k, c)
  \/ \E k \in DOMAIN data : Erase(k)
  \/ \E op \in Op, n \in Room : Mutate(op, Len(data) + n)

Spec == Init /\ [][Next]_vars

-----------------------------------------------------------------------------
(* "A strict recursive-descent parser" (jsonfuzz_sut.cpp:39): the toy takes  *)
(* exactly the texts of the grammar that nest no deeper than max_depth.      *)
ParsesTheGrammar == Accepts(data, MaxDepth) <=> IsJson(data, MaxDepth)

(* What the toy reads it can write and read again: the compact and the       *)
(* pretty text of an accepted document, and the text of every value in it,   *)
(* parse to the same tree.  Laws O1, O2 and O5 rest on it, and the           *)
(* assumptions RoundTrips and StrictnessInherited of Sut state it.           *)
ReadsWhatItWrites ==
  LET v == Parse(data, MaxDepth)
  IN  v # NotJson =>
        /\ Parse(Pretty(v, 0), MaxDepth) = v
        /\ \A u \in Parts(v) : Parse(Compact(u), MaxDepth) = u

(* "The display form of a reference dump: each tagged string goes back to    *)
(* its number text" (jsonfuzz_reference.hpp:36), and nothing else changes:   *)
(* what shown() prints of a document is the document.                        *)
ShownIsTheDump ==
  \A v \in {Parse(data, Len(data))} \ {NotJson}, j \in {ReferenceParse(data)} \ {NotJson} :
    Shown(j) = Compact(Kept(v))

\* A key that begins with the tag, or a quote in a string with the tag behind it: what
\* untag_numbers() takes for the start of a tagged number, and TagCounter does not count.
LooksTagged(v) ==
  LET text == Compact(v)
      keys == UNION {{u.members[k].key : k \in DOMAIN u.members} : u \in {u \in Parts(v) : u.kind = "object"}}
  IN  \/ \E key \in keys : key # << >> /\ Head(key) \in Tag
      \/ \E k \in DOMAIN text : text[k] = "\\" /\ At(text, k + 1) = "\"" /\ At(text, k + 2) \in Tag

(* The text shown() prints is the document, elsewhere: a number that was     *)
(* tagged is printed as it was written, and a string value that spells a tag *)
(* is never taken for a number, for reference_parse() has counted the tags   *)
(* (jsonfuzz_reference.hpp:13-15), those of dropped duplicates too.          *)
ShowsTheDocument == ~LooksTagged(Parse(data, Len(data))) => ShownIsTheDump

\* Whether a token that the tagger puts into a string is no number.
RECURSIVE TagsGarbage(_, _, _)
TagsGarbage(t, i, in_string) ==
  LET token == SubSeq(t, i, Past(t, i, InNumber) - 1)
  IN  CASE At(t, i) = "end" -> FALSE
        [] At(t, i) # "end" /\ in_string ->
             TagsGarbage(t, IF t[i] = "\\" THEN i + 2 ELSE i + 1, t[i] # "\"")
        [] OTHER ->
             IF t[i] \in Digit \cup {"-"}
             THEN \/ Overflows(token) /\ ~IsNumber(token)
                  \/ TagsGarbage(t, i + Len(token), FALSE)
             ELSE TagsGarbage(t, i + 1, t[i] = "\"")

(* "invalid text stays invalid" (jsonfuzz_reference.hpp:33), and valid text  *)
(* valid, as long as the token that is put into a string is a number: then   *)
(* the reference models exactly the documents of UTF-8 and whole characters. *)
TaggingKeepsSyntax ==
  ~TagsGarbage(data, 1, FALSE) =>
    (RefParses(Tagged(data).text) <=>
       Accepts(data, Len(data)) /\ \A k \in DOMAIN data : data[k] \notin {"ff", "d800"})

(* The operators that work on the tree, and the two that wrap, always yield  *)
(* a document; and one that works on the tree never yields a duplicated key, *)
(* the one that duplicates a subtree included: it writes into a map, and an  *)
(* object that has a member of that name loses it.                           *)
TreeOpsYieldDocuments ==
  last.changed =>
    /\ last.op \in TreeOps \cup Wraps => RefParses(last.text)
    /\ last.op \in TreeOps => DuplicatedKeys(Parse(last.text, Len(last.text)), << >>) = {}

(* A truncation never does, at whichever boundary, one in a string included: *)
(* what is left is open, or empty, to the toy as to the reference.           *)
TruncationsNeverParse ==
  last.op \in Truncations /\ last.changed => ~Accepts(last.text, Len(last.text))

\* What a text is without the bodies of its strings.
RECURSIVE Skeleton(_)
Skeleton(s) ==
  IF s = << >> THEN << >>
  ELSE IF s[1] = "\"" /\ Close(s, 2) # 0 THEN <<"string">> \o Skeleton(After(s, Close(s, 2)))
  ELSE <<s[1]>> \o Skeleton(Tail(s))

(* An operator that is to break the syntax ("break a number's grammar",      *)
(* "remove a bracket", "change a closer") leaves a document only where it    *)
(* hit a digit or a bracket inside a string.                                 *)
BreakersBreak ==
  last.op \in Breakers /\ last.changed /\ RefParses(last.text) =>
    Skeleton(last.text) = Skeleton(last.from)

(* mutate() writes no more than max_size bytes, and with max_size the size   *)
(* of the buffer, as the readings call it, a wrapped document is always cut  *)
(* to something that is none.                                                *)
StaysInPlace ==
  last # NoMutation =>
    /\ Len(data) =< last.max_size
    /\ last.op \in Wraps /\ last.changed /\ last.max_size = Len(last.from)
         => ~Accepts(data, Len(data))
=============================================================================
