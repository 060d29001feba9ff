------------------------------- MODULE Sut -------------------------------
(***************************************************************************)
(* The interface between the oracle and the system under test (SUT):       *)
(* include/jsonfuzz/sut.hpp.                                               *)
(*                                                                         *)
(* The SUT is somebody else's parser.  The oracle calls it and believes    *)
(* nothing: any call may answer anything the return type allows, or throw. *)
(* Next to the answers this module keeps, as history variables no code     *)
(* reads, what a SUT that keeps the contract would hold at this point      *)
(* (model), whether every answer so far was one such a SUT could give      *)
(* (honest), and the calls themselves (log).                               *)
(*                                                                         *)
(* Texts, JSON values and pointers are opaque: the constants say what an   *)
(* honest parser reads in a text and what the oracle's own reference       *)
(* parser (nlohmann::json, plus the number tagger) reads in it.            *)
(***************************************************************************)
EXTENDS Integers, Sequences

CONSTANTS
  Text,       \* every text the oracle and the SUT exchange
  Value,      \* the documents (and parts of documents) an honest SUT can hold
  RefValue,   \* the values the reference parser can hold, up to its equality
  Pointer,    \* RFC 6901 pointers
  Token,      \* spellings of numbers
  NoText, NoValue, NoPointer, \* nullopt, "nothing", and a violation about no pointer
  Threw,      \* the answer of a call that threw
  EmptyText   \* the empty string

CONSTANTS     \* an honest parser
  Reads,      \* [Text -> Value or NoValue]: the model a lazy parse of the text yields
  Strict,     \* the texts a strict_numbers parse accepts too
  Commented,  \* the texts only an allow_comments parse accepts
  Canon,      \* [Value -> Text]: serialize()
  MaxModes,   \* the most serialization modes a SUT offers
  ModeText,   \* [0..MaxModes-1 -> [Value -> Text]]: serialize_mode()
  At,         \* [Value -> [Pointer -> Value or NoValue]]: what a pointer resolves to
  Addable     \* [Value -> SUBSET Pointer]: absent, and set() would add it

CONSTANTS     \* the oracle's reference parser
  Ref,        \* [Text -> RefValue or NoValue]: reference_parse()
  RefAt,      \* [RefValue -> [Pointer -> RefValue or NoValue]]: reference_at()
  Container,  \* the objects and arrays of RefValue
  Dups,       \* [Text -> SUBSET Pointer]: the pointers through a duplicated key the scan found
  Scannable,  \* the texts whose duplicated-key scan completes
  TwiceKeyed, \* the texts that hold a duplicated key, whether the scan found it or not
  Tokens,     \* [Text -> [Token -> Nat]]: number_tokens(), as a multiset
  Fresh,      \* [Pointer -> [Container -> Pointer]]: a child the container lacks
  SetValues   \* kSetValues

CONSTANTS     \* bounds of a model, not of the code
  Inputs,       \* the texts the oracle is run on
  Spoken,       \* the texts a SUT may answer
  PointerLists, \* the pointer lists a SUT may answer
  Configs,      \* the parse configurations: [strict, comments]
  Offered,      \* the capabilities an honest SUT may offer
  MayLie        \* FALSE: only answers an honest SUT could give

-----------------------------------------------------------------------------

Modes == 0 .. MaxModes - 1

ASSUME Sentinels ==
  /\ NoText \notin Text /\ Threw \notin Text /\ Threw \notin PointerLists /\ NoText # Threw
  /\ Threw \notin 0 .. MaxModes
  /\ Threw \notin {"accepted", "rejected", "Applied", "Rejected", "Unsupported", "yes", "no"}
  /\ NoValue \notin Value /\ NoValue \notin RefValue
  /\ EmptyText \in Text

ASSUME ConstantTypes ==
  /\ MaxModes \in Nat \ {0}
  /\ Reads \in [Text -> Value \cup {NoValue}]
  /\ Strict \subseteq Text /\ Commented \subseteq Text
  /\ Scannable \subseteq Text /\ TwiceKeyed \subseteq Text
  /\ Canon \in [Value -> Text]
  /\ ModeText \in [Modes -> [Value -> Text]]
  /\ At \in [Value -> [Pointer -> Value \cup {NoValue}]]
  /\ Addable \in [Value -> SUBSET Pointer]
  /\ Ref \in [Text -> RefValue \cup {NoValue}]
  /\ RefAt \in [RefValue -> [Pointer -> RefValue \cup {NoValue}]]
  /\ Container \subseteq RefValue
  /\ Dups \in [Text -> SUBSET Pointer]
  /\ Tokens \in [Text -> [Token -> Nat]]
  /\ Fresh \in [Pointer -> [Container -> Pointer]]
  /\ SetValues \in Seq(Text) /\ Len(SetValues) > 0
  /\ Inputs \subseteq Text /\ Spoken \subseteq Text
  /\ PointerLists \subseteq Seq(Pointer)
  /\ Configs \subseteq [strict : BOOLEAN, comments : BOOLEAN]
  /\ Offered \subseteq
       [set : BOOLEAN, remove : BOOLEAN, modes : 1 .. MaxModes, numbers : BOOLEAN]
  /\ MayLie \in BOOLEAN

(***************************************************************************)
(* What "honest" means, beyond one call at a time.  The serializations of  *)
(* a value are read back as that value, under the same configuration.      *)
(***************************************************************************)
ASSUME RoundTrips ==
  /\ \A v \in Value : Reads[Canon[v]] = v /\ Canon[v] \notin Commented
  /\ \A m \in Modes, v \in Value :
       Reads[ModeText[m][v]] = v /\ ModeText[m][v] \notin Commented

\* Strictness is inherited by the serializations and by the parts of a document.
ASSUME StrictnessInherited ==
  /\ \A t \in Strict : Reads[t] # NoValue => Canon[Reads[t]] \in Strict
  /\ \A v \in Value : Canon[v] \in Strict =>
       /\ \A m \in Modes : ModeText[m][v] \in Strict
       /\ \A p \in Pointer : At[v][p] # NoValue => Canon[At[v][p]] \in Strict

\* Away from duplicated keys, the reference walk of the canonical text and the
\* SUT's own get() find the same values.
ASSUME ReferenceAgrees ==
  \A v \in Value : Ref[Canon[v]] # NoValue =>
    \A p \in Pointer \ Dups[Canon[v]] : At[v][p] # NoValue =>
      /\ Ref[Canon[At[v][p]]] # NoValue
      /\ RefAt[Ref[Canon[v]]][p] = Ref[Canon[At[v][p]]]

\* The child pointer built for a container does not resolve there yet, and set()
\* can add it.
ASSUME FreshIsAddable ==
  \A v \in Value : Ref[Canon[v]] # NoValue =>
    \A p \in Pointer \ Dups[Canon[v]] :
      LET node == RefAt[Ref[Canon[v]]][p]
      IN  At[v][p] # NoValue /\ node \in Container => Fresh[p][node] \in Addable[v]

\* A scan that completes finds the duplicated keys there are; one that stops early holds
\* those seen so far, and says nothing of the rest.
ASSUME ScanFinds ==
  \A t \in Scannable : Dups[t] = {} => t \notin TwiceKeyed

ASSUME AddableIsAbsent ==
  \A v \in Value : \A p \in Addable[v] : At[v][p] = NoValue

\* The texts O4 writes are read the same way by everybody.
ASSUME SetValuesReadable ==
  \A k \in 1 .. Len(SetValues) :
    LET t == SetValues[k]
    IN  Reads[t] # NoValue /\ Ref[t] # NoValue /\ Ref[Canon[Reads[t]]] = Ref[t]

-----------------------------------------------------------------------------
VARIABLES
  input,    \* the text under test
  strict, comments, \* ParseConfig: strict_numbers, allow_comments
  offers,   \* the capabilities an honest SUT would offer
  model,    \* history: what an honest SUT would hold now
  honest,   \* history: every answer so far is one an honest SUT could give
  log       \* history: the calls of the running law, in order

given == <<input, strict, comments, offers>>
sutvars == <<model, honest, log>>

NoModel == [doc |-> NoValue, extra |-> {}, gone |-> FALSE]
Holding(v) == [doc |-> v, extra |-> {}, gone |-> FALSE]

\* extra: the members set() put there; gone: an original member was replaced or removed.
Model == [doc : Value \cup {NoValue},
          extra : SUBSET [ptr : Pointer, val : Value \cup {NoValue}],
          gone : BOOLEAN]

Untouched == model.extra = {} /\ ~model.gone

\* The value an honest SUT's get(p) serializes: a written member, or the document's own.
Lookup(p) ==
  IF \E w \in model.extra : w.ptr = p
  THEN (CHOOSE w \in model.extra : w.ptr = p).val
  ELSE IF model.doc = NoValue THEN NoValue ELSE At[model.doc][p]

Accepts(t, st) ==
  /\ Reads[t] # NoValue
  /\ st => t \in Strict
  /\ t \in Commented => comments

\* A SUT that promises number text keeps the promise on the input, where a promise is
\* possible: no comment, no duplicated key it may drop.
TokensSurvive(t) ==
  (Reads[t] # NoValue /\ t \notin Commented /\ t \notin TwiceKeyed) =>
     \A k \in Token : Tokens[t][k] =< Tokens[Canon[Reads[t]]][k]

SutInit ==
  /\ input \in Inputs
  /\ \E c \in Configs : strict = c.strict /\ comments = c.comments
  /\ offers \in {o \in Offered : o.numbers => TokensSurvive(input)}
  /\ model = NoModel
  /\ honest = TRUE
  /\ log = << >>

-----------------------------------------------------------------------------
(* One call, answered: right says whether an honest SUT could answer this,  *)
(* next is what it would then hold.  Once the SUT has lied, what it holds   *)
(* means nothing.                                                           *)
Answered(op, arg, ans, right, next) ==
  /\ MayLie \/ right
  /\ honest' = (honest /\ right)
  /\ model' = IF honest /\ right THEN next ELSE NoModel
  /\ log' = Append(log, [op |-> op, arg |-> arg, ans |-> ans])

ParseAnswers    == {"accepted", "rejected", Threw}
TextAnswers     == Spoken \cup {Threw}
GetAnswers      == Spoken \cup {NoText, Threw}
PointersAnswers == PointerLists \cup {Threw}
WriteAnswers    == {"Applied", "Rejected", "Unsupported", Threw}
CountAnswers    == (0 .. MaxModes) \cup {Threw}
BoolAnswers     == {"yes", "no", Threw}

\* parse(): a rejected text leaves the last accepted parse in place.
ParseCall(t, st, ans) ==
  Answered("parse", t, ans,
           ans = IF Accepts(t, st) THEN "accepted" ELSE "rejected",
           IF ans = "accepted" THEN Holding(Reads[t]) ELSE model)

\* The text of a serialization of the model: Spelt[v] when nothing was written since
\* the parse, some other text when something was, "" before anything was accepted.
Serializes(Spelt, ans) ==
  IF model.doc = NoValue THEN ans = EmptyText
  ELSE IF Untouched THEN ans = Spelt[model.doc]
  ELSE ans \in Text \ {Spelt[model.doc]}

SerializeCall(ans) == Answered("serialize", NoText, ans, Serializes(Canon, ans), model)

SerializeModeCall(m, ans) ==
  Answered("serialize_mode", m, ans, Serializes(ModeText[m], ans), model)

\* pointers(): into the last accepted parse, never past its end.
PointersCall(ans) ==
  Answered("pointers", NoText, ans,
           ans # Threw /\ \A k \in DOMAIN ans : Lookup(ans[k]) # NoValue,
           model)

GetCall(p, ans) ==
  Answered("get", p, ans,
           ans = IF Lookup(p) = NoValue THEN NoText ELSE Canon[Lookup(p)],
           model)

Settable(p) == model.doc # NoValue /\ (p \in Addable[model.doc] \/ Lookup(p) # NoValue)

SetCall(p, v, ans) ==
  Answered("set", p, ans,
           ans = IF ~offers.set THEN "Unsupported"
                 ELSE IF Settable(p) THEN "Applied" ELSE "Rejected",
           IF ans # "Applied" THEN model
           ELSE [doc   |-> model.doc,
                 extra |-> {w \in model.extra : w.ptr # p}
                             \cup {[ptr |-> p, val |-> v]},
                 gone  |-> model.gone \/ At[model.doc][p] # NoValue])

RemoveCall(p, ans) ==
  Answered("remove", p, ans,
           ans = IF ~offers.remove THEN "Unsupported"
                 ELSE IF Lookup(p) # NoValue THEN "Applied" ELSE "Rejected",
           IF ans # "Applied" THEN model
           ELSE [doc   |-> model.doc,
                 extra |-> {w \in model.extra : w.ptr # p},
                 gone  |-> model.gone \/ ~\E w \in model.extra : w.ptr = p])

ModeCountCall(ans) ==
  Answered("serialize_mode_count", NoText, ans, ans = offers.modes, model)

PreservesCall(ans) ==
  Answered("preserves_number_text", NoText, ans,
           ans = IF offers.numbers THEN "yes" ELSE "no", model)
=============================================================================
