------------------------------- MODULE ToySut -------------------------------
(***************************************************************************)
(* ToySut, the reference SUT this repository fuzzes against: any sequence  *)
(* of parse(), set() and remove(), with what the const calls would answer. *)
(* A text is the tree it spells, or Malformed; an accepted text serializes *)
(* to the same tree, since numbers, strings and keys are kept as spelled.  *)
(***************************************************************************)
EXTENDS ToyTree

CONSTANTS Texts, Paths, MaxCalls   \* bounds: what is parsed and set, where, how often

\* Tokens of a pointer, a key that is written among them, read back as they are spelled
\* (Spellings has why); what the parser takes is a document.
ASSUME PathsAssumption ==
  /\ NotAPointer \notin Seq(STRING)
  /\ \A p \in Paths \ {NotAPointer} :
       p \in Seq(STRING) /\ \A k \in 1 .. Len(p) : KeyOf(Member(EncodeKey(p[k]), Nowhere)) = p[k]
ASSUME TextsAssumption ==
  \A text \in Texts :
    ToyAccepts(text) =>
      \A n \in 0 .. MaxDepth : \A u \in Level(text, n) : IsNode(u) /\ KeysOf(u) \subseteq STRING

VARIABLES
  root,   \* Impl::root; Nowhere while has_root is false
  call,   \* the last call and its outcome
  calls   \* how many

vars == <<root, call, calls>>

Called(op, p, text, status) ==
  /\ calls < MaxCalls /\ calls' = calls + 1
  /\ call' = [op |-> op, ptr |-> p, val |-> text, status |-> status]

Init ==
  /\ root = Nowhere /\ calls = 0
  /\ call = [op |-> "none", ptr |-> << >>, val |-> Malformed, status |-> "none"]

\* Mutant: a rejected text replaces the model, as an empty one.
ParseClears(text) ==
  \/ ToyAccepts(text) /\ root' = text /\ Called("parse", << >>, text, "Applied")
  \/ ~ToyAccepts(text) /\ root' = Leaf("null") /\ Called("parse", << >>, text, "Rejected")

Parse(text) ==
  \/ ToyAccepts(text) /\ root' = text /\ Called("parse", << >>, text, "Applied")
  \/ ~ToyAccepts(text) /\ root' = root /\ Called("parse", << >>, text, "Rejected")

Set(p, text) ==
  LET new == Written(root, p, text)
  IN  \/ new # Nowhere /\ root' = new /\ Called("set", p, text, "Applied")
      \/ new = Nowhere /\ root' = root /\ Called("set", p, text, "Rejected")

Remove(p) ==
  LET new == Erased(root, p)
  IN  \/ new # Nowhere /\ root' = new /\ Called("remove", p, Malformed, "Applied")
      \/ new = Nowhere /\ root' = root /\ Called("remove", p, Malformed, "Rejected")

Next ==
  \/ \E text \in Texts : Parse(text)
  \/ \E p \in Paths, text \in Texts : Set(p, text)
  \/ \E p \in Paths : Remove(p)

Spec == Init /\ [][Next]_vars

-----------------------------------------------------------------------------
(* What O4 asks of one parent holds in every document the calls can build:   *)
(* a value set where nothing was is got back, and its removal restores the   *)
(* document, spelling and order included.  "-" names no element afterwards.  *)
SetThenRemove ==
  \A p \in Paths, text \in Texts :
    LET new == Written(root, p, text)
    IN  new # Nowhere /\ ToyResolve(root, p) = Nowhere /\ p[Len(p)] # "-" =>
          ToyResolve(new, p) = text /\ Erased(new, p) = root

(* sut.hpp:72-73, get(): "nullopt when the pointer does not resolve", in the *)
(* RFC 6901 sense the interface names: an index has no leading zero, and one *)
(* beyond the array resolves to nothing, however large.                      *)
UnresolvedIsNull ==
  \A p \in Paths \ {NotAPointer} :
    root # Nowhere /\ Resolve(root, p, Nowhere) = Nowhere => ToyResolve(root, p) = Nowhere
=============================================================================
