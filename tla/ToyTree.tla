------------------------------ MODULE ToyTree ------------------------------
(***************************************************************************)
(* What the toy SUT (src/jsonfuzz_sut.cpp) does with a document: how it    *)
(* walks a pointer, replaces, appends and erases.  Pointers are the token  *)
(* sequences split_pointer() yields (see Spellings for the split itself).  *)
(***************************************************************************)
EXTENDS Documents

Seqs == INSTANCE SequencesExt

CONSTANTS
  Encoded,  \* the keys encode_key() has to escape: [key -> spelling]
  Digits,   \* the tokens all_digits() accepts: [token -> Seq(0 .. 9)]
  SizeBits, \* the width of size_t
  MaxDepth, \* ParseConfig::max_depth
  NotAPointer \* what split_pointer() refuses

ASSUME Widths == SizeBits \in Nat \ {0} /\ 2 ^ SizeBits \in Nat \ {0} /\ MaxDepth \in Nat
ASSUME DigitsAssumption == \A token \in DOMAIN Digits : Digits[token] \in Seq(0 .. 9)
ASSUME EncodedDecode == \A key \in DOMAIN Encoded : Decoded[Encoded[key]] = key

\* parse_value(): the document is at depth 0, and a value below max_depth is refused.
ToyAccepts(v) == v # Malformed /\ Level(v, MaxDepth + 1) = {}

\* parse_index(), whose size_t wraps.
NextIndex(idx, digit) == (idx * 10 + digit) % 2 ^ SizeBits

ParseIndex(token) ==
  LET idx[k \in 0 .. Len(Digits[token])] ==
        IF k = 0 THEN 0 ELSE NextIndex(idx[k - 1], Digits[token][k])
  IN  idx[Len(Digits[token])]

\* The member a token names in a container: its position, or 0.
ChildAt(v, token) ==
  CASE v.kind = "array" /\ token \in DOMAIN Digits ->
         IF ParseIndex(token) < Len(v.members) THEN ParseIndex(token) + 1 ELSE 0
    [] v.kind = "object" /\ token \in KeysOf(v) -> FirstMember(v, token)
    [] OTHER -> 0

Child(v, token) ==
  IF ChildAt(v, token) = 0 THEN Nowhere ELSE v.members[ChildAt(v, token)].val

\* resolve(): the value after each token.
Walk(v, p) ==
  LET at[k \in 0 .. Len(p)] == IF k = 0 THEN v ELSE Child(at[k - 1], p[k])
  IN  at

ToyResolve(v, p) == IF p = NotAPointer THEN Nowhere ELSE Walk(v, p)[Len(p)]

-----------------------------------------------------------------------------
(* The write path.                                                           *)
EncodeKey(key) == IF key \in DOMAIN Encoded THEN Encoded[key] ELSE key

\* The document with another node where p resolves: the walk, from its end.
WithChild(v, token, val) == [v EXCEPT !.members[ChildAt(v, token)].val = val]

Replaced(v, p, node) ==
  LET old == Walk(v, p)
      new[k \in 0 .. Len(p)] ==
        IF k = 0 THEN node
        ELSE WithChild(old[Len(p) - k], p[Len(p) - k + 1], new[k - 1])
  IN  new[Len(p)]

\* set(), in the parent; Nowhere when refused.
PutMember(obj, key, val) ==
  IF key \in KeysOf(obj)
  THEN [obj EXCEPT !.members[FirstMember(obj, key)].val = val]
  ELSE [obj EXCEPT !.members = Append(@, Member(EncodeKey(key), val))]

\* Mutant: an index past the end appends.
PutElementAnywhere(arr, token, val) ==
  LET size == Len(arr.members)
      idx == IF token = "-" THEN size ELSE ParseIndex(token)
  IN  IF token # "-" /\ token \notin DOMAIN Digits THEN Nowhere
      ELSE IF idx >= size THEN Arr(Append(Vals(arr), val))
      ELSE Arr([Vals(arr) EXCEPT ![idx + 1] = val])

PutElement(arr, token, val) ==
  LET size == Len(arr.members)
      idx == IF token = "-" THEN size ELSE ParseIndex(token)
  IN  IF token # "-" /\ token \notin DOMAIN Digits THEN Nowhere
      ELSE CASE idx = size -> Arr(Append(Vals(arr), val))
             [] idx < size -> Arr([Vals(arr) EXCEPT ![idx + 1] = val])
             [] OTHER -> Nowhere

Put(parent, token, val) ==
  CASE parent.kind = "object" -> PutMember(parent, token, val)
    [] parent.kind = "array" -> PutElement(parent, token, val)
    [] OTHER -> Nowhere

\* Mutant: an array loses its first element, whichever was named.
DropFirst(parent, token) ==
  IF ChildAt(parent, token) = 0 THEN Nowhere
  ELSE IF parent.kind = "array" THEN Arr(Seqs!RemoveAt(Vals(parent), 1))
  ELSE [parent EXCEPT !.members = Seqs!RemoveAt(@, ChildAt(parent, token))]

\* remove(), in the parent.
Drop(parent, token) ==
  IF ChildAt(parent, token) = 0 THEN Nowhere
  ELSE IF parent.kind = "array" THEN Arr(Seqs!RemoveAt(Vals(parent), ChildAt(parent, token)))
  ELSE [parent EXCEPT !.members = Seqs!RemoveAt(@, ChildAt(parent, token))]

InParent(root, p, new) ==
  IF new = Nowhere THEN Nowhere ELSE Replaced(root, Seqs!Front(p), new)

\* set_value(): the document afterwards; Nowhere when it was refused.
Written(root, p, val) ==
  IF root = Nowhere \/ ~ToyAccepts(val) \/ p = NotAPointer THEN Nowhere
  ELSE IF p = << >> THEN val
  ELSE InParent(root, p, Put(ToyResolve(root, Seqs!Front(p)), Seqs!Last(p), val))

\* remove_value()
Erased(root, p) ==
  IF root = Nowhere \/ p \in {NotAPointer, << >>} THEN Nowhere
  ELSE InParent(root, p, Drop(ToyResolve(root, Seqs!Front(p)), Seqs!Last(p)))
=============================================================================
