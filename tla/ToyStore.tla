----------------------------- MODULE ToyStore -----------------------------
(***************************************************************************)
(* The toy SUT's tree as a store of pointers: sut.hpp's account of set()   *)
(* and remove(), in terms of pointers alone (PointerStore).                *)
(***************************************************************************)
EXTENDS ToySut

CONSTANT MaxTokens   \* bound on the tokens of a pointer

\* The digits of every size there is name that index, and a path holds no others: ToySut's
\* UnresolvedIsNull is about those.
ASSUME IndexAssumption ==
  LET sizes == 0 .. 2 ^ SizeBits - 1
  IN  /\ \A n \in sizes : /\ ToString(n) \in STRING /\ ToString(n) \notin DOMAIN Decoded
                          /\ ToString(n) \in DOMAIN Digits /\ ParseIndex(ToString(n)) = n
      /\ \A token \in DOMAIN Digits : \E n \in sizes : token = ToString(n)
      /\ "-" \notin DOMAIN Digits

\* Values set below MaxTokens tokens, in arrays that memory holds whatever the calls append.
ASSUME SizesAssumption ==
  /\ MaxTokens \in Nat /\ MaxCalls \in Nat
  /\ \A p \in Paths \ {NotAPointer} : Len(p) =< MaxTokens
  /\ \A text \in Texts : ToyAccepts(text) =>
       \A n \in 0 .. MaxDepth : \A u \in Level(text, n) :
         u.kind = "array" => Len(u.members) + MaxCalls < 2 ^ SizeBits

\* The pointers of at most n tokens that resolve, each with what it resolves to: the root's,
\* and one token more than those found so far.
Longer(v, found) ==
  {[ptr |-> << >>, val |-> v]} \cup
  UNION {{[ptr |-> Append(x.ptr, key), val |-> Named(x.val, key, Nowhere)] :
          key \in KeysOf(x.val)} : x \in found}

Resolved(v, n) ==
  LET at[k \in 0 .. n] == IF k = 0 THEN Longer(v, {}) ELSE Longer(v, at[k - 1])
  IN  at[n]

NodesOf(v) ==
  IF v = Nowhere THEN {}
  ELSE {[ptr |-> x.ptr, kind |-> x.val.kind, atom |-> x.val.atom] :
        x \in Resolved(v, MaxTokens + MaxDepth)}

\* A text set() refuses as a value is none.
Store == INSTANCE PointerStore
  WITH nodes <- NodesOf(root),
       call <- [call EXCEPT !.val = IF ToyAccepts(@) THEN NodesOf(@) ELSE {}]

(* The toy keeps the promise of set() and remove(), call by call: what is at *)
(* and below the pointer, and nothing else, in a tree whose arrays renumber  *)
(* and whose objects hold a key twice.                                       *)
KeepsPointers == Store!PSpec
=============================================================================
