----------------------------- MODULE Documents -----------------------------
(***************************************************************************)
(* JSON documents as trees, and the reading of them a pointer makes: the   *)
(* members in order, the first of a duplicated key is the one it reaches.  *)
(* Pointers are sequences of unescaped tokens.                             *)
(*                                                                         *)
(* A node is [kind, atom, members]; members is a sequence of [key, val].   *)
(* The key of an object's member is spelled as in the text (it may hold    *)
(* escapes), the key of an array's element is its index.                   *)
(***************************************************************************)
EXTENDS Integers, Sequences, FiniteSets, TLC

CONSTANT Decoded   \* the spellings of keys that hold an escape: [spelling -> key]

Leaf(atom) == [kind |-> "scalar", atom |-> atom, members |-> << >>]
Obj(members) == [kind |-> "object", atom |-> "", members |-> members]
Member(key, val) == [key |-> key, val |-> val]
Arr(vals) ==
  [kind |-> "array", atom |-> "",
   members |-> [k \in 1 .. Len(vals) |-> Member(ToString(k - 1), vals[k])]]

Nowhere == [kind |-> "nowhere", atom |-> "", members |-> << >>]
Malformed == [kind |-> "malformed", atom |-> "", members |-> << >>]

IsContainer(v) == v.kind # "scalar"

Vals(v) == [k \in DOMAIN v.members |-> v.members[k].val]

\* decode_key()
KeyOf(m) == IF m.key \in DOMAIN Decoded THEN Decoded[m.key] ELSE m.key
KeysOf(v) == {KeyOf(v.members[k]) : k \in DOMAIN v.members}

\* find_member(): the first member of that key.
FirstMember(v, key) ==
  CHOOSE k \in DOMAIN v.members :
    /\ KeyOf(v.members[k]) = key
    /\ \A j \in 1 .. k - 1 : KeyOf(v.members[j]) # key

\* The value a token names in v, and the values on the way of a pointer, none from where
\* it names nothing.
Named(v, token, none) ==
  IF v # none /\ token \in KeysOf(v) THEN v.members[FirstMember(v, token)].val ELSE none

Resolve(v, p, none) ==
  LET at[k \in 0 .. Len(p)] == IF k = 0 THEN v ELSE Named(at[k - 1], p[k], none)
  IN  at[Len(p)]

-----------------------------------------------------------------------------
\* A scalar, an array whose keys are its indices, or an object.
IsNode(v) ==
  /\ Len(v.members) \in Nat /\ DOMAIN v.members = 1 .. Len(v.members)
  /\ \/ v = Leaf(v.atom)
     \/ v = Arr(Vals(v))
     \/ v = Obj([k \in DOMAIN v.members |-> Member(v.members[k].key, v.members[k].val)])

\* The values of the members of us, and the values n levels below v.
Under(us) == UNION {{u.members[i].val : i \in DOMAIN u.members} : u \in us}

Level(v, n) ==
  LET at[k \in 0 .. n] == IF k = 0 THEN {v} ELSE Under(at[k - 1])
  IN  at[n]
=============================================================================
