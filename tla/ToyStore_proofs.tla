-------------------------- MODULE ToyStore_proofs --------------------------
(***************************************************************************)
(* The toy SUT keeps the promise of set() and remove() (KeepsPointers) for *)
(* every document it may be given.                                         *)
(***************************************************************************)
EXTENDS ToyStore, ToySut_proofs, FiniteSetTheorems

(* The tokens that are indices, one for each size there is.                  *)
IsIndexOf(token, n) ==
  /\ n \in 0 .. 2 ^ SizeBits - 1 /\ token = ToString(n)
  /\ token \in DOMAIN Digits /\ ParseIndex(token) = n

LEMMA SizesAreIndices ==
  ASSUME NEW n \in 0 .. 2 ^ SizeBits - 1
  PROVE  IsIndexOf(ToString(n), n) /\ ToString(n) \in STRING /\ ToString(n) \notin DOMAIN Decoded
BY IndexAssumption DEF IsIndexOf

LEMMA DigitsAreIndices ==
  ASSUME NEW token \in DOMAIN Digits
  PROVE  IsIndexOf(token, ParseIndex(token))
<1>1. PICK n \in 0 .. 2 ^ SizeBits - 1 : token = ToString(n)
  BY IndexAssumption
<1>2. IsIndexOf(ToString(n), n)
  BY SizesAreIndices
<1> QED
  BY <1>1, <1>2, Zenon DEF IsIndexOf

(* Where a token leads to in an array and in an object.                      *)
LEMMA InArray ==
  ASSUME NEW v, v.kind = "array", NEW token
  PROVE  ChildAt(v, token) =
           IF token \in DOMAIN Digits /\ ParseIndex(token) < Len(v.members)
           THEN ParseIndex(token) + 1 ELSE 0
BY DEF ChildAt

LEMMA InObject ==
  ASSUME NEW v, v.kind = "object", NEW token
  PROVE  ChildAt(v, token) = IF token \in KeysOf(v) THEN FirstMember(v, token) ELSE 0
BY DEF ChildAt

LEMMA InOther ==
  ASSUME NEW v, v.kind # "object", v.kind # "array", NEW token
  PROVE  ChildAt(v, token) = 0
BY DEF ChildAt

(* Two tokens never lead to the same member.                                 *)
LEMMA MemberHasOneToken ==
  ASSUME NEW v, IsShaped(v), NEW s, NEW t, ChildAt(v, s) # 0, ChildAt(v, s) = ChildAt(v, t)
  PROVE  s = t
<1>1. Len(v.members) \in Nat /\ DOMAIN v.members = 1 .. Len(v.members)
  BY DEF IsShaped
<1>2. CASE v.kind = "array"
  <2>1. s \in DOMAIN Digits /\ t \in DOMAIN Digits /\ ParseIndex(s) + 1 = ParseIndex(t) + 1
    BY <1>2, InArray
  <2>2. IsIndexOf(s, ParseIndex(s)) /\ IsIndexOf(t, ParseIndex(t))
    BY <2>1, DigitsAreIndices
  <2>3. ParseIndex(s) \in Nat /\ ParseIndex(t) \in Nat
    BY <2>1, IndexNat
  <2>4. ParseIndex(s) = ParseIndex(t)
    BY <2>1, <2>3
  <2> QED
    BY <2>2, <2>4, Zenon DEF IsIndexOf
<1>3. CASE v.kind = "object"
  <2>1. s \in KeysOf(v) /\ t \in KeysOf(v) /\ FirstMember(v, s) = FirstMember(v, t)
    BY <1>3, InObject
  <2>2. KeyOf(v.members[FirstMember(v, s)]) = s /\ KeyOf(v.members[FirstMember(v, t)]) = t
    BY <2>1, <1>1, FirstOfKey
  <2> QED
    BY <2>1, <2>2, Zenon
<1> QED
  BY <1>2, <1>3, InOther

\* u is v but for the member token names, if it names any.
SameBut(u, v, token) ==
  /\ u.kind = v.kind /\ u.atom = v.atom
  /\ \A t : t # token => Child(u, t) = Child(v, t)

(* Another value in the place of a member.                                   *)
LEMMA ExceptSameBut ==
  ASSUME NEW v, IsShaped(v), NEW token, ChildAt(v, token) # 0, NEW x
  PROVE  /\ SameBut(Except(v, ChildAt(v, token), x), v, token)
         /\ Child(Except(v, ChildAt(v, token), x), token) = x
<1> SUFFICES ASSUME NEW u, u = Except(v, ChildAt(v, token), x)
             PROVE  SameBut(u, v, token) /\ Child(u, token) = x
  BY Zenon
<1>1. PICK i, n : i = ChildAt(v, token) /\ n = Len(v.members)
  OBVIOUS
<1>2. n \in Nat /\ DOMAIN v.members = 1 .. n /\ i # 0
  BY <1>1 DEF IsShaped
<1>3. i \in 1 .. n
  <2>1. i \in 0 .. n
    BY <1>1, <1>2, ChildAtRange
  <2> QED
    BY <2>1, <1>2
<1>4. Changes(u, v, i, x)
  BY <1>1, <1>2, ExceptFields, Zenon
<1>5. SameKeys(u, v)
  BY <1>1, <1>3, ExceptShaped, Zenon
<1>6. \A t : ChildAt(u, t) = ChildAt(v, t)
  BY <1>5, SameKeysSameChild
<1>7. ASSUME NEW t, t # token PROVE Child(u, t) = Child(v, t)
  <2>1. PICK j : j = ChildAt(v, t)
    OBVIOUS
  <2>2. ChildAt(u, t) = j
    BY <1>6, <2>1, Zenon
  <2>3. CASE j = 0
    BY <2>1, <2>2, <2>3, Zenon DEF Child
  <2>4. CASE j # 0
    <3>1. j # i
      BY <1>1, <1>7, <2>1, <2>4, MemberHasOneToken
    <3>2. j \in 1 .. n
      <4>1. j \in 0 .. n
        BY <2>1, <1>1, <1>2, ChildAtRange
      <4> QED
        BY <4>1, <2>4
    <3>3. u.members[j] = v.members[j]
      BY <1>1, <1>4, <3>1, <3>2, Zenon DEF Changes
    <3> QED
      BY <2>1, <2>2, <2>4, <3>3, Zenon DEF Child
  <2> QED
    BY <2>3, <2>4
<1>8. Child(u, token) = x
  <2>1. u.members[i] = Member(v.members[i].key, x)
    BY <1>1, <1>3, <1>4, Zenon DEF Changes
  <2>2. u.members[i].val = x
    BY <2>1, MemberFields
  <2>3. ChildAt(u, token) = i
    BY <1>1, <1>6, Zenon
  <2> QED
    BY <2>2, <2>3, <1>2, Zenon DEF Child
<1> QED
  BY <1>4, <1>7, <1>8 DEF SameBut, Changes

(* One object's member of a key is another's of it, at its place in each.    *)
SameMember(u, f, v, g) ==
  /\ f \in 1 .. Len(u.members) /\ g \in 1 .. Len(v.members)
  /\ u.members[f] = v.members[g]
  /\ \A j \in 1 .. f - 1 : KeyOf(u.members[j]) # KeyOf(v.members[g])

LEMMA SameMemberChild ==
  ASSUME NEW u, IsShaped(u), u.kind = "object", NEW v, IsShaped(v), v.kind = "object",
         NEW t, t \in KeysOf(v), NEW f, SameMember(u, f, v, FirstMember(v, t))
  PROVE  t \in KeysOf(u) /\ Child(u, t) = Child(v, t)
<1>1. /\ Len(u.members) \in Nat /\ DOMAIN u.members = 1 .. Len(u.members)
      /\ Len(v.members) \in Nat /\ DOMAIN v.members = 1 .. Len(v.members)
  BY DEF IsShaped
<1>2. PICK g : g = FirstMember(v, t)
  OBVIOUS
<1>3. g \in 1 .. Len(v.members) /\ KeyOf(v.members[g]) = t
  BY <1>1, <1>2, FirstOfKey, Zenon
<1>4. f \in 1 .. Len(u.members) /\ u.members[f] = v.members[g] /\ KeyOf(u.members[f]) = t
  BY <1>2, <1>3, Zenon DEF SameMember
<1>5. \A j \in 1 .. f - 1 : KeyOf(u.members[j]) # KeyOf(u.members[f])
  BY <1>2, <1>4, Zenon DEF SameMember
<1>6. KeyOf(u.members[f]) \in KeysOf(u) /\ FirstMember(u, KeyOf(u.members[f])) = f
  BY <1>1, <1>4, <1>5, FirstIsTheOne
<1>7. ChildAt(u, t) = f /\ ChildAt(v, t) = g
  BY <1>2, <1>4, <1>6, InObject, Zenon
<1>8. f # 0 /\ g # 0
  BY <1>3, <1>4
<1> QED
  BY <1>4, <1>6, <1>7, <1>8, Zenon DEF Child

(* A member added at the end of an object.                                   *)
LEMMA AddedSameBut ==
  ASSUME NEW v, IsShaped(v), v.kind = "object", NEW key, NEW val, NEW token,
         KeyOf(Member(key, val)) = token, token \notin KeysOf(v)
  PROVE  /\ SameBut(Added(v, Member(key, val)), v, token)
         /\ Child(Added(v, Member(key, val)), token) = val
<1> SUFFICES ASSUME NEW u, u = Added(v, Member(key, val))
             PROVE  SameBut(u, v, token) /\ Child(u, token) = val
  BY Zenon
<1>1. PICK n \in Nat : n = Len(v.members) /\ DOMAIN v.members = 1 .. n
  BY DEF IsShaped
<1>2. /\ IsShaped(u) /\ u.kind = v.kind /\ u.atom = v.atom
      /\ IsAppended(u.members, v.members, Member(key, val))
  BY AddedFields
<1>3. Len(u.members) = n + 1 /\ DOMAIN u.members = 1 .. n + 1
  BY <1>1, <1>2 DEF IsShaped, IsAppended
<1>4. u.members[n + 1] = Member(key, val) /\ \A k \in 1 .. n : u.members[k] = v.members[k]
  BY <1>1, <1>2, Zenon DEF IsAppended
<1>5. ASSUME NEW t, t # token PROVE Child(u, t) = Child(v, t)
  <2>1. CASE t \in KeysOf(v)
    <3>1. PICK f : f = FirstMember(v, t)
      OBVIOUS
    <3>2. /\ f \in 1 .. n /\ KeyOf(v.members[f]) = t
          /\ \A j \in 1 .. f - 1 : KeyOf(v.members[j]) # t
      BY <2>1, <3>1, <1>1, FirstOfKey
    <3>3. f \in 1 .. n + 1 /\ \A j \in 1 .. f - 1 : j \in 1 .. n
      BY <3>2
    <3>4. \A j \in 1 .. f - 1 : KeyOf(u.members[j]) # t
      BY <1>4, <3>2, <3>3, Zenon
    <3>5. SameMember(u, f, v, f)
      BY <1>1, <1>3, <1>4, <3>2, <3>3, <3>4, Zenon DEF SameMember
    <3>6. SameMember(u, f, v, FirstMember(v, t))
      BY <3>1, <3>5, Zenon
    <3>7. u.kind = "object"
      BY <1>2
    <3> QED
      BY <2>1, <3>6, <3>7, <1>2, SameMemberChild
  <2>2. CASE t \notin KeysOf(v)
    <3>1. ASSUME NEW k \in DOMAIN u.members PROVE KeyOf(u.members[k]) # t
      <4>1. k = n + 1 \/ k \in 1 .. n
        BY <1>3
      <4>2. k = n + 1 => KeyOf(u.members[k]) = token
        BY <1>4, Zenon
      <4>3. k \in 1 .. n => KeyOf(u.members[k]) \in KeysOf(v)
        BY <1>1, <1>4 DEF KeysOf
      <4> QED
        BY <4>1, <4>2, <4>3, <1>5, <2>2, Zenon
    <3>2. t \notin KeysOf(u)
      BY <3>1 DEF KeysOf
    <3>3. ChildAt(u, t) = 0 /\ ChildAt(v, t) = 0
      BY <2>2, <3>2, <1>2, InObject
    <3> QED
      BY <3>3, Zenon DEF Child
  <2> QED
    BY <2>1, <2>2
<1>6. Child(u, token) = val
  <2>1. IsFound(u, v, token, val)
    BY AddedIsFound, Zenon
  <2>2. ChildAt(u, token) = n + 1 /\ u.members[n + 1].val = val
    BY <2>1, <1>1, <1>2, InObject, Zenon DEF IsFound
  <2>3. n + 1 # 0
    BY <1>1
  <2> QED
    BY <2>2, <2>3, Zenon DEF Child
<1> QED
  BY <1>2, <1>5, <1>6 DEF SameBut

(* What a token names in an array.                                           *)
LEMMA ElementOf ==
  ASSUME NEW v, IsShaped(v), v.kind = "array", NEW t
  PROVE  /\ t \in DOMAIN Digits /\ ParseIndex(t) < Len(v.members) =>
              ParseIndex(t) + 1 \in 1 .. Len(v.members)
              /\ Child(v, t) = v.members[ParseIndex(t) + 1].val
         /\ ~(t \in DOMAIN Digits /\ ParseIndex(t) < Len(v.members)) => Child(v, t) = Nowhere
<1>1. Len(v.members) \in Nat
  BY DEF IsShaped
<1>2. ASSUME t \in DOMAIN Digits, ParseIndex(t) < Len(v.members)
      PROVE  ParseIndex(t) + 1 \in 1 .. Len(v.members)
             /\ Child(v, t) = v.members[ParseIndex(t) + 1].val
  <2>1. PICK i : i = ParseIndex(t) + 1
    OBVIOUS
  <2>2. ParseIndex(t) \in Nat
    BY <1>2, IndexNat
  <2>3. i \in 1 .. Len(v.members) /\ i # 0
    BY <2>1, <2>2, <1>1, <1>2
  <2>4. ChildAt(v, t) = i
    BY <2>1, <1>2, InArray
  <2>5. Child(v, t) = v.members[i].val
    BY <2>3, <2>4, Zenon DEF Child
  <2> QED
    BY <2>1, <2>3, <2>5, Zenon
<1>3. ASSUME ~(t \in DOMAIN Digits /\ ParseIndex(t) < Len(v.members)) PROVE Child(v, t) = Nowhere
  <2>1. ChildAt(v, t) = 0
    BY <1>3, InArray
  <2> QED
    BY <2>1, Zenon DEF Child
<1> QED
  BY <1>2, <1>3

\* An array that differs from another in its element idx, which may be new.
ElementPut(u, v, idx, val) ==
  /\ IsShaped(u) /\ u.kind = "array" /\ u.atom = v.atom
  /\ idx < Len(u.members) /\ u.members[idx + 1].val = val
  /\ \A j \in Nat : j # idx => (j < Len(u.members) <=> j < Len(v.members))
  /\ \A j \in Nat : j # idx /\ j < Len(v.members) =>
       u.members[j + 1].val = v.members[j + 1].val

LEMMA ElementPutSameBut ==
  ASSUME NEW v, IsShaped(v), v.kind = "array", NEW u, NEW s, NEW idx, IsIndexOf(s, idx), NEW val,
         ElementPut(u, v, idx, val)
  PROVE  SameBut(u, v, s) /\ Child(u, s) = val
<1>1. s \in DOMAIN Digits /\ ParseIndex(s) = idx /\ idx \in Nat /\ s = ToString(idx)
  BY Widths DEF IsIndexOf
<1>2. IsShaped(u) /\ u.kind = "array" /\ u.atom = v.atom
  BY DEF ElementPut
<1>3. ASSUME NEW t, t # s PROVE Child(u, t) = Child(v, t)
  <2>1. CASE t \in DOMAIN Digits
    <3>1. PICK j : j = ParseIndex(t)
      OBVIOUS
    <3>2. IsIndexOf(t, j)
      BY <2>1, <3>1, DigitsAreIndices
    <3>3. j \in Nat /\ t = ToString(j)
      BY <2>1, <3>1, <3>2, IndexNat, Zenon DEF IsIndexOf
    <3>4. j # idx
      BY <1>1, <1>3, <3>3
    <3>5. CASE j < Len(v.members)
      <4>1. j < Len(u.members) /\ u.members[j + 1].val = v.members[j + 1].val
        BY <3>3, <3>4, <3>5, Zenon DEF ElementPut
      <4>2. Child(u, t) = u.members[j + 1].val /\ Child(v, t) = v.members[j + 1].val
        BY <2>1, <3>1, <3>5, <4>1, <1>2, ElementOf, Zenon
      <4> QED
        BY <4>1, <4>2, Zenon
    <3>6. CASE ~(j < Len(v.members))
      <4>1. ~(j < Len(u.members))
        BY <3>3, <3>4, <3>6, Zenon DEF ElementPut
      <4>2. Child(u, t) = Nowhere /\ Child(v, t) = Nowhere
        BY <3>1, <3>6, <4>1, <1>2, ElementOf, Zenon
      <4> QED
        BY <4>2
    <3> QED
      BY <3>5, <3>6
  <2>2. CASE t \notin DOMAIN Digits
    <3>1. Child(u, t) = Nowhere /\ Child(v, t) = Nowhere
      BY <2>2, <1>2, ElementOf, Zenon
    <3> QED
      BY <3>1
  <2> QED
    BY <2>1, <2>2
<1>4. Child(u, s) = val
  <2>1. idx < Len(u.members) /\ u.members[idx + 1].val = val
    BY DEF ElementPut
  <2> QED
    BY <2>1, <1>1, <1>2, ElementOf, Zenon
<1> QED
  BY <1>2, <1>3, <1>4 DEF SameBut

\* The token a value is put at, and the sizes an array of v may have to begin with.
PutAt(v, token) == IF v.kind = "array" /\ token = "-" THEN ToString(Len(v.members)) ELSE token

IsSized(v) == v.kind = "array" => Len(v.members) \in 0 .. 2 ^ SizeBits - 1

\* What PutElement() does, or refuses.
ElementTaken(u, v, token, val) ==
  \E idx \in 0 .. Len(v.members) :
    /\ IsIndexOf(PutAt(v, token), idx)
    /\ ElementPut(u, v, idx, val)
    /\ IsNode(u) /\ Len(u.members) =< Len(v.members) + 1

ElementRefused(u, v, token) ==
  /\ u = Nowhere /\ token # "-"
  /\ \A idx \in 0 .. Len(v.members) : ~IsIndexOf(token, idx)

LEMMA PutElementIs ==
  ASSUME NEW v, IsNode(v), v.kind = "array", IsSized(v), NEW token, NEW val
  PROVE  \/ ElementRefused(Put(v, token, val), v, token)
         \/ ElementTaken(Put(v, token, val), v, token, val)
<1>1. IsShaped(v) /\ v.atom = ""
  BY NodeShape
<1>2. PICK n \in Nat : n = Len(v.members) /\ DOMAIN v.members = 1 .. n
  BY <1>1 DEF IsShaped
<1>3. n \in 0 .. 2 ^ SizeBits - 1
  BY <1>2 DEF IsSized
<1>4. Put(v, token, val) = PutElement(v, token, val)
  BY DEF Put
<1>5. PICK w, S : w = Vals(v) /\ w \in Seq(S) /\ Len(w) = n /\ \A k \in 1 .. n : w[k] = v.members[k].val
  BY <1>1, <1>2, ValuesOfNode, Zenon
<1>6. CASE token # "-" /\ token \notin DOMAIN Digits
  <2>1. PutElement(v, token, val) = Nowhere
    BY <1>6 DEF PutElement
  <2> QED
    BY <1>4, <1>6, <2>1, Zenon DEF ElementRefused, IsIndexOf
<1>7. CASE token = "-" \/ token \in DOMAIN Digits
  <2>1. PICK s, idx : s = PutAt(v, token) /\ idx = IF token = "-" THEN n ELSE ParseIndex(token)
    OBVIOUS
  <2>2. IsIndexOf(s, idx)
    <3>1. CASE token = "-"
      <4>1. IsIndexOf(ToString(n), n)
        BY <1>3, SizesAreIndices
      <4> QED
        BY <2>1, <3>1, <4>1, <1>2, Zenon DEF PutAt
    <3>2. CASE token # "-"
      <4>1. IsIndexOf(token, ParseIndex(token))
        BY <1>7, <3>2, DigitsAreIndices
      <4> QED
        BY <2>1, <3>2, <4>1, Zenon DEF PutAt
    <3> QED
      BY <3>1, <3>2
  <2>3. idx \in Nat
    BY <2>2, Widths DEF IsIndexOf
  <2>4. /\ idx = n => PutElement(v, token, val) = Arr(Append(w, val))
        /\ idx < n => PutElement(v, token, val) = Arr([w EXCEPT ![idx + 1] = val])
        /\ idx # n /\ ~(idx < n) => PutElement(v, token, val) = Nowhere
    <3>1. idx = n => PutElement(v, token, val) = Arr(Append(Vals(v), val))
      BY <1>2, <1>7, <2>1, <2>3 DEF PutElement
    <3>2. idx < n => PutElement(v, token, val) = Arr([Vals(v) EXCEPT ![idx + 1] = val])
      BY <1>2, <1>7, <2>1, <2>3 DEF PutElement
    <3>3. idx # n /\ ~(idx < n) => PutElement(v, token, val) = Nowhere
      BY <1>2, <1>7, <2>1, <2>3 DEF PutElement
    <3> QED
      BY <3>1, <3>2, <3>3, <1>5, Zenon
  <2>5. CASE idx = n
    <3>1. PICK app : app = Append(w, val)
      OBVIOUS
    <3>2. app \in Seq(S \cup {val}) /\ IsAppended(app, w, val)
      BY <3>1, <1>5, Appended
    <3>3. PICK u : u = Arr(app)
      OBVIOUS
    <3>4. IsNode(u) /\ Holds(u, app) /\ u.atom = ""
      BY <3>2, <3>3, ArrayOfValues, ArrFields, Zenon
    <3>5. Len(u.members) = n + 1 /\ Len(app) = n + 1
      BY <3>2, <3>4, <1>5 DEF Holds, IsAppended
    <3>6. \A k \in 1 .. n + 1 : u.members[k].val = app[k]
      BY <3>4, <3>5, Zenon DEF Holds
    <3>7. u.members[n + 1].val = val
      <4>1. n + 1 \in 1 .. n + 1
        OBVIOUS
      <4> QED
        BY <4>1, <3>2, <3>6, <1>5, Zenon DEF IsAppended
    <3>8. ASSUME NEW k \in 1 .. n PROVE u.members[k].val = v.members[k].val
      <4>1. k \in 1 .. n + 1
        OBVIOUS
      <4> QED
        BY <4>1, <3>2, <3>6, <1>5, Zenon DEF IsAppended
    <3>9. ElementPut(u, v, idx, val)
      <4>1. \A j \in Nat : j # idx => (j < n + 1 <=> j < n)
        BY <2>5
      <4>2. \A j \in Nat : j < n => j + 1 \in 1 .. n
        OBVIOUS
      <4>3. n < n + 1
        OBVIOUS
      <4> QED
        BY <4>1, <4>2, <4>3, <2>5, <3>4, <3>5, <3>7, <3>8, <1>1, <1>2, Zenon DEF ElementPut, Holds
    <3>10. idx \in 0 .. n /\ Len(u.members) =< n + 1
      BY <2>5, <3>5
    <3>11. Put(v, token, val) = u
      BY <1>4, <2>4, <2>5, <3>1, <3>3, Zenon
    <3>12. ElementTaken(u, v, token, val)
      BY <2>1, <2>2, <3>4, <3>9, <3>10, <1>2, Zenon DEF ElementTaken
    <3> QED
      BY <3>11, <3>12
  <2>6. CASE idx < n
    <3>1. PICK i \in 1 .. n : i = idx + 1
      BY <2>3, <2>6
    <3>2. PICK new : new = [w EXCEPT ![i] = val]
      OBVIOUS
    <3>3. PICK T : T = S \cup {val}
      OBVIOUS
    <3>4. w \in Seq(T) /\ val \in T
      BY <3>3, <1>5
    <3>5. new \in Seq(T) /\ Len(new) = n /\ \A k \in 1 .. n : new[k] = IF k = i THEN val ELSE w[k]
      BY <3>1, <3>2, <3>4, <1>5, ExceptSeq
    <3>6. PICK u : u = Arr(new)
      OBVIOUS
    <3>7. IsNode(u) /\ Holds(u, new) /\ u.atom = ""
      BY <3>5, <3>6, ArrayOfValues, ArrFields, Zenon
    <3>8. Len(u.members) = n /\ \A k \in 1 .. n : u.members[k].val = IF k = i THEN val ELSE v.members[k].val
      BY <3>5, <3>7, <1>5, Zenon DEF Holds
    <3>9. ElementPut(u, v, idx, val)
      <4>1. \A j \in Nat : j < n => j + 1 \in 1 .. n
        OBVIOUS
      <4>2. \A j \in Nat : j # idx => j + 1 # i
        BY <2>3, <3>1
      <4> QED
        BY <4>1, <4>2, <2>6, <3>1, <3>7, <3>8, <1>1, <1>2, Zenon DEF ElementPut, Holds
    <3>10. idx \in 0 .. n /\ Len(u.members) =< n + 1
      BY <2>3, <2>6, <3>8
    <3>11. Put(v, token, val) = u
      BY <1>4, <2>4, <2>6, <3>1, <3>2, <3>6, Zenon
    <3>12. ElementTaken(u, v, token, val)
      BY <2>1, <2>2, <3>7, <3>9, <3>10, <1>2, Zenon DEF ElementTaken
    <3> QED
      BY <3>11, <3>12
  <2>7. CASE idx # n /\ ~(idx < n)
    <3>1. token # "-" /\ idx = ParseIndex(token)
      BY <2>1, <2>7
    <3>2. idx \notin 0 .. n
      BY <2>3, <2>7
    <3>3. \A j \in 0 .. n : ~IsIndexOf(token, j)
      BY <3>1, <3>2, Zenon DEF IsIndexOf
    <3> QED
      BY <1>2, <1>4, <2>4, <2>7, <3>1, <3>3, Zenon DEF ElementRefused
  <2> QED
    BY <2>5, <2>6, <2>7
<1> QED
  BY <1>6, <1>7

\* The values of u are those of v, and some of X.
Comes(u, v, X) ==
  \A k \in DOMAIN u.members :
    \/ u.members[k].val \in X
    \/ \E j \in DOMAIN v.members : u.members[k].val = v.members[j].val

\* u is the node v with val at a token, which may be new.
Taken(u, v, s, val) ==
  /\ IsNode(u) /\ SameBut(u, v, s) /\ Child(u, s) = val
  /\ Comes(u, v, {val})
  /\ u.kind = "array" => Len(u.members) =< Len(v.members) + 1
  /\ u.kind = "object" => KeysOf(u) \subseteq KeysOf(v) \cup {s}

LEMMA PutInArray ==
  ASSUME NEW v, IsNode(v), v.kind = "array", IsSized(v), NEW token, NEW val, NEW u,
         ElementTaken(u, v, token, val)
  PROVE  Taken(u, v, PutAt(v, token), val) /\ u # Nowhere
<1>1. IsShaped(v)
  BY NodeShape
<1>2. PICK n \in Nat : n = Len(v.members) /\ DOMAIN v.members = 1 .. n
  BY <1>1 DEF IsShaped
<1>3. PICK idx \in 0 .. n :
        /\ IsIndexOf(PutAt(v, token), idx) /\ ElementPut(u, v, idx, val)
        /\ IsNode(u) /\ Len(u.members) =< n + 1
  BY <1>2 DEF ElementTaken
<1>4. SameBut(u, v, PutAt(v, token)) /\ Child(u, PutAt(v, token)) = val
  BY <1>1, <1>3, ElementPutSameBut, Zenon
<1>5. u.kind = "array" /\ IsShaped(u) /\ u # Nowhere
  BY <1>3, NodeIsSomething DEF ElementPut
<1>6. ASSUME NEW k \in DOMAIN u.members
      PROVE  u.members[k].val = val \/ \E j \in DOMAIN v.members : u.members[k].val = v.members[j].val
  <2>1. k \in 1 .. Len(u.members) /\ Len(u.members) \in Nat
    BY <1>5 DEF IsShaped
  <2>2. PICK i \in Nat : k = i + 1 /\ i < Len(u.members)
    <3>1. k - 1 \in Nat /\ k = k - 1 + 1 /\ k - 1 < Len(u.members)
      BY <2>1
    <3> QED
      BY <3>1
  <2>3. CASE i = idx
    BY <2>2, <2>3, <1>3, Zenon DEF ElementPut
  <2>4. CASE i # idx
    <3>1. i < Len(v.members) /\ u.members[i + 1].val = v.members[i + 1].val
      BY <2>2, <2>4, <1>3, Zenon DEF ElementPut
    <3>2. i + 1 \in 1 .. n
      BY <3>1, <1>2
    <3> QED
      BY <2>2, <3>1, <3>2, <1>2, Zenon
  <2> QED
    BY <2>3, <2>4
<1>7. Comes(u, v, {val})
  BY <1>6 DEF Comes
<1>8. u.kind # "object"
  BY <1>5
<1> QED
  BY <1>2, <1>3, <1>4, <1>5, <1>7, <1>8, Zenon DEF Taken

LEMMA PutInObject ==
  ASSUME NEW v, IsNode(v), v.kind = "object", NEW token, NEW val,
         KeyOf(Member(EncodeKey(token), val)) = token, NEW u, u = Put(v, token, val)
  PROVE  Taken(u, v, token, val) /\ u # Nowhere
<1>1. IsShaped(v) /\ v.atom = ""
  BY NodeShape
<1>2. PICK n \in Nat : n = Len(v.members) /\ DOMAIN v.members = 1 .. n
  BY <1>1 DEF IsShaped
<1>3. u = PutMember(v, token, val)
  BY DEF Put
<1>4. CASE token \in KeysOf(v)
  <2>1. PICK i : i = FirstMember(v, token)
    OBVIOUS
  <2>2. i \in 1 .. n
    BY <2>1, <1>2, <1>4, FirstOfKey
  <2>3. ChildAt(v, token) = i /\ i # 0
    <3>1. i # 0
      BY <2>2
    <3> QED
      BY <2>1, <3>1, <1>4, InObject, Zenon
  <2>4. [v EXCEPT !.members[i].val = val] = Except(v, i, val)
    BY <2>2, <1>1, <1>2, ExceptIs
  <2>5. u = Except(v, i, val)
    BY <1>3, <1>4, <2>1, <2>4, Zenon DEF PutMember
  <2>6. SameBut(u, v, token) /\ Child(u, token) = val
    <3>1. u = Except(v, ChildAt(v, token), val)
      BY <2>3, <2>5, Zenon
    <3>2. PICK e : e = Except(v, ChildAt(v, token), val)
      OBVIOUS
    <3>3. SameBut(e, v, token) /\ Child(e, token) = val
      <4>1. ChildAt(v, token) # 0
        BY <2>3
      <4>2. IsShaped(v)
        BY <1>1
      <4>3. SameBut(Except(v, ChildAt(v, token), val), v, token)
        BY <4>1, <4>2, ExceptSameBut
      <4>4. Child(Except(v, ChildAt(v, token), val), token) = val
        BY <4>1, <4>2, ExceptSameBut
      <4> QED
        BY <3>2, <4>3, <4>4
    <3> QED
      BY <3>1, <3>2, <3>3
  <2>7. Changes(u, v, i, val) /\ IsShaped(u) /\ SameKeys(u, v)
    <3>1. Changes(u, v, i, val)
      BY <1>2, <2>5, ExceptFields, Zenon
    <3>2. IsShaped(u) /\ SameKeys(u, v)
      BY <1>1, <1>2, <2>2, <2>5, ExceptShaped, Zenon
    <3> QED
      BY <3>1, <3>2
  <2>8. u.kind = "object" /\ u.atom = "" /\ IsNode(u)
    <3>1. u.kind = "object" /\ u.atom = ""
      BY <1>1, <2>7 DEF Changes
    <3> QED
      BY <3>1, <2>7, ShapedObject
  <2>9. Comes(u, v, {val})
    <3>1. ASSUME NEW k \in DOMAIN u.members
          PROVE  \/ u.members[k].val = val
                 \/ k \in DOMAIN v.members /\ u.members[k].val = v.members[k].val
      <4>1. k \in 1 .. n /\ k \in DOMAIN v.members
        BY <1>2, <2>7 DEF Changes
      <4>2. k = i => u.members[k] = Member(v.members[k].key, val)
        BY <4>1, <1>2, <2>7, Zenon DEF Changes
      <4>3. k # i => u.members[k] = v.members[k]
        BY <4>1, <1>2, <2>7, Zenon DEF Changes
      <4> QED
        BY <4>1, <4>2, <4>3, MemberFields
    <3> QED
      BY <3>1 DEF Comes
  <2>10. KeysOf(u) = KeysOf(v) /\ u.kind # "array"
    BY <2>7, <2>8, SameKeysSameChild
  <2> QED
    BY <2>6, <2>8, <2>9, <2>10, NodeIsSomething DEF Taken
<1>5. CASE token \notin KeysOf(v)
  <2>1. PICK key : key = EncodeKey(token)
    OBVIOUS
  <2>2. [v EXCEPT !.members = Append(@, Member(key, val))] = Added(v, Member(key, val))
    BY <1>1, AddedIs
  <2>3. u = Added(v, Member(key, val))
    BY <1>3, <1>5, <2>1, <2>2, Zenon DEF PutMember
  <2>4. SameBut(u, v, token) /\ Child(u, token) = val
    <3>1. PICK a : a = Added(v, Member(key, val))
      OBVIOUS
    <3>2. KeyOf(Member(key, val)) = token
      BY <2>1
    <3>3. SameBut(a, v, token) /\ Child(a, token) = val
      <4>1. IsShaped(v)
        BY <1>1
      <4>2. SameBut(Added(v, Member(key, val)), v, token)
        BY <3>2, <4>1, <1>5, AddedSameBut
      <4>3. Child(Added(v, Member(key, val)), token) = val
        BY <3>2, <4>1, <1>5, AddedSameBut
      <4> QED
        BY <3>1, <4>2, <4>3
    <3> QED
      BY <2>3, <3>1, <3>3
  <2>5. /\ IsShaped(u) /\ u.kind = "object" /\ u.atom = ""
        /\ IsAppended(u.members, v.members, Member(key, val))
    <3>1. PICK a : a = Added(v, Member(key, val))
      OBVIOUS
    <3>2. /\ IsShaped(a) /\ a.kind = v.kind /\ a.atom = v.atom
          /\ IsAppended(a.members, v.members, Member(key, val))
      BY <3>1, <1>1, AddedFields, Zenon
    <3>3. u = a
      BY <2>3, <3>1
    <3> QED
      BY <3>2, <3>3, <1>1
  <2>6. IsNode(u)
    BY <2>5, ShapedObject
  <2>7. ASSUME NEW k \in DOMAIN u.members
        PROVE  \/ u.members[k] = Member(key, val)
               \/ k \in DOMAIN v.members /\ u.members[k] = v.members[k]
    <3>1. k \in 1 .. n + 1
      BY <2>5, <1>2 DEF IsShaped, IsAppended
    <3>2. k = n + 1 \/ k \in 1 .. n
      BY <3>1
    <3> QED
      BY <3>2, <2>5, <1>2, Zenon DEF IsAppended
  <2>8. Comes(u, v, {val})
    BY <2>7, MemberFields DEF Comes
  <2>9. KeysOf(u) \subseteq KeysOf(v) \cup {token}
    <3>1. ASSUME NEW k \in DOMAIN u.members PROVE KeyOf(u.members[k]) \in KeysOf(v) \cup {token}
      <4>1. CASE u.members[k] = Member(key, val)
        BY <4>1, <2>1
      <4>2. CASE k \in DOMAIN v.members /\ u.members[k] = v.members[k]
        BY <4>2 DEF KeysOf
      <4> QED
        BY <4>1, <4>2, <2>7
    <3> QED
      BY <3>1 DEF KeysOf
  <2>10. u.kind # "array"
    BY <2>5
  <2> QED
    BY <2>4, <2>6, <2>8, <2>9, <2>10, NodeIsSomething DEF Taken
<1> QED
  BY <1>4, <1>5

\* What remains of an object and of an array.
Lost(u, v, token) ==
  /\ IsNode(u) /\ u.kind = "object" /\ SameBut(u, v, token)
  /\ Comes(u, v, {}) /\ KeysOf(u) \subseteq KeysOf(v)

Closed(u, v, i) ==
  /\ IsNode(u) /\ u.kind = "array" /\ u.atom = v.atom
  /\ Len(u.members) = Len(v.members) - 1
  /\ \A k \in 1 .. Len(v.members) - 1 :
       u.members[k].val = IF k < i THEN v.members[k].val ELSE v.members[k + 1].val

LEMMA DropFromArray ==
  ASSUME NEW v, IsNode(v), v.kind = "array", NEW token, ChildAt(v, token) # 0
  PROVE  Closed(Drop(v, token), v, ChildAt(v, token))
<1>1. IsShaped(v) /\ v.atom = ""
  BY NodeShape
<1>2. PICK n \in Nat : n = Len(v.members) /\ DOMAIN v.members = 1 .. n
  BY <1>1 DEF IsShaped
<1>3. PICK i : i = ChildAt(v, token)
  OBVIOUS
<1>4. i \in 1 .. n /\ i # 0
  <2>1. i \in 0 .. n /\ i # 0
    BY <1>2, <1>3, ChildAtRange
  <2> QED
    BY <2>1
<1>5. PICK w, S : w = Vals(v) /\ w \in Seq(S) /\ Len(w) = n /\ \A k \in 1 .. n : w[k] = v.members[k].val
  BY <1>1, <1>2, ValuesOfNode, Zenon
<1>6. PICK rest : rest = Seqs!RemoveAt(w, i)
  OBVIOUS
<1>7. PICK u : u = Arr(rest)
  OBVIOUS
<1>8. Drop(v, token) = u
  BY <1>3, <1>4, <1>5, <1>6, <1>7, Zenon DEF Drop
<1>9. rest \in Seq(S) /\ IsWithout(rest, w, i)
  BY <1>4, <1>5, <1>6, Without
<1>10. IsNode(u) /\ Holds(u, rest) /\ u.atom = ""
  BY <1>7, <1>9, ArrayOfValues, ArrFields, Zenon
<1>11. Len(rest) = n - 1 /\ Len(u.members) = n - 1
  BY <1>5, <1>9, <1>10 DEF Holds, IsWithout
<1>12. ASSUME NEW k \in 1 .. n - 1
       PROVE  u.members[k].val = IF k < i THEN v.members[k].val ELSE v.members[k + 1].val
  <2>1. u.members[k].val = rest[k]
    BY <1>10, <1>11, Zenon DEF Holds
  <2>2. rest[k] = IF k < i THEN w[k] ELSE w[k + 1]
    BY <1>5, <1>9, Zenon DEF IsWithout
  <2>3. k \in 1 .. n /\ k + 1 \in 1 .. n
    OBVIOUS
  <2> QED
    BY <2>1, <2>2, <2>3, <1>5, Zenon
<1> QED
  BY <1>1, <1>2, <1>3, <1>8, <1>10, <1>11, <1>12, Zenon DEF Closed, Holds

LEMMA DropFromObject ==
  ASSUME NEW v, IsNode(v), v.kind = "object", NEW token, ChildAt(v, token) # 0
  PROVE  Lost(Drop(v, token), v, token)
<1>1. IsShaped(v) /\ v.atom = ""
  BY NodeShape
<1>2. PICK n \in Nat : n = Len(v.members) /\ DOMAIN v.members = 1 .. n
  BY <1>1 DEF IsShaped
<1>3. PICK i : i = ChildAt(v, token)
  OBVIOUS
<1>4. i \in 1 .. n /\ i # 0
  <2>1. i \in 0 .. n /\ i # 0
    BY <1>2, <1>3, ChildAtRange
  <2> QED
    BY <2>1
<1>5. KeyOf(v.members[i]) = token
  <2>1. token \in KeysOf(v) /\ i = FirstMember(v, token)
    BY <1>3, <1>4, InObject
  <2> QED
    BY <2>1, <1>2, FirstOfKey
<1>6. PICK ms : ms = v.members
  OBVIOUS
<1>7. PICK S : ms \in Seq(S)
  BY <1>6, <1>1, MembersOfNode
<1>8. PICK rest : rest = Seqs!RemoveAt(ms, i)
  OBVIOUS
<1>9. rest \in Seq(S) /\ IsWithout(rest, ms, i)
  BY <1>2, <1>4, <1>6, <1>7, <1>8, Without
<1>10. Len(rest) = n - 1 /\ DOMAIN rest = 1 .. n - 1 /\ rest = [k \in 1 .. n - 1 |-> rest[k]]
  BY <1>2, <1>6, <1>9, LenProperties DEF IsWithout
<1>11. PICK u : u = Drop(v, token)
  OBVIOUS
<1>12. /\ u.kind = "object" /\ u.atom = "" /\ u.members = rest
       /\ u = [kind |-> u.kind, atom |-> u.atom, members |-> u.members]
  <2>1. PICK k0, a0 : k0 = v.kind /\ a0 = v.atom
    OBVIOUS
  <2>2. v = [kind |-> k0, atom |-> a0, members |-> ms]
    BY <2>1, <1>6, <1>1, Zenon DEF IsShaped
  <2>3. [v EXCEPT !.members = rest] = [kind |-> k0, atom |-> a0, members |-> rest]
    BY <2>2
  <2>4. u = [v EXCEPT !.members = rest]
    <3>1. v.kind # "array"
      OBVIOUS
    <3> QED
      BY <3>1, <1>3, <1>4, <1>6, <1>8, <1>11, Zenon DEF Drop
  <2>5. u.kind = k0 /\ u.atom = a0 /\ u.members = rest
    BY <2>3, <2>4
  <2> QED
    BY <2>1, <2>3, <2>4, <2>5, <1>1, Zenon
<1>13. \A k \in 1 .. n - 1 : rest[k] = IF k < i THEN ms[k] ELSE ms[k + 1]
  BY <1>2, <1>6, <1>9 DEF IsWithout
<1>14. ASSUME NEW k \in 1 .. n - 1
       PROVE  \E j \in 1 .. n : rest[k] = ms[j] /\ j # i /\ (k < i => j = k) /\ (~(k < i) => j = k + 1)
  <2>1. PICK j \in 1 .. n : (k < i => j = k) /\ (~(k < i) => j = k + 1) /\ j # i
    <3>1. k \in 1 .. n /\ k + 1 \in 1 .. n
      OBVIOUS
    <3>2. k < i => k # i
      BY <1>4
    <3>3. ~(k < i) => k + 1 # i
      BY <1>4
    <3> QED
      BY <3>1, <3>2, <3>3, Zenon
  <2>2. rest[k] = ms[j]
    BY <2>1, <1>13, Zenon
  <2> QED
    BY <2>1, <2>2
<1>15. ASSUME NEW k \in 1 .. n - 1
       PROVE  /\ rest[k] = Member(rest[k].key, rest[k].val)
              /\ \E j \in DOMAIN v.members : rest[k] = v.members[j]
  <2>1. PICK j \in 1 .. n : rest[k] = ms[j]
    BY <1>14, Zenon
  <2>2. ms[j] = Member(ms[j].key, ms[j].val)
    BY <1>1, <1>2, <1>6, Zenon DEF IsShaped
  <2> QED
    BY <2>1, <2>2, <1>2, <1>6, Zenon
<1>16. IsShaped(u) /\ IsNode(u)
  <2>1. Len(u.members) \in Nat
    BY <1>9, <1>12, LenProperties
  <2>2. IsShaped(u)
    BY <1>10, <1>12, <1>15, <2>1, Zenon DEF IsShaped
  <2> QED
    BY <2>2, <1>12, ShapedObject
<1>17. Comes(u, v, {}) /\ KeysOf(u) \subseteq KeysOf(v)
  <2>1. \A k \in DOMAIN u.members : \E j \in DOMAIN v.members : u.members[k] = v.members[j]
    BY <1>10, <1>12, <1>15, Zenon
  <2> QED
    BY <2>1 DEF Comes, KeysOf
<1>18. ASSUME NEW t, t # token PROVE Child(u, t) = Child(v, t)
  <2>1. CASE t \in KeysOf(v)
    <3>1. PICK g : g = FirstMember(v, t)
      OBVIOUS
    <3>2. /\ g \in 1 .. n /\ KeyOf(ms[g]) = t
          /\ \A j \in 1 .. g - 1 : KeyOf(ms[j]) # t
      BY <2>1, <3>1, <1>2, <1>6, FirstOfKey
    <3>3. g # i
      BY <3>2, <1>5, <1>6, <1>18
    <3>4. PICK f \in 1 .. n - 1 : (f < i => g = f) /\ (~(f < i) => g = f + 1)
      <4>1. CASE g < i
        <5>1. g \in 1 .. n - 1
          BY <3>2, <4>1, <1>4
        <5> QED
          BY <4>1, <5>1
      <4>2. CASE ~(g < i)
        <5>1. g - 1 \in 1 .. n - 1 /\ ~(g - 1 < i) /\ g = g - 1 + 1
          BY <3>2, <3>3, <4>2, <1>4
        <5> QED
          BY <5>1
      <4> QED
        BY <4>1, <4>2
    <3>5. rest[f] = ms[g]
      BY <3>4, <1>13, Zenon
    <3>6. ASSUME NEW j \in 1 .. f - 1 PROVE KeyOf(rest[j]) # t
      <4>1. PICK h \in 1 .. n : rest[j] = ms[h] /\ (j < i => h = j) /\ (~(j < i) => h = j + 1)
        <5>1. j \in 1 .. n - 1
          BY <3>4
        <5> QED
          BY <5>1, <1>14, Zenon
      <4>2. h \in 1 .. g - 1
        <5>1. CASE f < i
          BY <5>1, <3>4, <4>1, <1>4
        <5>2. CASE ~(f < i)
          BY <5>2, <3>4, <4>1, <1>4
        <5> QED
          BY <5>1, <5>2
      <4> QED
        BY <3>2, <4>1, <4>2, Zenon
    <3>7. SameMember(u, f, v, g)
      BY <3>2, <3>4, <3>5, <3>6, <1>2, <1>6, <1>10, <1>12, Zenon DEF SameMember
    <3>8. SameMember(u, f, v, FirstMember(v, t))
      BY <3>1, <3>7, Zenon
    <3> QED
      BY <2>1, <3>8, <1>1, <1>12, <1>16, SameMemberChild
  <2>2. CASE t \notin KeysOf(v)
    <3>1. t \notin KeysOf(u)
      BY <2>2, <1>17
    <3>2. ChildAt(u, t) = 0 /\ ChildAt(v, t) = 0
      BY <2>2, <3>1, <1>12, InObject
    <3> QED
      BY <3>2, Zenon DEF Child
  <2> QED
    BY <2>1, <2>2
<1>19. SameBut(u, v, token)
  BY <1>1, <1>12, <1>18 DEF SameBut
<1> QED
  BY <1>11, <1>12, <1>16, <1>17, <1>19, Zenon DEF Lost

-----------------------------------------------------------------------------
(* Two walks that meet, and have the same tokens before them, stay together. *)
LEMMA WalkTurn ==
  ASSUME NEW v, NEW p, Len(p) \in Nat, NEW k \in 1 .. Len(p)
  PROVE  Walk(v, p)[k] = Child(Walk(v, p)[k - 1], p[k])
<1>1. Walks(Walk(v, p), Len(p), v, p)
  BY WalkSteps
<1> QED
  BY <1>1, Zenon DEF Walks

LEMMA WalkStart == ASSUME NEW v, NEW p, Len(p) \in Nat PROVE Walk(v, p)[0] = v
<1>1. Walks(Walk(v, p), Len(p), v, p)
  BY WalkSteps
<1> QED
  BY <1>1, Zenon DEF Walks

Meets(u, q, k, v, r, l) == Walk(u, q)[k] = Walk(v, r)[l]

LEMMA SameWalk ==
  ASSUME NEW u, NEW q, Len(q) \in Nat, NEW v, NEW r, Len(r) \in Nat,
         NEW k \in Nat, NEW l \in Nat, Meets(u, q, k, v, r, l),
         NEW m \in Nat, k + m =< Len(q), l + m =< Len(r), \A j \in 1 .. m : q[k + j] = r[l + j]
  PROVE  Meets(u, q, k + m, v, r, l + m)
<1> DEFINE S == {n \in Nat : n =< m => Meets(u, q, k + n, v, r, l + n)}
<1>1. 0 \in S
  <2>1. k + 0 = k /\ l + 0 = l
    OBVIOUS
  <2>2. Meets(u, q, k + 0, v, r, l + 0)
    BY <2>1
  <2> QED
    BY <2>2
<1>2. ASSUME NEW n \in Nat, n \in S PROVE n + 1 \in S
  <2>1. CASE n + 1 =< m
    <3>1. PICK a, b : a = k + (n + 1) /\ b = l + (n + 1)
      OBVIOUS
    <3>2. a \in 1 .. Len(q) /\ b \in 1 .. Len(r) /\ a - 1 = k + n /\ b - 1 = l + n
      BY <2>1, <3>1
    <3>3. Walk(u, q)[a - 1] = Walk(v, r)[b - 1]
      <4>1. Meets(u, q, k + n, v, r, l + n)
        BY <1>2, <2>1
      <4> QED
        BY <3>2, <4>1, Zenon DEF Meets
    <3>4. q[a] = r[b]
      <4>1. n + 1 \in 1 .. m
        BY <2>1
      <4> QED
        BY <3>1, <4>1, Zenon
    <3>5. Walk(u, q)[a] = Child(Walk(u, q)[a - 1], q[a])
      BY <3>2, WalkTurn, Zenon
    <3>6. Walk(v, r)[b] = Child(Walk(v, r)[b - 1], r[b])
      BY <3>2, WalkTurn, Zenon
    <3>7. Meets(u, q, a, v, r, b)
      BY <3>3, <3>4, <3>5, <3>6, Zenon DEF Meets
    <3> QED
      BY <3>1, <3>7
  <2> QED
    BY <2>1
<1>3. m \in S
  <2> HIDE DEF S
  <2> QED
    BY <1>1, <1>2, NatInd
<1> QED
  BY <1>3

\* What a pointer resolves to.
At(v, p) == Walk(v, p)[Len(p)]

(* A walk goes as far as the tokens are the same, whatever follows them.     *)
LEMMA SameStart ==
  ASSUME NEW v, NEW q, Len(q) \in Nat, NEW r, Len(r) \in Nat,
         NEW m \in Nat, m =< Len(q), m =< Len(r), \A j \in 1 .. m : q[j] = r[j]
  PROVE  Meets(v, q, m, v, r, m)
<1>1. Meets(v, q, 0, v, r, 0)
  BY WalkStart, Zenon DEF Meets
<1>2. 0 + m = m /\ 0 \in Nat /\ \A j \in 1 .. m : q[0 + j] = r[0 + j]
  OBVIOUS
<1>3. Meets(v, q, 0 + m, v, r, 0 + m)
  BY <1>1, <1>2, SameWalk
<1> QED
  BY <1>2, <1>3

\* The pointers lead to the same value.
Lands(u, q, v, r) == At(u, q) = At(v, r)

LEMMA SameRest ==
  ASSUME NEW u, NEW q, Len(q) \in Nat, NEW v, NEW r, Len(r) = Len(q),
         NEW k \in Nat, k =< Len(q), Meets(u, q, k, v, r, k),
         \A j \in k + 1 .. Len(q) : q[j] = r[j]
  PROVE  Lands(u, q, v, r)
<1>1. PICK N \in Nat : N = Len(q)
  OBVIOUS
<1>2. PICK m \in Nat : k + m = N
  <2>1. N - k \in Nat /\ k + (N - k) = N
    BY <1>1
  <2> QED
    BY <2>1
<1>3. \A j \in 1 .. m : q[k + j] = r[k + j]
  <2>1. \A j \in 1 .. m : k + j \in k + 1 .. N
    BY <1>1, <1>2
  <2> QED
    BY <2>1, <1>1
<1>4. k + m =< Len(q) /\ k + m =< Len(r) /\ Len(r) \in Nat
  BY <1>1, <1>2
<1>5. Meets(u, q, k + m, v, r, k + m)
  BY <1>3, <1>4, SameWalk
<1> QED
  BY <1>1, <1>2, <1>5, Zenon DEF Meets, At, Lands

(* The pointer of a value below another is theirs, one behind the other.     *)
LEMMA AtBelow ==
  ASSUME NEW v, NEW S, NEW a \in Seq(S), NEW r \in Seq(S)
  PROVE  At(v, a \o r) = At(At(v, a), r)
<1>1. PICK q : q = a \o r
  OBVIOUS
<1>2. PICK k, m : k = Len(a) /\ m = Len(r)
  OBVIOUS
<1>3. /\ k \in Nat /\ m \in Nat /\ Len(q) = k + m /\ Len(q) \in Nat
      /\ \A j \in 1 .. k : q[j] = a[j]
      /\ \A j \in 1 .. m : q[k + j] = r[j]
  <2>1. k \in Nat /\ m \in Nat
    BY <1>2, LenProperties
  <2>2. Len(q) = k + m /\ \A j \in 1 .. k + m : q[j] = IF j =< k THEN a[j] ELSE r[j - k]
    BY <1>1, <1>2, ConcatProperties
  <2>3. ASSUME NEW j \in 1 .. m PROVE q[k + j] = r[j]
    <3>1. PICK h \in 1 .. k + m : h = k + j /\ ~(h =< k) /\ h - k = j
      BY <2>1
    <3>2. q[h] = r[h - k]
      BY <2>2, <3>1, Zenon
    <3> QED
      BY <3>1, <3>2, Zenon
  <2>4. ASSUME NEW j \in 1 .. k PROVE q[j] = a[j]
    <3>1. j \in 1 .. k + m /\ j =< k
      BY <2>1
    <3> QED
      BY <2>2, <3>1, Zenon
  <2> QED
    BY <2>1, <2>2, <2>3, <2>4
<1>4. Walk(v, q)[k] = Walk(v, a)[k]
  <2>1. k =< Len(q) /\ k =< Len(a) /\ Len(a) \in Nat
    BY <1>2, <1>3
  <2>2. Len(q) \in Nat /\ k \in Nat /\ \A j \in 1 .. k : q[j] = a[j]
    BY <1>3
  <2>3. Meets(v, q, k, v, a, k)
    BY <2>1, <2>2, SameStart
  <2> QED
    BY <2>3, Zenon DEF Meets
<1>5. PICK u : u = At(v, a)
  OBVIOUS
<1>6. Meets(v, q, k, u, r, 0)
  <2>1. Walk(u, r)[0] = u
    BY <1>2, <1>3, WalkStart, Zenon
  <2> QED
    BY <2>1, <1>2, <1>4, <1>5, Zenon DEF Meets, At
<1>7. k + m =< Len(q) /\ 0 + m =< Len(r) /\ 0 \in Nat /\ \A j \in 1 .. m : q[k + j] = r[0 + j]
  BY <1>2, <1>3
<1>8. Meets(v, q, k + m, u, r, 0 + m)
  BY <1>2, <1>3, <1>6, <1>7, SameWalk
<1>9. 0 + m = m
  BY <1>3
<1>10. Walk(v, q)[Len(q)] = Walk(u, r)[Len(r)]
  BY <1>2, <1>3, <1>8, <1>9 DEF Meets
<1> QED
  BY <1>1, <1>5, <1>10, Zenon DEF At

(* A pointer that is not below another parts from it somewhere.              *)
IsBelow(a, q) == Len(a) =< Len(q) /\ \A j \in 1 .. Len(a) : q[j] = a[j]

Parts(a, q, k) ==
  /\ k =< Len(q) /\ \A j \in 1 .. k : q[j] = a[j]
  /\ k = Len(q) \/ q[k + 1] # a[k + 1]

LEMMA Parting ==
  ASSUME NEW a, Len(a) \in Nat, NEW q, Len(q) \in Nat, ~IsBelow(a, q)
  PROVE  \E k \in 0 .. Len(a) - 1 : Parts(a, q, k)
<1>1. PICK n, m : n = Len(a) /\ m = Len(q)
  OBVIOUS
<1>2. n \in Nat /\ m \in Nat
  BY <1>1
<1> DEFINE D == {k \in 0 .. n - 1 : k = m \/ q[k + 1] # a[k + 1]}
<1>3. D # {}
  <2>1. SUFFICES ASSUME D = {} PROVE FALSE
    OBVIOUS
  <2>2. n =< m
    <3>1. SUFFICES ASSUME ~(n =< m) PROVE FALSE
      OBVIOUS
    <3>2. m \in 0 .. n - 1
      BY <3>1, <1>2
    <3>3. m \in D
      BY <3>2
    <3> QED
      BY <2>1, <3>3
  <2>3. ASSUME NEW j \in 1 .. n PROVE q[j] = a[j]
    <3>1. PICK k \in 0 .. n - 1 : j = k + 1
      <4>1. j - 1 \in 0 .. n - 1 /\ j = j - 1 + 1
        BY <1>2
      <4> QED
        BY <4>1
    <3>2. k \notin D
      BY <2>1
    <3>3. q[k + 1] = a[k + 1]
      BY <3>2
    <3> QED
      BY <3>1, <3>3
  <2> QED
    BY <2>2, <2>3, <1>1, Zenon DEF IsBelow
<1>4. PICK k \in D : \A j \in D : k =< j
  <2>1. D \subseteq Nat
    BY <1>2
  <2> HIDE DEF D
  <2> QED
    BY <1>3, <2>1, NatMin, Zenon
<1>5. k \in 0 .. n - 1 /\ (k = m \/ q[k + 1] # a[k + 1])
  OBVIOUS
<1>6. k =< m
  <2>1. SUFFICES ASSUME ~(k =< m) PROVE FALSE
    OBVIOUS
  <2>2. m \in 0 .. n - 1
    BY <2>1, <1>2, <1>5
  <2>3. m \in D
    BY <2>2
  <2> HIDE DEF D
  <2> QED
    BY <2>1, <2>3, <1>4
<1>7. ASSUME NEW j \in 1 .. k PROVE q[j] = a[j]
  <2>1. PICK i \in 0 .. n - 1 : j = i + 1 /\ ~(k =< i)
    <3>1. j - 1 \in 0 .. n - 1 /\ j = j - 1 + 1 /\ ~(k =< j - 1)
      BY <1>2, <1>5
    <3> QED
      BY <3>1
  <2>2. i \notin D
    <3> HIDE DEF D
    <3> QED
      BY <2>1, <1>4
  <2>3. q[i + 1] = a[i + 1]
    BY <2>2
  <2> QED
    BY <2>1, <2>3
<1> HIDE DEF D
<1>8. Parts(a, q, k)
  BY <1>1, <1>5, <1>6, <1>7, Zenon DEF Parts
<1> QED
  BY <1>1, <1>5, <1>8

(* Off the pointer that was rewritten, nothing has changed, for as much as a *)
(* pointer tells of a value.                                                 *)
Alike(x, y) == x.kind = y.kind /\ x.atom = y.atom /\ (x = Nowhere <=> y = Nowhere)

LEMMA RebuiltNode ==
  ASSUME NEW v, NEW a, OnPath(v, a), NEW node, NEW k \in 0 .. Len(a) - 1
  PROVE  /\ SameBut(Walk(Replaced(v, a, node), a)[k], Walk(v, a)[k], a[k + 1])
         /\ Alike(Walk(Replaced(v, a, node), a)[k], Walk(v, a)[k])
<1>1. PICK y, t, x : y = Walk(v, a)[k] /\ t = a[k + 1] /\ x = Walk(Replaced(v, a, node), a)[k + 1]
  OBVIOUS
<1>2. PICK u : u = Walk(Replaced(v, a, node), a)[k]
  OBVIOUS
<1>3. u = WithChild(y, t, x)
  <2>1. IsRebuilt(Replaced(v, a, node), v, a, k)
    BY Rebuilt
  <2> QED
    BY <2>1, <1>1, <1>2, Zenon DEF IsRebuilt
<1>4. IsShaped(y) /\ ChildAt(y, t) # 0
  <2>1. k \in 0 .. Len(a)
    BY DEF OnPath
  <2> QED
    BY <2>1, <1>1, Zenon DEF OnPath
<1>5. u = Except(y, ChildAt(y, t), x)
  BY <1>3, <1>4, WithChildIs, Zenon
<1>6. SameBut(u, y, t)
  <2>1. SameBut(Except(y, ChildAt(y, t), x), y, t)
    BY <1>4, ExceptSameBut
  <2> QED
    BY <2>1, <1>5
<1>7. y.kind # "nowhere"
  <2>1. y.kind = "object" \/ y.kind = "array"
    BY <1>4, InOther
  <2> QED
    BY <2>1
<1>8. Alike(u, y)
  <2>1. u.kind = y.kind /\ u.atom = y.atom
    BY <1>6 DEF SameBut
  <2>2. u # Nowhere /\ y # Nowhere
    BY <2>1, <1>7, NoKind
  <2> QED
    BY <2>1, <2>2 DEF Alike
<1> QED
  BY <1>1, <1>2, <1>6, <1>8, Zenon

LEMMA OffRebuilt ==
  ASSUME NEW v, NEW a, OnPath(v, a), NEW node, NEW q, Len(q) \in Nat, ~IsBelow(a, q)
  PROVE  Alike(At(Replaced(v, a, node), q), At(v, q))
<1>1. PICK new : new = Replaced(v, a, node)
  OBVIOUS
<1>2. Len(a) \in Nat
  BY DEF OnPath
<1>3. PICK k \in 0 .. Len(a) - 1 : Parts(a, q, k)
  BY <1>2, Parting
<1>4. k \in Nat /\ k =< Len(a) /\ k =< Len(q) /\ \A j \in 1 .. k : q[j] = a[j]
  BY <1>2, <1>3 DEF Parts
<1>5. Meets(new, q, k, new, a, k) /\ Meets(v, q, k, v, a, k)
  BY <1>2, <1>4, SameStart
<1>6. PICK u, y, t : u = Walk(new, q)[k] /\ y = Walk(v, q)[k] /\ t = a[k + 1]
  OBVIOUS
<1>7. SameBut(u, y, t) /\ Alike(u, y)
  <2>1. /\ SameBut(Walk(new, a)[k], Walk(v, a)[k], a[k + 1])
        /\ Alike(Walk(new, a)[k], Walk(v, a)[k])
    BY <1>1, RebuiltNode, Zenon
  <2> QED
    BY <2>1, <1>5, <1>6, Zenon DEF Meets
<1>8. CASE k = Len(q)
  BY <1>1, <1>6, <1>7, <1>8, Zenon DEF At
<1>9. CASE k # Len(q)
  <2>1. PICK m \in 1 .. Len(q) : m = k + 1 /\ m - 1 = k
    BY <1>4, <1>9
  <2>2. q[m] # t
    BY <2>1, <1>3, <1>6, <1>9, Zenon DEF Parts
  <2>3. Walk(new, q)[m] = Child(u, q[m]) /\ Walk(v, q)[m] = Child(y, q[m])
    <3>1. Walk(new, q)[m] = Child(Walk(new, q)[m - 1], q[m])
      BY WalkTurn, Zenon
    <3>2. Walk(v, q)[m] = Child(Walk(v, q)[m - 1], q[m])
      BY WalkTurn, Zenon
    <3> QED
      BY <3>1, <3>2, <2>1, <1>6, Zenon
  <2>4. Meets(new, q, m, v, q, m)
    BY <2>2, <2>3, <1>7, Zenon DEF Meets, SameBut
  <2>5. m \in Nat /\ m =< Len(q)
    OBVIOUS
  <2>6. At(new, q) = At(v, q)
    BY <2>4, <2>5, SameRest DEF Lands
  <2> QED
    BY <2>6, <1>1 DEF Alike
<1> QED
  BY <1>8, <1>9

(* Below the node that was rewritten, a pointer passes through it.           *)
PassesBy(new, v, a, node, q) == Walk(new, q)[Len(a)] = node /\ Walk(v, q)[Len(a)] = At(v, a)

LEMMA UpToNode ==
  ASSUME NEW v, NEW a, OnPath(v, a), NEW node, NEW q, Len(q) \in Nat, IsBelow(a, q)
  PROVE  PassesBy(Replaced(v, a, node), v, a, node, q)
<1>1. PICK new, k : new = Replaced(v, a, node) /\ k = Len(a)
  OBVIOUS
<1>2. k \in Nat /\ Len(a) \in Nat
  BY <1>1 DEF OnPath
<1>3. k =< Len(a) /\ k =< Len(q) /\ \A j \in 1 .. k : q[j] = a[j]
  BY <1>1, <1>2 DEF IsBelow
<1>4. Meets(new, q, k, new, a, k) /\ Meets(v, q, k, v, a, k)
  BY <1>2, <1>3, SameStart
<1>5. Walk(new, a)[Len(a)] = node
  <2>1. Walk(Replaced(v, a, node), a)[Len(a)] = node
    BY Rebuilt
  <2> QED
    BY <2>1, <1>1
<1> QED
  BY <1>1, <1>4, <1>5, Zenon DEF Meets, At, PassesBy

\* The pointer of what s names in what a names.
Extends(T, a, s) ==
  Len(T) = Len(a) + 1 /\ T[Len(a) + 1] = s /\ \A j \in 1 .. Len(a) : T[j] = a[j]

LEMMA OffTarget ==
  ASSUME NEW v, NEW a, OnPath(v, a), NEW node, NEW s, SameBut(node, At(v, a), s),
         node # Nowhere, At(v, a) # Nowhere, NEW T, Extends(T, a, s),
         NEW q, Len(q) \in Nat, ~IsBelow(T, q)
  PROVE  Alike(At(Replaced(v, a, node), q), At(v, q))
<1>1. PICK new, k, y : new = Replaced(v, a, node) /\ k = Len(a) /\ y = At(v, a)
  OBVIOUS
<1>2. k \in Nat /\ Len(a) \in Nat
  BY <1>1 DEF OnPath
<1>3. CASE ~IsBelow(a, q)
  BY <1>3, OffRebuilt
<1>4. CASE IsBelow(a, q)
  <2>1. Walk(new, q)[k] = node /\ Walk(v, q)[k] = y
    <3>1. PassesBy(Replaced(v, a, node), v, a, node, q)
      BY <1>4, UpToNode
    <3> QED
      BY <3>1, <1>1, Zenon DEF PassesBy
  <2>2. k =< Len(q) /\ \A j \in 1 .. k : q[j] = a[j]
    BY <1>1, <1>4 DEF IsBelow
  <2>3. CASE k = Len(q)
    <3>1. At(new, q) = node /\ At(v, q) = y
      BY <2>1, <2>3, Zenon DEF At
    <3> QED
      BY <3>1, <1>1 DEF Alike, SameBut
  <2>4. CASE k # Len(q)
    <3>1. PICK m \in 1 .. Len(q) : m = k + 1 /\ m - 1 = k
      BY <2>2, <2>4, <1>2
    <3>2. q[m] # s
      <4>1. SUFFICES ASSUME q[m] = s PROVE IsBelow(T, q)
        OBVIOUS
      <4>2. Len(T) = m /\ Len(T) =< Len(q) /\ T[m] = s /\ \A j \in 1 .. k : T[j] = a[j]
        BY <3>1, <1>1 DEF Extends
      <4>3. \A j \in 1 .. m : j = m \/ j \in 1 .. k
        BY <3>1, <1>2
      <4>4. \A j \in 1 .. Len(T) : q[j] = T[j]
        BY <2>2, <4>1, <4>2, <4>3, Zenon
      <4> QED
        BY <4>2, <4>4, Zenon DEF IsBelow
    <3>3. Walk(new, q)[m] = Child(node, q[m]) /\ Walk(v, q)[m] = Child(y, q[m])
      <4>1. Walk(new, q)[m] = Child(Walk(new, q)[m - 1], q[m])
        BY WalkTurn, Zenon
      <4>2. Walk(v, q)[m] = Child(Walk(v, q)[m - 1], q[m])
        BY WalkTurn, Zenon
      <4> QED
        BY <4>1, <4>2, <2>1, <3>1, Zenon
    <3>4. Meets(new, q, m, v, q, m)
      BY <3>2, <3>3, <1>1, Zenon DEF Meets, SameBut
    <3>5. m \in Nat /\ m =< Len(q)
      OBVIOUS
    <3>6. At(new, q) = At(v, q)
      BY <3>4, <3>5, SameRest DEF Lands
    <3> QED
      BY <3>6, <1>1 DEF Alike
  <2> QED
    BY <2>3, <2>4
<1> QED
  BY <1>3, <1>4

(* The value put there is what is read there, and below.                     *)
LEMMA OnTarget ==
  ASSUME NEW v, NEW a, OnPath(v, a), NEW node, NEW s, NEW T \in Seq(STRING), Extends(T, a, s),
         NEW r \in Seq(STRING)
  PROVE  Lands(Replaced(v, a, node), T \o r, Child(node, s), r)
<1>a. PICK x : x = Child(node, s)
  OBVIOUS
<1>1. PICK new, k, m : new = Replaced(v, a, node) /\ k = Len(a) /\ m = Len(T)
  OBVIOUS
<1>2. k \in Nat /\ m \in Nat /\ m = k + 1 /\ m \in 1 .. m /\ m - 1 = k /\ Len(T) \in Nat
  BY <1>1 DEF OnPath, Extends
<1>3. IsBelow(a, T)
  BY <1>1, <1>2 DEF IsBelow, Extends
<1>4. Walk(new, T)[k] = node
  <2>1. PassesBy(Replaced(v, a, node), v, a, node, T)
    BY <1>2, <1>3, UpToNode
  <2> QED
    BY <2>1, <1>1, Zenon DEF PassesBy
<1>5. Walk(new, T)[m] = Child(Walk(new, T)[m - 1], T[m])
  BY <1>1, <1>2, WalkTurn, ZenonT(60)
<1>6. T[m] = s
  BY <1>1, <1>2 DEF Extends
<1>7. At(new, T) = x
  BY <1>a, <1>1, <1>2, <1>4, <1>5, <1>6, Zenon DEF At
<1>8. At(new, T \o r) = At(At(new, T), r)
  BY AtBelow
<1> QED
  BY <1>a, <1>1, <1>7, <1>8, Zenon DEF Lands

-----------------------------------------------------------------------------
(* The toy's way to a member is the standard's, in nodes whose indices do    *)
(* not wrap.                                                                 *)
LEMMA ElementKey ==
  ASSUME NEW v, IsNode(v), v.kind = "array", IsSized(v), NEW k \in 1 .. Len(v.members)
  PROVE  /\ KeyOf(v.members[k]) = ToString(k - 1) /\ IsIndexOf(ToString(k - 1), k - 1)
         /\ ToString(k - 1) \in STRING
<1>1. v.members[k].key = ToString(k - 1)
  BY NodeShape
<1>2. k - 1 \in 0 .. 2 ^ SizeBits - 1
  <2>1. Len(v.members) \in 0 .. 2 ^ SizeBits - 1
    BY DEF IsSized
  <2>2. PICK P \in Nat : P = 2 ^ SizeBits
    BY Widths
  <2> QED
    BY <2>1, <2>2
<1>3. PICK i \in 0 .. 2 ^ SizeBits - 1 : i = k - 1
  BY <1>2
<1>4. IsIndexOf(ToString(i), i) /\ ToString(i) \in STRING /\ ToString(i) \notin DOMAIN Decoded
  BY SizesAreIndices
<1>5. KeyOf(v.members[k]) = ToString(i)
  BY <1>1, <1>3, <1>4, Zenon DEF KeyOf
<1> QED
  BY <1>3, <1>4, <1>5, Zenon

LEMMA ElementIsTheOne ==
  ASSUME NEW v, IsNode(v), v.kind = "array", IsSized(v), NEW k \in 1 .. Len(v.members)
  PROVE  KeyOf(v.members[k]) \in KeysOf(v) /\ FirstMember(v, KeyOf(v.members[k])) = k
<1>1. Len(v.members) \in Nat /\ DOMAIN v.members = 1 .. Len(v.members)
  BY NodeShape DEF IsShaped
<1>2. ASSUME NEW j \in 1 .. k - 1 PROVE KeyOf(v.members[j]) # KeyOf(v.members[k])
  <2>1. PICK a, b : a = j - 1 /\ b = k - 1 /\ a # b /\ j \in 1 .. Len(v.members)
    BY <1>1
  <2>2. KeyOf(v.members[j]) = ToString(a) /\ IsIndexOf(ToString(a), a)
    BY <2>1, ElementKey, Zenon
  <2>3. KeyOf(v.members[k]) = ToString(b) /\ IsIndexOf(ToString(b), b)
    BY <2>1, ElementKey, Zenon
  <2> QED
    BY <2>1, <2>2, <2>3, Zenon DEF IsIndexOf
<1> QED
  BY <1>1, <1>2, FirstIsTheOne

Keyed(v, t) ==
  /\ t \in KeysOf(v) <=> ChildAt(v, t) # 0
  /\ t \in KeysOf(v) => ChildAt(v, t) = FirstMember(v, t)

LEMMA EveryNodeIsKeyed ==
  ASSUME NEW v, IsNode(v), IsSized(v), NEW t
  PROVE  Keyed(v, t)
<1>1. IsShaped(v) /\ v.kind \in {"scalar", "array", "object"}
  BY NodeShape
<1>2. PICK n \in Nat : n = Len(v.members) /\ DOMAIN v.members = 1 .. n
  BY <1>1 DEF IsShaped
<1>3. CASE v.kind = "object"
  <2>1. t \in KeysOf(v) => FirstMember(v, t) # 0
    <3>1. t \in KeysOf(v) => FirstMember(v, t) \in 1 .. n
      BY <1>2, FirstOfKey
    <3> QED
      BY <3>1
  <2> QED
    BY <1>3, <2>1, InObject, Zenon DEF Keyed
<1>4. CASE v.kind = "scalar"
  <2>1. v.members = << >>
    BY <1>4, NodeShape, Zenon
  <2>2. t \notin KeysOf(v)
    BY <2>1 DEF KeysOf
  <2>3. ChildAt(v, t) = 0
    BY <1>4, InOther
  <2> QED
    BY <2>2, <2>3 DEF Keyed
<1>5. CASE v.kind = "array"
  <2>1. ASSUME t \in KeysOf(v) PROVE ChildAt(v, t) # 0 /\ ChildAt(v, t) = FirstMember(v, t)
    <3>1. PICK k \in 1 .. n : t = KeyOf(v.members[k])
      BY <1>2, <2>1 DEF KeysOf
    <3>2. PICK j \in 0 .. n - 1 : j = k - 1 /\ j < n /\ j + 1 = k /\ k # 0
      OBVIOUS
    <3>3. t = ToString(j) /\ IsIndexOf(t, j)
      BY <1>2, <1>5, <3>1, <3>2, ElementKey, Zenon
    <3>4. t \in DOMAIN Digits /\ ParseIndex(t) = j
      BY <3>3 DEF IsIndexOf
    <3>5. ChildAt(v, t) = k
      BY <1>2, <1>5, <3>2, <3>4, InArray, Zenon
    <3>6. FirstMember(v, t) = k
      BY <1>2, <1>5, <3>1, ElementIsTheOne, Zenon
    <3> QED
      BY <3>2, <3>5, <3>6
  <2>2. ASSUME ChildAt(v, t) # 0 PROVE t \in KeysOf(v)
    <3>1. t \in DOMAIN Digits /\ ParseIndex(t) < n
      BY <1>2, <1>5, <2>2, InArray
    <3>2. PICK j \in Nat : j = ParseIndex(t)
      BY <3>1, IndexNat
    <3>3. PICK k \in 1 .. n : k - 1 = j
      <4>1. j + 1 \in 1 .. n /\ j + 1 - 1 = j
        BY <3>1, <3>2
      <4> QED
        BY <4>1
    <3>4. t = ToString(j)
      <4>1. IsIndexOf(t, ParseIndex(t))
        BY <3>1, DigitsAreIndices
      <4> QED
        BY <3>2, <4>1, Zenon DEF IsIndexOf
    <3>5. KeyOf(v.members[k]) = t
      BY <1>2, <1>5, <3>3, <3>4, ElementKey, Zenon
    <3> QED
      BY <1>2, <3>5 DEF KeysOf
  <2> QED
    BY <2>1, <2>2, Zenon DEF Keyed
<1> QED
  BY <1>1, <1>3, <1>4, <1>5

LEMMA NamedIsChild ==
  ASSUME NEW v, IsNode(v), IsSized(v), NEW t
  PROVE  Named(v, t, Nowhere) = Child(v, t)
<1>1. Keyed(v, t) /\ v # Nowhere
  BY EveryNodeIsKeyed, NodeIsSomething
<1> QED
  BY <1>1, Zenon DEF Keyed, Named, Child

LEMMA ArrayKeys ==
  ASSUME NEW v, IsNode(v), v.kind = "array", IsSized(v)
  PROVE  KeysOf(v) \subseteq STRING
<1>1. Len(v.members) \in Nat /\ DOMAIN v.members = 1 .. Len(v.members)
  BY NodeShape DEF IsShaped
<1>2. ASSUME NEW k \in DOMAIN v.members PROVE KeyOf(v.members[k]) \in STRING
  <2>1. k \in 1 .. Len(v.members)
    BY <1>1
  <2>2. KeyOf(v.members[k]) = ToString(k - 1) /\ ToString(k - 1) \in STRING
    BY <2>1, ElementKey, Zenon
  <2> QED
    BY <2>2, Zenon
<1> QED
  BY <1>2 DEF KeysOf

-----------------------------------------------------------------------------
(* Documents of less than d levels, of arrays of at most b elements, with    *)
(* strings for keys.                                                         *)
Roomy(u, b) ==
  /\ IsNode(u)
  /\ u.kind = "array" => Len(u.members) =< b
  /\ u.kind = "object" => KeysOf(u) \subseteq STRING

Fits(v, d, b) == Level(v, d) = {} /\ \A n \in Nat : \A u \in Level(v, n) : Roomy(u, b)

LEMMA RoomyInside == ASSUME NEW v, NEW d, NEW b, Fits(v, d, b) PROVE Document(v) /\ Roomy(v, b)
<1>1. 0 \in Nat /\ Level(v, 0) = {v}
  BY LevelSteps
<1>2. Roomy(v, b)
  BY <1>1, Zenon DEF Fits
<1>3. Document(v)
  BY Zenon DEF Fits, Document, Roomy
<1> QED
  BY <1>2, <1>3

(* No level is below one that has no values.                                 *)
LEMMA NothingBelow ==
  ASSUME NEW v, NEW d \in Nat, Level(v, d) = {}
  PROVE  \A k \in Nat : Level(v, d + k) = {}
<1> DEFINE S == {k \in Nat : Level(v, d + k) = {}}
<1>1. 0 \in S
  OBVIOUS
<1>2. ASSUME NEW k \in Nat, k \in S PROVE k + 1 \in S
  <2>1. PICK m \in Nat : m = d + k /\ m + 1 = d + (k + 1)
    OBVIOUS
  <2>2. Level(v, m + 1) = Under(Level(v, m))
    BY LevelSteps
  <2>3. Level(v, m) = {}
    BY <1>2, <2>1
  <2>4. Under({}) = {}
    BY DEF Under
  <2>5. Level(v, d + (k + 1)) = {}
    BY <2>1, <2>2, <2>3, <2>4
  <2> QED
    BY <2>5
<1>3. \A k \in Nat : k \in S
  <2> HIDE DEF S
  <2> QED
    BY <1>1, <1>2, NatInd
<1> QED
  BY <1>3

LEMMA FitsMore ==
  ASSUME NEW v, NEW d \in Nat, NEW e \in Nat, d =< e, NEW b \in Int, NEW c \in Int, b =< c,
         Fits(v, d, b)
  PROVE  Fits(v, e, c)
<1>1. PICK k \in Nat : e = d + k
  <2>1. e - d \in Nat /\ e = d + (e - d)
    OBVIOUS
  <2> QED
    BY <2>1
<1>2. Level(v, d + k) = {}
  BY NothingBelow DEF Fits
<1>3. ASSUME NEW n \in Nat, NEW u \in Level(v, n) PROVE Roomy(u, c)
  <2>1. Roomy(u, b)
    BY DEF Fits
  <2>2. Len(u.members) \in Nat
    BY <2>1, NodeShape DEF Roomy, IsShaped
  <2> QED
    BY <2>1, <2>2 DEF Roomy
<1> QED
  BY <1>1, <1>2, <1>3, Zenon DEF Fits

LEMMA FitsMember ==
  ASSUME NEW v, NEW d \in Nat, NEW b, Fits(v, d + 1, b), NEW i \in DOMAIN v.members
  PROVE  Fits(v.members[i].val, d, b)
<1>1. Level(v.members[i].val, d) \subseteq Level(v, d + 1)
  BY LevelOfMember
<1>2. ASSUME NEW n \in Nat, NEW u \in Level(v.members[i].val, n) PROVE Roomy(u, b)
  <2>1. u \in Level(v, n + 1)
    BY LevelOfMember
  <2>2. n + 1 \in Nat
    OBVIOUS
  <2> QED
    BY <2>1, <2>2, Zenon DEF Fits
<1>3. Level(v.members[i].val, d) = {}
  BY <1>1 DEF Fits
<1> QED
  BY <1>2, <1>3, Zenon DEF Fits

LEMMA FitsNode ==
  ASSUME NEW v, NEW d \in Nat, NEW b, Roomy(v, b),
         \A i \in DOMAIN v.members : Fits(v.members[i].val, d, b)
  PROVE  Fits(v, d + 1, b)
<1>1. ASSUME NEW u \in Level(v, d + 1) PROVE FALSE
  <2>1. PICK i \in DOMAIN v.members : u \in Level(v.members[i].val, d)
    BY LevelIsMembers
  <2> QED
    BY <2>1 DEF Fits
<1>2. ASSUME NEW n \in Nat, NEW u \in Level(v, n) PROVE Roomy(u, b)
  <2>1. CASE n = 0
    <3>1. Level(v, 0) = {v}
      BY <2>1, LevelSteps
    <3> QED
      BY <2>1, <3>1
  <2>2. CASE n # 0
    <3>1. PICK m \in Nat : n = m + 1
      <4>1. n - 1 \in Nat /\ n = n - 1 + 1
        BY <2>2
      <4> QED
        BY <4>1
    <3>2. PICK i \in DOMAIN v.members : u \in Level(v.members[i].val, m)
      BY <3>1, LevelIsMembers
    <3> QED
      BY <3>2, Zenon DEF Fits
  <2> QED
    BY <2>1, <2>2
<1>3. Level(v, d + 1) = {}
  BY <1>1
<1> QED
  BY <1>2, <1>3, Zenon DEF Fits

(* A node of the values of another, and of X, which leave it that room.      *)
LEMMA FitsComes ==
  ASSUME NEW v, NEW d \in Nat, NEW b \in Int, NEW c \in Int, b =< c, Fits(v, d + 1, b),
         NEW u, Roomy(u, c), NEW X, Comes(u, v, X), \A x \in X : Fits(x, d, c)
  PROVE  Fits(u, d + 1, c)
<1>1. ASSUME NEW i \in DOMAIN u.members PROVE Fits(u.members[i].val, d, c)
  <2>1. CASE u.members[i].val \in X
    BY <2>1
  <2>2. CASE \E j \in DOMAIN v.members : u.members[i].val = v.members[j].val
    <3>1. PICK j \in DOMAIN v.members : u.members[i].val = v.members[j].val
      BY <2>2
    <3>2. Fits(v.members[j].val, d, b)
      BY FitsMember
    <3>3. PICK x : x = v.members[j].val
      OBVIOUS
    <3>4. Fits(x, d, c)
      BY <3>2, <3>3, FitsMore
    <3> QED
      BY <3>1, <3>3, <3>4, Zenon
  <2> QED
    BY <2>1, <2>2 DEF Comes
<1> QED
  BY <1>1, FitsNode

LEMMA TakenFits ==
  ASSUME NEW v, NEW d \in Nat, NEW b \in Int, Fits(v, d + 1, b), NEW u, NEW s, s \in STRING,
         NEW val, Taken(u, v, s, val), Fits(val, d, b + 1)
  PROVE  Fits(u, d + 1, b + 1)
<1>1. Roomy(v, b)
  BY RoomyInside
<1>2. u.kind = v.kind /\ IsNode(u)
  BY Zenon DEF Taken, SameBut
<1>3. ASSUME u.kind = "array" PROVE Len(u.members) =< b + 1
  <2>1. Len(u.members) \in Nat /\ Len(v.members) \in Nat
    BY <1>1, <1>2, NodeShape DEF Roomy, IsShaped
  <2>2. Len(u.members) =< Len(v.members) + 1
    BY <1>3, Zenon DEF Taken
  <2>3. Len(v.members) =< b
    BY <1>1, <1>2, <1>3, Zenon DEF Roomy
  <2> QED
    BY <2>1, <2>2, <2>3
<1>4. ASSUME u.kind = "object" PROVE KeysOf(u) \subseteq STRING
  <2>1. KeysOf(u) \subseteq KeysOf(v) \cup {s}
    BY <1>4, Zenon DEF Taken
  <2>2. KeysOf(v) \subseteq STRING
    BY <1>1, <1>2, <1>4, Zenon DEF Roomy
  <2> QED
    BY <2>1, <2>2
<1>5. Roomy(u, b + 1)
  BY <1>2, <1>3, <1>4, Zenon DEF Roomy
<1>6. Comes(u, v, {val}) /\ \A x \in {val} : Fits(x, d, b + 1)
  BY Zenon DEF Taken
<1>7. PICK c \in Int : c = b + 1 /\ b =< c
  OBVIOUS
<1>8. Fits(u, d + 1, c)
  BY <1>5, <1>6, <1>7, FitsComes
<1> QED
  BY <1>7, <1>8

LEMMA LostFits ==
  ASSUME NEW v, NEW d \in Nat, NEW b \in Int, Fits(v, d + 1, b), NEW u, NEW s, Lost(u, v, s)
  PROVE  Fits(u, d + 1, b)
<1>1. Roomy(v, b)
  BY RoomyInside
<1>2. u.kind = v.kind /\ IsNode(u) /\ u.kind = "object" /\ KeysOf(u) \subseteq KeysOf(v)
  BY Zenon DEF Lost, SameBut
<1>3. Roomy(u, b)
  BY <1>1, <1>2 DEF Roomy
<1>4. Comes(u, v, {}) /\ \A x \in {} : Fits(x, d, b)
  BY Zenon DEF Lost
<1>5. b =< b
  OBVIOUS
<1> QED
  BY <1>3, <1>4, <1>5, FitsComes

LEMMA ClosedFits ==
  ASSUME NEW v, v.kind = "array", NEW d \in Nat, NEW b \in Int, Fits(v, d + 1, b),
         NEW u, NEW i, Closed(u, v, i)
  PROVE  Fits(u, d + 1, b)
<1>1. Roomy(v, b) /\ IsNode(v)
  BY RoomyInside DEF Roomy
<1>2. PICK n \in Nat : n = Len(v.members) /\ DOMAIN v.members = 1 .. n
  BY <1>1, NodeShape DEF IsShaped
<1>3. IsNode(u) /\ u.kind = "array" /\ Len(u.members) = n - 1 /\ DOMAIN u.members = 1 .. n - 1
  BY <1>2, NodeShape DEF Closed, IsShaped
<1>4. Roomy(u, b)
  BY <1>1, <1>2, <1>3 DEF Roomy
<1>5. ASSUME NEW k \in 1 .. n - 1
      PROVE  \E j \in DOMAIN v.members : u.members[k].val = v.members[j].val
  <2>1. PICK j : j = IF k < i THEN k ELSE k + 1
    OBVIOUS
  <2>2. j \in DOMAIN v.members
    BY <2>1, <1>2
  <2>3. u.members[k].val = v.members[j].val
    BY <2>1, <1>2, Zenon DEF Closed
  <2> QED
    BY <2>2, <2>3
<1>6. Comes(u, v, {}) /\ \A x \in {} : Fits(x, d, b)
  BY <1>3, <1>5 DEF Comes
<1>7. b =< b
  OBVIOUS
<1> QED
  BY <1>4, <1>6, <1>7, FitsComes

LEMMA ExceptFits ==
  ASSUME NEW v, NEW d \in Nat, NEW b \in Int, NEW c \in Int, b =< c, Fits(v, d + 1, b),
         NEW i \in 1 .. Len(v.members), NEW x, Fits(x, d, c)
  PROVE  Fits(Except(v, i, x), d + 1, c)
<1>1. Roomy(v, b) /\ Document(v) /\ Document(x)
  BY RoomyInside
<1>2. IsShaped(v)
  BY <1>1, DocumentIsNode, NodeShape
<1>3. PICK n \in Nat : n = Len(v.members) /\ DOMAIN v.members = 1 .. n
  BY <1>2 DEF IsShaped
<1>4. PICK u : u = Except(v, i, x)
  OBVIOUS
<1>5. Changes(u, v, i, x)
  BY <1>3, <1>4, ExceptFields, Zenon
<1>6. IsNode(u)
  BY <1>1, <1>4, ExceptDocument, DocumentIsNode
<1>7. KeysOf(u) = KeysOf(v)
  <2>1. SameKeys(u, v)
    BY <1>2, <1>4, ExceptShaped, Zenon
  <2> QED
    BY <2>1, SameKeysSameChild
<1>8. Roomy(u, c)
  BY <1>1, <1>3, <1>5, <1>6, <1>7 DEF Roomy, Changes
<1>9. ASSUME NEW k \in DOMAIN u.members
      PROVE  u.members[k].val \in {x} \/ \E j \in DOMAIN v.members : u.members[k].val = v.members[j].val
  <2>1. k \in 1 .. n
    BY <1>3, <1>5 DEF Changes
  <2>2. CASE k = i
    <3>1. u.members[k] = Member(v.members[k].key, x)
      BY <2>1, <2>2, <1>3, <1>5 DEF Changes
    <3>2. u.members[k].val = x
      BY <3>1, MemberFields
    <3> QED
      BY <3>2
  <2>3. CASE k # i
    <3>1. u.members[k] = v.members[k]
      BY <2>1, <2>3, <1>3, <1>5 DEF Changes
    <3> QED
      BY <3>1, <2>1, <1>3
  <2> QED
    BY <2>2, <2>3
<1>10. Comes(u, v, {x}) /\ \A y \in {x} : Fits(y, d, c)
  BY <1>9 DEF Comes
<1> QED
  BY <1>4, <1>8, <1>10, FitsComes

(* Where a pointer leads, a level further down for each of its tokens.       *)
LEMMA FitsSome == ASSUME NEW v, NEW d \in Nat, NEW b, Fits(v, d, b) PROVE d # 0
<1>1. Level(v, 0) = {v}
  BY LevelSteps
<1>2. Level(v, d) = {}
  BY DEF Fits
<1> QED
  BY <1>1, <1>2

LEMMA ChildFits ==
  ASSUME NEW v, NEW d \in Nat, NEW b, Fits(v, d + 1, b), NEW t, Child(v, t) # Nowhere
  PROVE  Fits(Child(v, t), d, b)
<1>1. IsShaped(v)
  BY RoomyInside, DocumentIsNode, NodeShape
<1>2. PICK i : i = ChildAt(v, t) /\ i # 0
  BY Zenon DEF Child
<1>3. i \in DOMAIN v.members
  BY <1>1, <1>2, ChildAtRange DEF IsShaped
<1>4. Child(v, t) = v.members[i].val
  BY <1>2, Zenon DEF Child
<1> QED
  BY <1>3, <1>4, FitsMember

FitsAt(v, p, k, d, b) == k < d /\ Fits(Walk(v, p)[k], d - k, b)

LEMMA WalkFits ==
  ASSUME NEW v, NEW d \in Nat, NEW b, Fits(v, d, b), NEW p, Len(p) \in Nat, At(v, p) # Nowhere
  PROVE  \A k \in 0 .. Len(p) : FitsAt(v, p, k, d, b)
<1>1. PICK N \in Nat : N = Len(p)
  OBVIOUS
<1>2. Walk(v, p)[N] # Nowhere /\ Document(v)
  BY <1>1, RoomyInside DEF At
<1>3. ASSUME NEW k \in 0 .. N PROVE Walk(v, p)[k] # Nowhere
  <2>1. Document(Walk(v, p)[k])
    BY <1>1, <1>2, WalkInDocument, Zenon
  <2> QED
    BY <2>1, DocumentIsNode, NodeIsSomething
<1> DEFINE S == {k \in Nat : k =< N => FitsAt(v, p, k, d, b)}
<1>4. 0 \in S
  <2>1. Walk(v, p)[0] = v /\ d - 0 = d
    BY <1>1, WalkStart
  <2>2. d # 0
    BY FitsSome
  <2>3. FitsAt(v, p, 0, d, b)
    <3>1. 0 < d
      BY <2>2
    <3> QED
      BY <2>1, <3>1, Zenon DEF FitsAt
  <2> QED
    BY <2>3
<1>5. ASSUME NEW k \in Nat, k \in S PROVE k + 1 \in S
  <2>1. CASE k + 1 =< N
    <3>1. k =< N /\ k \in 0 .. N
      BY <2>1
    <3>2. FitsAt(v, p, k, d, b)
      BY <1>5, <3>1
    <3>3. PICK e \in Nat : d - k = e + 1 /\ d - (k + 1) = e
      <4>1. d - k - 1 \in Nat /\ d - k = d - k - 1 + 1 /\ d - (k + 1) = d - k - 1
        BY <3>2 DEF FitsAt
      <4> QED
        BY <4>1
    <3>4. PICK j \in 1 .. N : j = k + 1 /\ j - 1 = k /\ j \in 0 .. N
      BY <2>1
    <3>5. Walk(v, p)[j] = Child(Walk(v, p)[k], p[j])
      BY <1>1, <3>4, WalkTurn, ZenonT(60)
    <3>6. Walk(v, p)[j] # Nowhere
      BY <1>3, <3>4
    <3>7. PICK x : x = Walk(v, p)[k]
      OBVIOUS
    <3>8. Fits(x, e + 1, b)
      BY <3>2, <3>3, <3>7, Zenon DEF FitsAt
    <3>9. Fits(Child(x, p[j]), e, b)
      BY <3>5, <3>6, <3>7, <3>8, ChildFits
    <3>10. Fits(Walk(v, p)[k + 1], d - (k + 1), b)
      BY <3>3, <3>4, <3>5, <3>7, <3>9, Zenon
    <3>11. e # 0
      BY <3>9, FitsSome
    <3>12. k + 1 < d
      BY <3>3, <3>11
    <3>13. FitsAt(v, p, k + 1, d, b)
      BY <3>10, <3>12, Zenon DEF FitsAt
    <3> QED
      BY <3>13
  <2> QED
    BY <2>1
<1>6. \A k \in Nat : k \in S
  <2> HIDE DEF S
  <2> QED
    BY <1>4, <1>5, NatInd
<1> QED
  BY <1>1, <1>6

LEMMA ReplacedFits ==
  ASSUME NEW v, NEW d \in Nat, NEW b \in Int, NEW c \in Int, b =< c, Fits(v, d, b),
         NEW a, Len(a) \in Nat, At(v, a) # Nowhere, NEW node, Fits(node, d - Len(a), c)
  PROVE  Fits(Replaced(v, a, node), d, c)
<1>1. PICK N \in Nat : N = Len(a)
  OBVIOUS
<1>2. PICK new : new = Replaced(v, a, node)
  OBVIOUS
<1>3. PICK w, z : w = Walk(v, a) /\ z = Walk(new, a)
  OBVIOUS
<1>4. OnPath(v, a)
  BY RoomyInside, WalkIsPath DEF At
<1>5. z[0] = new /\ z[N] = node /\ Fits(node, d - N, c)
  <2>1. z[0] = new
    BY <1>3, WalkStart
  <2>2. Walk(Replaced(v, a, node), a)[Len(a)] = node
    BY <1>4, Rebuilt
  <2> QED
    BY <2>1, <2>2, <1>1, <1>2, <1>3, Zenon
<1>6. ASSUME NEW k \in 0 .. N - 1
      PROVE  /\ z[k] = WithChild(w[k], a[k + 1], z[k + 1])
             /\ IsShaped(w[k]) /\ ChildAt(w[k], a[k + 1]) # 0
             /\ k < d /\ Fits(w[k], d - k, b)
  <2>1. k \in 0 .. N
    OBVIOUS
  <2>2. IsRebuilt(new, v, a, k)
    BY <1>1, <1>2, <1>4, Rebuilt, Zenon
  <2>3. FitsAt(v, a, k, d, b)
    BY <2>1, <1>1, WalkFits
  <2>4. IsShaped(w[k]) /\ ChildAt(w[k], a[k + 1]) # 0
    BY <2>1, <1>1, <1>3, <1>4, Zenon DEF OnPath
  <2> QED
    BY <2>2, <2>3, <2>4, <1>3, Zenon DEF IsRebuilt, FitsAt
<1> DEFINE S == {k \in Nat : k =< N => Fits(z[N - k], d - (N - k), c)}
<1>7. 0 \in S
  <2>1. N - 0 = N
    OBVIOUS
  <2> QED
    BY <2>1, <1>5
<1>8. ASSUME NEW k \in Nat, k \in S PROVE k + 1 \in S
  <2>1. CASE k + 1 =< N
    <3>1. PICK j \in 0 .. N - 1 : j = N - (k + 1) /\ j + 1 = N - k
      BY <2>1
    <3>2. Fits(z[j + 1], d - (j + 1), c)
      BY <1>8, <2>1, <3>1
    <3>3. /\ z[j] = WithChild(w[j], a[j + 1], z[j + 1])
          /\ IsShaped(w[j]) /\ ChildAt(w[j], a[j + 1]) # 0
          /\ j < d /\ Fits(w[j], d - j, b)
      BY <1>6
    <3>4. PICK e \in Nat : d - j = e + 1 /\ d - (j + 1) = e
      <4>1. d - j - 1 \in Nat /\ d - j = d - j - 1 + 1 /\ d - (j + 1) = d - j - 1
        BY <3>3
      <4> QED
        BY <4>1
    <3>5. PICK x, y, i : x = w[j] /\ y = z[j + 1] /\ i = ChildAt(x, a[j + 1])
      OBVIOUS
    <3>6. i \in 1 .. Len(x.members) /\ WithChild(x, a[j + 1], y) = Except(x, i, y)
      BY <3>3, <3>5, WithChildIs
    <3>7. Fits(x, e + 1, b) /\ Fits(y, e, c)
      BY <3>2, <3>3, <3>4, <3>5, Zenon
    <3>8. Fits(Except(x, i, y), e + 1, c)
      BY <3>6, <3>7, ExceptFits
    <3>9. Fits(z[j], d - j, c)
      BY <3>3, <3>4, <3>5, <3>6, <3>8, Zenon
    <3> QED
      BY <3>1, <3>9
  <2> QED
    BY <2>1
<1>9. N \in S
  <2> HIDE DEF S
  <2> QED
    BY <1>7, <1>8, NatInd
<1>10. Fits(z[N - N], d - (N - N), c) /\ N - N = 0 /\ d - 0 = d
  BY <1>9
<1>11. Fits(z[0], d, c)
  BY <1>10, Zenon
<1> QED
  BY <1>2, <1>5, <1>11, Zenon

-----------------------------------------------------------------------------
(* What the calls build fits: a text is set below at most MaxTokens tokens,  *)
(* and each call adds at most one element.                                   *)
Depth == MaxTokens + MaxDepth + 1
Room(n) == 2 ^ SizeBits - 1 - MaxCalls + n

LEMMA Bounds ==
  /\ MaxTokens \in Nat /\ MaxDepth \in Nat /\ MaxCalls \in Nat /\ 2 ^ SizeBits \in Nat
  /\ Depth \in Nat /\ \A n \in Nat : Room(n) \in Int /\ Room(n + 1) = Room(n) + 1
BY Widths, SizesAssumption DEF Depth, Room

LEMMA TextFits ==
  ASSUME NEW text \in Texts, ToyAccepts(text)
  PROVE  Fits(text, MaxDepth + 1, Room(0))
<1>1. PICK P \in Nat : P = 2 ^ SizeBits
  BY Bounds
<1>2. Level(text, MaxDepth + 1) = {}
  BY DEF ToyAccepts
<1>3. ASSUME NEW n \in Nat, NEW u \in Level(text, n) PROVE Roomy(u, Room(0))
  <2>1. CASE n =< MaxDepth
    <3>1. n \in 0 .. MaxDepth
      BY <2>1, Bounds
    <3>2. IsNode(u) /\ KeysOf(u) \subseteq STRING
      BY <3>1, TextsAssumption
    <3>3. u.kind = "array" => Len(u.members) + MaxCalls < P
      BY <3>1, <1>1, SizesAssumption
    <3>4. Len(u.members) \in Nat
      BY <3>2, NodeShape DEF IsShaped
    <3>5. u.kind = "array" => Len(u.members) =< Room(0)
      <4>1. PICK r \in Int : r = Room(0) /\ r = P - 1 - MaxCalls + 0
        BY <1>1, Bounds DEF Room
      <4>2. ASSUME u.kind = "array" PROVE Len(u.members) =< r
        <5>1. PICK l, m \in Nat : l = Len(u.members) /\ m = MaxCalls
          BY <3>4, Bounds
        <5>2. l + m < P
          BY <3>3, <4>2, <5>1
        <5>3. r = P - 1 - m
          BY <4>1, <5>1
        <5> QED
          BY <5>1, <5>2, <5>3
      <4> QED
        BY <4>1, <4>2
    <3> QED
      BY <3>2, <3>5 DEF Roomy
  <2>2. CASE ~(n =< MaxDepth)
    <3>1. PICK k \in Nat : n = MaxDepth + 1 + k
      <4>1. n - (MaxDepth + 1) \in Nat /\ n = MaxDepth + 1 + (n - (MaxDepth + 1))
        BY <2>2, Bounds
      <4> QED
        BY <4>1
    <3>2. PICK d \in Nat : d = MaxDepth + 1
      BY Bounds
    <3>3. Level(text, d + k) = {}
      BY <1>2, <3>2, NothingBelow
    <3> QED
      BY <3>1, <3>2, <3>3
  <2> QED
    BY <2>1, <2>2
<1> QED
  BY <1>2, <1>3, Zenon DEF Fits

(* In that room, no index wraps.                                             *)
LEMMA FitsSized ==
  ASSUME NEW v, NEW d, NEW n \in 0 .. MaxCalls, Fits(v, d, Room(n))
  PROVE  IsNode(v) /\ IsSized(v)
<1>1. Roomy(v, Room(n)) /\ IsNode(v)
  BY RoomyInside DEF Roomy
<1>2. Len(v.members) \in Nat
  BY <1>1, NodeShape DEF IsShaped
<1>3. PICK P \in Nat : P = 2 ^ SizeBits
  BY Bounds
<1>4. PICK r \in Int : r = Room(n) /\ r = P - 1 - MaxCalls + n
  BY <1>3, Bounds DEF Room
<1>5. v.kind = "array" => Len(v.members) \in 0 .. P - 1
  <2>1. PICK l, m \in Nat : l = Len(v.members) /\ m = MaxCalls
    BY <1>2, Bounds
  <2>2. v.kind = "array" => l =< r
    BY <1>1, <1>4, <2>1, Zenon DEF Roomy
  <2>3. r = P - 1 - m + n /\ n \in 0 .. m
    BY <1>4, <2>1
  <2>4. v.kind = "array" => l \in 0 .. P - 1
    BY <2>1, <2>2, <2>3
  <2> QED
    BY <2>1, <2>4
<1> QED
  BY <1>1, <1>3, <1>5, Zenon DEF IsSized

-----------------------------------------------------------------------------
(* What get() tells of a document: a node for each pointer that leads        *)
(* somewhere in it.                                                          *)
Resolves(f, n, v) ==
  /\ f[0] = Longer(v, {})
  /\ \A k \in 1 .. n : f[k] = Longer(v, f[k - 1])

(* Resolved() is that recursion. *)
LEMMA ResolvedLoop ==
  ASSUME NEW v, NEW most \in Nat
  PROVE  \E f : Resolves(f, most, v) /\ Resolved(v, most) = f[most]
<1>a. PICK N : N = most
  OBVIOUS
<1>b. N \in Nat
  BY <1>a
<1> DEFINE Body(f, k) == IF k = 0 THEN Longer(v, {}) ELSE Longer(v, f[k - 1])
           S == {n \in Nat : \E f : \A k \in 0 .. n : k =< N => f[k] = Body(f, k)}
<1>1. 0 \in S
  <2> DEFINE g == [k \in 0 .. N |-> Longer(v, {})]
  <2>1. \A k \in 0 .. 0 : k =< N => g[k] = Body(g, k)
    BY <1>b
  <2> HIDE DEF g
  <2> QED
    BY <2>1
<1>2. ASSUME NEW n \in Nat, n \in S PROVE n + 1 \in S
  <2>1. PICK f : \A k \in 0 .. n : k =< N => f[k] = Body(f, k)
    BY <1>2
  <2> DEFINE g == [k \in 0 .. N |-> IF k = n + 1 THEN Body(f, k) ELSE f[k]]
  <2>2. ASSUME NEW k \in 0 .. n + 1, k =< N PROVE g[k] = Body(g, k)
    <3>1. k \in 0 .. N
      BY <2>2
    <3>2. k # 0 => g[k - 1] = f[k - 1]
      <4>1. k # 0 => k - 1 \in 0 .. N /\ k - 1 # n + 1
        BY <2>2, <3>1, <1>b
      <4> QED
        BY <4>1, Zenon
    <3>3. Body(g, k) = Body(f, k)
      BY <3>2
    <3>4. k = n + 1 \/ k \in 0 .. n
      OBVIOUS
    <3> QED
      BY <2>1, <2>2, <3>1, <3>3, <3>4
  <2> HIDE DEF g
  <2> QED
    BY <2>2
<1>3. N \in S
  <2> HIDE DEF S
  <2> QED
    BY <1>1, <1>2, <1>b, NatInd
<1>4. PICK f : \A k \in 0 .. N : k =< N => f[k] = Body(f, k)
  BY <1>3
<1> DEFINE h == [k \in 0 .. N |-> f[k]]
<1>5. h = [k \in 0 .. N |-> Body(h, k)]
  <2>1. ASSUME NEW k \in 0 .. N PROVE Body(h, k) = f[k]
    <3>1. k # 0 => h[k - 1] = f[k - 1]
      BY <1>b
    <3>2. Body(h, k) = Body(f, k)
      BY <3>1
    <3>3. k =< N
      BY <1>b
    <3>4. f[k] = Body(f, k)
      BY <1>4, <3>3, Zenon
    <3> QED
      BY <3>2, <3>4, Zenon
  <2> HIDE DEF Body
  <2> QED
    BY <2>1, Zenon
<1> HIDE DEF h
<1> DEFINE g == CHOOSE f1 : f1 = [k \in 0 .. N |-> Body(f1, k)]
<1>6. g = [k \in 0 .. N |-> Body(g, k)]
  BY <1>5, Zenon
<1>7. Resolved(v, most) = g[N]
  BY <1>a, Zenon DEF Resolved
<1> HIDE DEF g
<1>8. \A k \in 0 .. N : g[k] = Body(g, k)
  BY <1>6, Zenon
<1>9. Resolves(g, N, v)
  <2>1. 0 \in 0 .. N /\ \A k \in 1 .. N : k \in 0 .. N /\ k # 0
    BY <1>b
  <2> QED
    BY <1>8, <2>1 DEF Resolves
<1> QED
  BY <1>7, <1>9, <1>a

Leads(v) == {p \in Seq(STRING) : At(v, p) # Nowhere}

Sound(x) == Document(x) /\ IsNode(x) /\ IsSized(x) /\ KeysOf(x) \subseteq STRING

LEMMA FitsSound ==
  ASSUME NEW v, NEW d, NEW n \in 0 .. MaxCalls, Fits(v, d, Room(n))
  PROVE  Sound(v)
<1>1. IsNode(v) /\ IsSized(v) /\ Document(v)
  BY FitsSized, RoomyInside
<1>2. v.kind \in {"scalar", "array", "object"} /\ (v.kind = "scalar" => v.members = << >>)
  BY <1>1, NodeShape
<1>3. CASE v.kind = "scalar"
  <2>1. v.members = << >>
    BY <1>2, <1>3
  <2>2. KeysOf(v) \subseteq STRING
    BY <2>1 DEF KeysOf
  <2> QED
    BY <2>2, <1>1, Zenon DEF Sound
<1>4. CASE v.kind = "array"
  BY <1>1, <1>4, ArrayKeys DEF Sound
<1>5. CASE v.kind = "object"
  BY <1>1, <1>5, RoomyInside DEF Roomy, Sound
<1> QED
  BY <1>2, <1>3, <1>4, <1>5

LEMMA LeadsInside ==
  ASSUME NEW v, NEW d \in Nat, NEW n \in 0 .. MaxCalls, Fits(v, d, Room(n)), NEW p \in Leads(v)
  PROVE  Len(p) < d /\ Sound(At(v, p))
<1>1. Len(p) \in Nat /\ At(v, p) # Nowhere /\ Len(p) \in 0 .. Len(p)
  BY DEF Leads
<1>2. FitsAt(v, p, Len(p), d, Room(n))
  BY <1>1, WalkFits
<1>3. Len(p) < d /\ Fits(At(v, p), d - Len(p), Room(n))
  BY <1>2, Zenon DEF FitsAt, At
<1> QED
  BY <1>3, FitsSound

LEMMA AtRoot == ASSUME NEW v PROVE At(v, << >>) = v
<1>1. Len(<< >>) = 0 /\ 0 \in Nat
  OBVIOUS
<1>2. Walk(v, << >>)[0] = v
  BY <1>1, WalkStart
<1> QED
  BY <1>1, <1>2, Zenon DEF At

LEMMA AppendedWithin ==
  ASSUME NEW S, NEW a \in Seq(S), NEW s \in S
  PROVE  Append(a, s) \in Seq(S) /\ IsAppended(Append(a, s), a, s)
BY AppendProperties DEF IsAppended

LEMMA AtAppend ==
  ASSUME NEW v, NEW p \in Seq(STRING), NEW s \in STRING
  PROVE  At(v, Append(p, s)) = Child(At(v, p), s)
<1>1. PICK q : q = Append(p, s)
  OBVIOUS
<1>2. PICK n \in Nat : n = Len(p)
  OBVIOUS
<1>3. q \in Seq(STRING) /\ Len(q) = n + 1 /\ q[n + 1] = s /\ \A j \in 1 .. n : q[j] = p[j]
  <2>1. Append(p, s) \in Seq(STRING) /\ IsAppended(Append(p, s), p, s)
    BY AppendedWithin
  <2> QED
    BY <2>1, <1>1, <1>2, Zenon DEF IsAppended
<1>4. Meets(v, q, n, v, p, n)
  BY <1>2, <1>3, SameStart
<1>5. PICK m \in 1 .. n + 1 : m = n + 1 /\ m - 1 = n
  OBVIOUS
<1>6. Walk(v, q)[m] = Child(Walk(v, q)[m - 1], q[m])
  BY <1>3, <1>5, WalkTurn, SMTT(30)
<1> QED
  BY <1>1, <1>2, <1>3, <1>4, <1>5, <1>6, Zenon DEF At, Meets

\* p is its parent's and one token more.
Steps(v, p) ==
  /\ Seqs!Front(p) \in Seq(STRING) /\ Seqs!Last(p) \in STRING
  /\ Len(Seqs!Front(p)) + 1 = Len(p)
  /\ p = Append(Seqs!Front(p), Seqs!Last(p))
  /\ At(v, p) = Child(At(v, Seqs!Front(p)), Seqs!Last(p))

LEMMA LastStep ==
  ASSUME NEW v, NEW p \in Seq(STRING), p # << >>
  PROVE  Steps(v, p)
<1>1. PICK a, s : a = Seqs!Front(p) /\ s = Seqs!Last(p)
  OBVIOUS
<1>2. PICK n \in Nat : Len(p) = n + 1
  <2>1. Len(p) - 1 \in Nat /\ Len(p) = Len(p) - 1 + 1
    OBVIOUS
  <2> QED
    BY <2>1
<1>3. a \in Seq(STRING) /\ Len(a) = n /\ (\A k \in 1 .. n : a[k] = p[k]) /\ s = p[n + 1]
  <2>1. /\ a \in Seq(STRING) /\ Len(a) = Len(p) - 1
        /\ \A k \in 1 .. Len(p) - 1 : a[k] = p[k]
        /\ s = p[Len(p)]
    BY <1>1, FrontOfPath
  <2>2. Len(p) - 1 = n
    BY <1>2
  <2> QED
    BY <2>1, <2>2, <1>2, Zenon
<1>4. s \in STRING
  BY <1>2, <1>3
<1>5. p = Append(a, s)
  <2>0. Append(a, s) \in Seq(STRING) /\ IsAppended(Append(a, s), a, s)
    BY <1>3, <1>4, AppendedWithin
  <2>1. Append(a, s) \in Seq(STRING) /\ Len(Append(a, s)) = n + 1
    BY <2>0, <1>3, Zenon DEF IsAppended
  <2>2. \A k \in 1 .. n + 1 : Append(a, s)[k] = p[k]
    <3>1. (\A k \in 1 .. n : Append(a, s)[k] = a[k]) /\ Append(a, s)[n + 1] = s
      BY <2>0, <1>3, Zenon DEF IsAppended
    <3>2. PICK t : t = Append(a, s)
      OBVIOUS
    <3>3. \A k \in 1 .. n + 1 : t[k] = p[k]
      BY <3>1, <3>2, <1>2, <1>3
    <3> QED
      BY <3>2, <3>3, Zenon
  <2> QED
    BY <2>1, <2>2, <1>2, SeqEqual
<1>6. At(v, Append(a, s)) = Child(At(v, a), s)
  BY <1>3, <1>4, AtAppend
<1> QED
  BY <1>1, <1>2, <1>3, <1>4, <1>5, <1>6, Zenon DEF Steps

LEMMA KeyedChild ==
  ASSUME NEW x, Sound(x), NEW t
  PROVE  /\ Named(x, t, Nowhere) = Child(x, t)
         /\ t \in KeysOf(x) <=> Child(x, t) # Nowhere
<1>1. Document(x) /\ IsNode(x) /\ IsSized(x)
  BY Zenon DEF Sound
<1>2. Keyed(x, t) /\ Named(x, t, Nowhere) = Child(x, t)
  BY <1>1, EveryNodeIsKeyed, NamedIsChild
<1>3. ChildAt(x, t) # 0 <=> Child(x, t) # Nowhere
  <2>1. CASE ChildAt(x, t) = 0 /\ Child(x, t) = Nowhere
    BY <2>1
  <2>2. CASE ChildAt(x, t) # 0 /\ Document(Child(x, t))
    <3>1. Child(x, t) # Nowhere
      BY <2>2, DocumentIsNode, NodeIsSomething
    <3> QED
      BY <2>2, <3>1
  <2> QED
    BY <1>1, <2>1, <2>2, ChildOfDocument
<1> QED
  BY <1>2, <1>3, Zenon DEF Keyed

\* A pointer and what it leads to.
Spot(v, p) == [ptr |-> p, val |-> At(v, p)]
Short(v, k) == {p \in Leads(v) : Len(p) =< k}
Spots(v, k) == {Spot(v, p) : p \in Short(v, k)}
OneMore(x, key) == [ptr |-> Append(x.ptr, key), val |-> Named(x.val, key, Nowhere)]

LEMMA SpotGrows ==
  ASSUME NEW v, NEW d \in Nat, NEW n \in 0 .. MaxCalls, Fits(v, d, Room(n)), NEW p \in Leads(v),
         NEW s, s \in KeysOf(At(v, p))
  PROVE  /\ Append(p, s) \in Leads(v) /\ Len(Append(p, s)) = Len(p) + 1
         /\ OneMore(Spot(v, p), s) = Spot(v, Append(p, s))
<1>1. Sound(At(v, p)) /\ p \in Seq(STRING)
  BY LeadsInside DEF Leads
<1>2. s \in STRING
  BY <1>1 DEF Sound
<1>3. Append(p, s) \in Seq(STRING) /\ Len(Append(p, s)) = Len(p) + 1
  BY <1>1, <1>2, AppendedWithin DEF IsAppended
<1>4. At(v, Append(p, s)) = Child(At(v, p), s)
  BY <1>1, <1>2, AtAppend
<1>5. Named(At(v, p), s, Nowhere) = Child(At(v, p), s) /\ Child(At(v, p), s) # Nowhere
  BY <1>1, KeyedChild, Zenon
<1>6. Spot(v, p).ptr = p /\ Spot(v, p).val = At(v, p)
  BY DEF Spot
<1> QED
  BY <1>3, <1>4, <1>5, <1>6, Zenon DEF Leads, OneMore, Spot

LEMMA SpotIsGrown ==
  ASSUME NEW v, NEW d \in Nat, NEW n \in 0 .. MaxCalls, Fits(v, d, Room(n)), NEW p \in Leads(v),
         p # << >>
  PROVE  \E a \in Leads(v) : \E s \in KeysOf(At(v, a)) :
           Len(a) + 1 = Len(p) /\ OneMore(Spot(v, a), s) = Spot(v, p)
<1>1. p \in Seq(STRING) /\ At(v, p) # Nowhere
  BY DEF Leads
<1>2. Steps(v, p)
  BY <1>1, LastStep
<1>3. PICK a, s : /\ a \in Seq(STRING) /\ s \in STRING /\ Len(a) + 1 = Len(p) /\ p = Append(a, s)
                  /\ At(v, p) = Child(At(v, a), s)
  BY <1>2, Zenon DEF Steps
<1>4. Child(At(v, a), s) # Nowhere
  BY <1>1, <1>3
<1>5. a \in Leads(v)
  <2>1. At(v, a) # Nowhere
    BY <1>4, NowhereHasNoChild
  <2> QED
    BY <2>1, <1>3 DEF Leads
<1>6. Sound(At(v, a))
  BY <1>5, LeadsInside
<1>7. s \in KeysOf(At(v, a))
  BY <1>4, <1>6, KeyedChild, Zenon
<1>8. OneMore(Spot(v, a), s) = Spot(v, Append(a, s))
  BY <1>5, <1>7, SpotGrows
<1> QED
  BY <1>3, <1>5, <1>7, <1>8, Zenon

IsLonger(v, found, y) ==
  y = Spot(v, << >>) \/ \E x \in found : \E key \in KeysOf(x.val) : y = OneMore(x, key)

LEMMA LongerIs ==
  ASSUME NEW v, NEW d \in Nat, NEW n \in 0 .. MaxCalls, Fits(v, d, Room(n))
  PROVE  /\ Longer(v, {}) = Spots(v, 0)
         /\ \A k \in Nat : Longer(v, Spots(v, k)) = Spots(v, k + 1)
<1>1. At(v, << >>) = v /\ v # Nowhere
  BY AtRoot, RoomyInside, NodeIsSomething DEF Roomy
<1>2. << >> \in Leads(v) /\ Len(<< >>) = 0
  BY <1>1 DEF Leads
<1>3. [ptr |-> << >>, val |-> v] = Spot(v, << >>)
  BY <1>1, Zenon DEF Spot
<1>4. \A found : Longer(v, found) =
                   {Spot(v, << >>)} \cup UNION {{OneMore(x, key) : key \in KeysOf(x.val)} : x \in found}
  BY <1>3, Zenon DEF Longer, OneMore
<1>a. ASSUME NEW found, NEW y
      PROVE  y \in Longer(v, found) <=> IsLonger(v, found, y)
  <2>1. Longer(v, found) = {Spot(v, << >>)} \cup UNION {{OneMore(x, key) : key \in KeysOf(x.val)} : x \in found}
    BY <1>4
  <2> HIDE DEF Spot, OneMore, KeysOf
  <2> QED
    BY <2>1 DEF IsLonger
<1>5. Longer(v, {}) = Spots(v, 0)
  <2>1. Longer(v, {}) = {Spot(v, << >>)}
    BY <1>4
  <2>2. ASSUME NEW p \in Short(v, 0) PROVE p = << >>
    <3>1. p \in Seq(STRING) /\ Len(p) =< 0
      BY <2>2 DEF Short, Leads
    <3> QED
      BY <3>1
  <2>3. << >> \in Short(v, 0)
    BY <1>2 DEF Short
  <2> QED
    BY <2>1, <2>2, <2>3, Zenon DEF Spots
<1>6. ASSUME NEW k \in Nat PROVE Longer(v, Spots(v, k)) = Spots(v, k + 1)
  <2>1. ASSUME NEW y \in Longer(v, Spots(v, k)) PROVE y \in Spots(v, k + 1)
    <3>1. CASE y = Spot(v, << >>)
      <4>1. << >> \in Short(v, k + 1)
        BY <1>2 DEF Short
      <4> QED
        BY <4>1, <3>1, Zenon DEF Spots
    <3>2. CASE \E x \in Spots(v, k) : \E key \in KeysOf(x.val) : y = OneMore(x, key)
      <4>1. PICK x \in Spots(v, k) : \E key \in KeysOf(x.val) : y = OneMore(x, key)
        BY <3>2
      <4>2. PICK p \in Short(v, k) : x = Spot(v, p)
        BY <4>1 DEF Spots
      <4>3. p \in Leads(v) /\ Len(p) =< k /\ Len(p) \in Nat
        BY <4>2 DEF Short, Leads
      <4>4. PICK s \in KeysOf(At(v, p)) : y = OneMore(Spot(v, p), s)
        BY <4>1, <4>2 DEF Spot
      <4>5. /\ Append(p, s) \in Leads(v) /\ Len(Append(p, s)) = Len(p) + 1
            /\ OneMore(Spot(v, p), s) = Spot(v, Append(p, s))
        BY <4>3, <4>4, SpotGrows
      <4>6. Append(p, s) \in Short(v, k + 1)
        BY <4>3, <4>5 DEF Short
      <4> QED
        BY <4>4, <4>5, <4>6, Zenon DEF Spots
    <3>3. y = Spot(v, << >>) \/ \E x \in Spots(v, k) : \E key \in KeysOf(x.val) : y = OneMore(x, key)
      <4>1. PICK found : found = Spots(v, k)
        OBVIOUS
      <4>2. y \in Longer(v, found)
        BY <2>1, <4>1
      <4>3. IsLonger(v, found, y)
        BY <1>a, <4>2
      <4> QED
        BY <4>1, <4>3, Zenon DEF IsLonger
    <3> QED
      BY <3>1, <3>2, <3>3
  <2>2. ASSUME NEW y \in Spots(v, k + 1) PROVE y \in Longer(v, Spots(v, k))
    <3>1. PICK p \in Short(v, k + 1) : y = Spot(v, p)
      BY <2>2, Zenon DEF Spots
    <3>2. p \in Leads(v) /\ Len(p) =< k + 1
      BY <3>1 DEF Short
    <3>3. CASE p = << >>
      BY <3>1, <3>3, <1>a, Zenon DEF IsLonger
    <3>4. CASE p # << >>
      <4>1. PICK a \in Leads(v) : \E s \in KeysOf(At(v, a)) :
              Len(a) + 1 = Len(p) /\ OneMore(Spot(v, a), s) = Spot(v, p)
        BY <3>2, <3>4, SpotIsGrown
      <4>2. PICK s \in KeysOf(At(v, a)) : Len(a) + 1 = Len(p) /\ OneMore(Spot(v, a), s) = Spot(v, p)
        BY <4>1
      <4>3. Len(a) \in Nat
        BY <4>1 DEF Leads
      <4>4. Len(a) =< k
        BY <4>2, <4>3, <3>2
      <4>5. Spot(v, a) \in Spots(v, k)
        BY <4>1, <4>4, Zenon DEF Short, Spots
      <4>6. Spot(v, a).val = At(v, a)
        BY DEF Spot
      <4>7. PICK x : x = Spot(v, a)
        OBVIOUS
      <4>8. x \in Spots(v, k) /\ s \in KeysOf(x.val) /\ y = OneMore(x, s)
        BY <4>2, <4>5, <4>6, <4>7, <3>1, Zenon
      <4> QED
        BY <4>8, <1>a, Zenon DEF IsLonger
    <3> QED
      BY <3>3, <3>4
  <2> QED
    BY <2>1, <2>2, Zenon
<1> QED
  BY <1>5, <1>6

LEMMA ResolvedIs ==
  ASSUME NEW v, NEW d \in Nat, NEW n \in 0 .. MaxCalls, Fits(v, d, Room(n)), NEW most \in Nat
  PROVE  Resolved(v, most) = Spots(v, most)
<1>1. PICK f : Resolves(f, most, v) /\ Resolved(v, most) = f[most]
  BY ResolvedLoop
<1> DEFINE S == {k \in Nat : k =< most => f[k] = Spots(v, k)}
<1>2. 0 \in S
  <2>1. f[0] = Spots(v, 0)
    BY <1>1, LongerIs, Zenon DEF Resolves
  <2> QED
    BY <2>1
<1>3. ASSUME NEW k \in Nat, k \in S PROVE k + 1 \in S
  <2>1. CASE k + 1 =< most
    <3>1. PICK j \in 1 .. most : j = k + 1 /\ j - 1 = k /\ k =< most
      BY <2>1
    <3>2. f[j] = Longer(v, f[j - 1])
      BY <1>1, <3>1, Zenon DEF Resolves
    <3>3. f[k] = Spots(v, k)
      BY <1>3, <3>1
    <3>4. Longer(v, Spots(v, k)) = Spots(v, k + 1)
      BY LongerIs
    <3>5. f[k + 1] = Spots(v, k + 1)
      BY <3>1, <3>2, <3>3, <3>4, Zenon
    <3> QED
      BY <3>5
  <2> QED
    BY <2>1
<1>4. most \in S
  <2> HIDE DEF S
  <2> QED
    BY <1>2, <1>3, NatInd
<1>5. f[most] = Spots(v, most)
  BY <1>4
<1> QED
  BY <1>1, <1>5, Zenon

NodeAt(v, p) == [ptr |-> p, kind |-> At(v, p).kind, atom |-> At(v, p).atom]

LEMMA NodesAre ==
  ASSUME NEW v, NEW n \in 0 .. MaxCalls, Fits(v, Depth, Room(n))
  PROVE  NodesOf(v) = {NodeAt(v, p) : p \in Leads(v)}
<1>1. PICK D \in Nat : D = MaxTokens + MaxDepth /\ Depth = D + 1
  BY Bounds DEF Depth
<1>2. v # Nowhere
  BY RoomyInside, NodeIsSomething DEF Roomy
<1>3. Resolved(v, D) = Spots(v, D)
  BY <1>1, ResolvedIs
<1>4. Short(v, D) = Leads(v)
  <2>1. ASSUME NEW p \in Leads(v) PROVE Len(p) =< D
    <3>1. Len(p) < D + 1
      BY <1>1, LeadsInside
    <3>2. Len(p) \in Nat
      BY DEF Leads
    <3> QED
      BY <3>1, <3>2
  <2> QED
    BY <2>1 DEF Short
<1>5. NodesOf(v) = {[ptr |-> x.ptr, kind |-> x.val.kind, atom |-> x.val.atom] : x \in Spots(v, D)}
  BY <1>1, <1>2, <1>3, Zenon DEF NodesOf
<1>6. \A p : Spot(v, p).ptr = p /\ Spot(v, p).val = At(v, p)
  BY DEF Spot
<1>7. \A p : [ptr |-> Spot(v, p).ptr, kind |-> Spot(v, p).val.kind, atom |-> Spot(v, p).val.atom]
               = NodeAt(v, p)
  BY <1>6, Zenon DEF NodeAt
<1>8. Spots(v, D) = {Spot(v, p) : p \in Leads(v)}
  BY <1>4, Zenon DEF Spots
<1> HIDE DEF Spot, NodeAt
<1> QED
  BY <1>5, <1>7, <1>8

-----------------------------------------------------------------------------
(* The store's questions of its pointers, asked of the tree.                 *)
Tells(f, v) == f = {NodeAt(v, p) : p \in Leads(v)}

LEMMA BelowIs ==
  ASSUME NEW p \in Seq(STRING), NEW q \in Seq(STRING)
  PROVE  Store!Below(p, q) <=> IsBelow(p, q)
<1>1. PICK m, n \in Nat : m = Len(p) /\ n = Len(q)
  OBVIOUS
<1>2. CASE m =< n
  <2>1. SubSeq(p, 1, m) \in Seq(STRING) /\ Len(SubSeq(p, 1, m)) = m
        /\ \A j \in 1 .. m : SubSeq(p, 1, m)[j] = p[j]
    BY <1>1
  <2>2. SubSeq(q, 1, m) \in Seq(STRING) /\ Len(SubSeq(q, 1, m)) = m
        /\ \A j \in 1 .. m : SubSeq(q, 1, m)[j] = q[j]
    BY <1>1, <1>2
  <2>3. SubSeq(p, 1, m) = SubSeq(q, 1, m) <=> \A j \in 1 .. m : q[j] = p[j]
    <3>1. ASSUME \A j \in 1 .. m : q[j] = p[j] PROVE SubSeq(p, 1, m) = SubSeq(q, 1, m)
      <4>1. \A j \in 1 .. m : SubSeq(p, 1, m)[j] = SubSeq(q, 1, m)[j]
        BY <2>1, <2>2, <3>1
      <4> QED
        BY <4>1, <2>1, <2>2, SeqEqual
    <3>2. ASSUME SubSeq(p, 1, m) = SubSeq(q, 1, m) PROVE \A j \in 1 .. m : q[j] = p[j]
      BY <3>2, <2>1, <2>2, Zenon
    <3> QED
      BY <3>1, <3>2
  <2> QED
    BY <1>1, <1>2, <2>3, Zenon DEF Store!Below, Store!IsPrefix, IsBelow
<1>3. CASE ~(m =< n)
  BY <1>1, <1>3, Zenon DEF Store!Below, Store!IsPrefix, IsBelow
<1> QED
  BY <1>2, <1>3

LEMMA EndsAre == ASSUME NEW p PROVE Store!Front(p) = Seqs!Front(p) /\ Store!Last(p) = Seqs!Last(p)
BY Zenon DEF Store!Front, Store!Last, Seqs!Front, Seqs!Last

LEMMA NodeAtFields ==
  ASSUME NEW v, NEW p
  PROVE  /\ NodeAt(v, p).ptr = p /\ NodeAt(v, p).kind = At(v, p).kind
         /\ NodeAt(v, p).atom = At(v, p).atom
BY DEF NodeAt

LEMMA KindIs ==
  ASSUME NEW v, NEW f, Tells(f, v), NEW p, NEW kind
  PROVE  Store!IsA(f, p, kind) <=> p \in Leads(v) /\ At(v, p).kind = kind
<1>1. ASSUME NEW n \in f, n.ptr = p PROVE p \in Leads(v) /\ n.kind = At(v, p).kind
  <2>1. PICK q \in Leads(v) : n = NodeAt(v, q)
    BY <1>1, Zenon DEF Tells
  <2> QED
    BY <2>1, <1>1, NodeAtFields
<1>2. ASSUME p \in Leads(v) PROVE \E n \in f : n.ptr = p /\ n.kind = At(v, p).kind
  <2>1. NodeAt(v, p) \in f
    BY <1>2, Zenon DEF Tells
  <2> QED
    BY <2>1, NodeAtFields
<1>3. Store!IsA(f, p, kind) <=> \E n \in f : n.ptr = p /\ n.kind = kind
  BY Zenon DEF Store!IsA
<1> QED
  BY <1>1, <1>2, <1>3, Zenon

LEMMA SomewhereIs ==
  ASSUME NEW v, NEW f, Tells(f, v), NEW p
  PROVE  (\E n \in f : n.ptr = p) <=> p \in Leads(v)
<1>1. ASSUME NEW n \in f, n.ptr = p PROVE p \in Leads(v)
  <2>1. PICK q \in Leads(v) : n = NodeAt(v, q)
    BY <1>1, Zenon DEF Tells
  <2> QED
    BY <2>1, <1>1, NodeAtFields
<1>2. ASSUME p \in Leads(v) PROVE \E n \in f : n.ptr = p
  <2>1. NodeAt(v, p) \in f
    BY <1>2, Zenon DEF Tells
  <2> QED
    BY <2>1, NodeAtFields
<1> QED
  BY <1>1, <1>2

LEMMA OffIs ==
  ASSUME NEW v, NEW f, Tells(f, v), NEW p \in Seq(STRING)
  PROVE  Store!Off(f, p) = {NodeAt(v, q) : q \in {q \in Leads(v) : ~IsBelow(p, q)}}
<1>1. ASSUME NEW q \in Leads(v) PROVE Store!Below(p, NodeAt(v, q).ptr) <=> IsBelow(p, q)
  <2>1. q \in Seq(STRING) /\ NodeAt(v, q).ptr = q
    BY NodeAtFields DEF Leads
  <2> QED
    BY <2>1, BelowIs, Zenon
<1>2. Store!Off(f, p) = {n \in f : ~Store!Below(p, n.ptr)}
  BY Zenon DEF Store!Off
<1>3. ASSUME NEW n \in Store!Off(f, p)
      PROVE  \E q \in {q \in Leads(v) : ~IsBelow(p, q)} : n = NodeAt(v, q)
  <2>1. n \in f /\ ~Store!Below(p, n.ptr)
    BY <1>2, <1>3, Zenon
  <2>2. PICK q \in Leads(v) : n = NodeAt(v, q)
    BY <2>1, Zenon DEF Tells
  <2> QED
    BY <2>1, <2>2, <1>1, Zenon
<1>4. ASSUME NEW q \in {q \in Leads(v) : ~IsBelow(p, q)} PROVE NodeAt(v, q) \in Store!Off(f, p)
  <2>1. NodeAt(v, q) \in f
    BY <1>4, Zenon DEF Tells
  <2> QED
    BY <2>1, <1>1, <1>2, <1>4, Zenon
<1> QED
  BY <1>3, <1>4, Zenon

LEMMA SplitBelow ==
  ASSUME NEW T \in Seq(STRING), NEW q \in Seq(STRING), IsBelow(T, q)
  PROVE  \E r \in Seq(STRING) : q = T \o r
<1>1. PICK m, n \in Nat : m = Len(T) /\ n = Len(q) /\ m =< n
  BY DEF IsBelow
<1>2. PICK r : r = SubSeq(q, m + 1, n)
  OBVIOUS
<1>3. r \in Seq(STRING) /\ Len(r) = n - m /\ \A k \in 1 .. n - m : r[k] = q[m + k]
  BY <1>1, <1>2
<1>4. T \o r \in Seq(STRING) /\ Len(T \o r) = n
  <2>1. T \o r \in Seq(STRING) /\ Len(T \o r) = Len(T) + Len(r)
    BY <1>3
  <2>2. Len(T) + Len(r) = n
    BY <1>1, <1>3
  <2> QED
    BY <2>1, <2>2, Zenon
<1>5. ASSUME NEW k \in 1 .. n PROVE (T \o r)[k] = q[k]
  <2>1. CASE k =< m
    <3>1. k \in 1 .. m
      BY <2>1
    <3>2. (T \o r)[k] = T[k]
      BY <3>1, <1>1, <1>3
    <3>3. q[k] = T[k]
      BY <3>1, <1>1 DEF IsBelow
    <3> QED
      BY <3>2, <3>3
  <2>2. CASE ~(k =< m)
    <3>1. PICK l \in 1 .. n - m : k = m + l /\ k - m = l
      <4>1. k - m \in 1 .. n - m /\ k = m + (k - m)
        BY <2>2, <1>1
      <4> QED
        BY <4>1
    <3>2. (T \o r)[k] = r[l]
      BY <3>1, <2>2, <1>1, <1>3, <1>4
    <3> QED
      BY <3>1, <3>2, <1>3
  <2> QED
    BY <2>1, <2>2
<1>6. q = T \o r
  BY <1>1, <1>4, <1>5, SeqEqual
<1> QED
  BY <1>3, <1>6

LEMMA JoinBelow ==
  ASSUME NEW T \in Seq(STRING), NEW r \in Seq(STRING)
  PROVE  T \o r \in Seq(STRING) /\ IsBelow(T, T \o r)
<1>1. PICK m, n \in Nat : m = Len(T) /\ n = Len(r)
  OBVIOUS
<1>2. T \o r \in Seq(STRING) /\ Len(T \o r) = m + n /\ \A j \in 1 .. m : (T \o r)[j] = T[j]
  BY <1>1
<1> QED
  BY <1>1, <1>2 DEF IsBelow

\* A pointer and a token more.
LEMMA AppendExtends ==
  ASSUME NEW a \in Seq(STRING), NEW s \in STRING
  PROVE  /\ Extends(Append(a, s), a, s) /\ Append(a, s) \in Seq(STRING)
         /\ Seqs!Front(Append(a, s)) = a /\ Seqs!Last(Append(a, s)) = s
<1>1. PICK n \in Nat : n = Len(a)
  OBVIOUS
<1>2. PICK q : q = Append(a, s)
  OBVIOUS
<1>3. q \in Seq(STRING) /\ Len(q) = n + 1 /\ q[n + 1] = s /\ \A j \in 1 .. n : q[j] = a[j]
  <2>1. Append(a, s) \in Seq(STRING) /\ IsAppended(Append(a, s), a, s)
    BY AppendedWithin
  <2> QED
    BY <2>1, <1>1, <1>2, Zenon DEF IsAppended
<1>4. SubSeq(q, 1, n) = a
  <2>1. SubSeq(q, 1, n) \in Seq(STRING) /\ Len(SubSeq(q, 1, n)) = n
        /\ \A j \in 1 .. n : SubSeq(q, 1, n)[j] = q[j]
    BY <1>3
  <2>2. \A j \in 1 .. n : SubSeq(q, 1, n)[j] = a[j]
    BY <2>1, <1>3
  <2> QED
    BY <1>1, <2>1, <2>2, SeqEqual
<1>5. Seqs!Front(q) = a
  <2>1. Len(q) - 1 = n
    BY <1>3
  <2> QED
    BY <2>1, <1>4, Zenon DEF Seqs!Front
<1>6. Seqs!Last(q) = s
  BY <1>3 DEF Seqs!Last
<1> QED
  BY <1>1, <1>2, <1>3, <1>5, <1>6 DEF Extends

(* The elements of an array are the nodes one token below it.                *)
LEMMA ArrayTokens ==
  ASSUME NEW x, Sound(x), x.kind = "array", NEW s
  PROVE  s \in KeysOf(x) <=> \E k \in 1 .. Len(x.members) : s = ToString(k - 1)
<1>1. IsNode(x) /\ IsSized(x)
  BY Zenon DEF Sound
<1>2. DOMAIN x.members = 1 .. Len(x.members)
  BY <1>1, NodeShape DEF IsShaped
<1>3. ASSUME NEW k \in 1 .. Len(x.members) PROVE KeyOf(x.members[k]) = ToString(k - 1)
  BY <1>1, ElementKey, Zenon
<1> QED
  BY <1>2, <1>3 DEF KeysOf

OneBelow(f, p) == {n \in f : Len(n.ptr) = Len(p) + 1 /\ Store!Below(p, n.ptr)}

LEMMA OneBelowIs ==
  ASSUME NEW v, NEW d \in Nat, NEW n \in 0 .. MaxCalls, Fits(v, d, Room(n)), NEW f, Tells(f, v),
         NEW p \in Leads(v)
  PROVE  OneBelow(f, p) = {NodeAt(v, Append(p, s)) : s \in KeysOf(At(v, p))}
<1>1. p \in Seq(STRING) /\ Len(p) \in Nat /\ Sound(At(v, p))
  BY LeadsInside DEF Leads
<1>2. ASSUME NEW m \in OneBelow(f, p)
      PROVE  \E s \in KeysOf(At(v, p)) : m = NodeAt(v, Append(p, s))
  <2>1. m \in f /\ Len(m.ptr) = Len(p) + 1 /\ Store!Below(p, m.ptr)
    BY <1>2 DEF OneBelow
  <2>2. PICK q \in Leads(v) : m = NodeAt(v, q)
    BY <2>1, Zenon DEF Tells
  <2>3. m.ptr = q
    BY <2>2, NodeAtFields, Zenon
  <2>4. q \in Seq(STRING) /\ Len(q) = Len(p) + 1 /\ IsBelow(p, q) /\ At(v, q) # Nowhere
    BY <2>1, <2>2, <2>3, <1>1, BelowIs DEF Leads
  <2>5. q # << >>
    BY <2>4, <1>1
  <2>6. Steps(v, q)
    BY <2>4, <2>5, LastStep
  <2>7. PICK s \in STRING : s = Seqs!Last(q)
    BY <2>6 DEF Steps
  <2>8. Seqs!Front(q) = p
    <3>1. PICK a : a = Seqs!Front(q)
      OBVIOUS
    <3>2. a \in Seq(STRING) /\ Len(a) = Len(q) - 1 /\ \A j \in 1 .. Len(q) - 1 : a[j] = q[j]
      BY <2>4, <2>5, <3>1, FrontOfPath
    <3>3. Len(a) = Len(p)
      BY <2>4, <3>2, <1>1
    <3>4. \A j \in 1 .. Len(p) : a[j] = p[j]
      BY <2>4, <3>2, <1>1 DEF IsBelow
    <3> QED
      BY <3>1, <3>2, <3>3, <3>4, <1>1, SeqEqual
  <2>9. q = Append(p, s) /\ At(v, q) = Child(At(v, p), s)
    BY <2>6, <2>7, <2>8, Zenon DEF Steps
  <2>10. s \in KeysOf(At(v, p))
    BY <2>4, <2>9, <1>1, KeyedChild, Zenon
  <2> QED
    BY <2>2, <2>9, <2>10, Zenon
<1>3. ASSUME NEW s \in KeysOf(At(v, p)) PROVE NodeAt(v, Append(p, s)) \in OneBelow(f, p)
  <2>1. PICK q : q = Append(p, s)
    OBVIOUS
  <2>2. q \in Leads(v) /\ Len(q) = Len(p) + 1
    BY <2>1, SpotGrows, Zenon
  <2>3. NodeAt(v, q) \in f /\ NodeAt(v, q).ptr = q
    BY <2>2, NodeAtFields, Zenon DEF Tells
  <2>4. s \in STRING
    BY <1>1 DEF Sound
  <2>5. q \in Seq(STRING) /\ IsBelow(p, q)
    <3>1. Extends(q, p, s) /\ q \in Seq(STRING)
      BY <1>1, <2>1, <2>4, AppendExtends, Zenon
    <3> QED
      BY <3>1, <1>1 DEF Extends, IsBelow
  <2>6. Store!Below(p, q)
    BY <2>5, <1>1, BelowIs
  <2> QED
    BY <2>1, <2>2, <2>3, <2>6, Zenon DEF OneBelow
<1> QED
  BY <1>2, <1>3, Zenon

LEMMA SizeIs ==
  ASSUME NEW v, NEW d \in Nat, NEW n \in 0 .. MaxCalls, Fits(v, d, Room(n)), NEW f, Tells(f, v),
         NEW p \in Leads(v), At(v, p).kind = "array"
  PROVE  Store!Size(f, p) = Len(At(v, p).members)
<1>1. PICK x : x = At(v, p)
  OBVIOUS
<1>2. Sound(x) /\ x.kind = "array" /\ p \in Seq(STRING)
  BY <1>1, LeadsInside DEF Leads
<1>3. PICK N \in Nat : N = Len(x.members)
  BY <1>2, NodeShape DEF Sound, IsShaped
<1>4. OneBelow(f, p) = {NodeAt(v, Append(p, s)) : s \in KeysOf(x)}
  BY <1>1, OneBelowIs
<1> DEFINE g == [k \in 1 .. N |-> NodeAt(v, Append(p, ToString(k - 1)))]
<1>5. ASSUME NEW k \in 1 .. N
      PROVE  /\ IsIndexOf(ToString(k - 1), k - 1) /\ ToString(k - 1) \in STRING
             /\ ToString(k - 1) \in KeysOf(x)
  BY <1>2, <1>3, ElementKey, ArrayTokens, Zenon DEF Sound
<1>6. ASSUME NEW k \in 1 .. N PROVE g[k] \in OneBelow(f, p)
  <2>1. g[k] = NodeAt(v, Append(p, ToString(k - 1)))
    OBVIOUS
  <2> QED
    BY <2>1, <1>4, <1>5, Zenon
<1>7. ASSUME NEW m \in OneBelow(f, p) PROVE \E k \in 1 .. N : g[k] = m
  <2>1. PICK s \in KeysOf(x) : m = NodeAt(v, Append(p, s))
    BY <1>4, Zenon
  <2>2. PICK k \in 1 .. N : s = ToString(k - 1)
    BY <2>1, <1>2, <1>3, ArrayTokens, Zenon
  <2>3. g[k] = NodeAt(v, Append(p, ToString(k - 1)))
    OBVIOUS
  <2> QED
    BY <2>1, <2>2, <2>3, Zenon
<1>8. ASSUME NEW j \in 1 .. N, NEW k \in 1 .. N, g[j] = g[k] PROVE j = k
  <2>1. PICK s, t : s = ToString(j - 1) /\ t = ToString(k - 1)
    OBVIOUS
  <2>2. g[j].ptr = Append(p, s) /\ g[k].ptr = Append(p, t)
    BY <2>1, NodeAtFields, ZenonT(60)
  <2>3. s \in STRING /\ t \in STRING
    BY <1>5, <2>1
  <2>4. Seqs!Last(Append(p, s)) = s /\ Seqs!Last(Append(p, t)) = t
    BY <2>3, <1>2, AppendExtends
  <2>5. s = t
    BY <2>2, <2>4, <1>8, Zenon
  <2>6. ParseIndex(s) = j - 1 /\ ParseIndex(t) = k - 1
    BY <1>5, <2>1, Zenon DEF IsIndexOf
  <2>7. j - 1 = k - 1
    BY <2>5, <2>6, Zenon
  <2> QED
    BY <2>7
<1>9. ExistsBijection(1 .. N, OneBelow(f, p))
  <2> HIDE DEF g
  <2>1. g \in [1 .. N -> OneBelow(f, p)]
    <3>1. g = [k \in 1 .. N |-> g[k]]
      BY DEF g
    <3> QED
      BY <3>1, <1>6
  <2>2. g \in Bijection(1 .. N, OneBelow(f, p))
    BY <2>1, <1>7, <1>8 DEF Bijection, Injection, Surjection, IsInjective
  <2> QED
    BY <2>2 DEF ExistsBijection
<1>10. IsFiniteSet(1 .. N) /\ Cardinality(1 .. N) = N
  BY FS_Interval
<1>11. Cardinality(OneBelow(f, p)) = N
  BY <1>9, <1>10, FS_Bijection
<1>12. Store!Size(f, p) = Cardinality(OneBelow(f, p))
  <2>1. \A S : Store!Cardinality(S) = Cardinality(S)
    BY Zenon DEF Store!Cardinality, Cardinality
  <2> QED
    BY <2>1, Zenon DEF Store!Size, OneBelow
<1> QED
  BY <1>1, <1>3, <1>11, <1>12, Zenon

-----------------------------------------------------------------------------
(* A write that leaves what is off a pointer alone, and puts a document      *)
(* there, is the store's.                                                    *)
Grafts(new, v, T, text) ==
  /\ \A q \in Seq(STRING) : ~IsBelow(T, q) => Alike(At(new, q), At(v, q))
  /\ \A r \in Seq(STRING) : At(new, T \o r) = At(text, r)

\* The same node, told of at another pointer.
LEMMA NodeElsewhere ==
  ASSUME NEW v, NEW p, NEW u, NEW q, Alike(At(u, q), At(v, p))
  PROVE  [NodeAt(v, p) EXCEPT !.ptr = q] = NodeAt(u, q)
BY DEF Alike, NodeAt

LEMMA SameNode ==
  ASSUME NEW v, NEW u, NEW q, Alike(At(u, q), At(v, q))
  PROVE  NodeAt(v, q) = NodeAt(u, q) /\ (q \in Leads(u) <=> q \in Leads(v))
BY DEF Alike, NodeAt, Leads

LEMMA GraftIs ==
  ASSUME NEW v, NEW text, NEW new, NEW T \in Seq(STRING), Grafts(new, v, T, text),
         NEW f, Tells(f, v), NEW val, Tells(val, text)
  PROVE  Tells(Store!Grafted(f, T, val), new)
<1>1. PICK g : g = Store!Grafted(f, T, val)
  OBVIOUS
<1>2. g = {NodeAt(v, q) : q \in {q \in Leads(v) : ~IsBelow(T, q)}}
            \cup {[n EXCEPT !.ptr = T \o @] : n \in val}
  <2>1. g = Store!Off(f, T) \cup {[n EXCEPT !.ptr = T \o @] : n \in val}
    BY <1>1, Zenon DEF Store!Grafted
  <2> QED
    BY <2>1, OffIs, Zenon
<1>3. ASSUME NEW q \in Seq(STRING), ~IsBelow(T, q)
      PROVE  NodeAt(v, q) = NodeAt(new, q) /\ (q \in Leads(new) <=> q \in Leads(v))
  <2>1. Alike(At(new, q), At(v, q))
    BY <1>3, Zenon DEF Grafts
  <2> QED
    BY <2>1, SameNode
<1>4. ASSUME NEW r \in Seq(STRING)
      PROVE  /\ [NodeAt(text, r) EXCEPT !.ptr = T \o @] = NodeAt(new, T \o r)
             /\ T \o r \in Leads(new) <=> r \in Leads(text)
  <2>1. PICK q : q = T \o r
    OBVIOUS
  <2>2. q \in Seq(STRING) /\ At(new, q) = At(text, r)
    BY <2>1, JoinBelow DEF Grafts
  <2>3. Alike(At(new, q), At(text, r))
    BY <2>2 DEF Alike
  <2>4. [NodeAt(text, r) EXCEPT !.ptr = q] = NodeAt(new, q)
    BY <2>3, NodeElsewhere
  <2>5. [NodeAt(text, r) EXCEPT !.ptr = T \o @] = [NodeAt(text, r) EXCEPT !.ptr = q]
    <3>1. NodeAt(text, r).ptr = r
      BY NodeAtFields
    <3> QED
      BY <2>1, <3>1, Zenon
  <2>6. q \in Leads(new) <=> r \in Leads(text)
    BY <2>2 DEF Leads
  <2> QED
    BY <2>1, <2>4, <2>5, <2>6, Zenon
<1>5. ASSUME NEW m \in g PROVE \E q \in Leads(new) : m = NodeAt(new, q)
  <2>1. CASE m \in {NodeAt(v, q) : q \in {q \in Leads(v) : ~IsBelow(T, q)}}
    <3>1. PICK q \in Leads(v) : ~IsBelow(T, q) /\ m = NodeAt(v, q)
      BY <2>1
    <3>2. q \in Seq(STRING)
      BY <3>1 DEF Leads
    <3> QED
      BY <3>1, <3>2, <1>3, Zenon
  <2>2. CASE m \in {[n EXCEPT !.ptr = T \o @] : n \in val}
    <3>1. PICK n \in val : m = [n EXCEPT !.ptr = T \o @]
      BY <2>2
    <3>2. PICK r \in Leads(text) : n = NodeAt(text, r)
      BY <3>1, Zenon DEF Tells
    <3>3. r \in Seq(STRING)
      BY <3>2 DEF Leads
    <3>4. /\ [NodeAt(text, r) EXCEPT !.ptr = T \o @] = NodeAt(new, T \o r)
          /\ T \o r \in Leads(new)
      BY <3>2, <3>3, <1>4, Zenon
    <3>5. m = NodeAt(new, T \o r)
      BY <3>1, <3>2, <3>4, Zenon
    <3> QED
      BY <3>4, <3>5, Zenon
  <2> QED
    BY <1>2, <2>1, <2>2, Zenon
<1>6. ASSUME NEW q \in Leads(new) PROVE NodeAt(new, q) \in g
  <2>1. q \in Seq(STRING)
    BY DEF Leads
  <2>2. CASE ~IsBelow(T, q)
    <3>1. NodeAt(v, q) = NodeAt(new, q) /\ q \in Leads(v)
      BY <2>1, <2>2, <1>3, Zenon
    <3>2. NodeAt(v, q) \in g
      BY <2>2, <3>1, <1>2, Zenon
    <3> QED
      BY <3>1, <3>2, Zenon
  <2>3. CASE IsBelow(T, q)
    <3>1. PICK r \in Seq(STRING) : q = T \o r
      BY <2>1, <2>3, SplitBelow
    <3>2. /\ [NodeAt(text, r) EXCEPT !.ptr = T \o @] = NodeAt(new, T \o r)
          /\ T \o r \in Leads(new) <=> r \in Leads(text)
      BY <1>4, Zenon
    <3>3. r \in Leads(text)
      BY <3>1, <3>2, Zenon
    <3>4. NodeAt(text, r) \in val
      BY <3>3, Zenon DEF Tells
    <3>5. [NodeAt(text, r) EXCEPT !.ptr = T \o @] \in g
      BY <3>4, <1>2, Zenon
    <3> QED
      BY <3>1, <3>2, <3>5, Zenon
  <2> QED
    BY <2>2, <2>3
<1>7. g = {NodeAt(new, q) : q \in Leads(new)}
  BY <1>5, <1>6, Zenon
<1> QED
  BY <1>1, <1>7, Zenon DEF Tells

\* A document in the place of another.
LEMMA GraftsAtRoot ==
  ASSUME NEW v, NEW text
  PROVE  Grafts(text, v, << >>, text)
<1>1. ASSUME NEW q \in Seq(STRING) PROVE IsBelow(<< >>, q)
  <2>1. Len(<< >>) = 0 /\ Len(q) \in Nat
    OBVIOUS
  <2> QED
    BY <2>1 DEF IsBelow
<1>2. ASSUME NEW r \in Seq(STRING) PROVE << >> \o r = r
  OBVIOUS
<1> QED
  BY <1>1, <1>2, Zenon DEF Grafts

LEMMA GraftsBelow ==
  ASSUME NEW v, NEW a \in Seq(STRING), OnPath(v, a), NEW s \in STRING, NEW node, NEW text,
         SameBut(node, At(v, a), s), Child(node, s) = text, node # Nowhere, At(v, a) # Nowhere
  PROVE  Grafts(Replaced(v, a, node), v, Append(a, s), text)
<1>1. PICK T : T = Append(a, s)
  OBVIOUS
<1>2. T \in Seq(STRING) /\ Extends(T, a, s)
  BY <1>1, AppendExtends, Zenon
<1>3. ASSUME NEW q \in Seq(STRING), ~IsBelow(T, q)
      PROVE  Alike(At(Replaced(v, a, node), q), At(v, q))
  <2>1. Len(q) \in Nat
    OBVIOUS
  <2> QED
    BY <2>1, <1>2, <1>3, OffTarget
<1>4. ASSUME NEW r \in Seq(STRING) PROVE At(Replaced(v, a, node), T \o r) = At(text, r)
  <2>1. Lands(Replaced(v, a, node), T \o r, Child(node, s), r)
    BY <1>2, OnTarget, Zenon
  <2> QED
    BY <2>1, Zenon DEF Lands
<1> QED
  BY <1>1, <1>3, <1>4, Zenon DEF Grafts

LEMMA SameToString == ASSUME NEW n PROVE Store!ToString(n) = ToString(n)
OBVIOUS

\* What a pointer of the runs is made of.
LEMMA PathParts ==
  ASSUME NEW p \in Paths, p # << >>, p # NotAPointer
  PROVE  /\ p \in Seq(STRING) /\ Seqs!Front(p) \in Seq(STRING) /\ Seqs!Last(p) \in STRING
         /\ p = Append(Seqs!Front(p), Seqs!Last(p)) /\ Len(Seqs!Front(p)) + 1 = Len(p)
         /\ Len(p) =< MaxTokens /\ Seqs!Front(p) # NotAPointer
         /\ \A val : KeyOf(Member(EncodeKey(Seqs!Last(p)), val)) = Seqs!Last(p)
<1>1. p \in Seq(STRING) /\ NotAPointer \notin Seq(STRING)
  BY PathsAssumption
<1>2. Steps(Nowhere, p)
  BY <1>1, LastStep
<1>3. Len(p) =< MaxTokens
  BY SizesAssumption
<1>4. PICK k \in 1 .. Len(p) : k = Len(p)
  BY <1>1, FrontOfPath
<1>5. KeyOf(Member(EncodeKey(p[k]), Nowhere)) = p[k]
  BY PathsAssumption
<1>6. Seqs!Last(p) = p[k]
  BY <1>4, Zenon DEF Seqs!Last
<1>7. ASSUME NEW val PROVE KeyOf(Member(EncodeKey(Seqs!Last(p)), val)) = Seqs!Last(p)
  <2>1. \A key : Member(key, val).key = key /\ Member(key, Nowhere).key = key
    BY MemberFields
  <2>2. KeyOf(Member(EncodeKey(p[k]), val)) = KeyOf(Member(EncodeKey(p[k]), Nowhere))
    BY <2>1, Zenon DEF KeyOf
  <2> QED
    BY <2>2, <1>5, <1>6
<1>8. /\ Seqs!Front(p) \in Seq(STRING) /\ Seqs!Last(p) \in STRING
      /\ p = Append(Seqs!Front(p), Seqs!Last(p)) /\ Len(Seqs!Front(p)) + 1 = Len(p)
  BY <1>2, Zenon DEF Steps
<1> QED
  BY <1>1, <1>3, <1>7, <1>8

\* What a node takes at a token: any key, an index of the array or the next one.
Takes(x, token) ==
  \/ x.kind = "object"
  \/ x.kind = "array" /\ (token = "-" \/ \E i \in 0 .. Len(x.members) : token = ToString(i))

LEMMA PutSays ==
  ASSUME NEW x, Sound(x), NEW token \in STRING, NEW val,
         KeyOf(Member(EncodeKey(token), val)) = token
  PROVE  /\ Put(x, token, val) # Nowhere <=> Takes(x, token)
         /\ Takes(x, token) =>
              Taken(Put(x, token, val), x, PutAt(x, token), val) /\ PutAt(x, token) \in STRING
<1>1. IsNode(x) /\ IsSized(x)
  BY Zenon DEF Sound
<1>2. x.kind \in {"scalar", "array", "object"}
  BY <1>1, NodeShape
<1>3. PICK u : u = Put(x, token, val)
  OBVIOUS
<1>4. CASE x.kind = "scalar"
  <2>1. u = Nowhere
    BY <1>3, <1>4 DEF Put
  <2>2. ~Takes(x, token)
    BY <1>4 DEF Takes
  <2> QED
    BY <1>3, <2>1, <2>2
<1>5. CASE x.kind = "object"
  <2>1. Taken(u, x, token, val) /\ u # Nowhere
    BY <1>1, <1>3, <1>5, PutInObject
  <2>2. Takes(x, token)
    BY <1>5 DEF Takes
  <2>3. PutAt(x, token) = token
    BY <1>5 DEF PutAt
  <2> QED
    BY <1>3, <2>1, <2>2, <2>3, Zenon
<1>6. CASE x.kind = "array"
  <2>1. PICK N \in 0 .. 2 ^ SizeBits - 1 : N = Len(x.members)
    BY <1>1, <1>6 DEF IsSized
  <2>2. ASSUME NEW i \in 0 .. N PROVE IsIndexOf(ToString(i), i) /\ ToString(i) \in STRING
    <3>1. PICK P \in Nat : P = 2 ^ SizeBits
      BY Bounds
    <3>2. i \in 0 .. 2 ^ SizeBits - 1
      BY <2>1, <3>1
    <3> QED
      BY <3>2, SizesAreIndices
  <2>3. CASE ElementRefused(u, x, token)
    <3>1. u = Nowhere /\ token # "-" /\ \A idx \in 0 .. N : ~IsIndexOf(token, idx)
      BY <2>1, <2>3, Zenon DEF ElementRefused
    <3>2. ~Takes(x, token)
      BY <1>6, <2>1, <2>2, <3>1 DEF Takes
    <3> QED
      BY <1>3, <3>1, <3>2
  <2>4. CASE ElementTaken(u, x, token, val)
    <3>1. Taken(u, x, PutAt(x, token), val) /\ u # Nowhere
      BY <1>1, <1>6, <2>4, PutInArray
    <3>2. PICK idx \in 0 .. N : IsIndexOf(PutAt(x, token), idx)
      BY <2>1, <2>4, Zenon DEF ElementTaken
    <3>3. PutAt(x, token) = ToString(idx)
      BY <3>2, Zenon DEF IsIndexOf
    <3>4. PutAt(x, token) \in STRING
      BY <2>2, <3>3
    <3>5. token # "-" => token = ToString(idx)
      BY <3>3, Zenon DEF PutAt
    <3>6. Takes(x, token)
      BY <1>6, <2>1, <3>2, <3>5, Zenon DEF Takes
    <3> QED
      BY <1>3, <3>1, <3>4, <3>6, Zenon
  <2> QED
    BY <1>1, <1>3, <1>6, <2>3, <2>4, PutElementIs, Zenon
<1> QED
  BY <1>2, <1>4, <1>5, <1>6

LEMMA SettableIs ==
  ASSUME NEW v, NEW d \in Nat, NEW n \in 0 .. MaxCalls, Fits(v, d, Room(n)), NEW f, Tells(f, v),
         NEW p \in Paths, p # << >>, p # NotAPointer
  PROVE  /\ Store!Settable(f, p) <=>
              Seqs!Front(p) \in Leads(v) /\ Takes(At(v, Seqs!Front(p)), Seqs!Last(p))
         /\ Store!Settable(f, p) =>
              Store!Target(f, p) = Append(Seqs!Front(p), PutAt(At(v, Seqs!Front(p)), Seqs!Last(p)))
<1>1. PICK a, s : a = Seqs!Front(p) /\ s = Seqs!Last(p)
  OBVIOUS
<1>2. PICK x : x = At(v, a)
  OBVIOUS
<1>3. Store!Front(p) = a /\ Store!Last(p) = s
  BY <1>1, EndsAre, Zenon
<1>4. Store!IsA(f, a, "object") <=> a \in Leads(v) /\ x.kind = "object"
  BY <1>2, KindIs, Zenon
<1>5. Store!IsA(f, a, "array") <=> a \in Leads(v) /\ x.kind = "array"
  BY <1>2, KindIs, Zenon
<1>6. a \in Leads(v) /\ x.kind = "array" => Store!Size(f, a) = Len(x.members)
  BY <1>2, SizeIs, Zenon
<1>7. \A bound : Store!IsIndex(s, bound) <=> \E i \in 0 .. bound : s = ToString(i)
  BY SameToString, Zenon DEF Store!IsIndex
<1>8. Store!Settable(f, p) <=>
        \/ Store!IsA(f, a, "object")
        \/ Store!IsA(f, a, "array") /\ (s = "-" \/ Store!IsIndex(s, Store!Size(f, a)))
  <2>1. p \notin {<< >>, NotAPointer}
    OBVIOUS
  <2> QED
    BY <1>3, <2>1, Zenon DEF Store!Settable
<1>9. Store!Settable(f, p) <=> a \in Leads(v) /\ Takes(x, s)
  BY <1>4, <1>5, <1>6, <1>7, <1>8, Zenon DEF Takes
<1>10. ASSUME Store!Settable(f, p) PROVE Store!Target(f, p) = Append(a, PutAt(x, s))
  <2>1. a \in Leads(v) /\ p = Append(a, s)
    BY <1>1, <1>9, <1>10, PathParts
  <2>2. Store!Target(f, p) = IF x.kind = "array" /\ s = "-"
                             THEN Append(a, ToString(Store!Size(f, a))) ELSE p
    BY <1>3, <1>5, <2>1, SameToString, Zenon DEF Store!Target
  <2>3. CASE x.kind = "array" /\ s = "-"
    BY <1>6, <2>1, <2>2, <2>3, Zenon DEF PutAt
  <2>4. CASE ~(x.kind = "array" /\ s = "-")
    BY <2>1, <2>2, <2>4, Zenon DEF PutAt
  <2> QED
    BY <2>3, <2>4
<1> QED
  BY <1>1, <1>2, <1>9, <1>10, Zenon

-----------------------------------------------------------------------------
(* set(), as the store has it.                                               *)
Shown(text) == IF ToyAccepts(text) THEN NodesOf(text) ELSE {}

LEMMA TextTells ==
  ASSUME NEW text \in Texts, ToyAccepts(text)
  PROVE  /\ Fits(text, Depth, Room(0)) /\ Tells(Shown(text), text) /\ Shown(text) # {}
         /\ NodesOf(text) = Shown(text) /\ text # Nowhere
<1>1. Fits(text, Depth, Room(0))
  <2>1. PICK d, e \in Nat : d = MaxDepth + 1 /\ e = Depth /\ d =< e
    BY Bounds DEF Depth
  <2>2. PICK r \in Int : r = Room(0) /\ r =< r
    BY Bounds
  <2>3. Fits(text, d, r)
    BY <2>1, <2>2, TextFits, Zenon
  <2>4. Fits(text, e, r)
    BY <2>1, <2>2, <2>3, FitsMore
  <2> QED
    BY <2>1, <2>2, <2>4, Zenon
<1>2. 0 \in 0 .. MaxCalls
  BY Bounds
<1>3. NodesOf(text) = {NodeAt(text, p) : p \in Leads(text)}
  BY <1>1, <1>2, NodesAre
<1>4. text # Nowhere
  BY <1>1, RoomyInside, NodeIsSomething DEF Roomy
<1>5. << >> \in Leads(text)
  <2>1. At(text, << >>) # Nowhere /\ << >> \in Seq(STRING)
    BY <1>4, AtRoot
  <2> QED
    BY <2>1 DEF Leads
<1>6. Shown(text) = NodesOf(text)
  BY DEF Shown
<1>7. NodeAt(text, << >>) \in NodesOf(text)
  BY <1>3, <1>5, Zenon
<1> QED
  BY <1>1, <1>3, <1>4, <1>6, <1>7, Zenon DEF Tells

SetsAs(new, v, p, text, n) ==
  /\ new # Nowhere <=> Shown(text) # {} /\ Store!Settable(NodesOf(v), p)
  /\ new # Nowhere =>
       /\ Fits(new, Depth, Room(n + 1))
       /\ NodesOf(new) = Store!Grafted(NodesOf(v), Store!Target(NodesOf(v), p), Shown(text))

\* Below the root.
LEMMA WritesBelow ==
  ASSUME NEW n \in 0 .. MaxCalls, n < MaxCalls, NEW v, Fits(v, Depth, Room(n)),
         NEW p \in Paths, p # << >>, p # NotAPointer, NEW text \in Texts, ToyAccepts(text)
  PROVE  SetsAs(Written(v, p, text), v, p, text, n)
<1>1. PICK a, s : a = Seqs!Front(p) /\ s = Seqs!Last(p)
  OBVIOUS
<1>2. PICK x, f, new : x = At(v, a) /\ f = NodesOf(v) /\ new = Written(v, p, text)
  OBVIOUS
<1>3. /\ a \in Seq(STRING) /\ s \in STRING /\ Len(a) + 1 =< MaxTokens /\ a # NotAPointer
      /\ KeyOf(Member(EncodeKey(s), text)) = s
  BY <1>1, PathParts
<1>4. Tells(f, v) /\ v # Nowhere
  BY <1>2, NodesAre, RoomyInside, NodeIsSomething DEF Tells, Roomy
<1>5. Depth \in Nat /\ n + 1 \in 0 .. MaxCalls /\ Room(n) \in Int /\ Room(n + 1) = Room(n) + 1
  BY Bounds
<1>6. /\ Store!Settable(f, p) <=> a \in Leads(v) /\ Takes(x, s)
      /\ Store!Settable(f, p) => Store!Target(f, p) = Append(a, PutAt(x, s))
  BY <1>1, <1>2, <1>4, <1>5, SettableIs, Zenon
<1>7. new = InParent(v, p, Put(x, s, text))
  <2>1. ToyResolve(v, a) = x
    BY <1>2, <1>3, Zenon DEF ToyResolve, At
  <2> QED
    BY <1>1, <1>2, <1>4, <2>1, Zenon DEF Written
<1>8. PICK node : node = Put(x, s, text)
  OBVIOUS
<1>9. node # Nowhere => new = Replaced(v, a, node)
  BY <1>1, <1>7, <1>8, Zenon DEF InParent
<1>10. node = Nowhere => new = Nowhere
  BY <1>7, <1>8, Zenon DEF InParent
<1>11. Fits(text, Depth, Room(0)) /\ Tells(Shown(text), text) /\ Shown(text) # {}
  BY TextTells
<1>12. CASE x = Nowhere
  <2>1. Nowhere.kind # "object" /\ Nowhere.kind # "array"
    BY NoKind
  <2>2. node = Nowhere
    BY <2>1, <1>8, <1>12 DEF Put
  <2>3. a \notin Leads(v)
    BY <1>2, <1>12 DEF Leads
  <2> QED
    BY <1>2, <1>6, <1>10, <2>2, <2>3, Zenon DEF SetsAs
<1>13. CASE x # Nowhere
  <2>1. a \in Leads(v)
    BY <1>2, <1>3, <1>13 DEF Leads
  <2>2. Sound(x)
    BY <1>2, <1>5, <2>1, LeadsInside
  <2>3. /\ node # Nowhere <=> Takes(x, s)
        /\ Takes(x, s) => Taken(node, x, PutAt(x, s), text) /\ PutAt(x, s) \in STRING
    BY <1>3, <1>8, <2>2, PutSays, Zenon
  <2>4. CASE node = Nowhere
    BY <1>2, <1>6, <1>10, <2>3, <2>4, Zenon DEF SetsAs
  <2>5. CASE node # Nowhere
    <3>1. PICK t : t = PutAt(x, s)
      OBVIOUS
    <3>2. Taken(node, x, t, text) /\ t \in STRING
      BY <2>3, <2>5, <3>1, Zenon
    <3>3. OnPath(v, a) /\ At(v, a) # Nowhere /\ Len(a) \in Nat
      <4>1. Len(a) \in Nat /\ Document(v) /\ Walk(v, a)[Len(a)] # Nowhere
        BY <1>2, <1>3, <1>13, RoomyInside DEF At
      <4> QED
        BY <4>1, WalkIsPath DEF At
    <3>4. FitsAt(v, a, Len(a), Depth, Room(n))
      <4>1. Len(a) \in 0 .. Len(a)
        BY <3>3
      <4> QED
        BY <4>1, <3>3, <1>5, WalkFits
    <3>5. PICK e \in Nat : Depth - Len(a) = e + 1 /\ MaxDepth + 1 =< e
      <4>1. PICK D, M, T, l \in Nat : /\ D = Depth /\ M = MaxDepth /\ T = MaxTokens /\ l = Len(a)
                                      /\ D = T + M + 1 /\ l + 1 =< T
        BY <1>3, <3>3, Bounds DEF Depth
      <4>2. D - l - 1 \in Nat /\ D - l = D - l - 1 + 1 /\ M + 1 =< D - l - 1
        BY <4>1
      <4> QED
        BY <4>1, <4>2
    <3>6. Fits(x, e + 1, Room(n))
      BY <3>4, <3>5, <1>2, Zenon DEF FitsAt, At
    <3>7. Fits(text, e, Room(n) + 1)
      <4>1. PICK d \in Nat : d = MaxDepth + 1 /\ d =< e
        BY <3>5, Bounds
      <4>2. PICK b, c \in Int : b = Room(0) /\ c = Room(n) + 1 /\ b =< c
        <5>1. PICK k \in Int : k = 2 ^ SizeBits - 1 - MaxCalls
          BY Bounds, SMTT(30)
        <5>2. Room(0) = k + 0 /\ Room(n) = k + n
          BY <5>1, Zenon DEF Room
        <5>3. PICK b, c \in Int : b = k + 0 /\ c = k + n + 1 /\ b =< c
          BY <5>1
        <5> QED
          BY <5>2, <5>3, Zenon
      <4>3. Fits(text, d, b)
        BY <4>1, <4>2, TextFits, Zenon
      <4>4. Fits(text, e, c)
        BY <4>1, <4>2, <4>3, FitsMore
      <4> QED
        BY <4>2, <4>4, Zenon
    <3>8. PICK b, c \in Int : b = Room(n) /\ c = Room(n + 1) /\ c = b + 1 /\ b =< c
      BY <1>5
    <3>9. Fits(node, e + 1, c)
      <4>1. Fits(node, e + 1, b + 1)
        BY <3>2, <3>6, <3>7, <3>8, TakenFits
      <4> QED
        BY <3>8, <4>1, Zenon
    <3>10. Fits(node, Depth - Len(a), c)
      BY <3>5, <3>9, Zenon
    <3>11. Fits(v, Depth, b)
      BY <3>8
    <3>12. Fits(Replaced(v, a, node), Depth, c)
      BY <1>5, <3>3, <3>8, <3>10, <3>11, ReplacedFits
    <3>13. Fits(new, Depth, Room(n + 1)) /\ new # Nowhere
      <4>1. Fits(new, Depth, Room(n + 1))
        BY <1>9, <2>5, <3>8, <3>12, Zenon
      <4> QED
        BY <4>1, RoomyInside, NodeIsSomething DEF Roomy
    <3>14. Grafts(new, v, Append(a, t), text)
      <4>1. SameBut(node, At(v, a), t) /\ Child(node, t) = text
        BY <3>2, <1>2, Zenon DEF Taken
      <4>2. Grafts(Replaced(v, a, node), v, Append(a, t), text)
        BY <1>3, <2>5, <3>2, <3>3, <4>1, GraftsBelow
      <4> QED
        BY <1>9, <2>5, <4>2, Zenon
    <3>15. Append(a, t) \in Seq(STRING)
      BY <1>3, <3>2, AppendExtends
    <3>16. Tells(Store!Grafted(f, Append(a, t), Shown(text)), new)
      BY <1>4, <1>11, <3>14, <3>15, GraftIs
    <3>17. NodesOf(new) = {NodeAt(new, q) : q \in Leads(new)}
      BY <1>5, <3>13, NodesAre
    <3>18. Store!Settable(f, p) /\ Store!Target(f, p) = Append(a, t)
      BY <1>6, <2>1, <2>3, <2>5, <3>1, Zenon
    <3>19. NodesOf(new) = Store!Grafted(f, Store!Target(f, p), Shown(text))
      BY <3>16, <3>17, <3>18, Zenon DEF Tells
    <3> QED
      BY <1>2, <1>11, <3>13, <3>18, <3>19, Zenon DEF SetsAs
  <2> QED
    BY <2>4, <2>5
<1> QED
  BY <1>12, <1>13

LEMMA SetIsTheStores ==
  ASSUME NEW n \in 0 .. MaxCalls, n < MaxCalls, NEW v, v = Nowhere \/ Fits(v, Depth, Room(n)),
         NEW p \in Paths, NEW text \in Texts
  PROVE  SetsAs(Written(v, p, text), v, p, text, n)
<1>1. PICK new, f : new = Written(v, p, text) /\ f = NodesOf(v)
  OBVIOUS
<1>2. NotAPointer # << >>
  <2>1. << >> \in Seq(STRING)
    OBVIOUS
  <2> QED
    BY <2>1, PathsAssumption
<1>3. CASE v = Nowhere
  <2>1. f = {} /\ new = Nowhere
    BY <1>1, <1>3, Zenon DEF NodesOf, Written
  <2>2. \A kind : ~Store!IsA(f, Store!Front(p), kind)
    BY <2>1 DEF Store!IsA
  <2>3. ~Store!Settable(f, p)
    BY <2>1, <2>2, Zenon DEF Store!Settable
  <2> QED
    BY <1>1, <2>1, <2>3, Zenon DEF SetsAs
<1>4. CASE ~ToyAccepts(text)
  <2>1. new = Nowhere /\ Shown(text) = {}
    BY <1>1, <1>4, Zenon DEF Written, Shown
  <2> QED
    BY <1>1, <2>1, Zenon DEF SetsAs
<1>5. CASE p = NotAPointer
  <2>1. new = Nowhere
    BY <1>1, <1>5, Zenon DEF Written
  <2>2. ~Store!Settable(f, p)
    BY <1>2, <1>5, Zenon DEF Store!Settable
  <2> QED
    BY <1>1, <2>1, <2>2, Zenon DEF SetsAs
<1>6. CASE v # Nowhere /\ ToyAccepts(text) /\ p = << >>
  <2>1. Fits(v, Depth, Room(n))
    BY <1>6
  <2>2. new = text
    BY <1>1, <1>2, <1>6, Zenon DEF Written
  <2>3. /\ Fits(text, Depth, Room(0)) /\ Tells(Shown(text), text) /\ Shown(text) # {}
        /\ NodesOf(text) = Shown(text) /\ text # Nowhere
    BY <1>6, TextTells
  <2>4. Tells(f, v) /\ v # Nowhere
    BY <1>1, <2>1, NodesAre, RoomyInside, NodeIsSomething DEF Tells, Roomy
  <2>5. f # {}
    <3>1. At(v, << >>) # Nowhere /\ << >> \in Seq(STRING)
      BY <2>4, AtRoot
    <3>2. << >> \in Leads(v)
      BY <3>1 DEF Leads
    <3> QED
      BY <3>2, <2>4, Zenon DEF Tells
  <2>6. Store!Settable(f, p) /\ Store!Target(f, p) = << >>
    BY <2>5, <1>6, Zenon DEF Store!Settable, Store!Target
  <2>7. Fits(text, Depth, Room(n + 1))
    <3>1. PICK k \in Int : k = 2 ^ SizeBits - 1 - MaxCalls
      BY Bounds
    <3>2. Room(0) = k + 0 /\ Room(n + 1) = k + (n + 1)
      BY <3>1, Zenon DEF Room
    <3>3. PICK b, c \in Int : b = k + 0 /\ c = k + (n + 1) /\ b =< c
      BY <3>1
    <3>4. PICK d \in Nat : d = Depth /\ d =< d
      BY Bounds
    <3>5. Fits(text, d, b)
      BY <2>3, <3>2, <3>3, <3>4, Zenon
    <3>6. Fits(text, d, c)
      BY <3>3, <3>4, <3>5, FitsMore
    <3> QED
      BY <3>2, <3>3, <3>4, <3>6, Zenon
  <2>8. NodesOf(text) = Store!Grafted(f, << >>, Shown(text))
    <3>1. Grafts(text, v, << >>, text) /\ << >> \in Seq(STRING)
      BY GraftsAtRoot
    <3>2. Tells(Store!Grafted(f, << >>, Shown(text)), text)
      BY <2>3, <2>4, <3>1, GraftIs
    <3> QED
      BY <2>3, <3>2, Zenon DEF Tells
  <2> QED
    BY <1>1, <2>2, <2>3, <2>6, <2>7, <2>8, Zenon DEF SetsAs
<1>7. CASE v # Nowhere /\ ToyAccepts(text) /\ p # << >> /\ p # NotAPointer
  <2>1. Fits(v, Depth, Room(n))
    BY <1>7
  <2> QED
    BY <1>7, <2>1, WritesBelow
<1> QED
  BY <1>3, <1>4, <1>5, <1>6, <1>7

-----------------------------------------------------------------------------
(* remove() from an array: the elements after the removed one move down.     *)
LEMMA SizedLen ==
  ASSUME NEW x, Sound(x), x.kind = "array"
  PROVE  /\ Len(x.members) \in Nat
         /\ \A k \in 0 .. Len(x.members) :
              IsIndexOf(ToString(k), k) /\ ToString(k) \in STRING /\ ParseIndex(ToString(k)) = k
<1>1. PICK N \in 0 .. 2 ^ SizeBits - 1 : N = Len(x.members)
  BY DEF Sound, IsSized
<1>2. PICK P \in Nat : P = 2 ^ SizeBits
  BY Bounds
<1>3. ASSUME NEW k \in 0 .. N
      PROVE  IsIndexOf(ToString(k), k) /\ ToString(k) \in STRING /\ ParseIndex(ToString(k)) = k
  <2>1. k \in 0 .. 2 ^ SizeBits - 1
    BY <1>1, <1>2
  <2>2. IsIndexOf(ToString(k), k) /\ ToString(k) \in STRING
    BY <2>1, SizesAreIndices
  <2> QED
    BY <2>2, Zenon DEF IsIndexOf
<1>4. N \in Nat
  BY <1>1, <1>2
<1> QED
  BY <1>1, <1>3, <1>4

LEMMA IndexOfIs ==
  ASSUME NEW x, Sound(x), x.kind = "array", NEW k \in 0 .. Len(x.members)
  PROVE  Store!IndexOf(ToString(k), Len(x.members)) = k
<1>1. \A j \in 0 .. Len(x.members) : ToString(k) = ToString(j) => j = k
  <2>1. \A j \in 0 .. Len(x.members) : ParseIndex(ToString(j)) = j
    BY SizedLen
  <2> QED
    BY <2>1, Zenon
<1>2. Store!IndexOf(ToString(k), Len(x.members)) =
        CHOOSE j \in 0 .. Len(x.members) : ToString(k) = ToString(j)
  BY SameToString, Zenon DEF Store!IndexOf
<1>3. \E j \in 0 .. Len(x.members) : ToString(k) = ToString(j)
  BY Zenon
<1>4. PICK i : i = CHOOSE j \in 0 .. Len(x.members) : ToString(k) = ToString(j)
  OBVIOUS
<1>5. i \in 0 .. Len(x.members) /\ ToString(k) = ToString(i)
  BY <1>3, <1>4, Zenon
<1> QED
  BY <1>1, <1>2, <1>4, <1>5, Zenon

\* Where element l is once element j is gone.
Shift(l, j) == IF l > j THEN l - 1 ELSE l

LEMMA ClosedChild ==
  ASSUME NEW x, Sound(x), x.kind = "array", NEW j \in 0 .. Len(x.members) - 1,
         NEW y, Sound(y), Closed(y, x, j + 1), NEW l \in 0 .. Len(x.members) - 1, l # j
  PROVE  /\ Shift(l, j) \in 0 .. Len(y.members) - 1
         /\ Child(y, ToString(Shift(l, j))) = Child(x, ToString(l))
<1>1. PICK N \in Nat : N = Len(x.members)
  BY SizedLen
<1>2. PICK k : k = Shift(l, j)
  OBVIOUS
<1>3. k \in 0 .. N - 2 /\ (k + 1 < j + 1 => l = k) /\ (~(k + 1 < j + 1) => l = k + 1)
  BY <1>1, <1>2 DEF Shift
<1>4. y.kind = "array" /\ Len(y.members) = N - 1
  BY <1>1, Zenon DEF Closed
<1>5. IsShaped(x) /\ IsShaped(y)
  BY NodeShape DEF Sound
<1>6. ToString(l) \in DOMAIN Digits /\ ParseIndex(ToString(l)) = l
  <2>1. l \in 0 .. N
    BY <1>1
  <2> QED
    BY <2>1, <1>1, SizedLen, Zenon DEF IsIndexOf
<1>7. ToString(k) \in DOMAIN Digits /\ ParseIndex(ToString(k)) = k
  <2>1. k \in 0 .. N
    BY <1>3
  <2> QED
    BY <2>1, <1>1, SizedLen, Zenon DEF IsIndexOf
<1>8. Child(x, ToString(l)) = x.members[l + 1].val
  <2>1. l < Len(x.members)
    BY <1>1
  <2>2. PICK t : t = ToString(l)
    OBVIOUS
  <2>3. t \in DOMAIN Digits /\ ParseIndex(t) < Len(x.members)
    BY <2>1, <2>2, <1>6, Zenon
  <2>4. Child(x, t) = x.members[ParseIndex(t) + 1].val
    BY <2>3, <1>5, ElementOf
  <2> QED
    BY <2>2, <2>4, <1>6, Zenon
<1>9. Child(y, ToString(k)) = y.members[k + 1].val
  <2>1. k < Len(y.members)
    BY <1>3, <1>4
  <2>2. PICK t : t = ToString(k)
    OBVIOUS
  <2>3. t \in DOMAIN Digits /\ ParseIndex(t) < Len(y.members)
    BY <2>1, <2>2, <1>7, Zenon
  <2>4. Child(y, t) = y.members[ParseIndex(t) + 1].val
    BY <2>3, <1>4, <1>5, ElementOf
  <2> QED
    BY <2>2, <2>4, <1>7, Zenon
<1>10. y.members[k + 1].val = x.members[l + 1].val
  <2>1. PICK g : g = k + 1 /\ g \in 1 .. N - 1
    BY <1>3
  <2>2. y.members[g].val = IF g < j + 1 THEN x.members[g].val ELSE x.members[g + 1].val
    BY <2>1, <1>1, Zenon DEF Closed
  <2>3. CASE g < j + 1
    <3>1. l = k
      BY <2>1, <2>3, <1>3
    <3> QED
      BY <2>1, <2>2, <2>3, <3>1, Zenon
  <2>4. CASE ~(g < j + 1)
    <3>1. l = g
      BY <2>1, <2>4, <1>3
    <3> QED
      BY <2>1, <2>2, <2>4, <3>1, Zenon
  <2> QED
    BY <2>3, <2>4
<1>11. k \in 0 .. Len(y.members) - 1
  BY <1>3, <1>4
<1> QED
  BY <1>2, <1>8, <1>9, <1>10, <1>11, Zenon

\* A pointer below an array goes on with the index of one of its elements.
LEMMA TokenBelow ==
  ASSUME NEW u, Document(u), NEW q \in Leads(u), NEW a \in Seq(STRING), IsBelow(a, q), q # a,
         NEW x, Sound(x), x.kind = "array", Walk(u, q)[Len(a)] = x
  PROVE  /\ Len(a) + 1 \in 1 .. Len(q)
         /\ \E l \in 0 .. Len(x.members) - 1 : q[Len(a) + 1] = ToString(l)
<1>1. q \in Seq(STRING) /\ Len(q) \in Nat /\ Walk(u, q)[Len(q)] # Nowhere
  BY DEF Leads, At
<1>2. PICK m, n \in Nat : m = Len(a) /\ n = Len(q) /\ m =< n
  BY <1>1 DEF IsBelow
<1>3. m # n
  <2>1. ASSUME m = n PROVE FALSE
    <3>1. \A k \in 1 .. n : q[k] = a[k]
      BY <1>2, <2>1 DEF IsBelow
    <3> QED
      BY <3>1, <1>1, <1>2, <2>1, SeqEqual
  <2> QED
    BY <2>1
<1>4. PICK d \in 1 .. n : d = m + 1 /\ d - 1 = m /\ d \in 0 .. n
  BY <1>2, <1>3
<1>5. Walk(u, q)[d] = Child(x, q[d])
  <2>1. d \in 1 .. Len(q)
    BY <1>2, <1>4, Zenon
  <2>2. Walk(u, q)[d] = Child(Walk(u, q)[d - 1], q[d])
    BY <1>1, <2>1, WalkTurn, Zenon
  <2>3. Walk(u, q)[d - 1] = x
    BY <1>2, <1>4, Zenon
  <2> QED
    BY <2>2, <2>3, Zenon
<1>6. Document(Walk(u, q)[d])
  BY <1>1, <1>2, <1>4, WalkInDocument, Zenon
<1>7. Child(x, q[d]) # Nowhere
  BY <1>5, <1>6, DocumentIsNode, NodeIsSomething
<1>8. q[d] \in KeysOf(x)
  BY <1>7, KeyedChild, Zenon
<1>9. PICK k \in 1 .. Len(x.members) : q[d] = ToString(k - 1)
  BY <1>8, ArrayTokens, Zenon
<1>10. PICK l : l = k - 1 /\ l \in 0 .. Len(x.members) - 1
  BY <1>9, SizedLen
<1> QED
  BY <1>2, <1>4, <1>9, <1>10, Zenon

\* Through the place of the node, with another token where it is, and the same ones after.
LEMMA Slid ==
  ASSUME NEW v, NEW a, OnPath(v, a), NEW y, NEW q, NEW r, Len(q) \in Nat, Len(r) = Len(q),
         IsBelow(a, q), IsBelow(a, r), Len(a) + 1 \in 1 .. Len(q),
         Child(y, r[Len(a) + 1]) = Child(At(v, a), q[Len(a) + 1]),
         \A k \in Len(a) + 2 .. Len(q) : r[k] = q[k]
  PROVE  Lands(Replaced(v, a, y), r, v, q)
<1>1. PICK new, m, n : new = Replaced(v, a, y) /\ m = Len(a) /\ n = Len(q)
  OBVIOUS
<1>2. m \in Nat /\ n \in Nat /\ Len(r) = n
  BY <1>1 DEF OnPath
<1>3. PICK d \in 1 .. n : d = m + 1 /\ d - 1 = m /\ d + 1 = m + 2 /\ d \in Nat /\ d =< n
  BY <1>1, <1>2
<1>4. PassesBy(new, v, a, y, q) /\ PassesBy(new, v, a, y, r)
  BY <1>1, <1>2, UpToNode, Zenon
<1>5. Walk(new, r)[d] = Child(y, r[d])
  <2>1. Walk(new, r)[d] = Child(Walk(new, r)[d - 1], r[d])
    <3>1. d \in 1 .. Len(r) /\ Len(r) \in Nat
      BY <1>2, <1>3
    <3> QED
      BY <3>1, WalkTurn
  <2> QED
    BY <2>1, <1>1, <1>3, <1>4, Zenon DEF PassesBy
<1>6. Walk(v, q)[d] = Child(At(v, a), q[d])
  <2>1. Walk(v, q)[d] = Child(Walk(v, q)[d - 1], q[d])
    <3>1. d \in 1 .. Len(q) /\ Len(q) \in Nat
      BY <1>1, <1>3
    <3> QED
      BY <3>1, WalkTurn
  <2> QED
    BY <2>1, <1>1, <1>3, <1>4, Zenon DEF PassesBy
<1>7. Meets(new, r, d, v, q, d)
  BY <1>1, <1>3, <1>5, <1>6, Zenon DEF Meets
<1>8. \A k \in d + 1 .. Len(r) : r[k] = q[k]
  BY <1>1, <1>2, <1>3, Zenon
<1>9. Len(r) \in Nat /\ Len(q) = Len(r) /\ d =< Len(r)
  BY <1>1, <1>2, <1>3
<1>10. Lands(new, r, v, q)
  BY <1>3, <1>7, <1>8, <1>9, SameRest
<1> QED
  BY <1>1, <1>10, Zenon

\* r is q with another token after the pointer a.
Slide(r, q, a, t) ==
  /\ r \in Seq(STRING) /\ Len(r) = Len(q) /\ r[Len(a) + 1] = t
  /\ \A k \in 1 .. Len(q) : k # Len(a) + 1 => r[k] = q[k]

\* q goes on from a with the token t.
Descends(q, a, t) ==
  /\ q \in Seq(STRING) /\ IsBelow(a, q)
  /\ Len(a) + 1 \in 1 .. Len(q) /\ q[Len(a) + 1] = t

LEMMA SlideDescends ==
  ASSUME NEW a \in Seq(STRING), NEW q, NEW s, Descends(q, a, s), NEW t, NEW r, Slide(r, q, a, t)
  PROVE  Descends(r, a, t) /\ Slide(q, r, a, s)
<1>1. PICK m, n \in Nat : m = Len(a) /\ n = Len(q) /\ m =< n
  BY DEF Descends, IsBelow
<1>2. Len(r) = n /\ \A k \in 1 .. n : k # m + 1 => r[k] = q[k]
  BY <1>1 DEF Slide
<1>3. \A k \in 1 .. m : k \in 1 .. n /\ k # m + 1
  BY <1>1
<1>4. \A k \in 1 .. m : q[k] = a[k]
  BY <1>1, Zenon DEF Descends, IsBelow
<1>5. IsBelow(a, r)
  <2>1. \A k \in 1 .. m : r[k] = a[k]
    BY <1>2, <1>3, <1>4, Zenon
  <2> QED
    BY <2>1, <1>1, <1>2, Zenon DEF IsBelow
<1>6. q[m + 1] = s /\ r[m + 1] = t /\ m + 1 \in 1 .. n
  BY <1>1, Zenon DEF Descends, Slide
<1> QED
  BY <1>1, <1>2, <1>5, <1>6, Zenon DEF Descends, Slide

\* r is q with t for its token i.
Retokened(r, q, i, t, T) ==
  r \in Seq(T) /\ Len(r) = Len(q) /\ \A j \in 1 .. Len(q) : r[j] = IF j = i THEN t ELSE q[j]

LEMMA OtherToken ==
  ASSUME NEW T, NEW q \in Seq(T), NEW i \in 1 .. Len(q), NEW t \in T
  PROVE  Retokened([q EXCEPT ![i] = t], q, i, t, T)
<1>1. /\ [q EXCEPT ![i] = t] \in Seq(T) /\ Len([q EXCEPT ![i] = t]) = Len(q)
      /\ \A j \in 1 .. Len(q) : [q EXCEPT ![i] = t][j] = IF j = i THEN t ELSE q[j]
  BY ExceptSeq
<1> QED
  BY <1>1, Zenon DEF Retokened

LEMMA SlideIsExcept ==
  ASSUME NEW a \in Seq(STRING), NEW q, NEW s, Descends(q, a, s), NEW t \in STRING
  PROVE  Slide([q EXCEPT ![Len(a) + 1] = t], q, a, t)
<1>1. PICK i \in 1 .. Len(q) : i = Len(a) + 1 /\ q \in Seq(STRING)
  BY DEF Descends
<1>2. PICK r : r = [q EXCEPT ![i] = t]
  OBVIOUS
<1>3. r \in Seq(STRING) /\ Len(r) = Len(q) /\ \A j \in 1 .. Len(q) : r[j] = IF j = i THEN t ELSE q[j]
  <2>1. q \in Seq(STRING)
    BY <1>1
  <2>2. Retokened([q EXCEPT ![i] = t], q, i, t, STRING)
    BY <2>1, OtherToken, Zenon
  <2> QED
    BY <2>2, <1>2, Zenon DEF Retokened
<1>4. r[i] = t /\ \A k \in 1 .. Len(q) : k # i => r[k] = q[k]
  BY <1>3, Zenon
<1>5. Slide(r, q, a, t)
  BY <1>1, <1>3, <1>4, Zenon DEF Slide
<1> QED
  BY <1>1, <1>2, <1>5, Zenon

LEMMA SlidesEqual ==
  ASSUME NEW a \in Seq(STRING), NEW q, NEW s, Descends(q, a, s), NEW t,
         NEW r, Slide(r, q, a, t), NEW u, Slide(u, q, a, t)
  PROVE  r = u
<1>1. PICK n \in Nat : n = Len(q)
  BY DEF Descends
<1>2. \A k \in 1 .. n : r[k] = u[k]
  BY <1>1, Zenon DEF Slide
<1>3. r \in Seq(STRING) /\ u \in Seq(STRING) /\ Len(r) = n /\ Len(u) = n
  BY <1>1, Zenon DEF Slide
<1> QED
  BY <1>2, <1>3, SeqEqual

LEMMA SlidBelow ==
  ASSUME NEW v, NEW a \in Seq(STRING), OnPath(v, a), NEW y, NEW q, NEW s, Descends(q, a, s),
         NEW t, NEW r, Slide(r, q, a, t), Child(y, t) = Child(At(v, a), s)
  PROVE  Lands(Replaced(v, a, y), r, v, q)
<1>1. Descends(r, a, t)
  BY SlideDescends
<1>2. Len(q) \in Nat /\ Len(r) = Len(q) /\ IsBelow(a, q) /\ IsBelow(a, r) /\ Len(a) + 1 \in 1 .. Len(q)
  BY <1>1 DEF Descends, Slide
<1>3. Child(y, r[Len(a) + 1]) = Child(At(v, a), q[Len(a) + 1])
  BY <1>1, Zenon DEF Descends
<1>4. \A k \in Len(a) + 2 .. Len(q) : k \in 1 .. Len(q) /\ k # Len(a) + 1
  BY <1>2
<1>5. \A k \in Len(a) + 2 .. Len(q) : r[k] = q[k]
  BY <1>4, Zenon DEF Slide
<1> QED
  BY <1>2, <1>3, <1>5, Slid

LEMMA BelowOneMore ==
  ASSUME NEW a \in Seq(STRING), NEW s \in STRING, NEW q \in Seq(STRING)
  PROVE  IsBelow(Append(a, s), q) <=> Descends(q, a, s)
<1>1. PICK m, n \in Nat : m = Len(a) /\ n = Len(q)
  OBVIOUS
<1>2. PICK p : p = Append(a, s)
  OBVIOUS
<1>3. Len(p) = m + 1 /\ p[m + 1] = s /\ \A k \in 1 .. m : p[k] = a[k]
  <2>1. Extends(p, a, s)
    BY <1>2, AppendExtends, Zenon
  <2> QED
    BY <2>1, <1>1, Zenon DEF Extends
<1>4. ASSUME IsBelow(p, q) PROVE Descends(q, a, s)
  <2>1. m + 1 =< n /\ \A k \in 1 .. m + 1 : q[k] = p[k]
    BY <1>1, <1>3, <1>4, Zenon DEF IsBelow
  <2>2. m =< n /\ m + 1 \in 1 .. n /\ m + 1 \in 1 .. m + 1 /\ \A k \in 1 .. m : k \in 1 .. m + 1
    BY <2>1, <1>1
  <2>3. q[m + 1] = s /\ \A k \in 1 .. m : q[k] = a[k]
    BY <2>1, <2>2, <1>3, Zenon
  <2> QED
    BY <2>2, <2>3, <1>1, Zenon DEF Descends, IsBelow
<1>5. ASSUME Descends(q, a, s) PROVE IsBelow(p, q)
  <2>1. q[m + 1] = s /\ m + 1 \in 1 .. n /\ \A k \in 1 .. m : q[k] = a[k]
    BY <1>1, <1>5, Zenon DEF Descends, IsBelow
  <2>2. m + 1 =< n /\ \A k \in 1 .. m + 1 : k = m + 1 \/ k \in 1 .. m
    BY <2>1, <1>1
  <2>3. \A k \in 1 .. m + 1 : q[k] = p[k]
    BY <2>1, <2>2, <1>3, Zenon
  <2> QED
    BY <2>2, <2>3, <1>1, <1>3, Zenon DEF IsBelow
<1> QED
  BY <1>2, <1>4, <1>5

\* Where the store moves a pointer to, when an element goes.
LEMMA StaysPut ==
  ASSUME NEW a \in Seq(STRING), NEW s \in STRING, NEW q \in Seq(STRING), ~IsBelow(a, q) \/ q = a,
         NEW size
  PROVE  Store!Moved(q, Append(a, s), size) = q
<1>1. PICK p : p = Append(a, s)
  OBVIOUS
<1>2. Store!Front(p) = a
  BY <1>1, EndsAre, AppendExtends
<1>3. ~(Store!Below(a, q) /\ q # a)
  BY BelowIs
<1>4. Store!Moved(q, p, size) = q
  BY <1>2, <1>3, Zenon DEF Store!Moved
<1> QED
  BY <1>1, <1>4

LEMMA MovesDown ==
  ASSUME NEW x, Sound(x), x.kind = "array", NEW N, N = Len(x.members), NEW j \in 0 .. N - 1,
         NEW l \in 0 .. N - 1, NEW a \in Seq(STRING), NEW q, Descends(q, a, ToString(l))
  PROVE  Slide(Store!Moved(q, Append(a, ToString(j)), N), q, a, ToString(Shift(l, j)))
<1>1. PICK s, t : s = ToString(j) /\ t = ToString(l)
  OBVIOUS
<1>2. N \in Nat /\ j \in 0 .. N /\ l \in 0 .. N
  BY SizedLen
<1>3. s \in STRING /\ Store!IndexOf(s, N) = j /\ Store!IndexOf(t, N) = l
  BY <1>1, <1>2, SizedLen, IndexOfIs, Zenon
<1>4. PICK p, d : p = Append(a, s) /\ d = Len(a) + 1
  OBVIOUS
<1>5. Store!Front(p) = a /\ Len(p) = d /\ p[d] = s
  <2>1. Extends(p, a, s) /\ Seqs!Front(p) = a
    BY <1>3, <1>4, AppendExtends, Zenon
  <2> QED
    BY <2>1, <1>4, EndsAre, Zenon DEF Extends
<1>6. q \in Seq(STRING) /\ IsBelow(a, q) /\ q[d] = t /\ q # a
  <2>1. q \in Seq(STRING) /\ IsBelow(a, q) /\ q[d] = t /\ Len(a) + 1 \in 1 .. Len(q)
    BY <1>1, <1>4, Zenon DEF Descends
  <2>2. Len(a) \in Nat /\ Len(q) \in Nat
    BY <2>1
  <2>3. Len(q) # Len(a)
    BY <2>1, <2>2
  <2> QED
    BY <2>1, <2>3
<1>7. Store!Below(a, q)
  BY <1>6, BelowIs
<1>8. PICK r : r = Store!Moved(q, p, N)
  OBVIOUS
<1>9. r = IF l > j THEN [q EXCEPT ![d] = ToString(l - 1)] ELSE q
  <2>1. r = IF l > j THEN [q EXCEPT ![d] = Store!ToString(Store!IndexOf(@, N) - 1)] ELSE q
    BY <1>3, <1>5, <1>6, <1>7, <1>8, Zenon DEF Store!Moved
  <2>2. [q EXCEPT ![d] = Store!ToString(Store!IndexOf(@, N) - 1)] = [q EXCEPT ![d] = ToString(l - 1)]
    BY <1>3, <1>6, SameToString, Zenon
  <2> QED
    BY <2>1, <2>2, Zenon
<1>10. CASE l > j
  <2>1. PICK i \in 0 .. N : i = l - 1 /\ i = Shift(l, j)
    BY <1>2, <1>10 DEF Shift
  <2>2. ToString(i) \in STRING
    BY <2>1, SizedLen
  <2>3. r = [q EXCEPT ![d] = ToString(i)]
    BY <2>1, <1>9, <1>10, Zenon
  <2>4. Descends(q, a, t)
    BY <1>1
  <2>5. Slide([q EXCEPT ![Len(a) + 1] = ToString(i)], q, a, ToString(i))
    BY <2>2, <2>4, SlideIsExcept
  <2> QED
    BY <2>1, <2>3, <2>5, <1>1, <1>4, <1>8, Zenon
<1>11. CASE ~(l > j)
  <2>1. r = q /\ Shift(l, j) = l
    BY <1>9, <1>11 DEF Shift
  <2>2. Slide(q, q, a, t)
    BY <1>4, <1>6, Zenon DEF Slide
  <2> QED
    BY <2>1, <2>2, <1>1, <1>4, <1>8, Zenon
<1> QED
  BY <1>10, <1>11

\* In the document v, y is what the array at a is without its element j.
Closing(v, a, j, y) ==
  /\ Document(v) /\ Document(Replaced(v, a, y)) /\ OnPath(v, a) /\ a \in Leads(v)
  /\ Sound(At(v, a)) /\ At(v, a).kind = "array" /\ j \in 0 .. Len(At(v, a).members) - 1
  /\ Sound(y) /\ Closed(y, At(v, a), j + 1)

MovedIn(v, a, j, q) == Store!Moved(q, Append(a, ToString(j)), Len(At(v, a).members))

Follows(u, r, v, q) == r \in Leads(u) /\ Alike(At(u, r), At(v, q))

LEMMA ClosingElement ==
  ASSUME NEW v, NEW a, NEW j, NEW y, Closing(v, a, j, y)
  PROVE  /\ a \in Seq(STRING) /\ ToString(j) \in STRING /\ At(v, a) # Nowhere
         /\ Follows(Replaced(v, a, y), a, v, a)
<1>1. PICK x, new : x = At(v, a) /\ new = Replaced(v, a, y)
  OBVIOUS
<1>2. a \in Seq(STRING) /\ x # Nowhere
  BY <1>1 DEF Closing, Leads
<1>3. Sound(x) /\ x.kind = "array" /\ j \in 0 .. Len(x.members) - 1
  BY <1>1, Zenon DEF Closing
<1>4. ToString(j) \in STRING
  <2>1. j \in 0 .. Len(x.members)
    BY <1>3, SizedLen
  <2> QED
    BY <2>1, <1>3, SizedLen
<1>5. At(new, a) = y
  <2>1. Walk(Replaced(v, a, y), a)[Len(a)] = y
    BY Rebuilt DEF Closing
  <2> QED
    BY <2>1, <1>1, Zenon DEF At
<1>6. y # Nowhere /\ y.kind = x.kind /\ y.atom = x.atom
  <2>1. IsNode(y) /\ y.kind = "array" /\ y.atom = x.atom
    BY <1>1, Zenon DEF Closing, Closed
  <2> QED
    BY <2>1, <1>3, NodeIsSomething
<1>7. Follows(new, a, v, a)
  <2>1. Alike(At(new, a), At(v, a))
    BY <1>1, <1>2, <1>5, <1>6 DEF Alike
  <2> QED
    BY <2>1, <1>2, <1>5, <1>6 DEF Follows, Leads
<1> QED
  BY <1>1, <1>2, <1>4, <1>7

\* Off the array, and in it.
LEMMA ClosingOff ==
  ASSUME NEW v, NEW a, NEW j, NEW y, Closing(v, a, j, y), NEW q \in Seq(STRING), ~IsBelow(a, q)
  PROVE  /\ MovedIn(v, a, j, q) = q /\ ~IsBelow(Append(a, ToString(j)), q)
         /\ Alike(At(Replaced(v, a, y), q), At(v, q))
<1>1. a \in Seq(STRING) /\ ToString(j) \in STRING
  BY ClosingElement
<1>2. MovedIn(v, a, j, q) = q
  BY <1>1, StaysPut DEF MovedIn
<1>3. ~IsBelow(Append(a, ToString(j)), q)
  <2>1. ~Descends(q, a, ToString(j))
    BY Zenon DEF Descends
  <2> QED
    BY <2>1, <1>1, BelowOneMore
<1>4. Alike(At(Replaced(v, a, y), q), At(v, q))
  <2>1. OnPath(v, a) /\ Len(q) \in Nat
    BY DEF Closing
  <2> QED
    BY <2>1, OffRebuilt
<1> QED
  BY <1>2, <1>3, <1>4

LEMMA ClosingBelow ==
  ASSUME NEW v, NEW a, NEW j, NEW y, Closing(v, a, j, y),
         NEW l \in 0 .. Len(At(v, a).members) - 1, l # j, NEW q, Descends(q, a, ToString(l))
  PROVE  /\ ~IsBelow(Append(a, ToString(j)), q)
         /\ Slide(MovedIn(v, a, j, q), q, a, ToString(Shift(l, j)))
         /\ Lands(Replaced(v, a, y), MovedIn(v, a, j, q), v, q)
<1>1. a \in Seq(STRING) /\ ToString(j) \in STRING /\ q \in Seq(STRING)
  BY ClosingElement, Zenon DEF Descends
<1>2. PICK x, N : x = At(v, a) /\ N = Len(x.members)
  OBVIOUS
<1>3. Sound(x) /\ x.kind = "array" /\ j \in 0 .. N - 1 /\ l \in 0 .. N - 1 /\ Closed(y, x, j + 1)
      /\ Sound(y) /\ OnPath(v, a)
  BY <1>2, Zenon DEF Closing
<1>4. ToString(l) # ToString(j)
  <2>1. N \in Nat /\ l \in 0 .. N /\ j \in 0 .. N
    BY <1>2, <1>3, SizedLen
  <2>2. ParseIndex(ToString(l)) = l /\ ParseIndex(ToString(j)) = j
    BY <2>1, <1>2, <1>3, SizedLen, Zenon
  <2> QED
    BY <2>2, Zenon
<1>5. ~IsBelow(Append(a, ToString(j)), q)
  <2>1. ~Descends(q, a, ToString(j))
    BY <1>4, Zenon DEF Descends
  <2> QED
    BY <2>1, <1>1, BelowOneMore
<1>6. PICK r : r = MovedIn(v, a, j, q)
  OBVIOUS
<1>7. Slide(r, q, a, ToString(Shift(l, j)))
  <2>1. Slide(Store!Moved(q, Append(a, ToString(j)), N), q, a, ToString(Shift(l, j)))
    BY <1>1, <1>2, <1>3, MovesDown
  <2> QED
    BY <2>1, <1>2, <1>6, Zenon DEF MovedIn
<1>8. Child(y, ToString(Shift(l, j))) = Child(x, ToString(l))
  BY <1>2, <1>3, ClosedChild, Zenon
<1>9. Lands(Replaced(v, a, y), r, v, q)
  BY <1>1, <1>2, <1>3, <1>7, <1>8, SlidBelow
<1> QED
  BY <1>5, <1>6, <1>7, <1>9, Zenon

\* Every pointer that was not the element's is followed, and every pointer there is follows one.
LEMMA ClosingFollows ==
  ASSUME NEW v, NEW a, NEW j, NEW y, Closing(v, a, j, y), NEW q \in Leads(v),
         ~IsBelow(Append(a, ToString(j)), q)
  PROVE  Follows(Replaced(v, a, y), MovedIn(v, a, j, q), v, q)
<1>1. PICK x, new : x = At(v, a) /\ new = Replaced(v, a, y)
  OBVIOUS
<1>2. a \in Seq(STRING) /\ ToString(j) \in STRING /\ q \in Seq(STRING) /\ At(v, q) # Nowhere
  BY ClosingElement DEF Leads
<1>3. CASE ~IsBelow(a, q)
  <2>1. MovedIn(v, a, j, q) = q /\ Alike(At(new, q), At(v, q))
    BY <1>1, <1>2, <1>3, ClosingOff, Zenon
  <2>2. q \in Leads(new)
    BY <2>1, SameNode
  <2> QED
    BY <2>1, <2>2, <1>1, Zenon DEF Follows
<1>4. CASE q = a
  <2>1. Follows(new, a, v, a)
    BY <1>1, ClosingElement, Zenon
  <2>2. MovedIn(v, a, j, a) = a
    BY <1>2, StaysPut DEF MovedIn
  <2> QED
    BY <2>1, <2>2, <1>1, <1>4, Zenon
<1>5. CASE IsBelow(a, q) /\ q # a
  <2>1. Document(v) /\ Sound(x) /\ x.kind = "array" /\ OnPath(v, a)
    BY <1>1, Zenon DEF Closing
  <2>2. Walk(v, q)[Len(a)] = x
    <3>1. PassesBy(Replaced(v, a, y), v, a, y, q)
      BY <1>2, <1>5, <2>1, UpToNode
    <3> QED
      BY <3>1, <1>1, Zenon DEF PassesBy
  <2>3. PICK l \in 0 .. Len(x.members) - 1 : Descends(q, a, ToString(l))
    <3>1. /\ Len(a) + 1 \in 1 .. Len(q)
          /\ \E l \in 0 .. Len(x.members) - 1 : q[Len(a) + 1] = ToString(l)
      BY <1>2, <1>5, <2>1, <2>2, TokenBelow
    <3> QED
      BY <3>1, <1>2, <1>5, Zenon DEF Descends
  <2>4. l # j
    <3>1. ~Descends(q, a, ToString(j))
      BY <1>2, BelowOneMore
    <3> QED
      BY <2>3, <3>1
  <2>5. PICK r : r = MovedIn(v, a, j, q)
    OBVIOUS
  <2>6. Slide(r, q, a, ToString(Shift(l, j))) /\ Lands(new, r, v, q)
    BY <1>1, <2>3, <2>4, <2>5, ClosingBelow, Zenon
  <2>7. At(new, r) = At(v, q) /\ r \in Seq(STRING)
    BY <2>6, Zenon DEF Lands, Slide
  <2>8. Follows(new, r, v, q)
    BY <1>2, <2>7 DEF Follows, Alike, Leads
  <2> QED
    BY <2>5, <2>8, <1>1, Zenon
<1> QED
  BY <1>3, <1>4, <1>5

LEMMA ClosingFollowed ==
  ASSUME NEW v, NEW a, NEW j, NEW y, Closing(v, a, j, y), NEW r \in Leads(Replaced(v, a, y))
  PROVE  \E q \in Leads(v) : ~IsBelow(Append(a, ToString(j)), q) /\ MovedIn(v, a, j, q) = r
<1>1. PICK x, new : x = At(v, a) /\ new = Replaced(v, a, y)
  OBVIOUS
<1>2. a \in Seq(STRING) /\ ToString(j) \in STRING /\ r \in Seq(STRING) /\ At(new, r) # Nowhere
  BY <1>1, ClosingElement DEF Leads
<1>3. CASE ~IsBelow(a, r)
  <2>1. /\ MovedIn(v, a, j, r) = r /\ Alike(At(new, r), At(v, r))
        /\ ~IsBelow(Append(a, ToString(j)), r)
    BY <1>1, <1>2, <1>3, ClosingOff, Zenon
  <2>2. r \in Leads(v)
    BY <2>1, <1>1, SameNode
  <2> QED
    BY <2>1, <2>2
<1>4. CASE r = a
  <2>1. MovedIn(v, a, j, a) = a
    BY <1>2, StaysPut DEF MovedIn
  <2>2. ~IsBelow(Append(a, ToString(j)), a)
    <3>1. Len(a) \in Nat /\ Len(a) + 1 \notin 1 .. Len(a)
      BY <1>2
    <3>2. ~Descends(a, a, ToString(j))
      BY <3>1, Zenon DEF Descends
    <3> QED
      BY <3>2, <1>2, BelowOneMore
  <2>3. a \in Leads(v)
    BY DEF Closing
  <2> QED
    BY <2>1, <2>2, <2>3, <1>4
<1>5. CASE IsBelow(a, r) /\ r # a
  <2>1. /\ Document(new) /\ Sound(x) /\ x.kind = "array" /\ j \in 0 .. Len(x.members) - 1
        /\ OnPath(v, a) /\ Sound(y) /\ Closed(y, x, j + 1)
    BY <1>1, Zenon DEF Closing
  <2>2. Walk(new, r)[Len(a)] = y
    <3>1. PassesBy(Replaced(v, a, y), v, a, y, r)
      BY <1>2, <1>5, <2>1, UpToNode
    <3> QED
      BY <3>1, <1>1, Zenon DEF PassesBy
  <2>3. y.kind = "array" /\ Len(y.members) = Len(x.members) - 1
    BY <2>1, Zenon DEF Closed
  <2>4. PICK m \in 0 .. Len(y.members) - 1 : Descends(r, a, ToString(m))
    <3>1. /\ Len(a) + 1 \in 1 .. Len(r)
          /\ \E m \in 0 .. Len(y.members) - 1 : r[Len(a) + 1] = ToString(m)
      BY <1>1, <1>2, <1>5, <2>1, <2>2, <2>3, TokenBelow, SMTT(30)
    <3> QED
      BY <3>1, <1>2, <1>5, Zenon DEF Descends
  <2>5. PICK l \in 0 .. Len(x.members) - 1 : l # j /\ Shift(l, j) = m
    <3>1. PICK N \in Nat : N = Len(x.members)
      BY <2>1, SizedLen
    <3>2. m \in 0 .. N - 2 /\ j \in 0 .. N - 1
      BY <3>1, <2>1, <2>3
    <3>3. CASE m < j
      BY <3>1, <3>2, <3>3 DEF Shift
    <3>4. CASE ~(m < j)
      <4>1. m + 1 \in 0 .. N - 1 /\ m + 1 # j /\ Shift(m + 1, j) = m
        BY <3>2, <3>4 DEF Shift
      <4> QED
        BY <3>1, <4>1
    <3> QED
      BY <3>3, <3>4
  <2>6. ToString(l) \in STRING
    <3>1. l \in 0 .. Len(x.members)
      BY <2>1, SizedLen
    <3> QED
      BY <3>1, <2>1, SizedLen
  <2>7. PICK q : Slide(q, r, a, ToString(l))
    <3>1. Slide([r EXCEPT ![Len(a) + 1] = ToString(l)], r, a, ToString(l))
      BY <1>2, <2>4, <2>6, SlideIsExcept
    <3> QED
      BY <3>1
  <2>8. Descends(q, a, ToString(l)) /\ Slide(r, q, a, ToString(m))
    BY <1>2, <2>4, <2>7, SlideDescends
  <2>9. PICK z : z = MovedIn(v, a, j, q)
    OBVIOUS
  <2>10. /\ ~IsBelow(Append(a, ToString(j)), q)
         /\ Slide(z, q, a, ToString(m)) /\ Lands(new, z, v, q)
    BY <1>1, <2>5, <2>8, <2>9, ClosingBelow, Zenon
  <2>11. z = r
    BY <1>2, <2>8, <2>10, SlidesEqual
  <2>12. q \in Leads(v)
    <3>1. At(v, q) # Nowhere /\ q \in Seq(STRING)
      BY <1>2, <2>8, <2>10, <2>11, Zenon DEF Lands, Descends
    <3> QED
      BY <3>1 DEF Leads
  <2> QED
    BY <2>9, <2>10, <2>11, <2>12
<1> QED
  BY <1>3, <1>4, <1>5

LEMMA ElementGoneIs ==
  ASSUME NEW v, NEW d \in Nat, NEW n \in 0 .. MaxCalls, Fits(v, d, Room(n)), NEW f, Tells(f, v),
         NEW a, NEW j, NEW y, Closing(v, a, j, y)
  PROVE  Tells(Store!ElementGone(f, Append(a, ToString(j))), Replaced(v, a, y))
<1>1. PICK p, new : p = Append(a, ToString(j)) /\ new = Replaced(v, a, y)
  OBVIOUS
<1>2. a \in Seq(STRING) /\ ToString(j) \in STRING
  BY ClosingElement
<1>3. p \in Seq(STRING) /\ Store!Front(p) = a
  BY <1>1, <1>2, AppendExtends, EndsAre
<1>4. Store!Size(f, a) = Len(At(v, a).members)
  <2>1. a \in Leads(v) /\ At(v, a).kind = "array"
    BY Zenon DEF Closing
  <2> QED
    BY <2>1, SizeIs
<1>5. PICK g : g = Store!ElementGone(f, p)
  OBVIOUS
<1>6. Store!Off(f, p) = {NodeAt(v, q) : q \in {q \in Leads(v) : ~IsBelow(p, q)}}
  BY <1>3, OffIs
<1>7. g = {[m EXCEPT !.ptr = Store!Moved(@, p, Store!Size(f, a))] : m \in Store!Off(f, p)}
  BY <1>3, <1>5, Zenon DEF Store!ElementGone
<1>8. \A q : Store!Moved(q, p, Store!Size(f, a)) = MovedIn(v, a, j, q)
  BY <1>1, <1>4, Zenon DEF MovedIn
<1>9. ASSUME NEW q \in Leads(v), ~IsBelow(p, q)
      PROVE  /\ [NodeAt(v, q) EXCEPT !.ptr = Store!Moved(@, p, Store!Size(f, a))]
                  = NodeAt(new, MovedIn(v, a, j, q))
             /\ MovedIn(v, a, j, q) \in Leads(new)
  <2>1. PICK r : r = MovedIn(v, a, j, q)
    OBVIOUS
  <2>2. Follows(new, r, v, q)
    BY <1>1, <1>9, <2>1, ClosingFollows, Zenon
  <2>3. r \in Leads(new) /\ Alike(At(new, r), At(v, q))
    BY <2>2, Zenon DEF Follows
  <2>4. [NodeAt(v, q) EXCEPT !.ptr = r] = NodeAt(new, r)
    BY <2>3, NodeElsewhere
  <2>5. NodeAt(v, q).ptr = q
    BY NodeAtFields
  <2>6. [NodeAt(v, q) EXCEPT !.ptr = Store!Moved(@, p, Store!Size(f, a))]
          = [NodeAt(v, q) EXCEPT !.ptr = r]
    BY <1>8, <2>1, <2>5, Zenon
  <2> QED
    BY <2>1, <2>3, <2>4, <2>6, Zenon
<1>10. ASSUME NEW m \in g PROVE \E r \in Leads(new) : m = NodeAt(new, r)
  <2>1. PICK o \in Store!Off(f, p) : m = [o EXCEPT !.ptr = Store!Moved(@, p, Store!Size(f, a))]
    BY <1>7, Zenon
  <2>2. PICK q \in Leads(v) : ~IsBelow(p, q) /\ o = NodeAt(v, q)
    BY <2>1, <1>6, Zenon
  <2>3. m = NodeAt(new, MovedIn(v, a, j, q)) /\ MovedIn(v, a, j, q) \in Leads(new)
    BY <2>1, <2>2, <1>9, Zenon
  <2> QED
    BY <2>3, Zenon
<1>11. ASSUME NEW r \in Leads(new) PROVE NodeAt(new, r) \in g
  <2>1. PICK q \in Leads(v) : ~IsBelow(p, q) /\ MovedIn(v, a, j, q) = r
    <3>1. r \in Leads(Replaced(v, a, y))
      BY <1>1, Zenon
    <3>2. \E q \in Leads(v) : ~IsBelow(Append(a, ToString(j)), q) /\ MovedIn(v, a, j, q) = r
      BY <3>1, ClosingFollowed
    <3> QED
      BY <3>2, <1>1
  <2>2. NodeAt(v, q) \in Store!Off(f, p)
    BY <2>1, <1>6, Zenon
  <2>3. [NodeAt(v, q) EXCEPT !.ptr = Store!Moved(@, p, Store!Size(f, a))] = NodeAt(new, r)
    BY <2>1, <1>9, Zenon
  <2>4. [NodeAt(v, q) EXCEPT !.ptr = Store!Moved(@, p, Store!Size(f, a))] \in g
    BY <2>2, <1>7, Zenon
  <2> QED
    BY <2>3, <2>4, Zenon
<1>12. g = {NodeAt(new, r) : r \in Leads(new)}
  BY <1>10, <1>11, Zenon
<1> QED
  BY <1>1, <1>5, <1>12, Zenon DEF Tells

-----------------------------------------------------------------------------
(* remove(), as the store has it.                                            *)
RemovesAs(new, v, p, n) ==
  /\ new # Nowhere <=> Store!Removable(NodesOf(v), p)
  /\ new # Nowhere =>
       /\ Fits(new, Depth, Room(n + 1))
       /\ \/ /\ Store!IsA(NodesOf(v), Store!Front(p), "array")
             /\ NodesOf(new) = Store!ElementGone(NodesOf(v), p)
          \/ /\ Store!IsA(NodesOf(v), Store!Front(p), "object")
             /\ Store!Off(NodesOf(new), p) = Store!Off(NodesOf(v), p)

\* Of an object, what is off the member stays.
SameOff(g, f, p) == Store!Off(g, p) = Store!Off(f, p)

LEMMA OffLost ==
  ASSUME NEW v, NEW a \in Seq(STRING), OnPath(v, a), At(v, a) # Nowhere, NEW s \in STRING,
         NEW y, Lost(y, At(v, a), s), NEW f, Tells(f, v), NEW g, Tells(g, Replaced(v, a, y))
  PROVE  SameOff(g, f, Append(a, s))
<1>1. PICK p, new : p = Append(a, s) /\ new = Replaced(v, a, y)
  OBVIOUS
<1>2. p \in Seq(STRING) /\ Extends(p, a, s)
  BY <1>1, AppendExtends, Zenon
<1>3. SameBut(y, At(v, a), s) /\ y # Nowhere
  <2>1. SameBut(y, At(v, a), s) /\ IsNode(y)
    BY Zenon DEF Lost
  <2> QED
    BY <2>1, NodeIsSomething
<1>4. ASSUME NEW q \in Seq(STRING), ~IsBelow(p, q)
      PROVE  NodeAt(v, q) = NodeAt(new, q) /\ (q \in Leads(new) <=> q \in Leads(v))
  <2>1. Len(q) \in Nat
    OBVIOUS
  <2>2. Alike(At(new, q), At(v, q))
    <3>1. Alike(At(Replaced(v, a, y), q), At(v, q))
      BY <1>2, <1>3, <1>4, <2>1, OffTarget
    <3> QED
      BY <3>1, <1>1, Zenon
  <2> QED
    BY <2>2, SameNode
<1>5. \A q : (q \in Leads(v) => q \in Seq(STRING)) /\ (q \in Leads(new) => q \in Seq(STRING))
  BY DEF Leads
<1>6. Store!Off(f, p) = {NodeAt(v, q) : q \in {q \in Leads(v) : ~IsBelow(p, q)}}
  BY <1>2, OffIs
<1>7. Store!Off(g, p) = {NodeAt(new, q) : q \in {q \in Leads(new) : ~IsBelow(p, q)}}
  <2>1. Tells(g, new)
    BY <1>1
  <2> QED
    BY <2>1, <1>2, OffIs
<1>8. ASSUME NEW m \in Store!Off(f, p) PROVE m \in Store!Off(g, p)
  <2>1. PICK q \in Leads(v) : ~IsBelow(p, q) /\ m = NodeAt(v, q)
    BY <1>6, Zenon
  <2>2. q \in Leads(new) /\ m = NodeAt(new, q)
    BY <2>1, <1>4, <1>5, Zenon
  <2> QED
    BY <2>1, <2>2, <1>7, Zenon
<1>9. ASSUME NEW m \in Store!Off(g, p) PROVE m \in Store!Off(f, p)
  <2>1. PICK q \in Leads(new) : ~IsBelow(p, q) /\ m = NodeAt(new, q)
    BY <1>7, Zenon
  <2>2. q \in Leads(v) /\ m = NodeAt(v, q)
    BY <2>1, <1>4, <1>5, Zenon
  <2> QED
    BY <2>1, <2>2, <1>6, Zenon
<1>10. Store!Off(g, p) = Store!Off(f, p)
  BY <1>8, <1>9, Zenon
<1> QED
  BY <1>1, <1>10, Zenon DEF SameOff

LEMMA RoomGrows ==
  ASSUME NEW n \in Nat, NEW v, Fits(v, Depth, Room(n))
  PROVE  Fits(v, Depth, Room(n + 1))
<1>1. PICK b, c \in Int : b = Room(n) /\ c = Room(n + 1) /\ b =< c
  BY Bounds
<1>2. PICK d \in Nat : d = Depth /\ d =< d
  BY Bounds
<1>3. Fits(v, d, b)
  BY <1>1, <1>2
<1>4. Fits(v, d, c)
  BY <1>1, <1>2, <1>3, FitsMore
<1> QED
  BY <1>1, <1>2, <1>4, Zenon

ErasesAs(new, f, a, s, n) ==
  /\ Fits(new, Depth, Room(n))
  /\ \/ Store!IsA(f, a, "array") /\ NodesOf(new) = Store!ElementGone(f, Append(a, s))
     \/ /\ Store!IsA(f, a, "object")
        /\ Store!Off(NodesOf(new), Append(a, s)) = Store!Off(f, Append(a, s))

LEMMA ErasesFrom ==
  ASSUME NEW n \in 0 .. MaxCalls, NEW v, Fits(v, Depth, Room(n)), NEW a \in Leads(v),
         NEW s \in STRING, ChildAt(At(v, a), s) # 0
  PROVE  /\ Drop(At(v, a), s) # Nowhere
         /\ ErasesAs(Replaced(v, a, Drop(At(v, a), s)), NodesOf(v), a, s, n)
<1>1. PICK x, f, p, y, new : /\ x = At(v, a) /\ f = NodesOf(v) /\ p = Append(a, s)
                             /\ y = Drop(x, s) /\ new = Replaced(v, a, y)
  OBVIOUS
<1>2. a \in Seq(STRING) /\ x # Nowhere /\ Len(a) \in Nat /\ Len(a) \in 0 .. Len(a)
  BY <1>1 DEF Leads
<1>3. Depth \in Nat /\ Room(n) \in Int
  BY Bounds
<1>4. Tells(f, v) /\ Document(v)
  BY <1>1, NodesAre, RoomyInside DEF Tells
<1>5. OnPath(v, a) /\ At(v, a) # Nowhere
  <2>1. Walk(v, a)[Len(a)] # Nowhere
    BY <1>1, <1>2, Zenon DEF At
  <2> QED
    BY <2>1, <1>1, <1>2, <1>4, WalkIsPath
<1>6. Sound(x) /\ IsNode(x)
  <2>1. Sound(x)
    BY <1>1, <1>3, LeadsInside
  <2> QED
    BY <2>1 DEF Sound
<1>7. FitsAt(v, a, Len(a), Depth, Room(n))
  BY <1>2, <1>3, <1>5, WalkFits
<1>8. PICK e \in Nat : Depth - Len(a) = e + 1
  <2>1. PICK D, l \in Nat : D = Depth /\ l = Len(a) /\ l < D
    BY <1>2, <1>3, <1>7 DEF FitsAt
  <2>2. D - l - 1 \in Nat /\ D - l = D - l - 1 + 1
    BY <2>1
  <2> QED
    BY <2>1, <2>2
<1>9. Fits(x, e + 1, Room(n))
  BY <1>1, <1>7, <1>8, Zenon DEF FitsAt, At
<1>10. ASSUME Fits(y, e + 1, Room(n))
       PROVE  y # Nowhere /\ Fits(new, Depth, Room(n)) /\ Tells(NodesOf(new), new) /\ Sound(y)
  <2>1. Fits(y, Depth - Len(a), Room(n))
    BY <1>8, <1>10, Zenon
  <2>2. PICK b \in Int : b = Room(n) /\ b =< b
    BY <1>3
  <2>3. Fits(v, Depth, b) /\ Fits(y, Depth - Len(a), b)
    BY <2>1, <2>2
  <2>4. Fits(Replaced(v, a, y), Depth, b)
    BY <1>2, <1>3, <1>5, <2>2, <2>3, ReplacedFits
  <2>5. Fits(new, Depth, Room(n))
    BY <2>2, <2>4, <1>1, Zenon
  <2>6. NodesOf(new) = {NodeAt(new, q) : q \in Leads(new)}
    BY <2>5, NodesAre
  <2>7. Sound(y) /\ y # Nowhere
    BY <1>10, FitsSound, NodeIsSomething DEF Sound
  <2> QED
    BY <2>5, <2>6, <2>7, Zenon DEF Tells
<1>11. x.kind = "array" \/ x.kind = "object"
  BY <1>1, InOther
<1>12. CASE x.kind = "array"
  <2>1. Closed(y, x, ChildAt(x, s))
    BY <1>1, <1>6, <1>12, DropFromArray
  <2>2. s \in DOMAIN Digits /\ ParseIndex(s) < Len(x.members) /\ ChildAt(x, s) = ParseIndex(s) + 1
    BY <1>1, <1>12, InArray
  <2>3. PICK j \in 0 .. Len(x.members) - 1 : j = ParseIndex(s)
    BY <2>2, <1>6, <1>12, IndexNat, SizedLen
  <2>4. s = ToString(j) /\ Closed(y, x, j + 1)
    <3>1. IsIndexOf(s, ParseIndex(s))
      BY <2>2, DigitsAreIndices
    <3> QED
      BY <3>1, <2>1, <2>2, <2>3, Zenon DEF IsIndexOf
  <2>5. Fits(y, e + 1, Room(n))
    BY <1>3, <1>9, <1>12, <2>1, ClosedFits
  <2>6. y # Nowhere /\ Fits(new, Depth, Room(n)) /\ Tells(NodesOf(new), new) /\ Sound(y)
    BY <2>5, <1>10
  <2>7. Document(new)
    BY <2>6, RoomyInside
  <2>8. Closing(v, a, j, y)
    BY <1>1, <1>4, <1>5, <1>6, <1>12, <2>3, <2>4, <2>6, <2>7, Zenon DEF Closing
  <2>9. Tells(Store!ElementGone(f, p), new)
    <3>1. Tells(Store!ElementGone(f, Append(a, ToString(j))), Replaced(v, a, y))
      BY <1>3, <1>4, <2>8, ElementGoneIs
    <3> QED
      BY <3>1, <2>4, <1>1, Zenon
  <2>10. NodesOf(new) = Store!ElementGone(f, p)
    BY <2>6, <2>9, Zenon DEF Tells
  <2>11. Store!IsA(f, a, "array")
    BY <1>1, <1>4, <1>12, KindIs, Zenon
  <2> QED
    BY <1>1, <2>6, <2>10, <2>11, Zenon DEF ErasesAs
<1>13. CASE x.kind = "object"
  <2>1. Lost(y, x, s)
    BY <1>1, <1>6, <1>13, DropFromObject
  <2>2. Fits(y, e + 1, Room(n))
    BY <1>3, <1>9, <2>1, LostFits
  <2>3. y # Nowhere /\ Fits(new, Depth, Room(n)) /\ Tells(NodesOf(new), new)
    BY <2>2, <1>10
  <2>4. Store!Off(NodesOf(new), p) = Store!Off(f, p)
    <3>1. Lost(y, At(v, a), s) /\ Tells(NodesOf(new), Replaced(v, a, y))
      BY <2>1, <2>3, <1>1
    <3>2. SameOff(NodesOf(new), f, Append(a, s))
      BY <3>1, <1>2, <1>4, <1>5, OffLost
    <3> QED
      BY <3>2, <1>1, Zenon DEF SameOff
  <2>5. Store!IsA(f, a, "object")
    BY <1>1, <1>4, <1>13, KindIs, Zenon
  <2> QED
    BY <1>1, <2>3, <2>4, <2>5, Zenon DEF ErasesAs
<1> QED
  BY <1>11, <1>12, <1>13

LEMMA RemoveIsTheStores ==
  ASSUME NEW n \in 0 .. MaxCalls, NEW v, v = Nowhere \/ Fits(v, Depth, Room(n)), NEW p \in Paths
  PROVE  RemovesAs(Erased(v, p), v, p, n)
<1>1. PICK new, f : new = Erased(v, p) /\ f = NodesOf(v)
  OBVIOUS
<1>2. CASE v = Nowhere
  <2>1. new = Nowhere /\ f = {}
    BY <1>1, <1>2, Zenon DEF Erased, NodesOf
  <2>2. ~Store!Removable(f, p)
    BY <2>1 DEF Store!Removable
  <2> QED
    BY <1>1, <2>1, <2>2, Zenon DEF RemovesAs
<1>3. CASE p \in {<< >>, NotAPointer}
  <2>1. new = Nowhere
    BY <1>1, <1>3, Zenon DEF Erased
  <2>2. ~Store!Removable(f, p)
    BY <1>3, Zenon DEF Store!Removable
  <2> QED
    BY <1>1, <2>1, <2>2, Zenon DEF RemovesAs
<1>4. CASE v # Nowhere /\ p \notin {<< >>, NotAPointer}
  <2>1. Fits(v, Depth, Room(n)) /\ p # << >> /\ p # NotAPointer
    BY <1>4
  <2>2. PICK a, s : a = Seqs!Front(p) /\ s = Seqs!Last(p)
    OBVIOUS
  <2>3. a \in Seq(STRING) /\ s \in STRING /\ p = Append(a, s) /\ p \in Seq(STRING) /\ a # NotAPointer
    BY <2>1, <2>2, PathParts
  <2>4. PICK x, y : x = At(v, a) /\ y = Drop(x, s)
    OBVIOUS
  <2>5. At(v, p) = Child(x, s)
    BY <2>3, <2>4, AtAppend
  <2>6. Tells(f, v) /\ Document(v)
    BY <1>1, <2>1, NodesAre, RoomyInside DEF Tells
  <2>7. Store!Removable(f, p) <=> Child(x, s) # Nowhere
    <3>1. Store!Removable(f, p) <=> \E m \in f : m.ptr = p
      BY <1>4, Zenon DEF Store!Removable
    <3>2. (\E m \in f : m.ptr = p) <=> p \in Leads(v)
      BY <2>6, SomewhereIs
    <3>3. p \in Leads(v) <=> Child(x, s) # Nowhere
      BY <2>3, <2>5 DEF Leads
    <3> QED
      BY <3>1, <3>2, <3>3, Zenon
  <2>8. new = InParent(v, p, y)
    <3>1. ToyResolve(v, a) = x
      BY <2>3, <2>4, Zenon DEF ToyResolve, At
    <3> QED
      BY <3>1, <1>1, <1>4, <2>2, <2>4, Zenon DEF Erased
  <2>9. CASE ChildAt(x, s) = 0
    <3>1. y = Nowhere /\ Child(x, s) = Nowhere
      BY <2>4, <2>9, Zenon DEF Drop, Child
    <3>2. new = Nowhere
      BY <2>8, <3>1, Zenon DEF InParent
    <3> QED
      BY <1>1, <2>7, <3>1, <3>2, Zenon DEF RemovesAs
  <2>10. CASE ChildAt(x, s) # 0
    <3>1. a \in Leads(v)
      <4>1. x # Nowhere
        BY <2>10, NoKind, InOther
      <4> QED
        BY <4>1, <2>3, <2>4 DEF Leads
    <3>2. Depth \in Nat /\ n \in Nat
      BY Bounds
    <3>3. Child(x, s) # Nowhere
      <4>1. Sound(x)
        BY <2>1, <2>4, <3>1, <3>2, LeadsInside
      <4>2. Document(x)
        BY <4>1, Zenon DEF Sound
      <4>3. Document(Child(x, s))
        BY <4>2, <2>10, ChildOfDocument
      <4> QED
        BY <4>3, DocumentIsNode, NodeIsSomething
    <3>4. y # Nowhere /\ ErasesAs(Replaced(v, a, y), f, a, s, n)
      <4>1. ChildAt(At(v, a), s) # 0
        BY <2>4, <2>10
      <4>2. /\ Drop(At(v, a), s) # Nowhere
            /\ ErasesAs(Replaced(v, a, Drop(At(v, a), s)), NodesOf(v), a, s, n)
        BY <4>1, <2>1, <2>3, <3>1, ErasesFrom
      <4> QED
        BY <4>2, <1>1, <2>4, Zenon
    <3>5. new = Replaced(v, a, y)
      BY <2>2, <2>8, <3>4, Zenon DEF InParent
    <3>6. Fits(new, Depth, Room(n)) /\ Fits(new, Depth, Room(n + 1)) /\ new # Nowhere
      <4>1. Fits(new, Depth, Room(n))
        BY <3>4, <3>5, Zenon DEF ErasesAs
      <4>2. Fits(new, Depth, Room(n + 1))
        BY <4>1, <3>2, RoomGrows
      <4> QED
        BY <4>1, <4>2, RoomyInside, NodeIsSomething DEF Roomy
    <3>7. Store!Front(p) = a
      BY <2>2, EndsAre, Zenon
    <3>8. \/ Store!IsA(f, Store!Front(p), "array") /\ NodesOf(new) = Store!ElementGone(f, p)
          \/ Store!IsA(f, Store!Front(p), "object") /\ Store!Off(NodesOf(new), p) = Store!Off(f, p)
      BY <2>3, <3>4, <3>5, <3>7, Zenon DEF ErasesAs
    <3> QED
      BY <1>1, <2>7, <3>3, <3>6, <3>8, Zenon DEF RemovesAs
  <2> QED
    BY <2>9, <2>10
<1> QED
  BY <1>2, <1>3, <1>4

-----------------------------------------------------------------------------
(* Whatever the calls, the document has room for those that are left: what   *)
(* the steps of the store rest on.                                           *)
InRoom == calls \in 0 .. MaxCalls /\ (root = Nowhere \/ Fits(root, Depth, Room(calls)))

LEMMA TextInRoom ==
  ASSUME NEW text \in Texts, ToyAccepts(text), NEW n \in Nat
  PROVE  Fits(text, Depth, Room(n))
<1>1. PICK k \in Int : k = 2 ^ SizeBits - 1 - MaxCalls
  BY Bounds
<1>2. Room(0) = k + 0 /\ Room(n) = k + n
  BY <1>1, Zenon DEF Room
<1>3. PICK b, c \in Int : b = k + 0 /\ c = k + n /\ b =< c
  BY <1>1
<1>4. PICK d \in Nat : d = Depth /\ d =< d
  BY Bounds
<1>5. Fits(text, Depth, Room(0))
  BY TextTells
<1>6. Fits(text, d, b)
  BY <1>2, <1>3, <1>4, <1>5, Zenon
<1>7. Fits(text, d, c)
  BY <1>3, <1>4, <1>6, FitsMore
<1> QED
  BY <1>2, <1>3, <1>4, <1>7, Zenon

LEMMA CalledOnce ==
  ASSUME InRoom, NEW op, NEW p, NEW text, NEW status, Called(op, p, text, status)
  PROVE  /\ calls \in 0 .. MaxCalls /\ calls \in Nat /\ calls < MaxCalls /\ calls' = calls + 1
         /\ calls + 1 \in 0 .. MaxCalls
         /\ call' = [op |-> op, ptr |-> p, val |-> text, status |-> status]
BY Bounds DEF InRoom, Called

LEMMA RootStays ==
  ASSUME InRoom, NEW op, NEW p, NEW text, NEW status, Called(op, p, text, status), root' = root
  PROVE  InRoom'
<1>1. PICK n, v : n = calls /\ v = root
  OBVIOUS
<1>2. n \in Nat /\ calls' = n + 1 /\ n + 1 \in 0 .. MaxCalls
  BY <1>1, CalledOnce
<1>3. v = Nowhere \/ Fits(v, Depth, Room(n))
  BY <1>1, Zenon DEF InRoom
<1>4. v = Nowhere \/ Fits(v, Depth, Room(n + 1))
  BY <1>2, <1>3, RoomGrows
<1>5. root' = v
  BY <1>1
<1> QED
  BY <1>2, <1>4, <1>5, Zenon DEF InRoom

LEMMA RootChanges ==
  ASSUME InRoom, NEW op, NEW p, NEW text, NEW status, Called(op, p, text, status),
         NEW new, root' = new, Fits(new, Depth, Room(calls + 1))
  PROVE  InRoom'
<1>1. calls' = calls + 1 /\ calls + 1 \in 0 .. MaxCalls
  BY CalledOnce
<1> QED
  BY <1>1, Zenon DEF InRoom

\* What the store sees of a call.
LEMMA CallShown ==
  ASSUME NEW op, NEW p, NEW text, NEW status, NEW c,
         c = [op |-> op, ptr |-> p, val |-> text, status |-> status]
  PROVE  [c EXCEPT !.val = IF ToyAccepts(@) THEN NodesOf(@) ELSE {}]
           = [op |-> op, ptr |-> p, val |-> Shown(text), status |-> status]
BY DEF Shown

LEMMA ParseSteps ==
  ASSUME InRoom, NEW text \in Texts, Parse(text)
  PROVE  InRoom' /\ Store!PParse
<1>1. CASE ToyAccepts(text) /\ root' = text /\ Called("parse", << >>, text, "Applied")
  <2>1. calls + 1 \in Nat /\ call' = [op |-> "parse", ptr |-> << >>, val |-> text, status |-> "Applied"]
    BY <1>1, CalledOnce
  <2>2. InRoom'
    <3>1. Fits(text, Depth, Room(calls + 1))
      BY <1>1, <2>1, TextInRoom
    <3> QED
      BY <1>1, <3>1, RootChanges
  <2>3. [call EXCEPT !.val = IF ToyAccepts(@) THEN NodesOf(@) ELSE {}]'
          = [op |-> "parse", ptr |-> << >>, val |-> Shown(text), status |-> "Applied"]
    BY <2>1, CallShown
  <2>4. NodesOf(root)' = Shown(text) /\ Shown(text) # {}
    <3>1. NodesOf(text) = Shown(text) /\ Shown(text) # {}
      BY <1>1, TextTells
    <3> QED
      BY <1>1, <3>1, Zenon
  <2>5. Store!PParse
    BY <2>3, <2>4 DEF Store!PParse
  <2> QED
    BY <2>2, <2>5
<1>2. CASE ~ToyAccepts(text) /\ root' = root /\ Called("parse", << >>, text, "Rejected")
  <2>1. call' = [op |-> "parse", ptr |-> << >>, val |-> text, status |-> "Rejected"]
    BY <1>2, CalledOnce
  <2>2. InRoom'
    BY <1>2, RootStays
  <2>3. [call EXCEPT !.val = IF ToyAccepts(@) THEN NodesOf(@) ELSE {}]'
          = [op |-> "parse", ptr |-> << >>, val |-> Shown(text), status |-> "Rejected"]
    BY <2>1, CallShown
  <2>4. NodesOf(root)' = NodesOf(root)
    BY <1>2, Zenon
  <2>5. Store!PParse
    BY <2>3, <2>4 DEF Store!PParse
  <2> QED
    BY <2>2, <2>5
<1> QED
  BY <1>1, <1>2 DEF Parse

LEMMA SetSteps ==
  ASSUME InRoom, NEW p \in Paths, NEW text \in Texts, Set(p, text)
  PROVE  InRoom' /\ Store!PSet
<1>1. PICK new : new = Written(root, p, text)
  OBVIOUS
<1>3. PICK status : status = IF new # Nowhere THEN "Applied" ELSE "Rejected"
  OBVIOUS
<1>4. Called("set", p, text, status) /\ root' = IF new # Nowhere THEN new ELSE root
  BY <1>1, <1>3 DEF Set
<1>5. /\ calls \in 0 .. MaxCalls /\ calls < MaxCalls
      /\ call' = [op |-> "set", ptr |-> p, val |-> text, status |-> status]
  BY <1>4, CalledOnce
<1>6. SetsAs(new, root, p, text, calls)
  <2>1. root = Nowhere \/ Fits(root, Depth, Room(calls))
    BY DEF InRoom
  <2>2. SetsAs(Written(root, p, text), root, p, text, calls)
    BY <2>1, <1>5, SetIsTheStores
  <2> QED
    BY <2>2, <1>1
<1>7. [call EXCEPT !.val = IF ToyAccepts(@) THEN NodesOf(@) ELSE {}]'
        = [op |-> "set", ptr |-> p, val |-> Shown(text), status |-> status]
  BY <1>5, CallShown
<1>8. CASE new # Nowhere
  <2>1. /\ Shown(text) # {} /\ Store!Settable(NodesOf(root), p)
        /\ Fits(new, Depth, Room(calls + 1))
        /\ NodesOf(new) = Store!Grafted(NodesOf(root), Store!Target(NodesOf(root), p), Shown(text))
    BY <1>6, <1>8, Zenon DEF SetsAs
  <2>2. root' = new /\ status = "Applied"
    BY <1>3, <1>4, <1>8
  <2>3. InRoom'
    BY <1>4, <2>1, <2>2, RootChanges
  <2>4. NodesOf(root)' = NodesOf(new)
    BY <2>2, Zenon
  <2>5. Store!PSet
    BY <1>7, <2>1, <2>2, <2>4 DEF Store!PSet
  <2> QED
    BY <2>3, <2>5
<1>9. CASE new = Nowhere
  <2>1. ~(Shown(text) # {} /\ Store!Settable(NodesOf(root), p))
    BY <1>6, <1>9, Zenon DEF SetsAs
  <2>2. root' = root /\ status = "Rejected"
    BY <1>3, <1>4, <1>9
  <2>3. InRoom'
    BY <1>4, <2>2, RootStays
  <2>4. NodesOf(root)' = NodesOf(root)
    BY <2>2, Zenon
  <2>5. Store!PSet
    BY <1>7, <2>1, <2>2, <2>4 DEF Store!PSet
  <2> QED
    BY <2>3, <2>5
<1> QED
  BY <1>8, <1>9

LEMMA RemoveSteps ==
  ASSUME InRoom, NEW p \in Paths, Remove(p)
  PROVE  InRoom' /\ Store!PRemove
<1>1. PICK new : new = Erased(root, p)
  OBVIOUS
<1>2. PICK status : status = IF new # Nowhere THEN "Applied" ELSE "Rejected"
  OBVIOUS
<1>3. Called("remove", p, Malformed, status) /\ root' = IF new # Nowhere THEN new ELSE root
  BY <1>1, <1>2 DEF Remove
<1>4. /\ calls \in 0 .. MaxCalls /\ calls < MaxCalls
      /\ call' = [op |-> "remove", ptr |-> p, val |-> Malformed, status |-> status]
  BY <1>3, CalledOnce
<1>5. RemovesAs(new, root, p, calls)
  <2>1. root = Nowhere \/ Fits(root, Depth, Room(calls))
    BY DEF InRoom
  <2>2. RemovesAs(Erased(root, p), root, p, calls)
    BY <2>1, <1>4, RemoveIsTheStores
  <2> QED
    BY <2>2, <1>1
<1>6. [call EXCEPT !.val = IF ToyAccepts(@) THEN NodesOf(@) ELSE {}]'
        = [op |-> "remove", ptr |-> p, val |-> Shown(Malformed), status |-> status]
  BY <1>4, CallShown
<1>7. CASE new # Nowhere
  <2>1. /\ Store!Removable(NodesOf(root), p) /\ Fits(new, Depth, Room(calls + 1))
        /\ \/ /\ Store!IsA(NodesOf(root), Store!Front(p), "array")
              /\ NodesOf(new) = Store!ElementGone(NodesOf(root), p)
           \/ /\ Store!IsA(NodesOf(root), Store!Front(p), "object")
              /\ Store!Off(NodesOf(new), p) = Store!Off(NodesOf(root), p)
    BY <1>5, <1>7, Zenon DEF RemovesAs
  <2>2. root' = new /\ status = "Applied"
    BY <1>2, <1>3, <1>7
  <2>3. InRoom'
    BY <1>3, <2>1, <2>2, RootChanges
  <2>4. NodesOf(root)' = NodesOf(new)
    BY <2>2, Zenon
  <2>5. Store!PRemove
    BY <1>6, <2>1, <2>2, <2>4 DEF Store!PRemove
  <2> QED
    BY <2>3, <2>5
<1>8. CASE new = Nowhere
  <2>1. ~Store!Removable(NodesOf(root), p)
    BY <1>5, <1>8, Zenon DEF RemovesAs
  <2>2. root' = root /\ status = "Rejected"
    BY <1>2, <1>3, <1>8
  <2>3. InRoom'
    BY <1>3, <2>2, RootStays
  <2>4. NodesOf(root)' = NodesOf(root)
    BY <2>2, Zenon
  <2>5. Store!PRemove
    BY <1>6, <2>1, <2>2, <2>4 DEF Store!PRemove
  <2> QED
    BY <2>3, <2>5
<1> QED
  BY <1>7, <1>8

LEMMA StoreStep == InRoom /\ [Next]_vars => InRoom' /\ [Store!PNext]_(Store!pvars)
<1> SUFFICES ASSUME InRoom, [Next]_vars PROVE InRoom' /\ [Store!PNext]_(Store!pvars)
  OBVIOUS
<1>1. ASSUME NEW text \in Texts, Parse(text) PROVE InRoom' /\ Store!PNext
  BY <1>1, ParseSteps DEF Store!PNext
<1>2. ASSUME NEW p \in Paths, NEW text \in Texts, Set(p, text) PROVE InRoom' /\ Store!PNext
  BY <1>2, SetSteps DEF Store!PNext
<1>3. ASSUME NEW p \in Paths, Remove(p) PROVE InRoom' /\ Store!PNext
  BY <1>3, RemoveSteps DEF Store!PNext
<1>4. CASE UNCHANGED vars
  <2>1. root' = root /\ call' = call /\ calls' = calls
    BY <1>4 DEF vars
  <2>2. InRoom'
    BY <2>1 DEF InRoom
  <2>3. UNCHANGED Store!pvars
    BY <2>1, Zenon DEF Store!pvars
  <2> QED
    BY <2>2, <2>3
<1> QED
  BY <1>1, <1>2, <1>3, <1>4 DEF Next

LEMMA StoreStart == Init => InRoom /\ Store!PInit
<1> SUFFICES ASSUME Init PROVE InRoom /\ Store!PInit
  OBVIOUS
<1>1. /\ root = Nowhere /\ calls = 0
      /\ call = [op |-> "none", ptr |-> << >>, val |-> Malformed, status |-> "none"]
  BY DEF Init
<1>2. InRoom
  BY <1>1, Bounds DEF InRoom
<1>3. Shown(Malformed) = {}
  BY DEF Shown, ToyAccepts
<1>4. [call EXCEPT !.val = IF ToyAccepts(@) THEN NodesOf(@) ELSE {}]
        = [op |-> "none", ptr |-> << >>, val |-> Shown(Malformed), status |-> "none"]
  BY <1>1, CallShown
<1>5. NodesOf(root) = {}
  BY <1>1, Zenon DEF NodesOf
<1> QED
  BY <1>2, <1>3, <1>4, <1>5 DEF Store!PInit

(* The toy's tree is the store sut.hpp describes, whatever the documents,    *)
(* the values set and the pointers: set_value() and remove_value()           *)
(* (jsonfuzz_sut.cpp:624-716) are applied exactly where they may be, change  *)
(* what is at and below the pointer and nothing else, an array's elements    *)
(* after a removed one move down, and what is refused leaves no trace.       *)
THEOREM ToyKeepsPointers == Spec => KeepsPointers
<1>1. Init => InRoom /\ Store!PInit
  BY StoreStart
<1>2. InRoom /\ [Next]_vars => InRoom' /\ [Store!PNext]_(Store!pvars)
  BY StoreStep
<1> QED
  BY <1>1, <1>2, PTL DEF Spec, KeepsPointers, Store!PSpec

=============================================================================
