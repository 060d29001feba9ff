--------------------------- MODULE ToySut_proofs ---------------------------
(***************************************************************************)
(* The toy SUT for every document it may be given: what it set where       *)
(* nothing was is read back, and removing it restores the document.        *)
(*                                                                         *)
(* The model is always a document (Document): nodes all the way down, as   *)
(* far as any level.  A write rebuilds the nodes on the way of its pointer *)
(* and no others, so that the pointer walks the rebuilt ones (Rebuilt), and*)
(* rebuilding them again with what was there gives them back.              *)
(***************************************************************************)
EXTENDS ToySut, SequenceTheorems, WellFoundedInduction, TLAPS

-----------------------------------------------------------------------------
(* Induction, with the property as the set of the numbers that have it.      *)
LEMMA NatMin ==
  ASSUME NEW T, T \subseteq Nat, T # {}
  PROVE  \E x \in T : \A y \in T : x =< y
<1> DEFINE R == OpToRel(<, Nat)
<1>1. IsWellFoundedOn(R, Nat)
  BY NatLessThanWellFounded, Zenon
<1>2. \A x, y \in Nat : <<y, x>> \in R <=> y < x
  <2>1. R = {ss \in Nat \X Nat : ss[1] < ss[2]}
    BY Zenon DEF OpToRel
  <2> QED
    BY <2>1
<1> HIDE DEF R
<1>3. \E x \in T : \A y \in T : ~(<<y, x>> \in R)
  BY <1>1, WFMin
<1>4. \E x \in T : \A y \in T : ~(y < x)
  BY <1>2, <1>3
<1> QED
  BY <1>4

LEMMA NatInd ==
  ASSUME NEW S, 0 \in S, \A n \in Nat : n \in S => n + 1 \in S
  PROVE  \A n \in Nat : n \in S
<1> SUFFICES ASSUME Nat \ S # {} PROVE FALSE
  OBVIOUS
<1>1. PICK x \in Nat \ S : \A y \in Nat \ S : x =< y
  BY NatMin
<1>2. x # 0 /\ x - 1 \in Nat /\ x - 1 \in S
  BY <1>1
<1> QED
  BY <1>1, <1>2

-----------------------------------------------------------------------------
(* The recursive functions of the model exist, each for as many turns as its *)
(* bound has: a level of a document, a walk, the walk back, an index.        *)
Levels(f, n, v) ==
  /\ f[0] = {v}
  /\ \A k \in 1 .. n : f[k] = Under(f[k - 1])

Walks(f, n, v, p) ==
  /\ f[0] = v
  /\ \A k \in 1 .. n : f[k] = Child(f[k - 1], p[k])

Rebuilds(f, n, v, p, node) ==
  /\ f[0] = node
  /\ \A k \in 1 .. n : f[k] = WithChild(Walk(v, p)[Len(p) - k], p[Len(p) - k + 1], f[k - 1])

Indexes(f, n, token) ==
  /\ f[0] = 0
  /\ \A k \in 1 .. n : f[k] = NextIndex(f[k - 1], Digits[token][k])

(* Level() is that recursion. *)
LEMMA LevelLoop ==
  ASSUME NEW v, NEW d, d \in Nat
  PROVE  \E f : Levels(f, d, v) /\ Level(v, d) = f[d]
<1>a. PICK N : N = d
  OBVIOUS
<1>b. N \in Nat
  BY <1>a
<1> DEFINE Body(f, k) == IF k = 0 THEN {v} ELSE Under(f[k - 1])
           S == {n \in Nat : \E f : \A k \in 0 .. n : k =< N => f[k] = Body(f, k)}
<1>1. 0 \in S
  <2> DEFINE g == [k \in 0 .. N |-> {v}]
  <2>1. \A k \in 0 .. 0 : k =< N => g[k] = Body(g, k)
    BY <1>b
  <2> HIDE DEF g
  <2> QED
    BY <2>1
<1>2. ASSUME NEW n \in Nat, n \in S PROVE n + 1 \in S
  <2>1. PICK f : \A k \in 0 .. n : k =< N => f[k] = Body(f, k)
    BY <1>2
  <2> DEFINE g == [k \in 0 .. N |-> IF k = n + 1 THEN Body(f, k) ELSE f[k]]
  <2>2. ASSUME NEW k \in 0 .. n + 1, k =< N PROVE g[k] = Body(g, k)
    <3>1. k \in 0 .. N
      BY <2>2
    <3>2. k # 0 => g[k - 1] = f[k - 1]
      <4>1. k # 0 => k - 1 \in 0 .. N /\ k - 1 # n + 1
        BY <2>2, <3>1, <1>b
      <4> QED
        BY <4>1, Zenon
    <3>3. Body(g, k) = Body(f, k)
      BY <3>2
    <3>4. k = n + 1 \/ k \in 0 .. n
      OBVIOUS
    <3> QED
      BY <2>1, <2>2, <3>1, <3>3, <3>4
  <2> HIDE DEF g
  <2> QED
    BY <2>2
<1>3. N \in S
  <2> HIDE DEF S
  <2> QED
    BY <1>1, <1>2, <1>b, NatInd
<1>4. PICK f : \A k \in 0 .. N : k =< N => f[k] = Body(f, k)
  BY <1>3
<1> DEFINE h == [k \in 0 .. N |-> f[k]]
<1>5. h = [k \in 0 .. N |-> Body(h, k)]
  <2>1. ASSUME NEW k \in 0 .. N PROVE Body(h, k) = f[k]
    <3>1. k # 0 => h[k - 1] = f[k - 1]
      BY <1>b
    <3>2. Body(h, k) = Body(f, k)
      BY <3>1
    <3>3. k =< N
      BY <1>b
    <3>4. f[k] = Body(f, k)
      BY <1>4, <3>3, Zenon
    <3> QED
      BY <3>2, <3>4, Zenon
  <2> HIDE DEF Body
  <2> QED
    BY <2>1, Zenon
<1> HIDE DEF h
<1> DEFINE g == CHOOSE f1 : f1 = [k \in 0 .. N |-> Body(f1, k)]
<1>6. g = [k \in 0 .. N |-> Body(g, k)]
  BY <1>5, Zenon
<1>7. Level(v, d) = g[N]
  BY <1>a, Zenon DEF Level
<1> HIDE DEF g
<1>8. \A k \in 0 .. N : g[k] = Body(g, k)
  BY <1>6, Zenon
<1>9. Levels(g, N, v)
  <2>1. 0 \in 0 .. N /\ \A k \in 1 .. N : k \in 0 .. N /\ k # 0
    BY <1>b
  <2> QED
    BY <1>8, <2>1 DEF Levels
<1> QED
  BY <1>7, <1>9, <1>a

(* Walk() is that recursion. *)
LEMMA WalkLoop ==
  ASSUME NEW v, NEW p, Len(p) \in Nat
  PROVE  \E f : Walks(f, Len(p), v, p) /\ Walk(v, p) = f
<1>a. PICK N : N = Len(p)
  OBVIOUS
<1>b. N \in Nat
  BY <1>a
<1> DEFINE Body(f, k) == IF k = 0 THEN v ELSE Child(f[k - 1], p[k])
           S == {n \in Nat : \E f : \A k \in 0 .. n : k =< N => f[k] = Body(f, k)}
<1>1. 0 \in S
  <2> DEFINE g == [k \in 0 .. N |-> v]
  <2>1. \A k \in 0 .. 0 : k =< N => g[k] = Body(g, k)
    BY <1>b
  <2> HIDE DEF g
  <2> QED
    BY <2>1
<1>2. ASSUME NEW n \in Nat, n \in S PROVE n + 1 \in S
  <2>1. PICK f : \A k \in 0 .. n : k =< N => f[k] = Body(f, k)
    BY <1>2
  <2> DEFINE g == [k \in 0 .. N |-> IF k = n + 1 THEN Body(f, k) ELSE f[k]]
  <2>2. ASSUME NEW k \in 0 .. n + 1, k =< N PROVE g[k] = Body(g, k)
    <3>1. k \in 0 .. N
      BY <2>2
    <3>2. k # 0 => g[k - 1] = f[k - 1]
      <4>1. k # 0 => k - 1 \in 0 .. N /\ k - 1 # n + 1
        BY <2>2, <3>1, <1>b
      <4> QED
        BY <4>1, Zenon
    <3>3. Body(g, k) = Body(f, k)
      BY <3>2
    <3>4. k = n + 1 \/ k \in 0 .. n
      OBVIOUS
    <3> QED
      BY <2>1, <2>2, <3>1, <3>3, <3>4
  <2> HIDE DEF g
  <2> QED
    BY <2>2
<1>3. N \in S
  <2> HIDE DEF S
  <2> QED
    BY <1>1, <1>2, <1>b, NatInd
<1>4. PICK f : \A k \in 0 .. N : k =< N => f[k] = Body(f, k)
  BY <1>3
<1> DEFINE h == [k \in 0 .. N |-> f[k]]
<1>5. h = [k \in 0 .. N |-> Body(h, k)]
  <2>1. ASSUME NEW k \in 0 .. N PROVE Body(h, k) = f[k]
    <3>1. k # 0 => h[k - 1] = f[k - 1]
      BY <1>b
    <3>2. Body(h, k) = Body(f, k)
      BY <3>1
    <3>3. k =< N
      BY <1>b
    <3>4. f[k] = Body(f, k)
      BY <1>4, <3>3, Zenon
    <3> QED
      BY <3>2, <3>4, Zenon
  <2> HIDE DEF Body
  <2> QED
    BY <2>1, Zenon
<1> HIDE DEF h
<1> DEFINE g == CHOOSE f1 : f1 = [k \in 0 .. N |-> Body(f1, k)]
<1>6. g = [k \in 0 .. N |-> Body(g, k)]
  BY <1>5, Zenon
<1>7. Walk(v, p) = g
  BY <1>a, Zenon DEF Walk
<1> HIDE DEF g
<1>8. \A k \in 0 .. N : g[k] = Body(g, k)
  BY <1>6, Zenon
<1>9. Walks(g, N, v, p)
  <2>1. 0 \in 0 .. N /\ \A k \in 1 .. N : k \in 0 .. N /\ k # 0
    BY <1>b
  <2> QED
    BY <1>8, <2>1 DEF Walks
<1> QED
  BY <1>7, <1>9, <1>a

(* Replaced() is that recursion. *)
LEMMA ReplacedLoop ==
  ASSUME NEW v, NEW p, NEW node, Len(p) \in Nat
  PROVE  \E f : Rebuilds(f, Len(p), v, p, node) /\ Replaced(v, p, node) = f[Len(p)]
<1>a. PICK N : N = Len(p)
  OBVIOUS
<1>b. N \in Nat
  BY <1>a
<1> DEFINE Body(f, k) == IF k = 0 THEN node ELSE WithChild(Walk(v, p)[Len(p) - k], p[Len(p) - k + 1], f[k - 1])
           S == {n \in Nat : \E f : \A k \in 0 .. n : k =< N => f[k] = Body(f, k)}
<1>1. 0 \in S
  <2> DEFINE g == [k \in 0 .. N |-> node]
  <2>1. \A k \in 0 .. 0 : k =< N => g[k] = Body(g, k)
    BY <1>b
  <2> HIDE DEF g
  <2> QED
    BY <2>1
<1>2. ASSUME NEW n \in Nat, n \in S PROVE n + 1 \in S
  <2>1. PICK f : \A k \in 0 .. n : k =< N => f[k] = Body(f, k)
    BY <1>2
  <2> DEFINE g == [k \in 0 .. N |-> IF k = n + 1 THEN Body(f, k) ELSE f[k]]
  <2>2. ASSUME NEW k \in 0 .. n + 1, k =< N PROVE g[k] = Body(g, k)
    <3>1. k \in 0 .. N
      BY <2>2
    <3>2. k # 0 => g[k - 1] = f[k - 1]
      <4>1. k # 0 => k - 1 \in 0 .. N /\ k - 1 # n + 1
        BY <2>2, <3>1, <1>b
      <4> QED
        BY <4>1, Zenon
    <3>3. Body(g, k) = Body(f, k)
      BY <3>2
    <3>4. k = n + 1 \/ k \in 0 .. n
      OBVIOUS
    <3> QED
      BY <2>1, <2>2, <3>1, <3>3, <3>4
  <2> HIDE DEF g
  <2> QED
    BY <2>2
<1>3. N \in S
  <2> HIDE DEF S
  <2> QED
    BY <1>1, <1>2, <1>b, NatInd
<1>4. PICK f : \A k \in 0 .. N : k =< N => f[k] = Body(f, k)
  BY <1>3
<1> DEFINE h == [k \in 0 .. N |-> f[k]]
<1>5. h = [k \in 0 .. N |-> Body(h, k)]
  <2>1. ASSUME NEW k \in 0 .. N PROVE Body(h, k) = f[k]
    <3>1. k # 0 => h[k - 1] = f[k - 1]
      BY <1>b
    <3>2. Body(h, k) = Body(f, k)
      BY <3>1
    <3>3. k =< N
      BY <1>b
    <3>4. f[k] = Body(f, k)
      BY <1>4, <3>3, Zenon
    <3> QED
      BY <3>2, <3>4, Zenon
  <2> HIDE DEF Body
  <2> QED
    BY <2>1, Zenon
<1> HIDE DEF h
<1> DEFINE g == CHOOSE f1 : f1 = [k \in 0 .. N |-> Body(f1, k)]
<1>6. g = [k \in 0 .. N |-> Body(g, k)]
  BY <1>5, Zenon
<1>7. Replaced(v, p, node) = g[N]
  BY <1>a, Zenon DEF Replaced
<1> HIDE DEF g
<1>8. \A k \in 0 .. N : g[k] = Body(g, k)
  BY <1>6, Zenon
<1>9. Rebuilds(g, N, v, p, node)
  <2>1. 0 \in 0 .. N /\ \A k \in 1 .. N : k \in 0 .. N /\ k # 0
    BY <1>b
  <2> QED
    BY <1>8, <2>1 DEF Rebuilds
<1> QED
  BY <1>7, <1>9, <1>a

(* ParseIndex() is that recursion. *)
LEMMA IndexLoop ==
  ASSUME NEW token, Len(Digits[token]) \in Nat
  PROVE  \E f : Indexes(f, Len(Digits[token]), token) /\ ParseIndex(token) = f[Len(Digits[token])]
<1>a. PICK N : N = Len(Digits[token])
  OBVIOUS
<1>b. N \in Nat
  BY <1>a
<1> DEFINE Body(f, k) == IF k = 0 THEN 0 ELSE NextIndex(f[k - 1], Digits[token][k])
           S == {n \in Nat : \E f : \A k \in 0 .. n : k =< N => f[k] = Body(f, k)}
<1>1. 0 \in S
  <2> DEFINE g == [k \in 0 .. N |-> 0]
  <2>1. \A k \in 0 .. 0 : k =< N => g[k] = Body(g, k)
    BY <1>b
  <2> HIDE DEF g
  <2> QED
    BY <2>1
<1>2. ASSUME NEW n \in Nat, n \in S PROVE n + 1 \in S
  <2>1. PICK f : \A k \in 0 .. n : k =< N => f[k] = Body(f, k)
    BY <1>2
  <2> DEFINE g == [k \in 0 .. N |-> IF k = n + 1 THEN Body(f, k) ELSE f[k]]
  <2>2. ASSUME NEW k \in 0 .. n + 1, k =< N PROVE g[k] = Body(g, k)
    <3>1. k \in 0 .. N
      BY <2>2
    <3>2. k # 0 => g[k - 1] = f[k - 1]
      <4>1. k # 0 => k - 1 \in 0 .. N /\ k - 1 # n + 1
        BY <2>2, <3>1, <1>b
      <4> QED
        BY <4>1, Zenon
    <3>3. Body(g, k) = Body(f, k)
      BY <3>2
    <3>4. k = n + 1 \/ k \in 0 .. n
      OBVIOUS
    <3> QED
      BY <2>1, <2>2, <3>1, <3>3, <3>4
  <2> HIDE DEF g
  <2> QED
    BY <2>2
<1>3. N \in S
  <2> HIDE DEF S
  <2> QED
    BY <1>1, <1>2, <1>b, NatInd
<1>4. PICK f : \A k \in 0 .. N : k =< N => f[k] = Body(f, k)
  BY <1>3
<1> DEFINE h == [k \in 0 .. N |-> f[k]]
<1>5. h = [k \in 0 .. N |-> Body(h, k)]
  <2>1. ASSUME NEW k \in 0 .. N PROVE Body(h, k) = f[k]
    <3>1. k # 0 => h[k - 1] = f[k - 1]
      BY <1>b
    <3>2. Body(h, k) = Body(f, k)
      BY <3>1
    <3>3. k =< N
      BY <1>b
    <3>4. f[k] = Body(f, k)
      BY <1>4, <3>3, Zenon
    <3> QED
      BY <3>2, <3>4, Zenon
  <2> HIDE DEF Body
  <2> QED
    BY <2>1, Zenon
<1> HIDE DEF h
<1> DEFINE g == CHOOSE f1 : f1 = [k \in 0 .. N |-> Body(f1, k)]
<1>6. g = [k \in 0 .. N |-> Body(g, k)]
  BY <1>5, Zenon
<1>7. ParseIndex(token) = g[N]
  BY <1>a, Zenon DEF ParseIndex
<1> HIDE DEF g
<1>8. \A k \in 0 .. N : g[k] = Body(g, k)
  BY <1>6, Zenon
<1>9. Indexes(g, N, token)
  <2>1. 0 \in 0 .. N /\ \A k \in 1 .. N : k \in 0 .. N /\ k # 0
    BY <1>b
  <2> QED
    BY <1>8, <2>1 DEF Indexes
<1> QED
  BY <1>7, <1>9, <1>a

(* parse_index() answers a number.                                           *)
LEMMA NextIndexNat ==
  ASSUME NEW idx \in Nat, NEW digit \in 0 .. 9
  PROVE  NextIndex(idx, digit) \in Nat
<1>1. PICK m : m = 2 ^ SizeBits /\ m \in Nat \ {0}
  BY Widths
<1>2. (idx * 10 + digit) % m \in Nat
  BY <1>1
<1> QED
  BY <1>1, <1>2, Zenon DEF NextIndex

LEMMA IndexNat ==
  ASSUME NEW token \in DOMAIN Digits
  PROVE  ParseIndex(token) \in Nat
<1>1. PICK s \in Seq(0 .. 9) : s = Digits[token]
  BY DigitsAssumption
<1>2. PICK N \in Nat : N = Len(s)
  BY <1>1
<1>3. PICK f : Indexes(f, Len(Digits[token]), token) /\ ParseIndex(token) = f[Len(Digits[token])]
  BY IndexLoop, <1>1, <1>2
<1> DEFINE S == {k \in Nat : k =< N => f[k] \in Nat}
<1>4. f[0] = 0 /\ \A k \in 1 .. N : f[k] = NextIndex(f[k - 1], s[k])
  BY <1>1, <1>2, <1>3, Zenon DEF Indexes
<1>5. 0 \in S
  BY <1>4
<1>6. ASSUME NEW k \in Nat, k \in S PROVE k + 1 \in S
  <2>1. CASE k + 1 =< N
    <3>1. k + 1 \in 1 .. N /\ k + 1 - 1 = k /\ f[k] \in Nat /\ s[k + 1] \in 0 .. 9
      BY <2>1, <1>6, <1>2, <1>1
    <3>2. f[k + 1] = NextIndex(f[k], s[k + 1])
      BY <3>1, <1>4
    <3>3. NextIndex(f[k], s[k + 1]) \in Nat
      BY <3>1, NextIndexNat
    <3> QED
      BY <3>2, <3>3
  <2> QED
    BY <2>1
<1>7. N \in S
  <2> HIDE DEF S
  <2> QED
    BY <1>5, <1>6, NatInd
<1> QED
  BY <1>7, <1>3, <1>1, <1>2

-----------------------------------------------------------------------------
(* The fields of what the constructors build.                                *)
LEMMA ArrFields ==
  ASSUME NEW vals
  PROVE  /\ Arr(vals).kind = "array" /\ Arr(vals).atom = ""
         /\ Arr(vals).members = [k \in 1 .. Len(vals) |-> Member(ToString(k - 1), vals[k])]
         /\ Arr(vals) = [kind |-> "array", atom |-> "", members |-> Arr(vals).members]
BY DEF Arr

LEMMA ObjFields ==
  ASSUME NEW ms
  PROVE  /\ Obj(ms).kind = "object" /\ Obj(ms).atom = "" /\ Obj(ms).members = ms
         /\ Obj(ms) = [kind |-> "object", atom |-> "", members |-> ms]
BY DEF Obj

LEMMA MemberFields ==
  ASSUME NEW key, NEW val
  PROVE  Member(key, val).key = key /\ Member(key, val).val = val
BY DEF Member

LEMMA NoKind == Nowhere.kind = "nowhere" /\ Malformed.kind = "malformed"
BY DEF Nowhere, Malformed

LEMMA AnArray ==
  ASSUME NEW v, IsNode(v), v = Arr(Vals(v))
  PROVE  /\ v = [kind |-> v.kind, atom |-> v.atom, members |-> v.members]
         /\ v.kind = "array" /\ v.atom = ""
         /\ \A k \in 1 .. Len(v.members) : v.members[k] = Member(ToString(k - 1), v.members[k].val)
<1>1. Len(v.members) \in Nat /\ DOMAIN v.members = 1 .. Len(v.members)
  BY DEF IsNode
<1>2. PICK w : w = Vals(v)
  OBVIOUS
<1>3. v = Arr(w)
  BY <1>2
<1>4. PICK ms : ms = [k \in 1 .. Len(w) |-> Member(ToString(k - 1), w[k])]
  OBVIOUS
<1>5. Arr(w).members = ms /\ Arr(w) = [kind |-> "array", atom |-> "", members |-> ms]
  BY <1>4 DEF Arr
<1>6. v = [kind |-> "array", atom |-> "", members |-> ms]
  BY <1>5, <1>3
<1>7. v.kind = "array" /\ v.atom = "" /\ v.members = ms
  BY <1>6
<1>8. v = [kind |-> v.kind, atom |-> v.atom, members |-> v.members]
  BY <1>6, <1>7, Zenon
<1>9. ASSUME NEW k \in 1 .. Len(v.members)
      PROVE  v.members[k] = Member(ToString(k - 1), v.members[k].val)
  <2>1. Len(w) = Len(v.members)
    BY <1>1, <1>2 DEF Vals
  <2>2. ms[k] = Member(ToString(k - 1), w[k])
    BY <2>1, <1>4
  <2>3. w[k] = v.members[k].val
    BY <1>1, <1>2 DEF Vals
  <2> QED
    BY <2>2, <2>3, <1>7
<1> QED
  BY <1>7, <1>8, <1>9

LEMMA AnObject ==
  ASSUME NEW v, IsNode(v),
         v = Obj([k \in DOMAIN v.members |-> Member(v.members[k].key, v.members[k].val)])
  PROVE  /\ v = [kind |-> v.kind, atom |-> v.atom, members |-> v.members]
         /\ v.kind = "object" /\ v.atom = ""
         /\ \A k \in 1 .. Len(v.members) :
              v.members[k] = Member(v.members[k].key, v.members[k].val)
<1>1. Len(v.members) \in Nat /\ DOMAIN v.members = 1 .. Len(v.members)
  BY DEF IsNode
<1>2. PICK ms : ms = [k \in DOMAIN v.members |-> Member(v.members[k].key, v.members[k].val)]
  OBVIOUS
<1>3. v = [kind |-> "object", atom |-> "", members |-> ms]
  BY <1>2 DEF Obj
<1>4. v.kind = "object" /\ v.atom = "" /\ v.members = ms
  BY <1>3
<1>5. v = [kind |-> v.kind, atom |-> v.atom, members |-> v.members]
  BY <1>3, <1>4, Zenon
<1>6. ASSUME NEW k \in 1 .. Len(v.members)
      PROVE  v.members[k] = Member(v.members[k].key, v.members[k].val)
  BY <1>2, <1>4, <1>1, Zenon
<1> QED
  BY <1>4, <1>5, <1>6

(* What a node is: a record with members, of one of the three kinds.         *)
IsShaped(v) ==
  /\ v = [kind |-> v.kind, atom |-> v.atom, members |-> v.members]
  /\ Len(v.members) \in Nat /\ DOMAIN v.members = 1 .. Len(v.members)
  /\ v.members = [k \in 1 .. Len(v.members) |-> v.members[k]]
  /\ \A k \in 1 .. Len(v.members) : v.members[k] = Member(v.members[k].key, v.members[k].val)

LEMMA NodeShape ==
  ASSUME NEW v, IsNode(v)
  PROVE  /\ IsShaped(v)
         /\ v.kind \in {"scalar", "array", "object"}
         /\ v.kind = "array" =>
              v = Arr(Vals(v)) /\ \A k \in 1 .. Len(v.members) : v.members[k].key = ToString(k - 1)
         /\ v.kind = "scalar" => v.members = << >>
         /\ v.kind # "scalar" => v.atom = ""
<1>0. Len(v.members) \in Nat /\ DOMAIN v.members = 1 .. Len(v.members)
  BY DEF IsNode
<1>1. CASE v = Leaf(v.atom)
  <2>1. PICK a : a = v.atom
    OBVIOUS
  <2>2. v.kind = "scalar" /\ v.members = << >>
        /\ v = [kind |-> "scalar", atom |-> a, members |-> << >>]
    BY <2>1, <1>1 DEF Leaf
  <2>3. v = [kind |-> v.kind, atom |-> v.atom, members |-> v.members]
    BY <2>1, <2>2, Zenon
  <2>4. Len(v.members) = 0
    BY <2>2
  <2> QED
    BY <2>2, <2>3, <2>4, <1>0 DEF IsShaped
<1>2. CASE v = Arr(Vals(v))
  <2>1. /\ v = [kind |-> v.kind, atom |-> v.atom, members |-> v.members]
        /\ v.kind = "array" /\ v.atom = ""
        /\ \A k \in 1 .. Len(v.members) : v.members[k] = Member(ToString(k - 1), v.members[k].val)
    BY <1>2, AnArray
  <2>2. ASSUME NEW k \in 1 .. Len(v.members) PROVE v.members[k].key = ToString(k - 1)
    <3>1. PICK m : m = v.members[k] /\ m = Member(ToString(k - 1), m.val)
      BY <2>1
    <3>2. Member(ToString(k - 1), m.val).key = ToString(k - 1)
      BY MemberFields
    <3> QED
      BY <3>1, <3>2, Zenon
  <2>3. v.members = [k \in 1 .. Len(v.members) |-> v.members[k]]
    <3>1. PICK w : w = Vals(v)
      OBVIOUS
    <3>2. v.members = [k \in 1 .. Len(w) |-> Member(ToString(k - 1), w[k])]
      BY <3>1, <1>2, ArrFields
    <3> QED
      BY <3>2, <1>0
  <2> QED
    BY <2>1, <2>2, <2>3, <1>0, <1>2 DEF IsShaped
<1>3. CASE v = Obj([k \in DOMAIN v.members |-> Member(v.members[k].key, v.members[k].val)])
  <2>1. /\ v = [kind |-> v.kind, atom |-> v.atom, members |-> v.members]
        /\ v.kind = "object" /\ v.atom = ""
        /\ \A k \in 1 .. Len(v.members) :
              v.members[k] = Member(v.members[k].key, v.members[k].val)
    BY <1>3, AnObject
  <2>2. PICK ms : ms = [k \in DOMAIN v.members |-> Member(v.members[k].key, v.members[k].val)]
    OBVIOUS
  <2>3. v.members = ms
    BY <1>3, <2>2, ObjFields
  <2>4. v.members = [k \in 1 .. Len(v.members) |-> v.members[k]]
    BY <2>2, <2>3, <1>0
  <2> QED
    BY <2>1, <2>4, <1>0 DEF IsShaped
<1> QED
  BY <1>1, <1>2, <1>3 DEF IsNode

LEMMA NodeIsSomething ==
  ASSUME NEW v, IsNode(v)
  PROVE  v # Nowhere /\ v # Malformed
<1>1. v.kind \in {"scalar", "array", "object"}
  BY NodeShape
<1> QED
  BY <1>1, NoKind

-----------------------------------------------------------------------------
(* The position a key leads to: the first one that has it.                   *)
LEMMA FirstOfKey ==
  ASSUME NEW v, Len(v.members) \in Nat, DOMAIN v.members = 1 .. Len(v.members),
         NEW key, key \in KeysOf(v)
  PROVE  /\ FirstMember(v, key) \in 1 .. Len(v.members)
         /\ KeyOf(v.members[FirstMember(v, key)]) = key
         /\ \A j \in 1 .. FirstMember(v, key) - 1 : KeyOf(v.members[j]) # key
<1> DEFINE T == {k \in 1 .. Len(v.members) : KeyOf(v.members[k]) = key}
<1>1. T \subseteq Nat /\ T # {}
  BY DEF KeysOf
<1>2. PICK k \in T : \A j \in T : k =< j
  BY <1>1, NatMin
<1>3. ASSUME NEW j \in 1 .. k - 1 PROVE KeyOf(v.members[j]) # key
  <2>1. j \in 1 .. Len(v.members) /\ ~(k =< j)
    BY <1>2
  <2> QED
    BY <2>1, <1>2
<1>4. k \in DOMAIN v.members /\ KeyOf(v.members[k]) = key
  BY <1>2
<1>5. \E i \in DOMAIN v.members :
        KeyOf(v.members[i]) = key /\ \A j \in 1 .. i - 1 : KeyOf(v.members[j]) # key
  BY <1>3, <1>4, Zenon
<1>6. /\ FirstMember(v, key) \in DOMAIN v.members
      /\ KeyOf(v.members[FirstMember(v, key)]) = key
      /\ \A j \in 1 .. FirstMember(v, key) - 1 : KeyOf(v.members[j]) # key
  BY <1>5, Zenon DEF FirstMember
<1> QED
  BY <1>6

(* There is no other such position.                                          *)
LEMMA FirstIsTheOne ==
  ASSUME NEW v, Len(v.members) \in Nat, DOMAIN v.members = 1 .. Len(v.members),
         NEW k \in 1 .. Len(v.members), \A j \in 1 .. k - 1 : KeyOf(v.members[j]) # KeyOf(v.members[k])
  PROVE  KeyOf(v.members[k]) \in KeysOf(v) /\ FirstMember(v, KeyOf(v.members[k])) = k
<1>1. PICK key : key = KeyOf(v.members[k])
  OBVIOUS
<1>2. key \in KeysOf(v)
  BY <1>1 DEF KeysOf
<1>3. PICK i : i = FirstMember(v, key)
  OBVIOUS
<1>4. /\ i \in 1 .. Len(v.members) /\ KeyOf(v.members[i]) = key
      /\ \A j \in 1 .. i - 1 : KeyOf(v.members[j]) # key
  BY <1>2, <1>3, FirstOfKey
<1>5. ~(i < k)
  <2>1. i < k => i \in 1 .. k - 1
    BY <1>4
  <2> QED
    BY <2>1, <1>1, <1>4
<1>6. ~(k < i)
  <2>1. k < i => k \in 1 .. i - 1
    BY <1>4
  <2> QED
    BY <2>1, <1>1, <1>4
<1> QED
  BY <1>1, <1>2, <1>3, <1>4, <1>5, <1>6

(* Nodes with the same keys in the same places lead a token to the same one. *)
SameKeys(u, v) ==
  /\ u.kind = v.kind /\ Len(u.members) = Len(v.members)
  /\ Len(v.members) \in Nat
  /\ DOMAIN u.members = 1 .. Len(v.members) /\ DOMAIN v.members = 1 .. Len(v.members)
  /\ \A k \in 1 .. Len(v.members) : KeyOf(u.members[k]) = KeyOf(v.members[k])

LEMMA SameKeysSameChild ==
  ASSUME NEW u, NEW v, SameKeys(u, v)
  PROVE  KeysOf(u) = KeysOf(v) /\ \A token : ChildAt(u, token) = ChildAt(v, token)
<1>1. KeysOf(u) = KeysOf(v)
  BY DEF SameKeys, KeysOf
<1>2. ASSUME NEW token \in KeysOf(v) PROVE FirstMember(u, token) = FirstMember(v, token)
  <2>1. PICK k : k = FirstMember(v, token)
    OBVIOUS
  <2>2. /\ k \in 1 .. Len(v.members) /\ KeyOf(v.members[k]) = token
        /\ \A j \in 1 .. k - 1 : KeyOf(v.members[j]) # token
    BY <2>1, FirstOfKey DEF SameKeys
  <2>3. Len(u.members) \in Nat /\ DOMAIN u.members = 1 .. Len(u.members) /\ k \in 1 .. Len(u.members)
    BY <2>2 DEF SameKeys
  <2>4. KeyOf(u.members[k]) = token
    BY <2>2 DEF SameKeys
  <2>5. \A j \in 1 .. k - 1 : KeyOf(u.members[j]) # KeyOf(u.members[k])
    <3>1. \A j \in 1 .. k - 1 : j \in 1 .. Len(v.members)
      BY <2>2, <2>3
    <3> QED
      BY <3>1, <2>2, <2>4 DEF SameKeys
  <2>6. FirstMember(u, KeyOf(u.members[k])) = k
    BY <2>3, <2>5, FirstIsTheOne
  <2> QED
    BY <2>1, <2>4, <2>6
<1>3. ASSUME NEW token PROVE ChildAt(u, token) = ChildAt(v, token)
  <2>1. u.kind = v.kind /\ Len(u.members) = Len(v.members)
    BY DEF SameKeys
  <2> QED
    BY <2>1, <1>1, <1>2, Zenon DEF ChildAt
<1> QED
  BY <1>1, <1>3

(* A token names a member, or none.                                          *)
LEMMA ChildAtRange ==
  ASSUME NEW v, Len(v.members) \in Nat, DOMAIN v.members = 1 .. Len(v.members), NEW token
  PROVE  ChildAt(v, token) \in 0 .. Len(v.members)
<1>1. CASE v.kind = "array" /\ token \in DOMAIN Digits
  <2>1. ParseIndex(token) \in Nat
    BY <1>1, IndexNat
  <2> QED
    BY <1>1, <2>1 DEF ChildAt
<1>2. CASE v.kind = "object" /\ token \in KeysOf(v)
  <2>1. FirstMember(v, token) \in 1 .. Len(v.members)
    BY <1>2, FirstOfKey
  <2>2. ChildAt(v, token) = FirstMember(v, token)
    BY <1>2 DEF ChildAt
  <2> QED
    BY <2>1, <2>2
<1>3. CASE ~(v.kind = "array" /\ token \in DOMAIN Digits) /\ ~(v.kind = "object" /\ token \in KeysOf(v))
  BY <1>3 DEF ChildAt
<1> QED
  BY <1>1, <1>2, <1>3

-----------------------------------------------------------------------------
(* A node with another value in the place a token names: the same keys, that *)
(* value there, and the other values as they were.                           *)
Except(v, i, x) ==
  [kind |-> v.kind, atom |-> v.atom,
   members |-> [k \in 1 .. Len(v.members) |->
                  IF k = i THEN Member(v.members[k].key, x) ELSE v.members[k]]]

Changes(u, v, i, x) ==
  /\ u.kind = v.kind /\ u.atom = v.atom /\ Len(u.members) = Len(v.members)
  /\ DOMAIN u.members = 1 .. Len(v.members)
  /\ \A k \in 1 .. Len(v.members) :
       u.members[k] = IF k = i THEN Member(v.members[k].key, x) ELSE v.members[k]

LEMMA ExceptFields ==
  ASSUME NEW v, NEW i, NEW x, Len(v.members) \in Nat
  PROVE  /\ Changes(Except(v, i, x), v, i, x)
         /\ Except(v, i, x).members =
              [k \in 1 .. Len(v.members) |-> Except(v, i, x).members[k]]
         /\ Except(v, i, x) = [kind |-> v.kind, atom |-> v.atom, members |-> Except(v, i, x).members]
BY DEF Except, Changes

LEMMA ExceptIs ==
  ASSUME NEW v, IsShaped(v), NEW i \in 1 .. Len(v.members), NEW x
  PROVE  [v EXCEPT !.members[i].val = x] = Except(v, i, x)
<1>1. PICK k0, a0, ms : k0 = v.kind /\ a0 = v.atom /\ ms = v.members
  OBVIOUS
<1>2. v = [kind |-> k0, atom |-> a0, members |-> ms]
  BY <1>1, Zenon DEF IsShaped
<1>3. ms = [k \in 1 .. Len(ms) |-> ms[k]] /\ ms[i] = [key |-> ms[i].key, val |-> ms[i].val]
  BY <1>1 DEF IsShaped, Member
<1>4. [ms[i] EXCEPT !.val = x] = [key |-> ms[i].key, val |-> x]
  BY <1>3
<1>5. [ms EXCEPT ![i].val = x] =
        [k \in 1 .. Len(ms) |-> IF k = i THEN [key |-> ms[k].key, val |-> x] ELSE ms[k]]
  BY <1>3, <1>4, <1>1
<1>6. [v EXCEPT !.members[i].val = x] =
        [kind |-> k0, atom |-> a0, members |-> [ms EXCEPT ![i].val = x]]
  <2>1. v.members = ms /\ v.members[i] = ms[i]
    BY <1>1
  <2>2. PICK new : new = [ms EXCEPT ![i] = [ms[i] EXCEPT !.val = x]]
    OBVIOUS
  <2>3. [v EXCEPT !.members = new] = [kind |-> k0, atom |-> a0, members |-> new]
    BY <1>2
  <2> QED
    BY <2>1, <2>2, <2>3, Zenon
<1> QED
  BY <1>1, <1>5, <1>6, Zenon DEF Except, Member

LEMMA WithChildIs ==
  ASSUME NEW v, IsShaped(v), NEW token, NEW x, ChildAt(v, token) # 0
  PROVE  /\ ChildAt(v, token) \in 1 .. Len(v.members)
         /\ WithChild(v, token, x) = Except(v, ChildAt(v, token), x)
<1>1. PICK i : i = ChildAt(v, token)
  OBVIOUS
<1>2. i \in 1 .. Len(v.members)
  BY <1>1, ChildAtRange DEF IsShaped
<1> QED
  BY <1>1, <1>2, ExceptIs, Zenon DEF WithChild

LEMMA ExceptShaped ==
  ASSUME NEW v, IsShaped(v), NEW i \in 1 .. Len(v.members), NEW x
  PROVE  IsShaped(Except(v, i, x)) /\ SameKeys(Except(v, i, x), v)
<1>a. Len(v.members) \in Nat /\ DOMAIN v.members = 1 .. Len(v.members)
  BY DEF IsShaped
<1>b. PICK u : u = Except(v, i, x)
  OBVIOUS
<1>1. /\ u.kind = v.kind /\ u.atom = v.atom /\ Len(u.members) = Len(v.members)
      /\ DOMAIN u.members = 1 .. Len(v.members)
      /\ u.members = [k \in 1 .. Len(v.members) |-> u.members[k]]
      /\ u = [kind |-> v.kind, atom |-> v.atom, members |-> u.members]
      /\ \A k \in 1 .. Len(v.members) :
           u.members[k] = IF k = i THEN Member(v.members[k].key, x) ELSE v.members[k]
  BY <1>a, <1>b, ExceptFields DEF Changes
<1>2. ASSUME NEW k \in 1 .. Len(v.members)
      PROVE  /\ u.members[k] = Member(u.members[k].key, u.members[k].val)
             /\ u.members[k].key = v.members[k].key
  <2>1. CASE k = i
    <3>1. PICK key : key = v.members[k].key
      OBVIOUS
    <3>2. u.members[k] = Member(key, x)
      BY <2>1, <1>1, <3>1
    <3>3. u.members[k].key = key /\ u.members[k].val = x
      BY <3>2, MemberFields
    <3> QED
      BY <3>1, <3>2, <3>3, Zenon
  <2>2. CASE k # i
    <3>1. u.members[k] = v.members[k]
      BY <2>2, <1>1
    <3>2. v.members[k] = Member(v.members[k].key, v.members[k].val)
      BY Zenon DEF IsShaped
    <3> QED
      BY <3>1, <3>2, Zenon
  <2> QED
    BY <2>1, <2>2
<1>3. ASSUME NEW k \in 1 .. Len(v.members) PROVE KeyOf(u.members[k]) = KeyOf(v.members[k])
  BY <1>2, Zenon DEF KeyOf
<1>4. IsShaped(u)
  <2>1. u = [kind |-> u.kind, atom |-> u.atom, members |-> u.members]
    BY <1>1, Zenon
  <2>2. Len(u.members) \in Nat /\ DOMAIN u.members = 1 .. Len(u.members)
    BY <1>1, <1>a
  <2>3. u.members = [k \in 1 .. Len(u.members) |-> u.members[k]]
    BY <1>1, Zenon
  <2>4. \A k \in 1 .. Len(u.members) : u.members[k] = Member(u.members[k].key, u.members[k].val)
    BY <1>1, <1>2, Zenon
  <2> QED
    BY <2>1, <2>2, <2>3, <2>4, Zenon DEF IsShaped
<1>5. SameKeys(u, v)
  BY <1>1, <1>3, <1>a, Zenon DEF SameKeys
<1> QED
  BY <1>b, <1>4, <1>5

(* The value put there is the one read there.                                *)
LEMMA WithChildReads ==
  ASSUME NEW v, IsShaped(v), NEW token, NEW x, ChildAt(v, token) # 0
  PROVE  /\ ChildAt(WithChild(v, token, x), token) = ChildAt(v, token)
         /\ Child(WithChild(v, token, x), token) = x
         /\ IsShaped(WithChild(v, token, x))
<1>1. PICK i : i = ChildAt(v, token)
  OBVIOUS
<1>2. i \in 1 .. Len(v.members) /\ i # 0
  BY <1>1, WithChildIs
<1>3. PICK u : u = Except(v, i, x)
  OBVIOUS
<1>3a. u = WithChild(v, token, x)
  BY <1>1, <1>3, WithChildIs
<1>4. IsShaped(u) /\ SameKeys(u, v)
  BY <1>2, <1>3, ExceptShaped
<1>5. ChildAt(u, token) = i
  BY <1>4, <1>1, SameKeysSameChild
<1>6. u.members[i].val = x
  <2>1. Len(v.members) \in Nat
    BY DEF IsShaped
  <2>2. u.members[i] = Member(v.members[i].key, x)
    <3>1. Changes(u, v, i, x)
      BY <1>3, <2>1, ExceptFields, Zenon
    <3> QED
      BY <3>1, <1>2 DEF Changes
  <2> QED
    BY <2>2, MemberFields
<1>7. Child(u, token) = x
  BY <1>5, <1>6, <1>2, Zenon DEF Child
<1> QED
  BY <1>1, <1>3a, <1>4, <1>5, <1>7, Zenon

(* Putting back what was there gives the node back.                          *)
LEMMA WithChildBack ==
  ASSUME NEW v, IsShaped(v), NEW token, NEW x, ChildAt(v, token) # 0
  PROVE  WithChild(WithChild(v, token, x), token, Child(v, token)) = v
<1>1. PICK i : i = ChildAt(v, token)
  OBVIOUS
<1>2. i \in 1 .. Len(v.members) /\ i # 0
  BY <1>1, WithChildIs
<1>3. PICK u : u = WithChild(v, token, x)
  OBVIOUS
<1>4. PICK y : y = Child(v, token)
  OBVIOUS
<1>5. y = v.members[i].val
  BY <1>1, <1>2, <1>4, Zenon DEF Child
<1>6. u = Except(v, i, x) /\ ChildAt(u, token) = i /\ IsShaped(u)
  BY <1>1, <1>2, <1>3, WithChildIs, WithChildReads
<1>7. WithChild(u, token, y) = Except(u, i, y)
  BY <1>6, <1>2, WithChildIs
<1>a. Len(v.members) \in Nat
  BY DEF IsShaped
<1>8. /\ u.kind = v.kind /\ u.atom = v.atom /\ Len(u.members) = Len(v.members)
      /\ \A k \in 1 .. Len(v.members) :
           u.members[k] = IF k = i THEN Member(v.members[k].key, x) ELSE v.members[k]
  <2>1. Changes(u, v, i, x)
    BY <1>6, <1>a, ExceptFields, Zenon
  <2> QED
    BY <2>1 DEF Changes
<1>9. PICK ms : ms = [k \in 1 .. Len(u.members) |->
                  IF k = i THEN Member(u.members[k].key, y) ELSE u.members[k]]
  OBVIOUS
<1>10. ASSUME NEW k \in 1 .. Len(v.members) PROVE ms[k] = v.members[k]
  <2>1. CASE k = i
    <3>1. PICK key : key = v.members[k].key
      OBVIOUS
    <3>2. u.members[k] = Member(key, x)
      BY <3>1, <2>1, <1>8
    <3>3. u.members[k].key = key
      BY <3>2, MemberFields
    <3>4. ms[k] = Member(key, y)
      BY <3>3, <2>1, <1>8, <1>9
    <3>5. v.members[k] = Member(key, y)
      BY <3>1, <2>1, <1>5, Zenon DEF IsShaped
    <3> QED
      BY <3>4, <3>5
  <2>2. CASE k # i
    BY <2>2, <1>8, <1>9
  <2> QED
    BY <2>1, <2>2
<1>11. ms = v.members
  <2>1. v.members = [k \in 1 .. Len(v.members) |-> v.members[k]]
    BY Zenon DEF IsShaped
  <2>2. ms = [k \in 1 .. Len(v.members) |-> ms[k]]
    BY <1>8, <1>9
  <2> QED
    BY <2>1, <2>2, <1>10
<1>12. Except(u, i, y) = [kind |-> v.kind, atom |-> v.atom, members |-> ms]
  BY <1>8, <1>9, Zenon DEF Except
<1>13. v = [kind |-> v.kind, atom |-> v.atom, members |-> v.members]
  BY Zenon DEF IsShaped
<1> QED
  BY <1>3, <1>4, <1>7, <1>11, <1>12, <1>13, Zenon

-----------------------------------------------------------------------------
(* Walks: one step at a time, and through nodes only.                        *)
LEMMA WalkSteps ==
  ASSUME NEW v, NEW p, Len(p) \in Nat
  PROVE  Walks(Walk(v, p), Len(p), v, p)
<1>1. PICK f : Walks(f, Len(p), v, p) /\ Walk(v, p) = f
  BY WalkLoop
<1> QED
  BY <1>1, Zenon

\* The walk ends somewhere: each of its nodes leads on to the next.
OnPath(v, p) ==
  /\ Len(p) \in Nat
  /\ \A k \in 0 .. Len(p) : IsShaped(Walk(v, p)[k])
  /\ \A k \in 0 .. Len(p) - 1 : ChildAt(Walk(v, p)[k], p[k + 1]) # 0

\* The nodes on the way, from k tokens on, are rebuilt around the next one.
IsRebuilt(new, v, p, k) ==
  Walk(new, p)[k] = WithChild(Walk(v, p)[k], p[k + 1], Walk(new, p)[k + 1])

IsTurn(f, N, v, p, k) ==
  f[N - k] = WithChild(Walk(v, p)[k], p[k + 1], f[N - (k + 1)])

LEMMA RebuildTurn ==
  ASSUME NEW v, NEW p, NEW node, NEW N \in Nat, N = Len(p),
         NEW f, Rebuilds(f, N, v, p, node), NEW k \in 0 .. N - 1
  PROVE  IsTurn(f, N, v, p, k)
<1>1. PICK j : j = N - k /\ j \in 1 .. N /\ N - j = k /\ N - j + 1 = k + 1 /\ j - 1 = N - (k + 1)
  OBVIOUS
<1>2. f[j] = WithChild(Walk(v, p)[N - j], p[N - j + 1], f[j - 1])
  BY <1>1, Zenon DEF Rebuilds
<1> QED
  BY <1>1, <1>2, Zenon DEF IsTurn

(* The pointer walks the rebuilt document the same way, to the new node.     *)
LEMMA Rebuilt ==
  ASSUME NEW v, NEW p, OnPath(v, p), NEW node
  PROVE  /\ Walk(Replaced(v, p, node), p)[Len(p)] = node
         /\ \A k \in 0 .. Len(p) - 1 : IsRebuilt(Replaced(v, p, node), v, p, k)
<1>1. PICK N \in Nat : N = Len(p)
  BY DEF OnPath
<1>2. PICK f : Rebuilds(f, N, v, p, node) /\ Replaced(v, p, node) = f[N]
  BY <1>1, ReplacedLoop, Zenon
<1>3. PICK new : new = Replaced(v, p, node)
  OBVIOUS
<1>4. PICK w, z : w = Walk(v, p) /\ z = Walk(new, p)
  OBVIOUS
<1>5. z[0] = new /\ \A k \in 1 .. N : z[k] = Child(z[k - 1], p[k])
  <2>1. Walks(z, N, new, p)
    BY <1>1, <1>4, WalkSteps, Zenon
  <2> QED
    BY <2>1, Zenon DEF Walks
<1>6. \A k \in 0 .. N - 1 : /\ IsShaped(w[k]) /\ ChildAt(w[k], p[k + 1]) # 0
  BY <1>1, <1>4 DEF OnPath
<1>7. ASSUME NEW k \in 0 .. N - 1 PROVE f[N - k] = WithChild(w[k], p[k + 1], f[N - (k + 1)])
  <2>1. IsTurn(f, N, v, p, k)
    BY <1>1, <1>2, RebuildTurn, Zenon
  <2> QED
    BY <2>1, <1>4, Zenon DEF IsTurn
<1> DEFINE S == {k \in Nat : k =< N => z[k] = f[N - k]}
<1>8. 0 \in S
  BY <1>2, <1>3, <1>5
<1>9. ASSUME NEW k \in Nat, k \in S PROVE k + 1 \in S
  <2>1. CASE k + 1 =< N
    <3>1. k \in 0 .. N - 1 /\ k + 1 \in 1 .. N /\ k + 1 - 1 = k /\ z[k] = f[N - k]
      BY <2>1, <1>9
    <3>2. z[k + 1] = Child(f[N - k], p[k + 1])
      BY <3>1, <1>5
    <3>3. f[N - k] = WithChild(w[k], p[k + 1], f[N - (k + 1)])
      BY <3>1, <1>7
    <3>4. IsShaped(w[k]) /\ ChildAt(w[k], p[k + 1]) # 0
      BY <3>1, <1>6
    <3>5. Child(WithChild(w[k], p[k + 1], f[N - (k + 1)]), p[k + 1]) = f[N - (k + 1)]
      BY <3>4, WithChildReads
    <3> QED
      BY <3>2, <3>3, <3>5
  <2> QED
    BY <2>1
<1>10. \A k \in 0 .. N : z[k] = f[N - k]
  <2>1. \A k \in Nat : k \in S
    <3> HIDE DEF S
    <3> QED
      BY <1>8, <1>9, NatInd
  <2> QED
    BY <2>1
<1>11. z[N] = node
  <2>1. z[N] = f[N - N] /\ N - N = 0
    BY <1>10
  <2>2. f[0] = node
    BY <1>2, Zenon DEF Rebuilds
  <2> QED
    BY <2>1, <2>2
<1>12. ASSUME NEW k \in 0 .. N - 1 PROVE z[k] = WithChild(w[k], p[k + 1], z[k + 1])
  <2>1. k \in 0 .. N /\ k + 1 \in 0 .. N
    OBVIOUS
  <2>2. z[k] = f[N - k] /\ z[k + 1] = f[N - (k + 1)]
    BY <2>1, <1>10, Zenon
  <2> QED
    BY <2>2, <1>7, Zenon
<1> QED
  BY <1>1, <1>3, <1>4, <1>11, <1>12, Zenon DEF IsRebuilt

(* Putting back the node that was there gives the document back.             *)
LEMMA RebuiltBack ==
  ASSUME NEW v, NEW p, OnPath(v, p), NEW node
  PROVE  Replaced(Replaced(v, p, node), p, Walk(v, p)[Len(p)]) = v
<1>1. PICK N \in Nat : N = Len(p)
  BY DEF OnPath
<1>3. PICK new : new = Replaced(v, p, node)
  OBVIOUS
<1>4. PICK w, z : w = Walk(v, p) /\ z = Walk(new, p)
  OBVIOUS
<1>2. PICK f : Rebuilds(f, N, new, p, w[N]) /\ Replaced(new, p, w[N]) = f[N]
  BY <1>1, ReplacedLoop, Zenon
<1>5. w[0] = v /\ \A k \in 1 .. N : w[k] = Child(w[k - 1], p[k])
  <2>1. Walks(w, N, v, p)
    BY <1>1, <1>4, WalkSteps, Zenon
  <2> QED
    BY <2>1, Zenon DEF Walks
<1>6. \A k \in 0 .. N - 1 : /\ IsShaped(w[k]) /\ ChildAt(w[k], p[k + 1]) # 0
  BY <1>1, <1>4 DEF OnPath
<1>7. ASSUME NEW k \in 0 .. N - 1 PROVE f[N - k] = WithChild(z[k], p[k + 1], f[N - (k + 1)])
  <2>1. IsTurn(f, N, new, p, k)
    BY <1>1, <1>2, RebuildTurn, Zenon
  <2> QED
    BY <2>1, <1>4, Zenon DEF IsTurn
<1>8. ASSUME NEW k \in 0 .. N - 1 PROVE z[k] = WithChild(w[k], p[k + 1], z[k + 1])
  <2>1. IsRebuilt(new, v, p, k)
    BY <1>1, <1>3, Rebuilt, Zenon
  <2> QED
    BY <2>1, <1>4, Zenon DEF IsRebuilt
<1> DEFINE S == {k \in Nat : k =< N => f[k] = w[N - k]}
<1>9. 0 \in S
  <2>1. f[0] = w[N]
    BY <1>2, Zenon DEF Rebuilds
  <2>2. N - 0 = N
    OBVIOUS
  <2> QED
    BY <2>1, <2>2
<1>10. ASSUME NEW k \in Nat, k \in S PROVE k + 1 \in S
  <2>1. CASE k + 1 =< N
    <3>1. PICK j \in 0 .. N - 1 : j = N - (k + 1)
      BY <2>1
    <3>2. N - j = k + 1 /\ N - (j + 1) = k /\ N - k = j + 1 /\ j + 1 \in 1 .. N /\ j + 1 - 1 = j
      BY <3>1, <2>1
    <3>3. f[k] = w[j + 1]
      BY <2>1, <1>10, <3>2
    <3>4. f[k + 1] = WithChild(z[j], p[j + 1], w[j + 1])
      <4>1. f[N - j] = WithChild(z[j], p[j + 1], f[N - (j + 1)])
        BY <1>7, Zenon
      <4> QED
        BY <4>1, <3>2, <3>3
    <3>5. w[j + 1] = Child(w[j], p[j + 1])
      BY <3>2, <1>5
    <3>6. z[j] = WithChild(w[j], p[j + 1], z[j + 1])
      BY <1>8, Zenon
    <3>7. IsShaped(w[j]) /\ ChildAt(w[j], p[j + 1]) # 0
      BY <1>6, Zenon
    <3>8. WithChild(WithChild(w[j], p[j + 1], z[j + 1]), p[j + 1], Child(w[j], p[j + 1])) = w[j]
      BY <3>7, WithChildBack
    <3>9. f[k + 1] = w[j]
      BY <3>4, <3>5, <3>6, <3>8, Zenon
    <3> QED
      BY <3>9, <3>1, <2>1
  <2> QED
    BY <2>1
<1>11. N \in S
  <2> HIDE DEF S
  <2> QED
    BY <1>9, <1>10, NatInd
<1>12. f[N] = w[N - N] /\ N - N = 0
  BY <1>11
<1> QED
  BY <1>1, <1>2, <1>3, <1>4, <1>5, <1>12

-----------------------------------------------------------------------------
(* Levels: the first is the value, and each is what is under the one before. *)
LEMMA LevelsAgree ==
  ASSUME NEW v, NEW a \in Nat, NEW b \in Nat, a =< b,
         NEW f, Levels(f, a, v), NEW g, Levels(g, b, v)
  PROVE  f[a] = g[a]
<1>1. f[0] = {v} /\ \A k \in 1 .. a : f[k] = Under(f[k - 1])
  BY Zenon DEF Levels
<1>2. g[0] = {v} /\ \A k \in 1 .. b : g[k] = Under(g[k - 1])
  BY Zenon DEF Levels
<1> DEFINE S == {k \in Nat : k =< a => f[k] = g[k]}
<1>3. 0 \in S
  BY <1>1, <1>2
<1>4. ASSUME NEW k \in Nat, k \in S PROVE k + 1 \in S
  <2>1. CASE k + 1 =< a
    <3>1. k + 1 \in 1 .. a /\ k + 1 \in 1 .. b /\ k + 1 - 1 = k /\ f[k] = g[k]
      BY <2>1, <1>4
    <3>2. f[k + 1] = Under(f[k]) /\ g[k + 1] = Under(g[k])
      BY <3>1, <1>1, <1>2
    <3> QED
      BY <3>1, <3>2
  <2> QED
    BY <2>1
<1>5. a \in S
  <2> HIDE DEF S
  <2> QED
    BY <1>3, <1>4, NatInd
<1> QED
  BY <1>5

LEMMA LevelSteps ==
  ASSUME NEW v, NEW n \in Nat
  PROVE  Level(v, 0) = {v} /\ Level(v, n + 1) = Under(Level(v, n))
<1>1. PICK f : Levels(f, 0, v) /\ Level(v, 0) = f[0]
  BY LevelLoop
<1>2. PICK g : Levels(g, n, v) /\ Level(v, n) = g[n]
  BY LevelLoop
<1>3. PICK m \in Nat : m = n + 1
  OBVIOUS
<1>4. PICK h : Levels(h, m, v) /\ Level(v, m) = h[m]
  BY LevelLoop
<1>5. g[n] = h[n]
  BY <1>2, <1>3, <1>4, LevelsAgree
<1>6. h[m] = Under(h[n])
  <2>1. m \in 1 .. m /\ m - 1 = n
    BY <1>3
  <2> QED
    BY <2>1, <1>4, Zenon DEF Levels
<1>7. f[0] = {v}
  BY <1>1, Zenon DEF Levels
<1> QED
  BY <1>1, <1>2, <1>3, <1>4, <1>5, <1>6, <1>7, Zenon

\* Nodes all the way down.
Document(v) == \A n \in Nat : \A u \in Level(v, n) : IsNode(u)

LEMMA DocumentIsNode == ASSUME NEW v, Document(v) PROVE IsNode(v)
<1>1. 0 \in Nat
  OBVIOUS
<1>2. Level(v, 0) = {v}
  BY <1>1, LevelSteps
<1> QED
  BY <1>1, <1>2, Zenon DEF Document

LEMMA UnderMore == ASSUME NEW A, NEW B, A \subseteq B PROVE Under(A) \subseteq Under(B)
BY DEF Under

(* What is below a member is one level further below its node, and only that *)
(* is.                                                                       *)
LEMMA LevelOfMember ==
  ASSUME NEW v, NEW i \in DOMAIN v.members
  PROVE  \A n \in Nat : Level(v.members[i].val, n) \subseteq Level(v, n + 1)
<1> DEFINE S == {n \in Nat : Level(v.members[i].val, n) \subseteq Level(v, n + 1)}
<1>1. 0 \in S
  <2>1. Level(v, 0) = {v} /\ Level(v, 0 + 1) = Under(Level(v, 0))
    BY LevelSteps
  <2>2. Level(v.members[i].val, 0) = {v.members[i].val}
    BY LevelSteps
  <2> QED
    BY <2>1, <2>2 DEF Under
<1>2. ASSUME NEW n \in Nat, n \in S PROVE n + 1 \in S
  <2>1. PICK m \in Nat : m = n + 1
    OBVIOUS
  <2>2. Level(v, m + 1) = Under(Level(v, m))
    BY <2>1, LevelSteps
  <2>3. Level(v.members[i].val, m) = Under(Level(v.members[i].val, n))
    BY <2>1, LevelSteps
  <2>4. Level(v.members[i].val, n) \subseteq Level(v, m)
    BY <1>2, <2>1
  <2>5. Level(v.members[i].val, m) \subseteq Level(v, m + 1)
    BY <2>2, <2>3, <2>4, UnderMore
  <2> QED
    BY <2>1, <2>5
<1> HIDE DEF S
<1>3. \A n \in Nat : n \in S
  BY <1>1, <1>2, NatInd
<1> QED
  BY <1>3 DEF S

LEMMA LevelIsMembers ==
  ASSUME NEW v
  PROVE  \A n \in Nat : \A u \in Level(v, n + 1) :
           \E i \in DOMAIN v.members : u \in Level(v.members[i].val, n)
<1> DEFINE S == {n \in Nat : \A u \in Level(v, n + 1) :
                               \E i \in DOMAIN v.members : u \in Level(v.members[i].val, n)}
<1>1. 0 \in S
  <2>1. Level(v, 0) = {v} /\ Level(v, 0 + 1) = Under(Level(v, 0))
    BY LevelSteps
  <2>2. ASSUME NEW u \in Level(v, 0 + 1)
        PROVE  \E i \in DOMAIN v.members : u \in Level(v.members[i].val, 0)
    <3>1. PICK i \in DOMAIN v.members : u = v.members[i].val
      BY <2>1 DEF Under
    <3>2. Level(v.members[i].val, 0) = {v.members[i].val}
      BY LevelSteps
    <3> QED
      BY <3>1, <3>2
  <2> QED
    BY <2>2
<1>2. ASSUME NEW n \in Nat, n \in S PROVE n + 1 \in S
  <2>1. PICK m \in Nat : m = n + 1
    OBVIOUS
  <2>2. Level(v, m + 1) = Under(Level(v, m))
    BY <2>1, LevelSteps
  <2>3. ASSUME NEW u \in Level(v, m + 1)
        PROVE  \E i \in DOMAIN v.members : u \in Level(v.members[i].val, m)
    <3>1. PICK x \in Level(v, m) : u \in Under({x})
      BY <2>2, <2>3 DEF Under
    <3>2. PICK i \in DOMAIN v.members : x \in Level(v.members[i].val, n)
      BY <1>2, <2>1
    <3>3. Level(v.members[i].val, m) = Under(Level(v.members[i].val, n))
      BY <2>1, LevelSteps
    <3>4. {x} \subseteq Level(v.members[i].val, n)
      BY <3>2
    <3>5. u \in Level(v.members[i].val, m)
      BY <3>1, <3>3, <3>4, UnderMore
    <3> QED
      BY <3>5
  <2> QED
    BY <2>1, <2>3
<1> HIDE DEF S
<1>3. \A n \in Nat : n \in S
  BY <1>1, <1>2, NatInd
<1> QED
  BY <1>3 DEF S

(* So a document's members are documents, and a node of documents is one.    *)
LEMMA MembersAreDocuments ==
  ASSUME NEW v, Document(v), NEW i \in DOMAIN v.members
  PROVE  Document(v.members[i].val)
<1> SUFFICES ASSUME NEW n \in Nat, NEW u \in Level(v.members[i].val, n) PROVE IsNode(u)
  BY Zenon DEF Document
<1>1. u \in Level(v, n + 1)
  BY LevelOfMember
<1>2. n + 1 \in Nat
  OBVIOUS
<1> QED
  BY <1>1, <1>2, Zenon DEF Document

LEMMA NodeOfDocuments ==
  ASSUME NEW v, IsNode(v), \A i \in DOMAIN v.members : Document(v.members[i].val)
  PROVE  Document(v)
<1> SUFFICES ASSUME NEW n \in Nat, NEW u \in Level(v, n) PROVE IsNode(u)
  BY Zenon DEF Document
<1>1. CASE n = 0
  <2>1. Level(v, 0) = {v}
    BY <1>1, LevelSteps
  <2> QED
    BY <1>1, <2>1
<1>2. CASE n # 0
  <2>1. PICK m \in Nat : n = m + 1
    <3>1. n - 1 \in Nat /\ n = n - 1 + 1
      BY <1>2
    <3> QED
      BY <3>1
  <2>2. PICK i \in DOMAIN v.members : u \in Level(v.members[i].val, m)
    BY <2>1, LevelIsMembers
  <2> QED
    BY <2>2, Zenon DEF Document
<1> QED
  BY <1>1, <1>2

-----------------------------------------------------------------------------
(* Sequences with one element more, one changed, or one less.                *)
IsAppended(t, s, e) ==
  /\ Len(t) = Len(s) + 1
  /\ \A k \in 1 .. Len(s) : t[k] = s[k]
  /\ t[Len(s) + 1] = e

LEMMA Appended ==
  ASSUME NEW S, NEW s \in Seq(S), NEW e
  PROVE  Append(s, e) \in Seq(S \cup {e}) /\ IsAppended(Append(s, e), s, e)
<1>1. PICK T : T = S \cup {e}
  OBVIOUS
<1>2. s \in Seq(T) /\ e \in T
  BY <1>1
<1> QED
  BY <1>1, <1>2, AppendProperties DEF IsAppended

IsWithout(t, s, i) ==
  /\ Len(t) = Len(s) - 1
  /\ \A k \in 1 .. Len(s) - 1 : t[k] = IF k < i THEN s[k] ELSE s[k + 1]

LEMMA Without ==
  ASSUME NEW S, NEW s \in Seq(S), NEW i \in 1 .. Len(s)
  PROVE  Seqs!RemoveAt(s, i) \in Seq(S) /\ IsWithout(Seqs!RemoveAt(s, i), s, i)
<1>1. PICK n \in Nat : n = Len(s) /\ i \in 1 .. n
  BY LenProperties
<1>2. \A k \in 1 .. n : s[k] \in S
  BY <1>1
<1>3. PICK a : a = SubSeq(s, 1, i - 1)
  OBVIOUS
<1>4. PICK b : b = SubSeq(s, i + 1, n)
  OBVIOUS
<1>5. a \in Seq(S) /\ Len(a) = i - 1 /\ \A k \in 1 .. i - 1 : a[k] = s[k]
  <2>1. \A k \in 1 .. i - 1 : s[k] \in S
    BY <1>1, <1>2
  <2>2. 1 \in Int /\ i - 1 \in Int
    BY <1>1
  <2> QED
    BY <2>1, <2>2, <1>1, <1>3, SubSeqProperties
<1>6. b \in Seq(S) /\ Len(b) = n - i /\ \A k \in 1 .. n - i : b[k] = s[i + k]
  <2>1. \A k \in i + 1 .. n : s[k] \in S
    BY <1>1, <1>2
  <2>2. i + 1 \in Int /\ n \in Int
    BY <1>1
  <2>3. /\ SubSeq(s, i + 1, n) \in Seq(S)
        /\ Len(SubSeq(s, i + 1, n)) = IF i + 1 <= n THEN n - (i + 1) + 1 ELSE 0
        /\ \A k \in 1 .. n - (i + 1) + 1 : SubSeq(s, i + 1, n)[k] = s[i + 1 + k - 1]
    BY <2>1, <2>2, SubSeqProperties
  <2>4. Len(b) = n - i /\ b \in Seq(S)
    BY <2>3, <1>1, <1>4
  <2>5. ASSUME NEW k \in 1 .. n - i PROVE b[k] = s[i + k]
    <3>1. k \in 1 .. n - (i + 1) + 1 /\ i + 1 + k - 1 = i + k
      BY <1>1
    <3>2. b[k] = s[i + 1 + k - 1]
      BY <3>1, <2>3, <1>4, Zenon
    <3> QED
      BY <3>1, <3>2, Zenon
  <2> QED
    BY <2>4, <2>5
<1>7. PICK c : c = a \o b
  OBVIOUS
<1>8. c \in Seq(S) /\ Len(c) = n - 1
  <2>1. a \o b \in Seq(S) /\ Len(a \o b) = Len(a) + Len(b)
    BY <1>5, <1>6, ConcatProperties
  <2>2. c \in Seq(S) /\ Len(c) = Len(a) + Len(b)
    BY <2>1, <1>7, Zenon
  <2>3. Len(a) = i - 1 /\ Len(b) = n - i /\ i - 1 + (n - i) = n - 1
    BY <1>1, <1>5, <1>6
  <2> QED
    BY <2>2, <2>3, Zenon
<1>9. ASSUME NEW k \in 1 .. n - 1 PROVE c[k] = IF k < i THEN s[k] ELSE s[k + 1]
  <2>1. c[k] = IF k <= i - 1 THEN a[k] ELSE b[k - (i - 1)]
    BY <1>1, <1>5, <1>6, <1>7, ConcatProperties
  <2>2. CASE k < i
    BY <2>1, <2>2, <1>1, <1>5
  <2>3. CASE ~(k < i)
    <3>1. PICK j \in 1 .. n - i : j = k - (i - 1) /\ i + j = k + 1
      BY <2>3, <1>1
    <3>2. c[k] = b[j]
      BY <2>1, <2>3, <3>1, <1>1
    <3>3. b[j] = s[i + j]
      BY <1>6, Zenon
    <3> QED
      BY <3>1, <3>2, <3>3, <2>3
  <2> QED
    BY <2>2, <2>3
<1>10. Seqs!RemoveAt(s, i) = c
  BY <1>1, <1>3, <1>4, <1>7, Zenon DEF Seqs!RemoveAt
<1> QED
  BY <1>1, <1>8, <1>9, <1>10 DEF IsWithout

(* What is appended last and removed again leaves nothing.                   *)
LEMMA AppendedThenRemoved ==
  ASSUME NEW S, NEW s \in Seq(S), NEW e
  PROVE  Seqs!RemoveAt(Append(s, e), Len(s) + 1) = s
<1>1. PICK n \in Nat : n = Len(s)
  BY LenProperties
<1>2. PICK t, T : t = Append(s, e) /\ T = S \cup {e}
  OBVIOUS
<1>3. t \in Seq(T) /\ IsAppended(t, s, e) /\ s \in Seq(T)
  <2>1. Append(s, e) \in Seq(S \cup {e}) /\ IsAppended(Append(s, e), s, e)
    BY Appended
  <2>2. s \in Seq(S \cup {e})
    OBVIOUS
  <2> QED
    BY <1>2, <2>1, <2>2, Zenon
<1>4. n + 1 \in 1 .. Len(t)
  BY <1>1, <1>3 DEF IsAppended
<1>5. PICK u : u = Seqs!RemoveAt(t, n + 1)
  OBVIOUS
<1>6. u \in Seq(T) /\ IsWithout(u, t, n + 1)
  BY <1>3, <1>4, <1>5, Without
<1>7. Len(u) = n
  BY <1>6, <1>3, <1>1 DEF IsWithout, IsAppended
<1>8. ASSUME NEW k \in 1 .. n PROVE u[k] = s[k]
  <2>1. k \in 1 .. Len(t) - 1 /\ k < n + 1
    BY <1>1, <1>3 DEF IsAppended
  <2>2. u[k] = t[k]
    BY <2>1, <1>6 DEF IsWithout
  <2> QED
    BY <2>2, <1>1, <1>3 DEF IsAppended
<1>9. u = s
  BY <1>1, <1>3, <1>6, <1>7, <1>8, SeqEqual
<1> QED
  BY <1>1, <1>2, <1>5, <1>9

-----------------------------------------------------------------------------
(* The nodes the writes build, of what they are given.                       *)
LEMMA ShapedObject ==
  ASSUME NEW v, IsShaped(v), v.kind = "object", v.atom = ""
  PROVE  IsNode(v)
<1>1. PICK ms : ms = [k \in DOMAIN v.members |-> Member(v.members[k].key, v.members[k].val)]
  OBVIOUS
<1>2. ms = v.members
  <2>1. PICK n : n = Len(v.members)
    OBVIOUS
  <2>2. /\ DOMAIN v.members = 1 .. n /\ v.members = [k \in 1 .. n |-> v.members[k]]
        /\ \A k \in 1 .. n : v.members[k] = Member(v.members[k].key, v.members[k].val)
    BY <2>1, Zenon DEF IsShaped
  <2>3. ms = [k \in 1 .. n |-> ms[k]] /\ \A k \in 1 .. n : ms[k] = v.members[k]
    BY <1>1, <2>2
  <2> QED
    BY <2>2, <2>3
<1>3. v = [kind |-> v.kind, atom |-> v.atom, members |-> v.members]
  BY Zenon DEF IsShaped
<1>4. v = [kind |-> "object", atom |-> "", members |-> ms]
  BY <1>2, <1>3, Zenon
<1>5. v = Obj(ms)
  BY <1>4, ObjFields, Zenon
<1> QED
  BY <1>1, <1>5, Zenon DEF IsNode, IsShaped

\* An array of these values.
Holds(v, vals) ==
  /\ IsShaped(v) /\ v.kind = "array" /\ Len(v.members) = Len(vals)
  /\ \A k \in 1 .. Len(vals) : v.members[k].val = vals[k]

LEMMA ArrayOfValues ==
  ASSUME NEW S, NEW vals \in Seq(S)
  PROVE  IsNode(Arr(vals)) /\ Holds(Arr(vals), vals) /\ Vals(Arr(vals)) = vals
<1>1. PICK n \in Nat : n = Len(vals) /\ DOMAIN vals = 1 .. n /\ vals = [k \in 1 .. n |-> vals[k]]
  BY LenProperties
<1>2. PICK v : v = Arr(vals)
  OBVIOUS
<1>3. PICK ms : ms = v.members
  OBVIOUS
<1>4. /\ v.kind = "array" /\ v.atom = ""
      /\ ms = [k \in 1 .. n |-> Member(ToString(k - 1), vals[k])]
      /\ v = [kind |-> "array", atom |-> "", members |-> ms]
  BY <1>1, <1>2, <1>3, ArrFields, Zenon
<1>5. Len(ms) = n /\ DOMAIN ms = 1 .. n /\ ms = [k \in 1 .. n |-> ms[k]]
  <2>1. ms = [k \in 1 .. n |-> Member(ToString(k - 1), vals[k])]
    BY <1>4
  <2> QED
    BY <2>1
<1>6. ASSUME NEW k \in 1 .. n
      PROVE  ms[k] = Member(ms[k].key, ms[k].val) /\ ms[k].val = vals[k]
  <2>1. PICK key : key = ToString(k - 1)
    OBVIOUS
  <2>2. ms[k] = Member(key, vals[k])
    BY <1>4, <2>1
  <2>3. ms[k].key = key /\ ms[k].val = vals[k]
    BY <2>2, MemberFields
  <2> QED
    BY <2>2, <2>3, Zenon
<1>7. IsShaped(v)
  <2>1. v = [kind |-> v.kind, atom |-> v.atom, members |-> v.members]
    BY <1>3, <1>4, Zenon
  <2> QED
    BY <2>1, <1>1, <1>3, <1>5, <1>6 DEF IsShaped
<1>8. Vals(v) = vals
  <2>1. PICK w : w = Vals(v)
    OBVIOUS
  <2>2. w = [k \in 1 .. n |-> w[k]] /\ \A k \in 1 .. n : w[k] = ms[k].val
    BY <2>1, <1>3, <1>5 DEF Vals
  <2> QED
    BY <2>1, <2>2, <1>6, <1>1
<1>9. IsNode(v)
  <2>1. v = Arr(Vals(v))
    BY <1>2, <1>8, Zenon
  <2>2. Len(v.members) \in Nat /\ DOMAIN v.members = 1 .. Len(v.members)
    BY <1>3, <1>5, <1>1
  <2> QED
    BY <2>1, <2>2, Zenon DEF IsNode
<1> QED
  <2>1. Holds(v, vals)
    BY <1>1, <1>3, <1>4, <1>5, <1>6, <1>7 DEF Holds
  <2> QED
    BY <2>1, <1>2, <1>8, <1>9, Zenon

(* The values of a node are a sequence.                                      *)
LEMMA ValuesOfNode ==
  ASSUME NEW v, IsShaped(v)
  PROVE  \E S : /\ Vals(v) \in Seq(S) /\ Len(Vals(v)) = Len(v.members)
                /\ \A k \in 1 .. Len(v.members) : Vals(v)[k] = v.members[k].val
<1>1. PICK n \in Nat : /\ n = Len(v.members) /\ DOMAIN v.members = 1 .. n
                       /\ v.members = [k \in 1 .. n |-> v.members[k]]
  BY DEF IsShaped
<1>2. PICK w : w = Vals(v) /\ w = [k \in 1 .. n |-> v.members[k].val]
  BY <1>1 DEF Vals
<1>3. PICK S : S = {v.members[k].val : k \in 1 .. n}
  OBVIOUS
<1>4. w \in [1 .. n -> S]
  BY <1>2, <1>3
<1>5. w \in Seq(S) /\ Len(w) = n
  BY <1>4
<1> QED
  BY <1>1, <1>2, <1>5

(* And so are its members.                                                   *)
LEMMA MembersOfNode ==
  ASSUME NEW v, IsShaped(v)
  PROVE  \E S : v.members \in Seq(S)
<1>1. PICK n \in Nat : /\ n = Len(v.members) /\ DOMAIN v.members = 1 .. n
                       /\ v.members = [k \in 1 .. n |-> v.members[k]]
  BY DEF IsShaped
<1>2. PICK ms : ms = v.members
  OBVIOUS
<1>3. PICK T : T = {ms[k] : k \in 1 .. n}
  OBVIOUS
<1>4. ms \in [1 .. n -> T]
  BY <1>1, <1>2, <1>3
<1>5. ms \in Seq(T)
  BY <1>4
<1> QED
  BY <1>2, <1>5

-----------------------------------------------------------------------------
(* An object with a member added at its end.                                 *)
Added(v, m) == [kind |-> v.kind, atom |-> v.atom, members |-> Append(v.members, m)]

LEMMA AddedIs ==
  ASSUME NEW v, IsShaped(v), NEW m
  PROVE  [v EXCEPT !.members = Append(@, m)] = Added(v, m)
<1>1. PICK k0, a0, ms : k0 = v.kind /\ a0 = v.atom /\ ms = v.members
  OBVIOUS
<1>2. v = [kind |-> k0, atom |-> a0, members |-> ms]
  BY <1>1, Zenon DEF IsShaped
<1>3. [v EXCEPT !.members = Append(@, m)] = [kind |-> k0, atom |-> a0, members |-> Append(ms, m)]
  BY <1>2
<1> QED
  BY <1>1, <1>3, Zenon DEF Added

LEMMA AddedFields ==
  ASSUME NEW v, IsShaped(v), NEW key, NEW val
  PROVE  /\ IsShaped(Added(v, Member(key, val)))
         /\ Added(v, Member(key, val)).kind = v.kind /\ Added(v, Member(key, val)).atom = v.atom
         /\ IsAppended(Added(v, Member(key, val)).members, v.members, Member(key, val))
<1>1. PICK n \in Nat : n = Len(v.members)
  BY DEF IsShaped
<1>2. PICK ms, m : ms = v.members /\ m = Member(key, val)
  OBVIOUS
<1>3. PICK u : u = Added(v, m)
  OBVIOUS
<1>4. PICK T : ms \in Seq(T)
  BY <1>2, MembersOfNode
<1>5. ms \in Seq(T)
  BY <1>4
<1>6. Append(ms, m) \in Seq(T \cup {m}) /\ IsAppended(Append(ms, m), ms, m)
  BY <1>5, Appended
<1>7. /\ u.kind = v.kind /\ u.atom = v.atom /\ u.members = Append(ms, m)
      /\ u = [kind |-> u.kind, atom |-> u.atom, members |-> u.members]
  <2>1. PICK k0, a0, app : k0 = v.kind /\ a0 = v.atom /\ app = Append(ms, m)
    OBVIOUS
  <2>2. u = [kind |-> k0, atom |-> a0, members |-> app]
    BY <2>1, <1>2, <1>3, Zenon DEF Added
  <2>3. u.kind = k0 /\ u.atom = a0 /\ u.members = app
    BY <2>2
  <2> QED
    BY <2>1, <2>2, <2>3, Zenon
<1>8. PICK app \in Seq(T \cup {m}) : app = Append(ms, m) /\ IsAppended(app, ms, m)
  BY <1>6
<1>9. Len(app) = n + 1 /\ DOMAIN app = 1 .. n + 1 /\ app = [k \in 1 .. n + 1 |-> app[k]]
  BY <1>8, <1>1, <1>2, LenProperties DEF IsAppended
<1>10. ASSUME NEW k \in 1 .. n + 1 PROVE app[k] = Member(app[k].key, app[k].val)
  <2>1. CASE k = n + 1
    <3>1. app[k] = Member(key, val)
      BY <2>1, <1>8, <1>1, <1>2 DEF IsAppended
    <3>2. Member(key, val).key = key /\ Member(key, val).val = val
      BY MemberFields
    <3> QED
      BY <3>1, <3>2, Zenon
  <2>2. CASE k # n + 1
    <3>1. k \in 1 .. n
      BY <2>2
    <3>2. app[k] = ms[k]
      BY <3>1, <1>8, <1>1, <1>2 DEF IsAppended
    <3>3. ms[k] = Member(ms[k].key, ms[k].val)
      BY <3>1, <1>1, <1>2, Zenon DEF IsShaped
    <3> QED
      BY <3>2, <3>3, Zenon
  <2> QED
    BY <2>1, <2>2
<1>11. IsShaped(u)
  <2>1. u.members = app /\ Len(app) \in Nat
    BY <1>7, <1>8, <1>9
  <2> QED
    BY <2>1, <1>7, <1>9, <1>10, Zenon DEF IsShaped
<1> QED
  BY <1>2, <1>3, <1>7, <1>8, <1>11, Zenon

(* A member of a new key is the first of its key, and the last member.       *)
IsFound(u, v, token, val) ==
  /\ token \in KeysOf(u) /\ FirstMember(u, token) = Len(v.members) + 1
  /\ u.members[Len(v.members) + 1].val = val

LEMMA AddedIsFound ==
  ASSUME NEW v, IsShaped(v), NEW key, NEW val, NEW token,
         KeyOf(Member(key, val)) = token, token \notin KeysOf(v)
  PROVE  IsFound(Added(v, Member(key, val)), v, token, val)
<1>1. PICK n \in Nat : n = Len(v.members) /\ DOMAIN v.members = 1 .. n
  BY DEF IsShaped
<1>2. PICK u : u = Added(v, Member(key, val))
  OBVIOUS
<1>3. IsShaped(u) /\ IsAppended(u.members, v.members, Member(key, val))
  BY <1>2, AddedFields, Zenon
<1>4. Len(u.members) = n + 1 /\ DOMAIN u.members = 1 .. n + 1
  BY <1>1, <1>3 DEF IsAppended, IsShaped
<1>5. u.members[n + 1] = Member(key, val)
  BY <1>1, <1>3 DEF IsAppended
<1>6. ASSUME NEW j \in 1 .. n PROVE KeyOf(u.members[j]) # token
  <2>1. u.members[j] = v.members[j]
    BY <1>1, <1>3 DEF IsAppended
  <2> QED
    BY <2>1, <1>1 DEF KeysOf
<1>7. KeyOf(u.members[n + 1]) = token
  BY <1>5, Zenon
<1>8. PICK N \in Nat : N = n + 1
  OBVIOUS
<1>9. KeyOf(u.members[N]) \in KeysOf(u) /\ FirstMember(u, KeyOf(u.members[N])) = N
  <2>1. N \in 1 .. Len(u.members) /\ Len(u.members) \in Nat /\ DOMAIN u.members = 1 .. Len(u.members)
    BY <1>4, <1>8
  <2>2. \A j \in 1 .. N - 1 : KeyOf(u.members[j]) # KeyOf(u.members[N])
    <3>1. \A j \in 1 .. N - 1 : j \in 1 .. n
      BY <1>8
    <3> QED
      BY <3>1, <1>6, <1>7, <1>8, Zenon
  <2> QED
    BY <2>1, <2>2, FirstIsTheOne
<1>10. u.members[n + 1].val = val
  BY <1>5, MemberFields
<1> QED
  BY <1>1, <1>2, <1>7, <1>8, <1>9, <1>10, Zenon DEF IsFound

-----------------------------------------------------------------------------
(* A token that named nothing names, once set, the value set; and taking it  *)
(* out leaves the node that was there.                                       *)
LEMMA PutNewMember ==
  ASSUME NEW v, IsNode(v), v.kind = "object", NEW token, NEW val,
         KeyOf(Member(EncodeKey(token), val)) = token, ChildAt(v, token) = 0
  PROVE  Child(Put(v, token, val), token) = val /\ Drop(Put(v, token, val), token) = v
<1>1. IsShaped(v) /\ v.atom = ""
  BY NodeShape
<1>2. PICK n \in Nat : n = Len(v.members) /\ DOMAIN v.members = 1 .. n
  BY <1>1 DEF IsShaped
<1>3. token \notin KeysOf(v)
  <2>1. token \in KeysOf(v) => ChildAt(v, token) = FirstMember(v, token)
    BY DEF ChildAt
  <2>2. token \in KeysOf(v) => FirstMember(v, token) \in 1 .. n
    BY <1>2, FirstOfKey
  <2> QED
    BY <2>1, <2>2
<1>4. PICK m : m = Member(EncodeKey(token), val)
  OBVIOUS
<1>5. PICK u : u = Added(v, m)
  OBVIOUS
<1>6. Put(v, token, val) = u
  <2>1. [v EXCEPT !.members = Append(@, m)] = u
    BY <1>1, <1>5, AddedIs
  <2>2. Put(v, token, val) = PutMember(v, token, val)
    BY DEF Put
  <2>3. PutMember(v, token, val) = [v EXCEPT !.members = Append(@, m)]
    BY <1>3, <1>4, Zenon DEF PutMember
  <2> QED
    BY <2>1, <2>2, <2>3, Zenon
<1>7. IsShaped(u) /\ u.kind = "object" /\ u.atom = "" /\ IsAppended(u.members, v.members, m)
  BY <1>1, <1>4, <1>5, AddedFields, ZenonT(60)
<1>8. token \in KeysOf(u) /\ FirstMember(u, token) = n + 1 /\ u.members[n + 1].val = val
  <2>1. PICK key : key = EncodeKey(token)
    OBVIOUS
  <2>2. m = Member(key, val) /\ KeyOf(Member(key, val)) = token
    BY <2>1, <1>4, Zenon
  <2>3. IsFound(Added(v, Member(key, val)), v, token, val)
    BY <2>2, <1>1, <1>3, AddedIsFound, Zenon
  <2> QED
    BY <2>2, <2>3, <1>2, <1>5, Zenon DEF IsFound
<1>9. ChildAt(u, token) = n + 1 /\ n + 1 # 0
  <2>1. ChildAt(u, token) = FirstMember(u, token)
    BY <1>7, <1>8 DEF ChildAt
  <2> QED
    BY <2>1, <1>8
<1>10. Child(u, token) = val
  BY <1>8, <1>9, Zenon DEF Child
<1>11. Drop(u, token) = v
  <2>1. PICK ms : ms = v.members
    OBVIOUS
  <2>2. PICK app : app = Append(ms, m)
    OBVIOUS
  <2>3. u = [kind |-> "object", atom |-> "", members |-> app]
    BY <1>1, <1>5, <2>1, <2>2, Zenon DEF Added
  <2>4. Drop(u, token) = [u EXCEPT !.members = Seqs!RemoveAt(@, n + 1)]
    BY <1>7, <1>9 DEF Drop
  <2>5. [u EXCEPT !.members = Seqs!RemoveAt(@, n + 1)] =
          [kind |-> "object", atom |-> "", members |-> Seqs!RemoveAt(app, n + 1)]
    <3>1. u.members = app
      BY <2>3
    <3>2. PICK rest : rest = Seqs!RemoveAt(app, n + 1)
      OBVIOUS
    <3>3. PICK k0, a0 : k0 = "object" /\ a0 = ""
      OBVIOUS
    <3>4. u = [kind |-> k0, atom |-> a0, members |-> app]
      BY <2>3, <3>3, Zenon
    <3>5. [u EXCEPT !.members = rest] = [kind |-> k0, atom |-> a0, members |-> rest]
      BY <3>4
    <3> QED
      BY <3>1, <3>2, <3>3, <3>5, Zenon
  <2>6. Seqs!RemoveAt(app, n + 1) = ms
    <3>1. PICK S : ms \in Seq(S)
      BY <2>1, <1>1, MembersOfNode
    <3> QED
      BY <3>1, <2>1, <2>2, <1>2, AppendedThenRemoved, Zenon
  <2>7. v = [kind |-> "object", atom |-> "", members |-> ms]
    BY <1>1, <2>1, Zenon DEF IsShaped
  <2> QED
    BY <2>4, <2>5, <2>6, <2>7, Zenon
<1> QED
  BY <1>6, <1>10, <1>11, Zenon

LEMMA PutNewElement ==
  ASSUME NEW v, IsNode(v), v.kind = "array", NEW token, NEW val, token # "-",
         ChildAt(v, token) = 0, Put(v, token, val) # Nowhere
  PROVE  Child(Put(v, token, val), token) = val /\ Drop(Put(v, token, val), token) = v
<1>1. IsShaped(v) /\ v = Arr(Vals(v))
  BY NodeShape
<1>2. PICK n \in Nat : n = Len(v.members)
  BY <1>1 DEF IsShaped
<1>3. PICK w, S : w = Vals(v) /\ w \in Seq(S) /\ Len(w) = n
  BY <1>1, <1>2, ValuesOfNode, Zenon
<1>4. Put(v, token, val) = PutElement(v, token, val)
  BY DEF Put
<1>5. token \in DOMAIN Digits
  <2>1. token \notin DOMAIN Digits => PutElement(v, token, val) = Nowhere
    BY DEF PutElement
  <2> QED
    BY <2>1, <1>4, Zenon
<1>6. PICK idx \in Nat : idx = ParseIndex(token)
  BY <1>5, IndexNat
<1>7. ~(idx < n)
  BY <1>2, <1>5, <1>6 DEF ChildAt
<1>8. PICK app : app = Append(w, val)
  OBVIOUS
<1>9. PICK u : u = Arr(app)
  OBVIOUS
<1>10. idx = n /\ Put(v, token, val) = u
  <2>1. idx = n \/ PutElement(v, token, val) = Nowhere
    BY <1>2, <1>5, <1>6, <1>7 DEF PutElement
  <2>2. idx = n => PutElement(v, token, val) = Arr(Append(Vals(v), val))
    BY <1>2, <1>5, <1>6 DEF PutElement
  <2> QED
    BY <2>1, <2>2, <1>3, <1>4, <1>8, <1>9, Zenon
<1>11. app \in Seq(S \cup {val}) /\ IsAppended(app, w, val)
  BY <1>3, <1>8, Appended
<1>12. Len(app) = n + 1 /\ app[n + 1] = val
  BY <1>3, <1>11 DEF IsAppended
<1>13. Holds(u, app) /\ Vals(u) = app
  BY <1>9, <1>11, ArrayOfValues
<1>14. ChildAt(u, token) = n + 1 /\ n + 1 # 0
  <2>1. u.kind = "array" /\ Len(u.members) = n + 1
    BY <1>12, <1>13 DEF Holds
  <2> QED
    BY <2>1, <1>5, <1>6, <1>10 DEF ChildAt
<1>15. u.members[n + 1].val = val
  <2>1. n + 1 \in 1 .. Len(app)
    BY <1>12
  <2> QED
    BY <2>1, <1>12, <1>13 DEF Holds
<1>16. Child(u, token) = val
  BY <1>14, <1>15, Zenon DEF Child
<1>17. Drop(u, token) = Arr(Seqs!RemoveAt(app, n + 1))
  BY <1>13, <1>14, Zenon DEF Drop, Holds
<1>18. Seqs!RemoveAt(app, n + 1) = w
  BY <1>3, <1>8, AppendedThenRemoved, Zenon
<1> QED
  BY <1>1, <1>3, <1>10, <1>16, <1>17, <1>18, Zenon

-----------------------------------------------------------------------------
(* What is written into a document's node makes a document's node.           *)
LEMMA ExceptDocument ==
  ASSUME NEW v, Document(v), NEW i \in 1 .. Len(v.members), NEW x, Document(x)
  PROVE  Document(Except(v, i, x))
<1>1. IsNode(v) /\ IsShaped(v)
  BY DocumentIsNode, NodeShape
<1>2. PICK n \in Nat : n = Len(v.members) /\ DOMAIN v.members = 1 .. n
  BY <1>1 DEF IsShaped
<1>3. PICK u : u = Except(v, i, x)
  OBVIOUS
<1>4. Changes(u, v, i, x)
  BY <1>2, <1>3, ExceptFields, Zenon
<1>5. IsShaped(u)
  BY <1>1, <1>3, ExceptShaped
<1>6. ASSUME NEW k \in 1 .. n PROVE Document(u.members[k].val)
  <2>1. CASE k = i
    <3>1. u.members[k] = Member(v.members[k].key, x)
      BY <2>1, <1>2, <1>4 DEF Changes
    <3>2. u.members[k].val = x
      BY <3>1, MemberFields
    <3> QED
      BY <3>2
  <2>2. CASE k # i
    <3>1. u.members[k] = v.members[k]
      BY <2>2, <1>2, <1>4 DEF Changes
    <3> QED
      BY <3>1, <1>2, MembersAreDocuments
  <2> QED
    BY <2>1, <2>2
<1>7. IsNode(u)
  <2>1. CASE v.kind = "array"
    <3>1. PICK w : w = Vals(u)
      OBVIOUS
    <3>2. PICK S : w \in Seq(S) /\ Len(w) = n
      BY <3>1, <1>2, <1>4, <1>5, ValuesOfNode, Zenon DEF Changes
    <3>3. ASSUME NEW k \in 1 .. n PROVE u.members[k] = Member(ToString(k - 1), w[k])
      <4>1. u.members[k].key = v.members[k].key
        <5>1. CASE k = i
          <6>1. u.members[k] = Member(v.members[k].key, x)
            BY <5>1, <1>2, <1>4 DEF Changes
          <6> QED
            BY <6>1, MemberFields
        <5>2. CASE k # i
          BY <5>2, <1>2, <1>4 DEF Changes
        <5> QED
          BY <5>1, <5>2
      <4>2. v.members[k].key = ToString(k - 1)
        BY <2>1, <1>1, <1>2, NodeShape
      <4>3. u.members[k].val = w[k]
        <5>1. DOMAIN u.members = 1 .. n
          BY <1>2, <1>4 DEF Changes
        <5> QED
          BY <5>1, <3>1 DEF Vals
      <4>4. u.members[k] = Member(u.members[k].key, u.members[k].val)
        BY <1>2, <1>4, <1>5, Zenon DEF IsShaped, Changes
      <4> QED
        BY <4>1, <4>2, <4>3, <4>4, Zenon
    <3>4. u = [kind |-> "array", atom |-> "", members |-> u.members]
      <4>1. u.kind = "array" /\ u.atom = ""
        BY <2>1, <1>1, <1>4, NodeShape DEF Changes
      <4> QED
        BY <4>1, <1>5, Zenon DEF IsShaped
    <3>5. u.members = [k \in 1 .. n |-> Member(ToString(k - 1), w[k])]
      <4>1. u.members = [k \in 1 .. n |-> u.members[k]]
        BY <1>2, <1>4, <1>5, Zenon DEF IsShaped, Changes
      <4> QED
        BY <4>1, <3>3, Zenon
    <3>6. u = Arr(w)
      <4>1. Arr(w) = [kind |-> "array", atom |-> "", members |-> Arr(w).members]
        BY ArrFields
      <4>2. Arr(w).members = [k \in 1 .. n |-> Member(ToString(k - 1), w[k])]
        BY <3>2, ArrFields, Zenon
      <4> QED
        BY <4>1, <4>2, <3>4, <3>5, Zenon
    <3> QED
      BY <3>1, <3>6, <1>5, Zenon DEF IsNode, IsShaped
  <2>2. CASE v.kind = "object"
    <3>1. u.kind = "object" /\ u.atom = ""
      BY <2>2, <1>1, <1>4, NodeShape DEF Changes
    <3> QED
      BY <3>1, <1>5, ShapedObject
  <2>3. CASE v.kind = "scalar"
    <3>1. v.members = << >>
      BY <2>3, <1>1, NodeShape, Zenon
    <3>2. Len(v.members) = 0
      BY <3>1
    <3> QED
      BY <3>2, <1>2
  <2> QED
    BY <2>1, <2>2, <2>3, <1>1, NodeShape
<1>8. DOMAIN u.members = 1 .. n
  BY <1>2, <1>4 DEF Changes
<1> QED
  BY <1>3, <1>6, <1>7, <1>8, NodeOfDocuments

LEMMA ArrayOfDocuments ==
  ASSUME NEW S, NEW vals \in Seq(S), \A k \in 1 .. Len(vals) : Document(vals[k])
  PROVE  Document(Arr(vals))
<1>1. PICK u : u = Arr(vals)
  OBVIOUS
<1>2. IsNode(u) /\ Holds(u, vals)
  BY <1>1, ArrayOfValues, Zenon
<1>3. ASSUME NEW k \in DOMAIN u.members PROVE Document(u.members[k].val)
  <2>1. k \in 1 .. Len(vals)
    BY <1>2 DEF Holds, IsShaped
  <2>2. u.members[k].val = vals[k]
    BY <2>1, <1>2 DEF Holds
  <2> QED
    BY <2>1, <2>2
<1> QED
  BY <1>1, <1>2, <1>3, NodeOfDocuments

LEMMA ValuesAreDocuments ==
  ASSUME NEW v, Document(v)
  PROVE  \E S : /\ Vals(v) \in Seq(S) /\ Len(Vals(v)) = Len(v.members)
                /\ \A k \in 1 .. Len(v.members) : Document(Vals(v)[k])
<1>1. IsShaped(v)
  BY DocumentIsNode, NodeShape
<1>2. PICK S : /\ Vals(v) \in Seq(S) /\ Len(Vals(v)) = Len(v.members)
               /\ \A k \in 1 .. Len(v.members) : Vals(v)[k] = v.members[k].val
  BY <1>1, ValuesOfNode
<1>3. ASSUME NEW k \in 1 .. Len(v.members) PROVE Document(Vals(v)[k])
  <2>1. k \in DOMAIN v.members
    BY <1>1 DEF IsShaped
  <2>2. Document(v.members[k].val)
    BY <2>1, MembersAreDocuments
  <2> QED
    BY <2>2, <1>2
<1> QED
  BY <1>2, <1>3

LEMMA PutDocument ==
  ASSUME NEW v, Document(v), NEW token, NEW val, Document(val), Put(v, token, val) # Nowhere
  PROVE  Document(Put(v, token, val))
<1>1. IsNode(v) /\ IsShaped(v) /\ (v.kind # "scalar" => v.atom = "")
  BY DocumentIsNode, NodeShape
<1>2. PICK n \in Nat : n = Len(v.members) /\ DOMAIN v.members = 1 .. n
  BY <1>1 DEF IsShaped
<1>3. CASE v.kind = "object"
  <2>1. Put(v, token, val) = PutMember(v, token, val)
    BY <1>3 DEF Put
  <2>2. CASE token \in KeysOf(v)
    <3>1. PICK i : i = FirstMember(v, token)
      OBVIOUS
    <3>2. i \in 1 .. Len(v.members)
      BY <3>1, <2>2, <1>2, FirstOfKey
    <3>3. [v EXCEPT !.members[i].val = val] = Except(v, i, val)
      BY <3>2, <1>1, ExceptIs
    <3>4. PutMember(v, token, val) = Except(v, i, val)
      BY <2>2, <3>1, <3>3, Zenon DEF PutMember
    <3>5. Document(Except(v, i, val))
      BY <3>2, ExceptDocument
    <3> QED
      BY <2>1, <3>4, <3>5, Zenon
  <2>3. CASE token \notin KeysOf(v)
    <3>1. PICK key : key = EncodeKey(token)
      OBVIOUS
    <3>2. PICK u : u = Added(v, Member(key, val))
      OBVIOUS
    <3>3. [v EXCEPT !.members = Append(@, Member(key, val))] = u
      BY <1>1, <3>2, AddedIs
    <3>4. PutMember(v, token, val) = u
      BY <2>3, <3>1, <3>3, Zenon DEF PutMember
    <3>5. /\ IsShaped(u) /\ u.kind = "object" /\ u.atom = ""
          /\ IsAppended(u.members, v.members, Member(key, val))
      BY <1>1, <1>3, <3>2, AddedFields
    <3>6. IsNode(u)
      BY <3>5, ShapedObject
    <3>7. ASSUME NEW k \in DOMAIN u.members PROVE Document(u.members[k].val)
      <4>1. k \in 1 .. n + 1
        BY <3>5, <1>2 DEF IsShaped, IsAppended
      <4>2. CASE k = n + 1
        <5>1. u.members[k] = Member(key, val)
          BY <4>2, <3>5, <1>2 DEF IsAppended
        <5>2. u.members[k].val = val
          BY <5>1, MemberFields
        <5> QED
          BY <5>2
      <4>3. CASE k # n + 1
        <5>1. k \in 1 .. n
          BY <4>1, <4>3
        <5>2. u.members[k] = v.members[k]
          BY <5>1, <3>5, <1>2 DEF IsAppended
        <5>3. Document(v.members[k].val)
          BY <5>1, <1>2, MembersAreDocuments
        <5> QED
          BY <5>2, <5>3
      <4> QED
        BY <4>2, <4>3
    <3> QED
      BY <2>1, <3>4, <3>6, <3>7, NodeOfDocuments
  <2> QED
    BY <2>2, <2>3
<1>4. CASE v.kind = "array"
  <2>1. Put(v, token, val) = PutElement(v, token, val)
    BY <1>4 DEF Put
  <2>2. PICK w, S : w = Vals(v) /\ w \in Seq(S) /\ Len(w) = n /\ \A k \in 1 .. n : Document(w[k])
    BY <1>2, ValuesAreDocuments, Zenon
  <2>3. token = "-" \/ token \in DOMAIN Digits
    <3>1. token # "-" /\ token \notin DOMAIN Digits => PutElement(v, token, val) = Nowhere
      BY DEF PutElement
    <3> QED
      BY <2>1, <3>1, Zenon
  <2>4. PICK idx : idx = IF token = "-" THEN n ELSE ParseIndex(token)
    OBVIOUS
  <2>5. idx \in Nat
    BY <2>3, <2>4, IndexNat
  <2>6. PutElement(v, token, val) =
          IF idx = n THEN Arr(Append(w, val))
          ELSE IF idx < n THEN Arr([w EXCEPT ![idx + 1] = val]) ELSE Nowhere
    <3>1. idx = n => PutElement(v, token, val) = Arr(Append(Vals(v), val))
      BY <1>2, <2>3, <2>4, <2>5 DEF PutElement
    <3>2. idx < n => PutElement(v, token, val) = Arr([Vals(v) EXCEPT ![idx + 1] = val])
      BY <1>2, <2>3, <2>4, <2>5 DEF PutElement
    <3>3. idx # n /\ ~(idx < n) => PutElement(v, token, val) = Nowhere
      BY <1>2, <2>3, <2>4, <2>5 DEF PutElement
    <3> QED
      BY <3>1, <3>2, <3>3, <2>2, Zenon
  <2>7. CASE idx = n
    <3>1. PICK app : app = Append(w, val)
      OBVIOUS
    <3>2. app \in Seq(S \cup {val}) /\ IsAppended(app, w, val)
      BY <3>1, <2>2, Appended
    <3>3. ASSUME NEW k \in 1 .. Len(app) PROVE Document(app[k])
      <4>1. k \in 1 .. n + 1
        BY <3>2, <2>2 DEF IsAppended
      <4>2. k = n + 1 => app[k] = val
        BY <3>2, <2>2 DEF IsAppended
      <4>3. k # n + 1 => k \in 1 .. n /\ app[k] = w[k]
        BY <4>1, <3>2, <2>2 DEF IsAppended
      <4> QED
        BY <4>2, <4>3, <2>2
    <3>4. Document(Arr(app))
      BY <3>2, <3>3, ArrayOfDocuments
    <3> QED
      BY <2>1, <2>6, <2>7, <3>1, <3>4, Zenon
  <2>8. CASE idx < n
    <3>1. PICK i \in 1 .. n : i = idx + 1
      BY <2>5, <2>8
    <3>2. PICK new : new = [w EXCEPT ![i] = val]
      OBVIOUS
    <3>3. PICK T : T = S \cup {val}
      OBVIOUS
    <3>4. w \in Seq(T) /\ val \in T
      BY <3>3, <2>2
    <3>5. new \in Seq(T) /\ Len(new) = n /\ \A k \in 1 .. n : new[k] = IF k = i THEN val ELSE w[k]
      BY <3>1, <3>2, <3>4, <2>2, ExceptSeq
    <3>6. \A k \in 1 .. Len(new) : Document(new[k])
      BY <3>5, <2>2
    <3>7. Document(Arr(new))
      BY <3>5, <3>6, ArrayOfDocuments
    <3>8. idx # n
      BY <2>8, <2>5
    <3> QED
      BY <2>1, <2>6, <2>8, <3>1, <3>2, <3>7, <3>8, Zenon
  <2> QED
    BY <2>1, <2>6, <2>7, <2>8, Zenon
<1>5. CASE v.kind # "object" /\ v.kind # "array"
  BY <1>5 DEF Put
<1> QED
  BY <1>3, <1>4, <1>5

LEMMA DropDocument ==
  ASSUME NEW v, Document(v), NEW token, Drop(v, token) # Nowhere
  PROVE  Document(Drop(v, token))
<1>1. IsNode(v) /\ IsShaped(v) /\ (v.kind # "scalar" => v.atom = "")
  BY DocumentIsNode, NodeShape
<1>2. PICK n \in Nat : n = Len(v.members) /\ DOMAIN v.members = 1 .. n
  BY <1>1 DEF IsShaped
<1>3. PICK i : i = ChildAt(v, token)
  OBVIOUS
<1>4. i \in 1 .. n
  <2>1. i \in 0 .. n
    BY <1>2, <1>3, ChildAtRange
  <2>2. i # 0
    BY <1>3, Zenon DEF Drop
  <2> QED
    BY <2>1, <2>2
<1>5. i # 0
  BY <1>4
<1>6. CASE v.kind = "array"
  <2>1. PICK w, S : w = Vals(v) /\ w \in Seq(S) /\ Len(w) = n /\ \A k \in 1 .. n : Document(w[k])
    BY <1>2, ValuesAreDocuments, Zenon
  <2>2. PICK rest : rest = Seqs!RemoveAt(w, i)
    OBVIOUS
  <2>3. Drop(v, token) = Arr(rest)
    BY <1>3, <1>5, <1>6, <2>1, <2>2, Zenon DEF Drop
  <2>4. rest \in Seq(S) /\ IsWithout(rest, w, i)
    BY <1>4, <2>1, <2>2, Without
  <2>5. ASSUME NEW k \in 1 .. Len(rest) PROVE Document(rest[k])
    <3>1. k \in 1 .. n - 1 /\ k \in 1 .. n /\ k + 1 \in 1 .. n
      BY <2>1, <2>4 DEF IsWithout
    <3>2. rest[k] = w[k] \/ rest[k] = w[k + 1]
      BY <3>1, <2>1, <2>4 DEF IsWithout
    <3> QED
      BY <3>1, <3>2, <2>1
  <2> QED
    BY <2>3, <2>4, <2>5, ArrayOfDocuments
<1>7. CASE v.kind # "array"
  <2>1. PICK ms : ms = v.members
    OBVIOUS
  <2>2. PICK S : ms \in Seq(S)
    BY <2>1, <1>1, MembersOfNode
  <2>3. PICK rest : rest = Seqs!RemoveAt(ms, i)
    OBVIOUS
  <2>4. rest \in Seq(S) /\ IsWithout(rest, ms, i)
    BY <1>2, <1>4, <2>1, <2>2, <2>3, Without
  <2>5. Len(rest) = n - 1 /\ DOMAIN rest = 1 .. n - 1 /\ rest = [k \in 1 .. n - 1 |-> rest[k]]
    BY <1>2, <2>1, <2>4, LenProperties DEF IsWithout
  <2>6. v.kind = "object" /\ v.atom = ""
    <3>1. v.kind # "scalar"
      <4>1. v.kind = "scalar" => v.members = << >>
        BY <1>1, NodeShape
      <4>2. n = 0 => FALSE
        BY <1>4
      <4> QED
        BY <4>1, <4>2, <1>2
    <3> QED
      BY <3>1, <1>1, <1>7, NodeShape
  <2>7. PICK u : u = Drop(v, token)
    OBVIOUS
  <2>8. /\ u.kind = "object" /\ u.atom = "" /\ u.members = rest
        /\ u = [kind |-> u.kind, atom |-> u.atom, members |-> u.members]
    <3>1. PICK k0, a0 : k0 = v.kind /\ a0 = v.atom
      OBVIOUS
    <3>2. v = [kind |-> k0, atom |-> a0, members |-> ms]
      BY <3>1, <2>1, <1>1, Zenon DEF IsShaped
    <3>3. [v EXCEPT !.members = rest] = [kind |-> k0, atom |-> a0, members |-> rest]
      BY <3>2
    <3>4. u = [v EXCEPT !.members = rest]
      BY <1>3, <1>5, <1>7, <2>1, <2>3, <2>7, Zenon DEF Drop
    <3>5. u.kind = k0 /\ u.atom = a0 /\ u.members = rest
      BY <3>3, <3>4
    <3> QED
      BY <3>1, <3>3, <3>4, <3>5, <2>6, Zenon
  <2>9. ASSUME NEW k \in 1 .. n - 1
        PROVE  /\ rest[k] = Member(rest[k].key, rest[k].val)
               /\ Document(rest[k].val)
    <3>1. k \in 1 .. n /\ k + 1 \in 1 .. n
      OBVIOUS
    <3>2. rest[k] = ms[k] \/ rest[k] = ms[k + 1]
      BY <1>2, <2>1, <2>4 DEF IsWithout
    <3>3. PICK j \in 1 .. n : rest[k] = ms[j]
      BY <3>1, <3>2
    <3>4. ms[j] = Member(ms[j].key, ms[j].val)
      BY <1>1, <1>2, <2>1, Zenon DEF IsShaped
    <3>5. Document(ms[j].val)
      BY <1>2, <2>1, MembersAreDocuments
    <3> QED
      BY <3>3, <3>4, <3>5, Zenon
  <2>10. IsShaped(u)
    <3>1. Len(u.members) \in Nat
      BY <2>4, <2>8, LenProperties
    <3> QED
      BY <2>5, <2>8, <2>9, <3>1, Zenon DEF IsShaped
  <2>11. IsNode(u)
    BY <2>8, <2>10, ShapedObject
  <2>12. \A k \in DOMAIN u.members : Document(u.members[k].val)
    BY <2>5, <2>8, <2>9, Zenon
  <2> QED
    BY <2>7, <2>11, <2>12, NodeOfDocuments
<1> QED
  BY <1>6, <1>7

-----------------------------------------------------------------------------
(* A walk in a document passes through documents, until it ends nowhere; and *)
(* one that ends somewhere never left it.                                    *)
LEMMA NowhereHasNoChild == ASSUME NEW token PROVE Child(Nowhere, token) = Nowhere
<1>1. Nowhere.kind # "array" /\ Nowhere.kind # "object"
  BY NoKind
<1>2. ChildAt(Nowhere, token) = 0
  BY <1>1 DEF ChildAt
<1> QED
  BY <1>2, Zenon DEF Child

LEMMA ChildOfDocument ==
  ASSUME NEW v, Document(v), NEW token
  PROVE  \/ ChildAt(v, token) = 0 /\ Child(v, token) = Nowhere
         \/ ChildAt(v, token) # 0 /\ Document(Child(v, token))
<1>1. IsShaped(v)
  BY DocumentIsNode, NodeShape
<1>2. CASE ChildAt(v, token) = 0
  BY <1>2, Zenon DEF Child
<1>3. CASE ChildAt(v, token) # 0
  <2>1. PICK i : i = ChildAt(v, token) /\ i # 0
    BY <1>3
  <2>2. i \in DOMAIN v.members
    <3>1. Len(v.members) \in Nat /\ DOMAIN v.members = 1 .. Len(v.members)
      BY <1>1 DEF IsShaped
    <3>2. i \in 0 .. Len(v.members)
      BY <3>1, <2>1, ChildAtRange
    <3> QED
      BY <3>1, <3>2, <2>1
  <2>3. Child(v, token) = v.members[i].val
    BY <2>1, Zenon DEF Child
  <2> QED
    BY <1>3, <2>2, <2>3, MembersAreDocuments
<1> QED
  BY <1>2, <1>3

LEMMA WalkInDocument ==
  ASSUME NEW v, Document(v), NEW p, Len(p) \in Nat, Walk(v, p)[Len(p)] # Nowhere
  PROVE  /\ \A k \in 0 .. Len(p) : Document(Walk(v, p)[k])
         /\ \A k \in 0 .. Len(p) - 1 : ChildAt(Walk(v, p)[k], p[k + 1]) # 0
<1>1. PICK N \in Nat : N = Len(p)
  OBVIOUS
<1>2. PICK w : w = Walk(v, p)
  OBVIOUS
<1>3. w[0] = v /\ \A k \in 1 .. N : w[k] = Child(w[k - 1], p[k])
  <2>1. Walks(w, N, v, p)
    BY <1>1, <1>2, WalkSteps, Zenon
  <2> QED
    BY <2>1, Zenon DEF Walks
<1>4. ASSUME NEW k \in 0 .. N - 1 PROVE k + 1 \in 1 .. N /\ w[k + 1] = Child(w[k], p[k + 1])
  <2>1. PICK j \in 1 .. N : j = k + 1 /\ j - 1 = k
    BY <1>1
  <2>2. w[j] = Child(w[j - 1], p[j])
    BY <1>3, Zenon
  <2> QED
    BY <2>1, <2>2, Zenon
<1> DEFINE S == {k \in Nat : k =< N => w[k] = Nowhere \/ Document(w[k])}
           T == {k \in Nat : k =< N => w[N - k] # Nowhere}
<1>5. 0 \in S
  BY <1>3
<1>6. ASSUME NEW k \in Nat, k \in S PROVE k + 1 \in S
  <2>1. CASE k + 1 =< N
    <3>1. k \in 0 .. N - 1 /\ (w[k] = Nowhere \/ Document(w[k]))
      BY <2>1, <1>6
    <3>2. w[k + 1] = Child(w[k], p[k + 1])
      BY <3>1, <1>4
    <3>3. CASE w[k] = Nowhere
      BY <3>2, <3>3, NowhereHasNoChild
    <3>4. CASE Document(w[k])
      <4>1. Child(w[k], p[k + 1]) = Nowhere \/ Document(Child(w[k], p[k + 1]))
        BY <3>4, ChildOfDocument
      <4> QED
        BY <3>2, <4>1
    <3> QED
      BY <3>1, <3>3, <3>4
  <2> QED
    BY <2>1
<1>7. 0 \in T
  <2>1. N - 0 = N
    OBVIOUS
  <2> QED
    BY <2>1, <1>1, <1>2
<1>8. ASSUME NEW k \in Nat, k \in T PROVE k + 1 \in T
  <2>1. CASE k + 1 =< N
    <3>1. PICK j \in 0 .. N - 1 : j = N - (k + 1) /\ j + 1 = N - k
      BY <2>1
    <3>2. w[j + 1] # Nowhere
      BY <1>8, <2>1, <3>1
    <3>3. w[j + 1] = Child(w[j], p[j + 1])
      BY <1>4
    <3>4. w[j] # Nowhere
      BY <3>2, <3>3, NowhereHasNoChild
    <3> QED
      BY <3>1, <3>4
  <2> QED
    BY <2>1
<1>9. \A k \in Nat : k \in S /\ k \in T
  <2> HIDE DEF S, T
  <2>1. \A k \in Nat : k \in S
    BY <1>5, <1>6, NatInd
  <2>2. \A k \in Nat : k \in T
    BY <1>7, <1>8, NatInd
  <2> QED
    BY <2>1, <2>2
<1>10. ASSUME NEW k \in 0 .. N PROVE w[k] # Nowhere /\ Document(w[k])
  <2>1. N - k \in Nat /\ N - k =< N /\ N - (N - k) = k
    BY <1>1
  <2>2. N - k \in T
    BY <1>9, <2>1
  <2>3. w[k] # Nowhere
    BY <2>1, <2>2
  <2>4. k \in S
    BY <1>9
  <2> QED
    BY <2>3, <2>4
<1>11. ASSUME NEW k \in 0 .. N - 1 PROVE ChildAt(w[k], p[k + 1]) # 0
  <2>1. k \in 0 .. N /\ k + 1 \in 0 .. N
    BY <1>4
  <2>2. w[k + 1] # Nowhere /\ Document(w[k])
    BY <1>10, <2>1
  <2>3. w[k + 1] = Child(w[k], p[k + 1])
    BY <1>4
  <2> QED
    BY <2>2, <2>3, ChildOfDocument
<1> QED
  BY <1>1, <1>2, <1>10, <1>11, Zenon

LEMMA WalkIsPath ==
  ASSUME NEW v, Document(v), NEW p, Len(p) \in Nat, Walk(v, p)[Len(p)] # Nowhere
  PROVE  OnPath(v, p)
<1>1. ASSUME NEW k \in 0 .. Len(p) PROVE IsShaped(Walk(v, p)[k])
  <2>1. Document(Walk(v, p)[k])
    BY WalkInDocument, Zenon
  <2> QED
    BY <2>1, DocumentIsNode, NodeShape
<1>2. \A k \in 0 .. Len(p) - 1 : ChildAt(Walk(v, p)[k], p[k + 1]) # 0
  BY WalkInDocument, Zenon
<1> QED
  BY <1>1, <1>2, Zenon DEF OnPath

(* A document with another document's node in place of one is a document.    *)
LEMMA RebuiltDocument ==
  ASSUME NEW v, Document(v), NEW p, Len(p) \in Nat, Walk(v, p)[Len(p)] # Nowhere,
         NEW node, Document(node)
  PROVE  Document(Replaced(v, p, node))
<1>1. PICK N \in Nat : N = Len(p)
  OBVIOUS
<1>2. PICK f : Rebuilds(f, N, v, p, node) /\ Replaced(v, p, node) = f[N]
  BY <1>1, ReplacedLoop, Zenon
<1>3. PICK w : w = Walk(v, p)
  OBVIOUS
<1>4. \A k \in 0 .. N : Document(w[k])
  BY <1>1, <1>3, WalkInDocument, Zenon
<1>5. \A k \in 0 .. N - 1 : ChildAt(w[k], p[k + 1]) # 0
  BY <1>1, <1>3, WalkInDocument, Zenon
<1>6. ASSUME NEW k \in 0 .. N - 1 PROVE f[N - k] = WithChild(w[k], p[k + 1], f[N - (k + 1)])
  <2>1. IsTurn(f, N, v, p, k)
    BY <1>1, <1>2, RebuildTurn, Zenon
  <2> QED
    BY <2>1, <1>3, Zenon DEF IsTurn
<1> DEFINE S == {k \in Nat : k =< N => Document(f[k])}
<1>7. 0 \in S
  <2>1. f[0] = node
    BY <1>2, Zenon DEF Rebuilds
  <2> QED
    BY <2>1
<1>8. ASSUME NEW k \in Nat, k \in S PROVE k + 1 \in S
  <2>1. CASE k + 1 =< N
    <3>1. PICK j \in 0 .. N - 1 : j = N - (k + 1) /\ N - j = k + 1 /\ N - (j + 1) = k /\ j \in 0 .. N
      BY <2>1
    <3>2. f[N - j] = WithChild(w[j], p[j + 1], f[N - (j + 1)])
      BY <1>6, Zenon
    <3>3. Document(f[k])
      BY <1>8, <2>1
    <3>4. Document(w[j]) /\ ChildAt(w[j], p[j + 1]) # 0
      BY <1>4, <1>5, <3>1, Zenon
    <3>5. PICK i : i = ChildAt(w[j], p[j + 1])
      OBVIOUS
    <3>6. IsShaped(w[j])
      BY <3>4, DocumentIsNode, NodeShape
    <3>7. i \in 1 .. Len(w[j].members) /\ WithChild(w[j], p[j + 1], f[k]) = Except(w[j], i, f[k])
      BY <3>4, <3>5, <3>6, WithChildIs
    <3>8. Document(Except(w[j], i, f[k]))
      BY <3>3, <3>4, <3>7, ExceptDocument
    <3>9. Document(f[k + 1])
      BY <3>1, <3>2, <3>7, <3>8, Zenon
    <3> QED
      BY <3>9
  <2> QED
    BY <2>1
<1>9. N \in S
  <2> HIDE DEF S
  <2> QED
    BY <1>7, <1>8, NatInd
<1>10. Document(f[N])
  BY <1>9
<1> QED
  BY <1>2, <1>10, Zenon

-----------------------------------------------------------------------------
(* The walk of a pointer is its parent's, and a step more.                   *)
LEMMA FrontOfPath ==
  ASSUME NEW p \in Seq(STRING), p # << >>
  PROVE  /\ Seqs!Front(p) \in Seq(STRING) /\ Len(p) \in Nat /\ Len(Seqs!Front(p)) = Len(p) - 1
         /\ Len(Seqs!Front(p)) \in Nat
         /\ \A k \in 1 .. Len(p) - 1 : Seqs!Front(p)[k] = p[k]
         /\ Seqs!Last(p) = p[Len(p)] /\ Len(p) \in 1 .. Len(p)
<1>1. PICK n \in Nat : n = Len(p) /\ n # 0
  BY EmptySeq
<1>2. PICK q : q = SubSeq(p, 1, n - 1)
  OBVIOUS
<1>3. q \in Seq(STRING) /\ Len(q) = n - 1 /\ \A k \in 1 .. n - 1 : q[k] = p[k]
  <2>1. \A k \in 1 .. n - 1 : p[k] \in STRING
    BY <1>1
  <2>2. 1 \in Int /\ n - 1 \in Int
    BY <1>1
  <2>3. /\ SubSeq(p, 1, n - 1) \in Seq(STRING)
        /\ Len(SubSeq(p, 1, n - 1)) = IF 1 <= n - 1 THEN n - 1 - 1 + 1 ELSE 0
        /\ \A i \in 1 .. n - 1 - 1 + 1 : SubSeq(p, 1, n - 1)[i] = p[1 + i - 1]
    BY <2>1, <2>2, SubSeqProperties
  <2>4. Len(q) = n - 1
    BY <2>3, <1>1, <1>2
  <2>5. ASSUME NEW k \in 1 .. n - 1 PROVE q[k] = p[k]
    <3>1. k \in 1 .. n - 1 - 1 + 1 /\ 1 + k - 1 = k
      BY <1>1
    <3> QED
      BY <3>1, <2>3, <1>2
  <2> QED
    BY <2>3, <2>4, <2>5, <1>2
<1>4. Seqs!Front(p) = q /\ Seqs!Last(p) = p[n]
  BY <1>1, <1>2, Zenon DEF Seqs!Front, Seqs!Last
<1> QED
  BY <1>1, <1>3, <1>4

LEMMA WalkOfFront ==
  ASSUME NEW p \in Seq(STRING), p # << >>, NEW v
  PROVE  Walk(v, p)[Len(p)] =
           Child(Walk(v, Seqs!Front(p))[Len(Seqs!Front(p))], Seqs!Last(p))
<1>1. PICK q : q = Seqs!Front(p)
  BY SMTT(30)
<1>2. PICK n \in Nat : Len(p) = n + 1 /\ Len(q) = n /\ \A k \in 1 .. n : q[k] = p[k]
  <2>1. Len(p) - 1 \in Nat /\ Len(p) = Len(p) - 1 + 1
    BY FrontOfPath
  <2> QED
    BY <2>1, <1>1, FrontOfPath
<1>3. PICK w, z : w = Walk(v, p) /\ z = Walk(v, q)
  OBVIOUS
<1>4. Walks(w, n + 1, v, p) /\ Walks(z, n, v, q)
  <2>1. Len(p) \in Nat /\ Len(q) \in Nat
    BY <1>2
  <2> QED
    BY <2>1, <1>2, <1>3, WalkSteps, Zenon
<1>5. w[0] = v /\ \A k \in 1 .. n + 1 : w[k] = Child(w[k - 1], p[k])
  BY <1>4, Zenon DEF Walks
<1>6. z[0] = v /\ \A k \in 1 .. n : z[k] = Child(z[k - 1], q[k])
  BY <1>4, Zenon DEF Walks
<1> DEFINE S == {k \in Nat : k =< n => w[k] = z[k]}
<1>7. 0 \in S
  BY <1>5, <1>6
<1>8. ASSUME NEW k \in Nat, k \in S PROVE k + 1 \in S
  <2>1. CASE k + 1 =< n
    <3>1. PICK j \in 1 .. n : j = k + 1 /\ j - 1 = k /\ j \in 1 .. n + 1
      BY <2>1
    <3>2. w[k] = z[k]
      BY <1>8, <2>1
    <3>3. w[j] = Child(w[k], p[j]) /\ z[j] = Child(z[k], q[j]) /\ q[j] = p[j]
      BY <3>1, <1>2, <1>5, <1>6, Zenon
    <3> QED
      BY <3>1, <3>2, <3>3
  <2> QED
    BY <2>1
<1>9. n \in S
  <2> HIDE DEF S
  <2> QED
    BY <1>7, <1>8, NatInd
<1>10. w[n] = z[n]
  BY <1>9
<1>11. w[n + 1] = Child(w[n], p[n + 1])
  <2>1. PICK j \in 1 .. n + 1 : j = n + 1 /\ j - 1 = n
    OBVIOUS
  <2> QED
    BY <2>1, <1>5, Zenon
<1>12. Seqs!Last(p) = p[n + 1]
  BY <1>2, FrontOfPath
<1> QED
  BY <1>1, <1>2, <1>3, <1>10, <1>11, <1>12, Zenon

-----------------------------------------------------------------------------
(* The texts the parser takes are documents, as deep as they go.             *)
LEMMA TextIsDocument ==
  ASSUME NEW text \in Texts, ToyAccepts(text)
  PROVE  Document(text)
<1>1. MaxDepth \in Nat
  BY Widths
<1>2. Level(text, MaxDepth + 1) = {}
  BY DEF ToyAccepts
<1> DEFINE S == {k \in Nat : Level(text, MaxDepth + 1 + k) = {}}
<1>3. 0 \in S
  BY <1>1, <1>2
<1>4. ASSUME NEW k \in Nat, k \in S PROVE k + 1 \in S
  <2>1. PICK m \in Nat : m = MaxDepth + 1 + k /\ m + 1 = MaxDepth + 1 + (k + 1)
    BY <1>1
  <2>2. Level(text, m + 1) = Under(Level(text, m))
    BY LevelSteps
  <2>3. Level(text, m) = {}
    BY <1>4, <2>1
  <2>4. Under({}) = {}
    BY DEF Under
  <2>5. Level(text, MaxDepth + 1 + (k + 1)) = {}
    BY <2>1, <2>2, <2>3, <2>4
  <2> QED
    BY <2>5
<1>5. \A k \in Nat : k \in S
  <2> HIDE DEF S
  <2> QED
    BY <1>3, <1>4, NatInd
<1> SUFFICES ASSUME NEW n \in Nat, NEW u \in Level(text, n) PROVE IsNode(u)
  BY Zenon DEF Document
<1>6. CASE n =< MaxDepth
  <2>1. n \in 0 .. MaxDepth
    BY <1>1, <1>6
  <2> QED
    BY <2>1, TextsAssumption
<1>7. CASE ~(n =< MaxDepth)
  <2>1. PICK k \in Nat : n = MaxDepth + 1 + k
    <3>1. n - (MaxDepth + 1) \in Nat /\ n = MaxDepth + 1 + (n - (MaxDepth + 1))
      BY <1>1, <1>7
    <3> QED
      BY <3>1
  <2>2. k \in S
    BY <1>5
  <2> QED
    BY <2>1, <2>2
<1> QED
  BY <1>6, <1>7

-----------------------------------------------------------------------------
(* A write has a parent, a node of the document that took or gave up a       *)
(* member, and rebuilds the document around it.                              *)
ParentOf(v, p) == Walk(v, Seqs!Front(p))[Len(Seqs!Front(p))]

Rewrites(new, v, p, node) ==
  /\ p \in Seq(STRING) /\ p # << >>
  /\ ParentOf(v, p) # Nowhere /\ node # Nowhere
  /\ new = Replaced(v, Seqs!Front(p), node)

LEMMA WrittenIs ==
  ASSUME NEW v, NEW p \in Paths, NEW text, Written(v, p, text) # Nowhere
  PROVE  /\ v # Nowhere /\ ToyAccepts(text) /\ p # NotAPointer
         /\ \/ p = << >> /\ Written(v, p, text) = text
            \/ Rewrites(Written(v, p, text), v, p, Put(ParentOf(v, p), Seqs!Last(p), text))
<1>1. v # Nowhere /\ ToyAccepts(text) /\ p # NotAPointer
  BY Zenon DEF Written
<1>2. p \in Seq(STRING)
  BY <1>1, PathsAssumption
<1>3. CASE p = << >>
  BY <1>1, <1>3, Zenon DEF Written
<1>4. CASE p # << >>
  <2>1. PICK parent : parent = ToyResolve(v, Seqs!Front(p))
    OBVIOUS
  <2>2. PICK node : node = Put(parent, Seqs!Last(p), text)
    OBVIOUS
  <2>3. Written(v, p, text) = InParent(v, p, node)
    BY <1>1, <1>4, <2>1, <2>2, Zenon DEF Written
  <2>4. node # Nowhere /\ InParent(v, p, node) = Replaced(v, Seqs!Front(p), node)
    BY <2>3, Zenon DEF InParent
  <2>5. parent # Nowhere
    <3>1. Nowhere.kind # "object" /\ Nowhere.kind # "array"
      BY NoKind
    <3>2. Put(Nowhere, Seqs!Last(p), text) = Nowhere
      BY <3>1 DEF Put
    <3> QED
      BY <3>2, <2>2, <2>4
  <2>6. parent = ParentOf(v, p)
    BY <2>1, <2>5, Zenon DEF ToyResolve, ParentOf
  <2> QED
    BY <1>1, <1>2, <1>4, <2>2, <2>3, <2>4, <2>5, <2>6, Zenon DEF Rewrites
<1> QED
  BY <1>3, <1>4

LEMMA ErasedIs ==
  ASSUME NEW v, NEW p \in Paths, Erased(v, p) # Nowhere
  PROVE  /\ v # Nowhere
         /\ Rewrites(Erased(v, p), v, p, Drop(ParentOf(v, p), Seqs!Last(p)))
<1>1. v # Nowhere /\ p # NotAPointer /\ p # << >>
  BY Zenon DEF Erased
<1>2. p \in Seq(STRING)
  BY <1>1, PathsAssumption
<1>3. PICK parent : parent = ToyResolve(v, Seqs!Front(p))
  OBVIOUS
<1>4. PICK node : node = Drop(parent, Seqs!Last(p))
  OBVIOUS
<1>5. Erased(v, p) = InParent(v, p, node)
  BY <1>1, <1>3, <1>4, Zenon DEF Erased
<1>6. node # Nowhere /\ InParent(v, p, node) = Replaced(v, Seqs!Front(p), node)
  BY <1>5, Zenon DEF InParent
<1>7. parent # Nowhere
  <2>1. Nowhere.kind # "object" /\ Nowhere.kind # "array"
    BY NoKind
  <2>2. ChildAt(Nowhere, Seqs!Last(p)) = 0
    BY <2>1 DEF ChildAt
  <2>3. Drop(Nowhere, Seqs!Last(p)) = Nowhere
    BY <2>2, Zenon DEF Drop
  <2> QED
    BY <2>3, <1>4, <1>6
<1>8. parent = ParentOf(v, p)
  BY <1>3, <1>7, Zenon DEF ToyResolve, ParentOf
<1> QED
  BY <1>1, <1>2, <1>4, <1>5, <1>6, <1>7, <1>8, Zenon DEF Rewrites

LEMMA ParentIsDocument ==
  ASSUME NEW v, Document(v), NEW p, NEW node, NEW new, Rewrites(new, v, p, node)
  PROVE  Document(ParentOf(v, p)) /\ OnPath(v, Seqs!Front(p))
<1>1. p \in Seq(STRING) /\ p # << >>
  BY Zenon DEF Rewrites
<1>2. PICK q : q = Seqs!Front(p) /\ Len(q) \in Nat
  BY <1>1, FrontOfPath
<1>3. Walk(v, q)[Len(q)] # Nowhere
  BY <1>2, Zenon DEF Rewrites, ParentOf
<1>4. OnPath(v, q)
  BY <1>2, <1>3, WalkIsPath
<1>5. Len(q) \in 0 .. Len(q)
  BY <1>2
<1>6. Document(Walk(v, q)[Len(q)])
  BY <1>2, <1>3, <1>5, WalkInDocument, Zenon
<1> QED
  BY <1>2, <1>4, <1>6, Zenon DEF ParentOf

LEMMA RewriteDocument ==
  ASSUME NEW v, Document(v), NEW p, NEW node, Document(node), NEW new, Rewrites(new, v, p, node)
  PROVE  Document(new)
<1>1. p \in Seq(STRING) /\ p # << >> /\ new = Replaced(v, Seqs!Front(p), node)
  BY Zenon DEF Rewrites
<1>2. PICK q : q = Seqs!Front(p) /\ Len(q) \in Nat
  BY <1>1, FrontOfPath
<1>3. Walk(v, q)[Len(q)] # Nowhere
  BY <1>2, Zenon DEF Rewrites, ParentOf
<1>4. Document(Replaced(v, q, node))
  BY <1>2, <1>3, RebuiltDocument
<1> QED
  BY <1>1, <1>2, <1>4, Zenon

-----------------------------------------------------------------------------
(* Nothing is modelled, or a document.                                       *)
HoldsDocument == root = Nowhere \/ Document(root)

LEMMA WrittenDocument ==
  ASSUME HoldsDocument, NEW p \in Paths, NEW text \in Texts, Written(root, p, text) # Nowhere
  PROVE  Document(Written(root, p, text))
<1>1. root # Nowhere /\ ToyAccepts(text)
  BY WrittenIs, Zenon
<1>2. Document(root) /\ Document(text)
  BY <1>1, TextIsDocument DEF HoldsDocument
<1>3. CASE p = << >> /\ Written(root, p, text) = text
  BY <1>2, <1>3
<1>4. CASE Rewrites(Written(root, p, text), root, p, Put(ParentOf(root, p), Seqs!Last(p), text))
  <2>1. PICK parent : parent = ParentOf(root, p)
    OBVIOUS
  <2>2. PICK node : node = Put(parent, Seqs!Last(p), text)
    OBVIOUS
  <2>3. PICK new : new = Written(root, p, text)
    OBVIOUS
  <2>4. Rewrites(new, root, p, node)
    BY <1>4, <2>1, <2>2, <2>3, Zenon
  <2>5. Document(parent)
    BY <1>2, <2>1, <2>4, ParentIsDocument, Zenon
  <2>6. node # Nowhere
    BY <2>4, Zenon DEF Rewrites
  <2>7. Document(node)
    BY <1>2, <2>2, <2>5, <2>6, PutDocument, Zenon
  <2> QED
    BY <1>2, <2>3, <2>4, <2>7, RewriteDocument, Zenon
<1> QED
  BY <1>3, <1>4, WrittenIs, Zenon

LEMMA ErasedDocument ==
  ASSUME HoldsDocument, NEW p \in Paths, Erased(root, p) # Nowhere
  PROVE  Document(Erased(root, p))
<1>1. PICK parent : parent = ParentOf(root, p)
  OBVIOUS
<1>2. PICK node : node = Drop(parent, Seqs!Last(p))
  OBVIOUS
<1>3. PICK new : new = Erased(root, p)
  OBVIOUS
<1>4. root # Nowhere /\ Rewrites(new, root, p, node)
  BY <1>1, <1>2, <1>3, ErasedIs, Zenon
<1>5. Document(root)
  BY <1>4 DEF HoldsDocument
<1>6. Document(parent)
  BY <1>1, <1>4, <1>5, ParentIsDocument, Zenon
<1>7. node # Nowhere
  BY <1>4, Zenon DEF Rewrites
<1>8. Document(node)
  BY <1>2, <1>6, <1>7, DropDocument, Zenon
<1> QED
  BY <1>3, <1>4, <1>5, <1>8, RewriteDocument, Zenon

LEMMA DocumentStep ==
  ASSUME HoldsDocument, [Next]_vars
  PROVE  HoldsDocument'
<1>1. ASSUME NEW text \in Texts, Parse(text) PROVE HoldsDocument'
  <2>1. CASE ToyAccepts(text) /\ root' = text
    <3>1. Document(text)
      BY <2>1, TextIsDocument
    <3>2. Document(root')
      BY <2>1, <3>1, Zenon
    <3> QED
      BY <3>2, Zenon DEF HoldsDocument
  <2>2. CASE root' = root
    BY <2>2, Zenon DEF HoldsDocument
  <2> QED
    BY <1>1, <2>1, <2>2, Zenon DEF Parse
<1>2. ASSUME NEW p \in Paths, NEW text \in Texts, Set(p, text) PROVE HoldsDocument'
  <2>1. CASE Written(root, p, text) # Nowhere /\ root' = Written(root, p, text)
    <3>1. Document(Written(root, p, text))
      BY <2>1, WrittenDocument, Zenon
    <3>2. Document(root')
      BY <2>1, <3>1, Zenon
    <3> QED
      BY <3>2, Zenon DEF HoldsDocument
  <2>2. CASE root' = root
    BY <2>2, Zenon DEF HoldsDocument
  <2> QED
    BY <1>2, <2>1, <2>2, Zenon DEF Set
<1>3. ASSUME NEW p \in Paths, Remove(p) PROVE HoldsDocument'
  <2>1. CASE Erased(root, p) # Nowhere /\ root' = Erased(root, p)
    <3>1. Document(Erased(root, p))
      BY <2>1, ErasedDocument, Zenon
    <3>2. Document(root')
      BY <2>1, <3>1, Zenon
    <3> QED
      BY <3>2, Zenon DEF HoldsDocument
  <2>2. CASE root' = root
    BY <2>2, Zenon DEF HoldsDocument
  <2> QED
    BY <1>3, <2>1, <2>2, Zenon DEF Remove
<1>4. CASE UNCHANGED vars
  <2>1. root' = root
    BY <1>4 DEF vars
  <2> QED
    BY <2>1, Zenon DEF HoldsDocument
<1> QED
  BY <1>1, <1>2, <1>3, <1>4, Zenon DEF Next

(* In a document, what is set where nothing was is there, and its removal    *)
(* brings the document back.                                                 *)
LEMMA SetThenRemoveHolds ==
  ASSUME HoldsDocument, NEW p \in Paths, NEW text \in Texts, Written(root, p, text) # Nowhere,
         ToyResolve(root, p) = Nowhere, p[Len(p)] # "-"
  PROVE  /\ ToyResolve(Written(root, p, text), p) = text
         /\ Erased(Written(root, p, text), p) = root
<1>1. /\ root # Nowhere /\ ToyAccepts(text) /\ p # NotAPointer
      /\ \/ p = << >> /\ Written(root, p, text) = text
         \/ Rewrites(Written(root, p, text), root, p, Put(ParentOf(root, p), Seqs!Last(p), text))
  BY WrittenIs, Zenon
<1>2. Document(root)
  BY <1>1 DEF HoldsDocument
<1>3. p \in Seq(STRING)
  BY <1>1, PathsAssumption
<1>4. Walk(root, p)[Len(p)] = Nowhere
  BY <1>1, Zenon DEF ToyResolve
<1>5. p # << >>
  <2>1. p = << >> => Len(p) = 0
    BY EmptySeq
  <2>2. Len(p) \in Nat
    BY <1>3
  <2>3. Walk(root, p)[0] = root
    BY <2>2, WalkSteps, Zenon DEF Walks
  <2> QED
    BY <1>1, <1>4, <2>1, <2>3, Zenon
<1>6. PICK q, token : q = Seqs!Front(p) /\ token = Seqs!Last(p)
  OBVIOUS
<1>7. PICK parent : parent = ParentOf(root, p) /\ parent = Walk(root, q)[Len(q)]
  BY <1>6, Zenon DEF ParentOf
<1>8. PICK node : node = Put(parent, token, text)
  OBVIOUS
<1>9. PICK new : new = Written(root, p, text)
  OBVIOUS
<1>10. Rewrites(new, root, p, node)
  BY <1>1, <1>5, <1>6, <1>7, <1>8, <1>9, Zenon
<1>11. new = Replaced(root, q, node) /\ parent # Nowhere /\ node # Nowhere
  BY <1>6, <1>7, <1>10, Zenon DEF Rewrites
<1>12. Document(parent) /\ OnPath(root, q)
  BY <1>2, <1>6, <1>7, <1>10, ParentIsDocument, Zenon
<1>13. IsNode(parent)
  BY <1>12, DocumentIsNode
<1>14. ChildAt(parent, token) = 0
  <2>1. Child(parent, token) = Nowhere
    BY <1>3, <1>4, <1>5, <1>6, <1>7, WalkOfFront, Zenon
  <2>2. ~Document(Nowhere)
    <3>1. ~IsNode(Nowhere)
      BY NodeIsSomething, Zenon
    <3> QED
      BY <3>1, DocumentIsNode, Zenon
  <2> QED
    BY <1>12, <2>1, <2>2, ChildOfDocument, Zenon
<1>15. Child(node, token) = text /\ Drop(node, token) = parent
  <2>1. CASE parent.kind = "object"
    <3>1. KeyOf(Member(EncodeKey(token), text)) = token
      <4>1. Len(p) \in 1 .. Len(p) /\ token = p[Len(p)]
        BY <1>3, <1>5, <1>6, FrontOfPath
      <4>2. KeyOf(Member(EncodeKey(token), Nowhere)) = token
        BY <1>1, <4>1, PathsAssumption, Zenon
      <4>3. PICK key : key = EncodeKey(token)
        OBVIOUS
      <4>4. Member(key, Nowhere).key = key /\ Member(key, text).key = key
        BY MemberFields
      <4>5. KeyOf(Member(key, Nowhere)) = KeyOf(Member(key, text))
        BY <4>4, Zenon DEF KeyOf
      <4> QED
        BY <4>2, <4>3, <4>5, Zenon
    <3> QED
      BY <1>8, <1>13, <1>14, <2>1, <3>1, PutNewMember, Zenon
  <2>2. CASE parent.kind = "array"
    <3>1. token # "-"
      BY <1>3, <1>5, <1>6, FrontOfPath
    <3> QED
      BY <1>8, <1>11, <1>13, <1>14, <2>2, <3>1, PutNewElement, Zenon
  <2>3. CASE parent.kind # "object" /\ parent.kind # "array"
    <3>1. Put(parent, token, text) = Nowhere
      BY <2>3 DEF Put
    <3> QED
      BY <3>1, <1>8, <1>11, Zenon
  <2> QED
    BY <2>1, <2>2, <2>3
<1>16. Walk(new, q)[Len(q)] = node
  <2>1. Walk(Replaced(root, q, node), q)[Len(q)] = node
    BY <1>12, Rebuilt
  <2> QED
    BY <2>1, <1>11, Zenon
<1>17. ToyResolve(new, p) = text
  <2>1. Walk(new, p)[Len(p)] = Child(node, token)
    BY <1>3, <1>5, <1>6, <1>16, WalkOfFront, Zenon
  <2> QED
    BY <1>1, <1>15, <2>1, Zenon DEF ToyResolve
<1>18. Erased(new, p) = root
  <2>1. q # NotAPointer
    <3>1. q = NotAPointer => ToyResolve(root, q) = Nowhere
      BY Zenon DEF ToyResolve
    <3>2. Written(root, p, text) = InParent(root, p, Put(ToyResolve(root, q), token, text))
      BY <1>1, <1>5, <1>6, Zenon DEF Written
    <3>3. Put(Nowhere, token, text) = Nowhere
      <4>1. Nowhere.kind # "object" /\ Nowhere.kind # "array"
        BY NoKind
      <4> QED
        BY <4>1 DEF Put
    <3>4. InParent(root, p, Nowhere) = Nowhere
      BY Zenon DEF InParent
    <3> QED
      BY <3>1, <3>2, <3>3, <3>4, Zenon
  <2>2. ToyResolve(new, q) = node
    BY <1>16, <2>1, Zenon DEF ToyResolve
  <2>3. new # Nowhere
    BY <1>9
  <2>4. Erased(new, p) = InParent(new, p, Drop(ToyResolve(new, q), token))
    BY <1>1, <1>5, <1>6, <2>3, Zenon DEF Erased
  <2>5. Erased(new, p) = Replaced(new, q, parent)
    BY <1>6, <1>11, <1>15, <2>2, <2>4, Zenon DEF InParent
  <2> QED
    BY <1>7, <1>11, <1>12, <2>5, RebuiltBack, Zenon
<1> QED
  BY <1>9, <1>17, <1>18, Zenon

(* Law O4's question, of every document the calls can build and every        *)
(* pointer: set_value() where nothing was, at any depth and under keys that  *)
(* are spelled with escapes or held twice, and remove_value() (jsonfuzz_sut  *)
(* .cpp:624-716) leave no trace.                                             *)
THEOREM SetThenRemoveLeavesNoTrace == Spec => []SetThenRemove
<1>1. Init => HoldsDocument
  BY Zenon DEF Init, HoldsDocument
<1>2. HoldsDocument /\ [Next]_vars => HoldsDocument'
  BY DocumentStep
<1>3. HoldsDocument => SetThenRemove
  BY SetThenRemoveHolds, Zenon DEF SetThenRemove
<1> QED
  BY <1>1, <1>2, <1>3, PTL DEF Spec
=============================================================================
