-------------------------- MODULE Spellings_proofs --------------------------
(***************************************************************************)
(* The conversions of Spellings on texts of any length: what set() writes  *)
(* for a key is read back as that key, what pointers() lists is split into *)
(* the keys it was built from, and a decoded key is the Unicode text that  *)
(* was spelled.  A loop over a text is a recursive function of positions;  *)
(* what it computes is proved by induction on the position.                *)
(***************************************************************************)
EXTENDS Spellings, WellFoundedInduction, SequenceTheorems, TLAPS

-----------------------------------------------------------------------------
(* Induction, with the property as the set of the numbers that have it.      *)
LEMMA NatMin ==
  ASSUME NEW T, T \subseteq Nat, T # {}
  PROVE  \E x \in T : \A y \in T : x =< y
<1> DEFINE R == OpToRel(<, Nat)
<1>1. IsWellFoundedOn(R, Nat)
  BY NatLessThanWellFounded, Zenon
<1>2. \A x, y \in Nat : <<y, x>> \in R <=> y < x
  <2>1. R = {ss \in Nat \X Nat : ss[1] < ss[2]}
    BY Zenon DEF OpToRel
  <2> QED
    BY <2>1
<1> HIDE DEF R
<1>3. \E x \in T : \A y \in T : ~(<<y, x>> \in R)
  BY <1>1, WFMin
<1>4. \E x \in T : \A y \in T : ~(y < x)
  BY <1>2, <1>3
<1> QED
  BY <1>4

LEMMA NatInd ==
  ASSUME NEW S, 0 \in S, \A n \in Nat : n \in S => n + 1 \in S
  PROVE  \A n \in Nat : n \in S
<1> SUFFICES ASSUME Nat \ S # {} PROVE FALSE
  OBVIOUS
<1>1. PICK x \in Nat \ S : \A y \in Nat \ S : x =< y
  BY NatMin
<1>2. x # 0 /\ x - 1 \in Nat /\ x - 1 \in S
  BY <1>1
<1> QED
  BY <1>1, <1>2

-----------------------------------------------------------------------------
(* A loop over a text, as Scan defines it: it moves t[k] on from position k   *)
(* and emits o[k] there.  The recursive function exists.                     *)
Loop(L, t, o) ==
  CHOOSE f : f = [k \in Nat |-> IF k \in 1 .. L THEN o[k] \o f[k + t[k]] ELSE << >>]

LEMMA LoopSteps ==
  ASSUME NEW L \in Nat, NEW t \in [1 .. L -> Nat \ {0}], NEW o
  PROVE  /\ \A k \in 1 .. L : Loop(L, t, o)[k] = o[k] \o Loop(L, t, o)[k + t[k]]
         /\ \A k \in Nat : k \notin 1 .. L => Loop(L, t, o)[k] = << >>
         /\ Loop(L, t, o) = [k \in Nat |-> Loop(L, t, o)[k]]
<1> DEFINE Body(f, k) == IF k \in 1 .. L THEN o[k] \o f[k + t[k]] ELSE << >>
           Fits(f, n) == \A k \in Nat : k > L - n => f[k] = Body(f, k)
           S == {n \in Nat : \E f : f = [k \in Nat |-> f[k]] /\ Fits(f, n)}
<1>1. 0 \in S
  <2> DEFINE g == [k \in Nat |-> << >>]
  <2>1. ASSUME NEW k \in Nat, k > L PROVE g[k] = Body(g, k)
    <3>1. k \notin 1 .. L
      BY <2>1
    <3> QED
      BY <3>1, Zenon
  <2>2. \A k \in Nat : k > L - 0 => k > L
    OBVIOUS
  <2>3. g = [k \in Nat |-> g[k]]
    BY Zenon
  <2>4. Fits(g, 0)
    BY <2>1, <2>2, Zenon
  <2> HIDE DEF g, Fits
  <2> QED
    BY <2>3, <2>4
<1>2. ASSUME NEW n \in Nat, n \in S PROVE n + 1 \in S
  <2>1. PICK f : f = [k \in Nat |-> f[k]] /\ Fits(f, n)
    BY <1>2
  <2> DEFINE g == [k \in Nat |-> IF k = L - n THEN Body(f, k) ELSE f[k]]
  <2>2. ASSUME NEW k \in Nat, k > L - (n + 1) PROVE g[k] = Body(g, k)
    <3>1. k \in 1 .. L => /\ k + t[k] \in Nat /\ k + t[k] # L - n
                          /\ g[k + t[k]] = f[k + t[k]]
      BY <2>2
    <3>2. Body(g, k) = Body(f, k)
      BY <3>1
    <3>3. k = L - n \/ k > L - n
      BY <2>2
    <3> QED
      BY <2>1, <3>2, <3>3
  <2>3. g = [k \in Nat |-> g[k]] /\ Fits(g, n + 1)
    BY <2>2
  <2> HIDE DEF g, Fits
  <2> QED
    BY <2>3
<1>3. L + 1 \in S
  <2> HIDE DEF S
  <2> QED
    BY <1>1, <1>2, NatInd
<1>4. PICK f : f = [k \in Nat |-> f[k]] /\ Fits(f, L + 1)
  BY <1>3
<1>5. \A k \in Nat : k > L - (L + 1)
  OBVIOUS
<1>6. \A k \in Nat : f[k] = Body(f, k)
  BY <1>4, <1>5, Zenon
<1>7. f = [k \in Nat |-> Body(f, k)]
  BY <1>4, <1>6, Zenon
<1> DEFINE g == Loop(L, t, o)
<1>8. g = [k \in Nat |-> Body(g, k)]
  BY <1>7, Zenon DEF Loop
<1> HIDE DEF g
<1>9. \A k \in 1 .. L : k \in Nat
  OBVIOUS
<1> QED
  <2>1. g = [k \in Nat |-> g[k]]
    BY <1>8, Zenon
  <2> QED
    BY <1>8, <1>9, <2>1, Zenon DEF g

-----------------------------------------------------------------------------
(* What FlattenSeq makes of a sequence of pieces.                            *)
FlatTo(ss) ==
  CHOOSE f : f = [i \in 1 .. Len(ss) |-> IF i = 1 THEN ss[i] ELSE f[i - 1] \o ss[i]]

LEMMA FlatExists ==
  ASSUME NEW ss, Len(ss) \in Nat
  PROVE  FlatTo(ss) = [i \in 1 .. Len(ss) |->
                         IF i = 1 THEN ss[i] ELSE FlatTo(ss)[i - 1] \o ss[i]]
<1> DEFINE L == Len(ss)
           Body(f, i) == IF i = 1 THEN ss[i] ELSE f[i - 1] \o ss[i]
           Fits(f, n) == \A i \in 1 .. L : i =< n => f[i] = Body(f, i)
           S == {n \in Nat : \E f : f = [i \in 1 .. L |-> f[i]] /\ Fits(f, n)}
<1>1. 0 \in S
  <2> DEFINE g == [i \in 1 .. L |-> << >>]
  <2>1. g = [i \in 1 .. L |-> g[i]]
    BY Zenon
  <2>2. \A i \in 1 .. L : ~(i =< 0)
    OBVIOUS
  <2>3. Fits(g, 0)
    BY <2>2, Zenon
  <2> HIDE DEF g, Fits
  <2> QED
    BY <2>1, <2>3
<1>2. ASSUME NEW n \in Nat, n \in S PROVE n + 1 \in S
  <2>1. PICK f : f = [i \in 1 .. L |-> f[i]] /\ Fits(f, n)
    BY <1>2
  <2> DEFINE g == [i \in 1 .. L |-> IF i = n + 1 THEN Body(f, i) ELSE f[i]]
  <2>2. ASSUME NEW i \in 1 .. L, i =< n + 1 PROVE g[i] = Body(g, i)
    <3>1. i # 1 => i - 1 \in 1 .. L /\ i - 1 # n + 1
      BY <2>2
    <3>2. i # 1 => g[i - 1] = f[i - 1]
      BY <3>1
    <3>3. Body(g, i) = Body(f, i)
      BY <3>2
    <3>4. i = n + 1 \/ i =< n
      BY <2>2
    <3> QED
      BY <2>1, <3>3, <3>4
  <2>3. g = [i \in 1 .. L |-> g[i]] /\ Fits(g, n + 1)
    BY <2>2
  <2> HIDE DEF g, Fits
  <2> QED
    BY <2>3
<1>3. L \in S
  <2> HIDE DEF S
  <2> QED
    BY <1>1, <1>2, NatInd
<1>4. PICK f : f = [i \in 1 .. L |-> f[i]] /\ Fits(f, L)
  BY <1>3
<1>5. \A i \in 1 .. L : i =< L
  OBVIOUS
<1>6. \A i \in 1 .. L : f[i] = Body(f, i)
  BY <1>4, <1>5, Zenon
<1>7. f = [i \in 1 .. L |-> Body(f, i)]
  BY <1>4, <1>6, Zenon
<1> QED
  BY <1>7, Zenon DEF FlatTo

LEMMA FlattenIs ==
  ASSUME NEW ss, Len(ss) \in Nat \ {0}
  PROVE  FlattenSeq(ss) = FlatTo(ss)[Len(ss)]
<1>1. Len(ss) # 0
  OBVIOUS
<1> QED
  BY <1>1, Zenon DEF FlattenSeq, FlatTo

\* What is put at the end of a text leaves what is before it where it was.
LEMMA PrefixesStay ==
  ASSUME NEW L \in Nat, NEW at \in [0 .. L -> Nat], NEW c,
         \A n \in Nat : n + 1 =< L =>
            at[n] =< at[n + 1] /\ \A j \in 1 .. at[n] : c[n + 1][j] = c[n][j]
  PROVE  \A n \in 0 .. L : at[n] =< at[L] /\ \A j \in 1 .. at[n] : c[L][j] = c[n][j]
<1> DEFINE Good(n) == at[n] =< at[L] /\ \A j \in 1 .. at[n] : c[L][j] = c[n][j]
           S == {d \in Nat : \A n \in 0 .. L : n + d = L => Good(n)}
<1>1. 0 \in S
  <2>1. \A n \in 0 .. L : n + 0 = L => n = L /\ at[n] =< at[L]
    OBVIOUS
  <2> QED
    BY <2>1
<1>2. ASSUME NEW d \in Nat, d \in S PROVE d + 1 \in S
  <2> SUFFICES ASSUME NEW n \in 0 .. L, n + (d + 1) = L PROVE Good(n)
    OBVIOUS
  <2>1. n \in Nat /\ n + 1 \in 0 .. L /\ (n + 1) + d = L /\ n + 1 =< L
    OBVIOUS
  <2>2. Good(n + 1)
    BY <1>2, <2>1
  <2>3. at[n] =< at[n + 1] /\ \A j \in 1 .. at[n] : c[n + 1][j] = c[n][j]
    BY <2>1
  <2>4. at[n] \in Nat /\ at[n + 1] \in Nat /\ at[L] \in Nat
    BY <2>1
  <2>5. ASSUME NEW j \in 1 .. at[n] PROVE c[L][j] = c[n][j]
    <3>1. j \in 1 .. at[n + 1]
      BY <2>3, <2>4
    <3>2. c[L][j] = c[n + 1][j]
      BY <2>2, <3>1, Zenon
    <3>3. c[n + 1][j] = c[n][j]
      BY <2>3, Zenon
    <3> QED
      BY <3>2, <3>3, Zenon
  <2>6. at[n] =< at[L]
    BY <2>2, <2>3, <2>4
  <2> QED
    BY <2>5, <2>6
<1> HIDE DEF Good, S
<1>3. \A d \in Nat : d \in S
  BY <1>1, <1>2, NatInd
<1> USE DEF Good, S
<1> SUFFICES ASSUME NEW n \in 0 .. L PROVE Good(n)
  OBVIOUS
<1>4. L - n \in Nat /\ n + (L - n) = L
  OBVIOUS
<1> QED
  BY <1>3, <1>4

\* Where each piece starts, and what is there.
Cuts(at, ss, text) ==
  /\ at \in [0 .. Len(ss) -> Nat] /\ at[0] = 0 /\ at[Len(ss)] = Len(text)
  /\ \A n \in Nat : n + 1 =< Len(ss) =>
       /\ at[n + 1] = at[n] + Len(ss[n + 1])
       /\ at[n + 1] =< Len(text)
       /\ \A j \in 1 .. Len(ss[n + 1]) : text[at[n] + j] = ss[n + 1][j]

LEMMA FlattenPieces ==
  ASSUME NEW T, NEW ss \in Seq(Seq(T))
  PROVE  FlattenSeq(ss) \in Seq(T) /\ \E at : Cuts(at, ss, FlattenSeq(ss))
<1> DEFINE L == Len(ss)
           F == FlatTo(ss)
           P == [n \in 0 .. L |-> IF n = 0 THEN << >> ELSE F[n]]
           Step(n) == P[n + 1] = P[n] \o ss[n + 1]
<1>0. L \in Nat /\ \A n \in 1 .. L : ss[n] \in Seq(T)
  BY LenProperties, ElementOfSeq
<1>1. P[0] = << >> /\ \A n \in Nat : n + 1 =< L => Step(n)
  <2>1. F = [i \in 1 .. L |-> IF i = 1 THEN ss[i] ELSE F[i - 1] \o ss[i]]
    BY <1>0, FlatExists
  <2> HIDE DEF F
  <2>2. P[0] = << >>
    BY <1>0
  <2>3. ASSUME NEW n \in Nat, n + 1 =< L PROVE Step(n)
    <3>1. n \in 0 .. L /\ n + 1 \in 0 .. L /\ n + 1 \in 1 .. L /\ n + 1 # 0 /\ (n + 1) - 1 = n
      BY <2>3, <1>0
    <3>2. P[n + 1] = F[n + 1]
      BY <3>1
    <3>3. CASE n = 0
      <4>1. << >> \o ss[1] = ss[1]
        BY <1>0, <3>1, <3>3, ConcatEmptySeq
      <4>2. F[1] = ss[1] /\ n + 1 = 1
        BY <2>1, <3>1, <3>3
      <4> QED
        BY <2>2, <3>2, <3>3, <4>1, <4>2
    <3>4. CASE n # 0
      <4>1. P[n] = F[n] /\ n + 1 # 1
        BY <3>1, <3>4
      <4>2. F[n + 1] = F[(n + 1) - 1] \o ss[n + 1]
        BY <2>1, <3>1, <4>1, Zenon
      <4>3. F[(n + 1) - 1] = F[n]
        BY <3>1
      <4> HIDE DEF P
      <4> QED
        BY <3>2, <4>1, <4>2, <4>3, Zenon
    <3> QED
      BY <3>3, <3>4
  <2> HIDE DEF Step
  <2> QED
    BY <2>2, <2>3
<1> HIDE DEF P, Step
<1>2. \A n \in Nat : n =< L => P[n] \in Seq(T)
  <2> DEFINE S == {n \in Nat : n =< L => P[n] \in Seq(T)}
  <2>1. 0 \in S
    BY <1>1, EmptySeq
  <2>2. ASSUME NEW n \in Nat, n \in S, n + 1 =< L PROVE P[n + 1] \in Seq(T)
    <3>1. n + 1 \in 1 .. L /\ n =< L
      BY <2>2, <1>0
    <3>2. P[n] \in Seq(T) /\ ss[n + 1] \in Seq(T)
      BY <3>1, <2>2, <1>0
    <3>3. P[n] \o ss[n + 1] \in Seq(T)
      BY <3>2, ConcatProperties
    <3> QED
      BY <1>1, <2>2, <3>3, Zenon DEF Step
  <2>3. \A n \in Nat : n \in S => n + 1 \in S
    BY <2>2
  <2> HIDE DEF S
  <2>4. \A n \in Nat : n \in S
    BY <2>1, <2>3, NatInd
  <2> USE DEF S
  <2> QED
    BY <2>4
<1>3. FlattenSeq(ss) = P[L]
  <2>1. CASE L = 0
    <3>1. ss = << >>
      BY <2>1, EmptySeq
    <3> QED
      BY <2>1, <3>1, <1>1 DEF FlattenSeq
  <2>2. CASE L # 0
    BY <2>2, <1>0, FlattenIs DEF P
  <2> QED
    BY <2>1, <2>2
<1> DEFINE at == [n \in 0 .. L |-> Len(P[n])]
<1>4. at \in [0 .. L -> Nat] /\ at[0] = 0 /\ at[L] = Len(FlattenSeq(ss))
  BY <1>0, <1>1, <1>2, <1>3, LenProperties, EmptySeq
<1>5. ASSUME NEW n \in Nat, n + 1 =< L
      PROVE  /\ at[n + 1] = at[n] + Len(ss[n + 1])
             /\ \A j \in 1 .. at[n] : P[n + 1][j] = P[n][j]
             /\ \A j \in 1 .. Len(ss[n + 1]) : P[n + 1][at[n] + j] = ss[n + 1][j]
             /\ Len(ss[n + 1]) \in Nat
  <2>0. n + 1 \in 1 .. L /\ n =< L /\ n \in 0 .. L /\ n + 1 \in 0 .. L
    BY <1>5, <1>0
  <2>1. PICK u : u = P[n]
    OBVIOUS
  <2>2. PICK v : v = ss[n + 1]
    OBVIOUS
  <2>3. u \in Seq(T) /\ v \in Seq(T)
    BY <1>0, <1>2, <2>0, <2>1, <2>2
  <2>4. P[n + 1] = u \o v
    BY <1>1, <1>5, <2>1, <2>2, Zenon DEF Step
  <2>5. at[n] = Len(u) /\ at[n + 1] = Len(u \o v)
    BY <2>0, <2>1, <2>4
  <2>6. Len(u) \in Nat /\ Len(v) \in Nat
    BY <2>3, LenProperties
  <2>7. /\ Len(u \o v) = Len(u) + Len(v)
        /\ \A j \in 1 .. Len(u) + Len(v) :
             (u \o v)[j] = IF j <= Len(u) THEN u[j] ELSE v[j - Len(u)]
    BY <2>3, ConcatProperties
  <2>8. \A j \in 1 .. Len(u) : (u \o v)[j] = u[j]
    BY <2>6, <2>7
  <2>9. \A j \in 1 .. Len(v) : (u \o v)[Len(u) + j] = v[j]
    <3> TAKE j \in 1 .. Len(v)
    <3>1. Len(u) + j \in 1 .. Len(u) + Len(v) /\ ~(Len(u) + j <= Len(u)) /\ Len(u) + j - Len(u) = j
      BY <2>6
    <3> QED
      BY <2>7, <3>1
  <2> HIDE DEF at
  <2> QED
    BY <2>1, <2>2, <2>4, <2>5, <2>6, <2>7, <2>8, <2>9, Zenon
<1> HIDE DEF at
<1>6. \A n \in 0 .. L : at[n] =< at[L] /\ \A j \in 1 .. at[n] : P[L][j] = P[n][j]
  <2>1. ASSUME NEW n \in Nat, n + 1 =< L
        PROVE  at[n] =< at[n + 1] /\ \A j \in 1 .. at[n] : P[n + 1][j] = P[n][j]
    <3>1. at[n] \in Nat
      BY <2>1, <1>0, <1>4
    <3>2. at[n] =< at[n + 1]
      BY <2>1, <3>1, <1>5, SMTT(30)
    <3> QED
      BY <2>1, <3>2, <1>5, Zenon
  <2> QED
    BY <2>1, <1>0, <1>4, PrefixesStay
<1>7. ASSUME NEW n \in Nat, n + 1 =< L
      PROVE  /\ at[n + 1] =< Len(FlattenSeq(ss))
             /\ \A j \in 1 .. Len(ss[n + 1]) : FlattenSeq(ss)[at[n] + j] = ss[n + 1][j]
  <2>0. n + 1 \in 0 .. L /\ n \in 0 .. L
    BY <1>7, <1>0
  <2>1. n + 1 \in 0 .. L /\ at[n] \in Nat /\ at[n + 1] \in Nat
    BY <2>0, <1>4
  <2>2. at[n + 1] = at[n] + Len(ss[n + 1]) /\ Len(ss[n + 1]) \in Nat
    BY <1>5, <1>7
  <2>3. \A j \in 1 .. Len(ss[n + 1]) : at[n] + j \in 1 .. at[n + 1]
    BY <2>1, <2>2
  <2>4. \A j \in 1 .. Len(ss[n + 1]) : P[L][at[n] + j] = P[n + 1][at[n] + j]
    BY <1>6, <2>1, <2>3, Zenon
  <2>5. \A j \in 1 .. Len(ss[n + 1]) : P[L][at[n] + j] = ss[n + 1][j]
    BY <1>5, <1>7, <2>4, Zenon
  <2>6. at[n + 1] =< at[L]
    BY <1>6, <2>1, Zenon
  <2> QED
    BY <2>5, <2>6, <1>3, <1>4, Zenon
<1>8. FlattenSeq(ss) \in Seq(T)
  BY <1>0, <1>2, <1>3
<1>9. Cuts(at, ss, FlattenSeq(ss))
  BY <1>4, <1>5, <1>7 DEF Cuts
<1> QED
  BY <1>8, <1>9

\* A loop that, from the start of each piece, emits that piece's output and gets to the next.
Emits(f, at, out) ==
  \A n \in Nat : n + 1 =< Len(out) => f[at[n]] = out[n + 1] \o f[at[n + 1]]

LEMMA ScanPieces ==
  ASSUME NEW T, NEW out \in Seq(Seq(T)), NEW f, NEW at,
         f[at[Len(out)]] = << >>, Emits(f, at, out)
  PROVE  f[at[0]] = FlattenSeq(out)
<1> DEFINE L == Len(out)
           F == FlatTo(out)
<1>0. L \in Nat /\ \A n \in 1 .. L : out[n] \in Seq(T)
  BY LenProperties, ElementOfSeq, SMTT(30)
\* What is emitted from the start of a piece on is a sequence.
<1>1. \A n \in 0 .. L : f[at[n]] \in Seq(T)
  <2> DEFINE S == {d \in Nat : \A n \in 0 .. L : n + d = L => f[at[n]] \in Seq(T)}
  <2>1. 0 \in S
    <3>1. << >> \in Seq(T)
      BY EmptySeq
    <3>2. \A n \in 0 .. L : n + 0 = L => n = L
      BY <1>0
    <3> QED
      BY <3>1, <3>2
  <2>2. ASSUME NEW d \in Nat, d \in S PROVE d + 1 \in S
    <3> SUFFICES ASSUME NEW n \in 0 .. L, n + (d + 1) = L PROVE f[at[n]] \in Seq(T)
      OBVIOUS
    <3>1. n \in Nat /\ n + 1 \in 0 .. L /\ n + 1 \in 1 .. L /\ (n + 1) + d = L /\ n + 1 =< L
      BY <1>0
    <3>2. f[at[n + 1]] \in Seq(T)
      BY <2>2, <3>1
    <3>3. out[n + 1] \in Seq(T)
      BY <1>0, <3>1
    <3>4. out[n + 1] \o f[at[n + 1]] \in Seq(T)
      BY <3>2, <3>3, ConcatProperties
    <3> QED
      BY <3>1, <3>4, Zenon DEF Emits
  <2>3. \A d \in Nat : d \in S => d + 1 \in S
    BY <2>2, Zenon
  <2> HIDE DEF S
  <2>4. \A d \in Nat : d \in S
    BY <2>1, <2>3, NatInd
  <2> USE DEF S
  <2> TAKE n \in 0 .. L
  <2>5. L - n \in Nat /\ n + (L - n) = L
    BY <1>0
  <2> QED
    BY <2>4, <2>5
<1>2. CASE L = 0
  <2>1. out = << >>
    BY <1>2, EmptySeq
  <2> QED
    BY <1>2, <2>1 DEF FlattenSeq
<1>3. CASE L # 0
  <2>1. F = [i \in 1 .. L |-> IF i = 1 THEN out[i] ELSE F[i - 1] \o out[i]]
    BY <1>0, FlatExists
  <2> HIDE DEF F
  <2> DEFINE G == [n \in Nat |-> F[n] \in Seq(T) /\ f[at[0]] = F[n] \o f[at[n]]]
             S == {n \in Nat : n + 1 =< L => G[n + 1]}
  <2>a. \A n \in Nat : G[n] = (F[n] \in Seq(T) /\ f[at[0]] = F[n] \o f[at[n]])
    BY Zenon
  <2> HIDE DEF G
  <2>2. 0 \in S
    <3>1. F[1] = out[1] /\ out[1] \in Seq(T)
      BY <2>1, <1>3, <1>0
    <3>0. 0 + 1 =< L /\ 0 \in Nat
      BY <1>3, <1>0
    <3>2. f[at[0]] = out[0 + 1] \o f[at[0 + 1]]
      BY <3>0, Zenon DEF Emits
    <3>3. 0 + 1 = 1 /\ 1 \in Nat
      OBVIOUS
    <3>4. f[at[0]] = F[1] \o f[at[1]]
      BY <3>1, <3>2, <3>3, Zenon
    <3>5. G[1]
      BY <2>a, <3>1, <3>3, <3>4, Zenon
    <3> QED
      BY <3>3, <3>5
  <2>3. ASSUME NEW n \in Nat, n \in S, (n + 1) + 1 =< L PROVE G[(n + 1) + 1]
    <3>1. PICK m \in Nat : m = n + 1
      OBVIOUS
    <3>2. m \in 1 .. L /\ m \in 0 .. L /\ m + 1 =< L /\ m + 1 \in 1 .. L /\ m + 1 # 1 /\ (m + 1) - 1 = m
          /\ m + 1 \in 0 .. L
      BY <2>3, <3>1, <1>0
    <3>a. G[m] /\ m \in Nat /\ m + 1 \in Nat
      BY <2>3, <3>1, <3>2
    <3>3. F[m] \in Seq(T) /\ f[at[0]] = F[m] \o f[at[m]]
      BY <2>a, <3>a, Zenon
    <3>4. F[m + 1] = F[(m + 1) - 1] \o out[m + 1]
      BY <2>1, <3>2, Zenon
    <3>5. F[(m + 1) - 1] = F[m]
      BY <3>2
    <3>6. PICK u, v, w : u = F[m] /\ v = out[m + 1] /\ w = f[at[m + 1]]
      OBVIOUS
    <3>7. u \in Seq(T) /\ v \in Seq(T) /\ w \in Seq(T)
      BY <1>0, <1>1, <3>2, <3>3, <3>6
    <3>8. F[m + 1] = u \o v
      BY <3>4, <3>5, <3>6, Zenon
    <3>9. f[at[m]] = v \o w
      BY <3>2, <3>6, Zenon DEF Emits
    <3>10. (u \o v) \o w = u \o (v \o w) /\ u \o v \in Seq(T)
      BY <3>7, ConcatAssociative, ConcatProperties, SMTT(30)
    <3>11. F[m + 1] \in Seq(T) /\ f[at[0]] = F[m + 1] \o f[at[m + 1]]
      BY <3>3, <3>6, <3>8, <3>9, <3>10, Zenon
    <3>12. G[m + 1]
      BY <2>a, <3>a, <3>11, Zenon
    <3> QED
      BY <3>1, <3>12
  <2>4. \A n \in Nat : n \in S => n + 1 \in S
    BY <2>3
  <2> HIDE DEF S
  <2>5. \A n \in Nat : n \in S
    BY <2>2, <2>4, NatInd
  <2> USE DEF S
  <2>6. PICK m \in Nat : m + 1 = L /\ m + 1 =< L
    <3>1. L - 1 \in Nat /\ (L - 1) + 1 = L /\ (L - 1) + 1 =< L
      BY <1>0, <1>3
    <3> QED
      BY <3>1, Zenon
  <2>b. G[L]
    <3>1. m \in S
      BY <2>5
    <3>2. G[m + 1]
      BY <2>6, <3>1, Zenon
    <3> QED
      BY <2>6, <3>2, Zenon
  <2>7. F[L] \in Seq(T) /\ f[at[0]] = F[L] \o f[at[L]]
    BY <2>a, <2>b, <1>0, Zenon
  <2>8. F[L] \o << >> = F[L]
    BY <2>7, ConcatEmptySeq
  <2>9. f[at[0]] = F[L]
    BY <2>7, <2>8
  <2> HIDE DEF L
  <2> QED
    BY <1>0, <1>3, <2>9, FlattenIs DEF L, F
<1> QED
  BY <1>2, <1>3

\* The first piece, and what the others make.
LEMMA FlattenCons ==
  ASSUME NEW T, NEW ss \in Seq(Seq(T)), NEW x \in Seq(T)
  PROVE  FlattenSeq(<<x>> \o ss) = x \o FlattenSeq(ss)
<1>1. PICK F : F = FlattenSeq(ss)
  OBVIOUS
<1>2. PICK ww : ww = <<x>> \o ss
  OBVIOUS
<1>3. <<x>> \in Seq(Seq(T)) /\ Len(<<x>>) = 1 /\ <<x>>[1] = x
  OBVIOUS
<1>4. Len(ss) \in Nat /\ ww \in Seq(Seq(T)) /\ Len(ww) = 1 + Len(ss)
      /\ ww[1] = x
  BY <1>2, <1>3, ConcatProperties, LenProperties
<1>5. \A n \in 1 .. Len(ss) : ww[n + 1] = ss[n]
  <2> TAKE n \in 1 .. Len(ss)
  <2>1. n + 1 \in 1 .. 1 + Len(ss) /\ ~(n + 1 =< 1) /\ n + 1 - 1 = n
    BY <1>4
  <2> QED
    BY <1>2, <1>3, <2>1, ConcatProperties
<1> DEFINE N == Len(ss)
           t == [k \in 1 .. N + 1 |-> 1]
           f == Loop(N + 1, t, ww)
<1>6. /\ \A k \in 1 .. N + 1 : f[k] = ww[k] \o f[k + t[k]]
      /\ \A k \in Nat : k \notin 1 .. N + 1 => f[k] = << >>
      /\ f = [k \in Nat |-> f[k]]
  <2>1. t \in [1 .. N + 1 -> Nat \ {0}]
    OBVIOUS
  <2>2. N + 1 \in Nat
    BY <1>4
  <2> HIDE DEF t
  <2> QED
    BY <2>1, <2>2, LoopSteps, Zenon
<1>7. /\ \A k \in 1 .. N + 1 : f[k] = ww[k] \o f[k + 1]
      /\ f[N + 2] = << >>
  <2>1. \A k \in 1 .. N + 1 : t[k] = 1
    BY <1>4
  <2>2. N + 2 \in Nat /\ N + 2 \notin 1 .. N + 1
    BY <1>4
  <2> HIDE DEF t, f
  <2> QED
    BY <1>6, <2>1, <2>2, Zenon
<1> HIDE DEF f
<1>8. f[1] = FlattenSeq(ww)
  <2> DEFINE at == [n \in 0 .. N + 1 |-> n + 1]
  <2>1. at[0] = 1 /\ at[Len(ww)] = N + 2
    BY <1>4
  <2>2. \A n \in Nat : n + 1 =< Len(ww) => f[at[n]] = ww[n + 1] \o f[at[n + 1]]
    <3> SUFFICES ASSUME NEW n \in Nat, n + 1 =< Len(ww)
                 PROVE  f[at[n]] = ww[n + 1] \o f[at[n + 1]]
      OBVIOUS
    <3>1. n + 1 \in 1 .. N + 1 /\ at[n] = n + 1 /\ at[n + 1] = (n + 1) + 1
      BY <1>4
    <3> HIDE DEF at
    <3> QED
      BY <3>1, <1>7, Zenon
  <2> HIDE DEF at
  <2>3. f[at[Len(ww)]] = << >>
    BY <2>1, <1>7
  <2>4. f[at[0]] = FlattenSeq(ww)
    <3>1. Emits(f, at, ww)
      BY <2>2, Zenon DEF Emits
    <3> QED
      BY <1>4, <3>1, <2>3, ScanPieces
  <2> QED
    BY <2>1, <2>4
<1>9. f[2] = FlattenSeq(ss)
  <2> DEFINE at == [n \in 0 .. N |-> n + 2]
  <2>1. at[0] = 2 /\ at[Len(ss)] = N + 2
    BY <1>4
  <2>2. \A n \in Nat : n + 1 =< Len(ss) => f[at[n]] = ss[n + 1] \o f[at[n + 1]]
    <3> SUFFICES ASSUME NEW n \in Nat, n + 1 =< Len(ss)
                 PROVE  f[at[n]] = ss[n + 1] \o f[at[n + 1]]
      OBVIOUS
    <3>1. n + 2 \in 1 .. N + 1 /\ at[n] = n + 2 /\ at[n + 1] = (n + 2) + 1
          /\ n + 1 \in 1 .. Len(ss) /\ (n + 1) + 1 = n + 2
      BY <1>4, SMTT(30)
    <3>2. ww[n + 2] = ss[n + 1]
      BY <1>5, <3>1
    <3>3. f[n + 2] = ww[n + 2] \o f[(n + 2) + 1]
      BY <1>7, <3>1, Zenon
    <3> HIDE DEF at
    <3> QED
      BY <3>1, <3>2, <3>3, Zenon
  <2> HIDE DEF at
  <2>3. f[at[Len(ss)]] = << >>
    BY <2>1, <1>7
  <2>4. f[at[0]] = FlattenSeq(ss)
    <3>1. Emits(f, at, ss)
      BY <2>2, Zenon DEF Emits
    <3> QED
      BY <3>1, <2>3, ScanPieces
  <2> QED
    BY <2>1, <2>4
<1>10. 1 \in 1 .. N + 1 /\ 1 + 1 = 2
  BY <1>4
<1>11. f[1] = x \o f[1 + 1]
  BY <1>4, <1>7, <1>10, Zenon
<1> QED
  BY <1>2, <1>8, <1>9, <1>10, <1>11

\* One element to a piece.
LEMMA FlattenSingles ==
  ASSUME NEW T, NEW s \in Seq(T), NEW out, DOMAIN out = 1 .. Len(s), out \in Seq(Seq(T)),
         \A k \in 1 .. Len(s) : out[k] = <<s[k]>>
  PROVE  FlattenSeq(out) = s
<1> DEFINE N == Len(s)
<1>0. N \in Nat /\ Len(out) = N
  BY LenProperties
<1>1. PICK F : F = FlattenSeq(out)
  OBVIOUS
<1>2. F \in Seq(T)
  BY <1>1, FlattenPieces
<1>a. PICK at : Cuts(at, out, F)
  BY <1>1, FlattenPieces
<1>3. /\ at[0] = 0 /\ at[N] = Len(F)
      /\ \A n \in Nat : n + 1 =< N =>
             /\ at[n + 1] = at[n] + Len(out[n + 1])
             /\ \A j \in 1 .. Len(out[n + 1]) : F[at[n] + j] = out[n + 1][j]
  BY <1>0, <1>a DEF Cuts
<1>4. \A n \in Nat : n + 1 =< N => /\ at[n + 1] = at[n] + 1
                                   /\ F[at[n] + 1] = s[n + 1]
  <2> TAKE n \in Nat
  <2> HAVE n + 1 =< N
  <2>1. n + 1 \in 1 .. N
    BY <1>0
  <2>2. out[n + 1] = <<s[n + 1]>> /\ Len(<<s[n + 1]>>) = 1 /\ <<s[n + 1]>>[1] = s[n + 1]
        /\ 1 \in 1 .. 1
    BY <2>1
  <2>3. /\ at[n + 1] = at[n] + Len(out[n + 1])
        /\ \A j \in 1 .. Len(out[n + 1]) : F[at[n] + j] = out[n + 1][j]
    BY <1>3
  <2> QED
    BY <2>2, <2>3, Zenon
<1>5. \A n \in Nat : n =< N => at[n] = n
  <2> DEFINE S == {n \in Nat : n =< N => at[n] = n}
  <2>1. 0 \in S
    BY <1>3
  <2>2. ASSUME NEW n \in Nat, n \in S PROVE n + 1 \in S
    BY <1>0, <1>4, <2>2
  <2> HIDE DEF S
  <2>3. \A n \in Nat : n \in S
    BY <2>1, <2>2, NatInd
  <2> USE DEF S
  <2> QED
    BY <2>3
<1>6. Len(F) = N
  <2>1. N =< N
    BY <1>0
  <2> QED
    BY <1>0, <1>3, <1>5, <2>1, Zenon
<1>7. \A k \in 1 .. N : F[k] = s[k]
  <2> TAKE k \in 1 .. N
  <2>1. PICK n \in Nat : n + 1 = k /\ n + 1 =< N /\ n =< N
    <3>1. k - 1 \in Nat /\ (k - 1) + 1 = k /\ (k - 1) + 1 =< N /\ k - 1 =< N
      BY <1>0
    <3> QED
      BY <3>1, Zenon
  <2>2. F[at[n] + 1] = s[n + 1] /\ at[n] = n
    BY <2>1, <1>4, <1>5
  <2> QED
    BY <2>1, <2>2
<1> QED
  BY <1>1, <1>2, <1>6, <1>7, SeqEqual

-----------------------------------------------------------------------------
(* decode_key() undoes encode_key().                                         *)
DecodesBy(f, raw) ==
  /\ DecodeKey(raw) = f[1]
  /\ \A k \in 1 .. Len(raw) :
       f[k] = DecodeAt(raw, k).puts \o f[k + DecodeAt(raw, k).takes]
  /\ \A k \in Nat : k \notin 1 .. Len(raw) => f[k] = << >>

LEMMA DecodeLoop ==
  ASSUME NEW raw \in Seq(Nat)
  PROVE  \E f : DecodesBy(f, raw)
<1>a. PICK L : L = Len(raw)
  OBVIOUS
<1>b. L \in Nat /\ DOMAIN raw = 1 .. L
  BY <1>a, LenProperties
<1> DEFINE t == [k \in 1 .. L |-> DecodeAt(raw, k).takes]
           o == [k \in 1 .. L |-> DecodeAt(raw, k).puts]
           Body(f, k) == IF k \in DOMAIN raw
                         THEN DecodeAt(raw, k).puts \o f[k + DecodeAt(raw, k).takes] ELSE << >>
           g == Loop(L, t, o)
           h == CHOOSE f : f = [k \in Nat |-> Body(f, k)]
<1>1. t \in [1 .. L -> Nat \ {0}]
  BY DEF DecodeAt, Takes
<1>2. \A k \in 1 .. L : t[k] = DecodeAt(raw, k).takes /\ o[k] = DecodeAt(raw, k).puts
  BY Zenon
<1> HIDE DEF t, o
<1>3. /\ \A k \in 1 .. L : g[k] = o[k] \o g[k + t[k]]
      /\ \A k \in Nat : k \notin 1 .. L => g[k] = << >>
      /\ g = [k \in Nat |-> g[k]]
  BY <1>1, <1>b, LoopSteps, Zenon
<1> HIDE DEF g
<1>4. \A k \in Nat : g[k] = Body(g, k)
  BY <1>2, <1>3, <1>b, Zenon
<1>5. g = [k \in Nat |-> Body(g, k)]
  BY <1>3, <1>4, Zenon
<1>6. h = [k \in Nat |-> Body(h, k)]
  BY <1>5, Zenon
<1>7. DecodeKey(raw) = h[1]
  BY Zenon DEF DecodeKey, Scan
<1> HIDE DEF h
<1>8. \A k \in 1 .. L : k \in Nat
  OBVIOUS
<1>9. \A k \in 1 .. L : h[k] = DecodeAt(raw, k).puts \o h[k + DecodeAt(raw, k).takes]
  BY <1>6, <1>8, <1>b, Zenon
<1>10. \A k \in Nat : k \notin 1 .. L => h[k] = << >>
  BY <1>6, <1>b, Zenon
<1> QED
  BY <1>7, <1>9, <1>10, <1>a, Zenon DEF DecodesBy

LEMMA LettersAre ==
  /\ LetterOf[8] = 98 /\ LetterOf[9] = 116 /\ LetterOf[10] = 110
  /\ LetterOf[12] = 102 /\ LetterOf[13] = 114
  /\ DOMAIN LetterOf = {8, 9, 10, 12, 13}
BY DEF LetterOf

LEMMA SpeltAsIs ==
  ASSUME NEW c, c \notin {98, 116, 110, 102, 114}
  PROVE  Unescaped(c) = c
<1>1. \A code \in DOMAIN LetterOf : LetterOf[code] # c
  BY LettersAre
<1> QED
  BY <1>1 DEF Unescaped

\* append_utf8(), with its bounds as numbers.
LEMMA Utf8One ==
  ASSUME NEW cp \in 0 .. 127
  PROVE  Utf8(cp) = <<cp>> /\ ~High(cp)
<1>3. ~High(cp)
  BY DEF High
<1>1. cp < 2^7
  OBVIOUS
<1>2. ~(cp < 2^11 /\ cp >= 2^7) /\ ~(cp < 2^16 /\ cp >= 2^11)
  OBVIOUS
<1> QED
  BY <1>1, <1>2, <1>3, Zenon DEF Utf8

\* The hex digits, forth and back.
LEMMA HexBack ==
  ASSUME NEW n \in 0 .. 15
  PROVE  /\ HexDigit(n) \in Nat \ {Quote, Backslash} /\ HexDigit(n) > 31
         /\ HexValue(HexDigit(n)) = n
BY DEF HexDigit, HexValue, Zero, Quote, Backslash

LEMMA EncodedBytes ==
  ASSUME NEW b \in Nat
  PROVE  EncodeByte(b) \in Seq(Nat) /\ Len(EncodeByte(b)) \in {1, 2, 6}
<1>1. b < 32 => HexDigit(b \div 16) \in Nat /\ HexDigit(b % 16) \in Nat
  <2>1. b < 32 => b \div 16 \in 0 .. 15 /\ b % 16 \in 0 .. 15
    OBVIOUS
  <2> QED
    BY <2>1, HexBack
<1> QED
  BY <1>1 DEF EncodeByte, Quote, Backslash, LetterU, Zero

\* An encoded byte is read back, wherever it is in the text.
LEMMA ByteBack ==
  ASSUME NEW b \in Nat, NEW raw, NEW L \in Nat, raw \in [1 .. L -> Nat], Len(raw) = L, NEW p \in Nat,
         p + Len(EncodeByte(b)) =< L,
         \A j \in 1 .. Len(EncodeByte(b)) : raw[p + j] = EncodeByte(b)[j]
  PROVE  DecodeAt(raw, p + 1) = Takes(Len(EncodeByte(b)), <<b>>)
<1>1. CASE b \in {Quote, Backslash}
  <2>1. EncodeByte(b) = <<Backslash, b>> /\ Len(<<Backslash, b>>) = 2
    BY <1>1 DEF EncodeByte
  <2>2. 1 \in 1 .. 2 /\ 2 \in 1 .. 2
    OBVIOUS
  <2>3. raw[p + 1] = Backslash /\ raw[p + 2] = b
    BY <2>1, <2>2
  <2>4. p + 1 # Len(raw) /\ (p + 1) + 1 = p + 2
    BY <2>1
  <2>5. b # LetterU /\ Unescaped(b) = b
    BY <1>1, SpeltAsIs DEF Quote, Backslash, LetterU
  <2>6. raw[(p + 1) + 1] = b
    BY <2>3, <2>4
  <2> QED
    BY <2>1, <2>3, <2>4, <2>5, <2>6 DEF DecodeAt
<1>2. CASE b \notin {Quote, Backslash} /\ b < 32
  <2> DEFINE h == HexDigit(b \div 16)
             l == HexDigit(b % 16)
  <2>1. b \div 16 \in 0 .. 15 /\ b % 16 \in 0 .. 15 /\ 16 * (b \div 16) + (b % 16) = b
    BY <1>2
  <2>2. HexValue(h) = b \div 16 /\ HexValue(l) = b % 16
    BY <2>1, HexBack
  <2> HIDE DEF h, l
  <2>3. EncodeByte(b) = <<Backslash, LetterU, Zero, Zero, h, l>>
    BY <1>2 DEF EncodeByte, h, l
  <2>4. Len(EncodeByte(b)) = 6
    BY <2>3
  <2>5. raw[p + 1] = Backslash /\ raw[p + 2] = LetterU /\ raw[p + 3] = Zero /\ raw[p + 4] = Zero
        /\ raw[p + 5] = h /\ raw[p + 6] = l
    BY <2>3, <2>4
  <2>6. p + 1 # Len(raw) /\ (p + 1) + 1 = p + 2 /\ (p + 1) + 2 = p + 3 /\ (p + 3) + 1 = p + 4
        /\ (p + 3) + 2 = p + 5 /\ (p + 3) + 3 = p + 6
    BY <2>4
  <2>7. Hex4(raw, (p + 1) + 2) = ((HexValue(Zero) * 16 + HexValue(Zero)) * 16 + HexValue(h)) * 16
                                   + HexValue(l)
    BY <2>5, <2>6, Zenon DEF Hex4
  <2>8. HexValue(Zero) = 0
    BY DEF HexValue, Zero
  <2>9. Hex4(raw, (p + 1) + 2) = b
    BY <2>1, <2>2, <2>7, <2>8
  <2>10. ~High(b) /\ Utf8(b) = <<b>>
    <3>1. b \in 0 .. 127
      BY <1>2
    <3> QED
      BY <3>1, Utf8One
  <2>11. ~PairsUp(raw, p + 1)
    BY <2>9, <2>10, Zenon DEF PairsUp
  <2>12. raw[(p + 1) + 1] = LetterU
    BY <2>5, <2>6
  <2> QED
    BY <2>4, <2>5, <2>6, <2>9, <2>10, <2>11, <2>12, Zenon DEF DecodeAt
<1>3. CASE b \notin {Quote, Backslash} /\ ~(b < 32)
  <2>1. EncodeByte(b) = <<b>> /\ Len(<<b>>) = 1 /\ 1 \in 1 .. 1
    BY <1>3 DEF EncodeByte
  <2>2. raw[p + 1] = b
    BY <2>1
  <2>3. b # Backslash
    BY <1>3
  <2> QED
    BY <2>1, <2>2, <2>3, Zenon DEF DecodeAt
<1> QED
  BY <1>1, <1>2, <1>3

\* What encode_key() writes is decoded to the key, for every sequence of bytes.
LEMMA EncodedDecodes ==
  ASSUME NEW key \in Seq(Nat)
  PROVE  DecodeKey(EncodeKey(key)) = key
<1> DEFINE N == Len(key)
           ss == [k \in 1 .. N |-> EncodeByte(key[k])]
           out == [k \in 1 .. N |-> <<key[k]>>]
<1>0. N \in Nat /\ DOMAIN key = 1 .. N /\ \A k \in 1 .. N : key[k] \in Nat
  BY LenProperties, ElementOfSeq
<1>1. ss \in Seq(Seq(Nat)) /\ Len(ss) = N /\ \A k \in 1 .. N : ss[k] = EncodeByte(key[k])
  BY <1>0, EncodedBytes
<1>2. out \in Seq(Seq(Nat)) /\ Len(out) = N /\ DOMAIN out = 1 .. N
      /\ \A k \in 1 .. N : out[k] = <<key[k]>>
  BY <1>0
<1>3. PICK raw : raw = FlattenSeq(ss)
  OBVIOUS
<1>4. EncodeKey(key) = raw
  BY <1>0, <1>3, Zenon DEF EncodeKey
<1> HIDE DEF ss, out
<1>5. raw \in Seq(Nat) /\ \E at : Cuts(at, ss, raw)
  BY <1>1, <1>3, FlattenPieces
<1>6. PICK at : Cuts(at, ss, raw)
  BY <1>5
<1>a. PICK L : L = Len(raw)
  OBVIOUS
<1>7. L \in Nat /\ DOMAIN raw = 1 .. L /\ raw \in [1 .. L -> Nat]
  BY <1>5, <1>a, LenProperties
<1>b. PICK f : DecodesBy(f, raw)
  BY <1>5, DecodeLoop
<1>8. /\ DecodeKey(raw) = f[1]
      /\ \A k \in 1 .. L :
           f[k] = DecodeAt(raw, k).puts \o f[k + DecodeAt(raw, k).takes]
      /\ \A k \in Nat : k \notin 1 .. L => f[k] = << >>
  BY <1>a, <1>b, Zenon DEF DecodesBy
<1> DEFINE pos == [n \in 0 .. N |-> at[n] + 1]
<1>9. pos[0] = 1 /\ pos[N] = L + 1 /\ L + 1 \in Nat /\ L + 1 \notin 1 .. L
  BY <1>0, <1>1, <1>6, <1>7, <1>a DEF Cuts
<1>10. ASSUME NEW n \in Nat, n + 1 =< N
       PROVE  f[pos[n]] = out[n + 1] \o f[pos[n + 1]]
  <2>1. n + 1 \in 1 .. N /\ n \in 0 .. N /\ n + 1 \in 0 .. N
    BY <1>0, <1>10
  <2>2. PICK b \in Nat : b = key[n + 1]
    BY <1>0, <2>1
  <2>3. ss[n + 1] = EncodeByte(b) /\ out[n + 1] = <<b>>
    BY <1>1, <1>2, <2>1, <2>2
  <2>4. PICK p \in Nat : p = at[n]
    BY <1>1, <1>6, <2>1 DEF Cuts
  <2>5. /\ at[n + 1] = p + Len(EncodeByte(b))
        /\ at[n + 1] =< L
        /\ \A j \in 1 .. Len(EncodeByte(b)) : raw[p + j] = EncodeByte(b)[j]
    BY <1>1, <1>6, <1>10, <1>a, <2>3, <2>4, Zenon DEF Cuts
  <2>6. PICK w \in {1, 2, 6} : w = Len(EncodeByte(b))
    BY EncodedBytes
  <2>7. DecodeAt(raw, p + 1) = Takes(Len(EncodeByte(b)), <<b>>)
    BY <1>7, <1>a, <2>5, ByteBack
  <2>8. p + 1 \in 1 .. L /\ (p + 1) + w = at[n + 1] + 1
    <3>1. L \in Nat /\ p + w =< L /\ at[n + 1] = p + w
      BY <1>7, <2>5, <2>6
    <3> QED
      BY <3>1
  <2>9. DecodeAt(raw, p + 1).puts = <<b>> /\ DecodeAt(raw, p + 1).takes = w
    BY <2>6, <2>7 DEF Takes
  <2>10. f[p + 1] = <<b>> \o f[at[n + 1] + 1]
    BY <1>8, <2>8, <2>9, Zenon
  <2>11. pos[n] = p + 1 /\ pos[n + 1] = at[n + 1] + 1
    BY <2>1, <2>4
  <2> HIDE DEF pos
  <2> QED
    BY <2>3, <2>10, <2>11, Zenon
<1> HIDE DEF pos
<1>11. Emits(f, pos, out)
  BY <1>2, <1>10, Zenon DEF Emits
<1>12. f[pos[Len(out)]] = << >>
  BY <1>2, <1>8, <1>9, Zenon
<1>13. f[pos[0]] = FlattenSeq(out)
  BY <1>2, <1>11, <1>12, ScanPieces
<1>14. FlattenSeq(out) = key
  BY <1>2, FlattenSingles
<1> QED
  BY <1>4, <1>8, <1>9, <1>13, <1>14, Zenon

-----------------------------------------------------------------------------
(* unescape_pointer_token() undoes escape_pointer_token().                   *)
UnescapesBy(f, token) ==
  /\ Unescape(token) = f[1]
  /\ \A k \in 1 .. Len(token) :
       f[k] = UnescapeAt(token, k).puts \o f[k + UnescapeAt(token, k).takes]
  /\ \A k \in Nat : k \notin 1 .. Len(token) => f[k] = << >>

LEMMA UnescapeLoop ==
  ASSUME NEW token \in Seq(Nat)
  PROVE  \E f : UnescapesBy(f, token)
<1>a. PICK L : L = Len(token)
  OBVIOUS
<1>b. L \in Nat /\ DOMAIN token = 1 .. L
  BY <1>a, LenProperties
<1> DEFINE t == [k \in 1 .. L |-> UnescapeAt(token, k).takes]
           o == [k \in 1 .. L |-> UnescapeAt(token, k).puts]
           Body(f, k) == IF k \in DOMAIN token
                         THEN UnescapeAt(token, k).puts \o f[k + UnescapeAt(token, k).takes] ELSE << >>
           g == Loop(L, t, o)
           h == CHOOSE f : f = [k \in Nat |-> Body(f, k)]
<1>1. t \in [1 .. L -> Nat \ {0}]
  BY DEF UnescapeAt, Takes
<1>2. \A k \in 1 .. L : t[k] = UnescapeAt(token, k).takes /\ o[k] = UnescapeAt(token, k).puts
  BY Zenon
<1> HIDE DEF t, o
<1>3. /\ \A k \in 1 .. L : g[k] = o[k] \o g[k + t[k]]
      /\ \A k \in Nat : k \notin 1 .. L => g[k] = << >>
      /\ g = [k \in Nat |-> g[k]]
  BY <1>1, <1>b, LoopSteps, Zenon
<1> HIDE DEF g
<1>4. \A k \in Nat : g[k] = Body(g, k)
  BY <1>2, <1>3, <1>b, Zenon
<1>5. g = [k \in Nat |-> Body(g, k)]
  BY <1>3, <1>4, Zenon
<1>6. h = [k \in Nat |-> Body(h, k)]
  BY <1>5, Zenon
<1>7. Unescape(token) = h[1]
  BY Zenon DEF Unescape, Scan
<1> HIDE DEF h
<1>8. \A k \in 1 .. L : k \in Nat
  OBVIOUS
<1>9. \A k \in 1 .. L : h[k] = UnescapeAt(token, k).puts \o h[k + UnescapeAt(token, k).takes]
  BY <1>6, <1>8, <1>b, Zenon
<1>10. \A k \in Nat : k \notin 1 .. L => h[k] = << >>
  BY <1>6, <1>b, Zenon
<1> QED
  BY <1>7, <1>9, <1>10, <1>a, Zenon DEF UnescapesBy

LEMMA EscapesAre ==
  /\ EscapeByte(Tilde) = <<Tilde, Zero>>
  /\ EscapeByte(Slash) = <<Tilde, OneDigit>>
BY DEF EscapeByte, Tilde, Slash

LEMMA EscapedBytes ==
  ASSUME NEW b \in Nat
  PROVE  EscapeByte(b) \in Seq(Nat \ {Slash}) /\ Len(EscapeByte(b)) \in {1, 2}
<1>1. CASE b = Tilde
  <2>1. EscapeByte(b) = <<Tilde, Zero>>
    BY <1>1, EscapesAre
  <2> QED
    BY <2>1 DEF Tilde, Zero, Slash
<1>2. CASE b = Slash
  <2>1. EscapeByte(b) = <<Tilde, OneDigit>>
    BY <1>2, EscapesAre
  <2> QED
    BY <2>1 DEF Tilde, OneDigit, Slash
<1>3. CASE b # Tilde /\ b # Slash
  <2>1. EscapeByte(b) = <<b>>
    BY <1>3 DEF EscapeByte
  <2> QED
    BY <2>1, <1>3
<1> QED
  BY <1>1, <1>2, <1>3

LEMMA EscapeBack ==
  ASSUME NEW b \in Nat, NEW token, NEW L \in Nat, token \in [1 .. L -> Nat], Len(token) = L,
         NEW p \in Nat, p + Len(EscapeByte(b)) =< L,
         \A j \in 1 .. Len(EscapeByte(b)) : token[p + j] = EscapeByte(b)[j]
  PROVE  UnescapeAt(token, p + 1) = Takes(Len(EscapeByte(b)), <<b>>)
<1>1. CASE b = Tilde \/ b = Slash
  <2> DEFINE d == IF b = Tilde THEN Zero ELSE OneDigit
  <2>0. Tilde # Slash
    BY DEF Tilde, Slash
  <2>a. EscapeByte(b) = <<Tilde, d>>
    BY <1>1, <2>0, EscapesAre, Zenon
  <2>1. EscapeByte(b) = <<Tilde, d>> /\ Len(<<Tilde, d>>) = 2
    BY <2>a
  <2>2. 1 \in 1 .. 2 /\ 2 \in 1 .. 2
    OBVIOUS
  <2> HIDE DEF d
  <2>3. token[p + 1] = Tilde /\ token[p + 2] = d
    BY <2>1, <2>2
  <2>4. p + 1 < Len(token) /\ (p + 1) + 1 = p + 2
    BY <2>1
  <2>5. token[(p + 1) + 1] = d
    BY <2>3, <2>4
  <2>6. Zero # OneDigit
    BY DEF Zero, OneDigit
  <2> QED
    BY <1>1, <2>1, <2>3, <2>4, <2>5, <2>6 DEF UnescapeAt, d
<1>2. CASE b # Tilde /\ b # Slash
  <2>1. EscapeByte(b) = <<b>> /\ Len(<<b>>) = 1 /\ 1 \in 1 .. 1
    BY <1>2 DEF EscapeByte
  <2>2. token[p + 1] = b
    BY <2>1
  <2> QED
    BY <1>2, <2>1, <2>2, Zenon DEF UnescapeAt
<1> QED
  BY <1>1, <1>2

\* A token that was escaped is read back, for every key.
LEMMA EscapedUnescapes ==
  ASSUME NEW key \in Seq(Nat)
  PROVE  EscapeToken(key) \in Seq(Nat) /\ Unescape(EscapeToken(key)) = key
<1> DEFINE N == Len(key)
           ss == [k \in 1 .. N |-> EscapeByte(key[k])]
           out == [k \in 1 .. N |-> <<key[k]>>]
<1>0. N \in Nat /\ DOMAIN key = 1 .. N /\ \A k \in 1 .. N : key[k] \in Nat
  BY LenProperties, ElementOfSeq
<1>1. ss \in Seq(Seq(Nat)) /\ Len(ss) = N /\ \A k \in 1 .. N : ss[k] = EscapeByte(key[k])
  <2>1. \A k \in 1 .. N : EscapeByte(key[k]) \in Seq(Nat)
    <3> TAKE k \in 1 .. N
    <3>1. EscapeByte(key[k]) \in Seq(Nat \ {Slash})
      BY <1>0, EscapedBytes
    <3> QED
      BY <3>1, SeqMonotonic
  <2> QED
    BY <1>0, <2>1
<1>2. out \in Seq(Seq(Nat)) /\ Len(out) = N /\ DOMAIN out = 1 .. N
      /\ \A k \in 1 .. N : out[k] = <<key[k]>>
  BY <1>0
<1>3. PICK token : token = FlattenSeq(ss)
  OBVIOUS
<1>4. EscapeToken(key) = token
  BY <1>0, <1>3, Zenon DEF EscapeToken
<1> HIDE DEF ss, out
<1>5. token \in Seq(Nat) /\ \E at : Cuts(at, ss, token)
  BY <1>1, <1>3, FlattenPieces
<1>6. PICK at : Cuts(at, ss, token)
  BY <1>5
<1>a. PICK L : L = Len(token)
  OBVIOUS
<1>7. L \in Nat /\ DOMAIN token = 1 .. L /\ token \in [1 .. L -> Nat]
  BY <1>5, <1>a, LenProperties
<1>b. PICK f : UnescapesBy(f, token)
  BY <1>5, UnescapeLoop
<1>8. /\ Unescape(token) = f[1]
      /\ \A k \in 1 .. L :
           f[k] = UnescapeAt(token, k).puts \o f[k + UnescapeAt(token, k).takes]
      /\ \A k \in Nat : k \notin 1 .. L => f[k] = << >>
  BY <1>a, <1>b, Zenon DEF UnescapesBy
<1> DEFINE pos == [n \in 0 .. N |-> at[n] + 1]
<1>9. pos[0] = 1 /\ pos[N] = L + 1 /\ L + 1 \in Nat /\ L + 1 \notin 1 .. L
  BY <1>0, <1>1, <1>6, <1>7, <1>a DEF Cuts
<1>10. ASSUME NEW n \in Nat, n + 1 =< N
       PROVE  f[pos[n]] = out[n + 1] \o f[pos[n + 1]]
  <2>1. n + 1 \in 1 .. N /\ n \in 0 .. N /\ n + 1 \in 0 .. N
    BY <1>0, <1>10
  <2>2. PICK b \in Nat : b = key[n + 1]
    BY <1>0, <2>1
  <2>3. ss[n + 1] = EscapeByte(b) /\ out[n + 1] = <<b>>
    BY <1>1, <1>2, <2>1, <2>2
  <2>4. PICK p \in Nat : p = at[n]
    BY <1>1, <1>6, <2>1 DEF Cuts
  <2>5. /\ at[n + 1] = p + Len(EscapeByte(b))
        /\ at[n + 1] =< L
        /\ \A j \in 1 .. Len(EscapeByte(b)) : token[p + j] = EscapeByte(b)[j]
    BY <1>1, <1>6, <1>10, <1>a, <2>3, <2>4, Zenon DEF Cuts
  <2>6. PICK w \in {1, 2} : w = Len(EscapeByte(b))
    BY EscapedBytes
  <2>7. UnescapeAt(token, p + 1) = Takes(Len(EscapeByte(b)), <<b>>)
    BY <1>7, <1>a, <2>5, EscapeBack, ZenonT(60)
  <2>8. p + 1 \in 1 .. L /\ (p + 1) + w = at[n + 1] + 1
    <3>1. L \in Nat /\ p + w =< L /\ at[n + 1] = p + w
      BY <1>7, <2>5, <2>6
    <3> QED
      BY <3>1
  <2>9. UnescapeAt(token, p + 1).puts = <<b>> /\ UnescapeAt(token, p + 1).takes = w
    BY <2>6, <2>7 DEF Takes
  <2>10. f[p + 1] = <<b>> \o f[at[n + 1] + 1]
    BY <1>8, <2>8, <2>9, Zenon
  <2>11. pos[n] = p + 1 /\ pos[n + 1] = at[n + 1] + 1
    BY <2>1, <2>4
  <2> HIDE DEF pos
  <2> QED
    BY <2>3, <2>10, <2>11, Zenon
<1> HIDE DEF pos
<1>11. Emits(f, pos, out)
  BY <1>2, <1>10, Zenon DEF Emits
<1>12. f[pos[Len(out)]] = << >>
  BY <1>2, <1>8, <1>9, Zenon
<1>13. f[pos[0]] = FlattenSeq(out)
  BY <1>2, <1>11, <1>12, ScanPieces
<1>14. FlattenSeq(out) = key
  BY <1>2, FlattenSingles
<1> QED
  BY <1>4, <1>5, <1>8, <1>9, <1>13, <1>14, Zenon

-----------------------------------------------------------------------------
(* split_pointer() undoes collect_pointers()'s spelling.                     *)
LEMMA NextSlashIs ==
  ASSUME NEW text, NEW L \in Nat, Len(text) = L, NEW k \in Nat, k =< L
  PROVE  /\ NextSlash(text, k) \in k + 1 .. L + 1
         /\ NextSlash(text, k) = L + 1 \/ text[NextSlash(text, k)] = Slash
         /\ \A j \in k + 1 .. L : text[j] = Slash => NextSlash(text, k) =< j
<1> DEFINE T == {j \in k + 1 .. Len(text) : text[j] = Slash} \cup {Len(text) + 1}
           m == CHOOSE x \in T : \A y \in T : x =< y
<1>1. T \subseteq Nat /\ T # {} /\ T \subseteq k + 1 .. L + 1
  OBVIOUS
<1>2. \A j \in T : j = L + 1 \/ text[j] = Slash
  OBVIOUS
<1>3. \A j \in k + 1 .. L : text[j] = Slash => j \in T
  OBVIOUS
<1>4. NextSlash(text, k) = m
  BY Zenon DEF NextSlash, Min
<1> HIDE DEF T
<1>5. \E x \in T : \A y \in T : x =< y
  BY <1>1, NatMin
<1>6. m \in T /\ \A y \in T : m =< y
  BY <1>5, Zenon
<1> QED
  BY <1>1, <1>2, <1>3, <1>4, <1>6

SplitsBy(f, text) ==
  /\ SplitPointer(text) = f[1]
  /\ \A k \in 1 .. Len(text) :
       f[k] = SplitAt(text, k).puts \o f[k + SplitAt(text, k).takes]
  /\ \A k \in Nat : k \notin 1 .. Len(text) => f[k] = << >>

LEMMA SplitLoop ==
  ASSUME NEW text \in Seq(Nat)
  PROVE  \E f : SplitsBy(f, text)
<1>a. PICK L : L = Len(text)
  OBVIOUS
<1>b. L \in Nat /\ DOMAIN text = 1 .. L
  BY <1>a, LenProperties
<1> DEFINE t == [k \in 1 .. L |-> SplitAt(text, k).takes]
           o == [k \in 1 .. L |-> SplitAt(text, k).puts]
           Body(f, k) == IF k \in DOMAIN text
                         THEN SplitAt(text, k).puts \o f[k + SplitAt(text, k).takes] ELSE << >>
           g == Loop(L, t, o)
           h == CHOOSE f : f = [k \in Nat |-> Body(f, k)]
<1>1. t \in [1 .. L -> Nat \ {0}]
  <2>1. ASSUME NEW k \in 1 .. L PROVE SplitAt(text, k).takes \in Nat \ {0}
    <3>1. NextSlash(text, k) \in k + 1 .. L + 1 /\ k \in Nat
      BY <1>a, <1>b, NextSlashIs
    <3>2. SplitAt(text, k).takes = NextSlash(text, k) - k
      BY DEF SplitAt, Takes
    <3> QED
      BY <3>1, <3>2
  <2> QED
    BY <2>1
<1>2. \A k \in 1 .. L : t[k] = SplitAt(text, k).takes /\ o[k] = SplitAt(text, k).puts
  BY Zenon
<1> HIDE DEF t, o
<1>3. /\ \A k \in 1 .. L : g[k] = o[k] \o g[k + t[k]]
      /\ \A k \in Nat : k \notin 1 .. L => g[k] = << >>
      /\ g = [k \in Nat |-> g[k]]
  BY <1>1, <1>b, LoopSteps, Zenon
<1> HIDE DEF g
<1>4. \A k \in Nat : g[k] = Body(g, k)
  BY <1>2, <1>3, <1>b, Zenon
<1>5. g = [k \in Nat |-> Body(g, k)]
  BY <1>3, <1>4, Zenon
<1>6. h = [k \in Nat |-> Body(h, k)]
  BY <1>5, Zenon
<1>7. SplitPointer(text) = h[1]
  BY Zenon DEF SplitPointer, Scan
<1> HIDE DEF h
<1>8. \A k \in 1 .. L : k \in Nat
  OBVIOUS
<1>9. \A k \in 1 .. L : h[k] = SplitAt(text, k).puts \o h[k + SplitAt(text, k).takes]
  BY <1>6, <1>8, <1>b, Zenon
<1>10. \A k \in Nat : k \notin 1 .. L => h[k] = << >>
  BY <1>6, <1>b, Zenon
<1> QED
  BY <1>7, <1>9, <1>10, <1>a, Zenon DEF SplitsBy

\* A number between two bounds that reaches no slash before the one it must reach.
LEMMA NextIsEnd ==
  ASSUME NEW p \in Nat, NEW n \in Nat, NEW L \in Nat, NEW q \in Int,
         p + 2 =< q, q =< L + 1, p + n + 1 =< L,
         q = L + 1 \/ q \notin p + 2 .. p + n + 1,
         p + n + 1 = L \/ q =< p + n + 2
  PROVE  q = p + n + 2
OBVIOUS

LEMMA EndIsWithin ==
  ASSUME NEW p \in Nat, NEW n \in Nat, NEW L \in Nat, p + n + 1 =< L, p + n + 1 # L
  PROVE  p + n + 2 \in (p + 1) + 1 .. L
OBVIOUS

\* The level e follows the first p bytes, and the next level or nothing follows it.
LevelAt(e, text, p) ==
  /\ p + Len(e) =< Len(text)
  /\ \A j \in 1 .. Len(e) : text[p + j] = e[j]
  /\ p + Len(e) = Len(text) \/ text[p + Len(e) + 1] = Slash

\* A token between its slash and the next one is taken out whole.
LEMMA TokenBack ==
  ASSUME NEW tok \in Seq(Nat \ {Slash}), NEW e, e = <<Slash>> \o tok,
         NEW text \in Seq(Nat), NEW p \in Nat, LevelAt(e, text, p)
  PROVE  SplitAt(text, p + 1) = Takes(Len(e), <<Unescape(tok)>>)
<1>a. PICK L \in Nat : L = Len(text)
  BY LenProperties
<1>b. /\ p + Len(e) =< L
      /\ \A j \in 1 .. Len(e) : text[p + j] = e[j]
      /\ p + Len(e) = L \/ text[p + Len(e) + 1] = Slash
  BY <1>a, Zenon DEF LevelAt
<1>1. PICK n \in Nat : n = Len(tok)
  BY LenProperties
<1>2. Len(e) = n + 1 /\ e[1] = Slash /\ \A j \in 1 .. n : e[j + 1] = tok[j] /\ tok[j] # Slash
  <2>1. tok \in Seq(Nat) /\ <<Slash>> \in Seq(Nat) /\ Len(<<Slash>>) = 1 /\ <<Slash>>[1] = Slash
    <3>1. tok \in Seq(Nat)
      BY SeqMonotonic
    <3> QED
      BY <3>1 DEF Slash
  <2>2. /\ Len(e) = Len(<<Slash>>) + Len(tok)
        /\ \A j \in 1 .. Len(<<Slash>>) + Len(tok) :
             e[j] = IF j <= Len(<<Slash>>) THEN <<Slash>>[j] ELSE tok[j - Len(<<Slash>>)]
    BY <2>1, ConcatProperties
  <2>3. \A j \in 1 .. 1 + n : e[j] = IF j <= 1 THEN <<Slash>>[j] ELSE tok[j - 1]
    BY <1>1, <2>1, <2>2, Zenon
  <2>4. \A j \in 1 .. n : tok[j] # Slash
    BY <1>1, ElementOfSeq
  <2>5. e[1] = Slash
    <3>1. 1 \in 1 .. 1 + n /\ 1 <= 1
      BY <1>1
    <3> QED
      BY <2>1, <2>3, <3>1, Zenon
  <2>6. \A j \in 1 .. n : e[j + 1] = tok[j]
    <3> TAKE j \in 1 .. n
    <3>1. j + 1 \in 1 .. 1 + n /\ ~(j + 1 <= 1) /\ (j + 1) - 1 = j
      BY <1>1
    <3>2. e[j + 1] = tok[(j + 1) - 1]
      BY <2>3, <3>1, Zenon
    <3> QED
      BY <3>1, <3>2
  <2> QED
    BY <1>1, <2>1, <2>2, <2>4, <2>5, <2>6, SMTT(30)
<1>3. p + 1 + n =< L /\ \A j \in 1 .. n : text[p + 1 + j] = tok[j] /\ text[p + 1 + j] # Slash
  <2>1. p + 1 + n =< L
    BY <1>1, <1>2, <1>b
  <2>2. ASSUME NEW j \in 1 .. n PROVE text[p + 1 + j] = tok[j]
    <3>1. j + 1 \in 1 .. n + 1 /\ p + (j + 1) = p + 1 + j
      BY <1>1
    <3>2. text[p + (j + 1)] = e[j + 1]
      BY <1>2, <1>b, <3>1, Zenon
    <3> QED
      BY <1>2, <3>1, <3>2
  <2> QED
    BY <1>2, <2>1, <2>2
<1>4. PICK q : q = NextSlash(text, p + 1)
  OBVIOUS
<1>5. /\ q \in (p + 1) + 1 .. L + 1
      /\ q = L + 1 \/ text[q] = Slash
      /\ \A j \in (p + 1) + 1 .. L : text[j] = Slash => q =< j
  <2>1. p + 1 \in Nat /\ p + 1 =< L
    BY <1>1, <1>3
  <2> QED
    BY <1>4, <1>a, <2>1, NextSlashIs
<1>6. q = p + n + 2
  <2>1. q \in Int /\ p + 2 =< q /\ q =< L + 1
    BY <1>5
  <2>2. q # L + 1 => q \notin p + 2 .. p + n + 1
    <3> SUFFICES ASSUME q # L + 1, q \in p + 2 .. p + n + 1 PROVE FALSE
      OBVIOUS
    <3>1. PICK j \in 1 .. n : q = p + 1 + j
      <4>1. q - (p + 1) \in 1 .. n /\ q = p + 1 + (q - (p + 1))
        BY <1>1
      <4> QED
        BY <4>1
    <3> QED
      BY <1>3, <1>5, <3>1
  <2>3. Len(e) = n + 1
    BY <1>2
  <2>4. p + n + 1 = L \/ text[p + n + 2] = Slash
    <3>1. p + (n + 1) = p + n + 1 /\ p + (n + 1) + 1 = p + n + 2
      BY <1>1
    <3> QED
      BY <2>3, <3>1, <1>b, Zenon
  <2>5. p + n + 1 # L => p + n + 2 \in (p + 1) + 1 .. L
    <3>1. p + n + 1 =< L
      BY <1>1, <1>3
    <3> QED
      BY <1>1, <3>1, EndIsWithin
  <2>6. p + n + 1 = L \/ q =< p + n + 2
    BY <1>5, <2>4, <2>5, Zenon
  <2>7. p + n + 1 =< L
    BY <1>1, <1>3
  <2> QED
    BY <1>1, <2>1, <2>2, <2>6, <2>7, NextIsEnd
<1>7. SubSeq(text, (p + 1) + 1, q - 1) = tok
  <2>1. PICK u : u = SubSeq(text, p + 2, p + n + 1)
    OBVIOUS
  <2>2. \A j \in p + 2 .. p + n + 1 : text[j] \in Nat
    <3> TAKE j \in p + 2 .. p + n + 1
    <3>1. j \in 1 .. Len(text)
      BY <1>1, <1>3, <1>a
    <3> QED
      BY <3>1, ElementOfSeq
  <2>3. p + 2 \in Int /\ p + n + 1 \in Int
    BY <1>1
  <2>4. /\ u \in Seq(Nat)
        /\ Len(u) = IF p + 2 <= p + n + 1 THEN (p + n + 1) - (p + 2) + 1 ELSE 0
        /\ \A j \in 1 .. (p + n + 1) - (p + 2) + 1 : u[j] = text[(p + 2) + j - 1]
    BY <2>1, <2>2, <2>3, SubSeqProperties
  <2>5. Len(u) = n /\ (p + n + 1) - (p + 2) + 1 = n
    BY <1>1, <2>4
  <2>6. ASSUME NEW j \in 1 .. n PROVE u[j] = tok[j]
    <3>1. (p + 2) + j - 1 = p + 1 + j
      BY <1>1
    <3>2. u[j] = text[(p + 2) + j - 1]
      BY <2>4, <2>5, Zenon
    <3> QED
      BY <1>3, <3>1, <3>2
  <2>7. tok \in Seq(Nat)
    BY SeqMonotonic
  <2>8. u = tok
    BY <1>1, <2>4, <2>5, <2>6, <2>7, SeqEqual
  <2>9. (p + 1) + 1 = p + 2 /\ q - 1 = p + n + 1
    BY <1>1, <1>6
  <2> QED
    BY <2>1, <2>8, <2>9, Zenon
<1>8. q - (p + 1) = Len(e)
  BY <1>1, <1>2, <1>6
<1> QED
  BY <1>4, <1>7, <1>8, Zenon DEF SplitAt

LEMMA TokensHaveNoSlash ==
  ASSUME NEW key \in Seq(Nat)
  PROVE  EscapeToken(key) \in Seq(Nat \ {Slash})
<1> DEFINE N == Len(key)
           ss == [k \in 1 .. N |-> EscapeByte(key[k])]
<1>0. N \in Nat /\ DOMAIN key = 1 .. N /\ \A k \in 1 .. N : key[k] \in Nat
  BY LenProperties, ElementOfSeq
<1>1. \A k \in 1 .. N : EscapeByte(key[k]) \in Seq(Nat \ {Slash})
  BY <1>0, EscapedBytes
<1>2. ss \in Seq(Seq(Nat \ {Slash}))
  BY <1>0, <1>1
<1>3. EscapeToken(key) = FlattenSeq(ss)
  BY <1>0, Zenon DEF EscapeToken
<1> HIDE DEF ss
<1> QED
  BY <1>2, <1>3, FlattenPieces

\* A level of a pointer: a slash, then a token without one.
LEMMA LevelsAre ==
  ASSUME NEW name \in Seq(Nat)
  PROVE  /\ <<Slash>> \o EscapeToken(name) \in Seq(Nat)
         /\ Len(<<Slash>> \o EscapeToken(name)) \in Nat \ {0}
         /\ (<<Slash>> \o EscapeToken(name))[1] = Slash
<1>1. PICK tok : tok = EscapeToken(name)
  OBVIOUS
<1>2. tok \in Seq(Nat) /\ <<Slash>> \in Seq(Nat) /\ Len(<<Slash>>) = 1 /\ <<Slash>>[1] = Slash
  <2>1. tok \in Seq(Nat)
    BY <1>1, EscapedUnescapes
  <2> QED
    BY <2>1 DEF Slash
<1>3. PICK n \in Nat : n = Len(tok)
  BY <1>2, LenProperties
<1>4. /\ <<Slash>> \o tok \in Seq(Nat)
      /\ Len(<<Slash>> \o tok) = 1 + n
      /\ \A j \in 1 .. 1 + n :
           (<<Slash>> \o tok)[j] = IF j <= Len(<<Slash>>) THEN <<Slash>>[j]
                                   ELSE tok[j - Len(<<Slash>>)]
  BY <1>2, <1>3, ConcatProperties
<1>5. 1 \in 1 .. 1 + n /\ 1 <= 1 /\ 1 + n \in Nat \ {0}
  OBVIOUS
<1> QED
  BY <1>1, <1>2, <1>4, <1>5

\* The pointer of any keys, empty ones and those with slashes among them, is
\* split into these keys.
LEMMA RenderSplits ==
  ASSUME NEW names \in Seq(Seq(Nat))
  PROVE  IsPointer(Render(names)) /\ SplitPointer(Render(names)) = names
<1> DEFINE N == Len(names)
           ss == [k \in 1 .. N |-> <<Slash>> \o EscapeToken(names[k])]
           out == [k \in 1 .. N |-> <<names[k]>>]
<1>0. N \in Nat /\ DOMAIN names = 1 .. N /\ \A k \in 1 .. N : names[k] \in Seq(Nat)
  BY LenProperties, ElementOfSeq
<1>1. /\ ss \in Seq(Seq(Nat)) /\ Len(ss) = N
      /\ \A k \in 1 .. N : ss[k] = <<Slash>> \o EscapeToken(names[k])
  <2>1. \A k \in 1 .. N : <<Slash>> \o EscapeToken(names[k]) \in Seq(Nat)
    BY <1>0, LevelsAre
  <2> QED
    BY <1>0, <2>1
<1>2. out \in Seq(Seq(Seq(Nat))) /\ Len(out) = N /\ DOMAIN out = 1 .. N
      /\ \A k \in 1 .. N : out[k] = <<names[k]>>
  BY <1>0
<1>3. PICK text : text = FlattenSeq(ss)
  OBVIOUS
<1>4. Render(names) = text
  BY <1>0, <1>3, Zenon DEF Render
<1>c. \A k \in 1 .. N : Len(ss[k]) \in Nat \ {0} /\ ss[k][1] = Slash
  BY <1>0, <1>1, LevelsAre, Zenon
<1> HIDE DEF ss, out
<1>5. text \in Seq(Nat) /\ \E at : Cuts(at, ss, text)
  BY <1>1, <1>3, FlattenPieces
<1>6. PICK at : Cuts(at, ss, text)
  BY <1>5
<1>a. PICK L : L = Len(text)
  OBVIOUS
<1>7. L \in Nat /\ DOMAIN text = 1 .. L /\ text \in [1 .. L -> Nat]
  BY <1>5, <1>a, LenProperties
<1>b. PICK f : SplitsBy(f, text)
  BY <1>5, SplitLoop
<1>8. /\ SplitPointer(text) = f[1]
      /\ \A k \in 1 .. L : f[k] = SplitAt(text, k).puts \o f[k + SplitAt(text, k).takes]
      /\ \A k \in Nat : k \notin 1 .. L => f[k] = << >>
  BY <1>a, <1>b, Zenon DEF SplitsBy
<1> DEFINE pos == [n \in 0 .. N |-> at[n] + 1]
<1>9. pos[0] = 1 /\ pos[N] = L + 1 /\ L + 1 \in Nat /\ L + 1 \notin 1 .. L
  BY <1>0, <1>1, <1>6, <1>7, <1>a DEF Cuts
\* Where a level starts there is a slash.
<1>d. \A n \in Nat : n + 1 =< N => text[at[n] + 1] = Slash
  <2> SUFFICES ASSUME NEW n \in Nat, n + 1 =< N PROVE text[at[n] + 1] = Slash
    OBVIOUS
  <2>1. n + 1 \in 1 .. N
    BY <1>0
  <2>2. 1 \in 1 .. Len(ss[n + 1]) /\ ss[n + 1][1] = Slash
    <3>1. Len(ss[n + 1]) \in Nat \ {0} /\ ss[n + 1][1] = Slash
      BY <1>c, <2>1, Zenon
    <3>2. \A m \in Nat \ {0} : 1 \in 1 .. m
      OBVIOUS
    <3> QED
      BY <3>1, <3>2, Zenon
  <2>3. \A j \in 1 .. Len(ss[n + 1]) : text[at[n] + j] = ss[n + 1][j]
    BY <1>1, <1>6, Zenon DEF Cuts
  <2> QED
    BY <2>2, <2>3, Zenon
<1>10. ASSUME NEW n \in Nat, n + 1 =< N
       PROVE  f[pos[n]] = out[n + 1] \o f[pos[n + 1]]
  <2>1. n + 1 \in 1 .. N /\ n \in 0 .. N /\ n + 1 \in 0 .. N
    BY <1>0, <1>10
  <2>2. PICK name \in Seq(Nat) : name = names[n + 1]
    BY <1>0, <2>1
  <2>a. PICK tok \in Seq(Nat \ {Slash}) : tok = EscapeToken(name)
    BY TokensHaveNoSlash
  <2>b. Unescape(tok) = name
    BY <2>a, EscapedUnescapes
  <2>c. PICK e : e = <<Slash>> \o tok
    OBVIOUS
  <2>3. ss[n + 1] = e /\ out[n + 1] = <<name>>
    BY <1>1, <1>2, <2>1, <2>2, <2>a, <2>c, Zenon
  <2>4. PICK p \in Nat : p = at[n]
    BY <1>1, <1>6, <2>1 DEF Cuts
  <2>5. /\ at[n + 1] = p + Len(e)
        /\ at[n + 1] =< L
        /\ \A j \in 1 .. Len(e) : text[p + j] = e[j]
    BY <1>1, <1>6, <1>10, <1>a, <2>3, <2>4, Zenon DEF Cuts
  <2>6. PICK w \in Nat \ {0} : w = Len(e)
    BY <1>c, <2>1, <2>3
  <2>d. at[n + 1] = L \/ text[at[n + 1] + 1] = Slash
    <3>1. CASE n + 1 = N
      BY <1>1, <1>6, <1>a, <3>1, Zenon DEF Cuts
    <3>2. CASE n + 1 # N
      <4>0. PICK m \in Nat : m = N
        BY <1>0, Zenon
      <4>1. (n + 1) + 1 =< N /\ n + 1 \in Nat
        <5>1. n + 1 =< m /\ n + 1 # m
          BY <1>10, <3>2, <4>0, Zenon
        <5>2. (n + 1) + 1 =< m
          BY <5>1
        <5> QED
          BY <4>0, <5>2
      <4> QED
        BY <1>d, <4>1, Zenon
    <3> QED
      BY <3>1, <3>2
  <2>7. SplitAt(text, p + 1) = Takes(Len(e), <<Unescape(tok)>>)
    <3>1. LevelAt(e, text, p)
      BY <1>a, <2>5, <2>d, Zenon DEF LevelAt
    <3> QED
      BY <1>5, <2>c, <3>1, TokenBack, Zenon
  <2>8. p + 1 \in 1 .. L /\ (p + 1) + w = at[n + 1] + 1
    <3>1. L \in Nat /\ p + w =< L /\ at[n + 1] = p + w
      BY <1>7, <2>5, <2>6
    <3> QED
      BY <3>1
  <2>9. SplitAt(text, p + 1).puts = <<name>> /\ SplitAt(text, p + 1).takes = w
    BY <2>b, <2>6, <2>7 DEF Takes
  <2>10. f[p + 1] = <<name>> \o f[at[n + 1] + 1]
    BY <1>8, <2>8, <2>9, Zenon
  <2>11. pos[n] = p + 1 /\ pos[n + 1] = at[n + 1] + 1
    BY <2>1, <2>4
  <2> HIDE DEF pos
  <2> QED
    BY <2>3, <2>10, <2>11, Zenon
<1> HIDE DEF pos
<1>11. Emits(f, pos, out)
  BY <1>2, <1>10, Zenon DEF Emits
<1>12. f[pos[Len(out)]] = << >>
  BY <1>2, <1>8, <1>9, Zenon
<1>13. f[pos[0]] = FlattenSeq(out)
  BY <1>2, <1>11, <1>12, ScanPieces
<1>14. FlattenSeq(out) = names
  BY <1>2, FlattenSingles
<1>15. IsPointer(text)
  <2>1. CASE N = 0
    <3>1. Len(text) = 0
      BY <1>1, <1>6, <2>1, Zenon DEF Cuts
    <3>2. text = << >>
      BY <1>5, <3>1, EmptySeq
    <3> QED
      BY <3>2, Zenon DEF IsPointer
  <2>2. CASE N # 0
    <3>1. 0 \in Nat /\ 0 + 1 =< N
      BY <1>0, <2>2
    <3>2. text[at[0] + 1] = Slash
      BY <1>d, <3>1
    <3>3. at[0] = 0 /\ 0 + 1 = 1
      BY <1>6 DEF Cuts
    <3>4. text[1] = Slash
      BY <3>2, <3>3
    <3> QED
      BY <3>4, Zenon DEF IsPointer
  <2> QED
    BY <2>1, <2>2
<1> QED
  BY <1>4, <1>8, <1>9, <1>13, <1>14, <1>15, Zenon

-----------------------------------------------------------------------------
(* append_utf8() written out, and what its bytes say.                        *)
\* The low six bits t of x, and the others.
Six(x, q, t) == x = q * 64 + t

LEMMA Halved ==
  ASSUME NEW x \in Nat
  PROVE  \E q \in Nat, t \in 0 .. 63 : Six(x, q, t)
<1>1. x \div 64 \in Nat /\ x % 64 \in 0 .. 63 /\ x = (x \div 64) * 64 + (x % 64)
  BY SMT
<1> QED
  BY <1>1, Zenon DEF Six

LEMMA DivBack ==
  ASSUME NEW x \in Nat, NEW q \in Nat, NEW t \in 0 .. 63, Six(x, q, t)
  PROVE  x \div 2^6 = q /\ x % 2^6 = t
BY SMT DEF Six

LEMMA DivTwice ==
  ASSUME NEW cp \in Nat, NEW x \in Nat, NEW q \in Nat, NEW m \in 0 .. 63, NEW t \in 0 .. 63,
         Six(cp, x, t), Six(x, q, m)
  PROVE  cp \div 2^12 = q
BY SMT DEF Six

LEMMA DivThrice ==
  ASSUME NEW cp \in Nat, NEW x \in Nat, NEW y \in Nat, NEW q \in Nat,
         NEW n \in 0 .. 63, NEW m \in 0 .. 63, NEW t \in 0 .. 63,
         Six(cp, x, t), Six(x, y, m), Six(y, q, n)
  PROVE  cp \div 2^18 = q
BY SMT DEF Six

\* The three bounds of append_utf8(), in the order it tries them.
LEMMA Bounds ==
  ASSUME NEW cp \in Nat
  PROVE  /\ cp >= 2^7 => ~(cp < 2^7)
         /\ cp < 2^11 => ~(cp >= 2^11)
         /\ cp >= 2^11 => ~(cp < 2^7) /\ ~(cp < 2^11)
         /\ cp >= 2^16 => ~(cp < 2^7) /\ ~(cp < 2^11) /\ ~(cp < 2^16)
BY SMT

\* There are seventeen planes of code points.
IsCodePoint(cp) == cp \in Nat /\ cp < 17 * 2^16

\* The four shapes of append_utf8()'s output.
OneByte(cp) == cp =< 127 /\ Utf8(cp) = <<cp>>
TwoBytes(cp) ==
  \E q \in 0 .. 31, t \in 0 .. 63 : cp = q * 64 + t /\ Utf8(cp) = <<192 + q, 128 + t>>
ThreeBytes(cp) ==
  \E q \in 0 .. 15, m \in 0 .. 63, t \in 0 .. 63 :
    cp = (q * 64 + m) * 64 + t /\ Utf8(cp) = <<224 + q, 128 + m, 128 + t>>
FourBytes(cp) ==
  \E q \in 0 .. 7, n \in 0 .. 63, m \in 0 .. 63, t \in 0 .. 63 :
    /\ cp = ((q * 64 + n) * 64 + m) * 64 + t
    /\ Utf8(cp) = <<240 + q, 128 + n, 128 + m, 128 + t>>

LEMMA Utf8Two ==
  ASSUME NEW cp \in Nat, NEW q \in Nat, NEW t \in 0 .. 63, Six(cp, q, t), cp >= 2^7, cp < 2^11
  PROVE  TwoBytes(cp)
<1>1. cp \div 2^6 = q /\ cp % 2^6 = t
  BY DivBack, Zenon
<1>2. ~(cp < 2^7) /\ ~(cp >= 2^11)
  BY Bounds, Zenon
<1>3. Utf8(cp) = <<192 + q, 128 + t>>
  BY <1>1, <1>2, Zenon DEF Utf8
<1>4. q \in 0 .. 31 /\ cp = q * 64 + t
  BY SMT DEF Six
<1> QED
  BY <1>3, <1>4, Zenon DEF TwoBytes

LEMMA Utf8Three ==
  ASSUME NEW cp \in Nat, NEW x \in Nat, NEW q \in Nat, NEW m \in 0 .. 63, NEW t \in 0 .. 63,
         Six(cp, x, t), Six(x, q, m), cp >= 2^11, cp < 2^16
  PROVE  ThreeBytes(cp)
<1>1. cp \div 2^6 = x /\ cp % 2^6 = t /\ x % 2^6 = m
  BY DivBack, Zenon
<1>2. cp \div 2^12 = q
  BY DivTwice, Zenon
<1>3. ~(cp < 2^7) /\ ~(cp < 2^11)
  BY Bounds, Zenon
<1>4. Utf8(cp) = <<224 + q, 128 + m, 128 + t>>
  BY <1>1, <1>2, <1>3, Zenon DEF Utf8
<1>5. cp = x * 64 + t /\ x = q * 64 + m
  BY Zenon DEF Six
<1>6. q \in 0 .. 15
  BY <1>5, SMT
<1>7. cp = (q * 64 + m) * 64 + t
  BY <1>5, Zenon
<1> QED
  BY <1>4, <1>6, <1>7, ZenonT(60) DEF ThreeBytes

LEMMA Utf8Four ==
  ASSUME NEW cp \in Nat, NEW x \in Nat, NEW y \in Nat, NEW q \in Nat,
         NEW n \in 0 .. 63, NEW m \in 0 .. 63, NEW t \in 0 .. 63,
         Six(cp, x, t), Six(x, y, m), Six(y, q, n), cp >= 2^16, IsCodePoint(cp)
  PROVE  FourBytes(cp)
<1>1. cp \div 2^6 = x /\ cp % 2^6 = t /\ x % 2^6 = m /\ y % 2^6 = n
  BY DivBack, Zenon
<1>2. cp \div 2^12 = y
  BY DivTwice, Zenon
<1>3. cp \div 2^18 = q
  BY DivThrice, ZenonT(60)
<1>4. ~(cp < 2^7) /\ ~(cp < 2^11) /\ ~(cp < 2^16)
  BY Bounds, Zenon
<1>5. Utf8(cp) = <<240 + q, 128 + n, 128 + m, 128 + t>>
  BY <1>1, <1>2, <1>3, <1>4, ZenonT(60) DEF Utf8
<1>6. cp = x * 64 + t /\ x = y * 64 + m /\ y = q * 64 + n
  BY Zenon DEF Six
<1>7. q \in 0 .. 7
  BY <1>6, SMT DEF IsCodePoint
<1>8. cp = ((q * 64 + n) * 64 + m) * 64 + t
  BY <1>6, Zenon
<1> QED
  BY <1>5, <1>7, <1>8, ZenonT(60) DEF FourBytes

\* The bytes after the lead give their six bits back, the lead its own.
LEMMA SixBits ==
  ASSUME NEW t \in 0 .. 63
  PROVE  (128 + t) % 2^6 = t
BY SMT

LEMMA LeadBits ==
  /\ \A q \in 0 .. 31 : (192 + q) % 2^5 = q
  /\ \A q \in 0 .. 15 : (224 + q) % 2^4 = q
  /\ \A q \in 0 .. 7 : (240 + q) % 2^3 = q
BY SMT

LEMMA Utf8Shapes ==
  ASSUME NEW cp \in Nat, IsCodePoint(cp)
  PROVE  OneByte(cp) \/ TwoBytes(cp) \/ ThreeBytes(cp) \/ FourBytes(cp)
<1>1. PICK x \in Nat, t \in 0 .. 63 : Six(cp, x, t)
  BY Halved, Zenon
<1>2. PICK y \in Nat, m \in 0 .. 63 : Six(x, y, m)
  BY Halved, Zenon
<1>3. PICK z \in Nat, n \in 0 .. 63 : Six(y, z, n)
  BY Halved, Zenon
<1>4. CASE cp =< 127
  <2>1. cp \in 0 .. 127
    BY <1>4, SMT
  <2> QED
    BY <1>4, <2>1, Utf8One, Zenon DEF OneByte
<1>5. CASE cp >= 2^7 /\ cp < 2^11
  BY <1>1, <1>5, Utf8Two, Zenon
<1>6. CASE cp >= 2^11 /\ cp < 2^16
  BY <1>1, <1>2, <1>6, Utf8Three, Zenon
<1>7. CASE cp >= 2^16
  BY <1>1, <1>2, <1>3, <1>7, Utf8Four, Zenon
<1>8. cp =< 127 \/ (cp >= 2^7 /\ cp < 2^11) \/ (cp >= 2^11 /\ cp < 2^16) \/ cp >= 2^16
  BY SMT
<1> QED
  BY <1>4, <1>5, <1>6, <1>7, <1>8

LEMMA Utf8Bytes ==
  ASSUME NEW cp \in Nat, IsCodePoint(cp)
  PROVE  /\ Utf8(cp) \in Seq(Nat) /\ Len(Utf8(cp)) \in 1 .. 4
         /\ cp # Backslash => \A j \in 1 .. Len(Utf8(cp)) : Utf8(cp)[j] # Backslash
<1>1. CASE OneByte(cp)
  <2>1. Utf8(cp) = <<cp>> /\ cp \in Nat /\ Len(<<cp>>) = 1 /\ <<cp>>[1] = cp
    BY <1>1 DEF OneByte
  <2> QED
    BY <2>1
<1>2. CASE TwoBytes(cp)
  <2>1. PICK q \in 0 .. 31, t \in 0 .. 63 : Utf8(cp) = <<192 + q, 128 + t>>
    BY <1>2, ZenonT(60) DEF TwoBytes
  <2> QED
    BY <2>1 DEF Backslash
<1>3. CASE ThreeBytes(cp)
  <2>1. PICK q \in 0 .. 15, m \in 0 .. 63, t \in 0 .. 63 :
          Utf8(cp) = <<224 + q, 128 + m, 128 + t>>
    BY <1>3, ZenonT(60) DEF ThreeBytes
  <2> QED
    BY <2>1 DEF Backslash
<1>4. CASE FourBytes(cp)
  <2>1. PICK q \in 0 .. 7, n \in 0 .. 63, m \in 0 .. 63, t \in 0 .. 63 :
          Utf8(cp) = <<240 + q, 128 + n, 128 + m, 128 + t>>
    BY <1>4, ZenonT(60) DEF FourBytes
  <2> QED
    BY <2>1 DEF Backslash
<1> QED
  BY <1>1, <1>2, <1>3, <1>4, Utf8Shapes, Zenon

\* The text s follows the first p bytes.
HoldsAt(bytes, p, s) == \A j \in 1 .. Len(s) : bytes[p + j] = s[j]

\* CharacterAt() by the lead byte.
LEMMA ReadOne ==
  ASSUME NEW cp \in Nat, OneByte(cp), NEW bytes, NEW p \in Nat, HoldsAt(bytes, p, Utf8(cp))
  PROVE  CharacterAt(bytes, p + 1) = Takes(Len(Utf8(cp)), <<cp>>)
<1>1. Utf8(cp) = <<cp>> /\ cp \in 0 .. 127
  BY SMT DEF OneByte
<1>2. Len(Utf8(cp)) = 1 /\ bytes[p + 1] = cp
  BY <1>1, SMT DEF HoldsAt
<1>3. CharacterAt(bytes, p + 1) = Takes(1, <<cp>>)
  BY <1>1, <1>2, SMT DEF CharacterAt
<1> QED
  BY <1>2, <1>3, Zenon

LEMMA ReadTwo ==
  ASSUME NEW cp \in Nat, TwoBytes(cp), NEW bytes, NEW p \in Nat, HoldsAt(bytes, p, Utf8(cp))
  PROVE  CharacterAt(bytes, p + 1) = Takes(Len(Utf8(cp)), <<cp>>)
<1>1. PICK q \in 0 .. 31, t \in 0 .. 63 :
        /\ cp = q * 64 + t
        /\ Utf8(cp) = <<192 + q, 128 + t>>
  BY Zenon DEF TwoBytes
<1>2. PICK a \in 192 .. 223 : a = 192 + q /\ a % 2^5 = q
  BY LeadBits, SMT
<1>3. PICK b \in 128 .. 191 : b = 128 + t /\ b % 2^6 = t
  BY SixBits, SMT
<1>4. q * 2^6 + t = cp
  BY <1>1, SMT
<1>5. Utf8(cp) = <<a, b>>
  BY <1>1, <1>2, <1>3, Zenon
<1>6. Len(Utf8(cp)) = 2 /\ bytes[p + 1] = a /\ bytes[p + 2] = b
  BY <1>5, SMT DEF HoldsAt
<1>7. PICK k \in Nat : k = p + 1 /\ k + 1 = p + 2
  BY SMT
<1>8. bytes[k] = a /\ bytes[k + 1] = b
  BY <1>6, <1>7, Zenon
<1>9. CharacterAt(bytes, k) = Takes(2, <<(a % 2^5) * 2^6 + (b % 2^6)>>)
  BY <1>8, SMT DEF CharacterAt
<1> QED
  BY <1>2, <1>3, <1>4, <1>6, <1>7, <1>9, Zenon

LEMMA ReadThree ==
  ASSUME NEW cp \in Nat, ThreeBytes(cp), NEW bytes, NEW p \in Nat, HoldsAt(bytes, p, Utf8(cp))
  PROVE  CharacterAt(bytes, p + 1) = Takes(Len(Utf8(cp)), <<cp>>)
<1>1. PICK q \in 0 .. 15, m \in 0 .. 63, t \in 0 .. 63 :
        /\ cp = (q * 64 + m) * 64 + t
        /\ Utf8(cp) = <<224 + q, 128 + m, 128 + t>>
  BY Zenon DEF ThreeBytes
<1>2. PICK a \in 224 .. 239 : a = 224 + q /\ a % 2^4 = q
  BY LeadBits, SMT
<1>3. PICK b \in 128 .. 191 : b = 128 + m /\ b % 2^6 = m
  BY SixBits, SMT
<1>4. PICK c \in 128 .. 191 : c = 128 + t /\ c % 2^6 = t
  BY SixBits, SMT
<1>5. (q * 2^6 + m) * 2^6 + t = cp
  BY <1>1, SMT
<1>6. Utf8(cp) = <<a, b, c>>
  BY <1>1, <1>2, <1>3, <1>4, Zenon
<1>7. Len(Utf8(cp)) = 3 /\ bytes[p + 1] = a /\ bytes[p + 2] = b /\ bytes[p + 3] = c
  BY <1>6, SMT DEF HoldsAt
<1>8. PICK k \in Nat : k = p + 1 /\ k + 1 = p + 2 /\ k + 2 = p + 3
  BY SMT
<1>9. bytes[k] = a /\ bytes[k + 1] = b /\ bytes[k + 2] = c
  BY <1>7, <1>8, Zenon
<1>10. CharacterAt(bytes, k) = Takes(3, <<((a % 2^4) * 2^6 + (b % 2^6)) * 2^6 + (c % 2^6)>>)
  BY <1>9, SMT DEF CharacterAt
<1> QED
  BY <1>2, <1>3, <1>4, <1>5, <1>7, <1>8, <1>10, Zenon

LEMMA ReadFour ==
  ASSUME NEW cp \in Nat, FourBytes(cp), NEW bytes, NEW p \in Nat, HoldsAt(bytes, p, Utf8(cp))
  PROVE  CharacterAt(bytes, p + 1) = Takes(Len(Utf8(cp)), <<cp>>)
<1>1. PICK q \in 0 .. 7, n \in 0 .. 63, m \in 0 .. 63, t \in 0 .. 63 :
        /\ cp = ((q * 64 + n) * 64 + m) * 64 + t
        /\ Utf8(cp) = <<240 + q, 128 + n, 128 + m, 128 + t>>
  BY Zenon DEF FourBytes
<1>2. PICK a \in 240 .. 247 : a = 240 + q /\ a % 2^3 = q
  BY LeadBits, SMT
<1>3. PICK b \in 128 .. 191 : b = 128 + n /\ b % 2^6 = n
  BY SixBits, SMT
<1>4. PICK c \in 128 .. 191 : c = 128 + m /\ c % 2^6 = m
  BY SixBits, SMT
<1>5. PICK d \in 128 .. 191 : d = 128 + t /\ d % 2^6 = t
  BY SixBits, SMT
<1>6. ((q * 2^6 + n) * 2^6 + m) * 2^6 + t = cp
  BY <1>1, SMT
<1>7. Utf8(cp) = <<a, b, c, d>>
  BY <1>1, <1>2, <1>3, <1>4, <1>5, Zenon
<1>8. Len(Utf8(cp)) = 4 /\ bytes[p + 1] = a /\ bytes[p + 2] = b /\ bytes[p + 3] = c /\ bytes[p + 4] = d
  BY <1>7, SMT DEF HoldsAt
<1>9. PICK k \in Nat : k = p + 1 /\ k + 1 = p + 2 /\ k + 2 = p + 3 /\ k + 3 = p + 4
  BY SMT
<1>10. bytes[k] = a /\ bytes[k + 1] = b /\ bytes[k + 2] = c /\ bytes[k + 3] = d
  BY <1>8, <1>9, Zenon
<1>11. CharacterAt(bytes, k) = Takes(4, <<(((a % 2^3) * 2^6 + (b % 2^6)) * 2^6 + (c % 2^6)) * 2^6 + (d % 2^6)>>)
  BY <1>10, SMT DEF CharacterAt
<1> QED
  BY <1>2, <1>3, <1>4, <1>5, <1>6, <1>8, <1>9, <1>11, Zenon

\* A code point written by append_utf8() is read back, wherever it is in the text.
LEMMA CharacterBack ==
  ASSUME NEW cp \in Nat, IsCodePoint(cp), NEW bytes, NEW p \in Nat, HoldsAt(bytes, p, Utf8(cp))
  PROVE  CharacterAt(bytes, p + 1) = Takes(Len(Utf8(cp)), <<cp>>)
<1>1. OneByte(cp) \/ TwoBytes(cp) \/ ThreeBytes(cp) \/ FourBytes(cp)
  BY Utf8Shapes, Zenon
<1> QED
  BY <1>1, ReadOne, ReadTwo, ReadThree, ReadFour, Zenon

ReadsBy(f, bytes) ==
  /\ CharactersOf(bytes) = f[1]
  /\ \A k \in 1 .. Len(bytes) :
       f[k] = CharacterAt(bytes, k).puts \o f[k + CharacterAt(bytes, k).takes]
  /\ \A k \in Nat : k \notin 1 .. Len(bytes) => f[k] = << >>

LEMMA CharacterLoop ==
  ASSUME NEW bytes \in Seq(Nat)
  PROVE  \E f : ReadsBy(f, bytes)
<1>a. PICK L : L = Len(bytes)
  OBVIOUS
<1>b. L \in Nat /\ DOMAIN bytes = 1 .. L
  BY <1>a, LenProperties
<1> DEFINE t == [k \in 1 .. L |-> CharacterAt(bytes, k).takes]
           o == [k \in 1 .. L |-> CharacterAt(bytes, k).puts]
           Body(f, k) == IF k \in DOMAIN bytes
                         THEN CharacterAt(bytes, k).puts \o f[k + CharacterAt(bytes, k).takes]
                         ELSE << >>
           g == Loop(L, t, o)
           h == CHOOSE f : f = [k \in Nat |-> Body(f, k)]
<1>1. t \in [1 .. L -> Nat \ {0}]
  <2>1. ASSUME NEW k \in 1 .. L PROVE CharacterAt(bytes, k).takes \in Nat \ {0}
    <3>1. PICK lead : lead = bytes[k]
      OBVIOUS
    <3> QED
      BY <3>1, SMT DEF CharacterAt, Takes
  <2> QED
    BY <2>1
<1>2. \A k \in 1 .. L : t[k] = CharacterAt(bytes, k).takes /\ o[k] = CharacterAt(bytes, k).puts
  BY Zenon
<1> HIDE DEF t, o
<1>3. /\ \A k \in 1 .. L : g[k] = o[k] \o g[k + t[k]]
      /\ \A k \in Nat : k \notin 1 .. L => g[k] = << >>
      /\ g = [k \in Nat |-> g[k]]
  BY <1>1, <1>b, LoopSteps, Zenon
<1> HIDE DEF g
<1>4. \A k \in Nat : g[k] = Body(g, k)
  BY <1>2, <1>3, <1>b, Zenon
<1>5. g = [k \in Nat |-> Body(g, k)]
  BY <1>3, <1>4, Zenon
<1>6. h = [k \in Nat |-> Body(h, k)]
  BY <1>5, Zenon
<1>7. CharactersOf(bytes) = h[1]
  BY Zenon DEF CharactersOf, Scan
<1> HIDE DEF h
<1>8. \A k \in 1 .. L : k \in Nat
  OBVIOUS
<1>9. \A k \in 1 .. L : h[k] = CharacterAt(bytes, k).puts \o h[k + CharacterAt(bytes, k).takes]
  BY <1>6, <1>8, <1>b, Zenon
<1>10. \A k \in Nat : k \notin 1 .. L => h[k] = << >>
  BY <1>6, <1>b, Zenon
<1> QED
  BY <1>7, <1>9, <1>10, <1>a, Zenon DEF ReadsBy

\* The bytes of a text of code points.
InUtf8(cps) == FlattenSeq([k \in DOMAIN cps |-> Utf8(cps[k])])

\* A text written as UTF-8 is read back.
LEMMA CharactersBack ==
  ASSUME NEW cps \in Seq(Nat), \A k \in 1 .. Len(cps) : IsCodePoint(cps[k])
  PROVE  InUtf8(cps) \in Seq(Nat) /\ CharactersOf(InUtf8(cps)) = cps
<1> DEFINE N == Len(cps)
           ss == [k \in 1 .. N |-> Utf8(cps[k])]
           out == [k \in 1 .. N |-> <<cps[k]>>]
<1>0. N \in Nat /\ DOMAIN cps = 1 .. N /\ \A k \in 1 .. N : cps[k] \in Nat
  BY LenProperties, ElementOfSeq
<1>c. \A k \in 1 .. N : Utf8(cps[k]) \in Seq(Nat) /\ Len(Utf8(cps[k])) \in 1 .. 4
  BY <1>0, Utf8Bytes, Zenon
<1>1. ss \in Seq(Seq(Nat)) /\ Len(ss) = N /\ \A k \in 1 .. N : ss[k] = Utf8(cps[k])
  BY <1>0, <1>c
<1>2. out \in Seq(Seq(Nat)) /\ Len(out) = N /\ DOMAIN out = 1 .. N
      /\ \A k \in 1 .. N : out[k] = <<cps[k]>>
  BY <1>0
<1>3. PICK text : text = FlattenSeq(ss)
  OBVIOUS
<1>4. InUtf8(cps) = text
  BY <1>0, <1>3, Zenon DEF InUtf8
<1> HIDE DEF ss, out
<1>5. text \in Seq(Nat) /\ \E at : Cuts(at, ss, text)
  BY <1>1, <1>3, FlattenPieces
<1>6. PICK at : Cuts(at, ss, text)
  BY <1>5
<1>a. PICK L : L = Len(text)
  OBVIOUS
<1>7. L \in Nat
  BY <1>5, <1>a, LenProperties
<1>b. PICK f : ReadsBy(f, text)
  BY <1>5, CharacterLoop
<1>8. /\ CharactersOf(text) = f[1]
      /\ \A k \in 1 .. L :
           f[k] = CharacterAt(text, k).puts \o f[k + CharacterAt(text, k).takes]
      /\ \A k \in Nat : k \notin 1 .. L => f[k] = << >>
  BY <1>a, <1>b, Zenon DEF ReadsBy
<1> DEFINE pos == [n \in 0 .. N |-> at[n] + 1]
<1>9. pos[0] = 1 /\ pos[N] = L + 1 /\ L + 1 \in Nat /\ L + 1 \notin 1 .. L
  BY <1>0, <1>1, <1>6, <1>7, <1>a DEF Cuts
<1>10. ASSUME NEW n \in Nat, n + 1 =< N
       PROVE  f[pos[n]] = out[n + 1] \o f[pos[n + 1]]
  <2>1. n + 1 \in 1 .. N /\ n \in 0 .. N /\ n + 1 \in 0 .. N
    BY <1>0, <1>10
  <2>2. PICK cp \in Nat : cp = cps[n + 1]
    BY <1>0, <2>1
  <2>a. IsCodePoint(cp)
    BY <2>1, <2>2, Zenon
  <2>3. ss[n + 1] = Utf8(cp) /\ out[n + 1] = <<cp>>
    BY <1>1, <1>2, <2>1, <2>2, Zenon
  <2>4. PICK p \in Nat : p = at[n]
    BY <1>1, <1>6, <2>1 DEF Cuts
  <2>5. /\ at[n + 1] = p + Len(Utf8(cp))
        /\ at[n + 1] =< L
        /\ \A j \in 1 .. Len(Utf8(cp)) : text[p + j] = Utf8(cp)[j]
    BY <1>1, <1>6, <1>10, <1>a, <2>3, <2>4, Zenon DEF Cuts
  <2>6. PICK w \in 1 .. 4 : w = Len(Utf8(cp))
    BY <1>c, <2>1, <2>2
  <2>7. CharacterAt(text, p + 1) = Takes(Len(Utf8(cp)), <<cp>>)
    <3>1. HoldsAt(text, p, Utf8(cp))
      BY <2>5, Zenon DEF HoldsAt
    <3> QED
      BY <2>a, <3>1, CharacterBack, Zenon
  <2>8. p + 1 \in 1 .. L /\ (p + 1) + w = at[n + 1] + 1
    <3>1. L \in Nat /\ p + w =< L /\ at[n + 1] = p + w
      BY <1>7, <2>5, <2>6
    <3> QED
      BY <3>1
  <2>9. CharacterAt(text, p + 1).puts = <<cp>> /\ CharacterAt(text, p + 1).takes = w
    BY <2>6, <2>7 DEF Takes
  <2>10. f[p + 1] = <<cp>> \o f[at[n + 1] + 1]
    BY <1>8, <2>8, <2>9, Zenon
  <2>11. pos[n] = p + 1 /\ pos[n + 1] = at[n + 1] + 1
    BY <2>1, <2>4
  <2> HIDE DEF pos
  <2> QED
    BY <2>3, <2>10, <2>11, Zenon
<1> HIDE DEF pos
<1>11. Emits(f, pos, out)
  BY <1>2, <1>10, Zenon DEF Emits
<1>12. f[pos[Len(out)]] = << >>
  BY <1>2, <1>8, <1>9, Zenon
<1>13. f[pos[0]] = FlattenSeq(out)
  BY <1>2, <1>11, <1>12, ScanPieces
<1>14. FlattenSeq(out) = cps
  BY <1>2, FlattenSingles
<1> QED
  BY <1>4, <1>5, <1>8, <1>9, <1>13, <1>14, Zenon

-----------------------------------------------------------------------------
(* decode_key() on what a key is spelled with.                               *)
Joins(a, s, u) == <<a>> \o s = u

LEMMA RunStarts ==
  ASSUME NEW a \in Nat, NEW s \in Seq(Nat), NEW u \in Seq(Nat), Len(u) = Len(s) + 1, u[1] = a,
         \A i \in 1 .. Len(s) : u[i + 1] = s[i]
  PROVE  Joins(a, s, u)
<1>a. <<a>> \in Seq(Nat) /\ Len(<<a>>) = 1 /\ <<a>>[1] = a
  OBVIOUS
<1>1. PICK v \in Seq(Nat) : v = <<a>> /\ Len(v) = 1 /\ v[1] = a
  BY <1>a, Zenon
<1>2. PICK z : z = v \o s
  OBVIOUS
<1>3. /\ z \in Seq(Nat)
      /\ Len(z) = Len(v) + Len(s)
      /\ \A i \in 1 .. Len(v) + Len(s) : z[i] = IF i <= Len(v) THEN v[i] ELSE s[i - Len(v)]
  BY <1>2, ConcatProperties, Zenon
<1> SUFFICES z = u
  BY <1>1, <1>2, Zenon DEF Joins
<1> HIDE <1>2
<1>4. PICK n \in Nat : n = Len(s)
  BY LenProperties
<1>5. Len(z) = n + 1 /\ Len(u) = n + 1
  BY <1>1, <1>3, <1>4
<1>6. ASSUME NEW i \in 1 .. n + 1 PROVE z[i] = u[i]
  <2>1. CASE i = 1
    BY <1>1, <1>3, <1>4, <2>1
  <2>2. CASE i # 1
    <3>1. PICK j \in 1 .. n : j + 1 = i /\ i - 1 = j /\ ~(i <= 1)
      BY <2>2
    <3>2. z[i] = s[j]
      BY <1>1, <1>3, <1>4, <3>1
    <3> QED
      BY <1>4, <3>1, <3>2
  <2> QED
    BY <2>1, <2>2
<1> QED
  BY <1>3, <1>5, <1>6, SeqEqual

LEMMA RunsAssociate ==
  ASSUME NEW r \in Seq(Nat), NEW s \in Seq(Nat), NEW t \in Seq(Nat)
  PROVE  (r \o s) \o t = r \o (s \o t)
BY ConcatAssociative, SMTT(30)

LEMMA RunOn ==
  ASSUME NEW a \in Nat, NEW s \in Seq(Nat), NEW u \in Seq(Nat), NEW x \in Seq(Nat), Joins(a, s, u)
  PROVE  <<a>> \o (s \o x) = u \o x
<1>a. <<a>> \in Seq(Nat)
  OBVIOUS
<1>1. PICK v \in Seq(Nat) : v = <<a>>
  BY <1>a, Zenon
<1>2. (v \o s) \o x = v \o (s \o x)
  BY RunsAssociate, Zenon
<1>3. v \o s = u
  BY <1>1, Zenon DEF Joins
<1> QED
  BY <1>1, <1>2, <1>3, Zenon

LEMMA RunOfTwo ==
  ASSUME NEW a \in Nat, NEW b \in Nat, NEW x \in Seq(Nat)
  PROVE  <<a>> \o (<<b>> \o x) = <<a, b>> \o x
<1>1. <<b>> \in Seq(Nat) /\ <<a, b>> \in Seq(Nat)
  OBVIOUS
<1>2. /\ Len(<<a, b>>) = Len(<<b>>) + 1 /\ <<a, b>>[1] = a
      /\ \A i \in 1 .. Len(<<b>>) : <<a, b>>[i + 1] = <<b>>[i]
  OBVIOUS
<1>3. Joins(a, <<b>>, <<a, b>>)
  BY <1>1, <1>2, RunStarts, Zenon
<1> QED
  BY <1>1, <1>3, RunOn, ZenonT(60)

\* The same of three bytes and of four.
RunsThree(a, b, c, x) == <<a>> \o (<<b, c>> \o x) = <<a, b, c>> \o x
RunsFour(a, b, c, d, x) == <<a>> \o (<<b, c, d>> \o x) = <<a, b, c, d>> \o x

LEMMA RunOfThree ==
  ASSUME NEW a \in Nat, NEW b \in Nat, NEW c \in Nat, NEW x \in Seq(Nat)
  PROVE  RunsThree(a, b, c, x)
<1>1. <<b, c>> \in Seq(Nat) /\ <<a, b, c>> \in Seq(Nat)
  OBVIOUS
<1>2. /\ Len(<<a, b, c>>) = Len(<<b, c>>) + 1 /\ <<a, b, c>>[1] = a
      /\ \A i \in 1 .. Len(<<b, c>>) : <<a, b, c>>[i + 1] = <<b, c>>[i]
  OBVIOUS
<1>3. Joins(a, <<b, c>>, <<a, b, c>>)
  BY <1>1, <1>2, RunStarts, Zenon
<1> QED
  BY <1>1, <1>3, RunOn, ZenonT(60) DEF RunsThree

LEMMA RunOfFour ==
  ASSUME NEW a \in Nat, NEW b \in Nat, NEW c \in Nat, NEW d \in Nat, NEW x \in Seq(Nat)
  PROVE  RunsFour(a, b, c, d, x)
<1>1. <<b, c, d>> \in Seq(Nat) /\ <<a, b, c, d>> \in Seq(Nat)
  OBVIOUS
<1>2. /\ Len(<<a, b, c, d>>) = Len(<<b, c, d>>) + 1 /\ <<a, b, c, d>>[1] = a
      /\ \A i \in 1 .. Len(<<b, c, d>>) : <<a, b, c, d>>[i + 1] = <<b, c, d>>[i]
  OBVIOUS
<1>3. Joins(a, <<b, c, d>>, <<a, b, c, d>>)
  BY <1>1, <1>2, RunStarts, Zenon
<1> QED
  BY <1>1, <1>3, RunOn, ZenonT(60) DEF RunsFour

\* A byte that is no backslash stands for itself.
LEMMA PlainByte ==
  ASSUME NEW raw \in Seq(Nat), NEW f, DecodesBy(f, raw),
         NEW k \in 1 .. Len(raw), raw[k] # Backslash
  PROVE  f[k] = <<raw[k]>> \o f[k + 1]
<1>1. DecodeAt(raw, k) = Takes(1, <<raw[k]>>)
  BY Zenon DEF DecodeAt
<1>2. DecodeAt(raw, k).puts = <<raw[k]>> /\ DecodeAt(raw, k).takes = 1
  BY <1>1 DEF Takes
<1>3. f[k] = DecodeAt(raw, k).puts \o f[k + DecodeAt(raw, k).takes]
  BY Zenon DEF DecodesBy
<1> QED
  BY <1>2, <1>3, Zenon

\* A character is copied byte by byte.
LEMMA PlainRun ==
  ASSUME NEW cp \in Nat, IsCodePoint(cp), cp # Backslash,
         NEW raw \in Seq(Nat), NEW f, DecodesBy(f, raw),
         NEW p \in Nat, HoldsAt(raw, p, Utf8(cp)), p + Len(Utf8(cp)) =< Len(raw),
         f[p + Len(Utf8(cp)) + 1] \in Seq(Nat)
  PROVE  f[p + 1] = Utf8(cp) \o f[p + Len(Utf8(cp)) + 1]
<1>0. PICK L \in Nat : L = Len(raw)
  BY LenProperties
<1>a. \A j \in 1 .. Len(Utf8(cp)) : Utf8(cp)[j] # Backslash
  BY Utf8Bytes, Zenon
<1>c. PICK x \in Seq(Nat) : x = f[p + Len(Utf8(cp)) + 1]
  OBVIOUS
\* The bytes one by one.
<1>b. ASSUME NEW j \in Nat, j \in 1 .. Len(Utf8(cp)), NEW b, Utf8(cp)[j] = b, p + j \in 1 .. L
      PROVE  f[p + j] = <<b>> \o f[(p + j) + 1]
  <2>1. raw[p + j] = b /\ b # Backslash
    BY <1>a, <1>b, Zenon DEF HoldsAt
  <2> QED
    BY <1>0, <1>b, <2>1, PlainByte, ZenonT(60)
<1>1. CASE OneByte(cp)
  <2>1. Utf8(cp) = <<cp>> /\ Len(Utf8(cp)) = 1 /\ Utf8(cp)[1] = cp
    BY <1>1, SMT DEF OneByte
  <2>2. 1 \in 1 .. 1 /\ p + 1 \in 1 .. L
    BY <1>0, <2>1, SMT
  <2>3. f[p + 1] = <<cp>> \o f[(p + 1) + 1]
    BY <1>b, <2>1, <2>2, Zenon
  <2> QED
    BY <2>1, <2>3, Zenon
<1>2. CASE TwoBytes(cp)
  <2>1. PICK a \in Nat, b \in Nat : Utf8(cp) = <<a, b>>
    BY <1>2, SMT DEF TwoBytes
  <2>2. Len(Utf8(cp)) = 2 /\ Utf8(cp)[1] = a /\ Utf8(cp)[2] = b
    BY <2>1, SMT
  <2>3. 1 \in 1 .. 2 /\ 2 \in 1 .. 2 /\ p + 1 \in 1 .. L /\ p + 2 \in 1 .. L
        /\ (p + 1) + 1 = p + 2
    BY <1>0, <2>2, SMT
  <2>4. f[p + 1] = <<a>> \o f[p + 2] /\ f[p + 2] = <<b>> \o f[p + 2 + 1]
    BY <1>b, <2>2, <2>3, Zenon
  <2> QED
    <3>1. x = f[p + 2 + 1]
      BY <1>c, <2>2, Zenon
    <3>2. <<a>> \o (<<b>> \o x) = <<a, b>> \o x
      BY RunOfTwo, Zenon
    <3> QED
      BY <1>c, <2>1, <2>4, <3>1, <3>2, Zenon
<1>3. CASE ThreeBytes(cp)
  <2>1. PICK a \in Nat, b \in Nat, c \in Nat : Utf8(cp) = <<a, b, c>>
    BY <1>3, SMT DEF ThreeBytes
  <2>2. Len(Utf8(cp)) = 3 /\ Utf8(cp)[1] = a /\ Utf8(cp)[2] = b /\ Utf8(cp)[3] = c
    BY <2>1, SMT
  <2>3. 1 \in 1 .. 3 /\ 2 \in 1 .. 3 /\ 3 \in 1 .. 3 /\ p + 1 \in 1 .. L /\ p + 2 \in 1 .. L
        /\ p + 3 \in 1 .. L /\ (p + 1) + 1 = p + 2 /\ (p + 2) + 1 = p + 3
    <3>1. p + 3 =< L
      BY <1>0, <2>2, Zenon
    <3> QED
      BY <3>1, SMT
  <2>4. f[p + 1] = <<a>> \o f[p + 2] /\ f[p + 2] = <<b>> \o f[p + 3]
        /\ f[p + 3] = <<c>> \o f[p + 3 + 1]
    BY <1>b, <2>2, <2>3, Zenon
  <2>5. x = f[p + 3 + 1]
    BY <1>c, <2>2, Zenon
  <2>6. <<b>> \o (<<c>> \o x) = <<b, c>> \o x
    BY RunOfTwo, Zenon
  <2>7. RunsThree(a, b, c, x)
    BY RunOfThree, Zenon
  <2> QED
    BY <1>c, <2>1, <2>4, <2>5, <2>6, <2>7, Zenon DEF RunsThree
<1>4. CASE FourBytes(cp)
  <2>1. PICK a \in Nat, b \in Nat, c \in Nat, d \in Nat : Utf8(cp) = <<a, b, c, d>>
    BY <1>4, SMT DEF FourBytes
  <2>2. Len(Utf8(cp)) = 4 /\ Utf8(cp)[1] = a /\ Utf8(cp)[2] = b /\ Utf8(cp)[3] = c
        /\ Utf8(cp)[4] = d
    BY <2>1, SMT
  <2>3. 1 \in 1 .. 4 /\ 2 \in 1 .. 4 /\ 3 \in 1 .. 4 /\ 4 \in 1 .. 4 /\ p + 1 \in 1 .. L
        /\ p + 2 \in 1 .. L /\ p + 3 \in 1 .. L /\ p + 4 \in 1 .. L
        /\ (p + 1) + 1 = p + 2 /\ (p + 2) + 1 = p + 3 /\ (p + 3) + 1 = p + 4
    <3>1. p + 4 =< L
      BY <1>0, <2>2, Zenon
    <3>2. p + 1 \in 1 .. L /\ p + 2 \in 1 .. L /\ p + 3 \in 1 .. L /\ p + 4 \in 1 .. L
      BY <3>1, SMT
    <3>3. (p + 1) + 1 = p + 2 /\ (p + 2) + 1 = p + 3 /\ (p + 3) + 1 = p + 4
      BY SMT
    <3> QED
      BY <3>2, <3>3, SMT
  <2>4. f[p + 1] = <<a>> \o f[p + 2] /\ f[p + 2] = <<b>> \o f[p + 3]
        /\ f[p + 3] = <<c>> \o f[p + 4] /\ f[p + 4] = <<d>> \o f[p + 4 + 1]
    BY <1>b, <2>2, <2>3, ZenonT(60)
  <2>5. x = f[p + 4 + 1]
    BY <1>c, <2>2, Zenon
  <2>6. <<c>> \o (<<d>> \o x) = <<c, d>> \o x
    BY RunOfTwo, Zenon
  <2>7. RunsThree(b, c, d, x)
    BY RunOfThree, Zenon
  <2>8. RunsFour(a, b, c, d, x)
    BY RunOfFour, Zenon
  <2> QED
    BY <1>c, <2>1, <2>4, <2>5, <2>6, <2>7, <2>8, Zenon DEF RunsThree, RunsFour
<1> QED
  BY <1>1, <1>2, <1>3, <1>4, Utf8Shapes, Zenon

\* The four digits of a code.
Sixteen(x, q, t) == x = q * 16 + t

LEMMA Sixteenths ==
  ASSUME NEW x \in Nat
  PROVE  \E q \in Nat, t \in 0 .. 15 : Sixteen(x, q, t)
<1>1. x \div 16 \in Nat /\ x % 16 \in 0 .. 15 /\ x = (x \div 16) * 16 + (x % 16)
  BY SMT
<1> QED
  BY <1>1, Zenon DEF Sixteen

LEMMA HexOnce ==
  ASSUME NEW x \in Nat, NEW q \in Nat, NEW t \in 0 .. 15, Sixteen(x, q, t)
  PROVE  x \div 16 = q /\ x % 16 = t
BY SMT DEF Sixteen

LEMMA HexTwice ==
  ASSUME NEW x \in Nat, NEW y \in Nat, NEW q \in Nat, NEW m \in 0 .. 15, NEW t \in 0 .. 15,
         Sixteen(x, y, t), Sixteen(y, q, m)
  PROVE  x \div 2^8 = q
BY SMT DEF Sixteen

LEMMA HexThrice ==
  ASSUME NEW x \in Nat, NEW y \in Nat, NEW z \in Nat, NEW q \in Nat,
         NEW n \in 0 .. 15, NEW m \in 0 .. 15, NEW t \in 0 .. 15,
         Sixteen(x, y, t), Sixteen(y, z, m), Sixteen(z, q, n), x < 2^16
  PROVE  x \div 2^12 = q /\ q \in 0 .. 15
BY SMT DEF Sixteen

Digits(code, a, b, c, d) ==
  /\ ((a * 16 + b) * 16 + c) * 16 + d = code
  /\ code \div 2^12 = a /\ (code \div 2^8) % 16 = b /\ (code \div 16) % 16 = c /\ code % 16 = d

LEMMA HexDigits ==
  ASSUME NEW code \in Nat, code < 2^16
  PROVE  \E a \in 0 .. 15, b \in 0 .. 15, c \in 0 .. 15, d \in 0 .. 15 : Digits(code, a, b, c, d)
<1>1. PICK x \in Nat, d \in 0 .. 15 : Sixteen(code, x, d)
  BY Sixteenths, Zenon
<1>2. PICK y \in Nat, c \in 0 .. 15 : Sixteen(x, y, c)
  BY Sixteenths, Zenon
<1>3. PICK a \in Nat, b \in 0 .. 15 : Sixteen(y, a, b)
  BY Sixteenths, Zenon
<1>4. code \div 16 = x /\ code % 16 = d /\ x % 16 = c /\ y % 16 = b
  BY <1>1, <1>2, <1>3, HexOnce, Zenon
<1>5. code \div 2^8 = y
  BY <1>1, <1>2, HexTwice, Zenon
<1>6. code \div 2^12 = a /\ a \in 0 .. 15
  BY <1>1, <1>2, <1>3, HexThrice, Zenon
<1>7. ((a * 16 + b) * 16 + c) * 16 + d = code
  BY <1>1, <1>2, <1>3, Zenon DEF Sixteen
<1> QED
  BY <1>4, <1>5, <1>6, <1>7, ZenonT(60) DEF Digits

\* A \u escape in the text: what hex4() reads after its two letters.
Escapes(unit, code, a, b, c, d) ==
  /\ Digits(code, a, b, c, d)
  /\ RawOf(unit) = <<Backslash, LetterU, HexDigit(a), HexDigit(b), HexDigit(c), HexDigit(d)>>

LEMMA EscapeIs ==
  ASSUME NEW unit, unit.form = "u", NEW code \in Nat, unit.code = code, code < 2^16
  PROVE  \E a \in 0 .. 15, b \in 0 .. 15, c \in 0 .. 15, d \in 0 .. 15 :
           Escapes(unit, code, a, b, c, d)
<1>1. PICK a \in 0 .. 15, b \in 0 .. 15, c \in 0 .. 15, d \in 0 .. 15 : Digits(code, a, b, c, d)
  BY HexDigits, Zenon
<1>2. unit.form # "raw" /\ unit.form # "escape"
  OBVIOUS
<1>3. RawOf(unit) = <<Backslash, LetterU, HexDigit(code \div 2^12), HexDigit((code \div 2^8) % 16),
                      HexDigit((code \div 16) % 16), HexDigit(code % 16)>>
  BY <1>2, Zenon DEF RawOf
<1>4. code \div 2^12 = a /\ (code \div 2^8) % 16 = b /\ (code \div 16) % 16 = c /\ code % 16 = d
  BY <1>1, Zenon DEF Digits
<1>5. RawOf(unit) = <<Backslash, LetterU, HexDigit(a), HexDigit(b), HexDigit(c), HexDigit(d)>>
  BY <1>3, <1>4, Zenon
<1>6. Escapes(unit, code, a, b, c, d)
  BY <1>1, <1>5, Zenon DEF Escapes
<1> QED
  BY <1>6, Zenon

HexAt(raw, p, code) ==
  raw[p + 1] = Backslash /\ raw[p + 2] = LetterU /\ Hex4(raw, p + 3) = code

LEMMA EscapeHeld ==
  ASSUME NEW unit, unit.form = "u", NEW code \in Nat, unit.code = code, code < 2^16,
         NEW raw, NEW p \in Nat, HoldsAt(raw, p, RawOf(unit))
  PROVE  /\ RawOf(unit) \in Seq(Nat) /\ Len(RawOf(unit)) = 6
         /\ HexAt(raw, p, code)
<1>1. PICK a \in 0 .. 15, b \in 0 .. 15, c \in 0 .. 15, d \in 0 .. 15 :
        Escapes(unit, code, a, b, c, d)
  BY EscapeIs, Zenon
<1>2. PICK w \in Nat, x \in Nat, y \in Nat, z \in Nat :
        /\ w = HexDigit(a) /\ x = HexDigit(b) /\ y = HexDigit(c) /\ z = HexDigit(d)
        /\ HexValue(w) = a /\ HexValue(x) = b /\ HexValue(y) = c /\ HexValue(z) = d
  <2>1. /\ HexDigit(a) \in Nat /\ HexValue(HexDigit(a)) = a
        /\ HexDigit(b) \in Nat /\ HexValue(HexDigit(b)) = b
        /\ HexDigit(c) \in Nat /\ HexValue(HexDigit(c)) = c
        /\ HexDigit(d) \in Nat /\ HexValue(HexDigit(d)) = d
    BY HexBack
  <2> QED
    BY <2>1, Zenon
<1>3. RawOf(unit) = <<Backslash, LetterU, w, x, y, z>>
  BY <1>1, <1>2, Zenon DEF Escapes
<1>4. RawOf(unit) \in Seq(Nat) /\ Len(RawOf(unit)) = 6
  BY <1>3, SMT DEF Backslash, LetterU
<1>5. /\ raw[p + 1] = Backslash /\ raw[p + 2] = LetterU
      /\ raw[p + 3] = w /\ raw[p + 4] = x /\ raw[p + 5] = y /\ raw[p + 6] = z
  BY <1>3, SMT DEF HoldsAt
<1>6. (p + 3) + 1 = p + 4 /\ (p + 3) + 2 = p + 5 /\ (p + 3) + 3 = p + 6
  BY SMT
<1>7. Hex4(raw, p + 3) = ((a * 16 + b) * 16 + c) * 16 + d
  BY <1>2, <1>5, <1>6, Zenon DEF Hex4
<1>8. ((a * 16 + b) * 16 + c) * 16 + d = code
  BY <1>1, Zenon DEF Escapes, Digits
<1> QED
  BY <1>4, <1>5, <1>7, <1>8, Zenon DEF HexAt

\* The three forms of a unit, each with the code it stands for.
AsItIs(unit, code) ==
  /\ unit.form = "raw" /\ unit.code = code /\ IsCodePoint(code) /\ code # Backslash
WithLetter(unit, code) ==
  unit.form = "escape" /\ unit.code = code /\ code \in {Quote, Backslash, Slash, 8, 9, 10, 12, 13}
InHex(unit, code) == unit.form = "u" /\ unit.code = code /\ code \in Nat /\ code < 2^16

LEMMA UnitForms ==
  ASSUME NEW unit \in Units
  PROVE  \E code \in Nat : AsItIs(unit, code) \/ WithLetter(unit, code) \/ InHex(unit, code)
<1>1. Spellable(unit)
  BY UnitsAssumption, Zenon
<1>2. CASE unit.form = "raw"
  <2>1. unit.form # "escape" /\ unit.form # "u"
    BY <1>2
  <2>2. /\ unit.code \in Nat \ {Quote, Backslash} /\ unit.code < 17 * 2^16
    BY <1>1, <2>1, Zenon DEF Spellable
  <2>3. unit.code \in Nat /\ unit.code # Backslash
    BY <2>2, Zenon
  <2> QED
    BY <1>2, <2>2, <2>3, Zenon DEF AsItIs, IsCodePoint
<1>3. CASE unit.form = "escape"
  <2>1. unit.form # "raw" /\ unit.form # "u"
    BY <1>3
  <2>2. unit.code \in {Quote, Backslash, Slash, 8, 9, 10, 12, 13}
    BY <1>1, <2>1, Zenon DEF Spellable
  <2>3. \A c \in {Quote, Backslash, Slash, 8, 9, 10, 12, 13} : c \in Nat
    BY DEF Quote, Backslash, Slash
  <2> QED
    BY <1>3, <2>2, <2>3, Zenon DEF WithLetter
<1>4. CASE unit.form = "u"
  <2>1. unit.form # "raw" /\ unit.form # "escape"
    BY <1>4
  <2> QED
    BY <1>1, <1>4, <2>1, Zenon DEF Spellable, InHex
<1> QED
  BY <1>1, <1>2, <1>3, <1>4, Zenon DEF Spellable

\* Their bytes.
LEMMA RawIs ==
  ASSUME NEW unit, NEW code, AsItIs(unit, code)
  PROVE  RawOf(unit) = Utf8(code)
<1>1. unit.form = "raw" /\ unit.form # "escape" /\ unit.form # "u"
  BY DEF AsItIs
<1> QED
  BY <1>1, Zenon DEF RawOf, AsItIs

LEMMA LettersBack ==
  ASSUME NEW code \in {8, 9, 10, 12, 13}
  PROVE  /\ LetterOf[code] \in Nat /\ LetterOf[code] # LetterU
         /\ Unescaped(LetterOf[code]) = code
<1>1. PICK l \in Nat : l = LetterOf[code] /\ l # LetterU
  BY LettersAre DEF LetterU
<1>2. code \in DOMAIN LetterOf
  BY LettersAre
<1>3. \A c \in DOMAIN LetterOf : LetterOf[c] = l => c = code
  BY <1>1, LettersAre
<1>4. Unescaped(l) = code
  BY <1>1, <1>2, <1>3, Zenon DEF Unescaped
<1> QED
  BY <1>1, <1>4, Zenon

LEMMA LetterIs ==
  ASSUME NEW unit, NEW code, WithLetter(unit, code)
  PROVE  /\ code \in 0 .. 127
         /\ \E l \in Nat : /\ RawOf(unit) = <<Backslash, l>> /\ l # LetterU
                           /\ Unescaped(l) = code
<1>0. code \in {Quote, Backslash, Slash, 8, 9, 10, 12, 13} /\ unit.code = code
  BY Zenon DEF WithLetter
<1>a. unit.form = "escape" /\ unit.form # "raw" /\ unit.form # "u"
  BY DEF WithLetter
<1>1. code \in 0 .. 127
  BY <1>0 DEF Quote, Backslash, Slash
<1>2. CASE code \in {8, 9, 10, 12, 13}
  <2>1. unit.code \in DOMAIN LetterOf
    BY <1>0, <1>2, LettersAre
  <2>2. RawOf(unit) = <<Backslash, LetterOf[code]>>
    BY <1>0, <1>a, <2>1, Zenon DEF RawOf
  <2> QED
    BY <1>1, <1>2, <2>2, LettersBack, Zenon
<1>3. CASE code \in {Quote, Backslash, Slash}
  <2>1. unit.code \notin DOMAIN LetterOf
    BY <1>0, <1>3, LettersAre DEF Quote, Backslash, Slash
  <2>2. RawOf(unit) = <<Backslash, code>>
    BY <1>0, <1>a, <2>1, Zenon DEF RawOf
  <2>3. code \in Nat /\ code # LetterU /\ code \notin {98, 116, 110, 102, 114}
    BY <1>3 DEF Quote, Backslash, Slash, LetterU
  <2>4. Unescaped(code) = code
    BY <2>3, SpeltAsIs
  <2> QED
    BY <1>1, <2>2, <2>3, <2>4, Zenon
<1> QED
  BY <1>0, <1>2, <1>3, Zenon

LEMMA UnitBytes ==
  ASSUME NEW unit \in Units
  PROVE  RawOf(unit) \in Seq(Nat) /\ Len(RawOf(unit)) \in Nat
<1>1. PICK code \in Nat : AsItIs(unit, code) \/ WithLetter(unit, code) \/ InHex(unit, code)
  BY UnitForms, Zenon
<1>2. CASE AsItIs(unit, code)
  <2>1. IsCodePoint(code)
    BY <1>2, Zenon DEF AsItIs
  <2>2. Utf8(code) \in Seq(Nat)
    BY <2>1, Utf8Bytes, Zenon
  <2> QED
    BY <1>2, <2>2, RawIs, LenProperties
<1>3. CASE WithLetter(unit, code)
  <2>1. PICK l \in Nat : RawOf(unit) = <<Backslash, l>>
    BY <1>3, LetterIs, Zenon
  <2> QED
    BY <2>1 DEF Backslash
<1>4. CASE InHex(unit, code)
  <2>1. PICK a \in 0 .. 15, b \in 0 .. 15, c \in 0 .. 15, d \in 0 .. 15 :
          Escapes(unit, code, a, b, c, d)
    BY <1>4, EscapeIs, Zenon DEF InHex
  <2>2. HexDigit(a) \in Nat /\ HexDigit(b) \in Nat /\ HexDigit(c) \in Nat /\ HexDigit(d) \in Nat
    BY HexBack
  <2>3. RawOf(unit) = <<Backslash, LetterU, HexDigit(a), HexDigit(b), HexDigit(c), HexDigit(d)>>
    BY <2>1, Zenon DEF Escapes
  <2> QED
    BY <2>2, <2>3, SMT DEF Backslash, LetterU
<1> QED
  BY <1>1, <1>2, <1>3, <1>4, Zenon

\* From p on, the loop writes a code point and gets to q.
Writes(f, p, code, q) == f[p + 1] = Utf8(code) \o f[q + 1]

\* The unit follows the first p bytes, and q is where it ends.
Lies(unit, raw, p, q) ==
  /\ p \in Nat /\ HoldsAt(raw, p, RawOf(unit))
  /\ q = p + Len(RawOf(unit)) /\ q =< Len(raw)

LEMMA RawWritten ==
  ASSUME NEW unit, NEW code \in Nat, AsItIs(unit, code),
         NEW raw \in Seq(Nat), NEW f, DecodesBy(f, raw),
         NEW p, NEW q, Lies(unit, raw, p, q), f[q + 1] \in Seq(Nat)
  PROVE  Writes(f, p, code, q)
<1>1. RawOf(unit) = Utf8(code)
  BY RawIs, Zenon
<1>2. p \in Nat /\ HoldsAt(raw, p, Utf8(code)) /\ p + Len(Utf8(code)) =< Len(raw)
      /\ q = p + Len(Utf8(code))
  BY <1>1, Zenon DEF Lies
<1>3. f[p + Len(Utf8(code)) + 1] \in Seq(Nat)
  BY <1>2, Zenon
<1>4. IsCodePoint(code) /\ code # Backslash
  BY Zenon DEF AsItIs
<1>5. f[p + 1] = Utf8(code) \o f[p + Len(Utf8(code)) + 1]
  BY <1>2, <1>3, <1>4, PlainRun, Zenon
<1> QED
  BY <1>2, <1>5, Zenon DEF Writes

\* A step of the loop, by what it takes and puts.
LEMMA StepWrites ==
  ASSUME NEW raw \in Seq(Nat), NEW f, DecodesBy(f, raw), NEW p \in Nat, NEW w \in Nat \ {0},
         NEW code, NEW q, q = p + w, q =< Len(raw),
         DecodeAt(raw, p + 1) = Takes(w, Utf8(code))
  PROVE  Writes(f, p, code, q)
<1>0. PICK L \in Nat : L = Len(raw)
  BY LenProperties
<1>1. p + 1 \in 1 .. L /\ (p + 1) + w = q + 1
  BY <1>0
<1>2. DecodeAt(raw, p + 1).puts = Utf8(code) /\ DecodeAt(raw, p + 1).takes = w
  BY DEF Takes
<1>3. f[p + 1] = DecodeAt(raw, p + 1).puts \o f[(p + 1) + DecodeAt(raw, p + 1).takes]
  BY <1>0, <1>1, Zenon DEF DecodesBy
<1> QED
  BY <1>1, <1>2, <1>3, Zenon DEF Writes

LEMMA LetterWritten ==
  ASSUME NEW unit, NEW code \in Nat, WithLetter(unit, code),
         NEW raw \in Seq(Nat), NEW f, DecodesBy(f, raw),
         NEW p, NEW q, Lies(unit, raw, p, q)
  PROVE  Writes(f, p, code, q)
<1>1. PICK l \in Nat : RawOf(unit) = <<Backslash, l>> /\ l # LetterU /\ Unescaped(l) = code
  BY LetterIs, Zenon
<1>2. p \in Nat /\ HoldsAt(raw, p, <<Backslash, l>>)
      /\ q = p + Len(<<Backslash, l>>) /\ q =< Len(raw)
  BY <1>1, Zenon DEF Lies
<1>a. PICK L \in Nat : L = Len(raw)
  BY LenProperties
<1>3. q = p + 2 /\ raw[p + 1] = Backslash /\ raw[p + 2] = l
  BY <1>2, SMT DEF HoldsAt
<1>4. (p + 1) + 1 = p + 2 /\ p + 1 # L
  BY <1>2, <1>3, <1>a
<1>5. DecodeAt(raw, p + 1) = Takes(2, <<Unescaped(l)>>)
  BY <1>1, <1>3, <1>4, <1>a, Zenon DEF DecodeAt
<1>6. Utf8(code) = <<code>>
  BY LetterIs, Utf8One, Zenon
<1>7. DecodeAt(raw, p + 1) = Takes(2, Utf8(code))
  BY <1>1, <1>5, <1>6, Zenon
<1>8. 2 \in Nat \ {0}
  OBVIOUS
<1> QED
  BY <1>2, <1>3, <1>7, <1>8, StepWrites, Zenon

\* What the text holds where a \u escape is.
Held(raw, p, q, code) == p \in Nat /\ q = p + 6 /\ q =< Len(raw) /\ HexAt(raw, p, code)

LEMMA HexHeld ==
  ASSUME NEW unit, NEW code \in Nat, InHex(unit, code), NEW raw, NEW p, NEW q, Lies(unit, raw, p, q)
  PROVE  Held(raw, p, q, code)
<1>1. unit.form = "u" /\ unit.code = code /\ code < 2^16
  BY Zenon DEF InHex
<1>2. p \in Nat /\ HoldsAt(raw, p, RawOf(unit)) /\ q = p + Len(RawOf(unit)) /\ q =< Len(raw)
  BY Zenon DEF Lies
<1>3. /\ Len(RawOf(unit)) = 6
      /\ HexAt(raw, p, code)
  BY <1>1, <1>2, EscapeHeld, Zenon
<1> QED
  BY <1>2, <1>3, Zenon DEF Held

LEMMA HexWritten ==
  ASSUME NEW unit, NEW code \in Nat, InHex(unit, code),
         NEW raw \in Seq(Nat), NEW f, DecodesBy(f, raw),
         NEW p, NEW q, Lies(unit, raw, p, q), ~PairsUp(raw, p + 1)
  PROVE  Writes(f, p, code, q)
<1>b. Held(raw, p, q, code)
  BY HexHeld, Zenon
<1>1. /\ p \in Nat /\ q = p + 6 /\ q =< Len(raw)
      /\ raw[p + 1] = Backslash /\ raw[p + 2] = LetterU /\ Hex4(raw, p + 3) = code
  BY <1>b, Zenon DEF Held, HexAt
<1>a. PICK L \in Nat : L = Len(raw)
  BY LenProperties
<1>2. (p + 1) + 1 = p + 2 /\ (p + 1) + 2 = p + 3 /\ p + 1 # L
  BY <1>1, <1>a
<1>3. DecodeAt(raw, p + 1) = Takes(6, Utf8(code))
  BY <1>1, <1>2, <1>a, Zenon DEF DecodeAt
<1>4. 6 \in Nat \ {0}
  OBVIOUS
<1> QED
  BY <1>1, <1>3, <1>4, StepWrites, Zenon

LEMMA PairWritten ==
  ASSUME NEW unit, NEW code \in Nat, InHex(unit, code),
         NEW next, NEW low \in Nat, InHex(next, low),
         NEW raw \in Seq(Nat), NEW f, DecodesBy(f, raw),
         NEW p, NEW q, NEW r, Lies(unit, raw, p, q), Lies(next, raw, q, r), PairsUp(raw, p + 1)
  PROVE  Writes(f, p, Joined(code, low), r)
<1>b. Held(raw, p, q, code)
  BY HexHeld, Zenon
<1>1. /\ p \in Nat /\ q = p + 6
      /\ raw[p + 1] = Backslash /\ raw[p + 2] = LetterU /\ Hex4(raw, p + 3) = code
  BY <1>b, Zenon DEF Held, HexAt
<1>c. Held(raw, q, r, low)
  BY HexHeld, Zenon
<1>2. r = q + 6 /\ r =< Len(raw) /\ Hex4(raw, q + 3) = low
  BY <1>c, Zenon DEF Held, HexAt
<1>a. PICK L \in Nat : L = Len(raw)
  BY LenProperties
<1>3. (p + 1) + 1 = p + 2 /\ (p + 1) + 2 = p + 3 /\ p + 1 # L /\ (p + 1) + 8 = q + 3 /\ r = p + 12
  BY <1>1, <1>2, <1>a
<1>4. DecodeAt(raw, p + 1) = Takes(12, Utf8(Joined(code, low)))
  BY <1>1, <1>2, <1>3, <1>a, Zenon DEF DecodeAt
<1>5. 12 \in Nat \ {0}
  OBVIOUS
<1> QED
  BY <1>1, <1>2, <1>3, <1>4, <1>5, StepWrites, Zenon

\* Whether the text pairs two escapes, by the units.
LEMMA PairsByUnits ==
  ASSUME NEW unit, NEW code \in Nat, InHex(unit, code),
         NEW next \in Units,
         NEW raw \in Seq(Nat),
         NEW p, NEW q, NEW r, Lies(unit, raw, p, q), Lies(next, raw, q, r)
  PROVE  PairsUp(raw, p + 1) <=> High(code) /\ next.form = "u" /\ Low(next.code)
<1>b. Held(raw, p, q, code)
  BY HexHeld, Zenon
<1>1. /\ p \in Nat /\ q = p + 6 /\ Hex4(raw, p + 3) = code
  BY <1>b, Zenon DEF Held, HexAt
<1>a. PICK L \in Nat : L = Len(raw)
  BY LenProperties
<1>2. (p + 1) + 2 = p + 3 /\ (p + 1) + 6 = q + 1 /\ (p + 1) + 7 = q + 2 /\ (p + 1) + 8 = q + 3
      /\ (p + 1) + 11 = q + 6
  BY <1>1
<1>3. PairsUp(raw, p + 1) <=>
        High(code) /\ q + 6 =< L /\ raw[q + 1] = Backslash /\ raw[q + 2] = LetterU
        /\ Low(Hex4(raw, q + 3))
  BY <1>1, <1>2, <1>a, Zenon DEF PairsUp
<1>4. PICK c \in Nat : AsItIs(next, c) \/ WithLetter(next, c) \/ InHex(next, c)
  BY UnitForms, Zenon
<1>5. CASE AsItIs(next, c)
  <2>1. next.form # "u"
    BY <1>5 DEF AsItIs
  <2>2. IsCodePoint(c) /\ c # Backslash /\ RawOf(next) = Utf8(c)
    BY <1>5, RawIs, Zenon DEF AsItIs
  <2>3. Len(Utf8(c)) \in 1 .. 4 /\ \A j \in 1 .. Len(Utf8(c)) : Utf8(c)[j] # Backslash
    BY <2>2, Utf8Bytes, Zenon
  <2>4. 1 \in 1 .. Len(Utf8(c))
    <3>1. PICK w \in 1 .. 4 : w = Len(Utf8(c))
      BY <2>3, Zenon
    <3>2. 1 \in 1 .. w
      OBVIOUS
    <3> QED
      BY <3>1, <3>2, Zenon
  <2>5. HoldsAt(raw, q, Utf8(c))
    BY <2>2, Zenon DEF Lies
  <2>6. raw[q + 1] # Backslash
    BY <2>3, <2>4, <2>5, Zenon DEF HoldsAt
  <2> QED
    BY <1>3, <2>1, <2>6, Zenon
<1>6. CASE WithLetter(next, c)
  <2>1. next.form # "u"
    BY <1>6 DEF WithLetter
  <2>2. PICK l \in Nat : RawOf(next) = <<Backslash, l>> /\ l # LetterU
    BY <1>6, LetterIs, Zenon
  <2>3. HoldsAt(raw, q, <<Backslash, l>>)
    BY <2>2, Zenon DEF Lies
  <2>4. raw[q + 2] = l
    BY <2>3, SMT DEF HoldsAt
  <2> QED
    BY <1>3, <2>1, <2>2, <2>4, Zenon
<1>7. CASE InHex(next, c)
  <2>a. Held(raw, q, r, c)
    BY <1>7, HexHeld, Zenon
  <2>1. /\ r = q + 6 /\ r =< Len(raw)
        /\ raw[q + 1] = Backslash /\ raw[q + 2] = LetterU /\ Hex4(raw, q + 3) = c
    BY <2>a, Zenon DEF Held, HexAt
  <2>2. next.form = "u" /\ next.code = c
    BY <1>7, Zenon DEF InHex
  <2> QED
    BY <1>3, <1>a, <2>1, <2>2, Zenon
<1> QED
  BY <1>4, <1>5, <1>6, <1>7, Zenon

\* The loop of CodePoints.
PointsBy(g, key) ==
  /\ CodePoints(key) = g[1]
  /\ \A k \in 1 .. Len(key) :
       g[k] = CodePointAt(key, k).puts \o g[k + CodePointAt(key, k).takes]
  /\ \A k \in Nat : k \notin 1 .. Len(key) => g[k] = << >>

LEMMA PointLoop ==
  ASSUME NEW key \in Seq(Units)
  PROVE  \E g : PointsBy(g, key)
<1>a. PICK L : L = Len(key)
  OBVIOUS
<1>b. L \in Nat /\ DOMAIN key = 1 .. L
  BY <1>a, LenProperties
<1> DEFINE t == [k \in 1 .. L |-> CodePointAt(key, k).takes]
           o == [k \in 1 .. L |-> CodePointAt(key, k).puts]
           Body(f, k) == IF k \in DOMAIN key
                         THEN CodePointAt(key, k).puts \o f[k + CodePointAt(key, k).takes]
                         ELSE << >>
           g == Loop(L, t, o)
           h == CHOOSE f : f = [k \in Nat |-> Body(f, k)]
<1>1. t \in [1 .. L -> Nat \ {0}]
  BY DEF CodePointAt, Takes
<1>2. \A k \in 1 .. L : t[k] = CodePointAt(key, k).takes /\ o[k] = CodePointAt(key, k).puts
  BY Zenon
<1> HIDE DEF t, o
<1>3. /\ \A k \in 1 .. L : g[k] = o[k] \o g[k + t[k]]
      /\ \A k \in Nat : k \notin 1 .. L => g[k] = << >>
      /\ g = [k \in Nat |-> g[k]]
  BY <1>1, <1>b, LoopSteps, Zenon
<1> HIDE DEF g
<1>4. \A k \in Nat : g[k] = Body(g, k)
  BY <1>2, <1>3, <1>b, Zenon
<1>5. g = [k \in Nat |-> Body(g, k)]
  BY <1>3, <1>4, Zenon
<1>6. h = [k \in Nat |-> Body(h, k)]
  BY <1>5, Zenon
<1>7. CodePoints(key) = h[1]
  BY Zenon DEF CodePoints, Scan
<1> HIDE DEF h
<1>8. \A k \in 1 .. L : k \in Nat
  OBVIOUS
<1>9. \A k \in 1 .. L : h[k] = CodePointAt(key, k).puts \o h[k + CodePointAt(key, k).takes]
  BY <1>6, <1>8, <1>b, Zenon
<1>10. \A k \in Nat : k \notin 1 .. L => h[k] = << >>
  BY <1>6, <1>b, Zenon
<1> QED
  BY <1>7, <1>9, <1>10, <1>a, Zenon DEF PointsBy

\* Where the units lie in the text.
Laid(key, raw, at) ==
  /\ at \in [0 .. Len(key) -> Nat] /\ at[0] = 0 /\ at[Len(key)] = Len(raw)
  /\ \A n \in Nat : n + 1 =< Len(key) => Lies(key[n + 1], raw, at[n], at[n + 1])

LEMMA SpelledLaid ==
  ASSUME NEW key \in Seq(Units)
  PROVE  Spelled(key) \in Seq(Nat) /\ \E at : Laid(key, Spelled(key), at)
<1> DEFINE N == Len(key)
           ss == [k \in 1 .. N |-> RawOf(key[k])]
<1>0. N \in Nat /\ DOMAIN key = 1 .. N /\ \A k \in 1 .. N : key[k] \in Units
  BY LenProperties, ElementOfSeq
<1>1. \A k \in 1 .. N : RawOf(key[k]) \in Seq(Nat)
  BY <1>0, UnitBytes, Zenon
<1>2. ss \in Seq(Seq(Nat)) /\ Len(ss) = N /\ \A k \in 1 .. N : ss[k] = RawOf(key[k])
  BY <1>0, <1>1
<1>3. PICK raw : raw = FlattenSeq(ss)
  OBVIOUS
<1>4. Spelled(key) = raw
  BY <1>0, <1>3, Zenon DEF Spelled
<1> HIDE DEF ss
<1>5. raw \in Seq(Nat) /\ \E at : Cuts(at, ss, raw)
  BY <1>2, <1>3, FlattenPieces
<1>6. PICK at : Cuts(at, ss, raw)
  BY <1>5
<1>7. /\ at \in [0 .. N -> Nat] /\ at[0] = 0 /\ at[N] = Len(raw)
      /\ \A n \in Nat : n + 1 =< N =>
           /\ at[n + 1] = at[n] + Len(ss[n + 1])
           /\ at[n + 1] =< Len(raw)
           /\ \A j \in 1 .. Len(ss[n + 1]) : raw[at[n] + j] = ss[n + 1][j]
  BY <1>2, <1>6, Zenon DEF Cuts
<1>8. ASSUME NEW n \in Nat, n + 1 =< N PROVE Lies(key[n + 1], raw, at[n], at[n + 1])
  <2>1. n + 1 \in 1 .. N /\ n \in 0 .. N
    BY <1>0, <1>8
  <2>2. ss[n + 1] = RawOf(key[n + 1])
    BY <1>2, <2>1, Zenon
  <2>3. at[n] \in Nat
    BY <1>7, <2>1
  <2>4. HoldsAt(raw, at[n], RawOf(key[n + 1]))
    BY <1>7, <1>8, <2>2, Zenon DEF HoldsAt
  <2>5. at[n + 1] = at[n] + Len(RawOf(key[n + 1])) /\ at[n + 1] =< Len(raw)
    BY <1>7, <1>8, <2>2, Zenon
  <2> QED
    BY <2>3, <2>4, <2>5, Zenon DEF Lies
<1>9. Laid(key, raw, at)
  BY <1>7, <1>8, Zenon DEF Laid
<1> QED
  BY <1>4, <1>5, <1>9, Zenon

LEMMA JoinedIs ==
  ASSUME NEW hi \in Nat, NEW lo \in Nat, High(hi), Low(lo)
  PROVE  Joined(hi, lo) \in Nat /\ IsCodePoint(Joined(hi, lo))
BY SMT DEF High, Low, Joined, IsCodePoint

LEMMA SmallIs ==
  ASSUME NEW code \in Nat, code < 2^16 \/ code \in 0 .. 127
  PROVE  IsCodePoint(code)
BY SMT DEF IsCodePoint

\* No escape at the end of the text is the first half of a pair.
LEMMA LastIsAlone ==
  ASSUME NEW unit, NEW code \in Nat, InHex(unit, code), NEW raw \in Seq(Nat),
         NEW p, NEW q, Lies(unit, raw, p, q), q = Len(raw)
  PROVE  ~PairsUp(raw, p + 1)
<1>1. Held(raw, p, q, code)
  BY HexHeld, Zenon
<1>2. p \in Nat /\ q = p + 6
  BY <1>1, Zenon DEF Held
<1>3. PICK L \in Nat : L = Len(raw)
  BY LenProperties
<1>4. ~((p + 1) + 11 =< L)
  <2>1. L = p + 6 /\ p \in Nat
    BY <1>2, <1>3, Zenon
  <2> QED
    BY <2>1
<1> QED
  BY <1>3, <1>4, Zenon DEF PairsUp

\* A code point of the key, and the step of decode_key() that writes it.
PointAt(key, n, cp, w) ==
  IsCodePoint(cp) /\ CodePointAt(key, n + 1) = Takes(w, <<cp>>) /\ n + w =< Len(key)

LEMMA PairStep ==
  ASSUME NEW key \in Seq(Units), NEW raw \in Seq(Nat), NEW at, Laid(key, raw, at),
         NEW f, DecodesBy(f, raw), NEW n \in Nat, n + 1 =< Len(key), PairStarts(key, n + 1)
  PROVE  \E cp \in Nat : PointAt(key, n, cp, 2) /\ Writes(f, at[n], cp, at[n + 2])
<1>0. PICK L \in Nat : L = Len(key)
  BY LenProperties
<1>1. n + 1 < L /\ key[n + 1].form = "u" /\ High(key[n + 1].code)
      /\ key[(n + 1) + 1].form = "u" /\ Low(key[(n + 1) + 1].code)
  BY <1>0, Zenon DEF PairStarts
<1>2. n + 1 \in Nat /\ (n + 1) + 1 =< L /\ (n + 1) + 1 = n + 2 /\ n + 1 \in 1 .. L /\ n + 2 \in 1 .. L
  BY <1>0, <1>1
<1>3. PICK unit \in Units : unit = key[n + 1]
  BY <1>0, <1>2, ElementOfSeq
<1>4. PICK next \in Units : next = key[n + 2]
  BY <1>0, <1>2, ElementOfSeq
<1>5. unit.form = "u" /\ next.form = "u"
  BY <1>1, <1>2, <1>3, <1>4, Zenon
<1>6. PICK code \in Nat : InHex(unit, code)
  <2>1. PICK c \in Nat : AsItIs(unit, c) \/ WithLetter(unit, c) \/ InHex(unit, c)
    BY UnitForms, Zenon
  <2>2. ~AsItIs(unit, c) /\ ~WithLetter(unit, c)
    BY <1>5 DEF AsItIs, WithLetter
  <2> QED
    BY <2>1, <2>2, Zenon
<1>7. PICK low \in Nat : InHex(next, low)
  <2>1. PICK c \in Nat : AsItIs(next, c) \/ WithLetter(next, c) \/ InHex(next, c)
    BY UnitForms, Zenon
  <2>2. ~AsItIs(next, c) /\ ~WithLetter(next, c)
    BY <1>5 DEF AsItIs, WithLetter
  <2> QED
    BY <2>1, <2>2, Zenon
<1>8. unit.code = code /\ next.code = low
  BY <1>6, <1>7, Zenon DEF InHex
<1>9. High(code) /\ Low(low)
  BY <1>1, <1>2, <1>3, <1>4, <1>8, Zenon
<1>10. PICK p, q, r : p = at[n] /\ q = at[n + 1] /\ r = at[n + 2]
  BY Zenon
<1>11. Lies(unit, raw, p, q) /\ Lies(next, raw, q, r)
  <2>1. Lies(key[n + 1], raw, at[n], at[n + 1])
    BY Zenon DEF Laid
  <2>2. Lies(key[(n + 1) + 1], raw, at[n + 1], at[(n + 1) + 1])
    BY <1>0, <1>2, Zenon DEF Laid
  <2> QED
    BY <1>2, <1>3, <1>4, <1>10, <2>1, <2>2, Zenon
<1>12. PairsUp(raw, p + 1)
  BY <1>5, <1>6, <1>8, <1>9, <1>11, PairsByUnits, Zenon
<1>13. Writes(f, p, Joined(code, low), r)
  BY <1>6, <1>7, <1>11, <1>12, PairWritten, Zenon
<1>14. PICK cp \in Nat : cp = Joined(code, low) /\ IsCodePoint(cp)
  BY <1>9, JoinedIs, Zenon
<1>15. CodePointAt(key, n + 1) = Takes(2, <<cp>>)
  BY <1>2, <1>3, <1>4, <1>8, <1>14, Zenon DEF CodePointAt
<1>16. n + 2 =< Len(key)
  BY <1>0, <1>2
<1>17. PointAt(key, n, cp, 2)
  BY <1>14, <1>15, <1>16, Zenon DEF PointAt
<1> QED
  BY <1>10, <1>13, <1>14, <1>17, Zenon

LEMMA SingleStep ==
  ASSUME NEW key \in Seq(Units), NEW raw \in Seq(Nat), NEW at, Laid(key, raw, at),
         NEW f, DecodesBy(f, raw), NEW n \in Nat, n + 1 =< Len(key), ~PairStarts(key, n + 1),
         f[at[n + 1] + 1] \in Seq(Nat)
  PROVE  \E cp \in Nat : PointAt(key, n, cp, 1) /\ Writes(f, at[n], cp, at[n + 1])
<1>0. PICK L \in Nat : L = Len(key)
  BY LenProperties
<1>1. n + 1 \in 1 .. L
  BY <1>0
<1>2. PICK unit \in Units : unit = key[n + 1]
  BY <1>0, <1>1, ElementOfSeq
<1>3. PICK code \in Nat : AsItIs(unit, code) \/ WithLetter(unit, code) \/ InHex(unit, code)
  BY UnitForms, Zenon
<1>4. PICK p, q : p = at[n] /\ q = at[n + 1]
  BY Zenon
<1>5. Lies(unit, raw, p, q)
  <2>1. Lies(key[n + 1], raw, at[n], at[n + 1])
    BY Zenon DEF Laid
  <2> QED
    BY <1>2, <1>4, <2>1, Zenon
<1>6. unit.code = code
  BY <1>3, Zenon DEF AsItIs, WithLetter, InHex
<1>7. CodePointAt(key, n + 1) = Takes(1, <<code>>)
  BY <1>2, <1>6, Zenon DEF CodePointAt
<1>8. IsCodePoint(code) /\ Writes(f, p, code, q)
  <2>1. CASE AsItIs(unit, code)
    <3>1. f[q + 1] \in Seq(Nat)
      BY <1>4, Zenon
    <3> QED
      BY <1>5, <2>1, <3>1, RawWritten, Zenon DEF AsItIs
  <2>2. CASE WithLetter(unit, code)
    <3>1. code \in 0 .. 127
      BY <2>2, LetterIs, Zenon
    <3> QED
      BY <1>5, <2>2, <3>1, SmallIs, LetterWritten, Zenon
  <2>3. CASE InHex(unit, code)
    <3>1. ~PairsUp(raw, p + 1)
      <4>1. CASE n + 1 = L
        <5>1. q = Len(raw)
          BY <1>0, <1>4, <4>1, Zenon DEF Laid
        <5> QED
          BY <1>5, <2>3, <5>1, LastIsAlone, Zenon
      <4>2. CASE n + 1 # L
        <5>1. /\ n + 1 < L /\ (n + 1) + 1 =< L /\ n + 1 \in Nat
              /\ (n + 1) + 1 \in 1 .. L
          BY <1>0, <1>1, <4>2
        <5>2. PICK next \in Units : next = key[(n + 1) + 1]
          BY <1>0, <5>1, ElementOfSeq
        <5>3. PICK r : r = at[(n + 1) + 1]
          BY Zenon
        <5>4. Lies(next, raw, q, r)
          <6>1. Lies(key[(n + 1) + 1], raw, at[n + 1], at[(n + 1) + 1])
            BY <1>0, <5>1, Zenon DEF Laid
          <6> QED
            BY <1>4, <5>2, <5>3, <6>1, Zenon
        <5>5. ~(High(code) /\ next.form = "u" /\ Low(next.code))
          <6>1. unit.form = "u"
            BY <2>3, Zenon DEF InHex
          <6> QED
            BY <1>0, <1>2, <1>6, <5>1, <5>2, <6>1, Zenon DEF PairStarts
        <5> QED
          BY <1>5, <2>3, <5>4, <5>5, PairsByUnits, Zenon
      <4> QED
        BY <4>1, <4>2
    <3>2. code < 2^16
      BY <2>3, Zenon DEF InHex
    <3> QED
      BY <1>5, <2>3, <3>1, <3>2, SmallIs, HexWritten, Zenon
  <2> QED
    BY <1>3, <2>1, <2>2, <2>3, Zenon
<1>9. PointAt(key, n, code, 1)
  BY <1>7, <1>8, Zenon DEF PointAt
<1> QED
  BY <1>4, <1>8, <1>9, Zenon

\* Texts of code points.
IsText(cps) == cps \in Seq(Nat) /\ \A k \in 1 .. Len(cps) : IsCodePoint(cps[k])

LEMMA TextEmpty ==
  IsText(<< >>) /\ InUtf8(<< >>) = << >>
<1>1. << >> \in Seq(Nat) /\ Len(<< >>) = 0 /\ DOMAIN << >> = {}
  OBVIOUS
<1>2. \A k \in 1 .. 0 : FALSE
  OBVIOUS
<1>3. IsText(<< >>)
  BY <1>1, <1>2, Zenon DEF IsText
<1>4. PICK ss : ss = [k \in {} |-> Utf8(<< >>[k])]
  BY Zenon
<1>5. InUtf8(<< >>) = FlattenSeq(ss)
  BY <1>1, <1>4, Zenon DEF InUtf8
<1>6. ss = << >>
  BY <1>4
<1>7. FlattenSeq(<< >>) = << >>
  BY DEF FlattenSeq
<1> QED
  BY <1>3, <1>5, <1>6, <1>7, Zenon

LEMMA TextCons ==
  ASSUME NEW cps, IsText(cps), NEW cp \in Nat, IsCodePoint(cp)
  PROVE  IsText(<<cp>> \o cps) /\ InUtf8(<<cp>> \o cps) = Utf8(cp) \o InUtf8(cps)
<1> DEFINE N == Len(cps)
           ss == [k \in 1 .. N |-> Utf8(cps[k])]
<1>0. cps \in Seq(Nat) /\ N \in Nat /\ DOMAIN cps = 1 .. N
      /\ \A k \in 1 .. N : cps[k] \in Nat /\ IsCodePoint(cps[k])
  BY LenProperties, ElementOfSeq DEF IsText
<1>a. <<cp>> \in Seq(Nat) /\ Len(<<cp>>) = 1 /\ <<cp>>[1] = cp
  OBVIOUS
<1>b. PICK v \in Seq(Nat) : v = <<cp>> /\ Len(v) = 1 /\ v[1] = cp
  BY <1>a, Zenon
<1>1. PICK z : z = v \o cps
  BY Zenon
<1>2. /\ z \in Seq(Nat)
      /\ Len(z) = Len(v) + Len(cps)
      /\ \A i \in 1 .. Len(v) + Len(cps) : z[i] = IF i <= Len(v) THEN v[i] ELSE cps[i - Len(v)]
  BY <1>0, <1>1, ConcatProperties, Zenon
<1>c. <<cp>> \o cps = z
  BY <1>b, <1>1, Zenon
<1> HIDE <1>1, <1>c
<1>3. Len(z) = N + 1 /\ DOMAIN z = 1 .. N + 1 /\ z[1] = cp
      /\ \A i \in 1 .. N : z[i + 1] = cps[i]
  <2>1. Len(z) = N + 1
    BY <1>0, <1>b, <1>2
  <2>2. DOMAIN z = 1 .. N + 1
    BY <1>2, <2>1, LenProperties
  <2>3. z[1] = cp
    BY <1>0, <1>b, <1>2
  <2>4. ASSUME NEW i \in 1 .. N PROVE z[i + 1] = cps[i]
    <3>1. PICK j : j = i + 1
      BY Zenon
    <3>2. j \in 1 .. Len(v) + Len(cps) /\ ~(j <= Len(v)) /\ j - Len(v) = i
      BY <1>0, <1>b, <3>1
    <3>3. z[j] = cps[j - Len(v)]
      BY <1>2, <3>2, Zenon
    <3> QED
      BY <3>1, <3>2, <3>3, Zenon
  <2> QED
    BY <2>1, <2>2, <2>3, <2>4, Zenon
<1>4. ASSUME NEW k \in 1 .. N + 1 PROVE IsCodePoint(z[k])
  <2>1. CASE k = 1
    BY <1>3, <2>1, Zenon
  <2>2. CASE k # 1
    <3>1. PICK i \in 1 .. N : k = i + 1
      BY <1>0, <2>2
    <3> QED
      BY <1>0, <1>3, <3>1, Zenon
  <2> QED
    BY <2>1, <2>2
<1>5. IsText(z)
  BY <1>2, <1>3, <1>4, Zenon DEF IsText
<1>6. ss \in Seq(Seq(Nat)) /\ Len(ss) = N /\ \A k \in 1 .. N : ss[k] = Utf8(cps[k])
  <2>1. \A k \in 1 .. N : Utf8(cps[k]) \in Seq(Nat)
    BY <1>0, Utf8Bytes, Zenon
  <2> QED
    BY <1>0, <2>1
<1>7. InUtf8(cps) = FlattenSeq(ss)
  BY <1>0, Zenon DEF InUtf8
<1>8. PICK x \in Seq(Nat) : x = Utf8(cp)
  BY Utf8Bytes, Zenon
<1> DEFINE tt == [k \in 1 .. N + 1 |-> Utf8(z[k])]
<1>9. InUtf8(z) = FlattenSeq(tt)
  BY <1>3, Zenon DEF InUtf8
<1> HIDE DEF ss
<1>10. tt = <<x>> \o ss
  <2>1. <<x>> \in Seq(Seq(Nat)) /\ Len(<<x>>) = 1 /\ <<x>>[1] = x
    OBVIOUS
  <2>2. PICK u \in Seq(Seq(Nat)) : u = <<x>> /\ Len(u) = 1 /\ u[1] = x
    BY <2>1, Zenon
  <2>3. PICK y : y = u \o ss
    BY Zenon
  <2>4. /\ y \in Seq(Seq(Nat))
        /\ Len(y) = Len(u) + Len(ss)
        /\ \A i \in 1 .. Len(u) + Len(ss) : y[i] = IF i <= Len(u) THEN u[i] ELSE ss[i - Len(u)]
    <3>1. PICK T : T = Seq(Nat)
      BY Zenon
    <3>2. PICK w \in Seq(T) : w = ss
      BY <1>6, <3>1, Zenon
    <3>3. u \in Seq(T)
      BY <3>1, Zenon
    <3>4. /\ u \o w \in Seq(T)
          /\ Len(u \o w) = Len(u) + Len(w)
          /\ \A i \in 1 .. Len(u) + Len(w) : (u \o w)[i] = IF i <= Len(u) THEN u[i] ELSE w[i - Len(u)]
      BY <3>3, ConcatProperties, Zenon
    <3> QED
      BY <2>3, <3>1, <3>2, <3>4, Zenon
  <2>a. <<x>> \o ss = y
    BY <2>2, <2>3, Zenon
  <2> HIDE <2>3, <2>a
  <2>5. Len(y) = N + 1
    BY <1>0, <1>6, <2>2, <2>4
  <2>6. \A k \in 1 .. N + 1 : Utf8(z[k]) \in Seq(Nat)
    <3>1. \A k \in 1 .. N + 1 : z[k] \in Nat
      BY <1>4, Zenon DEF IsCodePoint
    <3> QED
      BY <1>4, <3>1, Utf8Bytes, Zenon
  <2>7. tt \in Seq(Seq(Nat)) /\ Len(tt) = N + 1 /\ \A k \in 1 .. N + 1 : tt[k] = Utf8(z[k])
    BY <1>0, <2>6
  <2> HIDE DEF tt
  <2>8. ASSUME NEW k \in 1 .. N + 1 PROVE tt[k] = y[k]
    <3>1. CASE k = 1
      <4>1. y[k] = x
        BY <1>0, <1>6, <2>2, <2>4, <3>1
      <4>2. tt[k] = Utf8(cp)
        BY <1>3, <2>7, <3>1, Zenon
      <4> QED
        BY <1>8, <4>1, <4>2, Zenon
    <3>2. CASE k # 1
      <4>1. PICK i \in 1 .. N : k = i + 1 /\ ~(k <= 1) /\ k - 1 = i
        BY <1>0, <3>2
      <4>2. k \in 1 .. Len(u) + Len(ss) /\ ~(k <= Len(u)) /\ k - Len(u) = i
        BY <1>0, <1>6, <2>2, <4>1
      <4>3. y[k] = ss[k - Len(u)]
        BY <2>4, <4>2, Zenon
      <4>4. y[k] = ss[i]
        BY <4>2, <4>3, Zenon
      <4>5. tt[k] = Utf8(cps[i])
        BY <1>3, <2>7, <4>1, Zenon
      <4> QED
        BY <1>6, <4>4, <4>5, Zenon
    <3> QED
      BY <3>1, <3>2
  <2>9. tt = y
    BY <2>4, <2>5, <2>7, <2>8, SeqEqual
  <2> QED
    BY <2>9, <2>a, Zenon
<1> HIDE DEF tt
<1>11. FlattenSeq(<<x>> \o ss) = x \o FlattenSeq(ss)
  BY <1>6, FlattenCons
<1>12. InUtf8(z) = Utf8(cp) \o InUtf8(cps)
  BY <1>7, <1>8, <1>9, <1>10, <1>11, Zenon
<1> QED
  BY <1>c, <1>5, <1>12, Zenon

\* What is left to decode after p bytes is what is left of the code points after n units.
SameText(f, p, g, n) == IsText(g[n + 1]) /\ f[p + 1] = InUtf8(g[n + 1])

\* One step of the two loops, over the same unit or pair.
LEMMA TextStep ==
  ASSUME NEW key \in Seq(Units), NEW g, PointsBy(g, key), NEW f, NEW p, NEW q,
         NEW n \in Nat, n + 1 =< Len(key), NEW w \in {1, 2}, NEW cp \in Nat,
         PointAt(key, n, cp, w), Writes(f, p, cp, q),
         SameText(f, q, g, n + w)
  PROVE  SameText(f, p, g, n)
<1>0. PICK L \in Nat : L = Len(key)
  BY LenProperties
<1>1. n + 1 \in 1 .. L /\ (n + 1) + w = (n + w) + 1
  BY <1>0
<1>2. PICK cps : cps = g[(n + w) + 1]
  BY Zenon
<1>3. IsCodePoint(cp) /\ CodePointAt(key, n + 1) = Takes(w, <<cp>>)
  BY Zenon DEF PointAt
<1>4. CodePointAt(key, n + 1).puts = <<cp>> /\ CodePointAt(key, n + 1).takes = w
  BY <1>3 DEF Takes
<1>5. g[n + 1] = CodePointAt(key, n + 1).puts \o g[(n + 1) + CodePointAt(key, n + 1).takes]
  BY <1>0, <1>1, Zenon DEF PointsBy
<1>6. g[n + 1] = <<cp>> \o cps
  BY <1>1, <1>2, <1>4, <1>5, Zenon
<1>7. IsText(cps) /\ f[q + 1] = InUtf8(cps)
  BY <1>2, Zenon DEF SameText
<1>8. IsText(<<cp>> \o cps) /\ InUtf8(<<cp>> \o cps) = Utf8(cp) \o InUtf8(cps)
  BY <1>3, <1>7, TextCons, Zenon
<1> QED
  BY <1>6, <1>7, <1>8, Zenon DEF Writes, SameText

\* A key as the loop decodes it is its code points in UTF-8, whatever spells it.
LEMMA DecodedIsText ==
  ASSUME NEW key \in Seq(Units)
  PROVE  IsText(CodePoints(key)) /\ Decoded(key) = InUtf8(CodePoints(key))
<1>0. PICK N \in Nat : N = Len(key)
  BY LenProperties
<1>a. PICK raw \in Seq(Nat) : raw = Spelled(key)
  BY SpelledLaid, Zenon
<1>1. PICK at : raw = Spelled(key) /\ Laid(key, raw, at)
  BY <1>a, SpelledLaid, Zenon
<1>2. PICK f : DecodesBy(f, raw)
  BY DecodeLoop, Zenon
<1>3. PICK g : PointsBy(g, key)
  BY PointLoop, Zenon
<1>4. PICK L \in Nat : L = Len(raw)
  BY LenProperties
<1> DEFINE Good(n) == SameText(f, at[n], g, n)
           S == {d \in Nat : \A n \in 0 .. N : N =< n + d => Good(n)}
<1>5. Good(N)
  <2>1. N + 1 \in Nat /\ N + 1 \notin 1 .. N /\ L + 1 \in Nat /\ L + 1 \notin 1 .. L
    OBVIOUS
  <2>2. g[N + 1] = << >>
    BY <1>0, <1>3, <2>1, Zenon DEF PointsBy
  <2>3. f[L + 1] = << >>
    BY <1>2, <1>4, <2>1, Zenon DEF DecodesBy
  <2>4. at[N] = L
    BY <1>0, <1>1, <1>4, Zenon DEF Laid
  <2> QED
    BY <2>2, <2>3, <2>4, TextEmpty, Zenon DEF SameText
<1>6. ASSUME NEW n \in Nat, n + 1 =< N, \A m \in 0 .. N : n + 1 =< m => Good(m) PROVE Good(n)
  <2>1. n + 1 \in 0 .. N /\ n + 1 =< n + 1 /\ n + 1 =< n + 2
    BY <1>6
  <2>2. Good(n + 1)
    BY <1>6, <2>1, Zenon
  <2>3. CASE PairStarts(key, n + 1)
    <3>1. PICK cp \in Nat : PointAt(key, n, cp, 2) /\ Writes(f, at[n], cp, at[n + 2])
      BY <1>0, <1>1, <1>2, <1>6, <2>3, PairStep, Zenon
    <3>2. n + 2 =< N
      BY <1>0, <3>1, Zenon DEF PointAt
    <3>3. n + 2 \in 0 .. N
      BY <3>2
    <3>4. Good(n + 2)
      BY <1>6, <2>1, <3>3, Zenon
    <3>5. 2 \in {1, 2}
      OBVIOUS
    <3> QED
      BY <1>0, <1>3, <1>6, <3>1, <3>4, <3>5, TextStep, Zenon
  <2>4. CASE ~PairStarts(key, n + 1)
    <3>1. PICK cps : cps = g[(n + 1) + 1]
      BY Zenon
    <3>2. cps \in Seq(Nat) /\ \A k \in 1 .. Len(cps) : IsCodePoint(cps[k])
      BY <2>2, <3>1, Zenon DEF SameText, IsText
    <3>3. InUtf8(cps) \in Seq(Nat)
      BY <3>2, CharactersBack, Zenon
    <3>4. f[at[n + 1] + 1] \in Seq(Nat)
      BY <2>2, <3>1, <3>3, Zenon DEF SameText
    <3>5. PICK cp \in Nat : PointAt(key, n, cp, 1) /\ Writes(f, at[n], cp, at[n + 1])
      BY <1>0, <1>1, <1>2, <1>6, <2>4, <3>4, SingleStep, Zenon
    <3>6. 1 \in {1, 2}
      OBVIOUS
    <3> QED
      BY <1>0, <1>3, <1>6, <2>2, <3>5, <3>6, TextStep, Zenon
  <2> QED
    BY <2>3, <2>4
<1> HIDE DEF Good
<1>7. 0 \in S
  <2>1. \A n \in 0 .. N : N =< n + 0 => n = N
    OBVIOUS
  <2> QED
    BY <1>5, <2>1
<1>8. ASSUME NEW d \in Nat, d \in S PROVE d + 1 \in S
  <2> SUFFICES ASSUME NEW n \in 0 .. N, N =< n + (d + 1) PROVE Good(n)
    OBVIOUS
  <2>1. \A m \in 0 .. N : n + 1 =< m => N =< m + d
    OBVIOUS
  <2>2. \A m \in 0 .. N : n + 1 =< m => Good(m)
    BY <1>8, <2>1, Zenon
  <2>3. CASE n = N
    BY <1>5, <2>3, Zenon
  <2>4. CASE n # N
    <3>1. n \in Nat /\ n + 1 =< N
      BY <2>4
    <3> QED
      BY <1>6, <2>2, <3>1, Zenon
  <2> QED
    BY <2>3, <2>4
<1>9. Good(0)
  <2>1. N \in S
    <3> HIDE DEF S
    <3> QED
      BY <1>7, <1>8, NatInd
  <2>2. 0 \in 0 .. N /\ N =< 0 + N
    OBVIOUS
  <2> QED
    BY <2>1, <2>2, Zenon
<1>10. at[0] = 0
  BY <1>1, Zenon DEF Laid
<1>11. Decoded(key) = f[1] /\ CodePoints(key) = g[1]
  BY <1>1, <1>2, <1>3, Zenon DEF Decoded, DecodesBy, PointsBy
<1>12. IsText(g[0 + 1]) /\ f[at[0] + 1] = InUtf8(g[0 + 1])
  BY <1>9, Zenon DEF Good, SameText
<1>13. 0 + 1 = 1
  OBVIOUS
<1> QED
  BY <1>10, <1>11, <1>12, <1>13, Zenon

LEMMA DecodedIsUnicode ==
  ASSUME NEW key \in Seq(Units)
  PROVE  Decoded(key) \in Seq(Nat) /\ CharactersOf(Decoded(key)) = CodePoints(key)
<1>1. PICK cps : cps = CodePoints(key)
  BY Zenon
<1>2. cps \in Seq(Nat) /\ \A k \in 1 .. Len(cps) : IsCodePoint(cps[k])
  BY <1>1, DecodedIsText, Zenon DEF IsText
<1>3. Decoded(key) = InUtf8(cps)
  BY <1>1, DecodedIsText, Zenon
<1> QED
  BY <1>1, <1>2, <1>3, CharactersBack, Zenon

-----------------------------------------------------------------------------
(* What holds of every pointer.                                              *)

KeysType == keys \in Seq(Seq(Units)) /\ Len(keys) \in Nat \ {0}

\* The pointer that is being built always has a key, and each key is spelled with units.
THEOREM KeysAreSpelled == Spec => []KeysType
<1>1. Init => KeysType
  <2>1. << >> \in Seq(Units)
    OBVIOUS
  <2> QED
    BY <2>1 DEF Init, KeysType
<1>2. ASSUME KeysType, [Next]_keys PROVE KeysType'
  <2>0. keys \in Seq(Seq(Units)) /\ Len(keys) \in Nat \ {0}
    BY <1>2 DEF KeysType
  <2>1. CASE UNCHANGED keys
    BY <2>0, <2>1 DEF KeysType
  <2>2. CASE NextKey
    <3>1. << >> \in Seq(Units)
      OBVIOUS
    <3> QED
      BY <2>0, <2>2, <3>1, AppendProperties DEF NextKey, KeysType
  <2>3. ASSUME NEW unit \in Units, Spell(unit) PROVE KeysType'
    <3>1. Len(keys) \in DOMAIN keys /\ keys[Len(keys)] \in Seq(Units)
      BY <2>0, LenProperties, ElementOfSeq
    <3>2. Append(keys[Len(keys)], unit) \in Seq(Units)
      BY <3>1, AppendProperties
    <3>3. keys' = [keys EXCEPT ![Len(keys)] = Append(keys[Len(keys)], unit)]
      BY <2>3 DEF Spell
    <3> QED
      BY <2>0, <3>1, <3>2, <3>3, ExceptSeq DEF KeysType
  <2> QED
    BY <1>2, <2>1, <2>2, <2>3 DEF Next
<1> QED
  BY <1>1, <1>2, PTL DEF Spec

\* Whatever spells them, keys are told apart as Unicode text: decode_key() of any run of
\* characters, letter escapes and \u escapes, paired or alone, is the UTF-8 of their code points.
THEOREM EveryKeyIsUnicode == Spec => []KeysAreUnicode
<1>1. ASSUME KeysType PROVE KeysAreUnicode
  <2>1. \A k \in DOMAIN keys : keys[k] \in Seq(Units)
    BY <1>1, LenProperties, ElementOfSeq DEF KeysType
  <2> QED
    BY <2>1, DecodedIsUnicode, Zenon DEF KeysAreUnicode
<1> QED
  BY <1>1, KeysAreSpelled, PTL

\* What set() writes for the last token of a pointer is the key the next get() looks up.
THEOREM EveryWrittenKeyDecodes == Spec => []WrittenKeysDecode
<1>1. ASSUME KeysType PROVE WrittenKeysDecode
  <2>1. \A k \in DOMAIN keys : keys[k] \in Seq(Units)
    BY <1>1, LenProperties, ElementOfSeq DEF KeysType
  <2> QED
    BY <2>1, DecodedIsUnicode, EncodedDecodes, Zenon DEF WrittenKeysDecode
<1> QED
  BY <1>1, KeysAreSpelled, PTL

\* A pointer that pointers() lists is a pointer get() accepts, and it names the same keys.
THEOREM EveryPointerSplitsBack == Spec => []PointersSplitBack
<1>1. ASSUME KeysType PROVE PointersSplitBack
  <2>1. \A k \in DOMAIN keys : keys[k] \in Seq(Units)
    BY <1>1, LenProperties, ElementOfSeq DEF KeysType
  <2>2. \A k \in DOMAIN keys : Decoded(keys[k]) \in Seq(Nat)
    BY <2>1, DecodedIsUnicode, Zenon
  <2>3. [k \in DOMAIN keys |-> Decoded(keys[k])] \in Seq(Seq(Nat))
    <3>1. Len(keys) \in Nat /\ DOMAIN keys = 1 .. Len(keys)
      BY <1>1, LenProperties DEF KeysType
    <3> QED
      BY <2>2, <3>1
  <2> QED
    BY <2>3, RenderSplits, Zenon DEF PointersSplitBack
<1> QED
  BY <1>1, KeysAreSpelled, PTL
=============================================================================
