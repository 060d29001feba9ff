-------------------------- MODULE Generator_proofs --------------------------
(***************************************************************************)
(* For every byte stream and every value of the options: the generator     *)
(* never recurses past max_depth, nor does the depth it records, and what  *)
(* its intent record says of the document is what the SAX counter reads in *)
(* the text (reading 3 of the fuzz target).                                *)
(***************************************************************************)
EXTENDS IntentReading, SequenceTheorems, TLAPS

(* A stack of open containers; the keys used so far do not matter here.      *)
Frame(U) == [kind : {"array", "object"}, size : Int, left : Int, used : U]
IsStack(s) == \E U : s \in Seq(Frame(U))
IsRecord(record) == DOMAIN record = Counters \cup Flags /\ record["depth"] \in Nat

DepthInv ==
  /\ options \in AllOptions
  /\ IsStack(stack) /\ IsRecord(intent)
  /\ pc = "close" => stack # << >>
  /\ DepthBounded

\* A step that opens no container.
Keeps ==
  /\ options' = options
  /\ IsStack(stack') /\ Len(stack') =< Len(stack)
  /\ pc' = "close" => stack' # << >>
  /\ IsRecord(intent') /\ intent'["depth"] \in {intent["depth"], Len(stack)}

-----------------------------------------------------------------------------
(* The height of a stack is a number.                                        *)
LEMMA Height == ASSUME NEW s, IsStack(s) PROVE Len(s) \in Nat
BY DEF IsStack

(* One more container is opened.                                             *)
LEMMA Pushed ==
  ASSUME NEW s, IsStack(s), NEW kind \in {"array", "object"}, NEW n \in Int
  PROVE  LET e == [kind |-> kind, size |-> n, left |-> n, used |-> << >>]
         IN  IsStack(Append(s, e)) /\ Len(Append(s, e)) = Len(s) + 1
<1> DEFINE e == [kind |-> kind, size |-> n, left |-> n, used |-> << >>]
<1>1. PICK U : s \in Seq(Frame(U))
  BY DEF IsStack
<1> DEFINE V == U \cup {<< >>}
<1>2. Frame(U) \subseteq Frame(V) /\ e \in Frame(V)
  BY DEF Frame
<1> HIDE DEF e, V
<1>3. s \in Seq(Frame(V))
  BY <1>1, <1>2, SeqMonotonic
<1>4. Append(s, e) \in Seq(Frame(V)) /\ Len(Append(s, e)) = Len(s) + 1
  BY <1>2, <1>3, AppendProperties
<1> QED
  BY <1>4 DEF IsStack, e

(* The container on top is closed.                                           *)
LEMMA Popped ==
  ASSUME NEW s, IsStack(s)
  PROVE  LET u == SubSeq(s, 1, Len(s) - 1) IN IsStack(u) /\ Len(u) =< Len(s)
<1>1. PICK U : s \in Seq(Frame(U))
  BY DEF IsStack
<1>2. /\ SubSeq(s, 1, Len(s) - 1) \in Seq(Frame(U))
      /\ Len(SubSeq(s, 1, Len(s) - 1)) =< Len(s)
  BY <1>1, SubSeqProperties
<1> QED
  BY <1>2 DEF IsStack

(* Counting a member leaves the stack as high as it was.                     *)
LEMMA CountedKeeps ==
  ASSUME NEW s, IsStack(s)
  PROVE  IsStack(Counted(s)) /\ Len(Counted(s)) = Len(s)
<1>1. PICK U : s \in Seq(Frame(U))
  BY DEF IsStack
<1>2. CASE s = << >>
  BY <1>1, <1>2 DEF Counted, IsStack
<1>3. CASE s # << >>
  <2> DEFINE e == [s[Len(s)] EXCEPT !.left = @ - 1]
  <2>1. Len(s) \in 1 .. Len(s) /\ s[Len(s)] \in Frame(U)
    BY <1>1, <1>3
  <2>2. e \in Frame(U)
    BY <2>1 DEF Frame
  <2>3. Counted(s) = [s EXCEPT ![Len(s)] = e]
    BY <1>3 DEF Counted
  <2> HIDE DEF e
  <2> QED
    BY <1>1, <2>1, <2>2, <2>3, ExceptSeq DEF IsStack
<1> QED
  BY <1>2, <1>3

(* A key noted in the object on top leaves the stack as high as it was.      *)
LEMMA NotedKeeps ==
  ASSUME NEW s, IsStack(s), NEW used
  PROVE  LET t == [s EXCEPT ![Len(s)].used = used] IN IsStack(t) /\ Len(t) = Len(s)
<1>1. PICK U : s \in Seq(Frame(U))
  BY DEF IsStack
<1> DEFINE V == U \cup {used}
<1>2. CASE s = << >>
  <2>1. [s EXCEPT ![Len(s)].used = used] = s
    BY <1>2
  <2> QED
    BY <1>1, <2>1 DEF IsStack
<1>3. CASE s # << >>
  <2> DEFINE e == [s[Len(s)] EXCEPT !.used = used]
  <2>1. Len(s) \in 1 .. Len(s) /\ s[Len(s)] \in Frame(U)
    BY <1>1, <1>3
  <2>2. Frame(U) \subseteq Frame(V) /\ e \in Frame(V)
    BY <2>1 DEF Frame
  <2> HIDE DEF V
  <2>3. s \in Seq(Frame(V))
    BY <1>1, <2>2, SeqMonotonic
  <2>4. IsStack([s EXCEPT ![Len(s)] = e]) /\ Len([s EXCEPT ![Len(s)] = e]) = Len(s)
    <3> HIDE DEF e
    <3> QED
      BY <2>1, <2>2, <2>3, ExceptSeq DEF IsStack
  <2> QED
    BY <2>4
<1> QED
  BY <1>2, <1>3

-----------------------------------------------------------------------------
(* The depth is recorded for a value, whatever its kind.                     *)
LEMMA ReachedDepth ==
  ASSUME IsRecord(intent), Len(stack) \in Nat
  PROVE  /\ IsRecord(Reached(intent))
         /\ Reached(intent)["depth"] \in {intent["depth"], Len(stack)}
BY DEF IsRecord, Reached, Counters, Flags

(* Only a container can be closed.                                           *)
LEMMA ClosesSome == \A s : NextIn(s) = "close" => s # << >>
BY DEF NextIn

(* A scalar opens nothing.                                                   *)
LEMMA WroteKeeps ==
  ASSUME DepthInv, NEW kind \in {"null", "bool", "number", "string"}, NEW word,
         NEW raised \in SUBSET Flags, Wrote(kind, word, raised)
  PROVE  Keeps
<1>1. IsStack(stack') /\ Len(stack') = Len(stack) /\ Len(stack) \in Nat
  BY CountedKeeps, Height DEF DepthInv, Wrote
<1>2. DOMAIN intent' = Counters \cup Flags
  BY DEF Wrote
<1>3. intent'["depth"] = Reached(intent)["depth"]
  <2>1. "depth" \in Counters \cup Flags /\ "depth" # kind /\ "depth" \notin Flags
    BY DEF Counters, Flags
  <2>2. "depth" \notin raised
    BY <2>1
  <2> QED
    BY <2>1, <2>2, Zenon DEF Wrote
<1>4. IsRecord(intent') /\ intent'["depth"] \in {intent["depth"], Len(stack)}
  BY <1>1, <1>2, <1>3, ReachedDepth DEF DepthInv, IsRecord
<1>5. options' = options /\ (pc' = "close" => stack' # << >>)
  BY ClosesSome DEF Wrote
<1> QED
  BY <1>1, <1>4, <1>5 DEF Keeps

(* A key opens nothing.                                                      *)
LEMMA KeyedKeeps ==
  ASSUME DepthInv, NEW word, NEW used, NEW raised \in SUBSET Flags, Keyed(word, raised, used)
  PROVE  Keeps
<1>1. IsStack(stack') /\ Len(stack') = Len(stack) /\ Len(stack) \in Nat
  BY NotedKeeps, Height DEF DepthInv, Keyed
<1>2. DOMAIN intent' = Counters \cup Flags /\ intent'["depth"] = intent["depth"]
  <2>1. "depth" \in Counters \cup Flags /\ "depth" \notin Flags
    BY DEF Counters, Flags
  <2>2. "depth" \notin raised
    BY <2>1
  <2> QED
    BY <2>1, <2>2, Zenon DEF Keyed
<1>3. IsRecord(intent') /\ options' = options /\ pc' = "value"
  BY <1>2 DEF DepthInv, Keyed, IsRecord
<1> QED
  BY <1>1, <1>2, <1>3 DEF Keeps

(* What a body or a number raises are flags.                                 *)
LEMMA RaisedFlags ==
  /\ \A n \in Numbers : n.raised \in SUBSET Flags
  /\ \A s \in StringBodies : s.raised \in SUBSET Flags
BY DEF Numbers, StringBodies, Flags

-----------------------------------------------------------------------------
(* A container is opened only where the limit lets one in.                   *)
LEMMA OpensBelow ==
  ASSUME Len(stack) \in Nat, options.max_depth \in Int,
         NEW kind \in KindsDrawn \cap {"array", "object"}
  PROVE  Len(stack) < options.max_depth
<1> SUFFICES ASSUME Len(stack) >= options.max_depth PROVE FALSE
  OBVIOUS
<1>1. PICK b \in Byte : kind = KindOf(b)
  BY DEF KindsDrawn
<1>2. Pick(4, b) + 1 \in 1 .. 4
  BY BytesAssumption DEF Pick, Byte
<1>3. KindOf(b) \in {"null", "bool", "number", "string"}
  BY <1>2 DEF KindOf, Scalars
<1> QED
  BY <1>1, <1>3

(* The number of members drawn is a number.                                  *)
LEMMA PicksAreNumbers ==
  ASSUME NEW n \in Int, ~Traps(n)
  PROVE  Picks(n) \subseteq Int
<1>1. ASSUME NEW b \in Byte PROVE Pick(n, b) \in Int
  <2>1. n > 0 => n % 2^8 \in Int /\ n % 2^8 > 0
    BY DEF Traps
  <2> QED
    BY <2>1, BytesAssumption DEF Pick, Byte
<1> QED
  BY <1>1 DEF Picks

(* Opening a container at the limit's allowance keeps the bound.             *)
LEMMA OpenBounded == ASSUME DepthInv, Open PROVE DepthInv'
<1>1. options.max_depth \in Int /\ options.max_members + 1 \in Int
  BY OptionsAssumption DEF DepthInv
<1>2. CASE Trap
  BY <1>2 DEF Trap, DepthInv, DepthBounded, IsStack, IsRecord
<1>3. CASE ~Trap
  <2>1. PICK kind \in KindsDrawn \cap {"array", "object"} :
        ~Traps(options.max_members + 1)
          /\ \E n \in Picks(options.max_members + 1) :
               /\ stack' = Append(stack, [kind |-> kind, size |-> n, left |-> n,
                                          used |-> << >>])
               /\ intent' = Reached(intent)
               /\ UNCHANGED options
    BY <1>3 DEF Open
  <2>2. IsStack(stack') /\ Len(stack') = Len(stack) + 1 /\ Len(stack) \in Nat
    BY <1>1, <2>1, PicksAreNumbers, Pushed, Height DEF DepthInv
  <2>3. Len(stack) < options.max_depth
    BY <1>1, <2>1, <2>2, OpensBelow
  <2>4. IsRecord(intent') /\ intent'["depth"] \in {intent["depth"], Len(stack)}
    BY <2>1, <2>2, ReachedDepth DEF DepthInv
  <2>6. pc' = "close" => stack' # << >>
    BY <1>3, ClosesSome DEF Open
  <2>5. intent["depth"] \in Nat
    BY DEF DepthInv, IsRecord
  <2> QED
    BY <1>1, <2>1, <2>2, <2>3, <2>4, <2>5, <2>6 DEF DepthInv, DepthBounded
<1> QED
  BY <1>2, <1>3

(* Every other step keeps what it keeps.                                     *)
LEMMA OthersKeep ==
  ASSUME DepthInv, Next, ~Open
  PROVE  Keeps
<1>a. Len(stack) \in Nat
  BY Height DEF DepthInv
<1>1. Trap => Keeps
  BY <1>a DEF Trap, Keeps, DepthInv
<1>2. Null \/ Bool => Keeps
  BY WroteKeeps DEF Null, Bool
<1>3. Number => Keeps
  BY WroteKeeps, RaisedFlags DEF Number
<1>4. String => Keeps
  BY <1>1, WroteKeeps, RaisedFlags DEF String
<1>5. Close => Keeps
  <2> SUFFICES ASSUME Close PROVE Keeps
    OBVIOUS
  <2>1. /\ IsStack(stack') /\ Len(stack') =< Len(stack)
    BY <1>a, Popped, CountedKeeps, Height DEF Close, DepthInv
  <2>2. Top.kind \in {"array", "object"}
    <3>1. PICK U : stack \in Seq(Frame(U))
      BY DEF DepthInv, IsStack
    <3>2. stack # << >>
      BY DEF DepthInv, Close
    <3>3. stack[Len(stack)] \in Frame(U)
      BY <3>1, <3>2
    <3> QED
      BY <3>3 DEF Top, Frame
  <2>3. DOMAIN intent' = DOMAIN intent /\ intent'["depth"] = intent["depth"]
    <3>1. "depth" # Top.kind /\ "depth" # "members" /\ "depth" \in DOMAIN intent
      BY <2>2 DEF DepthInv, IsRecord, Counters
    <3>2. intent' = [intent EXCEPT ![Top.kind] = @ + 1, !["members"] = @ + Top.size]
      BY DEF Close
    <3> QED
      BY <3>1, <3>2
  <2>4. pc' = "close" => stack' # << >>
    BY ClosesSome DEF Close
  <2> QED
    BY <2>1, <2>3, <2>4 DEF Close, Keeps, DepthInv, IsRecord
<1>6. EmptyKey => Keeps
  BY KeyedKeeps DEF EmptyKey, Flags
<1>7. DuplicateKey => Keeps
  BY KeyedKeeps DEF DuplicateKey, Flags
<1>8. PointerKey => Keeps
  BY KeyedKeeps DEF PointerKey, Flags
<1>9. PlainKey => Keeps
  BY <1>1, KeyedKeeps, RaisedFlags DEF PlainKey
<1> QED
  BY <1>2, <1>3, <1>4, <1>5, <1>6, <1>7, <1>8, <1>9 DEF Next

(* The generator starts with nothing open.                                   *)
LEMMA DepthInit == Init => DepthInv
<1> SUFFICES ASSUME Init PROVE DepthInv
  OBVIOUS
<1>1. IsStack(<< >>)
  BY DEF IsStack
<1>2. DOMAIN NoIntent = Counters \cup Flags /\ NoIntent["depth"] = 0
  <2>1. "depth" \in Counters \cup Flags /\ "depth" \notin Flags
    BY DEF Counters, Flags
  <2> QED
    BY <2>1, Zenon DEF NoIntent
<1> QED
  BY <1>1, <1>2 DEF Init, DepthInv, DepthBounded, IsRecord

(* Every step, and every stutter, keeps the invariant.                       *)
LEMMA DepthStep == DepthInv /\ [Next]_vars => DepthInv'
<1>1. DepthInv /\ UNCHANGED vars => DepthInv'
  BY DEF vars, DepthInv, DepthBounded, IsStack, IsRecord
<1>2. ASSUME DepthInv, Keeps PROVE DepthInv'
  <2>1. /\ Len(stack) \in Nat /\ Len(stack') \in Nat
        /\ intent["depth"] \in Nat /\ options.max_depth \in Int
    BY <1>2, Height, OptionsAssumption DEF DepthInv, Keeps, IsRecord
  <2> QED
    BY <1>2, <2>1 DEF DepthInv, Keeps, DepthBounded
<1> QED
  BY <1>1, <1>2, OpenBounded, OthersKeep

(* The generator opens no container deeper than max_depth and records no     *)
(* depth below it, for every stream of bytes and every value, negative ones  *)
(* included, of the options.                                                 *)
THEOREM RecursionBounded == Spec => []DepthBounded
<1>1. DepthInv => DepthBounded
  BY DEF DepthInv
<1> QED
  BY <1>1, DepthInit, DepthStep, PTL DEF Spec

-----------------------------------------------------------------------------
(* The SAX counter.  CountsAfter is the solution of an equation, and that    *)
(* there is one, and one only, is itself kept from token to token.           *)
IsReading(f, s) ==
  f = [n \in 0 .. Len(s) |-> IF n = 0 THEN NoCounts ELSE Sax(f[n - 1], s[n])]

OnlyReading(f, s) == IsReading(f, s) /\ \A g : IsReading(g, s) => g = f

(* The empty text is read in one way.                                        *)
LEMMA NothingRead == OnlyReading([n \in 0 .. 0 |-> NoCounts], << >>)
<1> DEFINE f == [n \in 0 .. 0 |-> NoCounts]
<1>1. IsReading(f, << >>)
  BY DEF IsReading
<1>2. ASSUME NEW g, IsReading(g, << >>) PROVE g = f
  <2>1. g = [n \in 0 .. 0 |-> IF n = 0 THEN NoCounts ELSE Sax(g[n - 1], << >>[n])]
    BY <1>2 DEF IsReading
  <2> QED
    BY <2>1
<1> QED
  BY <1>1, <1>2 DEF OnlyReading

(* One more token is read in one way.                                        *)
LEMMA OneMoreRead ==
  ASSUME NEW T, NEW s \in Seq(T), NEW t \in T, NEW f, OnlyReading(f, s)
  PROVE  OnlyReading([n \in 0 .. Len(s) + 1 |-> IF n = Len(s) + 1 THEN Sax(f[Len(s)], t) ELSE f[n]],
                     Append(s, t))
<1> DEFINE L == Len(s)
           u == Append(s, t)
           h == [n \in 0 .. L + 1 |-> IF n = L + 1 THEN Sax(f[L], t) ELSE f[n]]
           Step(g, w, n) == IF n = 0 THEN NoCounts ELSE Sax(g[n - 1], w[n])
<1>1. /\ L \in Nat /\ Len(u) = L + 1
      /\ u[L + 1] = t /\ \A n \in 1 .. L : u[n] = s[n]
  BY AppendProperties
<1>2. \A g, w : IsReading(g, w) <=> g = [n \in 0 .. Len(w) |-> Step(g, w, n)]
  BY DEF IsReading
<1>3. f = [n \in 0 .. L |-> Step(f, s, n)]
  BY <1>2 DEF OnlyReading
<1> HIDE DEF u
<1>4. IsReading(h, u)
  <2>1. ASSUME NEW n \in 0 .. L + 1 PROVE h[n] = Step(h, u, n)
    <3>1. CASE n = 0
      BY <1>1, <1>3, <3>1
    <3>2. CASE n \in 1 .. L
      <4>1. h[n] = f[n] /\ h[n - 1] = f[n - 1] /\ u[n] = s[n]
        BY <1>1, <3>2
      <4>2. f[n] = Sax(f[n - 1], s[n])
        <5> HIDE DEF h
        <5> QED
          BY <1>3, <3>2
      <4> HIDE DEF h
      <4> QED
        BY <3>2, <4>1, <4>2
    <3>3. CASE n = L + 1
      <4>1. h[n] = Sax(f[L], t) /\ h[n - 1] = f[L] /\ u[n] = t
        BY <1>1, <3>3
      <4> HIDE DEF h
      <4> QED
        BY <1>1, <3>3, <4>1
    <3> QED
      BY <1>1, <3>1, <3>2, <3>3
  <2>2. h = [n \in 0 .. L + 1 |-> h[n]]
    OBVIOUS
  <2>3. h = [n \in 0 .. L + 1 |-> Step(h, u, n)]
    <3> HIDE DEF h, Step
    <3> QED
      BY <2>1, <2>2
  <2> HIDE DEF h, Step
  <2> QED
    BY <1>1, <1>2, <2>3
<1>5. ASSUME NEW g, IsReading(g, u) PROVE g = h
  <2> HIDE DEF h
  <2>1. g = [n \in 0 .. L + 1 |-> Step(g, u, n)]
    BY <1>1, <1>2, <1>5
  <2> DEFINE k == [n \in 0 .. L |-> g[n]]
  <2>2. k = f
    <3>1. ASSUME NEW n \in 0 .. L PROVE k[n] = Step(k, s, n)
      <4>1. g[n] = Step(g, u, n)
        <5> HIDE DEF Step
        <5> QED
          BY <1>1, <2>1, SMTT(30)
      <4>2. n # 0 => k[n - 1] = g[n - 1] /\ u[n] = s[n]
        BY <1>1
      <4> QED
        BY <4>1, <4>2
    <3>2. k = [n \in 0 .. L |-> Step(k, s, n)]
      <4>1. k = [n \in 0 .. L |-> k[n]]
        OBVIOUS
      <4> HIDE DEF k, Step
      <4> QED
        BY <3>1, <4>1
    <3> HIDE DEF k, Step
    <3> QED
      BY <1>2, <3>2 DEF OnlyReading
  <2>3. ASSUME NEW n \in 0 .. L PROVE g[n] = f[n]
    <3>1. k[n] = g[n]
      OBVIOUS
    <3> HIDE DEF k
    <3> QED
      BY <2>2, <3>1
  <2>4. g[L + 1] = Sax(f[L], t)
    <3>1. g[L + 1] = Step(g, u, L + 1)
      <4> HIDE DEF Step
      <4> QED
        BY <1>1, <2>1
    <3>2. g[L] = f[L]
      BY <1>1, <2>3
    <3> QED
      BY <1>1, <3>1, <3>2
  <2>5. ASSUME NEW n \in 0 .. L + 1 PROVE g[n] = h[n]
    BY <1>1, <2>3, <2>4 DEF h
  <2>6. g = [n \in 0 .. L + 1 |-> g[n]] /\ h = [n \in 0 .. L + 1 |-> h[n]]
    <3>1. g = [n \in 0 .. L + 1 |-> g[n]]
      <4> HIDE DEF Step
      <4> QED
        BY <2>1
    <3> QED
      BY <3>1 DEF h
  <2> QED
    BY <2>5, <2>6
<1> QED
  BY <1>4, <1>5 DEF OnlyReading, u

(* CountsAfter is the reading of the text so far.                            *)
LEMMA CountsAreRead ==
  /\ \A f : OnlyReading(f, text) => CountsAfter = f
  /\ \A f : OnlyReading(f, text') => CountsAfter' = f
<1>1. CountsAfter = CHOOSE f : IsReading(f, text)
  BY DEF CountsAfter, IsReading
<1>2. CountsAfter' = CHOOSE f : IsReading(f, text')
  BY DEF CountsAfter, IsReading
<1> QED
  BY <1>1, <1>2 DEF OnlyReading

-----------------------------------------------------------------------------
(* What the counter makes of a token.                                        *)
Bracket == {"array", "object"}
Scalar == {"null", "bool", "number", "string"}
Count == Bracket \cup Scalar \cup {"members", "tagged", "deepest"}

IsCounts(c) ==
  /\ DOMAIN c = Count \cup {"in_array"}
  /\ \A k \in Count : c[k] \in Int
  /\ c.in_array \in Seq(Bracket)

\* A value is a member of the array it is in, and as deep as what it is in.
Member(c) == IF c.in_array # << >> /\ Last(c.in_array) = "array" THEN 1 ELSE 0
Deeper(c) == IF Len(c.in_array) > c.deepest THEN Len(c.in_array) ELSE c.deepest

\* d counts one value more than c, under the headings H.
OneMore(c, d, H) ==
  /\ IsCounts(d)
  /\ d.members = c.members + Member(c) /\ d.deepest = Deeper(c)
  /\ \A k \in Count \ {"members", "deepest"} : d[k] = IF k \in H THEN c[k] + 1 ELSE c[k]

(* A value in an array is a member.                                          *)
LEMMA InArrayCounts ==
  ASSUME NEW c, IsCounts(c)
  PROVE  /\ IsCounts(InArray(c))
         /\ InArray(c).members = c.members + Member(c)
         /\ InArray(c).in_array = c.in_array
         /\ \A k \in Count \ {"members"} : InArray(c)[k] = c[k]
<1>1. CASE Member(c) = 1
  <2>1. InArray(c) = [c EXCEPT !.members = @ + 1]
    BY <1>1 DEF InArray, Member
  <2> QED
    BY <1>1, <2>1 DEF IsCounts, Count
<1>2. CASE Member(c) = 0
  <2>1. InArray(c) = c
    BY <1>2 DEF InArray, Member
  <2> QED
    BY <1>2, <2>1 DEF IsCounts, Count
<1> QED
  BY <1>1, <1>2 DEF Member

(* A count and the depth are set: the rest stays.                            *)
LEMMA CountedOnce ==
  ASSUME NEW c, NEW b, IsCounts(b), b.members = c.members + Member(c), b.in_array = c.in_array,
         \A k \in Count \ {"members"} : b[k] = c[k],
         NEW kind \in Bracket \cup Scalar, Deeper(c) \in Int
  PROVE  LET d == [b EXCEPT ![kind] = @ + 1, !.deepest = Deeper(c)]
         IN  OneMore(c, d, {kind}) /\ d.in_array = c.in_array
<1> DEFINE d == [b EXCEPT ![kind] = @ + 1, !.deepest = Deeper(c)]
<1>1. /\ kind \in Count /\ kind \notin {"members", "deepest", "in_array"}
      /\ "members" \in Count /\ "deepest" \in Count /\ "in_array" \notin Count
  BY DEF Count, Bracket, Scalar
<1>2. DOMAIN b = Count \cup {"in_array"} /\ \A k \in Count : b[k] \in Int
  BY DEF IsCounts
<1>3. DOMAIN d = DOMAIN b
  OBVIOUS
<1>4. \A k \in DOMAIN b : d[k] = IF k = "deepest" THEN Deeper(c)
                                ELSE IF k = kind THEN b[k] + 1 ELSE b[k]
  BY <1>1
<1> HIDE DEF d
<1>5. d.deepest = Deeper(c) /\ d.members = b.members /\ d.in_array = b.in_array
  BY <1>1, <1>2, <1>4
<1>6. \A k \in Count \ {"members", "deepest"} : d[k] = IF k \in {kind} THEN c[k] + 1 ELSE c[k]
  BY <1>1, <1>2, <1>4
<1>7. \A k \in Count : d[k] \in Int
  BY <1>1, <1>2, <1>4
<1>8. IsCounts(d)
  BY <1>2, <1>3, <1>5, <1>7 DEF IsCounts
<1> QED
  BY <1>5, <1>6, <1>8 DEF OneMore, d

(* A tagged number is a string.                                              *)
LEMMA CountedTwice ==
  ASSUME NEW c, NEW b, IsCounts(b), b.members = c.members + Member(c), b.in_array = c.in_array,
         \A k \in Count \ {"members"} : b[k] = c[k], Deeper(c) \in Int
  PROVE  LET d == [b EXCEPT !.string = @ + 1, !.tagged = @ + 1, !.deepest = Deeper(c)]
         IN  OneMore(c, d, {"string", "tagged"}) /\ d.in_array = c.in_array
<1> DEFINE d == [b EXCEPT !.string = @ + 1, !.tagged = @ + 1, !.deepest = Deeper(c)]
<1>1. /\ {"string", "tagged", "members", "deepest"} \subseteq Count /\ "in_array" \notin Count
  BY DEF Count, Bracket, Scalar
<1>2. DOMAIN b = Count \cup {"in_array"} /\ \A k \in Count : b[k] \in Int
  BY DEF IsCounts
<1>3. DOMAIN d = DOMAIN b
  OBVIOUS
<1>4. \A k \in DOMAIN b : d[k] = IF k = "deepest" THEN Deeper(c)
                                ELSE IF k \in {"string", "tagged"} THEN b[k] + 1 ELSE b[k]
  BY <1>1, <1>2
<1> HIDE DEF d
<1>5. d.deepest = Deeper(c) /\ d.members = b.members /\ d.in_array = b.in_array
  BY <1>1, <1>2, <1>4
<1>6. \A k \in Count \ {"members", "deepest"} :
        d[k] = IF k \in {"string", "tagged"} THEN c[k] + 1 ELSE c[k]
  BY <1>1, <1>2, <1>4
<1>7. \A k \in Count : d[k] \in Int
  BY <1>1, <1>2, <1>4
<1>8. IsCounts(d)
  BY <1>2, <1>3, <1>5, <1>7 DEF IsCounts
<1> QED
  BY <1>5, <1>6, <1>8 DEF OneMore, d

(* A scalar counts under its kind, a number no double holds as a tagged      *)
(* string.                                                                   *)
LEMMA SaxScalar ==
  ASSUME NEW c, IsCounts(c), NEW kind \in Scalar, NEW word
  PROVE  LET t == Token(kind, word)
             H == IF kind = "number" /\ word \in Huge THEN {"string", "tagged"} ELSE {kind}
         IN  OneMore(c, Sax(c, t), H) /\ Sax(c, t).in_array = c.in_array
<1> DEFINE t == Token(kind, word)
           b == InArray(c)
<1>1. t.kind = kind /\ t.word = word
  BY DEF Token
<1>2. IsCounts(b) /\ b.members = c.members + Member(c) /\ b.in_array = c.in_array
      /\ \A k \in Count \ {"members"} : b[k] = c[k]
  BY InArrayCounts
<1>3. Deeper(c) \in Int
  BY DEF Deeper, IsCounts, Count
<1>4. CASE kind = "number" /\ word \in Huge
  <2>1. Sax(c, t) = [b EXCEPT !.string = @ + 1, !.tagged = @ + 1,
                              !.deepest = IF Len(c.in_array) > @ THEN Len(c.in_array) ELSE @]
    BY <1>1, <1>4 DEF Sax
  <2>2. Sax(c, t) = [b EXCEPT !.string = @ + 1, !.tagged = @ + 1, !.deepest = Deeper(c)]
    BY <1>2, <2>1 DEF Deeper, IsCounts, Count
  <2> HIDE DEF t, b
  <2>3. OneMore(c, Sax(c, t), {"string", "tagged"}) /\ Sax(c, t).in_array = c.in_array
    BY <1>2, <1>3, <2>2, CountedTwice
  <2> QED
    BY <1>4, <2>3 DEF t
<1>5. CASE ~(kind = "number" /\ word \in Huge)
  <2>1. Sax(c, t) = [b EXCEPT ![kind] = @ + 1,
                              !.deepest = IF Len(c.in_array) > @ THEN Len(c.in_array) ELSE @]
    BY <1>1, <1>5 DEF Sax, Scalar
  <2>2. Sax(c, t) = [b EXCEPT ![kind] = @ + 1, !.deepest = Deeper(c)]
    BY <1>2, <2>1 DEF Deeper, IsCounts, Count, Scalar
  <2>3. kind \in Bracket \cup Scalar
    OBVIOUS
  <2> HIDE DEF t, b
  <2>4. OneMore(c, [b EXCEPT ![kind] = @ + 1, !.deepest = Deeper(c)], {kind})
          /\ [b EXCEPT ![kind] = @ + 1, !.deepest = Deeper(c)].in_array = c.in_array
    BY <1>2, <1>3, <2>3, CountedOnce, ZenonT(60)
  <2> QED
    BY <1>5, <2>2, <2>4 DEF t
<1> QED
  BY <1>4, <1>5

(* An opening bracket is a value too, and what follows is in it.             *)
LEMMA SaxOpen ==
  ASSUME NEW c, IsCounts(c), NEW kind \in Bracket
  PROVE  LET t == Token("open", kind)
         IN  OneMore(c, Sax(c, t), {kind}) /\ Sax(c, t).in_array = Append(c.in_array, kind)
<1> DEFINE t == Token("open", kind)
           b == InArray(c)
<1>1. t.kind = "open" /\ t.word = kind
  BY DEF Token
<1>2. IsCounts(b) /\ b.members = c.members + Member(c) /\ b.in_array = c.in_array
      /\ \A k \in Count \ {"members"} : b[k] = c[k]
  BY InArrayCounts
<1>3. Deeper(c) \in Int /\ Append(c.in_array, kind) \in Seq(Bracket)
  BY AppendProperties DEF Deeper, IsCounts, Count
<1>4. Sax(c, t) = [b EXCEPT ![kind] = @ + 1, !.in_array = Append(@, kind),
                            !.deepest = IF Len(c.in_array) > @ THEN Len(c.in_array) ELSE @]
  BY <1>1 DEF Sax
<1>5. Sax(c, t) = [b EXCEPT ![kind] = @ + 1, !.in_array = Append(c.in_array, kind),
                            !.deepest = Deeper(c)]
  BY <1>2, <1>4 DEF Deeper, IsCounts, Count, Bracket
<1> DEFINE e == [b EXCEPT ![kind] = @ + 1, !.deepest = Deeper(c)]
<1>6. OneMore(c, e, {kind})
  BY <1>2, <1>3, CountedOnce
<1>7. kind # "in_array" /\ "in_array" \notin Count /\ "in_array" \in DOMAIN b
  BY <1>2 DEF IsCounts, Count, Bracket, Scalar
<1>8. Sax(c, t) = [e EXCEPT !.in_array = Append(c.in_array, kind)]
  BY <1>5, <1>7
<1> HIDE DEF t, b, e
<1>9. /\ DOMAIN Sax(c, t) = Count \cup {"in_array"}
      /\ Sax(c, t).in_array = Append(c.in_array, kind)
      /\ \A k \in Count : Sax(c, t)[k] = e[k]
  BY <1>6, <1>7, <1>8 DEF OneMore, IsCounts
<1>10. Sax(c, t).members = e.members /\ Sax(c, t).deepest = e.deepest
  BY <1>9 DEF Count
<1> QED
  BY <1>3, <1>6, <1>9, <1>10 DEF OneMore, IsCounts, t

(* A closing bracket ends what it closes.                                    *)
LEMMA SaxClose ==
  ASSUME NEW c, IsCounts(c), NEW word
  PROVE  LET d == Sax(c, Token("close", word))
         IN  /\ IsCounts(d) /\ d.in_array = Front(c.in_array)
             /\ \A k \in Count : d[k] = c[k]
<1>1. Sax(c, Token("close", word)) = [c EXCEPT !.in_array = Front(c.in_array)]
  BY DEF Sax, Token, IsCounts
<1>2. Front(c.in_array) \in Seq(Bracket)
  BY SubSeqProperties DEF Front, IsCounts
<1> QED
  BY <1>1, <1>2 DEF IsCounts, Count, Bracket, Scalar

(* A key is a member.                                                        *)
LEMMA SaxKey ==
  ASSUME NEW c, IsCounts(c), NEW word
  PROVE  LET d == Sax(c, Token("key", word))
         IN  /\ IsCounts(d) /\ d.in_array = c.in_array /\ d.members = c.members + 1
             /\ \A k \in Count \ {"members"} : d[k] = c[k]
<1>1. Sax(c, Token("key", word)) = [c EXCEPT !.members = @ + 1]
  BY DEF Sax, Token
<1> QED
  BY <1>1 DEF IsCounts, Count, Bracket, Scalar

(* Before the first token nothing is counted.                                *)
LEMMA NothingCounted ==
  IsCounts(NoCounts) /\ NoCounts.in_array = << >> /\ \A k \in Count : NoCounts[k] = 0
BY DEF IsCounts, NoCounts, Count, Bracket, Scalar

-----------------------------------------------------------------------------
(* Totals over the open containers, by their partial sums.                   *)
HasTotal(v, n, t) ==
  \E w \in [0 .. n -> Int] :
    w[0] = 0 /\ w[n] = t /\ \A k \in 1 .. n : w[k] = w[k - 1] + v[k]

(* Nothing adds up to 0.                                                     *)
LEMMA TotalOfNone == \A v, t : HasTotal(v, 0, t) <=> t = 0
<1>1. ASSUME NEW v, NEW t, HasTotal(v, 0, t) PROVE t = 0
  BY <1>1 DEF HasTotal
<1>2. ASSUME NEW v PROVE HasTotal(v, 0, 0)
  <2> DEFINE w == [k \in 0 .. 0 |-> 0]
  <2>1. w \in [0 .. 0 -> Int] /\ w[0] = 0
    OBVIOUS
  <2> HIDE DEF w
  <2> QED
    BY <2>1 DEF HasTotal
<1> QED
  BY <1>1, <1>2

(* One more on top.                                                          *)
LEMMA TotalUp ==
  ASSUME NEW n \in Nat, NEW v, NEW u, NEW t \in Int, HasTotal(v, n, t),
         \A k \in 1 .. n : u[k] = v[k], u[n + 1] \in Int
  PROVE  HasTotal(u, n + 1, t + u[n + 1])
<1>1. PICK w \in [0 .. n -> Int] :
        w[0] = 0 /\ w[n] = t /\ \A k \in 1 .. n : w[k] = w[k - 1] + v[k]
  BY DEF HasTotal
<1> DEFINE x == [k \in 0 .. n + 1 |-> IF k = n + 1 THEN t + u[n + 1] ELSE w[k]]
<1>2. x \in [0 .. n + 1 -> Int]
  BY <1>1
<1>3. x[n + 1] = t + u[n + 1] /\ \A k \in 0 .. n : x[k] = w[k]
  OBVIOUS
<1> HIDE DEF x
<1>4. x[0] = 0 /\ \A k \in 1 .. n : x[k] = x[k - 1] + u[k]
  <2>1. 0 \in 0 .. n /\ \A k \in 1 .. n : k \in 0 .. n /\ k - 1 \in 0 .. n
    OBVIOUS
  <2> QED
    BY <1>1, <1>3, <2>1
<1>5. x[n + 1] = x[(n + 1) - 1] + u[n + 1]
  BY <1>1, <1>3
<1>6. ASSUME NEW k \in 1 .. n + 1 PROVE x[k] = x[k - 1] + u[k]
  <2>1. k \in 1 .. n \/ k = n + 1
    OBVIOUS
  <2> QED
    BY <1>4, <1>5, <2>1, Zenon
<1>7. \E y \in [0 .. n + 1 -> Int] :
        y[0] = 0 /\ y[n + 1] = t + u[n + 1] /\ \A k \in 1 .. n + 1 : y[k] = y[k - 1] + u[k]
  BY <1>2, <1>3, <1>4, <1>6, Zenon
<1> QED
  BY <1>7, Zenon DEF HasTotal

(* One less.                                                                 *)
LEMMA TotalDown ==
  ASSUME NEW n \in Nat, NEW v, NEW u, NEW t \in Int, HasTotal(v, n + 1, t),
         \A k \in 1 .. n : u[k] = v[k], v[n + 1] \in Int
  PROVE  HasTotal(u, n, t - v[n + 1])
<1>1. PICK w \in [0 .. n + 1 -> Int] :
        w[0] = 0 /\ w[n + 1] = t /\ \A k \in 1 .. n + 1 : w[k] = w[k - 1] + v[k]
  BY DEF HasTotal
<1> DEFINE x == [k \in 0 .. n |-> w[k]]
<1>2. x \in [0 .. n -> Int] /\ \A k \in 0 .. n : x[k] = w[k]
  BY <1>1
<1> HIDE DEF x
<1>3. x[0] = 0 /\ x[n] = t - v[n + 1] /\ \A k \in 1 .. n : x[k] = x[k - 1] + u[k]
  BY <1>1, <1>2
<1> QED
  BY <1>2, <1>3 DEF HasTotal

(* The topmost replaced.                                                     *)
LEMMA TotalTop ==
  ASSUME NEW n \in Nat \ {0}, NEW v, NEW u, NEW t \in Int, HasTotal(v, n, t),
         \A k \in 1 .. n - 1 : u[k] = v[k], u[n] \in Int, v[n] \in Int
  PROVE  HasTotal(u, n, t + u[n] - v[n])
<1>1. n - 1 \in Nat /\ (n - 1) + 1 = n /\ t - v[n] \in Int
  OBVIOUS
<1>2. HasTotal(u, n - 1, t - v[n])
  BY <1>1, TotalDown
<1>3. HasTotal(u, n, (t - v[n]) + u[n])
  BY <1>1, <1>2, TotalUp
<1> QED
  BY <1>3

-----------------------------------------------------------------------------
(* The open containers, and what they add up to.                             *)
Word == {Escapes[k] : k \in 1 .. 7} \cup {Boundaries[k] : k \in 1 .. 5}
          \cup {"", "a", "/", "~", "form", "huge", "digits"} \cup Kinds

Container == [kind : Bracket, size : Int, left : Int, used : Seq(Word)]

\* t of the containers of s are of this kind; t members of them are written.
Opens(s, kind, t) == HasTotal([k \in 1 .. Len(s) |-> IF s[k].kind = kind THEN 1 ELSE 0], Len(s), t)
Writes(s, t) == HasTotal([k \in 1 .. Len(s) |-> s[k].size - s[k].left], Len(s), t)

(* A container with all its members to come.                                 *)
LEMMA PushedTotals ==
  ASSUME NEW s \in Seq(Container), NEW e \in Container, e.size = e.left, NEW t \in Int
  PROVE  /\ Writes(s, t) => Writes(Append(s, e), t)
         /\ \A kind \in Bracket :
              Opens(s, kind, t) => Opens(Append(s, e), kind, IF e.kind = kind THEN t + 1 ELSE t)
<1> DEFINE n == Len(s)
           u == Append(s, e)
<1>1. n \in Nat /\ Len(u) = n + 1 /\ u[n + 1] = e /\ \A k \in 1 .. n : u[k] = s[k]
  BY AppendProperties
<1> HIDE DEF u
<1>2. ASSUME Writes(s, t) PROVE Writes(u, t)
  <2> DEFINE v == [k \in 1 .. n |-> s[k].size - s[k].left]
             x == [k \in 1 .. n + 1 |-> u[k].size - u[k].left]
  <2>1. x[n + 1] = 0 /\ \A k \in 1 .. n : x[k] = v[k]
    BY <1>1, SMTT(30) DEF Container
  <2>2. HasTotal(v, n, t)
    BY <1>2 DEF Writes
  <2> HIDE DEF v, x
  <2>3. HasTotal(x, n + 1, t)
    BY <1>1, <2>1, <2>2, TotalUp
  <2> QED
    BY <1>1, <2>3 DEF Writes, x
<1>3. ASSUME NEW kind \in Bracket, Opens(s, kind, t)
      PROVE  Opens(u, kind, IF e.kind = kind THEN t + 1 ELSE t)
  <2> DEFINE v == [k \in 1 .. n |-> IF s[k].kind = kind THEN 1 ELSE 0]
             x == [k \in 1 .. n + 1 |-> IF u[k].kind = kind THEN 1 ELSE 0]
  <2>1. x[n + 1] = (IF e.kind = kind THEN 1 ELSE 0) /\ \A k \in 1 .. n : x[k] = v[k]
    BY <1>1
  <2>2. HasTotal(v, n, t)
    BY <1>3 DEF Opens
  <2> HIDE DEF v, x
  <2>3. HasTotal(x, n + 1, t + x[n + 1])
    BY <1>1, <2>1, <2>2, TotalUp
  <2>4. t + x[n + 1] = IF e.kind = kind THEN t + 1 ELSE t
    BY <2>1
  <2> QED
    BY <1>1, <2>3, <2>4 DEF Opens, x
<1> QED
  BY <1>2, <1>3 DEF u

(* The topmost container is gone, with what it added.                        *)
LEMMA PoppedTotals ==
  ASSUME NEW s \in Seq(Container), s # << >>, NEW t \in Int
  PROVE  LET u == SubSeq(s, 1, Len(s) - 1)
             e == s[Len(s)]
         IN  /\ u \in Seq(Container) /\ Len(u) = Len(s) - 1 /\ Len(s) \in Nat \ {0}
             /\ \A k \in 1 .. Len(s) - 1 : u[k] = s[k]
             /\ Writes(s, t) => Writes(u, t - (e.size - e.left))
             /\ \A kind \in Bracket :
                  Opens(s, kind, t) => Opens(u, kind, IF e.kind = kind THEN t - 1 ELSE t)
<1> DEFINE n == Len(s) - 1
           u == SubSeq(s, 1, n)
           e == s[n + 1]
<1>a. n \in Nat /\ Len(s) = n + 1 /\ \A k \in 1 .. n + 1 : s[k] \in Container
  BY EmptySeq, LenProperties, ElementOfSeq
<1>1. /\ n \in Nat /\ Len(s) = n + 1 /\ Len(u) = n /\ u \in Seq(Container)
      /\ e \in Container /\ \A k \in 1 .. n : u[k] = s[k]
  BY <1>a, SubSeqProperties
<1> HIDE DEF u
<1>2. ASSUME Writes(s, t) PROVE Writes(u, t - (e.size - e.left))
  <2> DEFINE v == [k \in 1 .. n + 1 |-> s[k].size - s[k].left]
             x == [k \in 1 .. n |-> u[k].size - u[k].left]
  <2>1. v[n + 1] = e.size - e.left /\ \A k \in 1 .. n : x[k] = v[k]
    BY <1>1
  <2>2. HasTotal(v, n + 1, t) /\ v[n + 1] \in Int
    BY <1>1, <1>2, <2>1 DEF Writes, Container
  <2> HIDE DEF v, x
  <2>3. HasTotal(x, n, t - v[n + 1])
    BY <1>1, <2>1, <2>2, TotalDown
  <2> QED
    BY <1>1, <2>1, <2>3 DEF Writes, x
<1>3. ASSUME NEW kind \in Bracket, Opens(s, kind, t)
      PROVE  Opens(u, kind, IF e.kind = kind THEN t - 1 ELSE t)
  <2> DEFINE v == [k \in 1 .. n + 1 |-> IF s[k].kind = kind THEN 1 ELSE 0]
             x == [k \in 1 .. n |-> IF u[k].kind = kind THEN 1 ELSE 0]
  <2>1. v[n + 1] = (IF e.kind = kind THEN 1 ELSE 0) /\ \A k \in 1 .. n : x[k] = v[k]
    BY <1>1
  <2>2. HasTotal(v, n + 1, t)
    BY <1>1, <1>3 DEF Opens
  <2> HIDE DEF v, x
  <2>3. HasTotal(x, n, t - v[n + 1])
    BY <1>1, <2>1, <2>2, TotalDown, SMTT(30)
  <2>4. t - v[n + 1] = IF e.kind = kind THEN t - 1 ELSE t
    BY <2>1
  <2> QED
    BY <1>1, <2>3, <2>4 DEF Opens, x
<1> QED
  BY <1>1, <1>2, <1>3 DEF u

(* What the totals are made of is what they depend on.                       *)
LEMMA SameTotals ==
  ASSUME NEW s \in Seq(Container), NEW u \in Seq(Container), Len(u) = Len(s), NEW t,
         \A k \in 1 .. Len(s) : u[k].kind = s[k].kind
  PROVE  /\ \A kind \in Bracket : Opens(s, kind, t) => Opens(u, kind, t)
         /\ (\A k \in 1 .. Len(s) : u[k].size = s[k].size /\ u[k].left = s[k].left)
              => (Writes(s, t) => Writes(u, t))
<1>1. ASSUME NEW kind \in Bracket PROVE Opens(s, kind, t) => Opens(u, kind, t)
  <2>1. [k \in 1 .. Len(s) |-> IF s[k].kind = kind THEN 1 ELSE 0]
          = [k \in 1 .. Len(u) |-> IF u[k].kind = kind THEN 1 ELSE 0]
    OBVIOUS
  <2> QED
    BY <2>1 DEF Opens
<1>2. ASSUME \A k \in 1 .. Len(s) : u[k].size = s[k].size /\ u[k].left = s[k].left
      PROVE  Writes(s, t) => Writes(u, t)
  <2>1. [k \in 1 .. Len(s) |-> s[k].size - s[k].left] = [k \in 1 .. Len(u) |-> u[k].size - u[k].left]
    BY <1>2
  <2> QED
    BY <2>1 DEF Writes
<1> QED
  BY <1>1, <1>2

(* The fields of a container, and the two that change.                       *)
LEMMA ContainerFields ==
  ASSUME NEW e \in Container
  PROVE  /\ e.kind \in Bracket /\ e.size \in Int /\ e.left \in Int /\ e.used \in Seq(Word)
         /\ LET f == [e EXCEPT !.left = @ - 1]
            IN  /\ f \in Container
                /\ f.kind = e.kind /\ f.size = e.size /\ f.used = e.used /\ f.left = e.left - 1
<1> DEFINE Used == Seq(Word)
<1>1. e \in [kind : Bracket, size : Int, left : Int, used : Used]
  BY DEF Container
<1> HIDE DEF Used
<1>2. /\ e.kind \in Bracket /\ e.size \in Int /\ e.left \in Int /\ e.used \in Used
  BY <1>1
<1> DEFINE f == [e EXCEPT !.left = @ - 1]
<1>3. /\ f \in [kind : Bracket, size : Int, left : Int, used : Used]
      /\ f.kind = e.kind /\ f.size = e.size /\ f.used = e.used /\ f.left = e.left - 1
  BY <1>1, <1>2
<1> QED
  BY <1>2, <1>3 DEF Container, Used

(* One more member of the topmost container is written.                      *)
LEMMA CountedTotals ==
  ASSUME NEW s \in Seq(Container), NEW t \in Int
  PROVE  LET u == Counted(s)
         IN  /\ u \in Seq(Container) /\ Len(u) = Len(s) /\ Len(s) \in Nat
             /\ \A k \in 1 .. Len(s) :
                  /\ u[k].kind = s[k].kind /\ u[k].size = s[k].size /\ u[k].used = s[k].used
                  /\ u[k].left = IF k = Len(s) THEN s[k].left - 1 ELSE s[k].left
             /\ \A kind \in Bracket : Opens(s, kind, t) => Opens(u, kind, t)
             /\ Writes(s, t) => Writes(u, IF s = << >> THEN t ELSE t + 1)
<1> DEFINE n == Len(s)
           u == Counted(s)
<1>1. n \in Nat /\ \A k \in 1 .. n : s[k] \in Container
  BY LenProperties, ElementOfSeq
<1>2. CASE s = << >>
  <2>1. u = s /\ n = 0
    BY <1>2 DEF Counted
  <2>2. \A k \in 1 .. n : FALSE
    BY <2>1
  <2> QED
    BY <1>1, <1>2, <2>1, <2>2, Zenon
<1>3. CASE s # << >>
  <2> DEFINE e == [s[n] EXCEPT !.left = @ - 1]
  <2>1. n \in 1 .. n /\ n \in Nat \ {0} /\ s[n] \in Container
    BY <1>1, <1>3, EmptySeq
  <2>2. /\ e \in Container
        /\ e.kind = s[n].kind /\ e.size = s[n].size /\ e.used = s[n].used /\ e.left = s[n].left - 1
    BY <2>1, ContainerFields
  <2>3. u = [s EXCEPT ![n] = e]
    BY <1>3 DEF Counted
  <2> HIDE DEF e
  <2>4. /\ [s EXCEPT ![n] = e] \in Seq(Container) /\ Len([s EXCEPT ![n] = e]) = n
        /\ \A k \in 1 .. n : [s EXCEPT ![n] = e][k] = IF k = n THEN e ELSE s[k]
    BY <2>1, <2>2, ExceptSeq
  <2> HIDE DEF u
  <2>5. u \in Seq(Container) /\ Len(u) = n /\ \A k \in 1 .. n : u[k] = IF k = n THEN e ELSE s[k]
    BY <2>3, <2>4
  <2>6. \A k \in 1 .. n :
          /\ u[k].kind = s[k].kind /\ u[k].size = s[k].size /\ u[k].used = s[k].used
          /\ u[k].left = IF k = n THEN s[k].left - 1 ELSE s[k].left
    BY <2>2, <2>5
  <2>7. \A kind \in Bracket : Opens(s, kind, t) => Opens(u, kind, t)
    BY <2>5, <2>6, SameTotals
  <2>8. ASSUME Writes(s, t) PROVE Writes(u, t + 1)
    <3> DEFINE v == [k \in 1 .. n |-> s[k].size - s[k].left]
               x == [k \in 1 .. n |-> u[k].size - u[k].left]
    <3>1. \A k \in 1 .. n - 1 : x[k] = v[k]
      BY <2>1, <2>6
    <3>a. s[n].size \in Int /\ s[n].left \in Int
      BY <2>1, ContainerFields
    <3>b. x[n] = s[n].size - (s[n].left - 1) /\ v[n] = s[n].size - s[n].left
      BY <2>1, <2>6
    <3>2. x[n] \in Int /\ v[n] \in Int /\ x[n] - v[n] = 1
      BY <3>a, <3>b
    <3>3. HasTotal(v, n, t)
      BY <2>8 DEF Writes
    <3> HIDE DEF v, x
    <3>4. HasTotal(x, n, t + x[n] - v[n])
      BY <2>1, <3>1, <3>2, <3>3, TotalTop
    <3>5. t + x[n] - v[n] = t + 1
      BY <3>2
    <3> QED
      BY <2>5, <3>4, <3>5 DEF Writes, x
  <2> QED
    BY <1>1, <1>3, <2>5, <2>6, <2>7, <2>8 DEF u
<1> QED
  BY <1>2, <1>3

(* A key noted in the topmost container.                                     *)
LEMMA NotedTotals ==
  ASSUME NEW s \in Seq(Container), s # << >>, NEW used \in Seq(Word), NEW t
  PROVE  LET u == [s EXCEPT ![Len(s)].used = used]
         IN  /\ u \in Seq(Container) /\ Len(u) = Len(s) /\ Len(s) \in Nat \ {0}
             /\ \A k \in 1 .. Len(s) :
                  /\ u[k].kind = s[k].kind /\ u[k].size = s[k].size /\ u[k].left = s[k].left
                  /\ u[k].used = IF k = Len(s) THEN used ELSE s[k].used
             /\ \A kind \in Bracket : Opens(s, kind, t) => Opens(u, kind, t)
             /\ Writes(s, t) => Writes(u, t)
<1> DEFINE n == Len(s)
           e == [s[n] EXCEPT !.used = used]
           u == [s EXCEPT ![n] = e]
<1>1. n \in 1 .. n /\ n \in Nat \ {0} /\ \A k \in 1 .. n : s[k] \in Container
  BY EmptySeq, LenProperties, ElementOfSeq
<1>2. /\ e \in Container
      /\ e.kind = s[n].kind /\ e.size = s[n].size /\ e.left = s[n].left /\ e.used = used
  BY <1>1 DEF Container
<1> HIDE DEF e
<1>3. /\ [s EXCEPT ![n] = e] \in Seq(Container) /\ Len([s EXCEPT ![n] = e]) = n
      /\ \A k \in 1 .. n : [s EXCEPT ![n] = e][k] = IF k = n THEN e ELSE s[k]
  BY <1>1, <1>2, ExceptSeq
<1>4. u \in Seq(Container) /\ Len(u) = n /\ \A k \in 1 .. n : u[k] = IF k = n THEN e ELSE s[k]
  BY <1>3
<1>5. [s EXCEPT ![Len(s)].used = used] = u
  BY DEF e
<1> HIDE DEF u
<1>6. \A k \in 1 .. n :
        /\ u[k].kind = s[k].kind /\ u[k].size = s[k].size /\ u[k].left = s[k].left
        /\ u[k].used = IF k = n THEN used ELSE s[k].used
  BY <1>2, <1>4
<1>7. /\ \A kind \in Bracket : Opens(s, kind, t) => Opens(u, kind, t)
      /\ Writes(s, t) => Writes(u, t)
  BY <1>4, <1>6, SameTotals, ZenonT(60)
<1> QED
  BY <1>1, <1>4, <1>5, <1>6, <1>7

-----------------------------------------------------------------------------
(* The generator's account and the counter's, side by side.  A container is  *)
(* counted by the one when it closes, by the other when it opens; its        *)
(* members, when it closes and as they come.                                 *)
Piece == [kind : Kinds \cup {"open", "close", "key"}, word : Word]

GenTypes ==
  /\ text \in Seq(Piece) /\ stack \in Seq(Container) /\ options \in AllOptions
  /\ DOMAIN intent = Counters \cup Flags
  /\ \A c \in Counters : intent[c] \in Int

\* Where the recursion is.  A draw of members is less than 255, and no more keys are kept
\* than there were members to name: a key is repeated by a draw that fits a byte.
Placed ==
  /\ pc = "done" => stack = << >>
  /\ pc \in {"key", "close"} => stack # << >>
  /\ pc = "key" => Top.kind = "object" /\ Len(Top.used) + Top.left =< Top.size
  /\ pc = "close" => Top.left = 0
  /\ \A k \in 1 .. Len(stack) :
       /\ stack[k].size \in 0 .. 254 /\ stack[k].left >= 0
       /\ Len(stack[k].used) + stack[k].left =< stack[k].size + 1
       /\ k < Len(stack) \/ pc \in {"value", "key"} => stack[k].left > 0

\* The members that are begun and not yet written: one in each container but the topmost,
\* and in that one if it has a key that awaits its value.
Started(s, p) ==
  IF s = << >> THEN 0
  ELSE IF p = "value" /\ s[Len(s)].kind = "object" THEN Len(s) ELSE Len(s) - 1

CountsAgree ==
  /\ IsCounts(Read)
  /\ Len(Read.in_array) = Len(stack)
  /\ \A k \in 1 .. Len(stack) : Read.in_array[k] = stack[k].kind
  /\ Read.deepest = intent["depth"]
  /\ intent["string"] = Read.string - Read.tagged
  /\ intent["number"] = Read.number + Read.tagged
  /\ intent["bool"] = Read.bool /\ intent["null"] = Read.null
  /\ \A kind \in Bracket : Opens(stack, kind, Read[kind] - intent[kind])
  /\ pc # "trapped" => Writes(stack, Read.members - intent["members"] - Started(stack, pc))

IntentInv == OnlyReading(CountsAfter, text) /\ GenTypes /\ Placed /\ CountsAgree

(* Reading one more token.                                                   *)
LEMMA ReadOn ==
  ASSUME OnlyReading(CountsAfter, text), text \in Seq(Piece), NEW t \in Piece,
         text' = Append(text, t)
  PROVE  /\ OnlyReading(CountsAfter', text') /\ Read' = Sax(Read, t)
         /\ text' \in Seq(Piece) /\ Len(text) \in Nat /\ Len(text') = Len(text) + 1
         /\ text'[Len(text) + 1] = t /\ \A k \in 1 .. Len(text) : text'[k] = text[k]
         /\ CountsAfter'[Len(text) + 1] = Sax(Read, t)
         /\ \A n \in 0 .. Len(text) : CountsAfter'[n] = CountsAfter[n]
<1> DEFINE L == Len(text)
           h == [n \in 0 .. L + 1 |-> IF n = L + 1 THEN Sax(CountsAfter[L], t) ELSE CountsAfter[n]]
<1>1. /\ text' \in Seq(Piece) /\ L \in Nat /\ Len(text') = L + 1
      /\ text'[L + 1] = t /\ \A k \in 1 .. L : text'[k] = text[k]
  BY AppendProperties
<1>2. OnlyReading(h, text')
  BY OneMoreRead
<1>3. h[L + 1] = Sax(CountsAfter[L], t) /\ \A n \in 0 .. L : h[n] = CountsAfter[n]
  BY <1>1
<1> HIDE DEF h
<1>4. CountsAfter' = h
  BY <1>2, CountsAreRead
<1>5. Read' = CountsAfter'[L + 1] /\ Read = CountsAfter[L]
  BY <1>1 DEF Read
<1> QED
  BY <1>1, <1>2, <1>3, <1>4, <1>5

(* A draw from n, where n fits a byte, is below n.                           *)
LEMMA PicksBelow == ASSUME NEW n \in 1 .. 255 PROVE Picks(n) \subseteq 0 .. n - 1
<1>1. ASSUME NEW b \in Byte PROVE Pick(n, b) \in 0 .. n - 1
  <2>1. n % 2^8 = n /\ b \in Nat
    BY BytesAssumption DEF Byte
  <2> QED
    BY <2>1 DEF Pick
<1> QED
  BY <1>1 DEF Picks

(* A draw of members fits a byte.                                            *)
LEMMA PicksFit == ASSUME NEW n \in Int, ~Traps(n) PROVE Picks(n) \subseteq 0 .. 254
<1>1. ASSUME NEW b \in Byte PROVE Pick(n, b) \in 0 .. 254
  <2>1. n > 0 => n % 2^8 \in 1 .. 255
    BY DEF Traps
  <2> QED
    BY <2>1, BytesAssumption DEF Pick, Byte
<1> QED
  BY <1>1 DEF Picks

(* What bodies and numbers are made of are words; a lone surrogate is        *)
(* flagged, and nothing else is one.                                         *)
LEMMA BodyWords ==
  /\ \A s \in StringBodies :
       s.word \in Word /\ ("lone_surrogate" \in s.raised <=> s.word \in Surrogates)
  /\ \A n \in Numbers :
       n.word \in Word /\ "lone_surrogate" \notin n.raised /\ n.word \notin Surrogates
<1>1. ASSUME NEW n \in Picks(7)
      PROVE  Escapes[n + 1] \in Word
  <2>1. n + 1 \in 1 .. 7
    BY PicksBelow
  <2> QED
    BY <2>1 DEF Word
<1>2. ASSUME NEW n \in Picks(5)
      PROVE  Boundaries[n + 1] \in Word /\ Boundaries[n + 1] \notin Surrogates
  <2>1. n + 1 \in 1 .. 5
    BY PicksBelow
  <2>2. \A k \in 1 .. 5 : Boundaries[k] \in {"0", "-0", "1e309", "1e-400", "12345678901234567890"}
    BY DEF Boundaries
  <2>3. \A w \in {"0", "-0", "1e309", "1e-400", "12345678901234567890"} : w \notin Surrogates
    BY DEF Surrogates
  <2> QED
    BY <2>1, <2>2, <2>3 DEF Word
<1>3. \A w \in Characters : w \in {"", "a", "/"}
  BY DEF Characters
<1>4. \A w \in {"", "a", "/", "form", "huge", "digits"} : w \in Word /\ w \notin Surrogates
  BY DEF Word, Surrogates
<1>5. ASSUME NEW s \in StringBodies
      PROVE  s.word \in Word /\ ("lone_surrogate" \in s.raised <=> s.word \in Surrogates)
  <2>1. CASE \E n \in Picks(7) :
               /\ s.word = Escapes[n + 1]
               /\ s.raised = IF Escapes[n + 1] \in Surrogates THEN {"lone_surrogate"}
                             ELSE {"control_char"}
    BY <1>1, <2>1
  <2>2. CASE s.word \in Characters /\ s.raised = {}
    BY <1>3, <1>4, <2>2
  <2> QED
    BY <2>1, <2>2 DEF StringBodies
<1>6. ASSUME NEW n \in Numbers
      PROVE  n.word \in Word /\ "lone_surrogate" \notin n.raised /\ n.word \notin Surrogates
  <2>1. CASE \E m \in Picks(5) : n.word = Boundaries[m + 1] /\ n.raised = {"boundary_number"}
    BY <1>2, <2>1
  <2>2. CASE n.word \in {"form", "huge", "digits"} /\ n.raised \subseteq {"out_of_range_number"}
    BY <1>4, <2>2
  <2> QED
    BY <2>1, <2>2 DEF Numbers
<1> QED
  BY <1>5, <1>6

(* Where a value or a container ends, nothing is begun in the topmost one.   *)
LEMMA StartedNext ==
  \A s : Started(s, NextIn(s)) = IF s = << >> THEN 0 ELSE Len(s) - 1
BY DEF Started, NextIn

(* What comes next has its place, if there is room for it.                   *)
LEMMA PlacedNext ==
  ASSUME stack' \in Seq(Container), pc' = NextIn(stack'),
         \A k \in 1 .. Len(stack') :
           /\ stack'[k].size \in 0 .. 254 /\ stack'[k].left >= 0
           /\ Len(stack'[k].used) + stack'[k].left
                =< stack'[k].size + (IF k = Len(stack') THEN 0 ELSE 1)
           /\ k < Len(stack') => stack'[k].left > 0
  PROVE  Placed'
<1> PICK s : s = stack'
  OBVIOUS
<1>1. s \in Seq(Container) /\ Len(s) \in Nat
  BY LenProperties
<1>2. ASSUME NEW k \in 1 .. Len(s)
      PROVE  /\ s[k] \in Container /\ s[k].left \in Int /\ s[k].size \in Int /\ Len(s[k].used) \in Nat
             /\ s[k].kind \in Bracket
  <2>1. s[k] \in Container
    BY <1>1, ElementOfSeq
  <2> QED
    BY <2>1, ContainerFields, LenProperties
<1>3. CASE s = << >>
  <2>1. pc' = "done" /\ Len(s) = 0
    BY <1>3 DEF NextIn
  <2> QED
    BY <1>3, <2>1 DEF Placed
<1>4. CASE s # << >>
  <2>1. Len(s) \in 1 .. Len(s)
    BY <1>1, <1>4, EmptySeq
  <2>2. /\ pc' \in {"close", "key", "value"}
        /\ pc' = "close" <=> s[Len(s)].left = 0
        /\ pc' = "key" => s[Len(s)].kind = "object"
    BY <1>4 DEF NextIn
  <2>3. /\ pc' = "key" => Top'.kind = "object" /\ Len(Top'.used) + Top'.left =< Top'.size
        /\ pc' = "close" => Top'.left = 0
    BY <1>2, <2>1, <2>2 DEF Top
  <2>4. ASSUME NEW k \in 1 .. Len(stack')
        PROVE  /\ stack'[k].size \in 0 .. 254 /\ stack'[k].left >= 0
               /\ Len(stack'[k].used) + stack'[k].left =< stack'[k].size + 1
               /\ k < Len(stack') \/ pc' \in {"value", "key"} => stack'[k].left > 0
    <3>1. k < Len(s) \/ k = Len(s)
      BY <1>1
    <3> QED
      BY <1>1, <1>2, <2>2, <3>1
  <2> QED
    BY <1>4, <2>2, <2>3, <2>4 DEF Placed
<1> QED
  BY <1>3, <1>4

(* The open containers, one by one.                                          *)
LEMMA OpenContainers ==
  ASSUME stack \in Seq(Container)
  PROVE  /\ Len(stack) \in Nat /\ (stack # << >> <=> Len(stack) \in 1 .. Len(stack))
         /\ \A k \in 1 .. Len(stack) :
              /\ stack[k] \in Container /\ stack[k].kind \in Bracket
              /\ stack[k].left \in Int /\ stack[k].size \in Int /\ Len(stack[k].used) \in Nat
<1>1. Len(stack) \in Nat /\ \A k \in 1 .. Len(stack) : stack[k] \in Container
  BY LenProperties, ElementOfSeq
<1>2. stack # << >> <=> Len(stack) \in 1 .. Len(stack)
  BY <1>1, EmptySeq
<1> QED
  BY <1>1, <1>2, ContainerFields, LenProperties

(* A value is a member of the topmost container, if that is an array.        *)
LEMMA MemberHere ==
  ASSUME IntentInv
  PROVE  Member(Read) = IF stack # << >> /\ Top.kind = "array" THEN 1 ELSE 0
<1>1. Len(stack) \in Nat /\ (stack # << >> <=> Len(stack) \in 1 .. Len(stack))
  BY OpenContainers DEF IntentInv, GenTypes
<1>2. Read.in_array \in Seq(Bracket) /\ Len(Read.in_array) = Len(stack)
  BY DEF IntentInv, CountsAgree, IsCounts
<1>3. Read.in_array # << >> <=> stack # << >>
  BY <1>1, <1>2, EmptySeq
<1> QED
  BY <1>1, <1>2, <1>3 DEF Member, Last, Top, IntentInv, CountsAgree

(* Recording the depth.                                                      *)
LEMMA ReachedCounts ==
  ASSUME IntentInv
  PROVE  /\ DOMAIN Reached(intent) = Counters \cup Flags
         /\ Reached(intent)["depth"] = Deeper(Read)
         /\ \A c \in (Counters \cup Flags) \ {"depth"} : Reached(intent)[c] = intent[c]
<1>1. DOMAIN intent = Counters \cup Flags /\ "depth" \in Counters
  BY DEF IntentInv, GenTypes, Counters
<1>2. Len(Read.in_array) = Len(stack) /\ Read.deepest = intent["depth"]
  BY DEF IntentInv, CountsAgree
<1>3. Reached(intent) = [intent EXCEPT !["depth"] = Deeper(Read)]
  BY <1>2 DEF Reached, Deeper
<1> QED
  BY <1>1, <1>3

(* A scalar is counted under its kind.                                       *)
LEMMA WroteCounts ==
  ASSUME IntentInv, NEW kind \in Scalar, NEW word, NEW raised \in SUBSET Flags,
         Wrote(kind, word, raised)
  PROVE  /\ DOMAIN intent' = Counters \cup Flags
         /\ \A c \in Counters :
              intent'[c] = IF c = kind THEN intent[c] + 1
                           ELSE IF c = "depth" THEN Deeper(Read) ELSE intent[c]
<1>1. DOMAIN intent' = Counters \cup Flags
  BY DEF Wrote
<1>2. ASSUME NEW c \in Counters
      PROVE  intent'[c] = IF c = kind THEN intent[c] + 1
                          ELSE IF c = "depth" THEN Deeper(Read) ELSE intent[c]
  <2>1. c \notin raised /\ kind # "depth" /\ c \in Counters \cup Flags
    BY DEF Counters, Flags, Scalar
  <2>2. intent'[c] = IF c = kind THEN Reached(intent)[c] + 1 ELSE Reached(intent)[c]
    BY <2>1, Zenon DEF Wrote
  <2>3. Reached(intent)[c] = IF c = "depth" THEN Deeper(Read) ELSE intent[c]
    BY <2>1, ReachedCounts
  <2> QED
    BY <2>1, <2>2, <2>3
<1> QED
  BY <1>1, <1>2

(* A scalar token is read on.                                                *)
LEMMA WroteRead ==
  ASSUME IntentInv, NEW kind \in Scalar, NEW word \in Word, NEW raised,
         Wrote(kind, word, raised)
  PROVE  /\ OnlyReading(CountsAfter', text') /\ text' \in Seq(Piece)
         /\ Read' = Sax(Read, Token(kind, word))
<1>1. Token(kind, word) \in Piece
  BY DEF Token, Piece, Scalar, Kinds
<1> QED
  BY <1>1, ReadOn DEF IntentInv, GenTypes, Wrote

(* A scalar keeps the accounts.                                              *)
LEMMA WroteAgrees ==
  ASSUME IntentInv, pc = "value", NEW kind \in Scalar, NEW word \in Word,
         NEW raised \in SUBSET Flags, Wrote(kind, word, raised)
  PROVE  IntentInv'
<1> DEFINE c == Read
           d == Read'
           n == Len(stack)
           H == IF kind = "number" /\ word \in Huge THEN {"string", "tagged"} ELSE {kind}
<1>1. OnlyReading(CountsAfter', text') /\ text' \in Seq(Piece) /\ d = Sax(c, Token(kind, word))
  BY WroteRead
<1>2. IsCounts(c) /\ OneMore(c, d, H) /\ d.in_array = c.in_array
  BY <1>1, SaxScalar DEF IntentInv, CountsAgree
<1>3. stack' = Counted(stack) /\ pc' = NextIn(stack') /\ options' = options
  BY DEF Wrote
<1>4. stack \in Seq(Container) /\ n \in Nat
  BY LenProperties DEF IntentInv, GenTypes
<1>5. /\ stack' \in Seq(Container) /\ Len(stack') = n
      /\ \A k \in 1 .. n :
           /\ stack'[k].kind = stack[k].kind /\ stack'[k].size = stack[k].size
           /\ stack'[k].used = stack[k].used
           /\ stack'[k].left = IF k = n THEN stack[k].left - 1 ELSE stack[k].left
  BY <1>3, <1>4, CountedTotals
<1>6. /\ DOMAIN intent' = Counters \cup Flags
      /\ \A f \in Counters :
           intent'[f] = IF f = kind THEN intent[f] + 1
                        ELSE IF f = "depth" THEN Deeper(c) ELSE intent[f]
  BY WroteCounts
<1>7. GenTypes'
  <2>1. Deeper(c) \in Int
    BY <1>2 DEF Deeper, IsCounts, Count
  <2>2. \A f \in Counters : intent'[f] \in Int
    BY <1>6, <2>1 DEF IntentInv, GenTypes
  <2> QED
    BY <1>1, <1>3, <1>5, <1>6, <2>2 DEF IntentInv, GenTypes
<1>8. Placed'
  <2>1. ASSUME NEW k \in 1 .. n
        PROVE  /\ stack'[k].size \in 0 .. 254 /\ stack'[k].left >= 0
               /\ Len(stack'[k].used) + stack'[k].left
                    =< stack'[k].size + (IF k = n THEN 0 ELSE 1)
               /\ k < n => stack'[k].left > 0
    <3>1. stack[k].left \in Int /\ Len(stack[k].used) \in Nat /\ stack[k].size \in Int
      BY <1>4, OpenContainers
    <3>2. /\ stack[k].size \in 0 .. 254 /\ stack[k].left > 0
          /\ Len(stack[k].used) + stack[k].left =< stack[k].size + 1
      BY <1>4 DEF IntentInv, Placed
    <3>3. /\ stack'[k].size = stack[k].size /\ Len(stack'[k].used) = Len(stack[k].used)
          /\ stack'[k].left = IF k = n THEN stack[k].left - 1 ELSE stack[k].left
      BY <1>5
    <3> QED
      BY <3>1, <3>2, <3>3
  <2> QED
    BY <1>3, <1>5, <2>1, PlacedNext
<1>9. CountsAgree'
  <2>1. /\ IsCounts(d) /\ Len(d.in_array) = Len(stack')
        /\ \A k \in 1 .. Len(stack') : d.in_array[k] = stack'[k].kind
    BY <1>2, <1>5 DEF OneMore, IntentInv, CountsAgree
  <2>2. d.deepest = intent'["depth"]
    BY <1>2, <1>6 DEF OneMore, Counters, Scalar
  <2>3. /\ intent'["string"] = d.string - d.tagged /\ intent'["number"] = d.number + d.tagged
        /\ intent'["bool"] = d.bool /\ intent'["null"] = d.null
    <3>1. /\ {"string", "number", "bool", "null", "tagged"} \subseteq Count \ {"members", "deepest"}
          /\ {"string", "number", "bool", "null"} \subseteq Counters \ {"depth"}
      BY DEF Count, Scalar, Counters
    <3>2. \A k \in {"string", "number", "bool", "null", "tagged"} :
            c[k] \in Int /\ d[k] = IF k \in H THEN c[k] + 1 ELSE c[k]
      BY <1>2, <3>1 DEF OneMore, IsCounts
    <3>3. \A f \in {"string", "number", "bool", "null"} :
            intent'[f] = IF f = kind THEN intent[f] + 1 ELSE intent[f]
      BY <1>6, <3>1
    <3>4. /\ intent["string"] = c.string - c.tagged /\ intent["number"] = c.number + c.tagged
          /\ intent["bool"] = c.bool /\ intent["null"] = c.null
      BY DEF IntentInv, CountsAgree
    <3> QED
      BY <3>2, <3>3, <3>4 DEF Scalar
  <2>4. ASSUME NEW b \in Bracket PROVE Opens(stack', b, d[b] - intent'[b])
    <3>1. /\ b \in Count \ {"members", "deepest"} /\ b \notin H
          /\ b \in Counters \ {"depth"} /\ b # kind
      BY DEF Bracket, Count, Scalar, Counters
    <3>2. d[b] = c[b] /\ intent'[b] = intent[b] /\ c[b] - intent[b] \in Int
      BY <1>2, <1>6, <3>1 DEF OneMore, IsCounts, IntentInv, GenTypes
    <3>3. Opens(stack, b, c[b] - intent[b])
      BY DEF IntentInv, CountsAgree
    <3> QED
      BY <1>3, <1>4, <3>2, <3>3, CountedTotals
  <2>5. Writes(stack', d.members - intent'["members"] - Started(stack', pc'))
    <3>1. /\ "members" \in Count /\ "members" \in Counters /\ "members" # kind /\ "members" # "depth"
      BY DEF Count, Counters, Scalar
    <3>2. /\ d.members = c.members + Member(c) /\ intent'["members"] = intent["members"]
          /\ c.members \in Int /\ intent["members"] \in Int
      BY <1>2, <1>6, <3>1 DEF OneMore, IsCounts, IntentInv, GenTypes
    <3>3. Writes(stack, c.members - intent["members"] - Started(stack, pc))
      BY DEF IntentInv, CountsAgree
    <3>4. Started(stack', pc') = IF stack = << >> THEN 0 ELSE n - 1
      BY <1>3, <1>4, <1>5, StartedNext, EmptySeq
    <3>5. Started(stack, pc) = IF stack = << >> THEN 0
                               ELSE IF Top.kind = "object" THEN n ELSE n - 1
      BY DEF Started, Top
    <3>6. Started(stack, pc) \in Int
      BY <1>4, <3>5
    <3>7. Writes(stack', IF stack = << >> THEN c.members - intent["members"] - Started(stack, pc)
                         ELSE c.members - intent["members"] - Started(stack, pc) + 1)
      BY <1>3, <1>4, <3>2, <3>3, <3>6, CountedTotals
    <3>8. stack # << >> => Top.kind \in Bracket
      BY <1>4, OpenContainers DEF Top
    <3>9. d.members - intent'["members"] - Started(stack', pc')
            = IF stack = << >> THEN c.members - intent["members"] - Started(stack, pc)
              ELSE c.members - intent["members"] - Started(stack, pc) + 1
      BY <1>4, <3>2, <3>4, <3>5, <3>8, MemberHere, SMTT(30) DEF Bracket
    <3> QED
      BY <3>7, <3>9
  <2> QED
    BY <2>1, <2>2, <2>3, <2>4, <2>5 DEF CountsAgree
<1> QED
  BY <1>1, <1>7, <1>8, <1>9 DEF IntentInv

(* An opened container keeps the accounts: it is begun, and so not written.  *)
LEMMA OpenAgrees ==
  ASSUME IntentInv, pc = "value", NEW kind \in Bracket, NEW size \in 0 .. 254,
         text' = Append(text, Token("open", kind)),
         stack' = Append(stack, [kind |-> kind, size |-> size, left |-> size, used |-> << >>]),
         pc' = NextIn(stack'), intent' = Reached(intent), options' = options
  PROVE  IntentInv'
<1> DEFINE c == Read
           d == Read'
           n == Len(stack)
           e == [kind |-> kind, size |-> size, left |-> size, used |-> << >>]
<1>1. OnlyReading(CountsAfter', text') /\ text' \in Seq(Piece) /\ d = Sax(c, Token("open", kind))
  <2>1. Token("open", kind) \in Piece
    BY DEF Token, Piece, Bracket, Word, Kinds
  <2> QED
    BY <2>1, ReadOn DEF IntentInv, GenTypes
<1>2. IsCounts(c) /\ OneMore(c, d, {kind}) /\ d.in_array = Append(c.in_array, kind)
  BY <1>1, SaxOpen DEF IntentInv, CountsAgree
<1>3. stack \in Seq(Container) /\ n \in Nat
  BY LenProperties DEF IntentInv, GenTypes
<1>4. /\ e \in Container /\ e.size = size /\ e.left = size /\ e.kind = kind
      /\ e.used = << >> /\ Len(e.used) = 0
  <2> DEFINE Used == Seq(Word)
  <2>1. << >> \in Used /\ Len(<< >>) = 0
    BY EmptySeq
  <2>2. Container = [kind : Bracket, size : Int, left : Int, used : Used]
    BY DEF Container
  <2> HIDE DEF Used
  <2>3. e \in [kind : Bracket, size : Int, left : Int, used : Used]
    BY <2>1
  <2> QED
    BY <2>1, <2>2, <2>3
<1>5. /\ stack' = Append(stack, e) /\ stack' \in Seq(Container) /\ Len(stack') = n + 1
      /\ stack'[n + 1] = e /\ \A k \in 1 .. n : stack'[k] = stack[k]
  BY <1>3, <1>4, AppendProperties
<1> HIDE DEF e
<1>6. /\ DOMAIN intent' = Counters \cup Flags /\ intent'["depth"] = Deeper(c)
      /\ \A f \in (Counters \cup Flags) \ {"depth"} : intent'[f] = intent[f]
  BY ReachedCounts
<1>7. GenTypes'
  <2>1. Deeper(c) \in Int
    BY <1>2 DEF Deeper, IsCounts, Count
  <2>2. \A f \in Counters : intent'[f] \in Int
    BY <1>6, <2>1 DEF IntentInv, GenTypes
  <2> QED
    BY <1>1, <1>5, <1>6, <2>2 DEF IntentInv, GenTypes
<1>8. Placed'
  <2>1. ASSUME NEW k \in 1 .. n + 1
        PROVE  /\ stack'[k].size \in 0 .. 254 /\ stack'[k].left >= 0
               /\ Len(stack'[k].used) + stack'[k].left
                    =< stack'[k].size + (IF k = n + 1 THEN 0 ELSE 1)
               /\ k < n + 1 => stack'[k].left > 0
    <3>1. CASE k = n + 1
      BY <1>4, <1>5, <3>1, SMTT(30)
    <3>2. CASE k \in 1 .. n
      <4>1. stack[k].left \in Int /\ Len(stack[k].used) \in Nat /\ stack[k].size \in Int
        BY <1>3, <3>2, OpenContainers
      <4>2. /\ stack[k].size \in 0 .. 254 /\ stack[k].left > 0
            /\ Len(stack[k].used) + stack[k].left =< stack[k].size + 1
        BY <1>3, <3>2 DEF IntentInv, Placed
      <4>3. stack'[k] = stack[k] /\ k # n + 1
        BY <1>3, <1>5, <3>2
      <4> QED
        BY <4>1, <4>2, <4>3
    <3> QED
      BY <1>3, <3>1, <3>2, SMTT(30)
  <2> QED
    BY <1>5, <2>1, PlacedNext
<1>9. CountsAgree'
  <2>1. /\ IsCounts(d) /\ Len(d.in_array) = Len(stack')
        /\ \A k \in 1 .. Len(stack') : d.in_array[k] = stack'[k].kind
    <3>1. c.in_array \in Seq(Bracket) /\ Len(c.in_array) = n
      BY DEF IntentInv, CountsAgree, IsCounts
    <3>2. /\ Len(d.in_array) = n + 1 /\ d.in_array[n + 1] = kind
          /\ \A k \in 1 .. n : d.in_array[k] = c.in_array[k]
      BY <1>2, <3>1, AppendProperties
    <3>3. \A k \in 1 .. n : c.in_array[k] = stack[k].kind
      BY DEF IntentInv, CountsAgree
    <3>4. ASSUME NEW k \in 1 .. n + 1 PROVE d.in_array[k] = stack'[k].kind
      <4>1. k = n + 1 \/ k \in 1 .. n
        BY <1>3
      <4> QED
        BY <1>4, <1>5, <3>2, <3>3, <4>1
    <3> QED
      BY <1>2, <1>5, <3>2, <3>4 DEF OneMore
  <2>2. d.deepest = intent'["depth"]
    BY <1>2, <1>6 DEF OneMore
  <2>3. /\ intent'["string"] = d.string - d.tagged /\ intent'["number"] = d.number + d.tagged
        /\ intent'["bool"] = d.bool /\ intent'["null"] = d.null
    <3>1. /\ {"string", "number", "bool", "null", "tagged"} \subseteq Count \ {"members", "deepest"}
          /\ {"string", "number", "bool", "null"} \subseteq Counters \ {"depth"}
          /\ kind \notin {"string", "number", "bool", "null", "tagged"}
      BY DEF Count, Scalar, Counters, Bracket
    <3>2. \A k \in {"string", "number", "bool", "null", "tagged"} : d[k] = c[k]
      BY <1>2, <3>1 DEF OneMore
    <3>3. \A f \in {"string", "number", "bool", "null"} : intent'[f] = intent[f]
      BY <1>6, <3>1
    <3> QED
      BY <3>2, <3>3 DEF IntentInv, CountsAgree
  <2>4. ASSUME NEW b \in Bracket PROVE Opens(stack', b, d[b] - intent'[b])
    <3>1. b \in Count \ {"members", "deepest"} /\ b \in Counters \ {"depth"}
      BY DEF Bracket, Count, Counters
    <3>2. d[b] = (IF kind = b THEN c[b] + 1 ELSE c[b]) /\ intent'[b] = intent[b]
      BY <1>2, <1>6, <3>1 DEF OneMore
    <3>3. c[b] \in Int /\ intent[b] \in Int
      BY <1>2, <3>1 DEF IsCounts, IntentInv, GenTypes
    <3>4. Opens(stack, b, c[b] - intent[b])
      BY DEF IntentInv, CountsAgree
    <3>5. Opens(stack', b, IF kind = b THEN c[b] - intent[b] + 1 ELSE c[b] - intent[b])
      BY <1>3, <1>4, <1>5, <3>3, <3>4, PushedTotals, SMTT(30)
    <3>6. d[b] - intent'[b] = IF kind = b THEN c[b] - intent[b] + 1 ELSE c[b] - intent[b]
      BY <3>2, <3>3
    <3> QED
      BY <3>5, <3>6
  <2>5. Writes(stack', d.members - intent'["members"] - Started(stack', pc'))
    <3>1. "members" \in Count /\ "members" \in Counters \ {"depth"}
      BY DEF Count, Counters
    <3>2. /\ d.members = c.members + Member(c) /\ intent'["members"] = intent["members"]
          /\ c.members \in Int /\ intent["members"] \in Int
      BY <1>2, <1>6, <3>1 DEF OneMore, IsCounts, IntentInv, GenTypes
    <3>3. Writes(stack, c.members - intent["members"] - Started(stack, pc))
      BY DEF IntentInv, CountsAgree
    <3>4. Started(stack', pc') = n
      <4>1. stack' # << >>
        BY <1>3, <1>5, EmptySeq
      <4>2. Started(stack', pc') = Len(stack') - 1
        BY <4>1, StartedNext
      <4> QED
        BY <1>3, <1>5, <4>2
    <3>5. /\ Started(stack, pc) = IF stack = << >> THEN 0
                                  ELSE IF Top.kind = "object" THEN n ELSE n - 1
          /\ stack = << >> => n = 0
      BY DEF Started, Top
    <3>6. Started(stack, pc) \in Int
      BY <1>3, <3>5
    <3>7. Writes(stack', c.members - intent["members"] - Started(stack, pc))
      BY <1>3, <1>4, <1>5, <3>2, <3>3, <3>6, PushedTotals, SMTT(30)
    <3>8. stack # << >> => Top.kind \in Bracket
      BY <1>3, OpenContainers DEF Top
    <3>9. Started(stack', pc') = Started(stack, pc) + Member(c)
      <4>1. Member(c) = IF stack # << >> /\ Top.kind = "array" THEN 1 ELSE 0
        BY MemberHere
      <4>2. CASE stack = << >>
        BY <3>4, <3>5, <4>1, <4>2
      <4>3. CASE stack # << >> /\ Top.kind = "object"
        BY <1>3, <3>4, <3>5, <4>1, <4>3
      <4>4. CASE stack # << >> /\ Top.kind = "array"
        BY <1>3, <3>4, <3>5, <4>1, <4>4
      <4> QED
        BY <3>8, <4>2, <4>3, <4>4 DEF Bracket
    <3>10. Member(c) \in Int
      BY DEF Member
    <3>11. d.members - intent'["members"] - Started(stack', pc')
            = c.members - intent["members"] - Started(stack, pc)
      BY <3>2, <3>6, <3>9, <3>10
    <3> QED
      BY <3>7, <3>11
  <2> QED
    BY <2>1, <2>2, <2>3, <2>4, <2>5 DEF CountsAgree
<1> QED
  BY <1>1, <1>7, <1>8, <1>9 DEF IntentInv

(* A closed container keeps the accounts: its members move from the counter  *)
(* of what is open to the record, and it is one more member written.         *)
LEMMA CloseAgrees == ASSUME IntentInv, Close PROVE IntentInv'
<1> DEFINE c == Read
           d == Read'
           n == Len(stack)
           u == SubSeq(stack, 1, n - 1)
<1>1. /\ pc = "close" /\ stack # << >> /\ Top.left = 0
      /\ stack' = Counted(u) /\ pc' = NextIn(stack') /\ options' = options
      /\ text' = Append(text, Token("close", Top.kind))
      /\ intent' = [intent EXCEPT ![Top.kind] = @ + 1, !["members"] = @ + Top.size]
  BY DEF Close, IntentInv, Placed
<1>2. /\ stack \in Seq(Container) /\ n \in Nat \ {0}
      /\ Top.kind \in Bracket /\ Top.size \in Int /\ Top = stack[n]
  BY <1>1, OpenContainers DEF Top, IntentInv, GenTypes
<1>3. OnlyReading(CountsAfter', text') /\ text' \in Seq(Piece) /\ d = Sax(c, Token("close", Top.kind))
  <2>1. Token("close", Top.kind) \in Piece
    BY <1>2 DEF Token, Piece, Bracket, Word, Kinds
  <2> QED
    BY <1>1, <2>1, ReadOn DEF IntentInv, GenTypes
<1>4. /\ IsCounts(c) /\ IsCounts(d) /\ d.in_array = Front(c.in_array)
      /\ \A k \in Count : d[k] = c[k]
  BY <1>3, SaxClose DEF IntentInv, CountsAgree
<1>5. /\ u \in Seq(Container) /\ Len(u) = n - 1 /\ \A k \in 1 .. n - 1 : u[k] = stack[k]
  BY <1>1, <1>2, PoppedTotals
<1> HIDE DEF u
<1>6. /\ stack' \in Seq(Container) /\ Len(stack') = n - 1
      /\ \A k \in 1 .. n - 1 :
           /\ stack'[k].kind = u[k].kind /\ stack'[k].size = u[k].size
           /\ stack'[k].used = u[k].used
           /\ stack'[k].left = IF k = n - 1 THEN u[k].left - 1 ELSE u[k].left
  <2>1. /\ Counted(u) \in Seq(Container) /\ Len(Counted(u)) = Len(u)
        /\ \A k \in 1 .. Len(u) :
             /\ Counted(u)[k].kind = u[k].kind /\ Counted(u)[k].size = u[k].size
             /\ Counted(u)[k].used = u[k].used
             /\ Counted(u)[k].left = IF k = Len(u) THEN u[k].left - 1 ELSE u[k].left
    <3>1. 0 \in Int
      OBVIOUS
    <3> QED
      BY <1>5, <3>1, CountedTotals
  <2> QED
    BY <1>1, <1>5, <2>1
<1>7. /\ DOMAIN intent' = Counters \cup Flags
      /\ \A f \in Counters :
           intent'[f] = IF f = "members" THEN intent[f] + Top.size
                        ELSE IF f = Top.kind THEN intent[f] + 1 ELSE intent[f]
  <2>1. DOMAIN intent = Counters \cup Flags /\ Top.kind # "members" /\ "members" \in Counters
    BY <1>2 DEF IntentInv, GenTypes, Bracket, Counters
  <2> QED
    BY <1>1, <2>1
<1>8. GenTypes'
  <2>1. \A f \in Counters : intent'[f] \in Int
    BY <1>2, <1>7 DEF IntentInv, GenTypes
  <2> QED
    BY <1>1, <1>3, <1>6, <1>7, <2>1 DEF IntentInv, GenTypes
<1>9. Placed'
  <2>1. ASSUME NEW k \in 1 .. n - 1
        PROVE  /\ stack'[k].size \in 0 .. 254 /\ stack'[k].left >= 0
               /\ Len(stack'[k].used) + stack'[k].left
                    =< stack'[k].size + (IF k = n - 1 THEN 0 ELSE 1)
               /\ k < n - 1 => stack'[k].left > 0
    <3>1. k \in 1 .. n /\ k < n
      BY <1>2
    <3>2. stack[k].left \in Int /\ Len(stack[k].used) \in Nat /\ stack[k].size \in Int
      BY <1>2, <3>1, OpenContainers
    <3>3. /\ stack[k].size \in 0 .. 254 /\ stack[k].left > 0
          /\ Len(stack[k].used) + stack[k].left =< stack[k].size + 1
      BY <3>1 DEF IntentInv, Placed
    <3>4. /\ stack'[k].size = stack[k].size /\ Len(stack'[k].used) = Len(stack[k].used)
          /\ stack'[k].left = IF k = n - 1 THEN stack[k].left - 1 ELSE stack[k].left
      BY <1>5, <1>6
    <3> QED
      BY <3>2, <3>3, <3>4, SMTT(30)
  <2> QED
    BY <1>1, <1>6, <2>1, PlacedNext
<1>10. CountsAgree'
  <2>1. /\ Len(d.in_array) = Len(stack')
        /\ \A k \in 1 .. Len(stack') : d.in_array[k] = stack'[k].kind
    <3>1. /\ c.in_array \in Seq(Bracket) /\ Len(c.in_array) = n
          /\ \A k \in 1 .. n : c.in_array[k] = stack[k].kind
      BY DEF IntentInv, CountsAgree, IsCounts
    <3>2. /\ Len(d.in_array) = n - 1
          /\ \A k \in 1 .. n - 1 : d.in_array[k] = c.in_array[k]
      <4> PICK q \in Seq(Bracket) : q = c.in_array
        BY <3>1
      <4>1. n - 1 \in Int /\ Len(q) = n /\ d.in_array = SubSeq(q, 1, n - 1)
        BY <1>2, <1>4, <3>1 DEF Front
      <4>2. \A k \in 1 .. n - 1 : q[k] \in Bracket
        BY <1>2, <4>1, ElementOfSeq
      <4>3. /\ Len(SubSeq(q, 1, n - 1)) = IF 1 =< n - 1 THEN n - 1 - 1 + 1 ELSE 0
            /\ \A k \in 1 .. (n - 1) - 1 + 1 : SubSeq(q, 1, n - 1)[k] = q[1 + k - 1]
        BY <4>1, <4>2, SubSeqProperties
      <4>4. /\ Len(SubSeq(q, 1, n - 1)) = n - 1
            /\ \A k \in 1 .. n - 1 : SubSeq(q, 1, n - 1)[k] = q[k]
        <5>1. (n - 1) - 1 + 1 = n - 1 /\ \A k \in 1 .. n - 1 : 1 + k - 1 = k
          BY <1>2
        <5> QED
          BY <1>2, <4>3, <5>1
      <4> QED
        BY <4>1, <4>4
    <3>3. ASSUME NEW k \in 1 .. n - 1 PROVE d.in_array[k] = stack'[k].kind
      <4>1. k \in 1 .. n
        BY <1>2
      <4> QED
        BY <1>5, <1>6, <3>1, <3>2, <4>1
    <3> QED
      BY <1>6, <3>2, <3>3
  <2>2. d.deepest = intent'["depth"]
    BY <1>2, <1>4, <1>7 DEF Count, Counters, Bracket, IntentInv, CountsAgree
  <2>3. /\ intent'["string"] = d.string - d.tagged /\ intent'["number"] = d.number + d.tagged
        /\ intent'["bool"] = d.bool /\ intent'["null"] = d.null
    <3>1. /\ {"string", "number", "bool", "null", "tagged"} \subseteq Count
          /\ {"string", "number", "bool", "null"} \subseteq Counters
          /\ \A f \in {"string", "number", "bool", "null"} : f \notin {"members", Top.kind}
      BY <1>2 DEF Count, Scalar, Counters, Bracket
    <3>2. \A k \in {"string", "number", "bool", "null", "tagged"} : d[k] = c[k]
      BY <1>4, <3>1
    <3>3. \A f \in {"string", "number", "bool", "null"} : intent'[f] = intent[f]
      BY <1>7, <3>1
    <3> QED
      BY <3>2, <3>3 DEF IntentInv, CountsAgree
  <2>4. ASSUME NEW b \in Bracket PROVE Opens(stack', b, d[b] - intent'[b])
    <3>1. b \in Count /\ b \in Counters /\ b # "members"
      BY DEF Bracket, Count, Counters
    <3>2. d[b] = c[b] /\ intent'[b] = IF b = Top.kind THEN intent[b] + 1 ELSE intent[b]
      BY <1>4, <1>7, <3>1
    <3>3. c[b] \in Int /\ intent[b] \in Int
      BY <1>4, <3>1 DEF IsCounts, IntentInv, GenTypes
    <3>4. Opens(stack, b, c[b] - intent[b])
      BY DEF IntentInv, CountsAgree
    <3> DEFINE t == IF Top.kind = b THEN c[b] - intent[b] - 1 ELSE c[b] - intent[b]
    <3>5. Opens(u, b, t)
      BY <1>1, <1>2, <3>3, <3>4, PoppedTotals DEF u
    <3>6. t \in Int /\ d[b] - intent'[b] = t
      BY <3>2, <3>3
    <3> HIDE DEF t
    <3>7. Opens(stack', b, t)
      BY <1>1, <1>5, <3>5, <3>6, CountedTotals
    <3> QED
      BY <3>6, <3>7
  <2>5. Writes(stack', d.members - intent'["members"] - Started(stack', pc'))
    <3>1. /\ d.members = c.members /\ intent'["members"] = intent["members"] + Top.size
          /\ c.members \in Int /\ intent["members"] \in Int
      BY <1>4, <1>7 DEF Count, Counters, IsCounts, IntentInv, GenTypes
    <3>2. Started(stack, pc) = n - 1
      BY <1>1 DEF Started
    <3> DEFINE t == c.members - intent["members"] - (n - 1)
    <3>3. t \in Int /\ Writes(stack, t)
      BY <1>1, <1>2, <3>1, <3>2 DEF IntentInv, CountsAgree
    <3> DEFINE v == t - Top.size
    <3>4. v \in Int /\ Writes(u, v)
      <4>1. v = t - (stack[n].size - stack[n].left) /\ v \in Int
        BY <1>1, <1>2, <3>3
      <4> HIDE DEF t, v
      <4> QED
        BY <1>1, <1>2, <3>3, <4>1, PoppedTotals DEF u
    <3> HIDE DEF t, v
    <3>5. Writes(stack', IF u = << >> THEN v ELSE v + 1)
      BY <1>1, <1>5, <3>4, CountedTotals
    <3>6. stack' = << >> <=> u = << >>
      BY <1>5, <1>6, EmptySeq
    <3>7. Started(stack', pc') = IF u = << >> THEN 0 ELSE n - 2
      BY <1>1, <1>2, <1>6, <3>6, StartedNext
    <3>8. u = << >> => n = 1
      BY <1>2, <1>5
    <3>9. d.members - intent'["members"] - Started(stack', pc') = IF u = << >> THEN v ELSE v + 1
      BY <1>2, <3>1, <3>7, <3>8 DEF t, v
    <3> QED
      BY <3>5, <3>9
  <2> QED
    BY <1>4, <2>1, <2>2, <2>3, <2>4, <2>5 DEF CountsAgree
<1> QED
  BY <1>3, <1>8, <1>9, <1>10 DEF IntentInv

(* A key begins a member, and nothing else changes.                          *)
LEMMA KeyedAgrees ==
  ASSUME IntentInv, pc = "key", NEW word \in Word, NEW raised \in SUBSET Flags,
         NEW used \in Seq(Word), Len(used) =< Len(Top.used) + 1, Keyed(word, raised, used)
  PROVE  IntentInv'
<1> DEFINE c == Read
           d == Read'
           n == Len(stack)
<1>1. /\ stack # << >> /\ Top.kind = "object" /\ Len(Top.used) + Top.left =< Top.size
      /\ stack' = [stack EXCEPT ![Len(stack)].used = used] /\ pc' = "value" /\ options' = options
      /\ text' = Append(text, Token("key", word))
  BY DEF IntentInv, Placed, Keyed
<1>2. /\ stack \in Seq(Container) /\ n \in Nat \ {0} /\ n \in 1 .. n
  BY <1>1, OpenContainers DEF IntentInv, GenTypes
<1>3. OnlyReading(CountsAfter', text') /\ text' \in Seq(Piece) /\ d = Sax(c, Token("key", word))
  <2>1. Token("key", word) \in Piece
    BY DEF Token, Piece
  <2> QED
    BY <1>1, <2>1, ReadOn DEF IntentInv, GenTypes
<1>4. /\ IsCounts(c) /\ IsCounts(d) /\ d.in_array = c.in_array /\ d.members = c.members + 1
      /\ \A k \in Count \ {"members"} : d[k] = c[k]
  BY <1>3, SaxKey DEF IntentInv, CountsAgree
<1>5. /\ stack' \in Seq(Container) /\ Len(stack') = n
      /\ \A k \in 1 .. n :
           /\ stack'[k].kind = stack[k].kind /\ stack'[k].size = stack[k].size
           /\ stack'[k].left = stack[k].left
           /\ stack'[k].used = IF k = n THEN used ELSE stack[k].used
  <2> DEFINE u == [stack EXCEPT ![Len(stack)].used = used]
  <2>1. /\ u \in Seq(Container) /\ Len(u) = n
        /\ \A k \in 1 .. n :
             /\ u[k].kind = stack[k].kind /\ u[k].size = stack[k].size /\ u[k].left = stack[k].left
             /\ u[k].used = IF k = n THEN used ELSE stack[k].used
    BY <1>1, <1>2, NotedTotals, Zenon
  <2> HIDE DEF u
  <2> QED
    BY <1>1, <2>1 DEF u
<1>6. DOMAIN intent' = Counters \cup Flags /\ \A f \in Counters : intent'[f] = intent[f]
  <2>1. DOMAIN intent' = Counters \cup Flags
    BY DEF Keyed
  <2>2. ASSUME NEW f \in Counters PROVE intent'[f] = intent[f]
    <3>1. f \in Counters \cup Flags /\ f \notin raised
      BY DEF Counters, Flags
    <3> QED
      BY <3>1, Zenon DEF Keyed
  <2> QED
    BY <2>1, <2>2
<1>7. GenTypes'
  BY <1>1, <1>3, <1>5, <1>6 DEF IntentInv, GenTypes
<1>8. Placed'
  <2>1. ASSUME NEW k \in 1 .. n
        PROVE  /\ stack'[k].size \in 0 .. 254 /\ stack'[k].left > 0
               /\ Len(stack'[k].used) + stack'[k].left =< stack'[k].size + 1
    <3>1. stack[k].left \in Int /\ Len(stack[k].used) \in Nat /\ stack[k].size \in Int
      BY <1>2, OpenContainers
    <3>2. /\ stack[k].size \in 0 .. 254 /\ stack[k].left > 0
          /\ Len(stack[k].used) + stack[k].left =< stack[k].size + 1
      BY <1>2 DEF IntentInv, Placed
    <3>3. /\ stack'[k].size = stack[k].size /\ stack'[k].left = stack[k].left
          /\ Len(stack'[k].used) = IF k = n THEN Len(used) ELSE Len(stack[k].used)
      BY <1>5
    <3>4. k = n => Len(stack[k].used) + stack[k].left =< stack[k].size /\ Len(used) =< Len(stack[k].used) + 1
      BY <1>1 DEF Top
    <3>5. Len(used) \in Nat
      BY LenProperties
    <3>6. CASE k = n
      BY <3>1, <3>2, <3>3, <3>4, <3>5, <3>6, SMTT(30)
    <3>7. CASE k # n
      BY <3>1, <3>2, <3>3, <3>7
    <3> QED
      BY <3>6, <3>7
  <2>2. \A k \in 1 .. n : stack'[k].left > 0 => stack'[k].left >= 0
    <3>1. \A k \in 1 .. n : stack[k].left \in Int
      BY <1>2, OpenContainers
    <3> QED
      BY <1>5, <3>1
  <2> QED
    BY <1>1, <1>5, <2>1, <2>2 DEF Placed
<1>9. CountsAgree'
  <2>1. /\ Len(d.in_array) = Len(stack')
        /\ \A k \in 1 .. Len(stack') : d.in_array[k] = stack'[k].kind
    BY <1>4, <1>5 DEF IntentInv, CountsAgree
  <2>2. /\ d.deepest = intent'["depth"]
        /\ intent'["string"] = d.string - d.tagged /\ intent'["number"] = d.number + d.tagged
        /\ intent'["bool"] = d.bool /\ intent'["null"] = d.null
    <3>1. /\ {"string", "number", "bool", "null", "tagged", "deepest"} \subseteq Count \ {"members"}
          /\ {"string", "number", "bool", "null", "depth"} \subseteq Counters
      BY DEF Count, Scalar, Counters
    <3> QED
      BY <1>4, <1>6, <3>1 DEF IntentInv, CountsAgree
  <2>3. ASSUME NEW b \in Bracket PROVE Opens(stack', b, d[b] - intent'[b])
    <3>1. b \in Count \ {"members"} /\ b \in Counters
      BY DEF Bracket, Count, Counters
    <3>2. d[b] = c[b] /\ intent'[b] = intent[b]
      BY <1>4, <1>6, <3>1
    <3>3. Opens(stack, b, c[b] - intent[b])
      BY DEF IntentInv, CountsAgree
    <3> QED
      BY <1>1, <1>2, <3>2, <3>3, NotedTotals
  <2>4. Writes(stack', d.members - intent'["members"] - Started(stack', pc'))
    <3>1. /\ d.members = c.members + 1 /\ intent'["members"] = intent["members"]
          /\ c.members \in Int /\ intent["members"] \in Int
      BY <1>4, <1>6 DEF Count, Counters, IsCounts, IntentInv, GenTypes
    <3>2. Started(stack, pc) = n - 1
      BY <1>1 DEF Started
    <3>3. Started(stack', pc') = n
      <4>1. stack' # << >> /\ stack'[Len(stack')].kind = "object"
        BY <1>1, <1>2, <1>5, EmptySeq DEF Top
      <4> QED
        BY <1>1, <1>5, <4>1 DEF Started
    <3>4. Writes(stack, c.members - intent["members"] - (n - 1))
      BY <1>1, <3>2 DEF IntentInv, CountsAgree
    <3>5. Writes(stack', c.members - intent["members"] - (n - 1))
      BY <1>1, <1>2, <3>4, NotedTotals
    <3>6. d.members - intent'["members"] - Started(stack', pc') = c.members - intent["members"] - (n - 1)
      <4>1. PICK a \in Int, b \in Int, m \in Int : a = c.members /\ b = intent["members"] /\ m = n
        BY <1>2, <3>1
      <4>2. d.members = a + 1 /\ intent'["members"] = b /\ Started(stack', pc') = m
        BY <3>1, <3>3, <4>1
      <4>3. (a + 1) - b - m = a - b - (m - 1)
        OBVIOUS
      <4> QED
        BY <4>1, <4>2, <4>3, Zenon
    <3> QED
      BY <3>5, <3>6
  <2> QED
    BY <1>4, <2>1, <2>2, <2>3, <2>4 DEF CountsAgree
<1> QED
  BY <1>3, <1>7, <1>8, <1>9 DEF IntentInv

(* A failed division leaves the accounts as they are.                        *)
LEMMA TrapAgrees == ASSUME IntentInv, Trap PROVE IntentInv'
<1>1. UNCHANGED <<options, text, stack, intent>> /\ pc' = "trapped"
  BY DEF Trap
<1>2. CountsAfter' = CountsAfter /\ Read' = Read
  BY <1>1 DEF CountsAfter, Read
<1>3. GenTypes'
  BY <1>1 DEF IntentInv, GenTypes
<1>4. Placed'
  BY <1>1 DEF IntentInv, Placed, Top
<1>5. CountsAgree'
  BY <1>1, <1>2 DEF IntentInv, CountsAgree
<1> QED
  BY <1>1, <1>2, <1>3, <1>4, <1>5 DEF IntentInv

(* The key that is repeated is one of those kept.                            *)
LEMMA RepeatedKey ==
  ASSUME IntentInv, pc = "key", Top.used # << >>, NEW n \in Picks(Len(Top.used))
  PROVE  n + 1 \in 1 .. Len(Top.used) /\ Top.used[n + 1] \in Word
<1>1. stack # << >> /\ stack \in Seq(Container)
  BY DEF IntentInv, Placed, GenTypes
<1>2. Top.used \in Seq(Word) /\ Top.left \in Int /\ Top.size \in 0 .. 254 /\ Top.left > 0
  BY <1>1, OpenContainers, ContainerFields DEF Top, IntentInv, Placed
<1>3. Len(Top.used) + Top.left =< Top.size
  BY DEF IntentInv, Placed
<1>4. Len(Top.used) \in 1 .. 255
  <2>1. Len(Top.used) \in Nat \ {0}
    BY <1>2, EmptySeq
  <2>2. \A l \in Nat \ {0}, x \in Int, z \in 0 .. 254 : x > 0 /\ l + x =< z => l \in 1 .. 255
    BY SMTT(30)
  <2> QED
    BY <1>2, <1>3, <2>1, <2>2, Zenon
<1>5. n \in 0 .. Len(Top.used) - 1
  BY <1>4, PicksBelow
<1> QED
  BY <1>2, <1>4, <1>5, ElementOfSeq

-----------------------------------------------------------------------------
(* Nothing is written and nothing is counted.                                *)
LEMMA IntentInit == Init => IntentInv
<1> SUFFICES ASSUME Init PROVE IntentInv
  OBVIOUS
<1>1. options \in AllOptions /\ text = << >> /\ stack = << >> /\ pc = "value" /\ intent = NoIntent
  BY DEF Init
<1>2. Len(text) = 0 /\ Len(stack) = 0 /\ text \in Seq(Piece) /\ stack \in Seq(Container)
  BY <1>1, EmptySeq
<1>3. OnlyReading(CountsAfter, text) /\ Read = NoCounts
  <2>1. OnlyReading([n \in 0 .. 0 |-> NoCounts], text)
    BY <1>1, NothingRead
  <2>2. CountsAfter = [n \in 0 .. 0 |-> NoCounts]
    BY <2>1, CountsAreRead
  <2> QED
    BY <1>2, <2>1, <2>2 DEF Read
<1>4. DOMAIN intent = Counters \cup Flags /\ \A c \in Counters : intent[c] = 0
  <2>1. ASSUME NEW c \in Counters PROVE NoIntent[c] = 0
    <3>1. c \in Counters \cup Flags /\ c \notin Flags
      BY DEF Counters, Flags
    <3> QED
      BY <3>1, Zenon DEF NoIntent
  <2> QED
    BY <1>1, <2>1 DEF NoIntent
<1>5. GenTypes
  BY <1>1, <1>2, <1>4 DEF GenTypes
<1>6. Placed
  BY <1>1, <1>2 DEF Placed
<1>7. CountsAgree
  <2>1. IsCounts(Read) /\ Read.in_array = << >> /\ \A k \in Count : Read[k] = 0
    BY <1>3, NothingCounted
  <2>2. /\ {"string", "number", "bool", "null", "tagged", "deepest", "members", "array", "object"} \subseteq Count
        /\ {"string", "number", "bool", "null", "depth", "members", "array", "object"} \subseteq Counters
    BY DEF Count, Scalar, Bracket, Counters
  <2>3. \A b \in Bracket : Opens(stack, b, Read[b] - intent[b])
    <3>1. \A b \in Bracket : Read[b] - intent[b] = 0
      BY <1>4, <2>1, <2>2 DEF Bracket
    <3> QED
      BY <1>2, <3>1, TotalOfNone DEF Opens
  <2>4. Writes(stack, Read.members - intent["members"] - Started(stack, pc))
    <3>1. Read.members - intent["members"] - Started(stack, pc) = 0
      BY <1>1, <1>4, <2>1, <2>2 DEF Started
    <3> QED
      BY <1>2, <3>1, TotalOfNone DEF Writes
  <2> QED
    BY <1>2, <1>4, <2>1, <2>2, <2>3, <2>4 DEF CountsAgree
<1> QED
  BY <1>3, <1>5, <1>6, <1>7 DEF IntentInv

(* The words that are not drawn.                                             *)
LEMMA FixedWords == {"", "/", "~", "null", "bool"} \subseteq Word
BY DEF Word, Kinds

(* A container is opened with a draw of members.                             *)
LEMMA OpenStep == ASSUME IntentInv, Open PROVE IntentInv'
<1>1. CASE Trap
  BY <1>1, TrapAgrees, Zenon
<1>2. CASE ~Trap
  <2>1. PICK kind \in KindsDrawn \cap Bracket :
          /\ ~Traps(options.max_members + 1)
          /\ \E n \in Picks(options.max_members + 1) :
               /\ text' = Append(text, Token("open", kind))
               /\ stack' = Append(stack, [kind |-> kind, size |-> n, left |-> n, used |-> << >>])
               /\ pc' = NextIn(stack') /\ intent' = Reached(intent) /\ options' = options
    BY <1>2 DEF Open, Bracket
  <2>2. options.max_members + 1 \in Int
    BY OptionsAssumption DEF IntentInv, GenTypes
  <2>3. Picks(options.max_members + 1) \subseteq 0 .. 254
    BY <2>1, <2>2, PicksFit
  <2>4. pc = "value"
    BY DEF Open
  <2> QED
    BY <2>1, <2>3, <2>4, OpenAgrees
<1> QED
  BY <1>1, <1>2

(* Every key is a word, and at most one more is kept.                        *)
LEMMA KeyStep ==
  ASSUME IntentInv, EmptyKey \/ DuplicateKey \/ PointerKey \/ PlainKey
  PROVE  IntentInv'
<1>1. pc = "key" /\ stack # << >> /\ stack \in Seq(Container)
  BY DEF EmptyKey, DuplicateKey, PointerKey, PlainKey, IntentInv, Placed, GenTypes
<1>2. Top.used \in Seq(Word) /\ Len(Top.used) \in Nat
  BY <1>1, OpenContainers, ContainerFields DEF Top
<1>3. Len(Top.used) =< Len(Top.used) + 1
  BY <1>2
<1>4. CASE EmptyKey
  BY <1>1, <1>2, <1>3, <1>4, FixedWords, KeyedAgrees DEF EmptyKey, Flags
<1>5. CASE DuplicateKey
  BY <1>1, <1>2, <1>3, <1>5, RepeatedKey, KeyedAgrees DEF DuplicateKey, Flags
<1>6. CASE PointerKey
  BY <1>1, <1>2, <1>3, <1>6, FixedWords, KeyedAgrees DEF PointerKey, Flags
<1>7. CASE PlainKey
  <2>1. CASE Trap
    BY <2>1, TrapAgrees
  <2>2. CASE \E s \in StringBodies : Keyed(s.word, s.raised, Append(Top.used, s.word))
    <3>1. PICK s \in StringBodies : Keyed(s.word, s.raised, Append(Top.used, s.word))
      BY <2>2
    <3>2. s.word \in Word /\ s.raised \in SUBSET Flags
      BY BodyWords, RaisedFlags
    <3>3. Append(Top.used, s.word) \in Seq(Word) /\ Len(Append(Top.used, s.word)) = Len(Top.used) + 1
      BY <1>2, <3>2, AppendProperties
    <3>4. Len(Append(Top.used, s.word)) =< Len(Top.used) + 1
      BY <1>2, <3>3
    <3> QED
      BY <1>1, <3>1, <3>2, <3>3, <3>4, KeyedAgrees
  <2> QED
    BY <1>7, <2>1, <2>2 DEF PlainKey
<1> QED
  BY <1>4, <1>5, <1>6, <1>7

(* Every step, and every stutter, keeps the accounts.                        *)
LEMMA IntentStep == IntentInv /\ [Next]_vars => IntentInv'
<1> SUFFICES ASSUME IntentInv, [Next]_vars PROVE IntentInv'
  OBVIOUS
<1>1. CASE Null \/ Bool
  <2>1. {} \in SUBSET Flags /\ "null" \in Word /\ "bool" \in Word
    BY FixedWords
  <2>2. CASE Null
    BY <2>1, <2>2, WroteAgrees DEF Null, Scalar
  <2>3. CASE Bool
    BY <2>1, <2>3, WroteAgrees DEF Bool, Scalar
  <2> QED
    BY <1>1, <2>2, <2>3
<1>2. CASE Number
  BY <1>2, WroteAgrees, BodyWords, RaisedFlags DEF Number, Scalar
<1>3. CASE String
  BY <1>3, WroteAgrees, TrapAgrees, BodyWords, RaisedFlags DEF String, Scalar
<1>4. CASE Open
  BY <1>4, OpenStep
<1>5. CASE Close
  BY <1>5, CloseAgrees
<1>6. CASE EmptyKey \/ DuplicateKey \/ PointerKey \/ PlainKey
  BY <1>6, KeyStep
<1>7. CASE UNCHANGED vars
  <2>1. CountsAfter' = CountsAfter /\ Read' = Read
    BY <1>7 DEF vars, CountsAfter, Read
  <2>2. GenTypes' /\ Placed' /\ CountsAgree'
    BY <1>7, <2>1 DEF vars, IntentInv, GenTypes, Placed, Top, CountsAgree
  <2> QED
    BY <1>7, <2>1, <2>2 DEF vars, IntentInv
<1> QED
  BY <1>1, <1>2, <1>3, <1>4, <1>5, <1>6, <1>7 DEF Next

(* When nothing is open the two accounts are one.                            *)
LEMMA DoneAgrees ==
  ASSUME IntentInv, pc = "done"
  PROVE  intent["depth"] = Read.deepest /\ (Parses => IntentMatchesText)
<1>1. stack = << >> /\ Len(stack) = 0
  BY DEF IntentInv, Placed
<1>2. IsCounts(Read) /\ intent["depth"] = Read.deepest
  BY DEF IntentInv, CountsAgree
<1>3. ASSUME NEW b \in Bracket PROVE intent[b] = Read[b]
  <2>1. b \in Count /\ b \in Counters
    BY DEF Bracket, Count, Counters
  <2>2. Read[b] \in Int /\ intent[b] \in Int
    BY <1>2, <2>1 DEF IsCounts, IntentInv, GenTypes
  <2>3. Read[b] - intent[b] = 0
    BY <1>1, TotalOfNone DEF IntentInv, CountsAgree, Opens
  <2> QED
    BY <2>2, <2>3
<1>4. intent["members"] = Read.members
  <2>1. Read.members \in Int /\ intent["members"] \in Int
    BY <1>2 DEF IsCounts, IntentInv, GenTypes, Count, Counters
  <2>2. Started(stack, pc) = 0
    BY <1>1 DEF Started
  <2>3. Writes(stack, Read.members - intent["members"] - 0)
    BY <2>2 DEF IntentInv, CountsAgree
  <2>4. Read.members - intent["members"] - 0 = 0
    BY <1>1, <2>3, TotalOfNone DEF Writes
  <2> QED
    BY <2>1, <2>4
<1>5. \A c \in {"object", "array", "bool", "null", "members"} : intent[c] = Read[c]
  BY <1>3, <1>4 DEF IntentInv, CountsAgree, Bracket
<1>6. /\ intent["string"] = Read.string - Read.tagged
      /\ intent["number"] = Read.number + Read.tagged
  BY DEF IntentInv, CountsAgree
<1> QED
  BY <1>2, <1>5, <1>6 DEF IntentMatchesText

(* Reading 3 never blames a document the reference can read, for every byte  *)
(* stream and every option: the two counts of it are the same.               *)
THEOREM IntentIsTheText == Spec => []IntentAgrees
<1>1. IntentInv => IntentAgrees
  BY DoneAgrees DEF IntentAgrees
<1> QED
  BY <1>1, IntentInit, IntentStep, PTL DEF Spec

(* No value lies deeper than max_depth, and the depth on record is the       *)
(* depth of the text.                                                        *)
THEOREM DepthIsTheText == Spec => []DepthKept
<1>1. DepthInv /\ IntentInv => DepthKept
  BY DoneAgrees DEF DepthInv, DepthKept
<1> QED
  BY <1>1, DepthInit, DepthStep, IntentInit, IntentStep, PTL DEF Spec

-----------------------------------------------------------------------------
(* The flags.  Each is raised with the token that earns it; a repeated key   *)
(* was written in the object that is open, and that has not been left since. *)
WrittenKey(w, d) ==
  \E k \in KeyTokens :
    /\ text[k].word = w /\ DepthAfter(k) = d
    /\ \A m \in k .. Len(text) : DepthAfter(m) >= d

KeysKept ==
  \A d \in 1 .. Len(stack) : \A i \in 1 .. Len(stack[d].used) : WrittenKey(stack[d].used[i], d)

FlagsInv ==
  /\ \A f \in Flags : intent[f] \in BOOLEAN
  /\ KeysKept /\ FlagsAreEarned

\* One more token, and the flags it raises.
Raises(t, raised) ==
  /\ t \in Piece /\ text' = Append(text, t)
  /\ \A f \in Flags : intent'[f] = IF f \in raised THEN TRUE ELSE intent[f]

(* A token more leaves the depth after each of the others as it was.         *)
LEMMA DepthsStay ==
  ASSUME IntentInv, CountsAgree', NEW t \in Piece, text' = Append(text, t),
         NEW L, L = Len(text)
  PROVE  /\ L \in Nat /\ Len(text') = L + 1
         /\ DOMAIN text = 1 .. L /\ DOMAIN text' = 1 .. L + 1
         /\ text'[L + 1] = t /\ \A k \in 1 .. L : text'[k] = text[k]
         /\ \A n \in 0 .. L : DepthAfter(n)' = DepthAfter(n)
         /\ DepthAfter(L) = Len(stack) /\ Len(stack) \in Nat
         /\ DepthAfter(L + 1)' = Len(stack')
<1>1. /\ text' \in Seq(Piece) /\ L \in Nat /\ Len(text') = L + 1
      /\ text'[L + 1] = t /\ \A k \in 1 .. L : text'[k] = text[k]
      /\ \A n \in 0 .. L : CountsAfter'[n] = CountsAfter[n]
  BY ReadOn DEF IntentInv, GenTypes
<1>2. DOMAIN text = 1 .. L /\ DOMAIN text' = 1 .. L + 1
  BY <1>1, LenProperties DEF IntentInv, GenTypes
<1>3. \A n \in 0 .. L : DepthAfter(n)' = DepthAfter(n)
  BY <1>1 DEF DepthAfter
<1>4. DepthAfter(L) = Len(stack) /\ Len(stack) \in Nat
  BY OpenContainers DEF DepthAfter, Read, IntentInv, CountsAgree, GenTypes
<1>5. DepthAfter(L + 1)' = Len(stack')
  <2>1. Len(Read'.in_array) = Len(stack')
    BY DEF CountsAgree
  <2>2. Read' = CountsAfter'[L + 1]
    BY <1>1 DEF Read
  <2> QED
    BY <1>1, <2>1, <2>2 DEF DepthAfter
<1> QED
  BY <1>1, <1>2, <1>3, <1>4, <1>5

(* A key stays the object's as long as the object is open.                   *)
LEMMA KeyStays ==
  ASSUME IntentInv, CountsAgree', NEW t \in Piece, text' = Append(text, t),
         NEW w, NEW d, WrittenKey(w, d), d =< Len(stack')
  PROVE  WrittenKey(w, d)'
<1> PICK L : L = Len(text)
  OBVIOUS
<1>1. /\ L \in Nat /\ Len(text') = L + 1
      /\ DOMAIN text = 1 .. L /\ DOMAIN text' = 1 .. L + 1
      /\ \A k \in 1 .. L : text'[k] = text[k]
      /\ \A n \in 0 .. L : DepthAfter(n)' = DepthAfter(n)
      /\ DepthAfter(L + 1)' = Len(stack')
  BY DepthsStay
<1>2. PICK k \in KeyTokens :
        /\ text[k].word = w /\ DepthAfter(k) = d
        /\ \A m \in k .. L : DepthAfter(m) >= d
  BY DEF WrittenKey
<1>3. k \in 1 .. L /\ text[k].kind = "key"
  BY <1>1, <1>2 DEF KeyTokens
<1>4. k \in KeyTokens' /\ text'[k].word = w
  BY <1>1, <1>2, <1>3 DEF KeyTokens
<1>5. DepthAfter(k)' = d
  BY <1>1, <1>2, <1>3
<1>6. ASSUME NEW m \in k .. L + 1 PROVE DepthAfter(m)' >= d
  <2>1. CASE m = L + 1
    BY <1>1, <2>1
  <2>2. CASE m \in k .. L
    <3>1. m \in 0 .. L /\ DepthAfter(m) >= d
      BY <1>2, <1>3, <2>2
    <3> QED
      BY <1>1, <3>1
  <2> QED
    BY <1>1, <1>3, <2>1, <2>2
<1> QED
  BY <1>1, <1>4, <1>5, <1>6 DEF WrittenKey

(* A key just written is the open object's.                                  *)
LEMMA KeyIsWritten ==
  ASSUME IntentInv, CountsAgree', NEW t \in Piece, text' = Append(text, t), t.kind = "key",
         NEW d \in Nat, d = Len(stack')
  PROVE  WrittenKey(t.word, d)'
<1> PICK L : L = Len(text)
  OBVIOUS
<1>1. /\ L \in Nat /\ Len(text') = L + 1 /\ DOMAIN text' = 1 .. L + 1
      /\ text'[L + 1] = t /\ DepthAfter(L + 1)' = d
  BY DepthsStay
<1>2. L + 1 \in KeyTokens' /\ text'[L + 1].word = t.word
  BY <1>1 DEF KeyTokens
<1>3. \A m \in L + 1 .. L + 1 : DepthAfter(m)' >= d
  BY <1>1
<1> QED
  BY <1>1, <1>2, <1>3 DEF WrittenKey

(* A duplicate, once written, is there.                                      *)
LEMMA DuplicateStays ==
  ASSUME IntentInv, CountsAgree', NEW t \in Piece, text' = Append(text, t), HasDuplicate
  PROVE  HasDuplicate'
<1> PICK L : L = Len(text)
  OBVIOUS
<1>1. /\ L \in Nat /\ DOMAIN text = 1 .. L /\ DOMAIN text' = 1 .. L + 1
      /\ \A k \in 1 .. L : text'[k] = text[k]
      /\ \A n \in 0 .. L : DepthAfter(n)' = DepthAfter(n)
  BY DepthsStay
<1>2. PICK k \in KeyTokens, j \in KeyTokens :
        k < j /\ text[k].word = text[j].word /\ InOneObject(k, j)
  BY DEF HasDuplicate
<1>3. k \in 1 .. L /\ j \in 1 .. L /\ text[k].kind = "key" /\ text[j].kind = "key"
  BY <1>1, <1>2 DEF KeyTokens
<1>4. k \in KeyTokens' /\ j \in KeyTokens' /\ text'[k].word = text'[j].word
  BY <1>1, <1>2, <1>3 DEF KeyTokens
<1>5. DepthAfter(k)' = DepthAfter(k) /\ DepthAfter(j)' = DepthAfter(j)
  BY <1>1, <1>3
<1>6. ASSUME NEW m \in k .. j PROVE DepthAfter(m)' >= DepthAfter(j)'
  <2>1. m \in 0 .. L
    BY <1>1, <1>3
  <2> QED
    BY <1>1, <1>2, <1>5, <2>1 DEF InOneObject
<1>7. InOneObject(k, j)'
  BY <1>2, <1>5, <1>6 DEF InOneObject
<1> QED
  BY <1>2, <1>4, <1>7 DEF HasDuplicate

(* A key of the open object, written again, is a duplicate.                  *)
LEMMA DuplicateIsWritten ==
  ASSUME IntentInv, CountsAgree', NEW t \in Piece, text' = Append(text, t), t.kind = "key",
         Len(stack') = Len(stack), WrittenKey(t.word, Len(stack))
  PROVE  HasDuplicate'
<1> PICK L, d : L = Len(text) /\ d = Len(stack)
  OBVIOUS
<1>1. /\ L \in Nat /\ d \in Nat /\ DOMAIN text = 1 .. L /\ DOMAIN text' = 1 .. L + 1
      /\ text'[L + 1] = t /\ \A k \in 1 .. L : text'[k] = text[k]
      /\ \A n \in 0 .. L : DepthAfter(n)' = DepthAfter(n)
      /\ DepthAfter(L + 1)' = d
  BY DepthsStay
<1>2. PICK k \in KeyTokens :
        /\ text[k].word = t.word /\ DepthAfter(k) = d
        /\ \A m \in k .. L : DepthAfter(m) >= d
  BY DEF WrittenKey
<1>3. k \in 1 .. L /\ text[k].kind = "key"
  BY <1>1, <1>2 DEF KeyTokens
<1>4. k \in KeyTokens' /\ L + 1 \in KeyTokens' /\ text'[k].word = text'[L + 1].word
  BY <1>1, <1>2, <1>3 DEF KeyTokens
<1>5. ASSUME NEW m \in k .. L + 1 PROVE DepthAfter(m)' >= d
  <2>1. CASE m = L + 1
    BY <1>1, <2>1
  <2>2. CASE m \in k .. L
    <3>1. m \in 0 .. L /\ DepthAfter(m) >= d
      BY <1>2, <1>3, <2>2
    <3> QED
      BY <1>1, <3>1
  <2> QED
    BY <1>1, <1>3, <2>1, <2>2
<1>6. InOneObject(k, L + 1)'
  <2>1. DepthAfter(k)' = d
    BY <1>1, <1>2, <1>3
  <2> QED
    BY <1>1, <1>5, <2>1 DEF InOneObject
<1>7. k < L + 1
  BY <1>1, <1>3
<1> QED
  BY <1>4, <1>6, <1>7 DEF HasDuplicate

(* The positions of a text with one more token.                              *)
LEMMA OneMoreIndex ==
  ASSUME NEW L \in Nat PROVE \A k : k \in 1 .. L + 1 <=> k \in 1 .. L \/ k = L + 1
OBVIOUS

(* A token that earns the flags it raises keeps them earned.                 *)
LEMMA FlagsEarned ==
  ASSUME IntentInv, CountsAgree', FlagsInv, NEW t, NEW raised, Raises(t, raised),
         "duplicate_key" \in raised => HasDuplicate',
         "empty_key" \in raised => t.kind = "key" /\ t.word = "",
         "pointer_key" \in raised => t.kind = "key" /\ t.word \in {"/", "~"},
         "lone_surrogate" \in raised => t.word \in Surrogates,
         t.word \in Surrogates => "lone_surrogate" \in raised \/ intent["lone_surrogate"]
  PROVE  FlagsAreEarned' /\ \A f \in Flags : intent'[f] \in BOOLEAN
<1> PICK L : L = Len(text)
  OBVIOUS
<1>1. t \in Piece /\ text' = Append(text, t)
  BY DEF Raises
<1>2. /\ L \in Nat /\ DOMAIN text = 1 .. L /\ DOMAIN text' = 1 .. L + 1
      /\ text'[L + 1] = t /\ \A k \in 1 .. L : text'[k] = text[k]
  BY <1>1, DepthsStay
<1>3. /\ {"duplicate_key", "empty_key", "pointer_key", "lone_surrogate"} \subseteq Flags
      /\ \A f \in Flags : intent'[f] = IF f \in raised THEN TRUE ELSE intent[f]
      /\ \A f \in Flags : intent[f] \in BOOLEAN
  BY DEF Flags, Raises, FlagsInv
<1>4. \A f \in Flags : intent'[f] \in BOOLEAN
  BY <1>3, Zenon
<1>5. \A f \in Flags : intent'[f] <=> (f \in raised \/ intent[f])
  BY <1>3, Zenon
<1>6. KeyTokens \subseteq KeyTokens' /\ (t.kind = "key" => L + 1 \in KeyTokens')
  <2>1. \A k : k \in KeyTokens' <=> k \in 1 .. L + 1 /\ text'[k].kind = "key"
    BY <1>2 DEF KeyTokens
  <2>2. \A k : k \in KeyTokens <=> k \in 1 .. L /\ text[k].kind = "key"
    BY <1>2 DEF KeyTokens
  <2>3. \A k : k \in 1 .. L + 1 <=> k \in 1 .. L \/ k = L + 1
    BY <1>2, OneMoreIndex
  <2>4. KeyTokens \subseteq KeyTokens'
    BY <1>2, <2>1, <2>2, <2>3, Zenon
  <2> QED
    BY <1>2, <2>1, <2>3, <2>4, Zenon
<1>7. \A k \in KeyTokens : text'[k] = text[k]
  BY <1>2 DEF KeyTokens
<1>8. intent'["duplicate_key"] => HasDuplicate'
  <2>1. intent["duplicate_key"] => HasDuplicate
    BY DEF FlagsInv, FlagsAreEarned
  <2>2. HasDuplicate => HasDuplicate'
    BY <1>1, DuplicateStays
  <2> QED
    BY <1>3, <1>5, <2>1, <2>2, Zenon
<1>9. intent'["empty_key"] => \E k \in KeyTokens' : text'[k].word = ""
  <2>1. intent["empty_key"] => \E k \in KeyTokens : text[k].word = ""
    BY DEF FlagsInv, FlagsAreEarned
  <2>2. (\E k \in KeyTokens : text[k].word = "") => \E k \in KeyTokens' : text'[k].word = ""
    BY <1>6, <1>7
  <2>3. "empty_key" \in raised => \E k \in KeyTokens' : text'[k].word = ""
    BY <1>2, <1>6
  <2> QED
    BY <1>3, <1>5, <2>1, <2>2, <2>3, Zenon
<1>10. intent'["pointer_key"] => \E k \in KeyTokens' : text'[k].word \in {"/", "~"}
  <2>1. intent["pointer_key"] => \E k \in KeyTokens : text[k].word \in {"/", "~"}
    BY DEF FlagsInv, FlagsAreEarned
  <2>2. (\E k \in KeyTokens : text[k].word \in {"/", "~"})
          => \E k \in KeyTokens' : text'[k].word \in {"/", "~"}
    BY <1>6, <1>7
  <2>3. "pointer_key" \in raised => \E k \in KeyTokens' : text'[k].word \in {"/", "~"}
    BY <1>2, <1>6
  <2> QED
    BY <1>3, <1>5, <2>1, <2>2, <2>3, Zenon
<1>11. intent'["lone_surrogate"] <=> ~Parses'
  <2>a. Parses' <=> \A k \in 1 .. L + 1 : text'[k].word \notin Surrogates
    BY <1>2 DEF Parses, Surrogates
  <2>b. Parses <=> \A k \in 1 .. L : text[k].word \notin Surrogates
    BY <1>2 DEF Parses
  <2>c. \A k : k \in 1 .. L + 1 <=> k \in 1 .. L \/ k = L + 1
    BY <1>2, OneMoreIndex
  <2>1. Parses' <=> Parses /\ t.word \notin Surrogates
    BY <1>2, <2>a, <2>b, <2>c, Zenon
  <2>2. intent["lone_surrogate"] <=> ~Parses
    BY DEF FlagsInv, FlagsAreEarned
  <2> QED
    BY <1>3, <1>5, <2>1, <2>2, Zenon
<1> QED
  BY <1>4, <1>8, <1>9, <1>10, <1>11 DEF FlagsAreEarned

(* A token more leaves the keys of the containers that stay.                 *)
LEMMA KeysStay ==
  ASSUME IntentInv, CountsAgree', FlagsInv, NEW t \in Piece, text' = Append(text, t),
         NEW d \in 1 .. Len(stack), d =< Len(stack'), stack'[d].used = stack[d].used
  PROVE  (\A i \in 1 .. Len(stack[d].used) : WrittenKey(stack[d].used[i], d))'
<1>1. ASSUME NEW w, WrittenKey(w, d) PROVE WrittenKey(w, d)'
  BY <1>1, KeyStays
<1>2. \A i \in 1 .. Len(stack[d].used) : WrittenKey(stack[d].used[i], d)
  BY DEF FlagsInv, KeysKept
<1>3. ASSUME NEW i \in 1 .. Len(stack'[d].used), NEW w, w = stack'[d].used[i]
      PROVE  WrittenKey(w, d)'
  BY <1>1, <1>2, <1>3
<1> QED
  BY <1>3 DEF WrittenKey

(* A step that keeps the keys of every container that stays, opens at most   *)
(* an empty one, and raises no flag of a key.                                *)
LEMMA FlagsStay ==
  ASSUME IntentInv, IntentInv', FlagsInv, NEW t, NEW raised, Raises(t, raised),
         raised \cap {"duplicate_key", "empty_key", "pointer_key"} = {},
         "lone_surrogate" \in raised <=> t.word \in Surrogates,
         \A d \in 1 .. Len(stack') :
           \/ d \in 1 .. Len(stack) /\ stack'[d].used = stack[d].used
           \/ stack'[d].used = << >>
  PROVE  FlagsInv'
<1>1. CountsAgree' /\ t \in Piece /\ text' = Append(text, t)
  BY DEF IntentInv, Raises
<1>2. FlagsAreEarned' /\ \A f \in Flags : intent'[f] \in BOOLEAN
  BY <1>1, FlagsEarned
<1>3. Len(stack') \in Nat
  BY LenProperties DEF IntentInv, GenTypes
<1>4. ASSUME NEW d \in 1 .. Len(stack')
      PROVE  (\A i \in 1 .. Len(stack[d].used) : WrittenKey(stack[d].used[i], d))'
  <2>1. CASE d \in 1 .. Len(stack) /\ stack'[d].used = stack[d].used
    <3>1. d =< Len(stack')
      BY <1>3
    <3> QED
      BY <1>1, <2>1, <3>1, KeysStay
  <2>2. CASE stack'[d].used = << >>
    BY <2>2
  <2> QED
    BY <2>1, <2>2
<1>5. KeysKept'
  BY <1>4 DEF KeysKept
<1> QED
  BY <1>2, <1>5 DEF FlagsInv

(* A scalar raises what it is drawn with.                                    *)
LEMMA WroteFlags ==
  ASSUME IntentInv, pc = "value", FlagsInv, NEW kind \in Scalar, NEW word \in Word,
         NEW raised \in SUBSET Flags, Wrote(kind, word, raised),
         raised \cap {"duplicate_key", "empty_key", "pointer_key"} = {},
         "lone_surrogate" \in raised <=> word \in Surrogates
  PROVE  FlagsInv'
<1> DEFINE t == Token(kind, word)
<1>1. IntentInv'
  BY WroteAgrees
<1>2. t \in Piece /\ t.word = word /\ text' = Append(text, t)
  BY DEF Token, Piece, Scalar, Kinds, Wrote
<1>3. ASSUME NEW f \in Flags PROVE intent'[f] = IF f \in raised THEN TRUE ELSE intent[f]
  <2>1. f \in Counters \cup Flags /\ f # kind /\ f # "depth"
    BY DEF Counters, Flags, Scalar
  <2>2. Reached(intent)[f] = intent[f]
    BY <2>1, ReachedCounts
  <2> QED
    BY <2>1, <2>2, Zenon DEF Wrote
<1>4. Raises(t, raised)
  BY <1>2, <1>3 DEF Raises
<1>5. \A d \in 1 .. Len(stack') : d \in 1 .. Len(stack) /\ stack'[d].used = stack[d].used
  <2>1. stack \in Seq(Container) /\ 0 \in Int /\ stack' = Counted(stack)
    BY DEF IntentInv, GenTypes, Wrote
  <2>2. /\ Len(stack') = Len(stack)
        /\ \A d \in 1 .. Len(stack) : stack'[d].used = stack[d].used
    BY <2>1, CountedTotals
  <2> QED
    BY <2>2
<1> HIDE DEF t
<1> QED
  BY <1>1, <1>2, <1>4, <1>5, FlagsStay

(* What is raised with a body or a number is not a flag of a key.            *)
LEMMA BodyFlags ==
  /\ \A s \in StringBodies : s.raised \cap {"duplicate_key", "empty_key", "pointer_key"} = {}
  /\ \A n \in Numbers : n.raised \cap {"duplicate_key", "empty_key", "pointer_key"} = {}
BY DEF StringBodies, Numbers

(* Opening a container writes no key.                                        *)
LEMMA OpenFlags == ASSUME IntentInv, IntentInv', FlagsInv, Open, ~Trap PROVE FlagsInv'
<1>1. PICK kind \in Bracket, n \in Picks(options.max_members + 1) :
        /\ text' = Append(text, Token("open", kind)) /\ intent' = Reached(intent)
        /\ stack' = Append(stack, [kind |-> kind, size |-> n, left |-> n, used |-> << >>])
  BY DEF Open, Bracket
<1> DEFINE t == Token("open", kind)
           e == [kind |-> kind, size |-> n, left |-> n, used |-> << >>]
<1>2. t \in Piece /\ t.word \notin Surrogates
  BY DEF Token, Piece, Bracket, Word, Kinds, Surrogates
<1>3. \A f \in Flags : intent'[f] = intent[f]
  <2>1. \A f \in Flags : f \in (Counters \cup Flags) \ {"depth"}
    BY DEF Flags
  <2> QED
    BY <1>1, <2>1, ReachedCounts
<1>4. Raises(t, {})
  BY <1>1, <1>2, <1>3 DEF Raises
<1>5. ASSUME NEW d \in 1 .. Len(stack')
      PROVE  \/ d \in 1 .. Len(stack) /\ stack'[d].used = stack[d].used
             \/ stack'[d].used = << >>
  <2>1. stack \in Seq(Container) /\ stack' \in Seq(Container) /\ stack' = Append(stack, e)
    BY <1>1 DEF IntentInv, GenTypes
  <2>2. e.used = << >>
    OBVIOUS
  <2> HIDE DEF e
  <2>3. /\ Len(stack) \in Nat /\ Len(stack') = Len(stack) + 1
        /\ stack'[Len(stack) + 1] = e /\ \A k \in 1 .. Len(stack) : stack'[k] = stack[k]
    BY <2>1, LenProperties
  <2> QED
    BY <2>2, <2>3
<1> HIDE DEF t
<1> QED
  BY <1>2, <1>4, <1>5, FlagsStay

(* Closing one drops its keys and leaves those of the others.                *)
LEMMA CloseFlags == ASSUME IntentInv, IntentInv', FlagsInv, Close PROVE FlagsInv'
<1> DEFINE t == Token("close", Top.kind)
           u == SubSeq(stack, 1, Len(stack) - 1)
<1>1. /\ stack # << >> /\ stack \in Seq(Container) /\ stack' = Counted(u) /\ text' = Append(text, t)
      /\ intent' = [intent EXCEPT ![Top.kind] = @ + 1, !["members"] = @ + Top.size]
  BY DEF Close, IntentInv, Placed, GenTypes
<1>2. Top.kind \in Bracket
  BY <1>1, OpenContainers DEF Top
<1>3. t \in Piece /\ t.word \notin Surrogates
  BY <1>2 DEF Token, Piece, Bracket, Word, Kinds, Surrogates
<1>4. \A f \in Flags : intent'[f] = intent[f]
  <2>1. \A f \in Flags : f # "members" /\ f # Top.kind
    BY <1>2 DEF Flags, Bracket
  <2>2. DOMAIN intent = Counters \cup Flags
    BY DEF IntentInv, GenTypes
  <2> QED
    BY <1>1, <2>1, <2>2
<1>5. Raises(t, {})
  BY <1>1, <1>3, <1>4 DEF Raises
<1>6. \A d \in 1 .. Len(stack') : d \in 1 .. Len(stack) /\ stack'[d].used = stack[d].used
  <2>1. 0 \in Int
    OBVIOUS
  <2>2. /\ u \in Seq(Container) /\ Len(u) = Len(stack) - 1 /\ Len(stack) \in Nat \ {0}
        /\ \A k \in 1 .. Len(stack) - 1 : u[k] = stack[k]
    BY <1>1, <2>1, PoppedTotals
  <2> HIDE DEF u
  <2>3. Len(stack') = Len(u) /\ \A k \in 1 .. Len(u) : stack'[k].used = u[k].used
    BY <1>1, <2>1, <2>2, CountedTotals
  <2> QED
    BY <2>2, <2>3
<1> HIDE DEF t
<1> QED
  BY <1>3, <1>5, <1>6, FlagsStay, SMTT(30)

(* What is in a sequence with one more element.                              *)
LEMMA AppendedIndex ==
  ASSUME NEW S, NEW s \in Seq(S), NEW e \in S, NEW i \in 1 .. Len(Append(s, e))
  PROVE  (i \in 1 .. Len(s) /\ Append(s, e)[i] = s[i]) \/ Append(s, e)[i] = e
<1>1. PICK l \in Nat : l = Len(s)
  BY LenProperties
<1>2. i \in 1 .. l + 1 /\ Append(s, e)[l + 1] = e /\ \A k \in 1 .. l : Append(s, e)[k] = s[k]
  BY <1>1, AppendProperties
<1>3. i \in 1 .. l \/ i = l + 1
  BY <1>2
<1> QED
  BY <1>1, <1>2, <1>3

(* The keys kept once another is noted, or none.                             *)
LEMMA NotedKeys ==
  ASSUME IntentInv, pc = "key", NEW word \in Word, NEW used \in Seq(Word),
         used \in {Top.used, Append(Top.used, word)},
         stack' = [stack EXCEPT ![Len(stack)].used = used]
  PROVE  /\ Len(stack) \in Nat /\ Len(stack') = Len(stack)
         /\ \A d \in 1 .. Len(stack) :
              /\ d =< Len(stack) /\ d \in Nat /\ stack[d].used \in Seq(Word)
              /\ \/ stack'[d].used = stack[d].used
                 \/ d = Len(stack) /\ stack'[d].used = Append(stack[d].used, word)
<1>1. stack # << >> /\ stack \in Seq(Container) /\ 0 \in Int
  BY DEF IntentInv, Placed, GenTypes
<1>2. /\ Len(stack) \in Nat \ {0} /\ Len(stack') = Len(stack)
      /\ \A d \in 1 .. Len(stack) :
           stack'[d].used = IF d = Len(stack) THEN used ELSE stack[d].used
  BY <1>1, NotedTotals
<1>3. \A d \in 1 .. Len(stack) : stack[d].used \in Seq(Word)
  BY <1>1, OpenContainers, ContainerFields
<1> QED
  BY <1>2, <1>3 DEF Top

(* A key that is kept is written in the object that is open, and the flags   *)
(* raised with it are earned.                                                *)
LEMMA KeyedFlags ==
  ASSUME IntentInv, IntentInv', FlagsInv, pc = "key", NEW word \in Word,
         NEW raised \in SUBSET Flags, NEW used \in Seq(Word), Keyed(word, raised, used),
         used \in {Top.used, Append(Top.used, word)},
         "duplicate_key" \in raised => WrittenKey(word, Len(stack)),
         "empty_key" \in raised => word = "",
         "pointer_key" \in raised => word \in {"/", "~"},
         "lone_surrogate" \in raised => word \in Surrogates,
         word \in Surrogates => "lone_surrogate" \in raised \/ ~Parses
  PROVE  FlagsInv'
<1> DEFINE t == Token("key", word)
<1>1. /\ CountsAgree' /\ text' = Append(text, t)
      /\ stack' = [stack EXCEPT ![Len(stack)].used = used]
  BY DEF IntentInv, Keyed
<1>2. t \in Piece /\ t.kind = "key" /\ t.word = word
  BY DEF Token, Piece
<1> HIDE DEF t
<1>3. /\ Len(stack) \in Nat /\ Len(stack') = Len(stack)
      /\ \A d \in 1 .. Len(stack) :
           /\ d =< Len(stack) /\ d \in Nat /\ stack[d].used \in Seq(Word)
           /\ \/ stack'[d].used = stack[d].used
              \/ d = Len(stack) /\ stack'[d].used = Append(stack[d].used, word)
  BY <1>1, NotedKeys, Zenon
<1>4. Raises(t, raised)
  <2>1. ASSUME NEW f \in Flags PROVE intent'[f] = IF f \in raised THEN TRUE ELSE intent[f]
    BY Zenon DEF Keyed
  <2> QED
    BY <1>1, <1>2, <2>1 DEF Raises
<1>5. FlagsAreEarned' /\ \A f \in Flags : intent'[f] \in BOOLEAN
  <2>1. "duplicate_key" \in raised => HasDuplicate'
    BY <1>1, <1>2, <1>3, DuplicateIsWritten
  <2>2. ~Parses => intent["lone_surrogate"]
    BY DEF FlagsInv, FlagsAreEarned
  <2> QED
    BY <1>1, <1>2, <1>4, <2>1, <2>2, FlagsEarned
<1>6. ASSUME NEW d \in 1 .. Len(stack'), NEW i \in 1 .. Len(stack'[d].used),
             NEW w, w = stack'[d].used[i]
      PROVE  WrittenKey(w, d)'
  <2>1. /\ d \in 1 .. Len(stack) /\ d =< Len(stack') /\ d \in Nat /\ stack[d].used \in Seq(Word)
        /\ \/ stack'[d].used = stack[d].used
           \/ d = Len(stack') /\ stack'[d].used = Append(stack[d].used, word)
    BY <1>3, Zenon
  <2>2. \/ i \in 1 .. Len(stack[d].used) /\ w = stack[d].used[i]
        \/ d = Len(stack') /\ w = word
    <3>1. CASE stack'[d].used = stack[d].used
      BY <1>6, <3>1, Zenon
    <3>2. CASE d = Len(stack') /\ stack'[d].used = Append(stack[d].used, word)
      <4>1. PICK u \in Seq(Word) : u = stack[d].used
        BY <2>1, Zenon
      <4>2. i \in 1 .. Len(Append(u, word))
        BY <3>2, <4>1, Zenon
      <4>3. (i \in 1 .. Len(u) /\ Append(u, word)[i] = u[i]) \/ Append(u, word)[i] = word
        BY <4>2, AppendedIndex
      <4> QED
        BY <1>6, <3>2, <4>1, <4>3, Zenon
    <3> QED
      BY <2>1, <3>1, <3>2, Zenon
  <2>3. CASE i \in 1 .. Len(stack[d].used) /\ w = stack[d].used[i]
    <3>1. WrittenKey(w, d)
      BY <2>1, <2>3, Zenon DEF FlagsInv, KeysKept
    <3> QED
      BY <1>1, <1>2, <2>1, <3>1, KeyStays
  <2>4. CASE d = Len(stack') /\ w = word
    <3>1. WrittenKey(t.word, d)'
      BY <1>1, <1>2, <2>1, <2>4, KeyIsWritten
    <3> QED
      BY <1>2, <2>4, <3>1
  <2> QED
    BY <2>2, <2>3, <2>4
<1>7. KeysKept'
  BY <1>6 DEF KeysKept
<1> QED
  BY <1>5, <1>7 DEF FlagsInv

(* A repeated key is one that was written in the object that is open.        *)
LEMMA RepeatedIsWritten ==
  ASSUME IntentInv, FlagsInv, pc = "key", Top.used # << >>, NEW n \in Picks(Len(Top.used))
  PROVE  /\ WrittenKey(Top.used[n + 1], Len(stack))
         /\ Top.used[n + 1] \in Surrogates => ~Parses
<1> PICK w, i : i = n + 1 /\ w = Top.used[i]
  OBVIOUS
<1>1. i \in 1 .. Len(Top.used)
  BY RepeatedKey
<1>2. stack # << >> /\ stack \in Seq(Container)
  BY DEF IntentInv, Placed, GenTypes
<1>3. Len(stack) \in 1 .. Len(stack)
  BY <1>2, OpenContainers
<1>4. WrittenKey(w, Len(stack))
  BY <1>1, <1>3 DEF FlagsInv, KeysKept, Top
<1>5. w \in Surrogates => ~Parses
  BY <1>4 DEF WrittenKey, KeyTokens, Parses
<1> QED
  BY <1>4, <1>5

(* The four ways to a key keep the flags earned.                             *)
LEMMA KeyFlags ==
  ASSUME IntentInv, IntentInv', FlagsInv, EmptyKey \/ DuplicateKey \/ PointerKey \/ PlainKey, ~Trap
  PROVE  FlagsInv'
<1>1. pc = "key" /\ stack # << >> /\ stack \in Seq(Container)
  BY DEF EmptyKey, DuplicateKey, PointerKey, PlainKey, IntentInv, Placed, GenTypes
<1>2. Top.used \in Seq(Word)
  BY <1>1, OpenContainers, ContainerFields DEF Top
<1>3. /\ {"empty_key"} \in SUBSET Flags /\ {"duplicate_key"} \in SUBSET Flags
      /\ {"pointer_key"} \in SUBSET Flags
  BY DEF Flags
<1>4. "" \notin Surrogates /\ "/" \notin Surrogates /\ "~" \notin Surrogates
  BY DEF Surrogates
<1>5. CASE EmptyKey
  BY <1>1, <1>2, <1>3, <1>4, <1>5, FixedWords, KeyedFlags DEF EmptyKey
<1>6. CASE DuplicateKey
  <2>1. PICK n \in Picks(Len(Top.used)) :
          Top.used # << >> /\ Keyed(Top.used[n + 1], {"duplicate_key"}, Top.used)
    BY <1>6 DEF DuplicateKey
  <2>2. /\ Top.used[n + 1] \in Word /\ WrittenKey(Top.used[n + 1], Len(stack))
        /\ Top.used[n + 1] \in Surrogates => ~Parses
    BY <1>1, <2>1, RepeatedKey, RepeatedIsWritten
  <2> QED
    BY <1>1, <1>2, <1>3, <2>1, <2>2, KeyedFlags
<1>7. CASE PointerKey
  BY <1>1, <1>2, <1>3, <1>4, <1>7, FixedWords, KeyedFlags DEF PointerKey
<1>8. CASE PlainKey
  <2>1. PICK s \in StringBodies : Keyed(s.word, s.raised, Append(Top.used, s.word))
    BY <1>8 DEF PlainKey
  <2>2. /\ s.word \in Word /\ s.raised \in SUBSET Flags
        /\ s.raised \cap {"duplicate_key", "empty_key", "pointer_key"} = {}
        /\ "lone_surrogate" \in s.raised <=> s.word \in Surrogates
    BY BodyWords, RaisedFlags, BodyFlags
  <2>3. Append(Top.used, s.word) \in Seq(Word)
    BY <1>2, <2>2, AppendProperties
  <2> QED
    BY <1>1, <2>1, <2>2, <2>3, KeyedFlags
<1> QED
  BY <1>5, <1>6, <1>7, <1>8

(* No flag is raised before the first token.                                 *)
LEMMA FlagsInit == Init => FlagsInv
<1> SUFFICES ASSUME Init PROVE FlagsInv
  OBVIOUS
<1>1. text = << >> /\ stack = << >> /\ intent = NoIntent
  BY DEF Init
<1>2. \A f \in Flags : intent[f] = FALSE
  BY <1>1, Zenon DEF NoIntent
<1>3. Parses /\ KeysKept
  BY <1>1 DEF Parses, KeysKept
<1>4. {"duplicate_key", "empty_key", "pointer_key", "lone_surrogate"} \subseteq Flags
  BY DEF Flags
<1>5. FlagsAreEarned
  BY <1>2, <1>3, <1>4, Zenon DEF FlagsAreEarned
<1>6. \A f \in Flags : intent[f] \in BOOLEAN
  BY <1>2, Zenon
<1> QED
  BY <1>3, <1>5, <1>6 DEF FlagsInv

(* Every step, and every stutter, keeps the flags earned.                    *)
LEMMA FlagsStep == IntentInv /\ FlagsInv /\ [Next]_vars => FlagsInv'
<1> SUFFICES ASSUME IntentInv, FlagsInv, [Next]_vars PROVE FlagsInv'
  OBVIOUS
<1>1. IntentInv'
  BY IntentStep
<1>2. ASSUME UNCHANGED <<text, stack, intent>> PROVE FlagsInv'
  <2>1. CountsAfter' = CountsAfter
    BY <1>2 DEF CountsAfter
  <2>2. KeysKept'
    BY <1>2, <2>1 DEF FlagsInv, KeysKept, WrittenKey, KeyTokens, DepthAfter
  <2>3. FlagsAreEarned'
    BY <1>2, <2>1 DEF FlagsInv, FlagsAreEarned, HasDuplicate, InOneObject, DepthAfter, KeyTokens, Parses
  <2> QED
    BY <1>2, <2>2, <2>3 DEF FlagsInv
<1>3. CASE Trap
  BY <1>2, <1>3 DEF Trap
<1>4. CASE UNCHANGED vars
  BY <1>2, <1>4 DEF vars
<1>5. {} \in SUBSET Flags /\ "null" \notin Surrogates /\ "bool" \notin Surrogates
  BY DEF Surrogates
<1>6. CASE Null
  BY <1>5, <1>6, FixedWords, WroteFlags DEF Null, Scalar
<1>7. CASE Bool
  BY <1>5, <1>7, FixedWords, WroteFlags DEF Bool, Scalar
<1>8. CASE Number
  BY <1>8, BodyWords, RaisedFlags, BodyFlags, WroteFlags DEF Number, Scalar
<1>9. CASE String /\ ~Trap
  BY <1>9, BodyWords, RaisedFlags, BodyFlags, WroteFlags DEF String, Scalar
<1>10. CASE Open /\ ~Trap
  BY <1>1, <1>10, OpenFlags
<1>11. CASE Close
  BY <1>1, <1>11, CloseFlags
<1>12. CASE (EmptyKey \/ DuplicateKey \/ PointerKey \/ PlainKey) /\ ~Trap
  BY <1>1, <1>12, KeyFlags
<1> QED
  BY <1>3, <1>4, <1>6, <1>7, <1>8, <1>9, <1>10, <1>11, <1>12 DEF Next

(* A flag of the intent record is earned by the text, for every byte stream  *)
(* and every option: a key said to be repeated is, in one object.            *)
THEOREM FlagsAreTheText == Spec => []FlagsAreEarned
<1>1. FlagsInv => FlagsAreEarned
  BY DEF FlagsInv
<1> QED
  BY <1>1, IntentInit, IntentStep, FlagsInit, FlagsStep, PTL DEF Spec
=============================================================================
