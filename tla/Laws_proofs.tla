----------------------------- MODULE Laws_proofs -----------------------------
(***************************************************************************)
(* A law that ran has the verdict its statement deserves, whatever the SUT *)
(* answered and however long its lists are.  The statement (Laws) is about *)
(* the log of the calls; a routine decides as it goes, from its locals.    *)
(* The invariant says, at every step, what of the statement is settled by  *)
(* the calls so far, and which call of the log a local is the answer of.   *)
(*                                                                         *)
(* Two things make it inductive.  Once a law is blamed, some call already  *)
(* in the log fails it, and no later call mends that (the ...Failed        *)
(* predicates).  As long as it is not blamed, the calls are where the      *)
(* statement looks for them.                                               *)
(***************************************************************************)
EXTENDS CheckAll_proofs, SequenceTheorems, FiniteSetTheorems

-----------------------------------------------------------------------------
(* O4 writes into a document whose text it knows, whatever the SUT answers   *)
(* and however it fails in between.  The invariant reads the log: the last   *)
(* serialization said `canonical`, and no write came after it.               *)
Spelt ==
  \E k \in 1 .. Len(log) :
    /\ log[k].op = "serialize" /\ log[k].ans = canonical
    /\ \A w \in 1 .. Len(log) : log[w].op \in {"set", "remove"} => w < k

IsLog == \E S : log \in Seq(S)
SpeltInv == IsLog /\ (law = "O4" /\ pc \in {"pointers", "choose", "write"} => Spelt)

\* The step makes one call, none, or ends the routine.
Logs == \/ \E e : log' = Append(log, e)
        \/ log' = log
        \/ log' = << >>

-----------------------------------------------------------------------------
(* A call is put at the end of the log.                                      *)
LEMMA Logged ==
  ASSUME IsLog, NEW e, log' = Append(log, e)
  PROVE  /\ IsLog' /\ Len(log) \in Nat /\ Len(log') = Len(log) + 1
         /\ \A k \in 1 .. Len(log) : log'[k] = log[k]
         /\ log'[Len(log) + 1] = e
<1>1. PICK S : log \in Seq(S)
  BY DEF IsLog
<1> DEFINE T == S \cup {e}
<1>2. log \in Seq(T) /\ e \in T
  BY <1>1, SeqMonotonic
<1> HIDE DEF T
<1>3. Append(log, e) \in Seq(T)
  BY <1>2
<1>4. IsLog'
  BY <1>3 DEF IsLog
<1> QED
  BY <1>2, <1>4, AppendProperties

(* The log stays a log.                                                      *)
LEMMA LogKept == IsLog /\ Logs => IsLog'
<1>1. ASSUME IsLog, NEW e, log' = Append(log, e) PROVE IsLog'
  BY <1>1, Logged
<1>2. << >> \in Seq({})
  OBVIOUS
<1> QED
  BY <1>1, <1>2 DEF Logs, IsLog

(* A serialization that becomes `canonical` is spelt.                        *)
LEMMA JustSpelt ==
  ASSUME IsLog, NEW ans, SerializeCall(ans), canonical' = ans
  PROVE  Spelt'
<1> DEFINE e == [op |-> "serialize", arg |-> NoText, ans |-> ans]
           n == Len(log) + 1
<1>1. log' = Append(log, e)
  BY DEF SerializeCall, Answered
<1>2. Len(log) \in Nat /\ Len(log') = n /\ log'[n] = e
  BY <1>1, Logged
<1>3. e.op = "serialize" /\ e.ans = ans
  OBVIOUS
<1> HIDE DEF e
<1>4. \A w \in 1 .. Len(log') : log'[w].op \in {"set", "remove"} => w < n
  BY <1>2, <1>3
<1> QED
  BY <1>2, <1>3, <1>4 DEF Spelt

(* pointers() leaves what was spelt the last word.                           *)
LEMMA StillSpelt ==
  ASSUME IsLog, Spelt, NEW ans, PointersCall(ans), canonical' = canonical
  PROVE  Spelt'
<1> DEFINE e == [op |-> "pointers", arg |-> NoText, ans |-> ans]
           n == Len(log) + 1
<1>1. log' = Append(log, e)
  BY DEF PointersCall, Answered
<1>2. /\ Len(log) \in Nat /\ Len(log') = n /\ log'[n] = e
      /\ \A k \in 1 .. Len(log) : log'[k] = log[k]
  BY <1>1, Logged
<1>3. e.op = "pointers"
  OBVIOUS
<1> HIDE DEF e
<1>4. PICK k \in 1 .. Len(log) :
        /\ log[k].op = "serialize" /\ log[k].ans = canonical
        /\ \A w \in 1 .. Len(log) : log[w].op \in {"set", "remove"} => w < k
  BY DEF Spelt
<1>5. k \in 1 .. Len(log') /\ log'[k].op = "serialize" /\ log'[k].ans = canonical'
  BY <1>2, <1>4
<1>6. ASSUME NEW w \in 1 .. Len(log'), log'[w].op \in {"set", "remove"} PROVE w < k
  <2>1. w # n
    BY <1>2, <1>3, <1>6
  <2>2. w \in 1 .. Len(log)
    BY <1>2, <2>1
  <2> QED
    BY <1>2, <1>4, <1>6, <2>2
<1> QED
  BY <1>5, <1>6 DEF Spelt

-----------------------------------------------------------------------------
(* Every step of a routine but O4 makes a call, or none.                     *)
LEMMA OthersLog ==
  ASSUME V01Next \/ O3Next \/ O5Next \/ O6Next \/ O7Next
  PROVE  Logs /\ law' = law /\ law # "O4"
<1> USE DEF Logs, Within, Step, sutvars
<1>1. V01Next => Logs /\ law' = law /\ law # "O4"
  BY DEF V01Next, V01Parse, V01Reparse, V01GetReparse, V01Serialize, V01Again, V01Pointers,
         V01Get, V01PhaseB, V01Done, ParseCall, SerializeCall, PointersCall, GetCall, Answered
<1>2. O3Next => Logs /\ law' = law /\ law # "O4"
  BY DEF O3Next, O3Parse, O3Serialize, O3Pointers, O3PassOver, O3Unresolved, O3Get, O3Done,
         AcceptedInput, Enumerated, ParseCall, SerializeCall, PointersCall, GetCall, Answered,
         NextPointer
<1>3. O5Next => Logs /\ law' = law /\ law # "O4"
  BY DEF O5Next, O5Count, O5Parse, O5Serialize, O5Capture, O5Captured, O5Reparse, O5Same,
         O5Twice, O5Done, AcceptedInput, ModeCountCall, ParseCall, SerializeCall,
         SerializeModeCall, Answered, NextMode
<1>4. O6Next => Logs /\ law' = law /\ law # "O4"
  BY DEF O6Next, O6Declared, O6Parse, O6Serialize, O6Reparse, O6Again, AcceptedInput,
         PreservesCall, ParseCall, SerializeCall, Answered
<1>5. O7Next => Logs /\ law' = law /\ law # "O4"
  BY DEF O7Next, O7Strict, O7StrictText, O7Lazy, O7LazyText, AcceptedInput, ParseCall,
         SerializeCall, Answered
<1> QED
  BY <1>1, <1>2, <1>3, <1>4, <1>5, SMTT(30)

(* Every step of O4 leads to a write only over a text it knows.              *)
LEMMA O4Spelt == ASSUME SpeltInv, O4Next PROVE SpeltInv'
<1>a. law = "O4" /\ law' = law /\ Logs
  BY DEF O4Next, O4Parse, O4Restore, O4Serialize, O4After, O4Reserialize, O4Pointers, O4Get,
         O4Set, O4Remove, O4Choose, O4Chosen, O4Done, AcceptedInput, Enumerated, Step, Within,
         Logs, ParseCall, SerializeCall, PointersCall, GetCall, SetCall, RemoveCall, Answered,
         sutvars
<1>b. IsLog /\ IsLog'
  BY <1>a, LogKept DEF SpeltInv
<1> DEFINE Knows == pc' \in {"pointers", "choose", "write"} => Spelt'
<1>1. ASSUME NEW ans \in ParseAnswers, O4Parse(ans) \/ O4Restore(ans) PROVE Knows
  BY <1>1, Sentinels DEF O4Parse, O4Restore, AcceptedInput, ParseAnswers, Skip, Return
<1>2. ASSUME NEW ans, O4Serialize(ans) PROVE Knows
  BY <1>2, <1>b, JustSpelt DEF O4Serialize, Skip, Return
<1>3. ASSUME NEW ans, O4After(ans) PROVE Knows
  BY <1>3, <1>b, JustSpelt DEF O4After, Return
<1>4. ASSUME NEW ans, O4Reserialize(ans) PROVE Knows
  BY <1>4, <1>b, JustSpelt DEF O4Reserialize, Return
<1>5. ASSUME NEW ans, O4Pointers(ans) PROVE Knows
  <2>1. Spelt /\ PointersCall(ans)
    BY <1>5, <1>a DEF O4Pointers, Enumerated, SpeltInv, Step
  <2>2. canonical' = canonical
    BY <1>5 DEF O4Pointers, Enumerated, Return, locals
  <2> QED
    BY <1>b, <2>1, <2>2, StillSpelt
<1>6. ASSUME NEW ans, O4Get(ans) \/ O4Remove(ans) PROVE Knows
  BY <1>6 DEF O4Get, O4Remove
<1>7. ASSUME NEW ans \in WriteAnswers, O4Set(ans) PROVE Knows
  BY <1>7, Sentinels DEF O4Set, WriteAnswers, Return
<1>8. ASSUME O4Choose \/ O4Chosen \/ O4Done PROVE Knows
  <2>1. pc \in {"choose", "write"}
    BY <1>8 DEF O4Choose, O4Chosen, O4Done, Step
  <2>2. log' = log
    BY <1>8 DEF O4Choose, O4Chosen, O4Done, sutvars
  <2>3. canonical' = canonical
    BY <1>8 DEF O4Choose, O4Chosen, O4Done, Skip, Return, locals
  <2> QED
    BY <1>a, <2>1, <2>2, <2>3 DEF Spelt, SpeltInv
<1> QED
  BY <1>a, <1>b, <1>1, <1>2, <1>3, <1>4, <1>5, <1>6, <1>7, <1>8 DEF O4Next, SpeltInv

(* A routine starts with an empty log, and with its input.                   *)
LEMMA SpeltInit == Init => SpeltInv
<1>1. << >> \in Seq({})
  OBVIOUS
<1> QED
  BY <1>1 DEF Init, SutInit, OracleInit, SpeltInv, IsLog, FirstStep

(* Every step, and every stutter, keeps the invariant.                       *)
LEMMA SpeltStep == SpeltInv /\ [Next]_vars => SpeltInv'
<1>1. SpeltInv /\ UNCHANGED vars => SpeltInv'
  BY DEF vars, control, locals, sutvars, SpeltInv, IsLog, Spelt
<1>2. ASSUME SpeltInv, Add PROVE SpeltInv'
  <2>1. Logs
    BY <1>2 DEF Add, Logs
  <2>2. pc' \notin {"pointers", "choose", "write"}
    BY <1>2 DEF Add, FirstStep
  <2> QED
    BY <1>2, <2>1, <2>2, LogKept DEF SpeltInv
<1>3. ASSUME SpeltInv, V01Next \/ O3Next \/ O5Next \/ O6Next \/ O7Next PROVE SpeltInv'
  BY <1>3, OthersLog, LogKept DEF SpeltInv
<1> QED
  BY <1>1, <1>2, <1>3, O4Spelt DEF Next

(* O4's next write starts from the text it will be compared with, after any  *)
(* throw, refusal or lie under an earlier parent: the last thing the SUT     *)
(* said of its document is `canonical`, and nothing was written since.       *)
THEOREM WritesStartKnown == Spec => []WritesStartFromCanonical
<1>1. SpeltInv => WritesStartFromCanonical
  <2> SUFFICES ASSUME SpeltInv, Step("O4", "write") PROVE WritesStartFromCanonical
    BY DEF WritesStartFromCanonical
  <2>1. Spelt
    BY DEF SpeltInv, Step
  <2> QED
    BY <2>1 DEF Spelt, WritesStartFromCanonical
<1> QED
  BY <1>1, SpeltInit, SpeltStep, PTL DEF Spec

-----------------------------------------------------------------------------
(* The statement of each law, and what of it is settled by the calls so far. *)
Free(L, result) == \A v \in result.violations : v.law # L
Unblamed(L) == Free(L, r)

\* `rest` is what is left of the list s; the elements before it are done.
Done(rest, s) == Len(s) - Len(rest)
Rest(rest, s) ==
  /\ Len(rest) =< Len(s)
  /\ \A k \in 1 .. Len(rest) : rest[k] = s[Done(rest, s) + k]

-----------------------------------------------------------------------------
(* O1: settled by the first four calls.                                      *)
O1Failed ==
  \/ Len(log) >= 2 /\ Answer(2) = Threw
  \/ Len(log) >= 3 /\ Answer(3) # "accepted"
  \/ Len(log) >= 4 /\ Answer(4) # Answer(2)

O1Settled ==
  \/ Len(log) >= 4 /\ BlankThenThrew
  \/ Len(log) >= 4 /\ O1Held /\ Unblamed("O1")
  \/ O1Failed /\ ~Unblamed("O1")

(* O2: the one call of pointers(), its list, a get() and a reparse for each. *)
PointersAt == IF Answer(3) = "accepted" THEN 5 ELSE 4
Listed == Answer(PointersAt)

NoPointersYet == \A k \in DOMAIN log : log[k].op # "pointers"
PointersOnce ==
  /\ PointersAt \in DOMAIN log /\ log[PointersAt].op = "pointers"
  /\ Listed \in Seq(Pointer) /\ Listed # Threw
  /\ \A k \in DOMAIN log : log[k].op = "pointers" => k = PointersAt

O2PhaseA ==
  LET q == PointersAt
      j == Len(log) - q
  IN  /\ PointersOnce /\ Rest(ptrs, Listed) /\ j = Done(ptrs, Listed)
      /\ \A k \in 1 .. j : Did(q + k, "get", Listed[k])
      /\ Unblamed("O2") =>
           /\ Len(resolved) = j
           /\ \A k \in 1 .. j : Answer(q + k) \in Text /\ resolved[k].text = Answer(q + k)
      /\ ~Unblamed("O2") => \E k \in 1 .. j : Answer(q + k) \notin Text

O2Failed ==
  LET q == PointersAt
      n == Len(Listed)
  IN  \E k \in 1 .. n :
        \/ Answer(q + k) \notin Text
        \/ q + n + k =< Len(log) /\ Answer(q + n + k) # "accepted"

O2PhaseB ==
  LET q == PointersAt
      n == Len(Listed)
      m == Len(log) - q - n
  IN  /\ PointersOnce /\ m >= 0
      /\ \A k \in 1 .. n : Did(q + k, "get", Listed[k])
      /\ Unblamed("O2") =>
           /\ Len(resolved) = n - m
           /\ \A k \in 1 .. n : Answer(q + k) \in Text
           /\ \A k \in 1 .. Len(resolved) : resolved[k].text = Answer(q + m + k)
           /\ \A k \in 1 .. m : ParsedOK(q + n + k, Answer(q + k))
      /\ ~Unblamed("O2") => O2Failed

V01Law ==
  /\ pc \in {"parse", "serialize", "reparse", "again", "pointers"} => resolved = << >>
  /\ pc = "parse" => Len(log) = 0 /\ Unblamed("O1") /\ Unblamed("O2") /\ ~r.evaluated
  /\ pc = "serialize" => Len(log) = 1 /\ Unblamed("O1") /\ Unblamed("O2") /\ NoPointersYet
  /\ pc = "reparse" =>
       /\ Len(log) = 2 /\ Unblamed("O1") /\ Unblamed("O2") /\ NoPointersYet
       /\ Serialized(2, canonical) /\ canonical \in Text
  /\ pc = "again" =>
       /\ Len(log) = 3 /\ Unblamed("O1") /\ Unblamed("O2") /\ NoPointersYet
       /\ Serialized(2, canonical) /\ ParsedOK(3, canonical) /\ canonical \in Text
  /\ pc = "pointers" =>
       Len(log) = PointersAt - 1 /\ O1Settled /\ Unblamed("O2") /\ NoPointersYet
  /\ pc = "walk" => O1Settled /\ O2PhaseA
  /\ pc = "reget" => O1Settled /\ O2PhaseB

-----------------------------------------------------------------------------
(* O3: a get() for each listed pointer no duplicated key is involved in.     *)
Compared == Answer(2)
Enumeration == Answer(3)
AskedAt == {g \in DOMAIN log : g >= 4}

Agrees(g) == Answer(g) \in Text /\ Ref[Answer(g)] = RefAt[Ref[Compared]][log[g].arg]
Resolves(p) == RefAt[Ref[Compared]][p] # NoValue
Asked(p) == \E g \in AskedAt : log[g].arg = p

O3Failed ==
  \/ \E g \in AskedAt : ~Agrees(g)
  \/ \E k \in 1 .. Len(Enumeration) :
       Enumeration[k] \notin Dups[Compared] /\ ~Resolves(Enumeration[k])

O3Walked ==
  /\ Len(log) >= 3 /\ canonical = Compared /\ Enumeration \in Seq(Pointer)
  /\ Rest(ptrs, Enumeration)
  /\ \A g \in AskedAt : log[g].op = "get"
  /\ Unblamed("O3") =>
       /\ \A g \in AskedAt : Agrees(g)
       /\ \A k \in 1 .. Done(ptrs, Enumeration) :
            \/ Enumeration[k] \in Dups[Compared]
            \/ Resolves(Enumeration[k]) /\ Asked(Enumeration[k])
  /\ ~Unblamed("O3") => O3Failed

O3Law ==
  /\ pc \in {"parse", "serialize", "pointers"} => Unblamed("O3") /\ ~r.evaluated
  /\ pc = "parse" => Len(log) = 0
  /\ pc = "serialize" => Len(log) = 1
  /\ pc = "pointers" => Len(log) = 2 /\ canonical = Compared
  /\ pc = "walk" => O3Walked

-----------------------------------------------------------------------------
(* O4: a set(), get(), remove() and serialize() for each parent.             *)
Sets == Calls("set")
SetsBefore(s) == {w \in Sets : w < s}
ValueSet(s) == SetValues[(Cardinality(SetsBefore(s)) % Len(SetValues)) + 1]
ReadBack(ans, text) == ans \in Text /\ Ref[ans] = Ref[text]

\* The first n of the four calls for one parent went as they should.
Wrote(s, n) ==
  /\ s + n - 1 =< Len(log)
  /\ Answer(s) = "Applied"
  /\ n >= 2 => Did(s + 1, "get", log[s].arg) /\ ReadBack(Answer(s + 1), ValueSet(s))
  /\ n >= 3 => Did(s + 2, "remove", log[s].arg) /\ Answer(s + 2) = "Applied"
  /\ n >= 4 => Serialized(s + 3, Compared)

O4Failed ==
  \E s \in Sets :
    \/ Answer(s) # "Applied"
    \/ s + 1 =< Len(log) /\ ~ReadBack(Answer(s + 1), ValueSet(s))
    \/ s + 2 =< Len(log) /\ Answer(s + 2) # "Applied"
    \/ s + 3 =< Len(log) /\ Answer(s + 3) # Compared

\* The containers among the first m pointers listed.
ContainersTo(m) ==
  {k \in 1 .. m : /\ Enumeration[k] \notin Dups[Compared]
                  /\ RefAt[Ref[Compared]][Enumeration[k]] \in Container}

\* How many parents there are to write into.
ParentCount(n) ==
  /\ n =< kSetRemoveParents
  /\ \/ n = kSetRemoveParents
     \/ n = Cardinality(ContainersTo(Len(Enumeration)))

O4Chosen0 ==
  /\ Len(log) = 3 /\ canonical = Compared /\ Sets = {} /\ Enumeration \in Seq(Pointer)
  /\ Rest(ptrs, Enumeration)
  /\ Len(parents) = Cardinality(ContainersTo(Done(ptrs, Enumeration)))

\* The parents before the one at hand are done.
O4Between ==
  /\ Len(log) >= 3 /\ canonical = Compared /\ Enumeration \in Seq(Pointer)
  /\ \A s \in Sets : Wrote(s, 4)
  /\ IsFiniteSet(Sets) /\ Cardinality(Sets) = i
  /\ ParentCount(i + Len(parents))

\* And the first n calls for the one at hand, the set() at s first, are made.
O4Amid(n) ==
  \E s \in Sets :
    /\ s >= 4 /\ Len(log) = s + n - 1
    /\ canonical = Compared /\ Enumeration \in Seq(Pointer)
    /\ log[s].arg = FreshPointer /\ Wrote(s, n)
    /\ \A w \in Sets \ {s} : w < s /\ Wrote(w, 4)
    /\ IsFiniteSet(SetsBefore(s)) /\ Cardinality(SetsBefore(s)) = i
    /\ ParentCount(i + Len(parents))

Writing == {"write", "get", "remove", "after", "restore", "reserialize"}

O4Law ==
  /\ pc \in {"parse", "serialize", "pointers", "choose"} =>
       Unblamed("O4") /\ ~r.evaluated /\ i = 0
  /\ pc \in {"parse", "serialize", "pointers"} => parents = << >>
  /\ pc = "parse" => Len(log) = 0
  /\ pc = "serialize" => Len(log) = 1 /\ Sets = {}
  /\ pc = "pointers" => Len(log) = 2 /\ Sets = {} /\ canonical = Compared
  /\ pc = "choose" => O4Chosen0
  /\ pc \in Writing => Len(log) >= 3 /\ (~Unblamed("O4") => O4Failed)
  /\ pc = "write" /\ Unblamed("O4") => O4Between
  /\ pc = "get" /\ Unblamed("O4") => O4Amid(1)
  /\ pc = "remove" /\ Unblamed("O4") => O4Amid(2)
  /\ pc = "after" /\ Unblamed("O4") => O4Amid(3)
  /\ pc \in {"restore", "reserialize"} => ~Unblamed("O4")

-----------------------------------------------------------------------------
(* O5: the captures, then three calls for each mode.                         *)
ModeAt(m) == 4 + Answer(1) + 3 * m

\* The first n of the three calls for mode m went as they should.
Checked(m, n) ==
  /\ n >= 1 => ParsedOK(ModeAt(m), Answer(4 + m))
  /\ n >= 2 => Serialized(ModeAt(m) + 1, Answer(3))
  /\ n >= 3 => Did(ModeAt(m) + 2, "serialize_mode", m) /\ Answer(ModeAt(m) + 2) = Answer(4 + m)

O5Failed ==
  \E m \in 0 .. Answer(1) - 1 :
    \/ ModeAt(m) =< Len(log) /\ Answer(ModeAt(m)) # "accepted"
    \/ ModeAt(m) + 1 =< Len(log) /\ Answer(ModeAt(m) + 1) # Answer(3)
    \/ ModeAt(m) + 2 =< Len(log) /\ Answer(ModeAt(m) + 2) # Answer(4 + m)

O5Captures ==
  /\ Answer(1) = count /\ Answer(3) = canonical /\ Len(log) >= 3 + Len(modes)
  /\ \A m \in 0 .. Len(modes) - 1 :
       Did(4 + m, "serialize_mode", m) /\ Answer(4 + m) = modes[m + 1]

\* The modes before the one at hand are done, and n calls for the one at hand are made.
O5At(n) ==
  /\ O5Captures /\ Len(modes) = count /\ Len(log) = ModeAt(i) + n - 1
  /\ \A m \in 0 .. i - 1 : Checked(m, 3)
  /\ i =< count /\ (n > 0 => i < count /\ Checked(i, n))

O5Law ==
  /\ pc \in {"count", "parse", "serialize", "capture"} =>
       Unblamed("O5") /\ ~r.evaluated /\ i = 0
  /\ pc \in {"count", "parse", "serialize"} => modes = << >>
  /\ pc = "count" => Len(log) = 0
  /\ pc = "parse" => Len(log) = 1 /\ Answer(1) = count
  /\ pc = "serialize" => Len(log) = 2 /\ Answer(1) = count
  /\ pc = "capture" => O5Captures /\ Len(log) = 3 + Len(modes)
  /\ pc \in {"reparse", "same", "twice"} => O5Captures /\ Len(modes) = count
  /\ pc \in {"reparse", "same", "twice"} /\ ~Unblamed("O5") => O5Failed
  /\ pc = "reparse" /\ Unblamed("O5") => O5At(0)
  /\ pc = "same" /\ Unblamed("O5") => O5At(1)
  /\ pc = "twice" /\ Unblamed("O5") => O5At(2)

-----------------------------------------------------------------------------
(* O6 and O7: each call has its place.                                       *)
O6Law ==
  /\ pc # "return" => Unblamed("O6") /\ ~r.evaluated
  /\ pc = "declared" => Len(log) = 0
  /\ pc = "parse" => Len(log) = 1
  /\ pc = "serialize" => Len(log) = 2
  /\ pc = "reparse" => Len(log) = 3 /\ Answer(3) = canonical
  /\ pc = "again" => Len(log) = 4 /\ ParsedOK(4, Answer(3))

O7Law ==
  /\ pc # "return" => Unblamed("O7")
  /\ pc = "parse" => Len(log) = 0 /\ ~r.evaluated
  /\ pc = "serialize" => Len(log) = 1 /\ ~r.evaluated
  /\ pc = "lazy" => Len(log) = 2 /\ Answer(2) = canonical
  /\ pc = "lazytext" => Len(log) = 3 /\ Answer(2) = canonical /\ ParsedOK(3, input)

LawInv ==
  /\ IsLog
  /\ law = "O1O2" => V01Law
  /\ law = "O3" => O3Law
  /\ law = "O4" => O4Law
  /\ law = "O5" => O5Law
  /\ law = "O6" => O6Law
  /\ law = "O7" => O7Law
  /\ VerdictMatchesLaw

-----------------------------------------------------------------------------
(* A call is recorded at the end of the log, which is otherwise as it was.   *)
Recorded(op, arg, ans) ==
  /\ IsLog' /\ Len(log) \in Nat /\ Len(log') = Len(log) + 1
  /\ DOMAIN log = 1 .. Len(log) /\ DOMAIN log' = 1 .. Len(log) + 1
  /\ \A k \in 1 .. Len(log) : log'[k] = log[k]
  /\ log'[Len(log) + 1].op = op
  /\ log'[Len(log) + 1].arg = arg
  /\ log'[Len(log) + 1].ans = ans

(* A call that answered, or threw, is one more record of the log.            *)
LEMMA AnsweredRecorded ==
  ASSUME IsLog, NEW op, NEW arg, NEW ans, NEW right, NEW next,
         Answered(op, arg, ans, right, next)
  PROVE  Recorded(op, arg, ans)
<1> DEFINE e == [op |-> op, arg |-> arg, ans |-> ans]
<1>1. e.op = op /\ e.arg = arg /\ e.ans = ans
  OBVIOUS
<1>2. log' = Append(log, e)
  BY DEF Answered
<1> HIDE DEF e
<1>3. /\ IsLog' /\ Len(log) \in Nat /\ Len(log') = Len(log) + 1
      /\ \A k \in 1 .. Len(log) : log'[k] = log[k]
      /\ log'[Len(log) + 1] = e
  BY <1>2, Logged
<1>4. DOMAIN log = 1 .. Len(log) /\ DOMAIN log' = 1 .. Len(log')
  BY <1>3 DEF IsLog
<1> QED
  BY <1>1, <1>3, <1>4 DEF Recorded

(* So is each kind of call.                                                  *)
LEMMA CallsRecorded ==
  ASSUME IsLog, NEW ans
  PROVE  /\ \A t, st : ParseCall(t, st, ans) => Recorded("parse", t, ans)
         /\ SerializeCall(ans) => Recorded("serialize", NoText, ans)
         /\ PointersCall(ans) => Recorded("pointers", NoText, ans)
         /\ \A p : GetCall(p, ans) => Recorded("get", p, ans)
         /\ \A p, v : SetCall(p, v, ans) => Recorded("set", p, ans)
         /\ \A p : RemoveCall(p, ans) => Recorded("remove", p, ans)
         /\ \A m : SerializeModeCall(m, ans) => Recorded("serialize_mode", m, ans)
         /\ ModeCountCall(ans) => Recorded("serialize_mode_count", NoText, ans)
         /\ PreservesCall(ans) => Recorded("preserves_number_text", NoText, ans)
<1>1. \A t, st : ParseCall(t, st, ans) => Recorded("parse", t, ans)
  BY AnsweredRecorded DEF ParseCall
<1>2. SerializeCall(ans) => Recorded("serialize", NoText, ans)
  BY AnsweredRecorded DEF SerializeCall
<1>3. PointersCall(ans) => Recorded("pointers", NoText, ans)
  BY AnsweredRecorded DEF PointersCall
<1>4. \A p : GetCall(p, ans) => Recorded("get", p, ans)
  BY AnsweredRecorded DEF GetCall
<1>5. \A p, v : SetCall(p, v, ans) => Recorded("set", p, ans)
  BY AnsweredRecorded DEF SetCall
<1>6. \A p : RemoveCall(p, ans) => Recorded("remove", p, ans)
  BY AnsweredRecorded DEF RemoveCall
<1>7. \A m : SerializeModeCall(m, ans) => Recorded("serialize_mode", m, ans)
  BY AnsweredRecorded DEF SerializeModeCall
<1>8. ModeCountCall(ans) => Recorded("serialize_mode_count", NoText, ans)
  BY AnsweredRecorded DEF ModeCountCall
<1>9. PreservesCall(ans) => Recorded("preserves_number_text", NoText, ans)
  BY AnsweredRecorded DEF PreservesCall
<1> QED
  BY <1>1, <1>2, <1>3, <1>4, <1>5, <1>6, <1>7, <1>8, <1>9

(* A blame is of one law, and shows.                                         *)
LEMMA BlameShows ==
  ASSUME r \in Result
  PROVE  \A L, what, p :
           LET b == Blamed(L, what, p)
           IN  /\ ~Free(L, b) /\ b.evaluated = r.evaluated
               /\ \A M : M # L => (Free(M, b) <=> Unblamed(M))
<1> SUFFICES ASSUME NEW L, NEW what, NEW p
             PROVE  LET b == Blamed(L, what, p)
                    IN  /\ ~Free(L, b) /\ b.evaluated = r.evaluated
                        /\ \A M : M # L => (Free(M, b) <=> Unblamed(M))
  OBVIOUS
<1> DEFINE v == Violates(L, what, p)
           b == Blamed(L, what, p)
<1>1. v.law = L
  BY DEF Violates
<1>2. b.violations = r.violations \cup {v} /\ b.evaluated = r.evaluated
  BY DEF Result, Blamed
<1> HIDE DEF v, b
<1>3. ~Free(L, b) /\ \A M : M # L => (Free(M, b) <=> Unblamed(M))
  BY <1>1, <1>2 DEF Free, Unblamed
<1> QED
  BY <1>2, <1>3 DEF b

(* A blame shows in the next state, and is of no other law.                  *)
LEMMA Blames ==
  ASSUME r \in Result, NEW L, NEW what, NEW p, r' = Blamed(L, what, p)
  PROVE  /\ ~Unblamed(L)' /\ r'.evaluated = r.evaluated
         /\ \A M : M # L => (Unblamed(M)' <=> Unblamed(M))
<1>1. /\ ~Free(L, r') /\ r'.evaluated = r.evaluated
      /\ \A M : M # L => (Free(M, r') <=> Unblamed(M))
  BY BlameShows
<1> QED
  BY <1>1 DEF Unblamed, Free

(* Nothing but the running routine changes within it.                        *)
LEMMA WithinKeeps == Within => law' = law /\ input' = input
BY DEF Within, given

(* A routine of one law has to keep its own part of the invariant, and end   *)
(* with the verdict its law deserves.                                        *)
LEMMA OneLaw ==
  ASSUME NEW L \in Routine \ {"O1O2"}, law' = L, IsLog',
         L = "O3" => O3Law', L = "O4" => O4Law', L = "O5" => O5Law',
         L = "O6" => O6Law', L = "O7" => O7Law',
         pc' = "return" /\ r'.evaluated => (Unblamed(L)' <=> LawHeld(L)')
  PROVE  LawInv'
<1>1. VerdictMatchesLaw'
  BY DEF Routine, VerdictMatchesLaw, LawsOf, Unblamed, Free
<1>2. law' # "O1O2"
  OBVIOUS
<1> QED
  BY <1>1, <1>2 DEF LawInv

-----------------------------------------------------------------------------
(* O7, check_strict_subset(): four calls, each in its place.                 *)
LEMMA O7Lawful == ASSUME TypeInv, LawInv, O7Next PROVE LawInv'
<1>w. Within /\ law = "O7"
  BY DEF O7Next, O7Strict, O7StrictText, O7Lazy, O7LazyText, AcceptedInput, Step
<1>a. r \in Result /\ law = "O7" /\ law' = law /\ input' = input /\ IsLog /\ O7Law
  BY <1>w, WithinKeeps DEF TypeInv, TypeOK, LawInv
<1> DEFINE Verdict7 == pc' = "return" /\ r'.evaluated => (Unblamed("O7")' <=> O7Held')
<1>b. LawHeld("O7")' <=> O7Held'
  BY DEF LawHeld
<1>c. IsLog' /\ O7Law' /\ Verdict7 => LawInv'
  BY <1>a, <1>b, OneLaw DEF Routine
<1> SUFFICES IsLog' /\ O7Law' /\ Verdict7
  BY <1>c
<1>1. ASSUME NEW ans \in ParseAnswers, O7Strict(ans)
      PROVE  IsLog' /\ O7Law' /\ Verdict7
  <2>1. Recorded("parse", input, ans) /\ pc = "parse"
    BY <1>1, <1>a, CallsRecorded DEF O7Strict, AcceptedInput, Step
  <2>2. r'.violations = r.violations /\ r'.evaluated = r.evaluated
    BY <1>1, <1>a, Sentinels DEF O7Strict, AcceptedInput, ParseAnswers, Skip, Return, Result
  <2>3. pc' = "serialize" \/ pc' = "return"
    BY <1>1, Sentinels DEF O7Strict, AcceptedInput, ParseAnswers, Skip, Return
  <2> QED
    BY <1>a, <2>1, <2>2, <2>3 DEF O7Law, Recorded, Unblamed, Free
<1>2. ASSUME NEW ans \in TextAnswers, O7StrictText(ans)
      PROVE  IsLog' /\ O7Law' /\ Verdict7
  <2>1. Recorded("serialize", NoText, ans) /\ pc = "serialize"
    BY <1>2, <1>a, CallsRecorded DEF O7StrictText, Step
  <2>2. CASE ans = Threw
    <3>1. pc' = "return" /\ r' = Blamed("O7", "serialize threw", NoPointer)
      BY <1>2, <2>2 DEF O7StrictText, Return
    <3>2. ~r'.evaluated
      BY <1>a, <2>1, <3>1, BlameShows DEF O7Law
    <3> QED
      BY <2>1, <3>1, <3>2 DEF O7Law, Recorded
  <2>3. CASE ans # Threw
    <3>1. pc' = "lazy" /\ canonical' = ans /\ r'.violations = r.violations
      BY <1>2, <1>a, <2>3 DEF O7StrictText, Return, Result
    <3> QED
      BY <1>a, <2>1, <3>1 DEF O7Law, Recorded, Unblamed, Free, Answer
  <2> QED
    BY <2>2, <2>3
<1>3. ASSUME NEW ans \in ParseAnswers, O7Lazy(ans)
      PROVE  IsLog' /\ O7Law' /\ Verdict7
  <2>1. Recorded("parse", input, ans) /\ pc = "lazy"
    BY <1>3, <1>a, CallsRecorded DEF O7Lazy, Step
  <2>2. CASE ans = "accepted"
    <3>1. pc' = "lazytext" /\ canonical' = canonical /\ r' = r
      BY <1>3, <2>2, Sentinels DEF O7Lazy, locals
    <3> QED
      BY <1>a, <2>1, <2>2, <3>1 DEF O7Law, Recorded, Unblamed, Free, Answer, ParsedOK, Did
  <2>3. CASE ans # "accepted"
    <3>1. pc' = "return" /\ \E what : r' = Blamed("O7", what, NoPointer)
      BY <1>3, <2>3, Sentinels DEF O7Lazy, Return, ParseAnswers
    <3>2. ~Unblamed("O7")'
      BY <1>a, <3>1, BlameShows DEF Unblamed, Free
    <3>3. ~O7Held'
      BY <1>a, <2>1, <2>3 DEF O7Law, Recorded, O7Held, ParsedOK, Answer
    <3> QED
      BY <2>1, <3>1, <3>2, <3>3 DEF O7Law, Recorded
  <2> QED
    BY <2>2, <2>3
<1>4. ASSUME NEW ans \in TextAnswers, O7LazyText(ans)
      PROVE  IsLog' /\ O7Law' /\ Verdict7
  <2>1. Recorded("serialize", NoText, ans) /\ pc = "lazytext"
    BY <1>4, <1>a, CallsRecorded DEF O7LazyText, Step
  <2>2. O7Held' <=> ans = canonical
    BY <1>a, <2>1 DEF O7Law, Recorded, O7Held, ParsedOK, Serialized, Did, Answer
  <2>3. pc' = "return"
    BY <1>4 DEF O7LazyText, Return
  <2>4. CASE ans = canonical
    <3>1. r' = r
      BY <1>4, <2>4, Sentinels DEF O7LazyText, Return, TypeInv, TypeOK
    <3> QED
      BY <1>a, <2>1, <2>2, <2>3, <2>4, <3>1 DEF O7Law, Recorded, Unblamed, Free
  <2>5. CASE ans # canonical
    <3>1. \E what : r' = Blamed("O7", what, NoPointer)
      BY <1>4, <2>5 DEF O7LazyText, Return
    <3>2. ~Unblamed("O7")'
      BY <1>a, <3>1, BlameShows DEF Unblamed, Free
    <3> QED
      BY <2>1, <2>2, <2>3, <2>5, <3>2 DEF O7Law, Recorded
  <2> QED
    BY <2>4, <2>5
<1> QED
  BY <1>1, <1>2, <1>3, <1>4 DEF O7Next
-----------------------------------------------------------------------------
(* O6, check_number_text(): five calls, each in its place.                   *)
LEMMA O6Lawful == ASSUME TypeInv, LawInv, O6Next PROVE LawInv'
<1>w. Within /\ law = "O6"
  BY DEF O6Next, O6Declared, O6Parse, O6Serialize, O6Reparse, O6Again, AcceptedInput, Step
<1>a. r \in Result /\ law = "O6" /\ law' = law /\ input' = input /\ IsLog /\ O6Law
  BY <1>w, WithinKeeps DEF TypeInv, TypeOK, LawInv
<1> DEFINE Verdict6 == pc' = "return" /\ r'.evaluated => (Unblamed("O6")' <=> O6Held')
<1>b. LawHeld("O6")' <=> O6Held'
  BY DEF LawHeld
<1>c. IsLog' /\ O6Law' /\ Verdict6 => LawInv'
  BY <1>a, <1>b, OneLaw DEF Routine
<1> SUFFICES IsLog' /\ O6Law' /\ Verdict6
  BY <1>c
<1>1. ASSUME NEW ans \in BoolAnswers, O6Declared(ans)
      PROVE  IsLog' /\ O6Law' /\ Verdict6
  <2>1. Recorded("preserves_number_text", NoText, ans) /\ pc = "declared"
    BY <1>1, <1>a, CallsRecorded DEF O6Declared, Step
  <2>2. CASE ans = Threw
    <3>1. pc' = "return" /\ r' = Blamed("O6", "declaration threw", NoPointer)
      BY <1>1, <2>2, Sentinels DEF O6Declared, Return
    <3>2. ~r'.evaluated
      BY <1>a, <2>1, <3>1, BlameShows DEF O6Law
    <3> QED
      BY <2>1, <3>1, <3>2 DEF O6Law, Recorded
  <2>3. CASE ans # Threw
    <3>1. r'.violations = r.violations /\ r'.evaluated = r.evaluated
      BY <1>1, <1>a, <2>3 DEF O6Declared, Skip, Return, Result
    <3>2. pc' = "parse" \/ pc' = "return"
      BY <1>1, <2>3 DEF O6Declared, Skip, Return
    <3> QED
      BY <1>a, <2>1, <3>1, <3>2 DEF O6Law, Recorded, Unblamed, Free
  <2> QED
    BY <2>2, <2>3
<1>2. ASSUME NEW ans \in ParseAnswers, O6Parse(ans)
      PROVE  IsLog' /\ O6Law' /\ Verdict6
  <2>1. Recorded("parse", input, ans) /\ pc = "parse"
    BY <1>2, <1>a, CallsRecorded DEF O6Parse, AcceptedInput, Step
  <2>2. r'.violations = r.violations /\ r'.evaluated = r.evaluated
    BY <1>2, <1>a, Sentinels DEF O6Parse, AcceptedInput, ParseAnswers, Skip, Return, Result
  <2>3. pc' = "serialize" \/ pc' = "return"
    BY <1>2, Sentinels DEF O6Parse, AcceptedInput, ParseAnswers, Skip, Return
  <2> QED
    BY <1>a, <2>1, <2>2, <2>3 DEF O6Law, Recorded, Unblamed, Free
<1>3. ASSUME NEW ans \in TextAnswers, O6Serialize(ans)
      PROVE  IsLog' /\ O6Law' /\ Verdict6
  <2>1. Recorded("serialize", NoText, ans) /\ pc = "serialize"
    BY <1>3, <1>a, CallsRecorded DEF O6Serialize, Step
  <2>2. CASE ans = Threw
    <3>1. pc' = "return" /\ r' = Blamed("O6", "serialize threw", NoPointer)
      BY <1>3, <2>2 DEF O6Serialize, Return
    <3>2. ~r'.evaluated
      BY <1>a, <2>1, <3>1, BlameShows DEF O6Law
    <3> QED
      BY <2>1, <3>1, <3>2 DEF O6Law, Recorded
  <2>3. CASE ans # Threw
    <3>1. pc' = "reparse" /\ canonical' = ans /\ r' = r
      BY <1>3, <1>a, <2>3 DEF O6Serialize, Return, Result
    <3> QED
      BY <1>a, <2>1, <3>1 DEF O6Law, Recorded, Unblamed, Free, Answer
  <2> QED
    BY <2>2, <2>3
<1>4. ASSUME NEW ans \in ParseAnswers, O6Reparse(ans)
      PROVE  IsLog' /\ O6Law' /\ Verdict6
  <2>1. Recorded("parse", canonical, ans) /\ pc = "reparse"
    BY <1>4, <1>a, CallsRecorded DEF O6Reparse, Step
  <2>2. CASE ans = "accepted"
    <3>1. pc' = "again" /\ canonical' = canonical /\ r' = r
      BY <1>4, <2>2 DEF O6Reparse, locals
    <3> QED
      BY <1>a, <2>1, <2>2, <3>1 DEF O6Law, Recorded, Unblamed, Free, Answer, ParsedOK, Did
  <2>3. CASE ans # "accepted"
    <3>1. pc' = "return" /\ r'.evaluated = r.evaluated
      BY <1>4, <1>a, <2>3 DEF O6Reparse, Skip, Return, Result
    <3> QED
      BY <1>a, <2>1, <3>1 DEF O6Law, Recorded
  <2> QED
    BY <2>2, <2>3
<1>5. ASSUME NEW ans \in TextAnswers, O6Again(ans)
      PROVE  IsLog' /\ O6Law' /\ Verdict6
  <2>1. Recorded("serialize", NoText, ans) /\ pc = "again"
    BY <1>5, <1>a, CallsRecorded DEF O6Again, Step
  <2>2. CASE ans = Threw
    <3>1. pc' = "return" /\ r' = Blamed("O6", "serialize threw", NoPointer)
      BY <1>5, <2>2 DEF O6Again, Return
    <3>2. ~r'.evaluated
      BY <1>a, <2>1, <3>1, BlameShows DEF O6Law
    <3> QED
      BY <2>1, <3>1, <3>2 DEF O6Law, Recorded
  <2>3. CASE ans # Threw
    <3>a. ans \in Text /\ input \in Text
      BY <2>3, ConstantTypes DEF TextAnswers, TypeInv, TypeOK
    <3>1. /\ pc' = "return"
          /\ r'.violations = r.violations \cup {Violates("O6", "number lost", NoPointer) :
                                               k \in LostTokens(ans)}
      BY <1>5, <1>a, <2>3 DEF O6Again, Return, Result
    <3>2. Unblamed("O6")' <=> LostTokens(ans) = {}
      <4>1. Unblamed("O6")
        BY <1>a, <2>1 DEF O6Law
      <4> DEFINE lost == Violates("O6", "number lost", NoPointer)
      <4>2. lost.law = "O6"
        BY DEF Violates
      <4> HIDE DEF lost
      <4>3. CASE LostTokens(ans) = {}
        BY <3>1, <4>1, <4>3 DEF Unblamed, Free
      <4>4. CASE LostTokens(ans) # {}
        <5>1. lost \in r'.violations
          BY <3>1, <4>4 DEF lost
        <5> QED
          BY <4>2, <4>4, <5>1 DEF Unblamed, Free
      <4> QED
        BY <4>3, <4>4
    <3>3. \A k \in Token : Tokens[input][k] \in Nat /\ Tokens[ans][k] \in Nat
      BY <3>a, ConstantTypes
    <3>4. LostTokens(ans) = {} <=> \A k \in Token : Tokens[input][k] =< Tokens[ans][k]
      BY <3>3 DEF LostTokens
    <3>5. O6Held' <=> \A k \in Token : Tokens[input][k] =< Tokens[ans][k]
      BY <1>a, <2>1, <3>a DEF O6Law, Recorded, O6Held, ParsedOK, Did, Answer
    <3> QED
      BY <2>1, <3>1, <3>2, <3>4, <3>5 DEF O6Law, Recorded
  <2> QED
    BY <2>2, <2>3
<1> QED
  BY <1>1, <1>2, <1>3, <1>4, <1>5 DEF O6Next
-----------------------------------------------------------------------------
(* O5: a further call undoes neither what the captures answered nor a fault. *)
LEMMA O5Stands ==
  ASSUME count \in Nat, O5Captures, Len(modes) = count,
         NEW op, NEW arg, NEW ans, Recorded(op, arg, ans), UNCHANGED <<canonical, count, modes>>
  PROVE  /\ O5Captures' /\ Answer(1) = count /\ Answer(1)' = count
         /\ O5Failed => O5Failed'
         /\ \A m \in 0 .. count - 1, n \in 0 .. 3 : Checked(m, n) => Checked(m, n)'
<1>1. /\ Len(log) >= 3 + count /\ Answer(1) = count /\ Answer(3) = canonical
      /\ \A k \in 1 .. Len(log) : log'[k] = log[k] /\ Answer(k)' = Answer(k)
      /\ DOMAIN log = 1 .. Len(log) /\ DOMAIN log' = 1 .. Len(log) + 1
      /\ Len(log) \in Nat /\ Len(log') = Len(log) + 1
  BY DEF O5Captures, Recorded, Answer
<1>2. Answer(1)' = count /\ Answer(3)' = canonical /\ ModeAt(0)' = ModeAt(0)
  BY <1>1 DEF ModeAt
<1>3. \A k, o, a : Did(k, o, a) => Did(k, o, a)' /\ Answer(k)' = Answer(k)
  BY <1>1 DEF Did
<1>4. \A m \in 0 .. count - 1 : Did(4 + m, "serialize_mode", m) /\ Answer(4 + m) = modes[m + 1]
  BY DEF O5Captures
<1>5. \A m \in 0 .. count - 1 : /\ ModeAt(m)' = ModeAt(m) /\ ModeAt(m) = 4 + count + 3 * m
                                /\ Answer(4 + m)' = Answer(4 + m)
  BY <1>1, <1>2, <1>3, <1>4 DEF ModeAt
<1>6. O5Captures'
  BY <1>1, <1>2, <1>3, <1>4 DEF O5Captures
<1>7. ASSUME O5Failed PROVE O5Failed'
  <2>1. PICK m \in 0 .. count - 1 :
          \/ ModeAt(m) =< Len(log) /\ Answer(ModeAt(m)) # "accepted"
          \/ ModeAt(m) + 1 =< Len(log) /\ Answer(ModeAt(m) + 1) # Answer(3)
          \/ ModeAt(m) + 2 =< Len(log) /\ Answer(ModeAt(m) + 2) # Answer(4 + m)
    BY <1>1, <1>7 DEF O5Failed
  <2>2. /\ ModeAt(m) =< Len(log) => Answer(ModeAt(m))' = Answer(ModeAt(m))
        /\ ModeAt(m) + 1 =< Len(log) => Answer(ModeAt(m) + 1)' = Answer(ModeAt(m) + 1)
        /\ ModeAt(m) + 2 =< Len(log) => Answer(ModeAt(m) + 2)' = Answer(ModeAt(m) + 2)
    BY <1>1, <1>5
  <2> QED
    BY <1>1, <1>2, <1>5, <2>1, <2>2, SMTT(30) DEF O5Failed
<1>8. ASSUME NEW m \in 0 .. count - 1, NEW n \in 0 .. 3, Checked(m, n) PROVE Checked(m, n)'
  BY <1>1, <1>2, <1>3, <1>5, <1>8 DEF Checked, ParsedOK, Serialized
<1> QED
  BY <1>1, <1>2, <1>6, <1>7, <1>8
(* A fault is a fault in the statement, and without one the statement holds. *)
AllCaptured == O5Captures /\ count \in Nat /\ Len(modes) = count
AllChecked == \A m \in 0 .. count - 1 : Checked(m, 3)

(* With every mode captured, the checks of the modes decide the law.         *)
LEMMA O5Settles == AllCaptured => (O5Failed => ~O5Held) /\ (AllChecked => O5Held)
<1> SUFFICES ASSUME AllCaptured
             PROVE  (O5Failed => ~O5Held) /\ (AllChecked => O5Held)
  OBVIOUS
<1>1. Answer(1) = count /\ Answer(3) = canonical /\ count \in Nat /\ O5Captures /\ Len(modes) = count
  BY DEF AllCaptured, O5Captures
<1>2. ASSUME O5Failed PROVE ~O5Held
  BY <1>1, <1>2 DEF O5Failed, O5Held, ParsedOK, Serialized, ModeAt
<1>3. ASSUME AllChecked PROVE O5Held
  <2>1. \A m \in 0 .. count - 1 :
          /\ ParsedOK(ModeAt(m), Answer(4 + m)) /\ Serialized(ModeAt(m) + 1, Answer(3))
          /\ Did(ModeAt(m) + 2, "serialize_mode", m) /\ Answer(ModeAt(m) + 2) = Answer(4 + m)
    BY <1>3 DEF AllChecked, Checked
  <2>2. \A m \in 0 .. count - 1 : ModeAt(m) = 4 + count + 3 * m
    BY <1>1 DEF ModeAt
  <2> QED
    BY <1>1, <2>1, <2>2 DEF O5Held, O5Captures
<1> QED
  BY <1>2, <1>3

(* check_mode_agreement() keeps the invariant.                              *)
LEMMA O5Lawful == ASSUME TypeInv, LawInv, O5Next PROVE LawInv'
<1>w. Within /\ law = "O5"
  BY DEF O5Next, O5Count, O5Parse, O5Serialize, O5Capture, O5Captured, O5Reparse, O5Same,
         O5Twice, O5Done, AcceptedInput, Step
<1>a. /\ r \in Result /\ count \in Nat /\ i \in Nat /\ modes \in Seq(Text)
      /\ canonical \in Text \cup {NoText}
      /\ law = "O5" /\ law' = law /\ input' = input /\ IsLog /\ O5Law
  BY <1>w, WithinKeeps, ConstantTypes DEF TypeInv, TypeOK, LawInv
<1> DEFINE Verdict5 == pc' = "return" /\ r'.evaluated => (Unblamed("O5")' <=> O5Held')
<1>b. LawHeld("O5")' <=> O5Held'
  BY DEF LawHeld
<1>c. IsLog' /\ O5Law' /\ Verdict5 => LawInv'
  BY <1>a, <1>b, OneLaw DEF Routine
<1> SUFFICES IsLog' /\ O5Law' /\ Verdict5
  BY <1>c
\* A law given up before it ran has no verdict.
<1>d. ASSUME NEW what, r' = Blamed("O5", what, NoPointer), pc' = "return", ~r.evaluated, IsLog'
      PROVE  IsLog' /\ O5Law' /\ Verdict5
  <2>1. ~r'.evaluated
    BY <1>a, <1>d, BlameShows
  <2> QED
    BY <1>d, <2>1 DEF O5Law
<1>1. ASSUME NEW ans \in CountAnswers, O5Count(ans)
      PROVE  IsLog' /\ O5Law' /\ Verdict5
  <2>1. Recorded("serialize_mode_count", NoText, ans) /\ pc = "count"
    BY <1>1, <1>a, CallsRecorded DEF O5Count, Step
  <2>2. Len(log) = 0 /\ modes = << >> /\ i = 0 /\ ~r.evaluated /\ Unblamed("O5")
    BY <1>a, <2>1 DEF O5Law
  <2>3. CASE ans = Threw
    <3>1. pc' = "return" /\ r' = Blamed("O5", "mode count threw", NoPointer)
      BY <1>1, <2>3 DEF O5Count, Return
    <3> QED
      BY <1>d, <2>1, <2>2, <3>1 DEF Recorded
  <2>4. CASE ans # Threw /\ ans < 2
    <3>1. pc' = "return" /\ r'.evaluated = r.evaluated
      <4>1. ans \in Int
        BY <1>1, <2>4, ConstantTypes DEF CountAnswers
      <4>2. ~(ans >= 2)
        BY <2>4, <4>1
      <4>3. Skip("single mode")
        BY <1>1, <2>4, <4>2 DEF O5Count
      <4> QED
        BY <1>a, <4>3 DEF Skip, Return, Result
    <3> QED
      BY <2>1, <2>2, <3>1 DEF O5Law, Recorded
  <2>5. CASE ans # Threw /\ ~(ans < 2)
    <3>1. pc' = "parse" /\ count' = ans /\ r' = r /\ modes' = modes /\ i' = i
      BY <1>1, <2>5 DEF O5Count
    <3> QED
      BY <2>1, <2>2, <3>1 DEF O5Law, Recorded, Unblamed, Free, Answer
  <2> QED
    BY <2>3, <2>4, <2>5
<1>2. ASSUME NEW ans \in ParseAnswers, O5Parse(ans)
      PROVE  IsLog' /\ O5Law' /\ Verdict5
  <2>1. Recorded("parse", input, ans) /\ pc = "parse"
    BY <1>2, <1>a, CallsRecorded DEF O5Parse, AcceptedInput, Step
  <2>2. /\ r'.violations = r.violations /\ r'.evaluated = r.evaluated
        /\ count' = count /\ i' = i /\ modes' = modes
    BY <1>2, <1>a, Sentinels
    DEF O5Parse, AcceptedInput, ParseAnswers, Skip, Return, Result, locals
  <2>3. pc' = "serialize" \/ pc' = "return"
    BY <1>2, Sentinels DEF O5Parse, AcceptedInput, ParseAnswers, Skip, Return
  <2>4. Len(log) = 1 /\ Answer(1) = count /\ Unblamed("O5") /\ ~r.evaluated /\ i = 0 /\ modes = << >>
    BY <1>a, <2>1 DEF O5Law
  <2>5. Len(log') = 2 /\ Answer(1)' = count' /\ Unblamed("O5")' /\ ~r'.evaluated /\ IsLog'
    BY <2>1, <2>2, <2>4 DEF Recorded, Answer, Unblamed, Free
  <2> QED
    BY <2>2, <2>3, <2>4, <2>5 DEF O5Law
<1>3. ASSUME NEW ans \in TextAnswers, O5Serialize(ans)
      PROVE  IsLog' /\ O5Law' /\ Verdict5
  <2>1. Recorded("serialize", NoText, ans) /\ pc = "serialize"
    BY <1>3, <1>a, CallsRecorded DEF O5Serialize, Step
  <2>2. CASE ans = Threw
    <3>1. pc' = "return" /\ r' = Blamed("O5", "serialize threw", NoPointer)
      BY <1>3, <2>2 DEF O5Serialize, Return
    <3> QED
      BY <1>a, <1>d, <2>1, <3>1 DEF O5Law, Recorded
  <2>3. CASE ans # Threw
    <3>1. pc' = "capture" /\ canonical' = ans /\ r' = r /\ modes' = modes /\ i' = i
          /\ count' = count
      BY <1>3, <2>3 DEF O5Serialize, Return
    <3>2. Len(log) = 2 /\ modes = << >> /\ Answer(1) = count
      BY <1>a, <2>1 DEF O5Law
    <3>3. O5Captures' /\ Len(log') = 3 + Len(modes')
      BY <2>1, <3>1, <3>2 DEF O5Captures, Recorded, Answer
    <3> QED
      BY <1>a, <2>1, <3>1, <3>3 DEF O5Law, Recorded, Unblamed, Free
  <2> QED
    BY <2>2, <2>3
<1>4. ASSUME NEW ans \in TextAnswers, O5Capture(ans)
      PROVE  IsLog' /\ O5Law' /\ Verdict5
  <2>1. Recorded("serialize_mode", Len(modes), ans) /\ pc = "capture"
    BY <1>4, <1>a, CallsRecorded DEF O5Capture, Step
  <2>2. CASE ans = Threw
    <3>1. pc' = "return" /\ r' = Blamed("O5", "mode threw", NoPointer)
      BY <1>4, <2>2 DEF O5Capture, Return
    <3> QED
      BY <1>a, <1>d, <2>1, <3>1 DEF O5Law, Recorded
  <2>3. CASE ans # Threw
    <3>1. modes' = Append(modes, ans) /\ pc' = pc /\ r' = r /\ i' = i
          /\ canonical' = canonical /\ count' = count
      BY <1>4, <2>3 DEF O5Capture, Return, fixedO5
    <3>2. Len(log) = 3 + Len(modes) /\ O5Captures
      BY <1>a, <2>1 DEF O5Law
    <3>3. ans \in Text
      BY <2>3, ConstantTypes DEF TextAnswers
    <3>4. /\ Len(modes') = Len(modes) + 1 /\ Len(modes) \in Nat
          /\ \A k \in 1 .. Len(modes) : modes'[k] = modes[k]
          /\ modes'[Len(modes) + 1] = ans
      BY <1>a, <3>1, <3>3
    <3>5. \A m \in 0 .. Len(modes') - 1 :
            Did(4 + m, "serialize_mode", m)' /\ Answer(4 + m)' = modes'[m + 1]
      <4> SUFFICES ASSUME NEW m \in 0 .. Len(modes') - 1
                   PROVE  Did(4 + m, "serialize_mode", m)' /\ Answer(4 + m)' = modes'[m + 1]
        OBVIOUS
      <4>1. CASE m = Len(modes)
        BY <2>1, <3>2, <3>4, <4>1 DEF Recorded, Did, Answer
      <4>2. CASE m # Len(modes)
        <5>1. m \in 0 .. Len(modes) - 1
          BY <3>4, <4>2
        <5> QED
          BY <2>1, <3>2, <3>4, <5>1 DEF O5Captures, Recorded, Did, Answer
      <4> QED
        BY <4>1, <4>2
    <3>6. Answer(1)' = count' /\ Answer(3)' = canonical' /\ Len(log') = 3 + Len(modes')
      BY <2>1, <3>1, <3>2, <3>4 DEF O5Captures, Recorded, Answer
    <3>7. O5Captures'
      BY <3>5, <3>6, <3>4 DEF O5Captures
    <3> QED
      BY <1>a, <2>1, <3>1, <3>6, <3>7 DEF O5Law, Recorded, Unblamed, Free
  <2> QED
    BY <2>2, <2>3
<1>5. ASSUME O5Captured PROVE IsLog' /\ O5Law' /\ Verdict5
  <2>1. /\ pc = "capture" /\ Len(modes) = count /\ pc' = "reparse"
        /\ log' = log /\ count' = count /\ canonical' = canonical /\ modes' = modes /\ i' = i
        /\ r'.violations = r.violations
    BY <1>5, <1>a DEF O5Captured, Step, sutvars, locals, Result
  <2>2. O5Captures /\ Len(log) = 3 + count /\ i = 0 /\ Unblamed("O5")
    BY <1>a, <2>1 DEF O5Law
  <2>6. \A k, o, a : (Did(k, o, a)' <=> Did(k, o, a)) /\ Answer(k)' = Answer(k)
    BY <2>1 DEF Did, Answer
  <2>7. Answer(1) = count
    BY <2>2 DEF O5Captures
  <2>3. O5Captures' /\ ModeAt(0)' = 4 + count
    BY <1>a, <2>1, <2>2, <2>6, <2>7 DEF O5Captures, ModeAt
  <2>4. O5At(0)'
    BY <1>a, <2>1, <2>2, <2>3 DEF O5At
  <2>5. IsLog'
    BY <1>a, <2>1 DEF IsLog
  <2> QED
    BY <2>1, <2>2, <2>3, <2>4, <2>5 DEF O5Law, Unblamed, Free
\* From here on the law is evaluated: what stands is settled by the calls.
<1>e. ASSUME pc \in {"reparse", "same", "twice"}
      PROVE  O5Captures /\ Len(modes) = count /\ (~Unblamed("O5") => O5Failed)
  BY <1>a, <1>e DEF O5Law
\* A fault found in mode i, now or before.
<1>f. ASSUME NEW op, NEW arg, NEW ans, Recorded(op, arg, ans), UNCHANGED <<canonical, count, modes>>,
             NEW what, r' = Blamed("O5", what, NoPointer), pc' \in {"reparse", "twice", "return"},
             pc \in {"reparse", "same", "twice"}, Unblamed("O5") => O5Failed'
      PROVE  IsLog' /\ O5Law' /\ Verdict5
  <2>1. O5Captures' /\ O5Failed' /\ Len(modes') = count' /\ count' \in Nat
    BY <1>a, <1>e, <1>f, O5Stands
  <2>2. ~Unblamed("O5")'
    BY <1>a, <1>f, BlameShows DEF Unblamed, Free
  <2>4. AllCaptured'
    BY <2>1 DEF AllCaptured
  <2>3. ~O5Held'
    BY <2>1, <2>4, O5Settles, PTL
  <2> QED
    BY <1>f, <2>1, <2>2, <2>3 DEF O5Law, Recorded
\* A call of mode i that went as it should.
<1>g. ASSUME NEW op, NEW arg, NEW ans, Recorded(op, arg, ans), UNCHANGED <<canonical, count, modes>>,
             r' = r, pc \in {"reparse", "same", "twice"}, pc' \in {"reparse", "same", "twice"},
             Unblamed("O5") => /\ pc' = "reparse" => O5At(0)'
                               /\ pc' = "same" => O5At(1)'
                               /\ pc' = "twice" => O5At(2)'
      PROVE  IsLog' /\ O5Law' /\ Verdict5
  <2>1. O5Captures' /\ Len(modes') = count' /\ (O5Failed => O5Failed')
    BY <1>a, <1>e, <1>g, O5Stands
  <2>2. Unblamed("O5")' <=> Unblamed("O5")
    BY <1>g DEF Unblamed, Free
  <2> QED
    BY <1>e, <1>g, <2>1, <2>2 DEF O5Law, Recorded
\* Call n + 1 for mode k: where it is in the log, and what stands before it.
<1>h. ASSUME NEW op, NEW arg, NEW ans, Recorded(op, arg, ans), UNCHANGED <<canonical, count, modes>>,
             pc \in {"reparse", "same", "twice"}, Unblamed("O5"),
             NEW n \in 0 .. 2, O5At(n), NEW k, k = i, i < count
      PROVE  LET at == 4 + count + 3 * k
             IN  /\ k \in 0 .. count - 1 /\ at \in Nat /\ Len(log) \in Nat
                 /\ Len(log') = at + n /\ Len(log) = at + n - 1
                 /\ ModeAt(k) = at /\ ModeAt(k)' = at /\ ModeAt(k + 1)' = at + 3
                 /\ DOMAIN log' = 1 .. at + n
                 /\ log'[at + n].op = op /\ log'[at + n].arg = arg /\ log'[at + n].ans = ans
                 /\ log'[3].ans = canonical /\ log'[4 + k].ans = Once
                 /\ Answer(1)' = count /\ O5Captures'
                 /\ \A m \in 0 .. k - 1 : Checked(m, 3)'
                 /\ n > 0 => Checked(k, n)'
  <2> DEFINE at == 4 + count + 3 * k
  <2>1. /\ O5Captures' /\ Answer(1) = count /\ Answer(1)' = count /\ O5Captures
        /\ \A m \in 0 .. count - 1, x \in 0 .. 3 : Checked(m, x) => Checked(m, x)'
    BY <1>a, <1>e, <1>h, O5Stands
  <2>2. k \in 0 .. count - 1 /\ at \in Nat
    BY <1>a, <1>h
  <2>3. ModeAt(k) = at /\ ModeAt(k)' = at /\ ModeAt(k + 1)' = at + 3
    BY <1>a, <1>h, <2>1, <2>2 DEF ModeAt
  <2>4. /\ Len(log) = at + n - 1 /\ \A m \in 0 .. k - 1 : Checked(m, 3)
        /\ n > 0 => Checked(k, n)
    BY <1>h, <2>3 DEF O5At
  <2>5. /\ \A m \in 0 .. k - 1 : Checked(m, 3)'
        /\ n > 0 => Checked(k, n)'
    BY <1>a, <1>h, <2>1, <2>2, <2>4
  <2>6. /\ Len(log') = at + n /\ Len(log) \in Nat /\ DOMAIN log' = 1 .. at + n
        /\ log'[at + n].op = op /\ log'[at + n].arg = arg /\ log'[at + n].ans = ans
    BY <1>h, <2>2, <2>4 DEF Recorded
  <2>7. log'[3].ans = canonical /\ log'[4 + k].ans = modes[k + 1]
    BY <1>a, <1>e, <1>h, <2>1, <2>2 DEF O5Captures, Answer
  <2> QED
    BY <1>h, <2>1, <2>2, <2>3, <2>4, <2>5, <2>6, <2>7 DEF Once
\* A wrong answer to it is a fault.
<1>i. ASSUME NEW k \in 0 .. count - 1, Answer(1)' = count,
             LET at == 4 + count + 3 * k
             IN  \/ Len(log') >= at /\ log'[at].ans # "accepted"
                 \/ Len(log') >= at + 1 /\ log'[at + 1].ans # log'[3].ans
                 \/ Len(log') >= at + 2 /\ log'[at + 2].ans # log'[4 + k].ans
      PROVE  O5Failed'
  BY <1>i, <1>a DEF O5Failed, ModeAt, Answer
<1>6. ASSUME NEW ans \in ParseAnswers, O5Reparse(ans)
      PROVE  IsLog' /\ O5Law' /\ Verdict5
  <2>1. Recorded("parse", Once, ans) /\ pc = "reparse" /\ i < Len(modes)
    BY <1>6, <1>a, CallsRecorded DEF O5Reparse, Step
  <2>2. UNCHANGED <<canonical, count, modes>> /\ i < count
    BY <1>6, <1>e, <2>1 DEF O5Reparse, NextMode, fixedO5, locals
  <2>3. Unblamed("O5") => O5At(0)
    BY <1>a, <2>1 DEF O5Law
  <2>4. PICK k : k = i
    OBVIOUS
  <2> DEFINE at == 4 + count + 3 * k
  <2>5. ASSUME Unblamed("O5")
        PROVE  /\ k \in 0 .. count - 1 /\ at \in Nat /\ Len(log') = at
               /\ ModeAt(k)' = at /\ DOMAIN log' = 1 .. at
               /\ log'[at].op = "parse" /\ log'[at].arg = Once /\ log'[at].ans = ans
               /\ log'[4 + k].ans = Once
               /\ Answer(1)' = count /\ O5Captures'
               /\ \A m \in 0 .. k - 1 : Checked(m, 3)'
    BY <1>h, <2>1, <2>2, <2>3, <2>4, <2>5, 0 \in 0 .. 2, SMTT(30)
  <2>7. CASE ans = "accepted"
    <3>1. pc' = "same" /\ r' = r /\ i' = k
      BY <1>6, <2>4, <2>7 DEF O5Reparse, locals
    <3>2. ASSUME Unblamed("O5") PROVE O5At(1)'
      <4>1. Checked(k, 1)'
        <5>1. at \in DOMAIN log'
          BY <1>a, <2>5, <3>2
        <5>2. ParsedOK(ModeAt(k), Answer(4 + k))'
          BY <2>5, <2>7, <3>2, <5>1 DEF ParsedOK, Did, Answer
        <5> QED
          BY <5>2 DEF Checked
      <4> QED
        BY <1>a, <1>e, <2>1, <2>2, <2>5, <3>1, <3>2, <4>1 DEF O5At
    <3> QED
      BY <1>g, <2>1, <2>2, <3>1, <3>2
  <2>8. CASE ans # "accepted"
    <3>1. r' = Blamed("O5", "does not reparse", NoPointer) /\ pc' = "reparse"
      BY <1>6, <2>8 DEF O5Reparse, NextMode
    <3>2. ASSUME Unblamed("O5") PROVE O5Failed'
      BY <1>i, <2>5, <2>8, <3>2
    <3> QED
      BY <1>f, <2>1, <2>2, <3>1, <3>2
  <2> QED
    BY <2>7, <2>8
<1>7. ASSUME NEW ans \in TextAnswers, O5Same(ans)
      PROVE  IsLog' /\ O5Law' /\ Verdict5
  <2>1. Recorded("serialize", NoText, ans) /\ pc = "same"
    BY <1>7, <1>a, CallsRecorded DEF O5Same, Step
  <2>2. UNCHANGED <<canonical, count, modes>> /\ i' = i
    BY <1>7 DEF O5Same, Return, locals
  <2>3. Unblamed("O5") => O5At(1) /\ i < count
    BY <1>a, <2>1 DEF O5Law, O5At
  <2>4. PICK k : k = i
    OBVIOUS
  <2> DEFINE at == 4 + count + 3 * k
  <2>5. ASSUME Unblamed("O5")
        PROVE  /\ k \in 0 .. count - 1 /\ at \in Nat /\ Len(log') = at + 1
               /\ ModeAt(k)' = at /\ DOMAIN log' = 1 .. at + 1
               /\ log'[at + 1].op = "serialize" /\ log'[at + 1].arg = NoText /\ log'[at + 1].ans = ans
               /\ log'[3].ans = canonical
               /\ Answer(1)' = count /\ O5Captures'
               /\ \A m \in 0 .. k - 1 : Checked(m, 3)'
               /\ Checked(k, 1)'
    BY <1>h, <2>1, <2>2, <2>3, <2>4, <2>5, 1 \in 0 .. 2, 1 > 0
  <2>7. CASE ans = canonical
    <3>1. pc' = "twice" /\ r' = r
      BY <1>7, <1>a, <2>7, Sentinels DEF O5Same
    <3>2. ASSUME Unblamed("O5") PROVE O5At(2)'
      <4>1. Checked(k, 2)'
        BY <2>5, <2>7, <3>2 DEF Checked, Serialized, Did, Answer
      <4> QED
        BY <1>a, <1>e, <2>1, <2>2, <2>4, <2>5, <3>2, <4>1 DEF O5At
    <3> QED
      BY <1>g, <2>1, <2>2, <3>1, <3>2
  <2>8. CASE ans # canonical
    <3>1. pc' \in {"twice", "return"} /\ \E what : r' = Blamed("O5", what, NoPointer)
      BY <1>7, <2>8 DEF O5Same, Return
    <3>2. ASSUME Unblamed("O5") PROVE O5Failed'
      BY <1>i, <2>5, <2>8, <3>2
    <3> QED
      BY <1>f, <2>1, <2>2, <3>1, <3>2
  <2> QED
    BY <2>7, <2>8
<1>8. ASSUME NEW ans \in TextAnswers, O5Twice(ans)
      PROVE  IsLog' /\ O5Law' /\ Verdict5
  <2>4. PICK k : k = i
    OBVIOUS
  <2>1. Recorded("serialize_mode", k, ans) /\ pc = "twice"
    BY <1>8, <1>a, <2>4, CallsRecorded DEF O5Twice, Step
  <2>2. UNCHANGED <<canonical, count, modes>> /\ i' = k + 1 /\ pc' = "reparse"
    BY <1>8, <2>4 DEF O5Twice, NextMode, fixedO5
  <2>3. Unblamed("O5") => O5At(2) /\ i < count
    BY <1>a, <2>1 DEF O5Law, O5At
  <2> DEFINE at == 4 + count + 3 * k
  <2>5. ASSUME Unblamed("O5")
        PROVE  /\ k \in 0 .. count - 1 /\ at \in Nat /\ Len(log') = at + 2
               /\ ModeAt(k)' = at /\ ModeAt(k + 1)' = at + 3 /\ DOMAIN log' = 1 .. at + 2
               /\ log'[at + 2].op = "serialize_mode" /\ log'[at + 2].arg = k /\ log'[at + 2].ans = ans
               /\ log'[4 + k].ans = Once
               /\ Answer(1)' = count /\ O5Captures'
               /\ \A m \in 0 .. k - 1 : Checked(m, 3)'
               /\ Checked(k, 2)'
    BY <1>h, <2>1, <2>2, <2>3, <2>4, <2>5, 2 \in 0 .. 2, 2 > 0
  <2>7. CASE ans = Once
    <3>1. r' = r
      BY <1>8, <2>7 DEF O5Twice
    <3>2. ASSUME Unblamed("O5") PROVE O5At(0)'
      <4>1. Checked(k, 3)'
        <5>1. at + 2 \in DOMAIN log'
          BY <1>a, <2>5, <3>2, SMTT(30)
        <5>2. (Did(ModeAt(k) + 2, "serialize_mode", k) /\ Answer(ModeAt(k) + 2) = Answer(4 + k))'
          BY <2>5, <2>7, <3>2, <5>1 DEF Did, Answer
        <5> QED
          BY <2>5, <3>2, <5>2 DEF Checked
      <4>2. \A m \in 0 .. (k + 1) - 1 : Checked(m, 3)'
        BY <2>5, <3>2, <4>1
      <4> QED
        BY <1>a, <1>e, <2>1, <2>2, <2>5, <3>2, <4>2, SMTT(30) DEF O5At
    <3> QED
      BY <1>g, <2>1, <2>2, <3>1, <3>2
  <2>8. CASE ans # Once
    <3>1. \E what : r' = Blamed("O5", what, NoPointer)
      BY <1>8, <2>8 DEF O5Twice
    <3>2. ASSUME Unblamed("O5") PROVE O5Failed'
      BY <1>i, <2>5, <2>8, <3>2
    <3> QED
      BY <1>f, <2>1, <2>2, <3>1, <3>2
  <2> QED
    BY <2>7, <2>8
<1>9. ASSUME O5Done PROVE IsLog' /\ O5Law' /\ Verdict5
  <2>1. pc = "reparse" /\ i = Len(modes) /\ pc' = "return" /\ r' = r /\ log' = log
    BY <1>9 DEF O5Done, Return, Step, sutvars
  <2>2. AllCaptured /\ i = count
    BY <1>a, <1>e, <2>1 DEF AllCaptured
  <2>3. Unblamed("O5") => AllChecked
    BY <1>a, <2>1, <2>2 DEF O5Law, O5At, AllChecked
  <2>4. Unblamed("O5") <=> O5Held
    BY <1>e, <2>1, <2>2, <2>3, O5Settles
  <2>5. (O5Held' <=> O5Held) /\ (Unblamed("O5")' <=> Unblamed("O5"))
    BY <2>1 DEF O5Held, Unblamed, Free, Did, ParsedOK, Serialized, Answer
  <2>6. IsLog'
    BY <1>a, <2>1 DEF IsLog
  <2> QED
    BY <2>1, <2>4, <2>5, <2>6 DEF O5Law
<1> QED
  BY <1>1, <1>2, <1>3, <1>4, <1>5, <1>6, <1>7, <1>8, <1>9 DEF O5Next
-----------------------------------------------------------------------------
(* One element of a list further; at its beginning; at its end.              *)
LEMMA RestTail ==
  ASSUME NEW S, NEW s \in Seq(S), NEW rest \in Seq(S), rest # << >>, Rest(rest, s)
  PROVE  /\ Rest(Tail(rest), s) /\ Done(Tail(rest), s) = Done(rest, s) + 1
         /\ Done(rest, s) \in Nat /\ Done(rest, s) + 1 \in 1 .. Len(s)
         /\ Head(rest) = s[Done(rest, s) + 1]
<1>1. /\ Len(rest) \in Nat /\ Len(s) \in Nat /\ Len(rest) > 0 /\ Head(rest) = rest[1]
      /\ Len(Tail(rest)) = Len(rest) - 1
      /\ \A k \in 1 .. Len(Tail(rest)) : Tail(rest)[k] = rest[k + 1]
  OBVIOUS
<1> DEFINE d == Len(s) - Len(rest)
           t == Tail(rest)
<1>2. Done(rest, s) = d /\ Done(t, s) = d + 1 /\ d \in Nat /\ d + 1 \in 1 .. Len(s)
  BY <1>1 DEF Done, Rest
<1>3. \A k \in 1 .. Len(rest) : rest[k] = s[d + k]
  BY <1>2 DEF Rest
<1> HIDE DEF t
<1>4. ASSUME NEW k \in 1 .. Len(t) PROVE t[k] = s[(d + 1) + k]
  <2>1. k + 1 \in 1 .. Len(rest) /\ d + (k + 1) = (d + 1) + k
    BY <1>1, <1>2 DEF t
  <2> QED
    BY <1>1, <1>3, <2>1 DEF t
<1>5. Len(t) =< Len(s)
  BY <1>1, <1>2 DEF t
<1>6. Rest(t, s)
  BY <1>2, <1>4, <1>5 DEF Rest
<1> QED
  BY <1>1, <1>2, <1>3, <1>6 DEF t

(* What is left, before the first step and after the last.                   *)
LEMMA RestEnds ==
  ASSUME NEW S, NEW s \in Seq(S)
  PROVE  /\ Rest(s, s) /\ Done(s, s) = 0
         /\ Done(<< >>, s) = Len(s)
BY DEF Rest, Done

(* O3: a further call changes nothing of what was compared before it.        *)
LEMMA O3Stands ==
  ASSUME Len(log) >= 3, NEW op, NEW arg, NEW ans, Recorded(op, arg, ans)
  PROVE  /\ Compared' = Compared /\ Enumeration' = Enumeration
         /\ AskedAt' = AskedAt \cup {Len(log) + 1}
         /\ \A g \in AskedAt : log'[g] = log[g] /\ (Agrees(g)' <=> Agrees(g))
         /\ \A p : (Resolves(p)' <=> Resolves(p)) /\ (Asked(p) => Asked(p)')
         /\ Asked(arg)'
         /\ O3Failed => O3Failed'
<1>1. /\ Len(log) \in Nat /\ DOMAIN log = 1 .. Len(log) /\ DOMAIN log' = 1 .. Len(log) + 1
      /\ \A k \in 1 .. Len(log) : log'[k] = log[k]
      /\ log'[Len(log) + 1].arg = arg
  BY DEF Recorded
<1>2. Compared' = Compared /\ Enumeration' = Enumeration
  BY <1>1 DEF Compared, Enumeration, Answer
<1>3. AskedAt' = AskedAt \cup {Len(log) + 1}
  BY <1>1 DEF AskedAt
<1>4. \A g \in AskedAt : g \in 1 .. Len(log) /\ log'[g] = log[g]
  BY <1>1 DEF AskedAt
<1>5. \A g \in AskedAt : Agrees(g)' <=> Agrees(g)
  BY <1>2, <1>4 DEF Agrees, Answer
<1>6. \A p : (Resolves(p)' <=> Resolves(p)) /\ (Asked(p) => Asked(p)')
  BY <1>2, <1>3, <1>4 DEF Resolves, Asked
<1>7. Asked(arg)'
  BY <1>1, <1>3 DEF Asked
<1>8. O3Failed => O3Failed'
  BY <1>2, <1>3, <1>5, <1>6 DEF O3Failed
<1> QED
  BY <1>2, <1>3, <1>4, <1>5, <1>6, <1>7, <1>8

(* At the end of the walk the statement says what the walk found.            *)
LEMMA O3Settles ==
  ASSUME IsLog, Len(log) >= 3, Enumeration \in Seq(Pointer),
         \A g \in AskedAt : log[g].op = "get"
  PROVE  /\ O3Failed => ~O3Held
         /\ (/\ \A g \in AskedAt : Agrees(g)
             /\ \A k \in 1 .. Len(Enumeration) :
                  \/ Enumeration[k] \in Dups[Compared]
                  \/ Resolves(Enumeration[k]) /\ Asked(Enumeration[k])) => O3Held
<1>1. DOMAIN Enumeration = 1 .. Len(Enumeration) /\ AskedAt = 4 .. Len(log)
  BY DEF AskedAt, IsLog
<1>2. O3Held <=>
        /\ \A g \in AskedAt : Agrees(g)
        /\ \A p \in {Enumeration[k] : k \in 1 .. Len(Enumeration)} \ Dups[Compared] :
             Resolves(p) /\ Asked(p)
  BY <1>1 DEF O3Held, Compared, Enumeration, Agrees, Resolves, Asked
<1>3. O3Failed => ~O3Held
  BY <1>2 DEF O3Failed
<1> QED
  BY <1>2, <1>3
(* check_pointer_values() keeps the invariant.                              *)
LEMMA O3Lawful == ASSUME TypeInv, LawInv, O3Next PROVE LawInv'
<1>w. Within /\ law = "O3"
  BY DEF O3Next, O3Parse, O3Serialize, O3Pointers, O3PassOver, O3Unresolved, O3Get, O3Done,
         AcceptedInput, Enumerated, NextPointer, Step
<1>a. /\ r \in Result /\ ptrs \in Seq(Pointer) /\ canonical \in Text \cup {NoText}
      /\ law = "O3" /\ law' = law /\ input' = input /\ IsLog /\ O3Law
  BY <1>w, WithinKeeps DEF TypeInv, TypeOK, LawInv
<1> DEFINE Verdict3 == pc' = "return" /\ r'.evaluated => (Unblamed("O3")' <=> O3Held')
<1>b. LawHeld("O3")' <=> O3Held'
  BY DEF LawHeld
<1>c. IsLog' /\ O3Law' /\ Verdict3 => LawInv'
  BY <1>a, <1>b, OneLaw DEF Routine
<1> SUFFICES IsLog' /\ O3Law' /\ Verdict3
  BY <1>c
<1>d. ASSUME NEW what, r' = Blamed("O3", what, NoPointer), pc' = "return", ~r.evaluated, IsLog'
      PROVE  IsLog' /\ O3Law' /\ Verdict3
  <2>1. ~r'.evaluated
    BY <1>a, <1>d, BlameShows
  <2> QED
    BY <1>d, <2>1 DEF O3Law
<1>1. ASSUME NEW ans \in ParseAnswers, O3Parse(ans)
      PROVE  IsLog' /\ O3Law' /\ Verdict3
  <2>1. Recorded("parse", input, ans) /\ pc = "parse"
    BY <1>1, <1>a, CallsRecorded DEF O3Parse, AcceptedInput, Step
  <2>2. r'.violations = r.violations /\ r'.evaluated = r.evaluated
    BY <1>1, <1>a, Sentinels DEF O3Parse, AcceptedInput, ParseAnswers, Skip, Return, Result
  <2>3. pc' = "serialize" \/ pc' = "return"
    BY <1>1, Sentinels DEF O3Parse, AcceptedInput, ParseAnswers, Skip, Return
  <2> QED
    BY <1>a, <2>1, <2>2, <2>3 DEF O3Law, Recorded, Unblamed, Free
<1>2. ASSUME NEW ans \in TextAnswers, O3Serialize(ans)
      PROVE  IsLog' /\ O3Law' /\ Verdict3
  <2>1. Recorded("serialize", NoText, ans) /\ pc = "serialize"
    BY <1>2, <1>a, CallsRecorded DEF O3Serialize, Step
  <2>2. Len(log) = 1 /\ Unblamed("O3") /\ ~r.evaluated
    BY <1>a, <2>1 DEF O3Law
  <2>3. CASE ans = Threw
    <3>1. pc' = "return" /\ r' = Blamed("O3", "serialize threw", NoPointer)
      BY <1>2, <2>3 DEF O3Serialize, Return
    <3> QED
      BY <1>d, <2>1, <2>2, <3>1 DEF Recorded
  <2>4. CASE ans # Threw /\ Ref[ans] = NoValue
    <3>1. pc' = "return" /\ r'.evaluated = r.evaluated
      BY <1>2, <1>a, <2>4 DEF O3Serialize, Skip, Return, Result
    <3> QED
      BY <2>1, <2>2, <3>1 DEF O3Law, Recorded
  <2>5. CASE ans # Threw /\ Ref[ans] # NoValue
    <3>1. pc' = "pointers" /\ canonical' = ans /\ r' = r
      BY <1>2, <2>5 DEF O3Serialize
    <3> QED
      BY <2>1, <2>2, <3>1 DEF O3Law, Recorded, Unblamed, Free, Compared, Answer
  <2> QED
    BY <2>3, <2>4, <2>5
<1>3. ASSUME NEW ans \in PointersAnswers, O3Pointers(ans)
      PROVE  IsLog' /\ O3Law' /\ Verdict3
  <2>1. Recorded("pointers", NoText, ans) /\ pc = "pointers"
    BY <1>3, <1>a, CallsRecorded DEF O3Pointers, Enumerated, Step
  <2>2. Len(log) = 2 /\ canonical = Compared /\ Unblamed("O3") /\ ~r.evaluated
    BY <1>a, <2>1 DEF O3Law
  <2>3. CASE ans = Threw
    <3>1. pc' = "return" /\ r' = Blamed("O3", "pointers threw", NoPointer)
      BY <1>3, <2>3 DEF O3Pointers, Enumerated, Return
    <3> QED
      BY <1>d, <2>1, <2>2, <3>1 DEF Recorded
  <2>4. CASE ans # Threw
    <3>1. pc' = "walk" /\ ptrs' = ans /\ canonical' = canonical /\ r'.violations = r.violations
      BY <1>3, <1>a, <2>4 DEF O3Pointers, Enumerated, Result
    <3>2. ans \in Seq(Pointer)
      BY <2>4, ConstantTypes DEF PointersAnswers
    <3>3. Len(log') = 3 /\ Compared' = canonical' /\ Enumeration' = ans /\ AskedAt' = {}
      BY <2>1, <2>2, <3>1 DEF Recorded, Compared, Enumeration, AskedAt, Answer
    <3>4. Rest(ans, ans) /\ Done(ans, ans) = 0
      BY <3>2, RestEnds
    <3>5. Unblamed("O3")'
      BY <2>2, <3>1 DEF Unblamed, Free
    <3>6. O3Walked'
      BY <3>1, <3>2, <3>3, <3>4, <3>5 DEF O3Walked
    <3> QED
      BY <2>1, <3>1, <3>6 DEF O3Law, Recorded
  <2> QED
    BY <2>3, <2>4
\* The walk, one pointer.
<1>e. ASSUME pc = "walk", ptrs # << >>, ptrs' = Tail(ptrs), pc' = pc, canonical' = canonical
      PROVE  /\ O3Walked /\ Head(ptrs) = Enumeration[Done(ptrs, Enumeration) + 1]
             /\ Done(ptrs, Enumeration) + 1 \in 1 .. Len(Enumeration)
             /\ Done(ptrs, Enumeration) \in Nat
             /\ Rest(ptrs', Enumeration)
             /\ Done(ptrs', Enumeration) = Done(ptrs, Enumeration) + 1
  <2>1. O3Walked
    BY <1>a, <1>e DEF O3Law
  <2> QED
    BY <1>a, <1>e, <2>1, RestTail DEF O3Walked
<1>4. ASSUME O3PassOver \/ O3Unresolved PROVE IsLog' /\ O3Law' /\ Verdict3
  <2>1. /\ pc = "walk" /\ ptrs # << >> /\ ptrs' = Tail(ptrs) /\ pc' = pc
        /\ canonical' = canonical /\ log' = log
    BY <1>4 DEF O3PassOver, O3Unresolved, NextPointer, Step, sutvars
  <2>2. /\ Compared' = Compared /\ Enumeration' = Enumeration /\ AskedAt' = AskedAt
        /\ (O3Failed => O3Failed')
        /\ \A g : Agrees(g) => Agrees(g)'
        /\ \A p : (Resolves(p)' <=> Resolves(p)) /\ (Asked(p) => Asked(p)')
    BY <2>1
    DEF Compared, Enumeration, AskedAt, O3Failed, Agrees, Resolves, Asked, Answer
  <2> DEFINE d == Done(ptrs, Enumeration) + 1
  <2>3. /\ O3Walked /\ Head(ptrs) = Enumeration[d] /\ d \in 1 .. Len(Enumeration)
        /\ Rest(ptrs', Enumeration) /\ Done(ptrs', Enumeration) = d
        /\ Done(ptrs, Enumeration) \in Nat
    BY <1>e, <2>1
  <2>4. /\ Len(log') >= 3 /\ canonical' = Compared' /\ Enumeration' \in Seq(Pointer)
        /\ Rest(ptrs', Enumeration') /\ \A g \in AskedAt' : log'[g].op = "get"
    BY <2>1, <2>2, <2>3 DEF O3Walked
  <2>5. IsLog'
    BY <1>a, <2>1 DEF IsLog
  <2> HIDE DEF d
  <2>6. CASE O3PassOver
    <3>1. Head(ptrs) \in Dups[Compared] /\ (Unblamed("O3")' <=> Unblamed("O3"))
      BY <2>3, <2>6 DEF O3PassOver, O3Walked, Unblamed, Free
    <3>2. ASSUME Unblamed("O3"), NEW k \in 1 .. d
          PROVE  \/ Enumeration[k] \in Dups[Compared]
                 \/ Resolves(Enumeration[k]) /\ Asked(Enumeration[k])
      <4>1. k = d \/ k \in 1 .. Done(ptrs, Enumeration)
        BY <2>3 DEF d
      <4> QED
        BY <2>3, <3>1, <3>2, <4>1 DEF O3Walked
    <3>3. O3Walked'
      BY <2>2, <2>3, <2>4, <3>1, <3>2 DEF O3Walked
    <3> QED
      BY <2>1, <2>5, <3>3 DEF O3Law
  <2>7. CASE O3Unresolved
    <3>1. Head(ptrs) \notin Dups[Compared] /\ ~Resolves(Head(ptrs))
      BY <2>3, <2>7 DEF O3Unresolved, O3Walked, Resolves, Expected
    <3>4. ~Unblamed("O3")'
      <4>1. PICK p : r' = Blamed("O3", "not in the reference", p)
        BY <2>7 DEF O3Unresolved
      <4>2. ~Free("O3", r')
        BY <1>a, <4>1, BlameShows
      <4> QED
        BY <4>2 DEF Unblamed, Free
    <3>2. O3Failed
      BY <2>3, <3>1 DEF O3Failed
    <3>3. O3Walked'
      BY <2>2, <2>4, <3>2, <3>4 DEF O3Walked
    <3> QED
      BY <2>1, <2>5, <3>3 DEF O3Law
  <2> QED
    BY <1>4, <2>6, <2>7
<1>5. ASSUME NEW ans \in GetAnswers, O3Get(ans)
      PROVE  IsLog' /\ O3Law' /\ Verdict3
  <2>1. /\ pc = "walk" /\ ptrs # << >> /\ ptrs' = Tail(ptrs) /\ pc' = pc
        /\ canonical' = canonical
    BY <1>5 DEF O3Get, NextPointer, Step
  <2>p. PICK p : p = Head(ptrs)
    OBVIOUS
  <2> DEFINE d == Done(ptrs, Enumeration) + 1
             g == Len(log) + 1
  <2>2. Recorded("get", p, ans)
    BY <1>5, <1>a, <2>p, CallsRecorded DEF O3Get
  <2>3. /\ O3Walked /\ p = Enumeration[d] /\ d \in 1 .. Len(Enumeration)
        /\ Rest(ptrs', Enumeration) /\ Done(ptrs', Enumeration) = d
        /\ Done(ptrs, Enumeration) \in Nat
    BY <1>e, <2>1, <2>p
  <2>4. Len(log) >= 3 /\ canonical = Compared
    BY <2>3 DEF O3Walked
  <2>5. /\ Compared' = Compared /\ Enumeration' = Enumeration
        /\ AskedAt' = AskedAt \cup {g}
        /\ \A h \in AskedAt : log'[h] = log[h] /\ (Agrees(h)' <=> Agrees(h))
        /\ \A q : (Resolves(q)' <=> Resolves(q)) /\ (Asked(q) => Asked(q)')
        /\ Asked(p)'
        /\ O3Failed => O3Failed'
    BY <2>2, <2>4, O3Stands
  <2>6. log'[g].op = "get" /\ log'[g].arg = p /\ log'[g].ans = ans /\ Len(log') >= 3 /\ IsLog'
    BY <2>2, <2>4 DEF Recorded
  <2>7. /\ canonical' = Compared' /\ Enumeration' \in Seq(Pointer)
        /\ Rest(ptrs', Enumeration') /\ \A h \in AskedAt' : log'[h].op = "get"
    BY <2>1, <2>3, <2>5, <2>6 DEF O3Walked
  <2>8. p \notin Dups[Compared] /\ Resolves(p)
    BY <1>5, <2>4, <2>p DEF O3Get, Resolves, Expected
  <2> DEFINE good == ans \in Text /\ Ref[ans] = RefAt[Ref[Compared]][p]
  <2>9. \A h : h = g => (Agrees(h)' <=> good)
    BY <2>5, <2>6 DEF Agrees, Answer
  <2> HIDE DEF d, g
  <2>10. CASE good
    <3>1. r' = r
      BY <1>5, <2>4, <2>10, <2>p DEF O3Get, Expected
    <3>2. Unblamed("O3")' <=> Unblamed("O3")
      BY <3>1 DEF Unblamed, Free
    <3>3. ASSUME Unblamed("O3"), NEW k \in 1 .. d
          PROVE  \/ Enumeration[k] \in Dups[Compared]
                 \/ Resolves(Enumeration[k]) /\ Asked(Enumeration[k])'
      <4>1. k = d \/ k \in 1 .. Done(ptrs, Enumeration)
        BY <2>3 DEF d
      <4> QED
        BY <2>3, <2>5, <2>8, <3>3, <4>1 DEF O3Walked
    <3>4. ASSUME Unblamed("O3"), NEW h \in AskedAt' PROVE Agrees(h)'
      BY <2>3, <2>5, <2>9, <2>10, <3>4 DEF O3Walked
    <3>5. O3Walked'
      BY <2>3, <2>5, <2>6, <2>7, <3>2, <3>3, <3>4 DEF O3Walked
    <3> QED
      BY <2>1, <2>6, <3>5 DEF O3Law
  <2>11. CASE ~good
    <3>1. r' = Blamed("O3", GetFault(ans), p)
      BY <1>5, <2>4, <2>11, <2>p DEF O3Get, Expected
    <3>2. ~Unblamed("O3")'
      BY <1>a, <3>1, BlameShows DEF Unblamed, Free
    <3>3. O3Failed'
      BY <2>5, <2>9, <2>11 DEF O3Failed
    <3>4. O3Walked'
      BY <2>6, <2>7, <3>2, <3>3 DEF O3Walked
    <3> QED
      BY <2>1, <2>6, <3>4 DEF O3Law
  <2> QED
    BY <2>10, <2>11
<1>6. ASSUME O3Done PROVE IsLog' /\ O3Law' /\ Verdict3
  <2>1. pc = "walk" /\ ptrs = << >> /\ pc' = "return" /\ r' = r /\ log' = log
    BY <1>6 DEF O3Done, Return, Step, sutvars
  <2>2. O3Walked /\ Done(ptrs, Enumeration) = Len(Enumeration)
    BY <1>a, <2>1, RestEnds DEF O3Law, O3Walked
  <2>3. Unblamed("O3") <=> O3Held
    BY <1>a, <2>2, O3Settles DEF O3Walked
  <2>4. (O3Held' <=> O3Held) /\ (Unblamed("O3")' <=> Unblamed("O3"))
    BY <2>1 DEF O3Held, Unblamed, Free, Answer
  <2>5. IsLog'
    BY <1>a, <2>1 DEF IsLog
  <2> QED
    BY <2>1, <2>3, <2>4, <2>5 DEF O3Law
<1> QED
  BY <1>1, <1>2, <1>3, <1>4, <1>5, <1>6 DEF O3Next
-----------------------------------------------------------------------------
(* O4: a further call undoes nothing of what the calls before it settled.    *)
LEMMA O4Stands ==
  ASSUME IsLog, Len(log) >= 3, NEW op, NEW arg, NEW ans, Recorded(op, arg, ans)
  PROVE  /\ Compared' = Compared /\ Enumeration' = Enumeration
         /\ op = "set" => Sets' = Sets \cup {Len(log) + 1}
         /\ op # "set" => Sets' = Sets
         /\ \A s \in Sets : /\ s \in 1 .. Len(log) /\ log'[s] = log[s]
                            /\ SetsBefore(s)' = SetsBefore(s) /\ ValueSet(s)' = ValueSet(s)
         /\ \A n : ParentCount(n)' <=> ParentCount(n)
         /\ \A s \in Sets, n \in 1 .. 4 : Wrote(s, n) => Wrote(s, n)'
         /\ O4Failed => O4Failed'
<1>1. /\ Len(log) \in Nat /\ DOMAIN log = 1 .. Len(log) /\ DOMAIN log' = 1 .. Len(log) + 1
      /\ Len(log') = Len(log) + 1
      /\ \A k \in 1 .. Len(log) : log'[k] = log[k] /\ Answer(k)' = Answer(k)
      /\ log'[Len(log) + 1].op = op
  BY DEF Recorded, Answer
<1>2. Compared' = Compared /\ Enumeration' = Enumeration
  BY <1>1 DEF Compared, Enumeration, Answer
<1>3. Sets' = IF op = "set" THEN Sets \cup {Len(log) + 1} ELSE Sets
  BY <1>1 DEF Sets, Calls
<1>4. \A s \in Sets : s \in 1 .. Len(log)
  BY <1>1 DEF Sets, Calls
<1>5. \A s \in Sets : SetsBefore(s)' = SetsBefore(s)
  BY <1>1, <1>3, <1>4 DEF SetsBefore
<1>6. \A s \in Sets : ValueSet(s)' = ValueSet(s)
  BY <1>5 DEF ValueSet
<1>7. \A n : ParentCount(n)' <=> ParentCount(n)
  BY <1>2 DEF ParentCount, ContainersTo
<1>8. \A k, o, a : Did(k, o, a) => Did(k, o, a)' /\ Answer(k)' = Answer(k)
  BY <1>1 DEF Did
<1>9. ASSUME NEW s \in Sets, NEW n \in 1 .. 4, Wrote(s, n) PROVE Wrote(s, n)'
  <2>1. s + n - 1 =< Len(log') /\ Answer(s)' = "Applied" /\ log'[s] = log[s]
    BY <1>1, <1>4, <1>9 DEF Wrote
  <2>2. n >= 2 => Did(s + 1, "get", log[s].arg)' /\ ReadBack(Answer(s + 1), ValueSet(s))'
    BY <1>6, <1>8, <1>9, <2>1 DEF Wrote, ReadBack
  <2>3. n >= 3 => Did(s + 2, "remove", log[s].arg)' /\ Answer(s + 2)' = "Applied"
    BY <1>8, <1>9, <2>1 DEF Wrote
  <2>4. n >= 4 => Serialized(s + 3, Compared)'
    BY <1>2, <1>8, <1>9 DEF Wrote, Serialized
  <2> QED
    BY <2>1, <2>2, <2>3, <2>4 DEF Wrote
<1>10. ASSUME O4Failed PROVE O4Failed'
  <2>1. PICK s \in Sets :
          \/ Answer(s) # "Applied"
          \/ s + 1 =< Len(log) /\ ~ReadBack(Answer(s + 1), ValueSet(s))
          \/ s + 2 =< Len(log) /\ Answer(s + 2) # "Applied"
          \/ s + 3 =< Len(log) /\ Answer(s + 3) # Compared
    BY <1>10 DEF O4Failed
  <2>2. s \in Sets' /\ s \in 1 .. Len(log)
    BY <1>3, <1>4
  <2>3. /\ Answer(s)' = Answer(s) /\ (s + 1 =< Len(log) => Answer(s + 1)' = Answer(s + 1))
        /\ s + 2 =< Len(log) => Answer(s + 2)' = Answer(s + 2)
        /\ s + 3 =< Len(log) => Answer(s + 3)' = Answer(s + 3)
    BY <1>1, <2>2
  <2> QED
    BY <1>1, <1>2, <1>6, <2>1, <2>2, <2>3 DEF O4Failed, ReadBack
<1> QED
  BY <1>1, <1>2, <1>3, <1>4, <1>5, <1>6, <1>7, <1>9, <1>10

(* A fault is a fault in the statement.                                      *)
LEMMA O4Fails == O4Failed => ~O4Held
BY DEF O4Failed, O4Held, Sets, SetsBefore, ValueSet, ReadBack, Compared, Serialized

(* When no parent is left and nothing went wrong, the statement holds.       *)
LEMMA O4Settles ==
  ASSUME Enumeration \in Seq(Pointer), \A s \in Sets : Wrote(s, 4),
         ParentCount(Cardinality(Sets))
  PROVE  O4Held
<1>1. \A s \in Sets :
        /\ Answer(s) = "Applied"
        /\ Did(s + 1, "get", log[s].arg)
        /\ Answer(s + 1) \in Text /\ Ref[Answer(s + 1)] = Ref[ValueSet(s)]
        /\ Did(s + 2, "remove", log[s].arg) /\ Answer(s + 2) = "Applied"
        /\ Serialized(s + 3, Compared)
  BY DEF Wrote, ReadBack
<1>2. ContainersTo(Len(Enumeration)) =
        {k \in DOMAIN Enumeration : /\ Enumeration[k] \notin Dups[Compared]
                                    /\ RefAt[Ref[Compared]][Enumeration[k]] \in Container}
  BY DEF ContainersTo
<1> QED
  BY <1>1, <1>2
  DEF O4Held, ParentCount, Sets, SetsBefore, ValueSet, Compared, Enumeration

(* The containers among one pointer more.                                    *)
LEMMA OneContainerMore ==
  ASSUME NEW m \in Nat
  PROVE  /\ IsFiniteSet(ContainersTo(m)) /\ Cardinality(ContainersTo(m)) \in Nat
         /\ ContainersTo(0) = {}
         /\ LET p == Enumeration[m + 1]
            IN  Cardinality(ContainersTo(m + 1)) =
                  Cardinality(ContainersTo(m))
                  + (IF p \notin Dups[Compared] /\ RefAt[Ref[Compared]][p] \in Container
                     THEN 1 ELSE 0)
<1> DEFINE p == Enumeration[m + 1]
           good == p \notin Dups[Compared] /\ RefAt[Ref[Compared]][p] \in Container
<1>1. ContainersTo(m) \in SUBSET (1 .. m) /\ IsFiniteSet(1 .. m)
  BY FS_Interval DEF ContainersTo
<1>2. IsFiniteSet(ContainersTo(m))
  BY <1>1, FS_Subset
<1>3. Cardinality(ContainersTo(m)) \in Nat
  BY <1>2, FS_CardinalityType
<1>4. ContainersTo(m + 1) = IF good THEN ContainersTo(m) \cup {m + 1} ELSE ContainersTo(m)
  BY DEF ContainersTo
<1>5. m + 1 \notin ContainersTo(m)
  BY <1>1
<1>6. Cardinality(ContainersTo(m) \cup {m + 1}) = Cardinality(ContainersTo(m)) + 1
  BY <1>2, <1>5, FS_AddElement
<1>7. ContainersTo(0) = {}
  BY DEF ContainersTo
<1> HIDE DEF good
<1>8. Cardinality(ContainersTo(m + 1)) = Cardinality(ContainersTo(m)) + (IF good THEN 1 ELSE 0)
  BY <1>3, <1>4, <1>6
<1> QED
  BY <1>2, <1>3, <1>7, <1>8 DEF good
(* check_set_remove() keeps the invariant.                                  *)
LEMMA O4Lawful == ASSUME TypeInv, LawInv, O4Next PROVE LawInv'
<1>w. Within /\ law = "O4"
  BY DEF O4Next, O4Parse, O4Restore, O4Serialize, O4After, O4Reserialize, O4Pointers, O4Get,
         O4Set, O4Remove, O4Choose, O4Chosen, O4Done, AcceptedInput, Enumerated, Step
<1>a. /\ r \in Result /\ ptrs \in Seq(Pointer) /\ canonical \in Text \cup {NoText}
      /\ parents \in Seq(Parent) /\ Len(parents) =< kSetRemoveParents /\ i \in Nat
      /\ pc \in {"get", "remove", "after", "restore", "reserialize"} => parents # << >>
      /\ law = "O4" /\ law' = law /\ input' = input /\ IsLog /\ O4Law
  BY <1>w, WithinKeeps DEF TypeInv, TypeOK, LocalsReady, LawInv
<1> DEFINE Verdict4 == pc' = "return" /\ r'.evaluated => (Unblamed("O4")' <=> O4Held')
<1>b. LawHeld("O4")' <=> O4Held'
  BY DEF LawHeld
<1>c. IsLog' /\ O4Law' /\ Verdict4 => LawInv'
  BY <1>a, <1>b, OneLaw DEF Routine
<1> SUFFICES IsLog' /\ O4Law' /\ Verdict4
  BY <1>c
<1> USE DEF Writing
<1>d. ASSUME pc' = "return", ~r'.evaluated, IsLog' PROVE IsLog' /\ O4Law' /\ Verdict4
  BY <1>d DEF O4Law
\* Blamed, now or before: what failed stays failed.
<1>e. ASSUME NEW op, NEW arg, NEW ans, Recorded(op, arg, ans), Len(log) >= 3,
             ~Unblamed("O4")', O4Failed \/ O4Failed', pc' \in Writing \cup {"return"}
      PROVE  IsLog' /\ O4Law' /\ Verdict4
  <2>1. O4Failed' /\ IsLog' /\ Len(log') >= 3
    BY <1>a, <1>e, O4Stands DEF Recorded
  <2>2. ~O4Held'
    BY <2>1, O4Fails, PTL
  <2> QED
    BY <1>e, <2>1, <2>2 DEF O4Law
\* Not blamed by this call.
<1>f. ASSUME NEW op, NEW arg, NEW ans, Recorded(op, arg, ans), Len(log) >= 3, pc \in Writing,
             r'.violations = r.violations, pc' \in Writing,
             Unblamed("O4") => /\ pc' = "write" => O4Between'
                               /\ pc' = "get" => O4Amid(1)'
                               /\ pc' = "remove" => O4Amid(2)'
                               /\ pc' = "after" => O4Amid(3)'
                               /\ pc' \notin {"restore", "reserialize"}
      PROVE  IsLog' /\ O4Law' /\ Verdict4
  <2>1. (O4Failed => O4Failed') /\ IsLog' /\ Len(log') >= 3
    BY <1>a, <1>f, O4Stands DEF Recorded
  <2>2. ~Unblamed("O4") => O4Failed
    BY <1>a, <1>f DEF O4Law
  <2>3. Unblamed("O4")' <=> Unblamed("O4")
    BY <1>f DEF Unblamed, Free
  <2> QED
    BY <1>f, <2>1, <2>2, <2>3 DEF O4Law
<1>1. ASSUME NEW ans \in ParseAnswers, O4Parse(ans)
      PROVE  IsLog' /\ O4Law' /\ Verdict4
  <2>1. Recorded("parse", input, ans) /\ pc = "parse"
    BY <1>1, <1>a, CallsRecorded DEF O4Parse, AcceptedInput, Step
  <2>2. /\ r'.violations = r.violations /\ r'.evaluated = r.evaluated /\ i' = i
        /\ parents' = parents
    BY <1>1, <1>a, Sentinels
    DEF O4Parse, AcceptedInput, ParseAnswers, Skip, Return, Result, locals
  <2>3. pc' = "serialize" \/ pc' = "return"
    BY <1>1, Sentinels DEF O4Parse, AcceptedInput, ParseAnswers, Skip, Return
  <2>4. Len(log) = 0 /\ Unblamed("O4") /\ ~r.evaluated /\ i = 0 /\ parents = << >>
    BY <1>a, <2>1 DEF O4Law
  <2>5. Len(log') = 1 /\ Sets' = {}
    BY <2>1, <2>4 DEF Recorded, Sets, Calls
  <2> QED
    BY <2>1, <2>2, <2>3, <2>4, <2>5 DEF O4Law, Recorded, Unblamed, Free
<1>2. ASSUME NEW ans \in TextAnswers, O4Serialize(ans)
      PROVE  IsLog' /\ O4Law' /\ Verdict4
  <2>1. Recorded("serialize", NoText, ans) /\ pc = "serialize"
    BY <1>2, <1>a, CallsRecorded DEF O4Serialize, Step
  <2>2. Len(log) = 1 /\ Sets = {} /\ Unblamed("O4") /\ ~r.evaluated /\ i = 0 /\ parents = << >>
    BY <1>a, <2>1 DEF O4Law
  <2>3. CASE ans = Threw
    <3>1. pc' = "return" /\ r' = Blamed("O4", "serialize threw", NoPointer)
      BY <1>2, <2>3 DEF O4Serialize, Return
    <3>2. ~r'.evaluated
      BY <1>a, <2>2, <3>1, Blames
    <3> QED
      BY <1>d, <2>1, <3>1, <3>2 DEF Recorded
  <2>4. CASE ans # Threw /\ Ref[ans] = NoValue
    <3>1. pc' = "return" /\ r'.evaluated = r.evaluated
      BY <1>2, <1>a, <2>4 DEF O4Serialize, Skip, Return, Result
    <3> QED
      BY <1>d, <2>1, <2>2, <3>1 DEF Recorded
  <2>5. CASE ans # Threw /\ Ref[ans] # NoValue
    <3>1. pc' = "pointers" /\ canonical' = ans /\ r' = r /\ i' = i /\ parents' = parents
      BY <1>2, <2>5 DEF O4Serialize
    <3>2. Len(log') = 2 /\ Sets' = {} /\ Compared' = ans
      BY <2>1, <2>2 DEF Recorded, Sets, Calls, Compared, Answer
    <3> QED
      BY <2>1, <2>2, <3>1, <3>2 DEF O4Law, Recorded, Unblamed, Free
  <2> QED
    BY <2>3, <2>4, <2>5
<1>3. ASSUME NEW ans \in PointersAnswers, O4Pointers(ans)
      PROVE  IsLog' /\ O4Law' /\ Verdict4
  <2>1. Recorded("pointers", NoText, ans) /\ pc = "pointers"
    BY <1>3, <1>a, CallsRecorded DEF O4Pointers, Enumerated, Step
  <2>2. /\ Len(log) = 2 /\ Sets = {} /\ canonical = Compared /\ parents = << >>
        /\ Unblamed("O4") /\ ~r.evaluated /\ i = 0
    BY <1>a, <2>1 DEF O4Law
  <2>3. CASE ans = Threw
    <3>1. pc' = "return" /\ r' = Blamed("O4", "pointers threw", NoPointer)
      BY <1>3, <2>3 DEF O4Pointers, Enumerated, Return
    <3>2. ~r'.evaluated
      BY <1>a, <2>2, <3>1, Blames
    <3> QED
      BY <1>d, <2>1, <3>1, <3>2 DEF Recorded
  <2>4. CASE ans # Threw
    <3>1. /\ pc' = "choose" /\ ptrs' = ans /\ canonical' = canonical /\ r' = r
          /\ i' = i /\ parents' = parents
      BY <1>3, <2>4 DEF O4Pointers, Enumerated
    <3>2. ans \in Seq(Pointer)
      BY <2>4, ConstantTypes DEF PointersAnswers
    <3>3. Len(log') = 3 /\ Compared' = canonical' /\ Enumeration' = ans /\ Sets' = {}
      BY <2>1, <2>2, <3>1 DEF Recorded, Compared, Enumeration, Sets, Calls, Answer
    <3>4. Rest(ans, ans) /\ Done(ans, ans) = 0
      BY <3>2, RestEnds
    <3>5. ContainersTo(Done(ptrs, Enumeration))' = {}
      BY <3>1, <3>3, <3>4 DEF ContainersTo
    <3>6. O4Chosen0'
      BY <2>2, <3>1, <3>2, <3>3, <3>4, <3>5, FS_EmptySet DEF O4Chosen0
    <3> QED
      BY <2>1, <2>2, <3>1, <3>6 DEF O4Law, Recorded, Unblamed, Free
  <2> QED
    BY <2>3, <2>4
<1>4. ASSUME O4Choose PROVE IsLog' /\ O4Law' /\ Verdict4
  <2>1. /\ pc = "choose" /\ ptrs # << >> /\ ptrs' = Tail(ptrs) /\ pc' = pc
        /\ canonical' = canonical /\ log' = log /\ r' = r /\ i' = i
    BY <1>4 DEF O4Choose, Step, sutvars
  <2>2. O4Chosen0 /\ Unblamed("O4") /\ ~r.evaluated /\ i = 0
    BY <1>a, <2>1 DEF O4Law
  <2> DEFINE d == Done(ptrs, Enumeration)
             p == Enumeration[d + 1]
             good == p \notin Dups[Compared] /\ RefAt[Ref[Compared]][p] \in Container
  <2>3. /\ Enumeration' = Enumeration /\ Compared' = Compared /\ Sets' = Sets
        /\ \A m : ContainersTo(m)' = ContainersTo(m)
    BY <2>1 DEF Enumeration, Compared, Sets, Calls, ContainersTo, Answer
  <2>4. /\ Rest(ptrs', Enumeration) /\ Done(ptrs', Enumeration) = d + 1
        /\ d \in Nat /\ Head(ptrs) = p
    BY <1>a, <2>1, <2>2, RestTail DEF O4Chosen0
  <2>5. Len(parents') = Len(parents) + (IF good THEN 1 ELSE 0)
    <3>1. good <=> IsParent(Head(ptrs))
      BY <2>2, <2>4 DEF O4Chosen0, IsParent
    <3>2. Len(parents) \in Nat
      BY <1>a
    <3>3. CASE good
      <4>1. PICK e \in Parent : parents' = Append(parents, e)
        <5>1. Head(ptrs) \in Pointer
          BY <1>a, <2>1
        <5>2. RefAt[Ref[canonical]][Head(ptrs)] \in Container
          BY <3>1, <3>3 DEF IsParent
        <5> QED
          BY <1>4, <3>1, <3>3, <5>1, <5>2 DEF O4Choose, Parent
      <4> QED
        BY <1>a, <3>3, <4>1
    <3>4. CASE ~good
      BY <1>4, <3>1, <3>2, <3>4 DEF O4Choose
    <3> QED
      BY <3>3, <3>4
  <2>6. Cardinality(ContainersTo(d + 1)) = Cardinality(ContainersTo(d)) + (IF good THEN 1 ELSE 0)
    BY <2>4, OneContainerMore
  <2>7. O4Chosen0'
    BY <2>1, <2>2, <2>3, <2>4, <2>5, <2>6 DEF O4Chosen0
  <2>8. IsLog'
    BY <1>a, <2>1 DEF IsLog
  <2> QED
    BY <2>1, <2>2, <2>7, <2>8 DEF O4Law, Unblamed, Free
<1>5. ASSUME O4Chosen PROVE IsLog' /\ O4Law' /\ Verdict4
  <2>1. /\ pc = "choose" /\ (ptrs = << >> \/ Len(parents) >= kSetRemoveParents) /\ log' = log
        /\ parents = << >> => pc' = "return" /\ r'.evaluated = r.evaluated
        /\ parents # << >> => /\ pc' = "write" /\ r' = r /\ i' = i /\ canonical' = canonical
                              /\ parents' = parents
    BY <1>5, <1>a DEF O4Chosen, Step, sutvars, Skip, Return, Result
  <2>2. O4Chosen0 /\ Unblamed("O4") /\ ~r.evaluated /\ i = 0
    BY <1>a, <2>1 DEF O4Law
  <2>3. IsLog'
    BY <1>a, <2>1 DEF IsLog
  <2>4. CASE parents = << >>
    BY <1>d, <2>1, <2>2, <2>3, <2>4
  <2>5. CASE parents # << >>
    <3>1. /\ Enumeration' = Enumeration /\ Compared' = Compared /\ Sets' = Sets
          /\ \A n : ParentCount(n)' <=> ParentCount(n)
      BY <2>1 DEF Enumeration, Compared, Sets, Calls, ParentCount, ContainersTo, Answer
    <3>2. ParentCount(Len(parents))
      <4>1. CASE ptrs = << >>
        BY <1>a, <2>2, <4>1, RestEnds DEF O4Chosen0, ParentCount
      <4>2. CASE Len(parents) >= kSetRemoveParents
        <5>1. Len(parents) = kSetRemoveParents
          <6>1. Len(parents) \in Nat /\ Len(parents) =< 4 /\ Len(parents) >= 4
            BY <1>a, <4>2 DEF kSetRemoveParents
          <6>2. \A n \in Nat : n =< 4 /\ n >= 4 => n = 4
            OBVIOUS
          <6> QED
            BY <6>1, <6>2 DEF kSetRemoveParents
        <5> QED
          BY <5>1 DEF ParentCount, kSetRemoveParents
      <4> QED
        BY <2>1, <4>1, <4>2
    <3>3. i + Len(parents) = Len(parents)
      BY <1>a, <2>2
    <3>4. O4Between'
      BY <2>1, <2>2, <2>5, <3>1, <3>2, <3>3, FS_EmptySet DEF O4Between, O4Chosen0
    <3>5. Len(log') >= 3 /\ Unblamed("O4")' /\ pc' = "write"
      BY <2>1, <2>2, <2>5 DEF O4Chosen0, Unblamed, Free
    <3> QED
      BY <2>3, <3>4, <3>5 DEF O4Law
  <2> QED
    BY <2>4, <2>5
\* The log at a write, and within one.
<1>g. ASSUME pc \in Writing \ {"restore", "reserialize"}, Unblamed("O4")
      PROVE  /\ pc = "write" => O4Between
             /\ pc = "get" => O4Amid(1)
             /\ pc = "remove" => O4Amid(2)
             /\ pc = "after" => O4Amid(3)
  BY <1>a, <1>g DEF O4Law
<1>h. pc \in Writing => Len(log) >= 3 /\ (~Unblamed("O4") => O4Failed)
  BY <1>a DEF O4Law
<1>6. ASSUME NEW ans \in WriteAnswers, O4Set(ans)
      PROVE  IsLog' /\ O4Law' /\ Verdict4
  <2>p. PICK p : p = FreshPointer
    OBVIOUS
  <2>1. Recorded("set", p, ans) /\ pc = "write" /\ parents # << >>
    BY <1>6, <1>a, <2>p, CallsRecorded DEF O4Set, Step
  <2>2. Len(log) >= 3 /\ (~Unblamed("O4") => O4Failed) /\ Len(log) \in Nat
    BY <1>h, <2>1 DEF Recorded
  <2>s. PICK s : s = Len(log) + 1
    OBVIOUS
  <2>3. /\ Compared' = Compared /\ Enumeration' = Enumeration
        /\ Sets' = Sets \cup {s}
        /\ \A w \in Sets : w < s /\ SetsBefore(w)' = SetsBefore(w)
        /\ \A n : ParentCount(n)' <=> ParentCount(n)
        /\ \A w \in Sets : Wrote(w, 4) => Wrote(w, 4)'
        /\ log'[s].op = "set" /\ log'[s].arg = p /\ log'[s].ans = ans /\ Len(log') = s
        /\ IsLog'
    BY <1>a, <2>1, <2>2, <2>s, O4Stands, 4 \in 1 .. 4 DEF Recorded
  <2>4. CASE ans = Threw
    <3>1. r' = Blamed("O4", "set threw", p) /\ pc' = "restore"
      BY <1>6, <2>4, <2>p, Sentinels DEF O4Set
    <3>2. ~Unblamed("O4")'
      BY <1>a, <3>1, Blames
    <3>3. O4Failed'
      BY <2>3, <2>4, Sentinels DEF O4Failed, Answer
    <3> QED
      BY <1>e, <2>1, <2>2, <3>1, <3>2, <3>3
  <2>5. CASE ans = "Rejected"
    <3>1. r' = [Blamed("O4", "set refused", p) EXCEPT !.evaluated = TRUE] /\ pc' = "restore"
      BY <1>6, <2>5, <2>p, Sentinels DEF O4Set
    <3>2. Free("O4", r') <=> Free("O4", Blamed("O4", "set refused", p))
      BY <1>a, <3>1 DEF Blamed, Result, Free
    <3>3. ~Unblamed("O4")'
      <4>1. ~Free("O4", r')
        BY <1>a, <3>2, BlameShows
      <4> QED
        BY <4>1 DEF Unblamed, Free
    <3>4. O4Failed'
      BY <2>3, <2>5 DEF O4Failed, Answer
    <3> QED
      BY <1>e, <2>1, <2>2, <3>1, <3>3, <3>4
  <2>6. CASE ans = "Unsupported"
    <3>1. pc' = "return" /\ ~r'.evaluated
      BY <1>6, <1>a, <2>6, Sentinels DEF O4Set, Return, Result
    <3> QED
      BY <1>d, <2>3, <3>1
  <2>7. CASE ans = "Applied"
    <3>1. /\ pc' = "get" /\ r'.violations = r.violations
          /\ canonical' = canonical /\ parents' = parents /\ i' = i
      BY <1>6, <1>a, <2>7, Sentinels DEF O4Set, locals, Result
    <3>2. ASSUME Unblamed("O4") PROVE O4Amid(1)'
      <4>1. O4Between
        BY <1>g, <2>1, <3>2
      <4>2. s \in Sets' /\ s >= 4 /\ Len(log') = s + 1 - 1
        BY <2>2, <2>3, <2>s
      <4>3. canonical' = Compared' /\ Enumeration' \in Seq(Pointer)
        BY <2>3, <3>1, <4>1 DEF O4Between
      <4>4. log'[s].arg = FreshPointer' /\ Wrote(s, 1)'
        BY <2>3, <2>7, <2>p, <3>1, <4>2 DEF FreshPointer, Wrote, Answer
      <4>5. \A w \in Sets' \ {s} : w < s /\ Wrote(w, 4)'
        BY <2>3, <4>1 DEF O4Between
      <4>6. SetsBefore(s)' = Sets
        BY <2>3 DEF SetsBefore
      <4>7. ParentCount(i + Len(parents))'
        BY <2>3, <3>1, <4>1 DEF O4Between
      <4> QED
        BY <3>1, <4>1, <4>2, <4>3, <4>4, <4>5, <4>6, <4>7 DEF O4Amid, O4Between
    <3> QED
      BY <1>f, <2>1, <2>2, <3>1, <3>2
  <2> QED
    BY <1>6, <2>4, <2>5, <2>6, <2>7 DEF WriteAnswers
\* Call n + 1 of the four that began with the set() at s.
<1> DEFINE Call(s, n, op, arg, ans) ==
      /\ s >= 4 /\ s \in Nat /\ Len(log') = s + n /\ s + n \in DOMAIN log'
      /\ log'[s + n].op = op /\ log'[s + n].arg = arg /\ log'[s + n].ans = ans
      /\ Sets' = Sets /\ Enumeration' \in Seq(Pointer)
      /\ canonical = Compared' /\ SetValue = ValueSet(s)'
      /\ log'[s].arg = FreshPointer /\ (parents' = parents => FreshPointer' = FreshPointer)
      /\ Wrote(s, n)' /\ Answer(s)' = "Applied"
      /\ \A w \in Sets \ {s} : w < s /\ Wrote(w, 4)'
      /\ SetsBefore(s)' = SetsBefore(s)
      /\ IsFiniteSet(SetsBefore(s)) /\ Cardinality(SetsBefore(s)) = i
      /\ \A m : ParentCount(m)' <=> ParentCount(m)
      /\ ParentCount(i + Len(parents))
<1>i. ASSUME NEW op, NEW arg, NEW ans, Recorded(op, arg, ans), op # "set",
             NEW n \in 1 .. 3, O4Amid(n)
      PROVE  \E s \in Sets : Call(s, n, op, arg, ans)
  <2>1. PICK s \in Sets :
          /\ s >= 4 /\ Len(log) = s + n - 1
          /\ canonical = Compared /\ Enumeration \in Seq(Pointer)
          /\ log[s].arg = FreshPointer /\ Wrote(s, n)
          /\ \A w \in Sets \ {s} : w < s /\ Wrote(w, 4)
          /\ IsFiniteSet(SetsBefore(s)) /\ Cardinality(SetsBefore(s)) = i
          /\ ParentCount(i + Len(parents))
    BY <1>i DEF O4Amid
  <2>2. Len(log) >= 3 /\ Len(log) \in Nat /\ s \in Nat
    BY <1>i, <2>1 DEF Recorded, Sets, Calls
  <2>3. /\ Compared' = Compared /\ Enumeration' = Enumeration /\ Sets' = Sets
        /\ \A w \in Sets : /\ w \in 1 .. Len(log) /\ log'[w] = log[w]
                           /\ SetsBefore(w)' = SetsBefore(w) /\ ValueSet(w)' = ValueSet(w)
        /\ \A m : ParentCount(m)' <=> ParentCount(m)
        /\ \A w \in Sets, m \in 1 .. 4 : Wrote(w, m) => Wrote(w, m)'
    BY <1>a, <1>i, <2>2, O4Stands
  <2>4. /\ Len(log') = s + n /\ s + n \in DOMAIN log'
        /\ log'[s + n].op = op /\ log'[s + n].arg = arg /\ log'[s + n].ans = ans
    BY <1>i, <2>1, <2>2 DEF Recorded
  <2>5. Wrote(s, n)' /\ \A w \in Sets \ {s} : w < s /\ Wrote(w, 4)'
    BY <2>1, <2>3, n \in 1 .. 4, 4 \in 1 .. 4
  <2>6. SetValue = ValueSet(s)'
    BY <2>1, <2>3 DEF SetValue, ValueSet
  <2>7. log'[s].arg = FreshPointer /\ (parents' = parents => FreshPointer' = FreshPointer)
    BY <2>1, <2>3 DEF FreshPointer
  <2>8. Answer(s)' = "Applied"
    BY <2>5 DEF Wrote
  <2>10. canonical = Compared' /\ Enumeration' \in Seq(Pointer) /\ SetsBefore(s)' = SetsBefore(s)
    BY <2>1, <2>3
  <2> QED
    BY <2>1, <2>2, <2>3, <2>4, <2>5, <2>6, <2>7, <2>8, <2>10
\* A wrong answer to it is a fault.
<1>j. ASSUME NEW s \in Sets, NEW n \in 1 .. 3, NEW op, NEW arg, NEW ans,
             Call(s, n, op, arg, ans),
             \/ n = 1 /\ ~(ans \in Text /\ Ref[ans] = Ref[SetValue])
             \/ n = 2 /\ ans # "Applied"
             \/ n = 3 /\ ans # canonical
      PROVE  O4Failed'
  <2>1. s \in Sets' /\ log'[s + n].ans = ans /\ s + n =< Len(log')
    BY <1>j
  <2>2. CASE n = 1
    BY <1>j, <2>1, <2>2 DEF O4Failed, ReadBack, Answer
  <2>3. CASE n = 2
    BY <1>j, <2>1, <2>3 DEF O4Failed, Answer
  <2>4. CASE n = 3
    BY <1>j, <2>1, <2>4 DEF O4Failed, Answer
  <2> QED
    BY <2>2, <2>3, <2>4
\* A right one leads on.
<1>k. ASSUME NEW s \in Sets, NEW n \in 1 .. 2, NEW m, m = n + 1, NEW op, NEW arg, NEW ans,
             Call(s, n, op, arg, ans), UNCHANGED <<canonical, parents, i>>, Wrote(s, m)'
      PROVE  O4Amid(m)'
  <2>1. Len(log') = s + m - 1
    BY <1>k
  <2> QED
    BY <1>k, <2>1 DEF O4Amid
<1>7. ASSUME NEW ans \in GetAnswers, O4Get(ans)
      PROVE  IsLog' /\ O4Law' /\ Verdict4
  <2>p. PICK p : p = FreshPointer
    OBVIOUS
  <2>1. Recorded("get", p, ans) /\ pc = "get"
    BY <1>7, <1>a, <2>p, CallsRecorded DEF O4Get, Step
  <2>2. Len(log) >= 3 /\ (~Unblamed("O4") => O4Failed)
    BY <1>h, <2>1
  <2>3. UNCHANGED <<canonical, parents, i>>
    BY <1>7 DEF O4Get, locals
  <2>4. ASSUME Unblamed("O4") PROVE \E s \in Sets : Call(s, 1, "get", p, ans)
    BY <1>g, <1>i, <2>1, <2>4, 1 \in 1 .. 3
  <2>5. CASE ans \in Text /\ Ref[ans] = Ref[SetValue]
    <3>1. pc' = "remove" /\ r' = r
      BY <1>7, <2>5 DEF O4Get
    <3>2. ASSUME Unblamed("O4") PROVE O4Amid(2)'
      <4>1. PICK s \in Sets : Call(s, 1, "get", p, ans)
        BY <2>4, <3>2
      <4>2. Did(s + 1, "get", log[s].arg)' /\ ReadBack(Answer(s + 1), ValueSet(s))'
        BY <2>5, <2>p, <4>1 DEF Did, ReadBack, Answer
      <4>3. Wrote(s, 2)'
        BY <4>1, <4>2 DEF Wrote
      <4> QED
        BY <1>k, <2>3, <4>1, <4>3, 1 \in 1 .. 2, 2 = 1 + 1
    <3> QED
      BY <1>f, <2>1, <2>2, <3>1, <3>2
  <2>6. CASE ~(ans \in Text /\ Ref[ans] = Ref[SetValue])
    <3>1. r' = Blamed("O4", "did not take", p) /\ pc' = "restore"
      BY <1>7, <2>6, <2>p DEF O4Get
    <3>2. ~Unblamed("O4")'
      BY <1>a, <3>1, Blames
    <3>3. Unblamed("O4") => O4Failed'
      BY <1>j, <2>4, <2>6, 1 \in 1 .. 3
    <3> QED
      BY <1>e, <2>1, <2>2, <3>1, <3>2, <3>3
  <2> QED
    BY <2>5, <2>6
<1>8. ASSUME NEW ans \in WriteAnswers, O4Remove(ans)
      PROVE  IsLog' /\ O4Law' /\ Verdict4
  <2>p. PICK p : p = FreshPointer
    OBVIOUS
  <2>1. Recorded("remove", p, ans) /\ pc = "remove"
    BY <1>8, <1>a, <2>p, CallsRecorded DEF O4Remove, Step
  <2>2. Len(log) >= 3 /\ (~Unblamed("O4") => O4Failed)
    BY <1>h, <2>1
  <2>3. UNCHANGED <<canonical, parents, i>>
    BY <1>8 DEF O4Remove, locals
  <2>4. ASSUME Unblamed("O4") PROVE \E s \in Sets : Call(s, 2, "remove", p, ans)
    BY <1>g, <1>i, <2>1, <2>4, 2 \in 1 .. 3
  <2>5. CASE ans = "Applied"
    <3>1. pc' = "after" /\ r' = r
      BY <1>8, <2>5 DEF O4Remove
    <3>2. ASSUME Unblamed("O4") PROVE O4Amid(3)'
      <4>1. PICK s \in Sets : Call(s, 2, "remove", p, ans)
        BY <2>4, <3>2
      <4>2. Did(s + 2, "remove", log[s].arg)' /\ Answer(s + 2)' = "Applied"
        BY <2>5, <2>p, <4>1 DEF Did, Answer
      <4>3. Wrote(s, 3)'
        BY <4>1, <4>2 DEF Wrote
      <4> QED
        BY <1>k, <2>3, <4>1, <4>3, 2 \in 1 .. 2, 3 = 2 + 1
    <3> QED
      BY <1>f, <2>1, <2>2, <3>1, <3>2
  <2>6. CASE ans # "Applied"
    <3>1. pc' = "restore" /\ \E what : r' = Blamed("O4", what, p)
      BY <1>8, <2>6, <2>p DEF O4Remove
    <3>2. ~Unblamed("O4")'
      BY <1>a, <3>1, Blames
    <3>3. Unblamed("O4") => O4Failed'
      BY <1>j, <2>4, <2>6, 2 \in 1 .. 3
    <3> QED
      BY <1>e, <2>1, <2>2, <3>1, <3>2, <3>3
  <2> QED
    BY <2>5, <2>6
<1>9. ASSUME NEW ans \in TextAnswers, O4After(ans)
      PROVE  IsLog' /\ O4Law' /\ Verdict4
  <2>1. Recorded("serialize", NoText, ans) /\ pc = "after"
    BY <1>9, <1>a, CallsRecorded DEF O4After, Step
  <2>2. Len(log) >= 3 /\ (~Unblamed("O4") => O4Failed)
    BY <1>h, <2>1
  <2>4. ASSUME Unblamed("O4") PROVE \E s \in Sets : Call(s, 3, "serialize", NoText, ans)
    BY <1>g, <1>i, <2>1, <2>4, 3 \in 1 .. 3
  <2>5. CASE ans = canonical
    <3>1. /\ pc' = "write" /\ r' = r /\ canonical' = canonical
          /\ parents' = Tail(parents) /\ i' = i + 1
      BY <1>9, <1>a, <2>5, Sentinels DEF O4After, NextParent
    <3>2. ASSUME Unblamed("O4") PROVE O4Between'
      <4>1. PICK s \in Sets : Call(s, 3, "serialize", NoText, ans)
        BY <2>4, <3>2
      <4>2. Serialized(s + 3, Compared)'
        BY <2>5, <4>1 DEF Serialized, Did, Answer
      <4>3. Wrote(s, 4)'
        BY <4>1, <4>2 DEF Wrote
      <4>4. \A w \in Sets' : Wrote(w, 4)'
        BY <4>1, <4>3
      <4>5. Sets = SetsBefore(s) \cup {s} /\ s \notin SetsBefore(s)
        <5>1. \A w \in Sets : w = s \/ w < s
          BY <4>1
        <5>2. ~(s < s)
          BY <4>1
        <5> QED
          BY <4>1, <5>1, <5>2 DEF SetsBefore
      <4>6. IsFiniteSet(Sets') /\ Cardinality(Sets') = i'
        BY <3>1, <4>1, <4>5, FS_AddElement
      <4>7. i' + Len(parents') = i + Len(parents)
        BY <1>a, <2>1, <3>1
      <4> QED
        BY <3>1, <4>1, <4>4, <4>6, <4>7 DEF O4Between
    <3> QED
      BY <1>f, <2>1, <2>2, <3>1, <3>2
  <2>6. CASE ans # canonical
    <3>1. pc' \in {"restore", "return"} /\ \E what, p : r' = Blamed("O4", what, p)
      BY <1>9, <2>6 DEF O4After, Return
    <3>2. ~Unblamed("O4")'
      BY <1>a, <3>1, Blames
    <3>3. Unblamed("O4") => O4Failed'
      BY <1>j, <2>4, <2>6, 3 \in 1 .. 3
    <3> QED
      BY <1>e, <2>1, <2>2, <3>1, <3>2, <3>3
  <2> QED
    BY <2>5, <2>6
<1>10. ASSUME NEW ans \in ParseAnswers, O4Restore(ans)
       PROVE  IsLog' /\ O4Law' /\ Verdict4
  <2>1. Recorded("parse", canonical, ans) /\ pc = "restore"
    BY <1>10, <1>a, CallsRecorded DEF O4Restore, Step
  <2>2. Len(log) >= 3 /\ ~Unblamed("O4") /\ O4Failed
    BY <1>a, <1>h, <2>1 DEF O4Law
  <2>3. r' = r /\ pc' \in {"reserialize", "return"}
    BY <1>10 DEF O4Restore, Return
  <2>4. ~Unblamed("O4")'
    BY <2>2, <2>3 DEF Unblamed, Free
  <2> QED
    BY <1>e, <2>1, <2>2, <2>3, <2>4
<1>11. ASSUME NEW ans \in TextAnswers, O4Reserialize(ans)
       PROVE  IsLog' /\ O4Law' /\ Verdict4
  <2>1. Recorded("serialize", NoText, ans) /\ pc = "reserialize"
    BY <1>11, <1>a, CallsRecorded DEF O4Reserialize, Step
  <2>2. Len(log) >= 3 /\ ~Unblamed("O4") /\ O4Failed
    BY <1>a, <1>h, <2>1 DEF O4Law
  <2>3. r' = r /\ pc' \in {"write", "return"}
    BY <1>11 DEF O4Reserialize, NextParent, Return
  <2>4. ~Unblamed("O4")'
    BY <2>2, <2>3 DEF Unblamed, Free
  <2> QED
    BY <1>e, <2>1, <2>2, <2>3, <2>4
<1>12. ASSUME O4Done PROVE IsLog' /\ O4Law' /\ Verdict4
  <2>1. pc = "write" /\ parents = << >> /\ pc' = "return" /\ r' = r /\ log' = log
    BY <1>12 DEF O4Done, Return, Step, sutvars
  <2>2. ASSUME Unblamed("O4") PROVE O4Held
    <3>1. O4Between
      BY <1>g, <2>1, <2>2
    <3>2. i + Len(parents) = Cardinality(Sets)
      BY <1>a, <2>1, <3>1 DEF O4Between
    <3> QED
      BY <3>1, <3>2, O4Settles DEF O4Between
  <2>3. ~Unblamed("O4") => ~O4Held
    BY <1>h, <2>1, O4Fails
  <2>4. (O4Held' <=> O4Held) /\ (Unblamed("O4")' <=> Unblamed("O4"))
    BY <2>1 DEF O4Held, Unblamed, Free, Calls, Did, Serialized, Answer
  <2>5. IsLog'
    BY <1>a, <2>1 DEF IsLog
  <2> QED
    BY <2>1, <2>2, <2>3, <2>4, <2>5 DEF O4Law
<1> QED
  BY <1>1, <1>2, <1>3, <1>4, <1>5, <1>6, <1>7, <1>8, <1>9, <1>10, <1>11, <1>12 DEF O4Next
-----------------------------------------------------------------------------
(* O1: what the first four calls settled, no later call changes.             *)
LEMMA O1Stands ==
  ASSUME IsLog, NEW op, NEW arg, NEW ans, Recorded(op, arg, ans), Len(log) >= 3
  PROVE  /\ PointersAt' = PointersAt /\ PointersAt \in {4, 5}
         /\ O1Failed => O1Failed'
         /\ Len(log) >= 4 /\ BlankThenThrew => BlankThenThrew'
         /\ Len(log) >= 4 /\ O1Held => O1Held'
<1>1. log'[2] = log[2] /\ log'[3] = log[3] /\ Len(log') = Len(log) + 1 /\ Len(log) \in Nat
  BY DEF Recorded
<1>2. Len(log) >= 4 => log'[4] = log[4] /\ 4 \in DOMAIN log'
  BY DEF Recorded
<1>3. 3 \in DOMAIN log'
  BY DEF Recorded
<1>4. O1Failed => O1Failed'
  BY <1>1, <1>2 DEF O1Failed, Answer
<1>5. Len(log) >= 4 /\ O1Held => O1Held'
  BY <1>1, <1>2, <1>3 DEF O1Held, ParsedOK, Serialized, Did, Answer
<1> QED
  BY <1>1, <1>2, <1>4, <1>5 DEF PointersAt, BlankThenThrew, Answer

(* So what is settled stays so, unless O1 is blamed or cleared.              *)
LEMMA O1StaysSettled ==
  ASSUME IsLog, NEW op, NEW arg, NEW ans, Recorded(op, arg, ans), Len(log) >= 3, O1Settled,
         Unblamed("O1")' <=> Unblamed("O1")
  PROVE  O1Settled'
<1>1. Len(log) >= 4 => Len(log') >= 4
  BY DEF Recorded
<1> QED
  BY <1>1, O1Stands DEF O1Settled

(* A failed call is one O1 does not hold with.                               *)
LEMMA O1Verdict == O1Settled => BlankThenThrew \/ (Unblamed("O1") <=> O1Held)
<1>1. O1Failed => ~O1Held
  BY Sentinels DEF O1Failed, O1Held, ParsedOK, Serialized, Did, Answer
<1> QED
  BY <1>1 DEF O1Settled

(* O2: the enumeration and its answers are there to stay.                    *)
LEMMA O2Stands ==
  ASSUME IsLog, NEW op, NEW arg, NEW ans, Recorded(op, arg, ans), op # "pointers",
         PointersOnce
  PROVE  /\ PointersOnce' /\ PointersAt' = PointersAt /\ Listed' = Listed
         /\ Len(log) >= PointersAt + Len(Listed) /\ O2Failed => O2Failed'
         /\ \A k \in DOMAIN log : log'[k] = log[k] /\ k \in DOMAIN log'
<1>1. Len(log) >= 4 /\ PointersAt \in DOMAIN log
  BY DEF Recorded, PointersOnce, PointersAt
<1>2. PointersAt' = PointersAt
  BY <1>1, O1Stands
<1>3. \A k \in DOMAIN log : log'[k] = log[k] /\ k \in DOMAIN log'
  BY DEF Recorded
<1>4. Listed' = Listed
  <2> PICK q : q = PointersAt
    OBVIOUS
  <2>1. Listed = log[q].ans /\ Listed' = log'[q].ans
    BY <1>2 DEF Listed, Answer
  <2> QED
    BY <1>1, <1>3, <2>1
<1>5. \A k \in DOMAIN log' : log'[k].op = "pointers" => k = PointersAt
  <2>1. \A k \in DOMAIN log' : k \in DOMAIN log \/ log'[k].op = op
    BY DEF Recorded
  <2> QED
    BY <1>3, <2>1 DEF PointersOnce
<1>6. PointersOnce'
  BY <1>1, <1>2, <1>3, <1>4, <1>5 DEF PointersOnce
<1>7. ASSUME Len(log) >= PointersAt + Len(Listed), O2Failed PROVE O2Failed'
  <2>q. PICK q, n : q = PointersAt /\ n = Len(Listed)
    OBVIOUS
  <2>1. n \in Nat /\ q \in {4, 5} /\ PointersAt' = q /\ Len(Listed') = n
        /\ Len(log) >= q + n /\ Len(log) \in Nat /\ Len(log') = Len(log) + 1
    BY <1>1, <1>2, <1>4, <1>7, <2>q, O1Stands DEF PointersOnce, Recorded
  <2>2. PICK k \in 1 .. n :
          \/ log[q + k].ans \notin Text
          \/ q + n + k =< Len(log) /\ log[q + n + k].ans # "accepted"
    BY <1>7, <2>q DEF O2Failed, Answer
  <2>3. \A h \in 1 .. Len(log) : log'[h] = log[h]
    BY DEF Recorded
  <2>4. \/ log'[q + k].ans \notin Text
        \/ q + n + k =< Len(log') /\ log'[q + n + k].ans # "accepted"
    BY <2>1, <2>2, <2>3
  <2> QED
    BY <2>1, <2>4 DEF O2Failed, Answer
<1> QED
  BY <1>2, <1>3, <1>4, <1>6, <1>7

(* Every text gotten, phase B starts with as many texts.                     *)
LEMMA O2Turns ==
  ASSUME O2PhaseA, ptrs = << >>
  PROVE  O2PhaseB
<1>q. PICK q, n : q = PointersAt /\ n = Len(Listed)
  OBVIOUS
<1>1. n \in Nat /\ q \in {4, 5} /\ PointersOnce /\ Len(log) - q = n
  BY <1>q, RestEnds DEF O2PhaseA, PointersOnce, PointersAt
<1>2. /\ \A k \in 1 .. n : Did(q + k, "get", Listed[k])
      /\ Unblamed("O2") =>
           /\ Len(resolved) = n
           /\ \A k \in 1 .. n : Answer(q + k) \in Text /\ resolved[k].text = Answer(q + k)
      /\ ~Unblamed("O2") => \E k \in 1 .. n : Answer(q + k) \notin Text
  BY <1>q, <1>1 DEF O2PhaseA
<1>3. q + 1 \in DOMAIN log \/ n = 0
  BY <1>1, <1>2 DEF Did
<1>4. Len(log) = q + n
  BY <1>1, <1>3
<1>5. ~Unblamed("O2") => O2Failed
  BY <1>q, <1>2 DEF O2Failed
<1>6. \A k \in 1 .. n : q + 0 + k = q + k
  BY <1>1
<1> QED
  BY <1>q, <1>1, <1>2, <1>4, <1>5, <1>6 DEF O2PhaseB

(* At the end of phase B the law has the verdict it deserves.                *)
LEMMA O2Settles ==
  IsLog /\ O2PhaseB /\ resolved = << >> => (Unblamed("O2") <=> O2Held)
<1> SUFFICES ASSUME IsLog, O2PhaseB, resolved = << >> PROVE Unblamed("O2") <=> O2Held
  OBVIOUS
<1>q. PICK q, n : q = PointersAt /\ n = Len(Listed)
  OBVIOUS
<1>1. /\ n \in Nat /\ q \in {4, 5} /\ PointersOnce /\ Calls("pointers") = {q}
      /\ Listed = Answer(q) /\ DOMAIN Listed = 1 .. n /\ Listed # Threw
  BY <1>q DEF O2PhaseB, PointersOnce, PointersAt, Calls, Listed
<1>2. \A k \in 1 .. n : Did(q + k, "get", Listed[k])
  BY <1>q DEF O2PhaseB
<1>3. ASSUME Unblamed("O2") PROVE O2Held
  <2>m. PICK m : m = Len(log) - q - n
    OBVIOUS
  <2>1. /\ Len(resolved) = n - m /\ \A k \in 1 .. n : Answer(q + k) \in Text
        /\ \A k \in 1 .. m : ParsedOK(q + n + k, Answer(q + k))
    BY <1>q, <1>3, <2>m DEF O2PhaseB
  <2>2. Len(log) \in Nat
    BY DEF IsLog
  <2>3. m = n
    BY <1>1, <2>1, <2>2, <2>m
  <2>4. \A k \in 1 .. n :
          /\ Did(q + k, "get", Answer(q)[k])
          /\ Answer(q + k) \in Text
          /\ ParsedOK(q + n + k, Answer(q + k))
    BY <1>1, <1>2, <2>1, <2>3
  <2> QED
    <3>1. Len(Answer(q)) = n /\ DOMAIN Answer(q) = 1 .. n /\ Answer(q) # Threw
      BY <1>q, <1>1
    <3> QED
      BY <1>1, <2>4, <3>1 DEF O2Held
<1>4. ASSUME O2Failed PROVE ~O2Held
  BY <1>q, <1>1, <1>4 DEF O2Failed, O2Held, ParsedOK, Did
<1> QED
  BY <1>3, <1>4 DEF O2PhaseB

(* Phase A, one pointer further.                                             *)
LEMMA O2Gets ==
  ASSUME IsLog, O2PhaseA, ptrs \in Seq(Pointer), resolved \in Seq(Resolved), ptrs # << >>,
         NEW p, NEW ans, p = Head(ptrs), Recorded("get", p, ans), ptrs' = Tail(ptrs),
         ans \in Text => /\ resolved' = Append(resolved, [ptr |-> p, text |-> ans])
                         /\ Unblamed("O2")' <=> Unblamed("O2"),
         ans \notin Text => ~Unblamed("O2")'
  PROVE  O2PhaseA'
<1>q. PICK q, j, L : q = PointersAt /\ j = Done(ptrs, Listed) /\ L = Listed
  OBVIOUS
<1>1. /\ PointersOnce' /\ PointersAt' = q /\ Listed' = L /\ L \in Seq(Pointer)
      /\ \A k \in DOMAIN log : log'[k] = log[k] /\ k \in DOMAIN log'
  BY <1>q, O2Stands DEF O2PhaseA, PointersOnce
<1>2. /\ Rest(ptrs', L) /\ Done(ptrs', L) = j + 1 /\ j \in Nat /\ p = L[j + 1]
  BY <1>q, <1>1, RestTail DEF O2PhaseA
<1>3. /\ q \in {4, 5} /\ Len(log) \in Nat /\ Len(log) = q + j /\ Len(log') = q + (j + 1)
  <2>1. q \in {4, 5} /\ Len(log) \in Nat /\ Len(log') = Len(log) + 1 /\ Len(log) - q = j
    BY <1>q DEF O2PhaseA, PointersAt, Recorded
  <2>2. PICK m \in Nat, n \in Nat : m = Len(log) /\ n = j
    BY <1>2, <2>1
  <2>3. m - q = n => m = q + n /\ m + 1 = q + (n + 1)
    BY <2>1
  <2> QED
    BY <2>1, <2>2, <2>3, Zenon
<1>4. /\ DOMAIN log = 1 .. q + j /\ DOMAIN log' = 1 .. q + (j + 1)
      /\ log'[q + (j + 1)].op = "get" /\ log'[q + (j + 1)].arg = p
      /\ log'[q + (j + 1)].ans = ans
  <2>1. Len(log) + 1 = q + (j + 1)
    BY <1>2, <1>3
  <2> QED
    BY <1>3, <2>1 DEF Recorded
<1>5. \A k \in 1 .. j : /\ q + k \in DOMAIN log /\ log[q + k].op = "get" /\ log[q + k].arg = L[k]
                        /\ log'[q + k] = log[q + k]
  <2>1. \A k \in 1 .. j : Did(q + k, "get", L[k])
    BY <1>q DEF O2PhaseA
  <2> QED
    BY <1>1, <2>1 DEF Did
<1>6. \A k \in 1 .. j + 1 : k = j + 1 \/ k \in 1 .. j
  BY <1>2
<1>7. \A k \in 1 .. j + 1 : Did(q + k, "get", L[k])'
  <2> SUFFICES ASSUME NEW k \in 1 .. j + 1
               PROVE  /\ q + k \in DOMAIN log'
                      /\ log'[q + k].op = "get" /\ log'[q + k].arg = L[k]
    BY DEF Did
  <2>1. CASE k = j + 1
    BY <1>2, <1>3, <1>4, <2>1
  <2>2. CASE k \in 1 .. j
    BY <1>1, <1>5, <2>2
  <2> QED
    BY <1>6, <2>1, <2>2
<1>8. Len(log') - q = j + 1
  BY <1>2, <1>3
<1>9. ASSUME Unblamed("O2")'
      PROVE  /\ Len(resolved') = j + 1
             /\ \A k \in 1 .. j + 1 : /\ log'[q + k].ans \in Text
                                      /\ resolved'[k].text = log'[q + k].ans
  <2>1. ans \in Text /\ Unblamed("O2")
    BY <1>9
  <2>2. /\ Len(resolved) = j
        /\ \A k \in 1 .. j : log[q + k].ans \in Text /\ resolved[k].text = log[q + k].ans
    BY <1>q, <2>1 DEF O2PhaseA, Answer
  <2> DEFINE e == [ptr |-> p, text |-> ans]
  <2>3. e.text = ans
    OBVIOUS
  <2>4. resolved' = Append(resolved, e)
    BY <2>1
  <2> HIDE DEF e
  <2>5. /\ Len(resolved') = j + 1 /\ resolved'[j + 1] = e
        /\ \A k \in 1 .. j : resolved'[k] = resolved[k]
    BY <2>2, <2>4
  <2> QED
    BY <1>4, <1>5, <1>6, <2>1, <2>2, <2>3, <2>5
<1>10. ASSUME ~Unblamed("O2")'
       PROVE  \E k \in 1 .. j + 1 : log'[q + k].ans \notin Text
  <2>1. CASE ans \notin Text
    BY <1>2, <1>4, <2>1
  <2>2. CASE ans \in Text
    <3>1. PICK k \in 1 .. j : log[q + k].ans \notin Text
      BY <1>q, <1>10, <2>2 DEF O2PhaseA, Answer
    <3>2. k \in 1 .. j + 1
      BY <1>2
    <3> QED
      BY <1>5, <3>1, <3>2
  <2> QED
    BY <2>1, <2>2
<1> QED
  BY <1>1, <1>2, <1>7, <1>8, <1>9, <1>10 DEF O2PhaseA, Answer

(* Phase B, one text further.                                                *)
LEMMA O2Reparses ==
  ASSUME IsLog, O2PhaseB, resolved \in Seq(Resolved), resolved # << >>,
         NEW t, NEW ans, t = Head(resolved).text, Recorded("parse", t, ans),
         resolved' = Tail(resolved),
         ans = "accepted" => (Unblamed("O2")' <=> Unblamed("O2")),
         ans # "accepted" => ~Unblamed("O2")'
  PROVE  O2PhaseB'
<1>q. PICK q, n, L, m : /\ q = PointersAt /\ L = Listed /\ n = Len(L)
                        /\ m = Len(log) - q - n
  OBVIOUS
<1>1. /\ PointersOnce' /\ PointersAt' = q /\ Listed' = L /\ L \in Seq(Pointer)
      /\ \A k \in DOMAIN log : log'[k] = log[k] /\ k \in DOMAIN log'
  BY <1>q, O2Stands DEF O2PhaseB, PointersOnce
<1>2. /\ q \in {4, 5} /\ n \in Nat /\ m \in Nat /\ Len(log) = q + n + m
      /\ Len(log') = q + n + (m + 1) /\ m + 1 \in Nat
  <2>1. /\ q \in {4, 5} /\ n \in Nat /\ Len(log) \in Nat /\ Len(log') = Len(log) + 1
        /\ m >= 0
    BY <1>q, <1>1 DEF O2PhaseB, PointersAt, Recorded
  <2> QED
    BY <1>q, <2>1
<1>3. /\ DOMAIN log = 1 .. q + n + m /\ DOMAIN log' = 1 .. q + n + (m + 1)
      /\ log'[q + n + (m + 1)].op = "parse" /\ log'[q + n + (m + 1)].arg = t
      /\ log'[q + n + (m + 1)].ans = ans
  <2>1. Len(log) + 1 = q + n + (m + 1)
    BY <1>2
  <2> QED
    BY <1>2, <2>1 DEF Recorded
<1>4. \A k \in 1 .. n : Did(q + k, "get", L[k])' /\ log'[q + k] = log[q + k]
  <2>1. \A k \in 1 .. n : Did(q + k, "get", L[k])
    BY <1>q DEF O2PhaseB
  <2> QED
    BY <1>1, <2>1 DEF Did
<1>5. Len(log') - q - n = m + 1
  BY <1>2
<1>6. ASSUME Unblamed("O2")
      PROVE  /\ Len(resolved) = n - m /\ m + 1 \in 1 .. n
             /\ \A k \in 1 .. n : log[q + k].ans \in Text
             /\ \A k \in 1 .. Len(resolved) : resolved[k].text = log[q + m + k].ans
             /\ \A k \in 1 .. m : ParsedOK(q + n + k, log[q + k].ans)
             /\ t = log'[q + (m + 1)].ans
  <2>1. /\ Len(resolved) = n - m
        /\ \A k \in 1 .. n : log[q + k].ans \in Text
        /\ \A k \in 1 .. Len(resolved) : resolved[k].text = log[q + m + k].ans
        /\ \A k \in 1 .. m : ParsedOK(q + n + k, log[q + k].ans)
    BY <1>q, <1>6 DEF O2PhaseB, Answer
  <2>2. Len(resolved) \in Nat /\ Len(resolved) >= 1 /\ Head(resolved) = resolved[1]
    OBVIOUS
  <2>3. m + 1 \in 1 .. n /\ q + m + 1 = q + (m + 1)
    BY <1>2, <2>1, <2>2, SMTT(30)
  <2>4. t = log[q + (m + 1)].ans
    BY <2>1, <2>2, <2>3
  <2> QED
    BY <1>4, <2>1, <2>3, <2>4
<1>7. ASSUME Unblamed("O2")'
      PROVE  /\ Len(resolved') = n - (m + 1)
             /\ \A k \in 1 .. n : log'[q + k].ans \in Text
             /\ \A k \in 1 .. Len(resolved') : resolved'[k].text = log'[q + (m + 1) + k].ans
             /\ \A k \in 1 .. m + 1 :
                  /\ q + n + k \in DOMAIN log' /\ log'[q + n + k].op = "parse"
                  /\ log'[q + n + k].arg = log'[q + k].ans
                  /\ log'[q + n + k].ans = "accepted"
  <2>1. ans = "accepted" /\ Unblamed("O2")
    BY <1>7
  <2>2. /\ Len(resolved') = Len(resolved) - 1 /\ Len(resolved) \in Nat
        /\ \A k \in 1 .. Len(resolved') : resolved'[k] = resolved[k + 1]
    OBVIOUS
  <2>3. ASSUME NEW k \in 1 .. Len(resolved')
        PROVE  resolved'[k].text = log'[q + (m + 1) + k].ans
    <3>1. /\ k + 1 \in 1 .. Len(resolved) /\ q + m + (k + 1) = q + (m + 1) + k
          /\ (m + 1) + k \in 1 .. n /\ q + (m + 1) + k = q + ((m + 1) + k)
      <4>1. PICK a : a = Len(resolved)
        OBVIOUS
      <4>2. a = n - m /\ a \in Nat /\ k \in 1 .. a - 1 /\ m \in Nat /\ n \in Nat /\ q \in {4, 5}
        BY <1>2, <1>6, <2>1, <2>2, <4>1
      <4>3. k + 1 \in 1 .. a /\ (m + 1) + k \in 1 .. n
        BY <4>2
      <4>4. q + m + (k + 1) = q + (m + 1) + k /\ q + (m + 1) + k = q + ((m + 1) + k)
        BY <4>2
      <4> QED
        BY <4>1, <4>3, <4>4
    <3>2. log'[q + ((m + 1) + k)] = log[q + ((m + 1) + k)]
      BY <1>4, <3>1
    <3> QED
      BY <1>6, <2>1, <2>2, <3>1, <3>2
  <2>4. ASSUME NEW k \in 1 .. m + 1
        PROVE  /\ q + n + k \in DOMAIN log' /\ log'[q + n + k].op = "parse"
               /\ log'[q + n + k].arg = log'[q + k].ans
               /\ log'[q + n + k].ans = "accepted"
    <3>1. CASE k = m + 1
      BY <1>2, <1>3, <1>6, <2>1, <3>1
    <3>2. CASE k # m + 1
      <4>1. k \in 1 .. m /\ k \in 1 .. n
        BY <1>2, <1>6, <2>1, <3>2
      <4>2. ParsedOK(q + n + k, log[q + k].ans)
        BY <1>6, <2>1, <4>1
      <4> QED
        BY <1>1, <1>4, <4>1, <4>2 DEF ParsedOK, Did, Answer
    <3> QED
      BY <3>1, <3>2
  <2>5. Len(resolved') = n - (m + 1)
    BY <1>2, <1>6, <2>1, <2>2
  <2> QED
    BY <1>4, <1>6, <2>1, <2>3, <2>4, <2>5
<1>8. ASSUME ~Unblamed("O2")' PROVE O2Failed'
  <2>1. CASE Unblamed("O2")
    <3>1. ans # "accepted" /\ m + 1 \in 1 .. n /\ q + n + (m + 1) =< Len(log')
      BY <1>2, <1>6, <1>8, <2>1
    <3> QED
      BY <1>1, <1>3, <1>q, <3>1 DEF O2Failed, Answer
  <2>2. CASE ~Unblamed("O2")
    <3>1. O2Failed /\ Len(log) >= q + n
      BY <1>2, <2>2 DEF O2PhaseB
    <3> QED
      BY <1>q, <3>1, O2Stands DEF O2PhaseB
  <2> QED
    BY <2>1, <2>2
<1>9. PointersAt' = q /\ Listed' = L /\ Len(Listed') = n
  BY <1>1, <1>q
<1>10. /\ PointersOnce' /\ (Len(log) - PointersAt - Len(Listed))' = m + 1 /\ m + 1 >= 0
       /\ (\A k \in 1 .. Len(Listed) : Did(PointersAt + k, "get", Listed[k]))'
  BY <1>1, <1>2, <1>4, <1>5, <1>9
<1>11. ASSUME Unblamed("O2")'
       PROVE  \A k \in 1 .. m + 1 : ParsedOK(q + n + k, Answer(q + k))'
  BY <1>7, <1>11 DEF ParsedOK, Did, Answer
<1>12. ASSUME Unblamed("O2")'
       PROVE  /\ Len(resolved') = n - (m + 1)
              /\ \A k \in 1 .. n : Answer(q + k)' \in Text
              /\ \A k \in 1 .. Len(resolved') : resolved'[k].text = Answer(q + (m + 1) + k)'
  BY <1>7, <1>12 DEF Answer
<1> QED
  BY <1>8, <1>9, <1>10, <1>11, <1>12 DEF O2PhaseB

(* A blame of O1 leaves O2 as it was, and the other way round.               *)
LEMMA BlamesOneOfTwo ==
  ASSUME r \in Result, NEW what, NEW p
  PROVE  /\ r' = Blamed("O1", what, p) =>
              ~Unblamed("O1")' /\ (Unblamed("O2")' <=> Unblamed("O2"))
         /\ r' = Blamed("O2", what, p) =>
              ~Unblamed("O2")' /\ (Unblamed("O1")' <=> Unblamed("O1"))
<1>1. /\ ~Free("O1", Blamed("O1", what, p)) /\ ~Free("O2", Blamed("O2", what, p))
      /\ Free("O2", Blamed("O1", what, p)) <=> Unblamed("O2")
      /\ Free("O1", Blamed("O2", what, p)) <=> Unblamed("O1")
  BY BlameShows
<1>2. ASSUME NEW L, NEW M, r' = Blamed(L, what, p), ~Free(L, Blamed(L, what, p)),
             Free(M, Blamed(L, what, p)) <=> Unblamed(M)
      PROVE  ~Free(L, r') /\ (Free(M, r') <=> Unblamed(M))
  BY <1>2
<1>3. r' = Blamed("O1", what, p) => ~Free("O1", r') /\ (Free("O2", r') <=> Unblamed("O2"))
  BY <1>1, <1>2
<1>4. r' = Blamed("O2", what, p) => ~Free("O2", r') /\ (Free("O1", r') <=> Unblamed("O1"))
  BY <1>1, <1>2
<1> QED
  BY <1>3, <1>4 DEF Unblamed, Free

(* check_v01() keeps the invariant, through both laws.                       *)
LEMMA V01Lawful == ASSUME TypeInv, LawInv, V01Next PROVE LawInv'
<1>w. Within /\ law = "O1O2"
  BY DEF V01Next, V01Parse, V01Serialize, V01Reparse, V01Again, V01Pointers, V01Get,
         V01PhaseB, V01GetReparse, V01Done, Step
<1>a. /\ r \in Result /\ ptrs \in Seq(Pointer) /\ resolved \in Seq(Resolved)
      /\ law = "O1O2" /\ law' = law /\ input' = input /\ IsLog /\ V01Law
  BY <1>w, WithinKeeps DEF TypeInv, TypeOK, LawInv
<1> DEFINE Verdict12 ==
      pc' = "return" /\ r'.evaluated =>
        /\ BlankThenThrew' \/ (Unblamed("O1")' <=> O1Held')
        /\ Calls("pointers")' = {} \/ (Unblamed("O2")' <=> O2Held')
<1>c. IsLog' /\ V01Law' /\ Verdict12 => LawInv'
  <2>1. VerdictMatchesLaw' <=> Verdict12
    BY <1>a DEF VerdictMatchesLaw, LawsOf, LawHeld, Unblamed, Free
  <2> QED
    BY <1>a, <2>1 DEF LawInv
<1> SUFFICES IsLog' /\ V01Law' /\ Verdict12
  BY <1>c
<1>1. ASSUME NEW ans \in ParseAnswers, V01Parse(ans)
      PROVE  IsLog' /\ V01Law' /\ Verdict12
  <2>1. Recorded("parse", input, ans) /\ pc = "parse"
    BY <1>1, <1>a, CallsRecorded DEF V01Parse, Step
  <2>2. /\ Len(log) = 0 /\ Unblamed("O1") /\ Unblamed("O2") /\ ~r.evaluated
        /\ resolved = << >>
    BY <1>a, <2>1 DEF V01Law
  <2>3. CASE ans = "accepted"
    <3>1. pc' = "serialize" /\ r'.violations = r.violations /\ resolved' = resolved
      BY <1>1, <1>a, <2>3 DEF V01Parse, Result, locals
    <3>2. Len(log') = 1 /\ NoPointersYet'
      BY <2>1, <2>2 DEF Recorded, NoPointersYet
    <3> QED
      BY <2>1, <2>2, <3>1, <3>2 DEF V01Law, Recorded, Unblamed, Free
  <2>4. CASE ans # "accepted"
    <3>1. pc' = "return" /\ r' = r
      BY <1>1, <2>4 DEF V01Parse, Return
    <3> QED
      BY <2>1, <2>2, <3>1 DEF V01Law, Recorded
  <2> QED
    BY <2>3, <2>4
<1>2. ASSUME NEW ans \in TextAnswers, V01Serialize(ans)
      PROVE  IsLog' /\ V01Law' /\ Verdict12
  <2>1. Recorded("serialize", NoText, ans) /\ pc = "serialize"
    BY <1>2, <1>a, CallsRecorded DEF V01Serialize, Step
  <2>2. /\ Len(log) = 1 /\ Unblamed("O1") /\ Unblamed("O2") /\ NoPointersYet
        /\ resolved = << >>
    BY <1>a, <2>1 DEF V01Law
  <2>3. Len(log') = 2 /\ NoPointersYet' /\ IsLog' /\ Did(2, "serialize", NoText)'
        /\ Answer(2)' = ans
    BY <2>1, <2>2 DEF Recorded, NoPointersYet, Did, Answer
  <2>4. CASE ans = Threw
    <3>1. pc' = "return" /\ r' = Blamed("O1", "serialize threw", NoPointer)
      BY <1>2, <2>4 DEF V01Serialize, Return
    <3>2. ~Unblamed("O1")'
      BY <1>a, <3>1, BlamesOneOfTwo
    <3>3. ~O1Held' /\ Calls("pointers")' = {}
      BY <2>3, <2>4, Sentinels DEF O1Held, Calls, NoPointersYet
    <3> QED
      BY <2>3, <3>1, <3>2, <3>3 DEF V01Law
  <2>5. CASE ans # Threw
    <3>1. pc' = "reparse" /\ canonical' = ans /\ r' = r /\ resolved' = resolved
      BY <1>2, <2>5 DEF V01Serialize
    <3>2. ans \in Text
      BY <2>5, ConstantTypes DEF TextAnswers
    <3> QED
      BY <2>2, <2>3, <3>1, <3>2 DEF V01Law, Unblamed, Free, Serialized
  <2> QED
    BY <2>4, <2>5
<1>3. ASSUME NEW ans \in ParseAnswers, V01Reparse(ans)
      PROVE  IsLog' /\ V01Law' /\ Verdict12
  <2>1. /\ Recorded("parse", canonical, ans) /\ pc = "reparse" /\ canonical' = canonical
        /\ resolved' = resolved
    BY <1>3, <1>a, CallsRecorded DEF V01Reparse, Step, locals
  <2>2. /\ Len(log) = 2 /\ Unblamed("O1") /\ Unblamed("O2") /\ NoPointersYet
        /\ Serialized(2, canonical) /\ canonical \in Text /\ resolved = << >>
    BY <1>a, <2>1 DEF V01Law
  <2>3. /\ Len(log') = 3 /\ NoPointersYet' /\ IsLog' /\ Serialized(2, canonical)'
        /\ Did(3, "parse", canonical)' /\ Answer(3)' = ans
    BY <2>1, <2>2 DEF Recorded, NoPointersYet, Serialized, Did, Answer
  <2>4. CASE ans = "accepted"
    <3>1. pc' = "again" /\ r' = r
      BY <1>3, <2>4 DEF V01Reparse
    <3> QED
      BY <2>1, <2>2, <2>3, <2>4, <3>1 DEF V01Law, Unblamed, Free, ParsedOK
  <2>5. CASE ans # "accepted"
    <3>1. pc' = "pointers" /\ r' = Blamed("O1", "does not reparse", NoPointer)
      BY <1>3, <2>5 DEF V01Reparse
    <3>2. ~Unblamed("O1")' /\ (Unblamed("O2")' <=> Unblamed("O2"))
      BY <1>a, <3>1, BlamesOneOfTwo
    <3>3. O1Failed' /\ PointersAt' = 4
      BY <2>3, <2>5 DEF O1Failed, PointersAt
    <3>4. Len(log') = PointersAt' - 1 /\ O1Settled'
      BY <2>3, <3>2, <3>3 DEF O1Settled
    <3> QED
      BY <2>1, <2>2, <2>3, <3>1, <3>2, <3>4 DEF V01Law
  <2> QED
    BY <2>4, <2>5
<1>4. ASSUME NEW ans \in TextAnswers, V01Again(ans)
      PROVE  IsLog' /\ V01Law' /\ Verdict12
  <2>1. /\ Recorded("serialize", NoText, ans) /\ pc = "again" /\ pc' = "pointers"
        /\ resolved' = resolved
    BY <1>4, <1>a, CallsRecorded DEF V01Again, Step, locals
  <2>2. /\ Len(log) = 3 /\ Unblamed("O1") /\ Unblamed("O2") /\ NoPointersYet
        /\ Serialized(2, canonical) /\ ParsedOK(3, canonical) /\ canonical \in Text
        /\ resolved = << >>
    BY <1>a, <2>1 DEF V01Law
  <2>c. PICK c : c = canonical
    OBVIOUS
  <2>3. /\ Len(log') = 4 /\ NoPointersYet' /\ IsLog' /\ Answer(2)' = c
        /\ Did(3, "parse", c)' /\ Answer(3)' = "accepted"
        /\ Did(4, "serialize", NoText)' /\ Answer(4)' = ans
    BY <2>1, <2>2, <2>c DEF Recorded, NoPointersYet, Serialized, ParsedOK, Did, Answer
  <2>4. PointersAt' = 5
    BY <2>3 DEF PointersAt
  <2>5. c \in Text /\ c # Threw
    BY <2>2, <2>c, Sentinels
  <2>6. CASE ans = Threw /\ EmptyText = c
    <3>1. r' = r
      BY <1>4, <2>6, <2>c DEF V01Again
    <3>2. BlankThenThrew'
      BY <2>3, <2>6 DEF BlankThenThrew
    <3> QED
      BY <2>1, <2>2, <2>3, <2>4, <3>1, <3>2 DEF V01Law, O1Settled, Unblamed, Free
  <2>7. CASE ans # Threw /\ ans = c
    <3>1. r' = r
      BY <1>4, <2>7, <2>c DEF V01Again
    <3>2. O1Held' /\ Unblamed("O1")' /\ Unblamed("O2")'
      BY <2>2, <2>3, <2>5, <2>7, <3>1
      DEF O1Held, ParsedOK, Serialized, Unblamed, Free
    <3> QED
      BY <2>1, <2>2, <2>3, <2>4, <3>2 DEF V01Law, O1Settled
  <2>8. CASE ans # c /\ ~(ans = Threw /\ EmptyText = c)
    <3>1. r' = Blamed("O1", "not byte-identical", NoPointer)
      BY <1>4, <2>8, <2>c DEF V01Again
    <3>2. ~Unblamed("O1")' /\ (Unblamed("O2")' <=> Unblamed("O2"))
      BY <1>a, <3>1, BlamesOneOfTwo
    <3>3. O1Failed'
      BY <2>3, <2>8 DEF O1Failed
    <3> QED
      BY <2>1, <2>2, <2>3, <2>4, <3>2, <3>3 DEF V01Law, O1Settled
  <2> QED
    BY <2>5, <2>6, <2>7, <2>8
\* From here on O1 is settled.
<1>e. O1Settled' => BlankThenThrew' \/ (Unblamed("O1")' <=> O1Held')
  BY O1Verdict, PTL
<1>5. ASSUME NEW ans \in PointersAnswers, V01Pointers(ans)
      PROVE  IsLog' /\ V01Law' /\ Verdict12
  <2>1. Recorded("pointers", NoText, ans) /\ pc = "pointers"
    BY <1>5, <1>a, CallsRecorded DEF V01Pointers, Step
  <2>q. PICK q : q = PointersAt
    OBVIOUS
  <2>2. /\ Len(log) = q - 1 /\ q \in {4, 5} /\ O1Settled /\ Unblamed("O2") /\ NoPointersYet
        /\ resolved = << >>
    BY <1>a, <2>1, <2>q DEF V01Law, PointersAt
  <2>3. Len(log) >= 3 /\ Len(log') = q /\ IsLog' /\ DOMAIN log' = 1 .. q /\ PointersAt' = q
    BY <1>a, <2>1, <2>2, <2>q, O1Stands DEF Recorded
  <2>4. /\ log'[q].op = "pointers" /\ log'[q].ans = ans
        /\ \A k \in DOMAIN log' : log'[k].op = "pointers" => k = q
    BY <2>1, <2>2 DEF Recorded, NoPointersYet
  <2>5. (Unblamed("O1")' <=> Unblamed("O1")) => O1Settled'
    BY <1>a, <2>1, <2>2, <2>3, O1StaysSettled
  <2>6. CASE ans = Threw
    <3>1. pc' = "return" /\ r' = Blamed("O2", "pointers threw", NoPointer)
      BY <1>5, <2>6 DEF V01Pointers, Return
    <3>2. ~Unblamed("O2")' /\ (Unblamed("O1")' <=> Unblamed("O1"))
      BY <1>a, <3>1, BlamesOneOfTwo
    <3>3. ~O2Held'
      BY <2>4, <2>6 DEF O2Held, Calls, Answer
    <3> QED
      BY <1>e, <2>3, <2>5, <3>1, <3>2, <3>3 DEF V01Law
  <2>7. CASE ans # Threw
    <3>1. pc' = "walk" /\ ptrs' = ans /\ r' = r /\ resolved' = resolved
      BY <1>5, <2>7 DEF V01Pointers
    <3>2. ans \in Seq(Pointer) /\ Rest(ans, ans) /\ Done(ans, ans) = 0
      <4>1. ans \in Seq(Pointer)
        BY <2>7, ConstantTypes DEF PointersAnswers
      <4> QED
        BY <4>1, RestEnds
    <3>3. Listed' = ans /\ ans # Threw
      BY <2>3, <2>4, <2>7 DEF Listed, Answer
    <3>4. PointersOnce'
      BY <2>2, <2>3, <2>4, <3>2, <3>3 DEF PointersOnce
    <3>5. Unblamed("O2")' /\ (Unblamed("O1")' <=> Unblamed("O1"))
      BY <2>2, <3>1 DEF Unblamed, Free
    <3>6. /\ Rest(ptrs', Listed') /\ Done(ptrs', Listed') = 0 /\ Len(log') - PointersAt' = 0
          /\ Len(resolved') = 0
      BY <2>2, <2>3, <3>1, <3>2, <3>3
    <3>7. O2PhaseA'
      BY <3>4, <3>5, <3>6 DEF O2PhaseA
    <3> QED
      BY <2>3, <2>5, <3>1, <3>5, <3>7 DEF V01Law
  <2> QED
    BY <2>6, <2>7
<1>6. ASSUME NEW ans \in GetAnswers, V01Get(ans)
      PROVE  IsLog' /\ V01Law' /\ Verdict12
  <2>p. PICK p : p = Head(ptrs)
    OBVIOUS
  <2>1. /\ Recorded("get", p, ans) /\ pc = "walk" /\ pc' = "walk"
        /\ ptrs # << >> /\ ptrs' = Tail(ptrs)
    BY <1>6, <1>a, <2>p, CallsRecorded DEF V01Get, Step
  <2>2. O1Settled /\ O2PhaseA
    BY <1>a, <2>1 DEF V01Law
  <2>3. Len(log) >= 3 /\ IsLog'
    <3>1. PointersAt \in DOMAIN log /\ PointersAt \in {4, 5}
      BY <2>2 DEF O2PhaseA, PointersOnce, PointersAt
    <3> QED
      BY <2>1, <3>1 DEF Recorded
  <2>4. \/ ans \in Text /\ resolved' = Append(resolved, [ptr |-> p, text |-> ans]) /\ r' = r
        \/ ans \notin Text /\ \E what : r' = Blamed("O2", what, p)
    BY <1>6, <2>p DEF V01Get
  <2>5. /\ Unblamed("O1")' <=> Unblamed("O1")
        /\ ans \in Text => (Unblamed("O2")' <=> Unblamed("O2"))
        /\ ans \notin Text => ~Unblamed("O2")'
    <3>1. CASE ans \in Text
      BY <2>4, <3>1 DEF Unblamed, Free
    <3>2. CASE ans \notin Text
      BY <1>a, <2>4, <3>2, BlamesOneOfTwo
    <3> QED
      BY <3>1, <3>2
  <2>6. O2PhaseA'
    BY <1>a, <2>1, <2>2, <2>4, <2>5, <2>p, O2Gets
  <2>7. O1Settled'
    BY <1>a, <2>1, <2>2, <2>3, <2>5, O1StaysSettled
  <2> QED
    BY <2>1, <2>3, <2>6, <2>7 DEF V01Law
<1>7. ASSUME V01PhaseB PROVE IsLog' /\ V01Law' /\ Verdict12
  <2>1. /\ pc = "walk" /\ ptrs = << >> /\ pc' = "reget" /\ r' = r /\ log' = log
        /\ resolved' = resolved
    BY <1>7 DEF V01PhaseB, Step, sutvars, locals
  <2>2. O1Settled /\ O2PhaseB
    BY <1>a, <2>1, O2Turns, SMTT(30) DEF V01Law
  <2>3. O1Settled' /\ O2PhaseB'
    BY <2>1, <2>2, ZenonT(60)
    DEF O1Settled, O1Failed, O1Held, BlankThenThrew, O2PhaseB, O2Failed, PointersOnce,
        PointersAt, Listed, Answer, Did, ParsedOK, Serialized, Unblamed, Free
  <2> QED
    BY <1>a, <2>1, <2>3 DEF V01Law, IsLog
<1>8. ASSUME NEW ans \in ParseAnswers, V01GetReparse(ans)
      PROVE  IsLog' /\ V01Law' /\ Verdict12
  <2>t. PICK t, p : t = Head(resolved).text /\ p = Head(resolved).ptr
    OBVIOUS
  <2>1. /\ Recorded("parse", t, ans) /\ pc = "reget" /\ pc' = "reget"
        /\ resolved # << >> /\ resolved' = Tail(resolved)
    BY <1>8, <1>a, <2>t, CallsRecorded DEF V01GetReparse, Step
  <2>2. O1Settled /\ O2PhaseB
    BY <1>a, <2>1 DEF V01Law
  <2>3. Len(log) >= 3 /\ IsLog'
    <3>1. PointersAt \in DOMAIN log /\ PointersAt \in {4, 5}
      BY <2>2 DEF O2PhaseB, PointersOnce, PointersAt
    <3> QED
      BY <2>1, <3>1 DEF Recorded
  <2>4. \/ ans = "accepted" /\ r' = r
        \/ ans # "accepted" /\ r' = Blamed("O2", "does not reparse", p)
    BY <1>8, <2>t DEF V01GetReparse
  <2>5. /\ Unblamed("O1")' <=> Unblamed("O1")
        /\ ans = "accepted" => (Unblamed("O2")' <=> Unblamed("O2"))
        /\ ans # "accepted" => ~Unblamed("O2")'
    <3>1. CASE ans = "accepted"
      BY <2>4, <3>1 DEF Unblamed, Free
    <3>2. CASE ans # "accepted"
      BY <1>a, <2>4, <3>2, BlamesOneOfTwo
    <3> QED
      BY <3>1, <3>2
  <2>6. O2PhaseB'
    BY <1>a, <2>1, <2>2, <2>5, <2>t, O2Reparses
  <2>7. O1Settled'
    BY <1>a, <2>1, <2>2, <2>3, <2>5, O1StaysSettled
  <2> QED
    BY <2>1, <2>3, <2>6, <2>7 DEF V01Law
<1>9. ASSUME V01Done PROVE IsLog' /\ V01Law' /\ Verdict12
  <2>1. /\ pc = "reget" /\ resolved = << >> /\ pc' = "return" /\ r' = r /\ log' = log
    BY <1>9 DEF V01Done, Return, Step, sutvars
  <2>2. O1Settled /\ (Unblamed("O2") <=> O2Held)
    BY <1>a, <2>1, O2Settles DEF V01Law
  <2>3. BlankThenThrew \/ (Unblamed("O1") <=> O1Held)
    BY <2>2, O1Verdict
  <2>4. /\ Unblamed("O1")' <=> Unblamed("O1")
        /\ Unblamed("O2")' <=> Unblamed("O2")
        /\ BlankThenThrew' <=> BlankThenThrew
        /\ O1Held' <=> O1Held
        /\ O2Held' <=> O2Held
    BY <2>1
    DEF O1Held, O2Held, BlankThenThrew, Calls, Answer, Did, ParsedOK, Serialized, Unblamed, Free
  <2> QED
    BY <1>a, <2>1, <2>2, <2>3, <2>4 DEF V01Law, IsLog
<1> QED
  BY <1>1, <1>2, <1>3, <1>4, <1>5, <1>6, <1>7, <1>8, <1>9 DEF V01Next
-----------------------------------------------------------------------------
(* Before its first call nothing is settled about a law.                     *)
AtTheStart ==
  /\ r = NoResult /\ log = << >> /\ NoLocals
  /\ law \in Routine => pc = FirstStep(law)
  /\ law \in Routine \cup {"done"}

(* Nothing said, nothing to answer for.                                      *)
LEMMA StartIsLawful == AtTheStart => LawInv
<1> SUFFICES ASSUME AtTheStart PROVE LawInv
  OBVIOUS
<1>1. /\ Len(log) = 0 /\ IsLog /\ ~r.evaluated /\ i = 0
      /\ modes = << >> /\ parents = << >> /\ resolved = << >>
      /\ \A L : Unblamed(L)
  <2>1. log \in Seq({})
    BY DEF AtTheStart
  <2> QED
    BY <2>1 DEF AtTheStart, NoResult, NoLocals, IsLog, Unblamed, Free
<1>2. /\ law \in {"O1O2", "O3", "O4", "O7"} => pc = "parse"
      /\ law = "O5" => pc = "count"
      /\ law = "O6" => pc = "declared"
  BY DEF AtTheStart, FirstStep, Routine
<1>3. /\ law = "O1O2" => V01Law
      /\ law = "O3" => O3Law
  BY <1>1, <1>2 DEF V01Law, O3Law
<1>4. law = "O4" => O4Law
  BY <1>1, <1>2 DEF O4Law, Writing
<1>5. law = "O5" => O5Law
  BY <1>1, <1>2 DEF O5Law
<1>6. /\ law = "O6" => O6Law
      /\ law = "O7" => O7Law
  BY <1>1, <1>2 DEF O6Law, O7Law
<1>7. VerdictMatchesLaw
  BY <1>1 DEF VerdictMatchesLaw
<1> QED
  BY <1>1, <1>3, <1>4, <1>5, <1>6, <1>7 DEF LawInv

(* The first law starts there.                                               *)
LEMMA LawInit == Init => LawInv
<1> SUFFICES ASSUME Init PROVE AtTheStart
  BY StartIsLawful
<1>1. PICK p \in Plans : law = Head(p) /\ pc = FirstStep(Head(p))
  BY DEF Init, OracleInit
<1>2. Head(p) \in Routine
  <2>1. p \in Seq(Routine) /\ p # << >>
    BY PlansAssumption
  <2> QED
    BY <2>1
<1> QED
  BY <1>1, <1>2 DEF AtTheStart, Init, OracleInit, SutInit

(* So does each of the next.                                                 *)
LEMMA AddLawful == ASSUME TypeInv, Add PROVE LawInv'
<1>1. /\ r' = NoResult /\ log' = << >> /\ NoLocals'
      /\ law' = IF plan = << >> THEN "done" ELSE Head(plan)
      /\ pc' = IF plan = << >> THEN "return" ELSE FirstStep(Head(plan))
  BY DEF Add, NoLocals
<1>2. plan # << >> => Head(plan) \in Routine
  BY DEF TypeInv, TypeOK
<1>3. "done" \notin Routine
  BY DEF Routine
<1>4. AtTheStart'
  BY <1>1, <1>2, <1>3 DEF AtTheStart
<1> QED
  BY <1>4, StartIsLawful, PTL

(* Every step keeps the invariant.                                           *)
LEMMA LawStep == TypeInv /\ LawInv /\ [Next]_vars => LawInv'
<1> SUFFICES ASSUME TypeInv, LawInv, [Next]_vars PROVE LawInv'
  OBVIOUS
<1>1. CASE V01Next
  BY <1>1, V01Lawful
<1>2. CASE O3Next
  BY <1>2, O3Lawful
<1>3. CASE O4Next
  BY <1>3, O4Lawful
<1>4. CASE O5Next
  BY <1>4, O5Lawful
<1>5. CASE O6Next
  BY <1>5, O6Lawful
<1>6. CASE O7Next
  BY <1>6, O7Lawful
<1>7. CASE Add
  BY <1>7, AddLawful
<1>8. CASE UNCHANGED vars
  <2>1. /\ log' = log /\ law' = law /\ pc' = pc /\ r' = r /\ input' = input
        /\ canonical' = canonical /\ ptrs' = ptrs /\ resolved' = resolved
        /\ parents' = parents /\ i' = i /\ count' = count /\ modes' = modes
    BY <1>8 DEF vars, given, sutvars, control, locals
  <2>u. \A L : Unblamed(L)' <=> Unblamed(L)
    BY <2>1 DEF Unblamed, Free
  <2>k. /\ \A k : Answer(k)' = Answer(k)
        /\ \A k, op, arg : Did(k, op, arg)' <=> Did(k, op, arg)
        /\ \A k, t : (ParsedOK(k, t)' <=> ParsedOK(k, t))
                     /\ (Serialized(k, t)' <=> Serialized(k, t))
        /\ \A op : Calls(op)' = Calls(op)
    BY <2>1 DEF Did, Answer, ParsedOK, Serialized, Calls
  <2>2. (O1Held' <=> O1Held) /\ (O2Held' <=> O2Held) /\ (BlankThenThrew' <=> BlankThenThrew)
    BY <2>1 DEF O1Held, O2Held, BlankThenThrew, Did, Answer, ParsedOK, Serialized, Calls
  <2>3. V01Law' <=> V01Law
    <3>1. /\ O1Settled' <=> O1Settled
          /\ NoPointersYet' <=> NoPointersYet
          /\ PointersAt' = PointersAt
      BY <2>1, <2>2, <2>u
      DEF O1Settled, O1Failed, NoPointersYet, PointersAt, Answer
    <3>2. Listed' = Listed
      BY <2>1, <3>1 DEF Listed, Answer
    <3>3. PointersOnce' <=> PointersOnce
      BY <2>1, <3>1, <3>2 DEF PointersOnce
    <3>4. O2PhaseA' <=> O2PhaseA
      BY <2>1, <2>k, <2>u, <3>1, <3>2, <3>3 DEF O2PhaseA
    <3>5. O2Failed' <=> O2Failed
      BY <2>1, <2>k, <3>1, <3>2 DEF O2Failed
    <3>6. O2PhaseB' <=> O2PhaseB
      BY <2>1, <2>k, <2>u, <3>1, <3>2, <3>3, <3>5 DEF O2PhaseB
    <3> QED
      BY <2>1, <2>k, <2>u, <3>1, <3>4, <3>6 DEF V01Law
  <2>4. (O3Law' <=> O3Law) /\ (O3Held' <=> O3Held)
    BY <2>1 DEF O3Law, O3Walked, O3Failed, AskedAt, Asked, Agrees, Resolves, Compared,
                Enumeration, O3Held, Unblamed, Free, Answer
  <2>5. O4Law' <=> O4Law
    <3>1. Compared' = Compared /\ Enumeration' = Enumeration /\ Sets' = Sets
      BY <2>1 DEF Compared, Enumeration, Sets, Calls, Answer
    <3>2. /\ \A s : SetsBefore(s)' = SetsBefore(s)
          /\ \A m : ContainersTo(m)' = ContainersTo(m)
      BY <3>1 DEF SetsBefore, ContainersTo
    <3>3. /\ \A s : ValueSet(s)' = ValueSet(s)
          /\ \A n : ParentCount(n)' <=> ParentCount(n)
      BY <3>1, <3>2 DEF ValueSet, ParentCount
    <3>4. \A s, n : Wrote(s, n)' <=> Wrote(s, n)
      BY <2>1, <2>k, <3>1, <3>3 DEF Wrote, ReadBack
    <3>5. O4Failed' <=> O4Failed
      BY <2>1, <2>k, <3>1, <3>3 DEF O4Failed, ReadBack
    <3>6. O4Chosen0' <=> O4Chosen0
      BY <2>1, <3>1, <3>2 DEF O4Chosen0
    <3>7. O4Between' <=> O4Between
      BY <2>1, <3>1, <3>3, <3>4 DEF O4Between
    <3>8. \A n : O4Amid(n)' <=> O4Amid(n)
      BY <2>1, <3>1, <3>2, <3>3, <3>4 DEF O4Amid, FreshPointer
    <3> QED
      BY <2>1, <2>u, <3>1, <3>5, <3>6, <3>7, <3>8 DEF O4Law, Writing
  <2>6. O4Held' <=> O4Held
    BY <2>1 DEF O4Held, Calls, Answer, Did, Serialized
  <2>7. (O5Law' <=> O5Law) /\ (O5Held' <=> O5Held)
    BY <2>1 DEF O5Law, O5At, O5Captures, O5Failed, Checked, ModeAt, O5Held, Unblamed, Free,
                Did, Answer, ParsedOK, Serialized
  <2>8. (O6Law' <=> O6Law) /\ (O6Held' <=> O6Held) /\ (O7Law' <=> O7Law) /\ (O7Held' <=> O7Held)
    BY <2>1 DEF O6Law, O6Held, O7Law, O7Held, Unblamed, Free, Did, Answer, ParsedOK, Serialized
  <2>9. \A L \in Law : LawHeld(L)' <=> LawHeld(L)
    BY <2>2, <2>4, <2>6, <2>7, <2>8 DEF LawHeld, Law
  <2>10. VerdictMatchesLaw' <=> VerdictMatchesLaw
    <3>1. law # "done" => LawsOf(law) \subseteq Law
      BY DEF TypeInv, TypeOK, Routine, LawsOf, Law
    <3> QED
      BY <2>1, <2>2, <2>9, <3>1 DEF VerdictMatchesLaw, Calls
  <2> QED
    BY <2>1, <2>3, <2>4, <2>5, <2>7, <2>8, <2>10 DEF LawInv, IsLog
<1> QED
  BY <1>1, <1>2, <1>3, <1>4, <1>5, <1>6, <1>7, <1>8 DEF Next

(* A law that ran has the verdict its statement deserves on the calls that   *)
(* were made: it is blamed exactly when the answers break it, whatever the   *)
(* SUT answers or throws and however many pointers, parents and modes there  *)
(* are.  (CheckAll states the two cases left out.)                           *)
THEOREM VerdictCorrect == Spec => []VerdictMatchesLaw
<1>1. Init => TypeInv /\ LawInv
  BY TypeInit, LawInit
<1>2. TypeInv /\ LawInv /\ [Next]_vars => TypeInv' /\ LawInv'
  BY TypeStep, LawStep
<1>3. LawInv => VerdictMatchesLaw
  BY DEF LawInv
<1> QED
  BY <1>1, <1>2, <1>3, PTL DEF Spec

-----------------------------------------------------------------------------
(* Where a throw goes.  The calls up to the input parse may end a law that   *)
(* has nothing to check; of a later one something is left to see: a          *)
(* violation, a law taken back, or the blank text of the exception.          *)
UpToTheInput == {"count", "declared", "parse"}

ThrowSeen ==
  \/ r.violations # {}
  \/ pc = "return" /\ ~r.evaluated
  \/ law = "O1O2" /\ Len(log) >= 4 /\ BlankThenThrew

ThrowInv ==
  /\ ThrewLater => ThrowSeen
  /\ pc \in UpToTheInput => \A k \in DOMAIN log : log[k].op # "parse"

(* What is seen of a throw stays in sight: no violation is lost, and the     *)
(* answers already in the log stay there.                                    *)
LEMMA StaysSeen ==
  ASSUME ThrowSeen, pc # "return", law' = law, r.violations \subseteq r'.violations,
         Len(log) \in Nat, Len(log') \in Nat, Len(log') >= Len(log),
         \A k \in 1 .. Len(log) : log'[k] = log[k]
  PROVE  ThrowSeen'
<1>1. CASE r.violations # {}
  BY <1>1 DEF ThrowSeen
<1>2. CASE law = "O1O2" /\ Len(log) >= 4 /\ BlankThenThrew
  <2>1. log'[2] = log[2] /\ log'[3] = log[3] /\ log'[4] = log[4] /\ Len(log') >= 4
    BY <1>2
  <2> QED
    BY <1>2, <2>1 DEF ThrowSeen, BlankThenThrew, Answer
<1> QED
  BY <1>1, <1>2 DEF ThrowSeen

(* A call of a routine keeps the invariant if, thrown, it is seen to.        *)
LEMMA Heard ==
  ASSUME ThrowInv, Judged, pc # "return", NEW op, NEW arg, NEW ans, Recorded(op, arg, ans),
         pc' \in UpToTheInput => op # "parse" /\ pc \in UpToTheInput,
         ans = Threw /\ pc \notin UpToTheInput => ThrowSeen'
  PROVE  ThrowInv'
<1>1. law' = law /\ r.violations \subseteq r'.violations
  BY DEF Judged, Within
<1>2. ASSUME ThrewLater' PROVE ThrowSeen'
  <2>1. PICK k \in DOMAIN log', j \in DOMAIN log' :
          j < k /\ log'[j].op = "parse" /\ log'[k].ans = Threw
    BY <1>2 DEF ThrewLater, LaterCalls, Calls
  <2>2. j \in 1 .. Len(log) /\ log[j].op = "parse" /\ j \in DOMAIN log
    BY <2>1 DEF Recorded
  <2>3. pc \notin UpToTheInput
    BY <2>2 DEF ThrowInv
  <2>4. CASE k = Len(log) + 1
    BY <2>1, <2>3, <2>4 DEF Recorded
  <2>5. CASE k # Len(log) + 1
    <3>1. k \in DOMAIN log /\ log[k].ans = Threw
      BY <2>1, <2>5 DEF Recorded
    <3>2. ThrowSeen
      BY <2>1, <2>2, <3>1 DEF ThrowInv, ThrewLater, LaterCalls, Calls
    <3> QED
      BY <1>1, <3>2, StaysSeen DEF Recorded
  <2> QED
    BY <2>4, <2>5
<1>3. ASSUME pc' \in UpToTheInput PROVE \A k \in DOMAIN log' : log'[k].op # "parse"
  BY <1>3 DEF ThrowInv, Recorded
<1> QED
  BY <1>2, <1>3 DEF ThrowInv

(* A step without a call has nothing to hear.                                *)
LEMMA Silent ==
  ASSUME ThrowInv, Judged, pc # "return", IsLog, log' = log, pc' \notin UpToTheInput
  PROVE  ThrowInv'
<1>1. law' = law /\ r.violations \subseteq r'.violations
  BY DEF Judged, Within
<1>2. Len(log) \in Nat
  BY DEF IsLog
<1>3. ThrewLater' <=> ThrewLater
  BY DEF ThrewLater, LaterCalls, Calls
<1> QED
  BY <1>1, <1>2, <1>3, StaysSeen DEF ThrowInv

(* A throw is seen when the law is blamed for it.                            *)
LEMMA BlameSeen ==
  ASSUME r \in Result
  PROVE  \A L, what, p : r' = Blamed(L, what, p) => ThrowSeen'
<1>1. \A L, what, p : Blamed(L, what, p).violations # {}
  BY DEF Result, Blamed
<1>2. ASSUME NEW b, r' = b, b.violations # {} PROVE ThrowSeen'
  BY <1>2 DEF ThrowSeen
<1> QED
  BY <1>1, <1>2

(* The throw of the input parse says that there is nothing to check.         *)
LEMMA InputHeard ==
  ASSUME LawInv, ThrowInv, Judged, NEW rt, NEW st, NEW ans \in ParseAnswers,
         AcceptedInput(rt, st, "serialize", ans)
  PROVE  ThrowInv'
<1>1. Recorded("parse", input, ans) /\ pc = "parse"
  BY CallsRecorded DEF LawInv, AcceptedInput, Step
<1>2. pc' \in {"serialize", "return"}
  BY Sentinels DEF AcceptedInput, ParseAnswers, Skip, Return
<1> QED
  BY <1>1, <1>2, Heard DEF UpToTheInput

(* O7: a throw of either serialize(), or of the lazy parse, is blamed.       *)
LEMMA O7Heard == ASSUME TypeInv, LawInv, ThrowInv, Judged, O7Next PROVE ThrowInv'
<1>a. r \in Result /\ IsLog /\ canonical # Threw
  BY Sentinels DEF TypeInv, TypeOK, LawInv
<1>1. ASSUME NEW ans \in ParseAnswers, O7Strict(ans) PROVE ThrowInv'
  BY <1>1, InputHeard DEF O7Strict
<1>2. ASSUME NEW ans, O7StrictText(ans) PROVE ThrowInv'
  <2>1. /\ Recorded("serialize", NoText, ans) /\ pc = "serialize"
        /\ pc' \in {"lazy", "return"}
    BY <1>2, <1>a, CallsRecorded DEF O7StrictText, Step, Return
  <2>2. ans = Threw => r' = Blamed("O7", "serialize threw", NoPointer)
    BY <1>2 DEF O7StrictText, Return
  <2> QED
    BY <1>a, <2>1, <2>2, BlameSeen, Heard DEF UpToTheInput
<1>3. ASSUME NEW ans \in ParseAnswers, O7Lazy(ans) PROVE ThrowInv'
  <2>1. /\ Recorded("parse", input, ans) /\ pc = "lazy"
        /\ pc' \in {"lazytext", "return"}
    BY <1>3, <1>a, CallsRecorded, Sentinels DEF O7Lazy, ParseAnswers, Step, Return
  <2>2. ans = Threw => r' = Blamed("O7", "lazy threw", NoPointer)
    BY <1>3, Sentinels DEF O7Lazy, Return
  <2> QED
    BY <1>a, <2>1, <2>2, BlameSeen, Heard DEF UpToTheInput
<1>4. ASSUME NEW ans, O7LazyText(ans) PROVE ThrowInv'
  <2>1. Recorded("serialize", NoText, ans) /\ pc = "lazytext" /\ pc' = "return"
    BY <1>4, <1>a, CallsRecorded DEF O7LazyText, Step, Return
  <2>2. ans = Threw => r' = Blamed("O7", "serialize threw", NoPointer)
    BY <1>4, <1>a DEF O7LazyText, Return
  <2> QED
    BY <1>a, <2>1, <2>2, BlameSeen, Heard DEF UpToTheInput
<1> QED
  BY <1>1, <1>2, <1>3, <1>4 DEF O7Next

(* O6: of a canonical text whose reparse throws, nothing is said, and the    *)
(* law is not counted as run.                                                *)
LEMMA O6Heard == ASSUME TypeInv, LawInv, ThrowInv, Judged, O6Next PROVE ThrowInv'
<1>a. r \in Result /\ IsLog
  BY DEF TypeInv, TypeOK, LawInv
<1>1. ASSUME NEW ans, O6Declared(ans) PROVE ThrowInv'
  <2>1. /\ Recorded("preserves_number_text", NoText, ans) /\ pc = "declared"
        /\ pc' \in {"parse", "return"}
    BY <1>1, <1>a, CallsRecorded DEF O6Declared, Step, Return, Skip
  <2> QED
    BY <2>1, Heard DEF UpToTheInput
<1>2. ASSUME NEW ans \in ParseAnswers, O6Parse(ans) PROVE ThrowInv'
  BY <1>2, InputHeard DEF O6Parse
<1>3. ASSUME NEW ans, O6Serialize(ans) PROVE ThrowInv'
  <2>1. /\ Recorded("serialize", NoText, ans) /\ pc = "serialize"
        /\ pc' \in {"reparse", "return"}
    BY <1>3, <1>a, CallsRecorded DEF O6Serialize, Step, Return
  <2>2. ans = Threw => r' = Blamed("O6", "serialize threw", NoPointer)
    BY <1>3 DEF O6Serialize, Return
  <2> QED
    BY <1>a, <2>1, <2>2, BlameSeen, Heard DEF UpToTheInput
<1>4. ASSUME NEW ans, O6Reparse(ans) PROVE ThrowInv'
  <2>1. /\ Recorded("parse", canonical, ans) /\ pc = "reparse" /\ law = "O6"
        /\ pc' \in {"again", "return"}
    BY <1>4, <1>a, CallsRecorded DEF O6Reparse, Step, Return, Skip
  <2>2. ~r.evaluated
    BY <2>1 DEF LawInv, O6Law
  <2>3. ASSUME ans = Threw PROVE pc' = "return" /\ ~r'.evaluated
    BY <1>4, <1>a, <2>2, <2>3, Sentinels DEF O6Reparse, Return, Skip, Result
  <2> QED
    BY <2>1, <2>3, Heard DEF UpToTheInput, ThrowSeen
<1>5. ASSUME NEW ans, O6Again(ans) PROVE ThrowInv'
  <2>1. Recorded("serialize", NoText, ans) /\ pc = "again" /\ pc' = "return"
    BY <1>5, <1>a, CallsRecorded DEF O6Again, Step, Return
  <2>2. ans = Threw => r' = Blamed("O6", "serialize threw", NoPointer)
    BY <1>5 DEF O6Again, Return
  <2> QED
    BY <1>a, <2>1, <2>2, BlameSeen, Heard DEF UpToTheInput
<1> QED
  BY <1>1, <1>2, <1>3, <1>4, <1>5 DEF O6Next

(* O5: a throw of any mode, captured or repeated, is blamed.                 *)
LEMMA O5Heard == ASSUME TypeInv, LawInv, ThrowInv, Judged, O5Next PROVE ThrowInv'
<1>a. r \in Result /\ IsLog /\ modes \in Seq(Text)
  BY DEF TypeInv, TypeOK, LawInv
<1>1. ASSUME NEW ans, O5Count(ans) PROVE ThrowInv'
  <2>1. /\ Recorded("serialize_mode_count", NoText, ans) /\ pc = "count"
        /\ pc' \in {"parse", "return"}
    BY <1>1, <1>a, CallsRecorded DEF O5Count, Step, Return, Skip
  <2> QED
    BY <2>1, Heard DEF UpToTheInput
<1>2. ASSUME NEW ans \in ParseAnswers, O5Parse(ans) PROVE ThrowInv'
  BY <1>2, InputHeard DEF O5Parse
<1>3. ASSUME NEW ans, O5Serialize(ans) PROVE ThrowInv'
  <2>1. /\ Recorded("serialize", NoText, ans) /\ pc = "serialize"
        /\ pc' \in {"capture", "return"}
    BY <1>3, <1>a, CallsRecorded DEF O5Serialize, Step, Return
  <2>2. ans = Threw => r' = Blamed("O5", "serialize threw", NoPointer)
    BY <1>3 DEF O5Serialize, Return
  <2> QED
    BY <1>a, <2>1, <2>2, BlameSeen, Heard DEF UpToTheInput
<1>4. ASSUME NEW ans, O5Capture(ans) PROVE ThrowInv'
  <2>1. /\ Recorded("serialize_mode", Len(modes), ans) /\ pc = "capture"
        /\ pc' \in {"capture", "return"}
    BY <1>4, <1>a, CallsRecorded DEF O5Capture, Step, Return
  <2>2. ans = Threw => r' = Blamed("O5", "mode threw", NoPointer)
    BY <1>4 DEF O5Capture, Return
  <2> QED
    BY <1>a, <2>1, <2>2, BlameSeen, Heard DEF UpToTheInput
<1>5. O5Captured => ThrowInv'
  <2>1. O5Captured => log' = log /\ pc = "capture" /\ pc' = "reparse"
    BY DEF O5Captured, Step, sutvars
  <2> QED
    BY <1>a, <2>1, Silent DEF UpToTheInput
<1>6. ASSUME NEW ans, O5Reparse(ans) PROVE ThrowInv'
  <2>1. /\ Recorded("parse", Once, ans) /\ pc = "reparse"
        /\ pc' \in {"same", "reparse"}
    BY <1>6, <1>a, CallsRecorded DEF O5Reparse, Step, NextMode
  <2>2. ans = Threw => r' = Blamed("O5", "does not reparse", NoPointer)
    BY <1>6, Sentinels DEF O5Reparse
  <2> QED
    BY <1>a, <2>1, <2>2, BlameSeen, Heard DEF UpToTheInput
<1>7. ASSUME NEW ans, O5Same(ans) PROVE ThrowInv'
  <2>1. /\ Recorded("serialize", NoText, ans) /\ pc = "same"
        /\ pc' \in {"twice", "return"}
    BY <1>7, <1>a, CallsRecorded DEF O5Same, Step, Return
  <2>2. ans = Threw => r' = Blamed("O5", "serialize threw", NoPointer)
    BY <1>7 DEF O5Same, Return
  <2> QED
    BY <1>a, <2>1, <2>2, BlameSeen, Heard DEF UpToTheInput
<1>8. ASSUME NEW ans, O5Twice(ans) PROVE ThrowInv'
  <2>1. /\ Recorded("serialize_mode", i, ans) /\ pc = "twice" /\ law = "O5"
        /\ pc' = "reparse"
    BY <1>8, <1>a, CallsRecorded DEF O5Twice, Step, NextMode
  <2>2. r.violations \subseteq r'.violations
    BY DEF Judged
  <2>3. CASE ~Unblamed("O5")
    <3>1. r.violations # {}
      BY <2>3 DEF Unblamed, Free
    <3> QED
      BY <2>1, <2>2, <3>1, Heard DEF UpToTheInput, ThrowSeen
  <2>4. CASE Unblamed("O5")
    <3>1. i \in Nat /\ Len(modes) \in Nat /\ i < Len(modes)
      <4>1. O5At(2) /\ i \in Nat /\ count \in Nat /\ Len(modes) \in Nat
        BY <2>1, <2>4, ConstantTypes DEF LawInv, O5Law, TypeInv, TypeOK
      <4> QED
        BY <4>1 DEF O5At
    <3>2. Once \in Text
      BY <1>a, <3>1 DEF Once
    <3>3. ans = Threw => r' = Blamed("O5", "mode threw", NoPointer)
      BY <1>8, <3>2, Sentinels DEF O5Twice
    <3> QED
      BY <1>a, <2>1, <3>3, BlameSeen, Heard DEF UpToTheInput
  <2> QED
    BY <2>3, <2>4
<1>9. O5Done => ThrowInv'
  <2>1. O5Done => log' = log /\ pc = "reparse" /\ pc' = "return"
    BY DEF O5Done, Step, Return, sutvars
  <2> QED
    BY <1>a, <2>1, Silent DEF UpToTheInput
<1> QED
  BY <1>1, <1>2, <1>3, <1>4, <1>5, <1>6, <1>7, <1>8, <1>9 DEF O5Next

(* O3: a throw of get() is a disagreement.                                   *)
LEMMA O3Heard == ASSUME TypeInv, LawInv, ThrowInv, Judged, O3Next PROVE ThrowInv'
<1>a. r \in Result /\ IsLog
  BY DEF TypeInv, TypeOK, LawInv
<1>1. ASSUME NEW ans \in ParseAnswers, O3Parse(ans) PROVE ThrowInv'
  BY <1>1, InputHeard DEF O3Parse
<1>2. ASSUME NEW ans, O3Serialize(ans) PROVE ThrowInv'
  <2>1. /\ Recorded("serialize", NoText, ans) /\ pc = "serialize"
        /\ pc' \in {"pointers", "return"}
    BY <1>2, <1>a, CallsRecorded DEF O3Serialize, Step, Return, Skip
  <2>2. ans = Threw => r' = Blamed("O3", "serialize threw", NoPointer)
    BY <1>2 DEF O3Serialize, Return
  <2> QED
    BY <1>a, <2>1, <2>2, BlameSeen, Heard DEF UpToTheInput
<1>3. ASSUME NEW ans, O3Pointers(ans) PROVE ThrowInv'
  <2>1. /\ Recorded("pointers", NoText, ans) /\ pc = "pointers"
        /\ pc' \in {"walk", "return"}
    BY <1>3, <1>a, CallsRecorded DEF O3Pointers, Enumerated, Step, Return
  <2>2. ans = Threw => r' = Blamed("O3", "pointers threw", NoPointer)
    BY <1>3 DEF O3Pointers, Enumerated, Return
  <2> QED
    BY <1>a, <2>1, <2>2, BlameSeen, Heard DEF UpToTheInput
<1>4. O3PassOver \/ O3Unresolved => ThrowInv'
  <2>1. O3PassOver \/ O3Unresolved => log' = log /\ pc = "walk" /\ pc' = "walk"
    BY DEF O3PassOver, O3Unresolved, NextPointer, Step, sutvars
  <2> QED
    BY <1>a, <2>1, Silent DEF UpToTheInput
<1>5. ASSUME NEW ans, O3Get(ans) PROVE ThrowInv'
  <2>1. /\ Recorded("get", Head(ptrs), ans) /\ pc = "walk" /\ pc' = "walk"
    BY <1>5, <1>a, CallsRecorded DEF O3Get, NextPointer, Step
  <2>p. PICK p : p = Head(ptrs)
    OBVIOUS
  <2>2. ans = Threw => r' = Blamed("O3", GetFault(ans), p)
    BY <1>5, <2>p, Sentinels DEF O3Get
  <2> QED
    BY <1>a, <2>1, <2>2, BlameSeen, Heard DEF UpToTheInput
<1>6. O3Done => ThrowInv'
  <2>1. O3Done => log' = log /\ pc = "walk" /\ pc' = "return"
    BY DEF O3Done, Step, Return, sutvars
  <2> QED
    BY <1>a, <2>1, Silent DEF UpToTheInput
<1> QED
  BY <1>1, <1>2, <1>3, <1>4, <1>5, <1>6 DEF O3Next

(* O4: a throw under a parent is blamed, and restore() is only asked for     *)
(* after a blame, so that its own throws have nothing to add.                *)
LEMMA O4Heard == ASSUME TypeInv, LawInv, ThrowInv, Judged, O4Next PROVE ThrowInv'
<1>a. r \in Result /\ IsLog /\ r.violations \subseteq r'.violations
  BY DEF TypeInv, TypeOK, LawInv, Judged
<1>1. ASSUME NEW ans \in ParseAnswers, O4Parse(ans) PROVE ThrowInv'
  BY <1>1, InputHeard DEF O4Parse
<1>2. ASSUME NEW ans, O4Serialize(ans) PROVE ThrowInv'
  <2>1. /\ Recorded("serialize", NoText, ans) /\ pc = "serialize"
        /\ pc' \in {"pointers", "return"}
    BY <1>2, <1>a, CallsRecorded DEF O4Serialize, Step, Return, Skip
  <2>2. ans = Threw => r' = Blamed("O4", "serialize threw", NoPointer)
    BY <1>2 DEF O4Serialize, Return
  <2> QED
    BY <1>a, <2>1, <2>2, BlameSeen, Heard DEF UpToTheInput
<1>3. ASSUME NEW ans, O4Pointers(ans) PROVE ThrowInv'
  <2>1. /\ Recorded("pointers", NoText, ans) /\ pc = "pointers"
        /\ pc' \in {"choose", "return"}
    BY <1>3, <1>a, CallsRecorded DEF O4Pointers, Enumerated, Step, Return
  <2>2. ans = Threw => r' = Blamed("O4", "pointers threw", NoPointer)
    BY <1>3 DEF O4Pointers, Enumerated, Return
  <2> QED
    BY <1>a, <2>1, <2>2, BlameSeen, Heard DEF UpToTheInput
<1>4. O4Choose \/ O4Chosen \/ O4Done => ThrowInv'
  <2>1. O4Choose \/ O4Chosen \/ O4Done =>
          /\ log' = log /\ pc \in {"choose", "write"}
          /\ pc' \in {"choose", "write", "return"}
    BY DEF O4Choose, O4Chosen, O4Done, Step, Return, Skip, sutvars
  <2> QED
    BY <1>a, <2>1, Silent DEF UpToTheInput
<1>p. PICK fresh : fresh = FreshPointer
  OBVIOUS
<1>5. ASSUME NEW ans \in WriteAnswers, O4Set(ans) PROVE ThrowInv'
  <2>1. /\ Recorded("set", fresh, ans) /\ pc = "write"
        /\ pc' \in {"get", "restore", "return"}
    BY <1>5, <1>a, <1>p, CallsRecorded, Sentinels DEF O4Set, WriteAnswers, Step, Return
  <2>2. ans = Threw => r' = Blamed("O4", "set threw", fresh)
    BY <1>5, <1>p, Sentinels DEF O4Set
  <2> QED
    BY <1>a, <2>1, <2>2, BlameSeen, Heard DEF UpToTheInput
<1>6. ASSUME NEW ans, O4Get(ans) PROVE ThrowInv'
  <2>1. /\ Recorded("get", fresh, ans) /\ pc = "get"
        /\ pc' \in {"remove", "restore"}
    BY <1>6, <1>a, <1>p, CallsRecorded DEF O4Get, Step
  <2>2. ans = Threw => r' = Blamed("O4", "did not take", fresh)
    BY <1>6, <1>p, Sentinels DEF O4Get
  <2> QED
    BY <1>a, <2>1, <2>2, BlameSeen, Heard DEF UpToTheInput
<1>7. ASSUME NEW ans, O4Remove(ans) PROVE ThrowInv'
  <2>1. /\ Recorded("remove", fresh, ans) /\ pc = "remove"
        /\ pc' \in {"after", "restore"}
    BY <1>7, <1>a, <1>p, CallsRecorded DEF O4Remove, Step
  <2>2. ans = Threw => r' = Blamed("O4", "remove threw", fresh)
    BY <1>7, <1>p, Sentinels DEF O4Remove
  <2> QED
    BY <1>a, <2>1, <2>2, BlameSeen, Heard DEF UpToTheInput
<1>8. ASSUME NEW ans, O4After(ans) PROVE ThrowInv'
  <2>1. /\ Recorded("serialize", NoText, ans) /\ pc = "after"
        /\ pc' \in {"write", "restore", "return"}
    BY <1>8, <1>a, CallsRecorded DEF O4After, NextParent, Step, Return
  <2>2. canonical # Threw
    BY Sentinels DEF TypeInv, TypeOK
  <2>3. ans = Threw => r' = Blamed("O4", "serialize threw", NoPointer)
    BY <1>8, <2>2 DEF O4After, Return
  <2> QED
    BY <1>a, <2>1, <2>3, BlameSeen, Heard DEF UpToTheInput
<1>9. pc \in {"restore", "reserialize"} /\ law = "O4" => ThrowSeen'
  <2>1. pc \in {"restore", "reserialize"} /\ law = "O4" => r.violations # {}
    BY DEF LawInv, O4Law, Unblamed, Free
  <2> QED
    BY <1>a, <2>1 DEF ThrowSeen
<1>10. ASSUME NEW ans, O4Restore(ans) PROVE ThrowInv'
  <2>1. /\ Recorded("parse", canonical, ans) /\ pc = "restore" /\ law = "O4"
        /\ pc' \in {"reserialize", "return"}
    BY <1>10, <1>a, CallsRecorded DEF O4Restore, Step, Return
  <2> QED
    BY <1>9, <2>1, Heard DEF UpToTheInput
<1>11. ASSUME NEW ans, O4Reserialize(ans) PROVE ThrowInv'
  <2>1. /\ Recorded("serialize", NoText, ans) /\ pc = "reserialize" /\ law = "O4"
        /\ pc' \in {"write", "return"}
    BY <1>11, <1>a, CallsRecorded DEF O4Reserialize, NextParent, Step, Return
  <2> QED
    BY <1>9, <2>1, Heard DEF UpToTheInput
<1> QED
  BY <1>1, <1>2, <1>3, <1>4, <1>5, <1>6, <1>7, <1>8, <1>10, <1>11 DEF O4Next

(* O1 and O2: only the second serialize() can throw unseen, as blank as the  *)
(* text it is compared with.                                                 *)
LEMMA V01Heard == ASSUME TypeInv, LawInv, ThrowInv, Judged, V01Next PROVE ThrowInv'
<1>a. r \in Result /\ IsLog
  BY DEF TypeInv, TypeOK, LawInv
<1>1. ASSUME NEW ans, V01Parse(ans) PROVE ThrowInv'
  <2>1. /\ Recorded("parse", input, ans) /\ pc = "parse"
        /\ pc' \in {"serialize", "return"}
    BY <1>1, <1>a, CallsRecorded DEF V01Parse, Step, Return
  <2> QED
    BY <2>1, Heard DEF UpToTheInput
<1>2. ASSUME NEW ans, V01Serialize(ans) PROVE ThrowInv'
  <2>1. /\ Recorded("serialize", NoText, ans) /\ pc = "serialize"
        /\ pc' \in {"reparse", "return"}
    BY <1>2, <1>a, CallsRecorded DEF V01Serialize, Step, Return
  <2>2. ans = Threw => r' = Blamed("O1", "serialize threw", NoPointer)
    BY <1>2 DEF V01Serialize, Return
  <2> QED
    BY <1>a, <2>1, <2>2, BlameSeen, Heard DEF UpToTheInput
<1>3. ASSUME NEW ans, V01Reparse(ans) PROVE ThrowInv'
  <2>1. /\ Recorded("parse", canonical, ans) /\ pc = "reparse"
        /\ pc' \in {"again", "pointers"}
    BY <1>3, <1>a, CallsRecorded DEF V01Reparse, Step
  <2>2. ans = Threw => r' = Blamed("O1", "does not reparse", NoPointer)
    BY <1>3, Sentinels DEF V01Reparse
  <2> QED
    BY <1>a, <2>1, <2>2, BlameSeen, Heard DEF UpToTheInput
<1>4. ASSUME NEW ans, V01Again(ans) PROVE ThrowInv'
  <2>1. /\ Recorded("serialize", NoText, ans) /\ pc = "again" /\ pc' = "pointers"
        /\ law = "O1O2" /\ law' = "O1O2"
    BY <1>4, <1>a, CallsRecorded DEF V01Again, Within, Step
  <2>2. Len(log) = 3 /\ Answer(2) = canonical /\ Answer(3) = "accepted"
    BY <2>1 DEF LawInv, V01Law, Serialized, ParsedOK
  <2>3. ASSUME ans = Threw PROVE ThrowSeen'
    <3>1. CASE canonical = EmptyText
      <4>1. /\ Len(log') = 4 /\ Answer(2)' = EmptyText /\ Answer(3)' = "accepted"
            /\ Answer(4)' = Threw
        BY <2>1, <2>2, <2>3, <3>1 DEF Recorded, Answer
      <4> QED
        BY <2>1, <4>1 DEF ThrowSeen, BlankThenThrew
    <3>2. CASE canonical # EmptyText
      <4>1. r' = Blamed("O1", "not byte-identical", NoPointer)
        BY <1>4, <2>3, <3>2 DEF V01Again
      <4> QED
        BY <1>a, <4>1, BlameSeen
    <3> QED
      BY <3>1, <3>2
  <2> QED
    BY <2>1, <2>3, Heard DEF UpToTheInput
<1>5. ASSUME NEW ans, V01Pointers(ans) PROVE ThrowInv'
  <2>1. /\ Recorded("pointers", NoText, ans) /\ pc = "pointers"
        /\ pc' \in {"walk", "return"}
    BY <1>5, <1>a, CallsRecorded DEF V01Pointers, Step, Return
  <2>2. ans = Threw => r' = Blamed("O2", "pointers threw", NoPointer)
    BY <1>5 DEF V01Pointers, Return
  <2> QED
    BY <1>a, <2>1, <2>2, BlameSeen, Heard DEF UpToTheInput
<1>6. ASSUME NEW ans, V01Get(ans) PROVE ThrowInv'
  <2>p. PICK p : p = Head(ptrs)
    OBVIOUS
  <2>1. Recorded("get", p, ans) /\ pc = "walk" /\ pc' = "walk"
    BY <1>6, <1>a, <2>p, CallsRecorded DEF V01Get, Step
  <2>2. ans = Threw => r' = Blamed("O2", "get threw", p)
    BY <1>6, <2>p, Sentinels DEF V01Get
  <2> QED
    BY <1>a, <2>1, <2>2, BlameSeen, Heard DEF UpToTheInput
<1>7. V01PhaseB \/ V01Done => ThrowInv'
  <2>1. V01PhaseB \/ V01Done =>
          /\ log' = log /\ pc \in {"walk", "reget"} /\ pc' \in {"reget", "return"}
    BY DEF V01PhaseB, V01Done, Step, Return, sutvars
  <2> QED
    BY <1>a, <2>1, Silent DEF UpToTheInput
<1>8. ASSUME NEW ans, V01GetReparse(ans) PROVE ThrowInv'
  <2>p. PICK p : p = Head(resolved).ptr
    OBVIOUS
  <2>t. PICK t : t = Head(resolved).text
    OBVIOUS
  <2>1. Recorded("parse", t, ans) /\ pc = "reget" /\ pc' = "reget"
    BY <1>8, <1>a, <2>t, CallsRecorded DEF V01GetReparse, Step
  <2>2. ans = Threw => r' = Blamed("O2", "does not reparse", p)
    BY <1>8, <2>p, Sentinels DEF V01GetReparse
  <2> QED
    BY <1>a, <2>1, <2>2, BlameSeen, Heard DEF UpToTheInput
<1> QED
  BY <1>1, <1>2, <1>3, <1>4, <1>5, <1>6, <1>7, <1>8 DEF V01Next

(* An empty log has no throw to see.                                         *)
LEMMA NothingThrown == log = << >> => ThrowInv
<1> SUFFICES ASSUME log = << >> PROVE ThrowInv
  OBVIOUS
<1>1. DOMAIN log = {}
  OBVIOUS
<1> QED
  BY <1>1 DEF ThrowInv, ThrewLater, LaterCalls, Calls

(* Every step keeps the invariant.                                           *)
LEMMA ThrowStep == TypeInv /\ SkipInv /\ LawInv /\ ThrowInv /\ [Next]_vars => ThrowInv'
<1> SUFFICES ASSUME TypeInv, SkipInv, LawInv, ThrowInv, [Next]_vars PROVE ThrowInv'
  OBVIOUS
<1>1. CASE Add
  <2>1. log' = << >>
    BY <1>1 DEF Add
  <2>2. DOMAIN log' = {}
    BY <2>1
  <2> QED
    BY <2>2 DEF ThrowInv, ThrewLater, LaterCalls, Calls
<1>2. CASE Next /\ ~Add
  <2>1. Judged
    BY <1>2, RoutineJudged
  <2> QED
    BY <1>2, <2>1, V01Heard, O3Heard, O4Heard, O5Heard, O6Heard, O7Heard DEF Next
<1>3. CASE UNCHANGED vars
  <2>1. log' = log /\ law' = law /\ pc' = pc /\ r' = r
    BY <1>3 DEF vars, sutvars, control
  <2> QED
    BY <2>1 DEF ThrowInv, ThrowSeen, BlankThenThrew, ThrewLater, LaterCalls, Calls, Answer
<1> QED
  BY <1>1, <1>2, <1>3

(* No throw turns into a pass, with the one exception the code has: of every *)
(* exception after the input parse, in any call of the seven laws, a law     *)
(* that says it ran has a violation to show, unless it was the second        *)
(* serialize() and the first one had answered with the empty text.           *)
THEOREM OnlyOneThrowPasses == Spec => []OnlyBlankThrowPasses
<1>1. Init => TypeInv /\ SkipInv /\ LawInv /\ ThrowInv
  <2>1. Init => log = << >>
    BY DEF Init, SutInit
  <2> QED
    BY <2>1, TypeInit, SkipInit, LawInit, NothingThrown
<1>2. (TypeInv /\ SkipInv /\ LawInv /\ ThrowInv) /\ [Next]_vars =>
        (TypeInv /\ SkipInv /\ LawInv /\ ThrowInv)'
  BY TypeStep, SkipStep, LawStep, ThrowStep
<1>3. ThrowInv => OnlyBlankThrowPasses
  BY DEF ThrowInv, ThrowSeen, OnlyBlankThrowPasses, ThrowIsNoPass
<1> QED
  BY <1>1, <1>2, <1>3, PTL DEF Spec
=============================================================================
