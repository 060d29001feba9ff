------------------------ MODULE NoFalseAlarm_proofs ------------------------
(***************************************************************************)
(* No law of the oracle blames a SUT that keeps the contract, whatever the *)
(* documents, the plan of calls and the bounds are.                        *)
(*                                                                         *)
(* NoFalseAlarm is not inductive: that a comparison comes out right rests  *)
(* on what the routine compares with, what the SUT holds by now, and what  *)
(* was collected under an earlier call.  AlarmInv says so, step by step.   *)
(***************************************************************************)
EXTENDS CheckAll_proofs

Doc == Reads[input]
StrictOf == IF law = "O7" THEN TRUE ELSE strict

\* The steps before a document is held, before its text is known, and after the end.
Unparsed == {"parse", "count", "declared", "return"}

(* What a routine has collected is what the contract says of the document.   *)
Resolves == \A k \in DOMAIN ptrs : At[Doc][ptrs[k]] # NoValue
TextsAccepted == \A k \in DOMAIN resolved : Accepts(resolved[k].text, strict)
GoodParent(q) ==
  /\ q.ptr \notin Dups[Canon[Doc]]
  /\ At[Doc][q.ptr] # NoValue
  /\ q.node = RefAt[Ref[Canon[Doc]]][q.ptr]
ParentsGood == \A k \in DOMAIN parents : GoodParent(parents[k])
ModesGood == \A k \in DOMAIN modes : modes[k] = ModeText[k - 1][Doc]
Collected == Resolves /\ TextsAccepted /\ ParentsGood /\ ModesGood

(* What the step at hand relies on.                                          *)
DocAccepted == pc \notin Unparsed => Accepts(input, StrictOf)
TextKnown == pc \notin Unparsed \cup {"serialize"} => canonical = Canon[Doc]
DocHeld ==
  pc \in {"serialize", "again", "pointers", "choose", "write", "after", "capture",
          "same", "twice", "lazytext", "walk"}
    => model = Holding(Doc)
ReferenceReads ==
  law \in {"O3", "O4"} /\ pc \notin Unparsed \cup {"serialize"} => Ref[canonical] # NoValue
ChildWritten ==
  pc \in {"get", "remove"} =>
    /\ offers.set
    /\ model = [doc |-> Doc, gone |-> FALSE,
                extra |-> {[ptr |-> FreshPointer, val |-> Reads[SetValue]]}]
NeverRestores == pc \notin {"restore", "reserialize"}
NumbersPromised ==
  law = "O6" /\ pc \notin {"declared", "return"} =>
    ~comments /\ input \notin TwiceKeyed /\ offers.numbers
ModeLeft == pc \in {"same", "twice"} => i < Len(modes)
Here ==
  /\ DocAccepted /\ TextKnown /\ DocHeld /\ ReferenceReads /\ ChildWritten
  /\ NeverRestores /\ NumbersPromised /\ ModeLeft

Clean == rep.violations = {} /\ r.violations = {}
Promise == offers.numbers => TokensSurvive(input)
AlarmInv == Promise /\ (honest /\ WritePathWhole => Clean /\ Collected /\ Here)

-----------------------------------------------------------------------------
(* Serializations of an accepted document, and of its parts, are accepted.   *)
LEMMA AcceptedDoc ==
  ASSUME input \in Text, NEW st, Accepts(input, st)
  PROVE  Doc \in Value /\ Canon[Doc] \in Text /\ Accepts(Canon[Doc], st)
         /\ Reads[Canon[Doc]] = Doc
BY ConstantTypes, Sentinels, RoundTrips, StrictnessInherited DEF Accepts, Doc

(* The parts of an accepted document serialize to accepted texts: O2's       *)
(* phase B.                                                                  *)
LEMMA PartAccepted ==
  ASSUME input \in Text, NEW st, Accepts(input, st), NEW p \in Pointer, At[Doc][p] # NoValue
  PROVE  /\ At[Doc][p] \in Value
         /\ Canon[At[Doc][p]] \in Text
         /\ Accepts(Canon[At[Doc][p]], st)
<1>1. Doc \in Value /\ Accepts(Canon[Doc], st)
  BY AcceptedDoc
<1>2. At[Doc][p] \in Value /\ Canon[At[Doc][p]] \in Text
  BY <1>1, ConstantTypes
<1> QED
  BY <1>1, <1>2, Sentinels, RoundTrips, StrictnessInherited DEF Accepts

(* Every mode of an accepted document is an accepted text of it: O5's        *)
(* reparses.                                                                 *)
LEMMA ModeAccepted ==
  ASSUME input \in Text, NEW st, Accepts(input, st), NEW m \in Modes
  PROVE  /\ ModeText[m][Doc] \in Text
         /\ Accepts(ModeText[m][Doc], st)
         /\ Reads[ModeText[m][Doc]] = Doc
<1>1. Doc \in Value /\ Accepts(Canon[Doc], st)
  BY AcceptedDoc
<1> QED
  BY <1>1, ConstantTypes, Sentinels, RoundTrips, StrictnessInherited DEF Accepts

(* A call that leaves the SUT honest was answered as the contract says.      *)
LEMMA HonestParse ==
  ASSUME NEW t, NEW st, NEW ans, ParseCall(t, st, ans), honest'
  PROVE  /\ honest
         /\ Accepts(t, st) => ans = "accepted" /\ model' = Holding(Reads[t])
         /\ ~Accepts(t, st) => ans = "rejected" /\ model' = model
BY DEF ParseCall, Answered

(* serialize() of an untouched document is its canonical text.               *)
LEMMA HonestSerialize ==
  ASSUME NEW ans, SerializeCall(ans), honest', NEW v, v # NoValue, model = Holding(v)
  PROVE  honest /\ ans = Canon[v] /\ model' = model
BY DEF SerializeCall, Answered, Serializes, Holding, Untouched

(* serialize_mode() of an untouched document is that mode's text.            *)
LEMMA HonestMode ==
  ASSUME NEW m, NEW ans, SerializeModeCall(m, ans), honest', NEW v, v # NoValue,
         model = Holding(v)
  PROVE  honest /\ ans = ModeText[m][v] /\ model' = model
BY DEF SerializeModeCall, Answered, Serializes, Holding, Untouched

(* pointers() lists only pointers that resolve in the document held.         *)
LEMMA HonestPointers ==
  ASSUME NEW ans, PointersCall(ans), honest', NEW v, v # NoValue, model = Holding(v)
  PROVE  /\ honest /\ model' = model
         /\ ans # Threw /\ \A k \in DOMAIN ans : At[v][ans[k]] # NoValue
BY DEF PointersCall, Answered, Lookup, Holding

(* get() answers the canonical text of the part the pointer names.           *)
LEMMA HonestGet ==
  ASSUME NEW p, NEW ans, GetCall(p, ans), honest', NEW v, v # NoValue, model = Holding(v),
         At[v][p] # NoValue
  PROVE  honest /\ ans = Canon[At[v][p]] /\ model' = model
BY DEF GetCall, Answered, Lookup, Holding

-----------------------------------------------------------------------------
(* What is collected does not change by itself, and nothing is relied on     *)
(* once the routine has returned.                                            *)
LEMMA CollectedKept ==
  ASSUME Collected, UNCHANGED <<input, strict, comments, ptrs, resolved, parents, modes>>
  PROVE  Collected'
BY DEF Collected, Resolves, TextsAccepted, ParentsGood, GoodParent, ModesGood, Doc, Accepts

(* Once a routine has returned, or has not parsed yet, it relies on          *)
(* nothing.                                                                  *)
LEMMA NothingLeft ==
  ASSUME pc' \in Unparsed, law' = "O6" => pc' \in {"declared", "return"}
  PROVE  Here'
BY DEF Here, DocAccepted, TextKnown, DocHeld, ReferenceReads, ChildWritten, NeverRestores,
       NumbersPromised, ModeLeft, Unparsed

(* The promise is about the input, which no step changes.                    *)
LEMMA PromiseKept ==
  ASSUME Promise, UNCHANGED given
  PROVE  Promise'
BY DEF Promise, given, TokensSurvive

(* What holds of a sequence's elements holds of its head and of its tail's.  *)
LEMMA TailKept ==
  ASSUME NEW S, NEW s \in Seq(S), s # << >>
  PROVE  /\ Head(s) = s[1] /\ 1 \in DOMAIN s /\ Tail(s) \in Seq(S)
         /\ \A k \in DOMAIN Tail(s) : k + 1 \in DOMAIN s /\ Tail(s)[k] = s[k + 1]
OBVIOUS

-----------------------------------------------------------------------------
(* O1 and O2.  The document is held until phase B, whose texts were accepted *)
(* in advance: they are parts of it.                                         *)
LEMMA V01Alarm == ASSUME TypeInv, AlarmInv, V01Next PROVE AlarmInv'
<1>a. Within /\ law = "O1O2" /\ honest' \in BOOLEAN
  <2>1. TypeInv'
    BY V01Type
  <2> QED
    BY <2>1 DEF V01Next, V01Parse, V01Reparse, V01GetReparse, V01Serialize, V01Again, V01Pointers,
                V01Get, V01PhaseB, V01Done, Step, TypeInv, TypeOK
<1>b. input \in Text /\ ptrs \in Seq(Pointer) /\ resolved \in Seq(Resolved) /\ r \in Result
  BY DEF TypeInv, TypeOK
<1>c. Promise'
  BY <1>a, PromiseKept DEF AlarmInv, Within
<1> SUFFICES ASSUME honest', WritePathWhole'
             PROVE  Clean' /\ Collected' /\ Here'
  BY <1>c DEF AlarmInv
<1>d. /\ UNCHANGED <<input, strict, comments, offers>> /\ rep' = rep /\ law' = "O1O2"
      /\ honest => Clean /\ Collected /\ Here /\ StrictOf = strict
  BY <1>a DEF Within, given, AlarmInv, WritePathWhole, StrictOf
<1>1. ASSUME NEW ans \in ParseAnswers, V01Parse(ans) PROVE Clean' /\ Collected' /\ Here'
  <2>1. ParseCall(input, strict, ans) /\ pc = "parse"
    BY <1>1 DEF V01Parse, Step
  <2>2. honest
    BY <2>1, HonestParse
  <2>3. CASE Accepts(input, strict)
    <3>1. ans = "accepted" /\ model' = Holding(Doc)
      BY <2>1, <2>3, HonestParse DEF Doc
    <3>2. pc' = "serialize" /\ r'.violations = r.violations /\ UNCHANGED locals
      BY <1>1, <3>1, <1>b DEF V01Parse, Result
    <3> QED
      BY <3>1, <3>2, <2>2, <2>3, <1>d, CollectedKept
      DEF locals, Clean, Here, DocAccepted, TextKnown, DocHeld, ReferenceReads, ChildWritten,
          NeverRestores, NumbersPromised, ModeLeft, Unparsed, StrictOf, Accepts, Doc
  <2>4. CASE ~Accepts(input, strict)
    <3>1. ans # "accepted"
      BY <2>1, <2>4, HonestParse
    <3> QED
      BY <3>1, <1>1, <2>2, <1>d, CollectedKept, NothingLeft
      DEF V01Parse, Return, locals, Clean, Unparsed
  <2> QED
    BY <2>3, <2>4
<1>2. ASSUME NEW ans \in TextAnswers, V01Serialize(ans) PROVE Clean' /\ Collected' /\ Here'
  <2>1. SerializeCall(ans) /\ pc = "serialize" /\ honest
    BY <1>2 DEF V01Serialize, Step, SerializeCall, Answered
  <2>2. Accepts(input, strict) /\ model = Holding(Doc)
    BY <2>1, <1>d DEF Here, DocAccepted, DocHeld, Unparsed
  <2>3. Doc \in Value /\ Canon[Doc] \in Text
    BY <1>b, <2>2, AcceptedDoc
  <2>4. ans = Canon[Doc] /\ ans # Threw
    BY <2>1, <2>2, <2>3, HonestSerialize, Sentinels
  <2>5. pc' = "reparse" /\ canonical' = Canon[Doc] /\ UNCHANGED <<r, ptrs, resolved, parents, modes>>
    BY <1>2, <2>4 DEF V01Serialize
  <2> QED
    BY <2>1, <2>2, <2>5, <1>d, CollectedKept
    DEF Clean, Here, DocAccepted, TextKnown, DocHeld, ReferenceReads, ChildWritten,
        NeverRestores, NumbersPromised, ModeLeft, Unparsed, StrictOf, Accepts, Doc
<1>3. ASSUME NEW ans \in ParseAnswers, V01Reparse(ans) PROVE Clean' /\ Collected' /\ Here'
  <2>1. ParseCall(canonical, strict, ans) /\ pc = "reparse" /\ honest
    BY <1>3, HonestParse DEF V01Reparse, Step
  <2>2. Accepts(input, strict) /\ canonical = Canon[Doc]
    BY <2>1, <1>d DEF Here, DocAccepted, TextKnown, Unparsed
  <2>3. Accepts(Canon[Doc], strict) /\ Reads[Canon[Doc]] = Doc
    BY <1>b, <2>2, AcceptedDoc
  <2>4. ans = "accepted" /\ model' = Holding(Doc)
    BY <2>1, <2>2, <2>3, HonestParse
  <2>5. pc' = "again" /\ UNCHANGED <<r, canonical, ptrs, resolved, parents, modes>>
    BY <1>3, <2>4 DEF V01Reparse, locals
  <2> QED
    BY <2>1, <2>2, <2>4, <2>5, <1>d, CollectedKept
    DEF Clean, Here, DocAccepted, TextKnown, DocHeld, ReferenceReads, ChildWritten,
        NeverRestores, NumbersPromised, ModeLeft, Unparsed, StrictOf, Accepts, Doc
<1>4. ASSUME NEW ans \in TextAnswers, V01Again(ans) PROVE Clean' /\ Collected' /\ Here'
  <2>1. SerializeCall(ans) /\ pc = "again" /\ honest
    BY <1>4 DEF V01Again, Step, SerializeCall, Answered
  <2>2. Accepts(input, strict) /\ model = Holding(Doc) /\ canonical = Canon[Doc]
    BY <2>1, <1>d DEF Here, DocAccepted, DocHeld, TextKnown, Unparsed
  <2>3. Doc \in Value /\ Canon[Doc] \in Text
    BY <1>b, <2>2, AcceptedDoc
  <2>4. ans = Canon[Doc] /\ ans # Threw /\ model' = model
    BY <2>1, <2>2, <2>3, HonestSerialize, Sentinels
  <2>5. pc' = "pointers" /\ UNCHANGED <<r, canonical, ptrs, resolved, parents, modes>>
    BY <1>4, <2>2, <2>4 DEF V01Again, locals
  <2> QED
    BY <2>1, <2>2, <2>4, <2>5, <1>d, CollectedKept
    DEF Clean, Here, DocAccepted, TextKnown, DocHeld, ReferenceReads, ChildWritten,
        NeverRestores, NumbersPromised, ModeLeft, Unparsed, StrictOf, Accepts, Doc
<1>5. ASSUME NEW ans \in PointersAnswers, V01Pointers(ans) PROVE Clean' /\ Collected' /\ Here'
  <2>1. PointersCall(ans) /\ pc = "pointers" /\ honest
    BY <1>5 DEF V01Pointers, Step, PointersCall, Answered
  <2>2. Accepts(input, strict) /\ model = Holding(Doc) /\ canonical = Canon[Doc]
    BY <2>1, <1>d DEF Here, DocAccepted, DocHeld, TextKnown, Unparsed
  <2>3. Doc \in Value /\ Doc # NoValue
    BY <1>b, <2>2, AcceptedDoc, Sentinels
  <2>4. ans # Threw /\ model' = model /\ \A k \in DOMAIN ans : At[Doc][ans[k]] # NoValue
    BY <2>1, <2>2, <2>3, HonestPointers
  <2>5. /\ pc' = "walk" /\ ptrs' = ans
        /\ UNCHANGED <<r, canonical, resolved, parents, modes>>
    BY <1>5, <2>4 DEF V01Pointers
  <2>6. Collected'
    BY <2>1, <2>4, <2>5, <1>d
    DEF Collected, Resolves, TextsAccepted, ParentsGood, GoodParent, ModesGood, Doc, Accepts
  <2> QED
    BY <2>1, <2>2, <2>4, <2>5, <2>6, <1>d
    DEF Clean, Here, DocAccepted, TextKnown, DocHeld, ReferenceReads, ChildWritten,
        NeverRestores, NumbersPromised, ModeLeft, Unparsed, StrictOf, Accepts, Doc
<1>6. ASSUME NEW ans \in GetAnswers, V01Get(ans) PROVE Clean' /\ Collected' /\ Here'
  <2>1. GetCall(Head(ptrs), ans) /\ pc = "walk" /\ honest /\ ptrs # << >>
    BY <1>6 DEF V01Get, Step, GetCall, Answered
  <2>2. Accepts(input, strict) /\ model = Holding(Doc) /\ canonical = Canon[Doc]
    BY <2>1, <1>d DEF Here, DocAccepted, DocHeld, TextKnown, Unparsed
  <2>3. Doc \in Value /\ Doc # NoValue
    BY <1>b, <2>2, AcceptedDoc, Sentinels
  <2>4. Head(ptrs) \in Pointer /\ At[Doc][Head(ptrs)] # NoValue
    BY <2>1, <1>b, <1>d, TailKept DEF Collected, Resolves
  <2>5. /\ ans = Canon[At[Doc][Head(ptrs)]] /\ model' = model
        /\ ans \in Text /\ Accepts(ans, strict)
    BY <2>1, <2>2, <2>3, <2>4, <1>b, HonestGet, PartAccepted
  <2>6. /\ pc' = "walk" /\ ptrs' = Tail(ptrs)
        /\ resolved' = Append(resolved, [ptr |-> Head(ptrs), text |-> ans])
        /\ UNCHANGED <<r, canonical, parents, modes>>
    BY <1>6, <2>1, <2>5 DEF V01Get
  <2>7. Resolves'
    BY <2>1, <2>6, <1>b, <1>d, TailKept DEF Collected, Resolves, Doc
  <2>8. TextsAccepted'
    BY <2>1, <2>5, <2>6, <1>b, <1>d DEF Collected, TextsAccepted, Accepts
  <2>9. ParentsGood' /\ ModesGood'
    BY <2>1, <2>6, <1>d DEF Collected, ParentsGood, GoodParent, ModesGood, Doc
  <2> QED
    BY <2>1, <2>2, <2>5, <2>6, <2>7, <2>8, <2>9, <1>d
    DEF Clean, Collected, Here, DocAccepted, TextKnown, DocHeld, ReferenceReads, ChildWritten,
        NeverRestores, NumbersPromised, ModeLeft, Unparsed, StrictOf, Accepts, Doc
<1>7. CASE V01PhaseB
  <2>1. honest /\ pc = "walk" /\ pc' = "reget" /\ UNCHANGED <<r, locals>>
    BY <1>7 DEF V01PhaseB, sutvars, Step
  <2> QED
    BY <2>1, <1>d, CollectedKept
    DEF locals, Clean, Here, DocAccepted, TextKnown, DocHeld, ReferenceReads, ChildWritten,
        NeverRestores, NumbersPromised, ModeLeft, Unparsed, StrictOf, Accepts, Doc
<1>8. ASSUME NEW ans \in ParseAnswers, V01GetReparse(ans) PROVE Clean' /\ Collected' /\ Here'
  <2>1. /\ ParseCall(Head(resolved).text, strict, ans) /\ pc = "reget" /\ honest
        /\ resolved # << >>
    BY <1>8, HonestParse DEF V01GetReparse, Step
  <2>2. Accepts(input, strict) /\ canonical = Canon[Doc]
    BY <2>1, <1>d DEF Here, DocAccepted, TextKnown, Unparsed
  <2>3. Accepts(Head(resolved).text, strict)
    BY <2>1, <1>b, <1>d, TailKept DEF Collected, TextsAccepted
  <2>4. ans = "accepted"
    BY <2>1, <2>3, HonestParse
  <2>5. /\ pc' = "reget" /\ resolved' = Tail(resolved)
        /\ UNCHANGED <<r, canonical, ptrs, parents, modes>>
    BY <1>8, <2>1, <2>4 DEF V01GetReparse
  <2>6. TextsAccepted'
    BY <2>1, <2>5, <1>b, <1>d, TailKept DEF Collected, TextsAccepted, Accepts
  <2>7. Resolves' /\ ParentsGood' /\ ModesGood'
    BY <2>1, <2>5, <1>d DEF Collected, Resolves, ParentsGood, GoodParent, ModesGood, Doc
  <2> QED
    BY <2>1, <2>2, <2>5, <2>6, <2>7, <1>d
    DEF Clean, Collected, Here, DocAccepted, TextKnown, DocHeld, ReferenceReads, ChildWritten,
        NeverRestores, NumbersPromised, ModeLeft, Unparsed, StrictOf, Accepts, Doc
<1>9. CASE V01Done
  BY <1>9, <1>d, CollectedKept, NothingLeft
  DEF V01Done, Return, locals, Clean, Unparsed, sutvars
<1> QED
  BY <1>1, <1>2, <1>3, <1>4, <1>5, <1>6, <1>7, <1>8, <1>9 DEF V01Next

-----------------------------------------------------------------------------
(* The laws that begin with accepted_input().                                *)
LEMMA InputAlarm ==
  ASSUME TypeInv, AlarmInv, honest', WritePathWhole, NEW rt \in Routine, NEW ans \in ParseAnswers,
         AcceptedInput(rt, IF rt = "O7" THEN TRUE ELSE strict, "serialize", ans)
  PROVE  Clean' /\ Collected' /\ Here'
<1>1. /\ ParseCall(input, StrictOf, ans) /\ pc = "parse" /\ law = rt /\ honest
      /\ UNCHANGED <<input, strict, comments, offers, law, rep>>
  BY HonestParse DEF AcceptedInput, Step, StrictOf, Within, given
<1>2. Clean /\ Collected /\ Here
  BY <1>1 DEF AlarmInv
<1>3. r \in Result
  BY DEF TypeInv, TypeOK
<1>4. UNCHANGED locals /\ r'.violations = r.violations
  BY <1>3 DEF AcceptedInput, Skip, Return, Result, ParseAnswers
<1>5. CASE Accepts(input, StrictOf)
  <2>1. ans = "accepted" /\ model' = Holding(Doc)
    BY <1>1, <1>5, HonestParse DEF Doc
  <2>2. pc' = "serialize"
    BY <2>1, Sentinels DEF AcceptedInput
  <2> QED
    BY <1>1, <1>2, <1>4, <1>5, <2>1, <2>2, CollectedKept
    DEF locals, Clean, Here, DocAccepted, TextKnown, DocHeld, ReferenceReads, ChildWritten,
        NeverRestores, NumbersPromised, ModeLeft, Unparsed, StrictOf, Accepts, Doc
<1>6. CASE ~Accepts(input, StrictOf)
  <2>1. ans = "rejected"
    BY <1>1, <1>6, HonestParse
  <2>2. pc' = "return"
    BY <2>1, Sentinels DEF AcceptedInput, Skip, Return
  <2> QED
    BY <1>1, <1>2, <1>4, <2>2, CollectedKept, NothingLeft DEF locals, Clean, Unparsed
<1> QED
  BY <1>5, <1>6

(* O3.  Away from duplicated keys the reference finds what get() answers.    *)
LEMMA O3Alarm == ASSUME TypeInv, AlarmInv, O3Next PROVE AlarmInv'
<1>a. Within /\ law = "O3" /\ honest' \in BOOLEAN
  <2>1. TypeInv'
    BY O3Type
  <2> QED
    BY <2>1 DEF O3Next, O3Parse, O3Serialize, O3Pointers, O3PassOver, O3Unresolved, O3Get, O3Done,
                AcceptedInput, Enumerated, NextPointer, Step, TypeInv, TypeOK
<1>b. input \in Text /\ ptrs \in Seq(Pointer) /\ r \in Result
  BY DEF TypeInv, TypeOK
<1>c. Promise'
  BY <1>a, PromiseKept DEF AlarmInv, Within
<1> SUFFICES ASSUME honest', WritePathWhole'
             PROVE  Clean' /\ Collected' /\ Here'
  BY <1>c DEF AlarmInv
<1>d. /\ UNCHANGED <<input, strict, comments, offers>> /\ rep' = rep /\ law' = "O3"
      /\ WritePathWhole
      /\ honest => Clean /\ Collected /\ Here /\ StrictOf = strict
  BY <1>a DEF Within, given, AlarmInv, WritePathWhole, StrictOf
<1>1. ASSUME NEW ans \in ParseAnswers, O3Parse(ans) PROVE Clean' /\ Collected' /\ Here'
  BY <1>1, <1>d, InputAlarm DEF O3Parse, Routine
<1>2. ASSUME NEW ans \in TextAnswers, O3Serialize(ans) PROVE Clean' /\ Collected' /\ Here'
  <2>1. SerializeCall(ans) /\ pc = "serialize" /\ honest
    BY <1>2 DEF O3Serialize, Step, SerializeCall, Answered
  <2>2. Accepts(input, strict) /\ model = Holding(Doc)
    BY <2>1, <1>d DEF Here, DocAccepted, DocHeld, Unparsed
  <2>3. Doc \in Value /\ Canon[Doc] \in Text
    BY <1>b, <2>2, AcceptedDoc
  <2>4. ans = Canon[Doc] /\ ans # Threw /\ model' = model
    BY <2>1, <2>2, <2>3, HonestSerialize, Sentinels
  <2>5. CASE Ref[ans] = NoValue
    <3>1. pc' = "return" /\ UNCHANGED locals /\ r'.violations = r.violations
      BY <1>2, <2>4, <2>5, <1>b DEF O3Serialize, Skip, Return, Result
    <3> QED
      BY <2>1, <3>1, <1>d, CollectedKept, NothingLeft DEF locals, Clean, Unparsed
  <2>6. CASE Ref[ans] # NoValue
    <3>1. /\ pc' = "pointers" /\ canonical' = Canon[Doc]
          /\ UNCHANGED <<r, ptrs, resolved, parents, modes>>
      BY <1>2, <2>4, <2>6 DEF O3Serialize
    <3> QED
      BY <2>1, <2>2, <2>4, <2>6, <3>1, <1>d, CollectedKept
      DEF Clean, Here, DocAccepted, TextKnown, DocHeld, ReferenceReads, ChildWritten,
          NeverRestores, NumbersPromised, ModeLeft, Unparsed, StrictOf, Accepts, Doc
  <2> QED
    BY <2>5, <2>6
<1>3. ASSUME NEW ans \in PointersAnswers, O3Pointers(ans) PROVE Clean' /\ Collected' /\ Here'
  <2>1. PointersCall(ans) /\ pc = "pointers" /\ honest
    BY <1>3 DEF O3Pointers, Enumerated, Step, PointersCall, Answered
  <2>2. /\ Accepts(input, strict) /\ model = Holding(Doc) /\ canonical = Canon[Doc]
        /\ Ref[canonical] # NoValue
    BY <2>1, <1>a, <1>d DEF Here, DocAccepted, DocHeld, TextKnown, ReferenceReads, Unparsed
  <2>3. Doc \in Value /\ Doc # NoValue
    BY <1>b, <2>2, AcceptedDoc, Sentinels
  <2>4. ans # Threw /\ model' = model /\ \A k \in DOMAIN ans : At[Doc][ans[k]] # NoValue
    BY <2>1, <2>2, <2>3, HonestPointers
  <2>5. /\ pc' = "walk" /\ ptrs' = ans /\ r'.violations = r.violations
        /\ UNCHANGED <<canonical, resolved, parents, modes>>
    BY <1>3, <2>4, <1>b DEF O3Pointers, Enumerated, Result
  <2>6. Collected'
    BY <2>1, <2>4, <2>5, <1>d
    DEF Collected, Resolves, TextsAccepted, ParentsGood, GoodParent, ModesGood, Doc, Accepts
  <2> QED
    BY <2>1, <2>2, <2>4, <2>5, <2>6, <1>d
    DEF Clean, Here, DocAccepted, TextKnown, DocHeld, ReferenceReads, ChildWritten,
        NeverRestores, NumbersPromised, ModeLeft, Unparsed, StrictOf, Accepts, Doc
<1>4. ASSUME honest, pc = "walk", ptrs # << >>, r' = r, model' = model, NextPointer
      PROVE  Clean' /\ Collected' /\ Here'
  <2>1. /\ pc' = "walk" /\ ptrs' = Tail(ptrs)
        /\ UNCHANGED <<canonical, resolved, parents, modes>>
    BY <1>4 DEF NextPointer
  <2>2. Resolves'
    BY <1>4, <2>1, <1>b, <1>d, TailKept DEF Collected, Resolves, Doc
  <2>3. TextsAccepted' /\ ParentsGood' /\ ModesGood'
    BY <1>4, <2>1, <1>d
    DEF Collected, TextsAccepted, ParentsGood, GoodParent, ModesGood, Doc, Accepts
  <2> QED
    BY <1>4, <2>1, <2>2, <2>3, <1>a, <1>d
    DEF Clean, Collected, Here, DocAccepted, TextKnown, DocHeld, ReferenceReads, ChildWritten,
        NeverRestores, NumbersPromised, ModeLeft, Unparsed, StrictOf, Accepts, Doc
<1>5. ASSUME honest, pc = "walk", ptrs # << >>, Head(ptrs) \notin Dups[canonical]
      PROVE  /\ model = Holding(Doc) /\ Doc \in Value /\ Head(ptrs) \in Pointer
             /\ At[Doc][Head(ptrs)] # NoValue /\ Accepts(input, strict)
             /\ Expected = Ref[Canon[At[Doc][Head(ptrs)]]] /\ Expected # NoValue
  <2>1. /\ Accepts(input, strict) /\ model = Holding(Doc) /\ canonical = Canon[Doc]
        /\ Ref[Canon[Doc]] # NoValue
    BY <1>5, <1>a, <1>d DEF Here, DocAccepted, DocHeld, TextKnown, ReferenceReads, Unparsed
  <2>2. Doc \in Value
    BY <1>b, <2>1, AcceptedDoc
  <2>3. Head(ptrs) \in Pointer /\ At[Doc][Head(ptrs)] # NoValue
    BY <1>5, <1>b, <1>d, TailKept DEF Collected, Resolves
  <2> QED
    BY <1>5, <2>1, <2>2, <2>3, ReferenceAgrees DEF Expected
<1>6. CASE O3PassOver
  <2>1. honest /\ pc = "walk" /\ ptrs # << >> /\ r' = r /\ model' = model /\ NextPointer
    BY <1>6 DEF O3PassOver, Step, sutvars
  <2> QED
    BY <2>1, <1>4
<1>7. CASE O3Unresolved
  <2>1. honest /\ pc = "walk" /\ ptrs # << >> /\ Head(ptrs) \notin Dups[canonical] /\ Expected = NoValue
    BY <1>7 DEF O3Unresolved, Step, sutvars
  <2> QED
    BY <2>1, <1>5
<1>8. ASSUME NEW ans \in GetAnswers, O3Get(ans) PROVE Clean' /\ Collected' /\ Here'
  <2>1. /\ GetCall(Head(ptrs), ans) /\ pc = "walk" /\ honest /\ ptrs # << >>
        /\ Head(ptrs) \notin Dups[canonical]
    BY <1>8 DEF O3Get, Step, GetCall, Answered
  <2>2. /\ ans = Canon[At[Doc][Head(ptrs)]] /\ model' = model
        /\ ans \in Text
    <3>1. Doc # NoValue
      BY <2>1, <1>5, Sentinels
    <3> QED
      BY <2>1, <3>1, <1>5, <1>b, HonestGet, PartAccepted
  <2>3. r' = r /\ NextPointer
    BY <1>8, <2>1, <2>2, <1>5 DEF O3Get
  <2> QED
    BY <2>1, <2>2, <2>3, <1>4
<1>9. CASE O3Done
  BY <1>9, <1>d, CollectedKept, NothingLeft
  DEF O3Done, Return, locals, Clean, Unparsed, sutvars
<1> QED
  BY <1>1, <1>2, <1>3, <1>6, <1>7, <1>8, <1>9 DEF O3Next

-----------------------------------------------------------------------------
(* Under a good parent the fresh child is absent, and set() can add it; what *)
(* is then written is what get() answers, and remove() takes it out again.   *)
LEMMA FreshGood ==
  ASSUME TypeInv, parents # << >>, ParentsGood, Doc \in Value, Ref[Canon[Doc]] # NoValue
  PROVE  /\ FreshPointer \in Pointer /\ FreshPointer \in Addable[Doc]
         /\ At[Doc][FreshPointer] = NoValue
<1>1. parents \in Seq(Parent)
  BY DEF TypeInv, TypeOK
<1>2. Head(parents) \in Parent /\ GoodParent(Head(parents))
  BY <1>1, TailKept DEF ParentsGood
<1>3. Head(parents).ptr \in Pointer /\ Head(parents).node \in Container
  BY <1>2 DEF Parent
<1>4. FreshPointer \in Addable[Doc]
  BY <1>2, <1>3, FreshIsAddable DEF GoodParent, FreshPointer
<1> QED
  BY <1>4, FreshPointerType, AddableIsAbsent DEF TypeInv

(* The value O4 writes is one both readings read alike.                      *)
LEMMA SetGood ==
  ASSUME TypeInv
  PROVE  /\ Reads[SetValue] \in Value /\ Canon[Reads[SetValue]] \in Text
         /\ Ref[Canon[Reads[SetValue]]] = Ref[SetValue]
<1>1. (i % Len(SetValues)) + 1 \in 1 .. Len(SetValues) /\ SetValue \in Text
  BY SetValueIndex DEF TypeInv
<1>2. Reads[SetValue] # NoValue /\ Ref[Canon[Reads[SetValue]]] = Ref[SetValue]
  BY <1>1, SetValuesReadable DEF SetValue
<1> QED
  BY <1>1, <1>2, ConstantTypes

(* set() of an absent, addable child adds it and nothing else.               *)
LEMMA HonestSet ==
  ASSUME NEW p, NEW v, NEW ans, SetCall(p, v, ans), honest',
         Doc # NoValue, model = Holding(Doc), p \in Addable[Doc], At[Doc][p] = NoValue
  PROVE  /\ honest
         /\ ~offers.set => ans = "Unsupported" /\ model' = model
         /\ offers.set => /\ ans = "Applied"
                          /\ model' = [doc |-> Doc, extra |-> {[ptr |-> p, val |-> v]},
                                       gone |-> FALSE]
BY DEF SetCall, Answered, Settable, Holding

(* The child just written is what its pointer names.                         *)
LEMMA ChildFound ==
  ASSUME NEW p, NEW v, model = [doc |-> Doc, extra |-> {[ptr |-> p, val |-> v]}, gone |-> FALSE]
  PROVE  Lookup(p) = v
<1>1. [ptr |-> p, val |-> v] \in model.extra
  OBVIOUS
<1>2. (CHOOSE w \in model.extra : w.ptr = p) = [ptr |-> p, val |-> v]
  BY <1>1
<1> QED
  BY <1>1, <1>2 DEF Lookup

(* remove() of that child gives the document back.                           *)
LEMMA HonestRemove ==
  ASSUME NEW p, NEW v, NEW ans, RemoveCall(p, ans), honest', v # NoValue, offers.remove,
         model = [doc |-> Doc, extra |-> {[ptr |-> p, val |-> v]}, gone |-> FALSE]
  PROVE  honest /\ ans = "Applied" /\ model' = Holding(Doc)
<1>1. honest /\ ans = "Applied"
  BY ChildFound DEF RemoveCall, Answered
<1>2. \E w \in model.extra : w.ptr = p
  OBVIOUS
<1>3. {w \in model.extra : w.ptr # p} = {}
  OBVIOUS
<1> QED
  BY <1>1, <1>2, <1>3, ChildFound DEF RemoveCall, Answered, Holding

(* O4.  Every write to an honest SUT is taken, read back and taken away.     *)
LEMMA O4Alarm == ASSUME TypeInv, AlarmInv, O4Next PROVE AlarmInv'
<1>a. Within /\ law = "O4" /\ honest' \in BOOLEAN
  <2>1. TypeInv'
    BY O4Type
  <2> QED
    BY <2>1 DEF O4Next, O4Parse, O4Restore, O4Serialize, O4After, O4Reserialize, O4Pointers, O4Get,
                O4Set, O4Remove, O4Choose, O4Chosen, O4Done, AcceptedInput, Enumerated, Step,
                TypeInv, TypeOK
<1>b. /\ input \in Text /\ ptrs \in Seq(Pointer) /\ parents \in Seq(Parent) /\ r \in Result
      /\ pc \in {"get", "remove", "after"} => parents # << >>
  BY <1>a DEF TypeInv, TypeOK, LocalsReady, Step
<1>c. Promise'
  BY <1>a, PromiseKept DEF AlarmInv, Within
<1> SUFFICES ASSUME honest', WritePathWhole'
             PROVE  Clean' /\ Collected' /\ Here'
  BY <1>c DEF AlarmInv
<1>d. /\ UNCHANGED <<input, strict, comments, offers>> /\ rep' = rep /\ law' = "O4"
      /\ WritePathWhole
      /\ honest => Clean /\ Collected /\ Here /\ StrictOf = strict
  BY <1>a DEF Within, given, AlarmInv, WritePathWhole, StrictOf
<1>e. honest /\ pc \notin Unparsed \cup {"serialize"} =>
        /\ Accepts(input, strict) /\ canonical = Canon[Doc] /\ Ref[Canon[Doc]] # NoValue
        /\ Doc \in Value /\ Canon[Doc] \in Text /\ Doc # NoValue
  <2>1. honest /\ pc \notin Unparsed \cup {"serialize"} =>
          Accepts(input, strict) /\ canonical = Canon[Doc] /\ Ref[Canon[Doc]] # NoValue
    BY <1>a, <1>d DEF Here, DocAccepted, TextKnown, ReferenceReads
  <2> QED
    BY <2>1, <1>b, AcceptedDoc, Sentinels
<1>f. honest /\ pc \in {"write", "get", "remove"} /\ parents # << >> =>
        /\ FreshPointer \in Addable[Doc] /\ At[Doc][FreshPointer] = NoValue
        /\ Reads[SetValue] \in Value /\ Reads[SetValue] # NoValue
  BY <1>d, <1>e, FreshGood, SetGood, Sentinels DEF Collected, Unparsed
<1>1. ASSUME NEW ans \in ParseAnswers, O4Parse(ans) PROVE Clean' /\ Collected' /\ Here'
  BY <1>1, <1>d, InputAlarm DEF O4Parse, Routine
<1>2. ASSUME NEW ans \in TextAnswers, O4Serialize(ans) PROVE Clean' /\ Collected' /\ Here'
  <2>1. SerializeCall(ans) /\ pc = "serialize" /\ honest
    BY <1>2 DEF O4Serialize, Step, SerializeCall, Answered
  <2>2. Accepts(input, strict) /\ model = Holding(Doc)
    BY <2>1, <1>d DEF Here, DocAccepted, DocHeld, Unparsed
  <2>3. Doc \in Value /\ Canon[Doc] \in Text
    BY <1>b, <2>2, AcceptedDoc
  <2>4. ans = Canon[Doc] /\ ans # Threw /\ model' = model
    BY <2>1, <2>2, <2>3, HonestSerialize, Sentinels
  <2>5. CASE Ref[ans] = NoValue
    <3>1. pc' = "return" /\ UNCHANGED locals /\ r'.violations = r.violations
      BY <1>2, <2>4, <2>5, <1>b DEF O4Serialize, Skip, Return, Result
    <3> QED
      BY <2>1, <3>1, <1>d, CollectedKept, NothingLeft DEF locals, Clean, Unparsed
  <2>6. CASE Ref[ans] # NoValue
    <3>1. /\ pc' = "pointers" /\ canonical' = Canon[Doc]
          /\ UNCHANGED <<r, ptrs, resolved, parents, modes>>
      BY <1>2, <2>4, <2>6 DEF O4Serialize
    <3> QED
      BY <2>1, <2>2, <2>4, <2>6, <3>1, <1>d, CollectedKept
      DEF Clean, Here, DocAccepted, TextKnown, DocHeld, ReferenceReads, ChildWritten,
          NeverRestores, NumbersPromised, ModeLeft, Unparsed, StrictOf, Accepts, Doc
  <2> QED
    BY <2>5, <2>6
<1>3. ASSUME NEW ans \in PointersAnswers, O4Pointers(ans) PROVE Clean' /\ Collected' /\ Here'
  <2>1. PointersCall(ans) /\ pc = "pointers" /\ honest
    BY <1>3 DEF O4Pointers, Enumerated, Step, PointersCall, Answered
  <2>2. model = Holding(Doc)
    BY <2>1, <1>d DEF Here, DocHeld
  <2>3. ans # Threw /\ model' = model /\ \A k \in DOMAIN ans : At[Doc][ans[k]] # NoValue
    BY <2>1, <2>2, <1>e, HonestPointers DEF Unparsed
  <2>4. /\ pc' = "choose" /\ ptrs' = ans /\ r' = r
        /\ UNCHANGED <<canonical, resolved, parents, modes>>
    BY <1>3, <2>3 DEF O4Pointers, Enumerated
  <2>5. Collected'
    BY <2>1, <2>3, <2>4, <1>d
    DEF Collected, Resolves, TextsAccepted, ParentsGood, GoodParent, ModesGood, Doc, Accepts
  <2> QED
    BY <2>1, <2>2, <2>3, <2>4, <2>5, <1>d, <1>e
    DEF Clean, Here, DocAccepted, TextKnown, DocHeld, ReferenceReads, ChildWritten,
        NeverRestores, NumbersPromised, ModeLeft, Unparsed, StrictOf, Accepts, Doc
<1>4. CASE O4Choose
  <2>1. /\ honest /\ pc = "choose" /\ pc' = "choose" /\ ptrs # << >> /\ ptrs' = Tail(ptrs)
        /\ UNCHANGED <<model, r, canonical, resolved, modes>>
    BY <1>4 DEF O4Choose, Step, sutvars
  <2>2. Resolves'
    BY <2>1, <1>b, <1>d, TailKept DEF Collected, Resolves, Doc
  <2>3. ParentsGood'
    <3> DEFINE q == [ptr |-> Head(ptrs), node |-> RefAt[Ref[canonical]][Head(ptrs)]]
    <3>1. \A k \in DOMAIN parents : /\ parents[k].ptr \notin Dups[Canon[Doc']]
                                    /\ At[Doc'][parents[k].ptr] # NoValue
                                    /\ parents[k].node = RefAt[Ref[Canon[Doc']]][parents[k].ptr]
      BY <2>1, <1>d DEF Collected, ParentsGood, GoodParent, Doc
    <3>2. CASE IsParent(Head(ptrs))
      <4>1. At[Doc][Head(ptrs)] # NoValue
        BY <2>1, <1>b, <1>d, TailKept DEF Collected, Resolves
      <4>2. canonical = Canon[Doc] /\ Doc' = Doc
        BY <2>1, <1>d, <1>e DEF Unparsed, Doc
      <4>3. /\ q.ptr \notin Dups[Canon[Doc']]
            /\ At[Doc'][q.ptr] # NoValue
            /\ q.node = RefAt[Ref[Canon[Doc']]][q.ptr]
        BY <3>2, <4>1, <4>2 DEF IsParent
      <4>4. parents' = Append(parents, q)
        BY <1>4, <3>2 DEF O4Choose
      <4>5. q \in Parent
        BY <2>1, <1>b, <3>2, HeadTail DEF Parent, IsParent
      <4>6. \A k \in DOMAIN parents' : \/ k \in DOMAIN parents /\ parents'[k] = parents[k]
                                       \/ parents'[k] = q
        BY <4>4, <4>5, <1>b
      <4> HIDE DEF q
      <4> QED
        BY <3>1, <4>3, <4>6 DEF ParentsGood, GoodParent
    <3>3. CASE ~IsParent(Head(ptrs))
      <4>1. parents' = parents
        BY <1>4, <3>3 DEF O4Choose
      <4> QED
        BY <3>1, <4>1 DEF ParentsGood, GoodParent
    <3> QED
      BY <3>2, <3>3
  <2>4. TextsAccepted' /\ ModesGood'
    BY <2>1, <1>d DEF Collected, TextsAccepted, ModesGood, Doc, Accepts
  <2> QED
    BY <2>1, <2>2, <2>3, <2>4, <1>d, <1>e
    DEF Clean, Collected, Here, DocAccepted, TextKnown, DocHeld, ReferenceReads, ChildWritten,
        NeverRestores, NumbersPromised, ModeLeft, Unparsed, StrictOf, Accepts, Doc
<1>5. CASE O4Chosen
  <2>1. honest /\ pc = "choose" /\ UNCHANGED model
    BY <1>5 DEF O4Chosen, Step, sutvars
  <2>2. CASE parents = << >>
    <3>1. pc' = "return" /\ UNCHANGED locals /\ r'.violations = r.violations
      BY <1>5, <2>2, <1>b DEF O4Chosen, Skip, Return, Result
    <3> QED
      BY <2>1, <3>1, <1>d, CollectedKept, NothingLeft DEF locals, Clean, Unparsed
  <2>3. CASE parents # << >>
    <3>1. /\ pc' = "write" /\ ptrs' = << >>
          /\ UNCHANGED <<r, canonical, resolved, parents, modes>>
      BY <1>5, <2>3 DEF O4Chosen
    <3>2. Collected'
      BY <2>1, <3>1, <1>d
      DEF Collected, Resolves, TextsAccepted, ParentsGood, GoodParent, ModesGood, Doc, Accepts
    <3> QED
      BY <2>1, <3>1, <3>2, <1>d, <1>e
      DEF Clean, Here, DocAccepted, TextKnown, DocHeld, ReferenceReads, ChildWritten,
          NeverRestores, NumbersPromised, ModeLeft, Unparsed, StrictOf, Accepts, Doc
  <2> QED
    BY <2>2, <2>3
<1>6. ASSUME NEW ans \in WriteAnswers, O4Set(ans) PROVE Clean' /\ Collected' /\ Here'
  <2>1. /\ SetCall(FreshPointer, Reads[SetValue], ans) /\ pc = "write" /\ honest
        /\ parents # << >>
    BY <1>6 DEF O4Set, Step, SetCall, Answered
  <2>2. model = Holding(Doc) /\ Doc # NoValue
    BY <2>1, <1>d, <1>e DEF Here, DocHeld, Unparsed
  <2>3. CASE offers.set
    <3>1. /\ ans = "Applied"
          /\ model' = [doc |-> Doc, extra |-> {[ptr |-> FreshPointer, val |-> Reads[SetValue]]},
                       gone |-> FALSE]
      BY <2>1, <2>2, <2>3, <1>f, HonestSet
    <3>2. pc' = "get" /\ UNCHANGED locals /\ r'.violations = r.violations
      BY <1>6, <3>1, <1>b, Sentinels DEF O4Set, Result
    <3>3. FreshPointer' = FreshPointer /\ SetValue' = SetValue
      BY <3>2 DEF locals, FreshPointer, SetValue
    <3> QED
      BY <2>1, <2>3, <3>1, <3>2, <3>3, <1>d, <1>e, CollectedKept
      DEF locals, Clean, Here, DocAccepted, TextKnown, DocHeld, ReferenceReads, ChildWritten,
          NeverRestores, NumbersPromised, ModeLeft, Unparsed, StrictOf, Accepts, Doc
  <2>4. CASE ~offers.set
    <3>1. ans = "Unsupported"
      BY <2>1, <2>2, <2>4, <1>f, HonestSet
    <3>2. pc' = "return" /\ UNCHANGED locals /\ r'.violations = r.violations
      BY <1>6, <3>1, <1>b, Sentinels DEF O4Set, Return, Result
    <3> QED
      BY <2>1, <3>2, <1>d, CollectedKept, NothingLeft DEF locals, Clean, Unparsed
  <2> QED
    BY <2>3, <2>4
<1>7. honest /\ pc \in {"get", "remove"} =>
        /\ offers.set /\ parents # << >>
        /\ model = [doc |-> Doc, extra |-> {[ptr |-> FreshPointer, val |-> Reads[SetValue]]},
                    gone |-> FALSE]
  BY <1>b, <1>d DEF Here, ChildWritten
<1>8. ASSUME NEW ans \in GetAnswers, O4Get(ans) PROVE Clean' /\ Collected' /\ Here'
  <2>1. GetCall(FreshPointer, ans) /\ pc = "get" /\ honest
    BY <1>8 DEF O4Get, Step, GetCall, Answered
  <2>2. Lookup(FreshPointer) = Reads[SetValue]
    BY <2>1, <1>7, ChildFound
  <2>3. ans = Canon[Reads[SetValue]] /\ model' = model
    BY <2>1, <2>2, <1>f, <1>7 DEF GetCall, Answered
  <2>4. ans \in Text /\ Ref[ans] = Ref[SetValue]
    BY <2>3, SetGood
  <2>5. pc' = "remove" /\ UNCHANGED <<r, locals>>
    BY <1>8, <2>4 DEF O4Get
  <2>6. FreshPointer' = FreshPointer /\ SetValue' = SetValue
    BY <2>5 DEF locals, FreshPointer, SetValue
  <2> QED
    BY <2>1, <2>3, <2>5, <2>6, <1>7, <1>d, <1>e, CollectedKept
    DEF locals, Clean, Here, DocAccepted, TextKnown, DocHeld, ReferenceReads, ChildWritten,
        NeverRestores, NumbersPromised, ModeLeft, Unparsed, StrictOf, Accepts, Doc
<1>9. ASSUME NEW ans \in WriteAnswers, O4Remove(ans) PROVE Clean' /\ Collected' /\ Here'
  <2>1. RemoveCall(FreshPointer, ans) /\ pc = "remove" /\ honest
    BY <1>9 DEF O4Remove, Step, RemoveCall, Answered
  <2>2. offers.remove /\ Reads[SetValue] # NoValue
    BY <2>1, <1>7, <1>f, <1>d DEF WritePathWhole
  <2>3. ans = "Applied" /\ model' = Holding(Doc)
    <3> DEFINE v == Reads[SetValue]
    <3>1. /\ model = [doc |-> Doc, extra |-> {[ptr |-> FreshPointer, val |-> v]}, gone |-> FALSE]
          /\ v # NoValue /\ offers.remove
      BY <2>1, <2>2, <1>7
    <3> HIDE DEF v
    <3> QED
      BY <2>1, <3>1, HonestRemove
  <2>4. pc' = "after" /\ UNCHANGED <<r, locals>>
    BY <1>9, <2>3 DEF O4Remove
  <2> QED
    BY <2>1, <2>3, <2>4, <1>d, <1>e, CollectedKept
    DEF locals, Clean, Here, DocAccepted, TextKnown, DocHeld, ReferenceReads, ChildWritten,
        NeverRestores, NumbersPromised, ModeLeft, Unparsed, StrictOf, Accepts, Doc
<1>10. ASSUME NEW ans \in TextAnswers, O4After(ans) PROVE Clean' /\ Collected' /\ Here'
  <2>1. SerializeCall(ans) /\ pc = "after" /\ honest /\ parents # << >>
    BY <1>10, <1>b DEF O4After, Step, SerializeCall, Answered
  <2>2. model = Holding(Doc)
    BY <2>1, <1>d DEF Here, DocHeld
  <2>3. ans = canonical /\ ans # Threw /\ model' = model
    BY <2>1, <2>2, <1>e, HonestSerialize, Sentinels DEF Unparsed
  <2>4. /\ pc' = "write" /\ parents' = Tail(parents)
        /\ UNCHANGED <<r, canonical, ptrs, resolved, modes>>
    BY <1>10, <2>3 DEF O4After, NextParent
  <2>5. ParentsGood'
    BY <2>1, <2>4, <1>b, <1>d, TailKept DEF Collected, ParentsGood, GoodParent, Doc
  <2>6. Resolves' /\ TextsAccepted' /\ ModesGood'
    BY <2>1, <2>4, <1>d DEF Collected, Resolves, TextsAccepted, ModesGood, Doc, Accepts
  <2> QED
    BY <2>1, <2>2, <2>3, <2>4, <2>5, <2>6, <1>d, <1>e
    DEF Clean, Collected, Here, DocAccepted, TextKnown, DocHeld, ReferenceReads, ChildWritten,
        NeverRestores, NumbersPromised, ModeLeft, Unparsed, StrictOf, Accepts, Doc
<1>11. ASSUME NEW ans \in ParseAnswers, O4Restore(ans) PROVE FALSE
  <2>1. pc = "restore" /\ honest
    BY <1>11, HonestParse DEF O4Restore, Step
  <2> QED
    BY <2>1, <1>d DEF Here, NeverRestores
<1>12. ASSUME NEW ans \in TextAnswers, O4Reserialize(ans) PROVE FALSE
  <2>1. pc = "reserialize" /\ honest
    BY <1>12 DEF O4Reserialize, Step, SerializeCall, Answered
  <2> QED
    BY <2>1, <1>d DEF Here, NeverRestores
<1>13. CASE O4Done
  BY <1>13, <1>d, CollectedKept, NothingLeft
  DEF O4Done, Return, locals, Clean, Unparsed, sutvars
<1> QED
  BY <1>1, <1>2, <1>3, <1>4, <1>5, <1>6, <1>8, <1>9, <1>10, <1>11, <1>12, <1>13 DEF O4Next

-----------------------------------------------------------------------------
(* O5.  Every captured mode is the text of the document, and its reparse     *)
(* gives the document back.                                                  *)
LEMMA O5Alarm == ASSUME TypeInv, AlarmInv, O5Next PROVE AlarmInv'
<1>a. Within /\ law = "O5" /\ honest' \in BOOLEAN
  <2>1. TypeInv'
    BY O5Type
  <2> QED
    BY <2>1 DEF O5Next, O5Count, O5Parse, O5Serialize, O5Capture, O5Captured, O5Reparse, O5Same,
                O5Twice, O5Done, AcceptedInput, Step, TypeInv, TypeOK
<1>b. /\ input \in Text /\ r \in Result /\ modes \in Seq(Text) /\ i \in Nat
      /\ Len(modes) =< count /\ count \in 0 .. MaxModes
  BY DEF TypeInv, TypeOK
<1>c. Promise'
  BY <1>a, PromiseKept DEF AlarmInv, Within
<1> SUFFICES ASSUME honest', WritePathWhole'
             PROVE  Clean' /\ Collected' /\ Here'
  BY <1>c DEF AlarmInv
<1>d. /\ UNCHANGED <<input, strict, comments, offers>> /\ rep' = rep /\ law' = "O5"
      /\ WritePathWhole
      /\ honest => Clean /\ Collected /\ Here /\ StrictOf = strict
  BY <1>a DEF Within, given, AlarmInv, WritePathWhole, StrictOf
<1>e. pc \in {"capture", "reparse", "same", "twice"} /\ honest =>
        /\ Accepts(input, strict) /\ canonical = Canon[Doc]
        /\ Doc \in Value /\ Canon[Doc] \in Text /\ Doc # NoValue
  <2>1. pc \in {"capture", "reparse", "same", "twice"} /\ honest =>
          Accepts(input, strict) /\ canonical = Canon[Doc]
    BY <1>d DEF Here, DocAccepted, TextKnown, Unparsed
  <2> QED
    BY <2>1, <1>b, AcceptedDoc, Sentinels
<1>f. honest => /\ \A k \in DOMAIN modes : modes[k] = ModeText[k - 1][Doc]
                /\ i < Len(modes) => Once = ModeText[i][Doc] /\ i \in Modes
  <2>1. honest => \A k \in DOMAIN modes : modes[k] = ModeText[k - 1][Doc]
    BY <1>d DEF Collected, ModesGood
  <2>2. i < Len(modes) => i + 1 \in DOMAIN modes /\ i \in Modes
    BY <1>b, ConstantTypes DEF Modes
  <2> QED
    BY <2>1, <2>2, <1>b DEF Once
<1>1. ASSUME NEW ans \in CountAnswers, O5Count(ans) PROVE Clean' /\ Collected' /\ Here'
  <2>1. honest /\ ans = offers.modes
    BY <1>1 DEF O5Count, ModeCountCall, Answered
  <2>2. ans \in CountAnswers \ {Threw}
    <3>1. offers \in Offered
      BY DEF TypeInv, TypeOK
    <3>2. offers.modes \in 1 .. MaxModes
      BY <3>1, ConstantTypes
    <3>3. offers.modes # Threw
      BY <3>2, ConstantTypes, Sentinels
    <3> QED
      BY <1>1, <2>1, <3>3
  <2>3. /\ pc' \in {"parse", "return"} /\ r'.violations = r.violations
        /\ UNCHANGED <<ptrs, resolved, parents, modes>>
    BY <1>1, <2>2, <1>b DEF O5Count, Skip, Return, locals, Result
  <2> QED
    BY <2>1, <2>3, <1>d, CollectedKept, NothingLeft DEF Clean, Unparsed
<1>2. ASSUME NEW ans \in ParseAnswers, O5Parse(ans) PROVE Clean' /\ Collected' /\ Here'
  BY <1>2, <1>d, InputAlarm DEF O5Parse, Routine
<1>3. ASSUME NEW ans \in TextAnswers, O5Serialize(ans) PROVE Clean' /\ Collected' /\ Here'
  <2>1. SerializeCall(ans) /\ pc = "serialize" /\ honest
    BY <1>3 DEF O5Serialize, Step, SerializeCall, Answered
  <2>2. Accepts(input, strict) /\ model = Holding(Doc)
    BY <2>1, <1>d DEF Here, DocAccepted, DocHeld, Unparsed
  <2>3. Doc \in Value /\ Canon[Doc] \in Text
    BY <1>b, <2>2, AcceptedDoc
  <2>4. ans = Canon[Doc] /\ ans # Threw /\ model' = model
    BY <2>1, <2>2, <2>3, HonestSerialize, Sentinels
  <2>5. /\ pc' = "capture" /\ canonical' = Canon[Doc]
        /\ UNCHANGED <<r, ptrs, resolved, parents, modes>>
    BY <1>3, <2>4 DEF O5Serialize
  <2> QED
    BY <2>1, <2>2, <2>4, <2>5, <1>d, CollectedKept
    DEF Clean, Here, DocAccepted, TextKnown, DocHeld, ReferenceReads, ChildWritten,
        NeverRestores, NumbersPromised, ModeLeft, Unparsed, StrictOf, Accepts, Doc
<1>4. ASSUME NEW ans \in TextAnswers, O5Capture(ans) PROVE Clean' /\ Collected' /\ Here'
  <2>1. SerializeModeCall(Len(modes), ans) /\ pc = "capture" /\ honest /\ Len(modes) < count
    BY <1>4 DEF O5Capture, Step, SerializeModeCall, Answered
  <2>2. model = Holding(Doc)
    BY <2>1, <1>d DEF Here, DocHeld
  <2>3. Len(modes) \in Modes
    BY <2>1, <1>b, ConstantTypes DEF Modes
  <2>4. ans = ModeText[Len(modes)][Doc] /\ model' = model
    BY <2>1, <2>2, <1>e, HonestMode
  <2>5. ans # Threw
    BY <2>1, <2>3, <2>4, <1>b, <1>e, ModeAccepted, Sentinels
  <2>6. /\ pc' = "capture" /\ modes' = Append(modes, ans)
        /\ UNCHANGED <<r, canonical, ptrs, resolved, parents>>
    BY <1>4, <2>1, <2>5 DEF O5Capture, fixedO5
  <2>7. ModesGood'
    BY <2>1, <2>4, <2>6, <1>b, <1>d, <1>f DEF ModesGood, Doc
  <2>8. Resolves' /\ TextsAccepted' /\ ParentsGood'
    BY <2>1, <2>6, <1>d
    DEF Collected, Resolves, TextsAccepted, ParentsGood, GoodParent, Doc, Accepts
  <2> QED
    BY <2>1, <2>2, <2>4, <2>6, <2>7, <2>8, <1>d, <1>e
    DEF Clean, Collected, Here, DocAccepted, TextKnown, DocHeld, ReferenceReads, ChildWritten,
        NeverRestores, NumbersPromised, ModeLeft, Unparsed, StrictOf, Accepts, Doc
<1>5. CASE O5Captured
  <2>1. honest /\ pc = "capture" /\ pc' = "reparse" /\ UNCHANGED <<model, locals>>
    BY <1>5 DEF O5Captured, Step, sutvars
  <2>2. r'.violations = r.violations
    BY <1>5, <1>b DEF O5Captured, Result
  <2> QED
    BY <2>1, <2>2, <1>d, <1>e, CollectedKept
    DEF locals, Clean, Here, DocAccepted, TextKnown, DocHeld, ReferenceReads, ChildWritten,
        NeverRestores, NumbersPromised, ModeLeft, Unparsed, StrictOf, Accepts, Doc
<1>6. ASSUME NEW ans \in ParseAnswers, O5Reparse(ans) PROVE Clean' /\ Collected' /\ Here'
  <2>1. ParseCall(Once, strict, ans) /\ pc = "reparse" /\ honest /\ i < Len(modes)
    BY <1>6, HonestParse DEF O5Reparse, Step
  <2>2. Accepts(Once, strict) /\ Reads[Once] = Doc
    BY <2>1, <1>b, <1>e, <1>f, ModeAccepted
  <2>3. ans = "accepted" /\ model' = Holding(Doc)
    BY <2>1, <2>2, HonestParse
  <2>4. pc' = "same" /\ UNCHANGED <<r, locals>>
    BY <1>6, <2>3 DEF O5Reparse
  <2> QED
    BY <2>1, <2>3, <2>4, <1>d, <1>e, CollectedKept
    DEF locals, Clean, Here, DocAccepted, TextKnown, DocHeld, ReferenceReads, ChildWritten,
        NeverRestores, NumbersPromised, ModeLeft, Unparsed, StrictOf, Accepts, Doc
<1>7. ASSUME NEW ans \in TextAnswers, O5Same(ans) PROVE Clean' /\ Collected' /\ Here'
  <2>1. SerializeCall(ans) /\ pc = "same" /\ honest
    BY <1>7 DEF O5Same, Step, SerializeCall, Answered
  <2>2. model = Holding(Doc) /\ i < Len(modes)
    BY <2>1, <1>d DEF Here, DocHeld, ModeLeft
  <2>3. ans = canonical /\ ans # Threw /\ model' = model
    BY <2>1, <2>2, <1>e, HonestSerialize, Sentinels
  <2>4. pc' = "twice" /\ UNCHANGED <<r, locals>>
    BY <1>7, <2>3 DEF O5Same
  <2> QED
    BY <2>1, <2>2, <2>3, <2>4, <1>d, <1>e, CollectedKept
    DEF locals, Clean, Here, DocAccepted, TextKnown, DocHeld, ReferenceReads, ChildWritten,
        NeverRestores, NumbersPromised, ModeLeft, Unparsed, StrictOf, Accepts, Doc
<1>8. ASSUME NEW ans \in TextAnswers, O5Twice(ans) PROVE Clean' /\ Collected' /\ Here'
  <2>1. SerializeModeCall(i, ans) /\ pc = "twice" /\ honest
    BY <1>8 DEF O5Twice, Step, SerializeModeCall, Answered
  <2>2. model = Holding(Doc) /\ i < Len(modes)
    BY <2>1, <1>d DEF Here, DocHeld, ModeLeft
  <2>3. ans = Once
    BY <2>1, <2>2, <1>e, <1>f, HonestMode
  <2>4. /\ pc' = "reparse" /\ r' = r
        /\ UNCHANGED <<canonical, ptrs, resolved, parents, modes>>
    BY <1>8, <2>3 DEF O5Twice, NextMode, fixedO5
  <2> QED
    BY <2>1, <2>4, <1>d, <1>e, CollectedKept
    DEF Clean, Here, DocAccepted, TextKnown, DocHeld, ReferenceReads, ChildWritten,
        NeverRestores, NumbersPromised, ModeLeft, Unparsed, StrictOf, Accepts, Doc
<1>9. CASE O5Done
  BY <1>9, <1>d, CollectedKept, NothingLeft
  DEF O5Done, Return, locals, Clean, Unparsed, sutvars
<1> QED
  BY <1>1, <1>2, <1>3, <1>4, <1>5, <1>6, <1>7, <1>8, <1>9 DEF O5Next

-----------------------------------------------------------------------------
(* O6.  The law is held only where the promise was made, and there the       *)
(* number tokens of the input are among those of its canonical text.         *)
LEMMA O6Alarm == ASSUME TypeInv, AlarmInv, O6Next PROVE AlarmInv'
<1>a. Within /\ law = "O6" /\ honest' \in BOOLEAN
  <2>1. TypeInv'
    BY O6Type
  <2> QED
    BY <2>1 DEF O6Next, O6Declared, O6Parse, O6Serialize, O6Reparse, O6Again,
                AcceptedInput, Step, TypeInv, TypeOK
<1>b. input \in Text /\ r \in Result /\ offers \in Offered
  BY DEF TypeInv, TypeOK
<1>c. Promise' /\ Promise
  BY <1>a, PromiseKept DEF AlarmInv, Within
<1> SUFFICES ASSUME honest', WritePathWhole'
             PROVE  Clean' /\ Collected' /\ Here'
  BY <1>c DEF AlarmInv
<1>d. /\ UNCHANGED <<input, strict, comments, offers>> /\ rep' = rep /\ law' = "O6"
      /\ WritePathWhole
      /\ honest => Clean /\ Collected /\ Here /\ StrictOf = strict
  BY <1>a DEF Within, given, AlarmInv, WritePathWhole, StrictOf
<1>1. ASSUME NEW ans \in BoolAnswers, O6Declared(ans) PROVE Clean' /\ Collected' /\ Here'
  <2>1. honest /\ ans = IF offers.numbers THEN "yes" ELSE "no"
    BY <1>1 DEF O6Declared, PreservesCall, Answered
  <2>2. UNCHANGED locals /\ r'.violations = r.violations
    BY <1>1, <2>1, <1>b, Sentinels DEF O6Declared, Skip, Return, Result
  <2>3. Clean' /\ Collected'
    BY <2>1, <2>2, <1>d, CollectedKept DEF locals, Clean
  <2>4. CASE pc' = "return"
    BY <2>3, <2>4, NothingLeft DEF Unparsed
  <2>5. CASE pc' # "return"
    <3>1. ans = "yes" /\ ~comments /\ input \in Scannable /\ Dups[input] = {} /\ pc' = "parse"
      BY <1>1, <2>1, <2>5, Sentinels DEF O6Declared, Skip, Return
    <3>2. offers.numbers
      BY <2>1, <3>1
    <3>3. input \notin TwiceKeyed
      BY <3>1, ScanFinds
    <3> QED
      BY <2>3, <3>1, <3>2, <3>3, <1>d
      DEF Here, DocAccepted, TextKnown, DocHeld, ReferenceReads, ChildWritten,
          NeverRestores, NumbersPromised, ModeLeft, Unparsed
  <2> QED
    BY <2>4, <2>5
<1>2. ASSUME NEW ans \in ParseAnswers, O6Parse(ans) PROVE Clean' /\ Collected' /\ Here'
  BY <1>2, <1>d, InputAlarm DEF O6Parse, Routine
<1>3. ASSUME NEW ans \in TextAnswers, O6Serialize(ans) PROVE Clean' /\ Collected' /\ Here'
  <2>1. SerializeCall(ans) /\ pc = "serialize" /\ honest
    BY <1>3 DEF O6Serialize, Step, SerializeCall, Answered
  <2>2. Accepts(input, strict) /\ model = Holding(Doc)
    BY <2>1, <1>d DEF Here, DocAccepted, DocHeld, Unparsed
  <2>3. Doc \in Value /\ Canon[Doc] \in Text
    BY <1>b, <2>2, AcceptedDoc
  <2>4. ans = Canon[Doc] /\ ans # Threw /\ model' = model
    BY <2>1, <2>2, <2>3, HonestSerialize, Sentinels
  <2>5. /\ pc' = "reparse" /\ canonical' = Canon[Doc]
        /\ UNCHANGED <<r, ptrs, resolved, parents, modes>>
    BY <1>3, <2>4 DEF O6Serialize
  <2> QED
    BY <2>1, <2>2, <2>4, <2>5, <1>a, <1>d, CollectedKept
    DEF Clean, Here, DocAccepted, TextKnown, DocHeld, ReferenceReads, ChildWritten,
        NeverRestores, NumbersPromised, ModeLeft, Unparsed, StrictOf, Accepts, Doc
<1>4. ASSUME NEW ans \in ParseAnswers, O6Reparse(ans) PROVE Clean' /\ Collected' /\ Here'
  <2>1. ParseCall(canonical, strict, ans) /\ pc = "reparse" /\ honest
    BY <1>4, HonestParse DEF O6Reparse, Step
  <2>2. Accepts(input, strict) /\ canonical = Canon[Doc]
    BY <2>1, <1>d DEF Here, DocAccepted, TextKnown, Unparsed
  <2>3. Accepts(Canon[Doc], strict) /\ Reads[Canon[Doc]] = Doc
    BY <1>b, <2>2, AcceptedDoc
  <2>4. ans = "accepted" /\ model' = Holding(Doc)
    BY <2>1, <2>2, <2>3, HonestParse
  <2>5. pc' = "again" /\ UNCHANGED <<r, canonical, ptrs, resolved, parents, modes>>
    BY <1>4, <2>4 DEF O6Reparse, locals
  <2> QED
    BY <2>1, <2>2, <2>4, <2>5, <1>a, <1>d, CollectedKept
    DEF Clean, Here, DocAccepted, TextKnown, DocHeld, ReferenceReads, ChildWritten,
        NeverRestores, NumbersPromised, ModeLeft, Unparsed, StrictOf, Accepts, Doc
<1>5. ASSUME NEW ans \in TextAnswers, O6Again(ans) PROVE Clean' /\ Collected' /\ Here'
  <2>1. SerializeCall(ans) /\ pc = "again" /\ honest
    BY <1>5 DEF O6Again, Step, SerializeCall, Answered
  <2>2. Accepts(input, strict) /\ model = Holding(Doc)
    BY <2>1, <1>d DEF Here, DocAccepted, DocHeld, Unparsed
  <2>3. Doc \in Value /\ Canon[Doc] \in Text
    BY <1>b, <2>2, AcceptedDoc
  <2>4. ans = Canon[Doc] /\ ans # Threw
    BY <2>1, <2>2, <2>3, HonestSerialize, Sentinels
  <2>5. LostTokens(ans) = {}
    <3>1. ~comments /\ input \notin TwiceKeyed /\ offers.numbers
      BY <2>1, <1>a, <1>d DEF Here, NumbersPromised
    <3>2. input \notin Commented /\ Reads[input] # NoValue
      BY <2>2, <3>1 DEF Accepts
    <3>3. \A k \in Token : Tokens[input][k] =< Tokens[Canon[Doc]][k]
      BY <3>1, <3>2, <1>c DEF Promise, TokensSurvive, Doc
    <3>4. \A k \in Token : Tokens[input][k] \in Nat /\ Tokens[Canon[Doc]][k] \in Nat
      BY <2>3, <1>b, ConstantTypes
    <3> QED
      BY <2>4, <3>3, <3>4 DEF LostTokens
  <2>6. pc' = "return" /\ UNCHANGED locals /\ r'.violations = r.violations
    <3>1. {Violates("O6", "number lost", NoPointer) : k \in LostTokens(ans)} = {}
      BY <2>5
    <3>2. Return([r EXCEPT !.evaluated = TRUE, !.violations = @ \cup {}])
      BY <1>5, <2>4, <3>1 DEF O6Again
    <3> QED
      BY <3>2, <1>b DEF Return, Result
  <2> QED
    BY <2>1, <2>6, <1>d, CollectedKept, NothingLeft DEF locals, Clean, Unparsed
<1> QED
  BY <1>1, <1>2, <1>3, <1>4, <1>5 DEF O6Next

(* O7.  What a strict parse accepts, a lazy one accepts as the same document. *)
LEMMA O7Alarm == ASSUME TypeInv, AlarmInv, O7Next PROVE AlarmInv'
<1>a. Within /\ law = "O7" /\ honest' \in BOOLEAN
  <2>1. TypeInv'
    BY O7Type
  <2> QED
    BY <2>1 DEF O7Next, O7Strict, O7StrictText, O7Lazy, O7LazyText,
                AcceptedInput, Step, TypeInv, TypeOK
<1>b. input \in Text /\ r \in Result
  BY DEF TypeInv, TypeOK
<1>c. Promise'
  BY <1>a, PromiseKept DEF AlarmInv, Within
<1> SUFFICES ASSUME honest', WritePathWhole'
             PROVE  Clean' /\ Collected' /\ Here'
  BY <1>c DEF AlarmInv
<1>d. /\ UNCHANGED <<input, strict, comments, offers>> /\ rep' = rep /\ law' = "O7"
      /\ WritePathWhole
      /\ honest => Clean /\ Collected /\ Here /\ StrictOf = TRUE
  BY <1>a DEF Within, given, AlarmInv, WritePathWhole, StrictOf
<1>1. ASSUME NEW ans \in ParseAnswers, O7Strict(ans) PROVE Clean' /\ Collected' /\ Here'
  BY <1>1, <1>d, InputAlarm DEF O7Strict, Routine
<1>2. ASSUME NEW ans \in TextAnswers, O7StrictText(ans) PROVE Clean' /\ Collected' /\ Here'
  <2>1. SerializeCall(ans) /\ pc = "serialize" /\ honest
    BY <1>2 DEF O7StrictText, Step, SerializeCall, Answered
  <2>2. Accepts(input, TRUE) /\ model = Holding(Doc)
    BY <2>1, <1>d DEF Here, DocAccepted, DocHeld, Unparsed
  <2>3. Doc \in Value /\ Canon[Doc] \in Text
    BY <1>b, <2>2, AcceptedDoc
  <2>4. ans = Canon[Doc] /\ ans # Threw /\ model' = model
    BY <2>1, <2>2, <2>3, HonestSerialize, Sentinels
  <2>5. /\ pc' = "lazy" /\ canonical' = Canon[Doc] /\ r'.violations = r.violations
        /\ UNCHANGED <<ptrs, resolved, parents, modes>>
    BY <1>2, <2>4, <1>b DEF O7StrictText, Result
  <2> QED
    BY <2>1, <2>2, <2>4, <2>5, <1>d, CollectedKept
    DEF Clean, Here, DocAccepted, TextKnown, DocHeld, ReferenceReads, ChildWritten,
        NeverRestores, NumbersPromised, ModeLeft, Unparsed, StrictOf, Accepts, Doc
<1>3. ASSUME NEW ans \in ParseAnswers, O7Lazy(ans) PROVE Clean' /\ Collected' /\ Here'
  <2>1. ParseCall(input, FALSE, ans) /\ pc = "lazy" /\ honest
    BY <1>3, HonestParse DEF O7Lazy, Step
  <2>2. Accepts(input, TRUE) /\ canonical = Canon[Doc]
    BY <2>1, <1>d DEF Here, DocAccepted, TextKnown, Unparsed
  <2>3. Accepts(input, FALSE)
    BY <2>2 DEF Accepts
  <2>4. ans = "accepted" /\ model' = Holding(Doc)
    BY <2>1, <2>3, HonestParse DEF Doc
  <2>5. pc' = "lazytext" /\ UNCHANGED <<r, locals>>
    BY <1>3, <2>4, Sentinels DEF O7Lazy
  <2> QED
    BY <2>1, <2>2, <2>4, <2>5, <1>d, CollectedKept
    DEF locals, Clean, Here, DocAccepted, TextKnown, DocHeld, ReferenceReads, ChildWritten,
        NeverRestores, NumbersPromised, ModeLeft, Unparsed, StrictOf, Accepts, Doc
<1>4. ASSUME NEW ans \in TextAnswers, O7LazyText(ans) PROVE Clean' /\ Collected' /\ Here'
  <2>1. SerializeCall(ans) /\ pc = "lazytext" /\ honest
    BY <1>4 DEF O7LazyText, Step, SerializeCall, Answered
  <2>2. Accepts(input, TRUE) /\ model = Holding(Doc) /\ canonical = Canon[Doc]
    BY <2>1, <1>d DEF Here, DocAccepted, DocHeld, TextKnown, Unparsed
  <2>3. Doc \in Value /\ Canon[Doc] \in Text
    BY <1>b, <2>2, AcceptedDoc
  <2>4. ans = canonical /\ ans # Threw
    BY <2>1, <2>2, <2>3, HonestSerialize, Sentinels
  <2>5. pc' = "return" /\ UNCHANGED locals /\ r' = r
    BY <1>4, <2>4 DEF O7LazyText, Return
  <2> QED
    BY <2>1, <2>5, <1>d, CollectedKept, NothingLeft DEF locals, Clean, Unparsed
<1> QED
  BY <1>1, <1>2, <1>3, <1>4 DEF O7Next

-----------------------------------------------------------------------------
(* Between laws: what the routine found joins the report, its locals die.    *)
LEMMA AddAlarm == ASSUME TypeInv, AlarmInv, Add PROVE AlarmInv'
<1>1. /\ UNCHANGED <<given, honest>> /\ r'.violations = {}
      /\ rep'.violations = rep.violations \cup r.violations
  BY DEF Add, NoResult, Merged, WithFindings
<1>2. Promise'
  BY <1>1, PromiseKept DEF AlarmInv
<1>3. ptrs' = << >> /\ resolved' = << >> /\ parents' = << >> /\ modes' = << >>
  BY DEF Add
<1>4. Collected'
  BY <1>3 DEF Collected, Resolves, TextsAccepted, ParentsGood, ModesGood
<1>5. Here'
  <2>1. pc' \in Unparsed
    BY DEF Add, FirstStep, Unparsed
  <2>2. law' = "O6" => pc' \in {"declared", "return"}
    BY DEF Add, FirstStep
  <2> QED
    BY <2>1, <2>2, NothingLeft
<1>6. honest' /\ WritePathWhole' => Clean'
  BY <1>1 DEF AlarmInv, Clean, WritePathWhole, given
<1> QED
  BY <1>2, <1>4, <1>5, <1>6 DEF AlarmInv

(* A run starts with nothing found, collected or relied on.                  *)
LEMMA AlarmInit == Init => AlarmInv
<1> SUFFICES ASSUME Init PROVE AlarmInv
  OBVIOUS
<1>1. Promise
  BY DEF Init, SutInit, Promise
<1>2. Clean
  BY DEF Init, OracleInit, NoResult, Clean
<1>3. ptrs = << >> /\ resolved = << >> /\ parents = << >> /\ modes = << >>
  BY DEF Init, OracleInit, NoLocals
<1>4. Collected
  BY <1>3 DEF Collected, Resolves, TextsAccepted, ParentsGood, ModesGood
<1>5. PICK p \in Plans : law = Head(p) /\ pc = FirstStep(Head(p))
  BY DEF Init, OracleInit
<1>6. Here
  BY <1>5 DEF FirstStep, Here, DocAccepted, TextKnown, DocHeld, ReferenceReads, ChildWritten,
              NeverRestores, NumbersPromised, ModeLeft, Unparsed
<1> QED
  BY <1>1, <1>2, <1>4, <1>6 DEF AlarmInv

(* Every step, and every stutter, keeps the invariant.                       *)
LEMMA AlarmStep == TypeInv /\ AlarmInv /\ [Next]_vars => AlarmInv'
<1>1. ASSUME AlarmInv, UNCHANGED vars PROVE AlarmInv'
  <2>1. UNCHANGED <<given, sutvars, law, pc, r, rep, locals>>
    BY <1>1 DEF vars, control
  <2>2. /\ UNCHANGED <<input, strict, comments, offers, model, honest, law, pc, r, rep>>
        /\ UNCHANGED <<canonical, ptrs, resolved, parents, i, count, modes>>
    BY <2>1 DEF given, sutvars, locals
  <2>3. Promise'
    BY <1>1, <2>1, PromiseKept DEF AlarmInv
  <2>4. Collected => Collected'
    BY <2>2, CollectedKept
  <2>5. Clean => Clean'
    BY <2>2 DEF Clean
  <2>6. FreshPointer' = FreshPointer /\ SetValue' = SetValue
    BY <2>2 DEF FreshPointer, SetValue
  <2>7. Here => Here'
    BY <2>2, <2>6
    DEF Here, DocAccepted, TextKnown, DocHeld, ReferenceReads, ChildWritten, NeverRestores,
        NumbersPromised, ModeLeft, Unparsed, StrictOf, Accepts, Doc
  <2> QED
    BY <1>1, <2>2, <2>3, <2>4, <2>5, <2>7 DEF AlarmInv, WritePathWhole
<1> QED
  BY <1>1, V01Alarm, O3Alarm, O4Alarm, O5Alarm, O6Alarm, O7Alarm, AddAlarm DEF Next

(* No false alarm: a SUT every answer of which is one the contract in        *)
(* sut.hpp allows, and that offers remove() whenever it offers set(), is     *)
(* never blamed by any law, for any input, any documents and any plan of     *)
(* oracle calls.                                                             *)
THEOREM NeverBlamesHonest == Spec => []NoFalseAlarm
<1>1. Init => TypeInv /\ AlarmInv
  BY TypeInit, AlarmInit
<1>2. (TypeInv /\ AlarmInv) /\ [Next]_vars => (TypeInv /\ AlarmInv)'
  BY TypeStep, AlarmStep
<1>3. TypeInv /\ AlarmInv => NoFalseAlarm
  BY DEF AlarmInv, Clean, NoFalseAlarm
<1> QED
  BY <1>1, <1>2, <1>3, PTL DEF Spec

(* Where the invariant holds, O4 writes to an untouched document, and where  *)
(* nothing is: the chosen parent is one the reference and the SUT agree on.  *)
LEMMA AlarmFresh == TypeInv /\ AlarmInv /\ WritePathWhole => WritesAreFresh
<1> SUFFICES ASSUME TypeInv, AlarmInv, WritePathWhole, honest, Step("O4", "write"),
                    parents # << >>
             PROVE  Untouched /\ FreshPointer \in Addable[model.doc]
  BY DEF WritesAreFresh
<1>1. Collected /\ Here /\ pc = "write" /\ law = "O4" /\ input \in Text
  BY DEF AlarmInv, Step, TypeInv, TypeOK
<1>2. model = Holding(Doc) /\ Doc \in Value /\ Ref[Canon[Doc]] # NoValue
  <2>1. model = Holding(Doc) /\ Accepts(input, StrictOf)
    BY <1>1 DEF Here, DocHeld, DocAccepted, Unparsed
  <2>2. canonical = Canon[Doc] /\ Ref[canonical] # NoValue
    BY <1>1 DEF Here, TextKnown, ReferenceReads, Unparsed
  <2> QED
    BY <1>1, <2>1, <2>2, AcceptedDoc
<1>3. GoodParent(Head(parents)) /\ Head(parents) \in Parent
  <2>1. parents \in Seq(Parent) /\ Head(parents) = parents[1] /\ 1 \in DOMAIN parents
    BY DEF TypeInv, TypeOK
  <2> QED
    BY <1>1, <2>1, HeadTail DEF Collected, ParentsGood
<1>4. FreshPointer \in Addable[Doc]
  BY <1>2, <1>3, FreshIsAddable DEF GoodParent, Parent, FreshPointer
<1> QED
  BY <1>2, <1>4 DEF Holding, Untouched

(* O4 writes to an honest SUT with a whole write path only where nothing is: *)
(* nothing written for an earlier parent is left, and the pointer it sets    *)
(* does not resolve in the document, for any documents and any parents.      *)
THEOREM HonestWritesAreFresh == Spec => [](WritePathWhole => WritesAreFresh)
<1>1. Init => TypeInv /\ AlarmInv
  BY TypeInit, AlarmInit
<1>2. (TypeInv /\ AlarmInv) /\ [Next]_vars => (TypeInv /\ AlarmInv)'
  BY TypeStep, AlarmStep
<1>3. TypeInv /\ AlarmInv => (WritePathWhole => WritesAreFresh)
  BY AlarmFresh
<1> QED
  BY <1>1, <1>2, <1>3, PTL DEF Spec
=============================================================================
