------------------------- MODULE CheckAll_proofs -------------------------
(***************************************************************************)
(* Proofs about CheckAll for every value of its constants: the types, then *)
(* what a report is worth, whatever the SUT answers - a skipped law is     *)
(* never an evaluated one, no finding is lost on its way there, and the    *)
(* report keeps what the oracle's API promises (Verdicts).                 *)
(***************************************************************************)
EXTENDS CheckAll, SequenceTheorems, TLAPS

(* What the types rest on: a text to compare with, and a parent to write     *)
(* into, exist where they are used.                                          *)
LocalsReady ==
  /\ Step("O1O2", "reparse") \/ Step("O6", "reparse") \/ Step("O4", "pointers") =>
       canonical \in Text
  /\ pc \in {"choose", "write", "get", "remove", "after", "restore", "reserialize"} =>
       law = "O4" /\ canonical \in Text
  /\ pc \in {"get", "remove", "after", "restore", "reserialize"} => parents # << >>
  /\ pc = "count" => modes = << >>

TypeInv == TypeOK /\ LocalsReady

(* Calls keep the history variables well typed, whatever the SUT answers.    *)
LEMMA ParseCallType ==
  ASSUME TypeOK, NEW t \in Text, NEW st, NEW ans, ParseCall(t, st, ans)
  PROVE  model' \in Model /\ honest' \in BOOLEAN
BY ConstantTypes DEF TypeOK, ParseCall, Answered, Holding, NoModel, Model, Accepts

(* A call that leaves the model alone keeps it well typed.                   *)
LEMMA ReadCallType ==
  ASSUME TypeOK, NEW op, NEW arg, NEW ans, NEW right, Answered(op, arg, ans, right, model)
  PROVE  model' \in Model /\ honest' \in BOOLEAN
BY DEF TypeOK, Answered, NoModel, Model

(* set() adds a member to the model, or replaces one.                        *)
LEMMA SetCallType ==
  ASSUME TypeOK, NEW p \in Pointer, NEW v \in Value \cup {NoValue}, NEW ans, SetCall(p, v, ans)
  PROVE  model' \in Model /\ honest' \in BOOLEAN
BY ConstantTypes DEF TypeOK, SetCall, Answered, NoModel, Model

(* remove() takes one out of it.                                             *)
LEMMA RemoveCallType ==
  ASSUME TypeOK, NEW p \in Pointer, NEW ans, RemoveCall(p, ans)
  PROVE  model' \in Model /\ honest' \in BOOLEAN
BY ConstantTypes DEF TypeOK, RemoveCall, Answered, NoModel, Model

-----------------------------------------------------------------------------
(* Every initial state is well typed.                                        *)
LEMMA TypeInit == Init => TypeInv
<1> SUFFICES ASSUME Init PROVE TypeInv
  OBVIOUS
<1>1. input \in Text /\ strict \in BOOLEAN /\ comments \in BOOLEAN /\ offers \in Offered
  BY ConstantTypes DEF Init, SutInit
<1>2. model \in Model /\ honest \in BOOLEAN
  BY DEF Init, SutInit, NoModel, Model
<1>3. PICK p \in Plans : law = Head(p) /\ plan = Tail(p) /\ pc = FirstStep(Head(p))
  BY DEF Init, OracleInit
<1>4. law \in Routine /\ plan \in Seq(Routine) /\ pc \in {"count", "declared", "parse"}
  <2>1. p \in Seq(Routine) /\ p # << >>
    BY PlansAssumption
  <2>2. Head(p) \in Routine /\ Tail(p) \in Seq(Routine)
    BY <2>1
  <2> QED
    BY <1>3, <2>2 DEF FirstStep
<1>5. r \in Result
  BY DEF Init, OracleInit, NoResult, Result, Reasons
<1>6. rep \in Report
  BY DEF Init, OracleInit, Report, Reasons
<1>7. /\ canonical \in Text \cup {NoText} /\ ptrs \in Seq(Pointer)
      /\ resolved \in Seq(Resolved) /\ parents \in Seq(Parent)
      /\ Len(parents) =< kSetRemoveParents /\ i \in Nat
      /\ count \in 0 .. MaxModes /\ modes = << >> /\ modes \in Seq(Text) /\ Len(modes) =< count
  <2>1. NoLocals
    BY DEF Init, OracleInit
  <2>2. MaxModes \in Nat
    BY ConstantTypes
  <2> QED
    BY <2>1, <2>2 DEF NoLocals, kSetRemoveParents
<1> QED
  BY <1>1, <1>2, <1>4, <1>5, <1>6, <1>7 DEF TypeInv, TypeOK, LocalsReady, Steps, Step

(* A blame of a law, with a message, at a pointer, is a result.              *)
LEMMA BlamedType ==
  ASSUME r \in Result, NEW L \in Law, NEW what \in Messages, NEW p \in Pointer \cup {NoPointer}
  PROVE  Blamed(L, what, p) \in Result
BY DEF Result, Blamed, Violates, Violation

(* The head and the tail of a sequence that is not empty.                    *)
LEMMA HeadTail ==
  ASSUME NEW S, NEW s \in Seq(S), s # << >>
  PROVE  Head(s) \in S /\ Tail(s) \in Seq(S) /\ Len(Tail(s)) = Len(s) - 1
OBVIOUS

(* Every step of check_v01() keeps the types.                                *)
LEMMA V01Type == ASSUME TypeInv, V01Next PROVE TypeInv'
<1> USE DEF TypeInv
<1>a. r \in Result
  BY DEF TypeOK
<1>b. ptrs \in Seq(Pointer) /\ resolved \in Seq(Resolved)
  BY DEF TypeOK
<1>1. ASSUME NEW ans \in ParseAnswers, V01Parse(ans) PROVE TypeInv'
  <2>1. model' \in Model /\ honest' \in BOOLEAN
    BY <1>1, ParseCallType, ConstantTypes DEF V01Parse, TypeOK
  <2> QED
    BY <1>1, <2>1
    DEF V01Parse, TypeOK, LocalsReady, Within, given, locals, Return, Steps, Step, Result
<1>2. ASSUME NEW ans \in ParseAnswers, V01Reparse(ans) PROVE TypeInv'
  <2>1. model' \in Model /\ honest' \in BOOLEAN
    BY <1>2, ParseCallType DEF V01Reparse, LocalsReady
  <2>2. Blamed("O1", "does not reparse", NoPointer) \in Result
    BY <1>a, BlamedType DEF Law, Messages
  <2> QED
    BY <1>2, <2>1, <2>2 DEF V01Reparse, TypeOK, LocalsReady, Within, given, locals, Steps, Step
<1>3. ASSUME NEW ans \in ParseAnswers, V01GetReparse(ans) PROVE TypeInv'
  <2>1. Head(resolved) \in Resolved /\ Tail(resolved) \in Seq(Resolved)
    <3>1. resolved # << >>
      BY <1>3 DEF V01GetReparse
    <3> QED
      BY <3>1, <1>b, HeadTail
  <2>2. model' \in Model /\ honest' \in BOOLEAN
    BY <1>3, <2>1, ParseCallType DEF V01GetReparse, Resolved
  <2>3. Blamed("O2", "does not reparse", Head(resolved).ptr) \in Result
    BY <1>a, <2>1, BlamedType DEF Law, Messages, Resolved
  <2> QED
    BY <1>3, <2>1, <2>2, <2>3
    DEF V01GetReparse, TypeOK, LocalsReady, Within, given, locals, Steps, Step
<1>4. ASSUME NEW ans \in TextAnswers, V01Serialize(ans) PROVE TypeInv'
  <2>1. model' \in Model /\ honest' \in BOOLEAN
    BY <1>4, ReadCallType DEF V01Serialize, SerializeCall
  <2>2. Blamed("O1", "serialize threw", NoPointer) \in Result
    BY <1>a, BlamedType DEF Law, Messages
  <2>3. ans # Threw => ans \in Text
    BY ConstantTypes DEF TextAnswers
  <2> QED
    BY <1>4, <2>1, <2>2, <2>3
    DEF V01Serialize, TypeOK, LocalsReady, Within, given, locals, Return, Steps, Step
<1>5. ASSUME NEW ans \in TextAnswers, V01Again(ans) PROVE TypeInv'
  <2>1. model' \in Model /\ honest' \in BOOLEAN
    BY <1>5, ReadCallType DEF V01Again, SerializeCall
  <2>2. Blamed("O1", "not byte-identical", NoPointer) \in Result
    BY <1>a, BlamedType DEF Law, Messages
  <2>3. r' \in Result
    BY <1>5, <2>2 DEF V01Again, TypeOK
  <2> QED
    BY <1>5, <2>1, <2>3 DEF V01Again, TypeOK, LocalsReady, Within, given, locals, Steps, Step
<1>6. ASSUME NEW ans \in PointersAnswers, V01Pointers(ans) PROVE TypeInv'
  <2>1. model' \in Model /\ honest' \in BOOLEAN
    BY <1>6, ReadCallType DEF V01Pointers, PointersCall
  <2>2. Blamed("O2", "pointers threw", NoPointer) \in Result
    BY <1>a, BlamedType DEF Law, Messages
  <2>3. ans # Threw => ans \in Seq(Pointer)
    BY ConstantTypes DEF PointersAnswers
  <2> QED
    BY <1>6, <2>1, <2>2, <2>3
    DEF V01Pointers, TypeOK, LocalsReady, Within, given, locals, Return, Steps, Step
<1>7. ASSUME NEW ans \in GetAnswers, V01Get(ans) PROVE TypeInv'
  <2>1. model' \in Model /\ honest' \in BOOLEAN
    BY <1>7, ReadCallType DEF V01Get, GetCall
  <2>2. Head(ptrs) \in Pointer /\ Tail(ptrs) \in Seq(Pointer)
    <3>1. ptrs # << >>
      BY <1>7 DEF V01Get
    <3> QED
      BY <3>1, <1>b, HeadTail
  <2>3. /\ Blamed("O2", "get threw", Head(ptrs)) \in Result
        /\ Blamed("O2", "no value", Head(ptrs)) \in Result
    BY <1>a, <2>2, BlamedType DEF Law, Messages
  <2>4. r' \in Result
    BY <1>7, <2>3 DEF V01Get, TypeOK
  <2>5. resolved' \in Seq(Resolved)
    <3>1. ans \in Text => [ptr |-> Head(ptrs), text |-> ans] \in Resolved
      BY <2>2 DEF Resolved
    <3>2. \/ resolved' = resolved
          \/ ans \in Text /\ resolved' = Append(resolved, [ptr |-> Head(ptrs), text |-> ans])
      BY <1>7 DEF V01Get
    <3> QED
      BY <1>b, <3>1, <3>2
  <2> QED
    BY <1>7, <2>1, <2>2, <2>4, <2>5
    DEF V01Get, TypeOK, LocalsReady, Within, given, locals, Steps, Step
<1>8. CASE V01PhaseB
  BY <1>8 DEF V01PhaseB, TypeOK, LocalsReady, Within, given, sutvars, locals, Steps, Step
<1>9. CASE V01Done
  BY <1>9 DEF V01Done, TypeOK, LocalsReady, Within, given, sutvars, locals, Return, Steps, Step
<1> QED
  BY <1>1, <1>2, <1>3, <1>4, <1>5, <1>6, <1>7, <1>8, <1>9 DEF V01Next

(* accepted_input() keeps the types, in every routine that begins with it.   *)
LEMMA AcceptedInputType ==
  ASSUME TypeInv, NEW rt \in Routine, NEW st, NEW ans \in ParseAnswers,
         AcceptedInput(rt, st, "serialize", ans)
  PROVE  TypeInv'
<1>1. model' \in Model /\ honest' \in BOOLEAN
  BY ParseCallType, ConstantTypes DEF AcceptedInput, TypeInv, TypeOK
<1>2. /\ [r EXCEPT !.reason = "rejected"] \in Result
      /\ [r EXCEPT !.reason = "parse threw"] \in Result
  BY DEF TypeInv, TypeOK, Result, Reasons
<1> QED
  BY <1>1, <1>2, Sentinels
  DEF AcceptedInput, Skip, ParseAnswers, TypeInv, TypeOK, LocalsReady, Within, given, locals,
      Return, Steps, Step

(* enumerated() keeps the types, in O3 and in O4.                            *)
LEMMA EnumeratedType ==
  ASSUME TypeInv, NEW rt \in {"O3", "O4"}, NEW next, NEW result \in Result,
         next = IF rt = "O3" THEN "walk" ELSE "choose",
         NEW ans \in PointersAnswers, Enumerated(rt, next, result, ans)
  PROVE  TypeInv'
<1>1. model' \in Model /\ honest' \in BOOLEAN
  BY ReadCallType DEF Enumerated, PointersCall, TypeInv
<1>2. Blamed(rt, "pointers threw", NoPointer) \in Result
  <2>1. r \in Result
    BY DEF TypeInv, TypeOK
  <2> QED
    BY <2>1, BlamedType DEF Law, Messages
<1>3. ans # Threw => ans \in Seq(Pointer)
  BY ConstantTypes DEF PointersAnswers
<1> QED
  BY <1>1, <1>2, <1>3
  DEF Enumerated, TypeInv, TypeOK, LocalsReady, Within, given, locals, Return, Steps, Step

(* Every step of check_pointer_values() keeps the types.                     *)
LEMMA O3Type == ASSUME TypeInv, O3Next PROVE TypeInv'
<1> USE DEF TypeInv
<1>a. r \in Result
  BY DEF TypeOK
<1>b. ptrs \in Seq(Pointer)
  BY DEF TypeOK
<1>1. ASSUME NEW ans \in ParseAnswers, O3Parse(ans) PROVE TypeInv'
  BY <1>1, AcceptedInputType DEF O3Parse, Routine
<1>2. ASSUME NEW ans \in TextAnswers, O3Serialize(ans) PROVE TypeInv'
  <2>1. model' \in Model /\ honest' \in BOOLEAN
    BY <1>2, ReadCallType DEF O3Serialize, SerializeCall
  <2>2. /\ Blamed("O3", "serialize threw", NoPointer) \in Result
        /\ [r EXCEPT !.reason = "reference cannot model"] \in Result
    <3>1. Blamed("O3", "serialize threw", NoPointer) \in Result
      BY <1>a, BlamedType DEF Law, Messages
    <3> QED
      BY <1>a, <3>1 DEF Result, Reasons
  <2>3. ans # Threw => ans \in Text
    BY ConstantTypes DEF TextAnswers
  <2> QED
    BY <1>2, <2>1, <2>2, <2>3
    DEF O3Serialize, Skip, TypeOK, LocalsReady, Within, given, locals, Return, Steps, Step
<1>3. ASSUME NEW ans \in PointersAnswers, O3Pointers(ans) PROVE TypeInv'
  <2>1. [r EXCEPT !.evaluated = TRUE] \in Result
    BY <1>a DEF Result
  <2> QED
    BY <1>3, <2>1, EnumeratedType DEF O3Pointers
<1>4. CASE O3PassOver \/ O3Unresolved
  <2>1. Head(ptrs) \in Pointer /\ Tail(ptrs) \in Seq(Pointer)
    <3>1. ptrs # << >>
      BY <1>4 DEF O3PassOver, O3Unresolved
    <3> QED
      BY <3>1, <1>b, HeadTail
  <2>2. Blamed("O3", "not in the reference", Head(ptrs)) \in Result
    BY <1>a, <2>1, BlamedType DEF Law, Messages
  <2> QED
    BY <1>4, <2>1, <2>2
    DEF O3PassOver, O3Unresolved, NextPointer, sutvars, TypeOK, LocalsReady, Within, given,
        locals, Steps, Step
<1>5. ASSUME NEW ans \in GetAnswers, O3Get(ans) PROVE TypeInv'
  <2>1. model' \in Model /\ honest' \in BOOLEAN
    BY <1>5, ReadCallType DEF O3Get, GetCall
  <2>2. Head(ptrs) \in Pointer /\ Tail(ptrs) \in Seq(Pointer)
    <3>1. ptrs # << >>
      BY <1>5 DEF O3Get
    <3> QED
      BY <3>1, <1>b, HeadTail
  <2>3. Blamed("O3", GetFault(ans), Head(ptrs)) \in Result
    <3>1. GetFault(ans) \in Messages
      BY DEF GetFault, Messages
    <3> QED
      BY <1>a, <2>2, <3>1, BlamedType DEF Law
  <2>4. r' \in Result
    BY <1>5, <1>a, <2>3 DEF O3Get
  <2> QED
    BY <1>5, <2>1, <2>2, <2>4
    DEF O3Get, NextPointer, TypeOK, LocalsReady, Within, given, locals, Steps, Step
<1>6. CASE O3Done
  BY <1>6 DEF O3Done, sutvars, TypeOK, LocalsReady, Within, given, locals, Return, Steps, Step
<1> QED
  BY <1>1, <1>2, <1>3, <1>4, <1>5, <1>6 DEF O3Next

(* Under a parent that was chosen there is a fresh child pointer.            *)
LEMMA FreshPointerType ==
  ASSUME TypeOK, parents # << >>
  PROVE  FreshPointer \in Pointer
<1>1. parents \in Seq(Parent)
  BY DEF TypeOK
<1>2. Head(parents) \in Parent
  BY <1>1, HeadTail
<1> QED
  BY <1>2, ConstantTypes DEF FreshPointer, Parent

(* The index into kSetValues stays inside it, however many parents there     *)
(* are.                                                                      *)
LEMMA SetValueIndex ==
  ASSUME TypeOK
  PROVE  (i % Len(SetValues)) + 1 \in 1 .. Len(SetValues) /\ SetValue \in Text
<1>1. i \in Nat /\ SetValues \in Seq(Text) /\ Len(SetValues) \in Nat \ {0}
  BY ConstantTypes DEF TypeOK
<1>2. (i % Len(SetValues)) + 1 \in 1 .. Len(SetValues)
  BY <1>1
<1> QED
  BY <1>1, <1>2 DEF SetValue

(* Every step of check_set_remove() keeps the types.                         *)
LEMMA O4Type == ASSUME TypeInv, O4Next PROVE TypeInv'
<1> USE DEF TypeInv
<1>a. r \in Result
  BY DEF TypeOK
<1>b. ptrs \in Seq(Pointer) /\ parents \in Seq(Parent)
  BY DEF TypeOK
<1>c. parents # << >> => FreshPointer \in Pointer
  BY FreshPointerType
<1>d. /\ Blamed("O4", "serialize threw", NoPointer) \in Result
      /\ [r EXCEPT !.reason = "reference cannot model"] \in Result
      /\ [r EXCEPT !.reason = "no container"] \in Result
      /\ [r EXCEPT !.evaluated = FALSE, !.reason = "no write path"] \in Result
      /\ [r EXCEPT !.evaluated = TRUE] \in Result
  <2>1. Blamed("O4", "serialize threw", NoPointer) \in Result
    BY <1>a, BlamedType DEF Law, Messages
  <2> QED
    BY <1>a, <2>1 DEF Result, Reasons
<1>e. ASSUME parents # << >>, NEW what \in Messages
      PROVE  Blamed("O4", what, FreshPointer) \in Result
  BY <1>a, <1>c, <1>e, BlamedType DEF Law
<1>f. ASSUME NEW ans \in TextAnswers, ans # Threw PROVE ans \in Text
  BY <1>f, ConstantTypes DEF TextAnswers
<1>1. ASSUME NEW ans \in ParseAnswers, O4Parse(ans) PROVE TypeInv'
  BY <1>1, AcceptedInputType DEF O4Parse, Routine
<1>2. ASSUME NEW ans \in ParseAnswers, O4Restore(ans) PROVE TypeInv'
  <2>1. model' \in Model /\ honest' \in BOOLEAN
    BY <1>2, ParseCallType DEF O4Restore, LocalsReady, Step
  <2> QED
    BY <1>2, <2>1 DEF O4Restore, TypeOK, LocalsReady, Within, given, locals, Return, Steps, Step
<1>3. ASSUME NEW ans \in TextAnswers, O4Serialize(ans) PROVE TypeInv'
  <2>1. model' \in Model /\ honest' \in BOOLEAN
    BY <1>3, ReadCallType DEF O4Serialize, SerializeCall
  <2> QED
    BY <1>3, <1>d, <1>f, <2>1
    DEF O4Serialize, Skip, TypeOK, LocalsReady, Within, given, locals, Return, Steps, Step
<1>4. ASSUME NEW ans \in TextAnswers, O4After(ans) PROVE TypeInv'
  <2>1. model' \in Model /\ honest' \in BOOLEAN
    BY <1>4, ReadCallType DEF O4After, SerializeCall
  <2>2. parents # << >> /\ law = "O4" /\ canonical \in Text
    BY <1>4 DEF O4After, LocalsReady, Step
  <2>3. Tail(parents) \in Seq(Parent) /\ Len(Tail(parents)) = Len(parents) - 1
    BY <1>b, <2>2, HeadTail
  <2>4. Blamed("O4", "not the canonical text", FreshPointer) \in Result
    BY <1>e, <2>2 DEF Messages
  <2>5. i + 1 \in Nat /\ Len(Tail(parents)) =< kSetRemoveParents
    BY <1>b, <2>3 DEF TypeOK, kSetRemoveParents
  <2>6. CASE ans = canonical /\ r' = r /\ canonical' = canonical /\ NextParent
    BY <1>4, <2>1, <2>2, <2>3, <2>5, <2>6
    DEF O4After, NextParent, TypeOK, LocalsReady, Within, given, Steps, Step
  <2>7. CASE ~(ans = canonical /\ r' = r /\ canonical' = canonical /\ NextParent)
    BY <1>4, <1>d, <2>1, <2>2, <2>4, <2>7
    DEF O4After, TypeOK, LocalsReady, Within, given, locals, Return, Steps, Step
  <2> QED
    BY <2>6, <2>7
<1>5. ASSUME NEW ans \in TextAnswers, O4Reserialize(ans) PROVE TypeInv'
  <2>1. model' \in Model /\ honest' \in BOOLEAN
    BY <1>5, ReadCallType DEF O4Reserialize, SerializeCall
  <2>2. parents # << >> /\ law = "O4"
    BY <1>5 DEF O4Reserialize, LocalsReady, Step
  <2>3. Tail(parents) \in Seq(Parent) /\ Len(Tail(parents)) = Len(parents) - 1
    BY <1>b, <2>2, HeadTail
  <2>4. i + 1 \in Nat /\ Len(Tail(parents)) =< kSetRemoveParents
    BY <1>b, <2>3 DEF TypeOK, kSetRemoveParents
  <2>5. CASE ans = Threw
    BY <1>5, <2>1, <2>5
    DEF O4Reserialize, TypeOK, LocalsReady, Within, given, locals, Return, Steps, Step
  <2>6. CASE ans # Threw
    BY <1>5, <1>f, <2>1, <2>2, <2>3, <2>4, <2>6
    DEF O4Reserialize, NextParent, TypeOK, LocalsReady, Within, given, Steps, Step
  <2> QED
    BY <2>5, <2>6
<1>6. ASSUME NEW ans \in PointersAnswers, O4Pointers(ans) PROVE TypeInv'
  BY <1>a, <1>6, EnumeratedType DEF O4Pointers
<1>7. ASSUME NEW ans \in GetAnswers, O4Get(ans) PROVE TypeInv'
  <2>1. model' \in Model /\ honest' \in BOOLEAN
    BY <1>7, ReadCallType DEF O4Get, GetCall
  <2>2. parents # << >> /\ law = "O4" /\ canonical \in Text
    BY <1>7 DEF O4Get, LocalsReady, Step
  <2>3. Blamed("O4", "did not take", FreshPointer) \in Result
    BY <1>e, <2>2 DEF Messages
  <2> QED
    BY <1>7, <2>1, <2>2, <2>3 DEF O4Get, TypeOK, LocalsReady, Within, given, locals, Steps, Step
<1>8. ASSUME NEW ans \in WriteAnswers, O4Set(ans) PROVE TypeInv'
  <2>1. parents # << >> /\ law = "O4" /\ canonical \in Text
    BY <1>8 DEF O4Set, LocalsReady, Step
  <2>2. model' \in Model /\ honest' \in BOOLEAN
    <3>1. Reads[SetValue] \in Value \cup {NoValue}
      BY ConstantTypes, SetValueIndex
    <3> QED
      BY <1>8, <1>c, <2>1, <3>1, SetCallType DEF O4Set
  <2>3. /\ Blamed("O4", "set threw", FreshPointer) \in Result
        /\ [Blamed("O4", "set refused", FreshPointer) EXCEPT !.evaluated = TRUE] \in Result
    <3>1. /\ Blamed("O4", "set threw", FreshPointer) \in Result
          /\ Blamed("O4", "set refused", FreshPointer) \in Result
      BY <1>e, <2>1 DEF Messages
    <3> QED
      BY <3>1 DEF Result
  <2> QED
    BY <1>8, <1>d, <2>1, <2>2, <2>3, Sentinels
    DEF O4Set, WriteAnswers, TypeOK, LocalsReady, Within, given, locals, Return, Steps, Step
<1>9. ASSUME NEW ans \in WriteAnswers, O4Remove(ans) PROVE TypeInv'
  <2>1. parents # << >> /\ law = "O4" /\ canonical \in Text
    BY <1>9 DEF O4Remove, LocalsReady, Step
  <2>2. model' \in Model /\ honest' \in BOOLEAN
    BY <1>9, <1>c, <2>1, RemoveCallType DEF O4Remove
  <2>3. /\ Blamed("O4", "remove threw", FreshPointer) \in Result
        /\ Blamed("O4", "remove refused", FreshPointer) \in Result
    BY <1>e, <2>1 DEF Messages
  <2>4. r' \in Result
    BY <1>9, <1>a, <2>3 DEF O4Remove
  <2> QED
    BY <1>9, <2>1, <2>2, <2>4 DEF O4Remove, TypeOK, LocalsReady, Within, given, locals, Steps, Step
<1>10. CASE O4Choose
  <2>1. ptrs # << >> /\ canonical \in Text /\ law = "O4"
    BY <1>10 DEF O4Choose, LocalsReady, Step
  <2>2. Head(ptrs) \in Pointer /\ Tail(ptrs) \in Seq(Pointer)
    BY <1>b, <2>1, HeadTail
  <2>3. parents' \in Seq(Parent) /\ Len(parents') =< kSetRemoveParents
    <3>1. IsParent(Head(ptrs)) =>
            [ptr |-> Head(ptrs), node |-> RefAt[Ref[canonical]][Head(ptrs)]] \in Parent
      BY <2>2 DEF IsParent, Parent
    <3>2. CASE IsParent(Head(ptrs))
      BY <1>10, <1>b, <3>1, <3>2 DEF O4Choose, kSetRemoveParents
    <3>3. CASE ~IsParent(Head(ptrs))
      BY <1>10, <1>b, <3>3 DEF O4Choose, kSetRemoveParents
    <3> QED
      BY <3>2, <3>3
  <2> QED
    BY <1>10, <2>1, <2>2, <2>3
    DEF O4Choose, sutvars, TypeOK, LocalsReady, Within, given, locals, Steps, Step
<1>11. CASE O4Chosen
  <2>1. CASE parents = << >>
    BY <1>11, <1>d, <2>1
    DEF O4Chosen, sutvars, Skip, TypeOK, LocalsReady, Within, given, locals, Return, Steps, Step
  <2>2. CASE parents # << >>
    <3>1. /\ pc' = "write" /\ ptrs' = << >> /\ Within
          /\ UNCHANGED <<sutvars, r, canonical, resolved, parents, i, count, modes>>
      BY <1>11, <2>2 DEF O4Chosen
    <3>2. law = "O4" /\ canonical \in Text
      BY <1>11 DEF O4Chosen, LocalsReady, Step
    <3>3. << >> \in Seq(Pointer)
      OBVIOUS
    <3> QED
      BY <3>1, <3>2, <3>3 DEF sutvars, TypeOK, LocalsReady, Within, given, Steps, Step
  <2> QED
    BY <2>1, <2>2
<1>12. CASE O4Done
  BY <1>12 DEF O4Done, sutvars, TypeOK, LocalsReady, Within, given, locals, Return, Steps, Step
<1> QED
  BY <1>1, <1>2, <1>3, <1>4, <1>5, <1>6, <1>7, <1>8, <1>9, <1>10, <1>11, <1>12 DEF O4Next

(* Every step of check_mode_agreement() keeps the types.                     *)
LEMMA O5Type == ASSUME TypeInv, O5Next PROVE TypeInv'
<1> USE DEF TypeInv
<1>a. r \in Result
  BY DEF TypeOK
<1>b. ASSUME NEW ans \in TextAnswers, ans # Threw PROVE ans \in Text
  BY <1>b, ConstantTypes DEF TextAnswers
<1>c. /\ Blamed("O5", "serialize threw", NoPointer) \in Result
      /\ Blamed("O5", "mode count threw", NoPointer) \in Result
      /\ Blamed("O5", "mode threw", NoPointer) \in Result
      /\ Blamed("O5", "does not reparse", NoPointer) \in Result
      /\ Blamed("O5", "different document", NoPointer) \in Result
      /\ Blamed("O5", "not byte-stable", NoPointer) \in Result
  BY <1>a, BlamedType DEF Law, Messages
<1>d. /\ [r EXCEPT !.reason = "single mode"] \in Result
      /\ [r EXCEPT !.evaluated = TRUE] \in Result
  BY <1>a DEF Result, Reasons
<1>e. i \in Nat /\ i + 1 \in Nat
  BY DEF TypeOK
<1>1. ASSUME NEW ans \in CountAnswers, O5Count(ans) PROVE TypeInv'
  <2>1. model' \in Model /\ honest' \in BOOLEAN
    BY <1>1, ReadCallType DEF O5Count, ModeCountCall
  <2>2. ans # Threw => ans \in 0 .. MaxModes
    BY DEF CountAnswers
  <2>3. modes = << >>
    BY <1>1 DEF O5Count, LocalsReady, Step
  <2>4. ans # Threw => Len(modes) =< ans
    BY <2>2, <2>3, ConstantTypes
  <2> QED
    BY <1>1, <1>c, <1>d, <2>1, <2>2, <2>4
    DEF O5Count, Skip, TypeOK, LocalsReady, Within, given, locals, Return, Steps, Step
<1>2. ASSUME NEW ans \in ParseAnswers, O5Parse(ans) PROVE TypeInv'
  BY <1>2, AcceptedInputType DEF O5Parse, Routine
<1>3. ASSUME NEW ans \in ParseAnswers, O5Reparse(ans) PROVE TypeInv'
  <2>1. Once \in Text
    <3>1. i < Len(modes)
      BY <1>3 DEF O5Reparse
    <3>2. modes \in Seq(Text)
      BY DEF TypeOK
    <3>3. i + 1 \in 1 .. Len(modes)
      BY <1>e, <3>1, <3>2
    <3> QED
      BY <3>2, <3>3 DEF Once
  <2>2. model' \in Model /\ honest' \in BOOLEAN
    BY <1>3, <2>1, ParseCallType DEF O5Reparse
  <2> QED
    BY <1>3, <1>c, <1>e, <2>2
    DEF O5Reparse, NextMode, fixedO5, TypeOK, LocalsReady, Within, given, locals, Steps, Step
<1>4. ASSUME NEW ans \in TextAnswers, O5Serialize(ans) PROVE TypeInv'
  <2>1. model' \in Model /\ honest' \in BOOLEAN
    BY <1>4, ReadCallType DEF O5Serialize, SerializeCall
  <2> QED
    BY <1>4, <1>b, <1>c, <2>1
    DEF O5Serialize, TypeOK, LocalsReady, Within, given, locals, Return, Steps, Step
<1>5. ASSUME NEW ans \in TextAnswers, O5Capture(ans) PROVE TypeInv'
  <2>1. model' \in Model /\ honest' \in BOOLEAN
    BY <1>5, ReadCallType DEF O5Capture, SerializeModeCall
  <2>2. CASE ans = Threw
    BY <1>5, <1>c, <2>1, <2>2
    DEF O5Capture, TypeOK, LocalsReady, Within, given, locals, Return, Steps, Step
  <2>3. CASE ans # Threw
    <3>1. ans \in Text /\ modes' = Append(modes, ans) /\ Len(modes) < count
      BY <1>5, <1>b, <2>3 DEF O5Capture
    <3>2. modes' \in Seq(Text) /\ Len(modes') =< count
      BY <3>1 DEF TypeOK
    <3> QED
      BY <1>5, <2>1, <2>3, <3>2
      DEF O5Capture, fixedO5, TypeOK, LocalsReady, Within, given, locals, Steps, Step
  <2> QED
    BY <2>2, <2>3
<1>6. ASSUME NEW ans \in TextAnswers, O5Same(ans) PROVE TypeInv'
  <2>1. model' \in Model /\ honest' \in BOOLEAN
    BY <1>6, ReadCallType DEF O5Same, SerializeCall
  <2> QED
    BY <1>6, <1>c, <2>1 DEF O5Same, TypeOK, LocalsReady, Within, given, locals, Return, Steps, Step
<1>7. ASSUME NEW ans \in TextAnswers, O5Twice(ans) PROVE TypeInv'
  <2>1. model' \in Model /\ honest' \in BOOLEAN
    BY <1>7, ReadCallType DEF O5Twice, SerializeModeCall
  <2>2. r' \in Result
    BY <1>7, <1>a, <1>c DEF O5Twice
  <2> QED
    BY <1>7, <1>e, <2>1, <2>2
    DEF O5Twice, NextMode, fixedO5, TypeOK, LocalsReady, Within, given, locals, Steps, Step
<1>8. CASE O5Captured
  BY <1>8, <1>d DEF O5Captured, sutvars, TypeOK, LocalsReady, Within, given, locals, Steps, Step
<1>9. CASE O5Done
  BY <1>9 DEF O5Done, sutvars, TypeOK, LocalsReady, Within, given, locals, Return, Steps, Step
<1> QED
  BY <1>1, <1>2, <1>3, <1>4, <1>5, <1>6, <1>7, <1>8, <1>9 DEF O5Next

(* Every step of check_number_text() keeps the types.                        *)
LEMMA O6Type == ASSUME TypeInv, O6Next PROVE TypeInv'
<1> USE DEF TypeInv
<1>a. r \in Result
  BY DEF TypeOK
<1>b. ASSUME NEW ans \in TextAnswers, ans # Threw PROVE ans \in Text
  BY <1>b, ConstantTypes DEF TextAnswers
<1>c. /\ Blamed("O6", "serialize threw", NoPointer) \in Result
      /\ Blamed("O6", "declaration threw", NoPointer) \in Result
  BY <1>a, BlamedType DEF Law, Messages
<1>d. \A reason \in Reasons : [r EXCEPT !.reason = reason] \in Result
  BY <1>a DEF Result
<1>1. ASSUME NEW ans \in BoolAnswers, O6Declared(ans) PROVE TypeInv'
  <2>1. model' \in Model /\ honest' \in BOOLEAN
    BY <1>1, ReadCallType DEF O6Declared, PreservesCall
  <2> QED
    BY <1>1, <1>c, <1>d, <2>1
    DEF O6Declared, Skip, Reasons, TypeOK, LocalsReady, Within, given, locals, Return, Steps,
        Step
<1>2. ASSUME NEW ans \in ParseAnswers, O6Parse(ans) PROVE TypeInv'
  BY <1>2, AcceptedInputType DEF O6Parse, Routine
<1>3. ASSUME NEW ans \in ParseAnswers, O6Reparse(ans) PROVE TypeInv'
  <2>1. model' \in Model /\ honest' \in BOOLEAN
    BY <1>3, ParseCallType DEF O6Reparse, LocalsReady
  <2> QED
    BY <1>3, <1>d, <2>1
    DEF O6Reparse, Skip, Reasons, TypeOK, LocalsReady, Within, given, locals, Return, Steps,
        Step
<1>4. ASSUME NEW ans \in TextAnswers, O6Serialize(ans) PROVE TypeInv'
  <2>1. model' \in Model /\ honest' \in BOOLEAN
    BY <1>4, ReadCallType DEF O6Serialize, SerializeCall
  <2> QED
    BY <1>4, <1>b, <1>c, <2>1
    DEF O6Serialize, TypeOK, LocalsReady, Within, given, locals, Return, Steps, Step
<1>5. ASSUME NEW ans \in TextAnswers, O6Again(ans) PROVE TypeInv'
  <2>1. model' \in Model /\ honest' \in BOOLEAN
    BY <1>5, ReadCallType DEF O6Again, SerializeCall
  <2>2. Violates("O6", "number lost", NoPointer) \in Violation
    BY DEF Violates, Violation, Law, Messages
  <2>3. r' \in Result
    <3>1. CASE ans = Threw
      BY <1>5, <1>c, <3>1 DEF O6Again, Return
    <3>2. CASE ans # Threw
      <4> DEFINE lost == {Violates("O6", "number lost", NoPointer) : k \in LostTokens(ans)}
      <4>1. lost \in SUBSET Violation
        BY <2>2
      <4>2. r' = [r EXCEPT !.evaluated = TRUE, !.violations = @ \cup lost]
        BY <1>5, <3>2 DEF O6Again, Return
      <4> HIDE DEF lost
      <4> QED
        BY <1>a, <4>1, <4>2 DEF Result
    <3> QED
      BY <3>1, <3>2
  <2> QED
    BY <1>5, <2>1, <2>3 DEF O6Again, TypeOK, LocalsReady, Within, given, locals, Return, Steps, Step
<1> QED
  BY <1>1, <1>2, <1>3, <1>4, <1>5 DEF O6Next

(* Every step of check_strict_subset() keeps the types.                      *)
LEMMA O7Type == ASSUME TypeInv, O7Next PROVE TypeInv'
<1> USE DEF TypeInv
<1>a. r \in Result
  BY DEF TypeOK
<1>b. ASSUME NEW ans \in TextAnswers, ans # Threw PROVE ans \in Text
  BY <1>b, ConstantTypes DEF TextAnswers
<1>c. \A what \in Messages : Blamed("O7", what, NoPointer) \in Result
  BY <1>a, BlamedType DEF Law
<1>1. ASSUME NEW ans \in ParseAnswers, O7Strict(ans) PROVE TypeInv'
  BY <1>1, AcceptedInputType DEF O7Strict, Routine
<1>2. ASSUME NEW ans \in ParseAnswers, O7Lazy(ans) PROVE TypeInv'
  <2>1. model' \in Model /\ honest' \in BOOLEAN
    BY <1>2, ParseCallType DEF O7Lazy, TypeOK
  <2> QED
    BY <1>2, <1>c, <2>1, Sentinels
    DEF O7Lazy, ParseAnswers, Messages, TypeOK, LocalsReady, Within, given, locals, Return,
        Steps, Step
<1>3. ASSUME NEW ans \in TextAnswers, O7StrictText(ans) PROVE TypeInv'
  <2>1. model' \in Model /\ honest' \in BOOLEAN
    BY <1>3, ReadCallType DEF O7StrictText, SerializeCall
  <2>2. [r EXCEPT !.evaluated = TRUE] \in Result
    BY <1>a DEF Result
  <2> QED
    BY <1>3, <1>b, <1>c, <2>1, <2>2
    DEF O7StrictText, Messages, TypeOK, LocalsReady, Within, given, locals, Return, Steps, Step
<1>4. ASSUME NEW ans \in TextAnswers, O7LazyText(ans) PROVE TypeInv'
  <2>1. model' \in Model /\ honest' \in BOOLEAN
    BY <1>4, ReadCallType DEF O7LazyText, SerializeCall
  <2> QED
    BY <1>4, <1>c, <2>1
    DEF O7LazyText, Messages, TypeOK, LocalsReady, Within, given, locals, Return, Steps, Step
<1> QED
  BY <1>1, <1>2, <1>3, <1>4 DEF O7Next

(* Adding a result to the report keeps the types.                            *)
LEMMA AddType == ASSUME TypeInv, Add PROVE TypeInv'
<1> USE DEF TypeInv
<1>1. law' \in Routine \cup {"done"} /\ plan' \in Seq(Routine)
  <2>1. plan \in Seq(Routine)
    BY DEF TypeOK
  <2>2. CASE plan = << >>
    BY <2>2, <2>1 DEF Add
  <2>3. CASE plan # << >>
    BY <2>1, <2>3, HeadTail DEF Add
  <2> QED
    BY <2>2, <2>3
<1>2. pc' \in {"count", "declared", "parse", "return"}
  BY DEF Add, FirstStep
<1>3. rep' \in Report
  BY DEF Add, Merged, WithFindings, TypeOK, Report, Result
<1>4. r' \in Result
  BY DEF Add, NoResult, Result, Reasons
<1>5. /\ canonical' = NoText /\ ptrs' = << >> /\ resolved' = << >>
      /\ parents' = << >> /\ i' = 0 /\ count' = 0 /\ modes' = << >>
  BY DEF Add
<1>6. LocalsReady'
  <2>1. pc' = FirstStep(law') \/ pc' = "return"
    BY DEF Add
  <2>2. ~(law' = "O1O2" /\ pc' = "reparse")
    BY <1>2
  <2> QED
    BY <1>2, <1>5 DEF LocalsReady, Step
<1>7. /\ canonical' \in Text \cup {NoText} /\ ptrs' \in Seq(Pointer)
      /\ resolved' \in Seq(Resolved) /\ parents' \in Seq(Parent)
      /\ Len(parents') =< kSetRemoveParents /\ i' \in Nat
      /\ count' \in 0 .. MaxModes /\ modes' \in Seq(Text) /\ Len(modes') =< count'
  BY <1>5, ConstantTypes DEF kSetRemoveParents
<1>8. UNCHANGED <<given, model, honest>>
  BY DEF Add
<1> QED
  BY <1>1, <1>2, <1>3, <1>4, <1>6, <1>7, <1>8 DEF TypeOK, given, Steps

(* Every step, and every stutter, keeps the types.                           *)
LEMMA TypeStep == TypeInv /\ [Next]_vars => TypeInv'
<1>1. ASSUME TypeInv, UNCHANGED vars PROVE TypeInv'
  BY <1>1 DEF vars, given, sutvars, control, locals, TypeInv, TypeOK, LocalsReady, Step
<1> QED
  BY <1>1, V01Type, O3Type, O4Type, O5Type, O6Type, O7Type, AddType DEF Next

(* The oracle's state is always well typed, whatever the SUT answers: the    *)
(* report holds at most one verdict per law, at most kSetRemoveParents       *)
(* parents are written, and every violation names a law and a pointer.       *)
THEOREM TypeCorrect == Spec => []TypeOK
<1>1. Init => TypeInv
  BY TypeInit
<1>2. TypeInv /\ [Next]_vars => TypeInv'
  BY TypeStep
<1>3. TypeInv => TypeOK
  BY DEF TypeInv
<1> QED
  BY <1>1, <1>2, <1>3, PTL DEF Spec

-----------------------------------------------------------------------------
\* The steps from which a routine can still be skipped.
Early == {"count", "declared", "parse", "serialize", "pointers", "choose"}
CanSkip == law # "O1O2" /\ (pc \in Early \/ Step("O6", "reparse"))

(* A reason is given once, on the way out, and only by a routine that has    *)
(* not evaluated its law: at the steps that can skip, it has not yet.        *)
SkipInv ==
  /\ SkippedIsNotEvaluated
  /\ r.reason # "" => pc = "return" /\ ~r.evaluated
  /\ CanSkip => ~r.evaluated

(* What every step of a routine does to what was found.                      *)
Judged == Within /\ r.violations \subseteq r'.violations /\ SkipInv'

\* The step finds, or does not; it gives no reason.
Finds == r.violations \subseteq r'.violations /\ r'.reason = r.reason

-----------------------------------------------------------------------------
(* A blame adds a violation and changes nothing else of the result.          *)
LEMMA BlameAdds ==
  ASSUME r \in Result
  PROVE  \A L, what, p :
           LET b == Blamed(L, what, p)
           IN  /\ r.violations \subseteq b.violations
               /\ b.evaluated = r.evaluated /\ b.reason = r.reason
BY DEF Result, Blamed

(* The routine goes on to a step from which it cannot be skipped, or to its  *)
(* end, its law evaluated or not.                                            *)
LEMMA Commits ==
  ASSUME SkipInv, Within, pc # "return", Finds, ~CanSkip'
  PROVE  Judged
BY DEF SkipInv, SkippedIsNotEvaluated, Within, Judged, Finds

(* The routine goes on before its law is evaluated.                          *)
LEMMA GoesOn ==
  ASSUME SkipInv, Within, pc # "return", Finds, CanSkip, r'.evaluated = r.evaluated
  PROVE  Judged
BY DEF SkipInv, SkippedIsNotEvaluated, Within, Judged, Finds

(* The routine is skipped.                                                   *)
LEMMA Skips ==
  ASSUME SkipInv, Within, r \in Result, CanSkip, NEW reason, Skip(reason)
  PROVE  Judged
BY DEF SkipInv, SkippedIsNotEvaluated, Within, Judged, Result, Skip, Return, CanSkip, Early, Step

(* accepted_input() skips a routine, or lets it go on.                       *)
LEMMA AcceptedInputJudged ==
  ASSUME TypeInv, SkipInv, NEW rt \in Routine, NEW st, NEW ans \in ParseAnswers,
         AcceptedInput(rt, st, "serialize", ans), rt # "O1O2"
  PROVE  Judged
<1>1. Within /\ pc = "parse" /\ r \in Result /\ CanSkip
  BY DEF AcceptedInput, TypeInv, TypeOK, SkipInv, Step, Early, CanSkip
<1>2. CASE ans = "accepted"
  <2>1. r' = r
    BY <1>2, Sentinels DEF AcceptedInput
  <2> QED
    BY <1>1, <2>1, GoesOn DEF Finds
<1>3. CASE ans # "accepted"
  <2>1. \E reason \in {"rejected", "parse threw"} : Skip(reason)
    BY <1>3, Sentinels DEF AcceptedInput, ParseAnswers
  <2> QED
    BY <1>1, <2>1, Skips
<1> QED
  BY <1>2, <1>3

-----------------------------------------------------------------------------
(* O1 and O2: nothing of check_v01() is ever skipped.                        *)
LEMMA V01Judged == ASSUME TypeInv, SkipInv, V01Next PROVE Judged
<1>a. r \in Result /\ law = "O1O2" /\ pc # "return" /\ Within
  BY DEF TypeInv, TypeOK, V01Next, V01Parse, V01Reparse, V01GetReparse, V01Serialize, V01Again,
         V01Pointers, V01Get, V01PhaseB, V01Done, Step
<1>b. ~CanSkip'
  BY <1>a DEF CanSkip, Within
<1>1. ASSUME NEW ans, V01Parse(ans) PROVE Finds
  BY <1>1, <1>a DEF V01Parse, Return, Result, Finds
<1>2. ASSUME NEW ans, V01Reparse(ans) PROVE Finds
  BY <1>2, <1>a, BlameAdds DEF V01Reparse, Finds
<1>3. ASSUME NEW ans, V01GetReparse(ans) PROVE Finds
  <2>1. r' = r \/ \E p : r' = Blamed("O2", "does not reparse", p)
    BY <1>3 DEF V01GetReparse
  <2> QED
    BY <1>a, <2>1, BlameAdds DEF Finds
<1>4. ASSUME NEW ans, V01Serialize(ans) PROVE Finds
  BY <1>4, <1>a, BlameAdds DEF V01Serialize, Return, Finds
<1>5. ASSUME NEW ans, V01Again(ans) PROVE Finds
  BY <1>5, <1>a, BlameAdds DEF V01Again, Finds
<1>6. ASSUME NEW ans, V01Pointers(ans) PROVE Finds
  BY <1>6, <1>a, BlameAdds DEF V01Pointers, Return, Finds
<1>7. ASSUME NEW ans, V01Get(ans) PROVE Finds
  BY <1>7, <1>a, BlameAdds DEF V01Get, Finds
<1>8. V01PhaseB \/ V01Done => Finds
  BY DEF V01PhaseB, V01Done, Return, Finds
<1> QED
  BY <1>a, <1>b, <1>1, <1>2, <1>3, <1>4, <1>5, <1>6, <1>7, <1>8, Commits DEF V01Next

(* O3: skipped at the input or at a text the reference cannot model.         *)
LEMMA O3Judged == ASSUME TypeInv, SkipInv, O3Next PROVE Judged
<1>a. r \in Result /\ law = "O3" /\ pc # "return" /\ Within
  BY DEF TypeInv, TypeOK, O3Next, O3Parse, O3Serialize, O3Pointers, O3PassOver, O3Unresolved,
         O3Get, O3Done, AcceptedInput, Enumerated, NextPointer, Step
<1>b. pc' \notin Early => ~CanSkip'
  BY <1>a DEF CanSkip, Within, Step
<1>1. ASSUME NEW ans \in ParseAnswers, O3Parse(ans) PROVE Judged
  BY <1>1, AcceptedInputJudged DEF O3Parse, Routine
<1>2. ASSUME NEW ans, O3Serialize(ans) PROVE Judged
  <2>1. CanSkip
    BY <1>2 DEF O3Serialize, Step, CanSkip, Early
  <2>2. CASE \E reason : Skip(reason)
    BY <1>a, <2>1, <2>2, Skips
  <2>3. CASE ~\E reason : Skip(reason)
    <3>1. Finds /\ r'.evaluated = r.evaluated
      BY <1>2, <1>a, <2>3, BlameAdds DEF O3Serialize, Return, Finds
    <3> QED
      BY <1>a, <2>1, <3>1, GoesOn
  <2> QED
    BY <2>2, <2>3
<1>3. ASSUME NEW ans, O3Pointers(ans) PROVE Judged
  <2>1. Finds /\ pc' \in {"return", "walk"}
    BY <1>3, <1>a, BlameAdds DEF O3Pointers, Enumerated, Return, Finds, Result
  <2> QED
    BY <1>a, <1>b, <2>1, Commits DEF Early
<1>4. ASSUME NEW ans, O3Get(ans) PROVE Judged
  <2>1. Finds /\ pc' = "walk"
    BY <1>4, <1>a, BlameAdds DEF O3Get, NextPointer, Step, Finds
  <2> QED
    BY <1>a, <1>b, <2>1, Commits DEF Early
<1>5. CASE O3PassOver \/ O3Unresolved \/ O3Done
  <2>1. Finds /\ pc' \in {"return", "walk"}
    BY <1>5, <1>a, BlameAdds DEF O3PassOver, O3Unresolved, O3Done, NextPointer, Return, Step, Finds
  <2> QED
    BY <1>a, <1>b, <2>1, Commits DEF Early
<1> QED
  BY <1>1, <1>2, <1>3, <1>4, <1>5 DEF O3Next

(* O4: skipped as O3 is, or with no container to write into; a write path    *)
(* withdrawn later takes the law's evaluation back.                          *)
LEMMA O4Judged == ASSUME TypeInv, SkipInv, O4Next PROVE Judged
<1>a. r \in Result /\ law = "O4" /\ pc # "return" /\ Within
  BY DEF TypeInv, TypeOK, O4Next, O4Parse, O4Restore, O4Serialize, O4After, O4Reserialize,
         O4Pointers, O4Get, O4Set, O4Remove, O4Choose, O4Chosen, O4Done, AcceptedInput, Enumerated,
         Step
<1>b. pc' \notin Early => ~CanSkip'
  BY <1>a DEF CanSkip, Within, Step
<1>1. ASSUME NEW ans \in ParseAnswers, O4Parse(ans) PROVE Judged
  BY <1>1, AcceptedInputJudged DEF O4Parse, Routine
<1>2. ASSUME NEW ans, O4Serialize(ans) PROVE Judged
  <2>1. CanSkip
    BY <1>2 DEF O4Serialize, Step, CanSkip, Early
  <2>2. CASE \E reason : Skip(reason)
    BY <1>a, <2>1, <2>2, Skips
  <2>3. CASE ~\E reason : Skip(reason)
    <3>1. Finds /\ r'.evaluated = r.evaluated
      BY <1>2, <1>a, <2>3, BlameAdds DEF O4Serialize, Return, Finds
    <3> QED
      BY <1>a, <2>1, <3>1, GoesOn
  <2> QED
    BY <2>2, <2>3
<1>3. ASSUME NEW ans, O4Pointers(ans) PROVE Judged
  <2>1. CanSkip /\ Finds /\ r'.evaluated = r.evaluated
    BY <1>3, <1>a, BlameAdds
    DEF O4Pointers, Enumerated, Return, Finds, Step, CanSkip, Early
  <2> QED
    BY <1>a, <2>1, GoesOn
<1>4. CASE O4Choose
  <2>1. CanSkip /\ Finds /\ r'.evaluated = r.evaluated
    BY <1>4 DEF O4Choose, Finds, Step, CanSkip, Early
  <2> QED
    BY <1>a, <2>1, GoesOn
<1>5. CASE O4Chosen
  <2>1. CanSkip
    BY <1>5 DEF O4Chosen, Step, CanSkip, Early
  <2>2. CASE Skip("no container")
    BY <1>a, <2>1, <2>2, Skips
  <2>3. CASE ~Skip("no container")
    BY <1>5, <1>a, <2>1, <2>3, GoesOn DEF O4Chosen, Finds
  <2> QED
    BY <2>2, <2>3
<1>6. ASSUME NEW ans \in WriteAnswers, O4Set(ans) PROVE Judged
  <2>1. CASE ans = "Unsupported"
    <3>1. /\ r'.violations = r.violations /\ ~r'.evaluated /\ pc' = "return"
      BY <1>6, <1>a, <2>1, Sentinels DEF O4Set, Return, Result
    <3> QED
      BY <1>a, <1>b, <3>1 DEF SkipInv, SkippedIsNotEvaluated, Judged, Within, Early
  <2>2. CASE ans # "Unsupported"
    <3> DEFINE b == Blamed("O4", "set refused", FreshPointer)
               refused == [b EXCEPT !.evaluated = TRUE]
    <3>1. r.violations \subseteq refused.violations /\ refused.reason = r.reason
      BY <1>a DEF Blamed, Result
    <3>2. Finds /\ pc' \in {"restore", "get"}
      <4>1. CASE ans = Threw
        BY <1>6, <1>a, <4>1, BlameAdds, Sentinels DEF O4Set, Finds
      <4>2. CASE ans = "Rejected"
        BY <1>6, <3>1, <4>2, Sentinels DEF O4Set, Finds
      <4>3. CASE ans = "Applied"
        BY <1>6, <1>a, <4>3, Sentinels DEF O4Set, Finds, Result
      <4> QED
        BY <2>2, <4>1, <4>2, <4>3 DEF WriteAnswers
    <3> QED
      BY <1>a, <1>b, <3>2, Commits DEF Early
  <2> QED
    BY <2>1, <2>2
<1>7. ASSUME NEW ans, O4Get(ans) \/ O4Remove(ans) PROVE Judged
  <2>1. Finds /\ pc' \in {"restore", "remove", "after"}
    BY <1>7, <1>a, BlameAdds DEF O4Get, O4Remove, Finds
  <2> QED
    BY <1>a, <1>b, <2>1, Commits DEF Early
<1>8. ASSUME NEW ans, O4After(ans) PROVE Judged
  <2>1. Finds /\ pc' \in {"return", "restore", "write"}
    BY <1>8, <1>a, BlameAdds DEF O4After, NextParent, Return, Finds
  <2> QED
    BY <1>a, <1>b, <2>1, Commits DEF Early
<1>9. ASSUME NEW ans, O4Restore(ans) \/ O4Reserialize(ans) PROVE Judged
  <2>1. Finds /\ pc' \in {"return", "reserialize", "write"}
    BY <1>9, <1>a DEF O4Restore, O4Reserialize, NextParent, Return, Finds
  <2> QED
    BY <1>a, <1>b, <2>1, Commits DEF Early
<1>10. CASE O4Done
  <2>1. Finds /\ pc' = "return"
    BY <1>10 DEF O4Done, Return, Finds
  <2> QED
    BY <1>a, <1>b, <2>1, Commits DEF Early
<1> QED
  BY <1>1, <1>2, <1>3, <1>4, <1>5, <1>6, <1>7, <1>8, <1>9, <1>10 DEF O4Next

(* O5: skipped for a single mode, or at the input.                           *)
LEMMA O5Judged == ASSUME TypeInv, SkipInv, O5Next PROVE Judged
<1>a. r \in Result /\ law = "O5" /\ pc # "return" /\ Within
  BY DEF TypeInv, TypeOK, O5Next, O5Count, O5Parse, O5Serialize, O5Capture, O5Captured, O5Reparse,
         O5Same, O5Twice, O5Done, AcceptedInput, Step
<1>b. pc' \notin Early => ~CanSkip'
  BY <1>a DEF CanSkip, Within, Step
<1>1. ASSUME NEW ans, O5Count(ans) PROVE Judged
  <2>1. CanSkip
    BY <1>1 DEF O5Count, Step, CanSkip, Early
  <2>2. CASE Skip("single mode")
    BY <1>a, <2>1, <2>2, Skips
  <2>3. CASE ~Skip("single mode")
    <3>1. Finds /\ r'.evaluated = r.evaluated
      BY <1>1, <1>a, <2>3, BlameAdds DEF O5Count, Return, Finds
    <3> QED
      BY <1>a, <2>1, <3>1, GoesOn
  <2> QED
    BY <2>2, <2>3
<1>2. ASSUME NEW ans \in ParseAnswers, O5Parse(ans) PROVE Judged
  BY <1>2, AcceptedInputJudged DEF O5Parse, Routine
<1>3. ASSUME NEW ans, O5Serialize(ans) PROVE Judged
  <2>1. Finds /\ pc' \in {"return", "capture"}
    BY <1>3, <1>a, BlameAdds DEF O5Serialize, Return, Finds
  <2> QED
    BY <1>a, <1>b, <2>1, Commits DEF Early
<1>4. ASSUME NEW ans, O5Capture(ans) PROVE Judged
  <2>1. Finds /\ pc' \in {"return", "capture"}
    BY <1>4, <1>a, BlameAdds DEF O5Capture, Return, Finds, Step
  <2> QED
    BY <1>a, <1>b, <2>1, Commits DEF Early
<1>5. CASE O5Captured \/ O5Done
  <2>1. Finds /\ pc' \in {"return", "reparse"}
    BY <1>5, <1>a DEF O5Captured, O5Done, Return, Finds, Result
  <2> QED
    BY <1>a, <1>b, <2>1, Commits DEF Early
<1>6. ASSUME NEW ans, O5Reparse(ans) PROVE Judged
  <2>1. Finds /\ pc' \in {"same", "reparse"}
    BY <1>6, <1>a, BlameAdds DEF O5Reparse, NextMode, Finds
  <2> QED
    BY <1>a, <1>b, <2>1, Commits DEF Early
<1>7. ASSUME NEW ans, O5Same(ans) PROVE Judged
  <2>1. Finds /\ pc' \in {"return", "twice"}
    BY <1>7, <1>a, BlameAdds DEF O5Same, Return, Finds
  <2> QED
    BY <1>a, <1>b, <2>1, Commits DEF Early
<1>8. ASSUME NEW ans, O5Twice(ans) PROVE Judged
  <2>1. Finds /\ pc' = "reparse"
    BY <1>8, <1>a, BlameAdds DEF O5Twice, NextMode, Finds
  <2> QED
    BY <1>a, <1>b, <2>1, Commits DEF Early
<1> QED
  BY <1>1, <1>2, <1>3, <1>4, <1>5, <1>6, <1>7, <1>8 DEF O5Next

(* O6: skipped at the declaration, at the input and at the reparse; its law  *)
(* is evaluated by its last call.                                            *)
LEMMA O6Judged == ASSUME TypeInv, SkipInv, O6Next PROVE Judged
<1>a. r \in Result /\ law = "O6" /\ pc # "return" /\ Within
  BY DEF TypeInv, TypeOK, O6Next, O6Declared, O6Parse, O6Serialize, O6Reparse, O6Again,
         AcceptedInput, Step
<1>1. ASSUME NEW ans, O6Declared(ans) PROVE Judged
  <2>1. CanSkip
    BY <1>1 DEF O6Declared, Step, CanSkip, Early
  <2>2. CASE \E reason : Skip(reason)
    BY <1>a, <2>1, <2>2, Skips
  <2>3. CASE ~\E reason : Skip(reason)
    <3>1. Finds /\ r'.evaluated = r.evaluated
      BY <1>1, <1>a, <2>3, BlameAdds DEF O6Declared, Return, Finds
    <3> QED
      BY <1>a, <2>1, <3>1, GoesOn
  <2> QED
    BY <2>2, <2>3
<1>2. ASSUME NEW ans \in ParseAnswers, O6Parse(ans) PROVE Judged
  BY <1>2, AcceptedInputJudged DEF O6Parse, Routine
<1>3. ASSUME NEW ans, O6Serialize(ans) PROVE Judged
  <2>1. CanSkip /\ Finds /\ r'.evaluated = r.evaluated
    BY <1>3, <1>a, BlameAdds DEF O6Serialize, Return, Finds, Step, CanSkip, Early
  <2> QED
    BY <1>a, <2>1, GoesOn
<1>4. ASSUME NEW ans, O6Reparse(ans) PROVE Judged
  <2>1. CanSkip
    BY <1>4 DEF O6Reparse, Step, CanSkip
  <2>2. CASE Skip("canonical does not reparse")
    BY <1>a, <2>1, <2>2, Skips
  <2>3. CASE ~Skip("canonical does not reparse")
    BY <1>4, <1>a, <2>1, <2>3, GoesOn DEF O6Reparse, Finds
  <2> QED
    BY <2>2, <2>3
<1>5. ASSUME NEW ans, O6Again(ans) PROVE Judged
  <2>1. Finds /\ pc' = "return"
    <3>1. CASE ans = Threw
      BY <1>5, <1>a, <3>1, BlameAdds DEF O6Again, Return, Finds
    <3>2. CASE ans # Threw
      BY <1>5, <1>a, <3>2 DEF O6Again, Return, Finds, Result
    <3> QED
      BY <3>1, <3>2
  <2> QED
    BY <1>a, <2>1, Commits DEF CanSkip, Early, Step
<1> QED
  BY <1>1, <1>2, <1>3, <1>4, <1>5 DEF O6Next

(* O7: skipped at the input only.                                            *)
LEMMA O7Judged == ASSUME TypeInv, SkipInv, O7Next PROVE Judged
<1>a. r \in Result /\ law = "O7" /\ pc # "return" /\ Within
  BY DEF TypeInv, TypeOK, O7Next, O7Strict, O7StrictText, O7Lazy, O7LazyText, AcceptedInput, Step
<1>b. pc' \notin Early => ~CanSkip'
  BY <1>a DEF CanSkip, Within, Step
<1>1. ASSUME NEW ans \in ParseAnswers, O7Strict(ans) PROVE Judged
  BY <1>1, AcceptedInputJudged DEF O7Strict, Routine
<1>2. ASSUME NEW ans, O7StrictText(ans) PROVE Judged
  <2>1. Finds /\ pc' \in {"return", "lazy"}
    <3>1. CASE ans = Threw
      BY <1>2, <1>a, <3>1, BlameAdds DEF O7StrictText, Return, Finds
    <3>2. CASE ans # Threw
      BY <1>2, <1>a, <3>2 DEF O7StrictText, Finds, Result
    <3> QED
      BY <3>1, <3>2
  <2> QED
    BY <1>a, <1>b, <2>1, Commits DEF Early
<1>3. ASSUME NEW ans \in ParseAnswers, O7Lazy(ans) PROVE Judged
  <2>1. Finds /\ pc' \in {"return", "lazytext"}
    BY <1>3, <1>a, BlameAdds, Sentinels DEF O7Lazy, ParseAnswers, Return, Finds
  <2> QED
    BY <1>a, <1>b, <2>1, Commits DEF Early
<1>4. ASSUME NEW ans, O7LazyText(ans) PROVE Judged
  <2>1. Finds /\ pc' = "return"
    BY <1>4, <1>a, BlameAdds DEF O7LazyText, Return, Finds
  <2> QED
    BY <1>a, <1>b, <2>1, Commits DEF Early
<1> QED
  BY <1>1, <1>2, <1>3, <1>4 DEF O7Next

-----------------------------------------------------------------------------
(* Add copies what was found into the entries of the law that ran.           *)
LEMMA AddKeeps ==
  ASSUME TypeInv, SkipInv, Add
  PROVE  /\ SkipInv'
         /\ NothingLost
<1>1. /\ r'.reason = "" /\ r'.evaluated = FALSE
      /\ rep'.violations = rep.violations \cup r.violations
      /\ rep'.evaluated = [L \in Law |-> IF L \in LawsOf(law) THEN r.evaluated
                                         ELSE rep.evaluated[L]]
      /\ rep'.reasons = [L \in Law |-> IF L \in LawsOf(law) THEN r.reason ELSE rep.reasons[L]]
  BY DEF Add, NoResult, Merged, WithFindings
<1>2. ~(r.evaluated /\ r.reason # "")
  BY DEF SkipInv
<1>3. SkippedIsNotEvaluated'
  BY <1>1, <1>2 DEF SkipInv, SkippedIsNotEvaluated
<1> QED
  BY <1>1, <1>3 DEF SkipInv, NothingLost

(* Every step of a routine is judged.                                        *)
LEMMA RoutineJudged ==
  ASSUME TypeInv, SkipInv, Next, ~Add
  PROVE  Judged
BY V01Judged, O3Judged, O4Judged, O5Judged, O6Judged, O7Judged DEF Next

(* A run starts with nothing found and nothing skipped.                      *)
LEMMA SkipInit == Init => SkipInv
<1> SUFFICES ASSUME Init PROVE SkipInv
  OBVIOUS
<1>1. r.reason = "" /\ r.evaluated = FALSE
  BY DEF Init, OracleInit, NoResult
<1>2. rep.evaluated = [L \in Law |-> FALSE]
  BY DEF Init, OracleInit
<1>3. SkippedIsNotEvaluated
  BY <1>2 DEF SkippedIsNotEvaluated
<1> QED
  BY <1>1, <1>3 DEF SkipInv

(* Every step, and every stutter, keeps the invariant.                       *)
LEMMA SkipStep == TypeInv /\ SkipInv /\ [Next]_vars => SkipInv'
<1>1. ASSUME SkipInv, UNCHANGED vars PROVE SkipInv'
  BY <1>1 DEF vars, control, SkipInv, SkippedIsNotEvaluated, CanSkip, Step
<1> QED
  BY <1>1, RoutineJudged, AddKeeps DEF Judged

(* A skipped law is not an evaluated one, in whatever order a SUT withdraws  *)
(* its capabilities, throws, or offers them again: a report that says why a  *)
(* law did not run never says that it ran.                                   *)
THEOREM SkippedNeverEvaluated == Spec => []SkippedIsNotEvaluated
<1>1. Init => TypeInv /\ SkipInv
  BY TypeInit, SkipInit
<1>2. (TypeInv /\ SkipInv) /\ [Next]_vars => (TypeInv /\ SkipInv)'
  BY TypeStep, SkipStep
<1>3. TypeInv /\ SkipInv => SkippedIsNotEvaluated
  BY DEF SkipInv
<1> QED
  BY <1>1, <1>2, <1>3, PTL DEF Spec

(* No finding is lost: what a law reports stays in its result and then in    *)
(* the report, and the report's account of a law is left to its own routine. *)
THEOREM FindingsKept == Spec => FindingsStay
<1>1. Init => TypeInv /\ SkipInv
  BY TypeInit, SkipInit
<1>2. (TypeInv /\ SkipInv) /\ [Next]_vars => (TypeInv /\ SkipInv)'
  BY TypeStep, SkipStep
<1>3. (TypeInv /\ SkipInv) /\ [Next]_vars => [NothingLost]_<<rep, r>>
  <2>1. ASSUME TypeInv, SkipInv, Next, ~Add PROVE NothingLost
    BY <2>1, RoutineJudged DEF Judged, Within, NothingLost
  <2>2. ASSUME TypeInv, SkipInv, Add PROVE NothingLost
    BY <2>2, AddKeeps
  <2>3. UNCHANGED vars => UNCHANGED <<rep, r>>
    BY DEF vars, control
  <2> QED
    BY <2>1, <2>2, <2>3
<1> QED
  BY <1>1, <1>2, <1>3, PTL DEF Spec, FindingsStay

-----------------------------------------------------------------------------
(* CheckAll implements Verdicts.  The invariant it needs: a routine's own    *)
(* result blames only the laws that routine speaks for.                      *)
Own(result) == \A v \in result.violations : v.law \in LawsOf(law)
OwnLaws == Own(r)

\* What every step of a routine keeps.
OwnStep == Within /\ Own(r')

-----------------------------------------------------------------------------
(* A routine that blames one of its laws still blames only its laws.         *)
LEMMA BlameIsOwn ==
  ASSUME r \in Result, OwnLaws
  PROVE  \A what, p : \A L \in LawsOf(law) : Own(Blamed(L, what, p))
BY DEF Result, OwnLaws, Own, Blamed, Violates

(* accepted_input() blames nobody.                                           *)
LEMMA AcceptedInputOwn ==
  ASSUME r \in Result, OwnLaws, NEW rt, NEW st, NEW next, NEW ans \in ParseAnswers,
         AcceptedInput(rt, st, next, ans)
  PROVE  OwnStep
<1>1. r'.violations = r.violations
  BY Sentinels DEF AcceptedInput, ParseAnswers, Skip, Return, Result
<1> QED
  BY <1>1 DEF OwnStep, OwnLaws, Own, AcceptedInput

(* check_v01() blames O1 and O2.                                             *)
LEMMA V01Own == ASSUME TypeInv, OwnLaws, V01Next PROVE OwnStep
<1>a. r \in Result /\ law = "O1O2" /\ Within
  BY DEF TypeInv, TypeOK, V01Next, V01Parse, V01Reparse, V01GetReparse, V01Serialize, V01Again,
         V01Pointers, V01Get, V01PhaseB, V01Done, Step
<1>b. \A what, p : Own(Blamed("O1", what, p)) /\ Own(Blamed("O2", what, p))
  BY <1>a, BlameIsOwn DEF LawsOf
<1>1. ASSUME NEW ans, V01Parse(ans) PROVE Own(r')
  BY <1>1, <1>a DEF V01Parse, Return, Result, OwnLaws, Own
<1>2. ASSUME NEW ans, V01Reparse(ans) \/ V01GetReparse(ans) PROVE Own(r')
  BY <1>2, <1>b DEF V01Reparse, V01GetReparse, OwnLaws
<1>3. ASSUME NEW ans, V01Serialize(ans) \/ V01Again(ans) PROVE Own(r')
  BY <1>3, <1>b DEF V01Serialize, V01Again, Return, OwnLaws
<1>4. ASSUME NEW ans, V01Pointers(ans) \/ V01Get(ans) PROVE Own(r')
  BY <1>4, <1>b DEF V01Pointers, V01Get, Return, OwnLaws
<1>5. V01PhaseB \/ V01Done => Own(r')
  BY DEF V01PhaseB, V01Done, Return, OwnLaws, Own
<1> QED
  BY <1>a, <1>1, <1>2, <1>3, <1>4, <1>5 DEF V01Next, OwnStep

(* O3 blames itself.                                                         *)
LEMMA O3Own == ASSUME TypeInv, OwnLaws, O3Next PROVE OwnStep
<1>a. r \in Result /\ law = "O3" /\ Within
  BY DEF TypeInv, TypeOK, O3Next, O3Parse, O3Serialize, O3Pointers, O3PassOver, O3Unresolved,
         O3Get, O3Done, AcceptedInput, Enumerated, NextPointer, Step
<1>b. \A what, p : Own(Blamed("O3", what, p))
  BY <1>a, BlameIsOwn DEF LawsOf
<1>1. ASSUME NEW ans \in ParseAnswers, O3Parse(ans) PROVE OwnStep
  BY <1>1, <1>a, AcceptedInputOwn DEF O3Parse
<1>2. ASSUME NEW ans, O3Serialize(ans) PROVE Own(r')
  BY <1>2, <1>a, <1>b DEF O3Serialize, Skip, Return, Result, OwnLaws, Own
<1>3. ASSUME NEW ans, O3Pointers(ans) PROVE Own(r')
  BY <1>3, <1>a, <1>b DEF O3Pointers, Enumerated, Return, Result, OwnLaws, Own
<1>4. ASSUME NEW ans, O3Get(ans) PROVE Own(r')
  BY <1>4, <1>b DEF O3Get, NextPointer, OwnLaws
<1>5. O3PassOver \/ O3Unresolved \/ O3Done => Own(r')
  BY <1>b DEF O3PassOver, O3Unresolved, O3Done, NextPointer, Return, OwnLaws
<1> QED
  BY <1>a, <1>1, <1>2, <1>3, <1>4, <1>5 DEF O3Next, OwnStep

(* O4 blames itself, restoring or not.                                       *)
LEMMA O4Own == ASSUME TypeInv, OwnLaws, O4Next PROVE OwnStep
<1>a. r \in Result /\ law = "O4" /\ Within
  BY DEF TypeInv, TypeOK, O4Next, O4Parse, O4Restore, O4Serialize, O4After, O4Reserialize,
         O4Pointers, O4Get, O4Set, O4Remove, O4Choose, O4Chosen, O4Done, AcceptedInput, Enumerated,
         Step
<1>b. \A what, p : Own(Blamed("O4", what, p))
  BY <1>a, BlameIsOwn DEF LawsOf
<1>1. ASSUME NEW ans \in ParseAnswers, O4Parse(ans) PROVE OwnStep
  BY <1>1, <1>a, AcceptedInputOwn DEF O4Parse
<1>2. ASSUME NEW ans, O4Serialize(ans) PROVE Own(r')
  BY <1>2, <1>a, <1>b DEF O4Serialize, Skip, Return, Result, OwnLaws, Own
<1>3. ASSUME NEW ans, O4Pointers(ans) PROVE Own(r')
  BY <1>3, <1>a, <1>b DEF O4Pointers, Enumerated, Return, Result, OwnLaws, Own
<1>4. O4Choose \/ O4Chosen \/ O4Done => Own(r')
  BY <1>a DEF O4Choose, O4Chosen, O4Done, Skip, Return, Result, OwnLaws, Own
<1>5. ASSUME NEW ans \in WriteAnswers, O4Set(ans) PROVE Own(r')
  <2>1. Own([Blamed("O4", "set refused", FreshPointer) EXCEPT !.evaluated = TRUE])
    BY <1>a, <1>b DEF Own, Blamed, Result
  <2>2. /\ Own([r EXCEPT !.evaluated = TRUE])
        /\ Own([r EXCEPT !.evaluated = FALSE, !.reason = "no write path"])
    BY <1>a DEF Own, OwnLaws, Result
  <2>3. \/ r' = Blamed("O4", "set threw", FreshPointer)
        \/ r' = [Blamed("O4", "set refused", FreshPointer) EXCEPT !.evaluated = TRUE]
        \/ r' = [r EXCEPT !.evaluated = TRUE]
        \/ r' = [r EXCEPT !.evaluated = FALSE, !.reason = "no write path"]
    BY <1>5, Sentinels DEF O4Set, WriteAnswers, Return
  <2> QED
    BY <1>b, <2>1, <2>2, <2>3, ZenonT(60)
<1>6. ASSUME NEW ans, O4Get(ans) \/ O4Remove(ans) PROVE Own(r')
  BY <1>6, <1>b DEF O4Get, O4Remove, OwnLaws
<1>7. ASSUME NEW ans, O4After(ans) PROVE Own(r')
  BY <1>7, <1>b DEF O4After, NextParent, Return, OwnLaws
<1>8. ASSUME NEW ans, O4Restore(ans) \/ O4Reserialize(ans) PROVE Own(r')
  BY <1>8, <1>b DEF O4Restore, O4Reserialize, NextParent, Return, OwnLaws
<1> QED
  BY <1>a, <1>1, <1>2, <1>3, <1>4, <1>5, <1>6, <1>7, <1>8 DEF O4Next, OwnStep

(* O5 blames itself.                                                         *)
LEMMA O5Own == ASSUME TypeInv, OwnLaws, O5Next PROVE OwnStep
<1>a. r \in Result /\ law = "O5" /\ Within
  BY DEF TypeInv, TypeOK, O5Next, O5Count, O5Parse, O5Serialize, O5Capture, O5Captured, O5Reparse,
         O5Same, O5Twice, O5Done, AcceptedInput, Step
<1>b. \A what, p : Own(Blamed("O5", what, p))
  BY <1>a, BlameIsOwn DEF LawsOf
<1>1. ASSUME NEW ans \in ParseAnswers, O5Parse(ans) PROVE OwnStep
  BY <1>1, <1>a, AcceptedInputOwn DEF O5Parse
<1>2. ASSUME NEW ans, O5Count(ans) PROVE Own(r')
  BY <1>2, <1>a, <1>b DEF O5Count, Skip, Return, Result, OwnLaws, Own
<1>3. ASSUME NEW ans, O5Serialize(ans) \/ O5Capture(ans) PROVE Own(r')
  BY <1>3, <1>b DEF O5Serialize, O5Capture, Return, OwnLaws
<1>4. O5Captured \/ O5Done => Own(r')
  BY <1>a DEF O5Captured, O5Done, Return, Result, OwnLaws, Own
<1>5. ASSUME NEW ans, O5Reparse(ans) \/ O5Same(ans) PROVE Own(r')
  BY <1>5, <1>b DEF O5Reparse, O5Same, NextMode, Return, OwnLaws
<1>6. ASSUME NEW ans, O5Twice(ans) PROVE Own(r')
  BY <1>6, <1>b DEF O5Twice, NextMode, OwnLaws
<1> QED
  BY <1>a, <1>1, <1>2, <1>3, <1>4, <1>5, <1>6 DEF O5Next, OwnStep

(* O6 blames itself, for all the numbers it lost at once.                    *)
LEMMA O6Own == ASSUME TypeInv, OwnLaws, O6Next PROVE OwnStep
<1>a. r \in Result /\ law = "O6" /\ Within
  BY DEF TypeInv, TypeOK, O6Next, O6Declared, O6Parse, O6Serialize, O6Reparse, O6Again,
         AcceptedInput, Step
<1>b. \A what, p : Own(Blamed("O6", what, p))
  BY <1>a, BlameIsOwn DEF LawsOf
<1>1. ASSUME NEW ans \in ParseAnswers, O6Parse(ans) PROVE OwnStep
  BY <1>1, <1>a, AcceptedInputOwn DEF O6Parse
<1>2. ASSUME NEW ans, O6Declared(ans) PROVE Own(r')
  BY <1>2, <1>a, <1>b DEF O6Declared, Skip, Return, Result, OwnLaws, Own
<1>3. ASSUME NEW ans, O6Serialize(ans) \/ O6Reparse(ans) PROVE Own(r')
  BY <1>3, <1>a, <1>b DEF O6Serialize, O6Reparse, Skip, Return, Result, OwnLaws, Own
<1>4. ASSUME NEW ans, O6Again(ans) PROVE Own(r')
  <2>1. CASE ans = Threw
    BY <1>4, <1>b, <2>1 DEF O6Again, Return
  <2>2. CASE ans # Threw
    <3> DEFINE lost == {Violates("O6", "number lost", NoPointer) : k \in LostTokens(ans)}
    <3>1. r'.violations = r.violations \cup lost
      BY <1>4, <1>a, <2>2 DEF O6Again, Return, Result
    <3>a. Violates("O6", "number lost", NoPointer).law = "O6"
      BY DEF Violates
    <3>2. \A v \in lost : v.law = "O6"
      BY <3>a, Zenon
    <3>3. "O6" \in LawsOf(law)
      BY <1>a DEF LawsOf
    <3> QED
      BY <3>1, <3>2, <3>3 DEF OwnLaws, Own
  <2> QED
    BY <2>1, <2>2
<1> QED
  BY <1>a, <1>1, <1>2, <1>3, <1>4 DEF O6Next, OwnStep

(* O7 blames itself.                                                         *)
LEMMA O7Own == ASSUME TypeInv, OwnLaws, O7Next PROVE OwnStep
<1>a. r \in Result /\ law = "O7" /\ Within
  BY DEF TypeInv, TypeOK, O7Next, O7Strict, O7StrictText, O7Lazy, O7LazyText, AcceptedInput, Step
<1>b. \A what, p : Own(Blamed("O7", what, p))
  BY <1>a, BlameIsOwn DEF LawsOf
<1>1. ASSUME NEW ans \in ParseAnswers, O7Strict(ans) PROVE OwnStep
  BY <1>1, <1>a, AcceptedInputOwn DEF O7Strict
<1>2. ASSUME NEW ans, O7StrictText(ans) PROVE Own(r')
  BY <1>2, <1>a, <1>b DEF O7StrictText, Return, Result, OwnLaws, Own
<1>3. ASSUME NEW ans \in ParseAnswers, O7Lazy(ans) PROVE Own(r')
  BY <1>3, <1>b, Sentinels DEF O7Lazy, ParseAnswers, Return, OwnLaws
<1>4. ASSUME NEW ans, O7LazyText(ans) PROVE Own(r')
  BY <1>4, <1>b DEF O7LazyText, Return, OwnLaws
<1> QED
  BY <1>a, <1>1, <1>2, <1>3, <1>4 DEF O7Next, OwnStep

-----------------------------------------------------------------------------
(* Every step of a routine keeps its result its own, and the report as it is.*)
LEMMA RoutineOwn ==
  ASSUME TypeInv, OwnLaws, Next, ~Add
  PROVE  OwnStep
BY V01Own, O3Own, O4Own, O5Own, O6Own, O7Own DEF Next

(* No result blames nobody.                                                  *)
LEMMA NothingBlamed == NoResult.violations = {}
<1> DEFINE empty == {}
<1>1. [violations |-> empty, evaluated |-> FALSE, reason |-> ""].violations = empty
  <2> HIDE DEF empty
  <2> QED
    OBVIOUS
<1> QED
  BY <1>1 DEF NoResult

(* A call starts with nothing found; a routine that follows another, too.    *)
LEMMA OwnInit == Init => OwnLaws
<1>1. Init => r.violations = {}
  BY NothingBlamed DEF Init, OracleInit
<1> QED
  BY <1>1 DEF OwnLaws, Own

(* Every step, and every stutter, keeps the invariant.                       *)
LEMMA OwnNext == TypeInv /\ OwnLaws /\ [Next]_vars => OwnLaws'
<1>1. ASSUME OwnLaws, UNCHANGED vars PROVE OwnLaws'
  BY <1>1 DEF vars, control, OwnLaws, Own
<1>2. Add => OwnLaws'
  <2>1. Add => r'.violations = {}
    BY NothingBlamed DEF Add
  <2> QED
    BY <2>1 DEF OwnLaws, Own
<1>3. ASSUME OwnLaws, OwnStep PROVE OwnLaws'
  BY <1>3 DEF OwnStep, Within, OwnLaws, Own
<1> QED
  BY <1>1, <1>2, <1>3, RoutineOwn

-----------------------------------------------------------------------------
(* The head and the rest of a plan, put together, are the plan.              *)
LEMMA HeadAndTail ==
  ASSUME NEW S, NEW s \in Seq(S)
  PROVE  /\ s # << >> => <<Head(s)>> \o Tail(s) = s
         /\ \A e \in S : /\ <<e>> \o s \in Seq(S) /\ <<e>> \o s # << >>
                         /\ Head(<<e>> \o s) = e /\ Tail(<<e>> \o s) = s
<1>1. ASSUME s # << >> PROVE <<Head(s)>> \o Tail(s) = s
  <2> DEFINE t == <<Head(s)>> \o Tail(s)
  <2>1. t \in Seq(S) /\ Len(t) = Len(s)
    BY <1>1
  <2>2. \A k \in 1 .. Len(t) : t[k] = s[k]
    BY <1>1
  <2> QED
    BY <2>1, <2>2, SeqEqual
<1>2. ASSUME NEW e \in S
      PROVE  /\ <<e>> \o s \in Seq(S) /\ <<e>> \o s # << >>
             /\ Head(<<e>> \o s) = e /\ Tail(<<e>> \o s) = s
  OBVIOUS
<1> QED
  BY <1>1, <1>2

Todo == IF law = "done" THEN << >> ELSE <<law>> \o plan
BlamedLaws == {v.law : v \in rep.violations}
RanLaws == {L \in Law : rep.evaluated[L]}

(* A call starts with its routines to run, and nothing said.                 *)
LEMMA VerdictInitially == Init => Verdict!VerdictInit
<1> SUFFICES ASSUME Init PROVE Verdict!VerdictInit
  OBVIOUS
<1>1. law \in Routine /\ plan \in Seq(Routine) /\ law # "done"
  <2>1. PICK p \in Plans : law = Head(p) /\ plan = Tail(p)
    BY DEF Init, OracleInit
  <2>2. p \in Seq(Routine) /\ p # << >>
    BY PlansAssumption
  <2>3. Head(p) \in Routine /\ Tail(p) \in Seq(Routine)
    BY <2>2, HeadTail
  <2> QED
    BY <2>1, <2>3 DEF Routine
<1>2. Todo \in Seq(Routine) \ {<< >>}
  BY <1>1, HeadAndTail DEF Todo
<1>3. BlamedLaws = {} /\ RanLaws = {}
  BY DEF Init, OracleInit, BlamedLaws, RanLaws
<1> QED
  BY <1>2, <1>3 DEF Verdict!VerdictInit, Todo, BlamedLaws, RanLaws

(* Adding a routine's result to the report is a step of Verdicts.            *)
LEMMA AddReports == ASSUME TypeInv, OwnLaws, Add PROVE Verdict!Report
<1> DEFINE covered == [rt \in Routine |-> LawsOf(rt)][law]
           found == {v.law : v \in r.violations}
<1>1. law \in Routine /\ plan \in Seq(Routine) /\ law # "done"
  BY DEF TypeInv, TypeOK, Add
<1>2. Todo # << >> /\ Head(Todo) = law /\ Tail(Todo) = plan
  BY <1>1, HeadAndTail DEF Todo
<1>3. Todo' = plan
  <2>1. CASE plan = << >>
    BY <2>1 DEF Add, Todo
  <2>2. CASE plan # << >>
    <3>1. Head(plan) \in Routine
      BY <1>1, <2>2, HeadTail
    <3>2. law' = Head(plan) /\ plan' = Tail(plan) /\ law' # "done"
      BY <2>2, <3>1 DEF Add, Routine
    <3> QED
      BY <1>1, <2>2, <3>2, HeadAndTail DEF Todo
  <2> QED
    BY <2>1, <2>2
<1>4. covered = LawsOf(law)
  BY <1>1
<1>5. /\ rep'.violations = rep.violations \cup r.violations
      /\ rep'.evaluated = [L \in Law |-> IF L \in LawsOf(law) THEN r.evaluated
                                         ELSE rep.evaluated[L]]
  BY DEF Add, Merged, WithFindings
<1>6. found \in SUBSET covered /\ BlamedLaws' = BlamedLaws \cup found
  BY <1>4, <1>5 DEF OwnLaws, Own, BlamedLaws
<1>7. \E counted \in {{}, covered} : RanLaws' = (RanLaws \ covered) \cup counted
  <2>1. LawsOf(law) \subseteq Law
    BY <1>1 DEF LawsOf, Law, Routine
  <2>2. r.evaluated \in BOOLEAN
    BY DEF TypeInv, TypeOK, Result
  <2>3. CASE r.evaluated = TRUE
    <3>1. RanLaws' = (RanLaws \ LawsOf(law)) \cup LawsOf(law)
      BY <1>5, <2>1, <2>3 DEF RanLaws
    <3> QED
      BY <1>4, <3>1
  <2>4. CASE r.evaluated = FALSE
    <3>1. RanLaws' = (RanLaws \ LawsOf(law)) \cup {}
      BY <1>5, <2>1, <2>4 DEF RanLaws
    <3> QED
      BY <1>4, <3>1
  <2> QED
    BY <2>2, <2>3, <2>4
<1> QED
  BY <1>2, <1>3, <1>6, <1>7 DEF Verdict!Report, Todo, BlamedLaws, RanLaws

(* Every other step stutters.                                                *)
LEMMA VerdictStep ==
  TypeInv /\ OwnLaws /\ [Next]_vars => [Verdict!Report]_(Verdict!account)
<1> USE DEF Verdict!account
<1>1. UNCHANGED vars => UNCHANGED Verdict!account
  BY DEF vars, control
<1>2. OwnStep => UNCHANGED Verdict!account
  BY DEF OwnStep, Within
<1> QED
  BY <1>1, <1>2, AddReports, RoutineOwn

(* The oracle implements its promise, the end of the call apart (Terminates, *)
(* which the runs check): whatever a SUT answers, each routine of a call     *)
(* reports once and in order, blames only the laws it speaks for, records    *)
(* only them as run, and takes back no blame of a law.                       *)
THEOREM OracleKeepsItsPromise == Spec => Verdict!VerdictSteps
<1>1. Init => TypeInv /\ OwnLaws
  BY TypeInit, OwnInit
<1>2. (TypeInv /\ OwnLaws) /\ [Next]_vars => (TypeInv /\ OwnLaws)'
  BY TypeStep, OwnNext
<1> QED
  BY <1>1, <1>2, VerdictInitially, VerdictStep, PTL DEF Spec, Verdict!VerdictSteps

-----------------------------------------------------------------------------
(* The call ends: what is left (Left) gets less with every step.  Only the   *)
(* loop of O5 counts up, so that it stays within the modes captured is an    *)
(* invariant of its own.                                                     *)
RoundsCounted ==
  law = "O5" /\ pc # "return" =>
    IF InLoop THEN i =< Len(modes) /\ (pc # "reparse" => i < Len(modes)) ELSE i = 0

Less == \E k \in 1 .. 4 : Left'[k] < Left[k] /\ \A j \in 1 .. k - 1 : Left'[j] = Left[j]

\* A step of a routine: the routine is not done with, and something of it is used up.
Used ==
  \/ StagesLeft' < StagesLeft
  \/ StagesLeft' = StagesLeft /\ RoundsLeft' < RoundsLeft
  \/ StagesLeft' = StagesLeft /\ RoundsLeft' = RoundsLeft /\ CallsLeft' < CallsLeft

(* What StagesLeft says, step by step.                                       *)
LEMMA StageTable ==
  /\ pc = "return" => StagesLeft = 0
  /\ pc \in {"reget", "lazytext"} => StagesLeft = 1
  /\ InLoop => StagesLeft = 1
  /\ pc \in {"walk", "choose", "capture", "lazy"} => StagesLeft = 2
  /\ pc = "pointers" => StagesLeft = 3
  /\ pc = "again" => StagesLeft = 4
  /\ pc = "reparse" /\ law # "O5" => StagesLeft = 5
  /\ pc = "serialize" => StagesLeft = 6
  /\ pc = "parse" => StagesLeft = 7
  /\ pc \in {"count", "declared"} => StagesLeft = 8
BY DEF StagesLeft, InLoop

(* And RoundsLeft.                                                           *)
LEMMA RoundTable ==
  /\ pc \in {"walk", "choose"} => RoundsLeft = Len(ptrs)
  /\ pc = "reget" => RoundsLeft = Len(resolved)
  /\ pc = "capture" => RoundsLeft = count - Len(modes)
  /\ law = "O4" /\ InLoop => RoundsLeft = Len(parents)
  /\ law = "O5" /\ InLoop => RoundsLeft = Len(modes) - i
BY DEF RoundsLeft, InLoop

(* The same after a step.                                                    *)
LEMMA RoundTableNext ==
  /\ pc' \in {"walk", "choose"} => RoundsLeft' = Len(ptrs')
  /\ pc' = "reget" => RoundsLeft' = Len(resolved')
  /\ pc' = "capture" => RoundsLeft' = count' - Len(modes')
  /\ law' = "O4" /\ InLoop' => RoundsLeft' = Len(parents')
  /\ law' = "O5" /\ InLoop' => RoundsLeft' = Len(modes') - i'
BY DEF RoundsLeft, InLoop

(* And CallsLeft.                                                            *)
LEMMA CallTable ==
  /\ pc = "write" => CallsLeft = 5
  /\ pc = "get" => CallsLeft = 4
  /\ pc = "remove" => CallsLeft = 3
  /\ pc = "after" => CallsLeft = 2
  /\ pc = "restore" => CallsLeft = 1
  /\ pc \in {"reserialize", "twice"} => CallsLeft = 0
  /\ law = "O5" /\ pc = "reparse" => CallsLeft = 2
  /\ law = "O5" /\ pc = "same" => CallsLeft = 1
BY DEF CallsLeft, InLoop

(* They are numbers: nothing is taken from where nothing is left.            *)
LEMMA LeftCounts == TypeInv /\ RoundsCounted => \A k \in 1 .. 4 : Left[k] \in Nat
<1> SUFFICES ASSUME TypeInv, RoundsCounted PROVE \A k \in 1 .. 4 : Left[k] \in Nat
  OBVIOUS
<1>1. /\ plan \in Seq(Routine) /\ ptrs \in Seq(Pointer) /\ resolved \in Seq(Resolved)
      /\ parents \in Seq(Parent) /\ modes \in Seq(Text) /\ i \in Nat
      /\ count \in 0 .. MaxModes /\ Len(modes) =< count /\ pc \in Steps
  BY DEF TypeInv, TypeOK
<1>2. RoutinesLeft \in Nat
  <2>1. Len(plan) \in Nat
    BY <1>1
  <2> QED
    BY <2>1 DEF RoutinesLeft
<1>3. StagesLeft \in Nat
  BY <1>1, StageTable DEF Steps, InLoop
<1>4. RoundsLeft \in Nat
  <2>1. count - Len(modes) \in Nat
    BY <1>1, ConstantTypes
  <2>2. law = "O5" /\ InLoop => Len(modes) - i \in Nat
    BY <1>1 DEF RoundsCounted, InLoop
  <2>3. Len(ptrs) \in Nat /\ Len(resolved) \in Nat /\ Len(parents) \in Nat
    BY <1>1
  <2> QED
    BY <2>1, <2>2, <2>3 DEF RoundsLeft
<1>5. CallsLeft \in Nat
  BY DEF CallsLeft
<1> QED
  BY <1>2, <1>3, <1>4, <1>5 DEF Left

(* A step that uses something up leaves less.                                *)
LEMMA UsedIsLess == ASSUME Within, Used PROVE Less
<1>1. RoutinesLeft' = RoutinesLeft
  BY DEF Within, RoutinesLeft
<1>2. /\ Left[1] = RoutinesLeft /\ Left[2] = StagesLeft
      /\ Left[3] = RoundsLeft /\ Left[4] = CallsLeft
      /\ Left'[1] = RoutinesLeft' /\ Left'[2] = StagesLeft'
      /\ Left'[3] = RoundsLeft' /\ Left'[4] = CallsLeft'
  BY DEF Left
<1>3. CASE StagesLeft' < StagesLeft
  <2>1. Left'[2] < Left[2] /\ \A j \in 1 .. 2 - 1 : Left'[j] = Left[j]
    BY <1>1, <1>2, <1>3
  <2> QED
    BY <2>1 DEF Less
<1>4. CASE StagesLeft' = StagesLeft /\ RoundsLeft' < RoundsLeft
  <2>1. Left'[3] < Left[3] /\ \A j \in 1 .. 3 - 1 : Left'[j] = Left[j]
    BY <1>1, <1>2, <1>4
  <2> QED
    BY <2>1 DEF Less
<1>5. CASE StagesLeft' = StagesLeft /\ RoundsLeft' = RoundsLeft /\ CallsLeft' < CallsLeft
  <2>1. Left'[4] < Left[4] /\ \A j \in 1 .. 4 - 1 : Left'[j] = Left[j]
    BY <1>1, <1>2, <1>5
  <2> QED
    BY <2>1 DEF Less
<1> QED
  BY <1>3, <1>4, <1>5 DEF Used

(* The ways from one stage to a later one.                                   *)
LEMMA StageDown ==
  /\ pc \in {"count", "declared"} /\ pc' = "parse" => StagesLeft' < StagesLeft
  /\ pc = "parse" /\ pc' = "serialize" => StagesLeft' < StagesLeft
  /\ pc = "serialize" /\ pc' \in {"pointers", "capture", "lazy"} => StagesLeft' < StagesLeft
  /\ pc = "serialize" /\ pc' = "reparse" => StagesLeft' < StagesLeft
  /\ pc = "reparse" /\ law # "O5" /\ pc' \in {"again", "pointers"} => StagesLeft' < StagesLeft
  /\ pc = "again" /\ pc' = "pointers" => StagesLeft' < StagesLeft
  /\ pc = "pointers" /\ pc' \in {"walk", "choose"} => StagesLeft' < StagesLeft
  /\ pc = "walk" /\ pc' = "reget" => StagesLeft' < StagesLeft
  /\ pc = "choose" /\ pc' = "write" => StagesLeft' < StagesLeft
  /\ pc = "capture" /\ law' = "O5" /\ pc' = "reparse" => StagesLeft' < StagesLeft
  /\ pc = "lazy" /\ pc' = "lazytext" => StagesLeft' < StagesLeft
  /\ pc \in Steps /\ pc # "return" /\ pc' = "return" => StagesLeft' < StagesLeft
BY DEF StagesLeft, InLoop, Steps

(* The ways that stay in a stage.                                            *)
LEMMA StageSame ==
  /\ \A s \in {"walk", "reget", "choose", "capture"} :
       pc = s /\ pc' = s => StagesLeft' = StagesLeft
  /\ InLoop /\ InLoop' => StagesLeft' = StagesLeft
BY DEF StagesLeft, InLoop

(* The ways from one call of a round to the next.                            *)
LEMMA CallDown ==
  /\ pc = "write" /\ pc' \in {"get", "restore"} => CallsLeft' < CallsLeft
  /\ pc = "get" /\ pc' \in {"remove", "restore"} => CallsLeft' < CallsLeft
  /\ pc = "remove" /\ pc' \in {"after", "restore"} => CallsLeft' < CallsLeft
  /\ pc = "after" /\ pc' = "restore" => CallsLeft' < CallsLeft
  /\ pc = "restore" /\ pc' = "reserialize" => CallsLeft' < CallsLeft
  /\ law = "O5" /\ law' = "O5" /\ pc = "reparse" /\ pc' = "same" => CallsLeft' < CallsLeft
  /\ law' = "O5" /\ pc = "same" /\ pc' = "twice" => CallsLeft' < CallsLeft
BY DEF CallsLeft, InLoop

(* What is left of a list is one shorter without its head.                   *)
LEMMA ShorterTail ==
  ASSUME NEW S, NEW s \in Seq(S), s # << >>
  PROVE  Len(Tail(s)) < Len(s)
OBVIOUS

(* O1 and O2: a stage further, or a pointer or a text of a list less.        *)
LEMMA V01Used == ASSUME TypeInv, V01Next PROVE Within /\ Used
<1>a. law = "O1O2" /\ Within
  BY DEF V01Next, V01Parse, V01Reparse, V01GetReparse, V01Serialize, V01Again,
         V01Pointers, V01Get, V01PhaseB, V01Done, Step
<1>b. ptrs \in Seq(Pointer) /\ resolved \in Seq(Resolved) /\ pc \in Steps
  BY DEF TypeInv, TypeOK
<1>1. ASSUME NEW ans, V01Parse(ans) PROVE StagesLeft' < StagesLeft
  <2>1. pc = "parse" /\ pc' \in {"serialize", "return"}
    BY <1>1 DEF V01Parse, Step, Return
  <2> QED
    BY <1>b, <2>1, StageDown
<1>2. ASSUME NEW ans, V01Reparse(ans) PROVE StagesLeft' < StagesLeft
  <2>1. pc = "reparse" /\ pc' \in {"again", "pointers"}
    BY <1>2 DEF V01Reparse, Step
  <2> QED
    BY <1>a, <2>1, StageDown
<1>3. ASSUME NEW ans, V01Serialize(ans) PROVE StagesLeft' < StagesLeft
  <2>1. pc = "serialize" /\ pc' \in {"reparse", "return"}
    BY <1>3 DEF V01Serialize, Step, Return
  <2> QED
    BY <1>b, <2>1, StageDown
<1>4. ASSUME NEW ans, V01Again(ans) PROVE StagesLeft' < StagesLeft
  BY <1>4, StageDown DEF V01Again, Step
<1>5. ASSUME NEW ans, V01Pointers(ans) PROVE StagesLeft' < StagesLeft
  <2>1. pc = "pointers" /\ pc' \in {"walk", "return"}
    BY <1>5 DEF V01Pointers, Step, Return
  <2> QED
    BY <1>b, <2>1, StageDown
<1>6. V01PhaseB => StagesLeft' < StagesLeft
  BY StageDown DEF V01PhaseB, Step
<1>7. V01Done => StagesLeft' < StagesLeft
  <2>1. V01Done => pc = "reget" /\ pc' = "return"
    BY DEF V01Done, Step, Return
  <2> QED
    BY <1>b, <2>1, StageDown
<1>8. ASSUME NEW ans, V01Get(ans) PROVE StagesLeft' = StagesLeft /\ RoundsLeft' < RoundsLeft
  <2>1. pc = "walk" /\ pc' = "walk" /\ ptrs # << >> /\ ptrs' = Tail(ptrs)
    BY <1>8 DEF V01Get, Step
  <2>2. RoundsLeft = Len(ptrs) /\ RoundsLeft' = Len(Tail(ptrs))
    BY <2>1, RoundTable, RoundTableNext
  <2>3. RoundsLeft' < RoundsLeft
    BY <1>b, <2>1, <2>2, ShorterTail
  <2> QED
    BY <2>1, <2>3, StageSame
<1>9. ASSUME NEW ans, V01GetReparse(ans)
      PROVE  StagesLeft' = StagesLeft /\ RoundsLeft' < RoundsLeft
  <2>1. pc = "reget" /\ pc' = "reget" /\ resolved # << >> /\ resolved' = Tail(resolved)
    BY <1>9 DEF V01GetReparse, Step
  <2>2. RoundsLeft = Len(resolved) /\ RoundsLeft' = Len(Tail(resolved))
    BY <2>1, RoundTable, RoundTableNext
  <2>3. RoundsLeft' < RoundsLeft
    BY <1>b, <2>1, <2>2, ShorterTail
  <2> QED
    BY <2>1, <2>3, StageSame
<1> QED
  BY <1>a, <1>1, <1>2, <1>3, <1>4, <1>5, <1>6, <1>7, <1>8, <1>9 DEF V01Next, Used

(* accepted_input() ends the routine or lets it go on to serialize().        *)
LEMMA AcceptedInputUsed ==
  ASSUME NEW rt, NEW st, NEW ans \in ParseAnswers, AcceptedInput(rt, st, "serialize", ans)
  PROVE  Within /\ StagesLeft' < StagesLeft
<1>1. pc = "parse" /\ pc' \in {"serialize", "return"} /\ Within
  BY Sentinels DEF AcceptedInput, ParseAnswers, Skip, Return, Step
<1> QED
  BY <1>1, StageDown DEF Steps

(* enumerated() ends the routine or lets it go on to the list.               *)
LEMMA EnumeratedUsed ==
  ASSUME NEW rt, NEW next \in {"walk", "choose"}, NEW result, NEW ans,
         Enumerated(rt, next, result, ans)
  PROVE  Within /\ StagesLeft' < StagesLeft
<1>1. pc = "pointers" /\ pc' \in {"walk", "choose", "return"} /\ Within
  BY DEF Enumerated, Return, Step
<1> QED
  BY <1>1, StageDown DEF Steps

(* O3: a stage further, or a pointer of the list less.                       *)
LEMMA O3Used == ASSUME TypeInv, O3Next PROVE Within /\ Used
<1>b. ptrs \in Seq(Pointer)
  BY DEF TypeInv, TypeOK
<1>1. ASSUME NEW ans \in ParseAnswers, O3Parse(ans) PROVE Within /\ StagesLeft' < StagesLeft
  BY <1>1, AcceptedInputUsed DEF O3Parse
<1>2. ASSUME NEW ans, O3Serialize(ans) PROVE Within /\ StagesLeft' < StagesLeft
  <2>1. pc = "serialize" /\ pc' \in {"pointers", "return"} /\ Within
    BY <1>2 DEF O3Serialize, Step, Return, Skip
  <2> QED
    BY <2>1, StageDown DEF Steps
<1>3. ASSUME NEW ans, O3Pointers(ans) PROVE Within /\ StagesLeft' < StagesLeft
  <2>1. PICK result : result = [r EXCEPT !.evaluated = TRUE]
    OBVIOUS
  <2> QED
    BY <1>3, <2>1, EnumeratedUsed DEF O3Pointers
<1>4. ASSUME pc = "walk", ptrs # << >>, NextPointer
      PROVE  Within /\ StagesLeft' = StagesLeft /\ RoundsLeft' < RoundsLeft
  <2>1. pc' = "walk" /\ ptrs' = Tail(ptrs) /\ Within
    BY <1>4 DEF NextPointer
  <2>2. RoundsLeft = Len(ptrs) /\ RoundsLeft' = Len(Tail(ptrs))
    BY <1>4, <2>1, RoundTable, RoundTableNext
  <2>3. RoundsLeft' < RoundsLeft
    BY <1>4, <1>b, <2>1, <2>2, ShorterTail
  <2> QED
    BY <1>4, <2>1, <2>3, StageSame
<1>5. O3PassOver \/ O3Unresolved => pc = "walk" /\ ptrs # << >> /\ NextPointer
  BY DEF O3PassOver, O3Unresolved, Step
<1>6. \A ans : O3Get(ans) => pc = "walk" /\ ptrs # << >> /\ NextPointer
  BY DEF O3Get, Step
<1>7. O3Done => Within /\ StagesLeft' < StagesLeft
  <2>1. O3Done => pc = "walk" /\ pc' = "return" /\ Within
    BY DEF O3Done, Step, Return
  <2> QED
    BY <2>1, StageDown DEF Steps
<1> QED
  BY <1>1, <1>2, <1>3, <1>4, <1>5, <1>6, <1>7 DEF O3Next, Used

(* O4: a stage further; in its loops a pointer or a parent less, or a call   *)
(* of the round.                                                             *)
InWrite == {"write", "get", "remove", "after", "restore", "reserialize"}

LEMMA O4Used == ASSUME TypeInv, O4Next PROVE Within /\ Used
<1>a. law = "O4" /\ Within
  BY DEF O4Next, O4Parse, O4Restore, O4Serialize, O4After, O4Reserialize, O4Pointers, O4Get,
         O4Set, O4Remove, O4Choose, O4Chosen, O4Done, AcceptedInput, Enumerated, Step
<1>b. /\ ptrs \in Seq(Pointer) /\ parents \in Seq(Parent) /\ pc \in Steps
      /\ pc \in InWrite \ {"write"} => parents # << >>
  BY DEF TypeInv, TypeOK, LocalsReady, InWrite
<1>1. ASSUME NEW ans \in ParseAnswers, O4Parse(ans) PROVE StagesLeft' < StagesLeft
  BY <1>1, AcceptedInputUsed DEF O4Parse
<1>2. ASSUME NEW ans, O4Serialize(ans) PROVE StagesLeft' < StagesLeft
  <2>1. pc = "serialize" /\ pc' \in {"pointers", "return"}
    BY <1>2 DEF O4Serialize, Step, Return, Skip
  <2> QED
    BY <1>b, <2>1, StageDown
<1>3. ASSUME NEW ans, O4Pointers(ans) PROVE StagesLeft' < StagesLeft
  BY <1>3, EnumeratedUsed DEF O4Pointers
<1>4. O4Choose => StagesLeft' = StagesLeft /\ RoundsLeft' < RoundsLeft
  <2> SUFFICES ASSUME O4Choose PROVE StagesLeft' = StagesLeft /\ RoundsLeft' < RoundsLeft
    OBVIOUS
  <2>1. pc = "choose" /\ pc' = "choose" /\ ptrs # << >> /\ ptrs' = Tail(ptrs)
    BY DEF O4Choose, Step
  <2>2. RoundsLeft = Len(ptrs) /\ RoundsLeft' = Len(Tail(ptrs))
    BY <2>1, RoundTable, RoundTableNext
  <2>3. RoundsLeft' < RoundsLeft
    BY <1>b, <2>1, <2>2, ShorterTail
  <2> QED
    BY <2>1, <2>3, StageSame
<1>5. O4Chosen => StagesLeft' < StagesLeft
  <2>1. O4Chosen => pc = "choose" /\ pc' \in {"write", "return"}
    BY DEF O4Chosen, Step, Return, Skip
  <2> QED
    BY <1>b, <2>1, StageDown
<1>6. ASSUME pc \in InWrite, pc' = "return" PROVE StagesLeft' < StagesLeft
  BY <1>6, <1>b, StageDown DEF InWrite
<1>7. ASSUME pc \in InWrite, pc' \in InWrite, parents' = parents, CallsLeft' < CallsLeft
      PROVE  Used
  <2>1. law' = "O4" /\ InLoop /\ InLoop'
    BY <1>a, <1>7 DEF Within, InWrite, InLoop
  <2>2. RoundsLeft = Len(parents) /\ RoundsLeft' = Len(parents)
    BY <1>a, <1>7, <2>1, RoundTable, RoundTableNext
  <2> QED
    BY <1>7, <2>1, <2>2, StageSame DEF Used
<1>8. ASSUME pc \in InWrite \ {"write"}, NextParent PROVE Used
  <2>1. law' = "O4" /\ InLoop /\ InLoop' /\ parents' = Tail(parents)
    BY <1>a, <1>8 DEF Within, InWrite, InLoop, NextParent
  <2>2. RoundsLeft = Len(parents) /\ RoundsLeft' = Len(Tail(parents))
    BY <1>a, <2>1, RoundTable, RoundTableNext
  <2>3. RoundsLeft' < RoundsLeft
    BY <1>b, <1>8, <2>2, ShorterTail
  <2> QED
    BY <2>1, <2>3, StageSame DEF Used
<1>9. ASSUME NEW ans \in WriteAnswers, O4Set(ans) PROVE Used
  <2>1. pc = "write" /\ pc' \in {"get", "restore", "return"} /\ parents' = parents
    BY <1>9, Sentinels DEF O4Set, WriteAnswers, Step, Return, locals
  <2> QED
    BY <1>6, <1>7, <2>1, CallDown DEF InWrite, Used
<1>10. ASSUME NEW ans, O4Get(ans) PROVE Used
  <2>1. pc = "get" /\ pc' \in {"remove", "restore"} /\ parents' = parents
    BY <1>10 DEF O4Get, Step, locals
  <2> QED
    BY <1>7, <2>1, CallDown DEF InWrite
<1>11. ASSUME NEW ans, O4Remove(ans) PROVE Used
  <2>1. pc = "remove" /\ pc' \in {"after", "restore"} /\ parents' = parents
    BY <1>11 DEF O4Remove, Step, locals
  <2> QED
    BY <1>7, <2>1, CallDown DEF InWrite
<1>12. ASSUME NEW ans, O4After(ans) PROVE Used
  <2>1. pc = "after" /\ \/ NextParent
                        \/ pc' \in {"restore", "return"} /\ parents' = parents
    BY <1>12 DEF O4After, Step, Return, locals
  <2> QED
    BY <1>6, <1>7, <1>8, <2>1, CallDown DEF InWrite, Used
<1>13. ASSUME NEW ans, O4Restore(ans) PROVE Used
  <2>1. pc = "restore" /\ pc' \in {"reserialize", "return"} /\ parents' = parents
    BY <1>13 DEF O4Restore, Step, Return, locals
  <2> QED
    BY <1>6, <1>7, <2>1, CallDown DEF InWrite, Used
<1>14. ASSUME NEW ans, O4Reserialize(ans) PROVE Used
  <2>1. pc = "reserialize" /\ (NextParent \/ pc' = "return")
    BY <1>14 DEF O4Reserialize, Step, Return
  <2> QED
    BY <1>6, <1>8, <2>1 DEF InWrite, Used
<1>15. O4Done => StagesLeft' < StagesLeft
  <2>1. O4Done => pc = "write" /\ pc' = "return"
    BY DEF O4Done, Step, Return
  <2> QED
    BY <1>6, <2>1 DEF InWrite
<1> QED
  BY <1>a, <1>1, <1>2, <1>3, <1>4, <1>5, <1>9, <1>10, <1>11, <1>12, <1>13, <1>14, <1>15
     DEF O4Next, Used

(* O5: a stage further; in its loops a mode less, or a call of the round.    *)
LEMMA O5Used == ASSUME TypeInv, RoundsCounted, O5Next PROVE Within /\ Used
<1>a. law = "O5" /\ Within
  BY DEF O5Next, O5Count, O5Parse, O5Serialize, O5Capture, O5Captured, O5Reparse, O5Same,
         O5Twice, O5Done, AcceptedInput, Step
<1>b. /\ modes \in Seq(Text) /\ count \in Nat /\ i \in Nat /\ pc \in Steps /\ law' = "O5"
  BY <1>a, ConstantTypes DEF TypeInv, TypeOK, Within
<1>1. ASSUME NEW ans, O5Count(ans) PROVE StagesLeft' < StagesLeft
  <2>1. pc = "count" /\ pc' \in {"parse", "return"}
    BY <1>1 DEF O5Count, Step, Return, Skip
  <2> QED
    BY <1>b, <2>1, StageDown
<1>2. ASSUME NEW ans \in ParseAnswers, O5Parse(ans) PROVE StagesLeft' < StagesLeft
  BY <1>2, AcceptedInputUsed DEF O5Parse
<1>3. ASSUME NEW ans, O5Serialize(ans) PROVE StagesLeft' < StagesLeft
  <2>1. pc = "serialize" /\ pc' \in {"capture", "return"}
    BY <1>3 DEF O5Serialize, Step, Return
  <2> QED
    BY <1>b, <2>1, StageDown
<1>4. ASSUME NEW ans \in TextAnswers, O5Capture(ans) PROVE Used
  <2>1. CASE pc = "capture" /\ pc' = "return"
    BY <1>b, <2>1, StageDown DEF Used
  <2>2. CASE pc = "capture" /\ pc' = "capture" /\ modes' = Append(modes, ans) /\ count' = count
    <3>1. RoundsLeft = count - Len(modes) /\ RoundsLeft' = count - Len(Append(modes, ans))
      BY <2>2, RoundTable, RoundTableNext
    <3>2. Len(Append(modes, ans)) = Len(modes) + 1 /\ Len(modes) \in Nat
      BY <1>b
    <3>3. RoundsLeft' < RoundsLeft
      BY <1>b, <3>1, <3>2
    <3> QED
      BY <2>2, <3>3, StageSame DEF Used
  <2> QED
    BY <1>4, <2>1, <2>2 DEF O5Capture, Step, Return, fixedO5
<1>5. O5Captured => StagesLeft' < StagesLeft
  <2>1. O5Captured => pc = "capture" /\ pc' = "reparse"
    BY DEF O5Captured, Step
  <2> QED
    BY <1>b, <2>1, StageDown
<1>6. ASSUME pc \in {"reparse", "same", "twice"}, pc' = "return" PROVE StagesLeft' < StagesLeft
  BY <1>6, <1>b, StageDown
<1>7. ASSUME pc \in {"reparse", "same", "twice"}, pc' \in {"reparse", "same", "twice"},
             UNCHANGED <<modes, i>>, CallsLeft' < CallsLeft
      PROVE  Used
  <2>1. InLoop /\ InLoop'
    BY <1>a, <1>b, <1>7 DEF InLoop
  <2>2. RoundsLeft = Len(modes) - i /\ RoundsLeft' = Len(modes) - i
    BY <1>a, <1>b, <1>7, <2>1, RoundTable, RoundTableNext
  <2> QED
    BY <1>7, <2>1, <2>2, StageSame DEF Used
<1>8. ASSUME pc \in {"reparse", "same", "twice"}, NextMode PROVE Used
  <2>1. InLoop /\ InLoop' /\ modes' = modes /\ i' = i + 1
    BY <1>a, <1>b, <1>8 DEF InLoop, NextMode
  <2>2. RoundsLeft = Len(modes) - i /\ RoundsLeft' = Len(modes) - (i + 1)
    BY <1>a, <1>b, <2>1, RoundTable, RoundTableNext
  <2>3. RoundsLeft' < RoundsLeft
    BY <1>b, <2>2
  <2> QED
    BY <2>1, <2>3, StageSame DEF Used
<1>9. ASSUME NEW ans, O5Reparse(ans) PROVE Used
  <2>1. pc = "reparse" /\ \/ NextMode
                          \/ pc' = "same" /\ UNCHANGED <<modes, i>>
    BY <1>9 DEF O5Reparse, Step, locals
  <2> QED
    BY <1>a, <1>b, <1>7, <1>8, <2>1, CallDown
<1>10. ASSUME NEW ans, O5Same(ans) PROVE Used
  <2>1. pc = "same" /\ pc' \in {"twice", "return"} /\ UNCHANGED <<modes, i>>
    BY <1>10 DEF O5Same, Step, Return, locals
  <2> QED
    BY <1>b, <1>6, <1>7, <2>1, CallDown DEF Used
<1>11. ASSUME NEW ans, O5Twice(ans) PROVE Used
  <2>1. pc = "twice" /\ NextMode
    BY <1>11 DEF O5Twice, Step
  <2> QED
    BY <1>8, <2>1
<1>12. O5Done => StagesLeft' < StagesLeft
  <2>1. O5Done => pc = "reparse" /\ pc' = "return"
    BY DEF O5Done, Step, Return
  <2> QED
    BY <1>6, <2>1
<1> QED
  BY <1>a, <1>1, <1>2, <1>3, <1>4, <1>5, <1>9, <1>10, <1>11, <1>12 DEF O5Next, Used

(* O6: a stage further with every call.                                      *)
LEMMA O6Used == ASSUME TypeInv, O6Next PROVE Within /\ Used
<1>a. law = "O6" /\ Within
  BY DEF O6Next, O6Declared, O6Parse, O6Serialize, O6Reparse, O6Again, AcceptedInput, Step
<1>b. pc \in Steps
  BY DEF TypeInv, TypeOK
<1>1. ASSUME NEW ans \in ParseAnswers, O6Parse(ans) PROVE StagesLeft' < StagesLeft
  BY <1>1, AcceptedInputUsed DEF O6Parse
<1>2. ASSUME NEW ans, O6Declared(ans) PROVE StagesLeft' < StagesLeft
  <2>1. pc = "declared" /\ pc' \in {"parse", "return"}
    BY <1>2 DEF O6Declared, Step, Return, Skip
  <2> QED
    BY <1>b, <2>1, StageDown
<1>3. ASSUME NEW ans, O6Serialize(ans) PROVE StagesLeft' < StagesLeft
  <2>1. pc = "serialize" /\ pc' \in {"reparse", "return"}
    BY <1>3 DEF O6Serialize, Step, Return
  <2> QED
    BY <1>b, <2>1, StageDown
<1>4. ASSUME NEW ans, O6Reparse(ans) PROVE StagesLeft' < StagesLeft
  <2>1. pc = "reparse" /\ pc' \in {"again", "return"}
    BY <1>4 DEF O6Reparse, Step, Return, Skip
  <2> QED
    BY <1>a, <1>b, <2>1, StageDown
<1>5. ASSUME NEW ans, O6Again(ans) PROVE StagesLeft' < StagesLeft
  <2>1. pc = "again" /\ pc' = "return"
    BY <1>5 DEF O6Again, Step, Return
  <2> QED
    BY <1>b, <2>1, StageDown
<1> QED
  BY <1>a, <1>1, <1>2, <1>3, <1>4, <1>5 DEF O6Next, Used

(* O7: the same.                                                             *)
LEMMA O7Used == ASSUME TypeInv, O7Next PROVE Within /\ Used
<1>a. Within
  BY DEF O7Next, O7Strict, O7StrictText, O7Lazy, O7LazyText, AcceptedInput
<1>b. pc \in Steps
  BY DEF TypeInv, TypeOK
<1>1. ASSUME NEW ans \in ParseAnswers, O7Strict(ans) PROVE StagesLeft' < StagesLeft
  BY <1>1, AcceptedInputUsed DEF O7Strict
<1>2. ASSUME NEW ans, O7StrictText(ans) PROVE StagesLeft' < StagesLeft
  <2>1. pc = "serialize" /\ pc' \in {"lazy", "return"}
    BY <1>2 DEF O7StrictText, Step, Return
  <2> QED
    BY <1>b, <2>1, StageDown
<1>3. ASSUME NEW ans \in ParseAnswers, O7Lazy(ans) PROVE StagesLeft' < StagesLeft
  <2>1. pc = "lazy" /\ pc' \in {"lazytext", "return"}
    BY <1>3, Sentinels DEF O7Lazy, ParseAnswers, Step, Return
  <2> QED
    BY <1>b, <2>1, StageDown
<1>4. ASSUME NEW ans, O7LazyText(ans) PROVE StagesLeft' < StagesLeft
  <2>1. pc = "lazytext" /\ pc' = "return"
    BY <1>4 DEF O7LazyText, Step, Return
  <2> QED
    BY <1>b, <2>1, StageDown
<1> QED
  BY <1>a, <1>1, <1>2, <1>3, <1>4 DEF O7Next, Used

(* Recording a result: a routine less to run.                                *)
LEMMA AddIsLess == ASSUME TypeInv, Add PROVE Less
<1>1. plan \in Seq(Routine) /\ law # "done"
  BY DEF TypeInv, TypeOK, Add
<1>2. RoutinesLeft' < RoutinesLeft
  <2>1. CASE plan = << >>
    <3>1. RoutinesLeft = 1 /\ RoutinesLeft' = 0
      BY <1>1, <2>1 DEF Add, RoutinesLeft
    <3> QED
      BY <3>1
  <2>2. CASE plan # << >>
    <3>1. Head(plan) \in Routine
      BY <1>1, <2>2, HeadTail
    <3>2. law' # "done" /\ plan' = Tail(plan)
      BY <2>2, <3>1 DEF Add, Routine
    <3>3. RoutinesLeft = Len(plan) + 1 /\ RoutinesLeft' = Len(Tail(plan)) + 1
      BY <1>1, <3>2 DEF RoutinesLeft
    <3>4. Len(plan) \in Nat /\ Len(Tail(plan)) \in Nat /\ Len(Tail(plan)) < Len(plan)
      BY <1>1, <2>2
    <3> QED
      BY <3>3, <3>4
  <2> QED
    BY <2>1, <2>2
<1>3. Left[1] = RoutinesLeft /\ Left'[1] = RoutinesLeft'
  BY DEF Left
<1>4. Left'[1] < Left[1] /\ \A j \in 1 .. 1 - 1 : Left'[j] = Left[j]
  BY <1>2, <1>3
<1> QED
  BY <1>4 DEF Less

(* Every step leaves less.                                                   *)
LEMMA NextIsLess == TypeInv /\ RoundsCounted /\ Next => Less
<1> SUFFICES ASSUME TypeInv, RoundsCounted, Next PROVE Less
  OBVIOUS
<1>1. V01Next \/ O3Next \/ O4Next \/ O5Next \/ O6Next \/ O7Next => Less
  BY V01Used, O3Used, O4Used, O5Used, O6Used, O7Used, UsedIsLess
<1> QED
  BY <1>1, AddIsLess DEF Next

(* O5 starts its loop at the first mode and ends it at the last.             *)
LEMMA RoundsInit == Init => RoundsCounted
<1> SUFFICES ASSUME Init PROVE RoundsCounted
  OBVIOUS
<1>1. i = 0 /\ (law = "O5" => pc = "count")
  BY PlansAssumption DEF Init, OracleInit, NoLocals, FirstStep
<1> QED
  BY <1>1 DEF RoundsCounted, InLoop

(* A step of O5 keeps its place among the modes.                             *)
LEMMA O5Rounds == ASSUME TypeInv, RoundsCounted, O5Next PROVE RoundsCounted'
<1>a. law = "O5" /\ Within
  BY O5Used DEF O5Next, O5Count, O5Parse, O5Serialize, O5Capture, O5Captured, O5Reparse, O5Same,
         O5Twice, O5Done, AcceptedInput, Step
<1>b. i \in Nat /\ modes \in Seq(Text) /\ Len(modes) \in Nat
  BY DEF TypeInv, TypeOK
<1>1. ASSUME pc' = "return" PROVE RoundsCounted'
  BY <1>1 DEF RoundsCounted
<1>2. ASSUME pc \in {"count", "parse", "serialize", "capture"},
             pc' \in {"parse", "serialize", "capture"}, i' = i
      PROVE  RoundsCounted'
  <2>1. i = 0
    BY <1>a, <1>2 DEF RoundsCounted, InLoop
  <2> QED
    BY <1>2, <2>1 DEF RoundsCounted, InLoop
<1>3. ASSUME pc = "capture", pc' = "reparse", UNCHANGED <<modes, i>> PROVE RoundsCounted'
  <2>1. i = 0
    BY <1>a, <1>3 DEF RoundsCounted, InLoop
  <2> QED
    BY <1>b, <1>3, <2>1 DEF RoundsCounted, InLoop
<1>4. ASSUME NextMode, i < Len(modes) PROVE RoundsCounted'
  <2>1. i' =< Len(modes') /\ pc' = "reparse"
    BY <1>b, <1>4 DEF NextMode
  <2> QED
    BY <1>a, <2>1 DEF RoundsCounted, InLoop, Within
<1>5. ASSUME pc' \in {"same", "twice"}, UNCHANGED <<modes, i>>, i < Len(modes)
      PROVE  RoundsCounted'
  BY <1>b, <1>5 DEF RoundsCounted, InLoop
<1>6. pc \in {"same", "twice"} => i < Len(modes)
  BY <1>a DEF RoundsCounted, InLoop
<1>7. ASSUME NEW ans, O5Count(ans) \/ O5Serialize(ans) \/ O5Capture(ans) PROVE RoundsCounted'
  <2>1. \/ pc' = "return"
        \/ /\ pc \in {"count", "parse", "serialize", "capture"}
           /\ pc' \in {"parse", "serialize", "capture"} /\ i' = i
    BY <1>7 DEF O5Count, O5Serialize, O5Capture, Step, Return, Skip
  <2> QED
    BY <1>1, <1>2, <2>1
<1>8. ASSUME NEW ans \in ParseAnswers, O5Parse(ans) PROVE RoundsCounted'
  <2>1. \/ pc' = "return"
        \/ pc = "parse" /\ pc' = "serialize" /\ i' = i
    BY <1>8, Sentinels DEF O5Parse, AcceptedInput, ParseAnswers, Step, Return, Skip, locals
  <2> QED
    BY <1>1, <1>2, <2>1
<1>9. O5Captured => RoundsCounted'
  BY <1>3 DEF O5Captured, Step, locals
<1>10. ASSUME NEW ans, O5Reparse(ans) PROVE RoundsCounted'
  <2>1. i < Len(modes) /\ \/ NextMode
                          \/ pc' = "same" /\ UNCHANGED <<modes, i>>
    BY <1>10 DEF O5Reparse, locals
  <2> QED
    BY <1>4, <1>5, <2>1
<1>11. ASSUME NEW ans, O5Same(ans) PROVE RoundsCounted'
  <2>1. pc = "same" /\ pc' \in {"twice", "return"} /\ UNCHANGED <<modes, i>>
    BY <1>11 DEF O5Same, Step, Return, locals
  <2> QED
    BY <1>1, <1>5, <1>6, <2>1
<1>12. ASSUME NEW ans, O5Twice(ans) PROVE RoundsCounted'
  BY <1>4, <1>6, <1>12 DEF O5Twice, Step
<1>13. O5Done => RoundsCounted'
  BY <1>1 DEF O5Done, Return
<1> QED
  BY <1>7, <1>8, <1>9, <1>10, <1>11, <1>12, <1>13 DEF O5Next

(* And so does every step of a call.                                         *)
LEMMA RoundsNext == TypeInv /\ RoundsCounted /\ [Next]_vars => RoundsCounted'
<1> SUFFICES ASSUME TypeInv, RoundsCounted, [Next]_vars PROVE RoundsCounted'
  OBVIOUS
<1>1. UNCHANGED vars => RoundsCounted'
  BY DEF vars, control, locals, RoundsCounted, InLoop
<1>2. ASSUME Within, law # "O5" PROVE RoundsCounted'
  BY <1>2 DEF Within, RoundsCounted
<1>3. /\ V01Next => law = "O1O2"
      /\ O3Next => law = "O3"
      /\ O4Next => law = "O4"
  BY DEF V01Next, V01Parse, V01Reparse, V01GetReparse, V01Serialize, V01Again, V01Pointers,
         V01Get, V01PhaseB, V01Done, O3Next, O3Parse, O3Serialize, O3Pointers, O3PassOver,
         O3Unresolved, O3Get, O3Done, O4Next, O4Parse, O4Restore, O4Serialize, O4After,
         O4Reserialize, O4Pointers, O4Get, O4Set, O4Remove, O4Choose, O4Chosen, O4Done,
         AcceptedInput, Enumerated, Step
<1>4. /\ O6Next => law = "O6"
      /\ O7Next => law = "O7"
  BY DEF O6Next, O6Declared, O6Parse, O6Serialize, O6Reparse, O6Again, O7Next, O7Strict,
         O7StrictText, O7Lazy, O7LazyText, AcceptedInput, Step
<1>5. V01Next \/ O3Next \/ O4Next \/ O6Next \/ O7Next => RoundsCounted'
  BY <1>2, <1>3, <1>4, V01Used, O3Used, O4Used, O6Used, O7Used
<1>6. Add => RoundsCounted'
  <2>1. Add => i' = 0 /\ (pc' \in {"return", "count", "declared", "parse"})
    BY DEF Add, FirstStep
  <2> QED
    BY <2>1 DEF RoundsCounted, InLoop
<1> QED
  BY <1>1, <1>5, <1>6, O5Rounds DEF Next

(* A call of the oracle spends with every step: whatever a SUT answers, and  *)
(* however long its lists are, no step of check_all() leaves as much to do   *)
(* as there was.  The numbers that get less are natural numbers, the order   *)
(* on them is well-founded, so that the call has no endless run; that it     *)
(* also takes its last step is what fairness is for (Terminates).            *)
THEOREM CallsRunOut == Spec => EveryStepSpends
<1>1. Init => TypeInv /\ RoundsCounted
  BY TypeInit, RoundsInit
<1>2. (TypeInv /\ RoundsCounted) /\ [Next]_vars => (TypeInv /\ RoundsCounted)'
  BY TypeStep, RoundsNext
<1>3. (TypeInv /\ RoundsCounted) /\ [Next]_vars => [Spends]_vars
  BY LeftCounts, NextIsLess DEF Spends, Less
<1> QED
  BY <1>1, <1>2, <1>3, PTL DEF Spec, EveryStepSpends
=============================================================================
