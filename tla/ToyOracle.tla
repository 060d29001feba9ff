----------------------------- MODULE ToyOracle -----------------------------
(***************************************************************************)
(* The oracle run on the SUTs this repository registers: the toy, which    *)
(* has to pass, and the two broken ones, which have to be caught.  Every   *)
(* call check_all() makes is answered by the registered SUT's own code.    *)
(***************************************************************************)
EXTENDS CheckAll, ToyTree, JsonTree

CONSTANTS
  Suts,            \* the registered names that are run
  TreeOf(_),       \* the tree a text spells, or Malformed
  Spelled(_, _)    \* the text of a tree: "compact", "pretty" or "comma"

VARIABLES
  sut,   \* the registered name
  held   \* ToySut::Impl::root, and BrokenSiblingSut::root_; Nowhere at first

toyvars == <<sut, held>>

\* BrokenCommaSut::serialize(): a comma before the closing bracket.
ToySerialize ==
  IF held = Nowhere THEN EmptyText
  ELSE Spelled(IF sut = "broken-comma" /\ IsContainer(held) THEN "comma" ELSE "compact", held)

\* The default serialize_mode() of the broken SUTs has mode 0 only.
ToySerializeMode(m) ==
  IF m = 0 THEN ToySerialize
  ELSE IF sut = "toy" /\ m = 1 /\ held # Nowhere THEN Spelled("pretty", held)
  ELSE EmptyText

ToyGet(p) ==
  IF ToyResolve(held, p) = Nowhere THEN NoText ELSE Spelled("compact", ToyResolve(held, p))

\* BrokenSiblingSut::get(): an object member answers with the next one's value.
SiblingGet(p) ==
  LET parent == IF p = << >> THEN Nowhere ELSE ToyResolve(held, SubSeq(p, 1, Len(p) - 1))
      k == IF parent.kind = "object" THEN ChildAt(parent, p[Len(p)]) ELSE 0
  IN  IF k # 0 /\ k < Len(parent.members)
      THEN Spelled("compact", parent.members[k + 1].val)
      ELSE ToyGet(p)

\* set() and remove(): only the toy offers them.
ToyWrite(new) ==
  IF sut # "toy" THEN "Unsupported" ELSE IF new = Nowhere THEN "Rejected" ELSE "Applied"

\* Mutant: a SUT that holds a document takes no other.
ToyParseOnce(text) ==
  IF ToyAccepts(TreeOf(text)) /\ held = Nowhere THEN "accepted" ELSE "rejected"

ToyParse(text) == IF ToyAccepts(TreeOf(text)) THEN "accepted" ELSE "rejected"

Reply(op, arg) ==
  CASE op = "parse" -> ToyParse(arg)
    [] op = "serialize" -> ToySerialize
    [] op = "serialize_mode" -> ToySerializeMode(arg)
    [] op = "pointers" -> ToyPointers(held, MaxDepth)
    [] op = "get" -> IF sut = "broken-sibling" THEN SiblingGet(arg) ELSE ToyGet(arg)
    [] op = "set" -> ToyWrite(Written(held, arg, TreeOf(SetValue)))
    [] op = "remove" -> ToyWrite(Erased(held, arg))
    [] op = "serialize_mode_count" -> IF sut = "toy" THEN 2 ELSE 1
    [] op = "preserves_number_text" -> IF sut = "toy" THEN "yes" ELSE "no"

HeldAfter(op, arg, ans) ==
  CASE op = "parse" /\ ans = "accepted" -> TreeOf(arg)
    [] op = "set" /\ ans = "Applied" -> Written(held, arg, TreeOf(SetValue))
    [] op = "remove" /\ ans = "Applied" -> Erased(held, arg)
    [] OTHER -> held

ToyInit == Init /\ sut \in Suts /\ held = Nowhere

\* The SUT's part in a step of the oracle.
ToyReplies ==
  /\ sut' = sut
  /\ IF Len(log') =< Len(log) THEN held' = held
     ELSE LET c == log'[Len(log')]
          IN  /\ c.ans = Reply(c.op, c.arg)
              /\ held' = HeldAfter(c.op, c.arg, c.ans)

ToyNext == Next /\ ToyReplies

-----------------------------------------------------------------------------
(* The toy implements the contract of sut.hpp: each of its answers is the    *)
(* one an honest SUT would give, whatever check_all() called before, and no  *)
(* law blames it ("The deliberately-correct toy SUT", sut.hpp:150).          *)
ToyIsHonest == sut = "toy" => honest /\ rep.violations = {} /\ r.violations = {}

LawsBlamed == {L \in Law : \E v \in rep.violations : v.law = L}

\* The class broken-sibling is wrong about: an enumerated member of d, away from duplicated
\* keys, with a sibling of another value after it.
Misread(d) ==
  \E k \in DOMAIN ToyPointers(d, MaxDepth) :
    LET p == ToyPointers(d, MaxDepth)[k]
        parent == IF p = << >> THEN Nowhere ELSE ToyResolve(d, SubSeq(p, 1, Len(p) - 1))
        n == ChildAt(parent, p[Len(p)])
    IN  /\ p # << >> /\ parent.kind = "object" /\ n < Len(parent.members)
        /\ p \notin Dups[Canon[d]]
        /\ RefTree(parent.members[n].val) # RefTree(parent.members[n + 1].val)

(* The two broken SUTs are caught, by the law meant for them and by no       *)
(* other: broken-comma by O1 whenever the document is a container            *)
(* (sut.hpp:176-180), broken-sibling by O3 ("the class O1/O2 cannot see")    *)
(* whenever an enumerated member has a sibling of another value after it.    *)
BrokenAreCaught ==
  law = "done" /\ ToyAccepts(TreeOf(input)) =>
    /\ sut = "broken-comma" => LawsBlamed = IF IsContainer(TreeOf(input)) THEN {"O1"} ELSE {}
    /\ sut = "broken-sibling" /\ Ref[Canon[TreeOf(input)]] # NoValue =>
         LawsBlamed = IF Misread(TreeOf(input)) THEN {"O3"} ELSE {}

(* "It implements every v0.3 capability so every v0.3 law is exercised"      *)
(* (sut.hpp:153-155): on a document the reference can model, with a          *)
(* container in it and no key twice, the toy leaves no law out.              *)
EveryLawExercised ==
  (/\ sut = "toy" /\ law = "done"
   /\ ToyAccepts(TreeOf(input)) /\ IsContainer(TreeOf(input))
   /\ input \in Scannable /\ Dups[input] = {} /\ ~comments)
  => \A L \in Law : rep.evaluated[L]
=============================================================================
