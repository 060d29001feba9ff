---------------------------- MODULE MCCheckAll ----------------------------
(***************************************************************************)
(* Small instances of CheckAll.  The documents are trees (JsonTree); every *)
(* table the oracle modules take as a constant is computed from them, so   *)
(* the assumptions of Sut are theorems about two real readings of JSON,    *)
(* which TLC evaluates on these documents.                                 *)
(***************************************************************************)
EXTENDS CheckAll, JsonTree

Null == Leaf("null")
One == Leaf("1")
LazyOne == Leaf("01")         \* what a lenient SUT accepts; nlohmann does not
LoneSurrogate == Leaf("\\uD800")
Str == Leaf("v")
KTrue == Obj(<<Member("k", Leaf("true"))>>)
Empty == Arr(<< >>)

Plain == Obj(<<Member("a", One), Member("~/jf0", Arr(<<One>>))>>)   \* one number twice
\* One key, spelled in two ways.
Doubled ==
  Obj(<<Member("a", Arr(<<One, One>>)), Member("\\u0061", Arr(<<Leaf("0")>>))>>)
MCDecoded == ("\\u0061" :> "a") @@ ("\\\"" :> "\"")
Single == Obj(<<Member("a", Arr(<<One, One>>))>>)
LazyDoubled == Obj(<<Member("a", LazyOne), Member("a", One)>>)
LazySingle == Obj(<<Member("a", LazyOne)>>)
Wide == Arr(<<Empty, Empty, Empty, Empty, Empty>>)
Unmodelled == Arr(<<LoneSurrogate, Empty>>)

Documents == {Plain, Doubled, Single, LazyDoubled, LazySingle, Wide, Unmodelled, One, LazyOne,
              Null, Str, Arr(<<Leaf("0")>>), KTrue}
MCValue == UNION {Parts(d) : d \in Documents}

TextOf(form, doc) == [form |-> form, doc |-> doc]
CanonOf(d) == TextOf("canonical", d)
PrettyOf(d) == TextOf("pretty", d)
MCEmptyText == TextOf("empty", Null)
Junk == TextOf("junk", Null)

\* Raw inputs: as is; by a parser that drops the second duplicate; 1.0, read as 1; a
\* number in a comment.
RawPlain == TextOf("raw", Plain)
RawDoubled == TextOf("raw", Doubled)
RawDropped == TextOf("dropped", Doubled)
RawLazyDropped == TextOf("dropped", LazyDoubled)
RawOneDot == TextOf("respelt", One)
RawComment == TextOf("comment", One)
RawWide == TextOf("raw", Wide)
RawLazy == TextOf("raw", LazyOne)
RawUnmodelled == TextOf("raw", Unmodelled)

RawTexts == {RawPlain, RawDoubled, RawDropped, RawOneDot, RawComment, RawWide,
             RawLazy, RawLazyDropped, RawUnmodelled, Junk}
MCText == RawTexts \cup {MCEmptyText}
            \cup {CanonOf(d) : d \in MCValue} \cup {PrettyOf(d) : d \in MCValue}

Rejected(t) == t.form \in {"junk", "empty"}
HasAtom(d, atom) == Occurrences(d, atom) > 0

MCReads == [t \in MCText |-> IF Rejected(t) THEN NoValue
                             ELSE IF t = RawDropped THEN Single
                             ELSE IF t = RawLazyDropped THEN LazySingle ELSE t.doc]
MCStrict == {t \in MCText : ~Rejected(t) /\ ~HasAtom(t.doc, "01")}
MCCommented == {RawComment}
MCCanon == [d \in MCValue |-> CanonOf(d)]
MCModeText == [m \in 0 .. 1 |-> [d \in MCValue |-> IF m = 0 THEN CanonOf(d) ELSE PrettyOf(d)]]

\* Every pointer of a document, the fresh children of its containers, and one bogus.
Walked == UNION {{CollectPointers(d, << >>)[k] : k \in DOMAIN CollectPointers(d, << >>)} :
                 d \in MCValue}
Modelled(t) ==
  ~Rejected(t) /\ ~HasAtom(t.doc, "01") /\ ~HasAtom(t.doc, "\\uD800") /\ t.form # "comment"
MCRef == [t \in MCText |-> IF Modelled(t) THEN RefTree(t.doc) ELSE NoValue]
Bogus == <<"nowhere">>
FreshIn(d) ==
  {Append(p, FreshToken(RefWalk(RefTree(d), p, NoValue))) :
     p \in {q \in Walked : Resolve(d, q, NoValue) # NoValue
                           /\ RefWalk(RefTree(d), q, NoValue) # NoValue
                           /\ IsContainer(RefWalk(RefTree(d), q, NoValue))}}
MCPointer == Walked \cup UNION {FreshIn(d) : d \in MCValue} \cup {Bogus}

MCAt == [d \in MCValue |-> [p \in MCPointer |-> Resolve(d, p, NoValue)]]
MCAddable == [d \in MCValue |-> {p \in MCPointer : IsAddable(d, p, NoValue)}]
MCRefValue == {MCRef[t] : t \in MCText} \ {NoValue}
MCRefAt == [node \in MCRefValue |-> [p \in MCPointer |-> RefWalk(node, p, NoValue)]]
MCContainer == {node \in MCRefValue : IsContainer(node)}
MCScannable == {t \in MCText : Modelled(t)}
\* What stops a scan here comes before any second key.
MCDups == [t \in MCText |->
             IF t \notin MCScannable THEN {}
             ELSE {p \in MCPointer : ThroughDuplicate(p, DuplicatedKeys(t.doc, << >>))}]
MCTwiceKeyed == {t \in MCText : ~Rejected(t) /\ DuplicatedKeys(t.doc, << >>) # {}}
MCToken == {"0", "1", "01", "1.0", "7"}
MCTokens == [t \in MCText |-> [k \in MCToken |->
               CASE Rejected(t) -> 0
                 [] t.form = "respelt" -> IF k = "1.0" THEN 1 ELSE 0
                 [] t.form = "comment" /\ k = "7" -> 1
                 [] OTHER -> Occurrences(t.doc, k)]]
MCFresh == [p \in MCPointer |-> [node \in MCContainer |->
              LET fresh == Append(p, FreshToken(node))
              IN  IF fresh \in MCPointer THEN fresh ELSE Bogus]]
MCSetValues == <<CanonOf(Null), CanonOf(One), CanonOf(Str),
                 CanonOf(Arr(<<Leaf("0")>>)), CanonOf(KTrue)>>

-----------------------------------------------------------------------------
(* The bounds of the runs.                                                   *)
AllConfigs == [strict : BOOLEAN, comments : BOOLEAN]
LazyConfig == {[strict |-> FALSE, comments |-> FALSE]}
AllOffers == [set : BOOLEAN, remove : BOOLEAN, modes : 1 .. 2, numbers : BOOLEAN]
FullOffer == {[set |-> TRUE, remove |-> TRUE, modes |-> 2, numbers |-> TRUE]}
HonestPointerLists ==
  {<< >>} \cup {CollectPointers(d, << >>) : d \in MCValue}
OnlyJunk == {Junk}
CheckAllPlan == {<<"O1O2", "O3", "O4", "O5", "O6", "O7">>}

\* A SUT that lies about Plain: it may answer with the text of another document, a
\* re-spelling, junk or nothing, and list a pointer twice or one that is not there.
LiarTexts == {CanonOf(Plain), PrettyOf(Plain), CanonOf(One), Junk, MCEmptyText}
LiarPointerLists ==
  {<< >>, << << >> >>, << << >>, <<"a">> >>, << <<"~/jf0">>, << >> >>,
   << << >>, << >> >>, <<Bogus>>}
OnlyPlain == {RawPlain}
LiarPlans == {<<"O1O2">>, <<"O3">>, <<"O4">>, <<"O5">>, <<"O6", "O7">>}
WritePlans == {<<"O4">>}
ThrowPlans == {<<"O1O2">>}
=============================================================================
