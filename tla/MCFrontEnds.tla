---------------------------- MODULE MCFrontEnds ----------------------------
(* The three callers, and the registered SUTs, on the documents of MCCheckAll. *)
EXTENDS MCCheckAll, FrontEnds

MCEncoded == ("\"" :> "\\\"")
MCDigits == ("0" :> <<0>>) @@ ("1" :> <<1>>) @@ ("2" :> <<2>>) @@ ("3" :> <<3>>)
              @@ ("4" :> <<4>>) @@ ("5" :> <<5>>)
MCSuts == {"toy", "broken-comma", "broken-sibling"}

\* Any text with a comma before a closing bracket is junk to everybody, and so stands
\* for the text of a document that is none of these.
MCSpelled(mode, d) ==
  IF mode = "comma" \/ d \notin MCValue THEN Junk
  ELSE IF mode = "compact" THEN CanonOf(d) ELSE PrettyOf(d)
MCTreeOf(t) == IF Rejected(t) \/ HasAtom(t.doc, "01") THEN Malformed ELSE t.doc

\* Inputs of the fuzzer: rejected or accepted as they are; what is generated has a container
\* with members, one without, or none.
MCFuzzInputs == {
  [raw |-> Junk, generated |-> CanonOf(Single)],
  [raw |-> CanonOf(One), generated |-> CanonOf(One)],
  [raw |-> RawUnmodelled, generated |-> RawDoubled]}
\* A text nlohmann parses is cut to junk, replaced by the dump of another document, or kept.
MCMutations(text) == IF Modelled(text) THEN {text, Junk, CanonOf(KTrue)} ELSE {text}

MCFiles == ("plain" :> RawPlain) @@ ("wide" :> RawWide) @@ ("cut" :> Junk)
             @@ ("lone" :> RawUnmodelled)
MCInts == ("1" :> 1) @@ ("-1" :> -1) @@ ("9" :> 9)

Checks ==
  LET opts == {<< >>, <<"--sut">>} \cup ({"--sut", "--in", "--op"} \X
                 {"toy", "broken-comma", "broken-sibling", "ghost", "plain", "wide", "cut", "lone", "--in"})
  IN  {<<"check">> \o a \o b \o c : a, b \in opts, c \in {<< >>, <<"--sut", "toy">>, <<"--in", "cut">>}}
MCArgvs ==
  Checks \cup
  {<< >>, <<"--version">>, <<"--list-suts", "--bogus">>, <<"frobnicate">>,
   <<"gen">>, <<"gen", "--bytes", "-1">>, <<"gen", "--bytes", "9">>, <<"gen", "--seed", "x">>,
   <<"gen", "--seeed", "1">>,
   <<"mutate", "--in", "plain">>, <<"mutate", "--in", "plain", "--op", "swap-members">>,
   <<"mutate", "--op", "wrap-in-array", "--in", "none">>}

ToyInputs == {RawPlain, RawDoubled, RawWide, RawUnmodelled, Junk, CanonOf(One), CanonOf(Single),
              CanonOf(KTrue)}

\* The texts and pointer lists the registered SUTs answer with on these inputs.
Spelt == UNION {Parts(d) : d \in {Plain, Doubled, Wide, Unmodelled, One, Single, KTrue}}
           \cup {MCReads[MCSetValues[k]] : k \in DOMAIN MCSetValues}
ToySpoken == {Junk, MCEmptyText} \cup {CanonOf(d) : d \in Spelt} \cup {PrettyOf(d) : d \in Spelt}
ToyPointerLists == {CollectPointers(d, << >>) : d \in Spelt}
=============================================================================
