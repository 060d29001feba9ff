------------------------------- MODULE Laws -------------------------------
(***************************************************************************)
(* The seven laws as include/jsonfuzz/oracle.hpp states them, about the    *)
(* calls one routine made and the answers it got (log), and about nothing  *)
(* else of the routine: when has the SUT satisfied a law that ran?         *)
(***************************************************************************)
EXTENDS Oracle, FiniteSets

Did(k, op, arg) == k \in DOMAIN log /\ log[k].op = op /\ log[k].arg = arg

Answer(k) == log[k].ans

ParsedOK(k, text) == Did(k, "parse", text) /\ Answer(k) = "accepted"

Serialized(k, text) == Did(k, "serialize", NoText) /\ Answer(k) = text

Calls(op) == {k \in DOMAIN log : log[k].op = op}

\* The calls after the input parse, which the declarations of O5 and O6 precede.
LaterCalls == {k \in DOMAIN log : \E j \in Calls("parse") : j < k}

\* serialize() reparses, and serialize() of the reparse is identical to it.
O1Held ==
  LET once == Answer(2)
  IN  /\ once \in Text
      /\ ParsedOK(3, once)
      /\ Serialized(4, once)

\* Every pointer is returned by get() from one model, as a text that reparses.
O2Held ==
  \E q \in Calls("pointers") :
    /\ Answer(q) # Threw
    /\ \A k \in DOMAIN Answer(q) :
         /\ Did(q + k, "get", Answer(q)[k])
         /\ Answer(q + k) \in Text
         /\ ParsedOK(q + Len(Answer(q)) + k, Answer(q + k))

\* get(p) is what the reference walk of the canonical text finds at p, for every
\* enumerated p that no duplicated key is involved in.
O3Held ==
  LET c  == Answer(2)
      ps == {Answer(3)[k] : k \in DOMAIN Answer(3)} \ Dups[c]
      gets == 4 .. Len(log)
  IN  /\ \A g \in gets : /\ log[g].op = "get"
                         /\ Answer(g) \in Text
                         /\ Ref[Answer(g)] = RefAt[Ref[c]][log[g].arg]
      /\ \A p \in ps : RefAt[Ref[c]][p] # NoValue /\ \E g \in gets : log[g].arg = p

\* Each container, up to the bound, took a child, gave it back equal, let it go, and
\* serialized to the canonical text again.
O4Held ==
  LET c  == Answer(2)
      ps == Answer(3)
      containers == {k \in DOMAIN ps : ps[k] \notin Dups[c]
                                       /\ RefAt[Ref[c]][ps[k]] \in Container}
      nth(s) == Cardinality({w \in Calls("set") : w < s})
      value(s) == SetValues[(nth(s) % Len(SetValues)) + 1]
  IN  /\ \/ Cardinality(Calls("set")) = kSetRemoveParents
         \/ Cardinality(Calls("set")) = Cardinality(containers)
      /\ Cardinality(Calls("set")) =< kSetRemoveParents
      /\ \A s \in Calls("set") :
           /\ Answer(s) = "Applied"
           /\ Did(s + 1, "get", log[s].arg)
           /\ Answer(s + 1) \in Text /\ Ref[Answer(s + 1)] = Ref[value(s)]
           /\ Did(s + 2, "remove", log[s].arg) /\ Answer(s + 2) = "Applied"
           /\ Serialized(s + 3, c)

\* Every mode, serialized from one model, reparses to the canonical document and is
\* spelled the same by the reparse.
O5Held ==
  LET n == Answer(1)
      c == Answer(3)
  IN  \A m \in 0 .. n - 1 :
        LET once  == Answer(4 + m)
            again == 4 + n + 3 * m
        IN  /\ Did(4 + m, "serialize_mode", m)
            /\ ParsedOK(again, once)
            /\ Serialized(again + 1, c)
            /\ Did(again + 2, "serialize_mode", m) /\ Answer(again + 2) = once

\* Every number token of the input is in the text of the reparsed document.
O6Held ==
  /\ ParsedOK(4, Answer(3))
  /\ Answer(5) \in Text
  /\ \A k \in Token : Tokens[input][k] =< Tokens[Answer(5)][k]

\* The lazy parse accepts too, to the same canonical text.
O7Held == ParsedOK(3, input) /\ Serialized(4, Answer(2))

LawHeld(L) ==
  CASE L = "O1" -> O1Held
    [] L = "O2" -> O2Held
    [] L = "O3" -> O3Held
    [] L = "O4" -> O4Held
    [] L = "O5" -> O5Held
    [] L = "O6" -> O6Held
    [] L = "O7" -> O7Held
=============================================================================
