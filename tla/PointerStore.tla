---------------------------- MODULE PointerStore ----------------------------
(***************************************************************************)
(* What include/jsonfuzz/sut.hpp promises of set() and remove(), in terms  *)
(* of pointers alone: a document is what get() tells of it, the nodes      *)
(* [ptr, kind, atom], one for each pointer that resolves.  A write changes *)
(* what is at and below one pointer and nothing else; a refusal changes    *)
(* nothing.                                                                *)
(***************************************************************************)
EXTENDS Integers, Sequences, FiniteSets, TLC, SequencesExt

CONSTANT NotAPointer   \* what is no pointer at all names nothing

VARIABLES
  nodes,  \* no node at all before a parse was accepted
  call    \* the last call: [op, ptr, val, status], val being such nodes

pvars == <<nodes, call>>

Below(p, q) == IsPrefix(p, q)
Off(f, p) == {n \in f : ~Below(p, n.ptr)}
IsA(f, p, kind) == \E n \in f : n.ptr = p /\ n.kind = kind
Size(f, p) == Cardinality({n \in f : Len(n.ptr) = Len(p) + 1 /\ Below(p, n.ptr)})
IsIndex(token, bound) == \E n \in 0 .. bound : token = ToString(n)
IndexOf(token, bound) == CHOOSE n \in 0 .. bound : token = ToString(n)

PInit == nodes = {} /\ call = [op |-> "none", ptr |-> << >>, val |-> {}, status |-> "none"]

\* parse(): a rejection leaves the last accepted document.
PParse ==
  /\ call'.op = "parse"
  /\ \/ call'.status = "Rejected" /\ nodes' = nodes
     \/ call'.status = "Applied" /\ nodes' = call'.val /\ nodes' # {}

-----------------------------------------------------------------------------
(* "an object member is added or replaced, an array index equal to the size  *)
(* (or "-") appends, a smaller index replaces" (sut.hpp:79-82)               *)
Settable(f, p) ==
  \/ p = << >> /\ f # {}
  \/ /\ p \notin {<< >>, NotAPointer}
     /\ \/ IsA(f, Front(p), "object")
        \/ /\ IsA(f, Front(p), "array")
           /\ Last(p) = "-" \/ IsIndex(Last(p), Size(f, Front(p)))

Target(f, p) ==
  IF p # << >> /\ IsA(f, Front(p), "array") /\ Last(p) = "-"
  THEN Append(Front(p), ToString(Size(f, Front(p)))) ELSE p

Grafted(f, p, val) == Off(f, p) \cup {[n EXCEPT !.ptr = p \o @] : n \in val}

PSet ==
  /\ call'.op = "set"
  /\ LET before  == nodes
         applies == call'.val # {} /\ Settable(before, call'.ptr)
     IN  /\ call'.status = IF applies THEN "Applied" ELSE "Rejected"
         /\ nodes' = IF applies
                     THEN Grafted(before, Target(before, call'.ptr), call'.val) ELSE before

-----------------------------------------------------------------------------
(* "Remove the value at `pointer` (an object member or an array element)"    *)
Removable(f, p) == p \notin {<< >>, NotAPointer} /\ \E n \in f : n.ptr = p

\* The elements after the removed one, of size, move down.
Moved(q, p, size) ==
  LET array == Front(p)
      d == Len(p)
  IN  IF Below(array, q) /\ q # array /\ IndexOf(q[d], size) > IndexOf(p[d], size)
      THEN [q EXCEPT ![d] = ToString(IndexOf(@, size) - 1)] ELSE q

ElementGone(f, p) ==
  LET size == Size(f, Front(p))
  IN  {[n EXCEPT !.ptr = Moved(@, p, size)] : n \in Off(f, p)}

\* Of an object, a second member of that key is uncovered, if the text had one.
PRemove ==
  /\ call'.op = "remove"
  /\ LET before == nodes
         p == call'.ptr
     IN  \/ ~Removable(before, p) /\ call'.status = "Rejected" /\ nodes' = before
         \/ /\ Removable(before, p) /\ call'.status = "Applied"
            /\ \/ IsA(before, Front(p), "array") /\ nodes' = ElementGone(before, p)
               \/ IsA(before, Front(p), "object") /\ Off(nodes', p) = Off(before, p)

PNext == PParse \/ PSet \/ PRemove

PSpec == PInit /\ [][PNext]_pvars
=============================================================================
