---------------------------- MODULE ToyListing ----------------------------
(* What pointers() lists of the documents ToySut's calls build.              *)
EXTENDS ToySut, JsonTree

(* Whatever was written, every pointer pointers() lists resolves, and to     *)
(* what get() answers there by the standard's reading (law O2's half A; the  *)
(* comment at jsonfuzz_sut.cpp:486-490 tells of the pointer that did not).   *)
EnumeratedResolve ==
  LET listed == ToyPointers(root, MaxDepth)
  IN  \A k \in DOMAIN listed :
        /\ ToyResolve(root, listed[k]) # Nowhere
        /\ ToyResolve(root, listed[k]) = Resolve(root, listed[k], Nowhere)
        /\ \A j \in 1 .. k - 1 : listed[j] # listed[k]
=============================================================================
