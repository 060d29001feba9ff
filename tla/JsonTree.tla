----------------------------- MODULE JsonTree -----------------------------
(***************************************************************************)
(* What is asked of documents (Documents) by recursion on them: the        *)
(* pointers of a tree, and nlohmann's reading of it, which meets the toy   *)
(* SUT's in the oracle (the last member of a duplicated key is the only    *)
(* one).                                                                   *)
(***************************************************************************)
EXTENDS Documents

\* Mutant: a duplicated key is listed as often as it occurs.
RECURSIVE CollectEvery(_, _)
CollectEvery(v, prefix) ==
  LET below(k) == LET m == v.members[k] IN CollectEvery(m.val, Append(prefix, KeyOf(m)))
      RECURSIVE From(_)
      From(k) == IF k > Len(v.members) THEN << >> ELSE below(k) \o From(k + 1)
  IN  <<prefix>> \o From(1)

\* collect_pointers(): pre-order, each key of an object once, as its first occurrence.
RECURSIVE CollectPointers(_, _)
CollectPointers(v, prefix) ==
  LET below(k) == LET m == v.members[k]
                  IN  IF FirstMember(v, KeyOf(m)) = k
                      THEN CollectPointers(m.val, Append(prefix, KeyOf(m))) ELSE << >>
      RECURSIVE From(_)
      From(k) == IF k > Len(v.members) THEN << >> ELSE below(k) \o From(k + 1)
  IN  <<prefix>> \o From(1)

\* pointers(): one per level down to max_depth.
ToyPointers(v, depth) ==
  IF v = Nowhere THEN << >>
  ELSE SelectSeq(CollectPointers(v, << >>), LAMBDA p : Len(p) =< depth)

RECURSIVE Parts(_)
Parts(v) == {v} \cup UNION {Parts(v.members[k].val) : k \in DOMAIN v.members}

-----------------------------------------------------------------------------
(* nlohmann's reading: an object is a map, the last duplicate wins.          *)
LastMember(v, key) ==
  CHOOSE k \in DOMAIN v.members :
    /\ KeyOf(v.members[k]) = key
    /\ \A j \in k + 1 .. Len(v.members) : KeyOf(v.members[j]) # key

RECURSIVE RefTree(_)
RefTree(v) ==
  [kind |-> v.kind, atom |-> v.atom,
   members |-> {Member(key, RefTree(v.members[LastMember(v, key)].val)) : key \in KeysOf(v)}]

RefKeys(node) == {m.key : m \in node.members}

RECURSIVE RefWalk(_, _, _)
RefWalk(node, p, none) ==
  IF p = << >> THEN node
  ELSE IF Head(p) \notin RefKeys(node) THEN none
  ELSE RefWalk((CHOOSE m \in node.members : m.key = Head(p)).val, Tail(p), none)

\* DuplicateKeyFinder: the pointers of the keys an object holds twice, anywhere.
RECURSIVE DuplicatedKeys(_, _)
DuplicatedKeys(v, prefix) ==
  {Append(prefix, KeyOf(v.members[k])) : k \in {k \in DOMAIN v.members :
      \E j \in 1 .. k - 1 : KeyOf(v.members[j]) = KeyOf(v.members[k])}}
  \cup UNION {DuplicatedKeys(v.members[k].val, Append(prefix, KeyOf(v.members[k]))) :
              k \in DOMAIN v.members}

\* through_duplicate(): a duplicated key's pointer, or one below it.
ThroughDuplicate(p, dups) ==
  \E d \in dups : Len(d) =< Len(p) /\ SubSeq(p, 1, Len(d)) = d

\* The fresh child O4 writes: one past the end of an array, an unused key of an object.
FreshKey(n) == "~/jf" \o ToString(n)
FreshToken(node) ==
  IF node.kind = "array" THEN ToString(Cardinality(node.members))
  ELSE FreshKey(CHOOSE n \in 0 .. Cardinality(node.members) :
                  /\ FreshKey(n) \notin RefKeys(node)
                  /\ \A m \in 0 .. n - 1 : FreshKey(m) \in RefKeys(node))

\* set() adds rather than replaces: a missing member of an object, an array's end.
IsAddable(v, p, none) ==
  /\ p # << >>
  /\ Resolve(v, p, none) = none
  /\ LET parent == Resolve(v, SubSeq(p, 1, Len(p) - 1), none)
     IN  /\ parent # none
         /\ \/ parent.kind = "object"
            \/ parent.kind = "array" /\ p[Len(p)] = ToString(Len(parent.members))

\* number_tokens(): how often a spelling occurs.
RECURSIVE Occurrences(_, _)
Occurrences(v, token) ==
  LET RECURSIVE From(_)
      From(k) == IF k > Len(v.members) THEN 0
                 ELSE Occurrences(v.members[k].val, token) + From(k + 1)
  IN  (IF v.kind = "scalar" /\ v.atom = token THEN 1 ELSE 0) + From(1)
=============================================================================
