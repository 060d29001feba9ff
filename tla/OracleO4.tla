----------------------------- MODULE OracleO4 -----------------------------
(***************************************************************************)
(* check_set_remove(): law O4.  Under up to kSetRemoveParents containers   *)
(* the reference confirms, a fresh child is set, read back and removed,    *)
(* and the canonical text must come back.  After a violation the model is  *)
(* unknown, so the canonical document is parsed again first.               *)
(***************************************************************************)
EXTENDS Oracle

O4Parse(ans) == AcceptedInput("O4", strict, "serialize", ans)

O4Serialize(ans) ==
  /\ Step("O4", "serialize")
  /\ SerializeCall(ans)
  /\ Within
  /\ \/ ans = Threw /\ Return(Blamed("O4", "serialize threw", NoPointer))
     \/ /\ ans # Threw /\ Ref[ans] = NoValue
        /\ Skip("reference cannot model")
     \/ /\ ans # Threw /\ Ref[ans] # NoValue
        /\ canonical' = ans /\ pc' = "pointers"
        /\ UNCHANGED <<r, ptrs, resolved, parents, i, count, modes>>

O4Pointers(ans) == Enumerated("O4", "choose", r, ans)

\* Mutant: the reference's container under a duplicated key is trusted.
IsParentAnyKey(p) == RefAt[Ref[canonical]][p] \in Container

\* A container the reference confirms; one it does not resolve never becomes a write.
IsParent(p) ==
  /\ p \notin Dups[canonical]
  /\ RefAt[Ref[canonical]][p] \in Container

\* Mutant: the loop collects every container.
O4ChooseAll ==
  /\ Step("O4", "choose") /\ ptrs # << >>
  /\ parents' = IF IsParent(Head(ptrs))
                THEN Append(parents, [ptr  |-> Head(ptrs),
                                      node |-> RefAt[Ref[canonical]][Head(ptrs)]])
                ELSE parents
  /\ ptrs' = Tail(ptrs)
  /\ Within /\ UNCHANGED <<sutvars, pc, r, canonical, resolved, i, count, modes>>

\* One pointer of the loop that collects the parents.
O4Choose ==
  /\ Step("O4", "choose") /\ ptrs # << >> /\ Len(parents) < kSetRemoveParents
  /\ parents' = IF IsParent(Head(ptrs))
                THEN Append(parents, [ptr  |-> Head(ptrs),
                                      node |-> RefAt[Ref[canonical]][Head(ptrs)]])
                ELSE parents
  /\ ptrs' = Tail(ptrs)
  /\ Within /\ UNCHANGED <<sutvars, pc, r, canonical, resolved, i, count, modes>>

O4Chosen ==
  /\ Step("O4", "choose") /\ (ptrs = << >> \/ Len(parents) >= kSetRemoveParents)
  /\ Within /\ UNCHANGED sutvars
  /\ \/ parents = << >> /\ Skip("no container")
     \/ /\ parents # << >>
        /\ pc' = "write" /\ ptrs' = << >>
        /\ UNCHANGED <<r, canonical, resolved, parents, i, count, modes>>

FreshPointer == Fresh[Head(parents).ptr][Head(parents).node]
SetValue == SetValues[(i % Len(SetValues)) + 1]

\* On to the next parent.
NextParent ==
  /\ parents' = Tail(parents) /\ i' = i + 1 /\ pc' = "write"
  /\ UNCHANGED <<ptrs, resolved, count, modes>>

\* Mutant: a capability withdrawn under a later parent leaves the law evaluated.
O4SetStillEvaluated(ans) ==
  /\ Step("O4", "write") /\ parents # << >>
  /\ SetCall(FreshPointer, Reads[SetValue], ans)
  /\ Within
  /\ CASE ans = Threw ->
            /\ r' = Blamed("O4", "set threw", FreshPointer) /\ pc' = "restore"
            /\ UNCHANGED locals
       [] ans = "Unsupported" -> Skip("no write path")
       [] ans = "Rejected" ->
            /\ r' = [Blamed("O4", "set refused", FreshPointer) EXCEPT !.evaluated = TRUE]
            /\ pc' = "restore" /\ UNCHANGED locals
       [] ans = "Applied" ->
            /\ r' = [r EXCEPT !.evaluated = TRUE]
            /\ pc' = "get" /\ UNCHANGED locals

O4Set(ans) ==
  /\ Step("O4", "write") /\ parents # << >>
  /\ SetCall(FreshPointer, Reads[SetValue], ans)
  /\ Within
  /\ CASE ans = Threw ->
            /\ r' = Blamed("O4", "set threw", FreshPointer) /\ pc' = "restore"
            /\ UNCHANGED locals
       [] ans = "Unsupported" ->
            Return([r EXCEPT !.evaluated = FALSE, !.reason = "no write path"])
       [] ans = "Rejected" ->
            /\ r' = [Blamed("O4", "set refused", FreshPointer) EXCEPT !.evaluated = TRUE]
            /\ pc' = "restore" /\ UNCHANGED locals
       [] ans = "Applied" ->
            /\ r' = [r EXCEPT !.evaluated = TRUE]
            /\ pc' = "get" /\ UNCHANGED locals

\* Mutant: no restore after a value that did not take.
O4GetUnrestored(ans) ==
  /\ Step("O4", "get")
  /\ GetCall(FreshPointer, ans)
  /\ Within
  /\ \/ /\ ans \in Text /\ Ref[ans] = Ref[SetValue]
        /\ pc' = "remove" /\ UNCHANGED <<r, locals>>
     \/ /\ ~(ans \in Text /\ Ref[ans] = Ref[SetValue])
        /\ r' = Blamed("O4", "did not take", FreshPointer)
        /\ canonical' = canonical /\ NextParent

O4Get(ans) ==
  /\ Step("O4", "get")
  /\ GetCall(FreshPointer, ans)
  /\ Within /\ UNCHANGED locals
  /\ IF ans \in Text /\ Ref[ans] = Ref[SetValue]
     THEN pc' = "remove" /\ r' = r
     ELSE pc' = "restore" /\ r' = Blamed("O4", "did not take", FreshPointer)

O4Remove(ans) ==
  /\ Step("O4", "remove")
  /\ RemoveCall(FreshPointer, ans)
  /\ Within /\ UNCHANGED locals
  /\ IF ans = "Applied"
     THEN pc' = "after" /\ r' = r
     ELSE /\ pc' = "restore"
          /\ r' = Blamed("O4", IF ans = Threw THEN "remove threw" ELSE "remove refused",
                         FreshPointer)

O4After(ans) ==
  /\ Step("O4", "after")
  /\ SerializeCall(ans)
  /\ Within
  /\ \/ ans = Threw /\ Return(Blamed("O4", "serialize threw", NoPointer))
     \/ ans = canonical /\ r' = r /\ canonical' = canonical /\ NextParent
     \/ /\ ans \notin {Threw, canonical}
        /\ r' = Blamed("O4", "not the canonical text", FreshPointer)
        /\ pc' = "restore" /\ UNCHANGED locals

\* Mutant: restore() is tried until it succeeds.
O4RestoreRetried(ans) ==
  /\ Step("O4", "restore")
  /\ ParseCall(canonical, strict, ans)
  /\ Within
  /\ pc' = IF ans = "accepted" THEN "reserialize" ELSE pc
  /\ UNCHANGED <<r, locals>>

\* restore(): when the canonical text is not accepted again, the law gives up.
O4Restore(ans) ==
  /\ Step("O4", "restore")
  /\ ParseCall(canonical, strict, ans)
  /\ Within
  /\ \/ ans = "accepted" /\ pc' = "reserialize" /\ UNCHANGED <<r, locals>>
     \/ ans # "accepted" /\ Return(r)

\* restore(), second half: what the SUT now serializes is what it is compared with.
O4Reserialize(ans) ==
  /\ Step("O4", "reserialize")
  /\ SerializeCall(ans)
  /\ Within
  /\ \/ ans = Threw /\ Return(r)
     \/ ans # Threw /\ canonical' = ans /\ r' = r /\ NextParent

\* Mutant: the loop waits for a write that is applied.
O4DoneEvaluated ==
  /\ Step("O4", "write") /\ parents = << >> /\ r.evaluated
  /\ Within /\ UNCHANGED sutvars
  /\ Return(r)

O4Done ==
  /\ Step("O4", "write") /\ parents = << >>
  /\ Within /\ UNCHANGED sutvars
  /\ Return(r)

O4Next ==
  \/ \E ans \in ParseAnswers : O4Parse(ans) \/ O4Restore(ans)
  \/ \E ans \in TextAnswers : O4Serialize(ans) \/ O4After(ans) \/ O4Reserialize(ans)
  \/ \E ans \in PointersAnswers : O4Pointers(ans)
  \/ \E ans \in GetAnswers : O4Get(ans)
  \/ \E ans \in WriteAnswers : O4Set(ans) \/ O4Remove(ans)
  \/ O4Choose \/ O4Chosen \/ O4Done
=============================================================================
