------------------------- MODULE AbstractAllocator -------------------------
(* What an id allocator promises its callers: every id it hands out is     *)
(* not in use, it is the smallest positive id not in use, and an id the    *)
(* caller returns is free again.  The promise is only about the set of     *)
(* ids in use; how the free ids are kept is the implementation's affair    *)
(* (IdAllocator.tla).                                                       *)
EXTENDS Integers, FiniteSetsExt

CONSTANT MaxId          \* the largest id the model lets the allocator reach

VARIABLE inUse          \* the ids handed out and not yet returned

Ids == 1..MaxId

Init == inUse = {}

\* Hand out the smallest id that is not in use.
Alloc == LET free == Ids \ inUse
         IN  /\ free # {}
             /\ inUse' = inUse \cup {Min(free)}

\* Take back an id that is in use.
Free(id) == /\ id \in inUse
            /\ inUse' = inUse \ {id}

Next == Alloc \/ \E id \in Ids : Free(id)

Spec == Init /\ [][Next]_inUse
=============================================================================
