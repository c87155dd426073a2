---------------------------- MODULE IdAllocator ----------------------------
(* IdAllocator (IdAllocator.h, part_000 lines 130-158): a counter          *)
(* mIdGenerator, the largest id ever handed out and not compacted away,   *)
(* and mReturnedIds, the ids below it that were given back, kept in a     *)
(* std::set ordered by std::greater (begin() is the largest, rbegin() the *)
(* smallest).  Get and Put are the two methods; RadioData.tla calls them  *)
(* under its mutex, so each is one atomic step, and checks the two        *)
(* properties below with its callers as the only users of the allocator. *)
EXTENDS Integers, FiniteSetsExt

CONSTANT MaxId          \* bound on mIdGenerator (an int32 in the code)

VARIABLES returnedIds,  \* mReturnedIds
          idGenerator   \* mIdGenerator

allocVars == <<returnedIds, idGenerator>>

Ids == 1..MaxId

\* The ids the allocator considers handed out.
InUse == (1..idGenerator) \ returnedIds

AllocInit == returnedIds = {} /\ idGenerator = 0

\* get() that takes the largest returned id (begin() for rbegin()).
GetLargest(id) ==
  IF returnedIds = {}
  THEN /\ idGenerator < MaxId
       /\ id = idGenerator + 1
       /\ idGenerator' = idGenerator + 1
       /\ UNCHANGED returnedIds
  ELSE /\ id = Max(returnedIds)
       /\ returnedIds' = returnedIds \ {id}
       /\ UNCHANGED idGenerator

\* get(): the smallest returned id if there is one, else ++mIdGenerator;
\* id is the value returned.
Get(id) ==
  IF returnedIds = {}
  THEN /\ idGenerator < MaxId
       /\ id = idGenerator + 1
       /\ idGenerator' = idGenerator + 1
       /\ UNCHANGED returnedIds
  ELSE /\ id = Min(returnedIds)
       /\ returnedIds' = returnedIds \ {id}
       /\ UNCHANGED idGenerator

\* The while loop of put(): as long as the largest returned id equals the
\* generator, erase it and decrement the generator.
RECURSIVE Compact(_, _)
Compact(gen, ret) ==
  IF ret # {} /\ Max(ret) = gen
  THEN Compact(gen - 1, ret \ {gen})
  ELSE [gen |-> gen, ret |-> ret]

\* put() that only decrements, without the compaction loop.
PutNoCompact(id) ==
  IF id = idGenerator
  THEN /\ idGenerator' = idGenerator - 1
       /\ UNCHANGED returnedIds
  ELSE /\ returnedIds' = returnedIds \cup {id}
       /\ UNCHANGED idGenerator

\* put(id): the last id handed out lowers the generator and compacts;
\* any other id joins the returned set.
Put(id) ==
  IF id = idGenerator
  THEN LET c == Compact(idGenerator - 1, returnedIds)
       IN  /\ idGenerator' = c.gen
           /\ returnedIds' = c.ret
  ELSE /\ returnedIds' = returnedIds \cup {id}
       /\ UNCHANGED idGenerator

(* The representation invariant put() maintains: every returned id lies  *)
(* strictly below the generator.  get() relies on it twice: ++mIdGenerator *)
(* is fresh only if no returned id is above the generator, and put(id)     *)
(* with id = mIdGenerator must not leave the new top in the returned set, *)
(* or a later put() of that id would be inserted twice.                    *)
ReturnedBelowGenerator == returnedIds \subseteq 1..(idGenerator - 1)

Abstract == INSTANCE AbstractAllocator WITH inUse <- InUse

(* Refinement: seen through the ids in use, get() always hands out the    *)
(* smallest free positive id and put() frees exactly the id given.  This  *)
(* is what the returned set and the compaction of put() together must     *)
(* achieve: a wrong end of the set in get(), or a generator lowered past  *)
(* a returned id, shows up as a step the abstract allocator cannot take.  *)
AllocatorRefinement == Abstract!Spec
=============================================================================
