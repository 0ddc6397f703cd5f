--------------------------------- MODULE Pool ---------------------------------
(***************************************************************************)
(* The object pool of src/data_structures/pool: a vector of slots, each    *)
(* with a link to the pool (_pool_ptr) and room for one TType, and a stack *)
(* of the indices of the free slots.  acquire returns a reference to a     *)
(* slot, which a caller keeps as it is (auto&) or copies (auto): the copy  *)
(* has a link of its own and gives the slot back when it is destroyed,     *)
(* while the slot itself stays linked.  What a caller holds can be copied  *)
(* again, and every linked copy gives the slot back.                       *)
(*                                                                         *)
(* Left out: a second reference bound to the same slot (auto& b = a), and  *)
(* an assignment through a reference, which overwrites the slot's index.   *)
(***************************************************************************)
EXTENDS Naturals, Sequences, FiniteSets

CONSTANTS Holders,   \* the variables of callers that can hold an Object
          MaxSize,   \* bound: the largest size asked of resize
          MaxStack   \* bound: no Object is copied with more on the stack

ASSUME MaxSizeAssumption == MaxSize \in Nat

AllSlots == 0..(MaxSize - 1)
Sizes == 0..MaxSize

VARIABLES _available,  \* the stack, its top last
          _pool_ptr,   \* the slots linked to the pool
          size, cap,   \* _objects.size() and _objects.capacity()
          built,       \* the slots that hold a living TType
          holding,     \* what each caller holds
          state        \* "alive", "gone" (destroyed), "broken" (wild access)

\* History: what the properties relate the state to.
VARIABLES tainted,     \* a resize has met an Object that was still linked
          unpaired,    \* a resize or a failed construction left dead TTypes
          twice,       \* a dead TType has been destroyed again
          lost,        \* slots that an Object let go without giving them back
          shared       \* slots that were held and copied since the last resize

store == <<_available, _pool_ptr, size, cap, built>>
poolVars == <<_available, _pool_ptr, size, cap, built, holding, state,
          tainted, unpaired, twice, lost, shared>>

None == [kind |-> "none", idx |-> 0, linked |-> FALSE]
Reference(i) == [kind |-> "ref", idx |-> i, linked |-> TRUE]
Copy(i) == [kind |-> "copy", idx |-> i, linked |-> TRUE]
Spent(i) == [kind |-> "copy", idx |-> i, linked |-> FALSE]

Below(n) == 0..(n - 1)
Free == {_available[k] : k \in 1..Len(_available)}
Holds(h, i) == holding[h].linked /\ holding[h].idx = i

PoolTypeOK ==
  /\ _available \in Seq(AllSlots)
  /\ size \in Sizes /\ cap \in 0..(2 * MaxSize) /\ size <= cap
  /\ _pool_ptr \subseteq Below(size)
  /\ built \subseteq Below(size)
  /\ holding \in [Holders -> {None} \union {Reference(i) : i \in AllSlots}
                               \union {Copy(i) : i \in AllSlots}
                               \union {Spent(i) : i \in AllSlots}]
  /\ state \in {"alive", "gone", "broken"}
  /\ tainted \in BOOLEAN /\ unpaired \in BOOLEAN /\ twice \in BOOLEAN
  /\ lost \subseteq AllSlots /\ shared \subseteq AllSlots

-------------------------------------------------------------------------------
(***************************************************************************)
(* resize: every TType dies, the stack is emptied, the vector changes its  *)
(* size and every index is pushed.  Growing beyond the capacity copies the *)
(* Objects, links included, and destroys the originals; shrinking destroys *)
(* the last ones.  ~Object of a linked Object pushes its index.            *)
(***************************************************************************)
Indices(n) == [k \in 1..n |-> k - 1]

Destroyed(n) == IF n > cap THEN Below(size) ELSE Below(size) \ Below(n)

\* What the destructors of the Objects in D push.
Pushed(D) ==
  IF D \intersect _pool_ptr = {} THEN <<>>
  ELSE SelectSeq(Indices(size), LAMBDA i : i \in D \intersect _pool_ptr)

Capacity(n) ==
  IF n <= cap THEN cap ELSE IF n > 2 * size THEN n ELSE 2 * size

\* The link of some Object, a slot or a copy, still points to the pool.
InUse == _pool_ptr /= {} \/ \E h \in Holders : holding[h].linked

\* The elements kept, built and held after the vector has n of them.
Resized(n) ==
  /\ _pool_ptr' = _pool_ptr \intersect Below(n)
  /\ built' = Below(n) \ Below(size)
  /\ size' = n
  /\ cap' = Capacity(n)
  /\ holding' = [h \in Holders |->
                   IF holding[h].kind = "ref" /\ holding[h].idx \in Destroyed(n)
                   THEN None ELSE holding[h]]
  /\ tainted' = (tainted \/ InUse)
  /\ unpaired' = (unpaired \/ size > 0)
  /\ twice' = (twice \/ ~(Below(size) \subseteq built))
  /\ lost' = {} /\ shared' = {}
  /\ UNCHANGED state

resize(n) ==
  /\ state = "alive"
  /\ _available' = Pushed(Destroyed(n)) \o Indices(n)
  /\ Resized(n)

\* The constructor resizes an empty vector.
PoolInit ==
  /\ size \in Sizes
  /\ cap = size
  /\ _available = Indices(size)
  /\ _pool_ptr = {}
  /\ built = Below(size)
  /\ holding = [h \in Holders |-> None]
  /\ state = "alive"
  /\ tainted = FALSE /\ unpaired = FALSE /\ twice = FALSE
  /\ lost = {} /\ shared = {}

-------------------------------------------------------------------------------
(***************************************************************************)
(* acquire: pop an index, link the slot, destroy the TType in it and       *)
(* construct another one.                                                  *)
(***************************************************************************)
Top == _available[Len(_available)]
Pop == SubSeq(_available, 1, Len(_available) - 1)

TakeTop ==
  /\ state = "alive"
  /\ _available /= <<>>
  /\ Top < size
  /\ _available' = Pop
  /\ _pool_ptr' = _pool_ptr \union {Top}
  /\ twice' = (twice \/ Top \notin built)
  /\ UNCHANGED <<size, cap, state, tainted, shared>>

\* auto& obj = pool.acquire()   or   auto obj = pool.acquire()
acquire(h) ==
  /\ holding[h] = None
  /\ TakeTop
  /\ built' = built \union {Top}
  /\ \E o \in {Reference(Top), Copy(Top)} : holding' = [holding EXCEPT ![h] = o]
  /\ UNCHANGED <<unpaired, lost>>

\* The constructor of TType throws: the slot stays linked and popped.
acquireThrows ==
  /\ TakeTop
  /\ built' = built \ {Top}
  /\ unpaired' = TRUE
  /\ lost' = lost \union {Top}
  /\ UNCHANGED holding

\* std::out_of_range
acquireRefused ==
  /\ state = "alive"
  /\ _available = <<>>
  /\ UNCHANGED poolVars

\* An index that is not of a slot any more: _objects[i] is undefined.
acquireWild ==
  /\ state = "alive"
  /\ _available /= <<>>
  /\ Top >= size
  /\ state' = "broken"
  /\ UNCHANGED <<store, holding, tainted, unpaired, twice, lost, shared>>

-------------------------------------------------------------------------------
(***************************************************************************)
(* The copies that the compiler writes for Object: the copy constructor    *)
(* when h holds nothing, the copy assignment when h holds a copy, whose    *)
(* own link is overwritten and gives nothing back.                         *)
(***************************************************************************)
Linked(g) ==
  holding[g].linked /\ (holding[g].kind = "ref" => holding[g].idx \in _pool_ptr)

copyObject(g, h) ==
  /\ state = "alive"
  /\ Len(_available) < MaxStack
  /\ g /= h /\ holding[g] /= None /\ holding[h].kind /= "ref"
  /\ holding' = [holding EXCEPT ![h] = IF Linked(g) THEN Copy(holding[g].idx)
                                                   ELSE Spent(holding[g].idx)]
  /\ shared' = IF Linked(g) THEN shared \union {holding[g].idx} ELSE shared
  /\ lost' = IF holding[h].linked THEN lost \union {holding[h].idx} ELSE lost
  /\ UNCHANGED <<store, state, tainted, unpaired, twice>>

-------------------------------------------------------------------------------
(***************************************************************************)
(* release(obj): push the index of a linked Object and cut its link.  The  *)
(* caller of a reference stops using it; a copy stays in scope.            *)
(***************************************************************************)
Returned(h) == Append(_available, holding[h].idx)

releaseReference(h) ==
  /\ holding[h].kind = "ref"
  /\ _available' = IF holding[h].idx \in _pool_ptr THEN Returned(h) ELSE _available
  /\ _pool_ptr' = _pool_ptr \ {holding[h].idx}
  /\ holding' = [holding EXCEPT ![h] = None]

releaseCopy(h) ==
  /\ holding[h].kind = "copy"
  /\ _available' = IF holding[h].linked THEN Returned(h) ELSE _available
  /\ holding' = [holding EXCEPT ![h] = Spent(holding[h].idx)]
  /\ UNCHANGED _pool_ptr

release(h) ==
  /\ state = "alive"
  /\ releaseReference(h) \/ releaseCopy(h)
  /\ UNCHANGED <<size, cap, built, state, tainted, unpaired, twice, lost, shared>>

\* A plausible slip: ~Object releases without looking at the link.
MutantDropCopy(h) ==
  /\ state = "alive"
  /\ holding[h].kind = "copy"
  /\ _available' = Returned(h)
  /\ holding' = [holding EXCEPT ![h] = None]
  /\ UNCHANGED <<_pool_ptr, size, cap, built, state, tainted, unpaired, twice, lost, shared>>

\* A copy goes out of scope: ~Object releases it if it is still linked.
dropCopy(h) ==
  /\ state = "alive"
  /\ holding[h].kind = "copy"
  /\ _available' = IF holding[h].linked THEN Returned(h) ELSE _available
  /\ holding' = [holding EXCEPT ![h] = None]
  /\ UNCHANGED <<_pool_ptr, size, cap, built, state, tainted, unpaired, twice, lost, shared>>

\* A reference goes out of scope without release: nobody returns the slot.
dropReference(h) ==
  /\ state = "alive"
  /\ holding[h].kind = "ref"
  /\ lost' = lost \union {holding[h].idx}
  /\ holding' = [holding EXCEPT ![h] = None]
  /\ UNCHANGED <<store, state, tainted, unpaired, twice, shared>>

(***************************************************************************)
(* ~Pool, after the copies it must outlive: every TType dies, the stack is *)
(* emptied, and the Objects, destroyed before the stack, push again.       *)
(***************************************************************************)
destroyPool ==
  /\ state = "alive"
  /\ \A h \in Holders : holding[h].kind /= "copy"
  /\ _available' = Pushed(Below(size))
  /\ _pool_ptr' = {}
  /\ built' = {}
  /\ size' = 0
  /\ cap' = 0
  /\ holding' = [h \in Holders |-> None]
  /\ twice' = (twice \/ ~(Below(size) \subseteq built))
  /\ state' = "gone"
  /\ UNCHANGED <<tainted, unpaired, lost, shared>>

Over == state /= "alive" /\ UNCHANGED poolVars

PoolNext ==
  \/ \E n \in Sizes : resize(n)
  \/ \E h \in Holders : acquire(h) \/ release(h) \/ dropCopy(h) \/ dropReference(h)
  \/ \E g, h \in Holders : copyObject(g, h)
  \/ acquireThrows \/ acquireRefused \/ acquireWild
  \/ destroyPool
  \/ Over

PoolSpec == PoolInit /\ [][PoolNext]_poolVars

-------------------------------------------------------------------------------
\* Until a resize meets a linked Object, every slot whose Object was not copied
\* while it was held is free, held or lost in exactly one way: it is on the stack
\* at most once, no two callers hold it, and one that is held or lost is not
\* handed out (acquire, release, ~Object).
LentOnce ==
  state = "alive" /\ ~tainted =>
    \A i \in AllSlots \ shared :
      /\ \A j, k \in 1..Len(_available) : _available[j] = i /\ _available[k] = i => j = k
      /\ \A g, h \in Holders : Holds(g, i) /\ Holds(h, i) => g = h
      /\ \A h \in Holders : Holds(h, i) => i \notin Free \union lost
      /\ i \notin lost \intersect Free

\* Until then no slot disappears either, copied or not: each one is on the
\* stack, held by a caller or was lost by a failed construction, a forgotten
\* reference or a copy that was assigned to; and one that is not linked, so that
\* its release would do nothing, is on the stack.
NoSlotVanishes ==
  state = "alive" /\ ~tainted =>
    /\ Below(size) = Free \union lost
                       \union {i \in AllSlots : \E h \in Holders : Holds(h, i)}
    /\ Below(size) \subseteq Free \union _pool_ptr

\* acquire indexes past the end of _objects only after such a resize.
WildOnlyWhenTainted == state = "broken" => tainted

\* acquire, resize and ~Pool each destroy the TType of a slot, release does
\* not: a TType is destroyed twice only if a resize of a pool that was not
\* empty, or a constructor that threw, left a dead one in its slot.
DestroyedOnce == twice => unpaired

\* A caller that holds a slot finds a living TType in it, and the slot links
\* to the pool, so that releasing it gives it back; again for the slots that
\* were not copied while they were held.
HeldIsAlive ==
  state = "alive" /\ ~tainted =>
    \A h \in Holders, i \in AllSlots \ shared :
      Holds(h, i) => i \in built /\ i \in _pool_ptr

\* The pool keeps its promises to the callers of acquire and release together:
\* slots are lent once and what a caller holds is alive until the caller copies
\* it, none vanishes and acquire stays inside the vector, all until a resize
\* meets an Object that is still linked; and destructions pair with
\* constructions (pool.tpp:4-86).
PoolIsSound ==
  /\ LentOnce /\ NoSlotVanishes /\ HeldIsAlive
  /\ WildOnlyWhenTainted /\ DestroyedOnce

===============================================================================
