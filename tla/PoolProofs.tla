------------------------------ MODULE PoolProofs ------------------------------
(***************************************************************************)
(* The pool lends each slot once until a caller copies what it holds, and  *)
(* loses none, for any number of callers and any bound on its size, until  *)
(* a resize meets an Object that is still linked.                          *)
(***************************************************************************)
EXTENDS Pool, SequenceTheorems, TLAPS

Elems(s) == {s[k] : k \in 1..Len(s)}
Once(s, i) == \A j, k \in 1..Len(s) : s[j] = i /\ s[k] = i => j = k

\* A slot that was not copied while it was held: it is on the stack once at
\* most; its holder is alone, and finds it built, linked and neither free nor
\* lost; and a lost one is not free.
Sole(i) ==
  /\ Once(_available, i)
  /\ \A h \in Holders : Holds(h, i) => i \in _pool_ptr \intersect built
  /\ \A h \in Holders : Holds(h, i) => i \notin Free \union lost
  /\ \A g, h \in Holders : Holds(g, i) /\ Holds(h, i) => g = h
  /\ i \notin lost \intersect Free

Held == {i \in AllSlots : \E h \in Holders : Holds(h, i)}

\* Every slot is free, lost or held, and free when it is not linked: a release
\* that finds its slot unlinked, and does nothing, comes after another one.
Total ==
  /\ Below(size) = Free \union lost \union Held
  /\ Below(size) \subseteq Free \union _pool_ptr

\* A pool whose resizes have met no linked Object.
Books == Total /\ \A i \in AllSlots \ shared : Sole(i)

\* The inductive invariant.  A resize that taints the pool had slots to leave
\* dead, so that tainted implies unpaired.
PoolInv ==
  /\ tainted \in BOOLEAN /\ unpaired \in BOOLEAN /\ twice \in BOOLEAN
  /\ state = "broken" => tainted
  /\ tainted => unpaired
  /\ twice => unpaired
  /\ state = "alive" /\ ~tainted =>
       PoolTypeOK /\ Books /\ (~unpaired => Below(size) \subseteq built)

-------------------------------------------------------------------------------
(***************************************************************************)
(* The stack.                                                              *)
(***************************************************************************)
\* A push adds its index, and that one only.
LEMMA PushFacts ==
  ASSUME NEW s \in Seq(AllSlots), NEW i \in AllSlots
  PROVE  /\ Append(s, i) \in Seq(AllSlots)
         /\ Elems(Append(s, i)) = Elems(s) \union {i}
         /\ \A x \in AllSlots : x # i /\ Once(s, x) => Once(Append(s, i), x)
         /\ i \notin Elems(s) => Once(Append(s, i), i)
<1>1. /\ Append(s, i) \in Seq(AllSlots)
      /\ Len(Append(s, i)) = Len(s) + 1
      /\ \A k \in 1..Len(s) : Append(s, i)[k] = s[k]
      /\ Append(s, i)[Len(s) + 1] = i
  BY AppendProperties
<1>2. Len(s) \in Nat
  OBVIOUS
<1>3. 1..Len(Append(s, i)) = 1..Len(s) \union {Len(s) + 1}
  BY <1>1, <1>2
<1>4. Elems(Append(s, i)) = Elems(s) \union {i}
  <2>1. ASSUME NEW k \in 1..Len(Append(s, i))
        PROVE  Append(s, i)[k] \in Elems(s) \union {i}
    BY <1>1, <1>3 DEF Elems
  <2>2. ASSUME NEW k \in 1..Len(s) PROVE s[k] \in Elems(Append(s, i))
    <3>1. k \in 1..Len(Append(s, i)) /\ Append(s, i)[k] = s[k]
      BY <1>1, <1>3
    <3> QED BY <3>1 DEF Elems
  <2>3. i \in Elems(Append(s, i))
    <3>1. Len(s) + 1 \in 1..Len(Append(s, i))
      BY <1>3
    <3> QED BY <1>1, <3>1 DEF Elems
  <2> QED BY <2>1, <2>2, <2>3 DEF Elems
<1>5. ASSUME NEW x \in AllSlots, x # i, Once(s, x) PROVE Once(Append(s, i), x)
  BY <1>1, <1>3, <1>5 DEF Once
<1>6. ASSUME i \notin Elems(s) PROVE Once(Append(s, i), i)
  <2>1. \A k \in 1..Len(s) : s[k] # i
    BY <1>6 DEF Elems
  <2> QED BY <1>1, <1>3, <2>1 DEF Once
<1> QED BY <1>1, <1>4, <1>5, <1>6

\* A pop takes the top off, and leaves no other occurrence of what was on the
\* stack once.
LEMMA PopFacts ==
  ASSUME NEW s \in Seq(AllSlots), s # <<>>
  PROVE  LET t == SubSeq(s, 1, Len(s) - 1) IN
         /\ s[Len(s)] \in AllSlots
         /\ t \in Seq(AllSlots)
         /\ Elems(s) = Elems(t) \union {s[Len(s)]}
         /\ \A x \in AllSlots : Once(s, x) => Once(t, x)
         /\ Once(s, s[Len(s)]) => s[Len(s)] \notin Elems(t)
<1> DEFINE t == SubSeq(s, 1, Len(s) - 1)
<1>1. Len(s) \in Nat /\ Len(s) > 0
  BY EmptySeq
<1>2. s[Len(s)] \in AllSlots
  BY <1>1
<1>3. t \in Seq(AllSlots) /\ Len(t) = Len(s) - 1 /\ \A k \in 1..(Len(s) - 1) : t[k] = s[k]
  <2>1. 1 \in 1..(Len(s) + 1) /\ Len(s) - 1 \in (1 - 1)..Len(s)
    BY <1>1
  <2>2. /\ t \in Seq(AllSlots)
        /\ Len(t) = IF 1 <= Len(s) - 1 THEN Len(s) - 1 - 1 + 1 ELSE 0
        /\ \A k \in 1..(Len(s) - 1 - 1 + 1) : t[k] = s[1 + k - 1]
    BY <2>1, SubSeqProperties
  <2> HIDE DEF t
  <2>3. \A k \in 1..(Len(s) - 1) : 1 + k - 1 = k
    BY <1>1
  <2>4. \A l \in Nat : l > 0 => /\ l - 1 - 1 + 1 = l - 1
                                 /\ ~(1 <= l - 1) => l - 1 = 0
    OBVIOUS
  <2>5. Len(t) = Len(s) - 1
    <3> DEFINE l == Len(s)
    <3>1. Len(t) = IF 1 <= l - 1 THEN l - 1 - 1 + 1 ELSE 0
      BY <2>2
    <3>2. l \in Nat /\ l > 0
      BY <1>1
    <3> HIDE DEF l
    <3>3. Len(t) = l - 1
      BY <2>4, <3>1, <3>2
    <3> QED BY <3>3 DEF l
  <2>6. \A k \in 1..(Len(s) - 1) : t[k] = s[k]
    BY <1>1, <2>2, <2>3, <2>4
  <2> QED BY <2>2, <2>5, <2>6
<1>4. 1..Len(s) = 1..Len(t) \union {Len(s)}
  BY <1>1, <1>3
<1>5. Elems(s) = Elems(t) \union {s[Len(s)]}
  <2> HIDE DEF t
  <2>1. ASSUME NEW k \in 1..Len(s) PROVE s[k] \in Elems(t) \union {s[Len(s)]}
    BY <1>3, <1>4 DEF Elems
  <2>2. ASSUME NEW k \in 1..Len(t) PROVE t[k] \in Elems(s)
    <3>1. k \in 1..Len(s) /\ t[k] = s[k]
      BY <1>3, <1>4
    <3> QED BY <3>1 DEF Elems
  <2>3. s[Len(s)] \in Elems(s)
    BY <1>4 DEF Elems
  <2> QED BY <2>1, <2>2, <2>3 DEF Elems
<1>6. ASSUME NEW x \in AllSlots, Once(s, x) PROVE Once(t, x)
  <2> HIDE DEF t
  <2> QED BY <1>3, <1>4, <1>6 DEF Once
<1>7. ASSUME Once(s, s[Len(s)]) PROVE s[Len(s)] \notin Elems(t)
  <2> HIDE DEF t
  <2>1. ASSUME NEW k \in 1..Len(t) PROVE t[k] # s[Len(s)]
    <3>1. k \in 1..Len(s) /\ Len(s) \in 1..Len(s) /\ k # Len(s) /\ t[k] = s[k]
      BY <1>1, <1>3, <1>4
    <3> QED BY <3>1, <1>7 DEF Once
  <2> QED BY <2>1 DEF Elems
<1> QED BY <1>2, <1>3, <1>5, <1>6, <1>7

\* The stack of a pool of n slots after resize: every index, once.
LEMMA IndicesFacts ==
  ASSUME NEW n \in Sizes
  PROVE  /\ Indices(n) \in Seq(AllSlots)
         /\ Elems(Indices(n)) = Below(n)
         /\ \A i \in AllSlots : Once(Indices(n), i)
<1>1. n \in Nat /\ n <= MaxSize /\ MaxSize \in Nat
  BY MaxSizeAssumption DEF Sizes
<1>2. \A k \in 1..n : k - 1 \in AllSlots
  BY <1>1 DEF AllSlots
<1>3. Indices(n) \in Seq(AllSlots) /\ Len(Indices(n)) = n
  BY <1>1, <1>2 DEF Indices
<1>4. \A k \in 1..n : Indices(n)[k] = k - 1
  BY DEF Indices
<1>5. \A i \in AllSlots : Once(Indices(n), i)
  BY <1>1, <1>3, <1>4 DEF Once
<1>6. Elems(Indices(n)) = Below(n)
  <2>1. ASSUME NEW k \in 1..n PROVE Indices(n)[k] \in Below(n)
    BY <1>1, <1>4 DEF Below
  <2>2. ASSUME NEW i \in Below(n) PROVE \E k \in 1..n : Indices(n)[k] = i
    <3>1. i + 1 \in 1..n /\ (i + 1) - 1 = i
      BY <1>1 DEF Below
    <3> QED BY <1>4, <3>1
  <2> QED BY <1>3, <2>1, <2>2 DEF Elems
<1> QED BY <1>3, <1>5, <1>6

-------------------------------------------------------------------------------
(***************************************************************************)
(* The invariant, one action at a time.  Once a resize has tainted the     *)
(* pool nothing is claimed, so the steps below start from a clean one.     *)
(***************************************************************************)
\* A fresh pool: every slot is free and built.
LEMMA PoolInvInit == PoolInit => PoolInv
<1> SUFFICES ASSUME PoolInit PROVE PoolInv
  OBVIOUS
<1>1. size \in Sizes /\ size \in Nat /\ size <= MaxSize /\ MaxSize \in Nat
  BY MaxSizeAssumption DEF PoolInit, Sizes
<1>2. /\ Free = Below(size) /\ _available \in Seq(AllSlots)
      /\ \A i \in AllSlots : Once(_available, i)
  BY <1>1, IndicesFacts DEF PoolInit, Free, Elems
<1>3. \A h \in Holders : holding[h] = None /\ ~holding[h].linked
  BY DEF PoolInit, None
<1>4. PoolTypeOK
  <2>1. size \in Sizes /\ cap \in 0..(2 * MaxSize) /\ size <= cap
    BY <1>1 DEF PoolInit
  <2>2. holding \in [Holders -> {None}]
    BY DEF PoolInit
  <2>3. /\ _pool_ptr = {} /\ built = Below(size) /\ state = "alive"
        /\ lost = {} /\ shared = {}
    BY DEF PoolInit
  <2>4. tainted \in BOOLEAN /\ unpaired \in BOOLEAN /\ twice \in BOOLEAN
    BY DEF PoolInit
  <2> QED BY <1>2, <2>1, <2>2, <2>3, <2>4 DEF PoolTypeOK
<1>5. Books
  BY <1>2, <1>3 DEF PoolInit, Books, Total, Held, Sole, Holds
<1> QED BY <1>4, <1>5 DEF PoolInit, PoolInv

\* What a clean, living pool offers to the steps below.
LEMMA CleanFacts ==
  ASSUME PoolInv, ~tainted, state = "alive"
  PROVE  /\ PoolTypeOK /\ Books
         /\ Free = Elems(_available)
         /\ Free \subseteq Below(size)
         /\ size \in Nat /\ size <= MaxSize
         /\ Below(size) \subseteq AllSlots
         /\ \A h \in Holders :
              holding[h].linked => holding[h].idx \in Held /\ holding[h].idx \in Below(size)
<1>1. PoolTypeOK /\ Books
  BY DEF PoolInv
<1>2. size \in Nat /\ size <= MaxSize
  BY <1>1, MaxSizeAssumption DEF PoolTypeOK, Sizes
<1>3. Below(size) \subseteq AllSlots
  BY <1>2, MaxSizeAssumption DEF Below, AllSlots
<1>4. Free = Elems(_available) /\ Free \subseteq Below(size)
  BY <1>1 DEF Books, Total, Free, Elems
<1>5. ASSUME NEW h \in Holders, holding[h].linked
      PROVE  holding[h].idx \in Held /\ holding[h].idx \in Below(size)
  <2>1. holding[h] \in {None} \union {Reference(i) : i \in AllSlots}
                       \union {Copy(i) : i \in AllSlots} \union {Spent(i) : i \in AllSlots}
    BY <1>1 DEF PoolTypeOK
  <2>2. holding[h].idx \in AllSlots
    BY <1>5, <2>1 DEF None, Reference, Copy, Spent
  <2>3. holding[h].idx \in Held
    BY <1>5, <2>2 DEF Held, Holds
  <2> QED BY <1>1, <2>3 DEF Books, Total
<1> QED BY <1>1, <1>2, <1>3, <1>4, <1>5

\* A clean resize starts the books afresh; the first one that is not clean
\* meets a pool with slots, whose TTypes it leaves dead.
LEMMA ResizeStep ==
  ASSUME PoolInv, NEW n \in Sizes, resize(n)
  PROVE  PoolInv'
<1>1. CASE tainted
  BY <1>1 DEF PoolInv, resize, Resized
<1>2. CASE ~tainted /\ InUse
  <2>1. /\ PoolTypeOK /\ size \in Nat
        /\ \A h \in Holders : holding[h].linked => holding[h].idx \in Below(size)
    BY <1>2, CleanFacts DEF resize
  <2>2. size > 0
    <3>1. Below(size) # {}
      BY <1>2, <2>1 DEF InUse, PoolTypeOK
    <3> QED BY <2>1, <3>1 DEF Below
  <2> QED BY <1>2, <2>2 DEF PoolInv, resize, Resized
<1>3. CASE ~tainted /\ ~InUse
  <2>1. /\ PoolTypeOK /\ Books /\ state = "alive" /\ state' = "alive"
        /\ lost' = {} /\ shared' = {}
    BY <1>3 DEF PoolInv, resize, Resized
  <2>2. size \in Nat /\ n \in Nat /\ n <= MaxSize /\ size <= MaxSize /\ MaxSize \in Nat
        /\ cap \in Nat /\ size <= cap /\ cap <= 2 * MaxSize
    BY <2>1, MaxSizeAssumption DEF PoolTypeOK, Sizes
  <2>3. _pool_ptr = {} /\ \A h \in Holders : ~holding[h].linked
    BY <1>3 DEF InUse
  <2>4. _available' = Indices(n)
    <3>1. Pushed(Destroyed(n)) = <<>>
      BY <2>3 DEF Pushed
    <3>2. Indices(n) \in Seq(AllSlots)
      BY IndicesFacts
    <3> QED BY <3>1, <3>2, ConcatEmptySeq DEF resize
  <2>5. /\ _available' \in Seq(AllSlots)
        /\ Free' = Below(n)
        /\ \A i \in AllSlots : Once(_available', i)
    BY <2>4, IndicesFacts DEF Free, Elems
  <2>6. /\ holding' \in [Holders -> {None, None} \union {Spent(i) : i \in AllSlots}]
        /\ \A h \in Holders : ~holding'[h].linked
    <3>1. \A h \in Holders : holding[h] \in {None} \union {Spent(i) : i \in AllSlots}
      BY <2>1, <2>3 DEF PoolTypeOK, Reference, Copy
    <3>2. \A h \in Holders : holding'[h] \in {holding[h], None}
      BY DEF resize, Resized
    <3>3. holding' = [h \in Holders |-> holding'[h]]
      BY DEF resize, Resized
    <3> QED BY <3>1, <3>2, <3>3 DEF None, Spent
  <2>7. Capacity(n) \in 0..(2 * MaxSize) /\ n <= Capacity(n)
    BY <2>2 DEF Capacity
  <2>8. PoolTypeOK'
    <3>1. Below(n) \ Below(size) \subseteq Below(n)
      OBVIOUS
    <3>2. holding' \in [Holders -> {None} \union {Reference(i) : i \in AllSlots}
                               \union {Copy(i) : i \in AllSlots}
                               \union {Spent(i) : i \in AllSlots}]
      BY <2>6
    <3>3. tainted' \in BOOLEAN /\ unpaired' \in BOOLEAN /\ twice' \in BOOLEAN
      BY DEF resize, Resized
    <3>4. _pool_ptr' = {} /\ size' = n /\ cap' = Capacity(n) /\ built' = Below(n) \ Below(size)
      BY <2>3 DEF resize, Resized
    <3>5. lost' = {} /\ shared' = {} /\ state' = "alive"
      BY <2>1
    <3>6. _pool_ptr' \subseteq Below(size') /\ built' \subseteq Below(size')
      BY <3>1, <3>4
    <3>7. size' \in Sizes /\ cap' \in 0..(2 * MaxSize) /\ size' <= cap'
      BY <2>7, <3>4
    <3> QED BY <2>5, <3>2, <3>3, <3>5, <3>6, <3>7 DEF PoolTypeOK
  <2>9. Books'
    <3>1. size' = n
      BY DEF resize, Resized
    <3>2. Held' = {}
      BY <2>6 DEF Held, Holds
    <3>3. Total'
      BY <2>1, <2>5, <3>1, <3>2 DEF Total
    <3>4. \A i \in AllSlots : Sole(i)'
      BY <2>1, <2>5, <2>6 DEF Sole, Holds
    <3> QED BY <3>3, <3>4 DEF Books
  <2>10. ~unpaired' => size = 0
    <3>1. unpaired' = (unpaired \/ size > 0)
      BY DEF resize, Resized
    <3>2. ~unpaired' => ~(size > 0)
      BY <3>1
    <3>3. ~(size > 0) => size = 0
      BY <2>2
    <3> QED BY <3>2, <3>3
  <2>11. ~unpaired' => Below(size') \subseteq built'
    <3>1. size = 0 => Below(size) = {}
      BY DEF Below
    <3> QED BY <2>10, <3>1 DEF resize, Resized
  <2>12. twice' => unpaired'
    <3>1. size = 0 => Below(size) = {}
      BY DEF Below
    <3> QED BY <2>10, <3>1, <1>3 DEF PoolInv, resize, Resized
  <2> QED BY <1>3, <2>1, <2>8, <2>9, <2>11, <2>12 DEF PoolInv, resize, Resized
<1> QED BY <1>1, <1>2, <1>3 DEF PoolInv

\* A step that touches one slot, x, keeps the books if it does so for that one.
\* (An x that is no slot stands for a step that touches none.)
LEMMA OneSlotStep ==
  ASSUME Books, Below(size) \subseteq AllSlots, size' = size, shared \subseteq shared',
         Free' \subseteq AllSlots, lost' \subseteq AllSlots, NEW x,
         x \in AllSlots => /\ x \in Below(size)
                        /\ x \in Free' \union lost' \union Held'
                        /\ x \in Free' \union _pool_ptr',
         x \in AllSlots \ shared' => Sole(x)',
         \A i \in AllSlots : i # x =>
           /\ i \in Free' <=> i \in Free
           /\ i \in lost' <=> i \in lost
           /\ i \in _pool_ptr' <=> i \in _pool_ptr
           /\ i \in built' <=> i \in built
           /\ i \in Held' <=> i \in Held
           /\ Once(_available, i) => Once(_available', i),
         \A i \in AllSlots \ shared' : i # x =>
           \A h \in Holders : Holds(h, i)' <=> Holds(h, i)
  PROVE  Books'
<1>1. Total'
  <2>1. Below(size) = Free \union lost \union Held /\ Below(size) \subseteq Free \union _pool_ptr
    BY DEF Books, Total
  <2>2. Held' \subseteq AllSlots
    BY DEF Held
  <2>3. ASSUME NEW i \in AllSlots
        PROVE  i \in Below(size) <=> i \in Free' \union lost' \union Held'
    <3>1. CASE i = x
      BY <3>1
    <3>2. CASE i # x
      BY <2>1, <3>2
    <3> QED BY <3>1, <3>2
  <2>4. ASSUME NEW i \in AllSlots, i \in Below(size) PROVE i \in Free' \union _pool_ptr'
    <3>1. CASE i = x
      BY <3>1
    <3>2. CASE i # x
      BY <2>1, <2>4, <3>2
    <3> QED BY <3>1, <3>2
  <2> QED BY <2>2, <2>3, <2>4 DEF Total
<1>2. ASSUME NEW i \in AllSlots \ shared' PROVE Sole(i)'
  <2>1. CASE i = x
    BY <2>1
  <2>2. CASE i # x
    <3>1. Sole(i)
      BY <1>2 DEF Books
    <3>2. Once(_available', i)
      BY <2>2, <3>1 DEF Sole
    <3>3. \A h \in Holders : Holds(h, i)' <=> Holds(h, i)
      BY <2>2
    <3> QED BY <2>2, <3>1, <3>2, <3>3 DEF Sole
  <2> QED BY <2>1, <2>2
<1> QED BY <1>1, <1>2 DEF Books

\* A pop from a clean stack: if the slot was not copied its index leaves the
\* free slots, and was neither held nor lost.
LEMMA TakeTopFacts ==
  ASSUME PoolInv, ~tainted, TakeTop
  PROVE  /\ Top \in Below(size) /\ Top \in AllSlots /\ Top \in Free
         /\ _available' \in Seq(AllSlots) /\ Free' \subseteq Free
         /\ \A i \in AllSlots : i # Top => (i \in Free' <=> i \in Free)
         /\ \A i \in AllSlots : Once(_available, i) => Once(_available', i)
         /\ Top \notin shared => /\ Top \notin Free' /\ Top \notin lost
                                 /\ Once(_available, Top)
                                 /\ \A h \in Holders : ~Holds(h, Top)
<1>1. state = "alive" /\ _available # <<>> /\ Top < size /\ _available' = Pop
  BY DEF TakeTop
<1>2. PoolTypeOK /\ Books /\ Free = Elems(_available)
      /\ Free \subseteq Below(size) /\ Below(size) \subseteq AllSlots
  BY <1>1, CleanFacts
<1>3. _available \in Seq(AllSlots)
  BY <1>2 DEF PoolTypeOK
<1>4. /\ Top \in AllSlots /\ Pop \in Seq(AllSlots)
      /\ Elems(_available) = Elems(Pop) \union {Top}
      /\ \A i \in AllSlots : Once(_available, i) => Once(Pop, i)
      /\ Once(_available, Top) => Top \notin Elems(Pop)
  BY <1>1, <1>3, PopFacts DEF Top, Pop
<1>5. Free' = Elems(Pop)
  BY <1>1 DEF Free, Elems
<1>6. ASSUME Top \notin shared
      PROVE  /\ Top \notin Free' /\ Top \notin lost
             /\ Once(_available, Top)
             /\ \A h \in Holders : ~Holds(h, Top)
  <2>1. Sole(Top)
    BY <1>2, <1>4, <1>6 DEF Books
  <2> QED BY <1>2, <1>4, <1>5, <2>1 DEF Sole
<1> QED BY <1>1, <1>2, <1>4, <1>5, <1>6

\* The caller of acquire becomes the only holder of the slot.
LEMMA AcquireStep ==
  ASSUME PoolInv, NEW h \in Holders, acquire(h)
  PROVE  PoolInv'
<1>1. CASE tainted
  BY <1>1 DEF PoolInv, acquire, TakeTop
<1>2. CASE ~tainted
  <2>1. TakeTop /\ state = "alive" /\ holding[h] = None
    BY DEF acquire, TakeTop
  <2>2. /\ Top \in Below(size) /\ Top \in AllSlots /\ Top \in Free
        /\ _available' \in Seq(AllSlots) /\ Free' \subseteq Free
        /\ \A i \in AllSlots : i # Top => (i \in Free' <=> i \in Free)
        /\ \A i \in AllSlots : Once(_available, i) => Once(_available', i)
        /\ Top \notin shared => /\ Top \notin Free' /\ Top \notin lost
                                /\ Once(_available, Top)
                                /\ \A g \in Holders : ~Holds(g, Top)
    BY <1>2, <2>1, TakeTopFacts
  <2>3. PoolTypeOK /\ Books /\ Below(size) \subseteq AllSlots /\ Free \subseteq Below(size)
    BY <1>2, <2>1, CleanFacts
  <2>4. PICK o \in {Reference(Top), Copy(Top)} : holding' = [holding EXCEPT ![h] = o]
    BY DEF acquire
  <2>5. o.linked /\ o.idx = Top
    BY <2>4 DEF Reference, Copy
  <2>6. DOMAIN holding = Holders
    BY <2>3 DEF PoolTypeOK
  <2>7. holding'[h] = o /\ \A g \in Holders : g # h => holding'[g] = holding[g]
    BY <2>4, <2>6
  <2>8. ~holding[h].linked
    BY <2>1 DEF None
  <2>9. /\ size' = size /\ cap' = cap /\ state' = state /\ tainted' = tainted
        /\ unpaired' = unpaired /\ lost' = lost /\ shared' = shared
        /\ _pool_ptr' = _pool_ptr \union {Top} /\ built' = built \union {Top}
        /\ twice' = (twice \/ Top \notin built)
    BY DEF acquire, TakeTop
  <2>10. PoolTypeOK'
    <3>1. holding' \in [Holders -> {None} \union {Reference(i) : i \in AllSlots}
                               \union {Copy(i) : i \in AllSlots}
                               \union {Spent(i) : i \in AllSlots}]
      BY <2>2, <2>3, <2>4 DEF PoolTypeOK
    <3>2. twice' \in BOOLEAN
      BY <2>9
    <3> QED BY <2>2, <2>3, <2>9, <3>1, <3>2 DEF PoolTypeOK
  <2>11. \A g \in Holders, i \in AllSlots :
            Holds(g, i)' <=> Holds(g, i) \/ (g = h /\ i = Top)
    <3> SUFFICES ASSUME NEW g \in Holders, NEW i \in AllSlots
                 PROVE  Holds(g, i)' <=> Holds(g, i) \/ (g = h /\ i = Top)
      OBVIOUS
    <3>1. CASE g = h
      BY <2>5, <2>7, <2>8, <3>1 DEF Holds
    <3>2. CASE g # h
      BY <2>7, <3>2 DEF Holds
    <3> QED BY <3>1, <3>2
  <2>12. Books'
    <3> PICK x \in AllSlots : x = Top
      BY <2>2
    <3>1. \A i \in AllSlots : i # x => (i \in Held' <=> i \in Held)
      BY <2>11 DEF Held
    <3>2. x \in Held'
      BY <2>2, <2>11 DEF Held
    <3>3. Free' \subseteq AllSlots /\ lost' \subseteq AllSlots
      BY <2>2, <2>3, <2>9 DEF PoolTypeOK
    <3>4. x \notin shared' => Sole(x)'
      <4> SUFFICES ASSUME x \notin shared PROVE Sole(x)'
        BY <2>9
      <4>1. \A g \in Holders : Holds(g, x)' => g = h
        BY <2>2, <2>11
      <4>2. x \notin Free' /\ x \notin lost' /\ Once(_available', x)
            /\ x \in _pool_ptr' /\ x \in built'
        BY <2>2, <2>9
      <4> QED BY <4>1, <4>2 DEF Sole
    <3>5. \A i \in AllSlots : i # x => \A g \in Holders : Holds(g, i)' <=> Holds(g, i)
      BY <2>11
    <3>6. \A i \in AllSlots : i # x =>
            /\ i \in Free' <=> i \in Free
            /\ i \in lost' <=> i \in lost
            /\ i \in _pool_ptr' <=> i \in _pool_ptr
            /\ i \in built' <=> i \in built
            /\ i \in Held' <=> i \in Held
            /\ Once(_available, i) => Once(_available', i)
      BY <2>2, <2>9, <3>1
    <3>7. size' = size /\ shared \subseteq shared' /\ x \in _pool_ptr' /\ x \in Below(size)
      BY <2>2, <2>9
    <3> QED BY <2>3, <3>2, <3>3, <3>4, <3>5, <3>6, <3>7, OneSlotStep
  <2>13. ~unpaired' => Below(size') \subseteq built' /\ ~twice'
    BY <1>2, <2>1, <2>2, <2>9 DEF PoolInv
  <2> QED BY <1>2, <2>1, <2>9, <2>10, <2>12, <2>13 DEF PoolInv, PoolTypeOK
<1> QED BY <1>1, <1>2 DEF PoolInv

\* A constructor that throws loses the slot: it stays linked, free for nobody.
LEMMA AcquireThrowsStep ==
  ASSUME PoolInv, acquireThrows
  PROVE  PoolInv'
<1>1. CASE tainted
  BY <1>1 DEF PoolInv, acquireThrows, TakeTop
<1>2. CASE ~tainted
  <2>1. TakeTop /\ state = "alive"
    BY DEF acquireThrows, TakeTop
  <2>2. /\ Top \in Below(size) /\ Top \in AllSlots /\ Top \in Free
        /\ _available' \in Seq(AllSlots) /\ Free' \subseteq Free
        /\ \A i \in AllSlots : i # Top => (i \in Free' <=> i \in Free)
        /\ \A i \in AllSlots : Once(_available, i) => Once(_available', i)
        /\ Top \notin shared => /\ Top \notin Free' /\ Top \notin lost
                                /\ Once(_available, Top)
                                /\ \A g \in Holders : ~Holds(g, Top)
    BY <1>2, <2>1, TakeTopFacts
  <2>3. PoolTypeOK /\ Books /\ Below(size) \subseteq AllSlots /\ Free \subseteq Below(size)
    BY <1>2, <2>1, CleanFacts
  <2>4. /\ size' = size /\ cap' = cap /\ state' = state /\ tainted' = tainted
        /\ unpaired' = TRUE /\ lost' = lost \union {Top} /\ holding' = holding
        /\ _pool_ptr' = _pool_ptr \union {Top} /\ built' = built \ {Top}
        /\ shared' = shared
    BY DEF acquireThrows, TakeTop
  <2>5. twice' \in BOOLEAN
    BY DEF acquireThrows, TakeTop
  <2>6. PoolTypeOK'
    BY <2>2, <2>3, <2>4, <2>5 DEF PoolTypeOK
  <2>7. Books'
    <3> PICK x \in AllSlots : x = Top
      BY <2>2
    <3>1. Held' = Held /\ \A i \in AllSlots, g \in Holders : Holds(g, i)' <=> Holds(g, i)
      BY <2>4 DEF Held, Holds
    <3>2. x \notin shared' => Sole(x)'
      <4> SUFFICES ASSUME x \notin shared PROVE Sole(x)'
        BY <2>4
      <4>1. x \notin Free' /\ Once(_available', x) /\ \A g \in Holders : ~Holds(g, x)'
        BY <2>2, <3>1
      <4> QED BY <4>1 DEF Sole
    <3>3. \A i \in AllSlots : i # x =>
            /\ i \in Free' <=> i \in Free
            /\ i \in lost' <=> i \in lost
            /\ i \in _pool_ptr' <=> i \in _pool_ptr
            /\ i \in built' <=> i \in built
            /\ i \in Held' <=> i \in Held
            /\ Once(_available, i) => Once(_available', i)
      BY <2>2, <2>4, <3>1
    <3>4. Free' \subseteq AllSlots /\ lost' \subseteq AllSlots
      BY <2>2, <2>3, <2>4 DEF PoolTypeOK
    <3>5. /\ size' = size /\ shared \subseteq shared' /\ x \in Below(size)
          /\ x \in lost' /\ x \in _pool_ptr'
      BY <2>2, <2>4
    <3> QED BY <2>3, <3>1, <3>2, <3>3, <3>4, <3>5, OneSlotStep
  <2> QED BY <1>2, <2>1, <2>4, <2>5, <2>6, <2>7 DEF PoolInv
<1> QED BY <1>1, <1>2 DEF PoolInv

\* A holder lets go of what it held: no other slot is held by more or fewer.
LEMMA LetGoFacts ==
  ASSUME PoolTypeOK, NEW h \in Holders, NEW o \in {None} \union {Spent(i) : i \in AllSlots},
         holding' = [holding EXCEPT ![h] = o]
  PROVE  /\ holding' \in [Holders -> {None} \union {Reference(j) : j \in AllSlots}
                             \union {Copy(j) : j \in AllSlots}
                             \union {Spent(j) : j \in AllSlots}]
         /\ \A g \in Holders, j \in AllSlots : Holds(g, j)' <=> Holds(g, j) /\ g # h
         /\ \A j \in AllSlots : ~Holds(h, j) => (j \in Held' <=> j \in Held)
<1>1. ~o.linked /\ holding'[h] = o /\ \A g \in Holders : g # h => holding'[g] = holding[g]
  BY DEF PoolTypeOK, None, Spent
<1>2. \A g \in Holders, j \in AllSlots : Holds(g, j)' <=> Holds(g, j) /\ g # h
  BY <1>1 DEF Holds
<1>3. \A j \in AllSlots : ~Holds(h, j) => (j \in Held' <=> j \in Held)
  BY <1>2 DEF Held
<1>4. holding' \in [Holders -> {None} \union {Reference(j) : j \in AllSlots}
                             \union {Copy(j) : j \in AllSlots}
                             \union {Spent(j) : j \in AllSlots}]
  BY DEF PoolTypeOK
<1> QED BY <1>2, <1>3, <1>4

\* A linked Object gives its slot back, which goes on top of the stack.
LEMMA GiveBack ==
  ASSUME PoolInv, ~tainted, state = "alive",
         NEW h \in Holders, holding[h].linked,
         NEW o \in {None} \union {Spent(i) : i \in AllSlots},
         holding' = [holding EXCEPT ![h] = o],
         _available' = Returned(h),
         _pool_ptr' \in {_pool_ptr, _pool_ptr \ {holding[h].idx}},
         UNCHANGED <<size, cap, built, state, tainted, unpaired, twice, lost, shared>>
  PROVE  PoolInv'
<1> PICK x : x = holding[h].idx
  OBVIOUS
<1>1. PoolTypeOK /\ Books /\ Free = Elems(_available)
      /\ Below(size) \subseteq AllSlots /\ Free \subseteq Below(size) /\ x \in Below(size)
  BY CleanFacts
<1>2. /\ Holds(h, x) /\ \A j \in AllSlots : j # x => ~Holds(h, j)
      /\ _available' = Append(_available, x)
      /\ _pool_ptr \ {x} \subseteq _pool_ptr' /\ _pool_ptr' \subseteq _pool_ptr
  BY DEF Holds, Returned
<1>3. x \in AllSlots /\ _available \in Seq(AllSlots)
  BY <1>1 DEF PoolTypeOK
<1>4. /\ _available' \in Seq(AllSlots) /\ Free' = Free \union {x}
      /\ \A i \in AllSlots : i # x /\ Once(_available, i) => Once(_available', i)
      /\ x \notin Free => Once(_available', x)
  BY <1>1, <1>2, <1>3, PushFacts DEF Free, Elems
<1>5. /\ holding' \in [Holders -> {None} \union {Reference(j) : j \in AllSlots}
                             \union {Copy(j) : j \in AllSlots}
                             \union {Spent(j) : j \in AllSlots}]
      /\ \A g \in Holders, j \in AllSlots : Holds(g, j)' <=> Holds(g, j) /\ g # h
      /\ \A j \in AllSlots : ~Holds(h, j) => (j \in Held' <=> j \in Held)
  BY <1>1, LetGoFacts
<1>6. PoolTypeOK'
  BY <1>1, <1>2, <1>4, <1>5 DEF PoolTypeOK
<1>7. x \notin shared => Sole(x)'
  <2> SUFFICES ASSUME x \notin shared PROVE Sole(x)'
    OBVIOUS
  <2>1. /\ x \notin Free /\ x \notin lost
        /\ \A g \in Holders : Holds(g, x) => g = h
    BY <1>1, <1>2, <1>3 DEF Books, Sole
  <2>2. \A g \in Holders : ~Holds(g, x)'
    BY <1>3, <1>5, <2>1
  <2> QED BY <1>4, <2>1, <2>2 DEF Sole
<1>8. Books'
  <2>1. \A i \in AllSlots : i # x =>
            /\ i \in Free' <=> i \in Free
            /\ i \in lost' <=> i \in lost
            /\ i \in _pool_ptr' <=> i \in _pool_ptr
            /\ i \in built' <=> i \in built
            /\ i \in Held' <=> i \in Held
            /\ Once(_available, i) => Once(_available', i)
    BY <1>2, <1>4, <1>5
  <2>2. \A i \in AllSlots : i # x => \A g \in Holders : Holds(g, i)' <=> Holds(g, i)
    BY <1>2, <1>5
  <2>3. Free' \subseteq AllSlots /\ lost' \subseteq AllSlots
    BY <1>1, <1>3, <1>4 DEF PoolTypeOK
  <2> QED BY <1>1, <1>4, <1>7, <2>1, <2>2, <2>3, OneSlotStep
<1> QED BY <1>6, <1>8 DEF PoolInv

\* A holder that gives nothing back leaves the books as they are, if it was not
\* linked, or if its slot is free, which only a copied one can be.
LEMMA LetGo ==
  ASSUME PoolInv, ~tainted, state = "alive",
         NEW h \in Holders, holding[h].linked => holding[h].idx \in Free \intersect shared,
         NEW o \in {None} \union {Spent(i) : i \in AllSlots},
         holding' = [holding EXCEPT ![h] = o],
         UNCHANGED <<_available, _pool_ptr, size, cap, built, state, tainted, unpaired,
                     twice, lost, shared>>
  PROVE  PoolInv'
<1>1. /\ PoolTypeOK /\ Books /\ Below(size) \subseteq AllSlots /\ Free \subseteq Below(size)
      /\ holding[h].linked => holding[h].idx \in AllSlots
  BY CleanFacts
<1>2. /\ holding' \in [Holders -> {None} \union {Reference(j) : j \in AllSlots}
                             \union {Copy(j) : j \in AllSlots}
                             \union {Spent(j) : j \in AllSlots}]
      /\ \A g \in Holders, j \in AllSlots : Holds(g, j)' <=> Holds(g, j) /\ g # h
      /\ \A j \in AllSlots : ~Holds(h, j) => (j \in Held' <=> j \in Held)
  BY <1>1, LetGoFacts
<1>3. PoolTypeOK'
  BY <1>1, <1>2 DEF PoolTypeOK
<1>4. Free' = Free /\ Free' \subseteq AllSlots /\ lost' \subseteq AllSlots
  BY <1>1 DEF Free, PoolTypeOK
<1>5. ASSUME NEW x, \A j \in AllSlots : j # x => ~Holds(h, j),
             x \in AllSlots => x \in Free /\ x \in shared
      PROVE  Books'
  <2>1. \A i \in AllSlots : i # x =>
            /\ i \in Free' <=> i \in Free
            /\ i \in lost' <=> i \in lost
            /\ i \in _pool_ptr' <=> i \in _pool_ptr
            /\ i \in built' <=> i \in built
            /\ i \in Held' <=> i \in Held
            /\ Once(_available, i) => Once(_available', i)
    BY <1>2, <1>4, <1>5
  <2>2. \A i \in AllSlots : i # x => \A g \in Holders : Holds(g, i)' <=> Holds(g, i)
    BY <1>2, <1>5
  <2>3. x \in AllSlots => x \in Below(size) /\ x \in Free' /\ x \in shared'
    BY <1>1, <1>4, <1>5
  <2> QED BY <1>1, <1>4, <2>1, <2>2, <2>3, OneSlotStep
<1>6. Books'
  <2>1. CASE holding[h].linked
    BY <1>5, <2>1 DEF Holds
  <2>2. CASE ~holding[h].linked
    <3>1. -1 \notin AllSlots
      BY MaxSizeAssumption DEF AllSlots
    <3> QED BY <1>5, <2>2, <3>1 DEF Holds
  <2> QED BY <2>1, <2>2
<1> QED BY <1>3, <1>6 DEF PoolInv

\* References are linked; the index of anything held is one of a slot.
LEMMA KindFacts ==
  ASSUME PoolTypeOK, NEW h \in Holders
  PROVE  /\ holding[h].kind = "ref" => holding[h].linked
         /\ holding[h].kind = "copy" => holding[h].idx \in AllSlots
         /\ holding[h] # None => holding[h].idx \in AllSlots
<1>1. holding[h] \in {None} \union {Reference(i) : i \in AllSlots}
                     \union {Copy(i) : i \in AllSlots} \union {Spent(i) : i \in AllSlots}
  BY DEF PoolTypeOK
<1>2. CASE holding[h] = None
  BY <1>2 DEF None
<1>3. ASSUME NEW i \in AllSlots, holding[h] \in {Reference(i), Copy(i), Spent(i)}
      PROVE  holding[h].idx \in AllSlots /\ (holding[h].kind = "ref" => holding[h].linked)
  BY <1>3 DEF Reference, Copy, Spent
<1> QED BY <1>1, <1>2, <1>3

\* release of a reference or of a copy, linked or not.
LEMMA ReleaseStep ==
  ASSUME PoolInv, NEW h \in Holders, release(h)
  PROVE  PoolInv'
<1>1. /\ state = "alive"
      /\ UNCHANGED <<size, cap, built, state, tainted, unpaired, twice, lost, shared>>
  BY DEF release
<1>2. CASE tainted
  BY <1>1, <1>2 DEF PoolInv
<1>3. CASE ~tainted
  <2>1. PoolTypeOK /\ Books /\ Below(size) \subseteq AllSlots
    BY <1>1, <1>3, CleanFacts
  <2>2. CASE releaseReference(h)
    <3>1. holding[h].linked /\ holding[h].idx \in Below(size)
      BY <1>1, <1>3, <2>1, <2>2, KindFacts, CleanFacts DEF releaseReference
    <3>2. CASE holding[h].idx \in _pool_ptr
      <4>1. /\ _available' = Returned(h)
            /\ _pool_ptr' = _pool_ptr \ {holding[h].idx}
            /\ holding' = [holding EXCEPT ![h] = None]
        BY <2>2, <3>2 DEF releaseReference
      <4> QED BY <1>1, <1>3, <3>1, <4>1, GiveBack
    <3>3. CASE holding[h].idx \notin _pool_ptr
      <4>1. /\ _available' = _available
            /\ _pool_ptr' = _pool_ptr
            /\ holding' = [holding EXCEPT ![h] = None]
        BY <2>2, <3>3 DEF releaseReference
      <4>2. holding[h].idx \in Free
        BY <2>1, <3>1, <3>3 DEF Books, Total
      <4>3. holding[h].idx \in shared
        BY <2>1, <3>1, <3>3 DEF Books, Sole, Holds
      <4> QED BY <1>1, <1>3, <4>1, <4>2, <4>3, LetGo
    <3> QED BY <3>2, <3>3
  <2>3. CASE releaseCopy(h)
    <3>1. holding[h].idx \in AllSlots
      BY <2>1, <2>3, KindFacts DEF releaseCopy
    <3>2. /\ holding' = [holding EXCEPT ![h] = Spent(holding[h].idx)]
          /\ _pool_ptr' = _pool_ptr
          /\ holding[h].linked => _available' = Returned(h)
          /\ ~holding[h].linked => _available' = _available
      BY <2>3 DEF releaseCopy
    <3>3. Spent(holding[h].idx) \in {None} \union {Spent(i) : i \in AllSlots}
      BY <3>1
    <3>4. CASE holding[h].linked
      BY <1>1, <1>3, <3>2, <3>3, <3>4, GiveBack
    <3>5. CASE ~holding[h].linked
      BY <1>1, <1>3, <3>2, <3>3, <3>5, LetGo
    <3> QED BY <3>4, <3>5
  <2> QED BY <2>2, <2>3 DEF release
<1> QED BY <1>2, <1>3

\* ~Object of a copy gives the slot back unless release has done so.
LEMMA DropCopyStep ==
  ASSUME PoolInv, NEW h \in Holders, dropCopy(h)
  PROVE  PoolInv'
<1>1. /\ state = "alive"
      /\ UNCHANGED <<_pool_ptr, size, cap, built, state, tainted, unpaired, twice,
                     lost, shared>>
      /\ holding' = [holding EXCEPT ![h] = None]
      /\ holding[h].linked => _available' = Returned(h)
      /\ ~holding[h].linked => _available' = _available
  BY DEF dropCopy
<1>2. CASE tainted
  BY <1>1, <1>2 DEF PoolInv
<1>3. CASE ~tainted /\ holding[h].linked
  BY <1>1, <1>3, GiveBack
<1>4. CASE ~tainted /\ ~holding[h].linked
  BY <1>1, <1>4, LetGo
<1> QED BY <1>2, <1>3, <1>4

\* A reference that goes out of scope takes its slot with it.
LEMMA DropReferenceStep ==
  ASSUME PoolInv, NEW h \in Holders, dropReference(h)
  PROVE  PoolInv'
<1> PICK x : x = holding[h].idx
  OBVIOUS
<1>1. /\ state = "alive" /\ holding[h].kind = "ref"
      /\ lost' = lost \union {x}
      /\ holding' = [holding EXCEPT ![h] = None]
      /\ UNCHANGED <<_available, _pool_ptr, size, cap, built, state, tainted, unpaired,
                     twice, shared>>
  BY DEF dropReference, store
<1>2. CASE tainted
  BY <1>1, <1>2 DEF PoolInv
<1>3. CASE ~tainted
  <2>1. /\ PoolTypeOK /\ Books /\ Below(size) \subseteq AllSlots /\ Free \subseteq Below(size)
        /\ holding[h].linked => x \in Below(size)
    BY <1>1, <1>3, CleanFacts
  <2>2. holding[h].linked
    BY <1>1, <2>1, KindFacts
  <2>3. Holds(h, x) /\ \A j \in AllSlots : j # x => ~Holds(h, j)
    BY <2>2 DEF Holds
  <2>4. x \in Below(size) /\ x \in AllSlots /\ Free' = Free
    BY <1>1, <2>1, <2>2 DEF Free
  <2>5. /\ holding' \in [Holders -> {None} \union {Reference(j) : j \in AllSlots}
                             \union {Copy(j) : j \in AllSlots}
                             \union {Spent(j) : j \in AllSlots}]
        /\ \A g \in Holders, j \in AllSlots : Holds(g, j)' <=> Holds(g, j) /\ g # h
        /\ \A j \in AllSlots : ~Holds(h, j) => (j \in Held' <=> j \in Held)
    BY <1>1, <2>1, LetGoFacts
  <2>6. PoolTypeOK'
    BY <1>1, <2>1, <2>4, <2>5 DEF PoolTypeOK
  <2>7. x \notin shared => x \notin Free /\ x \in _pool_ptr /\ Sole(x)'
    <3> SUFFICES ASSUME x \notin shared PROVE x \notin Free /\ x \in _pool_ptr /\ Sole(x)'
      OBVIOUS
    <3>1. /\ x \notin Free /\ Once(_available, x) /\ x \in _pool_ptr
          /\ \A g \in Holders : Holds(g, x) => g = h
      BY <2>1, <2>3, <2>4 DEF Books, Sole
    <3>2. \A g \in Holders : ~Holds(g, x)'
      BY <2>4, <2>5, <3>1
    <3> QED BY <1>1, <2>4, <3>1, <3>2 DEF Sole
  <2>8. Books'
    <3>1. \A i \in AllSlots : i # x =>
            /\ i \in Free' <=> i \in Free
            /\ i \in lost' <=> i \in lost
            /\ i \in _pool_ptr' <=> i \in _pool_ptr
            /\ i \in built' <=> i \in built
            /\ i \in Held' <=> i \in Held
            /\ Once(_available, i) => Once(_available', i)
      BY <1>1, <2>3, <2>4, <2>5
    <3>2. \A i \in AllSlots : i # x => \A g \in Holders : Holds(g, i)' <=> Holds(g, i)
      BY <2>3, <2>5
    <3>3. Free' \subseteq AllSlots /\ lost' \subseteq AllSlots
      BY <1>1, <2>1, <2>4 DEF PoolTypeOK
    <3>4. x \in lost' /\ x \in Free' \union _pool_ptr' /\ (x \notin shared' => Sole(x)')
      BY <1>1, <2>1, <2>4, <2>7 DEF Books, Total
    <3>5. size' = size /\ shared \subseteq shared'
      BY <1>1
    <3> QED BY <2>1, <2>4, <3>1, <3>2, <3>3, <3>4, <3>5, OneSlotStep
  <2> QED BY <1>1, <1>3, <2>6, <2>8 DEF PoolInv
<1> QED BY <1>2, <1>3

\* A copy makes a second holder, of a slot about which less is claimed from now
\* on; the slot of a copy that is assigned to is lost.
LEMMA CopyStep ==
  ASSUME PoolInv, NEW g \in Holders, NEW h \in Holders, copyObject(g, h)
  PROVE  PoolInv'
<1> PICK x : x = holding[g].idx
  OBVIOUS
<1> PICK y : y = holding[h].idx
  OBVIOUS
<1> DEFINE o == IF Linked(g) THEN Copy(x) ELSE Spent(x)
<1>1. /\ state = "alive" /\ g # h /\ holding[g] # None
      /\ holding' = [holding EXCEPT ![h] = o]
      /\ shared' = IF Linked(g) THEN shared \union {x} ELSE shared
      /\ lost' = IF holding[h].linked THEN lost \union {y} ELSE lost
      /\ UNCHANGED <<_available, _pool_ptr, size, cap, built, state, tainted, unpaired, twice>>
  BY DEF copyObject, store
<1>2. CASE tainted
  BY <1>1, <1>2 DEF PoolInv
<1>3. CASE ~tainted
  <2>1. /\ PoolTypeOK /\ Books /\ Below(size) \subseteq AllSlots /\ Free \subseteq Below(size)
        /\ holding[h].linked => y \in Below(size)
        /\ holding[g].linked => x \in Held
    BY <1>1, <1>3, CleanFacts
  <2>2. x \in AllSlots
    BY <1>1, <2>1, KindFacts
  <2>3. Free' = Free /\ Free' \subseteq AllSlots /\ lost' \subseteq AllSlots /\ shared' \subseteq AllSlots
    BY <1>1, <2>1, <2>2 DEF Free, PoolTypeOK
  <2>4. /\ o \in {Copy(j) : j \in AllSlots} \union {Spent(j) : j \in AllSlots}
        /\ o.idx = x /\ o.linked = Linked(g)
    <3>1. CASE Linked(g)
      BY <2>2, <3>1 DEF Copy
    <3>2. CASE ~Linked(g)
      <4>1. Linked(g) \in BOOLEAN
        BY DEF Linked
      <4> QED BY <2>2, <3>2, <4>1 DEF Spent
    <3> QED BY <3>1, <3>2
  <2> HIDE DEF o
  <2>5. holding'[h] = o /\ \A f \in Holders : f # h => holding'[f] = holding[f]
    BY <1>1, <2>1 DEF PoolTypeOK
  <2>6. PoolTypeOK'
    <3>1. holding' \in [Holders -> {None} \union {Reference(j) : j \in AllSlots}
                               \union {Copy(j) : j \in AllSlots}
                               \union {Spent(j) : j \in AllSlots}]
      BY <1>1, <2>1, <2>4 DEF PoolTypeOK
    <3> QED BY <1>1, <2>1, <2>3, <3>1 DEF PoolTypeOK
  <2>7. /\ \A j \in AllSlots : Holds(h, j)' <=> Linked(g) /\ j = x
        /\ \A j \in AllSlots, f \in Holders : f # h => (Holds(f, j)' <=> Holds(f, j))
    BY <2>4, <2>5 DEF Holds
  <2>8. Linked(g) => Holds(g, x) /\ x \in shared'
    BY <1>1 DEF Linked, Holds
  <2>9. \A j \in AllSlots : ~Holds(h, j) => (j \in Held' <=> j \in Held)
    <3> SUFFICES ASSUME NEW j \in AllSlots, ~Holds(h, j) PROVE j \in Held' <=> j \in Held
      OBVIOUS
    <3>1. ASSUME NEW f \in Holders, Holds(f, j)' PROVE \E e \in Holders : Holds(e, j)
      BY <2>7, <2>8, <3>1
    <3>2. ASSUME NEW f \in Holders, Holds(f, j) PROVE Holds(f, j)'
      BY <2>7, <3>2
    <3> QED BY <3>1, <3>2 DEF Held
  <2>10. ASSUME NEW z, \A j \in AllSlots : j # z => ~Holds(h, j) /\ (j \in lost' <=> j \in lost),
                z \in AllSlots => z \in Below(size) /\ z \in lost',
                z \in AllSlots \ shared' => Sole(z)'
         PROVE  Books'
    <3>1. \A i \in AllSlots : i # z =>
            /\ i \in Free' <=> i \in Free
            /\ i \in lost' <=> i \in lost
            /\ i \in _pool_ptr' <=> i \in _pool_ptr
            /\ i \in built' <=> i \in built
            /\ i \in Held' <=> i \in Held
            /\ Once(_available, i) => Once(_available', i)
      BY <1>1, <2>3, <2>9, <2>10
    <3>2. \A i \in AllSlots \ shared' : i # z => \A f \in Holders : Holds(f, i)' <=> Holds(f, i)
      <4> SUFFICES ASSUME NEW i \in AllSlots \ shared', i # z, NEW f \in Holders
                   PROVE  Holds(f, i)' <=> Holds(f, i)
        OBVIOUS
      <4>1. CASE f = h
        BY <2>7, <2>8, <2>10, <4>1
      <4>2. CASE f # h
        BY <2>7, <4>2
      <4> QED BY <4>1, <4>2
    <3>3. z \in AllSlots => z \in Free' \union _pool_ptr'
      BY <1>1, <2>1, <2>3, <2>10 DEF Books, Total
    <3>4. size' = size /\ shared \subseteq shared'
      BY <1>1
    <3> QED BY <2>1, <2>3, <2>10, <3>1, <3>2, <3>3, <3>4, OneSlotStep
  <2>11. CASE holding[h].linked
    <3>1. Holds(h, y) /\ \A j \in AllSlots : j # y => ~Holds(h, j)
      BY <2>11 DEF Holds
    <3>2. lost' = lost \union {y} /\ y \in Below(size) /\ y \in AllSlots
      BY <1>1, <2>1, <2>11
    <3>3. ASSUME y \notin shared' PROVE Sole(y)'
      <4>1. y \notin shared
        BY <1>1, <3>3
      <4>2. /\ y \notin Free /\ Once(_available, y)
            /\ \A f \in Holders : Holds(f, y) => f = h
        BY <2>1, <3>1, <3>2, <4>1 DEF Books, Sole
      <4>3. \A f \in Holders : ~Holds(f, y)'
        <5> SUFFICES ASSUME NEW f \in Holders PROVE ~Holds(f, y)'
          OBVIOUS
        <5>1. CASE f = h
          BY <2>7, <2>8, <3>2, <3>3, <5>1
        <5>2. CASE f # h
          BY <2>7, <3>2, <4>2, <5>2
        <5> QED BY <5>1, <5>2
      <4> QED BY <1>1, <2>3, <4>2, <4>3 DEF Sole
    <3>4. \A j \in AllSlots : j # y => ~Holds(h, j) /\ (j \in lost' <=> j \in lost)
      BY <3>1, <3>2
    <3>5. Books'
      BY <2>10, <3>2, <3>3, <3>4
    <3> QED BY <1>1, <1>3, <2>6, <3>5 DEF PoolInv
  <2>12. CASE ~holding[h].linked
    <3>1. -1 \notin AllSlots
      BY MaxSizeAssumption DEF AllSlots
    <3>2. \A j \in AllSlots : ~Holds(h, j) /\ (j \in lost' <=> j \in lost)
      BY <1>1, <2>12 DEF Holds
    <3>3. Books'
      BY <2>10, <3>1, <3>2
    <3> QED BY <1>1, <1>3, <2>6, <3>3 DEF PoolInv
  <2> QED BY <2>11, <2>12
<1> QED BY <1>2, <1>3

\* ~Pool destroys a dead TType only in a pool that had one.
LEMMA DestroyStep ==
  ASSUME PoolInv, destroyPool
  PROVE  PoolInv'
<1>1. /\ state = "alive" /\ state' = "gone"
      /\ tainted' = tainted /\ unpaired' = unpaired
      /\ twice' = (twice \/ ~(Below(size) \subseteq built))
  BY DEF destroyPool
<1>2. twice' \in BOOLEAN
  BY <1>1
<1>3. twice' => unpaired'
  BY <1>1 DEF PoolInv
<1> QED BY <1>1, <1>2, <1>3 DEF PoolInv

\* A clean stack holds no index beyond the slots.
LEMMA WildStep ==
  ASSUME PoolInv, acquireWild
  PROVE  PoolInv'
<1>1. /\ state = "alive" /\ _available # <<>> /\ Top >= size /\ state' = "broken"
      /\ tainted' = tainted /\ unpaired' = unpaired /\ twice' = twice
  BY DEF acquireWild
<1>2. ASSUME ~tainted PROVE FALSE
  <2>1. /\ PoolTypeOK /\ Free = Elems(_available) /\ Free \subseteq Below(size)
        /\ size \in Nat
    BY <1>1, <1>2, CleanFacts
  <2>2. Top \in Elems(_available)
    BY <1>1, <2>1, PopFacts DEF PoolTypeOK, Top
  <2>3. Top \in 0..(size - 1)
    BY <2>1, <2>2 DEF Below
  <2> QED BY <1>1, <2>1, <2>3
<1> QED BY <1>1, <1>2 DEF PoolInv

\* Every step keeps the invariant.
LEMMA PoolInvNext == PoolInv /\ [PoolNext]_poolVars => PoolInv'
<1> SUFFICES ASSUME PoolInv, [PoolNext]_poolVars PROVE PoolInv'
  OBVIOUS
<1>1. ASSUME NEW n \in Sizes, resize(n) PROVE PoolInv'
  BY <1>1, ResizeStep
<1>2. ASSUME NEW h \in Holders,
             acquire(h) \/ release(h) \/ dropCopy(h) \/ dropReference(h)
      PROVE  PoolInv'
  BY <1>2, AcquireStep, ReleaseStep, DropCopyStep, DropReferenceStep
<1>7. ASSUME NEW g \in Holders, NEW h \in Holders, copyObject(g, h)
      PROVE  PoolInv'
  BY <1>7, CopyStep
<1>3. CASE acquireThrows
  BY <1>3, AcquireThrowsStep
<1>4. CASE acquireWild
  BY <1>4, WildStep
<1>5. CASE destroyPool
  BY <1>5, DestroyStep
<1>6. CASE UNCHANGED poolVars
  BY <1>6 DEF poolVars, PoolInv, PoolTypeOK, Books, Total, Held, Sole, Free, Holds
<1> QED BY <1>1, <1>2, <1>3, <1>4, <1>5, <1>6, <1>7 DEF PoolNext, acquireRefused, Over

\* The pool keeps PoolInv over any sequence of calls.
LEMMA PoolInvHolds == PoolSpec => []PoolInv
  BY PoolInvInit, PoolInvNext, PTL DEF PoolSpec

-------------------------------------------------------------------------------
\* Until a resize meets a linked Object, no slot is lent twice, unless the
\* Object of its holder was copied, for any number of callers and any size
\* (acquire, release, ~Object and the copies of Object).
THEOREM SlotsAreLentOnce == PoolSpec => []LentOnce
<1>1. PoolInv => LentOnce
  BY DEF PoolInv, Books, Sole, Once, LentOnce
<1> QED BY <1>1, PoolInvHolds, PTL

\* Until then every slot of the pool, copied or not, is free, held or lost, and
\* is free when it is not linked: none vanishes.
THEOREM SlotsAreAccountedFor == PoolSpec => []NoSlotVanishes
<1>1. PoolInv => NoSlotVanishes
  BY DEF PoolInv, Books, Total, Held, NoSlotVanishes
<1> QED BY <1>1, PoolInvHolds, PTL

\* acquire leaves the bounds of _objects only after such a resize.
THEOREM AccessIsInBounds == PoolSpec => []WildOnlyWhenTainted
<1>1. PoolInv => WildOnlyWhenTainted
  BY DEF PoolInv, WildOnlyWhenTainted
<1> QED BY <1>1, PoolInvHolds, PTL

\* The explicit destructor calls of acquire, resize and ~Pool pair with the
\* constructions unless a resize or a throwing constructor left a dead TType.
THEOREM DestructionsPair == PoolSpec => []DestroyedOnce
<1>1. PoolInv => DestroyedOnce
  BY DEF PoolInv, DestroyedOnce
<1> QED BY <1>1, PoolInvHolds, PTL

\* What a caller of acquire holds is alive and linked to the pool, unless it was
\* copied or a resize met it.
THEOREM HeldSlotsAreAlive == PoolSpec => []HeldIsAlive
<1>1. PoolInv => HeldIsAlive
  BY DEF PoolInv, Books, Sole, HeldIsAlive
<1> QED BY <1>1, PoolInvHolds, PTL

\* What the callers of the pool rely on, for any number of callers and any size.
THEOREM PoolCorrect == PoolSpec => []PoolIsSound
<1> QED
  BY SlotsAreLentOnce, SlotsAreAccountedFor, AccessIsInBounds, DestructionsPair,
     HeldSlotsAreAlive, PTL DEF PoolIsSound
===============================================================================
