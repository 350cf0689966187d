---------------------------- MODULE HeapFile_proofs ----------------------------
(***************************************************************************)
(* Theorems about HeapFile, for every page size, every number of pages,    *)
(* every set of tuples of any sizes and every set of threads.              *)
(***************************************************************************)
EXTENDS HeapFile, TLAPS

-----------------------------------------------------------------------------
(* Facts about one page. *)

Live(pg) == {i \in DOMAIN pg.ptrs : pg.ptrs[i].start_offset # 0}

\* The tuple of pointer i ends within the page, above free_end and below the
\* tuples of the pointers before it.
PtrSound(pg, i) ==
  /\ pg.free_end <= pg.ptrs[i].start_offset
  /\ pg.ptrs[i].start_offset + pg.ptrs[i].size < PAGE_SIZE
  /\ \A j \in Live(pg) :
       j < i => pg.ptrs[i].start_offset + pg.ptrs[i].size <= pg.ptrs[j].start_offset

\* A page that only new_heap_page, add_tuple and remove_tuple wrote
Sound(pg) ==
  /\ pg \in HeapPage
  /\ pg.free_end < PAGE_SIZE
  /\ free_start(pg) <= pg.free_end
  /\ \A i \in Live(pg) : PtrSound(pg, i)
  /\ \A x \in pg.tuples : pg.free_end <= x.off
  /\ \A x, y \in pg.tuples : x.off = y.off => x = y

\* The pointer of a slot leads to tuple u, or is marked when u is gone.
Holds(pg, slot, u, gone) ==
  /\ slot \in DOMAIN pg.ptrs
  /\ pg.ptrs[slot].size = TupleSize[u]
  /\ IF u \in gone THEN pg.ptrs[slot].start_offset = 0
     ELSE /\ pg.ptrs[slot].start_offset # 0
          /\ [off |-> pg.ptrs[slot].start_offset, tup |-> u] \in pg.tuples

\* Page and tuple sizes fit into 16 bits.
LEMMA Sizes ==
  /\ PAGE_SIZE \in Nat /\ PAGE_SIZE >= 6 /\ PAGE_SIZE <= UINT16_MAX
  /\ \A u \in Tuple : /\ TupleSize[u] \in Nat
                       /\ TupleSize[u] >= 1 /\ TupleSize[u] <= PAGE_SIZE
<1>1. UINT16_MAX \in Nat
  BY SMT DEF UINT16_MAX
<1>2. PAGE_SIZE \in 6 .. UINT16_MAX /\ TupleSize \in [Tuple -> 1 .. PAGE_SIZE]
  BY SizesAssumption DEF PAGE_HEADER_SIZE
<1> QED
  BY <1>1, <1>2

\* Offsets are the numbers of 16 bits.
LEMMA Offsets ==
  /\ UINT16_MAX \in Nat
  /\ \A x : x \in Offset <=> x \in Nat /\ x <= UINT16_MAX
<1>1. UINT16_MAX \in Nat
  BY SMT DEF UINT16_MAX
<1> QED
  BY <1>1 DEF Offset

\* The fields of a page have their types.
LEMMA PageType ==
  ASSUME NEW pg \in HeapPage
  PROVE  /\ pg.free_end \in Offset /\ pg.compactable \in BOOLEAN
         /\ pg.ptrs \in Seq(TuplePtr) /\ Len(pg.ptrs) \in Nat
         /\ DOMAIN pg.ptrs = 1 .. Len(pg.ptrs)
         /\ \A i \in 1 .. Len(pg.ptrs) : /\ pg.ptrs[i] \in TuplePtr
                                         /\ pg.ptrs[i].start_offset \in Offset
                                         /\ pg.ptrs[i].size \in Offset
         /\ pg.tuples \in SUBSET [off : Offset, tup : Tuple]
         /\ \A x \in pg.tuples : x.off \in Offset /\ x.tup \in Tuple
<1>1. /\ pg.free_end \in Offset /\ pg.compactable \in BOOLEAN
      /\ pg.ptrs \in Seq(TuplePtr)
      /\ pg.tuples \in SUBSET [off : Offset, tup : Tuple]
  BY DEF HeapPage
<1>2. Len(pg.ptrs) \in Nat /\ DOMAIN pg.ptrs = 1 .. Len(pg.ptrs)
  BY <1>1
<1>3. \A i \in 1 .. Len(pg.ptrs) : pg.ptrs[i] \in TuplePtr
  BY <1>1, <1>2
<1> QED
  BY <1>1, <1>2, <1>3 DEF TuplePtr

\* The page new_heap_page writes is sound.
LEMMA EmptySound == Sound(EmptyPage)
<1>1. EmptyPage \in HeapPage
  <2>1. <<>> \in Seq(TuplePtr)
    OBVIOUS
  <2>2. PAGE_SIZE - 1 \in Offset
    BY Sizes, Offsets
  <2> QED
    BY <2>1, <2>2 DEF EmptyPage, HeapPage
<1>2. EmptyPage.free_end = PAGE_SIZE - 1 /\ EmptyPage.ptrs = <<>> /\ EmptyPage.tuples = {}
  BY DEF EmptyPage
<1>3. Live(EmptyPage) = {}
  BY <1>2 DEF Live
<1>4. free_start(EmptyPage) = 5
  BY <1>2 DEF free_start, PAGE_HEADER_SIZE, TUPLE_PTR_SIZE
<1> QED
  BY <1>1, <1>2, <1>3, <1>4, Sizes DEF Sound

\* What add_tuple makes of the fields of a page
LEMMA AddedFields ==
  ASSUME NEW pg \in HeapPage, NEW u \in Tuple, ~NoRoom(pg, u)
  PROVE  LET q == Added(pg, u)
             off == pg.free_end - TupleSize[u]
         IN /\ q \in HeapPage
            /\ off \in Offset /\ off # 0
            /\ free_start(pg) + TUPLE_PTR_SIZE <= off
            /\ q.free_end = off
            /\ Len(q.ptrs) = Len(pg.ptrs) + 1
            /\ DOMAIN q.ptrs = 1 .. Len(pg.ptrs) + 1
            /\ \A i \in 1 .. Len(pg.ptrs) : q.ptrs[i] = pg.ptrs[i]
            /\ q.ptrs[Len(pg.ptrs) + 1] = [start_offset |-> off, size |-> TupleSize[u]]
            /\ q.tuples = pg.tuples \cup {[off |-> off, tup |-> u]}
<1> DEFINE off == pg.free_end - TupleSize[u]
           ptr == [start_offset |-> off, size |-> TupleSize[u]]
           q == Added(pg, u)
<1>1. TupleSize[u] \in Nat /\ TupleSize[u] >= 1 /\ TupleSize[u] \in Offset
  BY Sizes, Offsets
<1>2. off \in Offset /\ off # 0 /\ free_start(pg) + TUPLE_PTR_SIZE <= off
  <2>1. pg.free_end \in Nat /\ pg.free_end <= UINT16_MAX /\ Len(pg.ptrs) \in Nat
    BY PageType, Offsets
  <2>2. ~(5 + 4 * Len(pg.ptrs) + 4 > pg.free_end - TupleSize[u])
    BY DEF NoRoom, free_start, PAGE_HEADER_SIZE, TUPLE_PTR_SIZE
  <2>3. off \in Nat /\ off <= UINT16_MAX /\ off # 0 /\ 5 + 4 * Len(pg.ptrs) + 4 <= off
    BY <1>1, <2>1, <2>2, Offsets
  <2> QED
    BY <2>3, Offsets DEF free_start, PAGE_HEADER_SIZE, TUPLE_PTR_SIZE
<1>3. ptr \in TuplePtr
  BY <1>1, <1>2 DEF TuplePtr
<1>4. /\ Append(pg.ptrs, ptr) \in Seq(TuplePtr)
      /\ Len(Append(pg.ptrs, ptr)) = Len(pg.ptrs) + 1
      /\ \A i \in 1 .. Len(pg.ptrs) : Append(pg.ptrs, ptr)[i] = pg.ptrs[i]
      /\ Append(pg.ptrs, ptr)[Len(pg.ptrs) + 1] = ptr
      /\ DOMAIN Append(pg.ptrs, ptr) = 1 .. Len(pg.ptrs) + 1
  BY <1>3, PageType
<1>5. /\ q.free_end = off /\ q.ptrs = Append(pg.ptrs, ptr)
      /\ q.tuples = pg.tuples \cup {[off |-> off, tup |-> u]}
  BY SMTT(30) DEF Added, HeapPage
<1>6. q \in HeapPage
  <2>1. pg.tuples \cup {[off |-> off, tup |-> u]} \in SUBSET [off : Offset, tup : Tuple]
    BY <1>2, PageType
  <2>2. \A e \in Offset, s \in Seq(TuplePtr), T \in SUBSET [off : Offset, tup : Tuple] :
          [pg EXCEPT !.free_end = e, !.ptrs = s, !.tuples = T] \in HeapPage
    BY Zenon DEF HeapPage
  <2>3. q = [pg EXCEPT !.free_end = off, !.ptrs = Append(pg.ptrs, ptr),
                       !.tuples = pg.tuples \cup {[off |-> off, tup |-> u]}]
    BY DEF Added, HeapPage
  <2> HIDE DEF q, off, ptr
  <2> QED
    BY <1>2, <1>4, <2>1, <2>2, <2>3, Zenon
<1> QED
  BY <1>2, <1>4, <1>5, <1>6

\* add_tuple keeps a page sound.
LEMMA AddedSound ==
  ASSUME NEW pg, Sound(pg), NEW u \in Tuple, ~NoRoom(pg, u)
  PROVE  Sound(Added(pg, u))
<1> DEFINE q == Added(pg, u)
           n == Len(pg.ptrs)
           off == pg.free_end - TupleSize[u]
<1>1. pg \in HeapPage
  BY DEF Sound
<1>2. /\ q \in HeapPage
      /\ off \in Offset /\ off # 0
      /\ free_start(pg) + TUPLE_PTR_SIZE <= off
      /\ q.free_end = off
      /\ Len(q.ptrs) = n + 1
      /\ DOMAIN q.ptrs = 1 .. n + 1
      /\ \A i \in 1 .. n : q.ptrs[i] = pg.ptrs[i]
      /\ q.ptrs[n + 1] = [start_offset |-> off, size |-> TupleSize[u]]
      /\ q.tuples = pg.tuples \cup {[off |-> off, tup |-> u]}
  BY <1>1, AddedFields
<1>3. off = pg.free_end - TupleSize[u]
  OBVIOUS
<1> HIDE DEF q, off
<1>4. n \in Nat /\ pg.free_end \in Nat /\ off \in Nat /\ off # 0
      /\ TupleSize[u] \in Nat /\ TupleSize[u] > 0 /\ PAGE_SIZE \in Nat
  BY <1>1, PageType, <1>2, <1>3, Sizes, Offsets
<1>5. q.free_end < PAGE_SIZE /\ free_start(q) <= q.free_end
  BY <1>1, <1>4, <1>2, <1>3 DEF Sound, free_start, PAGE_HEADER_SIZE, TUPLE_PTR_SIZE
<1>6. DOMAIN pg.ptrs = 1 .. n
  BY <1>1, PageType
<1>7. Live(pg) \subseteq 1 .. n /\ \A j \in Live(pg) : q.ptrs[j] = pg.ptrs[j]
  BY <1>2, <1>6 DEF Live
<1>8. Live(q) = Live(pg) \cup {n + 1}
  <2>1. q.ptrs[n + 1].start_offset # 0
    BY <1>2
  <2>2. \A i : i \in 1 .. n + 1 <=> i \in 1 .. n \/ i = n + 1
    BY <1>4
  <2> HIDE DEF n
  <2> QED
    BY <1>2, <1>6, <2>1, <2>2 DEF Live
<1>9. ASSUME NEW i \in Live(pg)
      PROVE  PtrSound(q, i)
  <2>1. /\ i \in 1 .. n /\ q.ptrs[i] = pg.ptrs[i]
        /\ pg.ptrs[i].start_offset \in Nat /\ pg.ptrs[i].size \in Nat
    BY <1>1, <1>9, PageType, <1>2, <1>3, Offsets, Zenon DEF Live
  <2>2. PtrSound(pg, i)
    BY DEF Sound
  <2>3. \A j \in Live(q) : j < i => j \in Live(pg) /\ q.ptrs[j] = pg.ptrs[j]
    BY <1>4, <1>8, <1>7, <2>1
  <2>4. q.free_end <= q.ptrs[i].start_offset
    BY <1>1, <1>4, <2>1, <2>2, <1>2, <1>3, SMTT(30) DEF PtrSound
  <2> QED
    BY <2>1, <2>2, <2>3, <2>4, Zenon DEF PtrSound
<1>10. PtrSound(q, n + 1)
  <2>1. q.ptrs[n + 1].start_offset = off /\ q.ptrs[n + 1].size = TupleSize[u]
    BY <1>1, <1>2, <1>3
  <2>2. ASSUME NEW j \in Live(q), j < n + 1
        PROVE  pg.free_end <= q.ptrs[j].start_offset
    <3>1. j \in Live(pg) /\ q.ptrs[j] = pg.ptrs[j]
      BY <1>4, <1>8, <1>7, <2>2
    <3> QED
      BY <3>1 DEF Sound, PtrSound
  <2>3. off + TupleSize[u] = pg.free_end /\ pg.free_end < PAGE_SIZE /\ q.free_end = off
    BY <1>1, <1>4, <1>2, <1>3 DEF Sound
  <2> QED
    BY <1>4, <2>1, <2>2, <2>3 DEF PtrSound
<1>11. \A x \in q.tuples : q.free_end <= x.off
  BY <1>1, <1>4, <1>2, <1>3, PageType, Offsets DEF Sound
<1>12. \A x, y \in q.tuples : x.off = y.off => x = y
  <2>1. \A x \in pg.tuples : x.off # off
    BY <1>1, <1>4, <1>3, PageType, Offsets DEF Sound
  <2> QED
    BY <1>1, <2>1, <1>2, <1>3 DEF Sound
<1>13. q \in HeapPage
  BY <1>1, <1>2, <1>3
<1> QED
  BY <1>5, <1>8, <1>9, <1>10, <1>11, <1>12, <1>13 DEF Sound, q

\* What remove_tuple makes of the fields of a page
LEMMA MarkedFields ==
  ASSUME NEW pg \in HeapPage, NEW slot
  PROVE  LET q == Marked(pg, slot)
         IN /\ q \in HeapPage
            /\ q.free_end = pg.free_end /\ q.tuples = pg.tuples
            /\ Len(q.ptrs) = Len(pg.ptrs) /\ DOMAIN q.ptrs = DOMAIN pg.ptrs
            /\ \A i \in DOMAIN pg.ptrs :
                 /\ q.ptrs[i].size = pg.ptrs[i].size
                 /\ q.ptrs[i].start_offset = IF i = slot THEN 0 ELSE pg.ptrs[i].start_offset
<1> DEFINE q == Marked(pg, slot)
           n == Len(pg.ptrs)
           M(i) == IF i = slot THEN [pg.ptrs[i] EXCEPT !.start_offset = 0] ELSE pg.ptrs[i]
<1>1. /\ q.free_end = pg.free_end /\ q.tuples = pg.tuples /\ q.compactable = TRUE
      /\ q.ptrs = [i \in DOMAIN pg.ptrs |-> M(i)]
  BY DEF Marked, HeapPage
<1>2. n \in Nat /\ DOMAIN pg.ptrs = 1 .. n
  BY PageType
<1>3. \A i \in 1 .. n : /\ M(i) \in TuplePtr
                        /\ M(i).size = pg.ptrs[i].size
                        /\ M(i).start_offset = IF i = slot THEN 0 ELSE pg.ptrs[i].start_offset
  <2> SUFFICES ASSUME NEW i \in 1 .. n
               PROVE  /\ M(i) \in TuplePtr
                      /\ M(i).size = pg.ptrs[i].size
                      /\ M(i).start_offset = IF i = slot THEN 0 ELSE pg.ptrs[i].start_offset
    OBVIOUS
  <2>1. pg.ptrs[i] \in TuplePtr /\ 0 \in Offset
    BY PageType, Offsets, SMTT(30)
  <2> QED
    BY <2>1 DEF TuplePtr
<1> HIDE DEF M
<1>4. q.ptrs \in Seq(TuplePtr) /\ Len(q.ptrs) = n /\ DOMAIN q.ptrs = 1 .. n
  BY <1>1, <1>2, <1>3
<1>5. q \in HeapPage
  BY <1>1, <1>4, PageType, Zenon DEF Marked, HeapPage
<1> QED
  BY <1>1, <1>2, <1>3, <1>4, <1>5

\* remove_tuple keeps a page sound.
LEMMA MarkedSound ==
  ASSUME NEW pg, Sound(pg), NEW slot
  PROVE  Sound(Marked(pg, slot))
<1> DEFINE q == Marked(pg, slot)
<1>1. pg \in HeapPage
  BY DEF Sound
<1>2. \A i \in Live(q) : /\ i \in Live(pg)
                         /\ q.ptrs[i].start_offset = pg.ptrs[i].start_offset
                         /\ q.ptrs[i].size = pg.ptrs[i].size
  BY <1>1, MarkedFields DEF Live
<1>3. \A i \in Live(q) : PtrSound(q, i)
  BY <1>1, <1>2, MarkedFields DEF Sound, PtrSound
<1>4. q.free_end < PAGE_SIZE /\ free_start(q) <= q.free_end
  BY <1>1, MarkedFields DEF Sound, free_start
<1>5. /\ \A x \in q.tuples : q.free_end <= x.off
      /\ \A x, y \in q.tuples : x.off = y.off => x = y
  BY <1>1, MarkedFields DEF Sound
<1> QED
  BY <1>1, <1>3, <1>4, <1>5, MarkedFields DEF Sound

\* add_tuple leaves the tuples of a page where they are, and the new one is
\* found in the next slot.
LEMMA AddedHolds ==
  ASSUME NEW pg \in HeapPage, NEW u \in Tuple, ~NoRoom(pg, u), NEW gone
  PROVE  /\ \A slot, v : Holds(pg, slot, v, gone) => Holds(Added(pg, u), slot, v, gone)
         /\ u \notin gone => Holds(Added(pg, u), NextSlot(pg), u, gone)
<1> DEFINE q == Added(pg, u)
           n == Len(pg.ptrs)
           off == pg.free_end - TupleSize[u]
<1>1. /\ off # 0 /\ n \in Nat
      /\ DOMAIN pg.ptrs = 1 .. n /\ DOMAIN q.ptrs = 1 .. n + 1
      /\ \A i \in 1 .. n : q.ptrs[i] = pg.ptrs[i]
      /\ q.ptrs[n + 1] = [start_offset |-> off, size |-> TupleSize[u]]
      /\ q.tuples = pg.tuples \cup {[off |-> off, tup |-> u]}
  BY AddedFields, PageType
<1> HIDE DEF q, off, n
<1>2. ASSUME NEW slot, NEW v, Holds(pg, slot, v, gone)
      PROVE  Holds(q, slot, v, gone)
  BY <1>1, <1>2 DEF Holds
<1>3. u \notin gone => Holds(q, n + 1, u, gone)
  BY <1>1 DEF Holds
<1> QED
  BY <1>2, <1>3 DEF q, n, NextSlot

\* remove_tuple marks the tuple of one slot and leaves those of the others.
LEMMA MarkedHolds ==
  ASSUME NEW pg, Sound(pg), NEW s0, NEW u, NEW gone, u \notin gone, Holds(pg, s0, u, gone)
  PROVE  \A slot, v : \/ slot = s0 /\ v = u
                      \/ v # u /\ Holds(pg, slot, v, gone)
                      => Holds(Marked(pg, s0), slot, v, gone \cup {u})
<1>1. pg \in HeapPage
  BY DEF Sound
<1>2. Holds(Marked(pg, s0), s0, u, gone \cup {u})
  BY <1>1, MarkedFields DEF Holds
<1>3. ASSUME NEW slot, NEW v, v # u, Holds(pg, slot, v, gone), v \notin gone
      PROVE  Holds(Marked(pg, s0), slot, v, gone \cup {u})
  <2>1. slot # s0
    BY <1>3 DEF Holds, Sound
  <2> QED
    BY <1>1, <1>3, <2>1, MarkedFields DEF Holds
<1>4. ASSUME NEW slot, NEW v, Holds(pg, slot, v, gone), v \in gone
      PROVE  Holds(Marked(pg, s0), slot, v, gone \cup {u})
  BY <1>1, <1>4, MarkedFields DEF Holds
<1> QED
  BY <1>2, <1>3, <1>4

\* get_tuple finds exactly the tuple of a slot.
LEMMA HoldsGet ==
  ASSUME NEW pg, Sound(pg), NEW slot, NEW u, NEW gone, Holds(pg, slot, u, gone)
  PROVE  get_tuple(pg, slot) = IF u \in gone THEN {} ELSE {u}
<1>1. CASE u \in gone
  BY <1>1 DEF Holds, get_tuple
<1>2. CASE u \notin gone
  <2> DEFINE r == [off |-> pg.ptrs[slot].start_offset, tup |-> u]
  <2>1. r \in pg.tuples /\ r.off # 0 /\ TupleSize[r.tup] = pg.ptrs[slot].size
    BY <1>2 DEF Holds
  <2>2. \A x \in pg.tuples : x.off = pg.ptrs[slot].start_offset => x = r
    BY <2>1 DEF Sound
  <2>3. {x \in pg.tuples :
           /\ slot \in DOMAIN pg.ptrs
           /\ x.off = pg.ptrs[slot].start_offset
           /\ x.off # 0 /\ TupleSize[x.tup] = pg.ptrs[slot].size} = {r}
    BY <2>1, <2>2 DEF Holds
  <2>4. \A S : S = {r} => {x.tup : x \in S} = {r.tup}
    OBVIOUS
  <2>5. get_tuple(pg, slot) = {r.tup}
    BY <2>3, <2>4, Zenon DEF get_tuple
  <2> QED
    BY <1>2, <2>5
<1> QED
  BY <1>1, <1>2

-----------------------------------------------------------------------------
(* Page space, also of pages that defragment wrote. *)

\* Taking the sizes of the pointers one after the other from the end of the
\* page leads through g to free_end.
Filled(g, pg) ==
  /\ g[0] = PAGE_SIZE - 1
  /\ \A i \in 1 .. Len(pg.ptrs) : g[i] \in Nat /\ g[i - 1] = g[i] + pg.ptrs[i].size
  /\ g[Len(pg.ptrs)] = pg.free_end

\* A page whose tuples have the room that its pointers say
Packed(pg) == pg \in HeapPage /\ \E g : Filled(g, pg)

\* The page new_heap_page writes is packed.
LEMMA EmptyPacked == Packed(EmptyPage)
<1>1. EmptyPage \in HeapPage
  BY EmptySound DEF Sound
<1>2. EmptyPage.free_end = PAGE_SIZE - 1 /\ EmptyPage.ptrs = <<>> /\ Len(EmptyPage.ptrs) = 0
  BY DEF EmptyPage
<1>3. PICK g : g = [i \in {0} |-> PAGE_SIZE - 1]
  BY Zenon
<1>4. g[0] = PAGE_SIZE - 1 /\ 1 .. 0 = {}
  BY <1>3
<1>5. Filled(g, EmptyPage)
  BY <1>2, <1>4 DEF Filled
<1> QED
  BY <1>1, <1>5 DEF Packed

\* q is page pg with one more pointer, of the given size, and its tuple.
Extends(q, pg, size) ==
  /\ Len(q.ptrs) = Len(pg.ptrs) + 1
  /\ \A i \in 1 .. Len(pg.ptrs) : q.ptrs[i] = pg.ptrs[i]
  /\ q.ptrs[Len(pg.ptrs) + 1].size = size
  /\ q.free_end = pg.free_end - size

\* Another pointer with its tuple keeps a page packed.
LEMMA ExtendsPacked ==
  ASSUME NEW pg, Packed(pg), NEW q \in HeapPage, NEW size \in Nat, Extends(q, pg, size)
  PROVE  Packed(q)
<1>1. PICK g : Filled(g, pg)
  BY DEF Packed
<1> DEFINE n == Len(pg.ptrs)
<1>2. n \in Nat /\ pg.free_end \in Nat /\ q.free_end \in Nat
  BY PageType, Offsets DEF Packed
<1>3. PICK h : h = [i \in 0 .. n + 1 |-> IF i = n + 1 THEN q.free_end ELSE g[i]]
  BY Zenon
<1>4. h[n + 1] = q.free_end /\ \A i \in 0 .. n : h[i] = g[i]
  BY <1>2, <1>3
<1>5. h[0] = PAGE_SIZE - 1 /\ h[n] = pg.free_end
  BY <1>1, <1>2, <1>4 DEF Filled
<1>6. ASSUME NEW i \in 1 .. n + 1
      PROVE  h[i] \in Nat /\ h[i - 1] = h[i] + q.ptrs[i].size
  <2>1. CASE i = n + 1
    <3>1. i - 1 = n /\ h[i - 1] = pg.free_end /\ h[i] = pg.free_end - size
      BY <1>2, <1>4, <1>5, <2>1 DEF Extends
    <3>2. q.ptrs[i].size = size
      BY <2>1 DEF Extends
    <3> QED
      BY <1>2, <1>4, <2>1, <3>1, <3>2
  <2>2. CASE i \in 1 .. n
    <3>1. h[i] = g[i] /\ h[i - 1] = g[i - 1]
      BY <1>2, <1>4, <2>2
    <3>2. q.ptrs[i] = pg.ptrs[i]
      BY <2>2 DEF Extends
    <3> QED
      BY <1>1, <2>2, <3>1, <3>2 DEF Filled
  <2> QED
    BY <1>2, <2>1, <2>2
<1>7. Len(q.ptrs) = n + 1
  BY DEF Extends
<1> HIDE DEF n
<1>8. Filled(h, q)
  BY <1>4, <1>5, <1>6, <1>7 DEF Filled
<1> QED
  BY <1>8 DEF Packed

\* add_tuple keeps a page packed.
LEMMA AddedPacked ==
  ASSUME NEW pg, Packed(pg), NEW u \in Tuple, ~NoRoom(pg, u)
  PROVE  Packed(Added(pg, u))
<1>1. pg \in HeapPage /\ TupleSize[u] \in Nat
  BY Sizes DEF Packed
<1> DEFINE q == Added(pg, u)
           n == Len(pg.ptrs)
           off == pg.free_end - TupleSize[u]
<1>2. /\ q \in HeapPage /\ q.free_end = off /\ Len(q.ptrs) = n + 1
      /\ \A i \in 1 .. n : q.ptrs[i] = pg.ptrs[i]
      /\ q.ptrs[n + 1] = [start_offset |-> off, size |-> TupleSize[u]]
  BY <1>1, AddedFields
<1> HIDE DEF q
<1>3. q.ptrs[n + 1].size = TupleSize[u]
  BY <1>2
<1>4. Extends(q, pg, TupleSize[u])
  BY <1>2, <1>3, Zenon DEF Extends
<1> QED
  BY <1>1, <1>2, <1>4, ExtendsPacked DEF q

\* remove_tuple keeps a page packed.
LEMMA MarkedPacked ==
  ASSUME NEW pg, Packed(pg), NEW slot
  PROVE  Packed(Marked(pg, slot))
<1>1. PICK g : Filled(g, pg)
  BY DEF Packed
<1>2. pg \in HeapPage /\ DOMAIN pg.ptrs = 1 .. Len(pg.ptrs)
  BY PageType DEF Packed
<1> DEFINE q == Marked(pg, slot)
<1>3. /\ q \in HeapPage /\ q.free_end = pg.free_end /\ Len(q.ptrs) = Len(pg.ptrs)
      /\ \A i \in 1 .. Len(pg.ptrs) : q.ptrs[i].size = pg.ptrs[i].size
  BY <1>2, MarkedFields
<1> HIDE DEF q
<1>4. Filled(g, q)
  BY <1>1, <1>3 DEF Filled
<1> QED
  BY <1>3, <1>4 DEF Packed, q

\* What defragment makes of the fields of the new page when it moves a tuple
LEMMA MovedFields ==
  ASSUME NEW temp \in HeapPage, NEW pg \in HeapPage, NEW ptr \in TuplePtr,
         ptr.size <= pg.free_end
  PROVE  /\ Moved(temp, pg, ptr) \in HeapPage
         /\ Moved(temp, pg, ptr).free_end = pg.free_end - ptr.size
         /\ Moved(temp, pg, ptr).ptrs = Append(pg.ptrs, ptr)
<1> DEFINE off == pg.free_end - ptr.size
           new == {[off |-> off, tup |-> r.tup] :
                     r \in {x \in temp.tuples : /\ x.off = ptr.start_offset
                                                /\ TupleSize[x.tup] = ptr.size}}
           q == Moved(temp, pg, ptr)
<1>1. off \in Offset
  <2>1. ptr.size \in Offset
    BY DEF TuplePtr
  <2> QED
    BY <2>1, PageType, Offsets
<1>2. \A x \in temp.tuples : x.tup \in Tuple
  BY PageType
<1>3. new \in SUBSET [off : Offset, tup : Tuple]
  <2> HIDE DEF off
  <2> QED
    BY <1>1, <1>2
<1>4. pg.tuples \cup new \in SUBSET [off : Offset, tup : Tuple]
  <2> HIDE DEF new, off
  <2> QED
    BY <1>3, PageType
<1>5. Append(pg.ptrs, ptr) \in Seq(TuplePtr)
  BY PageType
<1>6. q = [pg EXCEPT !.free_end = off, !.ptrs = Append(pg.ptrs, ptr), !.tuples = pg.tuples \cup new]
  BY Zenon DEF Moved, HeapPage
<1>7. \A e \in Offset, s \in Seq(TuplePtr), T \in SUBSET [off : Offset, tup : Tuple] :
        [pg EXCEPT !.free_end = e, !.ptrs = s, !.tuples = T] \in HeapPage
  BY Zenon DEF HeapPage
<1> HIDE DEF q, new, off
<1>8. q \in HeapPage
  BY <1>1, <1>4, <1>5, <1>6, <1>7, Zenon
<1>9. q.free_end = off /\ q.ptrs = Append(pg.ptrs, ptr)
  BY <1>6, SMTT(30) DEF HeapPage
<1> QED
  BY <1>8, <1>9 DEF q, off

\* A tuple that has room keeps the page that defragment fills packed.
LEMMA MovedPacked ==
  ASSUME NEW temp \in HeapPage, NEW pg, Packed(pg), NEW ptr \in TuplePtr,
         ptr.size <= pg.free_end
  PROVE  /\ Packed(Moved(temp, pg, ptr))
         /\ Moved(temp, pg, ptr).free_end = pg.free_end - ptr.size
<1>1. pg \in HeapPage /\ ptr.size \in Nat
  BY Offsets DEF Packed, TuplePtr
<1> DEFINE q == Moved(temp, pg, ptr)
           n == Len(pg.ptrs)
<1>2. q \in HeapPage /\ q.free_end = pg.free_end - ptr.size /\ q.ptrs = Append(pg.ptrs, ptr)
  BY <1>1, MovedFields
<1> HIDE DEF q
<1>3. /\ Len(q.ptrs) = n + 1 /\ q.ptrs[n + 1] = ptr
      /\ \A i \in 1 .. n : q.ptrs[i] = pg.ptrs[i]
  BY <1>1, <1>2, PageType
<1>4. Extends(q, pg, ptr.size)
  BY <1>2, <1>3 DEF Extends
<1> QED
  BY <1>1, <1>2, <1>4, ExtendsPacked DEF q

-----------------------------------------------------------------------------
(* The inductive invariant. *)

\* The program counters of a call that holds the latch
Holding == {"add", "dir", "insert", "remove"}

IsCall(c) == DOMAIN c = {"pc", "tup", "pid", "page", "n"}

\* The types, without those of pages that defragment wrote
Shapes ==
  /\ file = [p \in UserPage |-> file[p]]
  /\ dir \in [UserPage -> Entry]
  /\ latch \in Thread \cup {NoThread}
  /\ call = [t \in Thread |-> call[t]]
  /\ \A t \in Thread : IsCall(call[t])
  /\ where = [u \in Tuple |-> where[u]]
  /\ \A u \in Tuple : where[u] # NoRid => where[u].pid \in UserPage

Latched == \A t \in Thread : latch = t <=> call[t].pc \in Holding

\* What call c has read is still so, unless its page was rewritten.
CallSound(c) ==
  /\ c.pc # "idle" => c.pid \in UserPage
  /\ c.pc \in {"add", "dir", "insert"} =>
       c.pid = START_USER_PAGE /\ c.tup \in Tuple /\ where[c.tup] = NoRid
  /\ c.pc = "remove" =>
       c.tup \in Tuple \ removed /\ where[c.tup] # NoRid /\ c.pid = where[c.tup].pid
  /\ c.pc = "insert" => c.n \in Offset
  /\ c.pid \notin rewritten =>
       /\ c.pc \in {"add", "remove"} => file[c.pid] # NoPage /\ c.page = file[c.pid]
       /\ c.pc \in {"dir", "insert"} =>
            Sound(c.page) /\ ~NoRoom(c.page, c.tup) /\ file[c.pid] = Added(c.page, c.tup)
       /\ c.pc = "dir" => dir[c.pid] = c.page.free_end + 1
       /\ c.pc = "insert" => c.n = c.page.free_end + 1

CallsSound == \A t \in Thread : CallSound(call[t])

\* A call that has written page p and not yet its directory entry
Updating(p) == \E t \in Thread : call[t].pc \in {"dir", "insert"} /\ call[t].pid = p

FreeSpace(p) == IF file[p] = NoPage THEN PAGE_SIZE ELSE file[p].free_end + 1

Directory ==
  /\ \A p \in UserPage :
       dir[p] = Absent => p = START_USER_PAGE /\ \E t \in Thread : call[t].pc = "insert"
  /\ \A p \in UserPage \ rewritten : ~Updating(p) => dir[p] = FreeSpace(p)

Pages == \A p \in UserPage \ rewritten : file[p] # NoPage => Sound(file[p])

Placed(u) ==
  IF where[u] = NoRid THEN u \notin removed
  ELSE where[u].pid \notin rewritten =>
         /\ file[where[u].pid] # NoPage
         /\ Holds(file[where[u].pid], where[u].slot, u, removed)

Places == \A u \in Tuple : Placed(u)

Body == Shapes /\ Latched /\ CallsSound /\ Directory /\ Pages /\ Places

IInv == Ok => Body

-----------------------------------------------------------------------------
(* The steps. *)

\* The heap file starts in a sound state.
LEMMA InitBody == Init => Body
<1> SUFFICES ASSUME Init
             PROVE  Body
  OBVIOUS
<1> USE DEF Init
<1>1. PAGE_SIZE \in Offset /\ PAGE_SIZE # Absent
  BY Sizes, Offsets, NothingAssumption
<1>2. \A t \in Thread : call[t] = Idle /\ call[t].pc = "idle"
  BY DEF Idle
<1>3. Shapes
  <2>1. \A t \in Thread : IsCall(call[t])
    BY <1>2 DEF IsCall, Idle
  <2>2. dir \in [UserPage -> Entry]
    BY <1>1 DEF Entry
  <2> QED
    BY <2>1, <2>2 DEF Shapes
<1>4. Latched
  BY <1>2, NamesAssumption DEF Latched, Holding
<1>5. CallsSound
  BY <1>2 DEF CallsSound, CallSound
<1>6. \A p \in UserPage : file[p] \in {EmptyPage, NoPage}
  OBVIOUS
<1>7. Directory
  <2>1. \A p \in UserPage : FreeSpace(p) = PAGE_SIZE
    BY <1>6, Sizes DEF FreeSpace, EmptyPage
  <2> QED
    BY <1>1, <2>1 DEF Directory
<1>8. Pages
  BY <1>6, EmptySound DEF Pages
<1>9. Places
  BY DEF Places, Placed
<1> QED
  BY <1>3, <1>4, <1>5, <1>7, <1>8, <1>9 DEF Body

\* A step that only moves thread t to call c, which has not written the page
LEMMA CallStep ==
  ASSUME Body, NEW t \in Thread, NEW c,
         call' = [call EXCEPT ![t] = c],
         UNCHANGED <<file, dir, where, removed, rewritten>>,
         latch' \in Thread \cup {NoThread},
         IsCall(c), CallSound(c), Latched',
         call[t].pc \notin {"dir", "insert"}, c.pc \notin {"dir", "insert"}
  PROVE  Body'
<1>1. \A x \in Thread : call'[x] = IF x = t THEN c ELSE call[x]
  BY DEF Body, Shapes
<1>2. Shapes'
  <2>1. call' = [x \in Thread |-> call'[x]]
    BY DEF Body, Shapes
  <2>2. \A x \in Thread : IsCall(call'[x])
    BY <1>1, Zenon DEF Body, Shapes
  <2> QED
    BY <2>1, <2>2 DEF Body, Shapes, IsCall
<1>3. CallsSound'
  BY <1>1 DEF Body, CallsSound, CallSound
<1>4. Directory'
  <2>1. \A p \in UserPage : Updating(p)' <=> Updating(p)
    BY <1>1 DEF Updating
  <2>2. \A p \in UserPage : FreeSpace(p)' = FreeSpace(p)
    BY DEF FreeSpace
  <2>3. (\E x \in Thread : call[x].pc = "insert") => \E x \in Thread : call'[x].pc = "insert"
    BY <1>1
  <2> QED
    BY <2>1, <2>2, <2>3 DEF Body, Directory
<1>5. Pages' /\ Places'
  BY DEF Body, Pages, Places, Placed
<1> QED
  BY <1>2, <1>3, <1>4, <1>5 DEF Body

\* find_spacious_page only misses the first page, while its entry is replaced.
LEMMA SpaciousPage ==
  ASSUME Body
  PROVE  /\ find_spacious_page # 0 => find_spacious_page \in UserPage
         /\ latch = NoThread => find_spacious_page = START_USER_PAGE
<1> DEFINE known == {p \in UserPage : dir[p] # Absent}
<1>1. UserPage = 2 .. MAX_PAGES - 1 /\ MAX_PAGES \in Nat /\ MAX_PAGES > 2
  BY SizesAssumption DEF UserPage, START_USER_PAGE
<1>2. CASE dir[2] # Absent
  <2>1. known \subseteq UserPage /\ 2 \in known /\ \A q \in known : 2 <= q
    BY <1>1, <1>2
  <2>2. find_spacious_page = 2
    BY <1>1, <2>1 DEF find_spacious_page
  <2> QED
    BY <1>1, <2>2 DEF START_USER_PAGE
<1>3. CASE dir[2] = Absent
  <2>1. known = 3 .. MAX_PAGES - 1
    BY <1>1 , <1>3 DEF Body, Directory, START_USER_PAGE
  <2>2. known # {} => 3 \in known /\ \A q \in known : 3 <= q
    BY <1>1, <2>1
  <2>3. find_spacious_page = IF known = {} THEN 0 ELSE 3
    BY <1>1, <2>1, <2>2, SMTT(30) DEF find_spacious_page
  <2>4. latch # NoThread
    BY <1>1, <1>3, NamesAssumption DEF Body, Directory, Latched, Holding
  <2> QED
    BY <1>1, <2>1, <2>2, <2>3, <2>4
<1> QED
  BY <1>2, <1>3

\* The steps that only take or give back the latch or read a page.
LEMMA ReadingSteps ==
  ASSUME Body, Ok', NEW t \in Thread,
         \/ NewFind(t)
         \/ \E u \in Tuple : AddRead(t, u) \/ RemoveRead(t, u)
         \/ \E p \in UserPage : DefragmentHeader(t, p)
         \/ AddReject(t)
         \/ DefragmentRead(t)
  PROVE  Body'
<1>1. IsCall(Idle) /\ Idle.pc = "idle" /\ Idle.pid = 0
  BY DEF IsCall, Idle
<1>2. t # NoThread
  BY NamesAssumption
<1>3. DOMAIN call = Thread /\ \A x \in Thread : IsCall(call[x]) /\ CallSound(call[x])
  BY DEF Body, Shapes, CallsSound
<1>4. ASSUME NewFind(t)
      PROVE  Body'
  <2> DEFINE c == [Idle EXCEPT !.pc = "new", !.pid = find_spacious_page]
  <2>1. IsCall(c) /\ c.pc = "new" /\ c.pid = find_spacious_page
    BY DEF Idle, IsCall
  <2>2. c.pid \in UserPage
    BY <1>4, <2>1, SpaciousPage DEF NewFind
  <2>3. /\ call' = [call EXCEPT ![t] = c] /\ call[t].pc = "idle"
        /\ UNCHANGED <<file, dir, latch, where, removed, rewritten>>
    BY <1>1, <1>4, Zenon DEF NewFind, Starts, Goes
  <2> HIDE DEF c
  <2>4. CallSound(c)
    BY <2>1, <2>2, Zenon DEF CallSound
  <2>5. Latched'
    BY <1>3, <2>1, <2>3, SMTT(30) DEF Body, Latched, Holding
  <2> QED
    BY <2>1, <2>3, <2>4, <2>5, CallStep DEF Body, Shapes
<1>5. ASSUME NEW u \in Tuple, AddRead(t, u)
      PROVE  Body'
  <2> DEFINE p == find_spacious_page
             c == [Idle EXCEPT !.pc = "add", !.tup = u, !.pid = p, !.page = file[p]]
  <2>1. /\ IsCall(c) /\ c.pc = "add" /\ c.tup = u /\ c.pid = p /\ c.page = file[p]
    BY DEF Idle, IsCall
  <2>2. latch = NoThread /\ where[u] = NoRid /\ call[t].pc = "idle"
    BY <1>1, <1>5, Zenon DEF AddRead, Starts
  <2>3. p = START_USER_PAGE /\ p \in UserPage
    BY <2>2, SpaciousPage, SizesAssumption, SMTT(30) DEF UserPage, START_USER_PAGE
  <2>4. /\ file[p] # NoPage /\ latch' = t /\ call' = [call EXCEPT ![t] = c]
        /\ UNCHANGED <<file, dir, where, removed, rewritten>>
    BY <1>5, ZenonT(30) DEF AddRead, Goes, Exits, Ok
  <2> HIDE DEF c, p
  <2>5. CallSound(c)
    BY <2>1, <2>2, <2>3, <2>4, Zenon DEF CallSound
  <2>6. Latched'
    BY <1>2, <1>3, <2>1, <2>2, <2>4, NamesAssumption, SMTT(30) DEF Body, Latched, Holding
  <2> QED
    BY <2>1, <2>2, <2>4, <2>5, <2>6, CallStep, Zenon
<1>6. ASSUME NEW u \in Tuple, RemoveRead(t, u)
      PROVE  Body'
  <2> DEFINE p == where[u].pid
             c == [Idle EXCEPT !.pc = "remove", !.tup = u, !.pid = p, !.page = file[p]]
  <2>1. /\ IsCall(c) /\ c.pc = "remove" /\ c.tup = u /\ c.pid = p /\ c.page = file[p]
    BY DEF Idle, IsCall
  <2>2. latch = NoThread /\ where[u] # NoRid /\ u \notin removed /\ call[t].pc = "idle"
    BY <1>1, <1>6, Zenon DEF RemoveRead, Starts
  <2>3. p \in UserPage /\ (p \notin rewritten => file[p] # NoPage)
    BY <2>2, SMTT(30) DEF Body, Shapes, Places, Placed
  <2>4. /\ latch' = t /\ call' = [call EXCEPT ![t] = c]
        /\ UNCHANGED <<file, dir, where, removed, rewritten>>
    BY <1>6, Zenon DEF RemoveRead, Goes
  <2>5. CallSound(c)
    BY <2>1, <2>2, <2>3 DEF CallSound
  <2> HIDE DEF c, p
  <2>6. Latched'
    BY <1>2, <1>3, <2>1, <2>2, <2>4, NamesAssumption DEF Body, Latched, Holding
  <2> QED
    BY <2>1, <2>2, <2>4, <2>5, <2>6, CallStep, Zenon
<1>7. ASSUME NEW p \in UserPage, DefragmentHeader(t, p)
      PROVE  Body'
  <2> DEFINE c == [Idle EXCEPT !.pc = "header", !.pid = p, !.n = Len(file[p].ptrs)]
  <2>1. IsCall(c) /\ c.pc = "header" /\ c.pid = p
    BY SMTT(30) DEF Idle, IsCall
  <2>2. /\ call' = [call EXCEPT ![t] = c] /\ call[t].pc = "idle"
        /\ UNCHANGED <<file, dir, latch, where, removed, rewritten>>
    BY <1>1, <1>7, Zenon DEF DefragmentHeader, Starts, Goes
  <2> HIDE DEF c
  <2>3. CallSound(c)
    BY <2>1, Zenon DEF CallSound
  <2>4. Latched'
    BY <1>3, <2>1, <2>2 DEF Body, Latched, Holding
  <2> QED
    BY <2>1, <2>2, <2>3, <2>4, CallStep DEF Body, Shapes
<1>8. ASSUME AddReject(t)
      PROVE  Body'
  <2>1. /\ call' = [call EXCEPT ![t] = Idle] /\ call[t].pc = "add" /\ latch' = NoThread
        /\ UNCHANGED <<file, dir, where, removed, rewritten>>
    BY <1>8, Zenon DEF AddReject, At, Goes
  <2>2. CallSound(Idle)
    BY <1>1, Zenon DEF CallSound
  <2>3. Latched'
    BY <1>1, <1>3, <2>1, NamesAssumption, Zenon DEF Body, Latched, Holding
  <2> QED
    BY <1>1, <2>1, <2>2, <2>3, CallStep, Zenon
<1>9. ASSUME DefragmentRead(t)
      PROVE  Body'
  <2> DEFINE c == [call[t] EXCEPT !.pc = "copy", !.page = file[call[t].pid]]
  <2>1. IsCall(c) /\ c.pc = "copy" /\ c.pid = call[t].pid
    BY <1>3 DEF IsCall
  <2>2. /\ call' = [call EXCEPT ![t] = c] /\ call[t].pc = "header"
        /\ UNCHANGED <<file, dir, latch, where, removed, rewritten>>
    BY <1>9, SMTT(30) DEF DefragmentRead, At, Goes
  <2> HIDE DEF c
  <2>3. CallSound(c)
    BY <1>3, <2>1, <2>2, Zenon DEF CallSound
  <2>4. Latched'
    BY <1>3, <2>1, <2>2, Zenon DEF Body, Latched, Holding
  <2> QED
    BY <2>1, <2>2, <2>3, <2>4, CallStep, SMTT(30) DEF Body, Shapes
<1> QED
  BY <1>4, <1>5, <1>6, <1>7, <1>8, <1>9

\* While thread t holds the latch no other does.
LEMMA Alone ==
  ASSUME Body, NEW t \in Thread, call[t].pc \in Holding
  PROVE  \A x \in Thread : x # t => call[x].pc \notin Holding
BY DEF Body, Latched

\* A step of thread t that ends in call c keeps the shape of the calls, and
\* what it may write keeps the shape of the file and the record ids.
LEMMA ShapesStep ==
  ASSUME Body, NEW t \in Thread, NEW c, IsCall(c), call' = [call EXCEPT ![t] = c],
         NEW p \in UserPage, NEW pg,
         file' = file \/ file' = [file EXCEPT ![p] = pg],
         dir' \in [UserPage -> Entry], latch' \in Thread \cup {NoThread},
         UNCHANGED where
  PROVE  /\ Shapes'
         /\ \A x \in Thread : call'[x] = IF x = t THEN c ELSE call[x]
         /\ \A q \in UserPage : q # p => file'[q] = file[q]
         /\ file' = [file EXCEPT ![p] = pg] => file'[p] = pg
<1>1. /\ \A x \in Thread : call'[x] = IF x = t THEN c ELSE call[x]
      /\ call' = [x \in Thread |-> call'[x]]
  BY DEF Body, Shapes
<1>2. /\ \A q \in UserPage : q # p => file'[q] = file[q]
      /\ file' = [file EXCEPT ![p] = pg] => file'[p] = pg
      /\ file' = [q \in UserPage |-> file'[q]]
  BY DEF Body, Shapes
<1>3. \A x \in Thread : IsCall(call'[x])
  BY <1>1 DEF Body, Shapes
<1> QED
  BY <1>1, <1>2, <1>3 DEF Body, Shapes, IsCall

\* new_heap_page writes a page: an empty one, or one that was in use.
LEMMA NewWriteStep ==
  ASSUME Body, NEW t \in Thread, NewWrite(t)
  PROVE  Body'
<1> DEFINE p == call[t].pid
<1>1. IsCall(Idle) /\ Idle.pc = "idle"
  BY DEF IsCall, Idle
<1>2. /\ call[t].pc = "new" /\ latch = NoThread /\ latch' = latch
      /\ file' = [file EXCEPT ![p] = EmptyPage]
      /\ rewritten' = rewritten \cup {q \in {p} : file[q] # NoPage}
      /\ call' = [call EXCEPT ![t] = Idle]
      /\ UNCHANGED <<dir, where, removed>>
  BY Zenon DEF NewWrite, At, Goes
<1>3. p \in UserPage
  BY <1>2 DEF Body, CallsSound, CallSound
<1>4. \A x \in Thread : call[x].pc \notin Holding
  BY <1>2, NamesAssumption, SMTT(30) DEF Body, Latched
<1> HIDE DEF p
<1>5. /\ Shapes'
      /\ \A x \in Thread : call'[x] = IF x = t THEN Idle ELSE call[x]
      /\ \A q \in UserPage : q # p => file'[q] = file[q]
      /\ file'[p] = EmptyPage
  BY <1>1, <1>2, <1>3, ShapesStep, Zenon DEF Body, Shapes
<1>6. \A x \in Thread : call'[x].pc \notin Holding
  BY <1>1, <1>4, <1>5 DEF Holding
<1>7. Latched'
  BY <1>2, <1>6, NamesAssumption, Zenon DEF Latched
<1>8. CallsSound'
  BY <1>1, <1>5, <1>6 DEF Body, CallsSound, CallSound, Holding
<1>9. \A q \in UserPage \ rewritten' : q \notin rewritten /\ (q = p => file[q] = NoPage)
  BY <1>2, Zenon
<1>10. Directory'
  <2>1. \A q \in UserPage : ~Updating(q) /\ dir[q] # Absent
    BY <1>4 DEF Body, Directory, Updating, Holding
  <2>2. \A q \in UserPage \ rewritten' : FreeSpace(q)' = FreeSpace(q)
    <3>1. EmptyPage.free_end + 1 = PAGE_SIZE
      BY Sizes DEF EmptyPage
    <3> QED
      BY <1>5, <1>9, <3>1 DEF FreeSpace
  <2> QED
    BY <1>2, <1>9, <2>1, <2>2, Zenon DEF Body, Directory
<1>11. Pages'
  BY <1>5, <1>9, EmptySound DEF Body, Pages
<1>12. Places'
  <2>1. ASSUME NEW u \in Tuple, where[u] # NoRid, where[u].pid \notin rewritten'
        PROVE  file'[where[u].pid] = file[where[u].pid]
    BY <1>5, <1>9, <2>1, Zenon DEF Body, Shapes, Places, Placed
  <2> QED
    BY <1>2, <2>1 DEF Body, Places, Placed
<1> QED
  BY <1>5, <1>7, <1>8, <1>10, <1>11, <1>12 DEF Body

\* add_tuple writes its copy of the page with the tuple.
LEMMA AddWriteStep ==
  ASSUME Body, Ok', NEW t \in Thread, AddWrite(t)
  PROVE  Body'
<1>0. PICK c, p, u, d :
        c = call[t] /\ p = c.pid /\ u = c.tup /\ d = [c EXCEPT !.pc = "dir"]
  BY Zenon
<1>1. /\ c.pc = "add" /\ ~NoRoom(c.page, u)
      /\ file' = [file EXCEPT ![p] = Added(c.page, u)]
      /\ call' = [call EXCEPT ![t] = d]
      /\ UNCHANGED <<dir, latch, where, removed, rewritten>>
  BY <1>0 DEF AddWrite, At, Goes, Ok
<1>2. /\ p \in UserPage /\ p = START_USER_PAGE /\ u \in Tuple /\ where[u] = NoRid
      /\ p \notin rewritten => file[p] # NoPage /\ c.page = file[p]
  BY <1>0, <1>1 DEF Body, CallsSound, CallSound
<1>3. IsCall(d) /\ d.pc = "dir" /\ d.pid = p /\ d.tup = u /\ d.page = c.page
  BY <1>0 DEF Body, Shapes, IsCall
<1>4. \A x \in Thread : x # t => call[x].pc \notin Holding
  BY <1>0, <1>1, Alone, Zenon DEF Holding
<1>5. p \notin rewritten => /\ Sound(c.page) /\ Sound(Added(c.page, u))
                            /\ Added(c.page, u) # NoPage
  BY <1>1, <1>2, AddedSound, NothingAssumption, Zenon DEF Body, Pages, Sound
<1>6. p \notin rewritten => dir[p] = c.page.free_end + 1
  <2>1. \A x \in Thread : call[x].pc \notin {"dir", "insert"}
    <3>1. call[t].pc = "add"
      BY <1>0, <1>1
    <3>2. \A x \in Thread : x # t => call[x].pc \notin {"dir", "insert"}
      BY <1>4 DEF Holding
    <3> QED
      BY <3>1, <3>2
  <2>2. ~Updating(p)
    BY <2>1, SMTT(30) DEF Updating
  <2> QED
    BY <1>2, <2>2 DEF Body, Directory, FreeSpace
<1>7. /\ Shapes'
      /\ \A x \in Thread : call'[x] = IF x = t THEN d ELSE call[x]
      /\ \A q \in UserPage : q # p => file'[q] = file[q]
      /\ file'[p] = Added(c.page, u)
  BY <1>1, <1>2, <1>3, ShapesStep, Zenon DEF Body, Shapes
<1>8. Latched'
  BY <1>0, <1>1, <1>3, <1>7, SMTT(30) DEF Body, Latched, Holding
<1>9. CallsSound'
  <2>1. ASSUME NEW x \in Thread, x # t
        PROVE  CallSound(call[x])'
    BY <1>4, <1>7, <2>1, Zenon DEF Body, CallsSound, CallSound, Holding
  <2>2. CallSound(d)'
    BY <1>1, <1>2, <1>3, <1>5, <1>6, <1>7, Zenon DEF CallSound
  <2> QED
    BY <1>7, <2>1, <2>2, Zenon DEF CallsSound, CallSound
<1>10. Directory'
  <2>1. \A x \in Thread : call[x].pc \in {"dir", "insert"} => x # t
    BY <1>0, <1>1
  <2>2. \A q \in UserPage : ~Updating(q)' => q # p /\ ~Updating(q)
    <3>1. Updating(p)'
      BY <1>3, <1>7 DEF Updating
    <3>2. \A q \in UserPage : Updating(q) => Updating(q)'
      BY <1>7, <2>1 DEF Updating
    <3> QED
      BY <3>1, <3>2
  <2>3. \A q \in UserPage : dir[q] # Absent
    BY <1>0, <1>1, <1>4 DEF Body, Directory, Holding
  <2>4. \A q \in UserPage : q # p => FreeSpace(q)' = FreeSpace(q)
    BY <1>7 DEF FreeSpace
  <2> QED
    BY <1>1, <2>2, <2>3, <2>4 DEF Body, Directory
<1>11. Pages'
  BY <1>1, <1>5, <1>7 DEF Body, Pages
<1>12. Places'
  <2>1. ASSUME NEW v \in Tuple, where[v] # NoRid, where[v].pid \notin rewritten
        PROVE  /\ file'[where[v].pid] # NoPage
               /\ Holds(file'[where[v].pid], where[v].slot, v, removed)
    <3>1. /\ where[v].pid \in UserPage /\ file[where[v].pid] # NoPage
          /\ Holds(file[where[v].pid], where[v].slot, v, removed)
      BY <2>1 DEF Body, Shapes, Places, Placed
    <3>2. CASE where[v].pid # p
      BY <1>7, <3>1, <3>2
    <3>3. CASE where[v].pid = p
      <4>1. Sound(c.page) /\ c.page = file[p] /\ Added(c.page, u) # NoPage
        BY <1>2, <1>5, <2>1, <3>3, SMTT(30)
      <4>2. Holds(Added(c.page, u), where[v].slot, v, removed)
        BY <1>1, <1>2, <3>1, <3>3, <4>1, AddedHolds, Zenon DEF Sound
      <4> QED
        BY <1>7, <3>3, <4>1, <4>2
    <3> QED
      BY <3>2, <3>3
  <2> QED
    BY <1>1, <2>1 DEF Body, Places, Placed
<1> QED
  BY <1>7, <1>8, <1>9, <1>10, <1>11, <1>12 DEF Body

\* update_page_dir takes the entry of the page out of the directory.
LEMMA DirRemoveStep ==
  ASSUME Body, NEW t \in Thread, DirRemove(t)
  PROVE  Body'
<1>0. PICK c, p, d : /\ c = call[t] /\ p = c.pid
                     /\ d = [c EXCEPT !.pc = "insert", !.n = dir[p]]
  BY Zenon
<1>1. /\ c.pc = "dir" /\ dir' = [dir EXCEPT ![p] = Absent]
      /\ call' = [call EXCEPT ![t] = d]
      /\ UNCHANGED <<file, latch, where, removed, rewritten>>
  BY <1>0 DEF DirRemove, At, Goes
<1>2. CallSound(c) /\ p \in UserPage /\ p = START_USER_PAGE
  BY <1>0, <1>1 DEF Body, CallsSound, CallSound
<1>3. /\ IsCall(d) /\ d.pc = "insert" /\ d.pid = p /\ d.n = dir[p]
      /\ d.tup = c.tup /\ d.page = c.page
  BY <1>0 DEF Body, Shapes, IsCall
<1>4. \A x \in Thread : x # t => call[x].pc \notin Holding
  BY <1>0, <1>1, Alone DEF Holding
<1>5. dir[p] \in Offset
  <2>1. \A x \in Thread : call[x].pc # "insert"
    BY <1>0, <1>1, <1>4 DEF Holding
  <2> QED
    BY <1>2, <2>1 DEF Body, Directory, Shapes, Entry
<1>6. dir' \in [UserPage -> Entry] /\ \A q \in UserPage : q # p => dir'[q] = dir[q]
  BY <1>1, <1>2, SMTT(30) DEF Body, Shapes, Entry
<1>7. /\ Shapes'
      /\ \A x \in Thread : call'[x] = IF x = t THEN d ELSE call[x]
  BY <1>1, <1>2, <1>3, <1>6, ShapesStep, Zenon DEF Body, Shapes
<1>8. Latched'
  BY <1>0, <1>1, <1>3, <1>7, SMTT(30) DEF Body, Latched, Holding
<1>9. CallsSound'
  <2>1. ASSUME NEW x \in Thread, x # t
        PROVE  CallSound(call[x])'
    BY <1>4, <1>7, <2>1, Zenon DEF Body, CallsSound, CallSound, Holding
  <2>2. CallSound(d)'
    BY <1>0, <1>1, <1>2, <1>3, <1>5 DEF CallSound
  <2> QED
    BY <1>7, <2>1, <2>2, Zenon DEF CallsSound, CallSound
<1>10. Directory'
  <2>1. \A q \in UserPage : ~Updating(q)' => q # p /\ ~Updating(q)
    <3>1. Updating(p)'
      BY <1>3, <1>7 DEF Updating
    <3>2. \A q \in UserPage : Updating(q) => Updating(q)'
      BY <1>0, <1>3, <1>7, Zenon DEF Updating
    <3> QED
      BY <3>1, <3>2
  <2>2. \A q \in UserPage : FreeSpace(q)' = FreeSpace(q)
    BY <1>1, Zenon DEF FreeSpace
  <2>3. \E x \in Thread : call'[x].pc = "insert"
    BY <1>3, <1>7
  <2> QED
    BY <1>1, <1>2, <1>6, <2>1, <2>2, <2>3 DEF Body, Directory
<1>11. Pages' /\ Places'
  BY <1>1 DEF Body, Pages, Places, Placed
<1> QED
  BY <1>7, <1>8, <1>9, <1>10, <1>11 DEF Body

\* The free space that update_page_dir computes
LEMMA LeftSpace ==
  ASSUME NEW n \in Offset, NEW u \in Tuple
  PROVE  /\ Left(n, u) \in Offset
         /\ n - TupleSize[u] >= 0 => Left(n, u) = n - TupleSize[u]
<1>1. n \in Nat /\ n <= UINT16_MAX /\ TupleSize[u] \in Nat
  BY Offsets, Sizes
<1>2. \A k \in Int : /\ k % (UINT16_MAX + 1) \in Nat /\ k % (UINT16_MAX + 1) <= UINT16_MAX
                     /\ k >= 0 /\ k <= UINT16_MAX => k % (UINT16_MAX + 1) = k
  BY SMT DEF UINT16_MAX
<1>3. n - TupleSize[u] \in Int /\ n - TupleSize[u] <= UINT16_MAX
  BY <1>1, Offsets
<1> QED
  BY <1>2, <1>3, Offsets, Zenon DEF Left, uint16

\* update_page_dir enters the free space, and add_tuple returns.
LEMMA AddReturnStep ==
  ASSUME Body, NEW t \in Thread, AddReturn(t)
  PROVE  Body'
<1>0. PICK c, p, u, rid, left :
        /\ c = call[t] /\ p = c.pid /\ u = c.tup
        /\ rid = [pid |-> p, slot |-> NextSlot(c.page)] /\ left = Left(c.n, u)
  BY Zenon
<1>1. /\ c.pc = "insert" /\ dir' = [dir EXCEPT ![p] = left]
      /\ where' = [where EXCEPT ![u] = rid]
      /\ latch' = NoThread /\ call' = [call EXCEPT ![t] = Idle]
      /\ UNCHANGED <<file, removed, rewritten>>
  BY <1>0 DEF AddReturn, At, Goes
<1>2. /\ CallSound(c) /\ p \in UserPage /\ p = START_USER_PAGE
      /\ u \in Tuple /\ where[u] = NoRid /\ c.n \in Offset
  BY <1>0, <1>1, Zenon DEF Body, CallsSound, CallSound
<1>3. u \notin removed
  BY <1>2, Zenon DEF Body, Places, Placed
<1>4. rid.pid = p /\ rid.slot = NextSlot(c.page) /\ left \in Offset
  BY <1>0, <1>2, LeftSpace, SMTT(30)
<1>5. ASSUME p \notin rewritten
      PROVE  /\ c.page \in HeapPage /\ ~NoRoom(c.page, u) /\ file[p] = Added(c.page, u)
             /\ file[p] # NoPage /\ left = file[p].free_end + 1
  <2>1. /\ c.page \in HeapPage /\ ~NoRoom(c.page, u) /\ file[p] = Added(c.page, u)
        /\ c.n = c.page.free_end + 1
    BY <1>0, <1>1, <1>2, <1>5, Zenon DEF CallSound, Sound
  <2>2. /\ file[p] \in HeapPage /\ file[p].free_end = c.page.free_end - TupleSize[u]
        /\ c.page.free_end \in Nat /\ file[p].free_end \in Nat /\ TupleSize[u] \in Nat
    <3>1. file[p] \in HeapPage /\ file[p].free_end = c.page.free_end - TupleSize[u]
      <4>1. /\ Added(c.page, u) \in HeapPage
            /\ Added(c.page, u).free_end = c.page.free_end - TupleSize[u]
        BY Zenon, <1>2, <2>1, AddedFields
      <4> QED
        BY Zenon, <2>1, <4>1
    <3>2. c.page.free_end \in Offset /\ file[p].free_end \in Offset
      BY <2>1, <3>1, PageType
    <3> QED
      BY <1>2, <3>1, <3>2, Offsets, Sizes
  <2>3. c.n - TupleSize[u] = file[p].free_end + 1
    BY <2>1, <2>2
  <2>4. c.n - TupleSize[u] >= 0
    BY <2>2, <2>3, SMTT(30)
  <2>5. left = c.n - TupleSize[u]
    BY <1>0, <1>2, <2>4, LeftSpace
  <2> QED
    BY <2>1, <2>2, <2>3, <2>5, NothingAssumption, SMTT(30)
<1>6. \A x \in Thread : x # t => call[x].pc \notin Holding
  BY <1>0, <1>1, Alone DEF Holding
<1>7. IsCall(Idle) /\ Idle.pc = "idle"
  BY DEF IsCall, Idle
<1>8. \A x \in Thread : call'[x] = IF x = t THEN Idle ELSE call[x]
  BY <1>1 DEF Body, Shapes
<1>9. \A x \in Thread : call'[x].pc \notin Holding
  BY <1>6, <1>7, <1>8 DEF Holding
<1>10. \A v \in Tuple : where'[v] = IF v = u THEN rid ELSE where[v]
  BY <1>1 DEF Body, Shapes
<1>11. /\ dir' \in [UserPage -> Entry] /\ dir'[p] = left
       /\ \A q \in UserPage : q # p => dir'[q] = dir[q]
  BY <1>1, <1>2, <1>4 DEF Body, Shapes, Entry
<1>12. Shapes'
  <2>1. call' = [x \in Thread |-> call'[x]] /\ where' = [v \in Tuple |-> where'[v]]
    BY <1>1 DEF Body, Shapes
  <2>2. \A x \in Thread : IsCall(call'[x])
    BY <1>7, <1>8 DEF Body, Shapes
  <2>3. \A v \in Tuple : where'[v] # NoRid => where'[v].pid \in UserPage
    BY <1>2, <1>4, <1>10 DEF Body, Shapes
  <2> QED
    BY <1>1, <1>11, <2>1, <2>2, <2>3, Zenon DEF Body, Shapes, IsCall
<1>13. Latched'
  BY <1>1, <1>9, NamesAssumption, SMTT(30) DEF Latched
<1>14. CallsSound'
  BY <1>7, <1>8, <1>9, Zenon DEF Body, CallsSound, CallSound, Holding
<1>15. Directory'
  <2>1. \A q \in UserPage : q # p => ~Updating(q)
    BY <1>0, <1>6, Zenon DEF Updating, Holding
  <2>2. \A q \in UserPage : FreeSpace(q)' = FreeSpace(q)
    BY <1>1, Zenon DEF FreeSpace
  <2>3. p \notin rewritten => dir'[p] = FreeSpace(p)
    BY <1>5, <1>11, Zenon DEF FreeSpace
  <2>4. \A q \in UserPage : dir'[q] # Absent
    BY <1>2, <1>4, <1>11, NothingAssumption DEF Body, Directory
  <2> QED
    BY <1>1, <1>11, <2>1, <2>2, <2>3, <2>4, Zenon DEF Body, Directory
<1>16. Pages'
  BY <1>1 DEF Body, Pages
<1>17. Places'
  <2>1. ASSUME NEW v \in Tuple, v # u
        PROVE  Placed(v)'
    BY <1>1, <1>10, <2>1, SMTT(30) DEF Body, Places, Placed
  <2>2. Placed(u)'
    <3>1. p \notin rewritten => Holds(file[p], NextSlot(c.page), u, removed)
      BY <1>2, <1>3, <1>5, AddedHolds, Zenon
    <3> QED
      BY <1>1, <1>2, <1>3, <1>4, <1>5, <1>10, <3>1, SMTT(30) DEF Placed
  <2> QED
    BY <2>1, <2>2, Zenon DEF Places
<1> QED
  BY <1>12, <1>13, <1>14, <1>15, <1>16, <1>17 DEF Body

\* remove_tuple writes its copy of the page with the tuple marked.
LEMMA RemoveWriteStep ==
  ASSUME Body, NEW t \in Thread, RemoveWrite(t)
  PROVE  Body'
<1>0. PICK c, p, u, slot : c = call[t] /\ p = c.pid /\ u = c.tup /\ slot = where[u].slot
  BY Zenon
<1>1. /\ c.pc = "remove" /\ file' = [file EXCEPT ![p] = Marked(c.page, slot)]
      /\ removed' = removed \cup {u}
      /\ latch' = NoThread /\ call' = [call EXCEPT ![t] = Idle]
      /\ UNCHANGED <<dir, where, rewritten>>
  BY <1>0, SMTT(30) DEF RemoveWrite, At, Goes
<1>2. /\ p \in UserPage /\ u \in Tuple /\ u \notin removed
      /\ where[u] # NoRid /\ where[u].pid = p
      /\ p \notin rewritten => file[p] # NoPage /\ c.page = file[p]
  BY <1>0, <1>1, Zenon DEF Body, CallsSound, CallSound
<1>3. ASSUME p \notin rewritten
      PROVE  /\ Sound(file[p]) /\ Sound(Marked(c.page, slot))
             /\ Marked(c.page, slot) # NoPage
             /\ Marked(c.page, slot).free_end = file[p].free_end
             /\ Holds(file[p], slot, u, removed)
  <2>1. Sound(file[p]) /\ Holds(file[p], slot, u, removed)
    BY <1>0, <1>2, <1>3, Zenon DEF Body, Pages, Places, Placed
  <2>2. Sound(Marked(c.page, slot))
    BY <1>2, <1>3, <2>1, MarkedSound, SMTT(30)
  <2>3. file[p] \in HeapPage /\ Marked(c.page, slot) \in HeapPage
    BY <2>1, <2>2, Zenon DEF Sound
  <2>4. Marked(file[p], slot).free_end = file[p].free_end
    BY <2>3, MarkedFields, Zenon
  <2> QED
    BY <1>2, <1>3, <2>1, <2>2, <2>3, <2>4, NothingAssumption, Zenon
<1>4. \A x \in Thread : x # t => call[x].pc \notin Holding
  BY <1>0, <1>1, Alone, SMTT(30) DEF Holding
<1>5. IsCall(Idle) /\ Idle.pc = "idle"
  BY DEF IsCall, Idle
<1>6. /\ Shapes'
      /\ \A x \in Thread : call'[x] = IF x = t THEN Idle ELSE call[x]
      /\ \A q \in UserPage : q # p => file'[q] = file[q]
      /\ file'[p] = Marked(c.page, slot)
  BY <1>1, <1>2, <1>5, ShapesStep, Zenon DEF Body, Shapes
<1>7. \A x \in Thread : call'[x].pc \notin Holding
  BY <1>4, <1>5, <1>6 DEF Holding
<1>8. Latched'
  BY <1>1, <1>7, NamesAssumption, SMTT(30) DEF Latched
<1>9. CallsSound'
  BY <1>5, <1>6, <1>7, Zenon DEF Body, CallsSound, CallSound, Holding
<1>10. Directory'
  <2>1. \A x \in Thread : call[x].pc \notin {"dir", "insert"}
    <3>1. call[t].pc = "remove"
      BY <1>0, <1>1
    <3>2. \A x \in Thread : x # t => call[x].pc \notin {"dir", "insert"}
      BY <1>4 DEF Holding
    <3> QED
      BY <3>1, <3>2
  <2>2. \A q \in UserPage : ~Updating(q) /\ dir[q] # Absent
    BY <2>1, Zenon DEF Body, Directory, Updating
  <2>3. \A q \in UserPage \ rewritten : FreeSpace(q)' = FreeSpace(q)
    BY <1>2, <1>3, <1>6, Zenon DEF FreeSpace
  <2> QED
    BY <1>1, <2>2, <2>3, SMTT(30) DEF Body, Directory
<1>11. Pages'
  BY <1>1, <1>3, <1>6 DEF Body, Pages
<1>12. Places'
  <2>1. ASSUME NEW v \in Tuple, where[v] # NoRid, where[v].pid \notin rewritten
        PROVE  /\ file'[where[v].pid] # NoPage
               /\ Holds(file'[where[v].pid], where[v].slot, v, removed')
    <3>1. /\ where[v].pid \in UserPage /\ file[where[v].pid] # NoPage
          /\ Holds(file[where[v].pid], where[v].slot, v, removed)
      BY <2>1, SMTT(30) DEF Body, Shapes, Places, Placed
    <3>2. CASE where[v].pid # p
      <4>1. v # u
        BY <1>2, <3>2, Zenon
      <4> QED
        BY <1>1, <1>6, <3>1, <3>2, <4>1, Zenon DEF Holds
    <3>3. CASE where[v].pid = p
      <4>1. c.page = file[p] /\ (v = u => where[v].slot = slot)
        BY <1>0, <1>2, <2>1, <3>3, SMTT(30)
      <4>2. Holds(Marked(c.page, slot), where[v].slot, v, removed')
        BY <1>1, <1>2, <1>3, <2>1, <3>1, <3>3, <4>1, MarkedHolds, Zenon
      <4> QED
        BY <1>3, <1>6, <2>1, <3>3, <4>2
    <3> QED
      BY <3>2, <3>3
  <2>2. \A v \in Tuple : where[v] = NoRid => v \notin removed'
    BY <1>1, <1>2, Zenon DEF Body, Places, Placed
  <2> QED
    BY <1>1, <2>1, <2>2, Zenon DEF Places, Placed
<1> QED
  BY <1>6, <1>8, <1>9, <1>10, <1>11, <1>12 DEF Body

\* defragment writes a page, and nothing is claimed of it any more.
LEMMA DefragmentWriteStep ==
  ASSUME Body, Ok', NEW t \in Thread, DefragmentWrite(t)
  PROVE  Body'
<1>0. PICK c, p, pg : c = call[t] /\ p = c.pid /\ pg = Compacted(c.page, c.n)
  OBVIOUS
<1>1. /\ c.pc = "copy" /\ file' = [file EXCEPT ![p] = pg]
      /\ call' = [call EXCEPT ![t] = Idle] /\ rewritten' = rewritten \cup {p}
      /\ UNCHANGED <<dir, latch, where, removed>>
  BY <1>0, SMTT(30) DEF DefragmentWrite, At, Goes, Ok
<1>2. p \in UserPage
  BY <1>0, <1>1, Zenon DEF Body, CallsSound, CallSound
<1>3. IsCall(Idle) /\ Idle.pc = "idle"
  BY Zenon DEF IsCall, Idle
<1>4. /\ Shapes'
      /\ \A x \in Thread : call'[x] = IF x = t THEN Idle ELSE call[x]
      /\ \A q \in UserPage : q # p => file'[q] = file[q]
  BY <1>1, <1>2, <1>3, ShapesStep, Zenon DEF Body, Shapes
<1>5. Latched'
  BY <1>0, <1>1, <1>3, <1>4, Zenon DEF Body, Latched, Holding
<1>6. CallsSound'
  <2> SUFFICES ASSUME NEW x \in Thread
               PROVE  CallSound(call[x])'
    BY DEF CallsSound
  <2>1. PICK d : d = call[x] /\ CallSound(d)
    BY SMTT(30) DEF Body, CallsSound
  <2>2. CASE x = t
    <3>1. call'[x].pc = "idle"
      BY <1>3, <1>4, <2>2
    <3> QED
      BY <3>1, Zenon DEF CallSound
  <2>3. CASE x # t
    <3>1. call'[x] = d /\ (d.pid \notin rewritten' => d.pid \notin rewritten /\ d.pid # p)
      BY <1>1, <1>4, <2>1, <2>3
    <3>2. d.pid \in UserPage /\ d.pid \notin rewritten' => file'[d.pid] = file[d.pid]
      BY <1>4, <3>1
    <3> QED
      BY <1>1, <2>1, <3>1, <3>2, Zenon DEF CallSound
  <2> QED
    BY <2>2, <2>3
<1>7. Directory'
  <2>1. \A x \in Thread : call[x].pc \in {"dir", "insert"} => x # t
    BY <1>0, <1>1, SMTT(30)
  <2>2. \A q \in UserPage : Updating(q) => Updating(q)'
    BY <1>4, <2>1 DEF Updating
  <2>3. \A q \in UserPage : q # p => FreeSpace(q)' = FreeSpace(q)
    BY <1>4 DEF FreeSpace
  <2>4. (\E x \in Thread : call[x].pc = "insert") => \E x \in Thread : call'[x].pc = "insert"
    BY <1>4, <2>1
  <2> QED
    BY <1>1, <2>2, <2>3, <2>4 DEF Body, Directory
<1>8. Pages'
  BY <1>1, <1>4, SMTT(30) DEF Body, Pages
<1>9. Places'
  BY <1>1, <1>4 DEF Body, Shapes, Places, Placed
<1> QED
  BY <1>4, <1>5, <1>6, <1>7, <1>8, <1>9 DEF Body

\* Every step keeps the invariant.
LEMMA Step_IInv ==
  ASSUME IInv, [Next]_vars
  PROVE  IInv'
<1>1. CASE UNCHANGED vars
  BY <1>1, ZenonT(30) DEF vars, IInv, Ok, Body, Shapes, IsCall, Latched, CallsSound, CallSound,
              Directory, Updating, FreeSpace, Pages, Places, Placed
<1>2. ASSUME NEW t \in Thread, Ok',
             \/ NewFind(t)
             \/ \E u \in Tuple : AddRead(t, u) \/ RemoveRead(t, u)
             \/ \E p \in UserPage : DefragmentHeader(t, p)
             \/ Step(t)
      PROVE  Body'
  <2>1. Ok
    BY <1>2, Zenon DEF NewFind, AddRead, RemoveRead, DefragmentHeader, Step, NewWrite, AddReject,
                AddWrite, DirRemove, AddReturn, RemoveWrite, DefragmentRead,
                DefragmentWrite, Starts, At, Ok
  <2>2. Body
    BY <2>1 DEF IInv
  <2> QED
    BY <1>2, <2>2, ReadingSteps, NewWriteStep, AddWriteStep, DirRemoveStep, AddReturnStep,
       RemoveWriteStep, DefragmentWriteStep DEF Step
<1> QED
  BY <1>1, <1>2, SMTT(30) DEF Next, IInv

\* The inductive invariant holds of every behaviour of the heap file.
LEMMA Invariance == Spec => []IInv
<1>1. Init => IInv
  BY InitBody DEF IInv
<1> QED
  BY <1>1, Step_IInv, PTL DEF Spec

-----------------------------------------------------------------------------
(* Types. *)

\* Call c is one, and what it has read or written are packed pages of file f.
CallTyped(c, f) ==
  /\ c \in Call
  /\ c.pc # "idle" => c.pid \in UserPage
  /\ c.pc \in {"add", "dir", "insert", "remove", "copy"} => Packed(c.page)
  /\ c.pc \in {"dir", "insert", "remove", "header"} => f[c.pid] # NoPage

\* A record id is one of a page of file f.
RidTyped(r, f) == r # NoRid => f[r.pid] # NoPage

Typed ==
  /\ TypeOK
  /\ \A p \in UserPage : file[p] # NoPage => Packed(file[p])
  /\ \A t \in Thread : CallTyped(call[t], file)
  /\ \A u \in Tuple : RidTyped(where[u], file)

\* The pages that are there stay, and those that are written are packed.
Kept ==
  /\ file' \in [UserPage -> HeapPage \cup {NoPage}]
  /\ \A p \in UserPage : /\ file[p] # NoPage => file'[p] # NoPage
                         /\ file'[p] # NoPage => Packed(file'[p])

\* The state variables that no page and no call is in have their types.
RestTyped ==
  /\ dir' \in [UserPage -> Entry]
  /\ words' \in [0 .. 2 * MAX_PAGES - 1 -> Offset]
  /\ latch' \in Thread \cup {NoThread}
  /\ st' \in {"ok", "exited", "overrun", "undefined"}
  /\ removed' \subseteq Tuple
  /\ rewritten' \subseteq UserPage

\* The record ids have their type and lead to pages.
RidsTyped ==
  /\ where' \in [Tuple -> RID \cup {NoRid}]
  /\ \A u \in Tuple : RidTyped(where'[u], file')

\* A call stays as well typed when pages are written.
LEMMA CallKept ==
  ASSUME NEW c, CallTyped(c, file), Kept
  PROVE  CallTyped(c, file')
BY DEF CallTyped, Kept

\* Writing a packed page keeps the pages.
LEMMA WriteKept ==
  ASSUME Typed, NEW p \in UserPage, NEW pg, Packed(pg), file' = [file EXCEPT ![p] = pg]
  PROVE  Kept /\ file'[p] = pg /\ pg # NoPage
<1>1. file \in [UserPage -> HeapPage \cup {NoPage}]
  BY DEF Typed, TypeOK
<1>2. pg \in HeapPage /\ pg # NoPage
  BY NothingAssumption DEF Packed
<1>3. file' \in [UserPage -> HeapPage \cup {NoPage}]
  BY <1>1, <1>2
<1>4. \A q \in UserPage : file'[q] = IF q = p THEN pg ELSE file[q]
  BY <1>1
<1> QED
  BY <1>2, <1>3, <1>4 DEF Typed, Kept

\* Writing nothing keeps the pages.
LEMMA ReadKept ==
  ASSUME Typed, file' = file
  PROVE  Kept
BY DEF Typed, TypeOK, Kept

\* A step that only ends the program or adds to a history variable
LEMMA TypedStop ==
  ASSUME Typed, UNCHANGED <<file, dir, words, latch, call, where, removed>>,
         st' \in {"ok", "exited", "overrun", "undefined"}, rewritten' \subseteq UserPage
  PROVE  Typed'
BY DEF Typed, TypeOK

\* A step that takes thread t to call c
LEMMA TypedCall ==
  ASSUME Typed, NEW t \in Thread, NEW c, CallTyped(c, file'), call' = [call EXCEPT ![t] = c],
         Kept, RestTyped, RidsTyped
  PROVE  Typed'
<1>1. /\ call \in [Thread -> Call]
      /\ \A x \in Thread : CallTyped(call[x], file)
  BY DEF Typed, TypeOK
<1>2. c \in Call
  BY DEF CallTyped
<1>3. call' \in [Thread -> Call]
  BY <1>1, <1>2
<1>4. ASSUME NEW x \in Thread
      PROVE  CallTyped(call'[x], file')
  <2>1. call'[x] = IF x = t THEN c ELSE call[x]
    BY <1>1
  <2>2. CallTyped(call[x], file')
    BY <1>1, CallKept
  <2> QED
    BY <2>1, <2>2
<1>5. \A p \in UserPage : file'[p] # NoPage => Packed(file'[p])
  BY Zenon DEF Kept
<1>6. TypeOK'
  BY <1>3, Zenon DEF TypeOK, Kept, RestTyped, RidsTyped
<1> QED
  BY <1>4, <1>5, <1>6 DEF Typed, RidsTyped

\* Record ids lead to pages as long as these are kept.
LEMMA RidsKept ==
  ASSUME Typed, Kept, UNCHANGED where
  PROVE  RidsTyped
<1>1. where \in [Tuple -> RID \cup {NoRid}] /\ \A u \in Tuple : RidTyped(where[u], file)
  BY DEF Typed, TypeOK
<1>2. \A u \in Tuple : where[u] # NoRid => where[u].pid \in UserPage
  BY <1>1 DEF RID
<1> QED
  BY <1>1, <1>2 DEF RidTyped, RidsTyped, Kept

\* The types of the other variables stay with them.
LEMMA RestKept ==
  ASSUME Typed, UNCHANGED <<dir, words, st, removed, rewritten>>,
         latch' \in Thread \cup {NoThread}
  PROVE  RestTyped
BY DEF Typed, TypeOK, RestTyped

\* A call that does nothing
LEMMA IdleTyped ==
  ASSUME NEW f
  PROVE  CallTyped(Idle, f) /\ Idle \in Call
<1>1. Idle \in Call
  BY DEF Idle, Call
<1>2. Idle.pc = "idle"
  BY DEF Idle
<1> QED
  BY <1>1, <1>2 DEF CallTyped

PC == {"idle", "new", "add", "dir", "insert", "remove", "header", "copy"}

\* A call stays one when a local of it is assigned.
LEMMA CallWith ==
  ASSUME NEW c \in Call
  PROVE  /\ \A x \in PC : [c EXCEPT !.pc = x] \in Call
         /\ \A x \in Tuple \cup {NoTuple} : [c EXCEPT !.tup = x] \in Call
         /\ \A x \in UserPage \cup {0} : [c EXCEPT !.pid = x] \in Call
         /\ \A x \in HeapPage \cup {NoPage} : [c EXCEPT !.page = x] \in Call
         /\ \A x \in Nat : [c EXCEPT !.n = x] \in Call
<1>1. \A x \in PC : [c EXCEPT !.pc = x] \in Call
  BY Zenon DEF Call, PC
<1>2. \A x \in Tuple \cup {NoTuple} : [c EXCEPT !.tup = x] \in Call
  BY Zenon DEF Call
<1>3. \A x \in UserPage \cup {0} : [c EXCEPT !.pid = x] \in Call
  BY Zenon DEF Call
<1>4. \A x \in HeapPage \cup {NoPage} : [c EXCEPT !.page = x] \in Call
  BY Zenon DEF Call
<1>5. \A x \in Nat : [c EXCEPT !.n = x] \in Call
  BY Zenon DEF Call
<1> QED
  BY <1>1, <1>2, <1>3, <1>4, <1>5

\* Reading steps keep the types.
LEMMA ReadingTyped ==
  ASSUME Typed, Body, NEW t \in Thread,
         \/ NewFind(t)
         \/ \E u \in Tuple : AddRead(t, u) \/ RemoveRead(t, u)
         \/ \E p \in UserPage : DefragmentHeader(t, p)
         \/ AddReject(t)
         \/ DefragmentRead(t)
  PROVE  Typed'
<1>1. /\ "new" \in PC /\ "add" \in PC /\ "remove" \in PC /\ "header" \in PC /\ "copy" \in PC
      /\ \A u \in Tuple : u \in Tuple \cup {NoTuple}
      /\ \A p \in UserPage : p \in UserPage \cup {0}
  BY DEF PC
<1>2. Idle \in Call
  BY IdleTyped
<1>3. /\ \A p \in UserPage : /\ file[p] \in HeapPage \cup {NoPage}
                             /\ file[p] # NoPage => Packed(file[p])
      /\ \A x \in Thread : CallTyped(call[x], file)
      /\ \A u \in Tuple : RidTyped(where[u], file) /\ where[u] \in RID \cup {NoRid}
      /\ latch \in Thread \cup {NoThread}
  BY SMTT(30) DEF Typed, TypeOK
<1>4. ASSUME NewFind(t)
      PROVE  Typed'
  <2> DEFINE c == [Idle EXCEPT !.pc = "new", !.pid = find_spacious_page]
  <2>1. find_spacious_page \in UserPage
    BY <1>4, SpaciousPage DEF NewFind
  <2>2. c \in Call
    <3>1. [Idle EXCEPT !.pc = "new"] \in Call
      BY <1>1, <1>2, CallWith
    <3> QED
      BY <1>1, <2>1, <3>1, CallWith, ZenonT(30)
  <2>3. c.pc = "new" /\ c.pid = find_spacious_page
    BY DEF Idle
  <2>4. /\ call' = [call EXCEPT ![t] = c]
        /\ UNCHANGED <<file, dir, words, latch, st, where, removed, rewritten>>
    BY <1>4, Zenon DEF NewFind, Goes
  <2> HIDE DEF c
  <2>5. CallTyped(c, file')
    BY <2>1, <2>2, <2>3 DEF CallTyped
  <2> QED
    BY <1>3, <2>4, <2>5, ReadKept, RestKept, RidsKept, TypedCall, Zenon
<1>5. ASSUME NEW u \in Tuple, AddRead(t, u)
      PROVE  Typed'
  <2> DEFINE p == find_spacious_page
             c == [Idle EXCEPT !.pc = "add", !.tup = u, !.pid = p, !.page = file[p]]
  <2>1. latch = NoThread
    BY <1>5, Zenon DEF AddRead
  <2>2. p \in UserPage
    BY <2>1, SpaciousPage, SizesAssumption, SMTT(30) DEF UserPage, START_USER_PAGE
  <2>3. c.pc = "add" /\ c.pid = p /\ c.page = file[p]
    BY DEF Idle
  <2>4. c \in Call
    <3> HIDE DEF p
    <3>1. [Idle EXCEPT !.pc = "add"] \in Call
      BY <1>1, <1>2, CallWith
    <3>2. [Idle EXCEPT !.pc = "add", !.tup = u] \in Call
      BY <1>1, <3>1, CallWith, Zenon
    <3>3. [Idle EXCEPT !.pc = "add", !.tup = u, !.pid = p] \in Call
      BY <1>1, <2>2, <3>2, CallWith, ZenonT(30)
    <3> QED
      BY <1>3, <2>2, <3>3, CallWith, Zenon
  <2>5. CASE file[p] = NoPage
    BY <1>5, <2>5, TypedStop DEF AddRead, Exits, Typed, TypeOK
  <2>6. CASE file[p] # NoPage
    <3>1. /\ call' = [call EXCEPT ![t] = c] /\ latch' = t
          /\ UNCHANGED <<file, dir, words, st, where, removed, rewritten>>
      BY <1>5, <2>6, ZenonT(30) DEF AddRead, Goes
    <3> HIDE DEF c, p
    <3>2. CallTyped(c, file')
      BY <1>3, <2>2, <2>3, <2>4, <2>6, <3>1, ZenonT(30) DEF CallTyped
    <3> QED
      BY <1>3, <3>1, <3>2, ReadKept, RestKept, RidsKept, TypedCall, Zenon
  <2> QED
    BY <2>5, <2>6
<1>6. ASSUME NEW u \in Tuple, RemoveRead(t, u)
      PROVE  Typed'
  <2> DEFINE p == where[u].pid
             c == [Idle EXCEPT !.pc = "remove", !.tup = u, !.pid = p, !.page = file[p]]
  <2>1. where[u] # NoRid
    BY <1>6, ZenonT(30) DEF RemoveRead
  <2>2. p \in UserPage /\ file[p] # NoPage
    BY <1>3, <2>1 DEF RID, RidTyped
  <2>3. c.pc = "remove" /\ c.pid = p /\ c.page = file[p]
    BY DEF Idle
  <2>4. c \in Call
    <3> HIDE DEF p
    <3>1. [Idle EXCEPT !.pc = "remove"] \in Call
      BY <1>1, <1>2, CallWith
    <3>2. [Idle EXCEPT !.pc = "remove", !.tup = u] \in Call
      BY <1>1, <3>1, CallWith, Zenon
    <3>3. [Idle EXCEPT !.pc = "remove", !.tup = u, !.pid = p] \in Call
      BY <1>1, <2>2, <3>2, CallWith, ZenonT(30)
    <3> QED
      BY <1>3, <2>2, <3>3, CallWith, Zenon
  <2>5. /\ call' = [call EXCEPT ![t] = c] /\ latch' = t
        /\ UNCHANGED <<file, dir, words, st, where, removed, rewritten>>
    BY <1>6, Zenon DEF RemoveRead, Goes
  <2> HIDE DEF c, p
  <2>6. CallTyped(c, file')
    BY <1>3, <2>2, <2>3, <2>4, <2>5, ZenonT(30) DEF CallTyped
  <2> QED
    BY <1>3, <2>5, <2>6, ReadKept, RestKept, RidsKept, TypedCall, Zenon
<1>7. ASSUME NEW p \in UserPage, DefragmentHeader(t, p)
      PROVE  Typed'
  <2> DEFINE n == Len(file[p].ptrs)
             c == [Idle EXCEPT !.pc = "header", !.pid = p, !.n = n]
  <2>1. file[p] # NoPage
    BY <1>7, Zenon DEF DefragmentHeader
  <2>2. n \in Nat
    BY <1>3, <2>1, PageType, Zenon
  <2>3. c.pc = "header" /\ c.pid = p
    BY SMTT(30) DEF Idle
  <2>4. c \in Call
    <3> HIDE DEF n
    <3>1. [Idle EXCEPT !.pc = "header"] \in Call
      BY <1>1, <1>2, CallWith
    <3>2. [Idle EXCEPT !.pc = "header", !.pid = p] \in Call
      BY <1>1, <3>1, CallWith, Zenon
    <3> QED
      BY <2>2, <3>2, CallWith, Zenon
  <2>5. /\ call' = [call EXCEPT ![t] = c]
        /\ UNCHANGED <<file, dir, words, latch, st, where, removed, rewritten>>
    BY <1>7, Zenon DEF DefragmentHeader, Goes
  <2> HIDE DEF c, n
  <2>6. CallTyped(c, file')
    BY <2>1, <2>3, <2>4, <2>5 DEF CallTyped
  <2> QED
    BY <1>3, <2>5, <2>6, ReadKept, RestKept, RidsKept, TypedCall, ZenonT(30)
<1>8. ASSUME AddReject(t)
      PROVE  Typed'
  <2>1. /\ call' = [call EXCEPT ![t] = Idle] /\ latch' = NoThread
        /\ UNCHANGED <<file, dir, words, st, where, removed, rewritten>>
    BY <1>8 DEF AddReject, Goes
  <2> QED
    BY <2>1, IdleTyped, ReadKept, RestKept, RidsKept, TypedCall, Zenon
<1>9. ASSUME DefragmentRead(t)
      PROVE  Typed'
  <2> DEFINE p == call[t].pid
             c == [call[t] EXCEPT !.pc = "copy", !.page = file[p]]
  <2>1. call[t].pc = "header" /\ call[t] \in Call /\ p \in UserPage /\ file[p] # NoPage
    BY <1>3, <1>9 DEF DefragmentRead, At, CallTyped
  <2>2. c \in Call
    <3> HIDE DEF p
    <3>1. [call[t] EXCEPT !.pc = "copy"] \in Call
      BY <1>1, <2>1, CallWith
    <3> QED
      BY <1>3, <2>1, <3>1, CallWith, Zenon
  <2>3. c.pc = "copy" /\ c.pid = p /\ c.page = file[p]
    BY <2>1 DEF Call
  <2>4. /\ call' = [call EXCEPT ![t] = c]
        /\ UNCHANGED <<file, dir, words, latch, st, where, removed, rewritten>>
    BY <1>9 DEF DefragmentRead, Goes
  <2> HIDE DEF c, p
  <2>5. CallTyped(c, file')
    BY <1>3, <2>1, <2>2, <2>3, <2>4, Zenon DEF CallTyped
  <2> QED
    BY <1>3, <2>4, <2>5, ReadKept, RestKept, RidsKept, TypedCall, Zenon
<1> QED
  BY <1>4, <1>5, <1>6, <1>7, <1>8, <1>9

\* Writing steps keep the types.
LEMMA WritingTyped ==
  ASSUME Typed, Body, NEW t \in Thread,
         NewWrite(t) \/ AddWrite(t) \/ RemoveWrite(t)
  PROVE  Typed'
<1> DEFINE c == call[t]
           p == c.pid
<1>1. /\ CallTyped(c, file) /\ CallSound(c) /\ c \in Call
      /\ rewritten \subseteq UserPage /\ removed \subseteq Tuple /\ latch \in Thread \cup {NoThread}
      /\ dir \in [UserPage -> Entry] /\ words \in [0 .. 2 * MAX_PAGES - 1 -> Offset]
      /\ st \in {"ok", "exited", "overrun", "undefined"}
  BY Zenon DEF Typed, TypeOK, Body, CallsSound, CallTyped
<1>2. ASSUME NewWrite(t)
      PROVE  Typed'
  <2>1. /\ c.pc = "new" /\ file' = [file EXCEPT ![p] = EmptyPage]
        /\ rewritten' = rewritten \cup {q \in {p} : file[q] # NoPage}
        /\ call' = [call EXCEPT ![t] = Idle]
        /\ UNCHANGED <<dir, words, latch, st, where, removed>>
    BY <1>2 DEF NewWrite, At, Goes
  <2>2. p \in UserPage
    BY <1>1, <2>1 DEF CallTyped
  <2> HIDE DEF p
  <2>3. Kept
    BY <2>1, <2>2, EmptyPacked, WriteKept, ZenonT(30)
  <2>4. RestTyped
    BY <1>1, <2>1, <2>2 DEF RestTyped
  <2> QED
    BY <2>1, <2>3, <2>4, IdleTyped, RidsKept, TypedCall, Zenon
<1>3. ASSUME AddWrite(t)
      PROVE  Typed'
  <2>1. /\ c.pc = "add" /\ UNCHANGED <<dir, words, latch, where, removed, rewritten>>
    BY <1>3, Zenon DEF AddWrite, At
  <2>2. Packed(c.page) /\ p \in UserPage /\ c.tup \in Tuple
    BY <1>1, <2>1, Zenon DEF CallTyped, CallSound
  <2>3. CASE NoRoom(c.page, c.tup)
    <3>1. st' = "overrun" /\ UNCHANGED <<file, call>>
      BY <1>3, <2>3, Zenon DEF AddWrite
    <3> QED
      BY <1>1, <2>1, <3>1, TypedStop, Zenon
  <2>4. CASE ~NoRoom(c.page, c.tup)
    <3> DEFINE d == [c EXCEPT !.pc = "dir"]
    <3>1. /\ file' = [file EXCEPT ![p] = Added(c.page, c.tup)]
          /\ call' = [call EXCEPT ![t] = d] /\ UNCHANGED st
      BY <1>3, <2>4, Zenon DEF AddWrite, Goes
    <3>2. Packed(Added(c.page, c.tup))
      BY <2>2, <2>4, AddedPacked
    <3>3. Kept /\ file'[p] # NoPage
      BY <2>2, <3>1, <3>2, WriteKept, Zenon
    <3>4. d \in Call
      BY <1>1, CallWith, ZenonT(30) DEF PC
    <3>5. d.pc = "dir" /\ d.pid = p /\ d.page = c.page
      BY <1>1 DEF Call
    <3>6. RestTyped
      BY <1>1, <2>1, <3>1 DEF RestTyped
    <3> HIDE DEF d
    <3>7. CallTyped(d, file')
      BY <2>2, <3>3, <3>4, <3>5 DEF CallTyped
    <3> QED
      BY <2>1, <3>1, <3>3, <3>6, <3>7, RidsKept, TypedCall, Zenon
  <2> QED
    BY <2>3, <2>4
<1>4. ASSUME RemoveWrite(t)
      PROVE  Typed'
  <2> DEFINE pg == Marked(c.page, where[c.tup].slot)
  <2>1. /\ c.pc = "remove" /\ file' = [file EXCEPT ![p] = pg]
        /\ removed' = removed \cup {c.tup} /\ latch' = NoThread
        /\ call' = [call EXCEPT ![t] = Idle]
        /\ UNCHANGED <<dir, words, st, where, rewritten>>
    BY <1>4 DEF RemoveWrite, At, Goes
  <2>2. p \in UserPage /\ Packed(c.page) /\ c.tup \in Tuple
    BY <1>1, <2>1, Zenon DEF CallTyped, CallSound
  <2>3. Packed(pg)
    BY <2>2, MarkedPacked
  <2> HIDE DEF p, pg
  <2>4. Kept
    BY <2>1, <2>2, <2>3, WriteKept, Zenon
  <2>5. RestTyped
    BY <1>1, <2>1, <2>2 DEF RestTyped
  <2> QED
    BY <2>1, <2>4, <2>5, IdleTyped, RidsKept, TypedCall, Zenon
<1> QED
  BY <1>2, <1>3, <1>4, SMTT(30)

\* Page ids are natural numbers.
LEMMA UserPages == MAX_PAGES \in Nat /\ UserPage \subseteq Nat
BY SizesAssumption DEF UserPage, START_USER_PAGE

\* What encode_uint16 writes has 16 bits.
LEMMA Words == \A k \in Int : uint16(k) \in Offset
<1>1. \A k \in Int : k % (UINT16_MAX + 1) \in Nat /\ k % (UINT16_MAX + 1) <= UINT16_MAX
  BY SMT DEF UINT16_MAX
<1> QED
  BY <1>1, Offsets, Zenon DEF uint16

\* The steps of update_page_dir keep the types: the entry of the page is found.
LEMMA DirectoryTyped ==
  ASSUME Typed, Body, NEW t \in Thread, DirRemove(t) \/ AddReturn(t)
  PROVE  Typed'
<1> DEFINE c == call[t]
           p == c.pid
<1>1. /\ CallTyped(c, file) /\ CallSound(c) /\ c \in Call
      /\ rewritten \subseteq UserPage /\ removed \subseteq Tuple /\ latch \in Thread \cup {NoThread}
      /\ dir \in [UserPage -> Entry] /\ words \in [0 .. 2 * MAX_PAGES - 1 -> Offset]
      /\ st \in {"ok", "exited", "overrun", "undefined"}
      /\ where \in [Tuple -> RID \cup {NoRid}]
  BY Zenon DEF Typed, TypeOK, Body, CallsSound, CallTyped
<1>2. ASSUME DirRemove(t)
      PROVE  Typed'
  <2> DEFINE d == [c EXCEPT !.pc = "insert", !.n = dir[p]]
  <2>1. /\ c.pc = "dir" /\ dir' = [dir EXCEPT ![p] = Absent]
        /\ call' = [call EXCEPT ![t] = d]
        /\ UNCHANGED <<file, words, latch, st, where, removed, rewritten>>
    BY <1>2, Zenon DEF DirRemove, At, Goes
  <2>2. p \in UserPage /\ Packed(c.page) /\ file[p] # NoPage
    BY <1>1, <2>1 DEF CallTyped
  <2>3. \A x \in Thread : call[x].pc # "insert"
    BY <2>1, Alone DEF Holding
  <2>4. dir[p] # Absent
    BY <2>2, <2>3 DEF Body, Directory
  <2>5. dir[p] \in Nat
    BY <1>1, <2>2, <2>4, Offsets, Zenon DEF Entry
  <2>6. d \in Call
    <3> HIDE DEF p
    <3>1. [c EXCEPT !.pc = "insert"] \in Call
      BY <1>1, CallWith, ZenonT(30) DEF PC
    <3> QED
      BY <2>5, <3>1, CallWith, Zenon
  <2>7. d.pc = "insert" /\ d.pid = p /\ d.page = c.page
    BY <1>1, SMTT(30) DEF Call
  <2> HIDE DEF d, p
  <2>8. dir' \in [UserPage -> Entry]
    BY <1>1, <2>1, <2>2 DEF Entry
  <2>9. CallTyped(d, file')
    BY <2>1, <2>2, <2>6, <2>7, Zenon DEF CallTyped
  <2>10. RestTyped
    BY <1>1, <2>1, <2>8, SMTT(30) DEF RestTyped
  <2> QED
    BY <2>1, <2>9, <2>10, ReadKept, RidsKept, TypedCall, Zenon
<1>3. ASSUME AddReturn(t)
      PROVE  Typed'
  <2> DEFINE left == Left(c.n, c.tup)
             rid == [pid |-> p, slot |-> NextSlot(c.page)]
  <2>1. /\ c.pc = "insert" /\ dir' = [dir EXCEPT ![p] = left]
        /\ words' = [words EXCEPT ![p] = uint16(p), ![p + 1] = left]
        /\ where' = [where EXCEPT ![c.tup] = rid]
        /\ latch' = NoThread /\ call' = [call EXCEPT ![t] = Idle]
        /\ UNCHANGED <<file, st, removed, rewritten>>
    BY <1>3, Zenon DEF AddReturn, At, Goes
  <2>2. /\ p \in UserPage /\ Packed(c.page) /\ file[p] # NoPage
        /\ c.tup \in Tuple /\ c.n \in Offset
    <3>1. p \in UserPage /\ Packed(c.page) /\ file[p] # NoPage
      BY <1>1, <2>1, Zenon DEF CallTyped
    <3>2. c.tup \in Tuple /\ c.n \in Offset
      BY <1>1, <2>1, Zenon DEF CallSound
    <3> QED
      BY <3>1, <3>2
  <2>3. left \in Offset
    BY <2>2, LeftSpace
  <2>4. uint16(p) \in Offset
    <3>1. p \in Nat
      BY <2>2, UserPages, Zenon
    <3>2. \A k \in Nat : k \in Int
      BY SMTT(30)
    <3> QED
      BY <3>1, <3>2, Words, Zenon
  <2>5. rid \in RID /\ rid.pid = p
    <3>1. Len(c.page.ptrs) + 1 \in Nat \ {0}
      BY <2>2, PageType, SMTT(30) DEF Packed
    <3> QED
      BY <2>2, <3>1, Zenon DEF RID, NextSlot
  <2> HIDE DEF left, rid, p
  <2>6. dir' \in [UserPage -> Entry] /\ words' \in [0 .. 2 * MAX_PAGES - 1 -> Offset]
    BY <1>1, <2>1, <2>3, <2>4, Zenon DEF Entry
  <2>7. RestTyped
    BY <1>1, <2>1, <2>6 DEF RestTyped
  <2>8. RidsTyped
    <3>1. where' \in [Tuple -> RID \cup {NoRid}]
      BY <1>1, <2>1, <2>5, Zenon
    <3>2. \A u \in Tuple : where'[u] = IF u = c.tup THEN rid ELSE where[u]
      BY <1>1, <2>1
    <3>3. \A u \in Tuple : RidTyped(where[u], file)
      BY DEF Typed
    <3> QED
      BY <2>1, <2>2, <2>5, <3>1, <3>2, <3>3 DEF RidTyped, RidsTyped
  <2>9. Kept
    BY <2>1, ReadKept
  <2> QED
    BY <2>1, <2>7, <2>8, <2>9, IdleTyped, TypedCall, Zenon
<1> QED
  BY <1>2, <1>3

\* The heap file starts well typed.
LEMMA InitTyped == Init => Typed
<1> SUFFICES ASSUME Init
             PROVE  Typed
  OBVIOUS
<1> USE DEF Init
<1>1. PAGE_SIZE \in Offset
  BY Sizes, Offsets
<1>2. EmptyPage \in HeapPage /\ Packed(EmptyPage)
  BY EmptyPacked DEF Packed
<1>3. \A p \in UserPage : file[p] \in {EmptyPage, NoPage}
  OBVIOUS
<1>4. file \in [UserPage -> HeapPage \cup {NoPage}]
  BY <1>2
<1>5. dir \in [UserPage -> Entry]
  BY <1>1 DEF Entry
<1>6. words \in [0 .. 2 * MAX_PAGES - 1 -> Offset]
  <2>1. ASSUME NEW w \in 0 .. 2 * MAX_PAGES - 1
        PROVE  (IF w % 2 = 0 THEN uint16(w \div 2) ELSE PAGE_SIZE) \in Offset
    <3>1. w \div 2 \in Int
      BY UserPages
    <3> QED
      BY <1>1, <3>1, Words
  <2> QED
    BY <2>1
<1>7. \A t \in Thread : CallTyped(call[t], file) /\ call[t] \in Call
  BY IdleTyped
<1>8. call \in [Thread -> Call]
  BY <1>7
<1>9. where \in [Tuple -> RID \cup {NoRid}] /\ \A u \in Tuple : RidTyped(where[u], file)
  BY DEF RidTyped
<1>10. TypeOK
  BY <1>4, <1>5, <1>6, <1>8, <1>9 DEF TypeOK
<1> QED
  BY <1>2, <1>3, <1>7, <1>9, <1>10 DEF Typed

-----------------------------------------------------------------------------
(* The loop of defragment, by induction over its rounds. *)

LOCAL INSTANCE WellFoundedInduction

\* A nonempty set of naturals has a least member.
LEMMA LeastMember ==
  ASSUME NEW T \in SUBSET Nat, T # {}
  PROVE  \E x \in T : \A y \in T : x <= y
<1>1. PICK x \in T : \A y \in T : ~(<<y, x>> \in OpToRel(<, Nat))
  BY WFMin, NatLessThanWellFounded, Zenon
<1>2. \A y \in T : ~(y < x)
  BY <1>1, Zenon DEF OpToRel
<1> QED
  BY <1>2

\* A set of naturals that holds 0 and, with every n below m, n + 1 holds all
\* naturals up to m.
LEMMA UpTo ==
  ASSUME NEW T, NEW m \in Nat, 0 \in T,
         \A n \in 0 .. m - 1 : n \in T => n + 1 \in T
  PROVE  \A n \in 0 .. m : n \in T
<1> DEFINE U == {n \in 0 .. m : n \notin T}
<1> SUFFICES ASSUME U # {}
             PROVE  FALSE
  OBVIOUS
<1>0. U \in SUBSET Nat
  OBVIOUS
<1>1. PICK x \in U : \A y \in U : x <= y
  <2> HIDE DEF U
  <2> QED
    BY <1>0, LeastMember
<1>2. x # 0 /\ x - 1 \in 0 .. m - 1
  OBVIOUS
<1>3. x - 1 \in T
  BY <1>1, <1>2
<1> QED
  BY <1>2, <1>3

\* One round of the loop of defragment
Copy(temp, pg, k) ==
  IF temp.ptrs[k].start_offset = 0 THEN pg ELSE Moved(temp, pg, temp.ptrs[k])

\* f lists what the first k rounds of the loop make of the new page.
Copies(temp, f, k) ==
  /\ f = [i \in 0 .. k |-> f[i]]
  /\ f[0] = EmptyPage
  /\ \A i \in 1 .. k : f[i] = Copy(temp, f[i - 1], i)

\* The rounds of the loop of defragment can be listed up to any number.
LEMMA CopiesExist ==
  ASSUME NEW temp, NEW m \in Nat
  PROVE  \E f : Copies(temp, f, m)
<1> DEFINE P(k) == \E f : Copies(temp, f, k)
           T == {k \in Nat : P(k)}
<1>1. P(0)
  <2>1. PICK f : f = [i \in 0 .. 0 |-> EmptyPage]
    BY Zenon
  <2>2. f = [i \in 0 .. 0 |-> f[i]] /\ f[0] = EmptyPage /\ 1 .. 0 = {}
    BY <2>1
  <2> QED
    BY <2>2 DEF Copies
<1>2. ASSUME NEW k \in 0 .. m - 1, P(k)
      PROVE  P(k + 1)
  <2>1. PICK f : Copies(temp, f, k)
    BY <1>2
  <2>2. PICK g : g = [i \in 0 .. k + 1 |-> IF i = k + 1 THEN Copy(temp, f[k], k + 1) ELSE f[i]]
    BY Zenon
  <2>3. g = [i \in 0 .. k + 1 |-> g[i]]
    BY <2>2
  <2>4. g[k + 1] = Copy(temp, f[k], k + 1) /\ \A i \in 0 .. k : g[i] = f[i]
    BY <2>2
  <2>5. g[0] = EmptyPage
    BY <2>1, <2>4 DEF Copies
  <2>6. ASSUME NEW i \in 1 .. k + 1
        PROVE  g[i] = Copy(temp, g[i - 1], i)
    <3>1. CASE i = k + 1
      <4>1. i - 1 = k /\ g[k] = f[k]
        BY <2>4, <3>1
      <4> QED
        BY <2>4, <3>1, <4>1
    <3>2. CASE i \in 1 .. k
      <4>1. i - 1 \in 0 .. k /\ i \in 0 .. k /\ g[i] = f[i] /\ g[i - 1] = f[i - 1]
        BY <2>4, <3>2
      <4> QED
        BY <2>1, <3>2, <4>1, Zenon DEF Copies
    <3> QED
      BY <3>1, <3>2
  <2> QED
    BY <2>3, <2>5, <2>6, Zenon DEF Copies
<1> HIDE DEF P
<1>3. 0 \in T /\ \A k \in 0 .. m - 1 : k \in T => k + 1 \in T
  BY <1>1, <1>2
<1> HIDE DEF T
<1>4. m \in T
  BY <1>3, UpTo
<1> QED
  BY <1>4 DEF T, P

\* What defragment writes is what the rounds of its loop, as many as there are
\* pointers at most, make of an empty page.
LEMMA CompactedCopies ==
  ASSUME NEW temp \in HeapPage, NEW n \in Nat
  PROVE  \E f, last : /\ last \in 0 .. Len(temp.ptrs)
                      /\ Copies(temp, f, last)
                      /\ Compacted(temp, n) = f[last]
<1> DEFINE last == IF n < Len(temp.ptrs) THEN n + 1 ELSE Len(temp.ptrs)
           Loop(f) == [k \in 0 .. last |->
                         IF k = 0 THEN EmptyPage
                         ELSE IF temp.ptrs[k].start_offset = 0 THEN f[k - 1]
                         ELSE Moved(temp, f[k - 1], temp.ptrs[k])]
           h == CHOOSE f : f = Loop(f)
<1>1. last \in 0 .. Len(temp.ptrs)
  <2>1. Len(temp.ptrs) \in Nat
    BY PageType
  <2> QED
    BY <2>1
<1>2. Compacted(temp, n) = h[last]
  BY Zenon DEF Compacted
<1>3. last \in Nat /\ Len(temp.ptrs) \in Nat
  BY <1>1, PageType
<1> HIDE DEF last
<1>4. PICK f : Copies(temp, f, last)
  BY <1>3, CopiesExist, Zenon
<1>5. \A k \in 0 .. last : f[k] = IF k = 0 THEN EmptyPage
                                 ELSE IF temp.ptrs[k].start_offset = 0 THEN f[k - 1]
                                 ELSE Moved(temp, f[k - 1], temp.ptrs[k])
  <2>1. f[0] = EmptyPage /\ \A k \in 1 .. last : f[k] = Copy(temp, f[k - 1], k)
    BY <1>4 DEF Copies
  <2>2. \A k \in 0 .. last : k # 0 => k \in 1 .. last
    BY <1>3
  <2> QED
    BY <2>1, <2>2, Zenon DEF Copy
<1>6. f = Loop(f)
  BY <1>4, <1>5, Zenon DEF Copies
<1>7. h = Loop(h)
  BY <1>6, Zenon
<1> HIDE DEF h
<1>8. h = [k \in 0 .. last |-> h[k]]
  BY <1>7, Zenon
<1>9. h[0] = EmptyPage
  BY <1>3, <1>7, SMTT(30)
<1>10. \A k \in 1 .. last : h[k] = Copy(temp, h[k - 1], k)
  BY <1>3, <1>7 DEF Copy
<1>11. Copies(temp, h, last)
  BY <1>8, <1>9, <1>10, Zenon DEF Copies
<1> QED
  BY <1>1, <1>2, <1>11, Zenon

\* defragment writes a packed page: what is left of its tuples has room.
LEMMA CompactedPacked ==
  ASSUME NEW temp, Packed(temp), NEW n \in Nat
  PROVE  Packed(Compacted(temp, n))
<1>1. temp \in HeapPage /\ Len(temp.ptrs) \in Nat
  BY PageType DEF Packed
<1>2. PICK f, last : /\ last \in 0 .. Len(temp.ptrs)
                     /\ Copies(temp, f, last)
                     /\ Compacted(temp, n) = f[last]
  BY <1>1, CompactedCopies, Zenon
<1>3. PICK g : Filled(g, temp)
  BY DEF Packed
<1> DEFINE P(k) == Packed(f[k]) /\ g[k] <= f[k].free_end
           T == {k \in Nat : P(k)}
<1>4. P(0)
  <2>1. f[0] = EmptyPage /\ g[0] = PAGE_SIZE - 1 /\ EmptyPage.free_end = PAGE_SIZE - 1
    BY <1>2, <1>3 DEF Copies, Filled, EmptyPage
  <2> QED
    BY <2>1, EmptyPacked, Sizes, SMTT(30)
<1>5. ASSUME NEW k \in 0 .. last - 1, P(k)
      PROVE  P(k + 1)
  <2> DEFINE ptr == temp.ptrs[k + 1]
  <2>1. k + 1 \in 1 .. last /\ k + 1 \in 1 .. Len(temp.ptrs) /\ (k + 1) - 1 = k /\ k \in Nat
    BY <1>1, <1>2
  <2>2. f[k + 1] = Copy(temp, f[k], k + 1)
    BY <1>2, <2>1, Zenon DEF Copies
  <2>3. ptr \in TuplePtr /\ ptr.size \in Nat
    BY <1>1, <2>1, PageType, Offsets
  <2>4. g[k + 1] \in Nat /\ g[k] = g[k + 1] + ptr.size
    <3>1. \A i \in 1 .. Len(temp.ptrs) : g[i] \in Nat /\ g[i - 1] = g[i] + temp.ptrs[i].size
      BY <1>3, Zenon DEF Filled
    <3> QED
      BY <2>1, <3>1
  <2>5. f[k].free_end \in Nat
    BY <1>5, PageType, Offsets, Zenon DEF Packed
  <2> HIDE DEF ptr
  <2>6. CASE ptr.start_offset = 0
    <3>1. f[k + 1] = f[k]
      BY <2>2, <2>6 DEF Copy, ptr
    <3> QED
      BY <1>5, <2>3, <2>4, <2>5, <3>1, SMTT(30)
  <2>7. CASE ptr.start_offset # 0
    <3>1. f[k + 1] = Moved(temp, f[k], ptr)
      BY <2>2, <2>7 DEF Copy, ptr
    <3>2. ptr.size <= f[k].free_end
      BY <1>5, <2>3, <2>4, <2>5, SMTT(30)
    <3>3. Packed(f[k + 1]) /\ f[k + 1].free_end = f[k].free_end - ptr.size
      BY <1>1, <1>5, <2>3, <3>1, <3>2, MovedPacked
    <3> QED
      BY <1>5, <2>3, <2>4, <2>5, <3>3, SMTT(30)
  <2> QED
    BY <2>6, <2>7
<1> HIDE DEF P
<1>6. 0 \in T /\ \A k \in 0 .. last - 1 : k \in T => k + 1 \in T
  BY <1>1, <1>2, <1>4, <1>5
<1>7. last \in Nat
  BY <1>1, <1>2
<1> HIDE DEF T
<1>8. last \in T
  BY <1>6, <1>7, UpTo
<1> QED
  BY <1>2, <1>8, SMTT(30) DEF T, P

\* defragment keeps the types: the page it packs anew has the room its pointers say.
LEMMA DefragmentTyped ==
  ASSUME Typed, Body, NEW t \in Thread,
         DefragmentWrite(t)
  PROVE  Typed'
<1> DEFINE c == call[t]
           p == c.pid
<1>1. /\ CallTyped(c, file) /\ CallSound(c) /\ c \in Call
      /\ rewritten \subseteq UserPage /\ removed \subseteq Tuple /\ latch \in Thread \cup {NoThread}
      /\ dir \in [UserPage -> Entry] /\ words \in [0 .. 2 * MAX_PAGES - 1 -> Offset]
      /\ st \in {"ok", "exited", "overrun", "undefined"}
  BY Zenon DEF Typed, TypeOK, Body, CallsSound, CallTyped
<1> DEFINE pg == Compacted(c.page, c.n)
<1>2. /\ c.pc = "copy" /\ rewritten' = rewritten \cup {p}
      /\ UNCHANGED <<dir, words, latch, where, removed>>
  BY Zenon DEF DefragmentWrite, At
<1>3. \/ /\ file' = [file EXCEPT ![p] = pg] /\ call' = [call EXCEPT ![t] = Idle]
         /\ UNCHANGED st
      \/ st' = "undefined" /\ UNCHANGED <<file, call>>
  BY ZenonT(30) DEF DefragmentWrite, Goes
<1>4. p \in UserPage /\ Packed(c.page) /\ c.n \in Nat
  BY <1>1, <1>2, ZenonT(30) DEF CallTyped, Call
<1>5. Packed(pg)
  BY <1>4, CompactedPacked, ZenonT(30)
<1>6. rewritten' \subseteq UserPage
  BY <1>1, <1>2, <1>4, Zenon
<1> HIDE DEF p, pg
<1>7. CASE st' = "undefined" /\ UNCHANGED <<file, call>>
  BY <1>2, <1>6, <1>7, TypedStop
<1>8. CASE /\ file' = [file EXCEPT ![p] = pg] /\ call' = [call EXCEPT ![t] = Idle]
           /\ UNCHANGED st
  <2>1. Kept
    BY <1>4, <1>5, <1>8, WriteKept, Zenon
  <2>2. RestTyped
    BY <1>1, <1>2, <1>6, <1>8 DEF RestTyped
  <2> QED
    BY <1>2, <1>8, <2>1, <2>2, IdleTyped, RidsKept, TypedCall, Zenon
<1> QED
  BY <1>3, <1>7, <1>8, SMTT(30)

\* Every step keeps the types.
LEMMA StepTyped ==
  ASSUME Typed, IInv, [Next]_vars
  PROVE  Typed'
<1>1. CASE UNCHANGED vars
  BY <1>1, TypedStop DEF vars, Typed, TypeOK
<1>2. ASSUME NEW t \in Thread,
             \/ NewFind(t)
             \/ \E u \in Tuple : AddRead(t, u) \/ RemoveRead(t, u)
             \/ \E p \in UserPage : DefragmentHeader(t, p)
             \/ Step(t)
      PROVE  Typed'
  <2>1. Ok
    BY <1>2, Zenon DEF NewFind, AddRead, RemoveRead, DefragmentHeader, Step, NewWrite, AddReject,
                AddWrite, DirRemove, AddReturn, RemoveWrite, DefragmentRead,
                DefragmentWrite, Starts, At, Ok
  <2>2. Body
    BY <2>1 DEF IInv
  <2> QED
    BY <1>2, <2>2, ReadingTyped, WritingTyped, DirectoryTyped, DefragmentTyped DEF Step
<1> QED
  BY <1>1, <1>2, Zenon DEF Next

-----------------------------------------------------------------------------
(* The theorems. *)

\* Tuples and pointers of a page never overlap: add_tuple, in any interleaving
\* with remove_tuple and the other calls, writes over nothing that is in use on
\* a page that defragment and a second new_heap_page have left alone.
THEOREM TuplesApart == Spec => []SlotsDisjoint
<1>1. IInv => SlotsDisjoint
  BY DEF IInv, Body, Pages, Sound, PtrSound, Live, SlotsDisjoint
<1> QED
  BY <1>1, Invariance, PTL

\* The types are kept in every interleaving, also through defragment: taking the
\* sizes of its pointers from the end of a page always leads to free_end and
\* never below 0, and update_page_dir always finds an entry for its page.
THEOREM TypesKept == Spec => []TypeOK
<1>1. Spec => []Typed
  <2>1. Typed /\ IInv /\ [Next]_vars => Typed'
    BY StepTyped
  <2> QED
    BY <2>1, InitTyped, Invariance, PTL DEF Spec
<1>2. Typed => TypeOK
  BY DEF Typed
<1> QED
  BY <1>1, <1>2, PTL

\* While nobody holds the latch, the directory has the free space that the
\* header of every such page leaves.
THEOREM DirectoryRight == Spec => []DirectoryMatchesHeaders
<1>1. IInv => DirectoryMatchesHeaders
  <2> SUFFICES ASSUME IInv, Ok, latch = NoThread
               PROVE  \A p \in UserPage \ rewritten : dir[p] = FreeSpace(p)
    BY DEF DirectoryMatchesHeaders, FreeSpace
  <2>1. \A t \in Thread : call[t].pc \notin Holding
    BY NamesAssumption DEF IInv, Body, Latched
  <2>2. \A p \in UserPage : ~Updating(p)
    BY <2>1, Zenon DEF Updating, Holding
  <2> QED
    BY <2>2 DEF IInv, Body, Directory
<1> QED
  BY <1>1, Invariance, PTL

\* get_tuple finds every tuple that was added and not removed under the record
\* id that add_tuple returned, and nothing under that of a removed one.
THEOREM TuplesFound == Spec => []ReadsRight
<1>1. IInv => ReadsRight
  <2> SUFFICES ASSUME IInv, Ok, NEW u \in Tuple,
                      where[u] # NoRid, where[u].pid \notin rewritten
               PROVE  get_tuple(file[where[u].pid], where[u].slot)
                        = IF u \in removed THEN {} ELSE {u}
    BY DEF ReadsRight
  <2>1. /\ Holds(file[where[u].pid], where[u].slot, u, removed)
        /\ file[where[u].pid] # NoPage /\ where[u].pid \in UserPage
    BY Zenon DEF IInv, Body, Shapes, Places, Placed
  <2>2. Sound(file[where[u].pid])
    BY <2>1 DEF IInv, Body, Pages
  <2> QED
    BY <2>1, <2>2, HoldsGet, Zenon
<1> QED
  BY <1>1, Invariance, PTL
=============================================================================
