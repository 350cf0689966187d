-------------------------- MODULE BufferOps_proofs --------------------------
(***************************************************************************)
(* What the functions of bpm.c make of a pool, for every capacity, file size *)
(* and set of page contents.  A pool has five fields and every operation   *)
(* changes several of them, so each operation gets a lemma that says what it *)
(* makes of them.  Then: they keep a pool coherent, that is, the page table *)
(* leads every page to its own frame and the frame has what the callers    *)
(* last saw, or the page is on disk.                                       *)
(***************************************************************************)
EXTENDS BufferOps, ClockOps_proofs
-----------------------------------------------------------------------------
(* The chains of page_table. *)

\* Every page hashes to a bucket.
LEMMA HashType == \A p \in Page : PT!hash(p) \in PT!Bucket
BY CapacityAssumption, MaxPageAssumption DEF PT!hash, PT!Bucket, Page

\* The elements of a chain have their types.
LEMMA ChainType ==
  ASSUME NEW c \in Seq(PT!HashEl)
  PROVE  /\ Len(c) \in Nat /\ DOMAIN c = 1 .. Len(c)
         /\ \A i \in 1 .. Len(c) : /\ c[i] \in PT!HashEl
                                   /\ c[i].key \in Page
                                   /\ c[i].data \in Frame
                                   /\ c[i].live \in BOOLEAN
<1>1. \A i \in 1 .. Len(c) : c[i] \in PT!HashEl
  OBVIOUS
<1> QED
  BY <1>1 DEF PT!HashEl

\* What a new element holds.
LEMMA NewElFields ==
  ASSUME NEW p \in Page, NEW f \in Frame
  PROVE  LET e == PT!NewEl(p, f)
         IN e \in PT!HashEl /\ e.key = p /\ e.data = f /\ e.live = TRUE
BY DEF PT!NewEl, PT!HashEl

\* A key is found at an element of its own, which is live.
LEMMA FoundAt ==
  ASSUME NEW c \in Seq(PT!HashEl), NEW p
  PROVE  PT!Found(c, p, FALSE) <=> \E i \in 1 .. Len(c) : c[i].live = TRUE /\ c[i].key = p
<1>1. \A i \in 1 .. Len(c) : PT!Matches(c[i], p, FALSE) <=> c[i].live = TRUE /\ c[i].key = p
  BY ChainType DEF PT!Matches
<1>2. DOMAIN c = 1 .. Len(c)
  BY ChainType
<1> QED
  BY <1>1, <1>2, Zenon DEF PT!Found

\* The walk stops at the first such element.
LEMMA PositionFirst ==
  ASSUME NEW c \in Seq(PT!HashEl), NEW p, PT!Found(c, p, FALSE)
  PROVE  LET i == PT!Position(c, p, FALSE)
         IN i \in 1 .. Len(c) /\ c[i].live = TRUE /\ c[i].key = p /\ c[i].data \in Frame
<1> DEFINE T == {i \in 1 .. Len(c) : c[i].live = TRUE /\ c[i].key = p}
           First(i) == /\ PT!Matches(c[i], p, FALSE)
                       /\ \A j \in DOMAIN c : j < i => ~PT!Matches(c[j], p, FALSE)
<1>1. DOMAIN c = 1 .. Len(c) /\ Len(c) \in Nat
  BY ChainType
<1>2. \A i \in 1 .. Len(c) : PT!Matches(c[i], p, FALSE) <=> i \in T
  BY ChainType DEF PT!Matches
<1>3. T # {}
  BY FoundAt, Zenon
<1>4. T \in SUBSET Nat /\ T \subseteq 1 .. Len(c)
  BY <1>1
<1> HIDE DEF T
<1>5. PICK x \in T : \A y \in T : x <= y
  BY <1>3, <1>4, LeastMember
<1>6. \A j \in 1 .. Len(c) : j < x => j \notin T
  BY <1>1, <1>4, <1>5
<1>7. x \in DOMAIN c /\ First(x)
  BY <1>1, <1>2, <1>4, <1>6, Zenon
<1>8. PT!Position(c, p, FALSE) = CHOOSE i \in DOMAIN c : First(i)
  BY DEF PT!Position
<1> HIDE DEF First
<1>9. PT!Position(c, p, FALSE) \in DOMAIN c /\ First(PT!Position(c, p, FALSE))
  BY <1>7, <1>8, Zenon
<1>10. PT!Position(c, p, FALSE) \in T
  BY <1>1, <1>2, <1>9, Zenon DEF First
<1> QED
  BY <1>4, <1>10, ChainType, Zenon DEF T

\* Another element at a position leaves a chain a chain.
LEMMA Replaced ==
  ASSUME NEW c \in Seq(PT!HashEl), NEW i \in 1 .. Len(c), NEW e \in PT!HashEl
  PROVE  [c EXCEPT ![i] = e] \in Seq(PT!HashEl)
OBVIOUS

\* An insert keeps the type; of a key that is not there it appends.
LEMMA InsertIntoChain ==
  ASSUME NEW c \in Seq(PT!HashEl), NEW p \in Page, NEW f \in Frame
  PROVE  /\ PT!InsertInto(c, p, f, FALSE) \in Seq(PT!HashEl)
         /\ ~PT!Found(c, p, FALSE) => PT!InsertInto(c, p, f, FALSE) = Append(c, PT!NewEl(p, f))
<1>1. PT!NewEl(p, f) \in PT!HashEl
  BY NewElFields, Zenon
<1>2. CASE PT!Found(c, p, FALSE)
  BY <1>1, <1>2, PositionFirst, Replaced, Zenon DEF PT!InsertInto
<1>3. CASE ~PT!Found(c, p, FALSE)
  BY <1>1, <1>3 DEF PT!InsertInto
<1> QED
  BY <1>2, <1>3, Zenon

\* Unlinking an element keeps the type.
LEMMA UnlinkChain ==
  ASSUME NEW c \in Seq(PT!HashEl), NEW i \in 1 .. Len(c)
  PROVE  /\ PT!Unlink(c, i) \in Seq(PT!HashEl)
         /\ Len(PT!Unlink(c, i)) = Len(c) - 1
BY DEF PT!Unlink

\* A remove keeps the type, and leaves of a chain whose head has the key
\* nothing or a head that is freed.
LEMMA RemoveFromChain ==
  ASSUME NEW c \in Seq(PT!HashEl), NEW p, PT!Found(c, p, FALSE)
  PROVE  LET d == PT!RemoveFrom(c, p, FALSE)
         IN /\ d \in Seq(PT!HashEl)
            /\ PT!Position(c, p, FALSE) = 1
                 => \/ Len(c) = 1 /\ d = <<>>
                    \/ d # <<>> /\ d[1].live = FALSE
<1> DEFINE i == PT!Position(c, p, FALSE)
           d == PT!RemoveFrom(c, p, FALSE)
           u == PT!Unlink(c, 1)
<1>1. i \in 1 .. Len(c) /\ Len(c) \in Nat
  BY PositionFirst, ChainType, Zenon
<1> HIDE DEF i
<1>2. CASE i = 1 /\ Len(c) > 1
  <2>1. d = PT!Promote(c)
    BY <1>2, Zenon DEF PT!RemoveFrom, i
  <2>2. u \in Seq(PT!HashEl) /\ Len(u) = Len(c) - 1
    BY <1>1, <1>2, UnlinkChain
  <2>3. [c[2] EXCEPT !.live = FALSE] \in PT!HashEl /\ [c[2] EXCEPT !.live = FALSE].live = FALSE
    <3>1. c[2] \in PT!HashEl
      BY <1>1, <1>2, ChainType
    <3> QED
      BY <3>1, Zenon DEF PT!HashEl
  <2> DEFINE e == [c[2] EXCEPT !.live = FALSE]
  <2>4. d = [u EXCEPT ![1] = e]
    BY <2>1, Zenon DEF PT!Promote
  <2> HIDE DEF e, u
  <2> HIDE DEF d
  <2>5. d \in Seq(PT!HashEl) /\ Len(d) = Len(u) /\ d[1] = e
    <3>1. e \in PT!HashEl /\ 1 \in 1 .. Len(u)
      BY <1>1, <1>2, <2>2, <2>3 DEF e
    <3> QED
      BY <2>2, <2>4, <3>1
  <2>6. d # <<>> /\ d[1].live = FALSE
    BY <1>1, <1>2, <2>2, <2>3, <2>5 DEF e
  <2> QED
    BY <2>5, <2>6, Zenon DEF d
<1>3. CASE ~(i = 1 /\ Len(c) > 1)
  <2>1. d = PT!Unlink(c, i)
    BY <1>3, Zenon DEF PT!RemoveFrom, i
  <2>2. d \in Seq(PT!HashEl) /\ Len(d) = Len(c) - 1
    BY <1>1, <2>1, UnlinkChain, Zenon
  <2> HIDE DEF d
  <2>3. i = 1 => Len(c) = 1 /\ d = <<>>
    BY <1>1, <1>3, <2>2
  <2> QED
    BY <2>2, <2>3, Zenon DEF d, i
<1> QED
  BY <1>2, <1>3, Zenon
-----------------------------------------------------------------------------
(* What the operations make of the fields of a pool. *)

\* The pool with these fields
PoolOf(t, e, g, r, d) ==
  [table |-> t, free |-> e, pages |-> g, replacer |-> r, disk |-> d]

\* What a frame holds
PageOf(p, n, dirty, d) == [id |-> p, pin_count |-> n, is_dirty |-> dirty, data |-> d]

\* A pool whose replacer's node references are right
Sound(b) == b \in Pool /\ Linked(b.replacer)

\* The fields of a pool.
LEMMA PoolFields ==
  ASSUME NEW t, NEW e, NEW g, NEW r, NEW d
  PROVE  LET b == PoolOf(t, e, g, r, d)
         IN b.table = t /\ b.free = e /\ b.pages = g /\ b.replacer = r /\ b.disk = d
BY DEF PoolOf

\* The fields of a frame's page.
LEMMA PageFields ==
  ASSUME NEW p, NEW n, NEW dirty, NEW d
  PROVE  LET q == PageOf(p, n, dirty, d)
         IN q.id = p /\ q.pin_count = n /\ q.is_dirty = dirty /\ q.data = d
BY DEF PageOf

\* A pool is its fields, and they have their types.
LEMMA PoolType ==
  ASSUME NEW b \in Pool
  PROVE  /\ b = PoolOf(b.table, b.free, b.pages, b.replacer, b.disk)
         /\ b.table \in [PT!Bucket -> Seq(PT!HashEl)]
         /\ b.free \in SUBSET Frame
         /\ b.pages \in [Frame -> BpmPage]
         /\ b.disk \in [Page -> Content \cup {NoPage}]
BY DEF Pool, PoolOf

\* Exchanging one field of a pool.
LEMMA PoolExcept ==
  ASSUME NEW b \in Pool, NEW x
  PROVE  /\ [b EXCEPT !.table = x] = PoolOf(x, b.free, b.pages, b.replacer, b.disk)
         /\ [b EXCEPT !.free = x] = PoolOf(b.table, x, b.pages, b.replacer, b.disk)
         /\ [b EXCEPT !.pages = x] = PoolOf(b.table, b.free, x, b.replacer, b.disk)
         /\ [b EXCEPT !.replacer = x] = PoolOf(b.table, b.free, b.pages, x, b.disk)
         /\ [b EXCEPT !.disk = x] = PoolOf(b.table, b.free, b.pages, b.replacer, x)
BY DEF Pool, PoolOf

\* Fields of their types make a pool.
LEMMA PoolMade ==
  ASSUME NEW t \in [PT!Bucket -> Seq(PT!HashEl)], NEW e \in SUBSET Frame,
         NEW g \in [Frame -> BpmPage], NEW r, Linked(r),
         NEW d \in [Page -> Content \cup {NoPage}]
  PROVE  Sound(PoolOf(t, e, g, r, d))
<1>1. r \in Replacer
  BY Zenon DEF Linked
<1>2. PoolOf(t, e, g, r, d) \in Pool
  BY <1>1 DEF Pool, PoolOf
<1> QED
  BY <1>2, PoolFields DEF Sound

\* A page is its fields, and they have their types.
LEMMA PageType ==
  ASSUME NEW q \in BpmPage
  PROVE  /\ q = PageOf(q.id, q.pin_count, q.is_dirty, q.data)
         /\ q.id \in Page /\ q.pin_count \in Nat /\ q.is_dirty \in BOOLEAN
         /\ q.data \in Content
BY DEF BpmPage, PageOf

\* Fields of their types make a page.
LEMMA PageMade ==
  ASSUME NEW p \in Page, NEW n \in Nat, NEW dirty \in BOOLEAN, NEW d \in Content
  PROVE  PageOf(p, n, dirty, d) \in BpmPage
BY DEF BpmPage, PageOf

\* A frame whose page is exchanged for q
With(g, f, q) == [g EXCEPT ![f] = q]

\* Only that frame's page changes.
LEMMA WithPages ==
  ASSUME NEW g \in [Frame -> BpmPage], NEW f \in Frame, NEW q \in BpmPage
  PROVE  /\ With(g, f, q) \in [Frame -> BpmPage]
         /\ With(g, f, q)[f] = q
         /\ \A x \in Frame : x # f => With(g, f, q)[x] = g[x]
BY DEF With

\* A table whose chain in bucket k is exchanged for c
WithChain(t, k, c) == [t EXCEPT ![k] = c]

\* Only that bucket's chain changes.
LEMMA WithChains ==
  ASSUME NEW t \in [PT!Bucket -> Seq(PT!HashEl)], NEW k \in PT!Bucket,
         NEW c \in Seq(PT!HashEl)
  PROVE  /\ WithChain(t, k, c) \in [PT!Bucket -> Seq(PT!HashEl)]
         /\ WithChain(t, k, c)[k] = c
         /\ \A x \in PT!Bucket : x # k => WithChain(t, k, c)[x] = t[x]
BY DEF WithChain

\* The file after x was written to page p
Written(d, p, x) == [d EXCEPT ![p] = x]

\* Only that page changes.
LEMMA WrittenDisk ==
  ASSUME NEW d \in [Page -> Content \cup {NoPage}], NEW p \in Page,
         NEW x \in Content
  PROVE  /\ Written(d, p, x) \in [Page -> Content \cup {NoPage}]
         /\ Written(d, p, x)[p] = x
         /\ \A q \in Page : q # p => Written(d, p, x)[q] = d[q]
BY DEF Written

\* The chain a page hashes to has its type.
LEMMA ChainOf ==
  ASSUME NEW b \in Pool, NEW p \in Page
  PROVE  Chain(b, p) \in Seq(PT!HashEl)
BY PoolType, HashType DEF Chain

\* A failure changes the status only.
LEMMA FailsPool ==
  ASSUME NEW b, Sound(b), NEW how \in {"crashed", "undefined"}
  PROVE  LET c == Fails(b, how)
         IN /\ Sound(c) /\ ~Ok(c)
            /\ c.table = b.table /\ c.free = b.free /\ c.pages = b.pages
            /\ c.disk = b.disk /\ c.replacer.victim = b.replacer.victim
<1> DEFINE r == [b.replacer EXCEPT !.st = how]
<1>1. b \in Pool /\ Linked(b.replacer)
  BY DEF Sound
<1>2. r \in {Crashed(b.replacer), Undefined(b.replacer)}
  BY DEF Crashed, Undefined
<1>3. Linked(r) /\ r.st # "ok" /\ r.victim = b.replacer.victim
  BY <1>1, <1>2, FailedLinked
<1>4. Fails(b, how) = PoolOf(b.table, b.free, b.pages, r, b.disk)
  BY <1>1 DEF Fails, Pool, PoolOf
<1> HIDE DEF r
<1>5. Sound(PoolOf(b.table, b.free, b.pages, r, b.disk))
  BY <1>1, <1>3, PoolType, PoolMade, Zenon
<1> QED
  BY <1>3, <1>4, <1>5, PoolFields DEF Ok

\* Placing a page fills the frame and the table and pins the frame.
LEMMA PlacePool ==
  ASSUME NEW b, Sound(b), NEW p \in Page, NEW f \in Frame, ~EntryFreed(b, p)
  PROVE  LET c == Place(b, p, f)
         IN /\ Sound(c)
            /\ c.table = WithChain(b.table, PT!hash(p), PT!InsertInto(Chain(b, p), p, f, FALSE))
            /\ c.free = b.free
            /\ c.pages = With(b.pages, f, PageOf(p, 1, FALSE, Zero))
            /\ c.replacer = clock_replacer_pin(b.replacer, f)
            /\ c.disk = b.disk
<1> DEFINE x == PT!InsertInto(Chain(b, p), p, f, FALSE)
           t == WithChain(b.table, PT!hash(p), x)
           g == With(b.pages, f, PageOf(p, 1, FALSE, Zero))
           r == clock_replacer_pin(b.replacer, f)
<1>1. b \in Pool /\ Linked(b.replacer)
  BY DEF Sound
<1>2. Place(b, p, f) = PoolOf(t, b.free, g, r, b.disk)
  BY <1>1, Zenon DEF Place, Pool, PoolOf, With, PageOf, WithChain, Chain
<1>3. t \in [PT!Bucket -> Seq(PT!HashEl)]
  <2>1. x \in Seq(PT!HashEl)
    BY <1>1, ChainOf, InsertIntoChain, Zenon
  <2> HIDE DEF x
  <2> QED
    BY <1>1, <2>1, PoolType, HashType, WithChains
<1>4. g \in [Frame -> BpmPage]
  <2>1. PageOf(p, 1, FALSE, Zero) \in BpmPage
    BY ContentAssumption, PageMade, Zenon
  <2> QED
    BY <1>1, <2>1, PoolType, WithPages, Zenon
<1>5. Linked(r)
  BY <1>1, PinLinked
<1> HIDE DEF t, g, r
<1>6. Sound(PoolOf(t, b.free, g, r, b.disk))
  BY <1>1, <1>3, <1>4, <1>5, PoolType, PoolMade, Zenon
<1>7. LET c == Place(b, p, f)
      IN c.table = t /\ c.free = b.free /\ c.pages = g /\ c.replacer = r /\ c.disk = b.disk
  BY <1>2, PoolFields
<1> QED
  BY <1>2, <1>6, <1>7, Zenon DEF t, g, r

\* flush_page of a page at the head of its chain writes it and gives its frame
\* back; anywhere else it fails.
LEMMA FlushPool ==
  ASSUME NEW b, Sound(b), NEW p \in Page, ~EntryFreed(b, p), Mapped(b, p)
  PROVE  LET f == FrameOf(b, p)
             c == flush_page(b, p)
         IN /\ f \in Frame
            /\ Sound(c) /\ c.replacer.victim = b.replacer.victim
            /\ c.pages = b.pages
            /\ c.disk = Written(b.disk, p, b.pages[f].data)
            /\ c.table = WithChain(b.table, PT!hash(p), PT!RemoveFrom(Chain(b, p), p, FALSE))
            /\ ~Ok(c) \/ /\ EntryPosition(b, p) = 1
                          /\ c.free = b.free \cup {f}
                          /\ c.replacer = clock_replacer_unpin(b.replacer, f)
<1> DEFINE f == FrameOf(b, p)
           x == PT!RemoveFrom(Chain(b, p), p, FALSE)
           t == WithChain(b.table, PT!hash(p), x)
           d == Written(b.disk, p, b.pages[f].data)
           r == clock_replacer_unpin(b.replacer, f)
           c == PoolOf(t, b.free, b.pages, b.replacer, d)
<1>1. b \in Pool /\ Linked(b.replacer)
  BY DEF Sound
<1>2. /\ f \in Frame /\ EntryPosition(b, p) \in 1 .. Len(Chain(b, p))
      /\ Len(Chain(b, p)) \in Nat
  BY <1>1, ChainOf, ChainType, PositionFirst, Zenon DEF FrameOf, EntryPosition, Mapped
<1>3. t \in [PT!Bucket -> Seq(PT!HashEl)]
  <2>1. x \in Seq(PT!HashEl)
    BY <1>1, ChainOf, RemoveFromChain, Zenon DEF Mapped
  <2> HIDE DEF x
  <2> QED
    BY <1>1, <2>1, PoolType, HashType, WithChains, Zenon
<1>4. d \in [Page -> Content \cup {NoPage}]
  <2>1. b.pages[f].data \in Content
    BY <1>1, <1>2, PoolType, PageType
  <2> QED
    BY <1>1, <2>1, PoolType, WrittenDisk
<1>5. [b EXCEPT !.disk[p] = b.pages[f].data, !.table[PT!hash(p)] = x] = c
  <2> DEFINE a == PoolOf(b.table, b.free, b.pages, b.replacer, d)
  <2>1. Sound(a)
    BY <1>1, <1>4, PoolType, PoolMade, Zenon
  <2> HIDE DEF x, f, d, t
  <2>2. [b EXCEPT !.disk = d] = a
    BY <1>1, PoolExcept, Zenon
  <2>3. /\ a.table = b.table /\ a.free = b.free /\ a.pages = b.pages
        /\ a.replacer = b.replacer /\ a.disk = d
    BY PoolFields
  <2> HIDE DEF a
  <2>4. [a EXCEPT !.table = t] = PoolOf(t, a.free, a.pages, a.replacer, a.disk)
    BY <2>1, PoolExcept, Zenon DEF Sound
  <2> QED
    BY <2>2, <2>3, <2>4, Zenon DEF d, t, Written, WithChain
<1>6. Linked(r) /\ r.victim = b.replacer.victim
  BY <1>1, <1>2, UnpinLinked
<1>7. Sound(c)
  <2> HIDE DEF t, f, d
  <2> QED
    BY <1>1, <1>3, <1>4, PoolType, PoolMade, Zenon
<1>8. /\ c.table = t /\ c.free = b.free /\ c.pages = b.pages
      /\ c.replacer = b.replacer /\ c.disk = d
  <2> HIDE DEF t, f, d
  <2> QED
    BY PoolFields
<1>9. CASE EntryPosition(b, p) > 1
  <2>1. flush_page(b, p) = Fails(c, "undefined")
    BY <1>5, <1>9, Zenon DEF flush_page
  <2> HIDE DEF c, t, f, d
  <2>2. LET e == Fails(c, "undefined")
        IN /\ Sound(e) /\ ~Ok(e) /\ e.replacer.victim = b.replacer.victim
           /\ e.table = t /\ e.pages = b.pages /\ e.disk = d
    BY <1>7, <1>8, FailsPool
  <2> QED
    BY <1>2, <2>1, <2>2, Zenon DEF t, f, d
<1>10. CASE ~(EntryPosition(b, p) > 1)
  <2>1. flush_page(b, p) = [c EXCEPT !.free = @ \cup {f}, !.replacer = clock_replacer_unpin(@, f)]
    BY <1>5, <1>10, Zenon DEF flush_page
  <2> HIDE DEF t, f, d
  <2>2. flush_page(b, p) = PoolOf(t, b.free \cup {f}, b.pages, r, d)
    BY <2>1, Zenon DEF PoolOf
  <2> HIDE DEF c, r
  <2>3. Sound(PoolOf(t, b.free \cup {f}, b.pages, r, d))
    BY <1>1, <1>2, <1>3, <1>4, <1>6, PoolType, PoolMade, ZenonT(30)
  <2>4. EntryPosition(b, p) = 1
    BY <1>2, <1>10
  <2>5. LET e == PoolOf(t, b.free \cup {f}, b.pages, r, d)
        IN /\ e.table = t /\ e.free = b.free \cup {f} /\ e.pages = b.pages
           /\ e.replacer = r /\ e.disk = d
    BY PoolFields
  <2> QED
    BY <1>2, <1>6, <2>2, <2>3, <2>4, <2>5, Zenon DEF t, f, d, r
<1> QED
  BY <1>9, <1>10, Zenon

\* Exchanging one field of a page.
LEMMA FieldExcept ==
  ASSUME NEW q \in BpmPage, NEW x
  PROVE  /\ [q EXCEPT !.pin_count = x] = PageOf(q.id, x, q.is_dirty, q.data)
         /\ [q EXCEPT !.is_dirty = x] = PageOf(q.id, q.pin_count, x, q.data)
         /\ [q EXCEPT !.data = x] = PageOf(q.id, q.pin_count, q.is_dirty, x)
BY DEF BpmPage, PageOf

\* The updates of a page that unpin_page, a hit and a miss of fetch_bpm_page
\* and a caller make.
LEMMA PageExcept ==
  ASSUME NEW q \in BpmPage, NEW n \in Nat, NEW dirty \in BOOLEAN, NEW d \in Content
  PROVE  /\ [q EXCEPT !.is_dirty = dirty, !.pin_count = n] = PageOf(q.id, n, dirty, q.data)
         /\ [q EXCEPT !.pin_count = @ + 1]
              = PageOf(q.id, q.pin_count + 1, q.is_dirty, q.data)
         /\ [q EXCEPT !.pin_count = @ + 1, !.data = d]
              = PageOf(q.id, q.pin_count + 1, q.is_dirty, d)
         /\ [q EXCEPT !.data = d, !.is_dirty = TRUE] = PageOf(q.id, q.pin_count, TRUE, d)
<1> DEFINE u == PageOf(q.id, q.pin_count, dirty, q.data)
           v == PageOf(q.id, q.pin_count + 1, q.is_dirty, q.data)
           w == PageOf(q.id, q.pin_count, q.is_dirty, d)
<1>1. q.id \in Page /\ q.pin_count \in Nat /\ q.is_dirty \in BOOLEAN /\ q.data \in Content
  BY PageType
<1>2. q.pin_count + 1 \in Nat
  BY <1>1
<1>3. u \in BpmPage /\ v \in BpmPage /\ w \in BpmPage
  BY <1>1, <1>2, PageMade
<1>4. /\ [q EXCEPT !.is_dirty = dirty] = u
      /\ [q EXCEPT !.pin_count = q.pin_count + 1] = v
      /\ [q EXCEPT !.data = d] = w
  BY FieldExcept, Zenon
<1>5. /\ u.id = q.id /\ u.is_dirty = dirty /\ u.data = q.data
      /\ v.id = q.id /\ v.pin_count = q.pin_count + 1 /\ v.is_dirty = q.is_dirty
      /\ w.id = q.id /\ w.pin_count = q.pin_count /\ w.data = d
  BY PageFields
<1> HIDE DEF u, v, w
<1>6. /\ [u EXCEPT !.pin_count = n] = PageOf(q.id, n, dirty, q.data)
      /\ [v EXCEPT !.data = d] = PageOf(q.id, q.pin_count + 1, q.is_dirty, d)
      /\ [w EXCEPT !.is_dirty = TRUE] = PageOf(q.id, q.pin_count, TRUE, d)
  <2>1. [u EXCEPT !.pin_count = n] = PageOf(u.id, n, u.is_dirty, u.data)
    BY <1>3, FieldExcept, Zenon
  <2>2. [v EXCEPT !.data = d] = PageOf(v.id, v.pin_count, v.is_dirty, d)
    BY <1>3, FieldExcept, Zenon
  <2>3. [w EXCEPT !.is_dirty = TRUE] = PageOf(w.id, w.pin_count, TRUE, w.data)
    BY <1>3, FieldExcept, Zenon
  <2> QED
    BY <1>5, <2>1, <2>2, <2>3, Zenon
<1>7. [q EXCEPT !.is_dirty = dirty, !.pin_count = n] = PageOf(q.id, n, dirty, q.data)
  BY <1>4, <1>6, Zenon
<1>8. [q EXCEPT !.pin_count = @ + 1] = PageOf(q.id, q.pin_count + 1, q.is_dirty, q.data)
  BY <1>4, Zenon DEF v
<1>9. [q EXCEPT !.pin_count = @ + 1, !.data = d]
        = PageOf(q.id, q.pin_count + 1, q.is_dirty, d)
  BY <1>4, <1>6, Zenon
<1>10. [q EXCEPT !.data = d, !.is_dirty = TRUE] = PageOf(q.id, q.pin_count, TRUE, d)
  BY <1>4, <1>6, Zenon
<1> QED
  BY <1>7, <1>8, <1>9, <1>10, Zenon

\* They are pages, with the id the page had.
LEMMA PageTouched ==
  ASSUME NEW q \in BpmPage, NEW d \in Content
  PROVE  /\ LET u == [q EXCEPT !.pin_count = @ + 1]
            IN u \in BpmPage /\ u.id = q.id /\ u.data = q.data
         /\ LET u == [q EXCEPT !.pin_count = @ + 1, !.data = d]
            IN u \in BpmPage /\ u.id = q.id /\ u.data = d
         /\ LET u == [q EXCEPT !.data = d, !.is_dirty = TRUE]
            IN u \in BpmPage /\ u.id = q.id /\ u.data = d
<1>1. q.id \in Page /\ q.pin_count \in Nat /\ q.is_dirty \in BOOLEAN /\ q.data \in Content
  BY PageType
<1>2. q.pin_count + 1 \in Nat
  BY <1>1
<1>3. /\ PageOf(q.id, q.pin_count + 1, q.is_dirty, q.data) \in BpmPage
      /\ PageOf(q.id, q.pin_count + 1, q.is_dirty, d) \in BpmPage
      /\ PageOf(q.id, q.pin_count, TRUE, d) \in BpmPage
  BY <1>1, <1>2, PageMade, Zenon
<1> DEFINE v == [q EXCEPT !.pin_count = @ + 1]
           w == [q EXCEPT !.pin_count = @ + 1, !.data = d]
           z == [q EXCEPT !.data = d, !.is_dirty = TRUE]
<1>5. v = PageOf(q.id, q.pin_count + 1, q.is_dirty, q.data)
  BY PageExcept, Zenon
<1>6. w = PageOf(q.id, q.pin_count + 1, q.is_dirty, d)
  BY PageExcept, Zenon
<1>7. z = PageOf(q.id, q.pin_count, TRUE, d)
  BY PageExcept, Zenon
<1> HIDE DEF v, w, z
<1>8. /\ v \in BpmPage /\ v.id = q.id /\ v.data = q.data
      /\ w \in BpmPage /\ w.id = q.id /\ w.data = d
      /\ z \in BpmPage /\ z.id = q.id /\ z.data = d
  <2>2. v \in BpmPage /\ v.id = q.id /\ v.data = q.data
    BY <1>3, <1>5, PageFields
  <2>3. w \in BpmPage /\ w.id = q.id /\ w.data = d
    BY <1>3, <1>6, PageFields
  <2>4. z \in BpmPage /\ z.id = q.id /\ z.data = d
    <3>1. LET y == PageOf(q.id, q.pin_count, TRUE, d)
          IN y.id = q.id /\ y.data = d
      BY DEF PageOf
    <3> QED
      BY <1>3, <1>7, <3>1, Zenon
  <2> QED
    BY <2>2, <2>3, <2>4
<1> QED
  BY <1>8, Zenon DEF v, w, z

\* Exchanging the page of a frame.
LEMMA FramePool ==
  ASSUME NEW b, Sound(b), NEW f \in Frame, NEW q \in BpmPage
  PROVE  LET c == [b EXCEPT !.pages[f] = q]
         IN /\ Sound(c)
            /\ c.table = b.table /\ c.free = b.free /\ c.pages = With(b.pages, f, q)
            /\ c.replacer = b.replacer /\ c.disk = b.disk
<1> DEFINE g == With(b.pages, f, q)
<1>1. b \in Pool /\ Linked(b.replacer)
  BY DEF Sound
<1>2. g \in [Frame -> BpmPage]
  BY <1>1, PoolType, WithPages
<1> HIDE DEF g
<1>3. [b EXCEPT !.pages = g] = PoolOf(b.table, b.free, g, b.replacer, b.disk)
  BY <1>1, PoolExcept, Zenon
<1>4. Sound(PoolOf(b.table, b.free, g, b.replacer, b.disk))
  BY <1>1, <1>2, PoolType, PoolMade, Zenon
<1>5. LET c == PoolOf(b.table, b.free, g, b.replacer, b.disk)
      IN /\ c.table = b.table /\ c.free = b.free /\ c.pages = g
         /\ c.replacer = b.replacer /\ c.disk = b.disk
  BY PoolFields
<1>6. [b EXCEPT !.pages[f] = q] = [b EXCEPT !.pages = g]
  BY DEF g, With
<1> QED
  BY <1>3, <1>4, <1>5, <1>6, Zenon DEF g

\* Exchanging the replacer.
LEMMA ReplacerPool ==
  ASSUME NEW b, Sound(b), NEW r, Linked(r)
  PROVE  LET c == [b EXCEPT !.replacer = r]
         IN /\ Sound(c)
            /\ c.table = b.table /\ c.free = b.free /\ c.pages = b.pages
            /\ c.replacer = r /\ c.disk = b.disk
<1>1. b \in Pool
  BY DEF Sound
<1>2. [b EXCEPT !.replacer = r] = PoolOf(b.table, b.free, b.pages, r, b.disk)
  BY <1>1, PoolExcept, Zenon
<1>3. Sound(PoolOf(b.table, b.free, b.pages, r, b.disk))
  BY <1>1, PoolType, PoolMade, Zenon
<1> QED
  BY <1>2, <1>3, PoolFields

\* Exchanging the set of free frames.
LEMMA FreePool ==
  ASSUME NEW b, Sound(b), NEW e \in SUBSET Frame
  PROVE  LET c == [b EXCEPT !.free = e]
         IN /\ Sound(c)
            /\ c.table = b.table /\ c.free = e /\ c.pages = b.pages
            /\ c.replacer = b.replacer /\ c.disk = b.disk
<1>1. b \in Pool /\ Linked(b.replacer)
  BY DEF Sound
<1>2. [b EXCEPT !.free = e] = PoolOf(b.table, e, b.pages, b.replacer, b.disk)
  BY <1>1, PoolExcept, Zenon
<1>3. Sound(PoolOf(b.table, e, b.pages, b.replacer, b.disk))
  BY <1>1, PoolType, PoolMade, Zenon
<1> QED
  BY <1>2, <1>3, PoolFields

\* Writing a page of the file.
LEMMA DiskPool ==
  ASSUME NEW b, Sound(b), NEW p \in Page, NEW x \in Content
  PROVE  LET c == [b EXCEPT !.disk[p] = x]
         IN /\ Sound(c)
            /\ c.table = b.table /\ c.free = b.free /\ c.pages = b.pages
            /\ c.replacer = b.replacer /\ c.disk = Written(b.disk, p, x)
<1> DEFINE d == Written(b.disk, p, x)
<1>1. b \in Pool /\ Linked(b.replacer)
  BY DEF Sound
<1>2. d \in [Page -> Content \cup {NoPage}]
  BY <1>1, PoolType, WrittenDisk
<1> HIDE DEF d
<1>3. [b EXCEPT !.disk = d] = PoolOf(b.table, b.free, b.pages, b.replacer, d)
  BY <1>1, PoolExcept, Zenon
<1>4. Sound(PoolOf(b.table, b.free, b.pages, b.replacer, d))
  BY <1>1, <1>2, PoolType, PoolMade, Zenon
<1>5. LET c == PoolOf(b.table, b.free, b.pages, b.replacer, d)
      IN /\ c.table = b.table /\ c.free = b.free /\ c.pages = b.pages
         /\ c.replacer = b.replacer /\ c.disk = d
  BY PoolFields
<1>6. [b EXCEPT !.disk[p] = x] = [b EXCEPT !.disk = d]
  BY DEF d, Written
<1> QED
  BY <1>3, <1>4, <1>5, <1>6, Zenon DEF d

\* The frame under a page is a frame, and holds a page.
LEMMA FrameFound ==
  ASSUME NEW b, Sound(b), NEW p \in Page, Mapped(b, p)
  PROVE  FrameOf(b, p) \in Frame /\ b.pages[FrameOf(b, p)] \in BpmPage
<1>1. FrameOf(b, p) \in Frame
  BY ChainOf, PositionFirst, Zenon DEF Sound, FrameOf, EntryPosition, Mapped
<1> QED
  BY <1>1, PoolType DEF Sound

\* From pool b to c at most the counts, the flags and the data of frame f have
\* changed.
Retouched(b, c, f) ==
  /\ Sound(c)
  /\ c.table = b.table /\ c.free = b.free /\ c.disk = b.disk
  /\ \A x \in Frame : /\ c.pages[x].id = b.pages[x].id
                      /\ x # f => c.pages[x].data = b.pages[x].data

\* Exchanging the page of a frame for one with the same id.
LEMMA TouchPool ==
  ASSUME NEW b, Sound(b), NEW f \in Frame, NEW q \in BpmPage, q.id = b.pages[f].id
  PROVE  LET c == [b EXCEPT !.pages[f] = q]
         IN Retouched(b, c, f) /\ c.pages[f] = q /\ c.replacer = b.replacer
<1> DEFINE c == [b EXCEPT !.pages[f] = q]
<1>1. /\ Sound(c)
      /\ c.table = b.table /\ c.free = b.free /\ c.pages = With(b.pages, f, q)
      /\ c.replacer = b.replacer /\ c.disk = b.disk
  BY FramePool
<1> HIDE DEF c
<1>2. c.pages[f] = q /\ \A x \in Frame : x # f => c.pages[x] = b.pages[x]
  <2>1. b.pages \in [Frame -> BpmPage]
    BY PoolType DEF Sound
  <2>2. /\ With(b.pages, f, q)[f] = q
        /\ \A x \in Frame : x # f => With(b.pages, f, q)[x] = b.pages[x]
    BY <2>1, WithPages
  <2> QED
    BY <1>1, <2>2, Zenon
<1>3. Retouched(b, c, f)
  BY <1>1, <1>2 DEF Retouched
<1> QED
  BY <1>1, <1>2, <1>3, Zenon DEF c

\* A hit of fetch_bpm_page counts a pin.
LEMMA HitPool ==
  ASSUME NEW b, Sound(b), NEW p \in Page, ~EntryFreed(b, p), Mapped(b, p)
  PROVE  LET f == FrameOf(b, p)
             c == fetch_bpm_page(b, p)
         IN Retouched(b, c, f) /\ c.pages[f].data = b.pages[f].data /\ c.replacer = b.replacer
<1> DEFINE f == FrameOf(b, p)
           o == b.pages[f]
           q == [o EXCEPT !.pin_count = @ + 1]
           c == [b EXCEPT !.pages[f] = q]
<1>1. f \in Frame /\ o \in BpmPage
  BY FrameFound
<1>2. fetch_bpm_page(b, p) = c
  BY Zenon DEF fetch_bpm_page
<1> HIDE DEF f
<1>3. q \in BpmPage /\ q.id = o.id /\ q.data = b.pages[f].data
  BY <1>1, ContentAssumption, PageTouched, Zenon
<1> HIDE DEF q
<1>4. Retouched(b, c, f) /\ c.pages[f] = q /\ c.replacer = b.replacer
  BY <1>1, <1>3, TouchPool
<1> HIDE DEF c
<1> QED
  BY <1>2, <1>3, <1>4, Zenon DEF f

\* The read of fetch_bpm_page fills the frame from disk.
LEMMA ReadPool ==
  ASSUME NEW b, Sound(b), NEW p \in Page, Ok(b), ~EntryFreed(b, p), Mapped(b, p),
         b.disk[p] # NoPage
  PROVE  LET f == FrameOf(b, p)
             c == ReadInto(b, p)
         IN Retouched(b, c, f) /\ c.pages[f].data = b.disk[p] /\ c.replacer = b.replacer
<1> DEFINE f == FrameOf(b, p)
           o == b.pages[f]
           q == [o EXCEPT !.pin_count = @ + 1, !.data = b.disk[p]]
           c == [b EXCEPT !.pages[f] = q]
<1>1. f \in Frame /\ o \in BpmPage /\ b.disk[p] \in Content
  BY FrameFound, PoolType DEF Sound
<1>2. ReadInto(b, p) = c
  <2>1. ~(~Mapped(b, p) \/ b.disk[p] = NoPage)
    OBVIOUS
  <2> QED
    BY <2>1, Zenon DEF ReadInto
<1> HIDE DEF f
<1>3. q \in BpmPage /\ q.id = o.id /\ q.data = b.disk[p]
  BY <1>1, ContentAssumption, PageTouched, Zenon
<1> HIDE DEF q
<1>4. Retouched(b, c, f) /\ c.pages[f] = q /\ c.replacer = b.replacer
  BY <1>1, <1>3, TouchPool
<1> HIDE DEF c
<1> QED
  BY <1>2, <1>3, <1>4, Zenon DEF f

\* A caller's write.
LEMMA WritePool ==
  ASSUME NEW b, Sound(b), NEW p \in Page, Mapped(b, p), NEW d \in Content
  PROVE  LET f == FrameOf(b, p)
             c == write_to_frame(b, f, d)
         IN Retouched(b, c, f) /\ c.pages[f].data = d /\ c.replacer = b.replacer
<1> DEFINE f == FrameOf(b, p)
           o == b.pages[f]
           q == [o EXCEPT !.data = d, !.is_dirty = TRUE]
           c == [b EXCEPT !.pages[f] = q]
<1>1. f \in Frame /\ o \in BpmPage
  BY FrameFound
<1>2. write_to_frame(b, f, d) = c
  BY Zenon DEF write_to_frame
<1> HIDE DEF f
<1>3. q \in BpmPage /\ q.id = o.id /\ q.data = d
  BY <1>1, ContentAssumption, PageTouched, Zenon
<1> HIDE DEF q
<1>4. Retouched(b, c, f) /\ c.pages[f] = q /\ c.replacer = b.replacer
  BY <1>1, <1>3, TouchPool
<1> HIDE DEF c
<1> QED
  BY <1>2, <1>3, <1>4, Zenon DEF f

\* The page unpin_page makes of a frame's.
Unpinned(q, n, dirty) == [q EXCEPT !.is_dirty = dirty, !.pin_count = n]

\* It has the id and the data the page had.
LEMMA UnpinnedPage ==
  ASSUME NEW q \in BpmPage, NEW n \in Nat, NEW dirty \in BOOLEAN
  PROVE  /\ Unpinned(q, n, dirty) \in BpmPage
         /\ Unpinned(q, n, dirty).id = q.id
         /\ Unpinned(q, n, dirty).data = q.data
<1>1. PICK d \in Content : TRUE
  BY ContentAssumption
<1>2. [q EXCEPT !.is_dirty = dirty, !.pin_count = n] = PageOf(q.id, n, dirty, q.data)
  BY PageExcept, Zenon
<1>3. Unpinned(q, n, dirty) = PageOf(q.id, n, dirty, q.data)
  BY <1>2, Zenon DEF Unpinned
<1>4. q.id \in Page /\ q.data \in Content
  BY PageType
<1> QED
  BY <1>3, <1>4, PageMade, PageFields

\* unpin_page counts a pin less; the last one unpins the frame.
LEMMA UnpinPool ==
  ASSUME NEW b, Sound(b), NEW p \in Page, NEW dirty \in BOOLEAN,
         ~EntryFreed(b, p), Mapped(b, p), b.pages[FrameOf(b, p)].pin_count # 0
  PROVE  LET f == FrameOf(b, p)
             c == unpin_page(b, p, dirty)
         IN /\ Retouched(b, c, f) /\ c.pages[f].data = b.pages[f].data
            /\ c.replacer = IF b.pages[f].pin_count = 1
                            THEN clock_replacer_unpin(b.replacer, f) ELSE b.replacer
<1> DEFINE f == FrameOf(b, p)
           o == b.pages[f]
           q == [o EXCEPT !.is_dirty = dirty, !.pin_count = o.pin_count - 1]
           a == [b EXCEPT !.pages[f] = q]
           r == IF o.pin_count = 1 THEN clock_replacer_unpin(a.replacer, f) ELSE a.replacer
           c == [a EXCEPT !.replacer = r]
<1>1. f \in Frame /\ o \in BpmPage
  BY FrameFound
<1>2. unpin_page(b, p, dirty) = c
  <2>1. ~(~Mapped(b, p) \/ o.pin_count = 0)
    OBVIOUS
  <2> QED
    BY <2>1, Zenon DEF unpin_page
<1> HIDE DEF f
<1>3. o.pin_count - 1 \in Nat
  BY <1>1, PageType DEF f
<1> DEFINE n == o.pin_count - 1
<1>4. q \in BpmPage /\ q.id = o.id /\ q.data = o.data
  <2>1. q = Unpinned(o, n, dirty)
    BY Zenon DEF Unpinned
  <2> HIDE DEF n, q
  <2> QED
    BY <1>1, <1>3, <2>1, UnpinnedPage DEF n
<1> HIDE DEF q
<1>5. Retouched(b, a, f) /\ a.pages[f] = q /\ a.replacer = b.replacer
  BY <1>1, <1>4, TouchPool
<1> HIDE DEF a
<1>6. Linked(r)
  BY <1>1, <1>5, UnpinLinked DEF Retouched, Sound
<1>7. r = IF o.pin_count = 1 THEN clock_replacer_unpin(b.replacer, f) ELSE b.replacer
  BY <1>5
<1> HIDE DEF r
<1>8. /\ Sound(c)
      /\ c.table = a.table /\ c.free = a.free /\ c.pages = a.pages
      /\ c.replacer = r /\ c.disk = a.disk
  BY <1>5, <1>6, ReplacerPool DEF Retouched
<1> HIDE DEF c
<1>9. Retouched(b, c, f)
  BY <1>5, <1>8, Zenon DEF Retouched
<1>10. c.pages[f].data = o.data
  BY <1>4, <1>5, <1>8, Zenon
<1> QED
  BY <1>2, <1>7, <1>8, <1>9, <1>10, Zenon DEF f

\* new_bpm_page takes the first free frame when there is one.
LEMMA NewFreePool ==
  ASSUME NEW b, Sound(b), NEW p \in Page, ~EntryFreed(b, p), ~Mapped(b, p), b.free # {}
  PROVE  \E f \in b.free :
           LET c == new_bpm_page(b, p)
           IN /\ Sound(c)
              /\ c.table = WithChain(b.table, PT!hash(p), Append(Chain(b, p), PT!NewEl(p, f)))
              /\ c.free = b.free \ {f}
              /\ c.pages = With(b.pages, f, PageOf(p, 1, FALSE, Zero))
              /\ c.replacer = clock_replacer_pin(b.replacer, f)
              /\ c.disk = b.disk
<1> DEFINE f == FirstFree(b)
           e == b.free \ {f}
           a == [b EXCEPT !.free = e]
<1>1. b.free \in SUBSET Frame
  BY PoolType DEF Sound
<1>2. f \in b.free
  <2>1. b.free \in SUBSET Nat
    BY <1>1, CapacityAssumption DEF Frame
  <2>2. \E x \in b.free : \A y \in b.free : x <= y
    BY <2>1, LeastMember
  <2> QED
    BY <2>2 DEF FirstFree
<1>3. new_bpm_page(b, p) = Place(a, p, f)
  BY Zenon DEF new_bpm_page
<1> HIDE DEF f
<1>4. e \in SUBSET Frame
  BY <1>1
<1> HIDE DEF e
<1>5. /\ Sound(a)
      /\ a.table = b.table /\ a.free = e /\ a.pages = b.pages
      /\ a.replacer = b.replacer /\ a.disk = b.disk
  BY <1>4, FreePool
<1> HIDE DEF a
<1>6. Chain(a, p) = Chain(b, p) /\ ~EntryFreed(a, p)
  BY <1>5, Zenon DEF Chain, EntryFreed
<1>7. f \in Frame
  BY <1>1, <1>2
<1>8. LET c == Place(a, p, f)
      IN /\ Sound(c)
         /\ c.table = WithChain(a.table, PT!hash(p), PT!InsertInto(Chain(a, p), p, f, FALSE))
         /\ c.free = a.free
         /\ c.pages = With(a.pages, f, PageOf(p, 1, FALSE, Zero))
         /\ c.replacer = clock_replacer_pin(a.replacer, f)
         /\ c.disk = a.disk
  BY <1>5, <1>6, <1>7, PlacePool, Zenon
<1>9. PT!InsertInto(Chain(b, p), p, f, FALSE) = Append(Chain(b, p), PT!NewEl(p, f))
  BY <1>7, ChainOf, InsertIntoChain, Zenon DEF Sound, Mapped
<1>10. LET c == new_bpm_page(b, p)
       IN /\ Sound(c)
          /\ c.table = WithChain(b.table, PT!hash(p), Append(Chain(b, p), PT!NewEl(p, f)))
          /\ c.free = e
          /\ c.pages = With(b.pages, f, PageOf(p, 1, FALSE, Zero))
          /\ c.replacer = clock_replacer_pin(b.replacer, f)
          /\ c.disk = b.disk
  BY <1>3, <1>5, <1>6, <1>8, <1>9, Zenon
<1> QED
  BY <1>2, <1>10, Zenon DEF e
-----------------------------------------------------------------------------
(* Which frames an operation can take from their pages. *)

\* From pool b to c, which has not failed: a frame with a reference bit is free
\* or had one before and kept its page, and a frame that was in use and has got
\* another page had a reference bit.
PinsKept(b, c) ==
  Ok(c) => \A x \in Frame :
    /\ c.replacer.bit[x] # "none" =>
         \/ x \in c.free
         \/ /\ b.replacer.bit[x] # "none"
            /\ c.pages[x].id = b.pages[x].id
            /\ x \in b.free <=> x \in c.free
    /\ x \notin b.free /\ c.pages[x].id # b.pages[x].id => b.replacer.bit[x] # "none"

\* flush_page, of whatever page, takes no frame from a page.
LEMMA FlushAny ==
  ASSUME NEW b, Sound(b), NEW p \in Page
  PROVE  LET c == flush_page(b, p)
         IN /\ Sound(c) /\ c.pages = b.pages
            /\ c.replacer.victim = b.replacer.victim
            /\ Ok(c) => Ok(b)
            /\ PinsKept(b, c)
<1> DEFINE c == flush_page(b, p)
<1>1. CASE EntryFreed(b, p)
  <2>1. c = Fails(b, "undefined")
    BY <1>1, Zenon DEF flush_page
  <2> HIDE DEF c
  <2>2. /\ Sound(c) /\ ~Ok(c) /\ c.pages = b.pages
        /\ c.replacer.victim = b.replacer.victim
    BY <2>1, FailsPool
  <2> QED
    BY <2>2, Zenon DEF PinsKept, c
<1>2. CASE ~EntryFreed(b, p) /\ ~Mapped(b, p)
  <2>1. c = b
    BY <1>2, Zenon DEF flush_page
  <2> QED
    BY <2>1, Zenon DEF PinsKept
<1>3. CASE ~EntryFreed(b, p) /\ Mapped(b, p)
  <2> DEFINE f == FrameOf(b, p)
  <2>1. /\ f \in Frame
        /\ Sound(c) /\ c.replacer.victim = b.replacer.victim
        /\ c.pages = b.pages
        /\ ~Ok(c) \/ /\ c.free = b.free \cup {f}
                     /\ c.replacer = clock_replacer_unpin(b.replacer, f)
    BY <1>3, FlushPool, Zenon
  <2> HIDE DEF c, f
  <2>2. ASSUME Ok(c)
        PROVE  Ok(b) /\ PinsKept(b, c)
    <3>1. /\ c.replacer.st = "ok" => b.replacer.st = "ok"
          /\ \A x \in Frame : x # f => c.replacer.bit[x] = b.replacer.bit[x]
      BY <2>1, <2>2, UnpinLinked DEF Sound
    <3>2. \A x \in Frame : x # f => (x \in b.free <=> x \in c.free)
      BY <2>1, <2>2
    <3>3. f \in c.free
      BY <2>1, <2>2
    <3> QED
      BY <2>1, <2>2, <3>1, <3>2, <3>3, Zenon DEF PinsKept, Ok
  <2>3. ~Ok(c) => PinsKept(b, c)
    BY Zenon DEF PinsKept
  <2> QED
    BY <2>1, <2>2, <2>3, Zenon DEF c
<1> QED
  BY <1>1, <1>2, <1>3

\* Placing a page takes the bit of its frame away and touches no other frame.
LEMMA PlaceAny ==
  ASSUME NEW b, Sound(b), NEW p \in Page, NEW f \in Frame
  PROVE  LET c == Place(b, p, f)
         IN /\ Sound(c)
            /\ c.replacer.victim = b.replacer.victim
            /\ Ok(c) => /\ c.free = b.free
                        /\ c.replacer.bit[f] = "none"
                        /\ \A x \in Frame : x # f =>
                             /\ c.replacer.bit[x] = b.replacer.bit[x]
                             /\ c.pages[x] = b.pages[x]
<1> DEFINE c == Place(b, p, f)
<1>1. CASE EntryFreed(b, p)
  <2>1. c = Fails(b, "undefined")
    BY <1>1, Zenon DEF Place
  <2> HIDE DEF c
  <2>2. Sound(c) /\ ~Ok(c) /\ c.replacer.victim = b.replacer.victim
    BY <2>1, FailsPool
  <2> QED
    BY <2>2, Zenon DEF c
<1>2. CASE ~EntryFreed(b, p)
  <2>1. /\ Sound(c) /\ c.free = b.free
        /\ c.pages = With(b.pages, f, PageOf(p, 1, FALSE, Zero))
        /\ c.replacer = clock_replacer_pin(b.replacer, f)
    BY <1>2, PlacePool, Zenon
  <2> HIDE DEF c
  <2>2. /\ c.replacer.victim = b.replacer.victim
        /\ c.replacer.st = "ok" => c.replacer.bit[f] = "none"
        /\ \A x \in Frame : x # f => c.replacer.bit[x] = b.replacer.bit[x]
    BY <2>1, PinLinked DEF Sound
  <2>3. PageOf(p, 1, FALSE, Zero) \in BpmPage
    BY ContentAssumption, PageMade, Zenon
  <2>4. b.pages \in [Frame -> BpmPage]
    BY PoolType DEF Sound
  <2>5. \A x \in Frame : x # f => With(b.pages, f, PageOf(p, 1, FALSE, Zero))[x] = b.pages[x]
    BY <2>3, <2>4, WithPages, ZenonT(30)
  <2> QED
    BY <2>1, <2>2, <2>5, Zenon DEF Ok, c
<1> QED
  BY <1>1, <1>2

\* The pool after evict has run.
LEMMA EvictPool ==
  ASSUME NEW b, Sound(b)
  PROVE  LET a == [b EXCEPT !.replacer = evict(@)]
         IN /\ Sound(a)
            /\ a.table = b.table /\ a.free = b.free /\ a.pages = b.pages
            /\ a.replacer = evict(b.replacer) /\ a.disk = b.disk
            /\ a.replacer.victim \in Frame \cup {NoFrame}
            /\ \A x \in Frame : a.replacer.bit[x] # "none" => b.replacer.bit[x] # "none"
            /\ a.replacer.victim # NoFrame => b.replacer.bit[a.replacer.victim] # "none"
<1> DEFINE r == evict(b.replacer)
           a == [b EXCEPT !.replacer = r]
<1>1. InSweep(b.replacer, r, Len(b.replacer.list))
  BY EvictLinked DEF Sound
<1> HIDE DEF r
<1>2. /\ Linked(r)
      /\ \A x \in Frame : r.bit[x] # "none" => b.replacer.bit[x] # "none"
      /\ r.victim # NoFrame => b.replacer.bit[r.victim] # "none"
  BY <1>1, Zenon DEF InSweep
<1>3. r.victim \in Frame \cup {NoFrame}
  BY <1>2 DEF Linked, Replacer
<1>4. /\ Sound(a)
      /\ a.table = b.table /\ a.free = b.free /\ a.pages = b.pages
      /\ a.replacer = r /\ a.disk = b.disk
  BY <1>2, ReplacerPool
<1> HIDE DEF a
<1> QED
  BY <1>2, <1>3, <1>4, Zenon DEF a, r

\* Replacing takes the frame of the victim, which had a reference bit, and
\* leaves the pool as it was when there is none.
LEMMA ReplacePool ==
  ASSUME NEW b, Sound(b), Ok(b), NEW p \in Page
  PROVE  LET c == Replace(b, p)
         IN /\ Sound(c)
            /\ PinsKept(b, c)
            /\ Ok(c) /\ c.replacer.victim = NoFrame
                 => c.table = b.table /\ c.free = b.free /\ c.pages = b.pages /\ c.disk = b.disk
<1> DEFINE a == [b EXCEPT !.replacer = evict(@)]
           v == a.replacer.victim
           c == PlaceInVictim(a, p)
           d == IF a.pages[v].is_dirty THEN flush_page(a, v) ELSE a
<1>1. Replace(b, p) = c
  <2>1. \A x : The({x}) = x
    BY DEF The
  <2> QED
    BY <2>1, Zenon DEF Replace
<1>2. /\ Sound(a)
      /\ a.table = b.table /\ a.free = b.free /\ a.pages = b.pages /\ a.disk = b.disk
      /\ v \in Frame \cup {NoFrame}
      /\ \A x \in Frame : a.replacer.bit[x] # "none" => b.replacer.bit[x] # "none"
      /\ v # NoFrame => b.replacer.bit[v] # "none"
  BY EvictPool, Zenon
<1> HIDE DEF a
<1>3. CASE ~Ok(a) \/ v = NoFrame
  <2>1. c = a
    BY <1>3, Zenon DEF PlaceInVictim
  <2>2. PinsKept(b, a)
    BY <1>2, Zenon DEF PinsKept
  <2> QED
    BY <1>1, <1>2, <2>1, <2>2, Zenon
<1>4. CASE Ok(a) /\ v # NoFrame
  <2>1. v \in Frame /\ v \in Page
    BY <1>2, <1>4, CapacityAssumption, MaxPageAssumption DEF Frame, Page
  <2>2. c = IF Ok(d) THEN Place(d, p, v) ELSE d
    BY <1>4, Zenon DEF PlaceInVictim
  <2>3. Sound(d) /\ d.pages = a.pages /\ d.replacer.victim = v /\ PinsKept(a, d)
    <3>1. CASE a.pages[v].is_dirty
      <4>1. d = flush_page(a, v)
        BY <3>1, Zenon
      <4> HIDE DEF d
      <4> QED
        BY <1>2, <2>1, <4>1, FlushAny, Zenon
    <3>2. CASE ~a.pages[v].is_dirty
      <4>1. d = a
        BY <3>2, Zenon
      <4> QED
        BY <1>2, <4>1, Zenon DEF PinsKept
    <3> QED
      BY <3>1, <3>2, Zenon
  <2> HIDE DEF d, c
  <2>4. CASE ~Ok(d)
    <3>1. c = d
      BY <2>2, <2>4, Zenon
    <3> QED
      BY <1>1, <2>3, <2>4, <3>1, Zenon DEF PinsKept
  <2>5. CASE Ok(d)
    <3>1. c = Place(d, p, v)
      BY <2>2, <2>5, Zenon
    <3>2. /\ Sound(c)
          /\ c.replacer.victim = v
          /\ Ok(c) => /\ c.free = d.free
                      /\ c.replacer.bit[v] = "none"
                      /\ \A x \in Frame : x # v =>
                           /\ c.replacer.bit[x] = d.replacer.bit[x]
                           /\ c.pages[x] = d.pages[x]
      BY <2>1, <2>3, <3>1, PlaceAny, ZenonT(30)
    <3>3. ASSUME Ok(c), NEW x \in Frame, c.replacer.bit[x] # "none", x \notin c.free
          PROVE  /\ b.replacer.bit[x] # "none"
                 /\ c.pages[x].id = b.pages[x].id
                 /\ x \in b.free <=> x \in c.free
      <4>1. /\ x # v /\ d.replacer.bit[x] # "none" /\ x \notin d.free
            /\ c.pages[x] = d.pages[x]
        BY <3>2, <3>3, Zenon
      <4>2. a.replacer.bit[x] # "none" /\ (x \in a.free <=> x \in d.free)
        BY <2>3, <2>5, <4>1, Zenon DEF PinsKept
      <4> QED
        BY <1>2, <2>3, <3>3, <4>1, <4>2, Zenon
    <3>4. ASSUME Ok(c), NEW x \in Frame, c.pages[x].id # b.pages[x].id
          PROVE  b.replacer.bit[x] # "none"
      <4>1. x = v
        BY <1>2, <2>3, <3>2, <3>4, Zenon
      <4> QED
        BY <1>2, <1>4, <4>1, Zenon
    <3>5. PinsKept(b, c)
      BY <3>3, <3>4, ZenonT(30) DEF PinsKept
    <3> QED
      BY <1>1, <1>4, <3>2, <3>5, Zenon
  <2> QED
    BY <2>4, <2>5
<1> QED
  BY <1>3, <1>4

\* From pool b to c the page p was placed in frame f.
PlacedAt(b, c, p, f) ==
  /\ c.table = WithChain(b.table, PT!hash(p), Append(Chain(b, p), PT!NewEl(p, f)))
  /\ c.free = b.free \ {f}
  /\ c.pages = With(b.pages, f, PageOf(p, 1, FALSE, Zero))
  /\ c.disk = b.disk

\* Only the replacer differs.
SameBut(b, c) ==
  c.table = b.table /\ c.free = b.free /\ c.pages = b.pages /\ c.disk = b.disk

\* What new_bpm_page can make of a pool.
LEMMA NewBpmPage ==
  ASSUME NEW b, Sound(b), Ok(b), NEW p \in Page
  PROVE  LET c == new_bpm_page(b, p)
         IN /\ Sound(c)
            /\ PinsKept(b, c)
            /\ Ok(c) => /\ ~EntryFreed(b, p)
                        /\ Mapped(b, p) => c = b
                        /\ ~Mapped(b, p) /\ b.free # {} => \E f \in b.free : PlacedAt(b, c, p, f)
                        /\ ~Mapped(b, p) /\ b.free = {} /\ c.replacer.victim = NoFrame
                             => SameBut(b, c)
<1> DEFINE c == new_bpm_page(b, p)
<1>1. CASE EntryFreed(b, p)
  <2>1. c = Fails(b, "undefined")
    BY <1>1, Zenon DEF new_bpm_page
  <2> HIDE DEF c
  <2>2. Sound(c) /\ ~Ok(c)
    BY <2>1, FailsPool
  <2> QED
    BY <2>2, Zenon DEF PinsKept, c
<1>2. CASE ~EntryFreed(b, p) /\ Mapped(b, p)
  <2>1. c = b
    BY <1>2, Zenon DEF new_bpm_page
  <2>2. PinsKept(b, b)
    BY Zenon DEF PinsKept
  <2> QED
    BY <1>2, <2>1, <2>2, Zenon
<1>3. CASE ~EntryFreed(b, p) /\ ~Mapped(b, p) /\ b.free # {}
  <2>1. PICK f \in b.free :
          /\ Sound(c) /\ PlacedAt(b, c, p, f)
          /\ c.replacer = clock_replacer_pin(b.replacer, f)
    BY <1>3, NewFreePool, Zenon DEF PlacedAt
  <2> HIDE DEF c
  <2>2. f \in Frame /\ b.pages \in [Frame -> BpmPage]
    BY PoolType DEF Sound
  <2>3. PageOf(p, 1, FALSE, Zero) \in BpmPage
    BY ContentAssumption, PageMade, Zenon
  <2>4. \A x \in Frame : x # f => With(b.pages, f, PageOf(p, 1, FALSE, Zero))[x] = b.pages[x]
    BY <2>2, <2>3, WithPages, ZenonT(30)
  <2>5. \A x \in Frame : x # f => c.pages[x] = b.pages[x]
    BY <2>1, <2>4, Zenon DEF PlacedAt
  <2>6. /\ c.replacer.st = "ok" => c.replacer.bit[f] = "none"
        /\ \A x \in Frame : x # f => c.replacer.bit[x] = b.replacer.bit[x]
    BY <2>1, <2>2, PinLinked DEF Sound
  <2>7. \A x \in Frame : x # f => (x \in b.free <=> x \in c.free)
    BY <2>1 DEF PlacedAt
  <2>8. PinsKept(b, c)
    <3> SUFFICES ASSUME Ok(c), NEW x \in Frame
                 PROVE  /\ c.replacer.bit[x] # "none" =>
                             /\ b.replacer.bit[x] # "none"
                             /\ c.pages[x].id = b.pages[x].id
                             /\ x \in b.free <=> x \in c.free
                        /\ x \in b.free \/ c.pages[x].id = b.pages[x].id
      BY Zenon DEF PinsKept
    <3>1. CASE x = f
      BY <2>1, <2>6, <3>1, Zenon DEF Ok
    <3>2. CASE x # f
      BY <2>5, <2>6, <2>7, <3>2, Zenon
    <3> QED
      BY <3>1, <3>2
  <2> QED
    BY <1>3, <2>1, <2>8, Zenon DEF c
<1>4. CASE ~EntryFreed(b, p) /\ ~Mapped(b, p) /\ b.free = {}
  <2>1. c = Replace(b, p)
    BY <1>4, Zenon DEF new_bpm_page
  <2> HIDE DEF c
  <2> QED
    BY <1>4, <2>1, ReplacePool, Zenon DEF SameBut, c
<1> QED
  BY <1>1, <1>2, <1>3, <1>4, Zenon

\* A chain that a new element was appended to finds the element, and has the
\* head it had.
LEMMA AppendedChain ==
  ASSUME NEW c \in Seq(PT!HashEl), NEW p \in Page, NEW f \in Frame, ~PT!Found(c, p, FALSE)
  PROVE  LET d == Append(c, PT!NewEl(p, f))
         IN /\ d \in Seq(PT!HashEl) /\ Len(d) = Len(c) + 1 /\ Len(c) \in Nat
            /\ d[Len(c) + 1] = PT!NewEl(p, f)
            /\ \A i \in 1 .. Len(c) : d[i] = c[i]
            /\ PT!Found(d, p, FALSE)
            /\ d[PT!Position(d, p, FALSE)].data = f
<1> DEFINE e == PT!NewEl(p, f)
           d == Append(c, e)
<1>1. e \in PT!HashEl /\ e.key = p /\ e.data = f /\ e.live = TRUE
  BY NewElFields, Zenon
<1> HIDE DEF e
<1>2. /\ d \in Seq(PT!HashEl) /\ Len(d) = Len(c) + 1 /\ Len(c) \in Nat
      /\ d[Len(c) + 1] = e
      /\ \A i \in 1 .. Len(c) : d[i] = c[i]
  BY <1>1
<1> HIDE DEF d
<1>3. Len(c) + 1 \in 1 .. Len(d)
  BY <1>2
<1>4. PT!Found(d, p, FALSE)
  BY <1>1, <1>2, <1>3, FoundAt, Zenon
<1> DEFINE k == PT!Position(d, p, FALSE)
<1>5. k \in 1 .. Len(d) /\ d[k].live = TRUE /\ d[k].key = p
  BY <1>2, <1>4, PositionFirst, Zenon
<1> HIDE DEF k
<1>6. k \notin 1 .. Len(c)
  BY <1>2, <1>5, FoundAt, Zenon
<1>7. k = Len(c) + 1
  BY <1>2, <1>5, <1>6
<1> QED
  BY <1>1, <1>2, <1>4, <1>7, Zenon DEF d, e, k

\* A page that was placed is found in its frame.
LEMMA PlacedFound ==
  ASSUME NEW b, Sound(b), NEW c, NEW p \in Page, NEW f \in Frame, ~Mapped(b, p),
         PlacedAt(b, c, p, f)
  PROVE  /\ Chain(c, p) = Append(Chain(b, p), PT!NewEl(p, f))
         /\ Mapped(c, p) /\ FrameOf(c, p) = f
<1> DEFINE x == Append(Chain(b, p), PT!NewEl(p, f))
<1>1. /\ Chain(b, p) \in Seq(PT!HashEl) /\ ~PT!Found(Chain(b, p), p, FALSE)
      /\ b.table \in [PT!Bucket -> Seq(PT!HashEl)] /\ PT!hash(p) \in PT!Bucket
  BY ChainOf, PoolType, HashType, Zenon DEF Sound, Mapped
<1>2. x \in Seq(PT!HashEl) /\ PT!Found(x, p, FALSE) /\ x[PT!Position(x, p, FALSE)].data = f
  BY <1>1, AppendedChain, Zenon
<1> HIDE DEF x
<1>3. WithChain(b.table, PT!hash(p), x)[PT!hash(p)] = x
  BY <1>1, <1>2, WithChains
<1>4. Chain(c, p) = x
  BY <1>3, Zenon DEF Chain, PlacedAt, x
<1> QED
  BY <1>2, <1>4, Zenon DEF Mapped, FrameOf, EntryPosition, x

\* A pool whose pages keep their ids and whose replacer stays keeps the pins.
LEMMA RetouchPins ==
  ASSUME NEW b, NEW a, NEW c, NEW f, PinsKept(b, a), Retouched(a, c, f),
         c.replacer = a.replacer
  PROVE  PinsKept(b, c)
BY ZenonT(30) DEF PinsKept, Retouched, Ok

\* What fetch_bpm_page can make of a pool: of a page it finds it counts the
\* pin, any other is placed and read from disk.
LEMMA FetchBpmPage ==
  ASSUME NEW b, Sound(b), Ok(b), NEW p \in Page, b.disk[p] # NoPage
  PROVE  LET c == fetch_bpm_page(b, p)
         IN /\ Sound(c)
            /\ PinsKept(b, c)
            /\ Ok(c) =>
                 /\ ~EntryFreed(b, p)
                 /\ Mapped(b, p) =>
                      LET f == FrameOf(b, p)
                      IN Retouched(b, c, f) /\ c.pages[f].data = b.pages[f].data
                 /\ ~Mapped(b, p) /\ b.free # {} =>
                      \E a, f : /\ Sound(a) /\ f \in b.free /\ PlacedAt(b, a, p, f)
                                /\ Retouched(a, c, f) /\ c.pages[f].data = b.disk[p]
                 /\ ~Mapped(b, p) /\ b.free = {} => c.replacer.victim # NoFrame
<1> DEFINE c == fetch_bpm_page(b, p)
           a == new_bpm_page(b, p)
<1>1. CASE EntryFreed(b, p)
  <2>1. c = Fails(b, "undefined")
    BY <1>1, Zenon DEF fetch_bpm_page
  <2> HIDE DEF c
  <2>2. Sound(c) /\ ~Ok(c)
    BY <2>1, FailsPool
  <2> QED
    BY <2>2, Zenon DEF PinsKept, c
<1>2. CASE ~EntryFreed(b, p) /\ Mapped(b, p)
  <2> DEFINE f == FrameOf(b, p)
  <2>1. Retouched(b, c, f) /\ c.pages[f].data = b.pages[f].data /\ c.replacer = b.replacer
    BY <1>2, HitPool, Zenon
  <2> HIDE DEF c, f
  <2>2. PinsKept(b, b)
    BY Zenon DEF PinsKept
  <2>3. PinsKept(b, c)
    BY <2>1, <2>2, RetouchPins, Zenon
  <2>4. Sound(c)
    BY <2>1, Zenon DEF Retouched
  <2> QED
    BY <1>2, <2>1, <2>3, <2>4, Zenon DEF c, f
<1>3. CASE ~EntryFreed(b, p) /\ ~Mapped(b, p)
  <2>1. c = ReadInto(a, p)
    BY <1>3, Zenon DEF fetch_bpm_page
  <2>2. /\ Sound(a) /\ PinsKept(b, a)
        /\ Ok(a) /\ b.free # {} => \E f \in b.free : PlacedAt(b, a, p, f)
        /\ Ok(a) /\ b.free = {} /\ a.replacer.victim = NoFrame => SameBut(b, a)
    BY <1>3, NewBpmPage, Zenon
  <2> HIDE DEF a, c
  <2>3. CASE ~Ok(a)
    <3>1. c = a
      BY <2>1, <2>3, Zenon DEF ReadInto
    <3> QED
      BY <2>2, <2>3, <3>1, Zenon DEF c
  <2>4. CASE Ok(a) /\ (EntryFreed(a, p) \/ ~Mapped(a, p) \/ a.disk[p] = NoPage)
    <3>1. c = Fails(a, "undefined") \/ c = Fails(a, "crashed")
      <4>1. CASE EntryFreed(a, p)
        BY <2>1, <2>4, <4>1, Zenon DEF ReadInto
      <4>2. CASE ~EntryFreed(a, p)
        <5>1. ~Mapped(a, p) \/ a.disk[p] = NoPage
          BY <2>4, <4>2, SMTT(30)
        <5> QED
          BY <2>1, <2>4, <4>2, <5>1, Zenon DEF ReadInto
      <4> QED
        BY <4>1, <4>2
    <3>2. Sound(c) /\ ~Ok(c)
      BY <2>2, <3>1, FailsPool, SMTT(30)
    <3> QED
      BY <3>2, Zenon DEF PinsKept, c
  <2>5. CASE Ok(a) /\ ~EntryFreed(a, p) /\ Mapped(a, p) /\ a.disk[p] # NoPage
    <3> DEFINE f == FrameOf(a, p)
    <3>1. Retouched(a, c, f) /\ c.pages[f].data = a.disk[p] /\ c.replacer = a.replacer
      BY <2>1, <2>2, <2>5, ReadPool, Zenon
    <3> HIDE DEF f
    <3>2. Sound(c) /\ PinsKept(b, c)
      <4>1. Sound(c)
        BY <3>1, Zenon DEF Retouched
      <4>2. PinsKept(b, c)
        BY <2>2, <3>1, RetouchPins, Zenon
      <4> QED
        BY <4>1, <4>2
    <3>3. ASSUME b.free # {}
          PROVE  \E d, g : /\ Sound(d) /\ g \in b.free /\ PlacedAt(b, d, p, g)
                           /\ Retouched(d, c, g) /\ c.pages[g].data = b.disk[p]
      <4>1. PICK g \in b.free : PlacedAt(b, a, p, g)
        BY <2>2, <2>5, <3>3, Zenon
      <4>2. g \in Frame
        BY PoolType DEF Sound
      <4>3. f = g
        BY <1>3, <4>1, <4>2, PlacedFound, Zenon DEF f
      <4>4. a.disk = b.disk
        BY <4>1, Zenon DEF PlacedAt
      <4> QED
        BY <2>2, <3>1, <4>1, <4>3, <4>4, Zenon
    <3>4. ASSUME b.free = {}
          PROVE  c.replacer.victim # NoFrame
      <4>1. SameBut(b, a) => (Mapped(a, p) <=> Mapped(b, p))
        BY Zenon DEF SameBut, Mapped, Chain
      <4> QED
        BY <1>3, <2>2, <2>5, <3>1, <3>4, <4>1, Zenon
    <3> QED
      BY <1>3, <3>2, <3>3, <3>4, Zenon DEF c
  <2> QED
    BY <2>3, <2>4, <2>5, Zenon
<1> QED
  BY <1>1, <1>2, <1>3
-----------------------------------------------------------------------------
(* Coherence. *)

\* Frame f holds page p, as the callers last saw it in s, and the page is in
\* the file.
Holds(b, p, f, s) ==
  /\ b.pages[f].id = p
  /\ f \notin b.free
  /\ b.pages[f].data = s[p]
  /\ b.disk[p] # NoPage

\* Chain c of bucket k leads every page to its frame, each page once, and what
\* is not in it is on disk.
ChainCoherent(b, k, c, s) ==
  /\ \A i \in 1 .. Len(c) : /\ c[i].live = TRUE
                            /\ PT!hash(c[i].key) = k
                            /\ Holds(b, c[i].key, c[i].data, s)
  /\ \A i, j \in 1 .. Len(c) : c[i].key = c[j].key => i = j
  /\ \A p \in Page : PT!hash(p) = k => (\E i \in 1 .. Len(c) : c[i].key = p) \/ b.disk[p] = s[p]

\* The head of a chain was freed.
HeadFreed(c) == c # <<>> /\ c[1].live = FALSE

PoolCoherent(b, s) ==
  \A k \in PT!Bucket : HeadFreed(b.table[k]) \/ ChainCoherent(b, k, b.table[k], s)

\* What the callers saw differs in page p only.
AgreeBut(z, s, p) == \A q \in Page : q # p => z[q] = s[q]

\* An entry that walks would read after it was freed is a freed head.
LEMMA EntryFreedHead ==
  ASSUME NEW b, Sound(b), NEW p \in Page
  PROVE  EntryFreed(b, p) <=> HeadFreed(Chain(b, p))
<1> DEFINE c == Chain(b, p)
<1>1. c \in Seq(PT!HashEl)
  BY ChainOf DEF Sound
<1> HIDE DEF c
<1>2. c # <<>> => 1 \in 1 .. Len(c) /\ Head(c) = c[1]
  BY <1>1
<1>3. c # <<>> => c[1].live \in BOOLEAN
  BY <1>1, <1>2, ChainType, SMTT(30)
<1>4. (c # <<>> /\ ~Head(c).live) <=> (c # <<>> /\ c[1].live = FALSE)
  BY <1>2, <1>3
<1> QED
  BY <1>4, Zenon DEF EntryFreed, HeadFreed, c

\* The chain of a page that no walk over freed memory meets.
LEMMA CoherentChain ==
  ASSUME NEW b, Sound(b), NEW s, PoolCoherent(b, s), NEW p \in Page, ~EntryFreed(b, p)
  PROVE  ChainCoherent(b, PT!hash(p), Chain(b, p), s)
BY EntryFreedHead, HashType DEF PoolCoherent, Chain

\* In a coherent chain a page is found exactly when it is in it.
LEMMA CoherentFound ==
  ASSUME NEW b, Sound(b), NEW s, PoolCoherent(b, s), NEW p \in Page, ~EntryFreed(b, p)
  PROVE  /\ Mapped(b, p) => /\ FrameOf(b, p) \in Frame
                            /\ Holds(b, p, FrameOf(b, p), s)
                            /\ \A i \in 1 .. Len(Chain(b, p)) :
                                 Chain(b, p)[i].key = p => Chain(b, p)[i].data = FrameOf(b, p)
         /\ Mapped(b, p) <=> \E i \in 1 .. Len(Chain(b, p)) : Chain(b, p)[i].key = p
         /\ ~Mapped(b, p) => b.disk[p] = s[p]
<1> DEFINE c == Chain(b, p)
           n == PT!Position(c, p, FALSE)
<1>1. c \in Seq(PT!HashEl) /\ ChainCoherent(b, PT!hash(p), c, s)
  BY ChainOf, CoherentChain DEF Sound
<1>2. FrameOf(b, p) = c[n].data /\ (Mapped(b, p) <=> PT!Found(c, p, FALSE))
  BY Zenon DEF FrameOf, EntryPosition, Mapped
<1> HIDE DEF c
<1>3. Mapped(b, p) <=> \E i \in 1 .. Len(c) : c[i].key = p
  BY <1>1, <1>2, FoundAt, Zenon DEF ChainCoherent
<1>4. ASSUME Mapped(b, p)
      PROVE  n \in 1 .. Len(c) /\ c[n].key = p /\ c[n].data \in Frame
  BY <1>1, <1>2, <1>4, PositionFirst, Zenon
<1> HIDE DEF n
<1>5. ASSUME Mapped(b, p)
      PROVE  /\ Holds(b, p, c[n].data, s)
             /\ \A i \in 1 .. Len(c) : c[i].key = p => c[i].data = c[n].data
  BY <1>1, <1>4, <1>5, Zenon DEF ChainCoherent
<1>6. ~Mapped(b, p) => b.disk[p] = s[p]
  BY <1>1, <1>3, Zenon DEF ChainCoherent
<1> QED
  BY <1>2, <1>3, <1>4, <1>5, <1>6, Zenon DEF c

\* What a coherent pool holds of a page.
LEMMA CoherentData ==
  ASSUME NEW b, Sound(b), NEW s, PoolCoherent(b, s), NEW p \in Page, ~EntryFreed(b, p)
  PROVE  /\ Mapped(b, p) => b.pages[FrameOf(b, p)].data = s[p]
         /\ ~Mapped(b, p) => b.disk[p] = s[p]
<1>1. /\ Mapped(b, p) => Holds(b, p, FrameOf(b, p), s)
      /\ ~Mapped(b, p) => b.disk[p] = s[p]
  BY CoherentFound, Zenon
<1> QED
  BY <1>1, Zenon DEF Holds

\* Changing the data of the frame under page p, and with it what the callers
\* saw of p, keeps the pool coherent.
LEMMA RetouchCoherent ==
  ASSUME NEW b, Sound(b), NEW s, PoolCoherent(b, s), NEW p \in Page, ~EntryFreed(b, p),
         Mapped(b, p), NEW c, Retouched(b, c, FrameOf(b, p)),
         NEW z, AgreeBut(z, s, p), z[p] = c.pages[FrameOf(b, p)].data
  PROVE  PoolCoherent(c, z)
<1> USE DEF AgreeBut
<1> DEFINE f == FrameOf(b, p)
<1>1. /\ f \in Frame /\ Holds(b, p, f, s)
      /\ \A i \in 1 .. Len(Chain(b, p)) : Chain(b, p)[i].key = p => Chain(b, p)[i].data = f
      /\ \E i \in 1 .. Len(Chain(b, p)) : Chain(b, p)[i].key = p
  BY CoherentFound, ZenonT(30)
<1>2. /\ c.table = b.table /\ c.free = b.free /\ c.disk = b.disk
      /\ \A x \in Frame : /\ c.pages[x].id = b.pages[x].id
                          /\ x # f => c.pages[x].data = b.pages[x].data
  BY Zenon DEF Retouched
<1>3. z[p] = c.pages[f].data
  OBVIOUS
<1> HIDE DEF f
<1> SUFFICES ASSUME NEW k \in PT!Bucket, ~HeadFreed(b.table[k])
             PROVE  ChainCoherent(c, k, b.table[k], z)
  BY <1>2, Zenon DEF PoolCoherent
<1> DEFINE u == b.table[k]
<1>4. u \in Seq(PT!HashEl) /\ ChainCoherent(b, k, u, s)
  BY PoolType, Zenon DEF PoolCoherent, Sound
<1>5. PT!hash(p) = k => u = Chain(b, p)
  BY Zenon DEF Chain
<1> HIDE DEF u
<1>6. ASSUME NEW i \in 1 .. Len(u)
      PROVE  Holds(c, u[i].key, u[i].data, z)
  <2>1. u[i].key \in Page /\ u[i].data \in Frame
    BY <1>4, ChainType
  <2>2. Holds(b, u[i].key, u[i].data, s) /\ PT!hash(u[i].key) = k
    BY <1>4, Zenon DEF ChainCoherent
  <2>3. CASE u[i].data = f
    <3>1. u[i].key = p
      BY <1>1, <2>2, <2>3, Zenon DEF Holds
    <3> QED
      BY <1>2, <1>3, <2>1, <2>2, <2>3, <3>1, Zenon DEF Holds
  <2>4. CASE u[i].data # f
    <3>1. u[i].key # p
      BY <1>1, <1>5, <2>2, <2>4, ZenonT(30)
    <3> QED
      BY <1>2, <2>1, <2>2, <2>4, <3>1, Zenon DEF Holds
  <2> QED
    BY <2>3, <2>4, Zenon
<1>7. ASSUME NEW q \in Page, PT!hash(q) = k
      PROVE  (\E i \in 1 .. Len(u) : u[i].key = q) \/ c.disk[q] = z[q]
  <2>1. CASE q = p
    BY <1>1, <1>5, <1>7, <2>1, Zenon
  <2>2. CASE q # p
    BY <1>2, <1>4, <1>7, <2>2, Zenon DEF ChainCoherent
  <2> QED
    BY <2>1, <2>2
<1> QED
  BY <1>4, <1>6, <1>7, Zenon DEF ChainCoherent, u

\* A page put into a free frame, with the zeroes the caller is given.
LEMMA PlacedCoherent ==
  ASSUME NEW b, Sound(b), NEW s, PoolCoherent(b, s), NEW p \in Page, ~EntryFreed(b, p),
         ~Mapped(b, p), b.disk[p] # NoPage, NEW f \in b.free, NEW c, PlacedAt(b, c, p, f),
         NEW z, AgreeBut(z, s, p), z[p] = Zero
  PROVE  PoolCoherent(c, z)
<1> USE DEF AgreeBut
<1> DEFINE h == Chain(b, p)
           w == PageOf(p, 1, FALSE, Zero)
<1>1. /\ b.table \in [PT!Bucket -> Seq(PT!HashEl)] /\ b.pages \in [Frame -> BpmPage]
      /\ f \in Frame /\ h \in Seq(PT!HashEl) /\ PT!hash(p) \in PT!Bucket
  BY PoolType, ChainOf, HashType DEF Sound
<1>2. /\ ChainCoherent(b, PT!hash(p), h, s)
      /\ \A i \in 1 .. Len(h) : h[i].key # p
      /\ b.disk[p] = s[p]
  BY CoherentChain, CoherentFound, Zenon
<1>3. PT!NewEl(p, f).key = p /\ PT!NewEl(p, f).data = f /\ PT!NewEl(p, f).live = TRUE
  BY <1>1, NewElFields, Zenon
<1>4. w \in BpmPage /\ w.id = p /\ w.data = Zero
  <2>1. 1 \in Nat /\ Zero \in Content /\ FALSE \in BOOLEAN
    BY ContentAssumption
  <2>2. w \in BpmPage
    BY <2>1, PageMade, Zenon
  <2>3. w.id = p /\ w.data = Zero
    BY DEF PageOf
  <2> QED
    BY <2>2, <2>3, Zenon
<1>5. /\ c.pages[f] = w /\ c.free = b.free \ {f} /\ c.disk = b.disk
      /\ \A x \in Frame : x # f => c.pages[x] = b.pages[x]
  <2>1. c.pages = With(b.pages, f, w) /\ c.free = b.free \ {f} /\ c.disk = b.disk
    BY Zenon DEF PlacedAt
  <2> HIDE DEF w
  <2>2. With(b.pages, f, w)[f] = w /\ \A x \in Frame : x # f => With(b.pages, f, w)[x] = b.pages[x]
    BY <1>1, <1>4, WithPages
  <2> QED
    BY <2>1, <2>2, Zenon
<1> DEFINE d == Append(h, PT!NewEl(p, f))
<1>6. /\ d \in Seq(PT!HashEl) /\ Len(d) = Len(h) + 1 /\ Len(h) \in Nat
      /\ d[Len(h) + 1] = PT!NewEl(p, f)
      /\ \A i \in 1 .. Len(h) : d[i] = h[i]
  BY <1>1, AppendedChain, ZenonT(30) DEF Mapped
<1>7. /\ c.table[PT!hash(p)] = d
      /\ \A k \in PT!Bucket : k # PT!hash(p) => c.table[k] = b.table[k]
  <2>1. c.table = WithChain(b.table, PT!hash(p), d)
    BY Zenon DEF PlacedAt
  <2> HIDE DEF d
  <2>2. /\ WithChain(b.table, PT!hash(p), d)[PT!hash(p)] = d
        /\ \A k \in PT!Bucket : k # PT!hash(p) => WithChain(b.table, PT!hash(p), d)[k] = b.table[k]
    BY <1>1, <1>6, WithChains, ZenonT(30)
  <2> QED
    BY <2>1, <2>2, Zenon
<1>8. \A u : \A i \in 1 .. Len(u) :
        u[i].key \in Page /\ u[i].data \in Frame /\ u[i].key # p /\ Holds(b, u[i].key, u[i].data, s)
          => Holds(c, u[i].key, u[i].data, z)
  BY <1>5, Zenon DEF Holds
<1> HIDE DEF h, w, d
<1>9. ChainCoherent(c, PT!hash(p), d, z)
  <2>1. ASSUME NEW i \in 1 .. Len(h)
        PROVE  d[i] = h[i] /\ h[i].live = TRUE /\ PT!hash(h[i].key) = PT!hash(p)
               /\ Holds(c, h[i].key, h[i].data, z) /\ h[i].key # p
    <3>1. h[i].key \in Page /\ h[i].data \in Frame
      BY <1>1, ChainType
    <3>2. h[i].live = TRUE /\ PT!hash(h[i].key) = PT!hash(p) /\ Holds(b, h[i].key, h[i].data, s)
      BY <1>2, ZenonT(30) DEF ChainCoherent
    <3> QED
      BY <1>2, <1>6, <1>8, <3>1, <3>2, Zenon
  <2>2. Holds(c, p, f, z)
    BY <1>1, <1>4, <1>5, Zenon DEF Holds
  <2>3. \A i \in 1 .. Len(d) : i \in 1 .. Len(h) \/ i = Len(h) + 1
    BY <1>6, SMTT(30)
  <2>4. ASSUME NEW i \in 1 .. Len(d)
        PROVE  d[i].live = TRUE /\ PT!hash(d[i].key) = PT!hash(p)
               /\ Holds(c, d[i].key, d[i].data, z)
    <3>1. CASE i \in 1 .. Len(h)
      <4>1. d[i] = h[i]
        BY <2>1, <3>1, Zenon
      <4>2. /\ h[i].live = TRUE /\ PT!hash(h[i].key) = PT!hash(p)
            /\ Holds(c, h[i].key, h[i].data, z)
        BY <2>1, <3>1, ZenonT(30)
      <4> QED
        BY <4>1, <4>2
    <3>2. CASE i = Len(h) + 1
      BY <1>3, <1>6, <2>2, <3>2, Zenon
    <3> QED
      BY <2>3, <3>1, <3>2, Zenon
  <2>5. ASSUME NEW i \in 1 .. Len(d), NEW j \in 1 .. Len(d), d[i].key = d[j].key
        PROVE  i = j
    <3>1. CASE i \in 1 .. Len(h) /\ j \in 1 .. Len(h)
      BY <1>2, <2>1, <2>5, <3>1, Zenon DEF ChainCoherent
    <3>2. CASE i = Len(h) + 1 /\ j \in 1 .. Len(h)
      BY <1>3, <1>6, <2>1, <2>5, <3>2, Zenon
    <3>3. CASE i \in 1 .. Len(h) /\ j = Len(h) + 1
      BY <1>3, <1>6, <2>1, <2>5, <3>3, Zenon
    <3> QED
      BY <2>3, <3>1, <3>2, <3>3, Zenon
  <2>6. Len(h) + 1 \in 1 .. Len(d) /\ \A i \in 1 .. Len(h) : i \in 1 .. Len(d)
    BY <1>6
  <2>7. ASSUME NEW q \in Page, PT!hash(q) = PT!hash(p)
        PROVE  (\E i \in 1 .. Len(d) : d[i].key = q) \/ c.disk[q] = z[q]
    <3>1. CASE q = p
      BY <1>3, <1>6, <2>6, <3>1, Zenon
    <3>2. CASE q # p
      <4>1. (\E i \in 1 .. Len(h) : h[i].key = q) \/ b.disk[q] = s[q]
        BY <1>2, <2>7, Zenon DEF ChainCoherent
      <4>2. c.disk[q] = b.disk[q] /\ z[q] = s[q]
        BY <1>5, <3>2, Zenon
      <4>3. ASSUME NEW i \in 1 .. Len(h), h[i].key = q
            PROVE  \E j \in 1 .. Len(d) : d[j].key = q
        BY <2>1, <2>6, <4>3, Zenon
      <4> QED
        BY <4>1, <4>2, <4>3, Zenon
    <3> QED
      BY <3>1, <3>2
  <2> QED
    BY <2>4, <2>5, <2>7, Zenon DEF ChainCoherent
<1>10. ASSUME NEW k \in PT!Bucket, k # PT!hash(p), ChainCoherent(b, k, b.table[k], s)
       PROVE  ChainCoherent(c, k, b.table[k], z)
  <2> DEFINE u == b.table[k]
  <2>1. u \in Seq(PT!HashEl) /\ ChainCoherent(b, k, u, s)
    BY <1>1, <1>10
  <2> HIDE DEF u
  <2>2. ASSUME NEW i \in 1 .. Len(u)
        PROVE  u[i].live = TRUE /\ PT!hash(u[i].key) = k /\ Holds(c, u[i].key, u[i].data, z)
    <3>1. u[i].key \in Page /\ u[i].data \in Frame
      BY <2>1, ChainType
    <3>2. u[i].live = TRUE /\ PT!hash(u[i].key) = k /\ Holds(b, u[i].key, u[i].data, s)
      BY <2>1, Zenon DEF ChainCoherent
    <3>3. u[i].key # p
      BY <1>10, <3>2, Zenon
    <3> QED
      BY <1>8, <3>1, <3>2, <3>3, Zenon
  <2>3. ASSUME NEW q \in Page, PT!hash(q) = k
        PROVE  (\E i \in 1 .. Len(u) : u[i].key = q) \/ c.disk[q] = z[q]
    BY <1>5, <1>10, <2>1, <2>3, Zenon DEF ChainCoherent
  <2> QED
    BY <2>1, <2>2, <2>3, ZenonT(30) DEF ChainCoherent, u
<1> QED
  BY <1>7, <1>9, <1>10, ZenonT(30) DEF PoolCoherent

\* A page that is written back and leaves the pool.
LEMMA FlushedCoherent ==
  ASSUME NEW b, Sound(b), NEW s, PoolCoherent(b, s), NEW p \in Page, ~EntryFreed(b, p),
         Mapped(b, p), Ok(flush_page(b, p))
  PROVE  PoolCoherent(flush_page(b, p), s)
<1> DEFINE h == Chain(b, p)
           f == FrameOf(b, p)
           c == flush_page(b, p)
           d == PT!RemoveFrom(h, p, FALSE)
<1>1. /\ b.table \in [PT!Bucket -> Seq(PT!HashEl)] /\ b.pages \in [Frame -> BpmPage]
      /\ b.disk \in [Page -> Content \cup {NoPage}]
      /\ h \in Seq(PT!HashEl) /\ PT!hash(p) \in PT!Bucket
  BY PoolType, ChainOf, HashType, SMTT(30) DEF Sound
<1>2. /\ ChainCoherent(b, PT!hash(p), h, s)
      /\ f \in Frame /\ Holds(b, p, f, s)
      /\ \E i \in 1 .. Len(h) : h[i].key = p
  BY CoherentChain, CoherentFound, Zenon
<1>3. /\ c.pages = b.pages /\ c.free = b.free \cup {f}
      /\ c.disk = Written(b.disk, p, b.pages[f].data)
      /\ c.table = WithChain(b.table, PT!hash(p), d)
      /\ PT!Position(h, p, FALSE) = 1
  BY FlushPool, Zenon DEF EntryPosition
<1>4. /\ d \in Seq(PT!HashEl)
      /\ \/ Len(h) = 1 /\ d = <<>>
         \/ d # <<>> /\ d[1].live = FALSE
  BY <1>1, <1>3, RemoveFromChain, Zenon DEF Mapped
<1> HIDE DEF d, f, h, c
<1>5. /\ c.table[PT!hash(p)] = d
      /\ \A k \in PT!Bucket : k # PT!hash(p) => c.table[k] = b.table[k]
  <2>1. /\ WithChain(b.table, PT!hash(p), d)[PT!hash(p)] = d
        /\ \A k \in PT!Bucket : k # PT!hash(p) => WithChain(b.table, PT!hash(p), d)[k] = b.table[k]
    <3>1. /\ b.table \in [PT!Bucket -> Seq(PT!HashEl)] /\ PT!hash(p) \in PT!Bucket
          /\ d \in Seq(PT!HashEl)
      BY <1>1, <1>4, SMTT(30)
    <3> QED
      BY <3>1, WithChains, SMTT(30)
  <2> QED
    BY <1>3, <2>1, ZenonT(30)
<1>6. b.pages[f].data \in Content
  BY <1>1, <1>2, PageType, SMTT(30)
<1>7. /\ c.disk[p] = s[p]
      /\ \A q \in Page : q # p => c.disk[q] = b.disk[q]
  <2>1. c.disk[p] = b.pages[f].data /\ \A q \in Page : q # p => c.disk[q] = b.disk[q]
    <3>1. /\ Written(b.disk, p, b.pages[f].data)[p] = b.pages[f].data
          /\ \A q \in Page : q # p => Written(b.disk, p, b.pages[f].data)[q] = b.disk[q]
      BY <1>1, <1>6, WrittenDisk, SMTT(30)
    <3> QED
      BY <1>3, <3>1, ZenonT(30)
  <2> QED
    BY <1>2, <2>1, Zenon DEF Holds
<1>8. HeadFreed(d) \/ ChainCoherent(c, PT!hash(p), d, s)
  <2>1. CASE d # <<>> /\ d[1].live = FALSE
    BY <2>1, Zenon DEF HeadFreed
  <2>2. CASE Len(h) = 1 /\ d = <<>>
    <3>1. 1 .. Len(d) = {} /\ 1 .. Len(h) = {1}
      BY <2>2
    <3>2. ASSUME NEW q \in Page, PT!hash(q) = PT!hash(p)
          PROVE  c.disk[q] = s[q]
      <4>1. CASE q = p
        BY <1>7, <4>1
      <4>2. CASE q # p
        <5>1. ~\E i \in 1 .. Len(h) : h[i].key = q
          BY <1>2, <3>1, <4>2, SMTT(30)
        <5> QED
          BY <1>2, <1>7, <3>2, <4>2, <5>1, Zenon DEF ChainCoherent
      <4> QED
        BY <4>1, <4>2, SMTT(30)
    <3> QED
      BY <3>1, <3>2, Zenon DEF ChainCoherent
  <2> QED
    BY <1>4, <2>1, <2>2, Zenon
<1>9. ASSUME NEW k \in PT!Bucket, k # PT!hash(p), ChainCoherent(b, k, b.table[k], s)
      PROVE  ChainCoherent(c, k, b.table[k], s)
  <2> DEFINE u == b.table[k]
  <2>1. u \in Seq(PT!HashEl) /\ ChainCoherent(b, k, u, s)
    BY <1>1, <1>9, SMTT(30)
  <2> HIDE DEF u
  <2>2. ASSUME NEW i \in 1 .. Len(u)
        PROVE  u[i].live = TRUE /\ PT!hash(u[i].key) = k /\ Holds(c, u[i].key, u[i].data, s)
    <3>1. u[i].key \in Page /\ u[i].data \in Frame
      BY <2>1, ChainType
    <3>2. u[i].live = TRUE /\ PT!hash(u[i].key) = k /\ Holds(b, u[i].key, u[i].data, s)
      BY <2>1, Zenon DEF ChainCoherent
    <3>3. u[i].key # p
      BY <1>9, <3>2, Zenon
    <3>4. u[i].data # f
      BY <1>2, <3>2, <3>3, Zenon DEF Holds
    <3>5. u[i].data \notin c.free
      BY <1>3, <3>2, <3>4, SMTT(30) DEF Holds
    <3> QED
      BY <1>3, <1>7, <3>1, <3>2, <3>3, <3>5, Zenon DEF Holds
  <2>3. ASSUME NEW q \in Page, PT!hash(q) = k
        PROVE  (\E i \in 1 .. Len(u) : u[i].key = q) \/ c.disk[q] = s[q]
    BY <1>7, <1>9, <2>1, <2>3, Zenon DEF ChainCoherent
  <2> QED
    BY <2>1, <2>2, <2>3, ZenonT(30) DEF ChainCoherent, u
<1>10. PoolCoherent(c, s)
  BY <1>5, <1>8, <1>9, Zenon DEF PoolCoherent
<1> QED
  BY <1>10, Zenon DEF c

\* A page formatted past the end of the file.
LEMMA FormattedCoherent ==
  ASSUME NEW b, Sound(b), NEW s, PoolCoherent(b, s), NEW p \in Page, b.disk[p] = NoPage,
         NEW c, c.table = b.table, c.free = b.free, c.pages = b.pages,
         c.disk[p] # NoPage, \A q \in Page : q # p => c.disk[q] = b.disk[q],
         NEW z, AgreeBut(z, s, p), z[p] = c.disk[p]
  PROVE  PoolCoherent(c, z)
<1> USE DEF AgreeBut
<1> SUFFICES ASSUME NEW k \in PT!Bucket, ~HeadFreed(b.table[k])
             PROVE  ChainCoherent(c, k, b.table[k], z)
  BY Zenon DEF PoolCoherent
<1> DEFINE u == b.table[k]
<1>1. u \in Seq(PT!HashEl) /\ ChainCoherent(b, k, u, s)
  BY PoolType, Zenon DEF PoolCoherent, Sound
<1> HIDE DEF u
<1>2. ASSUME NEW i \in 1 .. Len(u)
      PROVE  Holds(c, u[i].key, u[i].data, z)
  <2>1. u[i].key \in Page
    BY <1>1, ChainType
  <2>2. Holds(b, u[i].key, u[i].data, s)
    BY <1>1, Zenon DEF ChainCoherent
  <2>3. u[i].key # p
    BY <2>2, Zenon DEF Holds
  <2> QED
    BY <2>1, <2>2, <2>3, Zenon DEF Holds
<1>3. ASSUME NEW q \in Page, PT!hash(q) = k
      PROVE  (\E i \in 1 .. Len(u) : u[i].key = q) \/ c.disk[q] = z[q]
  <2>1. CASE q = p
    BY <2>1
  <2>2. CASE q # p
    BY <1>1, <1>3, <2>2, Zenon DEF ChainCoherent
  <2> QED
    BY <2>1, <2>2, SMTT(30)
<1> QED
  BY <1>1, <1>2, <1>3, Zenon DEF ChainCoherent, u

\* Coherence does not depend on the replacer.
LEMMA SameButCoherent ==
  ASSUME NEW b, NEW s, PoolCoherent(b, s), NEW c, SameBut(b, c)
  PROVE  PoolCoherent(c, s)
<1>1. c.table = b.table /\ c.free = b.free /\ c.pages = b.pages /\ c.disk = b.disk
  BY Zenon DEF SameBut
<1>2. \A p, f : Holds(b, p, f, s) => Holds(c, p, f, s)
  BY <1>1, Zenon DEF Holds
<1> SUFFICES ASSUME NEW k \in PT!Bucket, ~HeadFreed(b.table[k])
             PROVE  ChainCoherent(c, k, b.table[k], s)
  BY <1>1, Zenon DEF PoolCoherent
<1> DEFINE u == b.table[k]
<1>3. ChainCoherent(b, k, u, s)
  BY Zenon DEF PoolCoherent
<1> HIDE DEF u
<1>4. ChainCoherent(c, k, u, s)
  BY <1>1, <1>2, <1>3, ZenonT(30) DEF ChainCoherent
<1> QED
  BY <1>4, Zenon DEF u

\* new_bpm_page, unless it takes a frame from a page.
LEMMA NewBpmCoherent ==
  ASSUME NEW b, Sound(b), Ok(b), NEW s \in [Page -> Content \cup {NoPage}], PoolCoherent(b, s),
         NEW p \in Page, b.disk[p] # NoPage,
         NEW c, c = new_bpm_page(b, p), Ok(c), ~TookFrame(b, p, c)
  PROVE  /\ PoolCoherent(c, IF ~Mapped(b, p) /\ Mapped(c, p) THEN [s EXCEPT ![p] = Zero] ELSE s)
         /\ c.disk = b.disk
<1> DEFINE z == [s EXCEPT ![p] = Zero]
<1>1. /\ ~EntryFreed(b, p)
      /\ Mapped(b, p) => c = b
      /\ ~Mapped(b, p) /\ b.free # {} => \E f \in b.free : PlacedAt(b, c, p, f)
      /\ ~Mapped(b, p) /\ b.free = {} => SameBut(b, c)
  BY NewBpmPage, Zenon DEF TookFrame
<1>2. z[p] = Zero /\ AgreeBut(z, s, p)
  BY DEF AgreeBut
<1> HIDE DEF z
<1>3. CASE Mapped(b, p)
  BY <1>1, <1>3, Zenon
<1>4. CASE ~Mapped(b, p) /\ b.free # {}
  <2>1. PICK f \in b.free : PlacedAt(b, c, p, f)
    BY <1>1, <1>4, ZenonT(30)
  <2>2. f \in Frame
    BY PoolType DEF Sound
  <2>3. Mapped(c, p)
    BY <1>4, <2>1, <2>2, PlacedFound, Zenon
  <2>4. PoolCoherent(c, z)
    BY <1>1, <1>2, <1>4, <2>1, PlacedCoherent, Zenon
  <2> QED
    BY <1>4, <2>1, <2>3, <2>4, Zenon DEF z, PlacedAt
<1>5. CASE ~Mapped(b, p) /\ b.free = {}
  <2>1. SameBut(b, c)
    BY <1>1, <1>5, Zenon
  <2>2. ~Mapped(c, p)
    BY <1>5, <2>1, Zenon DEF SameBut, Mapped, Chain
  <2>3. PoolCoherent(c, s)
    BY <2>1, SameButCoherent, Zenon
  <2> QED
    BY <2>1, <2>2, <2>3, Zenon DEF SameBut
<1> QED
  BY <1>3, <1>4, <1>5, SMTT(30)

\* Appending to a chain whose head is not freed does not free it.
LEMMA PlacedHead ==
  ASSUME NEW b, Sound(b), NEW p \in Page, ~EntryFreed(b, p), ~Mapped(b, p),
         NEW f \in Frame, NEW c, Sound(c), PlacedAt(b, c, p, f)
  PROVE  ~EntryFreed(c, p)
<1> DEFINE h == Chain(b, p)
           d == Append(h, PT!NewEl(p, f))
<1>1. h \in Seq(PT!HashEl)
  BY ChainOf DEF Sound
<1>2. ~HeadFreed(h) /\ Chain(c, p) = d
  BY EntryFreedHead, PlacedFound, Zenon
<1>3. /\ Len(h) \in Nat /\ d[Len(h) + 1] = PT!NewEl(p, f)
      /\ \A i \in 1 .. Len(h) : d[i] = h[i]
  BY <1>1, AppendedChain, ZenonT(30) DEF Mapped
<1>4. PT!NewEl(p, f).live = TRUE
  BY NewElFields, Zenon
<1> HIDE DEF h, d
<1>5. d[1].live # FALSE
  <2>1. CASE Len(h) = 0
    <3>1. d[1] = PT!NewEl(p, f)
      BY <1>3, <2>1
    <3> QED
      BY <1>4, <3>1, Zenon
  <2>2. CASE Len(h) # 0
    <3>1. 1 \in 1 .. Len(h) /\ h # <<>>
      BY <1>1, <1>3, <2>2, SMTT(30)
    <3> QED
      BY <1>2, <1>3, <3>1, Zenon DEF HeadFreed
  <2> QED
    BY <2>1, <2>2, Zenon
<1> QED
  BY <1>2, <1>5, EntryFreedHead, Zenon DEF HeadFreed

\* fetch_bpm_page, unless it takes a frame from a page.
LEMMA FetchCoherent ==
  ASSUME NEW b, Sound(b), Ok(b), NEW s \in [Page -> Content \cup {NoPage}], PoolCoherent(b, s),
         NEW p \in Page, b.disk[p] # NoPage,
         Ok(fetch_bpm_page(b, p)), ~TookFrame(b, p, fetch_bpm_page(b, p))
  PROVE  /\ PoolCoherent(fetch_bpm_page(b, p), s)
         /\ fetch_bpm_page(b, p).disk = b.disk
<1> DEFINE c == fetch_bpm_page(b, p)
<1>1. /\ ~EntryFreed(b, p)
      /\ Mapped(b, p) => LET f == FrameOf(b, p)
                         IN Retouched(b, c, f) /\ c.pages[f].data = b.pages[f].data
      /\ ~Mapped(b, p) /\ b.free # {} =>
           \E a, f : /\ Sound(a) /\ f \in b.free /\ PlacedAt(b, a, p, f)
                     /\ Retouched(a, c, f) /\ c.pages[f].data = b.disk[p]
      /\ ~Mapped(b, p) => b.free # {}
  <2>1. ~Mapped(b, p) /\ b.free = {} => c.replacer.victim # NoFrame
    BY FetchBpmPage, Zenon
  <2>2. ~Mapped(b, p) => b.free # {}
    BY <2>1, Zenon DEF TookFrame
  <2> QED
    BY <2>2, FetchBpmPage, Zenon
<1> HIDE DEF c
<1>2. CASE Mapped(b, p)
  <2> DEFINE f == FrameOf(b, p)
  <2>1. Retouched(b, c, f) /\ c.pages[f].data = b.pages[f].data
    BY <1>1, <1>2, ZenonT(30)
  <2>2. b.pages[f].data = s[p]
    <3>1. ~EntryFreed(b, p)
      BY <1>1, Zenon
    <3> QED
      BY <1>2, <3>1, CoherentData, SMTT(30)
  <2>3. s[p] = c.pages[f].data
    BY <2>1, <2>2
  <2>4. AgreeBut(s, s, p) /\ ~EntryFreed(b, p)
    BY <1>1, Zenon DEF AgreeBut
  <2>5. PoolCoherent(c, s)
    BY <1>2, <2>1, <2>3, <2>4, RetouchCoherent, Zenon
  <2> QED
    BY <2>1, <2>5, Zenon DEF Retouched, c
<1>3. CASE ~Mapped(b, p)
  <2>1. PICK a, f : /\ Sound(a) /\ f \in b.free /\ PlacedAt(b, a, p, f)
                    /\ Retouched(a, c, f) /\ c.pages[f].data = b.disk[p]
    BY <1>1, <1>3, ZenonT(30)
  <2>2. f \in Frame
    BY <2>1, PoolType DEF Sound
  <2>3. Mapped(a, p) /\ FrameOf(a, p) = f
    BY <1>3, <2>1, <2>2, PlacedFound, Zenon
  <2>4. ~EntryFreed(a, p)
    BY <1>1, <1>3, <2>1, <2>2, PlacedHead, Zenon
  <2> DEFINE z == [s EXCEPT ![p] = Zero]
  <2>5. z[p] = Zero /\ AgreeBut(z, s, p) /\ AgreeBut(s, z, p)
    BY DEF AgreeBut
  <2> HIDE DEF z
  <2>6. PoolCoherent(a, z)
    BY <1>1, <1>3, <2>1, <2>5, PlacedCoherent, Zenon
  <2>7. s[p] = c.pages[FrameOf(a, p)].data
    <3>1. b.disk[p] = s[p]
      <4>1. ~EntryFreed(b, p)
        BY <1>1, Zenon
      <4> QED
        BY <1>3, <4>1, CoherentData, Zenon
    <3> QED
      BY <2>1, <2>3, <3>1, Zenon
  <2>8. Retouched(a, c, FrameOf(a, p))
    BY <2>1, <2>3, Zenon
  <2>9. PoolCoherent(c, s)
    BY <2>1, <2>3, <2>4, <2>5, <2>6, <2>7, <2>8, RetouchCoherent, Zenon
  <2> QED
    BY <2>1, <2>9, Zenon DEF Retouched, PlacedAt, c
<1> QED
  BY <1>2, <1>3

\* flush_page, of whatever page.
LEMMA FlushCoherent ==
  ASSUME NEW b, Sound(b), NEW s, PoolCoherent(b, s), NEW p \in Page,
         Ok(flush_page(b, p))
  PROVE  /\ PoolCoherent(flush_page(b, p), s)
         /\ \A q \in Page : flush_page(b, p).disk[q] = NoPage <=> b.disk[q] = NoPage
<1> DEFINE c == flush_page(b, p)
<1>1. CASE EntryFreed(b, p)
  <2>1. c = Fails(b, "undefined")
    BY <1>1, Zenon DEF flush_page
  <2> QED
    BY <2>1, FailsPool
<1>2. CASE ~EntryFreed(b, p) /\ ~Mapped(b, p)
  <2>1. c = b
    BY <1>2, Zenon DEF flush_page
  <2> QED
    BY <2>1, Zenon
<1>3. CASE ~EntryFreed(b, p) /\ Mapped(b, p)
  <2> DEFINE f == FrameOf(b, p)
  <2>1. PoolCoherent(c, s)
    BY <1>3, FlushedCoherent, Zenon
  <2>2. f \in Frame /\ c.disk = Written(b.disk, p, b.pages[f].data)
    BY <1>3, FlushPool, Zenon
  <2>3. b.disk[p] # NoPage
    BY <1>3, CoherentFound, ZenonT(30) DEF Holds
  <2> HIDE DEF f
  <2>4. b.disk \in [Page -> Content \cup {NoPage}] /\ b.pages[f] \in BpmPage
    BY <2>2, PoolType, Zenon DEF Sound
  <2>5. b.pages[f].data \in Content
    BY <2>4, PageType, Zenon
  <2>6. /\ c.disk[p] = b.pages[f].data
        /\ \A q \in Page : q # p => c.disk[q] = b.disk[q]
    BY <2>2, <2>4, <2>5, WrittenDisk, SMTT(30)
  <2> QED
    BY <2>1, <2>3, <2>5, <2>6, ContentAssumption, Zenon
<1> QED
  BY <1>1, <1>2, <1>3, Zenon

\* unpin_page, of whatever page.
LEMMA UnpinAny ==
  ASSUME NEW b, Sound(b), NEW p \in Page, NEW dirty \in BOOLEAN
  PROVE  LET c == unpin_page(b, p, dirty)
             f == FrameOf(b, p)
         IN /\ Sound(c)
            /\ Ok(c) =>
                 \/ c = b
                 \/ /\ ~EntryFreed(b, p) /\ Mapped(b, p) /\ f \in Frame
                    /\ Retouched(b, c, f) /\ c.pages[f].data = b.pages[f].data
                    /\ \A x \in Frame : x # f => c.replacer.bit[x] = b.replacer.bit[x]
                    /\ b.pages[f].pin_count # 1 => c.replacer = b.replacer
<1> DEFINE c == unpin_page(b, p, dirty)
           f == FrameOf(b, p)
<1>1. CASE EntryFreed(b, p)
  <2>1. c = Fails(b, "undefined")
    BY <1>1, Zenon DEF unpin_page
  <2> HIDE DEF c
  <2>2. Sound(c) /\ ~Ok(c)
    BY <2>1, FailsPool
  <2> QED
    BY <2>2, Zenon DEF c
<1>2. CASE ~EntryFreed(b, p) /\ (~Mapped(b, p) \/ b.pages[f].pin_count = 0)
  <2>1. c = b
    BY <1>2, Zenon DEF unpin_page
  <2> QED
    BY <2>1, Zenon
<1>3. CASE ~EntryFreed(b, p) /\ Mapped(b, p) /\ b.pages[f].pin_count # 0
  <2>1. /\ Retouched(b, c, f) /\ c.pages[f].data = b.pages[f].data
        /\ c.replacer = IF b.pages[f].pin_count = 1
                        THEN clock_replacer_unpin(b.replacer, f) ELSE b.replacer
    BY <1>3, UnpinPool, Zenon
  <2>2. f \in Frame
    BY <1>3, FrameFound, Zenon
  <2> HIDE DEF c, f
  <2>3. Sound(c)
    BY <2>1, Zenon DEF Retouched
  <2>4. \A x \in Frame : x # f => c.replacer.bit[x] = b.replacer.bit[x]
    <3>1. CASE b.pages[f].pin_count = 1
      <4>1. c.replacer = clock_replacer_unpin(b.replacer, f) /\ Linked(b.replacer)
        BY <2>1, <3>1, Zenon DEF Sound
      <4> QED
        BY <2>2, <4>1, UnpinLinked, ZenonT(30)
    <3>2. CASE b.pages[f].pin_count # 1
      BY <2>1, <3>2, Zenon
    <3> QED
      BY <3>1, <3>2, SMTT(30)
  <2>5. b.pages[f].pin_count # 1 => c.replacer = b.replacer
    BY <2>1, Zenon
  <2> QED
    BY <1>3, <2>1, <2>2, <2>3, <2>4, <2>5, Zenon DEF c, f
<1> QED
  BY <1>1, <1>2, <1>3, Zenon
=============================================================================
