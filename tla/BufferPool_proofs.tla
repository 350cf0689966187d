-------------------------- MODULE BufferPool_proofs --------------------------
(***************************************************************************)
(* Proofs about the buffer pool for every capacity, file size, set of      *)
(* threads and set of page contents: each step of the specification keeps  *)
(* the inductive invariant, argued from the lemmas about the functions of  *)
(* bpm.c.                                                                  *)
(***************************************************************************)
EXTENDS BufferPool, BufferOps_proofs, FiniteSetTheorems
-----------------------------------------------------------------------------
(* The inductive invariant. *)

\* The pages being allocated are in the file.
AllocInFile(b, al) == \A t \in Thread : al[t] # NoPage => b.disk[al[t]] # NoPage

\* The file has no holes.
NoHoles(b) == \E n \in Nat : {p \in Page : b.disk[p] # NoPage} = 0 .. n - 1

\* Every frame that evict may take is free or was released.
Takeable(b, R) == \A f \in Frame : b.replacer.bit[f] # "none" => f \in R \/ f \in b.free

IInv ==
  /\ TypeOK
  /\ Linked(bpm.replacer)
  /\ Ok(bpm) /\ evicted = 0 => /\ PoolCoherent(bpm, store)
                               /\ AllocInFile(bpm, alloc)
                               /\ NoHoles(bpm)
  /\ Ok(bpm) => Takeable(bpm, released)

\* No frame is given to another page unless it was released.
FramesKept == \A f \in Frame : Reassigned(f) => f \in released

\* A step that leaves the pages of the file and starts no allocation.
LEMMA FileKept ==
  ASSUME NEW b, NEW c, \A q \in Page : c.disk[q] = NoPage <=> b.disk[q] = NoPage,
         NEW u \in [Thread -> Page \cup {NoPage}], AllocInFile(b, u),
         NEW v, \A t \in Thread : v[t] = NoPage \/ v[t] = u[t],
         NoHoles(b)
  PROVE  AllocInFile(c, v) /\ NoHoles(c)
<1>1. AllocInFile(c, v)
  <2> SUFFICES ASSUME NEW t \in Thread, v[t] # NoPage
               PROVE  c.disk[v[t]] # NoPage
    BY Zenon DEF AllocInFile
  <2>1. v[t] = u[t] /\ u[t] \in Page /\ b.disk[u[t]] # NoPage
    BY DEF AllocInFile
  <2> QED
    BY <2>1, Zenon
<1>2. {p \in Page : b.disk[p] # NoPage} = {p \in Page : c.disk[p] # NoPage}
  OBVIOUS
<1>3. NoHoles(c)
  BY <1>2, Zenon DEF NoHoles
<1> QED
  BY <1>1, <1>3

\* What the steps that go through new_bpm_page or flush_page do to the frames.
LEMMA TakeableKept ==
  ASSUME NEW b, NEW c, PinsKept(b, c), Ok(c), NEW R, Takeable(b, R)
  PROVE  /\ Takeable(c, R \cap Same(b, c))
         /\ \A f \in Frame : f \notin b.free /\ c.pages[f].id # b.pages[f].id => f \in R
<1>1. ASSUME NEW f \in Frame, c.replacer.bit[f] # "none", f \notin c.free
      PROVE  f \in R /\ f \in Same(b, c)
  <2>1. /\ b.replacer.bit[f] # "none" /\ c.pages[f].id = b.pages[f].id
        /\ f \in b.free <=> f \in c.free
    BY <1>1, Zenon DEF PinsKept
  <2>2. f \in R
    BY <1>1, <2>1, Zenon DEF Takeable
  <2> QED
    BY <2>1, <2>2, SMTT(30) DEF Same
<1>2. Takeable(c, R \cap Same(b, c))
  BY <1>1, Zenon DEF Takeable
<1>3. ASSUME NEW f \in Frame, f \notin b.free, c.pages[f].id # b.pages[f].id
      PROVE  f \in R
  BY <1>3, Zenon DEF PinsKept, Takeable
<1> QED
  BY <1>2, <1>3, Zenon

\* What the invariant says of the pool and of the variables.
LEMMA FromInv ==
  ASSUME IInv
  PROVE  /\ Sound(bpm)
         /\ latch \in Thread \cup {NoThread}
         /\ alloc \in [Thread -> Page \cup {NoPage}]
         /\ store \in [Page -> Content \cup {NoPage}]
         /\ released \in SUBSET Frame
         /\ evicted \in Nat
BY DEF IInv, TypeOK, Sound

\* What makes the invariant hold after a step.
LEMMA ToInv ==
  ASSUME Sound(bpm'),
         latch' \in Thread \cup {NoThread},
         alloc' \in [Thread -> Page \cup {NoPage}],
         store' \in [Page -> Content \cup {NoPage}],
         released' \in SUBSET Frame,
         evicted' \in Nat,
         Ok(bpm') /\ evicted' = 0 => /\ PoolCoherent(bpm', store')
                                     /\ AllocInFile(bpm', alloc')
                                     /\ NoHoles(bpm'),
         Ok(bpm') => Takeable(bpm', released')
  PROVE  IInv'
<1>1. TypeOK' /\ Linked(bpm'.replacer)
  BY DEF TypeOK, Sound
<1>2. /\ Ok(bpm)' <=> Ok(bpm')
      /\ PoolCoherent(bpm, store)' <=> PoolCoherent(bpm', store')
      /\ AllocInFile(bpm, alloc)' <=> AllocInFile(bpm', alloc')
      /\ NoHoles(bpm)' <=> NoHoles(bpm')
      /\ Takeable(bpm, released)' <=> Takeable(bpm', released')
  OBVIOUS
<1> QED
  BY <1>1, <1>2, Zenon DEF IInv

\* One round of the loop of allocate_new_page.
LEMMA AttemptInv ==
  ASSUME IInv, NEW t \in Thread, Attempt(t)
  PROVE  IInv' /\ FramesKept
<1> DEFINE p == alloc[t]
<1>1. /\ Sound(bpm) /\ latch \in Thread \cup {NoThread}
      /\ alloc \in [Thread -> Page \cup {NoPage}]
      /\ store \in [Page -> Content \cup {NoPage}]
      /\ released \in SUBSET Frame /\ evicted \in Nat
  BY FromInv
<1>2. /\ Ok(bpm) /\ p # NoPage
      /\ bpm' = The({new_bpm_page(bpm, p)})
      /\ latch' = IF EvictsEmpty(bpm, p) THEN t ELSE NoThread
      /\ alloc' = [alloc EXCEPT ![t] = IF Ok(bpm') /\ Mapped(bpm', p) THEN NoPage ELSE p]
      /\ evicted' = IF TookFrame(bpm, p, bpm') THEN evicted + 1 ELSE evicted
      /\ released' = released \cap Same(bpm, bpm')
      /\ store' = IF ~Mapped(bpm, p) /\ Mapped(bpm', p) THEN [store EXCEPT ![p] = Zero]
                  ELSE store
  BY Zenon DEF Attempt
<1>3. bpm' = new_bpm_page(bpm, p)
  <2>1. \A x : The({x}) = x
    BY DEF The
  <2> QED
    BY <1>2, <2>1, Zenon
<1>4. p \in Page
  BY <1>1, <1>2, Zenon
<1>5. p = alloc[t]
  OBVIOUS
<1> HIDE DEF p
<1>6. Sound(bpm') /\ PinsKept(bpm, bpm')
  BY <1>1, <1>2, <1>3, <1>4, NewBpmPage, Zenon
<1>7. /\ latch' \in Thread \cup {NoThread}
      /\ released' \in SUBSET Frame
      /\ store' \in [Page -> Content \cup {NoPage}]
  BY <1>1, <1>2, <1>4, ContentAssumption, Zenon
<1>8. /\ alloc' \in [Thread -> Page \cup {NoPage}]
      /\ \A x \in Thread : alloc'[x] = NoPage \/ alloc'[x] = alloc[x]
  BY <1>1, <1>2, <1>4, <1>5, Zenon
<1>9. evicted' \in Nat /\ (evicted' = 0 => evicted = 0 /\ ~TookFrame(bpm, p, bpm'))
  BY <1>1, <1>2, SMTT(30)
<1>10. ASSUME Ok(bpm'), evicted' = 0
       PROVE  PoolCoherent(bpm', store') /\ AllocInFile(bpm', alloc') /\ NoHoles(bpm')
  <2>1. PoolCoherent(bpm, store) /\ AllocInFile(bpm, alloc) /\ NoHoles(bpm)
    BY <1>2, <1>9, <1>10, Zenon DEF IInv
  <2>2. bpm.disk[p] # NoPage
    BY <1>2, <1>5, <2>1, Zenon DEF AllocInFile
  <2>3. PoolCoherent(bpm', store') /\ bpm'.disk = bpm.disk
    BY <1>1, <1>2, <1>3, <1>4, <1>9, <1>10, <2>1, <2>2, NewBpmCoherent, Zenon
  <2>4. \A q \in Page : bpm'.disk[q] = NoPage <=> bpm.disk[q] = NoPage
    BY <2>3, Zenon
  <2> QED
    BY <1>1, <1>8, <2>1, <2>3, <2>4, FileKept, Zenon
<1>11. ASSUME Ok(bpm')
       PROVE  Takeable(bpm', released') /\ FramesKept
  <2>1. Takeable(bpm, released)
    BY <1>2, Zenon DEF IInv
  <2> QED
    BY <1>2, <1>6, <1>11, <2>1, TakeableKept, Zenon DEF FramesKept, Reassigned
<1>12. ~Ok(bpm') => FramesKept
  BY Zenon DEF FramesKept, Reassigned
<1>13. IInv'
  BY <1>6, <1>7, <1>8, <1>9, <1>10, <1>11, ToInv, Zenon
<1> QED
  BY <1>11, <1>12, <1>13, Zenon

\* A fetch, of whatever page.
LEMMA FetchInv ==
  ASSUME IInv, NEW t \in Thread, NEW p \in Page, Fetch(t, p)
  PROVE  IInv' /\ FramesKept
<1>1. /\ Sound(bpm) /\ latch \in Thread \cup {NoThread}
      /\ alloc \in [Thread -> Page \cup {NoPage}]
      /\ store \in [Page -> Content \cup {NoPage}]
      /\ released \in SUBSET Frame /\ evicted \in Nat
  BY FromInv
<1>2. /\ Ok(bpm) /\ p \in OnDisk
      /\ bpm' = fetch_bpm_page(bpm, p)
      /\ latch' = IF Mapped(bpm, p) THEN latch
                  ELSE IF EvictsEmpty(bpm, p) THEN t ELSE NoThread
      /\ evicted' = IF TookFrame(bpm, p, bpm') THEN evicted + 1 ELSE evicted
      /\ released' = released \cap Same(bpm, bpm')
      /\ alloc' = alloc /\ store' = store
  BY Zenon DEF Fetch, Ready
<1>3. bpm.disk[p] # NoPage
  BY <1>2 DEF OnDisk
<1>4. Sound(bpm') /\ PinsKept(bpm, bpm')
  BY <1>1, <1>2, <1>3, FetchBpmPage, Zenon
<1>5. /\ latch' \in Thread \cup {NoThread}
      /\ released' \in SUBSET Frame
  BY <1>1, <1>2, Zenon
<1>6. evicted' \in Nat /\ (evicted' = 0 => evicted = 0 /\ ~TookFrame(bpm, p, bpm'))
  BY <1>1, <1>2
<1>7. ASSUME Ok(bpm'), evicted' = 0
      PROVE  PoolCoherent(bpm', store') /\ AllocInFile(bpm', alloc') /\ NoHoles(bpm')
  <2>1. PoolCoherent(bpm, store) /\ AllocInFile(bpm, alloc) /\ NoHoles(bpm)
    BY <1>2, <1>6, <1>7, Zenon DEF IInv
  <2>2. PoolCoherent(bpm', store) /\ bpm'.disk = bpm.disk
    BY <1>1, <1>2, <1>3, <1>6, <1>7, <2>1, FetchCoherent, Zenon
  <2>3. \A q \in Page : bpm'.disk[q] = NoPage <=> bpm.disk[q] = NoPage
    BY <2>2, Zenon
  <2>4. \A x \in Thread : alloc'[x] = NoPage \/ alloc'[x] = alloc[x]
    BY <1>2, Zenon
  <2>5. AllocInFile(bpm', alloc') /\ NoHoles(bpm')
    BY <1>1, <2>1, <2>3, <2>4, FileKept, Zenon
  <2> QED
    BY <1>2, <2>2, <2>5, Zenon
<1>8. ASSUME Ok(bpm')
      PROVE  Takeable(bpm', released') /\ FramesKept
  <2>1. Takeable(bpm, released)
    BY <1>2, Zenon DEF IInv
  <2> QED
    BY <1>2, <1>4, <1>8, <2>1, TakeableKept, Zenon DEF FramesKept, Reassigned
<1>9. ~Ok(bpm') => FramesKept
  BY Zenon DEF FramesKept, Reassigned
<1>10. IInv'
  BY <1>1, <1>2, <1>4, <1>5, <1>6, <1>7, <1>8, ToInv, Zenon
<1> QED
  BY <1>8, <1>9, <1>10, Zenon

\* An unpin, of whatever page.
LEMMA UnpinInv ==
  ASSUME IInv, NEW t \in Thread, NEW p \in Page, NEW dirty \in BOOLEAN, Unpin(t, p, dirty)
  PROVE  IInv' /\ FramesKept
<1> DEFINE f == FrameOf(bpm, p)
           last == Mapped(bpm, p) /\ bpm.pages[f].pin_count = 1
<1>1. /\ Sound(bpm) /\ latch \in Thread \cup {NoThread}
      /\ alloc \in [Thread -> Page \cup {NoPage}]
      /\ store \in [Page -> Content \cup {NoPage}]
      /\ released \in SUBSET Frame /\ evicted \in Nat
  BY FromInv
<1>2. /\ Ok(bpm)
      /\ bpm' = unpin_page(bpm, p, dirty)
      /\ latch' = IF last THEN NoThread ELSE latch
      /\ released' = IF last THEN released \cup {f} ELSE released
      /\ alloc' = alloc /\ store' = store /\ evicted' = evicted
  BY Zenon DEF Unpin, Ready
<1>3. Mapped(bpm, p) => f \in Frame
  BY <1>1, FrameFound, Zenon
<1>4. /\ Sound(bpm')
      /\ Ok(bpm') =>
           \/ bpm' = bpm
           \/ /\ ~EntryFreed(bpm, p) /\ Mapped(bpm, p)
              /\ Retouched(bpm, bpm', f) /\ bpm'.pages[f].data = bpm.pages[f].data
              /\ \A x \in Frame : x # f => bpm'.replacer.bit[x] = bpm.replacer.bit[x]
              /\ bpm.pages[f].pin_count # 1 => bpm'.replacer = bpm.replacer
  BY <1>1, <1>2, UnpinAny, Zenon
<1>5. /\ latch' \in Thread \cup {NoThread}
      /\ released' \in SUBSET Frame
      /\ released \subseteq released'
      /\ last => f \in released'
  <2>1. CASE last
    <3>1. f \in Frame
      BY <1>3, <2>1, ZenonT(30)
    <3> HIDE DEF f, last
    <3> QED
      BY <1>1, <1>2, <2>1, <3>1, Zenon
  <2>2. CASE ~last
    <3> HIDE DEF f, last
    <3> QED
      BY <1>1, <1>2, <2>2, Zenon
  <2> QED
    BY <2>1, <2>2, Zenon
<1>6. ASSUME Ok(bpm')
      PROVE  bpm' = bpm \/ Retouched(bpm, bpm', f)
  <2>1. CASE bpm' = bpm
    BY <2>1
  <2>2. CASE bpm' # bpm
    BY <1>4, <1>6, <2>2, Zenon
  <2> QED
    BY <2>1, <2>2, Zenon
<1>7. ASSUME Ok(bpm'), evicted' = 0
      PROVE  PoolCoherent(bpm', store') /\ AllocInFile(bpm', alloc') /\ NoHoles(bpm')
  <2>1. PoolCoherent(bpm, store) /\ AllocInFile(bpm, alloc) /\ NoHoles(bpm)
    BY <1>2, <1>7, Zenon DEF IInv
  <2>2. CASE bpm' = bpm
    BY <1>2, <2>1, <2>2, Zenon
  <2>3. CASE bpm' # bpm
    <3>1. /\ ~EntryFreed(bpm, p) /\ Mapped(bpm, p)
          /\ Retouched(bpm, bpm', f) /\ bpm'.pages[f].data = bpm.pages[f].data
      BY <1>4, <1>7, <2>3, Zenon
    <3>2. bpm.pages[f].data = store[p]
      <4>1. Sound(bpm) /\ PoolCoherent(bpm, store) /\ ~EntryFreed(bpm, p) /\ Mapped(bpm, p)
        BY <1>1, <2>1, <3>1, Zenon
      <4> QED
        BY <4>1, CoherentData, Zenon
    <3>3. store[p] = bpm'.pages[f].data /\ AgreeBut(store, store, p)
      BY <3>1, <3>2, Zenon DEF AgreeBut
    <3>4. PoolCoherent(bpm', store)
      BY <1>1, <2>1, <3>1, <3>3, RetouchCoherent, Zenon
    <3>5. bpm'.disk = bpm.disk
      BY <3>1, Zenon DEF Retouched
    <3>6. \A q \in Page : bpm'.disk[q] = NoPage <=> bpm.disk[q] = NoPage
      BY <3>5, Zenon
    <3>7. \A x \in Thread : alloc'[x] = NoPage \/ alloc'[x] = alloc[x]
      BY <1>2, Zenon
    <3>8. AllocInFile(bpm', alloc') /\ NoHoles(bpm')
      BY <1>1, <2>1, <3>6, <3>7, FileKept, Zenon
    <3> QED
      BY <1>2, <3>4, <3>8, Zenon
  <2> QED
    BY <2>2, <2>3, Zenon
<1>8. ASSUME Ok(bpm')
      PROVE  Takeable(bpm', released')
  <2>1. Takeable(bpm, released)
    BY <1>2, Zenon DEF IInv
  <2>2. CASE bpm' = bpm
    BY <1>5, <2>1, <2>2, Zenon DEF Takeable
  <2>3. CASE bpm' # bpm
    <3>1. /\ Mapped(bpm, p) /\ bpm'.free = bpm.free
          /\ \A x \in Frame : x # f => bpm'.replacer.bit[x] = bpm.replacer.bit[x]
          /\ bpm.pages[f].pin_count # 1 => bpm'.replacer = bpm.replacer
      BY <1>4, <1>8, <2>3, Zenon DEF Retouched
    <3>2. f \in released' \/ bpm'.replacer = bpm.replacer
      BY <1>5, <3>1, Zenon
    <3> HIDE DEF f, last
    <3> SUFFICES ASSUME NEW x \in Frame, bpm'.replacer.bit[x] # "none"
                 PROVE  x \in released' \/ x \in bpm'.free
      BY Zenon DEF Takeable
    <3>3. x \in released' \/ bpm.replacer.bit[x] # "none"
      BY <3>1, <3>2, Zenon
    <3>4. bpm.replacer.bit[x] # "none" => x \in released \/ x \in bpm.free
      BY <2>1, Zenon DEF Takeable
    <3> QED
      BY <1>5, <3>1, <3>3, <3>4, Zenon
  <2> QED
    BY <2>2, <2>3, Zenon
<1>9. FramesKept
  <2>1. ASSUME Ok(bpm'), NEW x \in Frame
        PROVE  bpm'.pages[x].id = bpm.pages[x].id
    BY <1>6, <2>1, Zenon DEF Retouched
  <2> QED
    BY <2>1, Zenon DEF FramesKept, Reassigned
<1>10. IInv'
  BY <1>1, <1>2, <1>4, <1>5, <1>7, <1>8, ToInv, Zenon
<1> QED
  BY <1>9, <1>10, Zenon

\* A caller writes to the frame under a page.
LEMMA WriteInv ==
  ASSUME IInv, NEW t \in Thread, NEW p \in Page, NEW d \in Content, Write(t, p, d)
  PROVE  IInv' /\ FramesKept
<1> DEFINE f == FrameOf(bpm, p)
<1>1. /\ Sound(bpm) /\ latch \in Thread \cup {NoThread}
      /\ alloc \in [Thread -> Page \cup {NoPage}]
      /\ store \in [Page -> Content \cup {NoPage}]
      /\ released \in SUBSET Frame /\ evicted \in Nat
  BY FromInv
<1>2. /\ Ok(bpm) /\ ~EntryFreed(bpm, p) /\ Mapped(bpm, p)
      /\ bpm' = write_to_frame(bpm, f, d)
      /\ store' = [store EXCEPT ![p] = d]
      /\ latch' = latch /\ alloc' = alloc /\ released' = released /\ evicted' = evicted
  BY Zenon DEF Write, Ready
<1>3. Retouched(bpm, bpm', f) /\ bpm'.pages[f].data = d /\ bpm'.replacer = bpm.replacer
  BY <1>1, <1>2, WritePool, Zenon
<1>4. /\ store' \in [Page -> Content \cup {NoPage}]
      /\ store'[p] = d /\ AgreeBut(store', store, p)
  <2> HIDE DEF f
  <2> QED
    BY <1>1, <1>2, Zenon DEF AgreeBut
<1>5. /\ Sound(bpm') /\ bpm'.disk = bpm.disk /\ bpm'.free = bpm.free
      /\ \A x \in Frame : bpm'.pages[x].id = bpm.pages[x].id
  BY <1>3, Zenon DEF Retouched
<1>6. ASSUME evicted' = 0
      PROVE  PoolCoherent(bpm', store') /\ AllocInFile(bpm', alloc') /\ NoHoles(bpm')
  <2>1. PoolCoherent(bpm, store) /\ AllocInFile(bpm, alloc) /\ NoHoles(bpm)
    BY <1>2, <1>6, ZenonT(30) DEF IInv
  <2>2. store'[p] = bpm'.pages[f].data
    BY <1>3, <1>4, Zenon
  <2>3. PoolCoherent(bpm', store')
    BY <1>1, <1>2, <1>3, <1>4, <2>1, <2>2, RetouchCoherent, Zenon
  <2>4. \A q \in Page : bpm'.disk[q] = NoPage <=> bpm.disk[q] = NoPage
    BY <1>5, Zenon
  <2>5. \A x \in Thread : alloc'[x] = NoPage \/ alloc'[x] = alloc[x]
    BY <1>2, Zenon
  <2>6. AllocInFile(bpm', alloc') /\ NoHoles(bpm')
    BY <1>1, <2>1, <2>4, <2>5, FileKept, Zenon
  <2> QED
    BY <2>3, <2>6, Zenon
<1>7. Takeable(bpm', released')
  BY <1>2, <1>3, <1>5, Zenon DEF IInv, Takeable
<1>8. IInv'
  BY <1>1, <1>2, <1>4, <1>5, <1>6, <1>7, ToInv, Zenon
<1>9. FramesKept
  BY <1>5, Zenon DEF FramesKept, Reassigned
<1> QED
  BY <1>8, <1>9, Zenon

\* A flush, of whatever page.
LEMMA FlushInv ==
  ASSUME IInv, NEW t \in Thread, NEW p \in Page, Flush(t, p)
  PROVE  IInv' /\ FramesKept
<1>1. /\ Sound(bpm) /\ latch \in Thread \cup {NoThread}
      /\ alloc \in [Thread -> Page \cup {NoPage}]
      /\ store \in [Page -> Content \cup {NoPage}]
      /\ released \in SUBSET Frame /\ evicted \in Nat
  BY FromInv
<1>2. /\ Ok(bpm)
      /\ bpm' = flush_page(bpm, p)
      /\ latch' = IF Mapped(bpm, p) THEN NoThread ELSE latch
      /\ released' = released \cap Same(bpm, bpm')
      /\ alloc' = alloc /\ store' = store /\ evicted' = evicted
  BY Zenon DEF Flush, Ready
<1>3. Sound(bpm') /\ PinsKept(bpm, bpm')
  BY <1>1, <1>2, FlushAny, Zenon
<1>4. /\ latch' \in Thread \cup {NoThread}
      /\ released' \in SUBSET Frame
  BY <1>1, <1>2, Zenon
<1>5. ASSUME Ok(bpm'), evicted' = 0
      PROVE  PoolCoherent(bpm', store') /\ AllocInFile(bpm', alloc') /\ NoHoles(bpm')
  <2>1. PoolCoherent(bpm, store) /\ AllocInFile(bpm, alloc) /\ NoHoles(bpm)
    BY <1>2, <1>5, Zenon DEF IInv
  <2>2. /\ PoolCoherent(bpm', store)
        /\ \A q \in Page : bpm'.disk[q] = NoPage <=> bpm.disk[q] = NoPage
    <3>1. Sound(bpm) /\ PoolCoherent(bpm, store) /\ bpm' = flush_page(bpm, p) /\ Ok(bpm')
      BY <1>1, <1>2, <1>5, <2>1, Zenon
    <3> QED
      BY <3>1, FlushCoherent, Zenon
  <2>3. \A x \in Thread : alloc'[x] = NoPage \/ alloc'[x] = alloc[x]
    BY <1>2, Zenon
  <2>4. AllocInFile(bpm', alloc') /\ NoHoles(bpm')
    BY <1>1, <2>1, <2>2, <2>3, FileKept, Zenon
  <2> QED
    BY <1>2, <2>2, <2>4, Zenon
<1>6. ASSUME Ok(bpm')
      PROVE  Takeable(bpm', released') /\ FramesKept
  <2>1. Takeable(bpm, released)
    BY <1>2, Zenon DEF IInv
  <2> QED
    BY <1>2, <1>3, <1>6, <2>1, TakeableKept, Zenon DEF FramesKept, Reassigned
<1>7. ~Ok(bpm') => FramesKept
  BY Zenon DEF FramesKept, Reassigned
<1>8. IInv'
  BY <1>1, <1>2, <1>3, <1>4, <1>5, <1>6, ToInv, Zenon
<1> QED
  BY <1>6, <1>7, <1>8

\* The pool new_bpm makes, over a file that holds its metadata page only.
LEMMA InitInv == Init => IInv
<1> SUFFICES ASSUME Init
             PROVE  IInv
  OBVIOUS
<1> DEFINE g == [f \in Frame |-> PageOf(0, 0, FALSE, Zero)]
           u == [k \in PT!Bucket |-> <<>>]
<1>1. /\ bpm = PoolOf(u, Frame, g, clock_replacer_init, EmptyFile)
      /\ latch = NoThread /\ alloc = [t \in Thread |-> NoPage] /\ store = EmptyFile
      /\ released = {} /\ evicted = 0
  BY Zenon DEF Init, new_bpm, PoolOf, PageOf
<1>2. 0 \in Page /\ 0 \in Nat /\ Zero \in Content /\ Zero # NoPage
  BY MaxPageAssumption, ContentAssumption, SMTT(30) DEF Page
<1>3. /\ u \in [PT!Bucket -> Seq(PT!HashEl)]
      /\ \A k \in PT!Bucket : u[k] = <<>>
  OBVIOUS
<1>4. g \in [Frame -> BpmPage]
  <2>1. PageOf(0, 0, FALSE, Zero) \in BpmPage
    BY <1>2, PageMade, Zenon
  <2> QED
    BY <2>1, Zenon
<1>5. /\ EmptyFile \in [Page -> Content \cup {NoPage}]
      /\ {p \in Page : EmptyFile[p] # NoPage} = {0}
  BY <1>2 DEF EmptyFile
<1> HIDE DEF g, u
<1>6. Sound(bpm)
  BY <1>1, <1>3, <1>4, <1>5, InitLinked, PoolMade, Zenon
<1>7. bpm.table = u /\ bpm.disk = EmptyFile /\ bpm.replacer = clock_replacer_init
  BY <1>1, Zenon DEF PoolOf
<1>8. TypeOK /\ Linked(bpm.replacer)
  BY <1>1, <1>5, <1>6, Zenon DEF TypeOK, Sound
<1>9. PoolCoherent(bpm, store)
  <2> SUFFICES ASSUME NEW k \in PT!Bucket
               PROVE  ChainCoherent(bpm, k, bpm.table[k], store)
    BY Zenon DEF PoolCoherent
  <2>1. bpm.table[k] = <<>> /\ \A q \in Page : bpm.disk[q] = store[q]
    BY <1>1, <1>3, <1>7, Zenon
  <2>2. 1 .. Len(<<>>) = {}
    OBVIOUS
  <2> QED
    BY <2>1, <2>2, Zenon DEF ChainCoherent
<1>10. AllocInFile(bpm, alloc)
  BY <1>1 DEF AllocInFile
<1>11. NoHoles(bpm)
  <2>1. 0 .. 1 - 1 = {0} /\ 1 \in Nat
    OBVIOUS
  <2>2. {p \in Page : bpm.disk[p] # NoPage} = 0 .. 1 - 1
    BY <1>5, <1>7, <2>1, Zenon
  <2> QED
    BY <2>1, <2>2, Zenon DEF NoHoles
<1>12. Takeable(bpm, released)
  BY <1>7, InitLinked, Zenon DEF Takeable
<1> QED
  BY <1>8, <1>9, <1>10, <1>11, <1>12, Zenon DEF IInv
-----------------------------------------------------------------------------
(* The theorems. *)

\* allocate_new_page writes the page behind the last one of the file.
LEMMA NewPageInv ==
  ASSUME IInv, NEW t \in Thread, NewPage(t)
  PROVE  IInv' /\ FramesKept
<1> DEFINE p == Cardinality(OnDisk)
<1>1. /\ Sound(bpm) /\ latch \in Thread \cup {NoThread}
      /\ alloc \in [Thread -> Page \cup {NoPage}]
      /\ store \in [Page -> Content \cup {NoPage}]
      /\ released \in SUBSET Frame /\ evicted \in Nat
  BY FromInv
<1>2. /\ Ok(bpm) /\ p \in Page
      /\ bpm' = [bpm EXCEPT !.disk[p] = Fresh]
      /\ store' = [store EXCEPT ![p] = Fresh]
      /\ alloc' = [alloc EXCEPT ![t] = p]
      /\ latch' = latch /\ released' = released /\ evicted' = evicted
  BY Zenon DEF NewPage, Ready
<1>3. Fresh \in Content /\ Fresh # NoPage
  BY FreshAssumption, ContentAssumption, Zenon
<1>4. p = Cardinality(OnDisk)
  OBVIOUS
<1> HIDE DEF p
<1>5. /\ Sound(bpm')
      /\ bpm'.table = bpm.table /\ bpm'.free = bpm.free /\ bpm'.pages = bpm.pages
      /\ bpm'.replacer = bpm.replacer /\ bpm'.disk = Written(bpm.disk, p, Fresh)
  <2> DEFINE c == [bpm EXCEPT !.disk[p] = Fresh]
  <2>1. /\ Sound(c)
        /\ c.table = bpm.table /\ c.free = bpm.free /\ c.pages = bpm.pages
        /\ c.replacer = bpm.replacer /\ c.disk = Written(bpm.disk, p, Fresh)
    <3>1. Sound(bpm) /\ p \in Page /\ Fresh \in Content
      BY <1>1, <1>2, <1>3, Zenon
    <3> QED
      BY <3>1, DiskPool, Zenon
  <2>2. bpm' = c
    BY <1>2, Zenon
  <2> HIDE DEF c
  <2> QED
    BY <2>1, <2>2, Zenon
<1>6. /\ bpm'.disk[p] = Fresh
      /\ \A q \in Page : q # p => bpm'.disk[q] = bpm.disk[q]
  <2>1. bpm.disk \in [Page -> Content \cup {NoPage}]
    BY <1>1, PoolType, Zenon DEF Sound
  <2> QED
    BY <1>2, <1>3, <1>5, <2>1, WrittenDisk, SMTT(30)
<1>7. /\ alloc' \in [Thread -> Page \cup {NoPage}]
      /\ store' \in [Page -> Content \cup {NoPage}]
      /\ store'[p] = Fresh /\ AgreeBut(store', store, p)
      /\ \A x \in Thread : alloc'[x] = p \/ alloc'[x] = alloc[x]
  BY <1>1, <1>2, <1>3, Zenon DEF AgreeBut
<1>8. ASSUME evicted = 0
      PROVE  PoolCoherent(bpm', store') /\ AllocInFile(bpm', alloc') /\ NoHoles(bpm')
  <2>1. PoolCoherent(bpm, store) /\ AllocInFile(bpm, alloc) /\ NoHoles(bpm)
    BY <1>2, <1>8, Zenon DEF IInv
  <2>2. PICK n \in Nat : {q \in Page : bpm.disk[q] # NoPage} = 0 .. n - 1
    BY <2>1, Zenon DEF NoHoles
  <2>3. p = n
    <3>1. OnDisk = 0 .. n - 1
      BY <2>2, Zenon DEF OnDisk
    <3>2. Cardinality(0 .. n - 1) = n
      BY FS_Interval
    <3> QED
      BY <1>4, <3>1, <3>2, Zenon
  <2>4. bpm.disk[p] = NoPage
    <3>1. p \notin 0 .. n - 1
      BY <2>3
    <3> QED
      BY <1>2, <2>2, <3>1, Zenon
  <2>5. PoolCoherent(bpm', store')
    <3>1. /\ Sound(bpm) /\ PoolCoherent(bpm, store) /\ p \in Page
          /\ AgreeBut(store', store, p)
      BY <1>1, <1>2, <1>7, <2>1, Zenon
    <3>2. bpm'.table = bpm.table /\ bpm'.free = bpm.free /\ bpm'.pages = bpm.pages
      BY <1>5, Zenon
    <3>3. bpm'.disk[p] # NoPage /\ store'[p] = bpm'.disk[p]
      BY <1>3, <1>6, <1>7, Zenon
    <3> QED
      BY <1>6, <2>4, <3>1, <3>2, <3>3, FormattedCoherent, Zenon
  <2>6. AllocInFile(bpm', alloc')
    <3> SUFFICES ASSUME NEW x \in Thread, alloc'[x] # NoPage
                 PROVE  bpm'.disk[alloc'[x]] # NoPage
      BY Zenon DEF AllocInFile
    <3>1. CASE alloc'[x] = p
      BY <1>3, <1>6, <3>1, Zenon
    <3>2. CASE alloc'[x] = alloc[x] /\ alloc'[x] # p
      <4>1. alloc[x] \in Page /\ bpm.disk[alloc[x]] # NoPage
        BY <1>1, <2>1, <3>2, Zenon DEF AllocInFile
      <4> QED
        BY <1>6, <3>2, <4>1, Zenon
    <3> QED
      BY <1>7, <3>1, <3>2, Zenon
  <2>7. NoHoles(bpm')
    <3>1. {q \in Page : bpm'.disk[q] # NoPage} = {q \in Page : bpm.disk[q] # NoPage} \cup {p}
      BY <1>2, <1>3, <1>6, Zenon
    <3>2. 0 .. (n + 1) - 1 = (0 .. n - 1) \cup {n} /\ n + 1 \in Nat
      OBVIOUS
    <3>3. {q \in Page : bpm'.disk[q] # NoPage} = 0 .. (n + 1) - 1
      BY <2>2, <2>3, <3>1, <3>2, Zenon
    <3> QED
      BY <3>2, <3>3, Zenon DEF NoHoles
  <2> QED
    BY <2>5, <2>6, <2>7, Zenon
<1>9. Takeable(bpm', released')
  BY <1>2, <1>5, Zenon DEF IInv, Takeable
<1>10. IInv'
  BY <1>1, <1>2, <1>5, <1>7, <1>8, <1>9, ToInv, Zenon
<1>11. FramesKept
  BY <1>5, Zenon DEF FramesKept, Reassigned
<1> QED
  BY <1>10, <1>11, Zenon

\* Every step keeps the invariant, and gives no pinned page's frame away.
LEMMA NextInv ==
  ASSUME IInv, Next
  PROVE  IInv' /\ FramesKept
<1>1. PICK t \in Thread :
        \/ NewPage(t)
        \/ Attempt(t)
        \/ \E p \in Page : Fetch(t, p)
        \/ \E p \in Page, dirty \in BOOLEAN : Unpin(t, p, dirty)
        \/ \E p \in Page, d \in Content : Write(t, p, d)
        \/ \E p \in Page : Flush(t, p)
  BY Zenon DEF Next
<1>2. CASE NewPage(t)
  BY <1>2, NewPageInv, Zenon
<1>3. CASE Attempt(t)
  BY <1>3, AttemptInv, Zenon
<1>4. CASE \E p \in Page : Fetch(t, p)
  BY <1>4, FetchInv, Zenon
<1>5. CASE \E p \in Page, dirty \in BOOLEAN : Unpin(t, p, dirty)
  BY <1>5, UnpinInv, Zenon
<1>6. CASE \E p \in Page, d \in Content : Write(t, p, d)
  BY <1>6, WriteInv, Zenon
<1>7. CASE \E p \in Page : Flush(t, p)
  BY <1>7, FlushInv, Zenon
<1> QED
  BY <1>1, <1>2, <1>3, <1>4, <1>5, <1>6, <1>7, Zenon

\* The inductive invariant holds in every state.
THEOREM Invariant == Spec => []IInv
<1>1. ASSUME IInv, UNCHANGED vars
      PROVE  IInv'
  <2>1. /\ bpm' = bpm /\ latch' = latch /\ alloc' = alloc /\ store' = store
        /\ released' = released /\ evicted' = evicted
    BY <1>1 DEF vars
  <2>2. /\ Sound(bpm)
        /\ Ok(bpm) /\ evicted = 0 => /\ PoolCoherent(bpm, store)
                                     /\ AllocInFile(bpm, alloc)
                                     /\ NoHoles(bpm)
        /\ Ok(bpm) => Takeable(bpm, released)
    BY <1>1, FromInv, Zenon DEF IInv
  <2>3. /\ Sound(bpm')
        /\ Ok(bpm') /\ evicted' = 0 => /\ PoolCoherent(bpm', store')
                                       /\ AllocInFile(bpm', alloc')
                                       /\ NoHoles(bpm')
        /\ Ok(bpm') => Takeable(bpm', released')
    BY <2>1, <2>2, Zenon
  <2> QED
    BY <1>1, <2>1, <2>3, FromInv, ToInv, Zenon
<1>2. IInv /\ [Next]_vars => IInv'
  BY <1>1, NextInv
<1> QED
  BY <1>2, InitInv, PTL DEF Spec

\* The pool record, the latch and the history keep their types: no call of
\* bpm.c, on whatever page and in whatever order, leaves the pool malformed.
THEOREM TypesKept == Spec => []TypeOK
<1>1. IInv => TypeOK
  BY Zenon DEF IInv
<1> QED
  BY <1>1, Invariant, PTL

(***************************************************************************)
(* Until evict first takes a frame from a page, the page table leads every *)
(* page to its own frame, with what the callers last had in it, and what   *)
(* is not in the table is on disk.                                         *)
(***************************************************************************)
THEOREM PoolsCoherent == Spec => []Coherent
<1>1. IInv => Coherent
  <2> SUFFICES ASSUME IInv, Ok(bpm), evicted = 0, NEW p \in Page, ~EntryFreed(bpm, p)
               PROVE  IF Mapped(bpm, p)
                      THEN LET f == FrameOf(bpm, p)
                           IN /\ bpm.pages[f].id = p
                              /\ f \notin bpm.free
                              /\ bpm.pages[f].data = store[p]
                      ELSE bpm.disk[p] = store[p]
    BY Zenon DEF Coherent
  <2>1. Sound(bpm) /\ PoolCoherent(bpm, store)
    BY FromInv, Zenon DEF IInv
  <2>2. /\ Mapped(bpm, p) => Holds(bpm, p, FrameOf(bpm, p), store)
        /\ ~Mapped(bpm, p) => bpm.disk[p] = store[p]
    BY <2>1, CoherentFound, Zenon
  <2> QED
    BY <2>2, Zenon DEF Holds
<1> QED
  BY <1>1, Invariant, PTL

(***************************************************************************)
(* A page that stays pinned keeps its frame: evict takes only frames with  *)
(* a reference bit, which clock_replacer_pin takes away and only an unpin  *)
(* to 0 or a flush gives back.                                             *)
(***************************************************************************)
THEOREM PinnedFramesKept == Spec => PinnedKeepsFrame
<1>1. IInv /\ [Next]_vars => [\A f \in Frame : Reassigned(f) => f \in released]_vars
  BY NextInv, Zenon DEF FramesKept
<1> QED
  BY <1>1, Invariant, PTL DEF Spec, PinnedKeepsFrame
=============================================================================
