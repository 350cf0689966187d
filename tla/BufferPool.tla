------------------------------ MODULE BufferPool ------------------------------
(***************************************************************************)
(* Threads calling the buffer pool manager in any order.  The pool has no  *)
(* latch of its own; a call is one step here, except that                  *)
(*   - allocate_new_page writes the page to disk first and then repeats    *)
(*     new_bpm_page until it finds a frame, one step per attempt;          *)
(*   - a call that enters the clock replacer waits for the replacer's      *)
(*     latch, which an evict on an empty list keeps (see ClockReplacer).   *)
(* With one thread this is the program's granularity.                      *)
(*                                                                         *)
(* store, released and evicted are history: what the callers last had in   *)
(* each page, the frames whose page was unpinned to 0, and how often       *)
(* new_bpm_page took a frame from a page.  A page is allocated in two      *)
(* forms: new_heap_page and new_btree_index_page format it on disk, and    *)
(* the caller is given the zeroes new_bpm_page puts into the frame.        *)
(***************************************************************************)
EXTENDS BufferOps, FiniteSets

CONSTANTS
  Thread, NoThread,
  Fresh,     \* what the disk manager writes to a page it allocates
  MaxPins,   \* bound on pin counts
  MaxEvicted \* bound: no calls after this many frames were taken from pages

ASSUME FreshAssumption == Fresh \in Content
ASSUME ThreadAssumption == NoThread \notin Thread

VARIABLES
  bpm,      \* the pool record
  latch,    \* the thread that holds bpm->replacer.latch
  alloc,    \* the page each thread is allocating, NoPage when it is not
  store,    \* history: the content the callers last wrote or were given of each page
  released, \* history: the frames whose page was unpinned to 0 since it was placed
  evicted   \* history: how many frames evict has taken

vars == <<bpm, latch, alloc, store, released, evicted>>

TypeOK ==
  /\ bpm \in Pool
  /\ latch \in Thread \cup {NoThread}
  /\ alloc \in [Thread -> Page \cup {NoPage}]
  /\ store \in [Page -> Content \cup {NoPage}]
  /\ released \subseteq Frame
  /\ evicted \in Nat

\* A file that holds its metadata page only
EmptyFile == [p \in Page |-> IF p = 0 THEN Zero ELSE NoPage]

Init ==
  /\ bpm = new_bpm(EmptyFile)
  /\ latch = NoThread
  /\ alloc = [t \in Thread |-> NoPage]
  /\ store = EmptyFile
  /\ released = {}
  /\ evicted = 0

OnDisk == {p \in Page : bpm.disk[p] # NoPage}

\* The thread can call: the program runs and it is not inside an allocation.
Ready(t) == Ok(bpm) /\ alloc[t] = NoPage /\ evicted < MaxEvicted

\* RWLOCK_WRLOCK on the replacer's latch lets t in.
LatchFree(t) == latch \in {NoThread, t}

\* new_bpm_page calls evict for page p, and evict finds the list empty
EvictsEmpty(b, p) == ~Mapped(b, p) /\ b.free = {} /\ b.replacer.list = <<>>

\* The frames whose page stays the same from pool b to c
Same(b, c) ==
  {f \in Frame : b.pages[f].id = c.pages[f].id /\ (f \in b.free <=> f \in c.free)}

\* allocate_new_page, up to its loop: the page is written to disk.
NewPage(t) ==
  LET p == Cardinality(OnDisk)
  IN /\ Ready(t)
     /\ p \in Page
     /\ bpm' = [bpm EXCEPT !.disk[p] = Fresh]
     /\ store' = [store EXCEPT ![p] = Fresh]
     /\ alloc' = [alloc EXCEPT ![t] = p]
     /\ UNCHANGED <<latch, released, evicted>>

\* One round of the loop of allocate_new_page
Attempt(t) ==
  LET p == alloc[t]
  IN /\ Ok(bpm)
     /\ p # NoPage
     /\ LatchFree(t)
     /\ bpm' = The({new_bpm_page(bpm, p)})
     /\ latch' = IF EvictsEmpty(bpm, p) THEN t ELSE NoThread
     /\ alloc' = [alloc EXCEPT ![t] = IF Ok(bpm') /\ Mapped(bpm', p) THEN NoPage ELSE p]
     /\ evicted' = IF TookFrame(bpm, p, bpm') THEN evicted + 1 ELSE evicted
     /\ released' = released \cap Same(bpm, bpm')
     /\ store' = IF ~Mapped(bpm, p) /\ Mapped(bpm', p) THEN [store EXCEPT ![p] = Zero]
                 ELSE store

Fetch(t, p) ==
  LET c == fetch_bpm_page(bpm, p)
  IN /\ Ready(t)
     /\ p \in OnDisk
     /\ Mapped(bpm, p) => bpm.pages[FrameOf(bpm, p)].pin_count < MaxPins
     /\ Mapped(bpm, p) \/ LatchFree(t)
     /\ bpm' = c
     /\ latch' = IF Mapped(bpm, p) THEN latch
                 ELSE IF EvictsEmpty(bpm, p) THEN t ELSE NoThread
     /\ evicted' = IF TookFrame(bpm, p, c) THEN evicted + 1 ELSE evicted
     /\ released' = released \cap Same(bpm, c)
     /\ UNCHANGED <<alloc, store>>

Unpin(t, p, dirty) ==
  LET last == Mapped(bpm, p) /\ bpm.pages[FrameOf(bpm, p)].pin_count = 1
  IN /\ Ready(t)
     /\ last => LatchFree(t)
     /\ bpm' = unpin_page(bpm, p, dirty)
     /\ latch' = IF last THEN NoThread ELSE latch
     /\ released' = IF last THEN released \cup {FrameOf(bpm, p)} ELSE released
     /\ UNCHANGED <<alloc, store, evicted>>

\* A caller writes to the frame it finds under the page.
Write(t, p, d) ==
  /\ Ready(t)
  /\ ~EntryFreed(bpm, p) /\ Mapped(bpm, p)
  /\ bpm' = write_to_frame(bpm, FrameOf(bpm, p), d)
  /\ store' = [store EXCEPT ![p] = d]
  /\ UNCHANGED <<latch, alloc, released, evicted>>

Flush(t, p) ==
  /\ Ready(t)
  /\ Mapped(bpm, p) => LatchFree(t)
  /\ bpm' = flush_page(bpm, p)
  /\ latch' = IF Mapped(bpm, p) THEN NoThread ELSE latch
  /\ released' = released \cap Same(bpm, bpm')
  /\ UNCHANGED <<alloc, store, evicted>>

Next ==
  \E t \in Thread :
    \/ NewPage(t)
    \/ Attempt(t)
    \/ \E p \in Page : Fetch(t, p)
    \/ \E p \in Page, dirty \in BOOLEAN : Unpin(t, p, dirty)
    \/ \E p \in Page, d \in Content : Write(t, p, d)
    \/ \E p \in Page : Flush(t, p)

\* The loop of allocate_new_page keeps running.
LoopFairness == \A t \in Thread : WF_vars(Attempt(t))

Spec == Init /\ [][Next]_vars
LoopSpec == Spec /\ LoopFairness
-----------------------------------------------------------------------------
(***************************************************************************)
(* Until evict first takes a frame from a page, the pool is coherent, for  *)
(* any order of calls: in every bucket of page_table that is not damaged,  *)
(* the frame under a page is that page's, is not free and holds what the   *)
(* callers last wrote to it (zeroes, whatever is on disk, if it was just   *)
(* allocated); and what they last wrote to a page that is not in the table *)
(* is on disk.                                                             *)
(***************************************************************************)
Coherent ==
  Ok(bpm) /\ evicted = 0 =>
    \A p \in Page : ~EntryFreed(bpm, p) =>
      IF Mapped(bpm, p)
      THEN LET f == FrameOf(bpm, p)
           IN /\ bpm.pages[f].id = p
              /\ f \notin bpm.free
              /\ bpm.pages[f].data = store[p]
      ELSE bpm.disk[p] = store[p]

(***************************************************************************)
(* The loop of allocate_new_page ends when the replacer tracks a frame: a  *)
(* sweep that only cleared reference bits is followed by one that evicts.  *)
(***************************************************************************)
AllocateEndsWithVictim ==
  \A t \in Thread :
    alloc[t] # NoPage ~> \/ alloc[t] = NoPage
                        \/ ~Ok(bpm)
                        \/ bpm.replacer.list = <<>>

\* A step that gives frame f, which was in use, to another page
Reassigned(f) ==
  /\ Ok(bpm')
  /\ f \notin bpm.free
  /\ bpm'.pages[f].id # bpm.pages[f].id

(***************************************************************************)
(* A page that was pinned all the time since it was placed in its frame    *)
(* does not lose the frame to another page: clock_replacer_pin takes the   *)
(* frame's reference bit away, and evict never takes a frame without one.  *)
(* (A page that was unpinned to 0 and fetched again can lose it.)          *)
(***************************************************************************)
PinnedKeepsFrame == [][\A f \in Frame : Reassigned(f) => f \in released]_vars

(***************************************************************************)
(* A dirty page is on disk when its frame goes to another page.            *)
(* (Violated: new_bpm_page flushes the page whose id is the frame's.)      *)
(***************************************************************************)
DirtyVictimWritten ==
  [][\A f \in Frame :
       LET old == bpm.pages[f]
       IN Reassigned(f) /\ old.is_dirty => bpm'.disk[old.id] = old.data]_vars
=============================================================================
