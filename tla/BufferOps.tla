------------------------------ MODULE BufferOps ------------------------------
(***************************************************************************)
(* The buffer pool manager of src/src/disk/bpm.c as operators on a pool    *)
(* record:                                                                 *)
(*                                                                         *)
(*   table     page_table: the chains of a hash table of pool_size buckets *)
(*   free      the frames whose free_list entry is true                    *)
(*   pages     what every frame holds                                      *)
(*   replacer  the clock replacer; its st is the status of the pool        *)
(*   disk      the pages of the file, NoPage past its end                  *)
(*                                                                         *)
(* Page contents are abstract.  Page 0 is the file's metadata page.  A     *)
(* freed page_table entry is always the head of its chain, and every walk  *)
(* starts there: a call that walks such a chain reads freed memory.        *)
(***************************************************************************)
EXTENDS ClockOps, Integers

CONSTANTS
  MaxPage,   \* the last page id
  Content,   \* what a page can hold
  Zero,      \* the content memset leaves
  NoPage

ASSUME MaxPageAssumption == MaxPage \in Nat /\ Capacity - 1 <= MaxPage
ASSUME ContentAssumption == Zero \in Content /\ NoPage \notin Content

Page == 0 .. MaxPage

PT == INSTANCE HashChain WITH Size <- Capacity, Key <- Page, Data <- Frame

BpmPage == [id : Page, pin_count : Nat, is_dirty : BOOLEAN, data : Content]

Pool == [table : [PT!Bucket -> Seq(PT!HashEl)], free : SUBSET Frame,
         pages : [Frame -> BpmPage], replacer : Replacer,
         disk : [Page -> Content \cup {NoPage}]]

new_bpm(disk) ==
  [table |-> [b \in PT!Bucket |-> <<>>], free |-> Frame,
   pages |-> [f \in Frame |->
               [id |-> 0, pin_count |-> 0, is_dirty |-> FALSE, data |-> Zero]],
   replacer |-> clock_replacer_init, disk |-> disk]

Ok(b) == b.replacer.st = "ok"
Fails(b, how) == [b EXCEPT !.replacer.st = how]

Chain(b, p) == b.table[PT!hash(p)]
EntryFreed(b, p) == Chain(b, p) # <<>> /\ ~Head(Chain(b, p)).live
Mapped(b, p) == PT!Found(Chain(b, p), p, FALSE)
EntryPosition(b, p) == PT!Position(Chain(b, p), p, FALSE)
FrameOf(b, p) == Chain(b, p)[EntryPosition(b, p)].data

\* mutant: the page leaves the pool without being written
flush_page_unwritten(b, p) ==
  IF EntryFreed(b, p) THEN Fails(b, "undefined")
  ELSE IF ~Mapped(b, p) THEN b
  ELSE LET f == FrameOf(b, p)
           c == [b EXCEPT !.table[PT!hash(p)] = PT!RemoveFrom(Chain(b, p), p, FALSE)]
       IN IF EntryPosition(b, p) > 1 THEN Fails(c, "undefined")
          ELSE [c EXCEPT !.free = @ \cup {f},
                         !.replacer = clock_replacer_unpin(@, f)]

\* mutant: the frame is not given back
flush_page_leaky(b, p) ==
  IF EntryFreed(b, p) THEN Fails(b, "undefined")
  ELSE IF ~Mapped(b, p) THEN b
  ELSE [b EXCEPT !.disk[p] = b.pages[FrameOf(b, p)].data,
                 !.table[PT!hash(p)] = PT!RemoveFrom(Chain(b, p), p, FALSE)]

\* The entry is removed before the frame id it points to is used again: an
\* entry that is not the head of its chain has been freed by then.
flush_page(b, p) ==
  IF EntryFreed(b, p) THEN Fails(b, "undefined")
  ELSE IF ~Mapped(b, p) THEN b
  ELSE LET f == FrameOf(b, p)
           c == [b EXCEPT !.disk[p] = b.pages[f].data,
                          !.table[PT!hash(p)] = PT!RemoveFrom(Chain(b, p), p, FALSE)]
       IN IF EntryPosition(b, p) > 1 THEN Fails(c, "undefined")
          ELSE [c EXCEPT !.free = @ \cup {f},
                         !.replacer = clock_replacer_unpin(@, f)]

\* mutant: the frame is not taken from the replacer
Place_unpinned(b, p, f) ==
  IF EntryFreed(b, p) THEN Fails(b, "undefined")
  ELSE [b EXCEPT
          !.pages[f] = [id |-> p, pin_count |-> 1, is_dirty |-> FALSE, data |-> Zero],
          !.table[PT!hash(p)] = PT!InsertInto(@, p, f, FALSE)]

\* The frame is reset, entered in the page table and pinned.
Place(b, p, f) ==
  IF EntryFreed(b, p) THEN Fails(b, "undefined")
  ELSE [b EXCEPT
          !.pages[f] = [id |-> p, pin_count |-> 1, is_dirty |-> FALSE, data |-> Zero],
          !.table[PT!hash(p)] = PT!InsertInto(@, p, f, FALSE),
          !.replacer = clock_replacer_pin(@, f)]

\* The page p in the frame that evict has found, if it has.  A dirty victim is
\* flushed by its frame id, taken for a page id; the entry of the page it held
\* stays in the page table.
PlaceInVictim(b, p) ==
  LET v == b.replacer.victim
      PlaceUnlessFailed(c) == IF Ok(c) THEN Place(c, p, v) ELSE c
  IN IF ~Ok(b) \/ v = NoFrame THEN b
     ELSE PlaceUnlessFailed(IF b.pages[v].is_dirty THEN flush_page(b, v) ELSE b)

Replace(b, p) == PlaceInVictim(The({[b EXCEPT !.replacer = evict(@)]}), p)

\* The frame the walk over free_list stops at
FirstFree(b) == CHOOSE f \in b.free : \A g \in b.free : f <= g

\* The pool after new_bpm_page; the page is in the table afterwards unless
\* NULL was returned.
new_bpm_page(b, p) ==
  IF EntryFreed(b, p) THEN Fails(b, "undefined")
  ELSE IF Mapped(b, p) THEN b
  ELSE IF b.free # {}
  THEN Place([b EXCEPT !.free = @ \ {FirstFree(b)}], p, FirstFree(b))
  ELSE Replace(b, p)

\* mutant: the page is not read
ReadInto_unread(b, p) ==
  IF ~Ok(b) THEN b
  ELSE IF EntryFreed(b, p) THEN Fails(b, "undefined")
  ELSE IF ~Mapped(b, p) \/ b.disk[p] = NoPage THEN Fails(b, "crashed")
  ELSE [b EXCEPT !.pages[FrameOf(b, p)].pin_count = @ + 1]

\* fetch_bpm_page after new_bpm_page, which pinned once, as this does.  When no
\* frame was found, the NULL that hash_find returns is followed, and past the end
\* of the file read_page exits.
ReadInto(b, p) ==
  LET f == FrameOf(b, p)
  IN IF ~Ok(b) THEN b
     ELSE IF EntryFreed(b, p) THEN Fails(b, "undefined")
     ELSE IF ~Mapped(b, p) \/ b.disk[p] = NoPage THEN Fails(b, "crashed")
     ELSE [b EXCEPT !.pages[f] = [b.pages[f] EXCEPT !.pin_count = @ + 1, !.data = b.disk[p]]]

\* new_bpm_page took a frame from another page
TookFrame(b, p, c) ==
  ~Mapped(b, p) /\ b.free = {} /\ c.replacer.victim # NoFrame

\* A hit counts one pin more and leaves the replacer alone.
fetch_bpm_page(b, p) ==
  IF EntryFreed(b, p) THEN Fails(b, "undefined")
  ELSE IF Mapped(b, p) THEN [b EXCEPT !.pages[FrameOf(b, p)].pin_count = @ + 1]
  ELSE ReadInto(new_bpm_page(b, p), p)

\* mutant: a count of 0 is not tested
unpin_page_below(b, p, dirty) ==
  LET f == FrameOf(b, p)
      n == b.pages[f].pin_count
  IN IF EntryFreed(b, p) THEN Fails(b, "undefined")
     ELSE IF ~Mapped(b, p) THEN b
     ELSE [b EXCEPT !.pages[f] = [@ EXCEPT !.is_dirty = dirty, !.pin_count = n - 1],
                    !.replacer = IF n = 1 THEN clock_replacer_unpin(@, f) ELSE @]

unpin_page(b, p, dirty) ==
  LET f == FrameOf(b, p)
      n == b.pages[f].pin_count
  IN IF EntryFreed(b, p) THEN Fails(b, "undefined")
     ELSE IF ~Mapped(b, p) \/ n = 0 THEN b
     ELSE [b EXCEPT !.pages[f] = [@ EXCEPT !.is_dirty = dirty, !.pin_count = n - 1],
                    !.replacer = IF n = 1 THEN clock_replacer_unpin(@, f) ELSE @]

write_to_frame(b, f, d) ==
  [b EXCEPT !.pages[f] = [@ EXCEPT !.data = d, !.is_dirty = TRUE]]
=============================================================================
