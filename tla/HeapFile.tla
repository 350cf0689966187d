------------------------------- MODULE HeapFile -------------------------------
(***************************************************************************)
(* The heap file of src/src/disk/heapfile.c: threads adding and removing   *)
(* tuples under the table's latch, beside new_heap_page, which looks for a *)
(* page before it takes the latch, and defragment, which takes none.       *)
(*                                                                         *)
(* A page is its header and its tuple pointers, an offset of 0 marking a   *)
(* removed tuple, and the tuples that stand in it, by offset: tuples of a  *)
(* page never overlap (SlotsDisjoint), so a byte-wise page would add       *)
(* nothing.  free_start follows from the number of pointers.  Reading and  *)
(* writing a page are atomic.  The in-memory page directory is a hash      *)
(* table of MAX_PAGES buckets, so no two pages share one; the race of      *)
(* hash_find with a writer of the same bucket is in HashTable.             *)
(*                                                                         *)
(* st is "ok" until the program exits ("exited"), a tuple is written over  *)
(* the pointers of a full page ("overrun"), or defragment copies what      *)
(* malloc left behind the last pointer ("undefined").                      *)
(***************************************************************************)
EXTENDS Integers, Sequences, FiniteSets

CONSTANTS
  PAGE_SIZE, MAX_PAGES,
  Tuple, TupleSize,     \* the tuples, each added by one call, and their sizes
  Calls,                \* what the threads call: "new", "add", "remove", "defragment"
  Thread,
  NoThread, NoTuple, NoPage, NoRid, Absent

START_USER_PAGE == 2
PAGE_HEADER_SIZE == 5
TUPLE_PTR_SIZE == 4
UserPage == START_USER_PAGE .. MAX_PAGES - 1
UINT16_MAX == 65535
uint16(n) == n % (UINT16_MAX + 1)

ASSUME SizesAssumption ==
  /\ PAGE_SIZE \in PAGE_HEADER_SIZE + 1 .. UINT16_MAX
  /\ MAX_PAGES \in Nat /\ MAX_PAGES > START_USER_PAGE
  /\ TupleSize \in [Tuple -> 1 .. PAGE_SIZE]
ASSUME CallsAssumption == Calls \subseteq {"new", "add", "remove", "defragment"}
ASSUME NamesAssumption == NoThread \notin Thread /\ NoTuple \notin Tuple

VARIABLES
  file,      \* the user pages on disk
  dir,       \* page_directory: the free space of every page
  words,     \* the directory page on disk, as 16-bit words
  latch,     \* the thread that holds disk_manager->latch
  call,      \* where each thread is in its call, with its local copies
  st,
  where,     \* history: the record id of every tuple whose add_tuple returned
  removed,   \* history: the tuples whose remove_tuple returned
  rewritten  \* history: the pages defragment or a second new_heap_page wrote

vars == <<file, dir, words, latch, call, st, where, removed, rewritten>>

Offset == 0 .. UINT16_MAX
Entry == Offset \cup {Absent}
TuplePtr == [start_offset : Offset, size : Offset]
HeapPage == [free_end : Offset, compactable : BOOLEAN, ptrs : Seq(TuplePtr),
             tuples : SUBSET [off : Offset, tup : Tuple]]
RID == [pid : UserPage, slot : Nat \ {0}]

ASSUME NothingAssumption ==
  NoPage \notin HeapPage /\ Absent \notin Offset

\* pid, page and n are the locals of the call: the page it works on, its copy
\* and the number (free space, or pointers) it read.
Call == [pc : {"idle", "new", "add", "dir", "insert", "remove", "header", "copy"},
         tup : Tuple \cup {NoTuple}, pid : UserPage \cup {0},
         page : HeapPage \cup {NoPage}, n : Nat]
Idle == [pc |-> "idle", tup |-> NoTuple, pid |-> 0, page |-> NoPage, n |-> 0]

TypeOK ==
  /\ file \in [UserPage -> HeapPage \cup {NoPage}]
  /\ dir \in [UserPage -> Entry]
  /\ words \in [0 .. 2 * MAX_PAGES - 1 -> Offset]
  /\ latch \in Thread \cup {NoThread}
  /\ call \in [Thread -> Call]
  /\ st \in {"ok", "exited", "overrun", "undefined"}
  /\ where \in [Tuple -> RID \cup {NoRid}]
  /\ removed \subseteq Tuple
  /\ rewritten \subseteq UserPage

free_start(pg) == PAGE_HEADER_SIZE + TUPLE_PTR_SIZE * Len(pg.ptrs)

\* The header new_heap_page writes
EmptyPage == [free_end |-> PAGE_SIZE - 1, compactable |-> FALSE,
              ptrs |-> <<>>, tuples |-> {}]

\* The state create_table leaves, and without "new" among the calls one
\* new_heap_page after it
Init ==
  /\ file = [p \in UserPage |->
               IF "new" \notin Calls /\ p = START_USER_PAGE THEN EmptyPage ELSE NoPage]
  /\ dir = [p \in UserPage |-> PAGE_SIZE]
  /\ words = [w \in 0 .. 2 * MAX_PAGES - 1 |->
                IF w % 2 = 0 THEN uint16(w \div 2) ELSE PAGE_SIZE]
  /\ latch = NoThread
  /\ call = [t \in Thread |-> Idle]
  /\ st = "ok"
  /\ where = [u \in Tuple |-> NoRid]
  /\ removed = {}
  /\ rewritten = {}

\* The pointer to the free space is compared with the size, not the space
\* itself: the first page the directory knows will do.
find_spacious_page ==
  LET known == {p \in UserPage : dir[p] # Absent}
  IN IF known = {} THEN 0 ELSE CHOOSE p \in known : \A q \in known : p <= q

get_tuple(pg, slot) ==
  {r.tup : r \in {x \in pg.tuples :
     /\ slot \in DOMAIN pg.ptrs
     /\ x.off = pg.ptrs[slot].start_offset
     /\ x.off # 0 /\ TupleSize[x.tup] = pg.ptrs[slot].size}}

Starts(t, op) == st = "ok" /\ op \in Calls /\ call[t] = Idle
At(t, pc) == st = "ok" /\ call[t].pc = pc
Goes(t, c) == call' = [call EXCEPT ![t] = c]
Exits == st' = "exited" /\ UNCHANGED <<file, dir, words, latch, call, where, removed, rewritten>>
-----------------------------------------------------------------------------
NewFind(t) ==
  LET p == find_spacious_page
  IN /\ Starts(t, "new")
     /\ p # 0
     /\ Goes(t, [Idle EXCEPT !.pc = "new", !.pid = p])
     /\ UNCHANGED <<file, dir, words, latch, st, where, removed, rewritten>>

NewWrite(t) ==
  /\ At(t, "new")
  /\ latch = NoThread
  /\ file' = [file EXCEPT ![call[t].pid] = EmptyPage]
  /\ rewritten' = rewritten \cup {p \in {call[t].pid} : file[p] # NoPage}
  /\ Goes(t, Idle)
  /\ UNCHANGED <<dir, words, latch, st, where, removed>>

\* add_tuple up to the check of the columns: the latch is taken and the page
\* read.  A table without a page makes read_page exit.
AddRead(t, u) ==
  LET p == find_spacious_page
  IN /\ Starts(t, "add")
     /\ where[u] = NoRid /\ \A x \in Thread : call[x].tup # u
     /\ latch = NoThread
     /\ IF file[p] = NoPage THEN Exits
        ELSE /\ latch' = t
             /\ Goes(t, [Idle EXCEPT !.pc = "add", !.tup = u, !.pid = p, !.page = file[p]])
             /\ UNCHANGED <<file, dir, words, st, where, removed, rewritten>>

\* mutant: a mismatch returns with the latch
AddReject_latched(t) ==
  /\ At(t, "add")
  /\ Goes(t, Idle)
  /\ UNCHANGED <<file, dir, words, latch, st, where, removed, rewritten>>

\* The columns do not match the schema.
AddReject(t) ==
  /\ At(t, "add")
  /\ latch' = NoThread
  /\ Goes(t, Idle)
  /\ UNCHANGED <<file, dir, words, st, where, removed, rewritten>>

\* mutant: free_end stays, so the next tuple is put where this one is
Added_free_end(pg, u) ==
  LET off == pg.free_end - TupleSize[u]
  IN [pg EXCEPT !.ptrs = Append(@, [start_offset |-> off, size |-> TupleSize[u]]),
                !.tuples = @ \cup {[off |-> off, tup |-> u]}]

\* The page with tuple u and a pointer to it
Added(pg, u) ==
  LET off == pg.free_end - TupleSize[u]
  IN [pg EXCEPT !.free_end = off,
                !.ptrs = Append(@, [start_offset |-> off, size |-> TupleSize[u]]),
                !.tuples = @ \cup {[off |-> off, tup |-> u]}]

\* There is no room between the pointers and the tuples; nothing tests this.
NoRoom(pg, u) == free_start(pg) + TUPLE_PTR_SIZE > pg.free_end - TupleSize[u]

AddWrite(t) ==
  LET c == call[t]
  IN /\ At(t, "add")
     /\ IF NoRoom(c.page, c.tup)
        THEN st' = "overrun" /\ UNCHANGED <<file, call>>
        ELSE /\ file' = [file EXCEPT ![c.pid] = Added(c.page, c.tup)]
             /\ Goes(t, [c EXCEPT !.pc = "dir"])
             /\ UNCHANGED st
     /\ UNCHANGED <<dir, words, latch, where, removed, rewritten>>

\* update_page_dir, up to hash_remove: for a moment the page is in no directory.
DirRemove(t) ==
  LET c == call[t]
  IN /\ At(t, "dir")
     /\ dir' = [dir EXCEPT ![c.pid] = Absent]
     /\ Goes(t, [c EXCEPT !.pc = "insert", !.n = dir[c.pid]])
     /\ UNCHANGED <<file, words, latch, st, where, removed, rewritten>>

\* mutant: the space of the tuple is added
Left_more(free, u) == uint16(free + TupleSize[u])

Left(free, u) == uint16(free - TupleSize[u])

\* mutant: the slots before the tuple are counted
NextSlot_before(pg) == Len(pg.ptrs)

\* The slot a tuple added to the page gets; the first is 1 here, 0 in the code.
NextSlot(pg) == Len(pg.ptrs) + 1

\* update_page_dir from hash_insert on, and the return of add_tuple.  The
\* entry is written at byte 2 * pid of the directory page.
AddReturn(t) ==
  LET c == call[t]
      left == Left(c.n, c.tup)
  IN /\ At(t, "insert")
     /\ dir' = [dir EXCEPT ![c.pid] = left]
     /\ words' = [words EXCEPT ![c.pid] = uint16(c.pid), ![c.pid + 1] = left]
     /\ where' = [where EXCEPT ![c.tup] = [pid |-> c.pid, slot |-> NextSlot(c.page)]]
     /\ latch' = NoThread
     /\ Goes(t, Idle)
     /\ UNCHANGED <<file, st, removed, rewritten>>

RemoveRead(t, u) ==
  LET p == where[u].pid
  IN /\ Starts(t, "remove")
     /\ where[u] # NoRid /\ u \notin removed
     /\ latch = NoThread
     /\ latch' = t
     /\ Goes(t, [Idle EXCEPT !.pc = "remove", !.tup = u, !.pid = p, !.page = file[p]])
     /\ UNCHANGED <<file, dir, words, st, where, removed, rewritten>>

\* mutant: the slot after the tuple's is marked
Marked_next(pg, slot) ==
  [pg EXCEPT !.compactable = TRUE,
             !.ptrs = [i \in DOMAIN @ |->
                         IF i = slot + 1 THEN [@[i] EXCEPT !.start_offset = 0] ELSE @[i]]]

\* The page with the tuple of the slot marked as removed
Marked(pg, slot) ==
  [pg EXCEPT !.compactable = TRUE,
             !.ptrs = [i \in DOMAIN @ |->
                         IF i = slot THEN [@[i] EXCEPT !.start_offset = 0] ELSE @[i]]]

RemoveWrite(t) ==
  LET c == call[t]
  IN /\ At(t, "remove")
     /\ file' = [file EXCEPT ![c.pid] = Marked(c.page, where[c.tup].slot)]
     /\ removed' = removed \cup {c.tup}
     /\ latch' = NoThread
     /\ Goes(t, Idle)
     /\ UNCHANGED <<dir, words, st, where, rewritten>>

\* The header is read, and then the page again.
DefragmentHeader(t, p) ==
  /\ Starts(t, "defragment")
  /\ file[p] # NoPage
  /\ file[p].compactable
  /\ Goes(t, [Idle EXCEPT !.pc = "header", !.pid = p, !.n = Len(file[p].ptrs)])
  /\ UNCHANGED <<file, dir, words, latch, st, where, removed, rewritten>>

DefragmentRead(t) ==
  LET c == call[t]
  IN /\ At(t, "header")
     /\ Goes(t, [c EXCEPT !.pc = "copy", !.page = file[c.pid]])
     /\ UNCHANGED <<file, dir, words, latch, st, where, removed, rewritten>>

\* One pointer moves to the new page as it is; what it points to moves to the
\* end of the free space.
Moved(temp, pg, ptr) ==
  LET off == pg.free_end - ptr.size
  IN [pg EXCEPT !.free_end = off,
                !.ptrs = Append(@, ptr),
                !.tuples = @ \cup {[off |-> off, tup |-> r.tup] :
                                     r \in {x \in temp.tuples :
                                              /\ x.off = ptr.start_offset
                                              /\ TupleSize[x.tup] = ptr.size}}]

\* The loop runs over the pointers the header counted and one more, and skips
\* those of removed tuples.
Compacted(temp, n) ==
  LET last == IF n < Len(temp.ptrs) THEN n + 1 ELSE Len(temp.ptrs)
      page[k \in 0 .. last] ==
        IF k = 0 THEN EmptyPage
        ELSE IF temp.ptrs[k].start_offset = 0 THEN page[k - 1]
        ELSE Moved(temp, page[k - 1], temp.ptrs[k])
  IN page[last]

\* One more than there are is whatever malloc left there, if it looks like the
\* pointer of a tuple; otherwise it ends the loop or is skipped.
DefragmentWrite(t) ==
  LET c == call[t]
  IN /\ At(t, "copy")
     /\ \/ /\ file' = [file EXCEPT ![c.pid] = Compacted(c.page, c.n)]
           /\ Goes(t, Idle)
           /\ UNCHANGED st
        \/ /\ c.n >= Len(c.page.ptrs)
           /\ st' = "undefined"
           /\ UNCHANGED <<file, call>>
     /\ rewritten' = rewritten \cup {c.pid}
     /\ UNCHANGED <<dir, words, latch, where, removed>>

\* A thread that is in a call takes its next step.
Step(t) ==
  \/ NewWrite(t)
  \/ AddReject(t) \/ AddWrite(t) \/ DirRemove(t) \/ AddReturn(t)
  \/ RemoveWrite(t)
  \/ DefragmentRead(t) \/ DefragmentWrite(t)

Next ==
  \E t \in Thread :
    \/ NewFind(t)
    \/ \E u \in Tuple : AddRead(t, u) \/ RemoveRead(t, u)
    \/ \E p \in UserPage : DefragmentHeader(t, p)
    \/ Step(t)

Spec == Init /\ [][Next]_vars

\* A thread that is in a call keeps running.
FairSpec == Spec /\ \A t \in Thread : WF_vars(Step(t))
-----------------------------------------------------------------------------
Ok == st = "ok"
Busy(u) == \E t \in Thread : call[t].tup = u

(***************************************************************************)
(* Adding and removing in any interleaving, beside defragment and          *)
(* new_heap_page at any stage: as long as neither has written over the     *)
(* page, get_tuple finds every tuple whose add_tuple returned under its    *)
(* record id, and nothing there once its remove_tuple returned.            *)
(***************************************************************************)
ReadsRight ==
  Ok => \A u \in Tuple :
          where[u] # NoRid /\ where[u].pid \notin rewritten /\ ~Busy(u)
            => get_tuple(file[where[u].pid], where[u].slot)
                 = IF u \in removed THEN {} ELSE {u}

(***************************************************************************)
(* The tuples that are not removed stand between free_end and the end of   *)
(* their page, later ones below earlier ones, and the pointers end before  *)
(* them: add_tuple never writes over a tuple or a pointer of a page that   *)
(* was not rewritten.                                                      *)
(***************************************************************************)
SlotsDisjoint ==
  Ok => \A p \in UserPage \ rewritten : file[p] # NoPage =>
    LET pg == file[p]
        live == {i \in DOMAIN pg.ptrs : pg.ptrs[i].start_offset # 0}
    IN /\ free_start(pg) <= pg.free_end
       /\ \A i \in live :
            LET ptr == pg.ptrs[i]
            IN /\ pg.free_end <= ptr.start_offset
               /\ ptr.start_offset + ptr.size < PAGE_SIZE
               /\ \A j \in live :
                    j < i => ptr.start_offset + ptr.size <= pg.ptrs[j].start_offset

(***************************************************************************)
(* While nobody holds the latch, the free space the directory has for a    *)
(* page that was not rewritten is the one its header on disk leaves (a     *)
(* byte is never used): neither lost nor counted twice by concurrent       *)
(* add_tuple calls.                                                        *)
(***************************************************************************)
DirectoryMatchesHeaders ==
  Ok /\ latch = NoThread =>
    \A p \in UserPage \ rewritten :
      dir[p] = IF file[p] = NoPage THEN PAGE_SIZE ELSE file[p].free_end + 1

(***************************************************************************)
(* Every holder of the table's latch gives it back, whatever the thread    *)
(* calls and also when add_tuple refuses the columns.                      *)
(***************************************************************************)
LatchReleased ==
  \A t \in Thread : latch = t ~> latch # t \/ ~Ok
=============================================================================
