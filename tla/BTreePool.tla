------------------------------ MODULE BTreePool ------------------------------
(***************************************************************************)
(* The B+tree over the buffer pool.  BTree says which pages a call reads   *)
(* and writes, and in which order; here every access is carried out on the *)
(* pool of BufferOps.  The tree reads nodes through the pool, the metadata *)
(* page past it, and writes both in both ways.                             *)
(*                                                                         *)
(* The contents of a page are a node, or the metadata record.  The tree    *)
(* never unpins what it fetches and nothing else looks at pin counts, so   *)
(* they are left out.  The behaviour ends when the pool has no defined     *)
(* next state.                                                             *)
(***************************************************************************)
EXTENDS BTree

CONSTANTS
  PoolSize,  \* the number of frames
  NoPage

ASSUME PoolSizeAssumption == PoolSize \in Nat \ {0}

VARIABLES
  bpm,       \* the pool, with the file under it
  stale      \* history: the tree was given another page than the one last written

poolVars == <<client, index, stored, seen, removed, crashes, bpm, stale>>

\* The last page: an insert in a tree of n nodes adds less than n of them.
LastPage == 2 * MaxNodes

\* What a page can hold: a node or the metadata record
Contents ==
  Meta \cup [is_leaf : BOOLEAN, keys : Seq(Key), values : Seq(Key \cup Nat),
            rightmost_ptr : Nat, next : Nat]

P == INSTANCE BufferOps WITH
       Capacity <- PoolSize, MaxPage <- LastPage, Content <- Contents, Zero <- EmptyNode(FALSE)

\* The file that the tree has written
FileOf(x) == [p \in 0 .. LastPage |->
               IF p = 0 THEN x.meta ELSE IF p \in DOMAIN x.disk THEN x.disk[p] ELSE NoPage]

PoolInit ==
  /\ Init
  /\ bpm = P!new_bpm(FileOf(index))
  /\ stale = FALSE
-----------------------------------------------------------------------------
\* BTree::flush_node after fetch_bpm_page.  The frame is the one that page_table
\* has for the id that the page itself holds.
WriteFetched(b, p, page) ==
  LET id == b.pages[P!FrameOf(b, p)].id
  IN IF ~P!Ok(b) THEN b
     ELSE IF P!EntryFreed(b, id) THEN P!Fails(b, "undefined")
     ELSE P!flush_page(P!write_to_frame(b, P!FrameOf(b, id), page), p)

flush_node_through(b, p, page) == WriteFetched(P!fetch_bpm_page(b, p), p, page)

\* The pool that has fetched page p, and whether the tree is given another page
\* than the one it has written
Given(b, p, page, before) ==
  [pool |-> b, stale |-> before \/ (P!Ok(b) /\ b.pages[P!FrameOf(b, p)].data # page)]

\* One access, after those that led to the pool and the history s
Access(s, a) ==
  IF ~P!Ok(s.pool) THEN s
  ELSE CASE a.op = "read"  -> [s EXCEPT !.stale = @ \/ s.pool.disk[a.pid] # a.page]
         [] a.op = "fetch" -> Given(P!fetch_bpm_page(s.pool, a.pid), a.pid, a.page, s.stale)
         [] a.op = "write" -> [s EXCEPT !.pool.disk[a.pid] = a.page]
         [] a.op = "flush" -> [s EXCEPT !.pool = flush_node_through(@, a.pid, a.page)]

Unpinned(b) == [b EXCEPT !.pages = [f \in P!Frame |-> [@[f] EXCEPT !.pin_count = 0]]]

\* The accesses of a call, one after the other
Accesses(log) ==
  LET after[i \in 0 .. Len(log)] ==
        IF i = 0 THEN [pool |-> bpm, stale |-> stale] ELSE Access(after[i - 1], log[i])
      s == after[Len(log)]
  IN bpm' = Unpinned(s.pool) /\ stale' = s.stale

PoolInsert(key) ==
  /\ P!Ok(bpm)
  /\ InsertKey(key)
  /\ Accesses(insert(index, key).index.log)

PoolRemove(key) ==
  /\ P!Ok(bpm)
  /\ RemoveKey(key)
  /\ Accesses(remove(index, key).log)

\* Another BTree over the same pool
PoolOpen ==
  /\ P!Ok(bpm)
  /\ OpenIndex
  /\ Accesses(open(index).log)

\* The process that opens the index after a crash has a pool of its own.
PoolCrash(key) ==
  /\ P!Ok(bpm)
  /\ CrashInInsert(key) \/ CrashInRemove(key)
  /\ bpm' = P!new_bpm(FileOf(index'))
  /\ UNCHANGED stale

PoolNext ==
  \/ \E key \in client.keys : PoolInsert(key) \/ PoolRemove(key) \/ PoolCrash(key)
  \/ PoolOpen

PoolSpec == PoolInit /\ [][PoolNext]_poolVars
-----------------------------------------------------------------------------
(***************************************************************************)
(* Every page that a call reads, from the pool or from the file, is the    *)
(* one last written: new_btree_index_page and deserialize read the         *)
(* metadata page past the pool that serialize went through, and pages that *)
(* are added past the pool are fetched from it later.                      *)
(***************************************************************************)
ReadsCurrent == ~stale

(***************************************************************************)
(* After every call the file holds all that the tree has written, although *)
(* the pool keeps pages: flush_node and new_btree_index_page leave nothing *)
(* behind in a frame.  What BTree shows of crashes rests on it.            *)
(***************************************************************************)
WrittenThrough == P!Ok(bpm) /\ Ok(index) => bpm.disk = FileOf(index)

(***************************************************************************)
(* A pool of more frames than the index has nodes is large enough, though  *)
(* findLeaf never unpins a node, until something is removed: fetch_bpm_page*)
(* finds a frame, and the replacer, which flush_page tells of frames that  *)
(* are free, is never led to a freed string.                               *)
(***************************************************************************)
PoolSuffices == ~removed /\ index.meta.node_count < PoolSize => P!Ok(bpm)
=============================================================================
