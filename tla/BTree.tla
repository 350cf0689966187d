-------------------------------- MODULE BTree --------------------------------
(***************************************************************************)
(* The B+tree of src/src/index: btree_index.cpp, the nodes of              *)
(* index_page.cpp and the merging of btree_strategy.cpp.  One process      *)
(* inserts and removes keys and opens the index again; every call is one   *)
(* step.  The process may also end inside a call, after any of its writes, *)
(* and the next one opens the index; writing a page is atomic.             *)
(*                                                                         *)
(* index holds the pages of the file, by page id, the metadata page, the   *)
(* BTree object in memory, and the page accesses of the call that runs, in *)
(* their order:                                                            *)
(*   "read", "write"   read_page and write_page, past the buffer pool      *)
(*   "fetch", "flush"  fetch_bpm_page and flush_node, through it           *)
(* flush_node writes every change to disk at once, so a node in the pool   *)
(* is the node on disk; BTreePool replays the accesses on a pool and       *)
(* checks it.  Keys are byte strings.  The record stored under a key is    *)
(* the key itself here, so that a record that leaves its key shows.        *)
(*                                                                         *)
(* A pointer of 0 is no node: page 0 is the metadata page.  next is also 0 *)
(* where the code leaves it uninitialised, so nothing may depend on it.    *)
(* status is "ok" until an exception is thrown, the metadata page is taken *)
(* for a node, or an element past the end of a vector is erased.           *)
(***************************************************************************)
EXTENDS Integers, Sequences, FiniteSets
LOCAL INSTANCE TLC
LOCAL INSTANCE SequencesExt
LOCAL INSTANCE FiniteSetsExt

CONSTANTS
  Key,        \* the keys, sequences of bytes
  max_size,   \* the number of keys a node may have
  MaxNodes,   \* bound: no insert once the file has more pages than this
  Clients     \* what may be done with an index, see Client

ASSUME KeyAssumption == Key \subseteq Seq(Nat) /\ <<>> \notin Key
ASSUME SizeAssumption == max_size \in Nat \ {0, 1}
ASSUME MaxNodesAssumption == MaxNodes \in Nat

\* The calls a client makes, the keys it uses, and how often it ends inside a
\* call.  "append" inserts in ascending order, "once" every key once.
Call == {"insert", "once", "append", "remove", "open"}
Client == [calls : SUBSET Call, keys : SUBSET Key, crashes : Nat]

ASSUME ClientsAssumption == Clients \subseteq Client

VARIABLES
  client,  \* the client, which stays the same
  index,   \* the file and the BTree object
  stored,  \* history: the keys inserted and not removed
  seen,    \* history: the keys that insert returned for
  removed, \* history: remove was called
  crashes  \* history: how often the process ended inside a call

vars == <<client, index, stored, seen, removed, crashes>>

Fields == {"is_leaf", "keys", "values", "rightmost_ptr", "next"}
IsNode(n) ==
  /\ DOMAIN n = Fields
  /\ n.is_leaf \in BOOLEAN
  /\ n.keys \in Seq(Key)
  /\ IF n.is_leaf THEN n.values \in Seq(Key) ELSE n.values \in Seq(Nat)
  /\ Len(n.values) = Len(n.keys)
  /\ n.rightmost_ptr \in Nat /\ n.next \in Nat
Meta == [node_count : Nat, root_pid : Nat]

TypeOK ==
  /\ client \in Clients
  /\ DOMAIN index = {"disk", "meta", "tree", "status", "log"}
  /\ DOMAIN index.disk \subseteq Nat \ {0}
  /\ \A p \in DOMAIN index.disk : IsNode(index.disk[p])
  /\ index.meta \in Meta /\ index.tree \in Meta
  /\ index.status \in {"ok", "failed"}
  /\ index.log = <<>>
  /\ stored \subseteq seen /\ seen \subseteq Key
  /\ removed \in BOOLEAN /\ crashes \in 0 .. client.crashes

\* A page of zeroes, which is what new_btree_index_page writes, and a
\* BTreePage nothing was put into yet
EmptyNode(leaf) == [is_leaf |-> leaf, keys |-> <<>>, values |-> <<>>,
                    rightmost_ptr |-> 0, next |-> 0]

create_btree_index == [disk |-> <<>>, meta |-> [node_count |-> 0, root_pid |-> 0]]

\* The index is created and opened.
Init ==
  /\ client \in Clients
  /\ index = create_btree_index
               @@ [tree |-> create_btree_index.meta, status |-> "ok", log |-> <<>>]
  /\ stored = {} /\ seen = {} /\ removed = FALSE /\ crashes = 0
-----------------------------------------------------------------------------
Ok(x) == x.status = "ok"
Fails(x) == [x EXCEPT !.status = "failed"]

\* A page access of the running call: the page that is read or written
Logged(x, op, p, page) ==
  [x EXCEPT !.log = Append(@, [op |-> op, pid |-> p, page |-> page])]

\* fetch_bpm_page of a node
Fetched(x, p) == Logged(x, "fetch", p, x.disk[p])

Half(s) == Len(s) \div 2
From(s, i) == SubSeq(s, i, Len(s))
Upto(s, i) == SubSeq(s, 1, i)

\* memcmp over the length of the shorter key
cmpKeys(a, b) ==
  LET differ == {i \in 1 .. Min({Len(a), Len(b)}) : a[i] # b[i]}
  IN IF differ = {} THEN 0 ELSE a[Min(differ)] - b[Min(differ)]

\* At the end if no key is larger, else at the front if none is smaller, else
\* behind the last smaller one; values that have no key of their own go.
insertIntoNode(n, key, val) ==
  LET size == Len(n.keys)
      smaller == {i \in 1 .. size : cmpKeys(key, n.keys[i]) > 0}
      at == IF size = 0 \/ cmpKeys(key, n.keys[size]) >= 0 THEN size + 1
            ELSE IF cmpKeys(key, n.keys[1]) <= 0 THEN 1
            ELSE 1 + Min({i \in smaller : i + 1 \notin smaller})
  IN [n EXCEPT !.keys = InsertAt(@, at, key), !.values = InsertAt(Upto(@, size), at, val)]

\* mutant: the values without a key are written, too
flush_node_long(x, p, n) ==
  IF ~Ok(x) \/ p = 0 \/ Len(n.values) < Len(n.keys) THEN Fails(x)
  ELSE Logged([x EXCEPT !.disk = (p :> n) @@ @], "flush", p, n)

\* serialize and the constructor that reads it back: a value for each key, in
\* the order of the keys; too few values throw.
flush_node(x, p, n) ==
  LET page == [n EXCEPT !.values = Upto(@, Len(n.keys))]
  IN IF ~Ok(x) \/ p = 0 \/ Len(n.values) < Len(n.keys) THEN Fails(x)
     ELSE Logged([x EXCEPT !.disk = (p :> page) @@ @], "flush", p, page)

\* BTree::serialize into the metadata page
flush_metadata(x) ==
  IF Ok(x) THEN Logged([x EXCEPT !.meta = x.tree], "flush", 0, x.tree) ELSE x

\* The page that new_btree_index_page adds has the id meta.node_count then; it
\* is on disk, without having been in the pool.
new_btree_index_page(x, leaf) ==
  LET p == x.meta.node_count + 1
      counted == [x.meta EXCEPT !.node_count = p]
      y == Logged(Logged(x, "read", 0, x.meta), "write", 0, counted)
  IN Logged([y EXCEPT !.meta = counted, !.disk = (p :> EmptyNode(leaf)) @@ @],
            "write", p, EmptyNode(leaf))

\* new_btree_index_page, and node_count in memory follows
AddPage(x, leaf) == [new_btree_index_page(x, leaf) EXCEPT !.tree.node_count = @ + 1]

\* The second half of an overfull node, for its new sibling, and the first half
\* for the node itself
SecondHalf(n) ==
  IF n.is_leaf
  THEN [EmptyNode(TRUE) EXCEPT !.keys = From(n.keys, Half(n.keys) + 1),
                               !.values = From(n.values, Half(n.values) + 1)]
  ELSE [EmptyNode(FALSE) EXCEPT !.keys = From(n.keys, Half(n.keys) + 2),
                                !.values = From(n.values, Half(n.values) + 2),
                                !.rightmost_ptr = n.rightmost_ptr]

\* mutant: the middle key stays in both halves
FirstHalf_mid(n) ==
  [n EXCEPT !.keys = Upto(@, Half(@) + 1), !.values = Upto(@, Half(@) + 1)]

FirstHalf(n) ==
  IF n.is_leaf
  THEN [n EXCEPT !.keys = Upto(@, Half(@)), !.values = Upto(@, Half(@))]
  ELSE [n EXCEPT !.keys = Upto(@, Half(@)), !.values = Upto(@, Half(@)),
                 !.rightmost_ptr = n.values[Half(n.values) + 1]]

MidKey(n) == n.keys[Half(n.keys) + 1]

\* mutant: the metadata is written before the new root is set
splitRootNode_early(x, n) ==
  LET root == x.tree.root_pid
      sib == x.meta.node_count + 1
      top == sib + 1
      y == [flush_metadata(AddPage(AddPage(x, n.is_leaf), FALSE)) EXCEPT !.tree.root_pid = top]
      newRoot == [EmptyNode(FALSE) EXCEPT !.keys = <<MidKey(n)>>, !.values = <<root>>,
                                          !.rightmost_ptr = sib]
  IN flush_node(flush_node(flush_node(y, sib, SecondHalf(n)), top, newRoot),
                root, [FirstHalf(n) EXCEPT !.next = sib])

splitRootNode(x, n) ==
  LET root == x.tree.root_pid
      sib == x.meta.node_count + 1
      top == sib + 1
      y == [AddPage(AddPage(x, n.is_leaf), FALSE) EXCEPT !.tree.root_pid = top]
      newRoot == [EmptyNode(FALSE) EXCEPT !.keys = <<MidKey(n)>>, !.values = <<root>>,
                                          !.rightmost_ptr = sib]
  IN flush_node(flush_node(flush_node(flush_metadata(y), sib, SecondHalf(n)),
                           top, newRoot),
                root, [FirstHalf(n) EXCEPT !.next = sib])

\* mutant: the new sibling is left out of the list of leaves
Linked_old(n, sib) == FirstHalf(n)

\* The node that was split, with its new sibling after it
Linked(n, sib) == [FirstHalf(n) EXCEPT !.next = sib]

\* mutant: the node is cut down before its sibling has been written
flush_halves_cut(x, n, p, sib) ==
  flush_node(flush_node(x, p, Linked(n, sib)), sib, [SecondHalf(n) EXCEPT !.next = n.next])

\* mutant: the node is linked to its sibling after it was cut down
flush_halves_linked_last(x, n, p, sib) ==
  flush_node(flush_node(flush_node(x, sib, [SecondHalf(n) EXCEPT !.next = n.next]),
                        p, FirstHalf(n)), p, Linked(n, sib))

\* The new sibling is written first, then the node that was split.
flush_halves(x, n, p, sib) ==
  flush_node(flush_node(x, sib, [SecondHalf(n) EXCEPT !.next = n.next]), p, Linked(n, sib))

\* getPrevBreadcrumbPid, which fetches the page for its id, and the page again
FetchedTwice(x, p) == Fetched(Fetched(x, p), p)

\* The parent is the last breadcrumb, the metadata page when there is none.
\* When the parent is overfull in turn, it is split only if it is the root;
\* otherwise the next breadcrumb, its own parent, is.
RECURSIVE splitNonRootNode(_, _, _, _)
splitNonRootNode(x, n, p, crumbs) ==
  IF ~Ok(x) \/ n.keys = <<>> THEN Fails(x)
  ELSE IF crumbs = <<>> THEN Fails(AddPage(x, n.is_leaf))
  ELSE LET parent == Last(crumbs).pid
           rest == Front(crumbs)
           top == Last(rest).pid
           sib == x.meta.node_count + 1
           with == insertIntoNode(x.disk[parent], MidKey(n), p)
           up == IF Last(with.keys) = MidKey(n)
                 THEN [with EXCEPT !.rightmost_ptr = sib] ELSE with
           y == flush_halves(flush_node(FetchedTwice(AddPage(x, n.is_leaf), parent),
                                        parent, up), n, p, sib)
       IN IF ~Ok(y) \/ Len(up.keys) <= max_size THEN y
          ELSE IF rest = <<>>
          THEN splitRootNode(Fetched(y, y.tree.root_pid), y.disk[y.tree.root_pid])
          ELSE splitNonRootNode(FetchedTwice(y, top), y.disk[top], top, Front(rest))
-----------------------------------------------------------------------------
Crumb(p, i) == [pid |-> p, index |-> i]

\* The child a search goes to: the first, or the rightmost one (-1).  The
\* search for a child in between asks for keys[i - 1] > key >= keys[i], which no
\* sorted node has (NodesSorted), so its loop changes nothing.
Child(n, key) == IF cmpKeys(n.keys[1], key) > 0 THEN 0 ELSE -1

\* The leaf a search from page p ends in and the way there; 0 when it meets no
\* node or a node without keys: keys.at(0) throws, and reading a page of zeroes
\* as an internal node never ends.
RECURSIVE Descend(_, _, _, _)
Descend(x, p, key, crumbs) ==
  IF p \notin DOMAIN x.disk THEN [index |-> x, pid |-> 0, crumbs |-> crumbs]
  ELSE LET n == x.disk[p]
           y == Fetched(x, p)
       IN IF n.is_leaf THEN [index |-> y, pid |-> p, crumbs |-> crumbs]
          ELSE IF n.keys = <<>> THEN [index |-> y, pid |-> 0, crumbs |-> crumbs]
          ELSE LET i == Child(n, key)
               IN Descend(y, IF i = 0 THEN n.values[1] ELSE n.rightmost_ptr, key,
                          Append(crumbs, Crumb(p, i)))

findLeaf(x, key) == Descend(x, x.tree.root_pid, key, <<>>)

\* The first key makes a root, which the metadata page is not told of.
WithRoot(x) ==
  IF x.tree.root_pid # 0 THEN x
  ELSE [AddPage(x, TRUE) EXCEPT !.tree.root_pid = x.meta.node_count + 1]

\* The index after the call and the page id it returns.  A leaf that was split
\* is flushed once more at the end.
insert(x, key) ==
  LET found == findLeaf(WithRoot(x), key)
      y == found.index
      leaf == y.disk[found.pid]
      more == insertIntoNode(leaf, key, key)
      pid == found.pid
      z == IF found.crumbs = <<>> THEN splitRootNode(y, more)
           ELSE splitNonRootNode(y, more, pid, found.crumbs)
  IN IF pid = 0 THEN [index |-> Fails(y), pid |-> 0]
     ELSE IF \E i \in DOMAIN leaf.keys : cmpKeys(leaf.keys[i], key) = 0
     THEN [index |-> y, pid |-> 0]
     ELSE [index |-> IF Len(more.keys) <= max_size THEN flush_node(y, pid, more)
                     ELSE IF Ok(z) THEN flush_node(z, pid, z.disk[pid]) ELSE z,
           pid |-> pid]
-----------------------------------------------------------------------------
\* The node with the keys and values of the one to its right
Joined(l, r) == [l EXCEPT !.keys = @ \o r.keys, !.values = @ \o r.values]

Merged(x, parent) == [index |-> x, parent |-> parent]
FlushedParent(x, up, parent) == Merged(flush_node(x, up, parent), parent)

\* MergeLeafNodeStrategy, with the child of the parent that was come from, -1
\* for the rightmost
MergeLeaf(x, parent, p, s, i) ==
  LET node == x.disk[p]
      sib == x.disk[s]
      last == Len(parent.keys)
  IN IF sib.keys = <<>> \/ Len(node.keys) + Len(sib.keys) > max_size
     THEN Merged(x, parent)
     ELSE IF i = -1
     THEN Merged(flush_node(x, s, Joined(sib, node)),
                 [parent EXCEPT !.keys = Front(@), !.values = Front(@),
                                !.rightmost_ptr = IF last = 1 THEN @ ELSE s])
     ELSE IF s = parent.rightmost_ptr
     THEN Merged(flush_node(x, p, Joined(node, sib)), [parent EXCEPT !.rightmost_ptr = 0])
     ELSE IF Len(parent.values) < 2 THEN Merged(Fails(x), parent)
     ELSE Merged(flush_node(x, p, [Joined(node, sib) EXCEPT !.next = sib.next]),
                 [parent EXCEPT !.keys = Tail(@), !.values = <<p>> \o From(@, 3)])

\* mutant: the keys of the left node are put behind those of the right one
MergeNonLeaf_swapped(x, up, parent, p, s, i) ==
  LET node == x.disk[p]
      sib == x.disk[s]
  IN IF Len(node.keys) + Len(sib.keys) + 2 > max_size + 1 THEN Merged(x, parent)
     ELSE FlushedParent(flush_node(x, IF i = -1 THEN s ELSE p,
                   [sib EXCEPT !.keys = Append(node.keys, Head(parent.keys)) \o @,
                               !.values = Append(node.values, node.rightmost_ptr) \o @]),
                 up, [parent EXCEPT !.keys = Tail(@), !.rightmost_ptr = 0])

\* MergeNonLeafNodeStrategy: the separator comes down from the parent.  The
\* rightmost pointer of the left node follows it only when that is the sibling.
\* The parent is flushed here, and by merge again.
MergeNonLeaf(x, up, parent, p, s, i) ==
  LET node == x.disk[p]
      sib == x.disk[s]
  IN IF Len(node.keys) + Len(sib.keys) + 2 > max_size + 1 THEN Merged(x, parent)
     ELSE IF i = -1
     THEN FlushedParent(flush_node(x, s,
                   [sib EXCEPT !.keys = Append(@, Last(parent.keys)) \o node.keys,
                               !.values = Append(@, sib.rightmost_ptr) \o node.values,
                               !.rightmost_ptr = node.rightmost_ptr]),
                 up, [parent EXCEPT !.keys = Front(@), !.rightmost_ptr = 0])
     ELSE FlushedParent(flush_node(x, p,
                   [node EXCEPT !.keys = Append(@, Head(parent.keys)) \o sib.keys,
                                !.values = @ \o sib.values,
                                !.rightmost_ptr = sib.rightmost_ptr]),
                 up, [parent EXCEPT !.keys = Tail(@)])

\* The sibling is the one before the rightmost child, else the next node.  A
\* root left without keys gives way to the merged node.
RECURSIVE merge(_, _, _)
merge(x, p, crumbs) ==
  LET up == Last(crumbs).pid
      i == Last(crumbs).index
      parent == x.disk[up]
      s == IF i # -1 THEN x.disk[p].next
           ELSE IF parent.values = <<>> THEN 0 ELSE Last(parent.values)
      z == Fetched(Fetched(Fetched(x, up), p), s)
      m == IF x.disk[p].is_leaf THEN MergeLeaf(z, parent, p, s, i)
                                ELSE MergeNonLeaf(z, up, parent, p, s, i)
      y == flush_node(m.index, up, m.parent)
  IN IF ~Ok(x) \/ s \notin DOMAIN x.disk THEN Fails(x)
     ELSE IF x.disk[s].is_leaf # x.disk[p].is_leaf \/ ~Ok(y) THEN Fails(x)
     ELSE IF Len(crumbs) > 1 THEN merge(y, up, Front(crumbs))
     ELSE IF m.parent.keys # <<>> THEN y
     ELSE flush_metadata([y EXCEPT !.tree.root_pid = IF i = -1 THEN s ELSE p])

\* A key that is not in the leaf its search ends in has nothing to erase.
remove(x, key) ==
  LET found == findLeaf(x, key)
      leaf == x.disk[found.pid]
      i == Min({j \in DOMAIN leaf.keys : leaf.keys[j] = key})
      y == flush_node(found.index, found.pid, [leaf EXCEPT !.keys = RemoveAt(@, i),
                                                 !.values = RemoveAt(@, i)])
  IN IF found.pid = 0 THEN Fails(x)
     ELSE IF \A j \in DOMAIN leaf.keys : leaf.keys[j] # key THEN Fails(x)
     ELSE IF found.crumbs = <<>> THEN y
     ELSE merge(y, found.pid, found.crumbs)

\* A BTree made anew, and deserialize
open(x) == [Logged(x, "read", 0, x.meta) EXCEPT !.tree = x.meta]

\* The file after a page access
Written(x, access) ==
  IF access.op \notin {"write", "flush"} THEN x
  ELSE IF access.pid = 0 THEN [x EXCEPT !.meta = access.page]
  ELSE [x EXCEPT !.disk = (access.pid :> access.page) @@ @]

\* The call has returned.
Returned(x) == [x EXCEPT !.log = <<>>]
-----------------------------------------------------------------------------
Larger(key) == \A k \in seen : cmpKeys(key, k) > 0

MayInsert(key) ==
  /\ Ok(index)
  /\ index.meta.node_count <= MaxNodes
  /\ \/ "insert" \in client.calls
     \/ "once" \in client.calls /\ key \notin seen
     \/ "append" \in client.calls /\ Larger(key)

MayRemove(key) == Ok(index) /\ "remove" \in client.calls /\ key \in stored

InsertKey(key) ==
  /\ MayInsert(key)
  /\ LET r == insert(index, key)
     IN /\ index' = Returned(r.index)
        /\ stored' = IF r.pid = 0 THEN stored ELSE stored \cup {key}
        /\ seen' = seen \cup {key}
  /\ UNCHANGED <<client, removed, crashes>>

RemoveKey(key) ==
  /\ MayRemove(key)
  /\ index' = Returned(remove(index, key))
  /\ stored' = stored \ {key} /\ removed' = TRUE
  /\ UNCHANGED <<client, seen, crashes>>

OpenIndex ==
  /\ Ok(index)
  /\ "open" \in client.calls
  /\ index' = Returned(open(index))
  /\ UNCHANGED <<client, stored, seen, removed, crashes>>

\* The process ends in a call that makes these accesses, after one of its
\* writes, and another process opens the index.
EndsIn(log) ==
  /\ crashes < client.crashes
  /\ \E n \in 1 .. Len(log) :
       /\ log[n].op \in {"write", "flush"}
       /\ index' = Returned(open(FoldLeft(Written, index, Upto(log, n))))
  /\ crashes' = crashes + 1

CrashInInsert(key) ==
  /\ MayInsert(key)
  /\ EndsIn(insert(index, key).index.log)
  /\ UNCHANGED <<client, stored, seen, removed>>

\* Whether the key is still there depends on the write.
CrashInRemove(key) ==
  /\ MayRemove(key)
  /\ EndsIn(remove(index, key).log)
  /\ stored' = stored \ {key} /\ removed' = TRUE
  /\ UNCHANGED <<client, seen>>

Next ==
  \/ \E key \in client.keys : \/ InsertKey(key) \/ RemoveKey(key)
                              \/ CrashInInsert(key) \/ CrashInRemove(key)
  \/ OpenIndex

Spec == Init /\ [][Next]_vars
-----------------------------------------------------------------------------
(***************************************************************************)
(* Properties, of an index that has not failed                             *)
(***************************************************************************)
Children(n) ==
  IF n.is_leaf THEN {} ELSE {n.values[i] : i \in DOMAIN n.values} \cup {n.rightmost_ptr}

\* The nodes reached from page p by child pointers
RECURSIVE Subtree(_)
Subtree(p) ==
  IF p \notin DOMAIN index.disk THEN {}
  ELSE {p} \cup UNION {Subtree(c) : c \in Children(index.disk[p])}

Nodes == Subtree(index.tree.root_pid)
Leaves == {p \in Nodes : index.disk[p].is_leaf}
KeysOf(p) == {index.disk[p].keys[i] : i \in DOMAIN index.disk[p].keys}

\* The leaves reached from those by next pointers, too
RECURSIVE Chain(_)
Chain(P) ==
  LET more == {index.disk[p].next : p \in P} \cap DOMAIN index.disk
  IN IF more \subseteq P THEN P ELSE Chain(P \cup more)

Sorted(n) == \A i \in 2 .. Len(n.keys) : cmpKeys(n.keys[i - 1], n.keys[i]) <= 0

\* The keys of an internal node stay in order, whatever is inserted, removed
\* and merged where (insertIntoNode, redistribute_kv, the merge strategies):
\* findLeaf chooses a child by it.  So do those of a leaf, until something is
\* removed.
NodesSorted ==
  Ok(index) => \A p \in Nodes : (removed /\ index.disk[p].is_leaf) \/ Sorted(index.disk[p])

\* The keys in the leaves and in the list that the next pointers make of them
Listed == UNION {KeysOf(p) : p \in Chain(Leaves)}

\* No key is lost by a split, however keys arrive (splitRootNode and
\* splitNonRootNode): after an insertion the leaves and their list hold the keys
\* they held before, the new one, and no other, each with its record; until
\* something is removed or the process ends inside a call.
InsertKeepsListed ==
  [][ stored' # stored /\ ~removed' /\ crashes' = 0 /\ Ok(index')
        => /\ Listed' = Listed \cup (stored' \ stored)
           /\ \A p \in Leaves' : index'.disk[p].values = index'.disk[p].keys ]_vars

\* A key that insert took is in a leaf of the file from then on, whatever call
\* the process ends in, and wherever: a split writes the new sibling before it
\* cuts the old node down (splitNonRootNode, splitRootNode), and
\* new_btree_index_page never hands out the page of another node again.
KeysOnDisk ==
  \A k \in stored : \E p \in DOMAIN index.disk :
    index.disk[p].is_leaf /\ k \in KeysOf(p)

\* When the process ends inside insert and the index is opened again, every key
\* that was in the list is still there, unless the metadata page names no root,
\* or one that splitRootNode had not written yet; until something is removed.
CrashKeepsListed ==
  [][ crashes' > crashes /\ ~removed' /\ index'.meta.root_pid # 0
      /\ index'.disk[index'.meta.root_pid].keys # <<>> => Listed \subseteq Listed' ]_vars

\* Between every two children stands a key that is above all keys to its left
\* and not above any to its right, for keys inserted in ascending order, until
\* one is removed (findLeaf, splitRootNode and splitNonRootNode).
Separated ==
  LET Under(p) == UNION {KeysOf(q) : q \in Subtree(p) \cap Leaves}
      ascending == client.calls \cap {"insert", "once"} = {}
  IN Ok(index) /\ ascending /\ ~removed /\ crashes = 0 => \A p \in Nodes \ Leaves :
       LET n == index.disk[p]
           child == Append(n.values, n.rightmost_ptr)
       IN \A i \in DOMAIN n.keys :
            /\ \A k \in Under(child[i]) : cmpKeys(k, n.keys[i]) < 0
            /\ \A k \in Under(child[i + 1]) : cmpKeys(k, n.keys[i]) >= 0

\* The metadata page agrees with the BTree in memory, also after a crash: both
\* count the same nodes (new_btree_index_page counts on disk, insert and the
\* splits in memory), so that writing the page from memory never takes back an
\* id and a new node never gets the page of another; and the page names the root
\* in use, or none before the first split (splitRootNode), so that an index
\* opened again is the one that was closed.
MetadataCurrent ==
  Ok(index) => /\ index.tree.node_count = index.meta.node_count
               /\ Chain(Nodes) \cup DOMAIN index.disk \subseteq 1 .. index.meta.node_count
               /\ index.meta.root_pid \in {0, index.tree.root_pid}

\* btree_index.hpp:64 "Finds the leaf appropriate for the provided key": a
\* search for a stored key ends in a leaf that holds it.
FindsStored == Ok(index) => \A k \in stored :
  \E p \in Leaves : p = findLeaf(index, k).pid /\ k \in KeysOf(p)
=============================================================================
