------------------------------ MODULE IndexPage ------------------------------
(***************************************************************************)
(* How a node of the B+tree becomes a page and a page a node again:        *)
(* BTreePage::serialize and the constructor that takes a page, both in     *)
(* src/src/index/index_page.cpp, one step per round of their loops.        *)
(*                                                                         *)
(* Pairs are written from the last key to the first, downwards from the    *)
(* end of the page, their pointers upwards from the header.  Nothing tests *)
(* that the two do not meet; a copy that leaves the page stops the model   *)
(* ("overrun").                                                            *)
(***************************************************************************)
EXTENDS Bytes

CONSTANT Nodes    \* the nodes to write

RID == [pid : uint32, slot_num : uint32]

\* The fields of a BTreePage.  Every key has a value, which in a leaf is a record id.  The
\* length of a key is a byte.
Key == {k \in Seq(Byte) : Len(k) \in Byte}
BTreePage(leaf) ==
  [is_leaf : {leaf}, keys : Seq(Key), values : Seq(IF leaf THEN RID ELSE uint32),
   next : uint32, rightmost_ptr : uint32, flags : Byte]

ASSUME NodesAssumption ==
  \A n \in Nodes : /\ n.is_leaf \in BOOLEAN /\ n \in BTreePage(n.is_leaf)
                   /\ Len(n.values) = Len(n.keys)

VARIABLES
  node,    \* the node to write: is_leaf, keys, values, next, rightmost_ptr, flags
  data,    \* the page
  left,    \* how many of the pairs are still to write
  start,   \* available_space_start
  end,     \* available_space_end
  read,    \* the node read back
  cursor,  \* kv_pairs_cursor
  ipc      \* "idle", "write", "open", "read", "done" or "overrun"

indexvars == <<node, data, left, start, end, read, cursor, ipc>>

AVAILABLE_SPACE_START_OFFSET == 0
AVAILABLE_SPACE_END_OFFSET == 2
NEXT_PID_OFFSET == 4
RIGHTMOST_PID_OFFSET == 8
TREE_FLAGS_OFFSET == 12
IS_LEAF_OFFSET == 13
INDEX_PAGE_HEADER_SIZE == 13 + IS_LEAF_OFFSET
TREE_KV_PTR_SIZE == 4
RID_SIZE == 8

ValueSize(leaf) == IF leaf THEN RID_SIZE ELSE TREE_KV_PTR_SIZE

\* The bytes of the i-th key and its value
Pair(n, i) ==
  LET v == n.values[i]
  IN <<Len(n.keys[i])>> \o n.keys[i] \o
     (IF n.is_leaf THEN encode_uint32(v.pid) \o encode_uint32(v.slot_num) ELSE encode_uint32(v))

NoNode == [is_leaf |-> TRUE, keys |-> <<>>, values |-> <<>>, next |-> 0, rightmost_ptr |-> 0, flags |-> 0]

\* Nothing to write, and a page nobody wrote to
IndexIdle ==
  /\ node = NoNode /\ read = NoNode
  /\ data = [i \in 0 .. PAGE_SIZE - 1 |-> Junk]
  /\ left = 0 /\ start = 0 /\ end = 0 /\ cursor = 0
  /\ ipc = "idle"

IndexInit ==
  /\ node \in Nodes
  /\ data = [i \in 0 .. PAGE_SIZE - 1 |-> Junk]
  /\ left = Len(node.keys)
  /\ start = INDEX_PAGE_HEADER_SIZE
  /\ end = PAGE_SIZE
  /\ read = NoNode /\ cursor = 0
  /\ ipc = "write"

\* mutant: the next pair starts one byte too high
WritePair_tight ==
  LET kv == Pair(node, left)
      kv_start == u16(end - Len(kv))
  IN /\ ipc = "write" /\ left > 0
     /\ data' = Copied(Copied(data, kv_start, kv),
                       start, encode_uint16(kv_start) \o encode_uint16(Len(kv)))
     /\ start' = u16(start + TREE_KV_PTR_SIZE)
     /\ end' = u16(kv_start + 1)
     /\ left' = left - 1
     /\ UNCHANGED <<node, read, cursor, ipc>>

\* One round of the loop of serialize
WritePair ==
  LET kv == Pair(node, left)
      kv_start == u16(end - Len(kv))
  IN /\ ipc = "write" /\ left > 0
     /\ IF InPage(kv_start, Len(kv)) /\ InPage(start, TREE_KV_PTR_SIZE)
        THEN /\ data' = Copied(Copied(data, kv_start, kv),
                               start, encode_uint16(kv_start) \o encode_uint16(Len(kv)))
             /\ ipc' = ipc
        ELSE ipc' = "overrun" /\ data' = data
     /\ start' = u16(start + TREE_KV_PTR_SIZE)
     /\ end' = kv_start
     /\ left' = left - 1
     /\ UNCHANGED <<node, read, cursor>>

\* The header of a page in the order of its fields
WriteHeader ==
  /\ ipc = "write" /\ left = 0
  /\ data' = Copied(data, AVAILABLE_SPACE_START_OFFSET,
                    encode_uint16(start) \o encode_uint16(end) \o encode_uint32(node.next)
                      \o encode_uint32(node.rightmost_ptr)
                      \o <<node.flags, IF node.is_leaf THEN 1 ELSE 0>>)
  /\ ipc' = "open"
  /\ UNCHANGED <<node, left, start, end, read, cursor>>

ReadHeader ==
  /\ ipc = "open"
  /\ read' = [is_leaf |-> data[IS_LEAF_OFFSET] = 1, keys |-> <<>>, values |-> <<>>,
              next |-> decode_uint32(BytesAt(data, NEXT_PID_OFFSET, 4)),
              rightmost_ptr |-> decode_uint32(BytesAt(data, RIGHTMOST_PID_OFFSET, 4)),
              flags |-> data[TREE_FLAGS_OFFSET]]
  /\ cursor' = decode_uint16(BytesAt(data, AVAILABLE_SPACE_END_OFFSET, 2))
  /\ ipc' = "read"
  /\ UNCHANGED <<node, data, left, start, end>>

\* mutant: an empty key is never skipped
SkipEmpty_stuck ==
  /\ ipc = "read" /\ cursor < PAGE_SIZE
  /\ data[cursor] = 0
  /\ UNCHANGED indexvars

\* An empty key is skipped: in a leaf by less than its pair takes, in an
\* internal node not at all.
SkipEmpty ==
  /\ ipc = "read" /\ cursor < PAGE_SIZE
  /\ data[cursor] = 0
  /\ cursor' = IF read.is_leaf THEN u16(cursor + RID_SIZE) ELSE cursor
  /\ UNCHANGED <<node, data, left, start, end, read, ipc>>

ReadPair ==
  LET length == data[cursor]
      at == cursor + 1 + length
      size == ValueSize(read.is_leaf)
      value == IF read.is_leaf THEN [pid |-> decode_uint32(BytesAt(data, at, 4)),
                                     slot_num |-> decode_uint32(BytesAt(data, at + 4, 4))]
               ELSE decode_uint32(BytesAt(data, at, 4))
  IN /\ ipc = "read" /\ cursor < PAGE_SIZE
     /\ length # 0
     /\ IF InPage(cursor, 1 + length + size)
        THEN /\ read' = [read EXCEPT !.keys = Append(@, BytesAt(data, cursor + 1, length)),
                                     !.values = Append(@, value)]
             /\ ipc' = ipc
        ELSE ipc' = "overrun" /\ read' = read
     /\ cursor' = u16(at + size)
     /\ UNCHANGED <<node, data, left, start, end>>

ReadEnd ==
  /\ ipc = "read" /\ cursor >= PAGE_SIZE
  /\ ipc' = "done"
  /\ UNCHANGED <<node, data, left, start, end, read, cursor>>

IndexNext ==
  \/ WritePair
  \/ WriteHeader
  \/ ReadHeader
  \/ SkipEmpty
  \/ ReadPair
  \/ ReadEnd

IndexSpec == IndexInit /\ [][IndexNext]_indexvars
-----------------------------------------------------------------------------
PairSize(n, k) == 1 + Len(n.keys[k]) + ValueSize(n.is_leaf)

\* The bytes that the first k pairs take
PairsSize(n) == Sums([k \in DOMAIN n.keys |-> PairSize(n, k)])

\* Pairs, pointers and header have room on a page.
Fits(n) ==
  INDEX_PAGE_HEADER_SIZE + TREE_KV_PTR_SIZE * Len(n.keys) + PairsSize(n)[Len(n.keys)] <= PAGE_SIZE

NoEmptyKey(n) == \A i \in DOMAIN n.keys : n.keys[i] # <<>>

(***************************************************************************)
(* A node that has room on a page, pointers included, and no empty key is  *)
(* read back as it was written, and neither serialize nor the constructor  *)
(* leaves the page.                                                        *)
(***************************************************************************)
NodeSurvives ==
  Fits(node) /\ NoEmptyKey(node) =>
    /\ ipc # "overrun"
    /\ ipc = "done" => read = node

(***************************************************************************)
(* The loop of the constructor ends, for a leaf whatever was written and   *)
(* for an internal node that has room and no empty key.                    *)
(***************************************************************************)
ReadEnds ==
  ipc = "open" /\ (node.is_leaf \/ (Fits(node) /\ NoEmptyKey(node)))
    ~> ipc \in {"done", "overrun"}
=============================================================================
