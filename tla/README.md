# A verification of somedb in TLA+

somedb is a small database management system in C and C++: heap files and
B+tree indexes on disk, a buffer pool with clock replacement over them, and the
front half of an SQL engine. This directory models the storage layer, the index and
the SQL front end up to the evaluation of expressions: TLA+ modules translated from the
source, TLC configurations that check them on small instances, and theorems about the
hash table, the clock replacer, the buffer pool, the heap file, the pages of nodes and
tables and the lexer that TLAPS has checked.

`PROJECT.json` holds the details in a form tools can read: every run with its
properties, the source lines each definition stands for, the mutations each
property was tried against, the hazards of the code and the findings. In paths,
`src/` is the repository.

## The system and its parts

| part | source | modules | state |
|---|---|---|---|
| hash table | `utils/hash` | `HashChain`, `HashTable`, `Dictionary`, `HashTable_proofs` | modelled, without `destroy_hash` |
| circular list | `utils/circular_list` | `ClockOps`, `ClockOps_proofs` | modelled, without `circular_list_destroy` |
| clock replacer | `disk/clock_replacer` | `ClockOps`, `ClockReplacer`, `ClockOps_proofs`, `ClockReplacer_proofs` | modelled |
| buffer pool | `disk/bpm` | `BufferOps`, `BufferPool`, `BTreePool`, `BufferOps_proofs`, `BufferPool_proofs` | modelled |
| heap file | `disk/heapfile` | `HeapFile`, `TableAccess`, `HeapFile_proofs`, `Pages_proofs` | modelled |
| disk manager | `disk/disk_manager` | in `BufferOps`, `HeapFile`, `BTree` | page reads and writes, new index pages |
| B+tree and merging | `index/btree_*` | `BTree`, `BTreePool` | modelled |
| index page | `index/index_page` | `BTree`, `IndexPage`, `Pages_proofs` | modelled |
| serialization | `utils/serialize` | `Bytes`, `Pages_proofs` | what nodes, columns and rows use |
| lexer, parser | `sql/lexer`, `sql/parser`, `sql/sql_expression` | `Lexer`, `Parser`, `Lexer_proofs` | modelled |
| access methods, schemas, expressions | `sql/access_method`, `sql/schema`, `sql/logical_expression` | `TableAccess`, `Pages_proofs` | modelled |
| primitive values | `sql/primitive` | `TableAccess` | without comparisons, which nothing calls |
| logical plan | `sql/logical_plan` | | not modelled, see below |
| main | `main.cpp` | | empty |

The hash table is the common ground: it is the page table of the buffer pool,
the frame table of the clock replacer and the page directory of a heap file. The
replacer keeps the frames that may be evicted in a circular list, with a
reference bit for each in its frame table. The pool finds pages by its page
table, takes free frames or asks the replacer for a victim, and reads and writes
pages through the disk manager. The B+tree reads and writes its nodes through a
pool; heap files use the disk manager directly. Every hash table,
every replacer and every disk manager has a read-write lock; `hash_find`,
`defragment`, the pool and the tree take none.

The modules follow this composition. `BufferOps` extends `ClockOps` and
instantiates `HashChain` for its page table, so that the pool's runs contain the
real replacer and the real chains, with their defects. `HashTable` and
`ClockReplacer` put the same operators under threads and latches. `Dictionary` is
the abstract map that `HashTable` is shown to implement. `BTreePool` composes the
tree with the pool: the page accesses of `BTree` are carried out on `BufferOps`.
`Parser` runs on the tokens that `Lexer` makes. `Bytes` is the common ground of
`IndexPage` and `TableAccess`, which share a run (`MCPages`) and a module of proofs.

The SQL side is not joined in the repository itself: nothing turns a parsed
statement into a plan, and no plan is executed.

## How the modules correspond to the code

**Undefined behaviour.** A comparison with a freed key may come out either way in
`HashTable` (a Boolean the action chooses). In the larger models a call that
would read freed memory ends the behaviour with the status `"undefined"`, a NULL
dereference or an `exit` with `"crashed"` or `"exited"`, and properties speak of
behaviours that have not ended. The memory of a node that was not initialised is
taken as "no node" in `BTree`, and no property depends on it.

**`HashChain`, `HashTable`.** A bucket is the sequence of its elements, the first
of which is embedded in the array. An element has a flag for "key and data not
freed". `RemoveFrom` promotes the second element when the first one goes and
frees it, as `hash_remove` does. Writers hold the latch and are one step.
`hash_find` takes a step for each element; a reader whose element is unlinked
under it is `"dangling"`. `dict` and `damaged` are history: what the callers asked
for, and the buckets in which a first element of several was removed.

**`ClockOps`, `ClockReplacer`.** The replacer is a record: the list as a sequence
of frames, the hand as a position, the reference bits, and for each frame the
node whose string its key in the frame table is, since list and table share that
string and freeing the node frees the key. `Pin`, `Unpin` and `Evict` are one step
once the latch is free. glibc lets the writer of a read-write lock that locks it
again go on, so the latch that `evict` leaves locked stops other threads only.

**`BufferOps`, `BufferPool`.** The pool record holds the page table, the free
frames, the frames, the replacer and the disk. Each operator is one function of
`bpm.c` with all that it calls. In `BufferPool` a call is a step, apart from
`allocate_new_page`, where every round of the loop is one. A page id is the number
of pages on disk, which is what `new_btree_index_page` counts. `store`, `released` and
`evicted` are history: what was last written to a page, the frames whose page was
unpinned to 0 since it was placed, and how many frames `evict` has taken. A page is
formatted on disk (`Fresh`) before it is allocated, and the frame the caller is given
holds zeroes (`Zero`): the two contents differ in the model as they do in the code.

**`HeapFile`.** The steps of a call are separated where another thread can come
between: the choice of the page, the read, the write, the removal from and the
insertion into the directory, the two reads of `defragment`. A page has the end of
its free space, its tuple pointers and what is stored at which offset. The
directory is kept twice, in memory and as the 16-bit words of page 0. Slots count
from 1. `where`, `removed` and `rewritten` are history: the record ids given out, the
tuples removed, and the pages that `defragment` or a second `new_heap_page` wrote over,
of which the properties say nothing. Whether the columns match the schema is a choice (`AddReject`).

**`BTree`.** A call is one step: the index is used by one thread, and every node a
call changes is on disk when it returns. The operators carry the index (pages,
metadata page, the BTree object) through the functions of `btree_index.cpp`, and with
it the list of page accesses of the call. `CrashInInsert` and `CrashInRemove` use it: the
process ends after any one of the writes, and another process opens the index. Writing
a page is atomic. `flush_node` stands for writing a node and reading it back, which
keeps as many values as there are keys. Keys are byte strings, compared as `cmpKeys`
does. An exception, or the metadata page read as a node, ends the behaviour. What a
client does (`client`: its calls, its keys, how many crashes) is chosen initially.
`stored`, `seen`, `removed` and `crashes` are history.

**`BTreePool`.** The accesses of each call, in order, on a pool: `fetch` and `flush` go
through it, `read` and `write` past it, as in the code. `flush_node_through` is
`BTree::flush_node`. After a crash there is a new pool over the same file. Pin counts are
left out, since the tree never unpins and nothing else looks at them.

**`Bytes`, `IndexPage`.** A page is a function from offsets to bytes; a byte that nobody
wrote is `Junk`. A byte has `Base` values, widths are the code's. `serialize` and the
constructor of a node take one step per round of their loops; a copy that would leave
the page ends the behaviour (`"overrun"`). What is assumed of a node (`NodesAssumption`) is
what the fields of `BTreePage` and `BTreeKey` can hold and that every key has a value.

**`TableAccess`.** Three pieces of code have to agree on the page of a table's columns:
`create_table` writes it, the loop of `add_tuple` compares it with the columns it was
given, and `HeapfileAccess::schema` reads it. They do not compute offsets in the same
way. One behaviour takes one table through all three, a column per step, and then
evaluates an expression on the row that was added, through the columns that were read.
A caller of `add_tuple` passes the table's columns or others close to them (`Calls`).
What arithmetic computes is kept as a record of the operation and its operands. What is
assumed of a table (`TablesAssumption`) is what the fields of `Column` and `ColumnValue` can
hold, that a name has no null character (a comment in `heapfile.h` demands it) and that
the number of columns is a byte.

**`Lexer`, `Parser`.** One step per character or finished token; an input is a sequence
of characters from an alphabet with a few members of every class the code tells apart,
and a keyword is one letter. `parse` and the functions it calls are operators that return the
expression and the position they leave the parser at; an exception is `Thrown`. The
reference for them is a grammar (`IsExpr`, `IsSelect`) and the tree it assigns (`Tree`),
which are written without precedence climbing.

## What the runs show

Passing runs, with the number of distinct states:

| run | shows | states |
|---|---|---|
| `HashTable_colliding` | types; undamaged buckets answer as the map; damage stays at the head; unlatched searches of undamaged buckets are right | 521,378 |
| `HashTable_injective` | without collisions, refinement of `Dictionary` | 60,300 |
| `ClockReplacer_calls` | victims are unpinned and had their second chance; keys of the frame table name their frame; every call returns unless an eviction found the list empty | 525,333 |
| `BufferPool_calls` | up to the first replacement no write is lost; a page keeps its frame until it was unpinned; allocation ends once there is a frame to take | 363,904 |
| `HeapFile_calls` | reads, slots and directory agree on every page that was not written over, and the latch is always released | 525,579 |
| `BTree_calls` | internal nodes stay sorted, leaves until the first removal; the metadata page agrees with the tree in memory; a key that was inserted is in a leaf on disk through every crash; no split loses a key; a search tree until the first removal, for ascending keys | 1,377,037 |
| `BTreePool_calls` | the tree reads what it wrote although it mixes accesses through and past the pool; after a call the file holds everything; a pool with a frame more than the tree has nodes is enough until the first removal | 1,540,742 |
| `Pages_readback` | which nodes and columns are read back as written, what `add_tuple` accepts, what expressions are evaluated on | 19,067 |
| `Parser_inputs` | tokens are the longest runs, lexing ends, precedence and association are right, statements are parsed as written, and without parentheses no token is dropped | 292,179 |

Three runs show where the code does something else than its comments say; each is a
finding in `PROJECT.json` with the quotation:

- `HashTable_remove_head`: removing the first of several elements of a bucket loses
  the second, too;
- `BufferPool_dirty_victim`: a dirty page that loses its frame is not written;
- `BTree_find`: a search never goes to a child between the first and the rightmost.

### Other differences

The models contain these as well. No property states them; the properties that hold
name them as exceptions or end with the behaviour that meets them.

- `hash_find` tests a key for NULL and reads it again, and a removal can come between
  (`hash.c:142`).
- `evict` on an empty list returns with the latch locked (`clock_replacer.c:29`),
  which stops every other thread, also one whose unpin an `allocate_new_page` is
  waiting for. It leaves the hand on the node it frees (`:49`).
- `circular_list_remove` can unlink a node of another value (`circular_list.c:71`).
- `fetch_bpm_page` counts a second pin for a page it reads (`bpm.c:171`), follows NULL
  when there is no frame (`:170`), and does not tell the replacer of a page it finds in
  the pool (`:164`), so that pinned pages can lose their frame. `flush_page` keeps the
  dirty bit. `allocate_new_page` returns zeroes, not the page it wrote to disk (`:79`).
- `find_spacious_page` compares a pointer with the size (`heapfile.c:27`): it returns
  the first page, which `new_heap_page` wipes. `add_tuple` does not test for room
  (`:272`). `update_page_dir` writes entries that overlap (`:163`). `defragment` moves
  tuples and not their pointers (`:354`) and takes no latch: a tuple added between its
  read and its write (`:333`) is lost.
- `insert` returns the left half of a leaf it split (`btree_index.cpp:69`), does not
  record the first root (`:43`), links a leaf that was split off to no parent unless
  it is the rightmost (`:90`), and splits the wrong node two levels up (`:106`).
  Merging can lose the rightmost child (`btree_strategy.cpp:35`) or the sibling
  (`:23`). `cmpKeys` takes a key for equal to its beginning (`index_page.hpp:82`).
- A crash in `splitRootNode` can leave a metadata page that names a root not yet written
  (`btree_index.cpp:137`), and before the first split the metadata page names none.
- Once something was removed from a tree, a pool that was large enough before may fail
  it: three or more free frames are in the replacer's list then, and
  `circular_list_remove` takes out the wrong node.
- A page in which key-value pairs meet their pointers is written without an error
  (`index_page.cpp:46`). An empty key makes the constructor of an internal node loop
  for ever (`:86`: the second branch of `?:` adds nothing), and that of a leaf skip one
  byte less than the pair has.
- `create_table` puts the columns of three or more names of different lengths where
  `schema` does not look for them, and possibly over each other (`heapfile.c:84`). A table
  without columns accepts any tuple (`:252` is inside the loop). A name is accepted if it
  begins with the table's name (`:257`).
- `getValue` finds a value only if the columns before it are as wide as its own
  (`schema.cpp:12`); of a string it makes a bool (`primitive.cpp:71`, `primitive.hpp:111`).
  Arithmetic on two types reads the wrong member of the union (`primitive.cpp:16`).
  Whether a `BinaryLogicalExpr` can be made at all depends on the order in which the
  compiler evaluates arguments (`logical_expression.hpp:56`).
- An illegal token keeps the literal of the token before it (`lexer.cpp:100`), which is all
  that the parser compares with `FROM` and `WHERE`. Every keyword starts a SELECT statement
  (`parser.cpp:34`). An input of
  65536 characters or more is never read to its end (`lexer.hpp:79`). `parse` ignores what
  follows an expression, and any token may close a parenthesis (`parser.cpp:27`).
  `nextTokenPos` returns the position behind the last token, and -1 only after that
  (`parser.hpp:36`).
- Not in a model: `pretty` calls `children` in the condition of its loop, which moves the
  input out of the operator and destroys it, and then again in the body
  (`logical_plan.cpp:15`).

### Bounds

- Hash table: three keys of one bucket give a chain with a head, a middle and a
  tail, everything the code tells apart; three buckets for the case without
  collisions. One searching thread in the first case, two in the second.
- Clock replacer: three frames, so that the list has a first, a middle and a last
  node besides the one under the hand; two threads, so that one can wait for the
  other.
- Buffer pool: two frames and three pages are the least with a replacement and a
  collision in the page table; one thread. A page in the pool is fetched again while
  its pin count is below `MaxPins` = 1: the case that leaves a pinned page in the
  replacer. A fetch from disk counts to 2. No new call starts after `MaxEvicted` = 1 replacements:
  `Coherent` says nothing of what follows, and an allocation has made its sweeps by then.
- Heap file: three tuples of 1 to 3 bytes in pages of 22 bytes: any two fit and the
  three do not, so that the last room and the lack of it both occur. Each tuple is
  added once. Of the two user pages only the first is ever used, which is what
  `find_spacious_page` does.
- B+tree: nodes of two keys, the least that can be halved on every level. Trees of
  three levels occur with every client, trees of four with none. `MaxNodes` bounds the
  pages, since keys the search does not find can be inserted again and again. The four
  clients of `MCBTree!All`: nine keys in any order and repeatedly, two of them two bytes
  long that `cmpKeys` takes for a shorter one; five keys in any order, once, with reopening
  and a crash; seven ascending keys with removals and reopening; six of them and a crash.
  One crash is enough for what is checked, since a crash leaves nothing but the file.
- B+tree over the pool: five keys in any order, each inserted once, with removals,
  reopening and a crash. No insertion starts in a tree of more than `MaxNodes` = 7 nodes; with
  six frames trees both smaller and larger than the pool occur.
- Pages: 56 bytes, exactly the room for two of the largest pairs, so that nodes fit with
  and without a rest and do not fit; a byte has 16 values, so that 16-bit fields use both
  bytes and the 8-bit cursor over the columns wraps. Up to three keys of 0 to 2 bytes; up to four columns
  with names of three lengths; up to three columns of every combination of types.
- Parser: every input of up to four characters from eight, every list of up to four of
  ten tokens, expressions of three to five operands with
  parentheses, SELECT statements with parts
  missing, and inputs as long as the cursor's range (`Width` = 48 here) and around it.
  `MaxTokens` stops inputs that are read again and again.

`CHECK_DEADLOCK FALSE` is set throughout: a finite set of tuples or keys is used
up, and a program that ended takes no step.

### Fairness

`ClockReplacer!FairSpec` and `HeapFile!FairSpec` have weak fairness for the steps of
a thread that is inside a call: the operating system runs every thread that is not
blocked. `BufferPool!LoopSpec` has it for the rounds of the loop of
`allocate_new_page`, which does not sleep. `Parser!Spec` has it for the steps of the lexer
and `MCPages!Spec` for those of writing and reading a node, which are loops of one
sequential program. Nothing is assumed of when threads call.

## What is proved

Every theorem holds for all values of the constants; the assumptions are the named
`ASSUME`s of the modules, which TLC evaluates in the runs. None of the invariants is
inductive as it stands. Each proof has an inductive invariant (mostly `IInv`), one lemma
per action, and lemmas about single operations that know nothing of the state machine;
every such invariant was also checked with TLC on the instance of the component's run.

**Hash table** (`HashTable_proofs`), for every number of buckets, every set of keys and
data and every set of readers: `TypeCorrect` (`[]TypeOK`), `HeadsFreed`
(`[]OnlyHeadsFreed`), `Faithful` (`[]UndamagedFaithful`), `FindsFaithful` (`FindsAgree`, the
action property about unlatched searches) and, if `hash` is injective on the keys,
`CollisionFreeRefinement` (`ImplementsDictionary`). `IInv` adds to the types that freed
elements are heads of damaged buckets (`HeadsInv`), that the chain of an undamaged
bucket has each stored key exactly once with its data (`ChainsInv`, which is what makes
"the first match" and "the map" agree after an unlink), and that for a reader in an
undamaged bucket no match lies behind it (`ReadersInv`, which is what makes the end of
the chain mean "not stored"). For the refinement `CInv` adds that nothing is damaged and
no reader dangles; `StepSimulation` maps every step to a step of `Dictionary` or to a
stutter.

**Clock replacer** (`ClockOps_proofs`, `ClockReplacer_proofs`), for every capacity and
every set of threads: `TypesKept` (`[]TypeOK`), `KeysRight` (`[]KeysNameFrames`),
`VictimsUnpinned` (`VictimUnpinned`) and `SecondChanceGiven` (`SecondChance`). The core of
`IInv` is `Linked`: the hand and the keys of the frame table refer to nodes of the list or
to a freed node, and the key of a tracked frame, unless it was freed, to a node of that
frame. It holds although every insertion and every removal moves the nodes, and also
after `circular_list_remove` has unlinked a node of another value. `IInv` adds that a frame
with a reference bit was unpinned since. `evict` is a recursive function over its rounds.
That the function exists and that its n-th value is the result of n rounds is proved by
induction (`RoundsExist`, `EvictRounds`): the induction scheme is not used as a theorem
with an operator as its parameter but through the set of numbers for which the claim
holds (`UpTo`: a set of numbers with 0 and closed under successors up to n has n).
`InSweep` is the invariant of the rounds: after n of them the hand is n nodes further and
the nodes it passed are the ones whose bit was cleared, so that in one sweep no node is
met twice.

**Buffer pool** (`BufferOps_proofs`: what each function of `bpm.c` makes of a pool and
that it keeps the pool coherent; `BufferPool_proofs`: the state machine and the
theorems), for every pool size, file size, set of contents and set of
threads: `TypesKept` (`[]TypeOK`), `PoolsCoherent` (`[]Coherent`) and
`PinnedFramesKept` (`PinnedKeepsFrame`). `IInv` has three parts besides the types. The
replacer is `Linked`, which the pool's calls to it keep. As long as nothing was evicted,
the pool is coherent in a stronger sense than `Coherent` (`PoolCoherent`): in every bucket
whose head was not freed all elements are live, belong there, have different keys, and
lead to a frame that has the key's page, is not free and has the content of `store`; every
other page of the bucket is on disk as in `store`; and a page in the pool, or being
allocated, is in the file, which has no holes (so that the page id `allocate_new_page`
takes is new). And every frame that has a reference bit is free or was released, also
after evictions (`Takeable`). `flush_page` is the step that needs the care: it removes an
entry only when it is the head of its chain (otherwise it reads freed memory), and
either empties the bucket or leaves a freed head. Each function of `bpm.c` has a lemma
that says what it makes of the five fields of a pool, for arguments of any kind
(`FlushAny`, `UnpinAny`, `NewBpmPage`, `FetchBpmPage`).

**Heap file** (`HeapFile_proofs`), for every page size, number of pages, set of tuples of
any sizes and set of threads: `TypesKept` (`[]TypeOK`), `TuplesApart` (`[]SlotsDisjoint`), `DirectoryRight`
(`[]DirectoryMatchesHeaders`) and `TuplesFound` (`[]ReadsRight`). `IInv` says, until the
program ends, of every call in progress what it has read and not yet written
(`CallsSound`: under the latch the page a call carries is the one on disk), that
exactly the calls between lock and unlock hold the latch (`Latched`), that the directory
lags behind only for the page of a call that is about to update it (`Directory`), that
pages which were not written over are well formed (`Pages`) and that every record id
given out leads to its tuple (`Places`). The types have an invariant of their own
(`Typed`), because they also hold of pages that were written over. That no offset of a
page leaves its 16 bits follows from `Packed`: the sizes of the tuples of the pointers, taken
from the page end, lead to the end of the free space. `defragment` copies tuples in a loop
over the pointers; that the page it writes is packed again is an induction over the rounds
(`CopiesExist`, `CompactedCopies`, `CompactedPacked`), in which the room the copies need is
at most what the page they come from had.

**Lexer** (`Lexer_proofs`), for every set of inputs over the characters and every range of
`ahead_position`: `InputsCut` (`[]TokensAreSpans`), of the lexer alone (`LexSpec`); every step
of `Parser` is a step of the lexer or leaves its variables unchanged. `IInv` says where the
lexer is (`ReadTo`): of the `pos` characters read, the first `b` are cut into tokens and the
others, all letters or all digits, are in `str`. That is inductive only because no token
goes over a place where a token was finished (`Break`): then the next span begins right
behind it and its number is one more than that of the last (`NextSpan`). The cursor, which
is one character ahead and has wrapped to 0 at the end of an input of `Width - 1`
characters, is right to the last one (`ReadsOne`, `ReadsTwo`).

**Pages** (`Pages_proofs`), for every page size, every number of values of a byte, every set
of nodes and every set of tables. Of a node: `NodesReadBack` (`[]NodeSurvives`). Its
invariant `NodeInv` says where the pairs are: they are written from the last to the first,
so the k-th starts behind the sizes of those before it, counted from the page end
(`Pos`, over the sums of `Sums`). As long as pairs, pointers and header have room, no pair
written later touches one written before (`PairsStay`), the header leads to the first
pair, and after r rounds the constructor has the first r pairs. Of a table:
`ColumnsReadBack` (`[]SchemaReadBack`), `OwnAccepted` (`[]OwnColumnsAccepted`), `AcceptedAgree`
(`[]AcceptedMatch`) and `RowsReadBack` (`[]EvaluatesStored`). `TableInv` says which columns are on
the page at the writer's offsets (`OnPage`), which is kept only while none is written over
another (`Apart`), how far the loop of `add_tuple` has found agreement (`Checking`) and how
far `schema` has read (`SchemaUpTo`). The reader of the columns counts in another way than
the writer; `InOrder` shows that the two agree for at most two columns or names of one
length, and that then nothing is written over. `RowInv` adds that the tuple is the bytes of
the row and the result an evaluation on it; `CatPlaces` finds a value in the bytes when the
values before it are as wide. Both use that the encodings are inverted by the decodings
(`Decoded16`, `Decoded32`, `IntegerReadBack`), whatever the base is.

### Only model-checked

- Liveness (`CallsReturnUnlessEmptyEvict`, `AllocateEndsWithVictim`, `LatchReleased`,
  `ReadEnds`, `LexEnds`): it needs `ENABLED`, which the provers do not reason about.
- `BTree`, `BTreePool` and `Parser`, with all their properties: their operators are
  recursive as the code's functions are, and the prover takes no theorem in a module with
  a `RECURSIVE` operator. As recursive functions they could be stated, but the claims are
  inductions over trees of nodes and over derivations of a grammar.

## What is not modelled, and why

- `destroy_hash` and `circular_list_destroy`: only tests call them.
- The results of `hash_remove` (`success_out`): `clock_replacer_pin` tests the
  pointer, not the value, so nothing depends on it.
- Two threads inside the pool at once: the pool has no latch and the repository
  never shares one.
- A crash of the heap file: no code reads a table file back. Torn writes of a page.
- I/O errors and file descriptors.
- The logical plan: only tests build one, and none is executed. Its operators pass the
  schema of a scan on or list the columns they were given; nothing several steps long
  depends on it.
- Comparisons of primitive values, which nothing calls, and `encode_int16`.
- Printing: `toString`, `pretty`.
- Tuples of nearly 65536 bytes, which fit into no page, and overflow of 32-bit sums: there
  the code is undefined, so there is no result a model could be compared with.

## Plan

1. The logical plan and a scan, once the repository executes plans.
2. `BTree` with nodes of three keys, which takes a smaller set of keys or symmetry that
   `cmpKeys` does not have.
