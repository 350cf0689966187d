-------------------------------- MODULE Bytes --------------------------------
(***************************************************************************)
(* Pages as bytes: the encodings of src/src/utils/serialize.c and the      *)
(* copies that index_page.cpp, heapfile.c and access_method.cpp make.      *)
(* Widths are the code's; a byte has Base values (256 in the code).        *)
(***************************************************************************)
EXTENDS Integers, Sequences

CONSTANTS
  Base,
  PAGE_SIZE

Word == Base * Base     \* 2 bytes

ASSUME BytesAssumption == Base \in Nat \ {0, 1} /\ PAGE_SIZE \in 1 .. Word - 1

Byte == 0 .. Base - 1
uint32 == 0 .. Word * Word - 1
int32 == -((Word * Word) \div 2) .. (Word * Word) \div 2 - 1
Junk == Base            \* a byte that nobody wrote

u16(n) == n % Word

\* The highest byte first
encode_uint16(n) == <<(n \div Base) % Base, n % Base>>
encode_uint32(n) == <<(n \div (Word * Base)) % Base, (n \div Word) % Base, (n \div Base) % Base, n % Base>>
decode_uint16(b) == Base * b[1] + b[2]
decode_uint32(b) == Word * Base * b[1] + Word * b[2] + Base * b[3] + b[4]

encode_int32(n) == encode_uint32(n % (Word * Word))
decode_int32(b) ==
  LET n == decode_uint32(b) IN IF 2 * n < Word * Word THEN n ELSE n - Word * Word

\* What the first k numbers of a sequence add up to
Sums(a) ==
  LET sum[k \in 0 .. Len(a)] == IF k = 0 THEN 0 ELSE sum[k - 1] + a[k]
  IN sum

\* The first k of some sequences, one after the other
Concat(s) ==
  LET cat[k \in 0 .. Len(s)] == IF k = 0 THEN <<>> ELSE cat[k - 1] \o s[k]
  IN cat

\* A copy of n bytes from or to offset at stays in the page.
InPage(at, n) == at + n <= PAGE_SIZE

Copied(page, at, bytes) ==
  [i \in DOMAIN page |-> IF i \in at .. at + Len(bytes) - 1 THEN bytes[i - at + 1] ELSE page[i]]

BytesAt(page, at, n) == [i \in 1 .. n |-> page[at + i - 1]]
=============================================================================
