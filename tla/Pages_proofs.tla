----------------------------- MODULE Pages_proofs -----------------------------
(***************************************************************************)
(* Theorems about IndexPage and TableAccess, for every page size, every    *)
(* number of values of a byte, every set of nodes and every set of tables: *)
(* that a node is read back from its page, a table's columns from theirs,  *)
(* that add_tuple's check is right, and that an expression is evaluated on *)
(* the values of the row.                                                  *)
(***************************************************************************)
EXTENDS IndexPage, TableAccess, WellFoundedInduction, TLAPS

-----------------------------------------------------------------------------
(* Encodings. *)

\* Quotient and remainder.
LEMMA Division ==
  ASSUME NEW b \in Nat, b > 0, NEW n \in Nat
  PROVE  /\ n \div b \in Nat /\ n % b \in 0 .. b - 1
         /\ n = b * (n \div b) + (n % b)
OBVIOUS

\* A number below the divisor is its own remainder.
LEMMA Remainder ==
  ASSUME NEW b \in Nat, b > 0, NEW n \in 0 .. b - 1
  PROVE  n % b = n
OBVIOUS

\* A turn more leaves the remainder.
LEMMA Turn ==
  ASSUME NEW b \in Nat, b > 0, NEW n \in Int
  PROVE  n % b = (n + b) % b
<1>1. /\ n \div b \in Int /\ n % b \in 0 .. b - 1
      /\ n = b * (n \div b) + (n % b)
  OBVIOUS
<1>2. /\ (n + b) \div b \in Int /\ (n + b) % b \in 0 .. b - 1
      /\ n + b = b * ((n + b) \div b) + ((n + b) % b)
  OBVIOUS
<1> DEFINE q == n \div b
           p == (n + b) \div b
           d == q + 1 - p
           r == n % b
           t == (n + b) % b
<1>3. q \in Int /\ p \in Int /\ d \in Int /\ r \in 0 .. b - 1 /\ t \in 0 .. b - 1
  BY <1>1, <1>2
<1>4. n = b * q + r /\ n + b = b * p + t
  BY <1>1, <1>2
<1> HIDE DEF q, p, r, t
<1>5. b * d = t - r
  BY <1>3, <1>4
<1> HIDE DEF d
<1>6. ~(d >= 1)
  <2>1. d >= 1 => b * d >= b
    BY <1>3
  <2> QED
    BY <1>3, <1>5, <2>1
<1>7. ~(d <= -1)
  <2>1. d <= -1 => b * d <= -b
    BY <1>3
  <2> QED
    BY <1>3, <1>5, <2>1
<1>8. d = 0
  BY <1>3, <1>6, <1>7
<1>9. b * d = 0
  BY <1>3, <1>8
<1>10. r = t
  BY <1>3, <1>5, <1>9
<1> QED
  BY <1>10 DEF r, t

\* A number below b * m has a quotient below m.
LEMMA Quotient ==
  ASSUME NEW b \in Nat, b > 0, NEW m \in Nat, NEW n \in Nat, n < b * m
  PROVE  n \div b < m
<1>1. /\ n \div b \in Nat /\ n % b \in 0 .. b - 1
      /\ n = b * (n \div b) + (n % b)
  BY Division
<1> QED
  BY <1>1

\* Two divisions are one.
LEMMA Quotients ==
  ASSUME NEW b \in Nat, b > 0, NEW c \in Nat, c > 0, NEW n \in Nat
  PROVE  n \div (b * c) = (n \div b) \div c
OBVIOUS

\* A word has two bytes.
LEMMA Widths ==
  /\ Base \in Nat /\ Base > 1
  /\ Word \in Nat /\ Word > 1 /\ Word = Base * Base
  /\ PAGE_SIZE \in Nat /\ 0 < PAGE_SIZE /\ PAGE_SIZE < Word
<1>1. Base \in Nat /\ Base > 1 /\ PAGE_SIZE \in 1 .. Word - 1
  BY BytesAssumption
<1>2. Base * Base \in Nat /\ Base * Base > 1
  BY <1>1
<1> QED
  BY <1>1, <1>2 DEF Word

\* An offset keeps its value in 16 bits.
LEMMA Short ==
  ASSUME NEW n \in Nat, n <= PAGE_SIZE
  PROVE  u16(n) = n
BY Widths, Remainder DEF u16

\* decode_uint16 inverts encode_uint16.
LEMMA Decoded16 ==
  ASSUME NEW n \in Nat, n < Word,
         NEW b, b[1] = encode_uint16(n)[1], b[2] = encode_uint16(n)[2]
  PROVE  decode_uint16(b) = n
<1>1. n = Base * (n \div Base) + (n % Base) /\ n \div Base \in Nat
  BY Widths, Division
<1>2. n \div Base < Base
  BY Widths, Quotient
<1>3. (n \div Base) % Base = n \div Base
  BY <1>1, <1>2, Widths, Remainder
<1>4. b[1] = (n \div Base) % Base /\ b[2] = n % Base
  BY DEF encode_uint16
<1> QED
  BY <1>1, <1>3, <1>4 DEF decode_uint16

\* A number of four bytes is the sum of its bytes.
LEMMA FourBytes ==
  ASSUME NEW b \in Nat, b > 1, NEW n \in Nat, n < (b * b) * (b * b)
  PROVE  n = b * b * b * ((n \div (b * b * b)) % b) + b * b * ((n \div (b * b)) % b)
               + b * ((n \div b) % b) + (n % b)
<1> DEFINE p == n \div b
           q == p \div b
           r == q \div b
<1>1. p \in Nat /\ n = b * p + (n % b)
  BY Division
<1>2. q \in Nat /\ p = b * q + (p % b)
  BY <1>1, Division
<1>3. r \in Nat /\ q = b * r + (q % b)
  BY <1>2, Division
<1>4. q = n \div (b * b)
  BY Quotients
<1>5. r = n \div (b * b * b)
  <2>1. b * b \in Nat /\ b * b > 0
    OBVIOUS
  <2> QED
    BY <1>4, <2>1, Quotients
<1>6. r < b
  <2>1. p < b * b * b
    <3>1. n < b * (b * b * b) /\ b * b * b \in Nat
      OBVIOUS
    <3> QED
      BY <3>1, Quotient
  <2>2. q < b * b
    <3>1. p < b * (b * b) /\ b * b \in Nat
      BY <1>1, <2>1
    <3> QED
      BY <1>1, <3>1, Quotient
  <2> QED
    BY <1>2, <2>2, Quotient
<1>7. r % b = r
  BY <1>3, <1>6, Remainder
<1> HIDE DEF p, q, r
<1>8. n = b * (b * (b * r + (q % b)) + (p % b)) + (n % b)
  BY <1>1, <1>2, <1>3
<1>9. (q % b) \in Nat /\ (p % b) \in Nat /\ (n % b) \in Nat
  BY <1>1, <1>2, Division
<1>10. n = b * b * b * r + b * b * (q % b) + b * (p % b) + (n % b)
  BY <1>3, <1>8, <1>9
<1> QED
  BY <1>4, <1>5, <1>7, <1>10 DEF p

\* decode_uint32 inverts encode_uint32.
LEMMA Decoded32 ==
  ASSUME NEW n \in uint32,
         NEW b, \A k \in 1 .. 4 : b[k] = encode_uint32(n)[k]
  PROVE  decode_uint32(b) = n
<1>1. n \in Nat /\ n < (Base * Base) * (Base * Base)
  BY Widths DEF uint32
<1>2. /\ b[1] = (n \div (Word * Base)) % Base /\ b[2] = (n \div Word) % Base
      /\ b[3] = (n \div Base) % Base /\ b[4] = n % Base
  BY DEF encode_uint32
<1>3. n = Base * Base * Base * ((n \div (Base * Base * Base)) % Base)
            + Base * Base * ((n \div (Base * Base)) % Base)
            + Base * ((n \div Base) % Base) + (n % Base)
  BY <1>1, FourBytes, Widths, Zenon
<1> QED
  BY <1>2, <1>3 DEF decode_uint32, Word

-----------------------------------------------------------------------------
(* Copies to a page. *)

\* A page has all its bytes.
IsPage(d) == DOMAIN d = 0 .. PAGE_SIZE - 1

\* Page e is page d with bytes at offset off.
Written(e, d, off, bytes) ==
  /\ IsPage(e)
  /\ \A k \in 1 .. Len(bytes) : e[off + k - 1] = bytes[k]
  /\ \A i \in 0 .. PAGE_SIZE - 1 : i < off \/ off + Len(bytes) <= i => e[i] = d[i]

\* A copy writes its bytes and no others.
LEMMA CopiedBytes ==
  ASSUME NEW d, IsPage(d), NEW off \in Nat, NEW bytes, Len(bytes) \in Nat,
         off + Len(bytes) <= PAGE_SIZE
  PROVE  Written(Copied(d, off, bytes), d, off, bytes)
<1>1. PAGE_SIZE \in Nat
  BY Widths
<1>2. ASSUME NEW k \in 1 .. Len(bytes)
      PROVE  Copied(d, off, bytes)[off + k - 1] = bytes[k]
  <2>1. /\ off + k - 1 \in 0 .. PAGE_SIZE - 1
        /\ off + k - 1 \in off .. off + Len(bytes) - 1
        /\ (off + k - 1) - off + 1 = k
    BY <1>1
  <2> QED
    BY <2>1 DEF Copied, IsPage
<1>3. ASSUME NEW i \in 0 .. PAGE_SIZE - 1, i < off \/ off + Len(bytes) <= i
      PROVE  Copied(d, off, bytes)[i] = d[i]
  <2>1. i \notin off .. off + Len(bytes) - 1
    BY <1>1, <1>3
  <2> QED
    BY <2>1 DEF Copied, IsPage
<1>4. IsPage(Copied(d, off, bytes))
  BY DEF Copied, IsPage
<1> QED
  BY <1>2, <1>3, <1>4, Zenon DEF Written

\* What two byte strings are put together to.
LEMMA Joined ==
  ASSUME NEW s \in Seq(Int), NEW t \in Seq(Int)
  PROVE  /\ s \o t \in Seq(Int) /\ Len(s \o t) = Len(s) + Len(t)
         /\ Len(s) \in Nat /\ Len(t) \in Nat
         /\ \A k \in 1 .. Len(s) : (s \o t)[k] = s[k]
         /\ \A k \in 1 .. Len(t) : (s \o t)[Len(s) + k] = t[k]
OBVIOUS

\* An encoded number has 2 or 4 bytes.
LEMMA EncodedLength ==
  ASSUME NEW n \in Int
  PROVE  /\ encode_uint16(n) \in Seq(Int) /\ Len(encode_uint16(n)) = 2
         /\ encode_uint32(n) \in Seq(Int) /\ Len(encode_uint32(n)) = 4
<1>1. Base \in Nat /\ Base > 1 /\ Word \in Nat /\ Word > 1 /\ Word * Base \in Nat /\ Word * Base > 0
  BY Widths
<1>2. /\ n \div Base \in Int /\ n \div Word \in Int /\ n \div (Word * Base) \in Int
  BY <1>1
<1>3. \A m \in Int : m % Base \in Int
  BY <1>1
<1> QED
  BY <1>2, <1>3 DEF encode_uint16, encode_uint32

-----------------------------------------------------------------------------
(* Nodes. *)

\* The fields of a node.
LEMMA NodeType ==
  ASSUME NEW n \in Nodes
  PROVE  /\ n.is_leaf \in BOOLEAN
         /\ n.next \in uint32 /\ n.rightmost_ptr \in uint32 /\ n.flags \in Byte
         /\ n.keys \in Seq(Key) /\ n.values \in Seq(IF n.is_leaf THEN RID ELSE uint32)
         /\ Len(n.keys) \in Nat /\ Len(n.values) = Len(n.keys)
         /\ \A i \in 1 .. Len(n.keys) :
              /\ n.keys[i] \in Seq(Int) /\ Len(n.keys[i]) \in Nat
              /\ n.values[i] \in IF n.is_leaf THEN RID ELSE uint32
<1>1. /\ n \in BTreePage(n.is_leaf) /\ Len(n.values) = Len(n.keys)
  BY NodesAssumption
<1>2. /\ n.next \in uint32 /\ n.rightmost_ptr \in uint32 /\ n.flags \in Byte
      /\ n.keys \in Seq(Key) /\ n.values \in Seq(IF n.is_leaf THEN RID ELSE uint32)
  BY <1>1, Zenon DEF BTreePage
<1>3. \A i \in 1 .. Len(n.keys) : /\ n.keys[i] \in Key
                                  /\ n.values[i] \in IF n.is_leaf THEN RID ELSE uint32
  BY <1>1, <1>2
<1>4. \A k \in Key : k \in Seq(Int) /\ Len(k) \in Nat
  BY Widths DEF Key, Byte
<1>5. Len(n.keys) \in Nat
  BY <1>2
<1>6. n.is_leaf \in BOOLEAN
  BY NodesAssumption DEF BTreePage
<1> QED
  BY <1>1, <1>2, <1>3, <1>4, <1>5, <1>6

-----------------------------------------------------------------------------
(* The room that pairs take. *)

\* A nonempty set of naturals has a least member.
LEMMA LeastMember ==
  ASSUME NEW T \in SUBSET Nat, T # {}
  PROVE  \E x \in T : \A y \in T : x <= y
<1>1. PICK x \in T : \A y \in T : ~(<<y, x>> \in OpToRel(<, Nat))
  BY WFMin, NatLessThanWellFounded, Zenon
<1>2. \A y \in T : ~(y < x)
  BY <1>1, Zenon DEF OpToRel
<1> QED
  BY <1>2

\* A set of naturals that holds 0 and, with every n below m, n + 1 holds all
\* naturals up to m.
LEMMA UpTo ==
  ASSUME NEW T, NEW m \in Nat, 0 \in T,
         \A n \in 0 .. m - 1 : n \in T => n + 1 \in T
  PROVE  \A n \in 0 .. m : n \in T
<1> DEFINE U == {n \in 0 .. m : n \notin T}
<1> SUFFICES ASSUME U # {}
             PROVE  FALSE
  OBVIOUS
<1>0. U \in SUBSET Nat
  OBVIOUS
<1>1. PICK x \in U : \A y \in U : x <= y
  <2> HIDE DEF U
  <2> QED
    BY <1>0, LeastMember
<1>2. x # 0 /\ x - 1 \in 0 .. m - 1
  OBVIOUS
<1>3. x - 1 \in T
  BY <1>1, <1>2
<1> QED
  BY <1>2, <1>3

\* f adds up the first m values of a.
SumsTo(f, a, m) == f = [k \in 0 .. m |-> IF k = 0 THEN 0 ELSE f[k - 1] + a[k]]

\* Such an f exists.
LEMMA SumsExist ==
  ASSUME NEW m \in Nat, NEW a
  PROVE  \E f : SumsTo(f, a, m)
<1> DEFINE T == {n \in Nat : \E f : SumsTo(f, a, n)}
<1>1. 0 \in T
  <2>1. SumsTo([k \in 0 .. 0 |-> 0], a, 0)
    BY DEF SumsTo
  <2> QED
    BY <2>1
<1>2. ASSUME NEW n \in 0 .. m - 1, n \in T
      PROVE  n + 1 \in T
  <2>1. PICK f : SumsTo(f, a, n)
    BY <1>2
  <2> DEFINE g == [k \in 0 .. n + 1 |-> IF k <= n THEN f[k] ELSE f[n] + a[n + 1]]
  <2>2. f[0] = 0 /\ \A k \in 1 .. n : f[k] = f[k - 1] + a[k]
    BY <2>1 DEF SumsTo
  <2>3. \A k \in 0 .. n + 1 : g[k] = IF k = 0 THEN 0 ELSE g[k - 1] + a[k]
    BY <2>2
  <2>4. SumsTo(g, a, n + 1)
    <3> HIDE DEF g
    <3>1. g = [k \in 0 .. n + 1 |-> g[k]]
      BY DEF g
    <3> QED
      BY <2>3, <3>1, Zenon DEF SumsTo
  <2> QED
    BY <2>4
<1> HIDE DEF T
<1>3. m \in T
  BY <1>1, <1>2, UpTo
<1> QED
  BY <1>3 DEF T

\* Sums of naturals are naturals and grow.
LEMMA SumsGrow ==
  ASSUME NEW m \in Nat, NEW a, \A k \in 1 .. m : a[k] \in Nat,
         NEW f, SumsTo(f, a, m)
  PROVE  /\ f[0] = 0
         /\ \A k \in 1 .. m : f[k] = f[k - 1] + a[k]
         /\ \A k \in 0 .. m : f[k] \in Nat
         /\ \A j, k \in 0 .. m : j <= k => f[j] <= f[k]
<1>1. f[0] = 0 /\ \A k \in 1 .. m : f[k] = f[k - 1] + a[k]
  BY DEF SumsTo
<1>2. \A k \in 0 .. m : f[k] \in Nat
  <2> DEFINE T == {k \in 0 .. m : f[k] \in Nat}
  <2>1. 0 \in T
    BY <1>1
  <2>2. \A n \in 0 .. m - 1 : n \in T => n + 1 \in T
    BY <1>1
  <2> HIDE DEF T
  <2>3. \A n \in 0 .. m : n \in T
    BY <2>1, <2>2, UpTo
  <2> QED
    BY <2>3 DEF T
<1>3. ASSUME NEW j \in 0 .. m
      PROVE  \A k \in 0 .. m : j <= k => f[j] <= f[k]
  <2> DEFINE T == {k \in 0 .. m : j <= k => f[j] <= f[k]}
  <2>1. 0 \in T
    BY <1>2
  <2>2. \A n \in 0 .. m - 1 : n \in T => n + 1 \in T
    <3> SUFFICES ASSUME NEW n \in 0 .. m - 1, n \in T
                 PROVE  n + 1 \in T
      OBVIOUS
    <3>1. f[n + 1] = f[n] + a[n + 1] /\ a[n + 1] \in Nat /\ f[n] \in Nat /\ f[j] \in Nat
      BY <1>1, <1>2
    <3> QED
      BY <3>1
  <2> HIDE DEF T
  <2>3. \A n \in 0 .. m : n \in T
    BY <2>1, <2>2, UpTo
  <2> QED
    BY <2>3 DEF T
<1> QED
  BY <1>1, <1>2, <1>3

\* What Sums computes.
LEMMA SumsAdd ==
  ASSUME NEW a \in Seq(Nat)
  PROVE  LET s == Sums(a)
             m == Len(a)
         IN /\ m \in Nat /\ s[0] = 0
            /\ \A k \in 1 .. m : s[k] = s[k - 1] + a[k]
            /\ \A k \in 0 .. m : s[k] \in Nat
            /\ \A j, k \in 0 .. m : j <= k => s[j] <= s[k]
<1> DEFINE m == Len(a)
           s == Sums(a)
<1>1. m \in Nat /\ \A k \in 1 .. m : a[k] \in Nat
  OBVIOUS
<1>2. \E f : SumsTo(f, a, m)
  BY <1>1, SumsExist, Zenon
<1>3. s = CHOOSE f : f = [k \in 0 .. m |-> IF k = 0 THEN 0 ELSE f[k - 1] + a[k]]
  BY Zenon DEF Sums
<1> HIDE DEF s, m
<1>4. SumsTo(s, a, m)
  BY <1>2, <1>3, Zenon DEF SumsTo
<1>5. /\ s[0] = 0
      /\ \A k \in 1 .. m : s[k] = s[k - 1] + a[k]
      /\ \A k \in 0 .. m : s[k] \in Nat
      /\ \A j, k \in 0 .. m : j <= k => s[j] <= s[k]
  BY <1>1, <1>4, SumsGrow
<1> QED
  BY <1>1, <1>5 DEF s, m

\* What PairsSize computes.
LEMMA PairSizes ==
  ASSUME NEW n \in Nodes
  PROVE  LET s == PairsSize(n)
             m == Len(n.keys)
         IN /\ s[0] = 0
            /\ \A k \in 1 .. m : PairSize(n, k) \in Nat /\ s[k] = s[k - 1] + PairSize(n, k)
            /\ \A k \in 0 .. m : s[k] \in Nat
            /\ \A j, k \in 0 .. m : j <= k => s[j] <= s[k]
<1> DEFINE m == Len(n.keys)
           a == [k \in DOMAIN n.keys |-> PairSize(n, k)]
           s == PairsSize(n)
<1>1. m \in Nat /\ n.keys \in Seq(Key) /\ \A k \in 1 .. m : Len(n.keys[k]) \in Nat
  BY NodeType
<1>2. ValueSize(n.is_leaf) \in Nat
  BY DEF ValueSize, RID_SIZE, TREE_KV_PTR_SIZE
<1>3. \A k \in 1 .. m : PairSize(n, k) \in Nat
  BY <1>1, <1>2 DEF PairSize
<1>4. DOMAIN n.keys = 1 .. m
  BY <1>1
<1>5. a = [k \in 1 .. m |-> PairSize(n, k)]
  BY <1>4, Zenon
<1> HIDE DEF a, m
<1>6. a \in Seq(Nat) /\ Len(a) = m /\ \A k \in 1 .. m : a[k] = PairSize(n, k)
  BY <1>1, <1>3, <1>5
<1>7. s = Sums(a)
  BY Zenon DEF PairsSize, a
<1> HIDE DEF s
<1>8. /\ s[0] = 0
      /\ \A k \in 1 .. m : s[k] = s[k - 1] + a[k]
      /\ \A k \in 0 .. m : s[k] \in Nat
      /\ \A j, k \in 0 .. m : j <= k => s[j] <= s[k]
  BY <1>6, <1>7, SumsAdd, Zenon
<1> QED
  BY <1>3, <1>6, <1>8, Zenon DEF s, m

\* The bytes of a value.
ValueBytesOf(n, i) ==
  IF n.is_leaf THEN encode_uint32(n.values[i].pid) \o encode_uint32(n.values[i].slot_num)
  ELSE encode_uint32(n.values[i])

\* A value has the size that ValueSize says.
LEMMA ValueLength ==
  ASSUME NEW n \in Nodes, NEW i \in 1 .. Len(n.keys)
  PROVE  /\ ValueBytesOf(n, i) \in Seq(Int)
         /\ Len(ValueBytesOf(n, i)) = ValueSize(n.is_leaf)
<1>1. uint32 \subseteq Int
  BY Widths DEF uint32
<1>2. n.is_leaf \in BOOLEAN /\ n.values[i] \in IF n.is_leaf THEN RID ELSE uint32
  BY NodeType
<1>3. CASE n.is_leaf
  <2>1. n.values[i].pid \in Int /\ n.values[i].slot_num \in Int
    BY <1>1, <1>2, <1>3, Zenon DEF RID
  <2>2. /\ encode_uint32(n.values[i].pid) \in Seq(Int) /\ Len(encode_uint32(n.values[i].pid)) = 4
        /\ encode_uint32(n.values[i].slot_num) \in Seq(Int)
        /\ Len(encode_uint32(n.values[i].slot_num)) = 4
    BY <2>1, EncodedLength
  <2> DEFINE p == encode_uint32(n.values[i].pid)
             q == encode_uint32(n.values[i].slot_num)
  <2>3. ValueBytesOf(n, i) = p \o q /\ ValueSize(n.is_leaf) = 8
    BY <1>3 DEF ValueBytesOf, ValueSize, RID_SIZE
  <2> HIDE DEF p, q
  <2>4. p \in Seq(Int) /\ q \in Seq(Int) /\ Len(p) = 4 /\ Len(q) = 4
    BY <2>2 DEF p, q
  <2>5. p \o q \in Seq(Int) /\ Len(p \o q) = Len(p) + Len(q)
    BY <2>4, Joined, Zenon
  <2> QED
    BY <2>3, <2>4, <2>5
<1>4. CASE ~n.is_leaf
  <2>1. n.values[i] \in Int
    BY <1>1, <1>2, <1>4, Zenon
  <2> QED
    BY <1>4, <2>1, EncodedLength DEF ValueBytesOf, ValueSize, TREE_KV_PTR_SIZE
<1> QED
  BY <1>2, <1>3, <1>4

\* A pair is the length of its key, the key and the value.
LEMMA PairBytes ==
  ASSUME NEW n \in Nodes, NEW i \in 1 .. Len(n.keys)
  PROVE  LET l == Len(n.keys[i])
             kv == Pair(n, i)
         IN /\ l \in Nat /\ Len(kv) = PairSize(n, i) /\ Len(kv) \in Nat
            /\ kv[1] = l
            /\ \A k \in 1 .. l : kv[1 + k] = n.keys[i][k]
            /\ \A k \in 1 .. ValueSize(n.is_leaf) : kv[1 + l + k] = ValueBytesOf(n, i)[k]
<1> DEFINE key == n.keys[i]
           l == Len(key)
           val == ValueBytesOf(n, i)
           h == <<l>> \o key
           kv == Pair(n, i)
<1>1. key \in Seq(Int) /\ l \in Nat
  BY NodeType
<1>2. val \in Seq(Int) /\ Len(val) = ValueSize(n.is_leaf)
  BY ValueLength
<1>3. kv = h \o val
  BY Zenon DEF Pair, ValueBytesOf
<1> HIDE DEF key, val, kv
<1>4. <<l>> \in Seq(Int) /\ Len(<<l>>) = 1 /\ <<l>>[1] = l
  BY <1>1
<1>5. /\ h \in Seq(Int) /\ Len(h) = 1 + l
      /\ h[1] = l /\ \A k \in 1 .. l : h[1 + k] = key[k]
  <2> HIDE DEF l
  <2>1. /\ h \in Seq(Int) /\ Len(h) = Len(<<l>>) + Len(key)
        /\ \A k \in 1 .. Len(<<l>>) : h[k] = <<l>>[k]
        /\ \A k \in 1 .. Len(key) : h[Len(<<l>>) + k] = key[k]
    BY <1>1, <1>4, Joined
  <2> QED
    BY <1>1, <1>4, <2>1 DEF l
<1> HIDE DEF h, l
<1>6. /\ Len(kv) = Len(h) + Len(val)
      /\ \A k \in 1 .. Len(h) : kv[k] = h[k]
      /\ \A k \in 1 .. Len(val) : kv[Len(h) + k] = val[k]
  BY <1>2, <1>3, <1>5, Joined, Zenon
<1>7. Len(val) \in Nat
  BY <1>2
<1>8. kv[1] = l /\ \A k \in 1 .. l : kv[1 + k] = key[k]
  BY <1>1, <1>5, <1>6
<1>9. \A k \in 1 .. Len(val) : kv[1 + l + k] = val[k]
  BY <1>1, <1>5, <1>6
<1>10. Len(kv) = PairSize(n, i) /\ Len(kv) \in Nat
  BY <1>1, <1>2, <1>5, <1>6, <1>7 DEF PairSize, l, key
<1> QED
  BY <1>1, <1>2, <1>8, <1>9, <1>10 DEF key, l, val, kv

\* Four bytes of the page that are an encoded number.
EncodedAt(d, off, v) == \A k \in 1 .. 4 : d[off + k - 1] = encode_uint32(v)[k]

\* They are decoded to the number.
LEMMA ReadBack ==
  ASSUME NEW d, NEW off \in Nat, NEW v \in uint32, EncodedAt(d, off, v)
  PROVE  decode_uint32(BytesAt(d, off, 4)) = v
<1>1. \A k \in 1 .. 4 : BytesAt(d, off, 4)[k] = encode_uint32(v)[k]
  BY DEF BytesAt, EncodedAt
<1> QED
  BY <1>1, Decoded32

-----------------------------------------------------------------------------
(* The inductive invariant. *)

Room == PairsSize(node)[Len(node.keys)]

\* Where the pair behind the k-th one starts
Pos(k) == PAGE_SIZE - Room + PairsSize(node)[k]

\* Pair i stands on page d.
Stands(d, i) ==
  \A k \in 1 .. PairSize(node, i) : d[Pos(i - 1) + k - 1] = Pair(node, i)[k]

\* serialize has written the pairs behind the first left ones.
PairsWritten ==
  /\ left \in 0 .. Len(node.keys)
  /\ end = Pos(left)
  /\ start = INDEX_PAGE_HEADER_SIZE + TREE_KV_PTR_SIZE * (Len(node.keys) - left)
  /\ \A i \in left + 1 .. Len(node.keys) : Stands(data, i)

\* The header of page d leads to the first pair.
HeaderWritten(d) ==
  /\ \A k \in 1 .. 2 : d[AVAILABLE_SPACE_END_OFFSET + k - 1] = encode_uint16(Pos(0))[k]
  /\ EncodedAt(d, NEXT_PID_OFFSET, node.next)
  /\ EncodedAt(d, RIGHTMOST_PID_OFFSET, node.rightmost_ptr)
  /\ d[TREE_FLAGS_OFFSET] = node.flags
  /\ d[IS_LEAF_OFFSET] = IF node.is_leaf THEN 1 ELSE 0

\* n has the first r pairs of the node and its other fields.
FirstPairs(n, r) ==
  /\ n \in BTreePage(node.is_leaf)
  /\ Len(n.keys) = r /\ Len(n.values) = r
  /\ \A i \in 1 .. r : n.keys[i] = node.keys[i] /\ n.values[i] = node.values[i]
  /\ n.next = node.next /\ n.rightmost_ptr = node.rightmost_ptr /\ n.flags = node.flags

\* The constructor has read r pairs.
PairsRead(r) == cursor = Pos(r) /\ FirstPairs(read, r)

Proper == Fits(node) /\ NoEmptyKey(node)

NodeInv ==
  /\ node \in Nodes
  /\ IsPage(data)
  /\ ipc \in {"write", "open", "read", "done", "overrun"}
  /\ Proper => /\ ipc # "overrun"
               /\ PairsWritten
               /\ ipc # "write" => left = 0
               /\ ipc = "open" => HeaderWritten(data)
               /\ ipc = "read" => \E r \in 0 .. Len(node.keys) : PairsRead(r)
               /\ ipc = "done" => FirstPairs(read, Len(node.keys))

\* Pairs lie behind each other up to the end of the page, behind the pointers.
LEMMA Places ==
  ASSUME node \in Nodes, Fits(node)
  PROVE  LET m == Len(node.keys)
         IN /\ m \in Nat /\ \A k \in 0 .. m : Pos(k) \in Nat
            /\ Pos(m) = PAGE_SIZE
            /\ \A k \in 1 .. m : /\ PairSize(node, k) \in Nat
                                 /\ Pos(k) = Pos(k - 1) + PairSize(node, k)
            /\ \A j, k \in 0 .. m : j <= k => Pos(j) <= Pos(k)
            /\ \A k \in 0 .. m : 26 + 4 * m <= Pos(k) /\ Pos(k) <= PAGE_SIZE
<1> DEFINE m == Len(node.keys)
           s == PairsSize(node)
<1>1. /\ s[0] = 0
      /\ \A k \in 1 .. m : PairSize(node, k) \in Nat /\ s[k] = s[k - 1] + PairSize(node, k)
      /\ \A k \in 0 .. m : s[k] \in Nat
      /\ \A j, k \in 0 .. m : j <= k => s[j] <= s[k]
  BY PairSizes
<1>2. m \in Nat /\ PAGE_SIZE \in Nat
  BY NodeType, Widths
<1>3. 26 + 4 * m + s[m] <= PAGE_SIZE
  BY DEF Fits, INDEX_PAGE_HEADER_SIZE, IS_LEAF_OFFSET, TREE_KV_PTR_SIZE
<1>4. \A k : Pos(k) = PAGE_SIZE - s[m] + s[k]
  BY Zenon DEF Pos, Room
<1> HIDE DEF m, s
<1>5. s[m] \in Nat /\ \A k \in 0 .. m : s[k] <= s[m] /\ s[k] \in Nat
  BY <1>1, <1>2
<1>6. \A k \in 0 .. m : /\ Pos(k) \in Nat
                        /\ 26 + 4 * m <= Pos(k) /\ Pos(k) <= PAGE_SIZE
  BY <1>2, <1>3, <1>4, <1>5
<1>7. Pos(m) = PAGE_SIZE
  BY <1>2, <1>4, <1>5
<1>8. \A k \in 1 .. m : /\ PairSize(node, k) \in Nat
                        /\ Pos(k) = Pos(k - 1) + PairSize(node, k)
  BY <1>1, <1>2, <1>4, <1>5
<1>9. \A j, k \in 0 .. m : j <= k => Pos(j) <= Pos(k)
  BY <1>1, <1>2, <1>4, <1>5
<1> QED
  BY <1>2, <1>6, <1>7, <1>8, <1>9 DEF m

\* At first nothing is written.
LEMMA InitPages == IndexInit => NodeInv
<1> SUFFICES ASSUME IndexInit
             PROVE  NodeInv
  OBVIOUS
<1>1. /\ node \in Nodes /\ ipc = "write" /\ left = Len(node.keys)
      /\ start = INDEX_PAGE_HEADER_SIZE /\ end = PAGE_SIZE
  BY DEF IndexInit
<1>2. IsPage(data)
  BY DEF IndexInit, IsPage
<1>3. ASSUME Fits(node)
      PROVE  PairsWritten
  <2>1. Len(node.keys) \in Nat /\ Pos(Len(node.keys)) = PAGE_SIZE
    BY <1>1, <1>3, Places
  <2> QED
    BY <1>1, <2>1 DEF PairsWritten, INDEX_PAGE_HEADER_SIZE, IS_LEAF_OFFSET, TREE_KV_PTR_SIZE
<1> QED
  BY <1>1, <1>2, <1>3 DEF NodeInv, Proper

\* What has to be shown of a step.
LEMMA Kept ==
  ASSUME node \in Nodes, node' = node, IsPage(data'),
         ipc' \in {"write", "open", "read", "done", "overrun"},
         Proper => /\ ipc' # "overrun"
                   /\ left' \in 0 .. Len(node.keys)
                   /\ end' = Pos(left')
                   /\ start' = INDEX_PAGE_HEADER_SIZE + TREE_KV_PTR_SIZE * (Len(node.keys) - left')
                   /\ \A i \in left' + 1 .. Len(node.keys) : Stands(data', i)
                   /\ ipc' # "write" => left' = 0
                   /\ ipc' = "open" => HeaderWritten(data')
                   /\ ipc' = "read" =>
                        \E r \in 0 .. Len(node.keys) : cursor' = Pos(r) /\ FirstPairs(read', r)
                   /\ ipc' = "done" => FirstPairs(read', Len(node.keys))
  PROVE  NodeInv'
<1>1. /\ Proper' = Proper
      /\ \A k : Pos(k)' = Pos(k)
  BY Zenon DEF Proper, Pos, Room
<1>2. \A i : Stands(data, i)' = Stands(data', i)
  BY Zenon DEF Stands, Pos, Room
<1>3. HeaderWritten(data)' = HeaderWritten(data')
  BY Zenon DEF HeaderWritten, Pos, Room
<1>4. \A r : FirstPairs(read, r)' = FirstPairs(read', r)
  BY Zenon DEF FirstPairs
<1>5. end' = Pos(left') => (end = Pos(left))'
  BY Zenon DEF Pos, Room
<1>6. Proper => PairsWritten'
  BY <1>2, <1>5, Zenon DEF PairsWritten
<1>7. \A r : cursor' = Pos(r) /\ FirstPairs(read', r) => PairsRead(r)'
  BY <1>1, <1>4, Zenon DEF PairsRead
<1>8. FirstPairs(read, Len(node.keys))' = FirstPairs(read', Len(node.keys))
  BY Zenon DEF FirstPairs
<1> QED
  BY <1>1, <1>3, <1>6, <1>7, <1>8, Zenon DEF NodeInv

\* A copy leaves a page with all its bytes.
LEMMA CopiedPage ==
  ASSUME NEW d, IsPage(d), NEW off, NEW bytes
  PROVE  IsPage(Copied(d, off, bytes))
BY DEF Copied, IsPage

\* The pairs that were written stay where they are when the next one and its
\* pointer are written.
LEMMA PairsStay ==
  ASSUME node \in Nodes, Fits(node), NEW d, IsPage(d), NEW l \in 1 .. Len(node.keys),
         \A i \in l + 1 .. Len(node.keys) : Stands(d, i),
         NEW s \in Nat, s + 4 <= 26 + 4 * Len(node.keys), NEW ptr, Len(ptr) = 4
  PROVE  \A i \in l .. Len(node.keys) :
           Stands(Copied(Copied(d, Pos(l - 1), Pair(node, l)), s, ptr), i)
<1> DEFINE m == Len(node.keys)
           kv == Pair(node, l)
           c == Copied(d, Pos(l - 1), kv)
           e == Copied(c, s, ptr)
<1>1. /\ m \in Nat /\ \A k \in 0 .. m : Pos(k) \in Nat
      /\ \A k \in 1 .. m : /\ PairSize(node, k) \in Nat
                           /\ Pos(k) = Pos(k - 1) + PairSize(node, k)
      /\ \A j, k \in 0 .. m : j <= k => Pos(j) <= Pos(k)
      /\ \A k \in 0 .. m : 26 + 4 * m <= Pos(k) /\ Pos(k) <= PAGE_SIZE
  BY Places
<1>2. PAGE_SIZE \in Nat
  BY Widths
<1>3. Len(kv) = PairSize(node, l) /\ Len(kv) \in Nat
  BY PairBytes
<1> HIDE DEF m, kv
<1>4. l \in 1 .. m /\ l - 1 \in 0 .. m /\ Pos(l - 1) \in Nat /\ Pos(l) = Pos(l - 1) + Len(kv)
  BY <1>1, <1>3 DEF m
<1>5. /\ IsPage(c)
      /\ \A k \in 1 .. Len(kv) : c[Pos(l - 1) + k - 1] = kv[k]
      /\ \A i \in 0 .. PAGE_SIZE - 1 : Pos(l) <= i => c[i] = d[i]
  <2>1. Pos(l - 1) + Len(kv) <= PAGE_SIZE
    BY <1>1, <1>4
  <2>2. Written(c, d, Pos(l - 1), kv)
    BY <1>3, <1>4, <2>1, CopiedBytes, Zenon
  <2> QED
    BY <1>4, <2>2, Zenon DEF Written
<1> HIDE DEF c
<1>6. \A i \in 0 .. PAGE_SIZE - 1 : 26 + 4 * m <= i => e[i] = c[i]
  <2>1. s + Len(ptr) <= PAGE_SIZE
    BY <1>1, <1>2, <1>4 DEF m
  <2>2. \A i \in 0 .. PAGE_SIZE - 1 : i < s \/ s + Len(ptr) <= i => e[i] = c[i]
    <3>1. Len(ptr) \in Nat
      OBVIOUS
    <3>2. Written(e, c, s, ptr)
      BY <1>5, <2>1, <3>1, CopiedBytes, Zenon
    <3> QED
      BY <3>2, Zenon DEF Written
  <2> HIDE DEF e
  <2> QED
    BY <1>1, <2>2 DEF m
<1> HIDE DEF e
<1>7. ASSUME NEW i \in l .. m, NEW k \in 1 .. PairSize(node, i)
      PROVE  e[Pos(i - 1) + k - 1] = Pair(node, i)[k]
  <2> DEFINE x == Pos(i - 1) + k - 1
  <2>1. /\ i \in 1 .. m /\ i - 1 \in 0 .. m /\ PairSize(node, i) \in Nat
        /\ Pos(i - 1) \in Nat /\ 26 + 4 * m <= Pos(i - 1)
        /\ Pos(i - 1) + PairSize(node, i) <= PAGE_SIZE
    <3>1. i \in 1 .. m /\ i - 1 \in 0 .. m /\ i \in 0 .. m
      BY <1>1, <1>4
    <3>2. /\ PairSize(node, i) \in Nat /\ Pos(i) = Pos(i - 1) + PairSize(node, i)
          /\ Pos(i) <= PAGE_SIZE /\ Pos(i - 1) \in Nat /\ 26 + 4 * m <= Pos(i - 1)
      BY <1>1, <3>1, Zenon
    <3> QED
      BY <3>1, <3>2, Zenon
  <2>2. x \in 0 .. PAGE_SIZE - 1 /\ 26 + 4 * m <= x /\ Pos(i - 1) <= x
    <3>1. m \in Nat /\ k \in Nat /\ k >= 1 /\ k <= PairSize(node, i)
      BY <1>1, <2>1
    <3> QED
      BY <1>2, <2>1, <3>1
  <2>3. e[x] = c[x]
    BY <1>6, <2>2
  <2>4. CASE i = l
    BY <1>3, <1>5, <2>3, <2>4 DEF kv
  <2>5. CASE i # l
    <3>1. Pos(l) <= Pos(i - 1) /\ Pos(l) \in Nat
      BY <1>1, <1>4, <2>1, <2>5
    <3>2. Pos(l) <= x
      BY <2>1, <2>2, <3>1
    <3>3. c[x] = d[x]
      BY <1>5, <2>2, <3>2
    <3>4. Stands(d, i)
      BY <1>4, <2>5 DEF m
    <3> QED
      BY <2>3, <3>3, <3>4 DEF Stands
  <2> QED
    BY <2>4, <2>5
<1> QED
  BY <1>7 DEF Stands, m, kv, c, e

\* One pair is written.
LEMMA WritePairStep ==
  ASSUME NodeInv, WritePair
  PROVE  NodeInv'
<1> DEFINE m == Len(node.keys)
           kv == Pair(node, left)
           ks == u16(end - Len(kv))
           ptr == encode_uint16(ks) \o encode_uint16(Len(kv))
<1>1. node \in Nodes /\ IsPage(data) /\ node' = node /\ ipc = "write" /\ left > 0
  BY DEF NodeInv, WritePair
<1>2. /\ \/ data' = Copied(Copied(data, ks, kv), start, ptr) /\ ipc' = ipc
         \/ data' = data /\ ipc' = "overrun"
      /\ InPage(ks, Len(kv)) /\ InPage(start, TREE_KV_PTR_SIZE) =>
           data' = Copied(Copied(data, ks, kv), start, ptr) /\ ipc' = ipc
      /\ start' = u16(start + TREE_KV_PTR_SIZE) /\ end' = ks /\ left' = left - 1
  BY Zenon DEF WritePair
<1>3. IsPage(data') /\ ipc' \in {"write", "open", "read", "done", "overrun"}
  BY <1>1, <1>2, CopiedPage
<1>4. ASSUME Proper
      PROVE  /\ ipc' = "write" /\ left' \in 0 .. m /\ end' = Pos(left')
             /\ start' = INDEX_PAGE_HEADER_SIZE + TREE_KV_PTR_SIZE * (m - left')
             /\ \A i \in left' + 1 .. m : Stands(data', i)
  <2>1. /\ left \in 0 .. m /\ end = Pos(left) /\ start = 26 + 4 * (m - left)
        /\ \A i \in left + 1 .. m : Stands(data, i)
    BY <1>4 DEF NodeInv, PairsWritten, INDEX_PAGE_HEADER_SIZE, IS_LEAF_OFFSET, TREE_KV_PTR_SIZE
  <2>2. /\ m \in Nat /\ \A k \in 0 .. m : Pos(k) \in Nat
        /\ \A k \in 1 .. m : Pos(k) = Pos(k - 1) + PairSize(node, k)
        /\ \A k \in 0 .. m : 26 + 4 * m <= Pos(k) /\ Pos(k) <= PAGE_SIZE
    BY <1>1, <1>4, Places DEF Proper
  <2>3. left \in 1 .. m
    BY <1>1, <2>1, <2>2
  <2>4. Len(kv) = PairSize(node, left) /\ Len(kv) \in Nat
    BY <1>1, <2>3, PairBytes
  <2> HIDE DEF m, kv
  <2>5. end - Len(kv) = Pos(left - 1) /\ Pos(left - 1) \in Nat /\ Pos(left - 1) <= PAGE_SIZE
    <3>1. left - 1 \in 0 .. m
      BY <2>2, <2>3
    <3>2. /\ Pos(left - 1) \in Nat /\ Pos(left - 1) <= PAGE_SIZE
          /\ end = Pos(left - 1) + Len(kv)
      BY <2>1, <2>2, <2>3, <2>4, <3>1, Zenon
    <3> QED
      BY <2>4, <3>2
  <2>6. ks = Pos(left - 1)
    BY <2>5, Short
  <2> HIDE DEF ks
  <2>7. Len(ptr) = 4
    <3>1. /\ encode_uint16(ks) \in Seq(Int) /\ Len(encode_uint16(ks)) = 2
          /\ encode_uint16(Len(kv)) \in Seq(Int) /\ Len(encode_uint16(Len(kv))) = 2
      BY <2>4, <2>5, <2>6, EncodedLength
    <3>2. Len(ptr) = Len(encode_uint16(ks)) + Len(encode_uint16(Len(kv)))
      BY <3>1, Joined, Zenon
    <3> HIDE DEF ptr
    <3> QED
      BY <3>1, <3>2
  <2> HIDE DEF ptr
  <2>8. start \in Nat /\ start + 4 <= 26 + 4 * m /\ start + 4 <= PAGE_SIZE
    <3>1. 26 + 4 * m <= Pos(left) /\ Pos(left) <= PAGE_SIZE /\ Pos(left) \in Nat /\ PAGE_SIZE \in Nat
      BY <2>1, <2>2, Widths, Zenon
    <3> QED
      BY <2>1, <2>2, <2>3, <3>1
  <2>9. InPage(ks, Len(kv)) /\ InPage(start, TREE_KV_PTR_SIZE)
    BY <2>1, <2>2, <2>3, <2>4, <2>5, <2>6, <2>8 DEF InPage, TREE_KV_PTR_SIZE
  <2>10. data' = Copied(Copied(data, Pos(left - 1), kv), start, ptr) /\ ipc' = ipc
    BY <1>2, <2>6, <2>9
  <2>11. \A i \in left .. m : Stands(data', i)
    BY <1>1, <1>4, <2>1, <2>3, <2>7, <2>8, <2>10, PairsStay, Zenon DEF Proper, m, kv
  <2>12. start' = start + 4
    <3>1. start + 4 \in Nat
      BY <2>8
    <3> QED
      BY <1>2, <2>8, <3>1, Short DEF TREE_KV_PTR_SIZE
  <2>13. left' = left - 1 /\ left' \in 0 .. m /\ left' + 1 = left
    BY <1>2, <2>2, <2>3
  <2>14. start' = INDEX_PAGE_HEADER_SIZE + TREE_KV_PTR_SIZE * (m - left')
    BY <2>1, <2>2, <2>3, <2>12, <2>13 DEF INDEX_PAGE_HEADER_SIZE, IS_LEAF_OFFSET, TREE_KV_PTR_SIZE
  <2> QED
    BY <1>1, <1>2, <2>6, <2>10, <2>11, <2>13, <2>14
<1> QED
  BY <1>1, <1>3, <1>4, Kept

\* What stands behind the pointers stays when something is written before it.
LEMMA StandsOn ==
  ASSUME node \in Nodes, Fits(node), NEW d, NEW e, NEW off \in Nat, NEW bytes, Len(bytes) \in Nat,
         Written(e, d, off, bytes), off + Len(bytes) <= 26 + 4 * Len(node.keys),
         NEW i \in 1 .. Len(node.keys), Stands(d, i)
  PROVE  Stands(e, i)
<1> DEFINE m == Len(node.keys)
<1>1. /\ m \in Nat /\ \A k \in 0 .. m : Pos(k) \in Nat
      /\ \A k \in 1 .. m : /\ PairSize(node, k) \in Nat
                           /\ Pos(k) = Pos(k - 1) + PairSize(node, k)
      /\ \A k \in 0 .. m : 26 + 4 * m <= Pos(k) /\ Pos(k) <= PAGE_SIZE
  BY Places
<1>2. PAGE_SIZE \in Nat
  BY Widths
<1>3. i - 1 \in 0 .. m /\ i \in 0 .. m
  BY <1>1
<1>4. /\ PairSize(node, i) \in Nat /\ Pos(i) = Pos(i - 1) + PairSize(node, i)
      /\ Pos(i) <= PAGE_SIZE /\ Pos(i - 1) \in Nat /\ 26 + 4 * m <= Pos(i - 1)
  BY <1>1, <1>3, Zenon
<1>5. ASSUME NEW k \in 1 .. PairSize(node, i)
      PROVE  e[Pos(i - 1) + k - 1] = Pair(node, i)[k]
  <2> DEFINE x == Pos(i - 1) + k - 1
  <2>1. x \in 0 .. PAGE_SIZE - 1 /\ off + Len(bytes) <= x
    <3>1. m \in Nat /\ k \in Nat /\ k >= 1 /\ k <= PairSize(node, i)
      BY <1>1, <1>4
    <3> HIDE DEF m
    <3>2. x \in Int /\ 0 <= x /\ x <= PAGE_SIZE - 1 /\ 26 + 4 * m <= x
      BY <1>2, <1>4, <3>1, SMTT(30)
    <3> HIDE DEF x
    <3>3. off + Len(bytes) <= 26 + 4 * m
      BY DEF m
    <3> QED
      BY <1>2, <3>1, <3>2, <3>3
  <2>2. e[x] = d[x]
    BY <2>1, Zenon DEF Written
  <2> QED
    BY <2>2, Zenon DEF Stands
<1> QED
  BY <1>5, Zenon DEF Stands

\* u is s followed by t.
IsJoin(u, s, t) ==
  /\ u \in Seq(Int) /\ Len(u) = Len(s) + Len(t)
  /\ \A k \in 1 .. Len(s) : u[k] = s[k]
  /\ \A k \in 1 .. Len(t) : u[Len(s) + k] = t[k]

\* Putting two byte strings together does that.
LEMMA Joins ==
  ASSUME NEW s \in Seq(Int), NEW t \in Seq(Int)
  PROVE  IsJoin(s \o t, s, t)
BY Joined, Zenon DEF IsJoin

\* The bytes of a header h hold the fields b, c, d and f.
IsHeader(h, b, c, d, f) ==
  /\ Len(h) = 14
  /\ \A k \in 1 .. 2 : h[2 + k] = b[k]
  /\ \A k \in 1 .. 4 : h[4 + k] = c[k] /\ h[8 + k] = d[k]
  /\ \A k \in 1 .. 2 : h[12 + k] = f[k]

\* Where the fields of a header are.
LEMMA HeaderBytes ==
  ASSUME NEW a \in Seq(Int), Len(a) = 2, NEW b \in Seq(Int), Len(b) = 2,
         NEW c \in Seq(Int), Len(c) = 4, NEW d \in Seq(Int), Len(d) = 4,
         NEW f \in Seq(Int), Len(f) = 2
  PROVE  IsHeader(a \o b \o c \o d \o f, b, c, d, f)
<1> DEFINE p == a \o b
           q == p \o c
           r == q \o d
           h == r \o f
<1>1. IsJoin(p, a, b)
  BY Joins, Zenon
<1> HIDE DEF p
<1>2. p \in Seq(Int) /\ Len(p) = 4 /\ \A k \in 1 .. 2 : p[2 + k] = b[k]
  BY <1>1 DEF IsJoin
<1>3. IsJoin(q, p, c)
  BY <1>2, Joins, Zenon
<1> HIDE DEF q
<1>4. /\ q \in Seq(Int) /\ Len(q) = 8
      /\ \A k \in 1 .. 2 : q[2 + k] = b[k]
      /\ \A k \in 1 .. 4 : q[4 + k] = c[k]
  BY <1>2, <1>3 DEF IsJoin
<1>5. IsJoin(r, q, d)
  BY <1>4, Joins, Zenon
<1> HIDE DEF r
<1>6. /\ r \in Seq(Int) /\ Len(r) = 12
      /\ \A k \in 1 .. 2 : r[2 + k] = b[k]
      /\ \A k \in 1 .. 4 : r[4 + k] = c[k] /\ r[8 + k] = d[k]
  BY <1>4, <1>5 DEF IsJoin
<1>7. IsJoin(h, r, f)
  BY <1>6, Joins, Zenon
<1> HIDE DEF h
<1>8. IsHeader(h, b, c, d, f)
  BY <1>6, <1>7 DEF IsJoin, IsHeader
<1> QED
  BY <1>8, Zenon DEF h, p, q, r

\* The header is written.
LEMMA WriteHeaderStep ==
  ASSUME NodeInv, WriteHeader
  PROVE  NodeInv'
<1> DEFINE m == Len(node.keys)
           f == <<node.flags, IF node.is_leaf THEN 1 ELSE 0>>
           h == encode_uint16(start) \o encode_uint16(end) \o encode_uint32(node.next)
                  \o encode_uint32(node.rightmost_ptr) \o f
<1>1. /\ node \in Nodes /\ IsPage(data) /\ node' = node /\ ipc = "write" /\ ipc' = "open"
      /\ left = 0 /\ left' = left /\ start' = start /\ end' = end
      /\ data' = Copied(data, 0, h)
  BY Zenon DEF NodeInv, WriteHeader, AVAILABLE_SPACE_START_OFFSET
<1>2. IsPage(data')
  BY <1>1, CopiedPage, Zenon
<1>3. ASSUME Proper
      PROVE  /\ left' \in 0 .. m /\ end' = Pos(left')
             /\ start' = INDEX_PAGE_HEADER_SIZE + TREE_KV_PTR_SIZE * (m - left')
             /\ \A i \in left' + 1 .. m : Stands(data', i)
             /\ HeaderWritten(data')
  <2>1. /\ left \in 0 .. m /\ end = Pos(left)
        /\ start = INDEX_PAGE_HEADER_SIZE + TREE_KV_PTR_SIZE * (m - left)
        /\ \A i \in left + 1 .. m : Stands(data, i)
    BY <1>3, Zenon DEF NodeInv, PairsWritten
  <2>2. m \in Nat /\ Pos(0) \in Nat /\ 26 + 4 * m <= Pos(0) /\ Pos(0) <= PAGE_SIZE
    BY <1>1, <1>3, Places DEF Proper
  <2>3. start \in Int /\ end = Pos(0) /\ end \in Int
    BY <1>1, <2>1, <2>2 DEF INDEX_PAGE_HEADER_SIZE, IS_LEAF_OFFSET, TREE_KV_PTR_SIZE
  <2>4. /\ node.next \in uint32 /\ node.rightmost_ptr \in uint32 /\ node.flags \in Byte
        /\ node.is_leaf \in BOOLEAN
    BY <1>1, NodeType
  <2>5. node.next \in Int /\ node.rightmost_ptr \in Int /\ node.flags \in Int
    BY <2>4, Widths DEF uint32, Byte
  <2>6. f \in Seq(Int) /\ Len(f) = 2 /\ f[1] = node.flags /\ f[2] = IF node.is_leaf THEN 1 ELSE 0
    BY <2>4, <2>5
  <2> HIDE DEF f
  <2>7. /\ encode_uint16(start) \in Seq(Int) /\ Len(encode_uint16(start)) = 2
        /\ encode_uint16(end) \in Seq(Int) /\ Len(encode_uint16(end)) = 2
        /\ encode_uint32(node.next) \in Seq(Int) /\ Len(encode_uint32(node.next)) = 4
        /\ encode_uint32(node.rightmost_ptr) \in Seq(Int)
        /\ Len(encode_uint32(node.rightmost_ptr)) = 4
    BY <2>3, <2>5, EncodedLength, Zenon
  <2>8. /\ Len(h) = 14
        /\ \A k \in 1 .. 2 : h[2 + k] = encode_uint16(end)[k]
        /\ \A k \in 1 .. 4 : /\ h[4 + k] = encode_uint32(node.next)[k]
                             /\ h[8 + k] = encode_uint32(node.rightmost_ptr)[k]
        /\ \A k \in 1 .. 2 : h[12 + k] = f[k]
    <3>1. IsHeader(h, encode_uint16(end), encode_uint32(node.next),
                   encode_uint32(node.rightmost_ptr), f)
      BY <2>6, <2>7, HeaderBytes, Zenon
    <3> QED
      BY <3>1, Zenon DEF IsHeader
  <2> HIDE DEF h
  <2>9. Len(h) \in Nat /\ 0 + Len(h) <= PAGE_SIZE /\ 0 + Len(h) <= 26 + 4 * m /\ 0 \in Nat
    BY <2>2, <2>8, Widths
  <2>10. Written(data', data, 0, h)
    BY <1>1, <2>9, CopiedBytes, Zenon
  <2>11. \A k \in 1 .. 14 : data'[0 + k - 1] = h[k]
    BY <2>8, <2>10, Zenon DEF Written
  <2> DEFINE e == data'
  <2> HIDE DEF e
  <2>12. \A k \in 1 .. 14 : e[k - 1] = h[k]
    BY <2>11 DEF e
  <2>13. HeaderWritten(e)
    <3>1. \A k \in 1 .. 2 : e[2 + k - 1] = encode_uint16(Pos(0))[k]
      BY <2>3, <2>8, <2>12
    <3>2. \A k \in 1 .. 4 : /\ e[4 + k - 1] = encode_uint32(node.next)[k]
                            /\ e[8 + k - 1] = encode_uint32(node.rightmost_ptr)[k]
      BY <2>8, <2>12
    <3>3. e[12] = node.flags /\ e[13] = IF node.is_leaf THEN 1 ELSE 0
      <4>1. e[13 - 1] = h[12 + 1] /\ e[14 - 1] = h[12 + 2]
        BY <2>12
      <4>2. h[12 + 1] = f[1] /\ h[12 + 2] = f[2]
        BY <2>8
      <4> QED
        BY <2>6, <4>1, <4>2
    <3> QED
      BY <3>1, <3>2, <3>3, Zenon DEF HeaderWritten, EncodedAt, AVAILABLE_SPACE_END_OFFSET,
         NEXT_PID_OFFSET, RIGHTMOST_PID_OFFSET, TREE_FLAGS_OFFSET, IS_LEAF_OFFSET
  <2>14. \A i \in 1 .. m : Stands(data', i)
    <3> SUFFICES ASSUME NEW i \in 1 .. m
                 PROVE  Stands(data', i)
      OBVIOUS
    <3>1. Stands(data, i)
      BY <1>1, <2>1
    <3> QED
      BY <1>1, <1>3, <2>9, <2>10, <3>1, StandsOn, Zenon DEF Proper
  <2> QED
    BY <1>1, <2>1, <2>13, <2>14 DEF e
<1> QED
  BY <1>1, <1>2, <1>3, Kept

\* The header is read.
LEMMA ReadHeaderStep ==
  ASSUME NodeInv, ReadHeader
  PROVE  NodeInv'
<1> DEFINE m == Len(node.keys)
<1>1. /\ node \in Nodes /\ IsPage(data) /\ node' = node /\ ipc = "open" /\ ipc' = "read"
      /\ left' = left /\ start' = start /\ end' = end /\ data' = data
      /\ cursor' = decode_uint16(BytesAt(data, 2, 2))
      /\ read' = [is_leaf |-> data[13] = 1, keys |-> <<>>, values |-> <<>>,
                  next |-> decode_uint32(BytesAt(data, 4, 4)),
                  rightmost_ptr |-> decode_uint32(BytesAt(data, 8, 4)), flags |-> data[12]]
  BY DEF NodeInv, ReadHeader, IS_LEAF_OFFSET, NEXT_PID_OFFSET, RIGHTMOST_PID_OFFSET,
         TREE_FLAGS_OFFSET, AVAILABLE_SPACE_END_OFFSET
<1>2. ASSUME Proper
      PROVE  PairsWritten /\ left = 0 /\ cursor' = Pos(0) /\ FirstPairs(read', 0) /\ m \in Nat
  <2>1. PairsWritten /\ left = 0 /\ HeaderWritten(data)
    BY <1>1, <1>2 DEF NodeInv
  <2>2. m \in Nat /\ Pos(0) \in Nat /\ Pos(0) <= PAGE_SIZE
    BY <1>1, <1>2, Places DEF Proper
  <2>3. /\ \A k \in 1 .. 2 : data[2 + k - 1] = encode_uint16(Pos(0))[k]
        /\ EncodedAt(data, 4, node.next) /\ EncodedAt(data, 8, node.rightmost_ptr)
        /\ data[12] = node.flags /\ data[13] = IF node.is_leaf THEN 1 ELSE 0
    BY <2>1, Zenon DEF HeaderWritten, AVAILABLE_SPACE_END_OFFSET, NEXT_PID_OFFSET,
       RIGHTMOST_PID_OFFSET, TREE_FLAGS_OFFSET, IS_LEAF_OFFSET
  <2>4. /\ node.next \in uint32 /\ node.rightmost_ptr \in uint32 /\ node.flags \in Byte
        /\ node.is_leaf \in BOOLEAN
    BY <1>1, NodeType
  <2>5. cursor' = Pos(0)
    <3> DEFINE b == BytesAt(data, 2, 2)
    <3>1. b[1] = data[2 + 1 - 1] /\ b[2] = data[2 + 2 - 1]
      BY DEF BytesAt
    <3>2. b[1] = encode_uint16(Pos(0))[1] /\ b[2] = encode_uint16(Pos(0))[2]
      BY <2>3, <3>1
    <3> HIDE DEF b
    <3>3. Pos(0) < Word
      BY <2>2, Widths
    <3>4. decode_uint16(b) = Pos(0)
      BY <2>2, <3>2, <3>3, Decoded16, Zenon
    <3> QED
      BY <1>1, <3>4 DEF b
  <2>6. /\ decode_uint32(BytesAt(data, 4, 4)) = node.next
        /\ decode_uint32(BytesAt(data, 8, 4)) = node.rightmost_ptr
    <3>1. 4 \in Nat /\ 8 \in Nat
      OBVIOUS
    <3> QED
      BY <2>3, <2>4, <3>1, ReadBack, Zenon
  <2>7. (data[13] = 1) = node.is_leaf
    BY <2>3, <2>4
  <2>8. read' = [is_leaf |-> node.is_leaf, keys |-> <<>>, values |-> <<>>, next |-> node.next,
                 rightmost_ptr |-> node.rightmost_ptr, flags |-> node.flags]
    BY <1>1, <2>3, <2>6, <2>7, Zenon
  <2>9. FirstPairs(read', 0)
    <3>1. /\ <<>> \in Seq(Key) /\ <<>> \in Seq(IF node.is_leaf THEN RID ELSE uint32)
          /\ Len(<<>>) = 0
      OBVIOUS
    <3>2. read' \in BTreePage(node.is_leaf)
      BY <2>4, <2>8, <3>1 DEF BTreePage
    <3> QED
      BY <2>8, <3>2 DEF FirstPairs
  <2> QED
    BY <2>1, <2>2, <2>5, <2>9
<1>3. ASSUME Proper
      PROVE  /\ left' \in 0 .. m /\ end' = Pos(left') /\ left' = 0
             /\ start' = INDEX_PAGE_HEADER_SIZE + TREE_KV_PTR_SIZE * (m - left')
             /\ \A i \in left' + 1 .. m : Stands(data', i)
             /\ \E r \in 0 .. m : cursor' = Pos(r) /\ FirstPairs(read', r)
  <2>1. 0 \in 0 .. m
    BY <1>2, <1>3, SMTT(30)
  <2> QED
    BY <1>1, <1>2, <1>3, <2>1, Zenon DEF PairsWritten
<1> QED
  BY <1>1, <1>3, Kept, Zenon

\* What the constructor finds where it has read the pairs before.
LEMMA NextPair ==
  ASSUME node \in Nodes, Proper, \A i \in 1 .. Len(node.keys) : Stands(data, i),
         NEW r \in 0 .. Len(node.keys), cursor = Pos(r), cursor < PAGE_SIZE
  PROVE  LET i == r + 1
             l == Len(node.keys[i])
         IN /\ i \in 1 .. Len(node.keys) /\ l \in Nat /\ l # 0
            /\ data[cursor] = l
            /\ \A k \in 1 .. l : data[cursor + k] = node.keys[i][k]
            /\ \A k \in 1 .. ValueSize(node.is_leaf) :
                 data[cursor + l + k] = ValueBytesOf(node, i)[k]
            /\ cursor \in Nat /\ cursor + 1 + l + ValueSize(node.is_leaf) = Pos(i)
            /\ Pos(i) \in Nat /\ Pos(i) <= PAGE_SIZE
<1> DEFINE m == Len(node.keys)
           i == r + 1
           l == Len(node.keys[i])
           v == ValueSize(node.is_leaf)
<1>1. /\ m \in Nat /\ \A k \in 0 .. m : Pos(k) \in Nat
      /\ Pos(m) = PAGE_SIZE
      /\ \A k \in 1 .. m : Pos(k) = Pos(k - 1) + PairSize(node, k)
      /\ \A k \in 0 .. m : Pos(k) <= PAGE_SIZE
  BY Places DEF Proper
<1>2. i \in 1 .. m /\ i \in 0 .. m /\ i - 1 = r
  <2>1. r # m
    BY <1>1, Widths
  <2> QED
    BY <1>1, <2>1
<1>3. /\ cursor \in Nat /\ Pos(i) \in Nat /\ Pos(i) <= PAGE_SIZE
      /\ Pos(i) = cursor + PairSize(node, i)
  BY <1>1, <1>2, Zenon
<1>4. /\ l \in Nat /\ Len(Pair(node, i)) = PairSize(node, i)
      /\ Pair(node, i)[1] = l
      /\ \A k \in 1 .. l : Pair(node, i)[1 + k] = node.keys[i][k]
      /\ \A k \in 1 .. v : Pair(node, i)[1 + l + k] = ValueBytesOf(node, i)[k]
  BY <1>2, PairBytes, Zenon
<1>5. l # 0
  <2>1. node.keys[i] \in Seq(Int) /\ node.keys[i] # <<>>
    <3> HIDE DEF i
    <3>0. node.keys \in Seq(Key) /\ node.keys[i] \in Seq(Int)
      BY <1>2, NodeType
    <3>1. i \in DOMAIN node.keys /\ node.keys[i] \in Seq(Int)
      BY <1>2, <3>0
    <3> QED
      BY <3>1, Zenon DEF Proper, NoEmptyKey
  <2> QED
    BY <2>1
<1>6. v \in Nat /\ PairSize(node, i) = 1 + l + v
  BY DEF PairSize, ValueSize, RID_SIZE, TREE_KV_PTR_SIZE
<1>7. \A k \in 1 .. PairSize(node, i) : data[Pos(r) + k - 1] = Pair(node, i)[k]
  BY <1>2, Zenon DEF Stands
<1> HIDE DEF v, l, m, i
<1>8. data[cursor] = l
  <2>1. 1 \in 1 .. PairSize(node, i) /\ Pos(r) + 1 - 1 = cursor
    BY <1>3, <1>4, <1>6
  <2> QED
    BY <1>4, <1>7, <2>1, Zenon
<1>9. ASSUME NEW k \in 1 .. l
      PROVE  data[cursor + k] = node.keys[i][k]
  <2>1. 1 + k \in 1 .. PairSize(node, i) /\ Pos(r) + (1 + k) - 1 = cursor + k
    BY <1>3, <1>4, <1>6
  <2> QED
    BY <1>4, <1>7, <2>1, Zenon
<1>10. ASSUME NEW k \in 1 .. v
       PROVE  data[cursor + l + k] = ValueBytesOf(node, i)[k]
  <2>1. 1 + l + k \in 1 .. PairSize(node, i) /\ Pos(r) + (1 + l + k) - 1 = cursor + l + k
    BY <1>3, <1>4, <1>6
  <2> QED
    BY <1>4, <1>7, <2>1, Zenon
<1>11. cursor + 1 + l + v = Pos(i)
  BY <1>3, <1>4, <1>6
<1> QED
  BY <1>2, <1>3, <1>4, <1>5, <1>8, <1>9, <1>10, <1>11, Zenon DEF v, l, m, i

\* A key is read as it was written.
LEMMA KeyRead ==
  ASSUME NEW key \in Seq(Int), NEW d, NEW c \in Nat,
         \A k \in 1 .. Len(key) : d[c + k] = key[k]
  PROVE  BytesAt(d, c + 1, Len(key)) = key
<1>1. Len(key) \in Nat /\ key = [k \in 1 .. Len(key) |-> key[k]]
  OBVIOUS
<1>2. \A k \in 1 .. Len(key) : d[(c + 1) + k - 1] = key[k]
  <2>1. \A k \in 1 .. Len(key) : (c + 1) + k - 1 = c + k
    BY <1>1
  <2> QED
    BY <2>1, Zenon
<1> DEFINE f == [k \in 1 .. Len(key) |-> d[(c + 1) + k - 1]]
<1>3. f = [k \in 1 .. Len(key) |-> key[k]]
  BY <1>2
<1>4. BytesAt(d, c + 1, Len(key)) = f
  BY Zenon DEF BytesAt
<1> QED
  BY <1>1, <1>3, <1>4, Zenon

\* A value is read as it was written.
LEMMA ValueRead ==
  ASSUME NEW n \in Nodes, NEW i \in 1 .. Len(n.keys), NEW d, NEW c \in Nat,
         \A k \in 1 .. ValueSize(n.is_leaf) : d[c + k - 1] = ValueBytesOf(n, i)[k]
  PROVE  n.values[i] = IF n.is_leaf THEN [pid |-> decode_uint32(BytesAt(d, c, 4)),
                                          slot_num |-> decode_uint32(BytesAt(d, c + 4, 4))]
                       ELSE decode_uint32(BytesAt(d, c, 4))
<1>1. n.is_leaf \in BOOLEAN /\ n.values[i] \in IF n.is_leaf THEN RID ELSE uint32
  BY NodeType
<1>2. CASE n.is_leaf
  <2> DEFINE v == n.values[i]
             p == encode_uint32(v.pid)
             q == encode_uint32(v.slot_num)
  <2>1. v \in RID
    BY <1>1, <1>2
  <2>2. v.pid \in uint32 /\ v.slot_num \in uint32 /\ v = [pid |-> v.pid, slot_num |-> v.slot_num]
    BY <2>1, Zenon DEF RID
  <2>3. v.pid \in Int /\ v.slot_num \in Int
    BY <2>2, Widths DEF uint32
  <2>4. p \in Seq(Int) /\ Len(p) = 4 /\ q \in Seq(Int) /\ Len(q) = 4
    BY <2>3, EncodedLength, Zenon
  <2>5. IsJoin(p \o q, p, q)
    BY <2>4, Joins, Zenon
  <2>6. ValueBytesOf(n, i) = p \o q /\ ValueSize(n.is_leaf) = 8
    BY <1>2 DEF ValueBytesOf, ValueSize, RID_SIZE
  <2> DEFINE b == p \o q
  <2>7. \A k \in 1 .. 8 : d[c + k - 1] = b[k]
    BY <2>6, Zenon
  <2> HIDE DEF v, p, q, b
  <2>8. \A k \in 1 .. 4 : b[k] = p[k] /\ b[4 + k] = q[k]
    BY <2>4, <2>5, Zenon DEF IsJoin, b
  <2>9. \A k \in 1 .. 4 : d[c + k - 1] = p[k]
    <3>1. \A k \in 1 .. 4 : k \in 1 .. 8
      OBVIOUS
    <3> QED
      BY <2>7, <2>8, <3>1, Zenon
  <2>10. \A k \in 1 .. 4 : d[(c + 4) + k - 1] = q[k]
    <3> SUFFICES ASSUME NEW k \in 1 .. 4
                 PROVE  d[(c + 4) + k - 1] = q[k]
      OBVIOUS
    <3>1. 4 + k \in 1 .. 8 /\ (c + 4) + k - 1 = c + (4 + k) - 1
      OBVIOUS
    <3> QED
      BY <2>7, <2>8, <3>1, Zenon
  <2>11. c + 4 \in Nat
    OBVIOUS
  <2>12. /\ decode_uint32(BytesAt(d, c, 4)) = v.pid
         /\ decode_uint32(BytesAt(d, c + 4, 4)) = v.slot_num
    BY <2>2, <2>9, <2>10, <2>11, ReadBack, Zenon DEF EncodedAt, p, q
  <2> QED
    BY <1>2, <2>2, <2>12, Zenon DEF v
<1>3. CASE ~n.is_leaf
  <2>1. n.values[i] \in uint32
    BY <1>1, <1>3
  <2>2. ValueBytesOf(n, i) = encode_uint32(n.values[i]) /\ ValueSize(n.is_leaf) = 4
    BY <1>3 DEF ValueBytesOf, ValueSize, TREE_KV_PTR_SIZE
  <2>3. EncodedAt(d, c, n.values[i])
    BY <2>2, Zenon DEF EncodedAt
  <2>4. decode_uint32(BytesAt(d, c, 4)) = n.values[i]
    BY <2>1, <2>3, ReadBack, Zenon
  <2> QED
    BY <1>3, <2>4, Zenon
<1> QED
  BY <1>1, <1>2, <1>3

\* A node with the first r pairs and the next one has the first r + 1 pairs.
LEMMA OneMore ==
  ASSUME node \in Nodes, NEW r \in Nat, r + 1 \in 1 .. Len(node.keys),
         NEW n, FirstPairs(n, r)
  PROVE  FirstPairs([n EXCEPT !.keys = Append(@, node.keys[r + 1]),
                              !.values = Append(@, node.values[r + 1])], r + 1)
<1> DEFINE V == IF node.is_leaf THEN RID ELSE uint32
           key == node.keys[r + 1]
           val == node.values[r + 1]
           e == [n EXCEPT !.keys = Append(@, key), !.values = Append(@, val)]
<1>1. key \in Key /\ val \in V
  <2>1. node.keys \in Seq(Key) /\ node.values \in Seq(V) /\ Len(node.values) = Len(node.keys)
    BY NodeType
  <2> HIDE DEF V
  <2> QED
    BY <2>1
<1>2. /\ n \in BTreePage(node.is_leaf) /\ Len(n.keys) = r /\ Len(n.values) = r
      /\ \A i \in 1 .. r : n.keys[i] = node.keys[i] /\ n.values[i] = node.values[i]
      /\ n.next = node.next /\ n.rightmost_ptr = node.rightmost_ptr /\ n.flags = node.flags
  BY Zenon DEF FirstPairs
<1>3. n \in [is_leaf : {node.is_leaf}, keys : Seq(Key), values : Seq(V),
             next : uint32, rightmost_ptr : uint32, flags : Byte]
  BY <1>2, Zenon DEF BTreePage
<1> HIDE DEF V, key, val
<1>4. n.keys \in Seq(Key) /\ n.values \in Seq(V)
  BY <1>3
<1>5. Append(n.keys, key) \in Seq(Key) /\ Append(n.values, val) \in Seq(V)
  BY <1>1, <1>4
<1>6. /\ e \in [is_leaf : {node.is_leaf}, keys : Seq(Key), values : Seq(V),
                next : uint32, rightmost_ptr : uint32, flags : Byte]
      /\ e.keys = Append(n.keys, key) /\ e.values = Append(n.values, val)
      /\ e.next = n.next /\ e.rightmost_ptr = n.rightmost_ptr /\ e.flags = n.flags
  BY <1>3, <1>5, Zenon
<1> HIDE DEF e
<1>7. /\ Len(e.keys) = r + 1 /\ Len(e.values) = r + 1
      /\ e.keys[r + 1] = key /\ e.values[r + 1] = val
      /\ \A i \in 1 .. r : e.keys[i] = n.keys[i] /\ e.values[i] = n.values[i]
  BY <1>1, <1>2, <1>4, <1>6
<1>8. \A i \in 1 .. r + 1 : e.keys[i] = node.keys[i] /\ e.values[i] = node.values[i]
  <2>1. \A i \in 1 .. r + 1 : i \in 1 .. r \/ i = r + 1
    OBVIOUS
  <2> QED
    BY <1>2, <1>7, <2>1, Zenon DEF key, val
<1>9. e \in BTreePage(node.is_leaf)
  BY <1>6, Zenon DEF BTreePage, V
<1>10. FirstPairs(e, r + 1)
  BY <1>2, <1>6, <1>7, <1>8, <1>9, Zenon DEF FirstPairs
<1> QED
  BY <1>10 DEF e, key, val

\* While the constructor reads, all pairs stand on the page.
LEMMA Reading ==
  ASSUME NodeInv, Proper, ipc = "read"
  PROVE  /\ node \in Nodes /\ left = 0 /\ PairsWritten /\ Len(node.keys) \in Nat
         /\ \A i \in 1 .. Len(node.keys) : Stands(data, i)
         /\ \E r \in 0 .. Len(node.keys) : PairsRead(r)
<1>1. /\ node \in Nodes /\ left = 0 /\ PairsWritten
      /\ \E r \in 0 .. Len(node.keys) : PairsRead(r)
  BY DEF NodeInv
<1>2. \A i \in 0 + 1 .. Len(node.keys) : Stands(data, i)
  BY <1>1, Zenon DEF PairsWritten
<1>3. Len(node.keys) \in Nat
  BY <1>1, NodeType
<1> QED
  BY <1>1, <1>2, <1>3

\* One pair is read.
LEMMA ReadPairStep ==
  ASSUME NodeInv, ReadPair
  PROVE  NodeInv'
<1> DEFINE m == Len(node.keys)
           length == data[cursor]
           off == cursor + 1 + length
           size == ValueSize(read.is_leaf)
           value == IF read.is_leaf THEN [pid |-> decode_uint32(BytesAt(data, off, 4)),
                                          slot_num |-> decode_uint32(BytesAt(data, off + 4, 4))]
                    ELSE decode_uint32(BytesAt(data, off, 4))
           key == BytesAt(data, cursor + 1, length)
           more == [read EXCEPT !.keys = Append(@, key), !.values = Append(@, value)]
<1>1. /\ node \in Nodes /\ IsPage(data) /\ ipc = "read" /\ cursor < PAGE_SIZE /\ length # 0
      /\ UNCHANGED <<node, data, left, start, end>>
      /\ cursor' = u16(off + size)
      /\ \/ read' = more /\ ipc' = ipc
         \/ read' = read /\ ipc' = "overrun"
      /\ InPage(cursor, 1 + length + size) => read' = more /\ ipc' = ipc
  BY Zenon DEF NodeInv, ReadPair
<1>2. IsPage(data') /\ ipc' \in {"write", "open", "read", "done", "overrun"}
  BY <1>1
<1> HIDE DEF more
<1>3. ASSUME Proper
      PROVE  ipc' = "read" /\ \E r \in 0 .. m : cursor' = Pos(r) /\ FirstPairs(read', r)
  <2>1. m \in Nat /\ \A i \in 1 .. m : Stands(data, i)
    BY <1>1, <1>3, Reading, Zenon
  <2>2. PICK r \in 0 .. m : cursor = Pos(r) /\ FirstPairs(read, r)
    BY <1>1, <1>3, Reading, Zenon DEF PairsRead
  <2> DEFINE i == r + 1
             l == Len(node.keys[i])
             v == ValueSize(node.is_leaf)
  <2>3. /\ i \in 1 .. m /\ l \in Nat /\ length = l
        /\ \A k \in 1 .. l : data[cursor + k] = node.keys[i][k]
        /\ \A k \in 1 .. v : data[cursor + l + k] = ValueBytesOf(node, i)[k]
        /\ cursor \in Nat /\ cursor + 1 + l + v = Pos(i)
        /\ Pos(i) \in Nat /\ Pos(i) <= PAGE_SIZE
    BY <1>1, <1>3, <2>1, <2>2, NextPair, Zenon
  <2>4. node.is_leaf \in BOOLEAN /\ node.keys[i] \in Seq(Int) /\ read.is_leaf = node.is_leaf
    BY <1>1, <2>2, <2>3, NodeType, Zenon DEF FirstPairs, BTreePage
  <2>5. size = v /\ v \in Nat
    BY <2>4 DEF ValueSize, RID_SIZE, TREE_KV_PTR_SIZE
  <2> HIDE DEF i, m, size, v, length, l
  <2>6. key = node.keys[i]
    BY <2>3, <2>4, KeyRead, Zenon DEF l
  <2>7. /\ l \in Nat /\ length = l /\ cursor \in Nat /\ cursor + 1 + l + v = Pos(i)
        /\ Pos(i) \in Nat /\ Pos(i) <= PAGE_SIZE
    BY <2>3, Zenon
  <2>8. value = node.values[i]
    <3>1. off \in Nat /\ \A k \in 1 .. v : off + k - 1 = cursor + l + k
      BY <2>7, <2>5
    <3>2. \A k \in 1 .. v : data[off + k - 1] = ValueBytesOf(node, i)[k]
      BY <2>3, <3>1, Zenon
    <3> HIDE DEF off
    <3>3. node.values[i] = IF node.is_leaf THEN [pid |-> decode_uint32(BytesAt(data, off, 4)),
                                          slot_num |-> decode_uint32(BytesAt(data, off + 4, 4))]
                           ELSE decode_uint32(BytesAt(data, off, 4))
      BY <1>1, <2>3, <3>1, <3>2, ValueRead, Zenon DEF m, v
    <3> QED
      BY <2>4, <3>3, Zenon
  <2> HIDE DEF key, value
  <2>9. InPage(cursor, 1 + length + size)
    BY <2>7, <2>5 DEF InPage
  <2>10. read' = more /\ ipc' = "read"
    BY <1>1, <2>9, Zenon
  <2>11. cursor' = Pos(i)
    <3>1. off + size = Pos(i)
      BY <2>7, <2>5
    <3> QED
      BY <1>1, <2>3, <3>1, Short, Zenon
  <2>12. FirstPairs(read', i)
    <3>1. r \in Nat
      BY <2>1
    <3> QED
      BY <1>1, <2>2, <2>3, <2>6, <2>8, <2>10, <3>1, OneMore, Zenon DEF more, i, m
  <2>13. i \in 0 .. m
    BY <2>1, <2>3
  <2> QED
    BY <2>10, <2>11, <2>12, <2>13, Zenon
<1>4. ASSUME Proper
      PROVE  /\ left' \in 0 .. m /\ end' = Pos(left') /\ left' = 0
             /\ start' = INDEX_PAGE_HEADER_SIZE + TREE_KV_PTR_SIZE * (m - left')
             /\ \A i \in left' + 1 .. m : Stands(data', i)
  BY <1>1, <1>4, Reading, Zenon DEF PairsWritten
<1> QED
  BY <1>1, <1>2, <1>3, <1>4, Kept

\* No key is skipped on a page with a proper node.
LEMMA SkipEmptyStep ==
  ASSUME NodeInv, SkipEmpty
  PROVE  NodeInv'
<1>1. /\ node \in Nodes /\ IsPage(data) /\ ipc = "read" /\ cursor < PAGE_SIZE /\ data[cursor] = 0
      /\ node' = node /\ data' = data /\ ipc' = ipc
  BY Zenon DEF NodeInv, SkipEmpty
<1>2. ASSUME Proper
      PROVE  FALSE
  <2>1. \A i \in 1 .. Len(node.keys) : Stands(data, i)
    BY <1>1, <1>2, Reading, Zenon
  <2>2. PICK r \in 0 .. Len(node.keys) : cursor = Pos(r)
    BY <1>1, <1>2, Reading, Zenon DEF PairsRead
  <2> QED
    BY <1>1, <1>2, <2>1, <2>2, NextPair
<1> QED
  BY <1>1, <1>2, Kept

\* At the end of the page all pairs are read.
LEMMA ReadEndStep ==
  ASSUME NodeInv, ReadEnd
  PROVE  NodeInv'
<1> DEFINE m == Len(node.keys)
<1>1. /\ node \in Nodes /\ IsPage(data) /\ ipc = "read" /\ cursor >= PAGE_SIZE /\ ipc' = "done"
      /\ UNCHANGED <<node, data, left, start, end, read>>
  BY DEF NodeInv, ReadEnd
<1>2. ASSUME Proper
      PROVE  FirstPairs(read', m)
  <2>1. PICK r \in 0 .. m : cursor = Pos(r) /\ FirstPairs(read, r)
    BY <1>1, <1>2, Reading, Zenon DEF PairsRead
  <2>2. r = m
    <3>1. CASE r = m
      BY <3>1
    <3>2. CASE r # m
      <4>1. /\ m \in Nat /\ \A k \in 0 .. m : Pos(k) \in Nat
            /\ \A k \in 1 .. m : PairSize(node, k) \in Nat /\ Pos(k) = Pos(k - 1) + PairSize(node, k)
            /\ \A k \in 0 .. m : Pos(k) <= PAGE_SIZE
        BY <1>1, <1>2, Places DEF Proper
      <4>2. r + 1 \in 1 .. m /\ r + 1 \in 0 .. m /\ (r + 1) - 1 = r
        BY <3>2, <4>1
      <4>3. /\ Pos(r + 1) = Pos(r) + PairSize(node, r + 1) /\ Pos(r + 1) <= PAGE_SIZE
            /\ Pos(r) \in Nat
        BY <4>1, <4>2, Zenon
      <4>4. PairSize(node, r + 1) \in Nat /\ PairSize(node, r + 1) > 0
        <5>1. Len(node.keys[r + 1]) \in Nat
          BY <1>1, <4>2, NodeType
        <5>2. ValueSize(node.is_leaf) \in Nat
          BY DEF ValueSize, RID_SIZE, TREE_KV_PTR_SIZE
        <5> QED
          BY <5>1, <5>2, SMTT(30) DEF PairSize
      <4> QED
        BY <1>1, <2>1, <4>3, <4>4, Widths
    <3> QED
      BY <3>1, <3>2
  <2> QED
    BY <1>1, <2>1, <2>2
<1>3. ASSUME Proper
      PROVE  /\ left' \in 0 .. m /\ end' = Pos(left') /\ left' = 0
             /\ start' = INDEX_PAGE_HEADER_SIZE + TREE_KV_PTR_SIZE * (m - left')
             /\ \A i \in left' + 1 .. m : Stands(data', i)
  BY <1>1, <1>3, Reading, Zenon DEF PairsWritten
<1> QED
  BY <1>1, <1>2, <1>3, Kept

\* Every step keeps the invariant.
LEMMA StepPages ==
  ASSUME NodeInv, [IndexNext]_indexvars
  PROVE  NodeInv'
<1>1. CASE UNCHANGED indexvars
  BY <1>1, Zenon DEF indexvars, NodeInv, Proper, PairsWritten, HeaderWritten, PairsRead, FirstPairs,
     Stands, Pos, Room
<1> QED
  BY <1>1, WritePairStep, WriteHeaderStep, ReadHeaderStep, SkipEmptyStep, ReadPairStep, ReadEndStep
     DEF IndexNext

\* Sequences with the same members are the same.
LEMMA SameSeq ==
  ASSUME NEW S, NEW s \in Seq(S), NEW t \in Seq(S), Len(s) = Len(t),
         \A i \in 1 .. Len(t) : s[i] = t[i]
  PROVE  s = t
OBVIOUS

\* A node with the fields and all the pairs of another is that node.
LEMMA AllPairs ==
  ASSUME node \in Nodes, NEW n, FirstPairs(n, Len(node.keys))
  PROVE  n = node
<1> DEFINE V == IF node.is_leaf THEN RID ELSE uint32
           m == Len(node.keys)
           R == [is_leaf : {node.is_leaf}, keys : Seq(Key), values : Seq(V),
                 next : uint32, rightmost_ptr : uint32, flags : Byte]
<1>1. node \in R /\ Len(node.values) = m
  BY NodesAssumption, Zenon DEF BTreePage
<1>2. /\ n \in R /\ Len(n.keys) = m /\ Len(n.values) = m
      /\ \A i \in 1 .. m : n.keys[i] = node.keys[i] /\ n.values[i] = node.values[i]
      /\ n.next = node.next /\ n.rightmost_ptr = node.rightmost_ptr /\ n.flags = node.flags
  BY Zenon DEF FirstPairs, BTreePage
<1> HIDE DEF V
<1>3. /\ n.keys \in Seq(Key) /\ node.keys \in Seq(Key)
      /\ n.values \in Seq(V) /\ node.values \in Seq(V) /\ n.is_leaf = node.is_leaf
  BY <1>1, <1>2
<1>4. n.keys = node.keys /\ n.values = node.values
  BY <1>1, <1>2, <1>3, SameSeq, ZenonT(30)
<1> QED
  BY <1>1, <1>2, <1>3, <1>4

\* BTreePage::serialize and the constructor that takes a page: for every page
\* size and every node, one that has room on a page and no empty key is written
\* without leaving the page and is read back as it was written.
THEOREM NodesReadBack == IndexSpec => []NodeSurvives
<1>1. NodeInv => NodeSurvives
  BY AllPairs, Zenon DEF NodeInv, Proper, NodeSurvives
<1> QED
  BY <1>1, InitPages, StepPages, PTL DEF IndexSpec

-----------------------------------------------------------------------------
(* Columns on their page. *)

\* The fields of a table's columns.
LEMMA ColumnFields ==
  ASSUME table \in Tables
  PROVE  /\ table.cols \in Seq(Column) /\ Len(table.cols) \in Nat
         /\ DOMAIN table.cols = 1 .. Len(table.cols)
         /\ \A k \in 1 .. Len(table.cols) :
              LET c == table.cols[k]
              IN /\ c \in Column /\ c.name \in Seq(Int) /\ Len(c.name) \in Nat
                 /\ c.name \in Seq(Nat) /\ c.type \in ColumnType
                 /\ \A i \in 1 .. Len(c.name) : c.name[i] \in Nat /\ c.name[i] # 0
                 /\ Size(k) = Len(c.name) + 2 /\ Size(k) \in Nat
<1>1. table.cols \in Seq(Column) /\ Len(table.cols) \in Nat
  BY TablesAssumption, Widths DEF Byte
<1>2. DOMAIN table.cols = 1 .. Len(table.cols)
  BY <1>1
<1>3. ASSUME NEW k \in 1 .. Len(table.cols)
      PROVE  LET c == table.cols[k]
             IN /\ c \in Column /\ c.name \in Seq(Int) /\ Len(c.name) \in Nat
                /\ c.name \in Seq(Nat) /\ c.type \in ColumnType
                /\ \A i \in 1 .. Len(c.name) : c.name[i] \in Nat /\ c.name[i] # 0
                /\ Size(k) = Len(c.name) + 2 /\ Size(k) \in Nat
  <2> DEFINE c == table.cols[k]
  <2>1. c \in Column
    BY <1>1
  <2>2. Size(k) = 1 + Len(c.name) + 1
    BY Zenon DEF Size, SCHEMA_COLUMN_SIZE
  <2> HIDE DEF c
  <2>3. c.name \in Seq(1 .. Base - 1) /\ c.type \in ColumnType
    BY <2>1, Zenon DEF Column
  <2> DEFINE s == c.name
  <2> HIDE DEF s
  <2>4. s \in Seq(1 .. Base - 1)
    BY <2>3 DEF s
  <2>5. /\ s \in Seq(Int) /\ s \in Seq(Nat) /\ Len(s) \in Nat
        /\ \A i \in 1 .. Len(s) : s[i] \in Nat /\ s[i] # 0
    BY <2>4, Widths
  <2>6. Size(k) = Len(s) + 2 /\ Size(k) \in Nat
    BY <2>2, <2>5 DEF s
  <2> QED
    BY <2>1, <2>3, <2>5, <2>6, Zenon DEF c, s
<1> QED
  BY <1>1, <1>2, <1>3, Zenon

\* A column on the page is the length of its name, the name and its type.
LEMMA ColumnBytesOf ==
  ASSUME table \in Tables, NEW k \in 1 .. Len(table.cols)
  PROVE  LET c == table.cols[k]
             b == ColumnBytes(c)
             l == Len(c.name)
         IN /\ Len(b) = Size(k) /\ b[1] = l
            /\ \A j \in 1 .. l : b[1 + j] = c.name[j]
            /\ b[2 + l] = TypeByte[c.type]
<1> DEFINE c == table.cols[k]
           name == c.name
           l == Len(name)
           t == <<TypeByte[c.type]>>
           h == <<l>> \o name
           b == ColumnBytes(c)
<1>1. /\ name \in Seq(Int) /\ l \in Nat /\ c.type \in ColumnType /\ Size(k) = l + 2
  BY ColumnFields, Zenon
<1>2. TypeByte[c.type] \in Int
  BY <1>1 DEF TypeByte, ColumnType
<1>3. t \in Seq(Int) /\ Len(t) = 1 /\ t[1] = TypeByte[c.type]
  BY <1>2
<1>4. b = h \o t
  BY Zenon DEF ColumnBytes
<1>5. <<l>> \in Seq(Int) /\ Len(<<l>>) = 1 /\ <<l>>[1] = l
  BY <1>1
<1> HIDE DEF name, l, t, b
<1>6. IsJoin(h, <<l>>, name)
  BY <1>1, <1>5, Joins, Zenon
<1> HIDE DEF h
<1>7. /\ h \in Seq(Int) /\ Len(h) = 1 + l /\ h[1] = l
      /\ \A j \in 1 .. l : h[1 + j] = name[j]
  BY <1>1, <1>5, <1>6, SMTT(30) DEF IsJoin, l
<1>8. IsJoin(b, h, t)
  BY <1>3, <1>4, <1>7, Joins, Zenon
<1>9. /\ Len(b) = l + 2 /\ b[1] = l
      /\ \A j \in 1 .. l : b[1 + j] = name[j]
  <2>1. Len(b) = Len(h) + Len(t) /\ \A j \in 1 .. Len(h) : b[j] = h[j]
    BY <1>8, Zenon DEF IsJoin
  <2>2. 1 \in 1 .. Len(h) /\ \A j \in 1 .. l : 1 + j \in 1 .. Len(h)
    BY <1>1, <1>7
  <2>3. Len(h) + Len(t) = l + 2
    BY <1>1, <1>3, <1>7
  <2> QED
    BY <1>7, <2>1, <2>2, <2>3, Zenon
<1>10. b[2 + l] = t[1]
  <2>1. \A j \in 1 .. Len(t) : b[Len(h) + j] = t[j]
    BY <1>8, Zenon DEF IsJoin
  <2>2. Len(h) + 1 = 2 + l /\ 1 \in 1 .. Len(t)
    BY <1>1, <1>3, <1>7
  <2> QED
    BY <2>1, <2>2, Zenon
<1> QED
  BY <1>1, <1>3, <1>9, <1>10, Zenon DEF name, l, b

\* Column k stands on page p where create_table puts it.
OnPage(p, k) ==
  /\ WrittenAt(k) + Size(k) <= PAGE_SIZE
  /\ \A j \in 1 .. Size(k) : p[WrittenAt(k) + j - 1] = ColumnBytes(table.cols[k])[j]

\* A column has a place behind the first byte.
LEMMA ColumnPlace ==
  ASSUME table \in Tables, NEW k \in 1 .. Len(table.cols)
  PROVE  WrittenAt(k) \in Nat /\ WrittenAt(k) >= 1
<1>1. Len(table.cols) \in Nat /\ \A i \in 1 .. Len(table.cols) : Size(i) \in Nat
  BY ColumnFields
<1>2. CASE k = 1
  BY <1>2 DEF WrittenAt, START_COLUMNS_INFO
<1>3. CASE k # 1
  <2>1. k - 1 \in 1 .. Len(table.cols) /\ k - 1 \in Nat
    BY <1>1, <1>3
  <2>2. Size(k - 1) \in Nat
    BY <1>1, <2>1
  <2>3. (k - 1) * Size(k - 1) \in Nat
    BY <2>1, <2>2
  <2> QED
    BY <1>3, <2>3 DEF WrittenAt, START_COLUMNS_INFO
<1> QED
  BY <1>2, <1>3

\* What is found where a column stands.
LEMMA ColumnFound ==
  ASSUME table \in Tables, NEW k \in 1 .. Len(table.cols), NEW p, OnPage(p, k)
  PROVE  LET c == table.cols[k]
             o == WrittenAt(k)
         IN /\ p[o] = Len(c.name)
            /\ BytesAt(p, o + 1, p[o]) = c.name
            /\ p[o + 1 + p[o]] = TypeByte[c.type]
<1> DEFINE c == table.cols[k]
           o == WrittenAt(k)
           b == ColumnBytes(c)
           l == Len(c.name)
<1>1. c.name \in Seq(Int) /\ l \in Nat /\ Size(k) = l + 2
  BY ColumnFields, Zenon
<1>2. /\ b[1] = l
      /\ \A j \in 1 .. l : b[1 + j] = c.name[j]
      /\ b[2 + l] = TypeByte[c.type]
  BY ColumnBytesOf
<1>3. o \in Nat
  BY ColumnPlace
<1>4. \A j \in 1 .. Size(k) : p[o + j - 1] = b[j]
  BY Zenon DEF OnPage
<1> HIDE DEF o, b, l
<1>5. /\ 1 \in 1 .. Size(k) /\ o + 1 - 1 = o
      /\ 2 + l \in 1 .. Size(k) /\ o + (2 + l) - 1 = o + 1 + l
      /\ \A j \in 1 .. l : 1 + j \in 1 .. Size(k) /\ o + (1 + j) - 1 = o + j
  BY <1>1, <1>3
<1>6. p[o] = l /\ p[o + 1 + l] = TypeByte[c.type]
  BY <1>2, <1>4, <1>5, Zenon
<1>7. \A j \in 1 .. l : p[o + j] = c.name[j]
  BY <1>2, <1>4, <1>5, ZenonT(30)
<1>8. BytesAt(p, o + 1, l) = c.name
  BY <1>1, <1>3, <1>7, KeyRead, Zenon DEF l
<1> QED
  BY <1>6, <1>8, Zenon DEF o, l

\* A column stays where it is when another is written apart from it.
LEMMA ColumnStays ==
  ASSUME table \in Tables, Apart, NEW i \in 1 .. Len(table.cols), NEW k \in 1 .. Len(table.cols),
         i # k, NEW d, NEW e, OnPage(d, i),
         Written(e, d, WrittenAt(k), ColumnBytes(table.cols[k]))
  PROVE  OnPage(e, i)
<1> DEFINE w == WrittenAt(k)
           o == WrittenAt(i)
           b == ColumnBytes(table.cols[k])
<1>1. /\ Len(table.cols) \in Nat /\ DOMAIN table.cols = 1 .. Len(table.cols)
      /\ Size(i) \in Nat /\ Size(k) \in Nat /\ Len(b) = Size(k)
  BY ColumnFields, ColumnBytesOf, Zenon
<1>2. w \in Nat /\ o \in Nat /\ PAGE_SIZE \in Nat
  BY ColumnPlace, Widths, Zenon
<1>3. o + Size(i) <= w \/ w + Len(b) <= o
  <2>1. i < k \/ k < i
    BY <1>1
  <2> QED
    BY <1>1, <2>1, Zenon DEF Apart
<1>4. /\ o + Size(i) <= PAGE_SIZE
      /\ \A j \in 1 .. Size(i) : d[o + j - 1] = ColumnBytes(table.cols[i])[j]
  BY Zenon DEF OnPage
<1>5. \A x \in 0 .. PAGE_SIZE - 1 : x < w \/ w + Len(b) <= x => e[x] = d[x]
  BY Zenon DEF Written
<1> HIDE DEF w, o, b
<1>6. ASSUME NEW j \in 1 .. Size(i)
      PROVE  e[o + j - 1] = ColumnBytes(table.cols[i])[j]
  <2> DEFINE x == o + j - 1
  <2>1. x \in 0 .. PAGE_SIZE - 1 /\ (x < w \/ w + Len(b) <= x)
    BY <1>1, <1>2, <1>3, <1>4
  <2>2. e[x] = d[x]
    BY <1>5, <2>1, Zenon
  <2> QED
    BY <1>4, <2>2, Zenon
<1> QED
  BY <1>4, <1>6, Zenon DEF OnPage, o

\* The columns of a plain table lie behind each other.
LEMMA InOrder ==
  ASSUME table \in Tables, Plain
  PROVE  /\ \A k \in 1 .. Len(table.cols) : /\ InOrderAt(k) = WrittenAt(k)
                                            /\ InOrderAt(k) \in Nat /\ InOrderAt(k) < Base
         /\ \A k \in 1 .. Len(table.cols) - 1 : InOrderAt(k + 1) = InOrderAt(k) + Size(k)
         /\ Apart
<1> DEFINE n == Len(table.cols)
           a == [i \in DOMAIN table.cols |-> Size(i)]
           s == Sums(a)
<1>1. /\ n \in Nat /\ DOMAIN table.cols = 1 .. n
      /\ \A k \in 1 .. n : Size(k) \in Nat
  BY ColumnFields
<1>2. a = [i \in 1 .. n |-> Size(i)]
  BY <1>1, Zenon
<1>3. \A k : InOrderAt(k) = 1 + s[k - 1]
  BY Zenon DEF InOrderAt, START_COLUMNS_INFO
<1>4. \A k \in 1 .. n : InOrderAt(k) < Base
  BY <1>1, Zenon DEF Plain
<1>5. n <= 2 \/ \A i, k \in 1 .. n : Size(i) = Size(k)
  BY <1>1, Zenon DEF Plain
<1>6. /\ WrittenAt(1) = 1
      /\ \A k \in 1 .. n : k # 1 => WrittenAt(k) = 1 + (k - 1) * Size(k - 1)
  BY DEF WrittenAt, START_COLUMNS_INFO
<1> HIDE DEF a, n
<1>7. a \in Seq(Nat) /\ Len(a) = n /\ \A i \in 1 .. n : a[i] = Size(i)
  BY <1>1, <1>2
<1>8. /\ s[0] = 0
      /\ \A k \in 1 .. n : s[k] = s[k - 1] + a[k]
      /\ \A k \in 0 .. n : s[k] \in Nat
      /\ \A j, k \in 0 .. n : j <= k => s[j] <= s[k]
  BY <1>7, SumsAdd, Zenon
<1> HIDE DEF s
<1>9. \A k \in 1 .. n : s[k] = s[k - 1] + Size(k)
  BY <1>7, <1>8
<1>10. \A k \in 1 .. n : InOrderAt(k) = WrittenAt(k)
  <2>1. CASE n <= 2
    <3> SUFFICES ASSUME NEW k \in 1 .. n
                 PROVE  InOrderAt(k) = WrittenAt(k)
      OBVIOUS
    <3>1. CASE k = 1
      BY <1>3, <1>6, <1>8, <3>1
    <3>2. CASE k # 1
      <4>1. k = 2 /\ 1 \in 1 .. n
        BY <1>1, <2>1, <3>2
      <4>2. s[1] = s[0] + Size(1) /\ Size(1) \in Nat
        BY <1>1, <1>9, <4>1
      <4>3. WrittenAt(2) = 1 + (2 - 1) * Size(2 - 1)
        BY <1>6, <4>1
      <4>4. WrittenAt(2) = 1 + Size(1)
        BY <4>2, <4>3
      <4> QED
        BY <1>3, <1>8, <4>1, <4>2, <4>4
    <3> QED
      BY <3>1, <3>2
  <2>2. CASE \A i, k \in 1 .. n : Size(i) = Size(k)
    <3> DEFINE T == {j \in 0 .. n : j = 0 \/ s[j] = j * Size(j)}
    <3>1. 0 \in T
      BY <1>1
    <3>2. ASSUME NEW j \in 0 .. n - 1, j \in T
          PROVE  j + 1 \in T
      <4>1. j + 1 \in 1 .. n /\ Size(j + 1) \in Nat /\ s[j + 1] = s[j] + Size(j + 1)
        BY <1>1, <1>9
      <4>2. CASE j = 0
        BY <1>8, <4>1, <4>2
      <4>3. CASE j # 0
        <5>1. s[j] = j * Size(j + 1)
          BY <1>1, <2>2, <3>2, <4>1, <4>3
        <5> QED
          BY <4>1, <5>1
      <4> QED
        BY <4>2, <4>3
    <3> HIDE DEF T
    <3>3. \A j \in 0 .. n : j \in T
      BY <1>1, <3>1, <3>2, UpTo, Zenon
    <3> SUFFICES ASSUME NEW k \in 1 .. n
                 PROVE  InOrderAt(k) = WrittenAt(k)
      OBVIOUS
    <3>4. CASE k = 1
      BY <1>3, <1>6, <1>8, <3>4
    <3>5. CASE k # 1
      <4>1. k - 1 \in 0 .. n /\ k - 1 # 0
        BY <1>1, <3>5
      <4>2. s[k - 1] = (k - 1) * Size(k - 1)
        BY <3>3, <4>1 DEF T
      <4> QED
        BY <1>3, <1>6, <3>5, <4>2, Zenon
    <3> QED
      BY <3>4, <3>5
  <2> QED
    BY <1>5, <2>1, <2>2
<1>11. ASSUME NEW k \in 1 .. n
       PROVE  InOrderAt(k) \in Nat
  <2>1. k - 1 \in 0 .. n
    BY <1>1
  <2>2. s[k - 1] \in Nat /\ InOrderAt(k) = 1 + s[k - 1]
    BY <1>3, <1>8, <2>1, Zenon
  <2> QED
    BY <2>2
<1>12. ASSUME NEW k \in 1 .. n - 1
       PROVE  InOrderAt(k + 1) = InOrderAt(k) + Size(k)
  <2>1. k \in 1 .. n /\ (k + 1) - 1 = k /\ k - 1 \in 0 .. n
    BY <1>1
  <2>2. s[k] = s[k - 1] + Size(k) /\ s[k - 1] \in Nat /\ Size(k) \in Nat
    BY <1>1, <1>8, <1>9, <2>1, Zenon
  <2>3. InOrderAt(k + 1) = 1 + s[k] /\ InOrderAt(k) = 1 + s[k - 1]
    BY <1>3, <2>1
  <2> QED
    BY <2>2, <2>3
<1>13. Apart
  <2> SUFFICES ASSUME NEW i \in 1 .. n, NEW k \in 1 .. n, i < k
               PROVE  WrittenAt(i) + Size(i) <= WrittenAt(k)
    BY <1>1, Zenon DEF Apart
  <2>1. /\ i \in 0 .. n /\ i - 1 \in 0 .. n /\ k - 1 \in 0 .. n /\ i <= k - 1
    BY <1>1
  <2>2. /\ s[i] = s[i - 1] + Size(i) /\ s[i] <= s[k - 1]
        /\ s[i] \in Nat /\ s[i - 1] \in Nat /\ s[k - 1] \in Nat /\ Size(i) \in Nat
    BY <1>1, <1>8, <1>9, <2>1, Zenon
  <2>3. WrittenAt(i) = 1 + s[i - 1] /\ WrittenAt(k) = 1 + s[k - 1]
    BY <1>3, <1>10, Zenon
  <2> QED
    BY <2>2, <2>3
<1> QED
  BY <1>4, <1>10, <1>11, <1>12, <1>13, Zenon DEF n

-----------------------------------------------------------------------------
(* The inductive invariant of a table. *)

Stages == {"create", "add", "check", "open", "schema", "query", "done", "overrun"}

\* What add_tuple is passed
Passed == [name : Seq(Nat), type : ColumnType]

\* The columns that are on the page
Done(p, c) ==
  IF p = "overrun" THEN {} ELSE IF p = "create" THEN 1 .. c ELSE 1 .. Len(table.cols)

\* The k-th column of a is one that add_tuple may accept.
Agrees(a, k) ==
  /\ a[k].type = table.cols[k].type
  /\ Len(table.cols[k].name) <= Len(a[k].name)
  /\ SubSeq(a[k].name, 1, Len(table.cols[k].name)) = table.cols[k].name

\* create_table after c columns, with o the size of the last
Creating(c, o) == c \in 0 .. Len(table.cols) /\ o = IF c = 0 THEN 0 ELSE Size(c)

\* add_tuple after c columns, with o the offset of the last
Checking(a, c, o) ==
  /\ c \in 0 .. Len(table.cols)
  /\ Apart => /\ o = IF c = 0 THEN 0 ELSE WrittenAt(c) - 1
              /\ c > 0 => Len(a) = Len(table.cols)
              /\ \A k \in 1 .. c : Agrees(a, k)

\* What add_tuple's answer says
Judged(v, a) ==
  Apart => /\ v = "rejected" => a # table.cols
           /\ v = "accepted" /\ table.cols # <<>> =>
                Len(a) = Len(table.cols) /\ \A k \in 1 .. Len(a) : Agrees(a, k)

\* schema after c columns, with s the ones it has read and o its cursor
SchemaUpTo(s, c, o) ==
  /\ c \in 0 .. Len(table.cols)
  /\ s \in Seq(Column) /\ Len(s) = c
  /\ \A k \in 1 .. c : s[k] = table.cols[k]
  /\ c < Len(table.cols) => o = InOrderAt(c + 1)

\* What holds of a page, of what add_tuple was passed and answered, and of the
\* schema that was read, after c columns with offset o in stage p
Fine(pg, a, v, s, c, o, p) ==
  /\ p \in Stages /\ IsPage(pg) /\ pg[0] = Len(table.cols) /\ a \in Seq(Passed)
  /\ p = "create" => Creating(c, o)
  /\ Apart => \A k \in Done(p, c) : OnPage(pg, k)
  /\ p = "check" => Checking(a, c, o)
  /\ Judged(v, a)
  /\ p \in {"create", "add", "check"} => v = "none"
  /\ p \in {"create", "add", "check", "open"} => s = <<>>
  /\ p = "schema" /\ Plain => SchemaUpTo(s, c, o)
  /\ p \in {"query", "done"} /\ Plain => s = table.cols

TableInv == table \in Tables /\ Fine(page, args, verdict, schema, col, at, tpc)

\* What has to be shown of a step.
LEMMA TableKept ==
  ASSUME table \in Tables, table' = table, Fine(page', args', verdict', schema', col', at', tpc')
  PROVE  TableInv'
<1>1. Apart' = Apart /\ Plain' = Plain
  BY Zenon DEF Apart, Plain, WrittenAt, Size, InOrderAt
<1>2. Creating(col, at)' = Creating(col', at')
  BY Zenon DEF Creating, Size
<1>3. (\A k \in Done(tpc, col) : OnPage(page, k))' = \A k \in Done(tpc', col') : OnPage(page', k)
  BY ZenonT(30) DEF Done, OnPage, WrittenAt, Size
<1>4. Checking(args, col, at)' = Checking(args', col', at')
  <2>1. (WrittenAt(col) - 1)' = WrittenAt(col') - 1
    BY Zenon DEF WrittenAt, Size
  <2>2. (\A k \in 1 .. col : Agrees(args, k))' = \A k \in 1 .. col' : Agrees(args', k)
    BY Zenon DEF Agrees
  <2> QED
    BY <1>1, <2>1, <2>2, Zenon DEF Checking
<1>5. Judged(verdict, args)' = Judged(verdict', args')
  BY <1>1, Zenon DEF Judged, Agrees
<1>6. SchemaUpTo(schema, col, at)' = SchemaUpTo(schema', col', at')
  BY Zenon DEF SchemaUpTo, InOrderAt, Size
<1>7. Fine(page, args, verdict, schema, col, at, tpc)'
  BY <1>1, <1>2, <1>3, <1>4, <1>5, <1>6, Zenon DEF Fine
<1> QED
  BY <1>7, Zenon DEF TableInv

\* At first no column is written.
LEMMA InitTable == TableInit => TableInv
<1> SUFFICES ASSUME TableInit
             PROVE  TableInv
  OBVIOUS
<1>1. /\ table \in Tables /\ args = <<>> /\ verdict = "none" /\ schema = <<>> /\ col = 0 /\ at = 0
      /\ tpc = "create" /\ page = [i \in 0 .. PAGE_SIZE - 1 |-> IF i = 0 THEN Len(table.cols) ELSE 0]
  BY DEF TableInit
<1>2. IsPage(page) /\ page[0] = Len(table.cols)
  BY <1>1, Widths DEF IsPage
<1>3. Len(table.cols) \in Nat
  BY <1>1, ColumnFields
<1>4. Creating(col, at)
  BY <1>1, <1>3 DEF Creating
<1>5. Done(tpc, col) = {} /\ args \in Seq(Passed)
  BY <1>1 DEF Done
<1>6. Judged(verdict, args) /\ tpc \in Stages
  BY <1>1, Zenon DEF Judged, Stages
<1> QED
  BY <1>1, <1>2, <1>4, <1>5, <1>6 DEF TableInv, Fine

\* A column is written.
LEMMA WriteColumnStep ==
  ASSUME TableInv, WriteColumn
  PROVE  TableInv'
<1> DEFINE n == Len(table.cols)
           k == col + 1
           c == table.cols[k]
           w == START_COLUMNS_INFO + col * at
           b == ColumnBytes(c)
<1>1. /\ table \in Tables /\ Fine(page, args, verdict, schema, col, at, tpc)
      /\ tpc = "create" /\ col < n /\ col' = k
      /\ at' = SCHEMA_COLUMN_SIZE(Len(c.name))
      /\ UNCHANGED <<table, args, verdict, schema>>
      /\ \/ InPage(w, SCHEMA_COLUMN_SIZE(Len(c.name))) /\ page' = Copied(page, w, b) /\ tpc' = tpc
         \/ page' = page /\ tpc' = "overrun"
  BY Zenon DEF TableInv, WriteColumn
<1>2. /\ IsPage(page) /\ page[0] = n /\ args \in Seq(Passed) /\ Creating(col, at)
      /\ Judged(verdict, args) /\ verdict = "none" /\ schema = <<>>
      /\ Apart => \A i \in 1 .. col : OnPage(page, i)
  BY <1>1, Zenon DEF Fine, Done
<1>3. n \in Nat /\ col \in 0 .. n /\ k \in 1 .. n
  BY <1>1, <1>2, ColumnFields DEF Creating
<1>4. at' = Size(k) /\ Creating(k, at')
  <2>1. at' = Size(k)
    BY <1>1, Zenon DEF Size
  <2>2. k # 0 /\ k \in 0 .. n
    BY <1>3
  <2> QED
    BY <2>1, <2>2, Zenon DEF Creating
<1>5. w = WrittenAt(k)
  <2>1. CASE col = 0
    BY <1>2, <2>1 DEF Creating, WrittenAt, START_COLUMNS_INFO
  <2>2. CASE col # 0
    <3>1. at = Size(col) /\ k # 1 /\ k - 1 = col
      BY <1>2, <1>3, <2>2, SMTT(30) DEF Creating
    <3> QED
      BY <3>1 DEF WrittenAt
  <2> QED
    BY <2>1, <2>2
<1>6. w \in Nat /\ w >= 1 /\ Size(k) \in Nat /\ Len(b) = Size(k)
  BY <1>1, <1>3, <1>5, ColumnPlace, ColumnFields, ColumnBytesOf, ZenonT(30)
<1>7. CASE page' = page /\ tpc' = "overrun"
  <2>1. Fine(page', args', verdict', schema', col', at', tpc')
    BY <1>1, <1>2, <1>7, Zenon DEF Fine, Done, Stages
  <2> QED
    BY <1>1, <2>1, TableKept, Zenon
<1>8. CASE InPage(w, SCHEMA_COLUMN_SIZE(Len(c.name))) /\ page' = Copied(page, w, b) /\ tpc' = tpc
  <2>1. w + Len(b) <= PAGE_SIZE
    BY <1>6, <1>8 DEF InPage, Size
  <2>2. Written(page', page, w, b)
    BY <1>2, <1>6, <1>8, <2>1, CopiedBytes, Zenon
  <2> HIDE DEF w, b
  <2>3. page'[0] = n /\ IsPage(page')
    <3>1. \A i \in 0 .. PAGE_SIZE - 1 : i < w \/ w + Len(b) <= i => page'[i] = page[i]
      BY <2>2, Zenon DEF Written
    <3>2. 0 \in 0 .. PAGE_SIZE - 1 /\ 0 < w
      BY <1>6, Widths
    <3>3. page'[0] = page[0]
      BY <3>1, <3>2, Zenon
    <3> QED
      BY <1>2, <2>2, <3>3, Zenon DEF Written
  <2>4. OnPage(page', k)
    <3>1. \A j \in 1 .. Len(b) : page'[w + j - 1] = b[j]
      BY <2>2, Zenon DEF Written
    <3> QED
      BY <1>5, <1>6, <2>1, <3>1, Zenon DEF OnPage, b
  <2>5. ASSUME Apart
        PROVE  \A i \in 1 .. k : OnPage(page', i)
    <3> SUFFICES ASSUME NEW i \in 1 .. k
                 PROVE  OnPage(page', i)
      OBVIOUS
    <3>1. CASE i = k
      BY <2>4, <3>1
    <3>2. CASE i # k
      <4>1. i \in 1 .. col /\ i \in 1 .. n
        BY <1>3, <3>2, SMTT(30)
      <4>2. OnPage(page, i)
        BY <1>2, <2>5, <4>1, ZenonT(30)
      <4> HIDE DEF k
      <4> QED
        BY <1>1, <1>3, <1>5, <2>2, <2>5, <3>2, <4>1, <4>2, ColumnStays, Zenon DEF b
    <3> QED
      BY <3>1, <3>2
  <2>6. Fine(page', args', verdict', schema', col', at', tpc')
    <3>1. Done(tpc', col') = 1 .. k
      BY <1>1, <1>8 DEF Done
    <3>2. tpc' = "create" /\ tpc' \in Stages
      BY <1>1, <1>8 DEF Stages
    <3> QED
      BY <1>1, <1>2, <1>4, <2>3, <2>5, <3>1, <3>2, Zenon DEF Fine
  <2> QED
    BY <1>1, <2>6, TableKept, Zenon
<1> QED
  BY <1>1, <1>7, <1>8

\* The table is there.
LEMMA TableCreatedStep ==
  ASSUME TableInv, TableCreated
  PROVE  TableInv'
<1>1. /\ table \in Tables /\ Fine(page, args, verdict, schema, col, at, tpc)
      /\ tpc = "create" /\ col = Len(table.cols) /\ tpc' = "add"
      /\ UNCHANGED <<table, page, args, verdict, schema, col, at>>
  BY ZenonT(30) DEF TableInv, TableCreated
<1>2. Done(tpc', col') = Done(tpc, col) /\ tpc' \in Stages
  BY <1>1, SMTT(30) DEF Done, Stages
<1>3. Fine(page', args', verdict', schema', col', at', tpc')
  BY <1>1, <1>2, Zenon DEF Fine
<1> QED
  BY <1>1, <1>3, TableKept

\* What a caller passes are columns.
LEMMA CallsPassed ==
  ASSUME table \in Tables, NEW a \in Calls(table.cols)
  PROVE  a \in Seq(Passed)
<1> DEFINE cols == table.cols
           n == Len(cols)
           last == cols[n]
<1>1. n \in Nat /\ \A k \in 1 .. n : cols[k].name \in Seq(Nat) /\ cols[k].type \in ColumnType
  BY ColumnFields, Zenon
<1>2. cols \in Seq(Column) /\ \A k \in 1 .. n : cols[k] \in Column
  BY ColumnFields, Zenon
<1>3. \A k \in 1 .. n : cols[k] \in Passed
  <2> SUFFICES ASSUME NEW k \in 1 .. n
               PROVE  cols[k] \in Passed
    BY SMTT(30)
  <2>1. cols[k] = [name |-> cols[k].name, type |-> cols[k].type]
    BY <1>2 DEF Column
  <2> QED
    BY <1>1, <2>1, Zenon DEF Passed
<1>4. cols \in Seq(Passed)
  <2> HIDE DEF cols
  <2>1. cols = [k \in 1 .. n |-> cols[k]]
    BY <1>2
  <2> QED
    BY <1>1, <1>3, <2>1
<1>5. [name |-> <<9>>, type |-> "BOOLEAN"] \in Passed
  BY DEF Passed, ColumnType
<1>6. CASE n = 0
  <2>1. a = cols \/ a = Append(cols, [name |-> <<9>>, type |-> "BOOLEAN"])
    BY <1>6, Zenon DEF Calls
  <2> HIDE DEF cols
  <2> QED
    BY <1>4, <1>5, <2>1
<1>7. CASE n # 0
  <2> DEFINE c1 == [last EXCEPT !.name = Append(@, 9)]
             c2 == [last EXCEPT !.name = SubSeq(@, 1, Len(@) - 1)]
             c3 == [last EXCEPT !.type = IF @ = "BOOLEAN" THEN "INTEGER" ELSE "BOOLEAN"]
  <2>1. \/ a = cols \/ a = Append(cols, [name |-> <<9>>, type |-> "BOOLEAN"])
        \/ a = SubSeq(cols, 1, n - 1)
        \/ a = [cols EXCEPT ![n] = c1] \/ a = [cols EXCEPT ![n] = c2] \/ a = [cols EXCEPT ![n] = c3]
    BY <1>7, Zenon DEF Calls
  <2>2. n \in 1 .. n /\ last \in Passed
    BY <1>1, <1>3, <1>7
  <2> HIDE DEF last
  <2>3. last.name \in Seq(Nat)
    BY <2>2 DEF Passed
  <2>4. c1 \in Passed
    <3>1. Append(last.name, 9) \in Seq(Nat)
      BY <2>3
    <3> QED
      BY <2>2, <3>1, Zenon DEF Passed
  <2>5. c2 \in Passed
    <3>1. SubSeq(last.name, 1, Len(last.name) - 1) \in Seq(Nat)
      BY <2>3
    <3> QED
      BY <2>2, <3>1, Zenon DEF Passed
  <2>6. c3 \in Passed
    BY <2>2 DEF Passed, ColumnType
  <2> HIDE DEF c1, c2, c3
  <2>7. \A c \in Passed : [cols EXCEPT ![n] = c] \in Seq(Passed)
    <3> HIDE DEF cols
    <3> QED
      BY <1>4, <2>2
  <2>8. SubSeq(cols, 1, n - 1) \in Seq(Passed)
    <3> HIDE DEF cols
    <3> QED
      BY <1>1, <1>4, <2>2
  <2>9. Append(cols, [name |-> <<9>>, type |-> "BOOLEAN"]) \in Seq(Passed)
    <3> HIDE DEF cols
    <3> QED
      BY <1>4, <1>5
  <2> QED
    BY <1>4, <2>1, <2>4, <2>5, <2>6, <2>7, <2>8, <2>9, Zenon
<1> QED
  BY <1>6, <1>7, Zenon

\* add_tuple is called.
LEMMA AddTupleStep ==
  ASSUME TableInv, add_tuple
  PROVE  TableInv'
<1>1. /\ table \in Tables /\ Fine(page, args, verdict, schema, col, at, tpc)
      /\ tpc = "add" /\ args' \in Calls(table.cols) /\ col' = 0 /\ at' = 0 /\ tpc' = "check"
      /\ UNCHANGED <<table, page, verdict, schema>>
  BY Zenon DEF TableInv, add_tuple
<1>2. Done(tpc', col') = Done(tpc, col) /\ tpc' \in Stages
  BY <1>1, SMTT(30) DEF Done, Stages
<1>3. args' \in Seq(Passed)
  BY <1>1, CallsPassed, Zenon
<1>4. verdict' = "none" /\ Judged(verdict', args')
  BY <1>1, Zenon DEF Fine, Judged
<1>5. Checking(args', col', at')
  <2>1. Len(table.cols) \in Nat
    BY <1>1, ColumnFields, Zenon
  <2> QED
    BY <1>1, <2>1, SMTT(30) DEF Checking
<1>6. Fine(page', args', verdict', schema', col', at', tpc')
  BY <1>1, <1>2, <1>3, <1>4, <1>5 DEF Fine
<1> QED
  BY <1>1, <1>6, TableKept

\* A name that strncmp finds equal over the length of a name without null
\* characters starts with that name.
LEMMA StartsWith ==
  ASSUME NEW a \in Seq(Nat), \A i \in 1 .. Len(a) : a[i] # 0, NEW b \in Seq(Nat), strncmp(a, b)
  PROVE  Len(a) <= Len(b) /\ SubSeq(b, 1, Len(a)) = a
<1>1. Len(a) \in Nat /\ Len(b) \in Nat /\ DOMAIN a = 1 .. Len(a)
  OBVIOUS
<1> DEFINE z == [k \in DOMAIN a |-> IF k <= Len(b) THEN b[k] ELSE 0]
<1>2. \A d \in DOMAIN a : a[d] # z[d] => \E k \in 1 .. d - 1 : a[k] = 0 /\ z[k] = 0
  BY Zenon DEF strncmp
<1>3. ASSUME NEW d \in 1 .. Len(a)
      PROVE  d <= Len(b) /\ a[d] = b[d]
  <2> HIDE DEF z
  <2>1. a[d] = z[d]
    <3>1. \A k \in 1 .. d - 1 : k \in 1 .. Len(a)
      BY <1>1
    <3> QED
      BY <1>1, <1>2, <3>1, Zenon
  <2>2. z[d] = IF d <= Len(b) THEN b[d] ELSE 0
    BY <1>1 DEF z
  <2> QED
    BY <2>1, <2>2
<1>4. Len(a) <= Len(b)
  <2>1. CASE Len(a) = 0
    BY <1>1, <2>1
  <2>2. CASE Len(a) # 0
    <3>1. Len(a) \in 1 .. Len(a)
      BY <1>1, <2>2
    <3> QED
      BY <1>3, <3>1
  <2> QED
    BY <2>1, <2>2
<1> HIDE DEF z
<1>5. SubSeq(b, 1, Len(a)) \in Seq(Nat) /\ Len(SubSeq(b, 1, Len(a))) = Len(a)
  BY <1>1, <1>4
<1>6. \A i \in 1 .. Len(a) : SubSeq(b, 1, Len(a))[i] = a[i]
  BY <1>1, <1>3, <1>4
<1> QED
  BY <1>4, <1>5, <1>6, SameSeq, Zenon

\* A name is equal to itself.
LEMMA SameName ==
  ASSUME NEW a \in Seq(Nat)
  PROVE  strncmp(a, a)
<1>1. Len(a) \in Nat /\ DOMAIN a = 1 .. Len(a)
  OBVIOUS
<1> DEFINE z == [k \in DOMAIN a |-> IF k <= Len(a) THEN a[k] ELSE 0]
<1>2. \A d \in DOMAIN a : z[d] = a[d]
  BY <1>1
<1> QED
  BY <1>2, Zenon DEF strncmp

\* What ColumnMatches compares where a column stands.
LEMMA Matches ==
  ASSUME table \in Tables, NEW k \in 1 .. Len(table.cols), OnPage(page, k), NEW arg \in Passed
  PROVE  ColumnMatches(WrittenAt(k), arg) <=>
           strncmp(table.cols[k].name, arg.name) /\ table.cols[k].type = arg.type
<1>1. /\ BytesAt(page, WrittenAt(k) + 1, page[WrittenAt(k)]) = table.cols[k].name
      /\ page[WrittenAt(k) + 1 + page[WrittenAt(k)]] = TypeByte[table.cols[k].type]
  BY ColumnFound, Zenon
<1>2. table.cols[k].type \in ColumnType /\ arg.type \in ColumnType
  BY ColumnFields, Zenon DEF Passed
<1>3. TypeByte[table.cols[k].type] = TypeByte[arg.type] <=> table.cols[k].type = arg.type
  BY <1>2, SMTT(30) DEF TypeByte, ColumnType
<1> QED
  BY <1>1, <1>3, Zenon DEF ColumnMatches

\* add_tuple looks for a column where create_table put it.
LEMMA LooksThere ==
  ASSUME table \in Tables, Apart, Checking(args, col, at), col < Len(table.cols),
         \A k \in 1 .. Len(table.cols) : OnPage(page, k)
  PROVE  SchemaOffset = WrittenAt(col + 1) /\ SchemaOffset - START_COLUMNS_INFO = WrittenAt(col + 1) - 1
<1> DEFINE n == Len(table.cols)
<1>1. n \in Nat /\ col \in 0 .. n /\ at = IF col = 0 THEN 0 ELSE WrittenAt(col) - 1
  BY ColumnFields DEF Checking
<1>2. CASE col = 0
  <2>1. 1 \in 1 .. n /\ at = 0
    BY <1>1, <1>2
  <2>2. WrittenAt(1) = 1
    BY Zenon DEF WrittenAt, START_COLUMNS_INFO
  <2>3. page[1] = Len(table.cols[1].name)
    BY <2>1, <2>2, ColumnFound, Zenon
  <2>4. Len(table.cols[1].name) \in Nat
    BY <2>1, ColumnFields
  <2>5. SchemaOffset = 1 + 0 * (1 + page[1 + 0] + 1)
    BY <1>2, <2>1, Zenon DEF SchemaOffset, SCHEMA_COLUMN_SIZE, START_COLUMNS_INFO
  <2>6. SchemaOffset = 1
    BY <2>3, <2>4, <2>5, SMTT(30)
  <2> QED
    BY <1>2, <2>2, <2>6 DEF START_COLUMNS_INFO
<1>3. CASE col # 0
  <2>1. col \in 1 .. n /\ at = WrittenAt(col) - 1 /\ col + 1 # 1 /\ (col + 1) - 1 = col
    BY <1>1, <1>3
  <2>2. WrittenAt(col) \in Nat /\ Size(col) \in Nat
    BY <2>1, ColumnPlace, ColumnFields, Zenon
  <2>3. 1 + at = WrittenAt(col)
    BY <2>1, <2>2
  <2>4. page[WrittenAt(col)] = Len(table.cols[col].name)
    BY <2>1, ColumnFound
  <2>5. SCHEMA_COLUMN_SIZE(page[1 + at]) = Size(col)
    BY <2>3, <2>4, Zenon DEF Size
  <2>6. SchemaOffset = 1 + col * Size(col)
    BY <2>5, Zenon DEF SchemaOffset, START_COLUMNS_INFO
  <2>7. WrittenAt(col + 1) = 1 + col * Size(col)
    BY <2>1, Zenon DEF WrittenAt, START_COLUMNS_INFO
  <2> QED
    BY <2>6, <2>7 DEF START_COLUMNS_INFO
<1> QED
  BY <1>2, <1>3, Zenon

\* add_tuple compares a column.
LEMMA CheckColumnStep ==
  ASSUME TableInv, CheckColumn
  PROVE  TableInv'
<1> DEFINE n == Len(table.cols)
           k == col + 1
<1>1. /\ table \in Tables /\ Fine(page, args, verdict, schema, col, at, tpc)
      /\ tpc = "check" /\ col < page[0] /\ at' = SchemaOffset - START_COLUMNS_INFO
      /\ UNCHANGED <<table, page, args, schema>>
  BY Zenon DEF TableInv, CheckColumn
<1>2. /\ IsPage(page) /\ page[0] = n /\ args \in Seq(Passed) /\ Checking(args, col, at)
      /\ Judged(verdict, args) /\ verdict = "none" /\ schema = <<>>
      /\ Apart => \A i \in 1 .. n : OnPage(page, i)
  BY <1>1, Zenon DEF Fine, Done
<1>3. n \in Nat /\ col \in 0 .. n /\ k \in 1 .. n /\ col < n
  BY <1>1, <1>2, ColumnFields DEF Checking
<1>4. ASSUME Apart
      PROVE  /\ OnPage(page, k) /\ SchemaOffset = WrittenAt(k) /\ at' = WrittenAt(k) - 1
             /\ \A i \in 1 .. col : Agrees(args, i)
  BY <1>1, <1>2, <1>3, <1>4, LooksThere, Zenon DEF Checking
<1>5. CASE Len(args) = page[0] /\ ColumnMatches(SchemaOffset, args[k])
  <2>1. col' = k /\ verdict' = verdict /\ tpc' = tpc /\ Len(args) = n
    BY <1>2, <1>5, Zenon DEF CheckColumn
  <2>2. k \in 0 .. n /\ k # 0 /\ k > 0
    BY <1>3
  <2>3. args[k] \in Passed
    <3> HIDE DEF k
    <3> QED
      BY <1>2, <1>3, <2>1
  <2>4. ASSUME Apart
        PROVE  \A i \in 1 .. k : Agrees(args, i)
    <3>1. strncmp(table.cols[k].name, args[k].name) /\ table.cols[k].type = args[k].type
      BY <1>1, <1>3, <1>4, <1>5, <2>3, <2>4, Matches, Zenon
    <3>2. /\ table.cols[k].name \in Seq(Nat) /\ args[k].name \in Seq(Nat)
          /\ \A i \in 1 .. Len(table.cols[k].name) : table.cols[k].name[i] # 0
      <4>1. args[k].name \in Seq(Nat)
        BY <2>3 DEF Passed
      <4> QED
        BY <1>1, <1>3, <4>1, ColumnFields, Zenon
    <3>3. Agrees(args, k)
      BY <3>1, <3>2, StartsWith, Zenon DEF Agrees
    <3>4. \A i \in 1 .. k : i \in 1 .. col \/ i = k
      BY <1>3
    <3> QED
      BY <1>4, <2>4, <3>3, <3>4, Zenon
  <2>5. Checking(args', col', at')
    BY <1>1, <1>4, <2>1, <2>2, <2>4, Zenon DEF Checking
  <2>6. tpc' = "check" /\ Done(tpc', col') = 1 .. n
    BY <1>1, <2>1, Zenon DEF Done
  <2>7. Fine(page', args', verdict', schema', col', at', tpc')
    BY <1>1, <1>2, <2>1, <2>5, <2>6, Zenon DEF Fine, Stages
  <2> QED
    BY <1>1, <2>7, TableKept
<1>6. CASE ~(Len(args) = page[0] /\ ColumnMatches(SchemaOffset, args[k]))
  <2>1. verdict' = "rejected" /\ tpc' = "open"
    BY <1>6, Zenon DEF CheckColumn
  <2>2. ASSUME Apart, args = table.cols
        PROVE  FALSE
    <3>1. table.cols[k].name \in Seq(Nat)
      BY <1>1, <1>3, ColumnFields, Zenon
    <3>2. args[k] \in Passed
      <4> HIDE DEF k
      <4> QED
        BY <1>2, <1>3, <2>2
    <3>3. strncmp(table.cols[k].name, args[k].name) /\ table.cols[k].type = args[k].type
      BY <2>2, <3>1, SameName, Zenon
    <3>4. ColumnMatches(WrittenAt(k), args[k])
      BY <1>1, <1>3, <1>4, <2>2, <3>2, <3>3, Matches, Zenon
    <3> QED
      BY <1>2, <1>4, <1>6, <2>2, <3>4, Zenon
  <2>3. Judged(verdict', args')
    <3>1. Apart => args' # table.cols
      BY <1>1, <2>2, Zenon
    <3> QED
      BY <2>1, <3>1 DEF Judged
  <2>4. Done(tpc', col') = 1 .. n
    BY <2>1, Zenon DEF Done
  <2>5. Fine(page', args', verdict', schema', col', at', tpc')
    BY <1>1, <1>2, <2>1, <2>3, <2>4, Zenon DEF Fine, Stages
  <2> QED
    BY <1>1, <2>5, TableKept
<1> QED
  BY <1>5, <1>6

\* add_tuple has compared every column.
LEMMA ColumnsCheckedStep ==
  ASSUME TableInv, ColumnsChecked
  PROVE  TableInv'
<1> DEFINE n == Len(table.cols)
<1>1. /\ table \in Tables /\ Fine(page, args, verdict, schema, col, at, tpc)
      /\ tpc = "check" /\ col = page[0] /\ verdict' = "accepted" /\ tpc' = "open"
      /\ UNCHANGED <<table, page, args, schema, col, at>>
  BY Zenon DEF TableInv, ColumnsChecked
<1>2. /\ IsPage(page) /\ page[0] = n /\ args \in Seq(Passed) /\ Checking(args, col, at)
      /\ schema = <<>> /\ Apart => \A i \in 1 .. n : OnPage(page, i)
  BY <1>1, Zenon DEF Fine, Done
<1>3. n \in Nat /\ col = n /\ table.cols \in Seq(Column)
  BY <1>1, <1>2, ColumnFields
<1>4. ASSUME Apart, table.cols # <<>>
      PROVE  Len(args) = n /\ \A k \in 1 .. Len(args) : Agrees(args, k)
  <2>1. n > 0
    BY <1>3, <1>4
  <2> QED
    BY <1>2, <1>3, <1>4, <2>1, Zenon DEF Checking
<1>5. Judged(verdict', args')
  <2>1. verdict' # "rejected" /\ args' = args
    BY <1>1, SMTT(30)
  <2> QED
    BY <1>4, <2>1, Zenon DEF Judged
<1>6. Done(tpc', col') = 1 .. n
  BY <1>1, Zenon DEF Done
<1>7. Fine(page', args', verdict', schema', col', at', tpc')
  BY <1>1, <1>2, <1>5, <1>6, Zenon DEF Fine, Stages
<1> QED
  BY <1>1, <1>7, TableKept

\* schema is called.
LEMMA OpenSchemaStep ==
  ASSUME TableInv, OpenSchema
  PROVE  TableInv'
<1> DEFINE n == Len(table.cols)
<1>1. /\ table \in Tables /\ Fine(page, args, verdict, schema, col, at, tpc)
      /\ tpc = "open" /\ at' = 1 /\ col' = 0 /\ tpc' = "schema"
      /\ UNCHANGED <<table, page, args, verdict, schema>>
  BY ZenonT(30) DEF TableInv, OpenSchema, START_COLUMNS_INFO
<1>2. /\ schema = <<>> /\ Done(tpc', col') = Done(tpc, col) /\ tpc' \in Stages
  BY <1>1, SMTT(30) DEF Fine, Done, Stages
<1>3. n \in Nat
  BY <1>1, ColumnFields, Zenon
<1>4. ASSUME Plain
      PROVE  SchemaUpTo(schema', col', at')
  <2>1. ASSUME 0 < n
        PROVE  InOrderAt(0 + 1) = 1
    <3>1. 1 \in 1 .. n /\ 0 + 1 = 1
      BY <1>3, <2>1
    <3>2. WrittenAt(1) = 1
      BY SMTT(30) DEF WrittenAt, START_COLUMNS_INFO
    <3> QED
      BY <1>1, <1>4, <3>1, <3>2, InOrder
  <2>2. <<>> \in Seq(Column) /\ Len(<<>>) = 0 /\ 0 \in 0 .. n /\ 1 .. 0 = {}
    BY <1>3, SMTT(30)
  <2> QED
    BY <1>1, <1>2, <2>1, <2>2, Zenon DEF SchemaUpTo
<1>5. Fine(page', args', verdict', schema', col', at', tpc')
  BY <1>1, <1>2, <1>4, Zenon DEF Fine
<1> QED
  BY <1>1, <1>5, TableKept

\* The type that schema decodes from the byte of a type is that type.
LEMMA TypeReadBack ==
  ASSUME NEW t \in ColumnType
  PROVE  TypeOf(TypeByte[t]) = t
<1>1. \A u \in ColumnType : TypeByte[u] = TypeByte[t] => u = t
  BY DEF TypeByte, ColumnType
<1> QED
  BY <1>1, Zenon DEF TypeOf

\* What Append does
IsAppend(t, s, e) ==
  /\ Len(t) = Len(s) + 1 /\ t[Len(s) + 1] = e
  /\ \A i \in 1 .. Len(s) : t[i] = s[i]

LEMMA Appends ==
  ASSUME NEW S, NEW s \in Seq(S), NEW e \in S
  PROVE  Append(s, e) \in Seq(S) /\ IsAppend(Append(s, e), s, e)
BY DEF IsAppend

\* schema reads a column.
LEMMA ReadColumnStep ==
  ASSUME TableInv, ReadColumn
  PROVE  TableInv'
<1> DEFINE n == Len(table.cols)
           k == col + 1
           c == [name |-> BytesAt(page, at + 1, page[at]), type |-> TypeOf(page[at + 1 + page[at]])]
<1>1. /\ table \in Tables /\ Fine(page, args, verdict, schema, col, at, tpc)
      /\ tpc = "schema" /\ col < page[0] /\ schema' = Append(schema, c)
      /\ at' = (at + SCHEMA_COLUMN_SIZE(page[at])) % Base /\ col' = k /\ tpc' = tpc
      /\ UNCHANGED <<table, page, args, verdict>>
  BY Zenon DEF TableInv, ReadColumn, NextCursor
<1>2. page[0] = n /\ Done(tpc', col') = Done(tpc, col) /\ Done(tpc, col) = 1 .. n
  BY <1>1, SMTT(30) DEF Fine, Done
<1>3. ASSUME Plain
      PROVE  SchemaUpTo(schema', col', at')
  <2>1. SchemaUpTo(schema, col, at) /\ Apart
    BY <1>1, <1>3, InOrder, Zenon DEF Fine
  <2>2. n \in Nat /\ col \in 0 .. n /\ col < n /\ k \in 1 .. n /\ k \in 0 .. n
    BY <1>1, <1>2, <2>1, ColumnFields DEF SchemaUpTo
  <2>3. OnPage(page, k)
    BY <1>1, <1>2, <2>1, <2>2, Zenon DEF Fine
  <2>4. at = InOrderAt(k)
    BY <2>1, <2>2, Zenon DEF SchemaUpTo
  <2>5. at = WrittenAt(k) /\ at \in Nat
    BY <1>1, <1>3, <2>2, <2>4, InOrder, Zenon
  <2>6. /\ page[at] = Len(table.cols[k].name) /\ BytesAt(page, at + 1, page[at]) = table.cols[k].name
        /\ page[at + 1 + page[at]] = TypeByte[table.cols[k].type]
    BY <1>1, <2>2, <2>3, <2>5, ColumnFound, ZenonT(30)
  <2>7. /\ table.cols[k] \in Column /\ table.cols[k].type \in ColumnType
        /\ Size(k) = Len(table.cols[k].name) + 2 /\ Len(table.cols[k].name) \in Nat
    BY <1>1, <2>2, ColumnFields, Zenon
  <2>8. c = table.cols[k]
    <3>1. c = [name |-> table.cols[k].name, type |-> table.cols[k].type]
      BY <2>6, <2>7, TypeReadBack, Zenon
    <3> HIDE DEF c, k
    <3> QED
      BY <2>7, <3>1 DEF Column
  <2>9. /\ schema \in Seq(Column) /\ Len(schema) = col /\ \A i \in 1 .. col : schema[i] = table.cols[i]
    BY <2>1, Zenon DEF SchemaUpTo
  <2>10. /\ schema' \in Seq(Column) /\ Len(schema') = k /\ \A i \in 1 .. k : schema'[i] = table.cols[i]
    <3>1. schema' = Append(schema, table.cols[k])
      BY <1>1, <2>8, Zenon
    <3>2. /\ schema' \in Seq(Column) /\ Len(schema') = Len(schema) + 1
          /\ schema'[Len(schema) + 1] = table.cols[k]
          /\ \A i \in 1 .. Len(schema) : schema'[i] = schema[i]
      <4> HIDE DEF k
      <4>1. schema \in Seq(Column) /\ table.cols[k] \in Column
        BY <2>7, <2>9, Zenon
      <4>2. schema' \in Seq(Column) /\ IsAppend(schema', schema, table.cols[k])
        BY <3>1, <4>1, Appends, Zenon
      <4> QED
        BY <4>2, Zenon DEF IsAppend
    <3>3. \A i \in 1 .. k : i \in 1 .. col \/ i = k
      BY <2>2
    <3> QED
      BY <2>9, <3>2, <3>3, Zenon
  <2>11. ASSUME k < n
         PROVE  at' = InOrderAt(k + 1)
    <3>1. k \in 1 .. n - 1 /\ k + 1 \in 1 .. n
      BY <2>2, <2>11
    <3>2. InOrderAt(k + 1) = at + Size(k) /\ InOrderAt(k + 1) \in Nat /\ InOrderAt(k + 1) < Base
      BY <1>1, <1>3, <2>4, <3>1, InOrder, Zenon
    <3>3. SCHEMA_COLUMN_SIZE(page[at]) = Size(k)
      BY <2>6, Zenon DEF Size
    <3>4. at' = InOrderAt(k + 1) % Base
      BY <1>1, <3>2, <3>3, Zenon
    <3> QED
      BY <3>2, <3>4, BytesAssumption
  <2> QED
    BY <1>1, <2>2, <2>10, <2>11, ZenonT(30) DEF SchemaUpTo
<1>4. Fine(page', args', verdict', schema', col', at', tpc')
  BY <1>1, <1>2, <1>3, Zenon DEF Fine
<1> QED
  BY <1>1, <1>4, TableKept, SMTT(30)

\* schema has read every column.
LEMMA SchemaReadStep ==
  ASSUME TableInv, SchemaRead
  PROVE  TableInv'
<1>1. /\ table \in Tables /\ Fine(page, args, verdict, schema, col, at, tpc)
      /\ tpc = "schema" /\ col = page[0] /\ tpc' = "query"
      /\ UNCHANGED <<table, page, args, verdict, schema, col, at>>
  BY Zenon DEF TableInv, SchemaRead
<1>2. page[0] = Len(table.cols) /\ Done(tpc', col') = Done(tpc, col) /\ tpc' \in Stages
  BY <1>1, SMTT(30) DEF Fine, Done, Stages
<1>3. ASSUME Plain
      PROVE  schema = table.cols
  <2>1. SchemaUpTo(schema, col, at)
    BY <1>1, <1>3, ZenonT(30) DEF Fine
  <2>2. /\ schema \in Seq(Column) /\ Len(schema) = Len(table.cols) /\ table.cols \in Seq(Column)
        /\ \A k \in 1 .. Len(table.cols) : schema[k] = table.cols[k]
    BY <1>1, <1>2, <2>1, ColumnFields, ZenonT(30) DEF SchemaUpTo
  <2> QED
    BY <2>2, SameSeq, ZenonT(30)
<1>4. Fine(page', args', verdict', schema', col', at', tpc')
  BY <1>1, <1>2, <1>3 DEF Fine
<1> QED
  BY <1>1, <1>4, TableKept, SMTT(30)

\* An expression is evaluated.
LEMMA EvaluateStep ==
  ASSUME TableInv, NEW e, Evaluate(e)
  PROVE  TableInv'
<1>1. /\ table \in Tables /\ Fine(page, args, verdict, schema, col, at, tpc)
      /\ tpc = "query" /\ tpc' = "done"
      /\ UNCHANGED <<table, page, args, verdict, schema, col, at>>
  BY ZenonT(30) DEF TableInv, Evaluate
<1>2. Done(tpc', col') = Done(tpc, col) /\ tpc' \in Stages
  BY <1>1, Zenon DEF Done, Stages
<1>3. Fine(page', args', verdict', schema', col', at', tpc')
  BY <1>1, <1>2 DEF Fine
<1> QED
  BY <1>1, <1>3, TableKept

\* Every step preserves the invariant.
LEMMA TableStep == TableInv /\ [TableNext]_tablevars => TableInv'
<1> SUFFICES ASSUME TableInv, [TableNext]_tablevars
             PROVE  TableInv'
  OBVIOUS
<1>1. CASE UNCHANGED tablevars
  <2>1. UNCHANGED <<table, page, args, verdict, schema, col, at, tpc>>
    BY <1>1 DEF tablevars
  <2>2. table \in Tables /\ Fine(page', args', verdict', schema', col', at', tpc')
    BY <2>1, Zenon DEF TableInv
  <2> QED
    BY <2>1, <2>2, TableKept, Zenon
<1>2. CASE TableNext
  BY <1>2, WriteColumnStep, TableCreatedStep, AddTupleStep, CheckColumnStep, ColumnsCheckedStep,
     OpenSchemaStep, ReadColumnStep, SchemaReadStep, EvaluateStep, Zenon DEF TableNext
<1> QED
  BY <1>1, <1>2

\* The columns of a table are read back, its own columns are accepted, and what
\* is accepted agrees with them.
LEMMA TableCorrect == TableInv => SchemaReadBack /\ OwnColumnsAccepted /\ AcceptedMatch
<1> SUFFICES ASSUME TableInv
             PROVE  SchemaReadBack /\ OwnColumnsAccepted /\ AcceptedMatch
  BY SMTT(30)
<1>1. Fine(page, args, verdict, schema, col, at, tpc)
  BY ZenonT(30) DEF TableInv
<1>2. SchemaReadBack
  BY <1>1, Zenon DEF Fine, SchemaReadBack
<1>3. args \in Seq(Passed) /\ Judged(verdict, args)
  BY <1>1, Zenon DEF Fine
<1>4. DOMAIN args = 1 .. Len(args)
  BY <1>3
<1>5. OwnColumnsAccepted
  BY <1>3, Zenon DEF Judged, OwnColumnsAccepted
<1>6. AcceptedMatch
  BY <1>3, <1>4, Zenon DEF Judged, AcceptedMatch, Agrees
<1> QED
  BY <1>2, <1>5, <1>6

(***************************************************************************)
(* HeapfileAccess::schema returns the columns create_table was given, for  *)
(* every table whose names have one length or that has at most two         *)
(* columns, as long as its 8-bit cursor reaches the last of them.          *)
(***************************************************************************)
THEOREM ColumnsReadBack == TableSpec => []SchemaReadBack
<1>1. TableSpec => []TableInv
  BY InitTable, TableStep, PTL DEF TableSpec
<1>2. TableInv => SchemaReadBack
  BY TableCorrect
<1> QED
  BY <1>1, <1>2, PTL

(***************************************************************************)
(* add_tuple never rejects the columns of the table itself when            *)
(* create_table wrote none over another.                                   *)
(***************************************************************************)
THEOREM OwnAccepted == TableSpec => []OwnColumnsAccepted
<1>1. TableSpec => []TableInv
  BY InitTable, TableStep, PTL DEF TableSpec
<1>2. TableInv => OwnColumnsAccepted
  BY TableCorrect
<1> QED
  BY <1>1, <1>2, PTL

(***************************************************************************)
(* What add_tuple accepts for a table with columns, none of them written   *)
(* over, agrees with them in number, in type and in the start of every     *)
(* name.                                                                   *)
(***************************************************************************)
THEOREM AcceptedAgree == TableSpec => []AcceptedMatch
<1>1. TableSpec => []TableInv
  BY InitTable, TableStep, PTL DEF TableSpec
<1>2. TableInv => AcceptedMatch
  BY TableCorrect
<1> QED
  BY <1>1, <1>2, PTL

-----------------------------------------------------------------------------
(* The bytes of a row and the values read from them. *)

\* f joins the first m sequences of s.
CatTo(f, s, m) == f = [k \in 0 .. m |-> IF k = 0 THEN <<>> ELSE f[k - 1] \o s[k]]

\* Its values
LEMMA CatSteps ==
  ASSUME NEW m \in Nat, NEW s, NEW f, CatTo(f, s, m)
  PROVE  f[0] = <<>> /\ \A k \in 1 .. m : f[k] = f[k - 1] \o s[k]
<1>1. \A k \in 0 .. m : f[k] = IF k = 0 THEN <<>> ELSE f[k - 1] \o s[k]
  BY Zenon DEF CatTo
<1>2. 0 \in 0 .. m /\ \A k \in 1 .. m : k \in 0 .. m /\ k # 0
  OBVIOUS
<1> QED
  BY <1>1, <1>2, Zenon

\* Such an f exists.
LEMMA CatExists ==
  ASSUME NEW m \in Nat, NEW s
  PROVE  \E f : CatTo(f, s, m)
<1> DEFINE T == {n \in Nat : \E f : CatTo(f, s, n)}
<1>1. 0 \in T
  <2>1. CatTo([k \in 0 .. 0 |-> <<>>], s, 0)
    BY DEF CatTo
  <2> QED
    BY <2>1
<1>2. ASSUME NEW n \in 0 .. m - 1, n \in T
      PROVE  n + 1 \in T
  <2>1. PICK f : CatTo(f, s, n)
    BY <1>2
  <2> DEFINE g == [k \in 0 .. n + 1 |-> IF k <= n THEN f[k] ELSE f[n] \o s[n + 1]]
  <2>2. f[0] = <<>> /\ \A k \in 1 .. n : f[k] = f[k - 1] \o s[k]
    <3>1. n \in Nat
      OBVIOUS
    <3> QED
      BY <2>1, <3>1, CatSteps, Zenon
  <2>3. \A k \in 0 .. n + 1 : g[k] = IF k = 0 THEN <<>> ELSE g[k - 1] \o s[k]
    <3>1. g[n + 1] = f[n] \o s[n + 1] /\ \A k \in 0 .. n : g[k] = f[k]
      <4>1. /\ n + 1 \in 0 .. n + 1 /\ ~(n + 1 <= n)
            /\ \A k \in 0 .. n : k \in 0 .. n + 1 /\ k <= n
        OBVIOUS
      <4> QED
        BY <4>1, Zenon
    <3> HIDE DEF g
    <3>2. n \in 0 .. n /\ (n + 1) - 1 = n /\ n + 1 # 0
      OBVIOUS
    <3>3. \A k \in 0 .. n + 1 : k = 0 \/ k \in 1 .. n \/ k = n + 1
      OBVIOUS
    <3>4. 0 \in 0 .. n /\ \A k \in 1 .. n : k \in 0 .. n /\ k - 1 \in 0 .. n /\ k # 0
      OBVIOUS
    <3> QED
      BY <2>2, <3>1, <3>2, <3>3, <3>4, Zenon
  <2>4. CatTo(g, s, n + 1)
    <3> HIDE DEF g
    <3>1. g = [k \in 0 .. n + 1 |-> g[k]]
      BY Zenon DEF g
    <3> QED
      BY <2>3, <3>1 DEF CatTo
  <2> QED
    BY <2>4
<1> HIDE DEF T
<1>3. m \in T
  BY <1>1, <1>2, UpTo
<1> QED
  BY <1>3 DEF T

\* b has the w elements of t behind the first (q - 1) * w ones.
InPlace(b, q, w, t) ==
  /\ b \in Seq(Int) /\ q * w <= Len(b)
  /\ \A j \in 1 .. w : b[(q - 1) * w + j] = t[j]

\* Where the first q of m sequences have w elements each, those of the q-th
\* follow (q - 1) * w others.
LEMMA CatPlaces ==
  ASSUME NEW m \in Nat, NEW s, \A k \in 1 .. m : s[k] \in Seq(Int),
         NEW f, CatTo(f, s, m),
         NEW q \in 1 .. m, NEW w \in Nat, \A k \in 1 .. q : Len(s[k]) = w
  PROVE  InPlace(f[m], q, w, s[q])
<1>1. f[0] = <<>> /\ \A k \in 1 .. m : f[k] = f[k - 1] \o s[k]
  BY CatSteps, ZenonT(30)
<1>2. \A k \in 0 .. m : f[k] \in Seq(Int)
  <2> DEFINE T == {k \in 0 .. m : f[k] \in Seq(Int)}
  <2>1. 0 \in T
    <3>1. 0 \in 0 .. m /\ <<>> \in Seq(Int)
      OBVIOUS
    <3> QED
      BY <1>1, <3>1, Zenon
  <2>2. \A n \in 0 .. m - 1 : n \in T => n + 1 \in T
    <3> SUFFICES ASSUME NEW n \in 0 .. m - 1, n \in T
                 PROVE  n + 1 \in T
      OBVIOUS
    <3>1. n + 1 \in 1 .. m /\ (n + 1) - 1 = n /\ n + 1 \in 0 .. m
      OBVIOUS
    <3>2. f[n + 1] = f[n] \o s[n + 1] /\ s[n + 1] \in Seq(Int) /\ f[n] \in Seq(Int)
      BY <1>1, <3>1, Zenon
    <3>3. f[n + 1] \in Seq(Int)
      BY <3>2
    <3> QED
      BY <3>1, <3>3
  <2> HIDE DEF T
  <2>3. \A n \in 0 .. m : n \in T
    BY <2>1, <2>2, UpTo, Zenon
  <2> QED
    BY <2>3 DEF T
<1>3. \A k \in 0 .. q : Len(f[k]) = k * w
  <2> DEFINE T == {k \in 0 .. q : Len(f[k]) = k * w}
  <2>1. 0 \in T
    <3>1. 0 \in 0 .. q /\ 0 * w = 0 /\ Len(<<>>) = 0
      OBVIOUS
    <3> QED
      BY <1>1, <3>1
  <2>2. \A n \in 0 .. q - 1 : n \in T => n + 1 \in T
    <3> SUFFICES ASSUME NEW n \in 0 .. q - 1, n \in T
                 PROVE  n + 1 \in T
      OBVIOUS
    <3>1. n + 1 \in 1 .. m /\ n + 1 \in 1 .. q /\ (n + 1) - 1 = n /\ n \in 0 .. m /\ n + 1 \in 0 .. q
      BY SMTT(30)
    <3>2. f[n + 1] = f[n] \o s[n + 1] /\ s[n + 1] \in Seq(Int) /\ f[n] \in Seq(Int)
      BY <1>1, <1>2, <3>1, Zenon
    <3>3. Len(f[n + 1]) = Len(f[n]) + Len(s[n + 1])
      BY <3>2
    <3>4. Len(s[n + 1]) = w /\ Len(f[n]) = n * w
      BY <3>1
    <3>5. n * w + w = (n + 1) * w
      OBVIOUS
    <3> QED
      BY <3>1, <3>3, <3>4, <3>5, Zenon
  <2> HIDE DEF T
  <2>3. \A n \in 0 .. q : n \in T
    <3>1. q \in Nat
      OBVIOUS
    <3> QED
      BY <2>1, <2>2, <3>1, UpTo, Zenon
  <2> QED
    BY <2>3 DEF T
<1> DEFINE o == (q - 1) * w
           There(b) == o + w <= Len(b) /\ \A j \in 1 .. w : b[o + j] = s[q][j]
<1>4. /\ o \in Nat /\ q * w = o + w /\ q - 1 \in 0 .. q /\ q - 1 \in 0 .. m
      /\ q \in 0 .. m /\ q \in 1 .. q
  OBVIOUS
<1>5. There(f[q])
  <2>1. /\ f[q] = f[q - 1] \o s[q] /\ f[q - 1] \in Seq(Int) /\ s[q] \in Seq(Int)
        /\ Len(f[q - 1]) = o /\ Len(s[q]) = w
    BY <1>1, <1>2, <1>3, <1>4, Zenon
  <2> HIDE DEF o
  <2>2. Len(f[q]) = o + w /\ \A j \in 1 .. w : f[q][o + j] = s[q][j]
    <3>1. /\ Len(f[q - 1] \o s[q]) = Len(f[q - 1]) + Len(s[q])
          /\ \A j \in 1 .. Len(s[q]) : (f[q - 1] \o s[q])[Len(f[q - 1]) + j] = s[q][j]
      BY <2>1, Joined, Zenon
    <3> QED
      BY <2>1, <3>1, Zenon
  <2> QED
    BY <1>4, <2>2
<1> HIDE DEF o
<1>6. ASSUME NEW b \in Seq(Int), There(b), NEW t \in Seq(Int)
      PROVE  There(b \o t)
  <2>1. Len(b \o t) = Len(b) + Len(t) /\ \A i \in 1 .. Len(b) : (b \o t)[i] = b[i]
    OBVIOUS
  <2>2. Len(b) \in Nat /\ Len(t) \in Nat
    OBVIOUS
  <2>3. \A j \in 1 .. w : o + j \in 1 .. Len(b)
    BY <1>4, <1>6, <2>2
  <2>4. \A j \in 1 .. w : (b \o t)[o + j] = s[q][j]
    BY <1>6, <2>1, <2>3, Zenon
  <2>5. o + w <= Len(b \o t)
    BY <1>4, <1>6, <2>1, <2>2
  <2> QED
    BY <2>4, <2>5, Zenon
<1> HIDE DEF There
<1>7. \A k \in 0 .. m : q <= k => There(f[k])
  <2> DEFINE T == {k \in 0 .. m : q <= k => There(f[k])}
  <2>1. 0 \in T
    OBVIOUS
  <2>2. \A n \in 0 .. m - 1 : n \in T => n + 1 \in T
    <3> SUFFICES ASSUME NEW n \in 0 .. m - 1, n \in T
                 PROVE  n + 1 \in T
      BY Zenon
    <3>1. n + 1 \in 1 .. m /\ (n + 1) - 1 = n /\ n \in 0 .. m /\ n + 1 \in 0 .. m
      OBVIOUS
    <3>2. f[n + 1] = f[n] \o s[n + 1] /\ s[n + 1] \in Seq(Int) /\ f[n] \in Seq(Int)
      BY <1>1, <1>2, <3>1, Zenon
    <3>3. CASE q <= n
      BY <1>6, <3>1, <3>2, <3>3, Zenon
    <3>4. CASE q = n + 1
      BY <1>5, <3>1, <3>4, Zenon
    <3>5. CASE ~(q <= n + 1)
      BY <3>1, <3>5, Zenon
    <3> QED
      BY <3>3, <3>4, <3>5, SMTT(30)
  <2> HIDE DEF T
  <2>3. \A n \in 0 .. m : n \in T
    BY <2>1, <2>2, UpTo, Zenon
  <2> QED
    BY <2>3 DEF T
<1>8. m \in 0 .. m /\ q <= m
  OBVIOUS
<1>9. f[m] \in Seq(Int) /\ There(f[m])
  BY <1>2, <1>7, <1>8, ZenonT(30)
<1> QED
  BY <1>4, <1>9 DEF There, InPlace, o

\* The value of a column and its bytes
LEMMA RowValues ==
  ASSUME table \in Tables, NEW k \in 1 .. Len(table.cols)
  PROVE  LET type == table.cols[k].type
             v == table.row[k]
         IN /\ v \in Seq(Int)
            /\ ValueBytes(type, v) \in Seq(Int)
            /\ type # "STRING" => Len(ValueBytes(type, v)) = getSize[type]
            /\ type = "BOOLEAN" => v \in {<<0>>, <<1>>}
            /\ type = "INTEGER" => v = <<v[1]>> /\ v[1] \in int32
            /\ type = "DECIMAL" => Len(v) = 8
<1> DEFINE type == table.cols[k].type
           v == table.row[k]
<1>1. type \in ColumnType
  BY ColumnFields
<1>2. v \in ValueOf[type]
  BY TablesAssumption, Zenon
<1> HIDE DEF type, v
<1>3. Base \in Nat
  BY Widths
<1>4. Byte \subseteq Int
  BY <1>3, SMTT(30) DEF Byte
<1>5. CASE type = "BOOLEAN"
  <2>1. v \in {<<0>>, <<1>>}
    BY <1>2, <1>5 DEF ValueOf
  <2>2. ValueBytes(type, v) = v
    BY <1>5 DEF ValueBytes
  <2>3. v \in Seq(Int) /\ Len(v) = 1
    <3>1. CASE v = <<0>>
      BY <3>1
    <3>2. CASE v = <<1>>
      BY <3>2, SMTT(30)
    <3> QED
      BY <2>1, <3>1, <3>2
  <2>4. getSize[type] = 1
    BY <1>5 DEF getSize
  <2>5. type # "STRING" /\ type # "INTEGER" /\ type # "DECIMAL"
    BY <1>5, Zenon
  <2> QED
    BY <2>1, <2>2, <2>3, <2>4, <2>5, Zenon DEF type, v
<1>6. CASE type = "STRING"
  <2>1. v \in Seq(Byte)
    BY <1>2, <1>6 DEF ValueOf
  <2>2. v \in Seq(Int) /\ Len(v) \in Int
    <3>1. /\ Len(v) \in Nat /\ v = [i \in 1 .. Len(v) |-> v[i]]
          /\ \A i \in 1 .. Len(v) : v[i] \in Byte
      BY <2>1
    <3>2. \A i \in 1 .. Len(v) : v[i] \in Int
      BY <1>4, <3>1, Zenon
    <3> QED
      BY <3>1, <3>2
  <2>3. ValueBytes(type, v) = encode_uint16(Len(v)) \o v
    BY <1>6 DEF ValueBytes
  <2>4. encode_uint16(Len(v)) \in Seq(Int)
    BY <2>2, EncodedLength
  <2>5. ValueBytes(type, v) \in Seq(Int)
    BY <2>2, <2>3, <2>4, SMTT(30)
  <2> QED
    BY <1>6, <2>2, <2>5, Zenon DEF type, v
<1>7. CASE type = "INTEGER"
  <2>1. v \in [1 .. 1 -> int32]
    BY <1>2, <1>7, Zenon DEF ValueOf
  <2>2. int32 \subseteq Int
    BY Widths DEF int32
  <2>3. v[1] \in int32 /\ v[1] \in Int
    <3>1. 1 \in 1 .. 1
      OBVIOUS
    <3> QED
      BY <2>1, <2>2, <3>1, Zenon
  <2>4. v = <<v[1]>> /\ v \in Seq(Int)
    <3>1. v = [i \in 1 .. 1 |-> v[i]] /\ \A i \in 1 .. 1 : v[i] \in Int
      BY <2>1, <2>2, Zenon
    <3>2. v \in Seq(Int) /\ Len(v) = 1
      BY <3>1
    <3> HIDE DEF v
    <3> QED
      BY <3>2
  <2>5. ValueBytes(type, v) = encode_uint32(v[1] % (Word * Word))
    BY <1>7 DEF ValueBytes, encode_int32
  <2>6. v[1] % (Word * Word) \in Int
    BY <2>3, Widths, SMTT(30)
  <2>7. ValueBytes(type, v) \in Seq(Int) /\ Len(ValueBytes(type, v)) = 4
    BY <2>5, <2>6, EncodedLength, Zenon
  <2> QED
    BY <1>7, <2>3, <2>4, <2>7, SMTT(30) DEF getSize, type, v
<1>8. CASE type = "DECIMAL"
  <2>1. v \in [1 .. 8 -> Byte]
    BY <1>2, <1>8 DEF ValueOf
  <2>2. v \in Seq(Int) /\ Len(v) = 8
    <3>1. v = [i \in 1 .. 8 |-> v[i]] /\ \A i \in 1 .. 8 : v[i] \in Int
      BY <1>4, <2>1, Zenon
    <3> QED
      BY <3>1
  <2>3. ValueBytes(type, v) = v
    BY <1>8, SMTT(30) DEF ValueBytes
  <2> QED
    BY <1>8, <2>2, <2>3, SMTT(30) DEF getSize, type, v
<1> QED
  BY <1>1, <1>5, <1>6, <1>7, <1>8, Zenon DEF ColumnType

\* Where the bytes of a column's value are in the row
LEMMA RowPlaces ==
  ASSUME table \in Tables, NEW k \in 1 .. Len(table.cols), SameSizes(k)
  PROVE  LET type == table.cols[k].type
             w == getSize[type]
             bytes == RowBytes(table.cols)
         IN InPlace(bytes, k, w, ValueBytes(type, table.row[k]))
<1> DEFINE cols == table.cols
           n == Len(cols)
           w == getSize[cols[k].type]
           P(i) == IF i \in DOMAIN table.cols /\ cols[i].type = table.cols[i].type THEN table.row[i]
                   ELSE Zero(cols[i].type)
           s == [i \in DOMAIN cols |-> ValueBytes(cols[i].type, P(i))]
<1>1. n \in Nat /\ DOMAIN cols = 1 .. n /\ \A i \in 1 .. n : cols[i].type \in ColumnType
  BY ColumnFields, Zenon
<1>2. \A i \in 1 .. n : s[i] = ValueBytes(cols[i].type, table.row[i])
  BY <1>1
<1>3. Len(s) = n
  BY <1>1
<1>4. RowBytes(cols) = Concat(s)[n]
  BY Zenon DEF RowBytes
<1> HIDE DEF s
<1>5. Concat(s) = CHOOSE f : f = [i \in 0 .. Len(s) |-> IF i = 0 THEN <<>> ELSE f[i - 1] \o s[i]]
  BY Zenon DEF Concat
<1>6. CatTo(Concat(s), s, n)
  <2>1. \E f : CatTo(f, s, Len(s))
    BY <1>1, <1>3, CatExists, Zenon
  <2>2. CatTo(Concat(s), s, Len(s))
    BY <1>5, <2>1, Zenon DEF CatTo
  <2> QED
    BY <1>3, <2>2
<1>7. \A i \in 1 .. n : s[i] \in Seq(Int)
  BY <1>2, RowValues, Zenon
<1>8. w \in Nat
  BY <1>1 DEF getSize, ColumnType
<1>9. ASSUME NEW i \in 1 .. k
      PROVE  Len(s[i]) = w
  <2>1. i \in 1 .. n /\ (i = k \/ i \in 1 .. k - 1)
    BY <1>1
  <2>2. getSize[cols[i].type] = w
    BY <2>1, Zenon DEF SameSizes
  <2>3. cols[k].type # "STRING" /\ cols[k].type \in ColumnType /\ cols[i].type \in ColumnType
    BY <1>1, <2>1, Zenon DEF SameSizes
  <2>4. cols[i].type # "STRING"
    BY <2>2, <2>3 DEF getSize, ColumnType
  <2> QED
    BY <1>2, <2>1, <2>2, <2>4, RowValues, Zenon
<1> HIDE DEF w
<1>10. InPlace(Concat(s)[n], k, w, s[k])
  BY <1>1, <1>6, <1>7, <1>8, <1>9, CatPlaces, Zenon
<1> QED
  BY <1>2, <1>4, <1>10, ZenonT(30) DEF w

\* An integer survives its four bytes.
LEMMA IntegerReadBack ==
  ASSUME NEW v \in int32, NEW b, \A j \in 1 .. 4 : b[j] = encode_int32(v)[j]
  PROVE  decode_int32(b) = v
<1> DEFINE W == Word * Word
           h == W \div 2
<1>1. W \in Nat /\ W > 0
  BY Widths, SMTT(30)
<1>2. v \in Int /\ -h <= v /\ v <= h - 1 /\ h \in Nat
  BY <1>1 DEF int32
<1> HIDE DEF W
<1>3. 2 * h <= W /\ W <= 2 * h + 1
  BY <1>1, SMTT(30)
<1> HIDE DEF h
<1>4. v % W \in 0 .. W - 1 /\ v % W = IF v >= 0 THEN v ELSE v + W
  <2>1. CASE v >= 0
    <3>1. v \in Nat /\ v < W
      BY <1>1, <1>2, <1>3, <2>1
    <3> QED
      BY <1>1, <2>1, <3>1, Remainder, SMTT(30)
  <2>2. CASE v < 0
    <3>1. v + W \in Nat /\ v + W < W
      BY <1>1, <1>2, <1>3, <2>2
    <3>2. (v + W) % W = v + W
      BY <1>1, <3>1, Remainder, SMTT(30)
    <3>3. v % W = (v + W) % W
      BY <1>1, <1>2, Turn, Zenon
    <3> QED
      BY <1>1, <1>2, <2>2, <3>1, <3>2, <3>3, SMTT(30)
  <2> QED
    BY <1>2, <2>1, <2>2
<1>5. v % W \in uint32
  BY <1>4, Zenon DEF uint32, W
<1>6. \A j \in 1 .. 4 : b[j] = encode_uint32(v % W)[j]
  BY Zenon DEF encode_int32, W
<1>7. decode_uint32(b) = v % W
  BY <1>5, <1>6, Decoded32, Zenon
<1>8. decode_int32(b) = IF 2 * (v % W) < W THEN v % W ELSE (v % W) - W
  BY <1>7, Zenon DEF decode_int32, W
<1> QED
  BY <1>1, <1>2, <1>3, <1>4, <1>8

\* getValue returns what was added when the columns before are as wide.
LEMMA ValueReadBack ==
  ASSUME table \in Tables, NEW k \in 1 .. Len(table.cols), SameSizes(k)
  PROVE  getValue(RowBytes(table.cols), table.cols, k) = Value(table.cols[k].type, table.row[k])
<1> DEFINE type == table.cols[k].type
           v == table.row[k]
           w == getSize[type]
           o == (k - 1) * w
           bytes == RowBytes(table.cols)
           b == SubSeq(bytes, o + 1, o + w)
<1>1. type \in ColumnType /\ type # "STRING"
  BY ColumnFields DEF SameSizes
<1>2. /\ v \in Seq(Int) /\ Len(ValueBytes(type, v)) = w
      /\ type = "BOOLEAN" => v \in {<<0>>, <<1>>}
      /\ type = "INTEGER" => v = <<v[1]>> /\ v[1] \in int32
      /\ type = "DECIMAL" => Len(v) = 8
  BY <1>1, RowValues, Zenon
<1>3. /\ bytes \in Seq(Int) /\ k * w <= Len(bytes)
      /\ \A j \in 1 .. w : bytes[o + j] = ValueBytes(type, v)[j]
  BY RowPlaces, Zenon DEF InPlace
<1>4. getValue(bytes, table.cols, k) = deserialize(type, bytes, o)
  BY Zenon DEF getValue
<1>5. w \in {1, 4, 8}
  BY <1>1, SMTT(30) DEF getSize, ColumnType
<1>6. type = "BOOLEAN" => w = 1
  BY DEF getSize
<1>7. type = "INTEGER" => w = 4
  BY SMTT(30) DEF getSize
<1>8. type = "DECIMAL" => w = 8
  BY DEF getSize
<1>9. k \in Nat /\ k >= 1
  BY ColumnFields
<1>10. deserialize(type, bytes, o) =
         IF o + w > Len(bytes) THEN Value(type, Unknown)
         ELSE CASE type = "BOOLEAN" -> BooleanValue(b)
                [] type = "INTEGER" -> IntegerValue(b)
                [] type = "DECIMAL" -> DecimalValue(b)
  BY <1>1, Zenon DEF deserialize
<1> HIDE DEF type, v, w, bytes
<1>11. o \in Nat /\ o + w = k * w
  BY <1>5, <1>9, SMTT(30)
<1> HIDE DEF o
<1>12. ~(o + w > Len(bytes))
  <2>1. Len(bytes) \in Nat
    BY <1>3
  <2> QED
    BY <1>3, <1>5, <1>9, <1>11, <2>1
<1>13. b \in Seq(Int) /\ Len(b) = w /\ \A j \in 1 .. w : b[j] = bytes[o + j]
  BY <1>3, <1>5, <1>11, <1>12
<1> HIDE DEF b
<1>14. \A j \in 1 .. w : b[j] = ValueBytes(type, v)[j]
  BY <1>3, <1>13, Zenon
<1>15. CASE type = "BOOLEAN"
  <2>1. deserialize(type, bytes, o) = BooleanValue(b)
    BY <1>10, <1>12, <1>15
  <2>2. ValueBytes(type, v) = v
    BY <1>15 DEF ValueBytes
  <2>3. 1 \in 1 .. w
    BY <1>6, <1>15, SMTT(30)
  <2>4. b[1] = v[1]
    <3>1. b[1] = ValueBytes(type, v)[1]
      BY <1>14, <2>3, Zenon
    <3> QED
      BY <2>2, <3>1
  <2>5. v = IF b[1] = 0 THEN <<0>> ELSE <<1>>
    BY <1>2, <1>15, <2>4
  <2> QED
    BY <1>4, <1>15, <2>1, <2>5, Zenon DEF BooleanValue, type, v, bytes
<1>16. CASE type = "INTEGER"
  <2>1. deserialize(type, bytes, o) = IntegerValue(b)
    BY <1>10, <1>12, <1>16, Zenon
  <2>2. ValueBytes(type, v) = encode_int32(v[1])
    BY <1>16 DEF ValueBytes
  <2>3. decode_int32(b) = v[1]
    <3>1. \A j \in 1 .. 4 : b[j] = encode_int32(v[1])[j]
      BY <1>7, <1>14, <1>16, <2>2, Zenon
    <3> QED
      BY <1>2, <1>16, <3>1, IntegerReadBack, Zenon
  <2> QED
    BY <1>2, <1>4, <1>16, <2>1, <2>3, Zenon DEF IntegerValue, type, v, bytes
<1>17. CASE type = "DECIMAL"
  <2>1. deserialize(type, bytes, o) = DecimalValue(b)
    BY <1>10, <1>12, <1>17
  <2>2. ValueBytes(type, v) = v
    BY <1>17 DEF ValueBytes
  <2>3. b = v
    BY <1>2, <1>8, <1>13, <1>14, <1>17, <2>2, SameSeq, Zenon
  <2> QED
    BY <1>4, <1>17, <2>1, <2>3, Zenon DEF DecimalValue, type, v, bytes
<1> QED
  BY <1>1, <1>15, <1>16, <1>17, Zenon DEF ColumnType

\* The first column of a name is a column of that name.
LEMMA FirstOfName ==
  ASSUME table \in Tables, NEW i \in 1 .. Len(table.cols)
  PROVE  FirstNamed(table.cols, table.cols[i].name) \in 1 .. Len(table.cols)
<1> DEFINE cols == table.cols
           name == cols[i].name
           n == Len(cols)
           U == {k \in 1 .. n : cols[k].name = name}
<1>1. n \in Nat /\ DOMAIN cols = 1 .. n
  BY ColumnFields, Zenon
<1>2. U \in SUBSET Nat /\ i \in U
  BY <1>1
<1>3. PICK k \in U : \A j \in U : k <= j
  <2> HIDE DEF U
  <2> QED
    BY <1>2, LeastMember, Zenon
<1>4. k \in 1 .. n /\ cols[k].name = name /\ \A j \in 1 .. k - 1 : cols[j].name # name
  BY <1>1, <1>3
<1>5. \E j \in DOMAIN cols : cols[j].name = name
  BY <1>1, <1>4, Zenon
<1>6. \E x \in DOMAIN cols : cols[x].name = name /\ \A j \in 1 .. x - 1 : cols[j].name # name
  BY <1>1, <1>4, Zenon
<1>7. FirstNamed(cols, name) =
        CHOOSE x \in DOMAIN cols : cols[x].name = name /\ \A j \in 1 .. x - 1 : cols[j].name # name
  BY <1>5, Zenon DEF FirstNamed
<1>8. FirstNamed(cols, name) \in DOMAIN cols
  BY <1>6, <1>7, Zenon
<1> QED
  BY <1>1, <1>8, Zenon

\* An operand that can be read is the value that was added.
Operand(e) == \/ \E i \in 1 .. Len(table.cols) : e = ColumnLogicalExpr(table.cols[i].name)
              \/ e = ConstantLogicalExpr(Value("INTEGER", Zero("INTEGER")))

LEMMA LeafStored ==
  ASSUME table \in Tables, NEW e, Operand(e), Readable(e)
  PROVE  /\ Leaf(e, RowBytes(table.cols), table.cols) = Stored(e)
         /\ Stored(e) # Thrown /\ Stored(e) # Crashed
<1>1. CASE e = ConstantLogicalExpr(Value("INTEGER", Zero("INTEGER")))
  <2>1. e.kind = "constant" /\ e.value = Value("INTEGER", Zero("INTEGER"))
    BY <1>1 DEF ConstantLogicalExpr
  <2>2. Leaf(e, RowBytes(table.cols), table.cols) = Stored(e) /\ Stored(e) = e.value
    BY <2>1, ZenonT(30) DEF Leaf, Stored
  <2>3. Stored(e).type = "INTEGER"
    BY <2>1, <2>2, SMTT(30) DEF Value
  <2> QED
    BY <2>2, <2>3 DEF Thrown, Crashed
<1>2. ASSUME NEW i \in 1 .. Len(table.cols), e = ColumnLogicalExpr(table.cols[i].name)
      PROVE  /\ Leaf(e, RowBytes(table.cols), table.cols) = Stored(e)
             /\ Stored(e) # Thrown /\ Stored(e) # Crashed
  <2> DEFINE k == FirstNamed(table.cols, e.name)
  <2>1. e.kind = "column" /\ e.name = table.cols[i].name
    BY <1>2 DEF ColumnLogicalExpr
  <2>2. k \in 1 .. Len(table.cols)
    BY <2>1, FirstOfName, Zenon
  <2>3. table.cols[k].type \in ColumnType
    BY <2>2, ColumnFields, Zenon
  <2>4. k # 0 /\ table.cols[k].type # "null"
    <3> HIDE DEF k
    <3>1. Len(table.cols) \in Nat
      BY ColumnFields, Zenon
    <3> QED
      BY <2>2, <2>3, <3>1 DEF ColumnType
  <2>5. e.kind # "constant"
    BY <2>1
  <2>6. SameSizes(k)
    BY <2>5, Zenon DEF Readable
  <2>7. Leaf(e, RowBytes(table.cols), table.cols) = getValue(RowBytes(table.cols), table.cols, k)
    BY <2>4, <2>5, Zenon DEF Leaf
  <2>8. Stored(e) = Value(table.cols[k].type, table.row[k])
    BY <2>5, Zenon DEF Stored
  <2>9. Leaf(e, RowBytes(table.cols), table.cols) = Stored(e)
    BY <2>2, <2>6, <2>7, <2>8, ValueReadBack, Zenon
  <2> HIDE DEF k
  <2>10. Stored(e).type \in ColumnType
    BY <2>3, <2>8, SMTT(30) DEF Value
  <2> QED
    BY <2>9, <2>10 DEF Thrown, Crashed, ColumnType
<1> QED
  BY <1>1, <1>2, Zenon DEF Operand

\* The operands of an expression
LEMMA Operands ==
  ASSUME table \in Tables, NEW e \in Exprs(table.cols)
  PROVE  \/ e.kind = "column" /\ Operand(e)
         \/ e.kind = "binary" /\ Operand(e.children[1]) /\ Operand(e.children[2])
<1> DEFINE columns == {ColumnLogicalExpr(table.cols[k].name) : k \in DOMAIN table.cols}
           zero == ConstantLogicalExpr(Value("INTEGER", Zero("INTEGER")))
<1>1. DOMAIN table.cols = 1 .. Len(table.cols)
  BY ColumnFields, SMTT(30)
<1>2. \A c \in columns : Operand(c)
  BY <1>1, Zenon DEF Operand
<1>3. \A c \in columns : c.kind = "column"
  BY DEF ColumnLogicalExpr
<1>4. Operand(zero)
  BY Zenon DEF Operand
<1>5. \/ e \in columns
      \/ \E l \in columns, r \in columns \cup {zero}, op \in {"ADD", "DIVIDE"} :
           e = BinaryLogicalExpr(l, r, op)
  <2>1. Exprs(table.cols) =
          columns \cup {BinaryLogicalExpr(l, r, op) : l \in columns, r \in columns \cup {zero},
                                                      op \in {"ADD", "DIVIDE"}}
    BY DEF Exprs
  <2> HIDE DEF columns, zero
  <2> QED
    BY <2>1, SMTT(30)
<1> HIDE DEF columns, zero
<1>6. CASE e \in columns
  BY <1>2, <1>3, <1>6, Zenon
<1>7. ASSUME NEW l \in columns, NEW r \in columns \cup {zero}, NEW op, e = BinaryLogicalExpr(l, r, op)
      PROVE  e.kind = "binary" /\ Operand(e.children[1]) /\ Operand(e.children[2])
  <2>1. e.kind = "binary" /\ e.children[1] = l /\ e.children[2] = r
    BY <1>7 DEF BinaryLogicalExpr
  <2>2. Operand(l) /\ Operand(r)
    BY <1>2, <1>4, <1>7
  <2> QED
    BY <2>1, <2>2, Zenon
<1> QED
  BY <1>5, <1>6, <1>7, Zenon

\* evaluate works on the values that were added.
LEMMA EvaluatedStored ==
  ASSUME table \in Tables, NEW e \in Exprs(table.cols), NEW v,
         v = evaluate(e, RowBytes(table.cols), table.cols)
  PROVE  IF e.kind # "binary" THEN Readable(e) => v = Stored(e)
         ELSE (\A i \in {1, 2} : Readable(e.children[i])) =>
                v = Apply(e.op, Stored(e.children[1]), Stored(e.children[2]))
<1>1. CASE e.kind = "column" /\ Operand(e)
  <2>1. e.kind # "binary"
    BY <1>1
  <2>2. v = Leaf(e, RowBytes(table.cols), table.cols)
    BY <2>1, Zenon DEF evaluate
  <2> QED
    BY <1>1, <2>1, <2>2, LeafStored, Zenon
<1>2. CASE e.kind = "binary" /\ Operand(e.children[1]) /\ Operand(e.children[2])
  <2> DEFINE l == Leaf(e.children[1], RowBytes(table.cols), table.cols)
             r == Leaf(e.children[2], RowBytes(table.cols), table.cols)
  <2>1. v = IF l \in {Thrown, Crashed} THEN l ELSE IF r \in {Thrown, Crashed} THEN r ELSE Apply(e.op, l, r)
    BY <1>2, Zenon DEF evaluate
  <2>2. ASSUME Readable(e.children[1]), Readable(e.children[2])
        PROVE  v = Apply(e.op, Stored(e.children[1]), Stored(e.children[2]))
    <3>1. l = Stored(e.children[1]) /\ l # Thrown /\ l # Crashed
      BY <1>2, <2>2, LeafStored, Zenon
    <3>2. r = Stored(e.children[2]) /\ r # Thrown /\ r # Crashed
      BY <1>2, <2>2, LeafStored, Zenon
    <3> QED
      BY <2>1, <3>1, <3>2, Zenon
  <2>3. 1 \in {1, 2} /\ 2 \in {1, 2}
    OBVIOUS
  <2> QED
    BY <1>2, <2>2, <2>3, Zenon
<1> QED
  BY <1>1, <1>2, Operands, Zenon

\* What holds of the tuple and of the result
RowFine(a, b, s, r, p) ==
  /\ p \in {"check", "open", "schema", "query", "done"} => b = RowBytes(a)
  /\ p = "done" => /\ a = table.cols
                   /\ \E e \in Exprs(table.cols) :
                        r.expr = e /\ (r.value = evaluate(e, b, s) \/ r.value = Crashed)

RowInv == RowFine(args, tuple, schema, result, tpc)

\* What has to be shown of a step.
LEMMA RowKept ==
  ASSUME table' = table, RowFine(args', tuple', schema', result', tpc')
  PROVE  RowInv'
<1>1. RowBytes(args)' = RowBytes(args')
  BY Zenon DEF RowBytes
<1> QED
  BY <1>1, Zenon DEF RowInv, RowFine

\* Every step preserves it.
LEMMA RowStep == RowInv /\ [TableNext]_tablevars => RowInv'
<1> SUFFICES ASSUME RowInv, [TableNext]_tablevars
             PROVE  RowInv'
  OBVIOUS
<1>1. CASE UNCHANGED tablevars
  <2>1. UNCHANGED <<table, args, tuple, schema, result, tpc>>
    BY <1>1, Zenon DEF tablevars
  <2> QED
    BY <2>1, RowKept, Zenon DEF RowInv
<1>2. CASE WriteColumn \/ TableCreated
  <2>1. table' = table /\ tpc' \in {"create", "add", "overrun"}
    BY <1>2 DEF WriteColumn, TableCreated
  <2>2. RowFine(args', tuple', schema', result', tpc')
    BY <2>1 DEF RowFine
  <2> QED
    BY <2>1, <2>2, RowKept, Zenon
<1>3. CASE add_tuple
  <2>1. table' = table /\ tpc' = "check" /\ tuple' = RowBytes(args')
    BY <1>3, Zenon DEF add_tuple
  <2>2. RowFine(args', tuple', schema', result', tpc')
    BY <2>1, Zenon DEF RowFine
  <2> QED
    BY <2>1, <2>2, RowKept
<1>4. CASE CheckColumn \/ ColumnsChecked \/ OpenSchema \/ ReadColumn \/ SchemaRead
  <2>1. /\ UNCHANGED <<table, args, tuple>> /\ tpc \in {"check", "open", "schema"}
        /\ tpc' \in {"check", "open", "schema", "query"}
    BY <1>4 DEF CheckColumn, ColumnsChecked, OpenSchema, ReadColumn, SchemaRead
  <2>2. tuple = RowBytes(args)
    BY <2>1 DEF RowInv, RowFine
  <2>3. RowFine(args', tuple', schema', result', tpc')
    BY <2>1, <2>2, Zenon DEF RowFine
  <2> QED
    BY <2>1, <2>3, RowKept, Zenon
<1>5. ASSUME NEW e \in Exprs(table.cols), Evaluate(e)
      PROVE  RowInv'
  <2>1. /\ UNCHANGED <<table, args, tuple, schema>> /\ tpc = "query" /\ args = table.cols
        /\ \/ result' = [expr |-> e, value |-> evaluate(e, tuple, schema)]
           \/ result' = [expr |-> e, value |-> Crashed]
    BY <1>5, Zenon DEF Evaluate
  <2>2. tuple = RowBytes(args)
    BY <2>1, Zenon DEF RowInv, RowFine
  <2>3. result'.expr = e /\ (result'.value = evaluate(e, tuple, schema) \/ result'.value = Crashed)
    BY <2>1
  <2>4. RowFine(args', tuple', schema', result', tpc')
    BY <2>1, <2>2, <2>3, Zenon DEF RowFine
  <2> QED
    BY <2>1, <2>4, RowKept, Zenon
<1> QED
  BY <1>1, <1>2, <1>3, <1>4, <1>5, Zenon DEF TableNext

(***************************************************************************)
(* An expression on an accepted row is evaluated on the values that were   *)
(* added, for every table, row and expression of EvaluatesStored: the      *)
(* bytes add_tuple makes of a row, the columns schema reads from disk and  *)
(* the offsets of Row::getValue agree.                                     *)
(***************************************************************************)
THEOREM RowsReadBack == TableSpec => []EvaluatesStored
<1>1. TableSpec => []TableInv
  BY InitTable, TableStep, PTL DEF TableSpec
<1>2. TableInit => RowInv
  <2> SUFFICES ASSUME TableInit
               PROVE  RowInv
    OBVIOUS
  <2>1. tpc = "create"
    BY DEF TableInit
  <2> QED
    BY <2>1 DEF RowInv, RowFine
<1>3. TableSpec => []RowInv
  BY <1>2, RowStep, PTL DEF TableSpec
<1>4. TableInv /\ RowInv => EvaluatesStored
  <2> SUFFICES ASSUME TableInv, RowInv, tpc = "done", Plain, result.value # Crashed
               PROVE  LET e == result.expr
                      IN IF e.kind # "binary" THEN Readable(e) => result.value = Stored(e)
                         ELSE (\A i \in {1, 2} : Readable(e.children[i])) =>
                                result.value = Apply(e.op, Stored(e.children[1]), Stored(e.children[2]))
    BY ZenonT(30) DEF EvaluatesStored
  <2>1. table \in Tables /\ schema = table.cols
    BY Zenon DEF TableInv, Fine
  <2>2. tuple = RowBytes(args) /\ args = table.cols
    BY DEF RowInv, RowFine
  <2>3. PICK e \in Exprs(table.cols) : result.expr = e /\ result.value = evaluate(e, tuple, schema)
    BY Zenon DEF RowInv, RowFine
  <2>4. result.value = evaluate(e, RowBytes(table.cols), table.cols)
    BY <2>1, <2>2, <2>3, Zenon
  <2> QED
    BY <2>1, <2>3, <2>4, EvaluatedStored, Zenon
<1> QED
  BY <1>1, <1>3, <1>4, PTL
=============================================================================
