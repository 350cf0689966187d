--------------------------- MODULE HashTable_proofs ---------------------------
(***************************************************************************)
(* Theorems about HashTable, for every number of buckets, every set of     *)
(* keys and data and every set of readers.                                 *)
(***************************************************************************)
EXTENDS HashTable, WellFoundedInduction, NaturalsInduction, SequenceTheorems, TLAPS

-----------------------------------------------------------------------------
(* Facts about one chain. *)

\* A nonempty set of naturals has a least member.
LEMMA LeastMember ==
  ASSUME NEW T \in SUBSET Nat, T # {}
  PROVE  \E x \in T : \A y \in T : x <= y
<1>1. PICK x \in T : \A y \in T : ~(<<y, x>> \in OpToRel(<, Nat))
  BY WFMin, NatLessThanWellFounded, Zenon
<1>2. \A y \in T : ~(y < x)
  BY <1>1, Zenon DEF OpToRel
<1> QED
  BY <1>2

\* Every walk of a chain that finds a key stops at its first match.
LEMMA PositionFirst ==
  ASSUME NEW c \in Seq(HashEl), NEW k, NEW g, Found(c, k, g)
  PROVE  /\ Position(c, k, g) \in 1 .. Len(c)
         /\ Matches(c[Position(c, k, g)], k, g)
         /\ \A j \in 1 .. Len(c) : j < Position(c, k, g) => ~Matches(c[j], k, g)
<1> DEFINE T == {i \in 1 .. Len(c) : Matches(c[i], k, g)}
<1>1. DOMAIN c = 1 .. Len(c) /\ Len(c) \in Nat
  BY LenProperties
<1>2. T \in SUBSET Nat /\ T # {}
  BY <1>1 DEF Found
<1>3. PICK x \in T : \A y \in T : x <= y
  BY <1>2, LeastMember, Zenon
<1>4. /\ x \in DOMAIN c /\ Matches(c[x], k, g)
      /\ \A j \in DOMAIN c : j < x => ~Matches(c[j], k, g)
  BY <1>1, <1>3
<1> QED
  BY <1>1, <1>4 DEF Position

\* Unlinking one element of a chain keeps the others, in order.
LEMMA UnlinkType ==
  ASSUME NEW S, NEW c \in Seq(S), NEW p \in 1 .. Len(c)
  PROVE  /\ Unlink(c, p) \in Seq(S)
         /\ Len(Unlink(c, p)) = Len(c) - 1
         /\ \A i \in 1 .. Len(c) - 1 :
              Unlink(c, p)[i] = IF i < p THEN c[i] ELSE c[i + 1]
BY DEF Unlink

\* Inserting into a chain gives a chain.
LEMMA InsertIntoType ==
  ASSUME NEW c \in Seq(HashEl), NEW k \in Key, NEW d \in Data, NEW g
  PROVE  InsertInto(c, k, d, g) \in Seq(HashEl)
<1>1. NewEl(k, d) \in HashEl
  BY DEF NewEl, HashEl
<1>2. CASE Found(c, k, g)
  BY <1>1, <1>2, PositionFirst, ExceptSeq DEF InsertInto
<1>3. CASE ~Found(c, k, g)
  BY <1>1, <1>3, AppendProperties DEF InsertInto
<1> QED
  BY <1>2, <1>3

\* Promoting the second element gives a chain, one shorter, whose head is freed.
LEMMA PromoteType ==
  ASSUME NEW c \in Seq(HashEl), Len(c) > 1
  PROVE  /\ Promote(c) \in Seq(HashEl)
         /\ Len(Promote(c)) = Len(c) - 1
         /\ Promote(c)[1].live = FALSE
         /\ \A i \in 2 .. Len(c) - 1 : Promote(c)[i] = c[i + 1]
<1>1. Len(c) \in Nat /\ c[2] \in HashEl
  BY LenProperties, ElementOfSeq
<1>2. [c[2] EXCEPT !.live = FALSE] \in HashEl
  BY <1>1, Zenon DEF HashEl
<1>3. /\ Unlink(c, 1) \in Seq(HashEl) /\ Len(Unlink(c, 1)) = Len(c) - 1
      /\ \A i \in 1 .. Len(c) - 1 : Unlink(c, 1)[i] = c[i + 1]
  BY <1>1, UnlinkType
<1>4. [c[2] EXCEPT !.live = FALSE].live = FALSE
  BY <1>1 DEF HashEl
<1> QED
  BY <1>1, <1>2, <1>3, <1>4, ExceptSeq DEF Promote

\* Removing from a chain gives a chain.
LEMMA RemoveFromType ==
  ASSUME NEW c \in Seq(HashEl), NEW k, NEW g
  PROVE  RemoveFrom(c, k, g) \in Seq(HashEl)
BY PositionFirst, UnlinkType, PromoteType, Zenon DEF RemoveFrom

-----------------------------------------------------------------------------
(* The inductive invariant. *)

\* Chain c of bucket b holds exactly the keys of b that f maps to data, each
\* once, with that data.
Represents(b, c, f) ==
  /\ \A i \in 1 .. Len(c) : /\ c[i].live = TRUE
                            /\ hash(c[i].key) = b
                            /\ f[c[i].key] = c[i].data
  /\ \A i, j \in 1 .. Len(c) : c[i].key = c[j].key => i = j
  /\ \A k \in Key : hash(k) = b /\ f[k] # NoData
                      => \E i \in 1 .. Len(c) : c[i].key = k

\* A reader in the loop stands on a node of the chain (or on the emptied
\* bucket), and has not passed the key it looks for.
Ahead(r, c, D0) ==
  /\ r.pos \in 1 .. (IF c = <<>> THEN 1 ELSE Len(c))
  /\ hash(r.key) \notin D0 => \A j \in 1 .. r.pos - 1 : c[j].key # r.key

ReadersInv ==
  \A t \in Reader :
    /\ reads[t].pc # "idle" => reads[t].key \in Key
    /\ reads[t].pc = "walk" =>
         Ahead(reads[t], arr[hash(reads[t].key)], damaged)

\* Only the head of a chain may be freed, and only in a damaged bucket.
HeadsOnly(b, c, D0) ==
  \A i \in 1 .. Len(c) : /\ c[i].live = FALSE => i = 1 /\ b \in D0
                         /\ c[i].live = TRUE => hash(c[i].key) = b

HeadsInv == \A b \in Bucket : HeadsOnly(b, arr[b], damaged)

ChainsInv == \A b \in Bucket \ damaged : Represents(b, arr[b], dict)

IInv == TypeOK /\ HeadsInv /\ ChainsInv /\ ReadersInv

-----------------------------------------------------------------------------
(* What the chain operators preserve. *)

\* The elements of a chain have keys, data and a live flag.
LEMMA ElementType ==
  ASSUME NEW c \in Seq(HashEl)
  PROVE  /\ Len(c) \in Nat /\ DOMAIN c = 1 .. Len(c)
         /\ \A i \in 1 .. Len(c) : /\ c[i] \in HashEl
                                   /\ c[i].key \in Key
                                   /\ c[i].data \in Data
                                   /\ c[i].live \in BOOLEAN
<1>1. Len(c) \in Nat /\ DOMAIN c = 1 .. Len(c)
  BY LenProperties
<1>2. \A i \in 1 .. Len(c) : c[i] \in HashEl
  BY <1>1, ElementOfSeq
<1> QED
  BY <1>1, <1>2 DEF HashEl

\* What a new element holds.
LEMMA NewElFields ==
  \A k, d : /\ NewEl(k, d).live = TRUE
            /\ NewEl(k, d).key = k
            /\ NewEl(k, d).data = d
BY DEF NewEl

\* Every key hashes to a bucket.
LEMMA HashType == \A k \in Key : hash(k) \in Bucket
BY SizeAssumption, KeyAssumption DEF hash, Bucket

\* An insert overwrites the first match or appends.
LEMMA InsertIntoShape ==
  ASSUME NEW c \in Seq(HashEl), NEW k \in Key, NEW d \in Data, NEW g,
         NEW c2, c2 = InsertInto(c, k, d, g)
  PROVE  /\ c2 \in Seq(HashEl)
         /\ c2 # <<>>
         /\ Found(c, k, g) =>
              /\ Len(c2) = Len(c)
              /\ c2[Position(c, k, g)] = NewEl(k, d)
              /\ \A i \in 1 .. Len(c) : i # Position(c, k, g) => c2[i] = c[i]
         /\ ~Found(c, k, g) =>
              /\ Len(c2) = Len(c) + 1
              /\ c2[Len(c) + 1] = NewEl(k, d)
              /\ \A i \in 1 .. Len(c) : c2[i] = c[i]
<1>1. NewEl(k, d) \in HashEl /\ Len(c) \in Nat /\ DOMAIN c = 1 .. Len(c)
  BY LenProperties DEF NewEl, HashEl
<1>2. CASE Found(c, k, g)
  <2>1. Position(c, k, g) \in 1 .. Len(c)
    BY <1>2, PositionFirst
  <2>2. c2 = [c EXCEPT ![Position(c, k, g)] = NewEl(k, d)]
    BY <1>2 DEF InsertInto
  <2>3. c2 \in Seq(HashEl) /\ Len(c2) = Len(c)
    BY <1>1, <2>1, <2>2, ExceptSeq, SMTT(30)
  <2> QED
    BY <1>1, <1>2, <2>1, <2>2, <2>3
<1>3. CASE ~Found(c, k, g)
  <2>1. c2 = Append(c, NewEl(k, d))
    BY <1>3 DEF InsertInto
  <2>2. /\ c2 \in Seq(HashEl) /\ c2 # <<>> /\ Len(c2) = Len(c) + 1
        /\ c2[Len(c) + 1] = NewEl(k, d)
        /\ \A i \in 1 .. Len(c) : c2[i] = c[i]
    BY <1>1, <2>1, AppendProperties
  <2> QED
    BY <1>1, <1>3, <2>2, Zenon
<1> QED
  BY <1>2, <1>3

\* An insert into a chain that represents a map represents the changed map.
LEMMA InsertRepresents ==
  ASSUME NEW b, NEW c \in Seq(HashEl), NEW f \in [Key -> Data \cup {NoData}],
         NEW k \in Key, NEW d \in Data, NEW g,
         hash(k) = b, Represents(b, c, f)
  PROVE  Represents(b, InsertInto(c, k, d, g), [f EXCEPT ![k] = d])
<1> DEFINE c2 == InsertInto(c, k, d, g)
           f2 == [f EXCEPT ![k] = d]
           e == NewEl(k, d)
<1> SUFFICES Represents(b, c2, f2)
  OBVIOUS
<1>1. /\ e.live = TRUE /\ e.key = k /\ e.data = d
      /\ Len(c) \in Nat /\ DOMAIN c = 1 .. Len(c)
      /\ \A i \in 1 .. Len(c) : c[i].key \in Key
      /\ f2[k] = d /\ \A j \in Key : j # k => f2[j] = f[j]
  BY ElementType, NewElFields
<1>2. CASE Found(c, k, g)
  <2> DEFINE p == Position(c, k, g)
  <2>1. p \in 1 .. Len(c) /\ c[p].key = k
    BY <1>2, PositionFirst DEF Represents, Matches
  <2>2. /\ Len(c2) = Len(c) /\ c2[p] = e
        /\ \A i \in 1 .. Len(c) : i # p => c2[i] = c[i]
    BY <1>2, InsertIntoShape
  <2>3. \A i \in 1 .. Len(c) : c2[i].key = c[i].key
    BY <1>1, <2>1, <2>2
  <2>4. \A i \in 1 .. Len(c) : i # p => c[i].key # k
    BY <2>1 DEF Represents
  <2> HIDE DEF c2, f2, e, p
  <2> QED
    BY <1>1, <2>1, <2>2, <2>3, <2>4 DEF Represents
<1>3. CASE ~Found(c, k, g)
  <2>1. \A i \in 1 .. Len(c) : c[i].key # k
    BY <1>1, <1>3 DEF Found, Matches, Represents
  <2>2. /\ Len(c2) = Len(c) + 1 /\ c2[Len(c) + 1] = e
        /\ \A i \in 1 .. Len(c) : c2[i] = c[i]
    BY <1>3, InsertIntoShape
  <2>3. \A i \in 1 .. Len(c2) : i \in 1 .. Len(c) \/ i = Len(c) + 1
    BY <1>1, <2>2
  <2> HIDE DEF c2, f2, e
  <2>4. \A i \in 1 .. Len(c2) : /\ c2[i].live = TRUE
                                /\ hash(c2[i].key) = b
                                /\ f2[c2[i].key] = c2[i].data
    BY <1>1, <2>1, <2>2, <2>3 DEF Represents
  <2>5. \A i, j \in 1 .. Len(c2) : c2[i].key = c2[j].key => i = j
    BY <1>1, <2>1, <2>2, <2>3 DEF Represents
  <2>6. \A j \in Key : hash(j) = b /\ f2[j] # NoData
                        => \E i \in 1 .. Len(c2) : c2[i].key = j
    BY <1>1, <2>1, <2>2 DEF Represents
  <2> QED
    BY <2>4, <2>5, <2>6 DEF Represents
<1> QED
  BY <1>2, <1>3

\* A remove that finds its key takes exactly one node out of the chain.
LEMMA RemoveFromShape ==
  ASSUME NEW c \in Seq(HashEl), NEW k, NEW g, Found(c, k, g)
  PROVE  /\ Position(c, k, g) \in 1 .. Len(c)
         /\ RemoveFrom(c, k, g) \in Seq(HashEl)
         /\ Len(RemoveFrom(c, k, g)) = Len(c) - 1
<1>1. Position(c, k, g) \in 1 .. Len(c) /\ Len(c) \in Nat
  BY PositionFirst, ElementType
<1> QED
  BY <1>1, PromoteType, UnlinkType, Zenon DEF RemoveFrom

\* Removing the head of a longer chain frees the element that takes its place.
LEMMA RemovePromotes ==
  ASSUME NEW c \in Seq(HashEl), NEW k, NEW g, Promotes(c, k, g)
  PROVE  /\ Found(c, k, g) /\ Position(c, k, g) = 1 /\ Len(c) > 1
         /\ RemoveFrom(c, k, g)[1].live = FALSE
         /\ \A i \in 2 .. Len(c) - 1 : RemoveFrom(c, k, g)[i] = c[i + 1]
BY PromoteType, Zenon DEF Promotes, RemoveFrom

\* Any other remove leaves the other elements as they were.
LEMMA RemoveUnlinks ==
  ASSUME NEW c \in Seq(HashEl), NEW k, NEW g, Found(c, k, g), ~Promotes(c, k, g)
  PROVE  \A i \in 1 .. Len(c) - 1 :
           RemoveFrom(c, k, g)[i] = IF i < Position(c, k, g) THEN c[i] ELSE c[i + 1]
BY RemoveFromShape, UnlinkType, Zenon DEF Promotes, RemoveFrom

\* A remove that promotes nothing represents the map without the key.
LEMMA RemoveRepresents ==
  ASSUME NEW b, NEW c \in Seq(HashEl), NEW f \in [Key -> Data \cup {NoData}],
         NEW k \in Key, NEW g,
         hash(k) = b, Represents(b, c, f), ~Promotes(c, k, g)
  PROVE  Represents(b, RemoveFrom(c, k, g), [f EXCEPT ![k] = NoData])
<1> DEFINE c2 == RemoveFrom(c, k, g)
           f2 == [f EXCEPT ![k] = NoData]
           p == Position(c, k, g)
<1> SUFFICES Represents(b, c2, f2)
  OBVIOUS
<1>1. /\ Len(c) \in Nat /\ DOMAIN c = 1 .. Len(c)
      /\ \A i \in 1 .. Len(c) : c[i].key \in Key
      /\ f2[k] = NoData /\ \A j \in Key : j # k => f2[j] = f[j]
  BY ElementType
<1>2. CASE Found(c, k, g)
  <2>1. p \in 1 .. Len(c) /\ c[p].key = k
    BY <1>2, PositionFirst DEF Represents, Matches
  <2>2. /\ Len(c2) = Len(c) - 1
        /\ \A i \in 1 .. Len(c) - 1 : c2[i] = IF i < p THEN c[i] ELSE c[i + 1]
    BY <1>2, RemoveFromShape, RemoveUnlinks
  <2> HIDE DEF c2, f2, p
  <2>3. \A i \in 1 .. Len(c) : i # p => c[i].key # k
    BY <2>1 DEF Represents
  <2>4. \A i \in 1 .. Len(c2) : /\ c2[i].live = TRUE
                                /\ hash(c2[i].key) = b
                                /\ f2[c2[i].key] = c2[i].data
    BY <1>1, <2>1, <2>2, <2>3 DEF Represents
  <2>5. \A i, j \in 1 .. Len(c2) : c2[i].key = c2[j].key => i = j
    BY <1>1, <2>1, <2>2, <2>3, SMTT(30) DEF Represents
  <2>6. ASSUME NEW j \in Key, hash(j) = b, f2[j] # NoData
        PROVE  \E i \in 1 .. Len(c2) : c2[i].key = j
    <3>1. j # k /\ f[j] # NoData
      BY <1>1, <2>6
    <3>2. PICK i \in 1 .. Len(c) : c[i].key = j
      BY <2>6, <3>1 DEF Represents
    <3>3. i # p
      BY <2>1, <3>1, <3>2
    <3>4. CASE i < p
      BY <1>1, <2>1, <2>2, <3>2, <3>4, SMTT(30)
    <3>5. CASE i > p
      <4>1. i - 1 \in 1 .. Len(c2) /\ c2[i - 1] = c[i]
        BY <1>1, <2>1, <2>2, <3>5
      <4> QED
        BY <3>2, <4>1
    <3> QED
      BY <1>1, <2>1, <3>3, <3>4, <3>5
  <2> QED
    BY <2>4, <2>5, <2>6 DEF Represents
<1>3. CASE ~Found(c, k, g)
  <2>1. \A i \in 1 .. Len(c) : c[i].key # k
    BY <1>1, <1>3 DEF Found, Matches, Represents
  <2>2. c2 = c
    BY <1>3 DEF RemoveFrom
  <2> HIDE DEF c2, f2
  <2> QED
    BY <1>1, <2>1, <2>2 DEF Represents
<1> QED
  BY <1>2, <1>3

\* Writing another bucket's key does not concern a chain.
LEMMA OtherRepresents ==
  ASSUME NEW b, NEW c \in Seq(HashEl), NEW f \in [Key -> Data \cup {NoData}],
         NEW k \in Key, NEW v, hash(k) # b, Represents(b, c, f)
  PROVE  Represents(b, c, [f EXCEPT ![k] = v])
BY ElementType DEF Represents

\* An insert frees nothing and puts the key in its own bucket.
LEMMA InsertHeads ==
  ASSUME NEW c \in Seq(HashEl), NEW k \in Key, NEW d \in Data, NEW g,
         NEW D0, HeadsOnly(hash(k), c, D0)
  PROVE  HeadsOnly(hash(k), InsertInto(c, k, d, g), D0)
<1> DEFINE c2 == InsertInto(c, k, d, g)
<1>1. CASE Found(c, k, g)
  <2>1. \A i \in 1 .. Len(c2) : c2[i] = c[i] \/ c2[i] = NewEl(k, d)
    BY <1>1, InsertIntoShape
  <2>2. Len(c2) = Len(c)
    BY <1>1, InsertIntoShape
  <2> HIDE DEF c2
  <2>3. HeadsOnly(hash(k), c2, D0)
    BY <2>1, <2>2, NewElFields DEF HeadsOnly
  <2> QED
    BY <2>3 DEF c2
<1>2. CASE ~Found(c, k, g)
  <2>1. /\ Len(c2) = Len(c) + 1 /\ c2[Len(c) + 1] = NewEl(k, d)
        /\ \A i \in 1 .. Len(c) : c2[i] = c[i]
    BY <1>2, InsertIntoShape
  <2>2. Len(c) \in Nat
    BY ElementType
  <2> HIDE DEF c2
  <2>3. HeadsOnly(hash(k), c2, D0)
    BY <2>1, <2>2, NewElFields DEF HeadsOnly
  <2> QED
    BY <2>3 DEF c2
<1> QED
  BY <1>1, <1>2

\* A remove frees a reachable element only by promoting it to the head.
LEMMA RemoveHeads ==
  ASSUME NEW b, NEW c \in Seq(HashEl), NEW k, NEW g,
         NEW D0, HeadsOnly(b, c, D0),
         NEW D1, D0 \subseteq D1, Promotes(c, k, g) => b \in D1
  PROVE  HeadsOnly(b, RemoveFrom(c, k, g), D1)
<1> DEFINE c2 == RemoveFrom(c, k, g)
           p == Position(c, k, g)
<1>0. Len(c) \in Nat
  BY ElementType
<1>1. CASE ~Found(c, k, g)
  BY <1>1 DEF RemoveFrom, HeadsOnly
<1>2. CASE Promotes(c, k, g)
  <2>1. Found(c, k, g)
    BY <1>2 DEF Promotes
  <2>2. Len(c2) = Len(c) - 1
    BY <2>1, RemoveFromShape
  <2>3. c2[1].live = FALSE /\ \A i \in 2 .. Len(c) - 1 : c2[i] = c[i + 1]
    BY <1>2, RemovePromotes, ZenonT(30)
  <2> HIDE DEF c2
  <2>4. HeadsOnly(b, c2, D1)
    BY <1>0, <1>2, <2>2, <2>3 DEF HeadsOnly
  <2> QED
    BY <2>4 DEF c2
<1>3. CASE Found(c, k, g) /\ ~Promotes(c, k, g)
  <2>1. Len(c2) = Len(c) - 1 /\ p \in 1 .. Len(c)
    BY <1>3, RemoveFromShape
  <2>2. p = 1 => Len(c) = 1
    BY <1>0, <1>3, <2>1 DEF Promotes
  <2>3. \A i \in 1 .. Len(c) - 1 : c2[i] = IF i < p THEN c[i] ELSE c[i + 1]
    BY <1>3, RemoveUnlinks
  <2> HIDE DEF c2, p
  <2>4. HeadsOnly(b, c2, D1)
    BY <1>0, <2>1, <2>2, <2>3 DEF HeadsOnly
  <2> QED
    BY <2>4 DEF c2
<1> QED
  BY <1>1, <1>2, <1>3

\* No insert puts the key a reader looks for behind it.
LEMMA InsertAhead ==
  ASSUME NEW c \in Seq(HashEl), NEW k \in Key, NEW d \in Data, NEW g,
         NEW r \in ReadState, NEW D0, Ahead(r, c, D0),
         hash(r.key) \notin D0 => \A i \in 1 .. Len(c) : c[i].live = TRUE
  PROVE  Ahead(r, InsertInto(c, k, d, g), D0)
<1> DEFINE c2 == InsertInto(c, k, d, g)
<1>0. /\ Len(c) \in Nat /\ (c = <<>> => Len(c) = 0)
      /\ r.pos \in Nat /\ c2 # <<>>
  BY ElementType, InsertIntoShape DEF ReadState
<1>1. CASE Found(c, k, g)
  <2>1. /\ Len(c2) = Len(c) /\ Position(c, k, g) \in 1 .. Len(c)
        /\ c2[Position(c, k, g)] = NewEl(k, d)
        /\ \A i \in 1 .. Len(c) : i # Position(c, k, g) => c2[i] = c[i]
    BY <1>1, InsertIntoShape, PositionFirst
  <2>2. hash(r.key) \notin D0 => c[Position(c, k, g)].key = k
    BY <1>1, <2>1, PositionFirst DEF Matches
  <2>3. hash(r.key) \notin D0 => \A i \in 1 .. Len(c) : c2[i].key = c[i].key
    BY <2>1, <2>2, NewElFields
  <2> HIDE DEF c2
  <2>4. Ahead(r, c2, D0)
    BY <1>0, <2>1, <2>3 DEF Ahead
  <2> QED
    BY <2>4 DEF c2
<1>2. CASE ~Found(c, k, g)
  <2>1. Len(c2) = Len(c) + 1 /\ \A i \in 1 .. Len(c) : c2[i] = c[i]
    BY <1>2, InsertIntoShape
  <2> HIDE DEF c2
  <2>2. Ahead(r, c2, D0)
    BY <1>0, <2>1 DEF Ahead
  <2> QED
    BY <2>2 DEF c2
<1> QED
  BY <1>1, <1>2

\* A reader that is not left on the unlinked node keeps its place.
LEMMA RemoveAhead ==
  ASSUME NEW c \in Seq(HashEl), NEW k, NEW g, Found(c, k, g),
         NEW r \in ReadState, r.pc = "walk",
         NEW D0, Ahead(r, c, D0), Displaced(r, Position(c, k, g)).pc = "walk",
         NEW D1, D0 \subseteq D1, Promotes(c, k, g) => hash(r.key) \in D1
  PROVE  Ahead(Displaced(r, Position(c, k, g)), RemoveFrom(c, k, g), D1)
<1> DEFINE c2 == RemoveFrom(c, k, g)
           p == Position(c, k, g)
           r2 == Displaced(r, p)
<1> SUFFICES Ahead(r2, c2, D1)
  OBVIOUS
<1>1. /\ Len(c) \in Nat /\ p \in 1 .. Len(c)
      /\ c2 \in Seq(HashEl) /\ Len(c2) = Len(c) - 1
  BY ElementType, RemoveFromShape
<1>2. c # <<>> /\ (c2 = <<>> <=> Len(c2) = 0)
  BY <1>1
<1>3. r.pos \in Nat /\ r.pos \in 1 .. Len(c)
  BY <1>2 DEF Ahead, ReadState
<1>4. hash(r.key) \notin D1 => \A i \in 1 .. Len(c) - 1 : c2[i] = IF i < p THEN c[i] ELSE c[i + 1]
  BY RemoveUnlinks
<1>5. hash(r.key) \notin D1 => \A j \in 1 .. r.pos - 1 : c[j].key # r.key
  BY DEF Ahead
<1>6. r2.key = r.key /\ r2.pos = IF r.pos > p THEN r.pos - 1 ELSE r.pos
  BY <1>1, <1>3 DEF Displaced, ReadState
<1>7. r.pos = p => p = 1
  BY <1>1, <1>3 DEF Displaced, ReadState
<1> HIDE DEF c2, p, r2
<1>8. r2.pos \in 1 .. (IF c2 = <<>> THEN 1 ELSE Len(c2))
  <2>1. CASE r.pos > p
    BY <1>1, <1>2, <1>3, <1>6, <2>1
  <2>2. CASE r.pos <= p /\ Len(c) = 1
    BY <1>1, <1>2, <1>3, <1>6, <2>2
  <2>3. CASE r.pos <= p /\ Len(c) > 1
    BY <1>1, <1>2, <1>3, <1>6, <1>7, <2>3
  <2> QED
    BY <1>1, <1>3, <2>1, <2>2, <2>3
<1>9. hash(r.key) \notin D1 => \A j \in 1 .. r2.pos - 1 : c2[j].key # r2.key
  <2> SUFFICES ASSUME hash(r.key) \notin D1, NEW j \in 1 .. r2.pos - 1
               PROVE  c2[j].key # r.key
    BY <1>6
  <2>1. CASE r.pos > p
    <3>1. j \in 1 .. Len(c) - 1 /\ j \in 1 .. r.pos - 1 /\ j + 1 \in 1 .. r.pos - 1
      BY <1>1, <1>3, <1>6, <2>1
    <3> QED
      BY <1>4, <1>5, <3>1
  <2>2. CASE ~(r.pos > p)
    <3>1. j \in 1 .. Len(c) - 1 /\ j \in 1 .. r.pos - 1 /\ j < p
      BY <1>1, <1>3, <1>6, <2>2
    <3> QED
      BY <1>4, <1>5, <3>1
  <2> QED
    BY <2>1, <2>2
<1> QED
  BY <1>6, <1>8, <1>9 DEF Ahead

-----------------------------------------------------------------------------
(* The invariant is inductive. *)

\* The empty table satisfies the invariant.
LEMMA InitIInv == Init => IInv
<1> SUFFICES ASSUME Init PROVE IInv
  OBVIOUS
<1>1. \A b \in Bucket : arr[b] = <<>> /\ Len(arr[b]) = 0
  BY DEF Init
<1>2. TypeOK
  BY EmptySeq, Zenon DEF TypeOK, Init, Idle, NoAnswer, ReadState, Answer
<1>3. HeadsInv
  BY <1>1 DEF HeadsInv, HeadsOnly
<1>4. ChainsInv
  BY <1>1 DEF ChainsInv, Represents, Init
<1>5. ReadersInv
  BY DEF ReadersInv, Init, Idle
<1> QED
  BY <1>2, <1>3, <1>4, <1>5 DEF IInv

\* hash_insert preserves the invariant.
LEMMA InsertIInv ==
  ASSUME IInv, NEW k \in Key, NEW d \in Data, hash_insert(k, d)
  PROVE  IInv'
<1> DEFINE h == hash(k)
<1>0. h \in Bucket /\ arr[h] \in Seq(HashEl)
  BY HashType DEF IInv, TypeOK
<1>1. PICK g \in BOOLEAN : arr' = [arr EXCEPT ![h] = InsertInto(arr[h], k, d, g)]
  BY Zenon DEF hash_insert
<1>2. /\ arr'[h] = InsertInto(arr[h], k, d, g)
      /\ \A b \in Bucket : b # h => arr'[b] = arr[b]
  BY <1>0, <1>1 DEF IInv, TypeOK
<1>3. TypeOK'
  BY <1>0, <1>1, InsertIntoType DEF IInv, TypeOK, hash_insert
<1>4. HeadsInv'
  <2> SUFFICES ASSUME NEW b \in Bucket PROVE HeadsOnly(b, arr'[b], damaged)
    BY DEF HeadsInv, hash_insert
  <2>1. HeadsOnly(b, arr[b], damaged)
    BY DEF IInv, HeadsInv
  <2>2. CASE b = h
    BY <1>0, <1>2, <2>1, <2>2, InsertHeads
  <2>3. CASE b # h
    BY <1>2, <2>1, <2>3
  <2> QED
    BY <2>2, <2>3
<1>5. ChainsInv'
  <2> SUFFICES ASSUME NEW b \in Bucket \ damaged PROVE Represents(b, arr'[b], dict')
    BY Zenon DEF ChainsInv, hash_insert
  <2>1. /\ Represents(b, arr[b], dict) /\ arr[b] \in Seq(HashEl)
        /\ dict \in [Key -> Data \cup {NoData}]
        /\ dict' = [dict EXCEPT ![k] = d]
    BY DEF IInv, ChainsInv, TypeOK, hash_insert
  <2>2. CASE b = h
    <3>1. Represents(h, InsertInto(arr[h], k, d, g), [dict EXCEPT ![k] = d])
      BY <1>0, <2>1, <2>2, InsertRepresents, Zenon
    <3> QED
      BY <1>2, <2>1, <2>2, <3>1
  <2>3. CASE b # h
    BY <1>2, <2>1, <2>3, OtherRepresents, Zenon
  <2> QED
    BY <2>2, <2>3
<1>6. ReadersInv'
  <2> SUFFICES ASSUME NEW t \in Reader, reads[t].pc = "walk"
               PROVE  Ahead(reads[t], arr'[hash(reads[t].key)], damaged)
    BY DEF IInv, ReadersInv, hash_insert
  <2> DEFINE b == hash(reads[t].key)
  <2>1. b \in Bucket /\ reads[t] \in ReadState /\ Ahead(reads[t], arr[b], damaged)
    BY HashType DEF IInv, ReadersInv, TypeOK
  <2>2. b \notin damaged => \A i \in 1 .. Len(arr[b]) : arr[b][i].live = TRUE
    BY <2>1 DEF IInv, ChainsInv, Represents
  <2> SUFFICES Ahead(reads[t], arr'[b], damaged)
    OBVIOUS
  <2>3. CASE b = h
    BY <1>0, <1>2, <2>1, <2>2, <2>3, InsertAhead, Zenon
  <2>4. CASE b # h
    BY <1>2, <2>1, <2>4
  <2> QED
    BY <2>3, <2>4
<1> QED
  BY <1>3, <1>4, <1>5, <1>6 DEF IInv

\* A displaced reader is a reader of the same key with the same last answer.
LEMMA DisplacedFields ==
  ASSUME NEW r \in ReadState, NEW p \in Nat \ {0}
  PROVE  /\ Displaced(r, p) \in ReadState
         /\ Displaced(r, p).key = r.key
         /\ Displaced(r, p).ans = r.ans
BY DEF Displaced, ReadState

\* hash_remove preserves the invariant.
LEMMA RemoveIInv ==
  ASSUME IInv, NEW k \in Key, hash_remove(k)
  PROVE  IInv'
<1> DEFINE h == hash(k)
           c == arr[h]
<1>0. h \in Bucket /\ c \in Seq(HashEl)
  BY HashType DEF IInv, TypeOK
<1>1. PICK g \in BOOLEAN :
        /\ arr' = [arr EXCEPT ![h] = RemoveFrom(c, k, g)]
        /\ damaged' = IF Promotes(c, k, g) THEN damaged \cup {h} ELSE damaged
        /\ reads' = [t \in Reader |->
             IF /\ reads[t].pc = "walk" /\ hash(reads[t].key) = h
                /\ Found(c, k, g)
             THEN Displaced(reads[t], Position(c, k, g)) ELSE reads[t]]
  BY Zenon DEF hash_remove
<1>2. /\ arr'[h] = RemoveFrom(c, k, g)
      /\ \A b \in Bucket : b # h => arr'[b] = arr[b]
      /\ damaged \subseteq damaged'
      /\ Promotes(c, k, g) => h \in damaged'
  BY <1>0, <1>1 DEF IInv, TypeOK
<1>3. Found(c, k, g) => Position(c, k, g) \in Nat \ {0}
  BY <1>0, PositionFirst
<1>4. TypeOK'
  <2>1. arr' \in [Bucket -> Seq(HashEl)]
    BY <1>0, <1>1, RemoveFromType DEF IInv, TypeOK
  <2>2. reads' \in [Reader -> ReadState]
    BY <1>1, <1>3, DisplacedFields DEF IInv, TypeOK
  <2>3. damaged' \in SUBSET Bucket
    BY <1>0, <1>1 DEF IInv, TypeOK
  <2>4. dict' \in [Key -> Data \cup {NoData}] /\ crashed' \in BOOLEAN
    BY DEF IInv, TypeOK, hash_remove
  <2> QED
    BY <2>1, <2>2, <2>3, <2>4 DEF TypeOK
<1>5. HeadsInv'
  <2> SUFFICES ASSUME NEW b \in Bucket PROVE HeadsOnly(b, arr'[b], damaged')
    BY DEF HeadsInv
  <2>1. HeadsOnly(b, arr[b], damaged)
    BY DEF IInv, HeadsInv
  <2>2. CASE b = h
    <3>1. HeadsOnly(h, RemoveFrom(c, k, g), damaged')
      BY <1>0, <1>2, <2>1, <2>2, RemoveHeads
    <3> QED
      BY <1>2, <2>2, <3>1
  <2>3. CASE b # h
    BY <1>2, <2>1, <2>3 DEF HeadsOnly
  <2> QED
    BY <2>2, <2>3
<1>6. ChainsInv'
  <2> SUFFICES ASSUME NEW b \in Bucket, b \notin damaged'
               PROVE  Represents(b, arr'[b], dict')
    BY DEF ChainsInv
  <2>1. /\ Represents(b, arr[b], dict) /\ arr[b] \in Seq(HashEl)
        /\ dict \in [Key -> Data \cup {NoData}]
        /\ dict' = [dict EXCEPT ![k] = NoData]
    BY <1>2 DEF IInv, ChainsInv, TypeOK, hash_remove
  <2>2. CASE b = h
    <3>1. ~Promotes(c, k, g)
      BY <1>2, <2>2
    <3>2. Represents(h, RemoveFrom(c, k, g), [dict EXCEPT ![k] = NoData])
      BY <1>0, <2>1, <2>2, <3>1, RemoveRepresents, Zenon
    <3> QED
      BY <1>2, <2>1, <2>2, <3>2
  <2>3. CASE b # h
    BY <1>2, <2>1, <2>3, OtherRepresents, Zenon
  <2> QED
    BY <2>2, <2>3
<1>7. ReadersInv'
  <2> SUFFICES ASSUME NEW t \in Reader
               PROVE  /\ reads'[t].pc # "idle" => reads'[t].key \in Key
                      /\ reads'[t].pc = "walk" =>
                           Ahead(reads'[t], arr'[hash(reads'[t].key)], damaged')
    BY DEF ReadersInv
  <2>1. /\ reads[t] \in ReadState
        /\ reads[t].pc # "idle" => reads[t].key \in Key
        /\ reads[t].pc = "walk" => Ahead(reads[t], arr[hash(reads[t].key)], damaged)
    BY DEF IInv, TypeOK, ReadersInv
  <2>2. CASE reads[t].pc = "walk" /\ hash(reads[t].key) = h /\ Found(c, k, g)
    <3>1. reads'[t] = Displaced(reads[t], Position(c, k, g))
      BY <1>1, <2>2
    <3>2. reads'[t].key = reads[t].key
      BY <1>3, <2>1, <2>2, <3>1, DisplacedFields, SMTT(30)
    <3>3. ASSUME reads'[t].pc = "walk"
          PROVE  Ahead(Displaced(reads[t], Position(c, k, g)), RemoveFrom(c, k, g), damaged')
      BY <1>0, <1>2, <2>1, <2>2, <3>1, <3>3, RemoveAhead
    <3> QED
      BY <1>2, <2>1, <2>2, <3>1, <3>2, <3>3
  <2>3. CASE reads[t].pc = "walk" /\ hash(reads[t].key) = h /\ ~Found(c, k, g)
    <3>1. reads'[t] = reads[t] /\ arr'[h] = arr[h]
      BY <1>1, <1>2, <2>3, SMTT(30) DEF RemoveFrom
    <3> QED
      BY <1>2, <2>1, <2>3, <3>1 DEF Ahead
  <2>4. CASE ~(reads[t].pc = "walk" /\ hash(reads[t].key) = h)
    <3>1. reads'[t] = reads[t]
      BY <1>1, <2>4
    <3>2. reads[t].pc = "walk" => hash(reads[t].key) \in Bucket
      BY <2>1, HashType
    <3> QED
      BY <1>2, <2>1, <2>4, <3>1, <3>2 DEF Ahead
  <2> QED
    BY <2>2, <2>3, <2>4
<1> QED
  BY <1>4, <1>5, <1>6, <1>7 DEF IInv

\* The steps of hash_find leave the table alone and move one reader.
LEMMA FindIInv ==
  ASSUME IInv, NEW t \in Reader, hash_find(t)
  PROVE  IInv'
<1>1. UNCHANGED <<arr, dict, damaged>>
  BY Zenon DEF hash_find, FindBegin, FindStep, FindCrash, FindDangling
<1>2. \A r \in ReadState : r.ans \in Answer
  BY DEF ReadState
<1>3. \A k \in Key, d \in Data \cup {NoData} :
        Idle([key |-> k, data |-> d]) \in ReadState
  BY DEF Idle, ReadState, Answer
<1>4. \A a : Idle(a).pc = "idle"
  BY DEF Idle
<1>5. HeadsInv' /\ ChainsInv'
  BY <1>1 DEF IInv, HeadsInv, ChainsInv
<1>6. SUFFICES /\ reads' \in [Reader -> ReadState]
               /\ crashed' \in BOOLEAN
               /\ reads'[t].pc # "idle" => reads'[t].key \in Key
               /\ reads'[t].pc = "walk" =>
                    Ahead(reads'[t], arr[hash(reads'[t].key)], damaged)
               /\ \A u \in Reader \ {t} : reads'[u] = reads[u]
  <2>1. TypeOK'
    BY <1>1, <1>6 DEF IInv, TypeOK
  <2>2. ReadersInv'
    BY <1>1, <1>6 DEF IInv, ReadersInv
  <2> QED
    BY <1>5, <2>1, <2>2 DEF IInv
<1>7. /\ reads \in [Reader -> ReadState] /\ crashed \in BOOLEAN
      /\ reads[t] \in ReadState
      /\ reads[t].pc # "idle" => reads[t].key \in Key
      /\ reads[t].pc = "walk" => Ahead(reads[t], arr[hash(reads[t].key)], damaged)
  BY DEF IInv, TypeOK, ReadersInv
<1>8. ASSUME NEW k \in Key, FindBegin(t, k)
      PROVE  <1>6!1
  <2>1. CASE arr[hash(k)] = <<>>
    <3>1. reads' = [reads EXCEPT ![t] = Idle([key |-> k, data |-> NoData])]
      BY <1>8, <2>1 DEF FindBegin
    <3> QED
      BY <1>3, <1>4, <1>7, <1>8, <3>1 DEF FindBegin
  <2>2. CASE arr[hash(k)] # <<>>
    <3> DEFINE r == [pc |-> "walk", key |-> k, pos |-> 1, ans |-> reads[t].ans]
    <3>1. reads' = [reads EXCEPT ![t] = r]
      BY <1>8, <2>2 DEF FindBegin
    <3>2. r \in ReadState /\ r.key = k /\ r.pos = 1
      BY <1>2, <1>7 DEF ReadState
    <3>3. Len(arr[hash(k)]) \in Nat \ {0}
      BY <2>2, HashType DEF IInv, TypeOK
    <3>4. Ahead(r, arr[hash(k)], damaged)
      BY <2>2, <3>2, <3>3, SMTT(30) DEF Ahead
    <3> HIDE DEF r
    <3> QED
      BY <1>7, <1>8, <3>1, <3>2, <3>4 DEF FindBegin
  <2> QED
    BY <2>1, <2>2
<1>9. CASE FindStep(t)
  <2> DEFINE r == reads[t]
             c == arr[hash(r.key)]
  <2>1. PICK g \in BOOLEAN :
          IF Matches(c[r.pos], r.key, g)
          THEN \E d \in IF c[r.pos].live THEN {c[r.pos].data} ELSE Data :
                 reads' = [reads EXCEPT ![t] = Idle([key |-> r.key, data |-> d])]
          ELSE IF r.pos = Len(c)
          THEN reads' = [reads EXCEPT ![t] = Idle([key |-> r.key, data |-> NoData])]
          ELSE reads' = [reads EXCEPT ![t].pos = @ + 1]
    BY <1>9, Zenon DEF FindStep
  <2>2. /\ r.pc = "walk" /\ c # <<>> /\ crashed' = crashed /\ r.key \in Key
        /\ c \in Seq(HashEl) /\ Len(c) \in Nat /\ r.pos \in 1 .. Len(c)
    BY <1>7, <1>9, HashType, ElementType DEF FindStep, Ahead, IInv, TypeOK
  <2>3. ASSUME NEW d \in Data \cup {NoData},
               reads' = [reads EXCEPT ![t] = Idle([key |-> r.key, data |-> d])]
        PROVE  <1>6!1
    BY <1>3, <1>4, <1>7, <2>2, <2>3
  <2>4. CASE Matches(c[r.pos], r.key, g)
    BY <2>1, <2>2, <2>3, <2>4, ElementType, Zenon
  <2>5. CASE ~Matches(c[r.pos], r.key, g) /\ r.pos = Len(c)
    BY <2>1, <2>3, <2>5
  <2>6. CASE ~Matches(c[r.pos], r.key, g) /\ r.pos # Len(c)
    <3> DEFINE r2 == [r EXCEPT !.pos = @ + 1]
    <3>1. reads' = [reads EXCEPT ![t] = r2]
      BY <2>1, <2>6
    <3>2. r2 \in ReadState /\ r2.key = r.key /\ r2.pos = r.pos + 1 /\ r2.pc = "walk"
      BY <1>7, <2>2 DEF ReadState
    <3>3. hash(r.key) \notin damaged => c[r.pos].key # r.key
      BY <2>2, <2>6, HashType DEF IInv, ChainsInv, Represents, Matches
    <3>4. hash(r.key) \notin damaged => \A j \in 1 .. r.pos : c[j].key # r.key
      BY <1>7, <2>2, <3>3 DEF Ahead
    <3>5. Ahead(r2, c, damaged)
      BY <2>2, <2>6, <3>2, <3>4 DEF Ahead
    <3> HIDE DEF r2
    <3> QED
      BY <1>7, <2>2, <3>1, <3>2, <3>5
  <2> QED
    BY <2>4, <2>5, <2>6, SMTT(30)
<1>10. CASE FindCrash(t)
  BY <1>7, <1>10 DEF FindCrash
<1>11. CASE FindDangling(t)
  <2>1. CASE UNCHANGED reads
    BY <1>7, <1>11, <2>1, Zenon DEF FindDangling
  <2>2. CASE \E d \in Data \cup {NoData} :
               reads' = [reads EXCEPT ![t] = Idle([key |-> @.key, data |-> d])]
    BY <1>3, <1>4, <1>7, <1>11, <2>2 DEF FindDangling
  <2> QED
    BY <1>11, <2>1, <2>2 DEF FindDangling
<1> QED
  BY <1>8, <1>9, <1>10, <1>11, SMTT(30) DEF hash_find

\* Every step preserves the invariant.
LEMMA NextIInv == IInv /\ [Next]_vars => IInv'
<1> SUFFICES ASSUME IInv, [Next]_vars PROVE IInv'
  OBVIOUS
<1>1. CASE Next
  BY <1>1, InsertIInv, RemoveIInv, FindIInv DEF Next
<1>2. CASE UNCHANGED vars
  BY <1>2 DEF vars, IInv, TypeOK, HeadsInv, ChainsInv, ReadersInv
<1> QED
  BY <1>1, <1>2

-----------------------------------------------------------------------------
(* The theorems. *)

\* The invariant holds in every reachable state.
LEMMA Invariance == Spec => []IInv
BY InitIInv, NextIInv, PTL DEF Spec

\* hash_insert, hash_remove and hash_find keep every variable in its type.
THEOREM TypeCorrect == Spec => []TypeOK
<1>1. IInv => TypeOK
  BY DEF IInv
<1> QED
  BY <1>1, Invariance, PTL

\* Only the element embedded in a bucket is ever reachable after hash_remove
\* freed it, and live elements stay in the bucket of their key.
THEOREM HeadsFreed == Spec => []OnlyHeadsFreed
<1>1. IInv => OnlyHeadsFreed
  <2> SUFFICES ASSUME IInv, NEW b \in Bucket, NEW i \in DOMAIN arr[b]
               PROVE  /\ ~arr[b][i].live => i = 1 /\ b \in damaged
                      /\ arr[b][i].live => hash(arr[b][i].key) = b
    BY DEF OnlyHeadsFreed
  <2>1. i \in 1 .. Len(arr[b]) /\ arr[b][i].live \in BOOLEAN
    BY ElementType DEF IInv, TypeOK
  <2> QED
    BY <2>1 DEF IInv, HeadsInv, HeadsOnly
<1> QED
  BY <1>1, Invariance, PTL

\* In an undamaged bucket a lookup returns what the map holds.
LEMMA LookupFaithful ==
  ASSUME IInv, NEW k \in Key, hash(k) \notin damaged
  PROVE  Lookup(k) = dict[k]
<1> DEFINE c == arr[hash(k)]
           p == Position(c, k, FALSE)
<1>1. hash(k) \in Bucket /\ c \in Seq(HashEl) /\ DOMAIN c = 1 .. Len(c)
  BY HashType, ElementType DEF IInv, TypeOK
<1>2. Represents(hash(k), c, dict)
  BY <1>1 DEF IInv, ChainsInv
<1>3. CASE Found(c, k, FALSE)
  <2>1. p \in 1 .. Len(c) /\ Matches(c[p], k, FALSE)
    BY <1>1, <1>3, PositionFirst, Zenon
  <2>2. c[p].key = k /\ dict[k] = c[p].data
    BY <1>2, <2>1, Zenon DEF Represents, Matches
  <2> QED
    BY <1>3, <2>2 DEF Lookup
<1>4. CASE ~Found(c, k, FALSE)
  <2>1. \A i \in 1 .. Len(c) : c[i].key # k
    BY <1>1, <1>2, <1>4 DEF Found, Matches, Represents
  <2>2. dict[k] = NoData
    BY <1>2, <2>1 DEF Represents
  <2> QED
    BY <1>4, <2>2 DEF Lookup
<1> QED
  BY <1>3, <1>4, Zenon

\* As long as hash_remove has not taken the head of a longer chain in a
\* bucket, the bucket answers exactly as the map that was asked for.
THEOREM Faithful == Spec => []UndamagedFaithful
<1>1. IInv => UndamagedFaithful
  BY LookupFaithful DEF UndamagedFaithful
<1> QED
  BY <1>1, Invariance, PTL

\* A step of hash_find that is not on freed memory either leaves the answer
\* alone or answers, for the key it was called with, what the map holds.
LEMMA FindAnswers ==
  ASSUME IInv, NEW t \in Reader, hash_find(t), reads[t].pc # "dangling",
         reads'[t].ans # reads[t].ans
  PROVE  \E k \in Key :
           \E d \in Data \cup {NoData} :
             /\ reads' = [reads EXCEPT ![t] = Idle([key |-> k, data |-> d])]
             /\ hash(k) \notin damaged => d = dict[k]
<1>0. reads \in [Reader -> ReadState] /\ \A u \in Reader : reads[u] \in ReadState
  BY DEF IInv, TypeOK
<1>1. ASSUME NEW k \in Key, FindBegin(t, k)
      PROVE  \E d \in Data \cup {NoData} :
               /\ reads' = [reads EXCEPT ![t] = Idle([key |-> k, data |-> d])]
               /\ hash(k) \notin damaged => d = dict[k]
  <2>1. CASE arr[hash(k)] = <<>>
    <3>1. reads' = [reads EXCEPT ![t] = Idle([key |-> k, data |-> NoData])]
      BY <1>1, <2>1 DEF FindBegin
    <3>2. Len(arr[hash(k)]) = 0
      BY <2>1
    <3>3. hash(k) \notin damaged => dict[k] = NoData
      BY <3>2, HashType DEF IInv, ChainsInv, Represents
    <3> QED
      BY <3>1, <3>3, Zenon
  <2>2. CASE arr[hash(k)] # <<>>
    <3>1. reads'[t] = [pc |-> "walk", key |-> k, pos |-> 1, ans |-> reads[t].ans]
      BY <1>0, <1>1, <2>2 DEF FindBegin
    <3> QED
      BY <3>1
  <2> QED
    BY <2>1, <2>2, Zenon
<1>2. CASE FindStep(t)
  <2> DEFINE r == reads[t]
             c == arr[hash(r.key)]
  <2>1. PICK g \in BOOLEAN :
          IF Matches(c[r.pos], r.key, g)
          THEN \E d \in IF c[r.pos].live THEN {c[r.pos].data} ELSE Data :
                 reads' = [reads EXCEPT ![t] = Idle([key |-> r.key, data |-> d])]
          ELSE IF r.pos = Len(c)
          THEN reads' = [reads EXCEPT ![t] = Idle([key |-> r.key, data |-> NoData])]
          ELSE reads' = [reads EXCEPT ![t].pos = @ + 1]
    BY <1>2 DEF FindStep
  <2>2. /\ r.key \in Key /\ c \in Seq(HashEl) /\ c # <<>> /\ Len(c) \in Nat
        /\ r.pos \in 1 .. Len(c) /\ hash(r.key) \in Bucket
    BY <1>2, HashType, ElementType DEF FindStep, Ahead, ReadersInv, IInv, TypeOK
  <2>3. hash(r.key) \notin damaged => Represents(hash(r.key), c, dict)
    BY <2>2 DEF IInv, ChainsInv
  <2>4. CASE Matches(c[r.pos], r.key, g)
    <3>1. PICK d \in IF c[r.pos].live THEN {c[r.pos].data} ELSE Data :
            reads' = [reads EXCEPT ![t] = Idle([key |-> r.key, data |-> d])]
      BY <2>1, <2>4
    <3>2. d \in Data
      BY <2>2, ElementType
    <3>3. ASSUME hash(r.key) \notin damaged
          PROVE  d = dict[r.key]
      <4>1. c[r.pos].live = TRUE /\ dict[c[r.pos].key] = c[r.pos].data
        BY <2>2, <2>3, <3>3, Zenon DEF Represents
      <4> HIDE DEF c, r
      <4>2. d = c[r.pos].data
        BY <4>1
      <4>3. c[r.pos].key = r.key
        BY <2>4, <4>1 DEF Matches
      <4> QED
        BY <4>1, <4>2, <4>3, SMTT(30)
    <3> QED
      BY <2>2, <3>1, <3>2, <3>3, Zenon
  <2>5. CASE ~Matches(c[r.pos], r.key, g) /\ r.pos = Len(c)
    <3>1. reads' = [reads EXCEPT ![t] = Idle([key |-> r.key, data |-> NoData])]
      BY <2>1, <2>5
    <3>2. hash(r.key) \notin damaged => \A j \in 1 .. Len(c) : c[j].key # r.key
      <4>1. hash(r.key) \notin damaged => c[r.pos].key # r.key
        BY <2>2, <2>3, <2>5, SMTT(30) DEF Represents, Matches
      <4>2. hash(r.key) \notin damaged => \A j \in 1 .. r.pos - 1 : c[j].key # r.key
        BY <1>2, SMTT(30) DEF IInv, ReadersInv, Ahead, FindStep
      <4> QED
        BY <2>2, <2>5, <4>1, <4>2
    <3>3. hash(r.key) \notin damaged => dict[r.key] = NoData
      BY <2>2, <2>3, <3>2 DEF Represents
    <3> QED
      BY <2>2, <3>1, <3>3, Zenon
  <2>6. CASE ~Matches(c[r.pos], r.key, g) /\ r.pos # Len(c)
    <3>1. reads'[t] = [r EXCEPT !.pos = @ + 1]
      BY <1>0, <2>1, <2>6, SMTT(30)
    <3> QED
      BY <1>0, <3>1 DEF ReadState
  <2> QED
    BY <2>4, <2>5, <2>6, Zenon
<1>3. ~FindCrash(t) /\ ~FindDangling(t)
  BY DEF FindCrash, FindDangling
<1> QED
  BY <1>1, <1>2, <1>3, Zenon DEF hash_find

\* hash_insert and hash_remove leave the answers of readers alone.
LEMMA WritersKeepAnswers ==
  ASSUME IInv, NEW k \in Key, hash_remove(k) \/ \E d \in Data : hash_insert(k, d),
         NEW t \in Reader
  PROVE  reads'[t].ans = reads[t].ans
<1>1. CASE \E d \in Data : hash_insert(k, d)
  BY <1>1 DEF hash_insert
<1>2. CASE hash_remove(k)
  <2>1. reads[t] \in ReadState /\ arr[hash(k)] \in Seq(HashEl)
    BY HashType, SMTT(30) DEF IInv, TypeOK
  <2>2. PICK g \in BOOLEAN :
          reads' = [u \in Reader |->
             IF /\ reads[u].pc = "walk" /\ hash(reads[u].key) = hash(k)
                /\ Found(arr[hash(k)], k, g)
             THEN Displaced(reads[u], Position(arr[hash(k)], k, g)) ELSE reads[u]]
    BY <1>2, SMTT(30) DEF hash_remove
  <2>3. Found(arr[hash(k)], k, g) => Position(arr[hash(k)], k, g) \in Nat \ {0}
    BY <2>1, PositionFirst
  <2> QED
    BY <2>1, <2>2, <2>3, DisplacedFields
<1> QED
  BY <1>1, <1>2

\* A find that walks an undamaged bucket without the latch, and is not left on
\* a freed node, answers what the map holds at the moment of its answer.
THEOREM FindsFaithful == Spec => FindsAgree
<1> DEFINE Agree == \A t \in Reader :
             /\ reads'[t].ans # reads[t].ans
             /\ reads[t].pc # "dangling"
             /\ hash(reads'[t].ans.key) \notin damaged
             => reads'[t].ans.data = dict[reads'[t].ans.key]
<1>1. ASSUME IInv, Next PROVE Agree
  <2> SUFFICES ASSUME NEW t \in Reader, reads'[t].ans # reads[t].ans,
                      reads[t].pc # "dangling",
                      hash(reads'[t].ans.key) \notin damaged
               PROVE  reads'[t].ans.data = dict[reads'[t].ans.key]
    OBVIOUS
  <2>1. PICK u \in Reader : hash_find(u)
    BY <1>1, WritersKeepAnswers, SMTT(30) DEF Next
  <2>2. u = t
    <3>1. reads \in [Reader -> ReadState]
      BY <1>1 DEF IInv, TypeOK
    <3> QED
      BY <2>1, <3>1, Zenon DEF hash_find, FindBegin, FindStep, FindCrash, FindDangling
  <2>3. PICK k \in Key, d \in Data \cup {NoData} :
          /\ reads' = [reads EXCEPT ![t] = Idle([key |-> k, data |-> d])]
          /\ hash(k) \notin damaged => d = dict[k]
    BY <1>1, <2>1, <2>2, FindAnswers, Zenon
  <2>4. reads'[t].ans = [key |-> k, data |-> d]
    BY <1>1, <2>3 DEF Idle, IInv, TypeOK
  <2> QED
    BY <2>3, <2>4
<1>2. IInv /\ [Next]_vars => [Agree]_vars
  BY <1>1
<1> QED
  BY <1>2, Invariance, PTL DEF Spec, FindsAgree

-----------------------------------------------------------------------------
(* Tables in which no two keys collide, as in the frame table of a clock   *)
(* replacer and the page directory of a heap file.                         *)

Injective == \A j, k \in Key : hash(j) = hash(k) => j = k

CInv == IInv /\ damaged = {} /\ \A t \in Reader : reads[t].pc # "dangling"

\* Without collisions a chain has at most one element.
LEMMA ShortChains ==
  ASSUME Injective, CInv, NEW b \in Bucket
  PROVE  Len(arr[b]) <= 1
<1>1. Represents(b, arr[b], dict) /\ arr[b] \in Seq(HashEl)
  BY DEF CInv, IInv, ChainsInv, TypeOK
<1>2. Len(arr[b]) \in Nat /\ \A i \in 1 .. Len(arr[b]) : arr[b][i].key \in Key
  BY <1>1, ElementType
<1>3. \A i, j \in 1 .. Len(arr[b]) : i = j
  BY <1>1, <1>2 DEF Represents, Injective
<1>4. ASSUME Len(arr[b]) > 1 PROVE FALSE
  <2>1. 1 \in 1 .. Len(arr[b]) /\ 2 \in 1 .. Len(arr[b])
    BY <1>2, <1>4
  <2> QED
    BY <1>3, <2>1
<1> QED
  BY <1>2, <1>4

\* Without collisions nothing is ever promoted and no reader is left on a freed node.
LEMMA NextCInv ==
  ASSUME Injective, CInv, [Next]_vars
  PROVE  CInv'
<1>1. IInv'
  BY NextIInv DEF CInv
<1>2. CASE UNCHANGED vars
  BY <1>1, <1>2 DEF CInv, vars
<1>3. ASSUME NEW k \in Key, NEW d \in Data, hash_insert(k, d) PROVE CInv'
  BY <1>1, <1>3 DEF CInv, hash_insert
<1>4. ASSUME NEW k \in Key, hash_remove(k) PROVE CInv'
  <2> DEFINE c == arr[hash(k)]
  <2>1. c \in Seq(HashEl) /\ Len(c) \in Nat /\ Len(c) <= 1
    BY HashType, ShortChains, ElementType DEF CInv, IInv, TypeOK
  <2>2. \A g : ~Promotes(c, k, g) /\ (Found(c, k, g) => Position(c, k, g) = 1)
    BY <2>1, PositionFirst, SMTT(30) DEF Promotes
  <2>3. damaged' = damaged
    BY <1>4, <2>2 DEF hash_remove
  <2>4. \A r \in ReadState : Displaced(r, 1).pc = r.pc
    BY DEF Displaced, ReadState
  <2>5. \A t \in Reader : reads'[t].pc = reads[t].pc
    BY <1>4, <2>2, <2>4 DEF hash_remove, CInv, IInv, TypeOK
  <2> QED
    BY <1>1, <2>3, <2>5 DEF CInv
<1>5. ASSUME NEW t \in Reader, hash_find(t) PROVE CInv'
  <2>1. damaged' = damaged
    BY <1>5, Zenon DEF hash_find, FindBegin, FindStep, FindCrash, FindDangling
  <2>2. \A u \in Reader : reads'[u].pc # "dangling"
    <3>1. reads \in [Reader -> ReadState] /\ reads[t].pc # "dangling"
      BY DEF CInv, IInv, TypeOK
    <3>2. ASSUME NEW k \in Key, FindBegin(t, k) PROVE reads'[t].pc # "dangling"
      BY <3>1, <3>2 DEF FindBegin, Idle
    <3>3. ASSUME FindStep(t) PROVE reads'[t].pc # "dangling"
      <4>1. [reads[t] EXCEPT !.pos = @ + 1].pc # "dangling"
        BY <3>1 DEF ReadState
      <4>2. \A a : Idle(a).pc # "dangling"
        BY DEF Idle
      <4> QED
        BY <3>1, <3>3, <4>1, <4>2, Zenon DEF FindStep
    <3>4. ASSUME FindCrash(t) PROVE reads'[t].pc # "dangling"
      BY <3>1, <3>4 DEF FindCrash
    <3>5. ~FindDangling(t)
      BY <3>1 DEF FindDangling
    <3>6. \A u \in Reader \ {t} : reads'[u] = reads[u]
      BY <1>5, <3>1, Zenon DEF hash_find, FindBegin, FindStep, FindCrash, FindDangling
    <3>7. reads'[t].pc # "dangling"
      BY <1>5, <3>2, <3>3, <3>4, <3>5 DEF hash_find
    <3> QED
      BY <3>6, <3>7 DEF CInv
  <2> QED
    BY <1>1, <2>1, <2>2, SMTT(30) DEF CInv
<1> QED
  BY <1>2, <1>3, <1>4, <1>5 DEF Next

\* The map the table represents is the history variable.
LEMMA DictBar == CInv => [k \in Key |-> Lookup(k)] = dict
<1> SUFFICES ASSUME CInv PROVE [k \in Key |-> Lookup(k)] = dict
  OBVIOUS
<1>1. dict \in [Key -> Data \cup {NoData}]
  BY DEF CInv, IInv, TypeOK
<1>2. \A k \in Key : Lookup(k) = dict[k]
  BY LookupFaithful DEF CInv
<1> QED
  BY <1>1, <1>2

\* Every step of the table is a step of the map, or leaves it alone.
LEMMA StepSimulation ==
  ASSUME Injective, CInv, [Next]_vars
  PROVE  [D!Next]_D!vars
<1> DEFINE bar == [k \in Key |-> Lookup(k)]
           ans == [t \in Reader |-> reads[t].ans]
<1>1. bar = dict /\ bar' = dict'
  <2>1. CInv'
    BY NextCInv
  <2>2. (CInv => bar = dict)'
    BY DictBar, PTL
  <2> QED
    BY <2>1, <2>2, DictBar
<1>2. reads \in [Reader -> ReadState] /\ dict \in [Key -> Data \cup {NoData}]
  BY DEF CInv, IInv, TypeOK
<1>3. CASE UNCHANGED vars
  BY <1>1, <1>3 DEF vars, D!vars
<1>4. ASSUME NEW k \in Key, NEW d \in Data, hash_insert(k, d) PROVE D!Next
  <2>1. ans' = ans
    BY <1>4 DEF hash_insert
  <2>2. D!Insert(k, d)
    BY <1>1, <1>4, <2>1 DEF D!Insert, hash_insert
  <2> QED
    BY <2>2 DEF D!Next
<1>5. ASSUME NEW k \in Key, hash_remove(k) PROVE D!Next
  <2>1. ans' = ans
    BY <1>5, WritersKeepAnswers, SMTT(30) DEF CInv
  <2>2. D!Remove(k)
    BY <1>1, <1>5, <2>1 DEF D!Remove, hash_remove
  <2> QED
    BY <2>2 DEF D!Next
<1>6. ASSUME NEW t \in Reader, hash_find(t) PROVE [D!Next]_D!vars
  <2>1. dict' = dict /\ \A u \in Reader \ {t} : reads'[u] = reads[u]
    BY <1>2, <1>6, Zenon DEF hash_find, FindBegin, FindStep, FindCrash, FindDangling
  <2>2. CASE reads'[t].ans = reads[t].ans
    <3>1. ans' = ans
      BY <2>1, <2>2
    <3> QED
      BY <1>1, <2>1, <3>1 DEF D!vars
  <2>3. CASE reads'[t].ans # reads[t].ans
    <3>1. PICK k \in Key, d \in Data \cup {NoData} :
            /\ reads' = [reads EXCEPT ![t] = Idle([key |-> k, data |-> d])]
            /\ hash(k) \notin damaged => d = dict[k]
      BY <1>6, <2>3, FindAnswers DEF CInv
    <3>2. reads'[t].ans = [key |-> k, data |-> dict[k]]
      BY <1>2, <3>1 DEF Idle, CInv
    <3>3. ans' = [ans EXCEPT ![t] = [key |-> k, data |-> dict[k]]]
      BY <2>1, <3>2, Zenon
    <3>4. D!Lookup(t, k)
      BY <1>1, <2>1, <3>3, Zenon DEF D!Lookup
    <3> QED
      BY <3>4 DEF D!Next
  <2> QED
    BY <2>2, <2>3, SMTT(30)
<1> QED
  BY <1>3, <1>4, <1>5, <1>6 DEF Next

\* A table whose keys never collide implements the map of hash.h, for finds
\* that run unlatched beside inserts and removes.
THEOREM CollisionFreeRefinement ==
  ASSUME Injective
  PROVE  Spec => ImplementsDictionary
<1>1. Init => CInv
  BY InitIInv DEF CInv, Init, Idle
<1>2. CInv /\ [Next]_vars => CInv'
  BY NextCInv, SMTT(30)
<1>3. Init => D!Init
  <2> SUFFICES ASSUME Init PROVE D!Init
    OBVIOUS
  <2>1. [k \in Key |-> Lookup(k)] = dict
    BY <1>1, DictBar
  <2>2. [t \in Reader |-> reads[t].ans] = [t \in Reader |-> NoAnswer]
    BY DEF Init, Idle
  <2> QED
    BY <2>1, <2>2 DEF D!Init, Init, NoAnswer, D!NoAnswer
<1>4. CInv /\ [Next]_vars => [D!Next]_D!vars
  BY StepSimulation
<1> QED
  BY <1>1, <1>2, <1>3, <1>4, PTL DEF Spec, ImplementsDictionary, D!Spec
=============================================================================
