------------------------------ MODULE HashChain ------------------------------
(***************************************************************************)
(* The collision chains of src/src/utils/hash.c as pure operators.         *)
(*                                                                         *)
(* A bucket is the sequence of its elements, the element embedded in       *)
(* ht->arr[idx] first.  An element whose key and data strings have been    *)
(* freed while it stays reachable has live = FALSE: what strcmp answers on *)
(* its key is not determined by the program, so every operator that walks  *)
(* a chain takes the answer g as an argument and callers quantify over it. *)
(***************************************************************************)
EXTENDS Naturals, Sequences

CONSTANTS
  Size,   \* number of buckets, ht->size
  Key,    \* the keys: decimal strings of naturals in every caller
  Data    \* what the elements point to

ASSUME SizeAssumption == Size \in Nat \ {0}
ASSUME KeyAssumption == Key \subseteq Nat

Bucket == 0 .. Size - 1

HashEl == [key : Key, data : Data, live : BOOLEAN]

\* mutant: the two fields of the new element exchanged
NewEl_swapped(k, d) == [key |-> d, data |-> k, live |-> TRUE]

NewEl(k, d) == [key |-> k, data |-> d, live |-> TRUE]

\* mutant: the modulus one too small, so that the last bucket is shared
hash_short(k) == k % (Size - 1)

\* atoi(key) % ht->size
hash(k) == k % Size

\* strcmp(temp->key, key) == 0; g is the outcome on a freed key
Matches(e, k, g) == IF e.live THEN e.key = k ELSE g

Found(c, k, g) == \E i \in DOMAIN c : Matches(c[i], k, g)

\* The first matching element: every walk of a chain stops there.
Position(c, k, g) ==
  CHOOSE i \in DOMAIN c : /\ Matches(c[i], k, g)
                          /\ \A j \in DOMAIN c : j < i => ~Matches(c[j], k, g)

\* mutant: the chain is not searched for the key before it grows
InsertInto_blind(c, k, d, g) == Append(c, NewEl(k, d))

\* An empty bucket gets its first element, a matching element is overwritten
\* in place, any other chain grows at its tail.
InsertInto(c, k, d, g) ==
  IF Found(c, k, g)
  THEN [c EXCEPT ![Position(c, k, g)] = NewEl(k, d)]
  ELSE Append(c, NewEl(k, d))

Unlink(c, p) == [i \in 1 .. Len(c) - 1 |-> IF i < p THEN c[i] ELSE c[i + 1]]

\* Removing the head of a longer chain copies the second element into the
\* bucket and then frees the key and data of what is now in the bucket, that
\* is of the element that was promoted.
Promote(c) == [Unlink(c, 1) EXCEPT ![1] = [c[2] EXCEPT !.live = FALSE]]

\* mutant: the element is freed but stays linked
RemoveFrom_linked(c, k, g) ==
  IF Found(c, k, g) THEN [c EXCEPT ![Position(c, k, g)].live = FALSE] ELSE c

RemoveFrom(c, k, g) ==
  IF ~Found(c, k, g) THEN c
  ELSE LET p == Position(c, k, g)
       IN IF p = 1 /\ Len(c) > 1 THEN Promote(c) ELSE Unlink(c, p)

Promotes(c, k, g) == Found(c, k, g) /\ Position(c, k, g) = 1 /\ Len(c) > 1
=============================================================================
