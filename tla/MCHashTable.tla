----------------------------- MODULE MCHashTable -----------------------------
(* Instances of HashTable for TLC. *)
EXTENDS HashTable, TLC

\* Three keys of one bucket: a chain has a head, a middle and a tail.
CollidingKeys == {0, 2, 4}

\* As many buckets as keys, the situation of frame_table and page_directory.
InjectiveKeys == {0, 1, 2}

Symmetry == Permutations(Data) \cup Permutations(Reader)
=============================================================================
