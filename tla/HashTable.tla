------------------------------ MODULE HashTable ------------------------------
(***************************************************************************)
(* The hash table of src/src/utils/hash.c.                                 *)
(*                                                                         *)
(* hash_insert and hash_remove hold ht->latch from their first access to   *)
(* the table to their last, so each is one step for the other writers.     *)
(* hash_find takes no latch: it tests the bucket for emptiness in one step *)
(* and visits the elements of the chain one step each, while writers run   *)
(* in between.  A reader stands on a node, so unlinking an earlier node    *)
(* moves it one position closer to the head, and unlinking the node it     *)
(* stands on leaves it on freed memory.                                    *)
(*                                                                         *)
(* dict and damaged are history variables.  dict is the map the callers    *)
(* have asked for; damaged holds the buckets in which hash_remove has      *)
(* removed the head of a chain of several elements.                        *)
(***************************************************************************)
EXTENDS HashChain

CONSTANTS NoData, Reader

ASSUME NoDataAssumption == NoData \notin Data

VARIABLES
  arr,      \* ht->arr: the chain of every bucket
  reads,    \* where each hash_find stands, and its last answer
  crashed,  \* strcmp was given a NULL key, or a freed node was followed
  dict,     \* history: the map asked for
  damaged   \* history: the buckets whose head was removed from under a tail

vars == <<arr, reads, crashed, dict, damaged>>

NoAnswer == [key |-> NoData, data |-> NoData]

Answer == [key : Key \cup {NoData}, data : Data \cup {NoData}]

\* temp, as the position of its node in the chain, while the loop runs
ReadState == [pc : {"idle", "walk", "dangling"}, key : Key \cup {NoData},
              pos : Nat, ans : Answer]

Idle(a) == [pc |-> "idle", key |-> NoData, pos |-> 0, ans |-> a]

TypeOK ==
  /\ arr \in [Bucket -> Seq(HashEl)]
  /\ reads \in [Reader -> ReadState]
  /\ crashed \in BOOLEAN
  /\ dict \in [Key -> Data \cup {NoData}]
  /\ damaged \in SUBSET Bucket

Init ==
  /\ arr = [b \in Bucket |-> <<>>]
  /\ reads = [t \in Reader |-> Idle(NoAnswer)]
  /\ crashed = FALSE
  /\ dict = [k \in Key |-> NoData]
  /\ damaged = {}

hash_insert(k, d) ==
  /\ ~crashed
  /\ \E g \in BOOLEAN : arr' = [arr EXCEPT ![hash(k)] = InsertInto(@, k, d, g)]
  /\ dict' = [dict EXCEPT ![k] = d]
  /\ UNCHANGED <<reads, crashed, damaged>>

\* A reader of the chain after the node at position p was unlinked.  The
\* head is embedded in the bucket and is overwritten, never freed.
Displaced(r, p) ==
  IF r.pos > p THEN [r EXCEPT !.pos = @ - 1]
  ELSE IF r.pos = p /\ p > 1 THEN [r EXCEPT !.pc = "dangling"]
  ELSE r

hash_remove(k) ==
  /\ ~crashed
  /\ \E g \in BOOLEAN :
       LET c == arr[hash(k)] IN
       /\ arr' = [arr EXCEPT ![hash(k)] = RemoveFrom(c, k, g)]
       /\ damaged' = IF Promotes(c, k, g) THEN damaged \cup {hash(k)} ELSE damaged
       /\ reads' = [t \in Reader |->
            IF /\ reads[t].pc = "walk" /\ hash(reads[t].key) = hash(k)
               /\ Found(c, k, g)
            THEN Displaced(reads[t], Position(c, k, g)) ELSE reads[t]]
  /\ dict' = [dict EXCEPT ![k] = NoData]
  /\ UNCHANGED crashed

\* if (!temp->key) return NULL;
FindBegin(t, k) ==
  /\ ~crashed
  /\ reads[t].pc = "idle"
  /\ reads' = [reads EXCEPT ![t] =
       IF arr[hash(k)] = <<>>
       THEN Idle([key |-> k, data |-> NoData])
       ELSE [pc |-> "walk", key |-> k, pos |-> 1, ans |-> @.ans]]
  /\ UNCHANGED <<arr, crashed, dict, damaged>>

\* mutant: only the element the walk stands on is looked at
FindStep_head(t) ==
  LET r == reads[t]
      c == arr[hash(r.key)]
      Answered(d) == reads' = [reads EXCEPT ![t] = Idle([key |-> r.key, data |-> d])]
  IN /\ ~crashed
     /\ r.pc = "walk"
     /\ c # <<>>
     /\ \E g \in BOOLEAN :
          IF Matches(c[r.pos], r.key, g)
          THEN \E d \in IF c[r.pos].live THEN {c[r.pos].data} ELSE Data : Answered(d)
          ELSE Answered(NoData)
     /\ UNCHANGED <<arr, crashed, dict, damaged>>

\* One round of the loop on a bucket that still holds an element: the answer
\* is the element whose key matches (what is read through a freed one can be
\* anything), none at the end of the chain, or the walk goes on.
FindStep(t) ==
  LET r == reads[t]
      c == arr[hash(r.key)]
      Answered(d) == reads' = [reads EXCEPT ![t] = Idle([key |-> r.key, data |-> d])]
  IN /\ ~crashed
     /\ r.pc = "walk"
     /\ c # <<>>
     /\ \E g \in BOOLEAN :
          IF Matches(c[r.pos], r.key, g)
          THEN \E d \in IF c[r.pos].live THEN {c[r.pos].data} ELSE Data : Answered(d)
          ELSE IF r.pos = Len(c) THEN Answered(NoData)
          ELSE reads' = [reads EXCEPT ![t].pos = @ + 1]
     /\ UNCHANGED <<arr, crashed, dict, damaged>>

\* The bucket was emptied after it was tested: strcmp(NULL, key).
FindCrash(t) ==
  /\ ~crashed
  /\ reads[t].pc = "walk"
  /\ arr[hash(reads[t].key)] = <<>>
  /\ crashed' = TRUE
  /\ UNCHANGED <<arr, reads, dict, damaged>>

\* The node was freed under the reader: it answers anything, or faults.
FindDangling(t) ==
  /\ ~crashed
  /\ reads[t].pc = "dangling"
  /\ \/ /\ \E d \in Data \cup {NoData} :
             reads' = [reads EXCEPT ![t] = Idle([key |-> @.key, data |-> d])]
        /\ UNCHANGED crashed
     \/ crashed' = TRUE /\ UNCHANGED reads
  /\ UNCHANGED <<arr, dict, damaged>>

hash_find(t) ==
  \/ \E k \in Key : FindBegin(t, k)
  \/ FindStep(t)
  \/ FindCrash(t)
  \/ FindDangling(t)

Next ==
  \/ \E k \in Key, d \in Data : hash_insert(k, d)
  \/ \E k \in Key : hash_remove(k)
  \/ \E t \in Reader : hash_find(t)

Spec == Init /\ [][Next]_vars
-----------------------------------------------------------------------------
\* What a reader that runs alone would find under k.
Lookup(k) ==
  LET c == arr[hash(k)]
  IN IF Found(c, k, FALSE) THEN c[Position(c, k, FALSE)].data ELSE NoData

(***************************************************************************)
(* A bucket from which hash_remove never took the head of a chain of       *)
(* several elements answers every lookup exactly as the map the callers    *)
(* asked for, whatever collides in it: overwrites, appends at the tail and *)
(* unlinking from the middle keep hash_insert and hash_remove faithful.    *)
(***************************************************************************)
UndamagedFaithful ==
  \A k \in Key : hash(k) \notin damaged => Lookup(k) = dict[k]

(***************************************************************************)
(* The damage hash_remove does stays at the head: only the element embedded*)
(* in the bucket can have been freed while reachable, and every element    *)
(* that is still live sits in the bucket its key hashes to.                *)
(***************************************************************************)
OnlyHeadsFreed ==
  \A b \in Bucket : \A i \in DOMAIN arr[b] :
    /\ ~arr[b][i].live => i = 1 /\ b \in damaged
    /\ arr[b][i].live => hash(arr[b][i].key) = b

(***************************************************************************)
(* A find that walks a chain of an undamaged bucket while writers append,  *)
(* overwrite and unlink, and that is never left on a freed node, answers   *)
(* what the map holds at the moment of its answer: an element is never     *)
(* missed because it was inserted behind the reader, nor reported after it *)
(* was removed.                                                            *)
(***************************************************************************)
FindsAgree ==
  [][\A t \in Reader :
       /\ reads'[t].ans # reads[t].ans
       /\ reads[t].pc # "dangling"
       /\ hash(reads'[t].ans.key) \notin damaged
       => reads'[t].ans.data = dict[reads'[t].ans.key]]_vars

(***************************************************************************)
(* hash.h on hash_remove: "Removes the element of KEY in the hash table    *)
(* HT".  Removing one key leaves what is stored under every other key.     *)
(***************************************************************************)
RemoveIsolated ==
  [][\A k \in Key : hash_remove(k) =>
       \A j \in Key \ {k} : Lookup(j)' = Lookup(j)]_vars

(***************************************************************************)
(* Refinement: the table implements the map of Dictionary.                 *)
(***************************************************************************)
D == INSTANCE Dictionary
       WITH dict <- [k \in Key |-> Lookup(k)],
            answer <- [t \in Reader |-> reads[t].ans]

ImplementsDictionary == D!Spec
=============================================================================
