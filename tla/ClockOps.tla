------------------------------- MODULE ClockOps -------------------------------
(***************************************************************************)
(* The clock replacer of src/src/disk/clock_replacer.c and the circular    *)
(* list of src/src/utils/circular_list.c under it, as operators on a       *)
(* replacer record:                                                        *)
(*                                                                         *)
(*   list    the frames of the list's nodes, the head first                *)
(*   hand    the node replacer->hand points to                             *)
(*   bit     the reference bit frame_table holds for a frame               *)
(*   key     the node whose value string is the key of that entry: the     *)
(*           list and the table share the string                           *)
(*   victim  what evict returned last                                      *)
(*   st      "ok" until a NULL pointer is followed ("crashed") or freed    *)
(*           memory is read ("undefined")                                  *)
(*                                                                         *)
(* A node is named by its position, so inserting at the head moves every   *)
(* reference and unlinking a node turns references to it into Freed.       *)
(* Reading freed memory has no defined outcome: the record stops there, so *)
(* whatever is stated of an "ok" record assumes no particular outcome.     *)
(* Frames are below the table's size, so frame_table has no collisions,    *)
(* and removing the only element of a bucket frees neither key nor data.   *)
(***************************************************************************)
EXTENDS Naturals, Sequences

CONSTANT Capacity

ASSUME CapacityAssumption == Capacity \in Nat \ {0}

Frame == 0 .. Capacity - 1
NoFrame == Capacity                 \* UINT32_MAX
NULL == 0
Freed == Capacity + 1
NodeRef == 0 .. Capacity + 1
Bit == {"none", "set", "clear"}
Status == {"ok", "crashed", "undefined"}

Replacer == [list : Seq(Frame), hand : NodeRef, bit : [Frame -> Bit],
             key : [Frame -> NodeRef], victim : Frame \cup {NoFrame}, st : Status]

clock_replacer_init ==
  [list |-> <<>>, hand |-> NULL, bit |-> [f \in Frame |-> "none"],
   key |-> [f \in Frame |-> NULL], victim |-> NoFrame, st |-> "ok"]

\* The member of a singleton.  TLC evaluates a member once, and an argument at
\* every use when it decides ENABLED.
The(S) == CHOOSE x \in S : TRUE

Crashed(r) == [r EXCEPT !.st = "crashed"]
Undefined(r) == [r EXCEPT !.st = "undefined"]

\* Every node reference of the record, changed by F
Moved(r, F(_)) == [r EXCEPT !.hand = F(@), !.key = [f \in Frame |-> F(@[f])]]

\* The node is put before the head; a full list refuses it.
circular_list_insert(r, f) ==
  LET Pushed(n) == IF n \in 1 .. Capacity THEN n + 1 ELSE n
  IN [Moved(r, Pushed) EXCEPT !.list = <<f>> \o @]

UnlinkNode(r, p) ==
  LET Cut(n) == IF n = p THEN Freed ELSE IF n \in p + 1 .. Capacity THEN n - 1 ELSE n
  IN [Moved(r, Cut) EXCEPT
        !.list = [i \in 1 .. Len(r.list) - 1 |-> r.list[IF i < p THEN i ELSE i + 1]]]

\* The node after n, the head again after the last one
circular_list_next(r, n) == IF n = Len(r.list) THEN 1 ELSE n + 1

\* The loop that should advance to the node tests the head, which is known not
\* to match, so it never runs: the second node goes, whatever its value, and
\* with no second node curr->next follows NULL.
circular_list_remove(r, f) ==
  IF r.list = <<>> THEN r
  ELSE IF Head(r.list) = f THEN UnlinkNode(r, 1)
  ELSE IF Len(r.list) = 1 THEN Crashed(r)
  ELSE UnlinkNode(r, 2)

\* hash_find, hash_insert and hash_remove compare the key that is there.
KeyFreed(r, f) == r.bit[f] # "none" /\ r.key[f] = Freed

\* hash_insert on frame_table, with the string of node n as key
TableSet(r, f, b, n) ==
  IF KeyFreed(r, f) THEN Undefined(r)
  ELSE [r EXCEPT !.bit[f] = b, !.key[f] = n]

\* hash_remove on frame_table
TableRemove(r, f) ==
  IF KeyFreed(r, f) THEN Undefined(r)
  ELSE [r EXCEPT !.bit[f] = "none", !.key[f] = NULL]

\* mutant: the list is not tested for being full
clock_replacer_unpin_unbounded(r, f) == TableSet(circular_list_insert(r, f), f, "set", 1)

clock_replacer_unpin(r, f) ==
  IF Len(r.list) = Capacity THEN r
  ELSE TableSet(circular_list_insert(r, f), f, "set", 1)

\* mutant: the reference bit stays in the table
clock_replacer_pin_keeps_bit(r, f) == circular_list_remove(r, f)

clock_replacer_pin(r, f) ==
  LET q == TableRemove(r, f)
  IN IF q.st # "ok" THEN q ELSE circular_list_remove(q, f)

\* The node at the hand loses its frame to the caller.
TakeVictim(r, f) ==
  LET q == circular_list_remove(TableRemove(r, f), f)
  IN [q EXCEPT !.victim = f]

\* mutant: the reference bit is not looked at
SweepStep_eager(r) ==
  LET f == r.list[r.hand]
  IN IF r.st # "ok" \/ r.victim # NoFrame THEN r
     ELSE IF r.hand = Freed THEN Undefined(r)
     ELSE IF r.bit[f] = "none" THEN Crashed(r)
     ELSE IF KeyFreed(r, f) THEN Undefined(r)
     ELSE TakeVictim(r, f)

\* mutant: the hand moves before the bit is stored under its string
SweepStep_late(r) ==
  LET f == r.list[r.hand]
      next == circular_list_next(r, r.hand)
  IN IF r.st # "ok" \/ r.victim # NoFrame THEN r
     ELSE IF r.hand = Freed THEN Undefined(r)
     ELSE IF r.bit[f] = "none" THEN Crashed(r)
     ELSE IF KeyFreed(r, f) THEN Undefined(r)
     ELSE IF r.bit[f] = "clear" THEN TakeVictim(r, f)
     ELSE [TableSet(r, f, "clear", next) EXCEPT !.hand = next]

\* mutant: the reference bit is never cleared
SweepStep_forgetful(r) ==
  LET f == r.list[r.hand]
  IN IF r.st # "ok" \/ r.victim # NoFrame THEN r
     ELSE IF r.hand = Freed THEN Undefined(r)
     ELSE IF r.bit[f] = "none" THEN Crashed(r)
     ELSE IF KeyFreed(r, f) THEN Undefined(r)
     ELSE IF r.bit[f] = "clear" THEN TakeVictim(r, f)
     ELSE [r EXCEPT !.hand = circular_list_next(r, @)]

\* One round of the loop in evict
SweepStep(r) ==
  LET f == r.list[r.hand]
  IN IF r.st # "ok" \/ r.victim # NoFrame THEN r
     ELSE IF r.hand = Freed THEN Undefined(r)
     ELSE IF r.bit[f] = "none" THEN Crashed(r)
     ELSE IF KeyFreed(r, f) THEN Undefined(r)
     ELSE IF r.bit[f] = "clear" THEN TakeVictim(r, f)
     ELSE [TableSet(r, f, "clear", r.hand) EXCEPT !.hand = circular_list_next(r, @)]

\* At most one round per node, starting at the hand (at the head the first
\* time).  The hand stays on the node it evicts.
evict(r) ==
  LET start == [r EXCEPT !.victim = NoFrame,
                         !.hand = IF @ = NULL /\ r.list # <<>> THEN 1 ELSE @]
      sweep[n \in 0 .. Capacity] ==
        IF n = 0 THEN start ELSE The({SweepStep(q) : q \in {sweep[n - 1]}})
  IN sweep[Len(r.list)]
=============================================================================
