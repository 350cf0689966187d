------------------------------ MODULE Dictionary ------------------------------
(***************************************************************************)
(* What hash.h promises: a finite map.  Lookups are atomic, and every      *)
(* reader remembers its last answer.                                       *)
(***************************************************************************)
CONSTANTS Key, Data, NoData, Reader

VARIABLES dict, answer

vars == <<dict, answer>>

NoAnswer == [key |-> NoData, data |-> NoData]

Init == /\ dict = [k \in Key |-> NoData]
        /\ answer = [t \in Reader |-> NoAnswer]

Insert(k, d) == /\ dict' = [dict EXCEPT ![k] = d]
                /\ UNCHANGED answer

Remove(k) == /\ dict' = [dict EXCEPT ![k] = NoData]
             /\ UNCHANGED answer

Lookup(t, k) == /\ answer' = [answer EXCEPT ![t] = [key |-> k, data |-> dict[k]]]
                /\ UNCHANGED dict

Next == \/ \E k \in Key, d \in Data : Insert(k, d)
        \/ \E k \in Key : Remove(k)
        \/ \E t \in Reader, k \in Key : Lookup(t, k)

Spec == Init /\ [][Next]_vars
=============================================================================
