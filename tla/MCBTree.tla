------------------------------- MODULE MCBTree -------------------------------
(***************************************************************************)
(* Instances of BTree for TLC: keys of one byte, which cmpKeys tells       *)
(* apart, and with them longer ones that it takes for the key <<2>>.       *)
(***************************************************************************)
EXTENDS BTree

CONSTANT Top

Bytes(n) == {<<b>> : b \in 1 .. n}
Prefixed == Bytes(Top) \cup {<<2, 1>>, <<2, 2>>}

Does(calls, keys, n) == [calls |-> calls, keys |-> keys, crashes |-> n]

AppendOnly == {Does({"append"}, Bytes(Top), 0)}

All == {Does({"insert"}, Prefixed, 0),
        Does({"once", "open"}, Bytes(Top - 2), 1),
        Does({"append", "remove", "open"}, Bytes(Top), 0),
        Does({"append", "remove", "open"}, Bytes(Top - 1), 1)}
=============================================================================
