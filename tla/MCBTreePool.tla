----------------------------- MODULE MCBTreePool -----------------------------
(***************************************************************************)
(* An instance of BTreePool for TLC: four keys of one byte, a longer one   *)
(* that cmpKeys takes for one of them, and a pool that is smaller than the *)
(* trees can grow.                                                         *)
(***************************************************************************)
EXTENDS BTreePool

Keys == {<<1>>, <<2>>, <<3>>, <<4>>, <<2, 1>>}

AnyOrder == {[calls |-> {"once", "remove", "open"}, keys |-> Keys, crashes |-> 1]}
=============================================================================
