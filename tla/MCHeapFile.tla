----------------------------- MODULE MCHeapFile -----------------------------
(* Instances of HeapFile for TLC. *)
EXTENDS HeapFile

CONSTANTS u1, u2, u3

\* Any two of the tuples fit into a page of 22 bytes with their pointers; the
\* three do not.
Sizes == [u \in Tuple |-> CASE u = u1 -> 2 [] u = u2 -> 3 [] u = u3 -> 1]
=============================================================================
