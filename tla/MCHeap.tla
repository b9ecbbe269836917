------------------------------- MODULE MCHeap -------------------------------
(* A small instance of Heap for TLC: the module cache and three more objects, *)
(* which TLC may take in any order.                                           *)
EXTENDS Heap, TLC

CONSTANTS o1, o2, o3, cache

MCObj == {o1, o2, o3, cache}
Symm == Permutations({o1, o2, o3})
=============================================================================
