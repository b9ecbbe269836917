------------------------------ MODULE MCArena ------------------------------
(***************************************************************************)
(* A small instance of Arena for TLC.  A word is 8 bytes: the header of a   *)
(* chunk is 3 words; a chunk of 8 words holds two aligned blocks of 2       *)
(* words, and a request of 7 words, aligned or not, needs a larger chunk.   *)
(***************************************************************************)
EXTENDS Arena

CONSTANTS a1, a2, c1, c2, c3

MCArenas == {a1, a2}
MCChunks == {c1, c2, c3}
MCRequests == {[words |-> 2, align |-> 2], [words |-> 7, align |-> 1],
               [words |-> 7, align |-> 2]}
Symm == Permutations(MCArenas) \cup Permutations(MCChunks)
=============================================================================
