------------------------------- MODULE MCMap -------------------------------
(***************************************************************************)
(* An instance of MaraMap for TLC: three keys in a trie with two children a *)
(* node (the code has four).  The hashes of k1 and k2 agree on all levels,  *)
(* that of k3 agrees with them on the first only.                           *)
(***************************************************************************)
EXTENDS MaraMap, TLC

CONSTANTS k1, k2, k3, v1, v2, nil, tombstone, null

MCKeys == {k1, k2, k3}

(* A place is named by the child numbers that lead to it from the root. *)
MCPath == (k1 :> <<"root", "0", "00", "000">>)
       @@ (k2 :> <<"root", "0", "00", "000">>)
       @@ (k3 :> <<"root", "0", "01", "010">>)
MCPlaces == UNION {{MCPath[k][i] : i \in DOMAIN MCPath[k]} : k \in MCKeys}
=============================================================================
