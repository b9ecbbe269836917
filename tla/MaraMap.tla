------------------------------ MODULE MaraMap ------------------------------
(***************************************************************************)
(* The map of mara (src/src/map.c on the hash trie of src/src/hamt.h).  A   *)
(* node stays where it was put for the life of the map: a deleted key       *)
(* leaves a tombstone, which a later key on the same path may take over.    *)
(* The nodes are also linked in a list, the root first, for                 *)
(* mara_map_foreach and for copying.                                        *)
(*                                                                          *)
(* A node's address is its place in the trie; Path[k] is the sequence of    *)
(* the places that the hash of k leads to, two bits of it at each.  Keys    *)
(* are those that mara_value_equal tells apart and that are equal to their  *)
(* copies: numbers, symbols, strings and refs.                              *)
(***************************************************************************)
EXTENDS Naturals, Sequences, FiniteSets

CONSTANTS
    Keys,
    Values,
    Nil,
    Tombstone,  \* mara_tombstone(), the key of a deleted node
    Places,     \* the places of nodes in the trie
    Null,       \* the NULL node
    Path        \* Path[k]: the places BHAMT_SEARCH visits for key k

ASSUME MapAssumption ==
    /\ Nil \notin Values
    /\ Tombstone \notin Keys
    /\ Null \notin Places
    /\ Path \in [Keys -> Seq(Places)]

(* Every search starts at the root, and a node has one place on a path. *)
ASSUME PathAssumption ==
    \A k \in Keys :
        /\ Path[k] # <<>>
        /\ \A j \in Keys : Path[j][1] = Path[k][1]
        /\ \A m, n \in DOMAIN Path[k] : Path[k][m] = Path[k][n] => m = n

VARIABLES
    node,       \* node[p]: key and value of the node at place p, where there is one
    list,       \* the places of the nodes in the order of their next pointers
    len,        \* map->len
    result,     \* what the last operation returned
    itr,        \* the node mara_map_foreach is at, its callback running
    present,    \* history: the keys in the map ever since mara_map_foreach began
    visited     \* history: how often the callback was called for each of these

vars == <<node, list, len, result, itr, present, visited>>

(* mara_new_map. *)
Init ==
    /\ node = [p \in {} |-> [key |-> Tombstone, value |-> Nil]]
    /\ list = <<>>
    /\ len = 0
    /\ result = Nil
    /\ itr = Null
    /\ visited = [k \in Keys |-> 0]
    /\ present = {}

-----------------------------------------------------------------------------
Nodes == DOMAIN node

(* BHAMT_SEARCH for k: the index on Path[k] where the search ends, at the    *)
(* node of k or at the first place without a node.                           *)
Stops(k, i) == Path[k][i] \in Nodes => node[Path[k][i]].key = k

IsEnd(k, i) == Stops(k, i) /\ \A j \in 1 .. i - 1 : ~ Stops(k, j)

(* free_node: the last tombstone that the search has passed. *)
Free(k, i) ==
    {j \in 1 .. i - 1 : /\ node[Path[k][j]].key = Tombstone
                        /\ \A m \in j + 1 .. i - 1 : node[Path[k][m]].key # Tombstone}

InsertSecond(s, p) == IF s = <<>> THEN <<p>> ELSE <<Head(s), p>> \o Tail(s)

(* The history of an iteration: what is deleted was not there all the time.  *)
NoteRemoval(k) ==
    /\ present' = present \ {k}
    /\ visited' = [visited EXCEPT ![k] = 0]
    /\ UNCHANGED itr

Iteration == <<itr, present, visited>>

SetAtFirstTombstone(k, v) ==
    \E i \in DOMAIN Path[k] :
        /\ Path[k][i] \in Nodes => node[Path[k][i]].key \in {k, Tombstone}
        /\ \A j \in 1 .. i - 1 : ~ Stops(k, j) /\ node[Path[k][j]].key # Tombstone
        /\ node' = [p \in Nodes \cup {Path[k][i]} |->
                        IF p = Path[k][i] THEN [key |-> k, value |-> v] ELSE node[p]]
        /\ IF Path[k][i] \in Nodes
           THEN /\ len' = IF node[Path[k][i]].key = k THEN len ELSE len + 1
                /\ result' = node[Path[k][i]].value
                /\ UNCHANGED list
           ELSE /\ len' = len + 1
                /\ result' = Nil
                /\ list' = InsertSecond(list, Path[k][i])
        /\ UNCHANGED Iteration

(* mara_map_set with a value that is not nil: the node of k, else the free   *)
(* node, else a new node at the end of the path, after the head of the list. *)
Set(k, v) ==
    \E i \in DOMAIN Path[k] :
        /\ IsEnd(k, i)
        /\ IF Path[k][i] \in Nodes
           THEN /\ node' = [node EXCEPT ![Path[k][i]].value = v]
                /\ result' = node[Path[k][i]].value
                /\ UNCHANGED <<list, len>>
           ELSE /\ IF Free(k, i) # {}
                   THEN /\ \E j \in Free(k, i) :
                            node' = [node EXCEPT ![Path[k][j]] = [key |-> k, value |-> v]]
                        /\ UNCHANGED list
                   ELSE /\ node' = [p \in Nodes \cup {Path[k][i]} |->
                                    IF p \in Nodes THEN node[p]
                                    ELSE [key |-> k, value |-> v]]
                        /\ list' = InsertSecond(list, Path[k][i])
                /\ len' = len + 1
                /\ result' = Nil
        /\ UNCHANGED Iteration

DeleteAlwaysCounting(k) ==
    \E i \in DOMAIN Path[k] :
        /\ IsEnd(k, i)
        /\ node' = [p \in Nodes |-> IF p = Path[k][i] THEN [key |-> Tombstone, value |-> Nil]
                                    ELSE node[p]]
        /\ len' = len - 1
        /\ result' = IF Path[k][i] \in Nodes THEN node[Path[k][i]].value ELSE Nil
        /\ UNCHANGED list
        /\ NoteRemoval(k)

(* mara_map_delete, and mara_map_set with nil. *)
Delete(k) ==
    \E i \in DOMAIN Path[k] :
        /\ IsEnd(k, i)
        /\ IF Path[k][i] \in Nodes
           THEN /\ node' = [node EXCEPT ![Path[k][i]] = [key |-> Tombstone, value |-> Nil]]
                /\ len' = len - 1
                /\ result' = node[Path[k][i]].value
                /\ UNCHANGED list
           ELSE /\ result' = Nil
                /\ UNCHANGED <<node, list, len>>
        /\ NoteRemoval(k)

Get(k) ==
    \E i \in DOMAIN Path[k] :
        /\ IsEnd(k, i)
        /\ result' = IF Path[k][i] \in Nodes THEN node[Path[k][i]].value ELSE Nil
        /\ UNCHANGED <<node, list, len>> /\ UNCHANGED Iteration

Length ==
    /\ result' = len
    /\ UNCHANGED <<node, list, len>> /\ UNCHANGED Iteration

-----------------------------------------------------------------------------
(* mara_map_foreach: from position n of the list on, the first node that is  *)
(* no tombstone is the next for which the callback is called.                *)
KeysInMap == {node[p].key : p \in Nodes} \ {Tombstone}

Finish ==
    /\ itr' = Null
    /\ present' = {}
    /\ visited' = [k \in Keys |-> 0]

GoOnToTombstone(n, keys) ==
    IF (n <= Len(list) => node[list[n]].key = Tombstone) THEN Finish
    ELSE LET k == node[list[n]].key IN
         /\ itr' = list[n]
         /\ present' = keys
         /\ visited' = IF k \in keys THEN [visited EXCEPT ![k] = @ + 1] ELSE visited

GoOnFrom(n, keys) ==
    LET rest == {m \in n .. Len(list) : node[list[m]].key # Tombstone} IN
    IF rest = {} THEN Finish
    ELSE \E m \in rest :
            LET k == node[list[m]].key IN
            /\ \A o \in rest : m <= o
            /\ itr' = list[m]
            /\ present' = keys
            /\ visited' = IF k \in keys THEN [visited EXCEPT ![k] = @ + 1] ELSE visited

Foreach ==
    /\ itr = Null
    /\ GoOnFrom(1, KeysInMap)
    /\ UNCHANGED <<node, list, len, result>>

(* The callback has returned, and not false. *)
Continue ==
    /\ \E n \in DOMAIN list : itr = list[n] /\ GoOnFrom(n + 1, present)
    /\ UNCHANGED <<node, list, len, result>>

(* The callback has returned false, or an error. *)
Break ==
    /\ itr # Null
    /\ Finish
    /\ UNCHANGED <<node, list, len, result>>

Next ==
    \/ \E k \in Keys, v \in Values : Set(k, v)
    \/ \E k \in Keys : Delete(k) \/ Get(k)
    \/ Length
    \/ Foreach \/ Continue \/ Break

Spec == Init /\ [][Next]_vars

-----------------------------------------------------------------------------
Node == [key : Keys \cup {Tombstone}, value : Values \cup {Nil}]

(* The list that mara_map_foreach, mara_deep_copy and the printer walk has   *)
(* every node of the trie once, whatever became of their keys.               *)
ListHasEveryNode ==
    /\ {list[n] : n \in DOMAIN list} = Nodes
    /\ \A m, n \in DOMAIN list : list[m] = list[n] => m = n

(* Every variable has its type, and the next chain has the nodes of the trie. *)
TypeOK ==
    /\ Nodes \subseteq Places
    /\ node \in [Nodes -> Node]
    /\ list \in Seq(Places) /\ ListHasEveryNode
    /\ len \in Nat
    /\ result \in Values \cup {Nil} \cup Nat
    /\ itr \in Places \cup {Null}
    /\ visited \in [Keys -> Nat]
    /\ present \subseteq Keys

(* Deleting and taking over tombstones in any order leaves a key at no more  *)
(* than one node, on its own path and with a node at every place before it,  *)
(* so that a search for it does not end too early.                           *)
KeyReachable ==
    /\ \A p, q \in Nodes : node[p].key = node[q].key /\ node[p].key # Tombstone => p = q
    /\ \A p \in Nodes : node[p].key # Tombstone =>
         \E i \in DOMAIN Path[node[p].key] :
            /\ Path[node[p].key][i] = p
            /\ \A j \in 1 .. i - 1 : Path[node[p].key][j] \in Nodes

(* mara_map_foreach calls its function once for a key that is in the map     *)
(* from its beginning to its end, although the function sets and deletes     *)
(* other keys meanwhile, and list and tombstones change under the iterator.  *)
VisitedOnce ==
    [][Continue => (itr' = Null => \A k \in present : visited[k] = 1)]_vars

(* The promise of the map: the trie, its tombstones and len behave as a      *)
(* function from keys to values.                                             *)
Content ==
    [k \in Keys |-> IF \E p \in Nodes : node[p].key = k
                    THEN node[CHOOSE p \in Nodes : node[p].key = k].value
                    ELSE Nil]

Abstract == INSTANCE AbstractMap WITH content <- Content
AbstractSpec == Abstract!Spec
=============================================================================
