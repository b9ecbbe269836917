----------------------------- MODULE TrieProofs -----------------------------
(***************************************************************************)
(* Proofs about the two tries that bhamt.h makes, and about mara_parse that*)
(* interns the symbols it reads in one of them.                            *)
(*                                                                         *)
(* Maps, for all keys, values and hashes and maps of any size: what len    *)
(* counts and what mara_map_foreach has visited are no consequence of the  *)
(* types and of KeyReachable.  The invariant says that len is the number of*)
(* keys, and that a key has been visited exactly if its node is not behind *)
(* the iterator in the list.                                               *)
(*                                                                         *)
(* The symbol table, for all texts and hashes, also where they collide, and*)
(* tables of any size: the children of a node come after it in the array,  *)
(* and the search for the key of a node meets the node.                    *)
(*                                                                         *)
(* The parser, for all characters and texts of any length: the reader of   *)
(* the host is at most one character ahead, and each list that is being    *)
(* read notes how many nodes the lists around it have.                     *)
(***************************************************************************)
EXTENDS MaraMap, Parser, SequenceTheorems, FiniteSetTheorems, WellFoundedInduction, TLAPS

(* Only a tombstone has no value. *)
Valued == \A p \in Nodes : node[p].key # Tombstone => node[p].value \in Values

Counted == IsFiniteSet(KeysInMap) /\ len = Cardinality(KeysInMap)

(* In the list s, p is q or comes before it. *)
Before(s, p, q) == \E m, n \in DOMAIN s : s[m] = p /\ s[n] = q /\ m <= n

Visiting ==
    /\ itr = Null => present = {} /\ visited = [k \in Keys |-> 0]
    /\ itr # Null => itr \in Nodes
    /\ present \subseteq KeysInMap
    /\ \A p \in Nodes : node[p].key \in present =>
          visited[node[p].key] = IF Before(list, p, itr) THEN 1 ELSE 0

IInv == TypeOK /\ KeyReachable /\ Valued /\ Counted /\ Visiting

USE MapAssumption

-----------------------------------------------------------------------------
(* The list of the nodes.                                                    *)
Elems(s) == {s[n] : n \in DOMAIN s}
Once(s) == \A m, n \in DOMAIN s : s[m] = s[n] => m = n

LEMMA BeforeIs ==
    ASSUME NEW S, NEW s \in Seq(S), Once(s), NEW m \in DOMAIN s, NEW n \in DOMAIN s
    PROVE  Before(s, s[m], s[n]) <=> m <= n
BY DEF Before, Once

(* A new node comes after the root, the order of the others stays.           *)
LEMMA Inserted ==
    ASSUME NEW S, NEW s \in Seq(S), NEW p \in S, Once(s), p \notin Elems(s)
    PROVE  /\ InsertSecond(s, p) \in Seq(S) /\ Once(InsertSecond(s, p))
           /\ Elems(InsertSecond(s, p)) = Elems(s) \cup {p}
           /\ \A a, b \in Elems(s) : Before(InsertSecond(s, p), a, b) <=> Before(s, a, b)
<1>1. CASE s = << >>
    <2>1. InsertSecond(s, p) = <<p>> /\ DOMAIN s = {} /\ Elems(s) = {}
        BY <1>1 DEF InsertSecond, Elems
    <2>2. DOMAIN <<p>> = {1} /\ <<p>>[1] = p /\ <<p>> \in Seq(S)
        OBVIOUS
    <2> QED BY <2>1, <2>2 DEF Once, Elems
<1>2. CASE s # << >>
    <2> DEFINE t == InsertSecond(s, p)
               L == Len(s)
               f(m) == IF m = 1 THEN 1 ELSE m + 1
    <2>1. L \in Nat \ {0} /\ DOMAIN s = 1 .. L
        BY <1>2, EmptySeq
    <2>2. /\ Head(s) = s[1] /\ Head(s) \in S /\ Tail(s) \in Seq(S) /\ Len(Tail(s)) = L - 1
          /\ \A m \in 1 .. L - 1 : Tail(s)[m] = s[m + 1]
        BY <1>2, <2>1, HeadTailProperties
    <2>3. t = <<Head(s), p>> \o Tail(s)
        BY <1>2 DEF InsertSecond
    <2>4. /\ t \in Seq(S) /\ Len(t) = L + 1 /\ t[1] = s[1] /\ t[2] = p
          /\ \A m \in 2 .. L : t[m + 1] = s[m]
        <3>1. <<Head(s), p>> \in Seq(S) /\ Len(<<Head(s), p>>) = 2
            BY <2>2
        <3>2. /\ t \in Seq(S) /\ Len(t) = 2 + (L - 1)
              /\ \A m \in 1 .. 2 + (L - 1) :
                    t[m] = IF m <= 2 THEN <<Head(s), p>>[m] ELSE Tail(s)[m - 2]
            BY <2>2, <2>3, <3>1, ConcatProperties
        <3>3. ASSUME NEW m \in 2 .. L PROVE t[m + 1] = s[m]
            <4>1. t[m + 1] = Tail(s)[m - 1]
                <5>1. m + 1 \in 1 .. 2 + (L - 1) /\ ~ (m + 1 <= 2) /\ m + 1 - 2 = m - 1
                    BY <2>1
                <5> QED BY <3>2, <5>1
            <4>2. Tail(s)[m - 1] = s[m - 1 + 1]
                <5>1. m - 1 \in 1 .. L - 1
                    BY <2>1
                <5> QED BY <2>2, <5>1
            <4> QED BY <4>1, <4>2
        <3>4. t[1] = s[1] /\ t[2] = p
            BY <2>1, <2>2, <3>2
        <3> HIDE DEF t
        <3> QED BY <2>1, <3>2, <3>3, <3>4
    <2> HIDE DEF t, L
    <2>5. DOMAIN t = 1 .. L + 1 /\ \A m \in 1 .. L : f(m) \in 1 .. L + 1 /\ t[f(m)] = s[m]
        BY <2>1, <2>4
    <2>6. \A n \in 1 .. L + 1 : n = 2 \/ \E m \in 1 .. L : n = f(m)
        <3> SUFFICES ASSUME NEW n \in 1 .. L + 1, n # 2 PROVE \E m \in 1 .. L : n = f(m)
            OBVIOUS
        <3>1. CASE n = 1
            <4>1. 1 \in 1 .. L /\ n = f(1)
                BY <2>1, <3>1
            <4> QED BY <4>1
        <3>2. CASE n # 1
            <4>1. n - 1 \in 1 .. L /\ n = f(n - 1)
                BY <2>1, <3>2
            <4> QED BY <4>1
        <3> QED BY <3>1, <3>2
    <2>7. \A m, n \in 1 .. L : (m <= n <=> f(m) <= f(n)) /\ (f(m) = f(n) => m = n)
        BY <2>1
    <2>8. \A m \in 1 .. L : s[m] \in Elems(s) /\ s[m] # p
        BY <2>1 DEF Elems
    <2> HIDE DEF f
    <2>9. Once(t)
        <3> SUFFICES ASSUME NEW m \in 1 .. L + 1, NEW n \in 1 .. L + 1, t[m] = t[n] PROVE m = n
            BY <2>5 DEF Once
        <3>0. ASSUME NEW i \in 1 .. L + 1, t[i] = p PROVE i = 2
            BY <2>5, <2>6, <2>8, <3>0
        <3>1. CASE m = 2 \/ n = 2
            BY <2>4, <3>0, <3>1
        <3>2. CASE m # 2 /\ n # 2
            <4>1. PICK i \in 1 .. L, j \in 1 .. L : m = f(i) /\ n = f(j)
                BY <2>6, <3>2
            <4>2. s[i] = s[j]
                BY <2>5, <4>1
            <4> QED BY <2>1, <4>1, <4>2 DEF Once
        <3> QED BY <3>1, <3>2
    <2>10. Elems(t) = Elems(s) \cup {p}
        <3>1. 2 \in 1 .. L + 1
            BY <2>1
        <3>2. Elems(s) = {s[m] : m \in 1 .. L} /\ Elems(t) = {t[n] : n \in 1 .. L + 1}
            BY <2>1, <2>5 DEF Elems
        <3>3. \A x \in Elems(t) : x \in Elems(s) \cup {p}
            BY <2>4, <2>5, <2>6, <3>2
        <3>4. \A x \in Elems(s) : x \in Elems(t)
            BY <2>5, <3>2
        <3>5. p \in Elems(t)
            BY <2>4, <3>1, <3>2
        <3> QED BY <3>3, <3>4, <3>5
    <2>11. ASSUME NEW a \in Elems(s), NEW b \in Elems(s) PROVE Before(t, a, b) <=> Before(s, a, b)
        <3>1. PICK m \in 1 .. L, n \in 1 .. L : a = s[m] /\ b = s[n]
            BY <2>1 DEF Elems
        <3>2. Before(s, a, b) <=> m <= n
            BY <2>1, <3>1, BeforeIs
        <3>3. Before(t, a, b) <=> f(m) <= f(n)
            BY <2>4, <2>5, <2>9, <3>1, BeforeIs
        <3> QED BY <2>7, <3>2, <3>3
    <2> QED BY <2>4, <2>9, <2>10, <2>11 DEF t
<1> QED BY <1>1, <1>2

-----------------------------------------------------------------------------
(* Searches.                                                                 *)
OnPath(k, p) ==
    \E i \in DOMAIN Path[k] : Path[k][i] = p /\ \A j \in 1 .. i - 1 : Path[k][j] \in Nodes

LEMMA Types ==
    ASSUME IInv
    PROVE  /\ Nodes \subseteq Places /\ node \in [Nodes -> Node]
           /\ \A p \in Nodes : node[p].key \in Keys \cup {Tombstone} /\ node[p].value \in Values \cup {Nil}
           /\ list \in Seq(Places) /\ Elems(list) = Nodes /\ Once(list)
           /\ len \in Nat /\ present \subseteq Keys /\ visited \in [Keys -> Nat]
BY DEF IInv, TypeOK, ListHasEveryNode, Elems, Once, Node

LEMMA PathIs ==
    ASSUME NEW k \in Keys, NEW i \in DOMAIN Path[k]
    PROVE  i \in Nat \ {0} /\ Path[k][i] \in Places /\ \A j \in 1 .. i - 1 : j \in DOMAIN Path[k]
<1>1. Path[k] \in Seq(Places)
    OBVIOUS
<1>2. PICK n \in Nat : DOMAIN Path[k] = 1 .. n
    BY <1>1
<1> QED BY <1>1, <1>2

(* The places before the end of a search have nodes.                         *)
LEMMA Passed ==
    ASSUME NEW k, NEW i \in Nat, IsEnd(k, i), NEW j \in 1 .. i - 1
    PROVE  Path[k][j] \in Nodes /\ node[Path[k][j]].key # k
BY DEF IsEnd, Stops

(* A search that ends without a node has not missed one.                     *)
LEMMA NotThere ==
    ASSUME IInv, NEW k \in Keys, NEW i \in DOMAIN Path[k], IsEnd(k, i), Path[k][i] \notin Nodes
    PROVE  k \notin KeysInMap
<1> SUFFICES ASSUME NEW p \in Nodes, node[p].key = k PROVE FALSE
    BY DEF KeysInMap
<1>1. PICK m \in DOMAIN Path[k] : Path[k][m] = p /\ \A j \in 1 .. m - 1 : Path[k][j] \in Nodes
    BY DEF IInv, KeyReachable
<1>2. m \in Nat \ {0} /\ i \in Nat \ {0}
    BY PathIs
<1>3. CASE m < i
    <2>1. m \in 1 .. i - 1
        BY <1>2, <1>3
    <2> QED BY <1>1, <1>2, <2>1, Passed
<1>4. CASE i < m
    <2>1. i \in 1 .. m - 1
        BY <1>2, <1>4
    <2> QED BY <1>1, <2>1
<1>5. CASE i = m
    BY <1>1, <1>5
<1> QED BY <1>2, <1>3, <1>4, <1>5

(* Where mara_map_set puts k: at its node, at a tombstone, or at a new place.*)
PutAt(k, v, p) ==
    /\ OnPath(k, p) /\ p \in Places
    /\ Nodes' = Nodes \cup {p} /\ node' \in [Nodes' -> Node]
    /\ node'[p] = [key |-> k, value |-> v]
    /\ \A q \in Nodes : q # p => node'[q] = node[q]
    /\ \/ p \in Nodes /\ node[p].key = k /\ result' = node[p].value /\ UNCHANGED <<list, len>>
       \/ /\ k \notin KeysInMap /\ len' = len + 1 /\ result' = Nil
          /\ \/ p \in Nodes /\ node[p].key = Tombstone /\ UNCHANGED list
             \/ p \notin Nodes /\ list' = InsertSecond(list, p)

LEMMA SetDoes ==
    ASSUME IInv, NEW k \in Keys, NEW v \in Values, Set(k, v)
    PROVE  UNCHANGED Iteration /\ \E p : PutAt(k, v, p)
<1>1. PICK i \in DOMAIN Path[k] :
        /\ IsEnd(k, i)
        /\ IF Path[k][i] \in Nodes
           THEN /\ node' = [node EXCEPT ![Path[k][i]].value = v]
                /\ result' = node[Path[k][i]].value
                /\ UNCHANGED <<list, len>>
           ELSE /\ IF Free(k, i) # {}
                   THEN /\ \E j \in Free(k, i) :
                            node' = [node EXCEPT ![Path[k][j]] = [key |-> k, value |-> v]]
                        /\ UNCHANGED list
                   ELSE /\ node' = [p \in Nodes \cup {Path[k][i]} |->
                                    IF p \in Nodes THEN node[p]
                                    ELSE [key |-> k, value |-> v]]
                        /\ list' = InsertSecond(list, Path[k][i])
                /\ len' = len + 1
                /\ result' = Nil
        /\ UNCHANGED Iteration
    BY DEF Set
<1>2. PICK p : p = Path[k][i]
    OBVIOUS
<1>3. p \in Places /\ OnPath(k, p) /\ i \in Nat
    BY <1>1, <1>2, PathIs, Passed DEF OnPath
<1>4. [key |-> k, value |-> v] \in Node
    BY DEF Node
<1>5. node = [q \in Nodes |-> node[q]] /\ \A q \in Nodes : node[q] \in Node
    BY Types
<1>6. CASE p \in Nodes
    <2>1. node[p].key = k /\ node[p] \in Node
        BY <1>1, <1>2, <1>5, <1>6 DEF IsEnd, Stops
    <2>2. node' = [node EXCEPT ![p] = [node[p] EXCEPT !.value = v]] /\ result' = node[p].value
          /\ UNCHANGED <<list, len>>
        BY <1>1, <1>2, <1>6
    <2>3. [node[p] EXCEPT !.value = v] = [key |-> k, value |-> v]
        BY <2>1 DEF Node
    <2>4. PutAt(k, v, p)
        BY <1>3, <1>4, <1>5, <1>6, <2>1, <2>2, <2>3 DEF PutAt, Nodes
    <2> QED BY <1>1, <2>4
<1>7. CASE p \notin Nodes
    <2>1. k \notin KeysInMap /\ len' = len + 1 /\ result' = Nil
        BY <1>1, <1>2, <1>7, NotThere
    <2>2. CASE Free(k, i) # {}
        <3>1. PICK j \in Free(k, i) : node' = [node EXCEPT ![Path[k][j]] = [key |-> k, value |-> v]]
            BY <1>1, <1>2, <1>7, <2>2
        <3>2. j \in 1 .. i - 1 /\ node[Path[k][j]].key = Tombstone
            BY DEF Free
        <3>3. PICK q : q = Path[k][j]
            OBVIOUS
        <3>4. q \in Nodes /\ OnPath(k, q) /\ q \in Places
            <4>1. j \in DOMAIN Path[k]
                BY <3>2, PathIs
            <4>2. \A m \in 1 .. j - 1 : m \in 1 .. i - 1
                BY <1>3, <3>2
            <4>3. \A m \in 1 .. i - 1 : Path[k][m] \in Nodes
                BY <1>1, <1>3, Passed
            <4> QED BY <3>2, <3>3, <4>1, <4>2, <4>3, PathIs DEF OnPath
        <3>5. UNCHANGED list
            BY <1>1, <1>2, <1>7, <2>2
        <3>6. PutAt(k, v, q)
            BY <1>4, <1>5, <2>1, <3>1, <3>2, <3>3, <3>4, <3>5 DEF PutAt, Nodes
        <3> QED BY <1>1, <3>6
    <2>3. CASE Free(k, i) = {}
        <3>1. /\ node' = [q \in Nodes \cup {p} |-> IF q \in Nodes THEN node[q]
                                                   ELSE [key |-> k, value |-> v]]
              /\ list' = InsertSecond(list, p)
            BY <1>1, <1>2, <1>7, <2>3
        <3>2. PutAt(k, v, p)
            BY <1>3, <1>4, <1>5, <1>7, <2>1, <3>1 DEF PutAt, Nodes
        <3> QED BY <1>1, <3>2
    <2> QED BY <2>2, <2>3
<1> QED BY <1>6, <1>7

LEMMA SetKeeps ==
    ASSUME IInv, NEW k \in Keys, NEW v \in Values, Set(k, v)
    PROVE  IInv'
<1>1. PICK p : PutAt(k, v, p)
    BY SetDoes
<1>2. UNCHANGED <<itr, present, visited>>
    BY SetDoes DEF Iteration
<1>3. /\ p \in Places /\ Nodes' = Nodes \cup {p} /\ node' \in [Nodes' -> Node]
      /\ node'[p].key = k /\ node'[p].value = v
      /\ \A q \in Nodes : q # p => node'[q] = node[q]
    BY <1>1 DEF PutAt
<1>4. (p \in Nodes /\ node[p].key = k) \/ (k \notin KeysInMap /\ (p \in Nodes => node[p].key = Tombstone))
    BY <1>1 DEF PutAt
<1>5. KeysInMap' = KeysInMap \cup {k}
    <2>1. \A x \in KeysInMap' : x \in KeysInMap \cup {k}
        BY <1>3 DEF KeysInMap
    <2>2. \A x \in KeysInMap : x \in KeysInMap'
        BY <1>3, <1>4 DEF KeysInMap
    <2>3. k \in KeysInMap'
        BY <1>3 DEF KeysInMap
    <2> QED BY <2>1, <2>2, <2>3
<1>6. /\ list' \in Seq(Places) /\ Elems(list') = Nodes' /\ Once(list')
      /\ \A a, b \in Nodes : Before(list', a, b) <=> Before(list, a, b)
    <2>1. CASE UNCHANGED list /\ p \in Nodes
        BY <1>3, <2>1, Types
    <2>2. CASE list' = InsertSecond(list, p) /\ p \notin Nodes
        BY <1>3, <2>2, Types, Inserted
    <2> QED BY <1>1, <2>1, <2>2 DEF PutAt
<1>7. Counted' /\ len' \in Nat
    <2>1. CASE p \in Nodes /\ node[p].key = k /\ UNCHANGED len
        <3>1. k \in KeysInMap
            BY <2>1 DEF KeysInMap
        <3>2. KeysInMap' = KeysInMap
            BY <1>5, <3>1
        <3> QED BY <2>1, <3>2, Types DEF IInv, Counted
    <2>2. CASE k \notin KeysInMap /\ len' = len + 1
        <3>1. IsFiniteSet(KeysInMap') /\ Cardinality(KeysInMap') = Cardinality(KeysInMap) + 1
            BY <1>5, <2>2, FS_AddElement DEF IInv, Counted
        <3> QED BY <2>2, <3>1, Types DEF IInv, Counted
    <2> QED BY <1>1, <2>1, <2>2 DEF PutAt
<1>8. TypeOK'
    <2>1. ListHasEveryNode'
        BY <1>6 DEF ListHasEveryNode, Elems, Once
    <2>2. result' \in Values \cup {Nil} \cup Nat
        BY <1>1, Types DEF PutAt
    <2> QED BY <1>2, <1>3, <1>6, <1>7, <2>1, <2>2, Types DEF IInv, TypeOK
<1>9. KeyReachable'
    <2>1. ASSUME NEW q \in Nodes', NEW r \in Nodes', node'[q].key = node'[r].key,
                 node'[q].key # Tombstone
          PROVE  q = r
        <3>1. ASSUME NEW x \in Nodes, x # p PROVE node'[x].key # k
            <4>1. CASE p \in Nodes /\ node[p].key = k
                BY <1>3, <3>1, <4>1 DEF IInv, KeyReachable
            <4>2. CASE k \notin KeysInMap
                BY <1>3, <3>1, <4>2 DEF KeysInMap
            <4> QED BY <1>4, <4>1, <4>2
        <3>2. CASE q = p \/ r = p
            BY <1>3, <2>1, <3>1, <3>2
        <3>3. CASE q # p /\ r # p
            BY <1>3, <2>1, <3>3 DEF IInv, KeyReachable
        <3> QED BY <3>2, <3>3
    <2>2. ASSUME NEW q \in Nodes', node'[q].key # Tombstone
          PROVE  \E i \in DOMAIN Path[node'[q].key] :
                    /\ Path[node'[q].key][i] = q
                    /\ \A j \in 1 .. i - 1 : Path[node'[q].key][j] \in Nodes'
        <3>1. CASE q = p
            <4>1. PICK i \in DOMAIN Path[k] : Path[k][i] = p /\ \A j \in 1 .. i - 1 : Path[k][j] \in Nodes
                BY <1>1 DEF PutAt, OnPath
            <4> QED BY <1>3, <3>1, <4>1
        <3>2. CASE q # p
            <4>1. q \in Nodes /\ node'[q] = node[q]
                BY <1>3, <3>2
            <4> QED BY <1>3, <2>2, <4>1 DEF IInv, KeyReachable
        <3> QED BY <3>1, <3>2
    <2> QED BY <2>1, <2>2 DEF KeyReachable
<1>10. Valued'
    BY <1>3 DEF IInv, Valued
<1>11. Visiting'
    <2>1. itr # Null => itr \in Nodes
        BY DEF IInv, Visiting
    <2>2. ASSUME NEW q \in Nodes', node'[q].key \in present
          PROVE  visited[node'[q].key] = IF Before(list', q, itr) THEN 1 ELSE 0
        <3>1. itr # Null
            BY <2>2 DEF IInv, Visiting
        <3>2. q \in Nodes /\ node'[q].key = node[q].key
            <4>1. CASE q = p
                BY <1>3, <1>4, <2>2, <4>1 DEF IInv, Visiting
            <4>2. CASE q # p
                BY <1>3, <4>2
            <4> QED BY <4>1, <4>2
        <3>3. Before(list', q, itr) <=> Before(list, q, itr)
            BY <1>6, <2>1, <3>1, <3>2
        <3>4. visited[node[q].key] = IF Before(list, q, itr) THEN 1 ELSE 0
            BY <2>2, <3>2 DEF IInv, Visiting
        <3> QED BY <3>2, <3>3, <3>4
    <2>3. (itr # Null => itr \in Nodes') /\ present \subseteq KeysInMap'
        BY <1>3, <1>5, <2>1 DEF IInv, Visiting
    <2> QED BY <1>2, <2>2, <2>3 DEF IInv, Visiting
<1> QED BY <1>7, <1>8, <1>9, <1>10, <1>11 DEF IInv

LEMMA DeleteKeeps ==
    ASSUME IInv, NEW k \in Keys, Delete(k)
    PROVE  IInv'
<1>1. PICK i \in DOMAIN Path[k] :
        /\ IsEnd(k, i)
        /\ IF Path[k][i] \in Nodes
           THEN /\ node' = [node EXCEPT ![Path[k][i]] = [key |-> Tombstone, value |-> Nil]]
                /\ len' = len - 1
                /\ result' = node[Path[k][i]].value
                /\ UNCHANGED list
           ELSE /\ result' = Nil
                /\ UNCHANGED <<node, list, len>>
        /\ NoteRemoval(k)
    BY DEF Delete
<1>2. PICK p : p = Path[k][i]
    OBVIOUS
<1>3. /\ UNCHANGED list /\ Nodes' = Nodes /\ node' \in [Nodes -> Node]
      /\ \A q \in Nodes : node'[q] = IF node[q].key = k THEN [key |-> Tombstone, value |-> Nil] ELSE node[q]
      /\ len' = IF k \in KeysInMap THEN len - 1 ELSE len
      /\ result' \in Values \cup {Nil}
    <2>1. CASE p \in Nodes
        <3>1. node[p].key = k
            BY <1>1, <1>2, <2>1 DEF IsEnd, Stops
        <3>2. k \in KeysInMap
            BY <2>1, <3>1 DEF KeysInMap
        <3>3. \A q \in Nodes : node[q].key = k <=> q = p
            BY <2>1, <3>1 DEF IInv, KeyReachable
        <3>4. [key |-> Tombstone, value |-> Nil] \in Node
            BY DEF Node
        <3>5. node' = [node EXCEPT ![p] = [key |-> Tombstone, value |-> Nil]]
            BY <1>1, <1>2, <2>1
        <3> QED BY <1>1, <1>2, <2>1, <3>2, <3>3, <3>4, <3>5, Types DEF Nodes
    <2>2. CASE p \notin Nodes
        <3>1. k \notin KeysInMap
            BY <1>1, <1>2, <2>2, NotThere
        <3>2. \A q \in Nodes : node[q].key # k
            BY <3>1 DEF KeysInMap
        <3> QED BY <1>1, <1>2, <2>2, <3>1, <3>2, Types DEF Nodes
    <2> QED BY <2>1, <2>2
<1>4. /\ UNCHANGED itr /\ present' = present \ {k} /\ visited' = [visited EXCEPT ![k] = 0]
      /\ visited' \in [Keys -> Nat] /\ \A j \in Keys : j # k => visited'[j] = visited[j]
      /\ visited'[k] = 0
    BY <1>1, Types DEF NoteRemoval
<1>5. KeysInMap' = KeysInMap \ {k}
    <2>1. \A x \in KeysInMap' : x \in KeysInMap /\ x # k
        BY <1>3 DEF KeysInMap
    <2>2. \A x \in KeysInMap : x # k => x \in KeysInMap'
        BY <1>3 DEF KeysInMap
    <2> QED BY <2>1, <2>2
<1>6. Counted' /\ len' \in Nat
    <2>1. /\ IsFiniteSet(KeysInMap')
          /\ Cardinality(KeysInMap') = IF k \in KeysInMap THEN Cardinality(KeysInMap) - 1
                                       ELSE Cardinality(KeysInMap)
        BY <1>5, FS_RemoveElement DEF IInv, Counted
    <2>2. len' = Cardinality(KeysInMap')
        BY <1>3, <2>1 DEF IInv, Counted
    <2> QED BY <2>1, <2>2, FS_CardinalityType DEF Counted
<1>7. TypeOK'
    <2>1. ListHasEveryNode'
        BY <1>3 DEF IInv, TypeOK, ListHasEveryNode
    <2> QED BY <1>3, <1>4, <1>6, <2>1, Types DEF IInv, TypeOK
<1>8. KeyReachable'
    <2>1. \A q \in Nodes : node'[q].key # Tombstone => node'[q] = node[q]
        BY <1>3
    <2>2. ASSUME NEW q \in Nodes, NEW r \in Nodes, node'[q].key = node'[r].key,
                 node'[q].key # Tombstone
          PROVE  q = r
        BY <2>1, <2>2 DEF IInv, KeyReachable
    <2>3. ASSUME NEW q \in Nodes, node'[q].key # Tombstone
          PROVE  \E m \in DOMAIN Path[node'[q].key] :
                    /\ Path[node'[q].key][m] = q
                    /\ \A j \in 1 .. m - 1 : Path[node'[q].key][j] \in Nodes
        BY <2>1, <2>3 DEF IInv, KeyReachable
    <2> QED BY <1>3, <2>2, <2>3 DEF KeyReachable
<1>9. Valued'
    BY <1>3 DEF IInv, Valued
<1>10. Visiting'
    <2>1. itr = Null => visited' = [j \in Keys |-> 0]
        BY <1>4 DEF IInv, Visiting
    <2>2. present' \subseteq KeysInMap' /\ (itr = Null => present' = {})
        BY <1>4, <1>5 DEF IInv, Visiting
    <2>3. ASSUME NEW q \in Nodes, node'[q].key \in present'
          PROVE  visited'[node'[q].key] = IF Before(list, q, itr) THEN 1 ELSE 0
        <3>1. node'[q].key \in present /\ node'[q].key # k /\ node'[q].key \in Keys
            BY <1>4, <2>3, Types
        <3>2. node'[q] = node[q]
            BY <1>3, <3>1, Types
        <3> QED BY <1>4, <3>1, <3>2 DEF IInv, Visiting
    <2> QED BY <1>3, <1>4, <2>1, <2>2, <2>3 DEF IInv, Visiting
<1> QED BY <1>6, <1>7, <1>8, <1>9, <1>10 DEF IInv

-----------------------------------------------------------------------------
(* mara_map_foreach: the iterator goes from position i of the list (0: it is *)
(* not there yet) to the next one.                                           *)
LEMMA Finished ==
    ASSUME IInv, Finish, UNCHANGED <<node, list, len, result>>
    PROVE  IInv'
<1>1. /\ Nodes' = Nodes /\ KeysInMap' = KeysInMap
      /\ itr' = Null /\ present' = {} /\ visited' = [k \in Keys |-> 0]
    BY DEF Finish, Nodes, KeysInMap
<1>2. TypeOK' /\ KeyReachable' /\ Valued' /\ Counted'
    BY <1>1 DEF IInv, TypeOK, ListHasEveryNode, KeyReachable, Valued, Counted
<1>3. Visiting'
    BY <1>1 DEF Visiting
<1> QED BY <1>2, <1>3 DEF IInv

LEMMA GoneOn ==
    ASSUME IInv, NEW i \in 0 .. Len(list), NEW keys \in SUBSET KeysInMap,
           \A m \in DOMAIN list : node[list[m]].key \in keys =>
               visited[node[list[m]].key] = IF m <= i THEN 1 ELSE 0,
           GoOnFrom(i + 1, keys), UNCHANGED <<node, list, len, result>>
    PROVE  /\ IInv'
           /\ itr' = Null => \A k \in keys : visited[k] = 1
<1> DEFINE rest == {m \in i + 1 .. Len(list) : node[list[m]].key # Tombstone}
<1>1. /\ list \in Seq(Places) /\ Len(list) \in Nat /\ DOMAIN list = 1 .. Len(list)
      /\ i \in Nat /\ keys \subseteq Keys /\ Tombstone \notin keys
    <2>1. list \in Seq(Places)
        BY Types
    <2>2. keys \subseteq Keys /\ Tombstone \notin keys
        <3>1. \A x \in KeysInMap : x \in Keys \cup {Tombstone} /\ x # Tombstone
            BY Types DEF KeysInMap
        <3> QED BY <3>1
    <2> QED BY <2>1, <2>2
<1>2. /\ \A m \in DOMAIN list : list[m] \in Nodes /\ list[m] # Null
      /\ \A p \in Nodes : \E m \in DOMAIN list : p = list[m]
      /\ Once(list) /\ \A p \in Nodes : node[p].key \in Keys \cup {Tombstone}
    BY <1>1, Types DEF Elems
<1>3. \A m, n \in DOMAIN list : node[list[m]].key = node[list[n]].key
                                 /\ node[list[m]].key # Tombstone => m = n
    BY <1>2 DEF IInv, KeyReachable, Once
<1>4. \A k \in keys : \E m \in DOMAIN list : k = node[list[m]].key
    BY <1>2 DEF KeysInMap
<1>5. CASE rest = {}
    <2>1. Finish
        BY <1>5 DEF GoOnFrom
    <2>2. ASSUME NEW k \in keys PROVE visited[k] = 1
        <3>1. PICK m \in DOMAIN list : k = node[list[m]].key
            BY <1>4
        <3>2. m \notin i + 1 .. Len(list)
            BY <1>1, <1>5, <3>1
        <3>3. m <= i
            BY <1>1, <3>2
        <3> QED BY <3>1, <3>3
    <2> QED BY <2>1, <2>2, Finished
<1>6. CASE rest # {}
    <2>1. PICK m \in rest :
            /\ \A o \in rest : m <= o
            /\ itr' = list[m]
            /\ present' = keys
            /\ visited' = IF node[list[m]].key \in keys
                          THEN [visited EXCEPT ![node[list[m]].key] = @ + 1] ELSE visited
        BY <1>6 DEF GoOnFrom
    <2>2. m \in DOMAIN list /\ m \in Nat /\ i < m /\ node[list[m]].key # Tombstone
        BY <1>1
    <2>3. \A o \in DOMAIN list : i < o /\ o < m => node[list[o]].key = Tombstone
        <3> SUFFICES ASSUME NEW o \in DOMAIN list, i < o, o < m, node[list[o]].key # Tombstone
                     PROVE  FALSE
            OBVIOUS
        <3>1. o \in rest
            BY <1>1
        <3> QED BY <1>1, <2>1, <2>2, <3>1
    <2> HIDE DEF rest
    <2>4. /\ itr' # Null /\ itr' \in Nodes /\ itr' \in Places
          /\ Nodes' = Nodes /\ KeysInMap' = KeysInMap
        BY <1>2, <2>1, <2>2, Types DEF Nodes, KeysInMap
    <2>5. visited' \in [Keys -> Nat]
        <3>1. CASE node[list[m]].key \in keys
            <4>1. visited[node[list[m]].key] + 1 \in Nat
                BY <1>1, <3>1, Types
            <4> QED BY <2>1, <3>1, <4>1, Types
        <3>2. CASE node[list[m]].key \notin keys
            BY <2>1, <3>2, Types
        <3> QED BY <3>1, <3>2
    <2>6. TypeOK' /\ KeyReachable' /\ Valued' /\ Counted'
        BY <1>1, <2>1, <2>4, <2>5 DEF IInv, TypeOK, ListHasEveryNode, KeyReachable, Valued, Counted
    <2>7. ASSUME NEW p \in Nodes, node[p].key \in keys
          PROVE  visited'[node[p].key] = IF Before(list, p, itr') THEN 1 ELSE 0
        <3>1. PICK n \in DOMAIN list : p = list[n]
            BY <1>2
        <3>2. Before(list, p, itr') <=> n <= m
            BY <1>2, <2>1, <2>2, <3>1, BeforeIs, Types
        <3>3. visited[node[p].key] = (IF n <= i THEN 1 ELSE 0) /\ node[p].key \in Keys
            BY <1>1, <2>7, <3>1
        <3>4. n \in Nat
            BY <1>1
        <3>5. CASE n = m
            <4>1. visited'[node[p].key] = 0 + 1
                BY <2>1, <2>2, <2>7, <3>1, <3>3, <3>5, Types, <1>1
            <4> QED BY <2>2, <3>2, <3>5, <4>1
        <3>6. CASE n # m
            <4>1. node[p].key # node[list[m]].key
                BY <1>3, <2>2, <3>1, <3>6
            <4>2. visited'[node[p].key] = visited[node[p].key]
                BY <2>1, <3>3, <4>1, Types
            <4>3. n <= i <=> n <= m
                BY <1>1, <2>2, <2>3, <2>7, <3>1, <3>4, <3>6
            <4> QED BY <3>2, <3>3, <4>2, <4>3
        <3> QED BY <3>5, <3>6
    <2>8. Visiting'
        BY <2>1, <2>4, <2>7 DEF Visiting
    <2> QED BY <2>4, <2>6, <2>8 DEF IInv
<1> QED BY <1>5, <1>6

LEMMA ForeachKeeps == ASSUME IInv, Foreach PROVE IInv'
<1>1. /\ GoOnFrom(1, KeysInMap) /\ UNCHANGED <<node, list, len, result>>
      /\ visited = [k \in Keys |-> 0]
    BY DEF Foreach, IInv, Visiting
<1>2. 0 \in 0 .. Len(list) /\ 0 + 1 = 1 /\ \A m \in DOMAIN list : ~ (m <= 0)
    <2>1. list \in Seq(Places)
        BY Types
    <2> QED BY <2>1
<1>3. \A m \in DOMAIN list : node[list[m]].key \in KeysInMap =>
          visited[node[list[m]].key] = IF m <= 0 THEN 1 ELSE 0
    <2>1. KeysInMap \subseteq Keys
        BY Types DEF KeysInMap
    <2> QED BY <1>1, <1>2, <2>1
<1> QED BY <1>1, <1>2, <1>3, GoneOn

LEMMA ContinueKeeps ==
    ASSUME IInv, Continue
    PROVE  IInv' /\ (itr' = Null => \A k \in present : visited[k] = 1)
<1>1. PICK n \in DOMAIN list : itr = list[n] /\ GoOnFrom(n + 1, present)
    BY DEF Continue
<1>2. UNCHANGED <<node, list, len, result>> /\ present \in SUBSET KeysInMap
    BY DEF Continue, IInv, Visiting
<1>3. n \in 0 .. Len(list)
    <2>1. list \in Seq(Places)
        BY Types
    <2> QED BY <2>1
<1>4. ASSUME NEW m \in DOMAIN list, node[list[m]].key \in present
      PROVE  visited[node[list[m]].key] = IF m <= n THEN 1 ELSE 0
    <2>1. Before(list, list[m], list[n]) <=> m <= n
        BY BeforeIs, Types
    <2>2. list[m] \in Nodes
        BY Types DEF Elems
    <2> QED BY <1>1, <1>4, <2>1, <2>2 DEF IInv, Visiting
<1> QED BY <1>1, <1>2, <1>3, <1>4, GoneOn

LEMMA BreakKeeps == ASSUME IInv, Break PROVE IInv'
BY Finished DEF Break

LEMMA QueryKeeps ==
    ASSUME IInv, UNCHANGED <<node, list, len>>, UNCHANGED Iteration,
           result' \in Values \cup {Nil} \cup Nat
    PROVE  IInv'
<1>1. /\ UNCHANGED <<node, list, len, itr, present, visited>>
      /\ Nodes' = Nodes /\ KeysInMap' = KeysInMap
    BY DEF Iteration, Nodes, KeysInMap
<1>2. TypeOK'
    BY <1>1 DEF IInv, TypeOK, ListHasEveryNode
<1>3. KeyReachable' /\ Valued' /\ Counted'
    BY <1>1 DEF IInv, KeyReachable, Valued, Counted
<1>4. Visiting'
    BY <1>1 DEF IInv, Visiting
<1> QED BY <1>2, <1>3, <1>4 DEF IInv

LEMMA InitHolds == Init => IInv
<1> SUFFICES ASSUME Init PROVE IInv
    OBVIOUS
<1>1. Nodes = {} /\ KeysInMap = {} /\ node \in [Nodes -> Node] /\ list = << >>
    BY DEF Init, Nodes, KeysInMap
<1>2. DOMAIN list = {} /\ list \in Seq(Places)
    BY <1>1
<1>3. TypeOK
    BY <1>1, <1>2 DEF Init, TypeOK, ListHasEveryNode
<1>4. KeyReachable /\ Valued
    BY <1>1 DEF KeyReachable, Valued
<1>5. Counted
    BY <1>1, FS_EmptySet DEF Init, Counted
<1>6. Visiting
    BY <1>1 DEF Init, Visiting
<1> QED BY <1>3, <1>4, <1>5, <1>6 DEF IInv

LEMMA NextHolds == ASSUME IInv, [Next]_vars PROVE IInv'
<1>1. ASSUME NEW k \in Keys, NEW v \in Values, Set(k, v) PROVE IInv'
    BY <1>1, SetKeeps
<1>2. ASSUME NEW k \in Keys, Delete(k) PROVE IInv'
    BY <1>2, DeleteKeeps
<1>3. ASSUME NEW k \in Keys, Get(k) PROVE IInv'
    <2>1. result' \in Values \cup {Nil}
        BY <1>3, Types DEF Get
    <2> QED BY <1>3, <2>1, QueryKeeps DEF Get
<1>4. CASE Length
    BY <1>4, Types, QueryKeeps DEF Length
<1>5. CASE Foreach
    BY <1>5, ForeachKeeps
<1>6. CASE Continue
    BY <1>6, ContinueKeeps
<1>7. CASE Break
    BY <1>7, BreakKeeps
<1>8. CASE UNCHANGED vars
    BY <1>8, QueryKeeps DEF vars, Iteration, IInv, TypeOK
<1> QED BY <1>1, <1>2, <1>3, <1>4, <1>5, <1>6, <1>7, <1>8 DEF Next

(* In every reachable state the list has every node, len counts the keys,    *)
(* and an iteration has visited what is not behind its iterator.             *)
THEOREM Invariant == Spec => []IInv
<1>1. Init => IInv
    BY InitHolds
<1>2. IInv /\ [Next]_vars => IInv'
    BY NextHolds
<1> QED BY <1>1, <1>2, PTL DEF Spec

-----------------------------------------------------------------------------
(* Every variable has its type, and the next chain of the map is a list of   *)
(* all nodes of the trie, none twice.                                        *)
THEOREM TypeCorrect == Spec => []TypeOK
<1>1. IInv => TypeOK
    BY DEF IInv
<1> QED BY <1>1, Invariant, PTL

(* However keys are set and deleted, BHAMT_SEARCH finds the node of a key,   *)
(* and there is no second one.                                               *)
THEOREM KeysReachable == Spec => []KeyReachable
<1>1. IInv => KeyReachable
    BY DEF IInv
<1> QED BY <1>1, Invariant, PTL

(* mara_map_foreach visits a key that stays in the map exactly once.         *)
THEOREM EachVisitedOnce == Spec => VisitedOnce
<1>1. ASSUME IInv, [Next]_vars
      PROVE  [Continue => (itr' = Null => \A k \in present : visited[k] = 1)]_vars
    BY <1>1, ContinueKeeps
<1> QED BY <1>1, Invariant, PTL DEF Spec, VisitedOnce

(* map->len is the number of keys.                                           *)
THEOREM LenCorrect == Spec => [](len = Cardinality(KeysInMap))
<1>1. IInv => len = Cardinality(KeysInMap)
    BY DEF IInv, Counted
<1> QED BY <1>1, Invariant, PTL

-----------------------------------------------------------------------------
(* The refinement of AbstractMap.  The value of k in the nodes nd:           *)
ValueIn(nd, k) ==
    IF \E p \in DOMAIN nd : nd[p].key = k
    THEN nd[CHOOSE p \in DOMAIN nd : nd[p].key = k].value
    ELSE Nil

LEMMA ValueThere ==
    ASSUME NEW nd, NEW k, NEW p \in DOMAIN nd, nd[p].key = k,
           \A q \in DOMAIN nd : nd[q].key = k => q = p
    PROVE  ValueIn(nd, k) = nd[p].value
<1>1. (CHOOSE q \in DOMAIN nd : nd[q].key = k) = p
    OBVIOUS
<1> QED BY <1>1 DEF ValueIn

LEMMA ValueMissing ==
    ASSUME NEW nd, NEW k, \A p \in DOMAIN nd : nd[p].key # k
    PROVE  ValueIn(nd, k) = Nil
BY DEF ValueIn

LEMMA ContentIs ==
    /\ Content = [k \in Keys |-> ValueIn(node, k)]
    /\ Content' = [k \in Keys |-> ValueIn(node', k)]
BY DEF Content, ValueIn, Nodes

(* A key at a node has the value of the node.                                *)
LEMMA KeyFound ==
    ASSUME IInv, NEW p \in Nodes, node[p].key \in Keys
    PROVE  Content[node[p].key] = node[p].value
<1>1. \A q \in DOMAIN node : node[q].key = node[p].key => q = p
    BY DEF IInv, KeyReachable, Nodes
<1>2. ValueIn(node, node[p].key) = node[p].value
    BY <1>1, ValueThere DEF Nodes
<1> QED BY <1>2, ContentIs

LEMMA Missing ==
    ASSUME NEW k \in Keys, k \notin KeysInMap
    PROVE  Content[k] = Nil
<1>1. \A p \in DOMAIN node : node[p].key # k
    BY DEF KeysInMap, Nodes
<1> QED BY <1>1, ValueMissing, ContentIs

(* What a search for k finds is the value of k.                              *)
LEMMA SearchFinds ==
    ASSUME IInv, NEW k \in Keys, NEW i \in DOMAIN Path[k], IsEnd(k, i)
    PROVE  Content[k] = IF Path[k][i] \in Nodes THEN node[Path[k][i]].value ELSE Nil
<1>1. CASE Path[k][i] \in Nodes
    <2>1. node[Path[k][i]].key = k
        BY <1>1 DEF IsEnd, Stops
    <2> QED BY <1>1, <2>1, KeyFound
<1>2. CASE Path[k][i] \notin Nodes
    BY <1>2, NotThere, Missing
<1> QED BY <1>1, <1>2

(* The keys that have a value are those of the nodes.                        *)
LEMMA KeysHaveValues ==
    ASSUME IInv
    PROVE  {k \in Keys : Content[k] # Nil} = KeysInMap
<1>1. ASSUME NEW k \in Keys, Content[k] # Nil PROVE k \in KeysInMap
    BY <1>1, Missing
<1>2. ASSUME NEW k \in KeysInMap PROVE k \in Keys /\ Content[k] # Nil
    <2>1. PICK p \in Nodes : node[p].key = k /\ k # Tombstone
        BY DEF KeysInMap
    <2>2. k \in Keys /\ node[p].value \in Values
        BY <2>1, Types DEF IInv, Valued
    <2> QED BY <2>1, <2>2, KeyFound
<1> QED BY <1>1, <1>2

(* The nodes of all keys but k have stayed.                                  *)
LEMMA OthersStay ==
    ASSUME IInv, NEW j \in Keys,
           \A p \in Nodes : node[p].key = j => p \in Nodes' /\ node'[p] = node[p],
           \A p \in Nodes' : node'[p].key = j => p \in Nodes /\ node'[p] = node[p]
    PROVE  Content'[j] = Content[j]
<1>1. CASE \E p \in Nodes : node[p].key = j
    <2>1. PICK p \in Nodes : node[p].key = j
        BY <1>1
    <2>2. Content[j] = node[p].value
        BY <2>1, KeyFound
    <2>3. \A q \in DOMAIN node' : node'[q].key = j => q = p
        BY <2>1 DEF IInv, KeyReachable, Nodes
    <2>4. p \in DOMAIN node' /\ node'[p].key = j /\ node'[p].value = node[p].value
        BY <2>1 DEF Nodes
    <2>5. ValueIn(node', j) = node'[p].value
        BY <2>3, <2>4, ValueThere
    <2> QED BY <2>2, <2>4, <2>5, ContentIs
<1>2. CASE \A p \in Nodes : node[p].key # j
    <2>1. \A p \in DOMAIN node' : node'[p].key # j
        BY <1>2 DEF Nodes
    <2>2. \A p \in DOMAIN node : node[p].key # j
        BY <1>2 DEF Nodes
    <2> QED BY <2>1, <2>2, ValueMissing, ContentIs
<1> QED BY <1>1, <1>2

LEMMA SetRefines ==
    ASSUME IInv, IInv', NEW k \in Keys, NEW v \in Values, Set(k, v)
    PROVE  Abstract!Set(k, v)
<1>1. PICK p : PutAt(k, v, p)
    BY SetDoes
<1>2. /\ p \in Nodes' /\ node'[p] = [key |-> k, value |-> v] /\ Nodes' = Nodes \cup {p}
      /\ \A q \in Nodes : q # p => node'[q] = node[q]
    BY <1>1 DEF PutAt
<1>3. result' = Content[k]
    BY <1>1, KeyFound, Missing DEF PutAt
<1>4. Content'[k] = v
    <2>1. \A q \in DOMAIN node' : node'[q].key = k => q = p
        BY <1>2 DEF IInv, KeyReachable, Nodes
    <2>2. ValueIn(node', k) = node'[p].value
        BY <1>2, <2>1, ValueThere DEF Nodes
    <2> QED BY <1>2, <2>2, ContentIs
<1>5. ASSUME NEW j \in Keys, j # k PROVE Content'[j] = Content[j]
    <2>1. p \in Nodes => node[p].key # j
        BY <1>1, <1>5 DEF PutAt
    <2>2. \A q \in Nodes : node[q].key = j => q \in Nodes' /\ node'[q] = node[q]
        BY <1>2, <2>1
    <2>3. \A q \in Nodes' : node'[q].key = j => q \in Nodes /\ node'[q] = node[q]
        BY <1>2, <1>5
    <2> QED BY <2>2, <2>3, OthersStay
<1>6. Content' = [Content EXCEPT ![k] = v]
    BY <1>4, <1>5, ContentIs
<1> QED BY <1>3, <1>6 DEF Abstract!Set

LEMMA DeleteRefines ==
    ASSUME IInv, IInv', NEW k \in Keys, Delete(k)
    PROVE  Abstract!Set(k, Nil)
<1>1. PICK i \in DOMAIN Path[k] :
        /\ IsEnd(k, i)
        /\ IF Path[k][i] \in Nodes
           THEN /\ node' = [node EXCEPT ![Path[k][i]] = [key |-> Tombstone, value |-> Nil]]
                /\ result' = node[Path[k][i]].value
           ELSE result' = Nil /\ UNCHANGED node
    BY DEF Delete
<1>2. result' = Content[k]
    BY <1>1, SearchFinds
<1>3. /\ Nodes' = Nodes
      /\ \A q \in Nodes : node'[q] = IF node[q].key = k THEN [key |-> Tombstone, value |-> Nil] ELSE node[q]
    <2>1. CASE Path[k][i] \in Nodes
        <3>1. PICK p \in Nodes : p = Path[k][i] /\ node[p].key = k
            BY <1>1, <2>1 DEF IsEnd, Stops
        <3>2. \A q \in Nodes : node[q].key = k <=> q = p
            BY <3>1 DEF IInv, KeyReachable
        <3>3. node' = [node EXCEPT ![p] = [key |-> Tombstone, value |-> Nil]]
            BY <1>1, <3>1
        <3> QED BY <3>1, <3>2, <3>3, Types DEF Nodes
    <2>2. CASE Path[k][i] \notin Nodes
        <3>1. k \notin KeysInMap
            BY <1>1, <2>2, NotThere
        <3>2. \A q \in Nodes : node[q].key # k
            BY <3>1 DEF KeysInMap
        <3> QED BY <1>1, <2>2, <3>2 DEF Nodes
    <2> QED BY <2>1, <2>2
<1>4. Content'[k] = Nil
    <2>1. \A q \in DOMAIN node' : node'[q].key # k
        BY <1>3 DEF Nodes
    <2> QED BY <2>1, ValueMissing, ContentIs
<1>5. ASSUME NEW j \in Keys, j # k PROVE Content'[j] = Content[j]
    <2>1. \A q \in Nodes : node[q].key = j => q \in Nodes' /\ node'[q] = node[q]
        BY <1>3, <1>5
    <2>2. \A q \in Nodes' : node'[q].key = j => q \in Nodes /\ node'[q] = node[q]
        BY <1>3
    <2> QED BY <2>1, <2>2, OthersStay
<1>6. Content' = [Content EXCEPT ![k] = Nil]
    BY <1>4, <1>5, ContentIs
<1> QED BY <1>2, <1>6 DEF Abstract!Set

(* The trie, its tombstones, its list and len behave as a function from keys *)
(* to values: every mara_map_* function answers what AbstractMap says.       *)
THEOREM Refinement == Spec => AbstractSpec
<1>1. Init => Abstract!Init
    <2> SUFFICES ASSUME Init PROVE Abstract!Init
        OBVIOUS
    <2>1. \A p \in DOMAIN node : FALSE
        BY DEF Init
    <2>2. \A k \in Keys : ValueIn(node, k) = Nil
        BY <2>1, ValueMissing
    <2> QED BY <2>2, ContentIs DEF Init, Abstract!Init
<1>2. ASSUME IInv, IInv', [Next]_vars PROVE [Abstract!Next]_<<Content, result>>
    <2>1. ASSUME NEW k \in Keys, NEW v \in Values, Set(k, v) PROVE Abstract!Next
        BY <1>2, <2>1, SetRefines DEF Abstract!Next
    <2>2. ASSUME NEW k \in Keys, Delete(k) PROVE Abstract!Next
        BY <1>2, <2>2, DeleteRefines DEF Abstract!Next
    <2>3. UNCHANGED node => UNCHANGED Content
        BY DEF Content, Nodes
    <2>4. ASSUME NEW k \in Keys, Get(k) PROVE Abstract!Next
        <3>1. result' = Content[k] /\ UNCHANGED node
            BY <1>2, <2>4, SearchFinds DEF Get
        <3> QED BY <2>3, <3>1 DEF Abstract!Next, Abstract!Get
    <2>5. CASE Length
        <3>1. result' = Cardinality({k \in Keys : Content[k] # Nil}) /\ UNCHANGED node
            BY <1>2, <2>5, KeysHaveValues DEF Length, IInv, Counted
        <3>2. UNCHANGED Content
            BY <2>3, <3>1
        <3>3. Abstract!Len
            BY <3>1, <3>2 DEF Abstract!Len, Cardinality, Abstract!Cardinality
        <3> QED BY <3>3 DEF Abstract!Next
    <2>6. CASE Foreach \/ Continue \/ Break \/ UNCHANGED vars
        BY <2>3, <2>6 DEF Foreach, Continue, Break, vars
    <2> QED BY <1>2, <2>1, <2>2, <2>4, <2>5, <2>6 DEF Next
<1> QED BY <1>1, <1>2, Invariant, PTL DEF Spec, AbstractSpec, Abstract!Spec

HIDE MapAssumption

-----------------------------------------------------------------------------
(* The least of some numbers. *)
LEMMA LeastOf ==
    ASSUME NEW S \in SUBSET Nat, S # {}
    PROVE  \E m \in S : \A n \in S : m <= n
<1> DEFINE R == {ss \in Nat \X Nat : ss[1] < ss[2]}
<1>1. IsWellFoundedOn(R, Nat)
    BY NatLessThanWellFounded DEF OpToRel
<1>2. PICK m \in S : \A n \in S : ~ (<<n, m>> \in R)
    <2> HIDE DEF R
    <2> QED BY <1>1, WFMin
<1>3. ASSUME NEW n \in S PROVE m <= n
    <2>1. m \in Nat /\ n \in Nat /\ ~ (<<n, m>> \in R)
        BY <1>2
    <2>2. ~ (n < m)
        BY <2>1
    <2> QED BY <2>1, <2>2
<1> QED BY <1>3

-----------------------------------------------------------------------------
(* The search for a text: where it is after the first step and after the     *)
(* others.                                                                   *)
First(table) == IF table.nodes = <<>> THEN 0 ELSE 1

After(table, text, v, d) ==
    IF v = 0 THEN 0
    ELSE IF table.nodes[v].key = text THEN 0 ELSE table.nodes[v].children[Digit(text, d)]

Follows(f, table, text, m) ==
    f = [d \in 0 .. m |-> IF d = 0 THEN First(table) ELSE After(table, text, f[d - 1], d - 1)]

Searched(table, text, m) == \E f : Follows(f, table, text, m)

(* The recursion of Way defines a function: a search of any length can be    *)
(* made a step longer.                                                       *)
LEMMA SearchedFurther ==
    ASSUME NEW table, NEW text, NEW m \in Nat, Searched(table, text, m)
    PROVE  Searched(table, text, m + 1)
<1>1. PICK g : Follows(g, table, text, m)
    BY DEF Searched
<1> DEFINE f == [d \in 0 .. m + 1 |-> IF d = m + 1 THEN After(table, text, g[m], m) ELSE g[d]]
           h == [d \in 0 .. m + 1 |-> IF d = 0 THEN First(table) ELSE After(table, text, f[d - 1], d - 1)]
<1>2. ASSUME NEW d \in 0 .. m + 1 PROVE f[d] = h[d]
    <2>1. CASE d = 0
        <3>1. f[d] = g[0] /\ 0 \in 0 .. m
            BY <2>1
        <3>2. g[0] = First(table)
            BY <1>1, <3>1 DEF Follows
        <3> QED BY <2>1, <3>1, <3>2
    <2>2. CASE d \in 1 .. m
        <3>1. d \in 0 .. m /\ d - 1 \in 0 .. m /\ d # 0 /\ d # m + 1 /\ d - 1 # m + 1 /\ d - 1 \in 0 .. m + 1
            BY <2>2
        <3>2. f[d] = g[d] /\ f[d - 1] = g[d - 1]
            BY <3>1
        <3>3. g[d] = After(table, text, g[d - 1], d - 1)
            BY <1>1, <3>1 DEF Follows
        <3>4. h[d] = After(table, text, f[d - 1], d - 1)
            BY <3>1
        <3> QED BY <3>2, <3>3, <3>4
    <2>3. CASE d = m + 1
        <3>1. d - 1 = m /\ m \in 0 .. m + 1 /\ m # m + 1 /\ d # 0
            BY <2>3
        <3>2. f[m] = g[m] /\ f[d] = After(table, text, g[m], m)
            BY <2>3, <3>1
        <3>3. h[d] = After(table, text, f[d - 1], d - 1)
            BY <3>1
        <3> QED BY <3>1, <3>2, <3>3
    <2> QED BY <2>1, <2>2, <2>3
<1>3. f = h
    <2>1. DOMAIN f = DOMAIN h /\ \A d \in 0 .. m + 1 : f[d] = h[d]
        BY <1>2
    <2> QED BY <2>1
<1>4. Follows(f, table, text, m + 1)
    BY <1>3 DEF Follows
<1> HIDE DEF f, h
<1> QED BY <1>4 DEF Searched

LEMMA SearchedAll ==
    ASSUME NEW table, NEW text, NEW m \in Nat
    PROVE  Searched(table, text, m)
<1> DEFINE S == {n \in Nat : ~ Searched(table, text, n)}
<1>1. Searched(table, text, 0)
    <2> DEFINE f == [d \in 0 .. 0 |-> First(table)]
    <2>1. f = [d \in 0 .. 0 |-> IF d = 0 THEN First(table) ELSE After(table, text, f[d - 1], d - 1)]
        OBVIOUS
    <2> HIDE DEF f
    <2> QED BY <2>1 DEF Searched, Follows
<1>2. SUFFICES ASSUME S # {} PROVE FALSE
    OBVIOUS
<1>3. PICK n \in S : \A k \in S : n <= k
    <2> HIDE DEF S
    <2>1. S \in SUBSET Nat
        BY DEF S
    <2> QED BY <1>2, <2>1, LeastOf
<1>4. n \in Nat /\ n # 0 /\ ~ Searched(table, text, n)
    BY <1>1, <1>3
<1>5. n - 1 \in Nat /\ n - 1 \notin S /\ (n - 1) + 1 = n
    BY <1>3, <1>4
<1>6. Searched(table, text, n - 1)
    BY <1>5
<1> QED BY <1>4, <1>5, <1>6, SearchedFurther

LEMMA WayFollows ==
    ASSUME NEW table, NEW text, Len(table.nodes) \in Nat
    PROVE  Follows(Way(table, text), table, text, Len(table.nodes))
<1>1. PICK f : Follows(f, table, text, Len(table.nodes))
    BY SearchedAll DEF Searched
<1>2. Way(table, text) = CHOOSE g : Follows(g, table, text, Len(table.nodes))
    BY DEF Way, Follows, First, After
<1> QED BY <1>1, <1>2

-----------------------------------------------------------------------------
(* The invariant of the table: a child comes after its parent in the array,  *)
(* so that a search ends, and the search for the key of a node meets it.     *)
Children == 0 .. NumChildren - 1

Hashed(texts) == \A text \in texts : Hash(text) \in Seq(Children)

Meets(table, text, n) == \E d \in 0 .. Len(table.nodes) : Way(table, text)[d] = n

TableType(table, texts) ==
    /\ table = [nodes |-> table.nodes, capacity |-> table.capacity]
    /\ table.nodes \in Seq([key : texts, children : [Children -> Nat]])
    /\ table.capacity \in Nat

Descends(table) ==
    \A n \in DOMAIN table.nodes : \A i \in Children :
        table.nodes[n].children[i] # 0 => table.nodes[n].children[i] \in n + 1 .. Len(table.nodes)

AllMet(table) == \A n \in DOMAIN table.nodes : Meets(table, table.nodes[n].key, n)

TrieOK(table, texts) ==
    /\ TableType(table, texts)
    /\ Descends(table)
    /\ AllMet(table)
    /\ Len(table.nodes) <= table.capacity

LEMMA NodeTypes ==
    ASSUME NEW table, NEW texts, TableType(table, texts), NEW n \in DOMAIN table.nodes
    PROVE  /\ Len(table.nodes) \in Nat /\ DOMAIN table.nodes = 1 .. Len(table.nodes)
           /\ table.nodes[n].key \in texts
           /\ table.nodes[n].children \in [Children -> Nat]
           /\ table.nodes[n] = [key |-> table.nodes[n].key, children |-> table.nodes[n].children]
<1> DEFINE Entry == [key : texts, children : [Children -> Nat]]
<1>1. table.nodes \in Seq(Entry)
    BY DEF TableType
<1>2. /\ Len(table.nodes) \in Nat /\ DOMAIN table.nodes = 1 .. Len(table.nodes)
      /\ table.nodes[n] \in Entry
    <2> HIDE DEF Entry
    <2> QED BY <1>1
<1> QED BY <1>2

LEMMA DigitIsChild ==
    ASSUME NEW texts, Hashed(texts), NEW text \in texts, NEW d \in Nat
    PROVE  Digit(text, d) \in Children
<1>1. Hash(text) \in Seq(Children) /\ 0 \in Children
    BY SymtabAssumption DEF Hashed, Children
<1>2. CASE d < Len(Hash(text))
    <2>1. d + 1 \in 1 .. Len(Hash(text))
        BY <1>1, <1>2
    <2>2. Hash(text)[d + 1] \in Children
        BY <1>1, <2>1
    <2> QED BY <1>2, <2>2 DEF Digit
<1>3. CASE ~ (d < Len(Hash(text)))
    BY <1>1, <1>3 DEF Digit
<1> QED BY <1>2, <1>3

(* A search is a way down: it gets one node further with every step, it has  *)
(* ended before it has made as many steps as there are nodes, and then it    *)
(* stays at its end.                                                         *)
LEMMA WaySteps ==
    ASSUME NEW table, NEW texts, NEW text, TableType(table, texts)
    PROVE  /\ Len(table.nodes) \in Nat
           /\ DOMAIN Way(table, text) = 0 .. Len(table.nodes)
           /\ Way(table, text)[0] = First(table)
           /\ \A d \in 0 .. Len(table.nodes) : d # 0 =>
                 Way(table, text)[d] = After(table, text, Way(table, text)[d - 1], d - 1)
<1>1. Len(table.nodes) \in Nat
    BY DEF TableType
<1>2. Follows(Way(table, text), table, text, Len(table.nodes))
    BY <1>1, WayFollows
<1> DEFINE w == Way(table, text)
<1> HIDE DEF w
<1>3. Follows(w, table, text, Len(table.nodes))
    BY <1>2 DEF w
<1>4. DOMAIN w = 0 .. Len(table.nodes) /\ w[0] = First(table)
    BY <1>1, <1>3 DEF Follows
<1>5. ASSUME NEW d \in 0 .. Len(table.nodes), d # 0
      PROVE  w[d] = After(table, text, w[d - 1], d - 1)
    BY <1>1, <1>3, <1>5 DEF Follows
<1> QED BY <1>1, <1>4, <1>5 DEF w

LEMMA WayDescends ==
    ASSUME NEW table, NEW texts, NEW text \in texts, Hashed(texts),
           TableType(table, texts), Descends(table),
           NEW d \in 0 .. Len(table.nodes)
    PROVE  /\ Way(table, text)[d] \in 0 .. Len(table.nodes)
           /\ Way(table, text)[d] # 0 => Way(table, text)[d] > d
<1> DEFINE w == Way(table, text)
           N == Len(table.nodes)
           Bad(n) == n \in 0 .. N /\ ~ (w[n] \in 0 .. N /\ (w[n] # 0 => w[n] > n))
           S == {n \in 0 .. N : Bad(n)}
<1>1. /\ N \in Nat /\ w[0] = First(table)
      /\ \A n \in 0 .. N : n # 0 => w[n] = After(table, text, w[n - 1], n - 1)
    BY WaySteps
<1>2. SUFFICES ASSUME S # {} PROVE FALSE
    OBVIOUS
<1>3. PICK n \in S : \A k \in S : n <= k
    <2> HIDE DEF S, w
    <2>1. S \in SUBSET Nat
        BY <1>1 DEF S
    <2> QED BY <1>2, <2>1, LeastOf
<1> HIDE DEF w
<1>4. n \in 0 .. N /\ Bad(n)
    BY <1>3
<1>5. n # 0
    <2>1. CASE table.nodes = <<>>
        BY <1>1, <1>4, <2>1 DEF First
    <2>2. CASE table.nodes # <<>>
        <3>1. N > 0
            BY <1>1, <2>2 DEF TableType
        <3> QED BY <1>1, <1>4, <2>2, <3>1 DEF First
    <2> QED BY <2>1, <2>2
<1>6. n - 1 \in 0 .. N /\ n - 1 \notin S
    BY <1>3, <1>4, <1>5
<1>7. w[n - 1] \in 0 .. N /\ (w[n - 1] # 0 => w[n - 1] > n - 1)
    BY <1>6
<1>8. w[n] = After(table, text, w[n - 1], n - 1)
    BY <1>1, <1>4, <1>5
<1>9. w[n] # 0
    BY <1>1, <1>4
<1>10. w[n - 1] # 0 /\ w[n] = table.nodes[w[n - 1]].children[Digit(text, n - 1)]
    BY <1>8, <1>9 DEF After
<1>11. w[n - 1] \in DOMAIN table.nodes
    BY <1>1, <1>7, <1>10 DEF TableType
<1>12. Digit(text, n - 1) \in Children
    BY <1>4, <1>5, <1>6, DigitIsChild
<1>13. w[n] \in w[n - 1] + 1 .. N
    BY <1>9, <1>10, <1>11, <1>12 DEF Descends
<1> QED BY <1>1, <1>4, <1>7, <1>10, <1>13

LEMMA WayEnds ==
    ASSUME NEW table, NEW texts, NEW text \in texts, Hashed(texts),
           TableType(table, texts), Descends(table),
           NEW d \in 0 .. Len(table.nodes), Way(table, text)[d] = 0,
           NEW e \in 0 .. Len(table.nodes), d <= e
    PROVE  Way(table, text)[e] = 0
<1> DEFINE w == Way(table, text)
           N == Len(table.nodes)
           S == {n \in 0 .. N : d <= n /\ w[n] # 0}
<1>1. N \in Nat /\ \A n \in 0 .. N : n # 0 => w[n] = After(table, text, w[n - 1], n - 1)
    BY WaySteps
<1>2. SUFFICES ASSUME S # {} PROVE FALSE
    OBVIOUS
<1>3. PICK n \in S : \A k \in S : n <= k
    <2> HIDE DEF S, w
    <2>1. S \in SUBSET Nat
        BY <1>1 DEF S
    <2> QED BY <1>2, <2>1, LeastOf
<1> HIDE DEF w
<1>4. n \in 0 .. N /\ d <= n /\ w[n] # 0 /\ n # d
    BY <1>3 DEF w
<1>5. n - 1 \in 0 .. N /\ n - 1 \notin S /\ d <= n - 1
    BY <1>1, <1>3, <1>4
<1>6. w[n - 1] = 0 /\ n # 0
    BY <1>1, <1>4, <1>5
<1> QED BY <1>1, <1>4, <1>6 DEF After

(* Where the search is last.                                                 *)
LEMMA LastIs ==
    ASSUME NEW table, NEW texts, NEW text \in texts, Hashed(texts),
           TableType(table, texts), Descends(table),
           NEW d \in 0 .. Len(table.nodes), Way(table, text)[d] # 0,
           d = Len(table.nodes) \/ Way(table, text)[d + 1] = 0
    PROVE  LastDepth(table, text) = d /\ LastNode(table, text) = Way(table, text)[d]
<1> DEFINE w == Way(table, text)
           N == Len(table.nodes)
<1>1. N \in Nat /\ DOMAIN w = 0 .. N
    BY WaySteps
<1>2. ASSUME NEW e \in 0 .. N, e > d PROVE w[e] = 0
    <2>1. d + 1 \in 0 .. N /\ w[d + 1] = 0 /\ d + 1 <= e
        BY <1>1, <1>2
    <2> QED BY <2>1, WayEnds
<1> HIDE DEF w
<1> DEFINE IsLast(k) == w[k] # 0 /\ \A e \in DOMAIN w : e > k => w[e] = 0
<1>3. IsLast(d)
    BY <1>1, <1>2 DEF w
<1>4. ASSUME NEW k \in DOMAIN w, IsLast(k) PROVE k = d
    BY <1>1, <1>3, <1>4
<1>5. LastDepth(table, text) = CHOOSE k \in DOMAIN w : IsLast(k)
    BY DEF LastDepth, w
<1>6. (CHOOSE k \in DOMAIN w : IsLast(k)) = d
    <2>1. d \in DOMAIN w
        BY <1>1
    <2> HIDE DEF IsLast
    <2> QED BY <1>3, <1>4, <2>1
<1> QED BY <1>5, <1>6 DEF LastNode, w

(* The search for a text that is a key ends at its node.                     *)
LEMMA MetIsLast ==
    ASSUME NEW table, NEW texts, NEW text \in texts, Hashed(texts),
           TableType(table, texts), Descends(table),
           NEW n \in DOMAIN table.nodes, table.nodes[n].key = text, Meets(table, text, n)
    PROVE  LastNode(table, text) = n
<1>1. PICK d \in 0 .. Len(table.nodes) : Way(table, text)[d] = n
    BY DEF Meets
<1>2. /\ Len(table.nodes) \in Nat
      /\ \A e \in 0 .. Len(table.nodes) : e # 0 =>
            Way(table, text)[e] = After(table, text, Way(table, text)[e - 1], e - 1)
    BY WaySteps
<1>3. n # 0 /\ n \in Nat
    BY DEF TableType
<1>4. d = Len(table.nodes) \/ Way(table, text)[d + 1] = 0
    <2>1. SUFFICES ASSUME d # Len(table.nodes) PROVE Way(table, text)[d + 1] = 0
        OBVIOUS
    <2>2. d + 1 \in 0 .. Len(table.nodes) /\ d + 1 # 0 /\ (d + 1) - 1 = d
        BY <1>2, <2>1
    <2>3. Way(table, text)[d + 1] = After(table, text, n, d)
        BY <1>1, <1>2, <2>2
    <2> QED BY <1>3, <2>3 DEF After
<1> QED BY <1>1, <1>3, <1>4, LastIs

(* In a table with a node, the search ends at one.                           *)
LEMMA LastExists ==
    ASSUME NEW table, NEW texts, NEW text \in texts, Hashed(texts),
           TableType(table, texts), Descends(table), table.nodes # <<>>
    PROVE  \E d \in 0 .. Len(table.nodes) - 1 :
              /\ Way(table, text)[d] \in DOMAIN table.nodes
              /\ Way(table, text)[d + 1] = 0
<1> DEFINE w == Way(table, text)
           N == Len(table.nodes)
           S == {n \in 0 .. N : w[n] = 0}
<1>1. N \in Nat /\ N > 0 /\ DOMAIN table.nodes = 1 .. N /\ w[0] = First(table)
    <2>1. N \in Nat /\ w[0] = First(table)
        BY WaySteps
    <2> HIDE DEF w
    <2> QED BY <2>1 DEF TableType
<1>2. \A n \in 0 .. N : w[n] \in 0 .. N /\ (w[n] # 0 => w[n] > n)
    BY WayDescends
<1> HIDE DEF w
<1>3. N \in S
    BY <1>1, <1>2
<1>4. PICK n \in S : \A k \in S : n <= k
    <2> HIDE DEF S
    <2>1. S \in SUBSET Nat
        BY <1>1 DEF S
    <2> QED BY <1>3, <2>1, LeastOf
<1>5. n \in 0 .. N /\ w[n] = 0 /\ n # 0
    BY <1>1, <1>4 DEF First
<1>6. n - 1 \in 0 .. N - 1 /\ n - 1 \in 0 .. N /\ n - 1 \notin S /\ (n - 1) + 1 = n
    BY <1>1, <1>4, <1>5
<1>7. w[n - 1] \in DOMAIN table.nodes /\ w[(n - 1) + 1] = 0
    BY <1>1, <1>2, <1>5, <1>6
<1> QED BY <1>6, <1>7 DEF w

-----------------------------------------------------------------------------
(* mara_symtab_intern of a text that is no key.  The child where the new     *)
(* node is linked was empty, so that every other search goes where it went.  *)
Extended(table, text) == Append(table.nodes, [key |-> text, children |-> NoChildren])

LinkedAt(table, text, d, l) ==
    /\ Way(table, text)[d] = l
    /\ table.nodes[l].key # text
    /\ table.nodes[l].children[Digit(text, d)] = 0
    /\ WithNode(table, text).nodes =
          [Extended(table, text) EXCEPT ![l].children[Digit(text, d)] = Len(table.nodes) + 1]

LEMMA NewNode ==
    ASSUME NEW table, NEW texts, NEW text \in texts, Hashed(texts), TrieOK(table, texts),
           ~ IsInterned(table, text)
    PROVE  /\ WithNode(table, text).capacity = Grown(table)
           /\ table.nodes = <<>> => WithNode(table, text).nodes = Extended(table, text)
           /\ table.nodes # <<>> =>
                 \E d \in 0 .. Len(table.nodes) - 1, l \in DOMAIN table.nodes :
                    LinkedAt(table, text, d, l)
<1> DEFINE new == Extended(table, text)
           N == Len(table.nodes)
<1>1. TableType(table, texts) /\ Descends(table) /\ N \in Nat /\ Len(new) = N + 1
    BY DEF TrieOK, TableType, Extended
<1>2. /\ WithNode(table, text).capacity = Grown(table)
      /\ table.nodes = <<>> => WithNode(table, text).nodes = new
    BY DEF WithNode, WithNodeAt, Extended
<1>3. ASSUME table.nodes # <<>>
      PROVE  \E d \in 0 .. N - 1, l \in DOMAIN table.nodes : LinkedAt(table, text, d, l)
    <2>1. PICK d \in 0 .. N - 1 : /\ Way(table, text)[d] \in DOMAIN table.nodes
                                  /\ Way(table, text)[d + 1] = 0
        BY <1>1, <1>3, LastExists
    <2> DEFINE l == Way(table, text)[d]
    <2>2. d \in 0 .. N /\ d + 1 \in 0 .. N /\ d + 1 # 0 /\ (d + 1) - 1 = d /\ l # 0
        BY <1>1, <2>1 DEF TableType
    <2>3. LastDepth(table, text) = d /\ LastNode(table, text) = l
        BY <1>1, <2>1, <2>2, LastIs
    <2>4. table.nodes[l].key # text
        BY <1>3, <2>3 DEF IsInterned
    <2>5. Way(table, text)[d + 1] = After(table, text, l, d)
        BY <1>1, <2>2, WaySteps
    <2> HIDE DEF l
    <2>6. table.nodes[l].children[Digit(text, d)] = 0
        BY <2>1, <2>2, <2>4, <2>5 DEF After
    <2>7. WithNode(table, text).nodes = [new EXCEPT ![l].children[Digit(text, d)] = N + 1]
        BY <1>1, <1>3, <2>3 DEF WithNode, WithNodeAt, Extended
    <2>8. LinkedAt(table, text, d, l)
        BY <2>4, <2>6, <2>7 DEF l, LinkedAt
    <2> QED BY <2>1, <2>8 DEF l
<1> QED BY <1>2, <1>3

(* What the nodes are after it.                                              *)
TrieNode(texts) == [key : texts, children : [Children -> Nat]]

NodeKept(table, next, n) ==
    /\ next.nodes[n].key = table.nodes[n].key
    /\ \A i \in Children :
          /\ next.nodes[n].children[i] \in {table.nodes[n].children[i], Len(table.nodes) + 1}
          /\ table.nodes[n].children[i] # 0 =>
                next.nodes[n].children[i] = table.nodes[n].children[i]

LEMMA NodesAfter ==
    ASSUME NEW table, NEW texts, NEW text \in texts, Hashed(texts), TrieOK(table, texts),
           ~ IsInterned(table, text)
    PROVE  /\ TableType(WithNode(table, text), texts)
           /\ Len(WithNode(table, text).nodes) = Len(table.nodes) + 1
           /\ WithNode(table, text).nodes[Len(table.nodes) + 1].key = text
           /\ \A i \in Children :
                 WithNode(table, text).nodes[Len(table.nodes) + 1].children[i] = 0
           /\ \A n \in DOMAIN table.nodes : NodeKept(table, WithNode(table, text), n)
<1> DEFINE N == Len(table.nodes)
           next == WithNode(table, text)
           fresh == [key |-> text, children |-> NoChildren]
           new == Extended(table, text)
           Entry == TrieNode(texts)
<1>1. TableType(table, texts) /\ N \in Nat /\ DOMAIN table.nodes = 1 .. N /\ table.nodes \in Seq(Entry)
    BY DEF TrieOK, TableType, TrieNode
<1>2. fresh \in Entry /\ \A i \in Children : NoChildren[i] = 0
    BY DEF NoChildren, Children, TrieNode
<1>3. /\ new \in Seq(Entry) /\ Len(new) = N + 1 /\ DOMAIN new = 1 .. N + 1 /\ new[N + 1] = fresh
      /\ \A n \in 1 .. N : new[n] = table.nodes[n]
    <2> HIDE DEF fresh, Entry
    <2>1. new = Append(table.nodes, fresh)
        BY DEF Extended, fresh
    <2> QED BY <1>1, <1>2, <2>1, AppendProperties
<1>4. Grown(table) \in Nat
    BY SymtabAssumption DEF Grown, TrieOK, TableType
<1>5. next = [nodes |-> next.nodes, capacity |-> next.capacity]
    BY DEF WithNode, WithNodeAt
<1>6. CASE table.nodes = <<>>
    <2>1. next.nodes = new /\ next.capacity = Grown(table) /\ N = 0
        BY <1>1, <1>6, NewNode
    <2>2. TableType(next, texts)
        BY <1>3, <1>4, <1>5, <2>1 DEF TableType, TrieNode
    <2>3. DOMAIN table.nodes = {}
        BY <1>1, <2>1
    <2> HIDE DEF next, new
    <2>4. next.nodes[N + 1] = fresh
        BY <1>3, <2>1
    <2>5. fresh.key = text /\ fresh.children = NoChildren
        OBVIOUS
    <2> HIDE DEF fresh
    <2>6. next.nodes[N + 1].key = text /\ \A i \in Children : next.nodes[N + 1].children[i] = 0
        BY <1>2, <2>4, <2>5
    <2> QED BY <1>1, <1>3, <2>1, <2>2, <2>3, <2>6 DEF next
<1>7. CASE table.nodes # <<>>
    <2>0. PICK d \in 0 .. N - 1, l \in DOMAIN table.nodes : LinkedAt(table, text, d, l)
        BY <1>7, NewNode
    <2>1. /\ table.nodes[l].children[Digit(text, d)] = 0
          /\ next.nodes = [new EXCEPT ![l].children[Digit(text, d)] = N + 1]
        BY <2>0 DEF LinkedAt
    <2> DEFINE c == Digit(text, d)
    <2>2. next.capacity = Grown(table)
        BY NewNode
    <2>3. c \in Children
        <3>1. d \in Nat
            BY <1>1
        <3> QED BY <3>1, DigitIsChild
    <2> HIDE DEF c, next, new, fresh
    <2>4. next.nodes = [new EXCEPT ![l].children[c] = N + 1]
        BY <2>1 DEF c
    <2>5. l \in 1 .. N /\ l \in DOMAIN new /\ l # N + 1 /\ new[l] \in Entry
        <3> HIDE DEF Entry
        <3> QED BY <1>1, <1>3, <2>0
    <2>6. next.nodes \in Seq(Entry) /\ Len(next.nodes) = N + 1
        <3>1. [new[l] EXCEPT !.children[c] = N + 1] \in Entry
            <4>1. N + 1 \in Nat /\ new[l] \in TrieNode(texts)
                BY <1>1, <2>5
            <4> QED BY <2>3, <4>1 DEF TrieNode
        <3> HIDE DEF Entry
        <3>2. next.nodes = [new EXCEPT ![l] = [new[l] EXCEPT !.children[c] = N + 1]]
            BY <2>4
        <3> QED BY <1>3, <2>5, <3>1, <3>2, ExceptSeq
    <2>7. TableType(next, texts)
        BY <1>4, <1>5, <2>2, <2>6 DEF TableType, next, TrieNode
    <2>8. next.nodes[N + 1] = fresh
        BY <1>1, <1>3, <2>4, <2>5
    <2>9. ASSUME NEW n \in 1 .. N
          PROVE  NodeKept(table, next, n)
        <3>1. n \in DOMAIN new /\ new[n] = table.nodes[n] /\ table.nodes[n] \in Entry
            <4> HIDE DEF Entry
            <4> QED BY <1>1, <1>3
        <3>2. CASE n = l
            <4>1. next.nodes[n] = [table.nodes[n] EXCEPT !.children[c] = N + 1]
                BY <2>4, <3>1, <3>2
            <4>2. next.nodes[n].key = table.nodes[n].key
                BY <3>1, <4>1 DEF TrieNode
            <4>3. next.nodes[n].children = [table.nodes[n].children EXCEPT ![c] = N + 1]
                BY <3>1, <4>1 DEF TrieNode
            <4>4. table.nodes[n].children[c] = 0
                BY <2>1, <3>2 DEF c
            <4>5. table.nodes[n].children \in [Children -> Nat]
                BY <3>1 DEF TrieNode
            <4> QED BY <4>2, <4>3, <4>4, <4>5 DEF NodeKept
        <3>3. CASE n # l
            <4>1. next.nodes[n] = table.nodes[n]
                BY <2>4, <3>1, <3>3
            <4> QED BY <4>1 DEF NodeKept
        <3> QED BY <3>2, <3>3
    <2>10. next.nodes[N + 1].key = text /\ \A i \in Children : next.nodes[N + 1].children[i] = 0
        BY <1>2, <2>8 DEF fresh
    <2> QED BY <1>1, <2>6, <2>7, <2>9, <2>10 DEF next
<1> QED BY <1>6, <1>7

(* Every search still goes where it went.                                    *)
LEMMA WayKept ==
    ASSUME NEW table, NEW texts, NEW text \in texts, Hashed(texts), TrieOK(table, texts),
           ~ IsInterned(table, text), NEW other \in texts,
           NEW d \in 0 .. Len(table.nodes), Way(table, other)[d] # 0
    PROVE  Way(WithNode(table, text), other)[d] = Way(table, other)[d]
<1> DEFINE N == Len(table.nodes)
           next == WithNode(table, text)
           w == Way(table, other)
           v == Way(next, other)
           S == {e \in 0 .. N : w[e] # 0 /\ v[e] # w[e]}
<1>1. /\ TableType(table, texts) /\ Descends(table) /\ N \in Nat
      /\ TableType(next, texts) /\ Len(next.nodes) = N + 1
    <2>1. TableType(table, texts) /\ Descends(table)
        BY DEF TrieOK
    <2>2. N \in Nat
        BY <2>1 DEF TableType
    <2>3. TableType(next, texts) /\ Len(next.nodes) = N + 1
        BY NodesAfter
    <2> QED BY <2>1, <2>2, <2>3
<1>2. w[0] = First(table) /\ \A e \in 0 .. N : e # 0 => w[e] = After(table, other, w[e - 1], e - 1)
    BY <1>1, WaySteps
<1>3. /\ v[0] = First(next)
      /\ \A e \in 0 .. N + 1 : e # 0 => v[e] = After(next, other, v[e - 1], e - 1)
    BY <1>1, WaySteps
<1>4. \A e \in 0 .. N : w[e] \in 0 .. N
    BY <1>1, WayDescends
<1>5. SUFFICES ASSUME S # {} PROVE FALSE
    OBVIOUS
<1> HIDE DEF w, v, next
<1>6. PICK e \in S : \A k \in S : e <= k
    <2> HIDE DEF S
    <2>1. S \in SUBSET Nat
        BY <1>1 DEF S
    <2> QED BY <1>5, <2>1, LeastOf
<1>7. e \in 0 .. N /\ w[e] # 0 /\ v[e] # w[e]
    BY <1>6
<1>8. e # 0
    BY <1>1, <1>2, <1>3, <1>7 DEF First, TableType
<1>9. e - 1 \in 0 .. N /\ e - 1 \notin S /\ e \in 0 .. N + 1
    BY <1>1, <1>6, <1>7, <1>8
<1>10. w[e] = After(table, other, w[e - 1], e - 1) /\ v[e] = After(next, other, v[e - 1], e - 1)
    BY <1>2, <1>3, <1>7, <1>8, <1>9
<1>11. /\ w[e - 1] # 0 /\ table.nodes[w[e - 1]].key # other
       /\ w[e] = table.nodes[w[e - 1]].children[Digit(other, e - 1)]
    BY <1>7, <1>10 DEF After
<1>12. v[e - 1] = w[e - 1] /\ w[e - 1] \in DOMAIN table.nodes
    BY <1>1, <1>4, <1>9, <1>11 DEF TableType
<1>13. Digit(other, e - 1) \in Children
    BY <1>9, DigitIsChild
<1>14. /\ next.nodes[w[e - 1]].key = table.nodes[w[e - 1]].key
       /\ next.nodes[w[e - 1]].children[Digit(other, e - 1)] = w[e]
    <2>1. NodeKept(table, next, w[e - 1])
        BY <1>12, NodesAfter DEF next
    <2> QED BY <1>7, <1>11, <1>13, <2>1 DEF NodeKept
<1> QED BY <1>7, <1>10, <1>11, <1>12, <1>14 DEF After

(* The search for the new key ends at the new node.                          *)
LEMMA NewKeyMet ==
    ASSUME NEW table, NEW texts, NEW text \in texts, Hashed(texts), TrieOK(table, texts),
           ~ IsInterned(table, text)
    PROVE  Meets(WithNode(table, text), text, Len(table.nodes) + 1)
<1> DEFINE N == Len(table.nodes)
           next == WithNode(table, text)
           new == Extended(table, text)
           v == Way(next, text)
<1>1. /\ TableType(table, texts) /\ Descends(table) /\ N \in Nat
      /\ TableType(next, texts) /\ Len(next.nodes) = N + 1
    BY NodesAfter DEF TrieOK, TableType
<1>2. /\ v[0] = First(next)
      /\ \A e \in 0 .. N + 1 : e # 0 => v[e] = After(next, text, v[e - 1], e - 1)
    BY <1>1, WaySteps
<1>3. CASE table.nodes = <<>>
    <2>1. N = 0 /\ next.nodes # <<>>
        <3>1. N = 0
            BY <1>3
        <3>2. Len(next.nodes) = 1
            BY <1>1, <3>1
        <3> HIDE DEF next
        <3>3. Len(<<>>) = 0
            OBVIOUS
        <3>4. next.nodes # <<>>
            BY <3>2, <3>3
        <3> QED BY <3>1, <3>4
    <2>2. v[0] = N + 1 /\ 0 \in 0 .. N + 1
        BY <1>2, <2>1 DEF First
    <2> QED BY <1>1, <2>2 DEF Meets
<1>4. CASE table.nodes # <<>>
    <2>0. PICK d \in 0 .. N - 1, l \in DOMAIN table.nodes : LinkedAt(table, text, d, l)
        BY <1>4, NewNode
    <2>1. /\ Way(table, text)[d] = l
          /\ table.nodes[l].key # text
          /\ next.nodes = [new EXCEPT ![l].children[Digit(text, d)] = N + 1]
        BY <2>0 DEF LinkedAt
    <2>2. d \in 0 .. N /\ d + 1 \in 0 .. N + 1 /\ d + 1 # 0 /\ (d + 1) - 1 = d /\ l # 0 /\ l \in 1 .. N
        BY <1>1, <2>1 DEF TableType
    <2>3. v[d] = l
        BY <2>1, <2>2, WayKept
    <2>4. next.nodes[l].key # text
        <3>1. NodeKept(table, next, l)
            BY <2>0, NodesAfter
        <3> QED BY <2>1, <3>1 DEF NodeKept
    <2>5. v[d + 1] = next.nodes[l].children[Digit(text, d)]
        <3>1. v[d + 1] = After(next, text, l, d)
            BY <1>2, <2>2, <2>3
        <3> HIDE DEF v, next
        <3> QED BY <2>2, <2>4, <3>1 DEF After
    <2>6. next.nodes[l].children[Digit(text, d)] = N + 1
        <3> DEFINE c == Digit(text, d)
        <3>1. c \in Children
            BY <2>2, DigitIsChild
        <3>2. table.nodes[l] \in TrieNode(texts)
            <4>1. /\ table.nodes[l].key \in texts
                  /\ table.nodes[l].children \in [Children -> Nat]
                  /\ table.nodes[l] = [key |-> table.nodes[l].key, children |-> table.nodes[l].children]
                BY <1>1, <2>0, NodeTypes
            <4> QED BY <4>1 DEF TrieNode
        <3>3. l \in DOMAIN new /\ new[l] = table.nodes[l]
            BY <1>1, <2>2 DEF TableType, Extended
        <3> HIDE DEF c, next, new
        <3>4. next.nodes = [new EXCEPT ![l].children[c] = N + 1]
            BY <2>1 DEF c, next, new
        <3>5. next.nodes[l] = [new[l] EXCEPT !.children[c] = N + 1]
            BY <3>3, <3>4
        <3>6. next.nodes[l].children = [new[l].children EXCEPT ![c] = N + 1]
            BY <3>2, <3>3, <3>5 DEF TrieNode
        <3> QED BY <3>1, <3>2, <3>3, <3>6 DEF c, TrieNode
    <2> HIDE DEF v
    <2>7. v[d + 1] = N + 1
        BY <2>5, <2>6
    <2> QED BY <1>1, <2>2, <2>7 DEF Meets, v
<1> QED BY <1>3, <1>4

LEMMA GrownEnough ==
    ASSUME NEW table, NEW texts, TrieOK(table, texts)
    PROVE  Len(table.nodes) + 1 <= Grown(table)
<1>1. Len(table.nodes) \in Nat /\ table.capacity \in Nat /\ Len(table.nodes) <= table.capacity
    BY DEF TrieOK, TableType
<1> QED BY <1>1, SymtabAssumption DEF Grown

LEMMA WithNodeOK ==
    ASSUME NEW table, NEW texts, NEW text \in texts, Hashed(texts), TrieOK(table, texts),
           ~ IsInterned(table, text)
    PROVE  TrieOK(WithNode(table, text), texts)
<1> DEFINE N == Len(table.nodes)
           next == WithNode(table, text)
<1>1. TableType(table, texts) /\ Descends(table) /\ AllMet(table) /\ N \in Nat /\ DOMAIN table.nodes = 1 .. N
    BY DEF TrieOK, TableType
<1>2. TableType(next, texts) /\ Len(next.nodes) = N + 1 /\ DOMAIN next.nodes = 1 .. N + 1
    <2>1. TableType(next, texts) /\ Len(next.nodes) = N + 1
        BY NodesAfter
    <2> HIDE DEF next
    <2> QED BY <1>1, <2>1 DEF TableType
<1>3. /\ next.nodes[N + 1].key = text
      /\ \A i \in Children : next.nodes[N + 1].children[i] = 0
      /\ \A n \in 1 .. N :
            /\ next.nodes[n].key = table.nodes[n].key
            /\ \A i \in Children :
                  next.nodes[n].children[i] \in {table.nodes[n].children[i], N + 1}
    <2>1. /\ next.nodes[Len(table.nodes) + 1].key = text
          /\ \A i \in Children : next.nodes[Len(table.nodes) + 1].children[i] = 0
          /\ \A n \in DOMAIN table.nodes : NodeKept(table, next, n)
        BY NodesAfter, ZenonT(60)
    <2> HIDE DEF next
    <2>2. ASSUME NEW n \in 1 .. N
          PROVE  /\ next.nodes[n].key = table.nodes[n].key
                 /\ \A i \in Children :
                       next.nodes[n].children[i] \in {table.nodes[n].children[i], N + 1}
        <3>1. n \in DOMAIN table.nodes
            BY <1>1
        <3>2. NodeKept(table, next, n)
            BY <2>1, <3>1
        <3> QED BY <3>2 DEF NodeKept
    <2> QED BY <2>1, <2>2
<1>4. ASSUME NEW n \in 1 .. N, NEW d \in 0 .. N, Way(table, table.nodes[n].key)[d] = n
      PROVE  Way(next, table.nodes[n].key)[d] = n
    <2>1. table.nodes[n].key \in texts
        BY <1>1, NodeTypes
    <2>2. n # 0
        BY <1>1
    <2> QED BY <1>4, <2>1, <2>2, WayKept
<1>5. Meets(next, text, N + 1)
    BY NewKeyMet
<1>6. next.capacity = Grown(table) /\ N + 1 <= Grown(table)
    BY GrownEnough DEF WithNode, WithNodeAt
<1> HIDE DEF next
<1>7. Descends(next)
    <2>1. ASSUME NEW n \in DOMAIN next.nodes, NEW i \in Children, next.nodes[n].children[i] # 0
          PROVE  next.nodes[n].children[i] \in n + 1 .. N + 1
        <3>1. n \in 1 .. N
            BY <1>1, <1>2, <1>3, <2>1
        <3>2. CASE next.nodes[n].children[i] = N + 1
            BY <1>1, <3>1, <3>2
        <3>3. CASE next.nodes[n].children[i] = table.nodes[n].children[i]
            BY <1>1, <2>1, <3>1, <3>3 DEF Descends
        <3> QED BY <1>3, <3>1, <3>2, <3>3
    <2> QED BY <1>2, <2>1 DEF Descends
<1>8. AllMet(next)
    <2>1. ASSUME NEW n \in 1 .. N PROVE Meets(next, next.nodes[n].key, n)
        <3>1. PICK d \in 0 .. N : Way(table, table.nodes[n].key)[d] = n
            BY <1>1 DEF AllMet, Meets
        <3>2. Way(next, next.nodes[n].key)[d] = n /\ d \in 0 .. N + 1
            BY <1>1, <1>3, <1>4, <3>1
        <3> QED BY <1>2, <3>2 DEF Meets
    <2>2. Meets(next, next.nodes[N + 1].key, N + 1)
        BY <1>3, <1>5 DEF next
    <2>3. ASSUME NEW n \in DOMAIN next.nodes PROVE Meets(next, next.nodes[n].key, n)
        <3>1. n \in 1 .. N \/ n = N + 1
            BY <1>1, <1>2, <2>3
        <3> QED BY <2>1, <2>2, <3>1
    <2> QED BY <2>3 DEF AllMet
<1>9. TrieOK(next, texts)
    BY <1>2, <1>6, <1>7, <1>8 DEF TrieOK
<1> QED BY <1>9 DEF next

LEMMA InternOK ==
    ASSUME NEW table, NEW texts, NEW text \in texts, Hashed(texts), TrieOK(table, texts)
    PROVE  TrieOK(Intern(table, text), texts)
BY WithNodeOK DEF Intern

LEMMA EmptyOK ==
    ASSUME NEW texts
    PROVE  TrieOK(EmptySymtab, texts)
<1>1. EmptySymtab.nodes = <<>> /\ EmptySymtab.capacity = 0
    BY DEF EmptySymtab
<1>2. DOMAIN EmptySymtab.nodes = {} /\ Len(EmptySymtab.nodes) = 0
    BY <1>1
<1>3. TableType(EmptySymtab, texts)
    BY <1>1 DEF TableType, EmptySymtab
<1> QED BY <1>1, <1>2, <1>3 DEF TrieOK, Descends, AllMet

LEMMA TableInOrder ==
    ASSUME NEW texts, Hashed(texts)
    PROVE  SymtabSpec(texts) => []TrieOK(symtab, texts)
<1>1. symtab = EmptySymtab => TrieOK(symtab, texts)
    BY EmptyOK
<1>2. TrieOK(symtab, texts) /\ [\E text \in texts : symtab' = Intern(symtab, text)]_symtab
        => TrieOK(symtab, texts)'
    <2>1. ASSUME TrieOK(symtab, texts), NEW text \in texts, symtab' = Intern(symtab, text)
          PROVE  TrieOK(symtab', texts)
        BY <2>1, InternOK
    <2> QED BY <2>1
<1> QED BY <1>1, <1>2, PTL DEF SymtabSpec

LEMMA KeyMet ==
    ASSUME NEW table, NEW texts, Hashed(texts), TrieOK(table, texts), NEW n \in DOMAIN table.nodes
    PROVE  /\ LastNode(table, table.nodes[n].key) = n
           /\ IsInterned(table, table.nodes[n].key) /\ NumberOf(table, table.nodes[n].key) = n - 1
<1>1. table.nodes[n].key \in texts
    BY NodeTypes DEF TrieOK
<1>2. LastNode(table, table.nodes[n].key) = n
    BY <1>1, MetIsLast DEF TrieOK, AllMet
<1>3. table.nodes # <<>>
    BY NodeTypes DEF TrieOK
<1> QED BY <1>2, <1>3 DEF IsInterned, NumberOf

(* Whatever texts are interned and however they are hashed, also if all of   *)
(* them have the same hash, and however often the array is reallocated:      *)
(* every name has one number and is found under it (symtab.c:25-81).         *)
THEOREM NamesInternedOnce ==
    ASSUME NEW texts, Hashed(texts)
    PROVE  SymtabSpec(texts) => []InternedOnce
<1>1. TrieOK(symtab, texts) => InternedOnce
    BY KeyMet DEF InternedOnce
<1> QED BY <1>1, TableInOrder, PTL

(* The array is never written behind its end (symtab.c:46-61).               *)
THEOREM WithinCapacity ==
    ASSUME NEW texts, Hashed(texts)
    PROVE  SymtabSpec(texts) => [](Len(symtab.nodes) <= symtab.capacity)
<1>1. TrieOK(symtab, texts) => Len(symtab.nodes) <= symtab.capacity
    BY DEF TrieOK
<1> QED BY <1>1, TableInOrder, PTL

(* The names of the numbers that have been returned stay.                    *)
NumbersKept ==
    \A n \in DOMAIN symtab.nodes : /\ n \in DOMAIN symtab'.nodes
                                   /\ Lookup(symtab', n - 1) = Lookup(symtab, n - 1)

(* A number that mara_symtab_intern has once returned names the same text    *)
(* ever after (symtab.c:46-61): compiled code and values of other zones hold *)
(* it.                                                                       *)
THEOREM NumbersNeverChange ==
    ASSUME NEW texts, Hashed(texts)
    PROVE  SymtabSpec(texts) => [][NumbersKept]_symtab
<1>1. ASSUME TrieOK(symtab, texts), NEW text \in texts, symtab' = Intern(symtab, text)
      PROVE  NumbersKept
    <2>1. CASE IsInterned(symtab, text)
        BY <1>1, <2>1 DEF Intern, NumbersKept, Lookup
    <2>2. CASE ~ IsInterned(symtab, text)
        <3>1. symtab' = WithNode(symtab, text)
            BY <1>1, <2>2 DEF Intern
        <3>2. ASSUME NEW n \in DOMAIN symtab.nodes
              PROVE  n \in DOMAIN symtab'.nodes /\ symtab'.nodes[n].key = symtab.nodes[n].key /\ (n - 1) + 1 = n
            <4>1. NodeKept(symtab, symtab', n) /\ TableType(symtab', texts)
                  /\ Len(symtab'.nodes) = Len(symtab.nodes) + 1
                BY <1>1, <2>2, <3>1, NodesAfter
            <4>2. DOMAIN symtab'.nodes = 1 .. Len(symtab'.nodes)
                BY <4>1 DEF TableType
            <4>3. Len(symtab.nodes) \in Nat /\ DOMAIN symtab.nodes = 1 .. Len(symtab.nodes)
                BY <1>1, NodeTypes DEF TrieOK
            <4> QED BY <4>1, <4>2, <4>3 DEF NodeKept
        <3> QED BY <3>2 DEF NumbersKept, Lookup
    <2> QED BY <2>1, <2>2
<1>2. TrieOK(symtab, texts) /\ [\E text \in texts : symtab' = Intern(symtab, text)]_symtab
        => [NumbersKept]_symtab
    BY <1>1
<1> QED BY <1>2, TableInOrder, PTL DEF SymtabSpec

(* mara_symtab_intern returns the number of the text.                        *)
THEOREM InternReturnsNumber ==
    ASSUME NEW table, NEW texts, Hashed(texts), TrieOK(table, texts), NEW text \in texts
    PROVE  /\ NumberOf(Intern(table, text), text) \in 0 .. Len(Intern(table, text).nodes) - 1
           /\ Lookup(Intern(table, text), NumberOf(Intern(table, text), text)) = text
<1>1. CASE IsInterned(table, text)
    <2>1. table.nodes # <<>> /\ table.nodes[LastNode(table, text)].key = text
        BY <1>1 DEF IsInterned
    <2>2. PICK d \in 0 .. Len(table.nodes) - 1 :
             Way(table, text)[d] \in DOMAIN table.nodes /\ Way(table, text)[d + 1] = 0
        BY <2>1, LastExists DEF TrieOK
    <2>3. TableType(table, texts) /\ Descends(table)
        BY DEF TrieOK
    <2>4. Len(table.nodes) \in Nat /\ DOMAIN table.nodes = 1 .. Len(table.nodes)
        BY <2>2, <2>3, NodeTypes
    <2>5. d \in 0 .. Len(table.nodes) /\ Way(table, text)[d] # 0
        BY <2>2, <2>4
    <2>6. LastNode(table, text) = Way(table, text)[d]
        BY <2>2, <2>3, <2>5, LastIs
    <2>7. LastNode(table, text) - 1 \in 0 .. Len(table.nodes) - 1
          /\ (LastNode(table, text) - 1) + 1 = LastNode(table, text)
        BY <2>2, <2>4, <2>6
    <2> QED BY <1>1, <2>1, <2>7 DEF Intern, NumberOf, Lookup
<1>2. CASE ~ IsInterned(table, text)
    <2> DEFINE next == WithNode(table, text)
               N == Len(table.nodes)
    <2>1. N \in Nat /\ N + 1 \in 1 .. N + 1
        BY DEF TrieOK, TableType
    <2>2. TrieOK(next, texts) /\ Len(next.nodes) = N + 1 /\ next.nodes[N + 1].key = text
        BY <1>2, WithNodeOK, NodesAfter
    <2> HIDE DEF next
    <2>3. N + 1 \in DOMAIN next.nodes
        BY <2>1, <2>2 DEF TrieOK, TableType
    <2>4. NumberOf(next, text) = (N + 1) - 1
        BY <2>2, <2>3, KeyMet
    <2>5. NumberOf(next, text) + 1 = N + 1 /\ NumberOf(next, text) \in 0 .. Len(next.nodes) - 1
        BY <2>1, <2>2, <2>4
    <2>6. Lookup(next, NumberOf(next, text)) = text
        BY <2>2, <2>5 DEF Lookup
    <2> QED BY <1>2, <2>5, <2>6 DEF Intern, next
<1> QED BY <1>1, <1>2

-----------------------------------------------------------------------------
(* Sequences of anything.                                                    *)
IsSeq(s) == \E S : s \in Seq(S)

LEMMA SeqIs ==
    ASSUME NEW s, IsSeq(s)
    PROVE  Len(s) \in Nat /\ DOMAIN s = 1 .. Len(s)
BY DEF IsSeq

LEMMA SeqAppend ==
    ASSUME NEW s, IsSeq(s), NEW x
    PROVE  /\ IsSeq(Append(s, x)) /\ Len(Append(s, x)) = Len(s) + 1
           /\ DOMAIN Append(s, x) = 1 .. Len(s) + 1
           /\ Append(s, x)[Len(s) + 1] = x
           /\ \A n \in 1 .. Len(s) : Append(s, x)[n] = s[n]
<1>1. PICK S : s \in Seq(S)
    BY DEF IsSeq
<1>2. s \in Seq(S \cup {x}) /\ x \in S \cup {x}
    <2>1. S \subseteq S \cup {x}
        OBVIOUS
    <2> QED BY <1>1, <2>1
<1>3. /\ Append(s, x) \in Seq(S \cup {x}) /\ Len(Append(s, x)) = Len(s) + 1
      /\ Append(s, x)[Len(s) + 1] = x /\ \A n \in 1 .. Len(s) : Append(s, x)[n] = s[n]
    BY <1>2, AppendProperties
<1> QED BY <1>3 DEF IsSeq

LEMMA SeqPrefix ==
    ASSUME NEW s, IsSeq(s), NEW m \in 0 .. Len(s)
    PROVE  /\ IsSeq(SubSeq(s, 1, m)) /\ Len(SubSeq(s, 1, m)) = m
           /\ \A n \in 1 .. m : SubSeq(s, 1, m)[n] = s[n]
<1>1. PICK S : s \in Seq(S)
    BY DEF IsSeq
<1>2. /\ SubSeq(s, 1, m) \in Seq(S) /\ Len(SubSeq(s, 1, m)) = m
      /\ \A n \in 1 .. m : SubSeq(s, 1, m)[n] = s[n]
    BY <1>1
<1> QED BY <1>2 DEF IsSeq

LEMMA SeqFrom ==
    ASSUME NEW n \in Nat, NEW f, f = [i \in 1 .. n |-> f[i]]
    PROVE  IsSeq(f) /\ Len(f) = n
<1>1. f \in [1 .. n -> {f[i] : i \in 1 .. n}]
    OBVIOUS
<1>2. f \in Seq({f[i] : i \in 1 .. n}) /\ Len(f) = n
    BY <1>1
<1> QED BY <1>2 DEF IsSeq

-----------------------------------------------------------------------------
(* The elements of a list: what a node more or fewer changes.                *)
Gathers(f, ns, k, m) ==
    f = [n \in 0 .. m |-> IF n = 0 THEN <<>>
                          ELSE IF ns[n].list = k THEN Append(f[n - 1], ns[n]) ELSE f[n - 1]]

Gathered(ns, k, m) == \E f : Gathers(f, ns, k, m)

LEMMA GatheredFurther ==
    ASSUME NEW ns, NEW k, NEW m \in Nat, Gathered(ns, k, m)
    PROVE  Gathered(ns, k, m + 1)
<1>1. PICK g : Gathers(g, ns, k, m)
    BY DEF Gathered
<1> DEFINE Step(s, n) == IF ns[n].list = k THEN Append(s, ns[n]) ELSE s
           f == [n \in 0 .. m + 1 |-> IF n = m + 1 THEN Step(g[m], m + 1) ELSE g[n]]
           h == [n \in 0 .. m + 1 |-> IF n = 0 THEN <<>> ELSE Step(f[n - 1], n)]
<1>2. g = [n \in 0 .. m |-> IF n = 0 THEN <<>> ELSE Step(g[n - 1], n)]
    BY <1>1 DEF Gathers
<1> HIDE DEF Step
<1>3. ASSUME NEW n \in 0 .. m + 1 PROVE f[n] = h[n]
    <2>1. CASE n = 0
        <3>1. f[n] = g[0] /\ 0 \in 0 .. m /\ h[n] = <<>>
            BY <2>1
        <3>2. g[0] = <<>>
            BY <1>2, <3>1
        <3> QED BY <3>1, <3>2
    <2>2. CASE n \in 1 .. m
        <3>1. /\ n \in 0 .. m /\ n - 1 \in 0 .. m /\ n # 0 /\ n # m + 1 /\ n - 1 # m + 1
              /\ n - 1 \in 0 .. m + 1
            BY <2>2
        <3>2. f[n] = g[n] /\ f[n - 1] = g[n - 1]
            BY <3>1
        <3>3. g[n] = Step(g[n - 1], n)
            BY <1>2, <3>1
        <3>4. h[n] = Step(f[n - 1], n)
            BY <3>1
        <3> QED BY <3>2, <3>3, <3>4
    <2>3. CASE n = m + 1
        <3>1. n - 1 = m /\ m \in 0 .. m + 1 /\ m # m + 1 /\ n # 0
            BY <2>3
        <3>2. f[m] = g[m] /\ f[n] = Step(g[m], n)
            BY <2>3, <3>1
        <3>3. h[n] = Step(f[n - 1], n)
            BY <3>1
        <3> QED BY <3>1, <3>2, <3>3
    <2> QED BY <2>1, <2>2, <2>3
<1>4. f = h
    <2>1. DOMAIN f = DOMAIN h /\ \A n \in 0 .. m + 1 : f[n] = h[n]
        BY <1>3
    <2> QED BY <2>1
<1>5. Gathers(f, ns, k, m + 1)
    BY <1>4 DEF Gathers, Step
<1> HIDE DEF f, h
<1> QED BY <1>5 DEF Gathered

LEMMA GatheredAll ==
    ASSUME NEW ns, NEW k, NEW m \in Nat
    PROVE  Gathered(ns, k, m)
<1> DEFINE S == {n \in Nat : ~ Gathered(ns, k, n)}
<1>1. Gathered(ns, k, 0)
    <2> DEFINE f == [n \in 0 .. 0 |-> <<>>]
    <2>1. f = [n \in 0 .. 0 |-> IF n = 0 THEN <<>>
                                ELSE IF ns[n].list = k THEN Append(f[n - 1], ns[n]) ELSE f[n - 1]]
        OBVIOUS
    <2> HIDE DEF f
    <2> QED BY <2>1 DEF Gathered, Gathers
<1>2. SUFFICES ASSUME S # {} PROVE FALSE
    OBVIOUS
<1>3. PICK n \in S : \A i \in S : n <= i
    <2> HIDE DEF S
    <2>1. S \in SUBSET Nat
        BY DEF S
    <2> QED BY <1>2, <2>1, LeastOf
<1>4. n \in Nat /\ n # 0 /\ ~ Gathered(ns, k, n)
    BY <1>1, <1>3
<1>5. n - 1 \in Nat /\ n - 1 \notin S /\ (n - 1) + 1 = n
    BY <1>3, <1>4
<1>6. Gathered(ns, k, n - 1)
    BY <1>5
<1> QED BY <1>4, <1>5, <1>6, GatheredFurther

LEMMA ElementsGathered ==
    ASSUME NEW ns, NEW k, Len(ns) \in Nat
    PROVE  \E f : Gathers(f, ns, k, Len(ns)) /\ Elements(ns, k) = f[Len(ns)]
<1> DEFINE f == CHOOSE g : Gathers(g, ns, k, Len(ns))
<1>1. Elements(ns, k) = f[Len(ns)]
    BY DEF Elements, Gathers
<1>2. PICK g : Gathers(g, ns, k, Len(ns))
    BY GatheredAll DEF Gathered
<1>3. Gathers(f, ns, k, Len(ns))
    BY <1>2
<1> QED BY <1>1, <1>3

(* They depend only on the nodes.                                            *)
Agree(ns, ms, m) == \A n \in 1 .. m : ns[n] = ms[n]

LEMMA GatherAlike ==
    ASSUME NEW ns, NEW ms, NEW k, NEW m \in Nat, NEW p \in Nat, m <= p,
           NEW f, Gathers(f, ns, k, m), NEW g, Gathers(g, ms, k, p), Agree(ns, ms, m)
    PROVE  f[m] = g[m]
<1> DEFINE S == {n \in 0 .. m : f[n] # g[n]}
           Step(s, n) == IF ns[n].list = k THEN Append(s, ns[n]) ELSE s
<1>1. \A n \in 0 .. m : f[n] = IF n = 0 THEN <<>> ELSE Step(f[n - 1], n)
    BY DEF Gathers
<1>2. \A n \in 0 .. m : g[n] = IF n = 0 THEN <<>> ELSE Step(g[n - 1], n)
    <2>1. ASSUME NEW n \in 0 .. m PROVE g[n] = IF n = 0 THEN <<>> ELSE Step(g[n - 1], n)
        <3>1. n \in 0 .. p /\ (n # 0 => ns[n] = ms[n])
            BY DEF Agree
        <3> QED BY <3>1 DEF Gathers
    <2> QED BY <2>1
<1>3. SUFFICES ASSUME S # {} PROVE FALSE
    OBVIOUS
<1>4. PICK n \in S : \A i \in S : n <= i
    <2> HIDE DEF S
    <2>1. S \in SUBSET Nat
        BY DEF S
    <2> QED BY <1>3, <2>1, LeastOf
<1> HIDE DEF Step
<1>5. n \in 0 .. m /\ f[n] # g[n] /\ n # 0
    BY <1>1, <1>2, <1>4
<1>6. n - 1 \in 0 .. m /\ n - 1 \notin S
    BY <1>4, <1>5
<1>7. f[n - 1] = g[n - 1]
    BY <1>6
<1> QED BY <1>1, <1>2, <1>5, <1>7

LEMMA ElementsAppend ==
    ASSUME NEW ns, IsSeq(ns), NEW k, NEW x
    PROVE  Elements(Append(ns, x), k) =
              IF x.list = k THEN Append(Elements(ns, k), x) ELSE Elements(ns, k)
<1> DEFINE ms == Append(ns, x)
           m == Len(ns)
<1>1. m \in Nat /\ Len(ms) = m + 1 /\ ms[m + 1] = x /\ \A n \in 1 .. m : ns[n] = ms[n]
    BY SeqIs, SeqAppend
<1> HIDE DEF ms
<1>2. PICK f : Gathers(f, ns, k, m) /\ Elements(ns, k) = f[m]
    BY <1>1, ElementsGathered
<1>3. PICK g : Gathers(g, ms, k, m + 1) /\ Elements(ms, k) = g[m + 1]
    BY <1>1, ElementsGathered
<1>4. f[m] = g[m]
    <2>1. m \in 0 .. m /\ m <= m + 1 /\ m + 1 \in Nat
        BY <1>1
    <2>2. Agree(ns, ms, m)
        BY <1>1 DEF Agree
    <2> QED BY <1>1, <1>2, <1>3, <2>1, <2>2, GatherAlike
<1>5. g[m + 1] = IF ms[m + 1].list = k THEN Append(g[m], ms[m + 1]) ELSE g[m]
    <2>1. m + 1 \in 0 .. m + 1 /\ m + 1 # 0 /\ (m + 1) - 1 = m
        BY <1>1
    <2> QED BY <1>3, <2>1 DEF Gathers
<1> QED BY <1>1, <1>2, <1>3, <1>4, <1>5 DEF ms

LEMMA ElementsPrefix ==
    ASSUME NEW ns, IsSeq(ns), NEW k, NEW m \in 0 .. Len(ns),
           \A n \in m + 1 .. Len(ns) : ns[n].list # k
    PROVE  Elements(SubSeq(ns, 1, m), k) = Elements(ns, k)
<1> DEFINE ms == SubSeq(ns, 1, m)
           N == Len(ns)
<1>1. N \in Nat /\ m \in Nat /\ Len(ms) = m /\ \A n \in 1 .. m : ms[n] = ns[n]
    BY SeqIs, SeqPrefix
<1> HIDE DEF ms
<1>2. PICK f : Gathers(f, ms, k, m) /\ Elements(ms, k) = f[m]
    BY <1>1, ElementsGathered
<1>3. PICK g : Gathers(g, ns, k, N) /\ Elements(ns, k) = g[N]
    BY <1>1, ElementsGathered
<1>4. f[m] = g[m]
    <2>1. m \in 0 .. m /\ m <= N
        BY <1>1
    <2>2. Agree(ms, ns, m)
        BY <1>1 DEF Agree
    <2> QED BY <1>1, <1>2, <1>3, <2>1, <2>2, GatherAlike
<1> DEFINE S == {n \in m .. N : g[n] # g[m]}
<1>5. S = {}
    <2>1. SUFFICES ASSUME S # {} PROVE FALSE
        OBVIOUS
    <2>2. PICK n \in S : \A i \in S : n <= i
        <3> HIDE DEF S
        <3>1. S \in SUBSET Nat
            BY <1>1 DEF S
        <3> QED BY <2>1, <3>1, LeastOf
    <2>3. n \in m + 1 .. N /\ n \in 0 .. N /\ n # 0 /\ g[n] # g[m] /\ n - 1 \in m .. N
        BY <1>1, <2>2
    <2>4. g[n] = g[n - 1]
        BY <1>3, <2>3 DEF Gathers
    <2>5. n - 1 \in S
        BY <2>3, <2>4
    <2>6. n <= n - 1
        BY <2>2, <2>5
    <2> QED BY <1>1, <2>3, <2>6
<1>6. g[N] = g[m]
    <2>1. N \in m .. N
        BY <1>1
    <2> QED BY <1>5, <2>1
<1> QED BY <1>2, <1>3, <1>4, <1>6 DEF ms

(* Each of them is a node of the list.                                       *)
LEMMA ElementsAreNodes ==
    ASSUME NEW ns, IsSeq(ns), NEW k
    PROVE  /\ IsSeq(Elements(ns, k))
           /\ \A i \in DOMAIN Elements(ns, k) :
                 \E n \in DOMAIN ns : Elements(ns, k)[i] = ns[n] /\ ns[n].list = k
<1> DEFINE N == Len(ns)
           Good(s) == /\ IsSeq(s)
                      /\ \A i \in DOMAIN s : \E n \in DOMAIN ns : s[i] = ns[n] /\ ns[n].list = k
<1>1. N \in Nat /\ DOMAIN ns = 1 .. N
    BY SeqIs
<1>2. PICK f : Gathers(f, ns, k, N) /\ Elements(ns, k) = f[N]
    BY <1>1, ElementsGathered
<1> DEFINE S == {n \in 0 .. N : ~ Good(f[n])}
<1>3. SUFFICES S = {}
    <2>1. N \in 0 .. N
        BY <1>1
    <2> QED BY <1>2, <2>1
<1>4. SUFFICES ASSUME S # {} PROVE FALSE
    OBVIOUS
<1>5. PICK n \in S : \A i \in S : n <= i
    <2> HIDE DEF S
    <2>1. S \in SUBSET Nat
        BY <1>1 DEF S
    <2> QED BY <1>4, <2>1, LeastOf
<1>6. n \in 0 .. N /\ ~ Good(f[n])
    BY <1>5
<1>7. n # 0
    <2>1. Good(<<>>)
        <3>1. <<>> \in Seq({})
            OBVIOUS
        <3>2. DOMAIN <<>> = {}
            OBVIOUS
        <3> QED BY <3>1, <3>2 DEF IsSeq
    <2>2. f[0] = <<>>
        BY <1>1, <1>2 DEF Gathers
    <2> QED BY <1>6, <2>1, <2>2
<1>8. n - 1 \in 0 .. N /\ n - 1 \notin S /\ n \in 1 .. N
    BY <1>1, <1>5, <1>6, <1>7
<1>9. Good(f[n - 1])
    BY <1>8
<1>10. f[n] = IF ns[n].list = k THEN Append(f[n - 1], ns[n]) ELSE f[n - 1]
    BY <1>2, <1>6, <1>7 DEF Gathers
<1>11. CASE ns[n].list = k
    <2> DEFINE s == f[n - 1]
               t == Append(s, ns[n])
    <2>1. /\ IsSeq(t) /\ DOMAIN t = 1 .. Len(s) + 1 /\ t[Len(s) + 1] = ns[n]
          /\ \A i \in 1 .. Len(s) : t[i] = s[i]
        BY <1>9, SeqAppend
    <2>2. Len(s) \in Nat /\ DOMAIN s = 1 .. Len(s)
        BY <1>9, SeqIs
    <2> HIDE DEF t
    <2>3. ASSUME NEW i \in DOMAIN t PROVE \E j \in DOMAIN ns : t[i] = ns[j] /\ ns[j].list = k
        <3>1. CASE i = Len(s) + 1
            BY <1>1, <1>8, <1>11, <2>1, <3>1
        <3>2. CASE i \in 1 .. Len(s)
            BY <1>9, <2>1, <2>2, <3>2
        <3> QED BY <2>1, <2>2, <3>1, <3>2
    <2>4. Good(t)
        BY <2>1, <2>3
    <2>5. f[n] = t
        BY <1>10, <1>11 DEF t
    <2> QED BY <1>6, <2>4, <2>5
<1>12. CASE ns[n].list # k
    BY <1>6, <1>9, <1>10, <1>12
<1> QED BY <1>11, <1>12

-----------------------------------------------------------------------------
(* The lists that are being read, and the arena with their nodes: what ")"   *)
(* releases are the nodes of the list that it closes, for a list notes how   *)
(* many nodes the lists around it have.                                      *)
OpenLists == [start : Positions, token : Spans, snapshot : Nat, len : Nat]

ValueOK(value, n, table) ==
    /\ value.type = "list" => value.is \in 1 .. n
    /\ value.type = "symbol" => value.is \in 0 .. Len(table.nodes) - 1

NodeOK(x, ls, n, table) ==
    x.list \in DOMAIN ls /\ x.range \in Spans /\ ValueOK(x.value, n, table)

ListOK(ls, ns, k) ==
    /\ ls[k].len = Len(Elements(ns, k))
    /\ ls[k].snapshot <= Len(ns)
    /\ \A i \in DOMAIN ns : i > ls[k].snapshot <=> ns[i].list >= k

StackOK(ls, ns, n, table) ==
    /\ ls \in Seq(OpenLists) /\ IsSeq(ns)
    /\ \A i \in DOMAIN ns : NodeOK(ns[i], ls, n, table)
    /\ \A k \in DOMAIN ls : ListOK(ls, ns, k)

LEMMA StackTypes ==
    ASSUME NEW ls, NEW ns, NEW n, NEW table, StackOK(ls, ns, n, table)
    PROVE  /\ Len(ls) \in Nat /\ DOMAIN ls = 1 .. Len(ls)
           /\ Len(ns) \in Nat /\ DOMAIN ns = 1 .. Len(ns)
           /\ \A k \in DOMAIN ls :
                 /\ ls[k].start \in Positions /\ ls[k].token \in Spans
                 /\ ls[k].snapshot \in Nat /\ ls[k].len \in Nat
                 /\ ls[k] \in OpenLists
<1>1. ls \in Seq(OpenLists) /\ IsSeq(ns)
    BY DEF StackOK
<1>2. Len(ns) \in Nat /\ DOMAIN ns = 1 .. Len(ns)
    BY <1>1, SeqIs
<1>3. Len(ls) \in Nat /\ DOMAIN ls = 1 .. Len(ls) /\ \A k \in DOMAIN ls : ls[k] \in OpenLists
    BY <1>1
<1> QED BY <1>2, <1>3 DEF OpenLists

LEMMA StackPush ==
    ASSUME NEW ls, NEW ns, NEW n, NEW table, StackOK(ls, ns, n, table), ls # <<>>,
           NEW value, ValueOK(value, n, table), NEW token \in Spans
    PROVE  StackOK([ls EXCEPT ![Len(ls)].len = @ + 1],
                   Append(ns, [list |-> Len(ls), value |-> value, range |-> token]), n, table)
<1> DEFINE d == Len(ls)
           x == [list |-> d, value |-> value, range |-> token]
           ms == Append(ns, x)
           ks == [ls EXCEPT ![d].len = @ + 1]
           N == Len(ns)
<1>1. /\ d \in Nat /\ DOMAIN ls = 1 .. d /\ N \in Nat /\ DOMAIN ns = 1 .. N
      /\ ls \in Seq(OpenLists) /\ IsSeq(ns)
    BY StackTypes DEF StackOK
<1>2. d \in 1 .. d
    BY <1>1
<1>3. /\ IsSeq(ms) /\ Len(ms) = N + 1 /\ DOMAIN ms = 1 .. N + 1 /\ ms[N + 1] = x
      /\ \A i \in 1 .. N : ms[i] = ns[i]
    BY <1>1, SeqAppend
<1>4. x.list = d /\ x.value = value /\ x.range = token
    OBVIOUS
<1>5. ks \in Seq(OpenLists) /\ DOMAIN ks = DOMAIN ls
    <2>1. [ls[d] EXCEPT !.len = @ + 1] \in OpenLists
        <3>1. ls[d] \in OpenLists
            BY <1>1, <1>2, StackTypes
        <3> QED BY <3>1 DEF OpenLists
    <2>2. ks = [ls EXCEPT ![d] = [ls[d] EXCEPT !.len = @ + 1]]
        BY <1>1, <1>2
    <2> QED BY <1>1, <1>2, <2>1, <2>2, ExceptSeq
<1>6. ASSUME NEW k \in DOMAIN ls
      PROVE  /\ ks[k].snapshot = ls[k].snapshot
             /\ ks[k].len = IF k = d THEN ls[k].len + 1 ELSE ls[k].len
    <2>1. ls[k] \in OpenLists
        BY StackTypes
    <2> QED BY <1>1, <2>1 DEF OpenLists
<1>7. \A k \in DOMAIN ls : Elements(ms, k) = IF k = d THEN Append(Elements(ns, k), x) ELSE Elements(ns, k)
    BY <1>1, <1>4, ElementsAppend
<1> HIDE DEF x, ms, ks
<1>8. ASSUME NEW i \in DOMAIN ms PROVE NodeOK(ms[i], ks, n, table)
    <2>1. CASE i = N + 1
        BY <1>1, <1>2, <1>3, <1>4, <1>5, <2>1 DEF NodeOK
    <2>2. CASE i \in 1 .. N
        BY <1>1, <1>3, <1>5, <2>2 DEF NodeOK, StackOK
    <2> QED BY <1>1, <1>3, <2>1, <2>2
<1>9. ASSUME NEW k \in DOMAIN ks PROVE ListOK(ks, ms, k)
    <2>1. k \in 1 .. d /\ ListOK(ls, ns, k)
        BY <1>1, <1>5 DEF StackOK
    <2>2. ks[k].len = Len(Elements(ms, k))
        <3>1. IsSeq(Elements(ns, k))
            BY <1>1, ElementsAreNodes
        <3>2. Len(Append(Elements(ns, k), x)) = Len(Elements(ns, k)) + 1
            BY <3>1, SeqAppend
        <3> QED BY <1>5, <1>6, <1>7, <2>1, <3>2 DEF ListOK
    <2>3. ks[k].snapshot = ls[k].snapshot /\ ls[k].snapshot \in Nat
        BY <1>5, <1>6, StackTypes
    <2>4. ks[k].snapshot <= Len(ms)
        BY <1>1, <1>3, <2>1, <2>3 DEF ListOK
    <2>5. ASSUME NEW i \in DOMAIN ms PROVE i > ks[k].snapshot <=> ms[i].list >= k
        <3>1. CASE i = N + 1
            BY <1>1, <1>3, <1>4, <2>1, <2>3, <3>1 DEF ListOK
        <3>2. CASE i \in 1 .. N
            BY <1>1, <1>3, <2>1, <2>3, <3>2 DEF ListOK
        <3> QED BY <1>1, <1>3, <3>1, <3>2
    <2> QED BY <2>2, <2>4, <2>5 DEF ListOK
<1>10. StackOK(ks, ms, n, table)
    BY <1>3, <1>5, <1>8, <1>9 DEF StackOK
<1> QED BY <1>10 DEF ks, ms, x

LEMMA StackOpen ==
    ASSUME NEW ls, NEW ns, NEW n, NEW table, StackOK(ls, ns, n, table),
           NEW start \in Positions, NEW token \in Spans
    PROVE  StackOK(Append(ls, [start |-> start, token |-> token, snapshot |-> Len(ns), len |-> 0]),
                   ns, n, table)
<1> DEFINE d == Len(ls)
           x == [start |-> start, token |-> token, snapshot |-> Len(ns), len |-> 0]
           ks == Append(ls, x)
           N == Len(ns)
<1>1. /\ d \in Nat /\ DOMAIN ls = 1 .. d /\ N \in Nat /\ DOMAIN ns = 1 .. N
      /\ ls \in Seq(OpenLists) /\ IsSeq(ns)
    BY StackTypes DEF StackOK
<1>2. x \in OpenLists /\ x.snapshot = N /\ x.len = 0
    BY <1>1 DEF OpenLists
<1>3. /\ ks \in Seq(OpenLists) /\ DOMAIN ks = 1 .. d + 1 /\ ks[d + 1] = x
      /\ \A k \in 1 .. d : ks[k] = ls[k]
    <2> HIDE DEF x
    <2> QED BY <1>1, <1>2, AppendProperties
<1> HIDE DEF x, ks
<1>4. \A i \in 1 .. N : NodeOK(ns[i], ls, n, table) /\ ns[i].list \in 1 .. d
    BY <1>1 DEF StackOK, NodeOK
<1>5. \A i \in DOMAIN ns : NodeOK(ns[i], ks, n, table)
    BY <1>1, <1>3, <1>4 DEF NodeOK
<1>6. ASSUME NEW k \in DOMAIN ks PROVE ListOK(ks, ns, k)
    <2>1. CASE k = d + 1
        <3>1. Elements(ns, k) = <<>>
            <4>1. /\ IsSeq(Elements(ns, k))
                  /\ \A i \in DOMAIN Elements(ns, k) :
                        \E j \in DOMAIN ns : Elements(ns, k)[i] = ns[j] /\ ns[j].list = k
                BY <1>1, ElementsAreNodes
            <4>2. DOMAIN Elements(ns, k) = {}
                <5>1. ASSUME NEW i \in DOMAIN Elements(ns, k) PROVE FALSE
                    <6>1. PICK j \in DOMAIN ns : ns[j].list = k
                        BY <4>1, <5>1
                    <6>2. k \in 1 .. d
                        BY <1>1, <1>4, <6>1
                    <6> QED BY <1>1, <2>1, <6>2
                <5> QED BY <5>1
            <4>3. Elements(ns, k) \in Seq({Elements(ns, k)[i] : i \in DOMAIN Elements(ns, k)})
                BY <4>1 DEF IsSeq
            <4>4. Len(Elements(ns, k)) \in Nat /\ DOMAIN Elements(ns, k) = 1 .. Len(Elements(ns, k))
                BY <4>1, SeqIs
            <4>5. Len(Elements(ns, k)) = 0
                BY <4>2, <4>4
            <4> QED BY <4>3, <4>5, EmptySeq
        <3>2. Len(<<>>) = 0
            OBVIOUS
        <3> QED BY <1>1, <1>2, <1>3, <1>4, <2>1, <3>1, <3>2 DEF ListOK
    <2>2. CASE k \in 1 .. d
        BY <1>1, <1>3, <2>2 DEF ListOK, StackOK
    <2> QED BY <1>1, <1>3, <2>1, <2>2
<1>7. StackOK(ks, ns, n, table)
    BY <1>1, <1>3, <1>5, <1>6 DEF StackOK
<1> QED BY <1>7 DEF ks, x

LEMMA StackClose ==
    ASSUME NEW ls, NEW ns, NEW n, NEW table, StackOK(ls, ns, n, table), Len(ls) > 1
    PROVE  /\ StackOK(Front(ls), SubSeq(ns, 1, ls[Len(ls)].snapshot), n, table)
           /\ Len(Front(ls)) = Len(ls) - 1 /\ Front(ls) # <<>>
<1> DEFINE d == Len(ls)
           m == ls[d].snapshot
           ks == Front(ls)
           ms == SubSeq(ns, 1, m)
           N == Len(ns)
<1>1. /\ d \in Nat /\ DOMAIN ls = 1 .. d /\ N \in Nat /\ DOMAIN ns = 1 .. N
      /\ ls \in Seq(OpenLists) /\ IsSeq(ns) /\ d \in DOMAIN ls
    BY StackTypes DEF StackOK
<1>2. m \in Nat /\ m <= N /\ \A i \in 1 .. N : i > m <=> ns[i].list >= d
    BY <1>1, StackTypes DEF StackOK, ListOK
<1>3. IsSeq(ms) /\ Len(ms) = m /\ DOMAIN ms = 1 .. m /\ \A i \in 1 .. m : ms[i] = ns[i]
    BY <1>1, <1>2, SeqPrefix, SeqIs
<1>4. /\ ks \in Seq(OpenLists) /\ Len(ks) = d - 1 /\ DOMAIN ks = 1 .. d - 1
      /\ \A k \in 1 .. d - 1 : ks[k] = ls[k]
    <2>1. ks = SubSeq(ls, 1, d - 1)
        BY DEF Front
    <2> QED BY <1>1, <2>1
<1>5. ks # <<>>
    BY <1>1, <1>4
<1> HIDE DEF ks, ms, m
<1>6. ASSUME NEW i \in DOMAIN ms PROVE NodeOK(ms[i], ks, n, table)
    <2>1. i \in 1 .. N /\ ms[i] = ns[i] /\ NodeOK(ns[i], ls, n, table) /\ ~ (i > m)
        BY <1>1, <1>2, <1>3 DEF StackOK
    <2>2. ns[i].list \in 1 .. d /\ ~ (ns[i].list >= d)
        BY <1>1, <1>2, <2>1 DEF NodeOK
    <2>3. ns[i].list \in DOMAIN ks
        BY <1>1, <1>4, <2>2
    <2> QED BY <2>1, <2>3 DEF NodeOK
<1>7. ASSUME NEW k \in DOMAIN ks PROVE ListOK(ks, ms, k)
    <2>1. k \in 1 .. d - 1 /\ k \in DOMAIN ls /\ ks[k] = ls[k] /\ ListOK(ls, ns, k) /\ ls[k].snapshot \in Nat
        <3>1. k \in 1 .. d - 1 /\ k \in DOMAIN ls /\ ks[k] = ls[k]
            BY <1>1, <1>4
        <3>2. ls[k].snapshot \in Nat
            BY <3>1, StackTypes
        <3>3. ListOK(ls, ns, k)
            BY <3>1 DEF StackOK
        <3> QED BY <3>1, <3>2, <3>3
    <2>2. ASSUME NEW i \in m + 1 .. N PROVE ns[i].list # k
        <3>1. i \in 1 .. N /\ i > m
            BY <1>2, <2>2
        <3>2. ns[i].list \in 1 .. d /\ ns[i].list >= d
            BY <1>1, <1>2, <3>1 DEF StackOK, NodeOK
        <3> QED BY <1>1, <2>1, <3>2
    <2>3. Elements(ms, k) = Elements(ns, k)
        BY <1>1, <1>2, <2>2, ElementsPrefix DEF ms
    <2>4. ls[k].snapshot <= m
        <3>1. SUFFICES ASSUME m < ls[k].snapshot PROVE FALSE
            BY <1>2, <2>1
        <3>2. m + 1 \in 1 .. N /\ m + 1 > m /\ ~ (m + 1 > ls[k].snapshot)
            BY <1>1, <1>2, <2>1, <3>1 DEF ListOK
        <3>3. ns[m + 1].list >= d /\ ~ (ns[m + 1].list >= k) /\ ns[m + 1].list \in 1 .. d
            BY <1>1, <1>2, <2>1, <3>2 DEF ListOK, StackOK, NodeOK
        <3> QED BY <1>1, <2>1, <3>3
    <2> QED BY <1>1, <1>2, <1>3, <2>1, <2>3, <2>4 DEF ListOK
<1>8. StackOK(ks, ms, n, table)
    BY <1>3, <1>4, <1>6, <1>7 DEF StackOK
<1> QED BY <1>4, <1>5, <1>8 DEF ks, ms, m

(* More lists and more symbols.                                              *)
LEMMA StackGrows ==
    ASSUME NEW ls, NEW ns, NEW n \in Nat, NEW table, StackOK(ls, ns, n, table),
           NEW m \in Nat, n <= m, NEW other,
           Len(table.nodes) \in Nat, Len(other.nodes) \in Nat, Len(table.nodes) <= Len(other.nodes)
    PROVE  StackOK(ls, ns, m, other)
<1>1. ASSUME NEW v, ValueOK(v, n, table) PROVE ValueOK(v, m, other)
    BY <1>1 DEF ValueOK
<1> QED BY <1>1 DEF StackOK, NodeOK

LEMMA SubSeqExtended ==
    ASSUME NEW S, NEW s \in Seq(S), NEW a \in Nat, NEW b \in Nat, a <= b, b + 1 <= Len(s)
    PROVE  SubSeq(s, a + 1, b + 1) = Append(SubSeq(s, a + 1, b), s[b + 1])
<1> DEFINE t == SubSeq(s, a + 1, b)
           u == SubSeq(s, a + 1, b + 1)
<1>1. t \in Seq(S) /\ Len(t) = b - a /\ \A i \in 1 .. b - a : t[i] = s[a + i]
    BY SubSeqProperties
<1>2. u \in Seq(S) /\ Len(u) = (b + 1) - a /\ \A i \in 1 .. (b + 1) - a : u[i] = s[a + i]
    BY SubSeqProperties
<1>3. s[b + 1] \in S
    OBVIOUS
<1> HIDE DEF t, u
<1>4. /\ Append(t, s[b + 1]) \in Seq(S) /\ Len(Append(t, s[b + 1])) = (b - a) + 1
      /\ Append(t, s[b + 1])[(b - a) + 1] = s[b + 1]
      /\ \A i \in 1 .. b - a : Append(t, s[b + 1])[i] = t[i]
    BY <1>1, <1>3, AppendProperties
<1> QED OBVIOUS

LEMMA SubSeqAlike ==
    ASSUME NEW S, NEW s \in Seq(S), NEW t \in Seq(S), Len(s) <= Len(t),
           \A i \in 1 .. Len(s) : t[i] = s[i],
           NEW a \in Nat, NEW b \in Nat, a <= b, b <= Len(s)
    PROVE  SubSeq(t, a + 1, b) = SubSeq(s, a + 1, b)
<1>1. /\ SubSeq(s, a + 1, b) \in Seq(S) /\ Len(SubSeq(s, a + 1, b)) = b - a
      /\ \A i \in 1 .. b - a : SubSeq(s, a + 1, b)[i] = s[a + i]
    BY SubSeqProperties
<1>2. /\ SubSeq(t, a + 1, b) \in Seq(S) /\ Len(SubSeq(t, a + 1, b)) = b - a
      /\ \A i \in 1 .. b - a : SubSeq(t, a + 1, b)[i] = t[a + i]
    BY SubSeqProperties
<1>3. \A i \in 1 .. b - a : SubSeq(t, a + 1, b)[i] = SubSeq(s, a + 1, b)[i]
    <2>1. ASSUME NEW i \in 1 .. b - a PROVE t[a + i] = s[a + i]
        OBVIOUS
    <2> QED BY <1>1, <1>2, <2>1
<1> DEFINE u == SubSeq(t, a + 1, b)
           v == SubSeq(s, a + 1, b)
<1> HIDE DEF u, v
<1>4. u \in Seq(S) /\ v \in Seq(S) /\ Len(u) = Len(v) /\ \A i \in 1 .. Len(u) : u[i] = v[i]
    BY <1>1, <1>2, <1>3 DEF u, v
<1>5. u = v
    BY <1>4
<1> QED BY <1>5 DEF u, v

-----------------------------------------------------------------------------
(* The lexer.  The reader is one character ahead at most, and every line has *)
(* at least one character; a line that has been left but not yet counted has *)
(* another one.                                                              *)
Whereabouts == [line : Nat, col : Nat, byte_offset : Nat]

CapturingModes == {"minus", "number", "real", "string", "escape", "symbol"}
Modes == {"next", "comment", "cr", "lf", "finish"} \cup CapturingModes

Lexers ==
    [pos : Whereabouts, start : Whereabouts, capturing : BOOLEAN, capture : Seq(alphabet),
     buf : alphabet \cup {Nothing, End, Failure}, mode : Modes]

PlaceOK(p) == p.line \in 1 .. p.byte_offset + 1 /\ p.col \in 1 .. p.byte_offset + 1

LexerOK(l) ==
    /\ l \in Lexers
    /\ PlaceOK(l.pos) /\ PlaceOK(l.start)
    /\ l.start.byte_offset <= l.pos.byte_offset
    /\ Len(l.capture) <= CaptureSize
    /\ l.buf \in alphabet => Len(input) = l.pos.byte_offset + 1 /\ input[Len(input)] = l.buf
    /\ l.buf \notin alphabet => Len(input) = l.pos.byte_offset

TextOK(l) ==
    l.capturing => l.capture = SubSeq(input, l.start.byte_offset + 1, l.pos.byte_offset)

HasLine(l) == l.pos.line <= l.pos.byte_offset

ScanOK(l) ==
    /\ TextOK(l)
    /\ l.capturing <=> l.mode \in CapturingModes
    /\ l.mode \in {"cr", "lf"} => HasLine(l)

InputOK == alphabet \in Alphabets /\ input \in Seq(alphabet) /\ Len(input) <= InputSize

LEMMA NoneIsNoChar ==
    ASSUME alphabet \in Alphabets
    PROVE  Nothing \notin alphabet /\ End \notin alphabet /\ Failure \notin alphabet
BY ParserAssumption

LEMMA Sizes == InputSize \in Nat /\ CaptureSize \in Nat
BY ParserAssumption

LEMMA PlaceIs ==
    ASSUME NEW p \in Whereabouts
    PROVE  /\ p.line \in Nat /\ p.col \in Nat /\ p.byte_offset \in Nat
           /\ p = [line |-> p.line, col |-> p.col, byte_offset |-> p.byte_offset]
BY DEF Whereabouts

LEMMA PlaceMoved ==
    ASSUME NEW p \in Whereabouts
    PROVE  /\ [p EXCEPT !.col = @ + 1, !.byte_offset = @ + 1] =
                 [line |-> p.line, col |-> p.col + 1, byte_offset |-> p.byte_offset + 1]
           /\ [p EXCEPT !.col = 1, !.line = @ + 1] =
                 [line |-> p.line + 1, col |-> 1, byte_offset |-> p.byte_offset]
<1>1. p \in [{"line", "col", "byte_offset"} -> Nat]
    BY DEF Whereabouts
<1> DEFINE q == [p EXCEPT !.col = @ + 1, !.byte_offset = @ + 1]
           r == [p EXCEPT !.col = 1, !.line = @ + 1]
<1>2. /\ DOMAIN q = {"line", "col", "byte_offset"}
      /\ q["line"] = p["line"] /\ q["col"] = p["col"] + 1 /\ q["byte_offset"] = p["byte_offset"] + 1
    BY <1>1
<1>3. /\ DOMAIN r = {"line", "col", "byte_offset"}
      /\ r["line"] = p["line"] + 1 /\ r["col"] = 1 /\ r["byte_offset"] = p["byte_offset"]
    BY <1>1
<1>4. /\ q = [i \in DOMAIN q |-> q[i]]
      /\ r = [i \in DOMAIN r |-> r[i]]
    OBVIOUS
<1> HIDE DEF q, r
<1>5. q = [line |-> p.line, col |-> p.col + 1, byte_offset |-> p.byte_offset + 1]
    BY <1>2, <1>4
<1>6. r = [line |-> p.line + 1, col |-> 1, byte_offset |-> p.byte_offset]
    BY <1>3, <1>4
<1> QED BY <1>5, <1>6 DEF q, r

LEMMA StepIs ==
    ASSUME NEW l \in Lexers
    PROVE  /\ Stepped(l) \in Lexers
           /\ Stepped(l).pos.line = l.pos.line
           /\ Stepped(l).pos.col = l.pos.col + 1
           /\ Stepped(l).pos.byte_offset = l.pos.byte_offset + 1
           /\ Stepped(l).start = l.start
           /\ Stepped(l).capturing = l.capturing
           /\ Stepped(l).capture = l.capture
           /\ Stepped(l).buf = Nothing
           /\ Stepped(l).mode = l.mode
<1> DEFINE p == [l.pos EXCEPT !.col = @ + 1, !.byte_offset = @ + 1]
<1>1. l.pos \in Whereabouts
    BY DEF Lexers
<1>2. /\ p \in Whereabouts /\ p.line = l.pos.line /\ p.col = l.pos.col + 1
      /\ p.byte_offset = l.pos.byte_offset + 1
    <2>1. p = [line |-> l.pos.line, col |-> l.pos.col + 1, byte_offset |-> l.pos.byte_offset + 1]
        BY <1>1, PlaceMoved
    <2>2. l.pos.line \in Nat /\ l.pos.col + 1 \in Nat /\ l.pos.byte_offset + 1 \in Nat
        BY <1>1, PlaceIs
    <2> HIDE DEF p
    <2> QED BY <2>1, <2>2 DEF Whereabouts
<1>3. Stepped(l) = [l EXCEPT !.buf = Nothing, !.pos = p]
    BY DEF Stepped, Lexers, Whereabouts
<1> HIDE DEF p
<1>4. /\ Stepped(l).pos = p /\ Stepped(l).start = l.start /\ Stepped(l).capturing = l.capturing
      /\ Stepped(l).capture = l.capture /\ Stepped(l).buf = Nothing /\ Stepped(l).mode = l.mode
    BY <1>3 DEF Lexers
<1>5. Stepped(l) \in Lexers
    BY <1>2, <1>3 DEF Lexers
<1> QED BY <1>2, <1>4, <1>5

(* A character is consumed.                                                  *)
LEMMA StepOK ==
    ASSUME InputOK, NEW l, LexerOK(l), l.buf \in alphabet
    PROVE  LexerOK(Stepped(l)) /\ HasLine(Stepped(l))
<1> DEFINE k == Stepped(l)
<1>1. l \in Lexers /\ Nothing \notin alphabet
    BY NoneIsNoChar DEF LexerOK, InputOK
<1>2. /\ l.pos.line \in Nat /\ l.pos.col \in Nat /\ l.pos.byte_offset \in Nat
      /\ l.start.byte_offset \in Nat
    BY <1>1 DEF Lexers, Whereabouts
<1>3. /\ k \in Lexers /\ k.pos.line = l.pos.line /\ k.pos.col = l.pos.col + 1
      /\ k.pos.byte_offset = l.pos.byte_offset + 1 /\ k.start = l.start
      /\ k.capture = l.capture /\ k.buf = Nothing
    BY <1>1, StepIs
<1> HIDE DEF k
<1>4. PlaceOK(k.pos)
    <2>1. l.pos.line \in 1 .. l.pos.byte_offset + 1 /\ l.pos.col \in 1 .. l.pos.byte_offset + 1
        BY DEF LexerOK, PlaceOK
    <2>2. k.pos.line \in 1 .. k.pos.byte_offset + 1 /\ k.pos.col \in 1 .. k.pos.byte_offset + 1
        BY <1>2, <1>3, <2>1
    <2> QED BY <2>2 DEF PlaceOK
<1>5. k.start.byte_offset <= k.pos.byte_offset
    BY <1>2, <1>3 DEF LexerOK
<1>6. Len(input) = k.pos.byte_offset
    BY <1>3 DEF LexerOK
<1>7. LexerOK(k)
    BY <1>1, <1>3, <1>4, <1>5, <1>6 DEF LexerOK
<1>8. HasLine(k)
    BY <1>2, <1>3 DEF HasLine, LexerOK, PlaceOK
<1> QED BY <1>7, <1>8 DEF k

LEMMA ConsumeIs ==
    ASSUME NEW l \in Lexers, l.capturing => l.buf \in alphabet
    PROVE  LET c == IF l.capturing THEN Append(l.capture, l.buf) ELSE l.capture
           IN  Consumed(l) = [Stepped(l) EXCEPT !.capture = c] /\ c \in Seq(alphabet)
<1>1. l.capture \in Seq(alphabet)
    BY DEF Lexers
<1>2. Stepped(l).capture = l.capture /\ Stepped(l) \in Lexers
    BY StepIs
<1>3. "capture" \in DOMAIN Stepped(l)
    BY <1>2 DEF Lexers
<1>4. Consumed(l) = [Stepped(l) EXCEPT !.capture = IF l.capturing THEN Append(l.capture, l.buf) ELSE l.capture]
    BY <1>2, <1>3 DEF Consumed
<1> QED BY <1>1, <1>4

LEMMA ConsumeOK ==
    ASSUME InputOK, NEW l, LexerOK(l), TextOK(l), l.buf \in alphabet, ~ IsTooLong(l)
    PROVE  /\ LexerOK(Consumed(l)) /\ TextOK(Consumed(l)) /\ HasLine(Consumed(l))
           /\ Consumed(l).buf = Nothing /\ Consumed(l).mode = l.mode
           /\ Consumed(l).capturing = l.capturing
<1> DEFINE k == Consumed(l)
           s == Stepped(l)
           c == IF l.capturing THEN Append(l.capture, l.buf) ELSE l.capture
<1>1. l \in Lexers /\ l.capture \in Seq(alphabet) /\ l.capturing \in BOOLEAN
    BY DEF LexerOK, Lexers
<1>2. k = [s EXCEPT !.capture = c] /\ c \in Seq(alphabet)
    BY <1>1, ConsumeIs
<1>3. LexerOK(s) /\ HasLine(s) /\ s \in Lexers
    BY StepOK DEF LexerOK
<1>4. /\ s.start = l.start /\ s.pos.byte_offset = l.pos.byte_offset + 1
      /\ s.capturing = l.capturing /\ s.buf = Nothing /\ s.mode = l.mode
    BY <1>1, StepIs
<1>5. Len(c) <= CaptureSize
    <2>1. CASE l.capturing
        <3>1. Len(c) = Len(l.capture) + 1 /\ Len(l.capture) \in Nat
            BY <1>1, <2>1
        <3>2. ~ (Len(l.capture) >= CaptureSize)
            BY <2>1 DEF IsTooLong
        <3> QED BY <3>1, <3>2, Sizes
    <2>2. CASE ~ l.capturing
        BY <2>2 DEF LexerOK
    <2> QED BY <2>1, <2>2
<1> HIDE DEF c, s, k
<1>6. /\ k.pos = s.pos /\ k.start = s.start /\ k.capturing = s.capturing /\ k.capture = c
      /\ k.buf = s.buf /\ k.mode = s.mode /\ k \in Lexers
    BY <1>2, <1>3 DEF Lexers
<1>7. LexerOK(k) /\ HasLine(k)
    BY <1>3, <1>5, <1>6 DEF LexerOK, HasLine
<1>8. TextOK(k)
    <2>1. SUFFICES ASSUME l.capturing
                   PROVE  c = SubSeq(input, l.start.byte_offset + 1, l.pos.byte_offset + 1)
        BY <1>4, <1>6 DEF TextOK
    <2>2. c = Append(SubSeq(input, l.start.byte_offset + 1, l.pos.byte_offset), l.buf)
        BY <2>1 DEF c, TextOK
    <2>3. /\ input \in Seq(alphabet) /\ Len(input) = l.pos.byte_offset + 1
          /\ input[l.pos.byte_offset + 1] = l.buf
        BY DEF InputOK, LexerOK
    <2>4. l.start.byte_offset \in Nat /\ l.pos.byte_offset \in Nat /\ l.start.byte_offset <= l.pos.byte_offset
        BY <1>1 DEF LexerOK, Lexers, Whereabouts
    <2>5. SubSeq(input, l.start.byte_offset + 1, l.pos.byte_offset + 1)
            = Append(SubSeq(input, l.start.byte_offset + 1, l.pos.byte_offset), input[l.pos.byte_offset + 1])
        <3>1. l.pos.byte_offset + 1 <= Len(input)
            BY <2>3, <2>4
        <3> QED BY <2>3, <2>4, <3>1, SubSeqExtended
    <2> QED BY <2>2, <2>3, <2>5
<1> QED BY <1>4, <1>6, <1>7, <1>8 DEF k

(* A token begins and ends.                                                  *)
LEMMA CaptureOK ==
    ASSUME InputOK, NEW l, LexerOK(l)
    PROVE  /\ LexerOK(Captured(l)) /\ TextOK(Captured(l))
           /\ Captured(l).buf = l.buf /\ Captured(l).capturing = TRUE
           /\ Captured(l).mode = l.mode
<1> DEFINE k == Captured(l)
<1>1. l \in Lexers /\ l.pos \in Whereabouts /\ l.pos.byte_offset \in Nat
    BY DEF LexerOK, Lexers, Whereabouts
<1>2. <<>> \in Seq(alphabet) /\ Len(<<>>) = 0
    OBVIOUS
<1>3. /\ k.pos = l.pos /\ k.start = l.pos /\ k.capturing = TRUE /\ k.capture = <<>>
      /\ k.buf = l.buf /\ k.mode = l.mode /\ k \in Lexers
    BY <1>1, <1>2 DEF Captured, Lexers
<1> HIDE DEF k
<1>4. LexerOK(k)
    BY <1>1, <1>2, <1>3, Sizes DEF LexerOK
<1>5. TextOK(k)
    <2>1. input \in Seq(alphabet)
        BY DEF InputOK
    <2>2. SubSeq(input, l.pos.byte_offset + 1, l.pos.byte_offset) = <<>>
        BY <1>1, <2>1
    <2> QED BY <1>3, <2>2 DEF TextOK
<1> QED BY <1>3, <1>4, <1>5 DEF k

LEMMA FreshOK ==
    ASSUME NEW l, LexerOK(l)
    PROVE  LexerOK(Fresh(l)) /\ ScanOK(Fresh(l)) /\ Fresh(l).mode = "next"
<1> DEFINE k == Fresh(l)
<1>1. l \in Lexers
    BY DEF LexerOK
<1>2. <<>> \in Seq(alphabet) /\ Len(<<>>) = 0
    OBVIOUS
<1>3. /\ k.pos = l.pos /\ k.start = l.start /\ k.capturing = FALSE /\ k.capture = <<>>
      /\ k.buf = l.buf /\ k.mode = "next" /\ k \in Lexers
    BY <1>1, <1>2 DEF Fresh, Lexers, Modes
<1> HIDE DEF k
<1>4. LexerOK(k)
    BY <1>2, <1>3, Sizes DEF LexerOK
<1>5. ScanOK(k)
    BY <1>3 DEF ScanOK, TextOK, CapturingModes
<1> QED BY <1>3, <1>4, <1>5 DEF k

LEMMA ModeOK ==
    ASSUME NEW l, LexerOK(l), TextOK(l), NEW mode \in Modes,
           l.capturing <=> mode \in CapturingModes,
           mode \in {"cr", "lf"} => HasLine(l)
    PROVE  LexerOK([l EXCEPT !.mode = mode]) /\ ScanOK([l EXCEPT !.mode = mode])
<1> DEFINE k == [l EXCEPT !.mode = mode]
<1>1. /\ k.pos = l.pos /\ k.start = l.start /\ k.capturing = l.capturing /\ k.capture = l.capture
      /\ k.buf = l.buf /\ k.mode = mode /\ k \in Lexers
    BY DEF LexerOK, Lexers
<1> HIDE DEF k
<1>2. LexerOK(k) /\ ScanOK(k)
    BY <1>1 DEF LexerOK, ScanOK, TextOK, HasLine
<1> QED BY <1>2 DEF k

LEMMA LineOK ==
    ASSUME NEW l, LexerOK(l), ~ l.capturing, HasLine(l)
    PROVE  LexerOK(NextLine(l)) /\ ScanOK(NextLine(l))
<1> DEFINE k == NextLine(l)
           p == [l.pos EXCEPT !.col = 1, !.line = @ + 1]
<1>1. l \in Lexers /\ l.pos \in Whereabouts
    BY DEF LexerOK, Lexers
<1>2. p \in Whereabouts /\ p.line = l.pos.line + 1 /\ p.col = 1 /\ p.byte_offset = l.pos.byte_offset
    <2>1. p = [line |-> l.pos.line + 1, col |-> 1, byte_offset |-> l.pos.byte_offset]
        BY <1>1, PlaceMoved
    <2>2. l.pos.line + 1 \in Nat /\ 1 \in Nat /\ l.pos.byte_offset \in Nat
        BY <1>1, PlaceIs
    <2> HIDE DEF p
    <2> QED BY <2>1, <2>2 DEF Whereabouts
<1>3. k = [l EXCEPT !.pos = p, !.mode = "next"]
    BY <1>1 DEF NextLine, Lexers, Whereabouts
<1> HIDE DEF p, k
<1>4. /\ k.pos = p /\ k.start = l.start /\ k.capturing = l.capturing /\ k.capture = l.capture
      /\ k.buf = l.buf /\ k.mode = "next" /\ k \in Lexers
    BY <1>1, <1>2, <1>3 DEF Lexers, Modes
<1>5. l.pos.line \in Nat /\ l.pos.byte_offset \in Nat
    BY <1>1 DEF Whereabouts
<1>6. PlaceOK(p)
    BY <1>2, <1>5 DEF PlaceOK, HasLine
<1>7. LexerOK(k)
    BY <1>2, <1>4, <1>6 DEF LexerOK
<1>8. ScanOK(k)
    BY <1>4 DEF ScanOK, TextOK, CapturingModes
<1> QED BY <1>7, <1>8 DEF k

(* Where the lexer is and where its token is.                                *)
LEMMA PlaceBounded ==
    ASSUME InputOK, NEW l, LexerOK(l)
    PROVE  /\ l.pos \in Positions /\ l.start \in Positions
           /\ LexerSpan(l) \in Spans
<1>1. l \in Lexers /\ l.pos \in Whereabouts /\ l.start \in Whereabouts /\ Len(input) \in Nat
    BY DEF LexerOK, Lexers, InputOK
<1>2. /\ l.pos.line \in Nat /\ l.pos.col \in Nat /\ l.pos.byte_offset \in Nat
      /\ l.start.line \in Nat /\ l.start.col \in Nat /\ l.start.byte_offset \in Nat
      /\ l.pos = [line |-> l.pos.line, col |-> l.pos.col, byte_offset |-> l.pos.byte_offset]
      /\ l.start = [line |-> l.start.line, col |-> l.start.col, byte_offset |-> l.start.byte_offset]
    BY <1>1 DEF Whereabouts
<1>3. l.pos.byte_offset <= InputSize
    BY <1>1, <1>2, Sizes DEF LexerOK, InputOK
<1>4. l.pos \in Positions
    BY <1>2, <1>3, Sizes DEF LexerOK, PlaceOK, Positions
<1>5. l.start \in Positions
    <2>1. l.start.byte_offset <= InputSize
        BY <1>2, <1>3, Sizes DEF LexerOK
    <2> QED BY <1>2, <2>1, Sizes DEF LexerOK, PlaceOK, Positions
<1>6. LexerSpan(l) \in Spans
    BY <1>4, <1>5 DEF LexerSpan, Span, Spans
<1> QED BY <1>4, <1>5, <1>6

-----------------------------------------------------------------------------
(* The invariant of mara_parse.                                              *)
Texts == Seq(UNION Alphabets)

ListsOK(ls, table) ==
    /\ IsSeq(ls)
    /\ \A n \in DOMAIN ls :
          IsSeq(ls[n]) /\ \A i \in DOMAIN ls[n] : ValueOK(ls[n][i], n - 1, table)

InfoOK(info, n) == \A k \in DOMAIN info : k[1] \in 1 .. n /\ info[k] \in Spans

ParseInv ==
    /\ InputOK
    /\ LexerOK(lexer)
    /\ status = "reading" => ScanOK(lexer)
    /\ status = "reading" <=> open # <<>>
    /\ StackOK(open, nodes, Len(lists), symtab)
    /\ ListsOK(lists, symtab)
    /\ InfoOK(debug_info, Len(lists))
    /\ range \in Spans
    /\ TrieOK(symtab, Texts)

Unread == UNCHANGED <<alphabet, parse_one, input>>

LEMMA LexerPrimed ==
    ASSUME Unread, NEW l, lexer' = l, LexerOK(l)
    PROVE  LexerOK(lexer)' /\ (ScanOK(l) => ScanOK(lexer)')
<1>1. alphabet' = alphabet /\ input' = input
    BY DEF Unread
<1>2. LexerOK(lexer)'
    BY <1>1 DEF LexerOK, Lexers
<1>3. ScanOK(l) => ScanOK(lexer)'
    BY <1>1 DEF ScanOK, TextOK, HasLine
<1> QED BY <1>2, <1>3

LEMMA StackEmpty ==
    ASSUME NEW n, NEW table
    PROVE  StackOK(<<>>, <<>>, n, table)
<1>1. <<>> \in Seq(OpenLists) /\ DOMAIN <<>> = {}
    OBVIOUS
<1>2. IsSeq(<<>>)
    <2>1. <<>> \in Seq({})
        OBVIOUS
    <2> QED BY <2>1 DEF IsSeq
<1> QED BY <1>1, <1>2 DEF StackOK

(* The lexer goes on.                                                        *)
LEMMA GoOnKeeps ==
    ASSUME ParseInv, Unread, status = "reading", NEW l, LexerOK(l), ScanOK(l), GoOn(l)
    PROVE  ParseInv'
<1>1. LexerOK(lexer)' /\ ScanOK(lexer)'
    BY LexerPrimed DEF GoOn
<1>2. InputOK'
    BY DEF Unread, ParseInv, InputOK
<1>3. UNCHANGED <<open, nodes, lists, debug_info, symtab, status, range>>
    BY DEF GoOn, parser
<1> QED BY <1>1, <1>2, <1>3 DEF ParseInv

(* mara_parse fails.                                                         *)
LEMMA FailKeeps ==
    ASSUME ParseInv, Unread, NEW l, LexerOK(l), NEW type, type # "reading", NEW r \in Spans,
           Fail(l, type, r)
    PROVE  ParseInv'
<1>1. LexerOK(lexer)'
    BY LexerPrimed DEF Fail
<1>2. InputOK'
    BY DEF Unread, ParseInv, InputOK
<1>3. /\ status' = type /\ range' = r /\ nodes' = <<>> /\ open' = <<>>
      /\ UNCHANGED <<lists, debug_info, symtab>>
    BY DEF Fail
<1>4. StackOK(open', nodes', Len(lists'), symtab')
    BY <1>3, StackEmpty
<1> QED BY <1>1, <1>2, <1>3, <1>4 DEF ParseInv

LEMMA LexerFailKeeps ==
    ASSUME ParseInv, Unread, NEW l, LexerOK(l), NEW type, type # "reading", LexerFail(l, type)
    PROVE  ParseInv'
BY FailKeeps, PlaceBounded DEF LexerFail, ParseInv

(* A character is consumed.                                                  *)
LEMMA ConsumeKeeps ==
    ASSUME ParseInv, Unread, status = "reading", NEW l, LexerOK(l), TextOK(l),
           l.buf \in alphabet, NEW mode \in Modes, l.capturing <=> mode \in CapturingModes,
           Consume(l, mode)
    PROVE  ParseInv'
<1>1. InputOK
    BY DEF ParseInv
<1>2. CASE IsTooLong(l)
    <2>1. LexerFail(Stepped(l), "element-too-long") /\ LexerOK(Stepped(l))
        BY <1>1, <1>2, StepOK DEF Consume
    <2> QED BY <2>1, LexerFailKeeps
<1>3. CASE ~ IsTooLong(l)
    <2> DEFINE k == Consumed(l)
    <2>1. GoOn([k EXCEPT !.mode = mode])
        BY <1>3 DEF Consume
    <2>2. LexerOK(k) /\ TextOK(k) /\ HasLine(k) /\ k.capturing = l.capturing
        BY <1>1, <1>3, ConsumeOK
    <2> HIDE DEF k
    <2>3. LexerOK([k EXCEPT !.mode = mode]) /\ ScanOK([k EXCEPT !.mode = mode])
        BY <2>2, ModeOK
    <2> QED BY <2>1, <2>3, GoOnKeeps
<1> QED BY <1>2, <1>3

(* A value is pushed to the innermost list.                                  *)
LEMMA PushedLexer ==
    ASSUME ParseInv, Unread, NEW l, LexerOK(l), NEW ls, NEW ns, NEW value, NEW token,
           Push(l, ls, ns, value, token)
    PROVE  LexerOK(lexer)' /\ ScanOK(lexer)'
<1>1. LexerOK(Fresh(l)) /\ ScanOK(Fresh(l)) /\ Fresh(l).mode = "next"
    BY FreshOK
<1>2. ~ Fresh(l).capturing /\ TextOK(Fresh(l))
    BY <1>1 DEF ScanOK, CapturingModes
<1> DEFINE mode == IF parse_one /\ Len(ls) = 1 THEN "finish" ELSE "next"
           k == [Fresh(l) EXCEPT !.mode = mode]
<1>3. mode \in Modes /\ mode \notin CapturingModes /\ mode \notin {"cr", "lf"}
    BY DEF Modes, CapturingModes
<1>4. lexer' = k
    BY <1>1 DEF Push
<1> HIDE DEF mode
<1>5. LexerOK(k) /\ ScanOK(k)
    BY <1>1, <1>2, <1>3, ModeOK
<1> HIDE DEF k
<1> QED BY <1>4, <1>5, LexerPrimed

LEMMA MoreLists ==
    ASSUME NEW ls, NEW table, NEW other, ListsOK(ls, table),
           Len(table.nodes) \in Nat, Len(other.nodes) \in Nat, Len(table.nodes) <= Len(other.nodes)
    PROVE  ListsOK(ls, other)
<1>1. ASSUME NEW v, NEW n, ValueOK(v, n, table) PROVE ValueOK(v, n, other)
    BY <1>1 DEF ValueOK
<1> QED BY <1>1 DEF ListsOK

LEMMA TokenKeeps ==
    ASSUME ParseInv, Unread, status = "reading", NEW l, LexerOK(l), NEW value,
           TrieOK(symtab', Texts), Len(symtab.nodes) <= Len(symtab'.nodes),
           ValueOK(value, Len(lists), symtab'), NEW token \in Spans,
           Push(l, open, nodes, value, token), UNCHANGED <<lists, debug_info>>
    PROVE  ParseInv'
<1>1. LexerOK(lexer)' /\ ScanOK(lexer)'
    BY PushedLexer
<1>2. InputOK'
    BY DEF Unread, ParseInv, InputOK
<1>3. /\ nodes' = Append(nodes, [list |-> Len(open), value |-> value, range |-> token])
      /\ open' = [open EXCEPT ![Len(open)].len = @ + 1]
      /\ UNCHANGED <<status, range>>
    BY DEF Push
<1>4. /\ Len(symtab.nodes) \in Nat /\ Len(symtab'.nodes) \in Nat
      /\ StackOK(open, nodes, Len(lists), symtab) /\ ListsOK(lists, symtab) /\ open # <<>>
      /\ Len(lists) \in Nat
    BY SeqIs DEF ParseInv, TrieOK, TableType, ListsOK
<1>5. StackOK(open, nodes, Len(lists), symtab') /\ ListsOK(lists, symtab')
    BY <1>4, StackGrows, MoreLists
<1>6. StackOK(open', nodes', Len(lists), symtab')
    BY <1>3, <1>4, <1>5, StackPush
<1>7. open' # <<>>
    BY <1>3, <1>4, StackTypes DEF StackOK
<1> QED BY <1>1, <1>2, <1>3, <1>5, <1>6, <1>7 DEF ParseInv

SpecialChars == Delimiters \cup DigitChars \cup {";", "-", "\"", "\\", "_", "."}

LEMMA BufIsChar ==
    ASSUME InputOK, NEW l, LexerOK(l), l.buf \in SpecialChars \cup UNION Alphabets
    PROVE  l.buf \in alphabet
<1>1. l.buf \in alphabet \cup {Nothing, End, Failure}
    BY DEF LexerOK, Lexers
<1>2. {Nothing, End, Failure} \cap (SpecialChars \cup UNION Alphabets) = {}
    BY ParserAssumption DEF SpecialChars
<1> QED BY <1>1, <1>2

(* The reader of the host is called: nothing was buffered, so that all that  *)
(* it has returned so far is consumed.                                       *)
LEMMA ReadKeeps ==
    ASSUME ParseInv, Read
    PROVE  ParseInv'
<1>1. /\ status = "reading" /\ lexer.buf = Nothing
      /\ InputOK /\ LexerOK(lexer) /\ ScanOK(lexer)
      /\ UNCHANGED <<alphabet, parse_one>>
    BY DEF Read, ParseInv
<1>2. lexer \in Lexers /\ Nothing \notin alphabet /\ End \notin alphabet /\ Failure \notin alphabet
    BY <1>1, NoneIsNoChar DEF LexerOK, InputOK
<1>3. Len(input) = lexer.pos.byte_offset /\ lexer.pos.byte_offset \in Nat /\ Len(input) \in Nat
      /\ lexer.start.byte_offset \in Nat
    BY <1>1, <1>2 DEF LexerOK, InputOK, Lexers, Whereabouts
<1>4. CASE \E c \in alphabet :
              /\ Len(input) < InputSize
              /\ input' = Append(input, c)
              /\ GoOn([lexer EXCEPT !.buf = c])
    <2>1. PICK c \in alphabet :
              /\ Len(input) < InputSize
              /\ input' = Append(input, c)
              /\ GoOn([lexer EXCEPT !.buf = c])
        BY <1>4
    <2> DEFINE l == [lexer EXCEPT !.buf = c]
    <2>2. /\ input' \in Seq(alphabet) /\ Len(input') = Len(input) + 1
          /\ input'[Len(input) + 1] = c
          /\ \A i \in 1 .. Len(input) : input'[i] = input[i]
        BY <1>1, <2>1, AppendProperties DEF InputOK
    <2>3. InputOK'
        BY <1>1, <1>3, <2>1, <2>2, Sizes DEF InputOK
    <2>4. /\ l.pos = lexer.pos /\ l.start = lexer.start /\ l.capturing = lexer.capturing
          /\ l.capture = lexer.capture /\ l.buf = c /\ l.mode = lexer.mode /\ l \in Lexers
        BY <1>2 DEF Lexers
    <2>5. lexer' = l /\ UNCHANGED <<open, nodes, lists, debug_info, symtab, status, range>>
        BY <2>1 DEF GoOn, parser
    <2> HIDE DEF l
    <2>6. LexerOK(lexer)'
        BY <1>1, <1>3, <2>1, <2>2, <2>4, <2>5 DEF LexerOK, Lexers
    <2>7. ScanOK(lexer)'
        <3>1. SubSeq(input', lexer.start.byte_offset + 1, lexer.pos.byte_offset)
                = SubSeq(input, lexer.start.byte_offset + 1, lexer.pos.byte_offset)
            <4>1. input \in Seq(alphabet) /\ Len(input) <= Len(input')
                BY <1>1, <1>3, <2>2 DEF InputOK
            <4>2. lexer.start.byte_offset <= lexer.pos.byte_offset
                  /\ lexer.pos.byte_offset <= Len(input)
                BY <1>1, <1>3 DEF LexerOK
            <4> DEFINE a == lexer.start.byte_offset
                       b == lexer.pos.byte_offset
                       t == input'
            <4>3. a \in Nat /\ b \in Nat /\ a <= b /\ b <= Len(input)
                BY <1>3, <4>2
            <4>4. t \in Seq(alphabet) /\ Len(input) <= Len(t) /\ \A i \in 1 .. Len(input) : t[i] = input[i]
                BY <2>2, <4>1
            <4> HIDE DEF a, b, t
            <4>5. SubSeq(t, a + 1, b) = SubSeq(input, a + 1, b)
                BY <4>1, <4>3, <4>4, SubSeqAlike
            <4> QED BY <4>5 DEF a, b, t
        <3> QED BY <1>1, <2>4, <2>5, <3>1 DEF ScanOK, TextOK, HasLine
    <2> QED BY <2>3, <2>5, <2>6, <2>7 DEF ParseInv
<1>5. CASE input' = input /\ GoOn([lexer EXCEPT !.buf = End])
    <2> DEFINE l == [lexer EXCEPT !.buf = End]
    <2>1. /\ l.pos = lexer.pos /\ l.start = lexer.start /\ l.capturing = lexer.capturing
          /\ l.capture = lexer.capture /\ l.buf = End /\ l.mode = lexer.mode /\ l \in Lexers
        BY <1>2 DEF Lexers
    <2>2. GoOn(l) /\ Unread
        BY <1>1, <1>5 DEF Unread
    <2> HIDE DEF l
    <2>3. LexerOK(l) /\ ScanOK(l)
        BY <1>1, <1>2, <1>3, <2>1 DEF LexerOK, ScanOK, TextOK, HasLine
    <2> QED BY <1>1, <2>2, <2>3, GoOnKeeps
<1>6. CASE input' = input /\ LexerFail([lexer EXCEPT !.buf = Failure], "io-error")
    <2> DEFINE l == [lexer EXCEPT !.buf = Failure]
    <2>1. /\ l.pos = lexer.pos /\ l.start = lexer.start /\ l.capturing = lexer.capturing
          /\ l.capture = lexer.capture /\ l.buf = Failure /\ l.mode = lexer.mode /\ l \in Lexers
        BY <1>2 DEF Lexers
    <2>2. LexerFail(l, "io-error") /\ Unread
        BY <1>1, <1>6 DEF Unread
    <2> HIDE DEF l
    <2>3. LexerOK(l)
        BY <1>1, <1>2, <1>3, <2>1 DEF LexerOK
    <2> QED BY <2>2, <2>3, LexerFailKeeps
<1> QED BY <1>4, <1>5, <1>6 DEF Read

-----------------------------------------------------------------------------
(* A list is made of its elements.                                           *)
LEMMA ListMade ==
    ASSUME ParseInv, NEW d \in DOMAIN open, NEW r \in Spans
    PROVE  /\ ListsOK(Append(lists, Flattened(nodes, d)), symtab)
           /\ Len(Append(lists, Flattened(nodes, d))) = Len(lists) + 1
           /\ InfoOK(WithDebugInfo(nodes, d, r), Len(lists) + 1)
<1> DEFINE es == Elements(nodes, d)
           flat == Flattened(nodes, d)
           ks == Append(lists, flat)
           N == Len(lists)
<1>1. /\ StackOK(open, nodes, N, symtab) /\ ListsOK(lists, symtab) /\ InfoOK(debug_info, N)
      /\ IsSeq(nodes) /\ IsSeq(lists) /\ N \in Nat /\ DOMAIN lists = 1 .. N
    BY SeqIs DEF ParseInv, StackOK, ListsOK
<1>2. /\ IsSeq(es) /\ Len(es) \in Nat /\ DOMAIN es = 1 .. Len(es)
      /\ \A i \in DOMAIN es : \E n \in DOMAIN nodes : es[i] = nodes[n]
    BY <1>1, ElementsAreNodes, SeqIs
<1>3. \A i \in 1 .. Len(es) : NodeOK(es[i], open, N, symtab)
    BY <1>1, <1>2 DEF StackOK
<1>4. flat = [i \in 1 .. Len(es) |-> es[i].value]
    BY DEF Flattened
<1> HIDE DEF es, flat
<1>5. DOMAIN flat = 1 .. Len(es) /\ \A i \in 1 .. Len(es) : flat[i] = es[i].value
    BY <1>4
<1>6. flat = [i \in 1 .. Len(es) |-> flat[i]]
    BY <1>4
<1>7. IsSeq(flat)
    BY <1>2, <1>6, SeqFrom
<1>8. \A i \in DOMAIN flat : ValueOK(flat[i], N, symtab)
    BY <1>3, <1>5 DEF NodeOK
<1>9. /\ IsSeq(ks) /\ Len(ks) = N + 1 /\ DOMAIN ks = 1 .. N + 1 /\ ks[N + 1] = flat
      /\ \A n \in 1 .. N : ks[n] = lists[n]
    BY <1>1, SeqAppend
<1> HIDE DEF ks
<1>10. ASSUME NEW n \in DOMAIN ks
       PROVE  IsSeq(ks[n]) /\ \A i \in DOMAIN ks[n] : ValueOK(ks[n][i], n - 1, symtab)
    <2>1. CASE n = N + 1
        <3>1. n - 1 = N /\ ks[n] = flat
            BY <1>1, <1>9, <2>1
        <3> QED BY <1>7, <1>8, <3>1
    <2>2. CASE n \in 1 .. N
        BY <1>1, <1>9, <2>2 DEF ListsOK
    <2> QED BY <1>1, <1>9, <2>1, <2>2
<1>11. ListsOK(ks, symtab)
    BY <1>9, <1>10 DEF ListsOK
<1>12. InfoOK(WithDebugInfo(nodes, d, r), N + 1)
    <2> DEFINE new == [k \in {N + 1} \X (Self .. Len(es) - 1) |->
                         IF k[2] = Self THEN r ELSE es[k[2] + 1].range]
               info == [k \in DOMAIN debug_info \cup DOMAIN new |->
                          IF k \in DOMAIN debug_info THEN debug_info[k] ELSE new[k]]
    <2>1. WithDebugInfo(nodes, d, r) = info
        BY DEF WithDebugInfo, es
    <2>2. ASSUME NEW k \in DOMAIN new PROVE k[1] = N + 1 /\ new[k] \in Spans
        <3>1. k[1] = N + 1 /\ k[2] \in Self .. Len(es) - 1
            BY <2>2
        <3>2. CASE k[2] = Self
            BY <2>2, <3>2
        <3>3. CASE k[2] # Self
            <4>1. k[2] + 1 \in 1 .. Len(es)
                BY <1>2, <3>1, <3>3 DEF Self
            <4>2. es[k[2] + 1].range \in Spans
                BY <1>3, <4>1 DEF NodeOK
            <4>3. new[k] = es[k[2] + 1].range
                BY <2>2, <3>3
            <4> QED BY <3>1, <4>2, <4>3
        <3> QED BY <3>1, <3>2, <3>3
    <2> HIDE DEF new
    <2>3. ASSUME NEW k \in DOMAIN info PROVE k[1] \in 1 .. N + 1 /\ info[k] \in Spans
        <3>1. CASE k \in DOMAIN debug_info
            <4>1. info[k] = debug_info[k]
                BY <3>1
            <4>2. k[1] \in 1 .. N /\ debug_info[k] \in Spans
                BY <1>1, <3>1 DEF InfoOK
            <4> QED BY <1>1, <4>1, <4>2
        <3>2. CASE k \notin DOMAIN debug_info
            <4>1. k \in DOMAIN new /\ info[k] = new[k]
                BY <2>3, <3>2
            <4> QED BY <1>1, <2>2, <4>1
        <3> QED BY <3>1, <3>2
    <2> HIDE DEF info
    <2> QED BY <2>1, <2>3 DEF InfoOK
<1> QED BY <1>9, <1>11, <1>12 DEF ks, flat

-----------------------------------------------------------------------------
(* One function of the lexer sees a character.                               *)
AnyChar == SpecialChars \cup UNION Alphabets

LEMMA CharSets ==
    /\ Delimiters \subseteq AnyChar /\ Spaces \subseteq AnyChar /\ NewLines \subseteq AnyChar
    /\ DigitChars \subseteq AnyChar /\ DigitChars \cup {"_"} \subseteq AnyChar
    /\ \A c \in {"(", ")", ";", "-", "\"", "\\", "_", ".", "\n"} : {c} \subseteq AnyChar
    /\ \A chars : Others(chars) \subseteq AnyChar
<1>1. Delimiters \subseteq AnyChar /\ DigitChars \subseteq AnyChar
      /\ {";", "-", "\"", "\\", "_", "."} \subseteq AnyChar
    BY DEF AnyChar, SpecialChars
<1>2. Spaces \subseteq Delimiters /\ NewLines \subseteq Delimiters /\ Parens \subseteq Delimiters
    BY DEF Delimiters
<1>3. "(" \in Parens /\ ")" \in Parens /\ "\n" \in NewLines
    BY DEF Parens, NewLines
<1>4. \A chars : Others(chars) \subseteq AnyChar
    BY DEF AnyChar, Others
<1> QED BY <1>1, <1>2, <1>3, <1>4

LEMMA SeesIs ==
    ASSUME ParseInv, NEW mode, NEW chars, Sees(mode, chars)
    PROVE  /\ status = "reading" /\ lexer.mode = mode /\ lexer.buf \in chars /\ Unread
           /\ InputOK /\ LexerOK(lexer) /\ ScanOK(lexer) /\ TextOK(lexer)
           /\ mode \in Modes
           /\ lexer.capturing <=> mode \in CapturingModes
           /\ mode \in {"cr", "lf"} => HasLine(lexer)
           /\ chars \subseteq AnyChar => lexer.buf \in alphabet
<1>1. /\ status = "reading" /\ lexer.mode = mode /\ lexer.buf \in chars /\ Unread
    BY DEF Sees, Unread
<1>2. InputOK /\ LexerOK(lexer) /\ ScanOK(lexer)
    BY <1>1 DEF ParseInv
<1>3. TextOK(lexer) /\ mode \in Modes /\ (lexer.capturing <=> mode \in CapturingModes)
      /\ (mode \in {"cr", "lf"} => HasLine(lexer))
    BY <1>1, <1>2 DEF ScanOK, LexerOK, Lexers
<1>4. chars \subseteq AnyChar => lexer.buf \in alphabet
    BY <1>1, <1>2, BufIsChar DEF AnyChar
<1> QED BY <1>1, <1>2, <1>3, <1>4

LEMMA EatKeeps ==
    ASSUME ParseInv, NEW mode, NEW chars, Sees(mode, chars), chars \subseteq AnyChar,
           NEW next \in Modes, mode \in CapturingModes <=> next \in CapturingModes,
           Consume(lexer, next)
    PROVE  ParseInv'
<1>1. /\ status = "reading" /\ Unread /\ LexerOK(lexer) /\ TextOK(lexer)
      /\ lexer.buf \in alphabet /\ (lexer.capturing <=> next \in CapturingModes)
    BY SeesIs
<1> QED BY <1>1, ConsumeKeeps

LEMMA BeginKeeps ==
    ASSUME ParseInv, NEW chars, Sees("next", chars), chars \subseteq AnyChar,
           NEW next \in CapturingModes, Consume(Captured(lexer), next)
    PROVE  ParseInv'
<1> DEFINE l == Captured(lexer)
<1>1. /\ status = "reading" /\ Unread /\ InputOK /\ LexerOK(lexer) /\ lexer.buf \in alphabet
    BY SeesIs
<1>2. LexerOK(l) /\ TextOK(l) /\ l.buf \in alphabet /\ l.capturing = TRUE
    BY <1>1, CaptureOK
<1>3. next \in Modes
    BY DEF Modes
<1> HIDE DEF l
<1>4. Consume(l, next)
    BY DEF l
<1> QED BY <1>1, <1>2, <1>3, <1>4, ConsumeKeeps

LEMMA TurnKeeps ==
    ASSUME ParseInv, NEW mode, NEW chars, Sees(mode, chars),
           NEW next \in Modes, mode \in CapturingModes <=> next \in CapturingModes,
           next \notin {"cr", "lf"}, GoOn([lexer EXCEPT !.mode = next])
    PROVE  ParseInv'
<1> DEFINE l == [lexer EXCEPT !.mode = next]
<1>1. /\ status = "reading" /\ Unread /\ LexerOK(lexer) /\ TextOK(lexer)
      /\ (lexer.capturing <=> next \in CapturingModes)
    BY SeesIs
<1>2. LexerOK(l) /\ ScanOK(l)
    BY <1>1, ModeOK
<1> HIDE DEF l
<1>3. GoOn(l)
    BY DEF l
<1> QED BY <1>1, <1>2, <1>3, GoOnKeeps

LEMMA EatsInText ==
    ASSUME ParseInv
    PROVE  /\ SkipSpace => ParseInv'
           /\ BeginComment => ParseInv'
           /\ BeginNewLine => ParseInv'
           /\ BeginMinus => ParseInv'
           /\ BeginNumber => ParseInv'
           /\ BeginSymbol => ParseInv'
<1>1. \A m \in {"next", "comment", "cr", "lf"} : m \in Modes /\ m \notin CapturingModes
    BY DEF Modes, CapturingModes
<1>2. {"minus", "number", "symbol"} \subseteq CapturingModes
    BY DEF CapturingModes
<1>3. ASSUME SkipSpace PROVE ParseInv'
    BY <1>1, <1>3, CharSets, EatKeeps DEF SkipSpace
<1>4. ASSUME BeginComment PROVE ParseInv'
    BY <1>1, <1>4, CharSets, EatKeeps DEF BeginComment
<1>5. ASSUME BeginNewLine PROVE ParseInv'
    <2> DEFINE m == IF lexer.buf = "\r" THEN "cr" ELSE "lf"
    <2>1. m \in Modes /\ m \notin CapturingModes
        BY <1>1
    <2>2. Sees("next", NewLines) /\ Consume(lexer, m)
        BY <1>5 DEF BeginNewLine
    <2> HIDE DEF m
    <2> QED BY <1>1, <2>1, <2>2, CharSets, EatKeeps
<1>6. ASSUME BeginMinus PROVE ParseInv'
    <2>1. {"-"} \subseteq AnyChar
        BY CharSets
    <2> QED BY <1>2, <1>6, <2>1, BeginKeeps DEF BeginMinus
<1>7. ASSUME BeginNumber PROVE ParseInv'
    BY <1>2, <1>7, CharSets, BeginKeeps DEF BeginNumber
<1>8. ASSUME BeginSymbol PROVE ParseInv'
    BY <1>2, <1>8, CharSets, BeginKeeps DEF BeginSymbol
<1> QED BY <1>3, <1>4, <1>5, <1>6, <1>7, <1>8

LEMMA BeginStringKeeps ==
    ASSUME ParseInv, BeginString
    PROVE  ParseInv'
<1> DEFINE k == Consumed(lexer)
           l == Captured(k)
           m == [l EXCEPT !.mode = "string"]
<1>1. /\ status = "reading" /\ Unread /\ InputOK /\ LexerOK(lexer) /\ TextOK(lexer)
      /\ lexer.buf \in alphabet /\ ~ lexer.capturing
    <2>1. Sees("next", {"\""}) /\ {"\""} \subseteq AnyChar
        BY CharSets DEF BeginString
    <2>2. "next" \notin CapturingModes
        BY DEF CapturingModes
    <2> QED BY <2>1, <2>2, SeesIs
<1>2. LexerOK(k)
    <2>1. ~ IsTooLong(lexer)
        BY <1>1 DEF IsTooLong
    <2> QED BY <1>1, <2>1, ConsumeOK
<1> HIDE DEF k
<1>3. LexerOK(l) /\ TextOK(l) /\ l.capturing = TRUE
    BY <1>1, <1>2, CaptureOK
<1> HIDE DEF l
<1>4. LexerOK(m) /\ ScanOK(m)
    <2>1. "string" \in Modes /\ "string" \in CapturingModes
        BY DEF Modes, CapturingModes
    <2> QED BY <1>3, <2>1, ModeOK
<1>5. GoOn(m)
    BY DEF BeginString, k, l
<1> HIDE DEF m
<1> QED BY <1>1, <1>4, <1>5, GoOnKeeps

LEMMA BetweenTokens ==
    ASSUME ParseInv
    PROVE  /\ InComment => ParseInv'
           /\ EndNewLine => ParseInv'
<1>1. \A m \in {"next", "comment", "cr", "lf"} : m \in Modes /\ m \notin CapturingModes
    BY DEF Modes, CapturingModes
<1>2. ASSUME InComment PROVE ParseInv'
    <2>1. CASE Sees("comment", Others(NewLines)) /\ Consume(lexer, "comment")
        BY <1>1, <2>1, CharSets, EatKeeps
    <2>2. CASE Sees("comment", NewLines \cup {End}) /\ GoOn([lexer EXCEPT !.mode = "next"])
        BY <1>1, <2>2, TurnKeeps
    <2> QED BY <1>2, <2>1, <2>2 DEF InComment
<1>3. ASSUME EndNewLine PROVE ParseInv'
    <2>1. CASE Sees("cr", {"\n"}) /\ GoOn(NextLine(Consumed(lexer)))
        <3> DEFINE k == Consumed(lexer)
                   m == NextLine(k)
        <3>1. /\ status = "reading" /\ Unread /\ InputOK /\ LexerOK(lexer) /\ TextOK(lexer)
              /\ lexer.buf \in alphabet /\ ~ lexer.capturing
            <4>1. {"\n"} \subseteq AnyChar
                BY CharSets
            <4> QED BY <1>1, <2>1, <4>1, SeesIs
        <3>2. ~ IsTooLong(lexer)
            BY <3>1 DEF IsTooLong
        <3>3. LexerOK(k) /\ HasLine(k) /\ ~ k.capturing
            BY <3>1, <3>2, ConsumeOK
        <3> HIDE DEF k
        <3>4. LexerOK(m) /\ ScanOK(m)
            BY <3>3, LineOK
        <3>5. GoOn(m)
            BY <2>1 DEF k
        <3> HIDE DEF m
        <3> QED BY <3>1, <3>4, <3>5, GoOnKeeps
    <2>2. ASSUME NEW mode \in {"cr", "lf"}, NEW chars, Sees(mode, chars), GoOn(NextLine(lexer))
          PROVE  ParseInv'
        <3> DEFINE m == NextLine(lexer)
        <3>1. status = "reading" /\ Unread /\ LexerOK(lexer) /\ ~ lexer.capturing /\ HasLine(lexer)
            BY <1>1, <2>2, SeesIs
        <3>2. LexerOK(m) /\ ScanOK(m)
            BY <3>1, LineOK
        <3>3. GoOn(m)
            BY <2>2
        <3> HIDE DEF m
        <3> QED BY <3>1, <3>2, <3>3, GoOnKeeps
    <2>3. CASE Sees("cr", Others({"\n"}) \cup {End}) /\ GoOn(NextLine(lexer))
        BY <2>2, <2>3
    <2>4. CASE Sees("lf", Others({}) \cup {End}) /\ GoOn(NextLine(lexer))
        BY <2>2, <2>4
    <2> QED BY <1>3, <2>1, <2>3, <2>4 DEF EndNewLine
<1> QED BY <1>2, <1>3

-----------------------------------------------------------------------------
(* A token is taken.                                                         *)
LEMMA InternGrows ==
    ASSUME NEW table, NEW text \in Texts, Hashed(Texts), TrieOK(table, Texts)
    PROVE  Len(table.nodes) <= Len(Intern(table, text).nodes)
<1>1. Len(table.nodes) \in Nat
    BY DEF TrieOK, TableType
<1>2. CASE IsInterned(table, text)
    BY <1>1, <1>2 DEF Intern
<1>3. CASE ~ IsInterned(table, text)
    <2>1. TableType(table, Texts) /\ Descends(table)
        BY DEF TrieOK
    <2>2. Len(WithNode(table, text).nodes) = Len(table.nodes) + 1
        BY <1>3, <2>1, NodesAfter
    <2> QED BY <1>1, <1>3, <2>2 DEF Intern
<1> QED BY <1>2, <1>3

LEMMA TakeSymbolKeeps ==
    ASSUME ParseInv, Hashed(Texts), NEW chars, Sees("symbol", chars), TakeSymbol(lexer)
    PROVE  ParseInv'
<1>1. status = "reading" /\ Unread /\ InputOK /\ LexerOK(lexer) /\ TrieOK(symtab, Texts)
    BY SeesIs DEF ParseInv
<1>2. lexer.capture \in Texts
    <2>1. lexer.capture \in Seq(alphabet) /\ alphabet \subseteq UNION Alphabets
        BY <1>1 DEF LexerOK, Lexers, InputOK
    <2> QED BY <2>1 DEF Texts
<1> DEFINE text == lexer.capture
           number == NumberOf(symtab', text)
           value == [type |-> "symbol", is |-> number]
<1>3. symtab' = Intern(symtab, text)
    BY DEF TakeSymbol
<1>4. TrieOK(symtab', Texts) /\ Len(symtab.nodes) <= Len(symtab'.nodes)
    BY <1>1, <1>2, <1>3, InternOK, InternGrows
<1>5. number \in 0 .. Len(symtab'.nodes) - 1
    BY <1>1, <1>2, <1>3, InternReturnsNumber
<1>6. ValueOK(value, Len(lists), symtab')
    BY <1>5 DEF ValueOK
<1>7. Push(lexer, open, nodes, value, LexerSpan(lexer)) /\ UNCHANGED <<lists, debug_info>>
    BY DEF TakeSymbol
<1>8. LexerSpan(lexer) \in Spans
    BY <1>1, PlaceBounded
<1> HIDE DEF value
<1> QED BY <1>1, <1>4, <1>6, <1>7, <1>8, TokenKeeps

(* A value that names neither a list nor a symbol.                           *)
LEMMA PlainKeeps ==
    ASSUME ParseInv, Unread, status = "reading", NEW l, LexerOK(l), NEW value,
           value.type \notin {"list", "symbol"}, NEW token \in Spans,
           Push(l, open, nodes, value, token), UNCHANGED <<lists, debug_info, symtab>>
    PROVE  ParseInv'
<1>1. TrieOK(symtab', Texts) /\ Len(symtab.nodes) <= Len(symtab'.nodes)
    BY DEF ParseInv, TrieOK, TableType
<1>2. ValueOK(value, Len(lists), symtab')
    BY DEF ValueOK
<1>3. UNCHANGED <<lists, debug_info>>
    OBVIOUS
<1> QED BY <1>1, <1>2, <1>3, TokenKeeps

LEMMA TakeIntKeeps ==
    ASSUME ParseInv, NEW chars, Sees("number", chars), TakeInt(lexer)
    PROVE  ParseInv'
<1>1. status = "reading" /\ Unread /\ InputOK /\ LexerOK(lexer)
    BY SeesIs
<1>2. LexerSpan(lexer) \in Spans
    BY <1>1, PlaceBounded
<1> DEFINE value == [type |-> "int", is |-> Truncated(Strtol(Without(lexer.capture, "_")))]
<1>3. value.type \notin {"list", "symbol"}
    OBVIOUS
<1>4. \/ /\ Push(lexer, open, nodes, value, LexerSpan(lexer))
         /\ UNCHANGED <<lists, debug_info, symtab>>
      \/ Fail(lexer, "number-too-large", LexerSpan(lexer))
    BY DEF TakeInt
<1> HIDE DEF value
<1> QED BY <1>1, <1>2, <1>3, <1>4, PlainKeeps, FailKeeps

LEMMA TakeRealKeeps ==
    ASSUME ParseInv, NEW chars, Sees("real", chars), TakeReal(lexer)
    PROVE  ParseInv'
<1>1. status = "reading" /\ Unread /\ InputOK /\ LexerOK(lexer)
    BY SeesIs
<1>2. LexerSpan(lexer) \in Spans
    BY <1>1, PlaceBounded
<1> DEFINE value == [type |-> "real", is |-> Without(lexer.capture, "_")]
<1>3. value.type \notin {"list", "symbol"}
    OBVIOUS
<1>4. \/ /\ Push(lexer, open, nodes, value, LexerSpan(lexer))
         /\ UNCHANGED <<lists, debug_info, symtab>>
      \/ Fail(lexer, "number-too-large", LexerSpan(lexer))
    BY DEF TakeReal
<1> HIDE DEF value
<1> QED BY <1>1, <1>2, <1>3, <1>4, PlainKeeps, FailKeeps

LEMMA TakeStringKeeps ==
    ASSUME ParseInv, Sees("string", {"\""}), TakeString(lexer)
    PROVE  ParseInv'
<1>1. status = "reading" /\ Unread /\ InputOK /\ LexerOK(lexer) /\ lexer.buf \in alphabet
    <2>1. {"\""} \subseteq AnyChar
        BY CharSets
    <2> QED BY <2>1, SeesIs
<1>2. LexerSpan(lexer) \in Spans /\ LexerOK(Stepped(lexer))
    BY <1>1, PlaceBounded, StepOK
<1> DEFINE value == [type |-> "string", is |-> Unescaped(lexer.capture)]
<1>3. value.type \notin {"list", "symbol"}
    OBVIOUS
<1>4. \/ /\ Push(Stepped(lexer), open, nodes, value, LexerSpan(lexer))
         /\ UNCHANGED <<lists, debug_info, symtab>>
      \/ LexerFail(Stepped(lexer), "element-too-long")
    BY DEF TakeString
<1> HIDE DEF value
<1> QED BY <1>1, <1>2, <1>3, <1>4, PlainKeeps, LexerFailKeeps

LEMMA InToken ==
    ASSUME ParseInv, Hashed(Texts)
    PROVE  /\ AfterMinus => ParseInv'
           /\ InNumber => ParseInv'
           /\ InString => ParseInv'
           /\ AfterEscape => ParseInv'
           /\ InSymbol => ParseInv'
<1>1. \A m \in CapturingModes : m \in Modes /\ m \notin {"cr", "lf"}
    BY DEF Modes, CapturingModes
<1>2. \A m \in {"minus", "number", "real", "string", "escape", "symbol"} : m \in CapturingModes
    BY DEF CapturingModes
<1>3. ASSUME AfterMinus PROVE ParseInv'
    <2>1. CASE Sees("minus", DigitChars) /\ Consume(lexer, "number")
        BY <1>1, <1>2, <2>1, CharSets, EatKeeps
    <2>2. CASE Sees("minus", Others(DigitChars) \cup {End}) /\ GoOn([lexer EXCEPT !.mode = "symbol"])
        BY <1>1, <1>2, <2>2, TurnKeeps
    <2> QED BY <1>3, <2>1, <2>2 DEF AfterMinus
<1>4. ASSUME InNumber PROVE ParseInv'
    <2>1. CASE Sees("number", DigitChars \cup {"_"}) /\ Consume(lexer, "number")
        BY <1>1, <1>2, <2>1, CharSets, EatKeeps
    <2>2. CASE Sees("real", DigitChars \cup {"_"}) /\ Consume(lexer, "real")
        BY <1>1, <1>2, <2>2, CharSets, EatKeeps
    <2>3. CASE Sees("number", {"."}) /\ Consume(lexer, "real")
        <3>1. {"."} \subseteq AnyChar
            BY CharSets
        <3> QED BY <1>1, <1>2, <2>3, <3>1, EatKeeps
    <2>4. CASE /\ Sees("real", {"."})
               /\ LexerFail(Stepped(lexer), IF IsTooLong(lexer) THEN "element-too-long" ELSE "bad-number")
        <3>1. {"."} \subseteq AnyChar
            BY CharSets
        <3>2. InputOK /\ LexerOK(lexer) /\ lexer.buf \in alphabet /\ Unread
            BY <2>4, <3>1, SeesIs
        <3>3. LexerOK(Stepped(lexer))
            BY <3>2, StepOK
        <3> QED BY <2>4, <3>2, <3>3, LexerFailKeeps
    <2>5. CASE Sees("number", Delimiters \cup {";", End}) /\ TakeInt(lexer)
        BY <2>5, TakeIntKeeps
    <2>6. CASE Sees("real", Delimiters \cup {";", End}) /\ TakeReal(lexer)
        BY <2>6, TakeRealKeeps
    <2>7. CASE /\ \E mode \in {"number", "real"} :
                     Sees(mode, Others(Delimiters \cup DigitChars \cup {"_", ".", ";"}))
               /\ LexerFail(lexer, "bad-number")
        <3>1. LexerOK(lexer) /\ Unread
            BY <2>7, SeesIs
        <3> QED BY <2>7, <3>1, LexerFailKeeps
    <2> QED BY <1>4, <2>1, <2>2, <2>3, <2>4, <2>5, <2>6, <2>7 DEF InNumber
<1>5. ASSUME InString PROVE ParseInv'
    <2>1. CASE Sees("string", {"\""}) /\ TakeString(lexer)
        BY <2>1, TakeStringKeeps
    <2>2. CASE Sees("string", {"\\"}) /\ Consume(lexer, "escape")
        <3>1. {"\\"} \subseteq AnyChar
            BY CharSets
        <3> QED BY <1>1, <1>2, <2>2, <3>1, EatKeeps
    <2>3. CASE Sees("string", NewLines \cup {End}) /\ LexerFail(lexer, "bad-string")
        <3>1. LexerOK(lexer) /\ Unread
            BY <2>3, SeesIs
        <3> QED BY <2>3, <3>1, LexerFailKeeps
    <2>4. CASE Sees("string", Others(NewLines \cup {"\"", "\\"})) /\ Consume(lexer, "string")
        BY <1>1, <1>2, <2>4, CharSets, EatKeeps
    <2> QED BY <1>5, <2>1, <2>2, <2>3, <2>4 DEF InString
<1>6. ASSUME AfterEscape PROVE ParseInv'
    <2>1. CASE Sees("escape", NewLines \cup {End}) /\ GoOn([lexer EXCEPT !.mode = "string"])
        BY <1>1, <1>2, <2>1, TurnKeeps
    <2>2. CASE Sees("escape", Others(NewLines)) /\ Consume(lexer, "string")
        BY <1>1, <1>2, <2>2, CharSets, EatKeeps
    <2> QED BY <1>6, <2>1, <2>2 DEF AfterEscape
<1>7. ASSUME InSymbol PROVE ParseInv'
    <2>1. CASE Sees("symbol", Delimiters \cup {End}) /\ TakeSymbol(lexer)
        BY <2>1, TakeSymbolKeeps
    <2>2. CASE Sees("symbol", Others(Delimiters)) /\ Consume(lexer, "symbol")
        BY <1>1, <1>2, <2>2, CharSets, EatKeeps
    <2> QED BY <1>7, <2>1, <2>2 DEF InSymbol
<1> QED BY <1>3, <1>4, <1>5, <1>6, <1>7

-----------------------------------------------------------------------------
(* Lists begin and end.                                                      *)
LEMMA OpenKeeps ==
    ASSUME ParseInv, LeftParen
    PROVE  ParseInv'
<1>1. /\ status = "reading" /\ Unread /\ InputOK /\ LexerOK(lexer) /\ TextOK(lexer)
      /\ lexer.buf \in alphabet /\ ~ lexer.capturing
    <2>1. Sees("next", {"("}) /\ {"("} \subseteq AnyChar
        BY CharSets DEF LeftParen
    <2>2. "next" \notin CapturingModes
        BY DEF CapturingModes
    <2> QED BY <2>1, <2>2, SeesIs
<1> DEFINE k == Fresh(Consumed(lexer))
<1>2. LexerOK(k) /\ ScanOK(k)
    <2>1. ~ IsTooLong(lexer)
        BY <1>1 DEF IsTooLong
    <2>2. LexerOK(Consumed(lexer))
        BY <1>1, <2>1, ConsumeOK
    <2> QED BY <2>2, FreshOK
<1>3. /\ lexer' = k
      /\ open' = Append(open, [start |-> lexer.pos, token |-> LexerSpan(lexer),
                               snapshot |-> Len(nodes), len |-> 0])
      /\ UNCHANGED <<nodes, lists, debug_info, symtab, status, range>>
    BY DEF LeftParen, OpenList
<1> HIDE DEF k
<1>4. LexerOK(lexer)' /\ ScanOK(lexer)'
    BY <1>1, <1>2, <1>3, LexerPrimed
<1>5. InputOK'
    BY <1>1 DEF Unread, InputOK
<1>6. StackOK(open', nodes', Len(lists'), symtab')
    <2>1. lexer.pos \in Positions /\ LexerSpan(lexer) \in Spans
        BY <1>1, PlaceBounded
    <2>2. StackOK(open, nodes, Len(lists), symtab)
        BY DEF ParseInv
    <2> QED BY <1>3, <2>1, <2>2, StackOpen
<1>7. open' # <<>>
    <2>1. IsSeq(open)
        BY DEF ParseInv, StackOK, IsSeq
    <2>2. DOMAIN open' = 1 .. Len(open) + 1 /\ Len(open) \in Nat
        BY <1>3, <2>1, SeqIs, SeqAppend
    <2>3. 1 \in DOMAIN open'
        BY <2>2
    <2>4. ASSUME NEW s, s = <<>> PROVE DOMAIN s = {}
        BY <2>4
    <2> QED BY <2>3, <2>4
<1>8. UNCHANGED <<lists, debug_info, symtab, status, range>>
    BY <1>3
<1> QED BY <1>1, <1>4, <1>5, <1>6, <1>7, <1>8 DEF ParseInv

LEMMA CloseKeeps ==
    ASSUME ParseInv, RightParen
    PROVE  ParseInv'
<1>1. /\ status = "reading" /\ Unread /\ InputOK /\ LexerOK(lexer) /\ TextOK(lexer)
      /\ lexer.buf \in alphabet /\ ~ lexer.capturing
    <2>1. Sees("next", {")"}) /\ {")"} \subseteq AnyChar
        BY CharSets DEF RightParen
    <2>2. "next" \notin CapturingModes
        BY DEF CapturingModes
    <2> QED BY <2>1, <2>2, SeesIs
<1> DEFINE l == Consumed(lexer)
           d == Len(open)
<1>2. LexerOK(l)
    <2>1. ~ IsTooLong(lexer)
        BY <1>1 DEF IsTooLong
    <2> QED BY <1>1, <2>1, ConsumeOK
<1>3. LexerSpan(lexer) \in Spans /\ lexer.pos \in Positions
    BY <1>1, PlaceBounded
<1>4. CASE d = 1
    <2>1. Fail(l, "unexpected-token", LexerSpan(lexer))
        BY <1>4 DEF RightParen, CloseList
    <2> HIDE DEF l
    <2> QED BY <1>1, <1>2, <1>3, <2>1, FailKeeps
<1>5. CASE d # 1
    <2> DEFINE span == Span(open[d].start, lexer.pos)
               value == [type |-> "list", is |-> Len(lists')]
               ks == Front(open)
               ms == Released(nodes, d)
               token == open[d].token
               N == Len(lists)
    <2>1. /\ lists' = Append(lists, Flattened(nodes, d))
          /\ debug_info' = WithDebugInfo(nodes, d, span)
          /\ Push(l, ks, ms, value, token)
          /\ symtab' = symtab
        BY <1>5 DEF RightParen, CloseList
    <2>2. StackOK(open, nodes, N, symtab) /\ N \in Nat /\ open # <<>>
          /\ Len(symtab.nodes) \in Nat
        BY <1>1, SeqIs DEF ParseInv, ListsOK, TrieOK, TableType
    <2>3. d \in Nat /\ DOMAIN open = 1 .. d /\ d > 1
        <3>1. d \in Nat /\ DOMAIN open = 1 .. d
            BY <2>2, StackTypes
        <3>2. d # 0
            BY <2>2, EmptySeq DEF StackOK
        <3> QED BY <1>5, <3>1, <3>2
    <2>4. d \in DOMAIN open /\ open[d].start \in Positions /\ token \in Spans
        BY <2>2, <2>3, StackTypes
    <2>5. span \in Spans
        BY <1>3, <2>4 DEF Span, Spans
    <2>6. /\ ListsOK(lists', symtab) /\ Len(lists') = N + 1
          /\ InfoOK(debug_info', N + 1)
        BY <2>1, <2>4, <2>5, ListMade
    <2>7. StackOK(ks, ms, N + 1, symtab) /\ ks # <<>>
        <3>1. StackOK(ks, ms, N, symtab) /\ ks # <<>>
            BY <2>2, <2>3, StackClose DEF Released
        <3>2. N + 1 \in Nat /\ N <= N + 1
            BY <2>2
        <3> HIDE DEF ks, ms
        <3> QED BY <2>2, <3>1, <3>2, StackGrows
    <2>8. ValueOK(value, N + 1, symtab)
        BY <2>2, <2>6 DEF ValueOK
    <2> HIDE DEF value, ks, ms, token, l
    <2>9. /\ nodes' = Append(ms, [list |-> Len(ks), value |-> value, range |-> token])
          /\ open' = [ks EXCEPT ![Len(ks)].len = @ + 1]
          /\ UNCHANGED <<status, range>>
        BY <2>1 DEF Push
    <2>10. StackOK(open', nodes', Len(lists'), symtab')
        <3>1. StackOK(open', nodes', N + 1, symtab)
            BY <2>4, <2>7, <2>8, <2>9, StackPush
        <3> QED BY <2>1, <2>6, <3>1
    <2>11. open' # <<>>
        <3>1. ks \in Seq(OpenLists) /\ ks # <<>>
            BY <2>7 DEF StackOK
        <3>2. DOMAIN open' = DOMAIN ks
            BY <2>9
        <3>3. Len(ks) # 0 /\ DOMAIN ks = 1 .. Len(ks) /\ Len(ks) \in Nat
            BY <3>1, EmptySeq
        <3>4. 1 \in DOMAIN ks
            BY <3>3
        <3>5. ASSUME NEW s, s = <<>> PROVE DOMAIN s = {}
            BY <3>5
        <3> QED BY <3>2, <3>4, <3>5
    <2>12. LexerOK(lexer)' /\ ScanOK(lexer)'
        BY <1>1, <1>2, <2>1, PushedLexer
    <2>13. InputOK'
        BY <1>1 DEF Unread, InputOK
    <2> QED BY <2>1, <2>6, <2>9, <2>10, <2>11, <2>12, <2>13, <1>1 DEF ParseInv
<1> QED BY <1>4, <1>5

LEMMA EndKeeps ==
    ASSUME ParseInv, AtEnd
    PROVE  ParseInv'
<1>1. status = "reading" /\ Unread /\ InputOK /\ LexerOK(lexer) /\ open # <<>>
    BY SeesIs DEF AtEnd, ParseInv
<1>2. CASE Len(open) > 1
    <2> DEFINE r == Span(Last(open).start, lexer.pos)
    <2>1. Last(open).start \in Positions
        <3>1. StackOK(open, nodes, Len(lists), symtab)
            BY DEF ParseInv
        <3>2. Len(open) \in DOMAIN open
            BY <1>2, <3>1, StackTypes
        <3> QED BY <3>1, <3>2, StackTypes DEF Last
    <2>2. r \in Spans
        BY <1>1, <2>1, PlaceBounded DEF Span, Spans
    <2>3. Fail(lexer, "bad-list", r)
        BY <1>2 DEF AtEnd, EndOfText
    <2> HIDE DEF r
    <2> QED BY <1>1, <2>2, <2>3, FailKeeps
<1>3. CASE ~ (Len(open) > 1)
    <2>1. Sees("next", {End}) /\ GoOn([lexer EXCEPT !.mode = "finish"])
        BY <1>3 DEF AtEnd, EndOfText
    <2>2. "next" \notin CapturingModes /\ "finish" \notin CapturingModes /\ "finish" \in Modes
        BY DEF Modes, CapturingModes
    <2> QED BY <2>1, <2>2, TurnKeeps
<1> QED BY <1>2, <1>3

LEMMA FinishKeeps ==
    ASSUME ParseInv, FinishParse
    PROVE  ParseInv'
<1> DEFINE span == Span(open[1].start, Garbage)
           N == Len(lists)
<1>1. /\ status = "reading" /\ status' = "done" /\ Unread /\ lexer' = lexer /\ LexerOK(lexer)
      /\ lists' = Append(lists, Flattened(nodes, 1))
      /\ debug_info' = WithDebugInfo(nodes, 1, span)
      /\ nodes' = <<>> /\ open' = <<>> /\ UNCHANGED <<symtab, range>>
    BY DEF FinishParse, ParseInv, Unread
<1>2. 1 \in DOMAIN open /\ open[1].start \in Positions
    <2>1. StackOK(open, nodes, N, symtab) /\ open # <<>>
        BY <1>1 DEF ParseInv
    <2>2. Len(open) # 0
        BY <2>1, EmptySeq DEF StackOK
    <2>3. 1 \in DOMAIN open
        BY <2>1, <2>2, StackTypes
    <2> QED BY <2>1, <2>3, StackTypes
<1>3. span \in Spans
    BY <1>2 DEF Span, Spans
<1>4. ListsOK(lists', symtab) /\ Len(lists') = N + 1 /\ InfoOK(debug_info', N + 1)
    BY <1>1, <1>2, <1>3, ListMade
<1>5. StackOK(open', nodes', Len(lists'), symtab')
    BY <1>1, StackEmpty
<1>6. LexerOK(lexer)'
    BY <1>1, LexerPrimed
<1>7. InputOK'
    BY <1>1 DEF Unread, ParseInv, InputOK
<1> QED BY <1>1, <1>4, <1>5, <1>6, <1>7 DEF ParseInv

-----------------------------------------------------------------------------
LEMMA ParseBegins ==
    ASSUME ParseInit
    PROVE  ParseInv
<1>1. Start \in Whereabouts /\ Start \in Positions /\ PlaceOK(Start) /\ Start.byte_offset = 0
    BY Sizes DEF Start, Whereabouts, Positions, PlaceOK
<1>2. /\ alphabet \in Alphabets /\ input = <<>> /\ lists = <<>> /\ debug_info = <<>>
      /\ nodes = <<>> /\ symtab = EmptySymtab /\ status = "reading" /\ range = Span(Start, Start)
      /\ open = <<[start |-> Start, token |-> Span(Start, Start), snapshot |-> 0, len |-> 0]>>
      /\ lexer = [pos |-> Start, start |-> Start, capturing |-> FALSE, capture |-> <<>>,
                  buf |-> Nothing, mode |-> "next"]
    BY DEF ParseInit
<1>3. <<>> \in Seq(alphabet) /\ Len(<<>>) = 0 /\ DOMAIN <<>> = {}
    OBVIOUS
<1>4. InputOK
    BY <1>2, <1>3, Sizes DEF InputOK
<1>5. LexerOK(lexer)
    <2>1. lexer \in Lexers
        BY <1>1, <1>2, <1>3 DEF Lexers, Modes
    <2>2. Nothing \notin alphabet
        BY <1>2, NoneIsNoChar
    <2> QED BY <1>1, <1>2, <1>3, <2>1, <2>2, Sizes DEF LexerOK
<1>6. ScanOK(lexer)
    BY <1>2 DEF ScanOK, TextOK, CapturingModes
<1>7. StackOK(open, nodes, Len(lists), symtab) /\ open # <<>>
    <2>1. StackOK(<<>>, <<>>, 0, symtab)
        BY StackEmpty
    <2> DEFINE x == [start |-> Start, token |-> Span(Start, Start), snapshot |-> Len(<<>>), len |-> 0]
    <2>2. Span(Start, Start) \in Spans
        BY <1>1 DEF Span, Spans
    <2>3. StackOK(Append(<<>>, x), <<>>, 0, symtab)
        BY <1>1, <2>1, <2>2, StackOpen
    <2>4. Append(<<>>, x) = <<x>> /\ <<x>> # <<>>
        OBVIOUS
    <2> QED BY <1>2, <1>3, <2>3, <2>4
<1>8. ListsOK(lists, symtab) /\ InfoOK(debug_info, Len(lists))
    <2>1. IsSeq(<<>>)
        BY <1>3 DEF IsSeq
    <2> QED BY <1>2, <1>3, <2>1 DEF ListsOK, InfoOK
<1>9. range \in Spans
    BY <1>1, <1>2 DEF Span, Spans
<1>10. TrieOK(symtab, Texts)
    BY <1>2, EmptyOK
<1> QED BY <1>2, <1>4, <1>5, <1>6, <1>7, <1>8, <1>9, <1>10 DEF ParseInv

LEMMA ParseKeeps ==
    ASSUME ParseInv, Hashed(Texts), [ParseNext]_parseVars
    PROVE  ParseInv'
<1>1. CASE UNCHANGED parseVars
    <2>1. /\ UNCHANGED <<alphabet, parse_one, input, lexer, open, nodes, lists, debug_info, symtab>>
          /\ UNCHANGED <<status, range>>
        BY <1>1 DEF parseVars
    <2>2. LexerOK(lexer)' /\ (status = "reading" => ScanOK(lexer)')
        BY <2>1, LexerPrimed DEF Unread, ParseInv
    <2>3. InputOK'
        BY <2>1 DEF InputOK, ParseInv
    <2> QED BY <2>1, <2>2, <2>3 DEF ParseInv
<1>2. CASE Read
    BY <1>2, ReadKeeps
<1>3. CASE SkipSpace \/ BeginComment \/ BeginNewLine \/ BeginMinus \/ BeginNumber \/ BeginSymbol
    BY <1>3, EatsInText
<1>4. CASE LeftParen \/ RightParen \/ AtEnd \/ BeginString \/ FinishParse
    BY <1>4, OpenKeeps, CloseKeeps, EndKeeps, BeginStringKeeps, FinishKeeps
<1>5. CASE InComment \/ EndNewLine
    BY <1>5, BetweenTokens
<1>6. CASE AfterMinus \/ InNumber \/ InString \/ AfterEscape \/ InSymbol
    BY <1>6, InToken
<1> QED BY <1>1, <1>2, <1>3, <1>4, <1>5, <1>6 DEF ParseNext

LEMMA ParserInOrder ==
    ASSUME Hashed(Texts)
    PROVE  ParseSpec => []ParseInv
BY ParseBegins, ParseKeeps, PTL DEF ParseSpec

LEMMA ParseTypes ==
    ASSUME ParseInv
    PROVE  ParseTypeOK
<1>1. InputOK /\ LexerOK(lexer) /\ (status = "reading" => ScanOK(lexer))
      /\ (status = "reading" <=> open # <<>>) /\ StackOK(open, nodes, Len(lists), symtab)
      /\ ListsOK(lists, symtab) /\ InfoOK(debug_info, Len(lists)) /\ range \in Spans
      /\ TrieOK(symtab, Texts)
    BY DEF ParseInv
<1>2. input \in Seq(alphabet) /\ lexer.pos \in Positions /\ lexer.start \in Positions
    BY <1>1, PlaceBounded DEF InputOK
<1>3. /\ lexer.capture \in Seq(alphabet) /\ Len(lexer.capture) <= CaptureSize
      /\ lexer.buf \in alphabet \cup {Nothing, End, Failure}
    BY <1>1 DEF LexerOK, Lexers
<1>4. ASSUME NEW v, NEW n, ValueOK(v, n, symtab) PROVE Exists(v, n)
    BY <1>4 DEF ValueOK, Exists
<1>5. \A n \in DOMAIN nodes : Exists(nodes[n].value, Len(lists))
    BY <1>1, <1>4 DEF StackOK, NodeOK
<1>6. \A n \in DOMAIN lists : \A i \in DOMAIN lists[n] : Exists(lists[n][i], n - 1)
    BY <1>1, <1>4 DEF ListsOK
<1>7. \A k \in DOMAIN debug_info : k[1] \in DOMAIN lists /\ debug_info[k] \in Spans
    BY <1>1, SeqIs DEF ListsOK, InfoOK
<1>8. Len(symtab.nodes) <= symtab.capacity
    BY <1>1 DEF TrieOK
<1>9. (status = "reading") = (open # <<>>)
    BY <1>1
<1>10. NodesKept
    BY <1>1 DEF NodesKept, StackOK, NodeOK, ListOK
<1>11. CaptureIsInput
    BY <1>1 DEF CaptureIsInput, ScanOK, TextOK
<1> QED BY <1>1, <1>2, <1>3, <1>5, <1>6, <1>7, <1>8, <1>9, <1>10, <1>11 DEF ParseTypeOK

(* Whatever the reader returns and however lists nest: the capture buffer,   *)
(* the arena of the parser and the array of symbols hold what is in them,    *)
(* what is captured is the text of the token, ")" releases the elements of   *)
(* the list that it closes and nothing else, a list has only lists and       *)
(* symbols that exist, and every range is one of the text (parser.c:120-169, *)
(* lexer.c:57-81).                                                           *)
THEOREM ParseTypeCorrect ==
    ASSUME Hashed(Texts)
    PROVE  ParseSpec => []ParseTypeOK
BY ParserInOrder, ParseTypes, PTL

(* Every symbol that mara_parse has read has one number in the table.        *)
THEOREM SymbolsInternedOnce ==
    ASSUME Hashed(Texts)
    PROVE  ParseSpec => []InternedOnce
<1>1. ParseInv => InternedOnce
    BY KeyMet DEF InternedOnce, ParseInv
<1> QED BY <1>1, ParserInOrder, PTL

-----------------------------------------------------------------------------
(* With parse_one: the outermost list gets one element, and nothing has been *)
(* made when that begins.                                                    *)
NoneYet(ls, ns, made) ==
    /\ Len(ls) = 1 => ns = <<>> /\ made = <<>>
    /\ Len(ls) > 1 => ls[2].snapshot = 0

OneAtMost(l, ns, made) ==
    \/ ns = <<>> /\ made = <<>>
    \/ \E n : /\ ns = Append(<<>>, n) /\ n.list = 1
              /\ n.value.type \in {"list", "string"} => l.buf = Nothing

LoneInv ==
    parse_one =>
        /\ status = "reading" /\ lexer.mode # "finish" => NoneYet(open, nodes, lists)
        /\ status = "reading" /\ lexer.mode = "finish" => OneAtMost(lexer, nodes, lists)
        /\ status = "done" => NothingLost

LEMMA LoneGoOn ==
    ASSUME ParseInv, LoneInv, status = "reading", lexer.mode # "finish",
           UNCHANGED parse_one, NEW l, l.mode # "finish", GoOn(l)
    PROVE  LoneInv'
<1>1. /\ lexer' = l /\ parse_one' = parse_one
      /\ UNCHANGED <<open, nodes, lists, debug_info, symtab, status, range>>
    BY DEF GoOn, parser
<1> QED BY <1>1 DEF LoneInv, NoneYet

LEMMA LoneFail ==
    ASSUME NEW l, NEW type, type \notin {"reading", "done"}, NEW r, Fail(l, type, r)
    PROVE  LoneInv'
<1>1. status' = type
    BY DEF Fail
<1> QED BY <1>1 DEF LoneInv

LEMMA LonePush ==
    ASSUME status = "reading", UNCHANGED parse_one, NEW l, LexerOK(l),
           NEW ls \in Seq(OpenLists), ls # <<>>, NEW ns,
           parse_one /\ Len(ls) = 1 => ns = <<>>,
           parse_one /\ Len(ls) > 1 => ls[2].snapshot = 0,
           NEW value, value.type \in {"list", "string"} => l.buf = Nothing,
           NEW token, Push(l, ls, ns, value, token)
    PROVE  LoneInv'
<1> DEFINE d == Len(ls)
           x == [list |-> d, value |-> value, range |-> token]
           mode == IF parse_one /\ d = 1 THEN "finish" ELSE "next"
<1>1. d \in Nat /\ DOMAIN ls = 1 .. d /\ d # 0 /\ \A k \in 1 .. d : ls[k] \in OpenLists
    BY EmptySeq
<1>2. Fresh(l) \in Lexers /\ Fresh(l).buf = l.buf /\ Fresh(l).mode = "next"
    BY FreshOK DEF Fresh, LexerOK, Lexers
<1>3. lexer' = [Fresh(l) EXCEPT !.mode = mode]
    BY <1>2 DEF Push
<1> HIDE DEF mode
<1>4. lexer'.buf = l.buf /\ lexer'.mode = mode
    BY <1>2, <1>3 DEF Lexers
<1>5. /\ nodes' = Append(ns, x) /\ open' = [ls EXCEPT ![d].len = @ + 1]
      /\ status' = "reading" /\ parse_one' = parse_one
    BY DEF Push
<1>6. x.list = d /\ x.value = value
    OBVIOUS
<1> HIDE DEF x
<1>7. CASE parse_one /\ d = 1
    <2>1. nodes' = Append(<<>>, x) /\ x.list = 1
        BY <1>5, <1>6, <1>7
    <2>2. x.value.type \in {"list", "string"} => lexer'.buf = Nothing
        BY <1>4, <1>6
    <2>3. OneAtMost(lexer', nodes', lists')
        BY <2>1, <2>2 DEF OneAtMost
    <2>4. lexer'.mode = "finish"
        BY <1>4, <1>7 DEF mode
    <2> QED BY <1>5, <2>3, <2>4 DEF LoneInv
<1>8. CASE parse_one /\ d # 1
    <2>1. 2 \in DOMAIN ls /\ ls[2] \in OpenLists /\ ls[2].snapshot = 0 /\ d > 1
        BY <1>1, <1>8
    <2>2. Len(open') = d
        BY <1>1, <1>5
    <2>3. open'[2].snapshot = 0
        BY <1>1, <1>5, <2>1 DEF OpenLists
    <2>4. NoneYet(open', nodes', lists')
        BY <2>1, <2>2, <2>3 DEF NoneYet
    <2>5. lexer'.mode = "next"
        BY <1>4, <1>8 DEF mode
    <2> QED BY <1>5, <2>4, <2>5 DEF LoneInv
<1>9. CASE ~ parse_one
    BY <1>5, <1>9 DEF LoneInv
<1> QED BY <1>7, <1>8, <1>9

LEMMA LoneToken ==
    ASSUME ParseInv, LoneInv, status = "reading", lexer.mode # "finish", UNCHANGED parse_one,
           NEW l, LexerOK(l), NEW value, value.type \in {"list", "string"} => l.buf = Nothing,
           NEW token, Push(l, open, nodes, value, token)
    PROVE  LoneInv'
<1>1. open \in Seq(OpenLists) /\ open # <<>>
    BY DEF ParseInv, StackOK
<1>2. parse_one => NoneYet(open, nodes, lists)
    BY DEF LoneInv
<1>3. /\ parse_one /\ Len(open) = 1 => nodes = <<>>
      /\ parse_one /\ Len(open) > 1 => open[2].snapshot = 0
    BY <1>2 DEF NoneYet
<1> QED BY <1>1, <1>3, LonePush

LEMMA LoneOpen ==
    ASSUME ParseInv, LoneInv, LeftParen
    PROVE  LoneInv'
<1>1. status = "reading" /\ lexer.mode = "next" /\ UNCHANGED parse_one
    BY SeesIs DEF LeftParen, Unread
<1> DEFINE x == [start |-> lexer.pos, token |-> LexerSpan(lexer), snapshot |-> Len(nodes), len |-> 0]
           d == Len(open)
<1>2. /\ open' = Append(open, x) /\ lexer' = Fresh(Consumed(lexer))
      /\ UNCHANGED <<nodes, lists, status>>
    BY DEF LeftParen, OpenList
<1>3. /\ IsSeq(open) /\ d \in Nat /\ d # 0
    BY <1>1, SeqIs, EmptySeq DEF ParseInv, StackOK, IsSeq
<1>4. x.snapshot = Len(nodes)
    OBVIOUS
<1>5. lexer'.mode = "next"
    <2>1. ~ lexer.capturing /\ InputOK /\ LexerOK(lexer) /\ TextOK(lexer) /\ lexer.buf \in alphabet
        <3>1. Sees("next", {"("}) /\ {"("} \subseteq AnyChar
            BY CharSets DEF LeftParen
        <3>2. "next" \notin CapturingModes
            BY DEF CapturingModes
        <3> QED BY <3>1, <3>2, SeesIs
    <2>2. LexerOK(Consumed(lexer))
        BY <2>1, ConsumeOK DEF IsTooLong
    <2> QED BY <1>2, <2>2, FreshOK
<1> HIDE DEF x
<1>6. /\ Len(open') = d + 1 /\ open'[d + 1] = x /\ \A k \in 1 .. d : open'[k] = open[k]
    BY <1>2, <1>3, SeqAppend
<1>7. ASSUME parse_one PROVE NoneYet(open', nodes', lists')
    <2>1. NoneYet(open, nodes, lists)
        BY <1>1, <1>7 DEF LoneInv
    <2>2. open'[2].snapshot = 0
        <3>1. CASE d = 1
            <4>1. nodes = <<>> /\ d + 1 = 2
                BY <2>1, <3>1 DEF NoneYet
            <4>2. Len(nodes) = 0
                BY <4>1
            <4> QED BY <1>4, <1>6, <4>1, <4>2
        <3>2. CASE d > 1
            BY <1>3, <1>6, <2>1, <3>2 DEF NoneYet
        <3>3. d = 1 \/ d > 1
            BY <1>3
        <3> QED BY <3>1, <3>2, <3>3
    <2>3. Len(open') # 1
        BY <1>3, <1>6
    <2> QED BY <2>2, <2>3 DEF NoneYet
<1> QED BY <1>1, <1>2, <1>5, <1>7 DEF LoneInv

LEMMA LoneClose ==
    ASSUME ParseInv, LoneInv, RightParen
    PROVE  LoneInv'
<1> DEFINE l == Consumed(lexer)
           d == Len(open)
<1>1. /\ status = "reading" /\ UNCHANGED parse_one /\ lexer.mode = "next"
      /\ LexerOK(l) /\ l.buf = Nothing
    <2>1. Sees("next", {")"}) /\ {")"} \subseteq AnyChar
        BY CharSets DEF RightParen
    <2>2. "next" \notin CapturingModes
        BY DEF CapturingModes
    <2>3. /\ status = "reading" /\ Unread /\ InputOK /\ LexerOK(lexer) /\ TextOK(lexer)
          /\ lexer.buf \in alphabet /\ ~ lexer.capturing /\ lexer.mode = "next"
        BY <2>1, <2>2, SeesIs
    <2> QED BY <2>3, ConsumeOK DEF IsTooLong, Unread
<1> HIDE DEF l
<1>2. CASE d = 1
    BY <1>2, LoneFail DEF RightParen, CloseList, l
<1>3. CASE d # 1
    <2> DEFINE ks == Front(open)
               ms == Released(nodes, d)
               value == [type |-> "list", is |-> Len(lists')]
               token == open[d].token
    <2>1. Push(l, ks, ms, value, token)
        BY <1>3 DEF RightParen, CloseList, l
    <2>2. StackOK(open, nodes, Len(lists), symtab) /\ open # <<>>
        BY <1>1 DEF ParseInv
    <2>3. d \in Nat /\ DOMAIN open = 1 .. d /\ d > 1 /\ open \in Seq(OpenLists) /\ IsSeq(nodes)
          /\ Len(nodes) \in Nat
        <3>1. d \in Nat /\ DOMAIN open = 1 .. d /\ Len(nodes) \in Nat
            BY <2>2, StackTypes
        <3>2. d # 0
            BY <2>2, EmptySeq DEF StackOK
        <3> QED BY <1>3, <2>2, <3>1, <3>2 DEF StackOK
    <2>4. ks \in Seq(OpenLists) /\ ks # <<>> /\ Len(ks) = d - 1
        BY <2>2, <2>3, StackClose DEF StackOK
    <2>5. \A k \in 1 .. d - 1 : ks[k] = open[k]
        <3>1. ks = SubSeq(open, 1, d - 1)
            BY DEF Front
        <3> QED BY <2>3, <3>1
    <2> HIDE DEF ks
    <2>6. ASSUME parse_one, Len(ks) = 1 PROVE ms = <<>>
        <3>1. d = 2
            BY <2>3, <2>4, <2>6
        <3>2. open[2].snapshot = 0
            BY <1>1, <2>3, <2>6 DEF LoneInv, NoneYet
        <3>3. ms = SubSeq(nodes, 1, 0)
            BY <3>1, <3>2 DEF Released
        <3>4. IsSeq(SubSeq(nodes, 1, 0)) /\ Len(SubSeq(nodes, 1, 0)) = 0
            BY <2>3, SeqPrefix
        <3>5. ASSUME NEW s, IsSeq(s), Len(s) = 0 PROVE s = <<>>
            BY <3>5, EmptySeq DEF IsSeq
        <3> QED BY <3>3, <3>4, <3>5
    <2>7. ASSUME parse_one, Len(ks) > 1 PROVE ks[2].snapshot = 0
        <3>1. open[2].snapshot = 0
            BY <1>1, <2>3, <2>7 DEF LoneInv, NoneYet
        <3>2. 2 \in 1 .. d - 1
            BY <2>3, <2>4, <2>7
        <3> QED BY <2>5, <3>1, <3>2
    <2> HIDE DEF ms, value, token
    <2> QED BY <1>1, <2>1, <2>4, <2>6, <2>7, LonePush
<1> QED BY <1>2, <1>3

LEMMA NoElements ==
    ASSUME NEW k
    PROVE  Elements(<<>>, k) = <<>>
<1>1. Len(<<>>) = 0
    OBVIOUS
<1>2. PICK f : Gathers(f, <<>>, k, 0) /\ Elements(<<>>, k) = f[0]
    BY <1>1, ElementsGathered
<1> QED BY <1>2 DEF Gathers

LEMMA LoneFinish ==
    ASSUME ParseInv, LoneInv, FinishParse
    PROVE  LoneInv'
<1> DEFINE flat == Flattened(nodes, 1)
<1>1. /\ status = "reading" /\ lexer.mode = "finish" /\ status' = "done" /\ lists' = Append(lists, flat)
      /\ UNCHANGED <<alphabet, parse_one, input, lexer>>
    BY DEF FinishParse
<1>2. SUFFICES ASSUME parse_one PROVE NothingLost'
    BY <1>1 DEF LoneInv
<1>3. OneAtMost(lexer, nodes, lists)
    BY <1>1, <1>2 DEF LoneInv
<1>4. CASE nodes = <<>> /\ lists = <<>>
    <2>1. Elements(nodes, 1) = <<>> /\ Len(<<>>) = 0
        BY <1>4, NoElements
    <2>2. flat = <<>>
        BY <2>1 DEF Flattened
    <2>3. lists' = << <<>> >>
        BY <1>1, <1>4, <2>2
    <2> QED BY <2>3 DEF NothingLost
<1>5. ASSUME NEW n, nodes = Append(<<>>, n), n.list = 1,
             n.value.type \in {"list", "string"} => lexer.buf = Nothing
      PROVE  NothingLost'
    <2>1. IsSeq(<<>>)
        <3>1. <<>> \in Seq({})
            OBVIOUS
        <3> QED BY <3>1 DEF IsSeq
    <2>2. Elements(nodes, 1) = Append(<<>>, n)
        <3>1. ASSUME NEW e, IsSeq(e) PROVE Elements(Append(e, n), 1) = Append(Elements(e, 1), n)
            BY <1>5, <3>1, ElementsAppend
        <3> QED BY <1>5, <2>1, <3>1, NoElements
    <2>3. Len(Append(<<>>, n)) = 1 /\ Append(<<>>, n)[1] = n
        OBVIOUS
    <2>4. flat[1] = n.value
        BY <2>2, <2>3 DEF Flattened
    <2>5. Last(lists') = flat
        <3>1. IsSeq(lists)
            BY DEF ParseInv, ListsOK
        <3>2. Len(lists') = Len(lists) + 1 /\ lists'[Len(lists) + 1] = flat
            <4> HIDE DEF flat
            <4> QED BY <1>1, <3>1, SeqAppend
        <3> QED BY <3>2 DEF Last
    <2> HIDE DEF flat
    <2>6. lexer.buf = Nothing => Len(input) = lexer.pos.byte_offset
        BY NoneIsNoChar DEF ParseInv, LexerOK, InputOK
    <2> QED BY <1>1, <1>5, <2>4, <2>5, <2>6 DEF NothingLost
<1> QED BY <1>3, <1>4, <1>5 DEF OneAtMost
-----------------------------------------------------------------------------
HasMode(l) == "mode" \in DOMAIN l

LEMMA ModeSet ==
    /\ \A l : l \in Lexers => HasMode(l)
    /\ \A l : HasMode(l) => HasMode(Stepped(l)) /\ HasMode(Consumed(l)) /\ HasMode(Captured(l))
    /\ \A l, m : HasMode(l) => [l EXCEPT !.mode = m].mode = m
    /\ \A l : HasMode(l) => NextLine(l).mode = "next"
<1>1. ASSUME NEW l, l \in Lexers PROVE HasMode(l)
    BY <1>1 DEF Lexers, HasMode
<1>2. ASSUME NEW l, HasMode(l) PROVE HasMode(Stepped(l))
    BY <1>2 DEF HasMode, Stepped
<1>3. ASSUME NEW l, HasMode(l) PROVE HasMode(Consumed(l))
    BY <1>2, <1>3 DEF HasMode, Consumed
<1>4. ASSUME NEW l, HasMode(l) PROVE HasMode(Captured(l))
    BY <1>4 DEF HasMode, Captured
<1>5. ASSUME NEW l, NEW m, HasMode(l) PROVE [l EXCEPT !.mode = m].mode = m
    BY <1>5 DEF HasMode
<1>6. ASSUME NEW l, HasMode(l) PROVE NextLine(l).mode = "next"
    BY <1>6 DEF HasMode, NextLine
<1> QED BY <1>1, <1>2, <1>3, <1>4, <1>5, <1>6

LEMMA LoneStays ==
    ASSUME ParseInv, LoneInv, NEW mode, mode # "finish", NEW chars, Sees(mode, chars), NEW l
    PROVE  /\ l.mode # "finish" /\ GoOn(l) => LoneInv'
           /\ \A next : HasMode(l) /\ next # "finish" /\ Consume(l, next) => LoneInv'
           /\ \A type : type \notin {"reading", "done"} /\ LexerFail(l, type) => LoneInv'
<1>1. status = "reading" /\ lexer.mode # "finish" /\ UNCHANGED parse_one
    BY SeesIs DEF Unread
<1>2. ASSUME NEW k, k.mode # "finish", GoOn(k) PROVE LoneInv'
    BY <1>1, <1>2, LoneGoOn
<1>3. ASSUME NEW k, NEW type, type \notin {"reading", "done"}, LexerFail(k, type) PROVE LoneInv'
    BY <1>3, LoneFail DEF LexerFail
<1>4. ASSUME NEW next, HasMode(l), next # "finish", Consume(l, next) PROVE LoneInv'
    <2> DEFINE k == [Consumed(l) EXCEPT !.mode = next]
    <2>1. k.mode # "finish"
        BY <1>4, ModeSet
    <2>2. LexerFail(Stepped(l), "element-too-long") \/ GoOn(k)
        BY <1>4 DEF Consume
    <2> HIDE DEF k
    <2> QED BY <1>2, <1>3, <2>1, <2>2
<1> QED BY <1>2, <1>3, <1>4

LEMMA LoneText ==
    ASSUME ParseInv, LoneInv
    PROVE  /\ SkipSpace \/ BeginComment \/ BeginNewLine => LoneInv'
           /\ BeginMinus \/ BeginNumber \/ BeginSymbol \/ BeginString => LoneInv'
           /\ InComment \/ EndNewLine => LoneInv'
<1>1. HasMode(lexer) /\ HasMode(Captured(lexer)) /\ HasMode(Consumed(lexer))
      /\ HasMode(Captured(Consumed(lexer)))
    BY ModeSet DEF ParseInv, LexerOK
<1>2. ASSUME SkipSpace \/ BeginComment PROVE LoneInv'
    BY <1>1, <1>2, LoneStays DEF SkipSpace, BeginComment
<1>3. ASSUME BeginNewLine PROVE LoneInv'
    <2> DEFINE m == IF lexer.buf = "\r" THEN "cr" ELSE "lf"
    <2>1. m # "finish"
        OBVIOUS
    <2>2. Sees("next", NewLines) /\ Consume(lexer, m)
        BY <1>3 DEF BeginNewLine
    <2> HIDE DEF m
    <2> QED BY <1>1, <2>1, <2>2, LoneStays
<1>4. ASSUME BeginMinus \/ BeginNumber \/ BeginSymbol PROVE LoneInv'
    BY <1>1, <1>4, LoneStays DEF BeginMinus, BeginNumber, BeginSymbol
<1>5. ASSUME BeginString PROVE LoneInv'
    <2> DEFINE l == [Captured(Consumed(lexer)) EXCEPT !.mode = "string"]
    <2>1. l.mode # "finish"
        BY <1>1, ModeSet
    <2>2. Sees("next", {"\""}) /\ GoOn(l)
        BY <1>5 DEF BeginString
    <2> HIDE DEF l
    <2> QED BY <2>1, <2>2, LoneStays
<1>6. ASSUME InComment PROVE LoneInv'
    <2> DEFINE l == [lexer EXCEPT !.mode = "next"]
    <2>1. l.mode # "finish"
        BY <1>1, ModeSet
    <2>2. \/ Sees("comment", Others(NewLines)) /\ Consume(lexer, "comment")
          \/ Sees("comment", NewLines \cup {End}) /\ GoOn(l)
        BY <1>6 DEF InComment
    <2> HIDE DEF l
    <2> QED BY <1>1, <2>1, <2>2, LoneStays
<1>7. ASSUME EndNewLine PROVE LoneInv'
    <2>1. NextLine(lexer).mode # "finish" /\ NextLine(Consumed(lexer)).mode # "finish"
        BY <1>1, ModeSet
    <2>2. \E mode \in {"cr", "lf"} : \E chars : Sees(mode, chars)
        BY <1>7 DEF EndNewLine
    <2>3. GoOn(NextLine(lexer)) \/ GoOn(NextLine(Consumed(lexer)))
        BY <1>7 DEF EndNewLine
    <2> QED BY <2>1, <2>2, <2>3, LoneStays
<1> QED BY <1>2, <1>3, <1>4, <1>5, <1>6, <1>7

LEMMA LoneTakes ==
    ASSUME ParseInv, LoneInv, NEW mode, mode # "finish", NEW chars, Sees(mode, chars)
    PROVE  /\ TakeSymbol(lexer) => LoneInv'
           /\ TakeInt(lexer) => LoneInv'
           /\ TakeReal(lexer) => LoneInv'
           /\ mode = "string" /\ chars = {"\""} /\ TakeString(lexer) => LoneInv'
<1>1. /\ status = "reading" /\ lexer.mode # "finish" /\ UNCHANGED parse_one
      /\ InputOK /\ LexerOK(lexer)
    BY SeesIs DEF Unread
<1>2. ASSUME NEW value, value.type \notin {"list", "string"}, NEW token,
             Push(lexer, open, nodes, value, token)
      PROVE  LoneInv'
    BY <1>1, <1>2, LoneToken
<1>3. ASSUME TakeSymbol(lexer) PROVE LoneInv'
    <2> DEFINE value == [type |-> "symbol", is |-> NumberOf(symtab', lexer.capture)]
    <2>1. value.type \notin {"list", "string"}
        OBVIOUS
    <2>2. Push(lexer, open, nodes, value, LexerSpan(lexer))
        BY <1>3 DEF TakeSymbol
    <2> HIDE DEF value
    <2> QED BY <1>2, <2>1, <2>2
<1>4. ASSUME TakeInt(lexer) PROVE LoneInv'
    <2> DEFINE value == [type |-> "int", is |-> Truncated(Strtol(Without(lexer.capture, "_")))]
    <2>1. value.type \notin {"list", "string"}
        OBVIOUS
    <2>2. \/ Push(lexer, open, nodes, value, LexerSpan(lexer))
          \/ Fail(lexer, "number-too-large", LexerSpan(lexer))
        BY <1>4 DEF TakeInt
    <2> HIDE DEF value
    <2> QED BY <1>2, <2>1, <2>2, LoneFail
<1>5. ASSUME TakeReal(lexer) PROVE LoneInv'
    <2> DEFINE value == [type |-> "real", is |-> Without(lexer.capture, "_")]
    <2>1. value.type \notin {"list", "string"}
        OBVIOUS
    <2>2. \/ Push(lexer, open, nodes, value, LexerSpan(lexer))
          \/ Fail(lexer, "number-too-large", LexerSpan(lexer))
        BY <1>5 DEF TakeReal
    <2> HIDE DEF value
    <2> QED BY <1>2, <2>1, <2>2, LoneFail
<1>6. ASSUME mode = "string", chars = {"\""}, TakeString(lexer) PROVE LoneInv'
    <2> DEFINE value == [type |-> "string", is |-> Unescaped(lexer.capture)]
               l == Stepped(lexer)
    <2>1. LexerOK(l) /\ l.buf = Nothing
        <3>1. {"\""} \subseteq AnyChar
            BY CharSets
        <3>2. lexer.buf \in alphabet
            BY <1>6, <3>1, SeesIs
        <3> QED BY <1>1, <3>2, StepOK, StepIs DEF LexerOK
    <2>2. \/ Push(l, open, nodes, value, LexerSpan(lexer))
          \/ LexerFail(l, "element-too-long")
        BY <1>6 DEF TakeString
    <2> HIDE DEF value, l
    <2> QED BY <1>1, <2>1, <2>2, LoneToken, LoneFail DEF LexerFail
<1> QED BY <1>3, <1>4, <1>5, <1>6

LEMMA LoneInToken ==
    ASSUME ParseInv, LoneInv
    PROVE  /\ AfterMinus => LoneInv'
           /\ InNumber => LoneInv'
           /\ InString => LoneInv'
           /\ AfterEscape => LoneInv'
           /\ InSymbol => LoneInv'
<1>1. HasMode(lexer)
    BY ModeSet DEF ParseInv, LexerOK
<1>2. /\ [lexer EXCEPT !.mode = "symbol"].mode # "finish"
      /\ [lexer EXCEPT !.mode = "string"].mode # "finish"
    BY <1>1, ModeSet
<1>3. ASSUME AfterMinus PROVE LoneInv'
    BY <1>1, <1>2, <1>3, LoneStays DEF AfterMinus
<1>4. ASSUME InNumber PROVE LoneInv'
    <2>1. CASE Sees("number", DigitChars \cup {"_"}) /\ Consume(lexer, "number")
        BY <1>1, <2>1, LoneStays
    <2>2. CASE Sees("real", DigitChars \cup {"_"}) /\ Consume(lexer, "real")
        BY <1>1, <2>2, LoneStays
    <2>3. CASE Sees("number", {"."}) /\ Consume(lexer, "real")
        BY <1>1, <2>3, LoneStays
    <2>4. CASE /\ Sees("real", {"."})
               /\ LexerFail(Stepped(lexer), IF IsTooLong(lexer) THEN "element-too-long" ELSE "bad-number")
        BY <2>4, LoneFail DEF LexerFail
    <2>5. CASE Sees("number", Delimiters \cup {";", End}) /\ TakeInt(lexer)
        BY <2>5, LoneTakes
    <2>6. CASE Sees("real", Delimiters \cup {";", End}) /\ TakeReal(lexer)
        BY <2>6, LoneTakes
    <2>7. CASE LexerFail(lexer, "bad-number")
        BY <2>7, LoneFail DEF LexerFail
    <2> QED BY <1>4, <2>1, <2>2, <2>3, <2>4, <2>5, <2>6, <2>7 DEF InNumber
<1>5. ASSUME InString PROVE LoneInv'
    <2>1. CASE Sees("string", {"\""}) /\ TakeString(lexer)
        BY <2>1, LoneTakes
    <2>2. CASE LexerFail(lexer, "bad-string")
        BY <2>2, LoneFail DEF LexerFail
    <2>3. CASE Sees("string", {"\\"}) /\ Consume(lexer, "escape")
        BY <1>1, <2>3, LoneStays
    <2>4. CASE Sees("string", Others(NewLines \cup {"\"", "\\"})) /\ Consume(lexer, "string")
        BY <1>1, <2>4, LoneStays
    <2> QED BY <1>5, <2>1, <2>2, <2>3, <2>4 DEF InString
<1>6. ASSUME AfterEscape PROVE LoneInv'
    BY <1>1, <1>2, <1>6, LoneStays DEF AfterEscape
<1>7. ASSUME InSymbol PROVE LoneInv'
    BY <1>1, <1>7, LoneStays, LoneTakes DEF InSymbol
<1> QED BY <1>3, <1>4, <1>5, <1>6, <1>7

LEMMA LoneEnd ==
    ASSUME ParseInv, LoneInv, AtEnd
    PROVE  LoneInv'
<1>1. status = "reading" /\ UNCHANGED parse_one /\ lexer.mode = "next" /\ HasMode(lexer)
      /\ open # <<>>
    BY SeesIs, ModeSet DEF AtEnd, Unread, LexerOK, ParseInv
<1>2. CASE Len(open) > 1
    BY <1>2, LoneFail DEF AtEnd, EndOfText
<1>3. CASE ~ (Len(open) > 1)
    <2> DEFINE l == [lexer EXCEPT !.mode = "finish"]
    <2>1. l.mode = "finish" /\ GoOn(l)
        BY <1>1, <1>3, ModeSet DEF AtEnd, EndOfText
    <2> HIDE DEF l
    <2>2. /\ lexer' = l /\ UNCHANGED <<open, nodes, lists, symtab, status>>
        BY <2>1 DEF GoOn, parser
    <2>3. Len(open) = 1
        <3>1. Len(open) \in Nat /\ Len(open) # 0
            BY <1>1, EmptySeq DEF ParseInv, StackOK
        <3> DEFINE d == Len(open)
        <3>2. d \in Nat /\ d # 0 /\ ~ (d > 1)
            BY <1>3, <3>1
        <3> HIDE DEF d
        <3>3. d = 1
            BY <3>2
        <3> QED BY <3>3 DEF d
    <2>4. parse_one => nodes = <<>> /\ lists = <<>>
        BY <1>1, <2>3 DEF LoneInv, NoneYet
    <2> QED BY <1>1, <2>1, <2>2, <2>4 DEF LoneInv, OneAtMost
<1> QED BY <1>2, <1>3

LEMMA LoneRead ==
    ASSUME ParseInv, LoneInv, Read
    PROVE  LoneInv'
<1>1. status = "reading" /\ lexer.mode # "finish" /\ UNCHANGED parse_one /\ HasMode(lexer)
    BY ModeSet DEF Read, ParseInv, LexerOK
<1>2. ASSUME NEW c, GoOn([lexer EXCEPT !.buf = c]) PROVE LoneInv'
    <2> DEFINE l == [lexer EXCEPT !.buf = c]
    <2>1. l.mode = lexer.mode
        BY <1>1 DEF HasMode
    <2>2. GoOn(l)
        BY <1>2
    <2> HIDE DEF l
    <2> QED BY <1>1, <2>1, <2>2, LoneGoOn
<1>3. \/ \E c : GoOn([lexer EXCEPT !.buf = c])
      \/ LexerFail([lexer EXCEPT !.buf = Failure], "io-error")
    BY DEF Read
<1> QED BY <1>2, <1>3, LoneFail DEF LexerFail

(* What mara_parse has read when it returns one element (parser.c:346-391,   *)
(* lexer.c:29-55): a host that reads element after element from a stream     *)
(* finds the next one where the last one ended.                              *)
THEOREM OneElementIsRead ==
    ASSUME Hashed(Texts)
    PROVE  ParseSpec => []NothingLost
<1>1. ParseInit => ParseInv /\ LoneInv
    <2>1. ASSUME ParseInit PROVE LoneInv
        <3>1. status = "reading" /\ lexer.mode = "next" /\ nodes = <<>> /\ lists = <<>> /\ Len(open) = 1
            BY <2>1 DEF ParseInit
        <3> QED BY <3>1 DEF LoneInv, NoneYet
    <2> QED BY <2>1, ParseBegins
<1>2. ParseInv /\ LoneInv /\ [ParseNext]_parseVars => (ParseInv /\ LoneInv)'
    <2> SUFFICES ASSUME ParseInv, LoneInv, [ParseNext]_parseVars PROVE LoneInv'
        BY ParseKeeps
    <2>1. CASE UNCHANGED parseVars
        BY <2>1 DEF parseVars, LoneInv, NoneYet, OneAtMost, NothingLost
    <2>2. CASE Read \/ AtEnd \/ LeftParen \/ RightParen \/ FinishParse
        BY <2>2, LoneRead, LoneEnd, LoneOpen, LoneClose, LoneFinish
    <2>3. CASE \/ SkipSpace \/ BeginComment \/ BeginNewLine
               \/ BeginMinus \/ BeginNumber \/ BeginSymbol \/ BeginString \/ InComment \/ EndNewLine
        BY <2>3, LoneText
    <2>4. CASE AfterMinus \/ InNumber \/ InString \/ AfterEscape \/ InSymbol
        BY <2>4, LoneInToken
    <2> QED BY <2>1, <2>2, <2>3, <2>4 DEF ParseNext
<1>3. ParseInv /\ LoneInv => NothingLost
    BY DEF ParseInv, LoneInv, NothingLost
<1> QED BY <1>1, <1>2, <1>3, PTL DEF ParseSpec

-----------------------------------------------------------------------------
(* What the parser does to the symbol table.                                 *)
LEMMA SymtabLeft ==
    /\ \A l : GoOn(l) => symtab' = symtab
    /\ \A l, type, r : Fail(l, type, r) => symtab' = symtab
    /\ \A l, type : LexerFail(l, type) => symtab' = symtab
    /\ \A l, mode : Consume(l, mode) => symtab' = symtab
    /\ \A l : TakeInt(l) \/ TakeReal(l) \/ TakeString(l) => symtab' = symtab
    /\ \A l : OpenList(l) \/ CloseList(l) \/ EndOfText(l) => symtab' = symtab
<1>1. ASSUME NEW l, GoOn(l) PROVE symtab' = symtab
    BY <1>1 DEF GoOn, parser
<1>2. ASSUME NEW l, NEW type, NEW r, Fail(l, type, r) PROVE symtab' = symtab
    BY <1>2 DEF Fail
<1>3. ASSUME NEW l, NEW type, LexerFail(l, type) PROVE symtab' = symtab
    BY <1>2, <1>3 DEF LexerFail
<1>4. ASSUME NEW l, NEW mode, Consume(l, mode) PROVE symtab' = symtab
    BY <1>1, <1>3, <1>4 DEF Consume
<1>5. ASSUME NEW l, TakeInt(l) \/ TakeReal(l) \/ TakeString(l) PROVE symtab' = symtab
    <2>1. CASE TakeInt(l)
        BY <1>2, <2>1 DEF TakeInt
    <2>2. CASE TakeReal(l)
        BY <1>2, <2>2 DEF TakeReal
    <2>3. CASE TakeString(l)
        BY <1>3, <2>3 DEF TakeString
    <2> QED BY <1>5, <2>1, <2>2, <2>3
<1>6. ASSUME NEW l, OpenList(l) \/ CloseList(l) \/ EndOfText(l) PROVE symtab' = symtab
    <2>1. CASE OpenList(l)
        BY <2>1 DEF OpenList
    <2>2. CASE CloseList(l)
        BY <1>2, <2>2 DEF CloseList
    <2>3. CASE EndOfText(l)
        BY <1>1, <1>2, <2>3 DEF EndOfText
    <2> QED BY <1>6, <2>1, <2>2, <2>3
<1> QED BY <1>1, <1>2, <1>3, <1>4, <1>5, <1>6

(* mara_parse implements the specification of the symbol table: it changes   *)
(* the table by mara_symtab_intern alone (parser.c:297-299), and what is       *)
(* proved of SymtabSpec holds of it.                                         *)
THEOREM ParserUsesSymtab ==
    ASSUME Hashed(Texts)
    PROVE  ParseSpec => SymtabSpec(Texts)
<1> DEFINE Interns == \E text \in Texts : symtab' = Intern(symtab, text)
<1>1. ASSUME ParseInv, [ParseNext]_parseVars PROVE symtab' = symtab \/ Interns
    <2>1. CASE UNCHANGED parseVars
        BY <2>1 DEF parseVars
    <2>2. CASE Read \/ AtEnd \/ LeftParen \/ RightParen \/ FinishParse
        BY <2>2, SymtabLeft DEF Read, AtEnd, LeftParen, RightParen, FinishParse
    <2>3. CASE \/ SkipSpace \/ BeginComment \/ BeginNewLine
               \/ BeginMinus \/ BeginNumber \/ BeginSymbol \/ BeginString
        BY <2>3, SymtabLeft
        DEF SkipSpace, BeginComment, BeginNewLine, BeginMinus, BeginNumber, BeginSymbol, BeginString
    <2>4. CASE InComment \/ EndNewLine \/ AfterMinus \/ AfterEscape
        BY <2>4, SymtabLeft DEF InComment, EndNewLine, AfterMinus, AfterEscape
    <2>5. CASE InNumber \/ InString
        BY <2>5, SymtabLeft DEF InNumber, InString
    <2>6. CASE InSymbol
        <3>1. CASE Sees("symbol", Delimiters \cup {End}) /\ TakeSymbol(lexer)
            <4>1. LexerOK(lexer) /\ InputOK
                BY <1>1 DEF ParseInv
            <4>2. lexer.capture \in Texts
                <5>1. lexer.capture \in Seq(alphabet) /\ alphabet \subseteq UNION Alphabets
                    BY <4>1 DEF LexerOK, Lexers, InputOK
                <5> QED BY <5>1 DEF Texts
            <4> QED BY <3>1, <4>2 DEF TakeSymbol
        <3>2. CASE Consume(lexer, "symbol")
            BY <3>2, SymtabLeft
        <3> QED BY <2>6, <3>1, <3>2 DEF InSymbol
    <2> HIDE DEF Interns
    <2> QED BY <1>1, <2>1, <2>2, <2>3, <2>4, <2>5, <2>6 DEF ParseNext
<1>2. ParseInv /\ [ParseNext]_parseVars => [Interns]_symtab
    BY <1>1
<1>3. ParseInit => symtab = EmptySymtab
    BY DEF ParseInit
<1> QED BY <1>2, <1>3, ParserInOrder, PTL DEF ParseSpec, SymtabSpec
=============================================================================
