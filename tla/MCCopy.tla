------------------------------- MODULE MCCopy -------------------------------
(* Graphs for DeepCopy: o1 is a list or a map of two in the youngest zone;    *)
(* o2 and o3 are anything smaller, in any zone.                               *)
EXTENDS DeepCopy, TLC

CONSTANTS p1, p2, p3

o1 == "o1"
o2 == "o2"
o3 == "o3"
MCImmediate == {"i"}

Object(type, level, body) == [type |-> type, level |-> level, body |-> body]

Entries == {<<o2, o3>>, <<o3, o1>>, <<"i", o2>>, <<Tombstone, Nil>>}
Large ==
    {Object("list", 2, b) : b \in {<<>>, <<o1, o2>>, <<o2, o2>>, <<o2, o3>>, <<"i", o3>>}}
    \cup {Object("map", 2, d \o e) : d, e \in Entries}
Small ==
    {Object("function", l, <<v>>) : l \in {1, 2}, v \in {o1, o2, o3}}
    \cup {Object("map", 2, e) : e \in {<<o1, "i">>, <<o3, o2>>, <<Tombstone, Nil>>}}
    \cup {Object("string", l, <<"i">>) : l \in {0, 2}}

MCGraphs ==
    {g \in {(o1 :> a) @@ (o2 :> b) @@ (o3 :> c) : a \in Large, b, c \in Small} : IsGraph(g)}
=============================================================================
