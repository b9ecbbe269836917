--------------------------- MODULE DeepCopyProofs ---------------------------
(***************************************************************************)
(* Proofs about DeepCopy, for heaps of any size and shape.                  *)
(*                                                                          *)
(* That mara_copy does what AbstractCopy says takes an invariant about the  *)
(* copies that are not complete: each is as far as the call that makes it,  *)
(* which waits for the call above it on the stack.                          *)
(***************************************************************************)
EXTENDS DeepCopy, SequenceTheorems, TLAPS

Originals == DOMAIN heap \ Places

(* From objects to their copies: the table, with a string that mara_copy has *)
(* copied without it.                                                        *)
Table ==
    IF copied = <<>> /\ MustMove(value) /\ ret # NoResult THEN [o \in {value} |-> ret] ELSE copied

Renamed(f, v) == IF v \in DOMAIN f THEN f[v] ELSE v

(* v is what the copy may refer to, or has a copy.                           *)
Met(v) == MustMove(v) => v \in DOMAIN Table

(* The heap is that of a graph, and copies with a level and a type.          *)
HeapOK ==
    /\ \A v \in DOMAIN heap \cup Places : v \notin Immediate \cup {Nil, Tombstone, Garbage, NoResult}
    /\ IsGraph([o \in Originals |-> heap[o]])
    /\ \A a \in Copies : heap[a].type = "map" => Len(heap[a].body) % 2 = 0
    /\ value \in Originals \cup Immediate

(* Every copy is that of one object, which had to move.                      *)
TableOK ==
    /\ DOMAIN Table \subseteq Originals
    /\ \A o \in DOMAIN Table :
         /\ MustMove(o) /\ Table[o] \in Copies
         /\ heap[Table[o]].type = heap[o].type
    /\ \A o, p \in DOMAIN Table : Table[o] = Table[p] => o = p
    /\ \A a \in Copies : \E o \in DOMAIN Table : Table[o] = a

EntriesUpTo(body, m) ==
    {<<Key(body, n), Value(body, n)>> : n \in {k \in 1 .. m : Key(body, k) # Tombstone}}

RenamedEntries(body, m) ==
    {<<Renamed(Table, Key(body, n)), Renamed(Table, Value(body, n))>> :
        n \in {k \in 1 .. m : Key(body, k) # Tombstone}}

(* The copy of o is complete up to slot n.                                   *)
CopiedUpTo(o, n) ==
    LET old == heap[o].body
        new == heap[Table[o]].body
    IN  /\ n <= Len(old)
        /\ \A j \in 1 .. n : Met(old[j])
        /\ heap[o].type # "map" =>
             Len(new) = Len(old) /\ \A j \in 1 .. n : new[j] = Renamed(Table, old[j])
        /\ heap[o].type = "map" =>
             EntriesUpTo(new, Len(new) \div 2) = RenamedEntries(old, n \div 2)

InProgress(o) == \E i \in 1 .. Len(stack) : stack[i].obj = o

CopiesOK ==
    /\ \A o \in DOMAIN Table : ~ InProgress(o) => CopiedUpTo(o, Len(heap[o].body))
    /\ \A i \in 1 .. Len(stack) : CopiedUpTo(stack[i].obj, stack[i].done)

(* The value that call i is copying.                                         *)
At(i) == heap[stack[i].obj].body[stack[i].done + 1]

(* A call knows its copy, and the copy of the key that it has copied.        *)
FrameOK(frame) ==
    /\ heap[frame.obj].type # "string"
    /\ frame.copy = Table[frame.obj]
    /\ heap[frame.obj].type = "map" /\ frame.done % 2 = 1 =>
         frame.key = Renamed(Table, heap[frame.obj].body[frame.done])

(* Each call waits for the one above it, which copies the next slot; what    *)
(* has been returned is for the innermost call.                              *)
CallsOK ==
    /\ \A i \in 1 .. Len(stack) :
         /\ FrameOK(stack[i])
         /\ i < Len(stack) \/ ret # NoResult => stack[i].done < Len(heap[stack[i].obj].body)
         /\ i < Len(stack) => stack[i + 1].obj = At(i)
    /\ stack # <<>> => stack[1].obj = value
    /\ stack # <<>> /\ ret # NoResult =>
         Met(At(Len(stack))) /\ ret = Renamed(Table, At(Len(stack)))
    /\ stack = <<>> /\ ret # NoResult => Met(value) /\ ret = Renamed(Table, value)
    /\ stack = <<>> /\ ret = NoResult => copied = <<>> /\ result = NoResult
    /\ result # NoResult => ret # NoResult /\ stack = <<>>

Young == {o \in Originals : heap[o].level > target}

(* What has to be copied with the value.                                     *)
Closed(S) ==
    /\ S \subseteq Young
    /\ MustMove(value) => value \in S
    /\ \A o \in S : \A j \in 1 .. Len(heap[o].body) :
          MustMove(heap[o].body[j]) => heap[o].body[j] \in S

OnlyReached == \A S \in SUBSET Young : Closed(S) => DOMAIN Table \subseteq S

IInv ==
    /\ TypeOK /\ CopiesAreOld /\ HeapOK /\ TableOK /\ CopiesOK /\ CallsOK /\ OnlyReached

-----------------------------------------------------------------------------
(* The values that an original may have in its body.                         *)
Others == Immediate \cup {Nil, Tombstone, Garbage}
OldValues == Originals \cup Others

(* The two slots of a node. *)
LEMMA TwoSlots ==
    ASSUME NEW l \in Nat, NEW n \in 1 .. l \div 2
    PROVE  /\ 2 * n - 1 \in 1 .. l /\ 2 * n \in 1 .. l
           /\ n \in Nat /\ n >= 1
    OBVIOUS

LEMMA HalfIsNatural == \A l \in Nat : l \div 2 \in Nat
    OBVIOUS

LEMMA OneMoreNode ==
    ASSUME NEW l \in Nat, l % 2 = 0, NEW h, h = l \div 2
    PROVE  h \in Nat /\ l = 2 * h /\ (l + 2) \div 2 = h + 1
    OBVIOUS

LEMMA NodeOfSlot ==
    ASSUME NEW l \in Nat, l % 2 = 0, NEW j \in 1 .. l
    PROVE  \E n \in 1 .. l \div 2 : j = 2 * n - 1 \/ j = 2 * n
<1>1. PICK h \in Nat : h = l \div 2 /\ l = 2 * h
    OBVIOUS
<1>2. PICK n \in Nat : n = (j + 1) \div 2
    OBVIOUS
<1>3. j = 2 * n - 1 \/ j = 2 * n
    BY <1>2
<1>4. n \in 1 .. h
    BY <1>1, <1>3
<1> QED BY <1>1, <1>3, <1>4

LEMMA MoreNodes ==
    ASSUME NEW l \in Nat, NEW m \in Nat, m <= l, NEW n \in 1 .. m \div 2
    PROVE  n \in 1 .. l \div 2
    OBVIOUS

LEMMA HeapIs ==
    ASSUME IInv
    PROVE  /\ \A o \in DOMAIN heap :
                /\ heap[o].type \in Types /\ heap[o].level \in Int
                /\ heap[o].body \in Seq(Values)
                /\ heap[o] = [type |-> heap[o].type, level |-> heap[o].level, body |-> heap[o].body]
           /\ \A v \in DOMAIN heap : v \notin Others /\ v # NoResult
           /\ \A v \in Places : v \notin Others /\ v # NoResult
           /\ target \in Int
           /\ NoResult \notin Others
    BY DeepCopyAssumption DEF IInv, TypeOK, Objects, Values, HeapOK, Others

LEMMA OriginalIs ==
    ASSUME IInv, NEW o \in Originals
    PROVE  /\ o \in DOMAIN heap /\ o \notin Copies
           /\ heap[o].body \in Seq(OldValues)
           /\ heap[o].type = "string" =>
                \A j \in 1 .. Len(heap[o].body) : heap[o].body[j] \in Immediate
           /\ heap[o].type = "map" =>
                /\ Len(heap[o].body) % 2 = 0
                /\ \A n \in Nodes(heap[o].body) :
                     /\ Key(heap[o].body, n) = Tombstone <=> Value(heap[o].body, n) = Nil
                     /\ \A m \in Nodes(heap[o].body) :
                          SameKey(heap, Key(heap[o].body, m), Key(heap[o].body, n)) /\ m # n =>
                          Key(heap[o].body, n) = Tombstone
<1> DEFINE g == [x \in Originals |-> heap[x]]
<1>1. IsGraph(g) /\ DOMAIN g = Originals /\ g[o] = heap[o]
    BY DEF IInv, HeapOK
<1>2. g[o] \in Objects(DOMAIN g)
    BY <1>1 DEF IsGraph
<1>3. heap[o].body \in Seq(OldValues)
    BY <1>1, <1>2 DEF Objects, OldValues, Others
<1>4. heap[o].type = "string" => \A j \in 1 .. Len(heap[o].body) : heap[o].body[j] \in Immediate
    BY <1>1 DEF IsGraph
<1>5. ASSUME heap[o].type = "map", NEW n \in Nodes(heap[o].body), NEW m \in Nodes(heap[o].body),
             SameKey(heap, Key(heap[o].body, m), Key(heap[o].body, n)), m # n
      PROVE  Key(heap[o].body, n) = Tombstone
    <2>1. /\ 2 * n - 1 \in 1 .. Len(heap[o].body)
          /\ 2 * m - 1 \in 1 .. Len(heap[o].body)
        <3>1. Len(heap[o].body) \in Nat
            BY <1>3
        <3>2. n \in 1 .. Len(heap[o].body) \div 2 /\ m \in 1 .. Len(heap[o].body) \div 2
            BY DEF Nodes
        <3> QED BY ONLY <3>1, <3>2, TwoSlots
    <2>2. Key(heap[o].body, n) \in OldValues /\ Key(heap[o].body, m) \in OldValues
        BY <1>3, <2>1 DEF Key
    <2>3. SameKey(g, Key(heap[o].body, m), Key(heap[o].body, n))
        BY <1>5, <2>2, HeapIs DEF SameKey, OldValues, Originals
    <2> QED BY <1>1, <1>5, <2>3 DEF IsGraph
<1>6. heap[o].type = "map" =>
        /\ Len(heap[o].body) % 2 = 0
        /\ \A n \in Nodes(heap[o].body) :
             Key(heap[o].body, n) = Tombstone <=> Value(heap[o].body, n) = Nil
    BY <1>1 DEF IsGraph
<1> QED BY <1>3, <1>4, <1>5, <1>6 DEF Originals, Copies

LEMMA RenamedIs ==
    ASSUME IInv, NEW v \in OldValues, Met(v)
    PROVE  /\ v \in DOMAIN Table => Renamed(Table, v) = Table[v] /\ Renamed(Table, v) \in Copies
           /\ v \notin DOMAIN Table => Renamed(Table, v) = v
           /\ Renamed(Table, v) \in Values
           /\ Renamed(Table, v) \in DOMAIN heap => heap[Renamed(Table, v)].level <= target
           /\ Renamed(Table, v) = Nil <=> v = Nil
           /\ Renamed(Table, v) = Tombstone <=> v = Tombstone
<1>1. /\ v \in DOMAIN Table => Renamed(Table, v) = Table[v] /\ Renamed(Table, v) \in Copies
      /\ v \in DOMAIN Table => v \in Originals
      /\ v \notin DOMAIN Table => Renamed(Table, v) = v
    BY DEF Renamed, IInv, TableOK
<1>2. Renamed(Table, v) \in Values
    BY <1>1 DEF Values, OldValues, Others, Copies, Originals
<1>3. ASSUME Renamed(Table, v) \in DOMAIN heap
      PROVE  heap[Renamed(Table, v)].level <= target
    <2>1. CASE v \in DOMAIN Table
        BY <1>1, <2>1, HeapIs DEF IInv, CopiesAreOld
    <2>2. CASE v \notin DOMAIN Table
        BY <1>1, <1>3, <2>2, HeapIs DEF Met, MustMove
    <2> QED BY <2>1, <2>2
<1>4. /\ Renamed(Table, v) = Nil <=> v = Nil
      /\ Renamed(Table, v) = Tombstone <=> v = Tombstone
    BY <1>1, HeapIs DEF Others, Originals, Copies
<1> QED BY <1>1, <1>2, <1>3, <1>4

(* The copy of a string that is in the table is complete: its characters are *)
(* those of the string.                                                      *)
LEMMA StringIsCopied ==
    ASSUME IInv, NEW o \in DOMAIN Table, heap[o].type = "string"
    PROVE  heap[Table[o]].type = "string" /\ heap[Table[o]].body = heap[o].body
<1>1. o \in Originals /\ Table[o] \in DOMAIN heap /\ heap[Table[o]].type = "string"
    BY DEF IInv, TableOK, Copies
<1>2. ~ InProgress(o)
    BY DEF IInv, CallsOK, FrameOK, InProgress
<1>3. CopiedUpTo(o, Len(heap[o].body))
    BY <1>2 DEF IInv, CopiesOK
<1>4. /\ Len(heap[Table[o]].body) = Len(heap[o].body)
      /\ \A j \in 1 .. Len(heap[o].body) : heap[Table[o]].body[j] = Renamed(Table, heap[o].body[j])
    BY <1>3 DEF CopiedUpTo
<1>5. \A j \in 1 .. Len(heap[o].body) : heap[o].body[j] \in Immediate
    BY <1>1, OriginalIs
<1>6. \A x \in Immediate : Renamed(Table, x) = x
    BY HeapIs DEF Renamed, IInv, TableOK, Originals, Others
<1>7. heap[Table[o]].body \in Seq(Values) /\ heap[o].body \in Seq(Values)
    BY <1>1, HeapIs DEF Originals
<1>8. heap[Table[o]].body = heap[o].body
    BY <1>4, <1>5, <1>6, <1>7, SeqEqual
<1> QED BY <1>1, <1>8

(* Copies of different keys are different keys. *)
LEMMA RenamedSameKey ==
    ASSUME IInv, NEW k \in OldValues, NEW l \in OldValues, Met(k), Met(l),
           SameKey(heap, Renamed(Table, k), Renamed(Table, l))
    PROVE  SameKey(heap, k, l)
<1> DEFINE x == Renamed(Table, k)
           y == Renamed(Table, l)
<1>1. \A v \in {k, l} :
        /\ v \in DOMAIN Table => Renamed(Table, v) = Table[v] /\ Renamed(Table, v) \in Copies /\ v \in Originals
        /\ v \notin DOMAIN Table => Renamed(Table, v) = v /\ v \notin Copies
    BY HeapIs DEF Renamed, IInv, TableOK, OldValues, Originals, Copies, Others
<1>2. CASE x = y
    <2>1. CASE k \in DOMAIN Table /\ l \in DOMAIN Table
        BY <1>1, <1>2, <2>1 DEF IInv, TableOK, SameKey
    <2>2. CASE ~ (k \in DOMAIN Table /\ l \in DOMAIN Table)
        BY <1>1, <1>2, <2>2 DEF SameKey
    <2> QED BY <2>1, <2>2
<1>3. CASE x # y
    <2>1. /\ x \in DOMAIN heap /\ y \in DOMAIN heap
          /\ heap[x].type = "string" /\ heap[y].type = "string" /\ heap[x].body = heap[y].body
        BY <1>3 DEF SameKey
    <2>2. \A v \in {k, l} :
            /\ v \in DOMAIN heap /\ heap[v].type = heap[Renamed(Table, v)].type
            /\ heap[v].type = "string" => heap[v].body = heap[Renamed(Table, v)].body
        <3> TAKE v \in {k, l}
        <3>1. CASE v \in DOMAIN Table
            BY <1>1, <3>1, StringIsCopied DEF IInv, TableOK, Originals
        <3>2. CASE v \notin DOMAIN Table
            BY <1>1, <2>1, <3>2
        <3> QED BY <3>1, <3>2
    <2> QED BY <2>1, <2>2 DEF SameKey
<1> QED BY <1>2, <1>3

-----------------------------------------------------------------------------
(* What every step does to the originals and to the table.                   *)
Grows ==
    /\ UNCHANGED <<value, target>>
    /\ Originals' = Originals
    /\ \A o \in Originals : heap'[o] = heap[o]
    /\ \A o \in DOMAIN Table : o \in DOMAIN Table' /\ Table'[o] = Table[o]
    /\ \A o \in DOMAIN Table' : o \in Originals /\ MustMove(o)

LEMMA GrowsMet ==
    ASSUME IInv, Grows, NEW v \in OldValues
    PROVE  /\ MustMove(v)' <=> MustMove(v)
           /\ Met(v) => Met(v)' /\ Renamed(Table', v) = Renamed(Table, v)
<1>1. v \in DOMAIN heap <=> v \in Originals
    BY HeapIs DEF OldValues, Originals
<1>2. v \in DOMAIN heap' <=> v \in Originals
    BY HeapIs DEF OldValues, Originals, Grows
<1>3. MustMove(v)' <=> MustMove(v)
    BY <1>1, <1>2 DEF MustMove, Grows
<1> QED BY <1>3 DEF Met, Renamed, Grows

(* The two slots of each node of an original. *)
LEMMA SlotsOfNode ==
    ASSUME IInv, NEW o \in Originals, NEW m \in Nat, m <= Len(heap[o].body),
           NEW n \in 1 .. m \div 2
    PROVE  /\ 2 * n - 1 \in 1 .. m /\ 2 * n \in 1 .. m
           /\ n \in Nodes(heap[o].body)
           /\ Key(heap[o].body, n) \in OldValues /\ Value(heap[o].body, n) \in OldValues
<1>1. heap[o].body \in Seq(OldValues)
    BY OriginalIs
<1>2. Len(heap[o].body) \in Nat
    BY <1>1
<1>3. 2 * n - 1 \in 1 .. m /\ 2 * n \in 1 .. m
    BY ONLY TwoSlots, n \in 1 .. m \div 2, m \in Nat
<1>4. n \in Nodes(heap[o].body)
    <2>1. n \in 1 .. Len(heap[o].body) \div 2
        BY <1>2, MoreNodes
    <2> QED BY <2>1 DEF Nodes
<1> QED BY <1>1, <1>2, <1>3, <1>4 DEF Key, Value

LEMMA CopyStays ==
    ASSUME IInv, Grows, NEW o \in DOMAIN Table, NEW n \in Nat,
           CopiedUpTo(o, n), heap'[Table[o]] = heap[Table[o]]
    PROVE  CopiedUpTo(o, n)'
<1> DEFINE old == heap[o].body
           new == heap[Table[o]].body
<1>1. /\ o \in Originals /\ heap'[o] = heap[o] /\ Table'[o] = Table[o]
      /\ old \in Seq(OldValues)
      /\ n <= Len(old)
    BY OriginalIs DEF Grows, IInv, TableOK, CopiedUpTo
<1>2. \A j \in 1 .. n : old[j] \in OldValues /\ Met(old[j])
    BY <1>1 DEF CopiedUpTo
<1>3. \A j \in 1 .. n : Met(old[j])' /\ Renamed(Table', old[j]) = Renamed(Table, old[j])
    <2> SUFFICES ASSUME NEW j \in 1 .. n
                 PROVE  Met(old[j])' /\ Renamed(Table', old[j]) = Renamed(Table, old[j])
        OBVIOUS
    <2>1. PICK v \in OldValues : v = old[j] /\ v = old[j]' /\ Met(v)
        BY <1>1, <1>2
    <2>2. Met(v)' /\ Renamed(Table', v) = Renamed(Table, v)
        BY <2>1, GrowsMet
    <2> QED BY <2>1, <2>2 DEF Met
<1>4. CASE heap[o].type # "map"
    BY <1>1, <1>3, <1>4 DEF CopiedUpTo
<1>5. CASE heap[o].type = "map"
    <2>1. \A k \in 1 .. n \div 2 :
            /\ Renamed(Table', Key(old, k)) = Renamed(Table, Key(old, k))
            /\ Renamed(Table', Value(old, k)) = Renamed(Table, Value(old, k))
        BY <1>1, <1>3, SlotsOfNode DEF Key, Value
    <2>2. RenamedEntries(old, n \div 2)' = RenamedEntries(old, n \div 2)
        BY <1>1, <2>1 DEF RenamedEntries
    <2> QED BY <1>1, <1>3, <1>5, <2>2 DEF CopiedUpTo, EntriesUpTo
<1> QED BY <1>4, <1>5

(* new is body with the node of k and v in the second place.                 *)
IsInsertion(new, body, k, v) ==
    /\ Len(new) = Len(body) + 2
    /\ Len(body) = 0 => new[1] = k /\ new[2] = v
    /\ Len(body) # 0 =>
         /\ Len(body) >= 2
         /\ \A i \in 1 .. 2 : new[i] = body[i]
         /\ new[3] = k /\ new[4] = v
         /\ \A i \in 5 .. Len(body) + 2 : new[i] = body[i - 2]

LEMMA CopyIsSame ==
    ASSUME UNCHANGED <<heap, target>>, Table' = Table, NEW o, NEW n
    PROVE  CopiedUpTo(o, n)' <=> CopiedUpTo(o, n)
<1>1. \A v : Met(v)' <=> Met(v)
    BY DEF Met, MustMove
<1>2. RenamedEntries(heap[o].body, n \div 2)' = RenamedEntries(heap[o].body, n \div 2)
    BY DEF RenamedEntries
<1>3. EntriesUpTo(heap[Table[o]].body, Len(heap[Table[o]].body) \div 2)' =
      EntriesUpTo(heap[Table[o]].body, Len(heap[Table[o]].body) \div 2)
    BY DEF EntriesUpTo
<1>4. /\ heap'[o] = heap[o] /\ heap'[Table'[o]] = heap[Table[o]]
      /\ \A v : Renamed(Table', v) = Renamed(Table, v)
    OBVIOUS
<1>5. \A j \in 1 .. n : Met(heap[o].body[j])' <=> Met(heap[o].body[j])
    BY DEF Met, MustMove
<1> QED BY <1>2, <1>3, <1>4, <1>5 DEF CopiedUpTo

LEMMA InsertedIs ==
    ASSUME NEW S, NEW body \in Seq(S), Len(body) % 2 = 0, NEW k \in S, NEW v \in S
    PROVE  Inserted(body, k, v) \in Seq(S) /\ IsInsertion(Inserted(body, k, v), body, k, v)
<1>1. body = <<>> <=> Len(body) = 0
    BY EmptySeq
<1>2. CASE body = <<>>
    BY <1>1, <1>2 DEF Inserted, IsInsertion
<1>3. CASE body # <<>>
    <2>1. Len(body) \in Nat /\ Len(body) >= 2
        BY <1>3, EmptySeq
    <2>2. /\ SubSeq(body, 1, 2) \in Seq(S) /\ Len(SubSeq(body, 1, 2)) = 2
          /\ \A i \in 1 .. 2 : SubSeq(body, 1, 2)[i] = body[i]
        BY <2>1, SubSeqProperties
    <2>3. /\ SubSeq(body, 3, Len(body)) \in Seq(S)
          /\ Len(SubSeq(body, 3, Len(body))) = IF 3 <= Len(body) THEN Len(body) - 3 + 1 ELSE 0
          /\ \A i \in 1 .. Len(body) - 3 + 1 : SubSeq(body, 3, Len(body))[i] = body[3 + i - 1]
        <3>1. \A i \in 3 .. Len(body) : body[i] \in S
            BY <2>1
        <3> QED BY <2>1, <3>1, SubSeqProperties
    <2>4. PICK front : front = SubSeq(body, 1, 2)
        OBVIOUS
    <2>5. PICK rest : rest = SubSeq(body, 3, Len(body))
        OBVIOUS
    <2>6. PICK mid : mid = <<k, v>>
        OBVIOUS
    <2>7. PICK l : l = Len(body)
        OBVIOUS
    <2>8. /\ front \in Seq(S) /\ Len(front) = 2 /\ front[1] = body[1] /\ front[2] = body[2]
           /\ mid \in Seq(S) /\ Len(mid) = 2 /\ mid[1] = k /\ mid[2] = v
           /\ rest \in Seq(S)
        BY <2>2, <2>3, <2>4, <2>5, <2>6
    <2>9. l \in Nat /\ l >= 2
        BY <2>1, <2>7
    <2>10. Len(rest) = l - 2
        BY ONLY <2>3, <2>5, <2>7, <2>9
    <2>11. ASSUME NEW i \in 1 .. l - 2
           PROVE  rest[i] = body[i + 2]
        <3>1. i \in 1 .. l - 3 + 1 /\ 3 + i - 1 = i + 2
            BY <2>9
        <3> QED BY ONLY <2>3, <2>5, <2>7, <3>1
    <2>12. /\ front \o mid \in Seq(S)
           /\ Len(front \o mid) = Len(front) + Len(mid)
           /\ \A i \in 1 .. Len(front) + Len(mid) :
                (front \o mid)[i] = IF i <= Len(front) THEN front[i] ELSE mid[i - Len(front)]
        BY ONLY <2>8, ConcatProperties
    <2>13. PICK four : four = front \o mid
        OBVIOUS
    <2>14. /\ four \in Seq(S) /\ Len(four) = 4
          /\ four[1] = body[1] /\ four[2] = body[2] /\ four[3] = k /\ four[4] = v
        BY ONLY <2>8, <2>12, <2>13
    <2>15. /\ four \o rest \in Seq(S)
          /\ Len(four \o rest) = Len(four) + Len(rest)
          /\ \A i \in 1 .. Len(four) + Len(rest) :
               (four \o rest)[i] = IF i <= Len(four) THEN four[i] ELSE rest[i - Len(four)]
        BY ONLY <2>8, <2>14, ConcatProperties
    <2>16. PICK new : new = four \o rest
        OBVIOUS
    <2>17. new \in Seq(S) /\ Len(new) = l + 2 /\ \A i \in 1 .. 4 : new[i] = four[i]
        BY ONLY <2>9, <2>10, <2>14, <2>15, <2>16
    <2>18. ASSUME NEW i \in 5 .. l + 2
           PROVE  new[i] = body[i - 2]
        <3>1. new[i] = rest[i - 4]
            BY ONLY <2>9, <2>10, <2>14, <2>15, <2>16, i \in 5 .. l + 2
        <3>2. i - 4 \in 1 .. l - 2 /\ (i - 4) + 2 = i - 2
            BY ONLY <2>9, i \in 5 .. l + 2
        <3>3. rest[i - 4] = body[i - 2]
            BY ONLY <2>11, <3>2
        <3> QED BY <3>1, <3>3
    <2>19. Inserted(body, k, v) = new
        BY <1>3, <2>4, <2>5, <2>6, <2>13, <2>16 DEF Inserted
    <2> QED BY <1>1, <1>3, <2>7, <2>9, <2>14, <2>17, <2>18, <2>19 DEF IsInsertion
<1> QED BY <1>2, <1>3

LEMMA EntriesOfInserted ==
    ASSUME NEW S, NEW body \in Seq(S), Len(body) % 2 = 0, NEW k \in S, NEW v \in S, k # Tombstone
    PROVE  EntriesUpTo(Inserted(body, k, v), Len(Inserted(body, k, v)) \div 2) =
           EntriesUpTo(body, Len(body) \div 2) \cup {<<k, v>>}
<1>1. PICK new : new = Inserted(body, k, v)
    OBVIOUS
<1>2. PICK h : h = Len(body) \div 2
    OBVIOUS
<1>3. /\ Len(new) = Len(body) + 2
      /\ Len(body) = 0 => new[1] = k /\ new[2] = v
      /\ Len(body) # 0 =>
           /\ Len(body) >= 2
           /\ \A i \in 1 .. 2 : new[i] = body[i]
           /\ new[3] = k /\ new[4] = v
           /\ \A i \in 5 .. Len(body) + 2 : new[i] = body[i - 2]
    <2>1. IsInsertion(new, body, k, v)
        BY <1>1, InsertedIs
    <2> QED BY <2>1 DEF IsInsertion
<1>4. PICK l : l = Len(body)
    OBVIOUS
<1>5. h \in Nat /\ Len(body) = 2 * h /\ Len(new) \div 2 = h + 1
    <2>1. l \in Nat /\ l % 2 = 0 /\ h = l \div 2 /\ Len(new) = l + 2
        BY <1>2, <1>3, <1>4
    <2>2. h \in Nat /\ l = 2 * h /\ (l + 2) \div 2 = h + 1
        BY ONLY <2>1, OneMoreNode
    <2> QED BY <1>4, <2>1, <2>2
<1>6. CASE Len(body) = 0
    <2>1. h = 0 /\ new[1] = k /\ new[2] = v
        BY <1>3, <1>5, <1>6
    <2>2. EntriesUpTo(new, 1) = {<<k, v>>} /\ EntriesUpTo(body, 0) = {}
        BY <2>1 DEF EntriesUpTo, Key, Value
    <2> QED BY <1>1, <1>2, <1>5, <2>1, <2>2
<1>7. CASE Len(body) # 0
    <2>1. /\ h >= 1
          /\ new[1] = body[1] /\ new[2] = body[2] /\ new[3] = k /\ new[4] = v
          /\ \A i \in 5 .. 2 * h + 2 : new[i] = body[i - 2]
        <3>1. Len(body) + 2 = 2 * h + 2 /\ 2 * h >= 2
            BY <1>3, <1>5, <1>7
        <3> QED BY ONLY <1>3, <1>5, <1>7, <3>1
    <2>2. /\ Key(new, 1) = Key(body, 1) /\ Value(new, 1) = Value(body, 1)
          /\ Key(new, 2) = k /\ Value(new, 2) = v
        BY <2>1 DEF Key, Value
    <2>3. ASSUME NEW n \in 2 .. h
          PROVE  /\ Key(new, n + 1) = Key(body, n) /\ Value(new, n + 1) = Value(body, n)
                 /\ n + 1 \in 1 .. h + 1
        <3>1. /\ 2 * (n + 1) - 1 \in 5 .. 2 * h + 2 /\ (2 * (n + 1) - 1) - 2 = 2 * n - 1
              /\ 2 * (n + 1) \in 5 .. 2 * h + 2 /\ 2 * (n + 1) - 2 = 2 * n
              /\ n + 1 \in 1 .. h + 1
            BY <1>5
        <3>2. new[2 * (n + 1) - 1] = body[2 * n - 1] /\ new[2 * (n + 1)] = body[2 * n]
            BY <2>1, <3>1
        <3> QED BY <3>1, <3>2 DEF Key, Value
    <2>4. ASSUME NEW n \in 1 .. h + 1, Key(new, n) # Tombstone
          PROVE  <<Key(new, n), Value(new, n)>> \in EntriesUpTo(body, h) \cup {<<k, v>>}
        <3>1. CASE n = 1
            BY <1>5, <2>1, <2>2, <2>4, <3>1 DEF EntriesUpTo
        <3>2. CASE n = 2
            BY <2>2, <3>2
        <3>3. CASE n # 1 /\ n # 2
            <4>1. PICK m \in 2 .. h : n = m + 1
                BY <1>5, <3>3
            <4>2. m \in 1 .. h
                BY <1>5
            <4> QED BY <2>3, <2>4, <4>1, <4>2 DEF EntriesUpTo
        <3> QED BY <3>1, <3>2, <3>3
    <2>5. ASSUME NEW n \in 1 .. h, Key(body, n) # Tombstone
          PROVE  <<Key(body, n), Value(body, n)>> \in EntriesUpTo(new, h + 1)
        <3>1. CASE n = 1
            <4>1. 1 \in 1 .. h + 1
                BY <1>5
            <4> QED BY <2>2, <2>5, <3>1, <4>1 DEF EntriesUpTo
        <3>2. CASE n # 1
            <4>1. n \in 2 .. h
                BY <1>5, <3>2
            <4> QED BY <2>3, <2>5, <4>1 DEF EntriesUpTo
        <3> QED BY <3>1, <3>2
    <2>6. <<k, v>> \in EntriesUpTo(new, h + 1)
        <3>1. 2 \in 1 .. h + 1
            BY <1>5, <2>1
        <3> QED BY <2>2, <3>1 DEF EntriesUpTo
    <2>7. EntriesUpTo(new, h + 1) \subseteq EntriesUpTo(body, h) \cup {<<k, v>>}
        BY <2>4 DEF EntriesUpTo
    <2>8. EntriesUpTo(body, h) \subseteq EntriesUpTo(new, h + 1)
        BY <2>5 DEF EntriesUpTo
    <2> QED BY <1>1, <1>2, <1>5, <2>6, <2>7, <2>8
<1> QED BY <1>6, <1>7

LEMMA GrowsClosed ==
    ASSUME IInv, Grows
    PROVE  Young' = Young /\ \A S \in SUBSET Young : Closed(S)' => Closed(S)
<1>1. Young' = Young
    BY DEF Young, Grows
<1>2. value \in OldValues
    BY DEF IInv, HeapOK, OldValues, Others
<1>3. MustMove(value)' <=> MustMove(value)
    <2>1. PICK v \in OldValues : v = value
        BY <1>2
    <2>2. MustMove(v)' <=> MustMove(v)
        BY GrowsMet
    <2> QED BY <2>1, <2>2 DEF MustMove, Grows
<1>4. ASSUME NEW S \in SUBSET Young, Closed(S)'
      PROVE  Closed(S)
    <2>1. MustMove(value) => value \in S
        BY <1>2, <1>3, <1>4 DEF Closed, Grows
    <2>2. ASSUME NEW o \in S, NEW j \in 1 .. Len(heap[o].body), MustMove(heap[o].body[j])
          PROVE  heap[o].body[j] \in S
        <3>1. o \in Originals /\ heap'[o] = heap[o]
            BY DEF Young, Grows
        <3>2. PICK v \in OldValues : v = heap[o].body[j]
            <4>1. heap[o].body \in Seq(OldValues)
                BY <3>1, OriginalIs
            <4> QED BY <4>1
        <3>3. MustMove(v)'
            BY <2>2, <3>2, GrowsMet
        <3>4. MustMove(heap[o].body[j])'
            BY <3>1, <3>2, <3>3 DEF MustMove
        <3> QED BY <1>4, <3>1, <3>4 DEF Closed
    <2> QED BY <2>1, <2>2 DEF Closed
<1> QED BY <1>1, <1>4

-----------------------------------------------------------------------------
(* A new copy: mara_copy of a string, or mara_deep_copy of an object that is *)
(* not in the table.                                                         *)
Alloc(v) ==
    /\ v \in Originals /\ MustMove(v) /\ v \notin DOMAIN Table
    /\ ~ Places \subseteq DOMAIN heap
    /\ heap' = Extended(heap, NewPlace, Begun(v))
    /\ Table' = Extended(Table, v, NewPlace)
    /\ UNCHANGED <<value, target>>

LEMMA AllocIs ==
    ASSUME IInv, NEW v, Alloc(v)
    PROVE  /\ NewPlace \in Places /\ NewPlace \notin DOMAIN heap
           /\ DOMAIN heap' = DOMAIN heap \cup {NewPlace}
           /\ \A a \in DOMAIN heap : heap'[a] = heap[a]
           /\ heap'[NewPlace] = Begun(v)
           /\ DOMAIN Table' = DOMAIN Table \cup {v}
           /\ \A o \in DOMAIN Table : Table'[o] = Table[o]
           /\ Table'[v] = NewPlace
           /\ Copies' = Copies \cup {NewPlace}
           /\ Grows
           /\ \A o \in DOMAIN Table : heap'[Table[o]] = heap[Table[o]]
<1>1. NewPlace \in Places /\ NewPlace \notin DOMAIN heap
    <2>1. \E a \in Places : a \notin DOMAIN heap
        BY DEF Alloc
    <2> QED BY <2>1 DEF NewPlace
<1>2. /\ DOMAIN heap' = DOMAIN heap \cup {NewPlace}
      /\ \A a \in DOMAIN heap : heap'[a] = heap[a]
      /\ heap'[NewPlace] = Begun(v)
    BY <1>1 DEF Alloc, Extended
<1>3. /\ DOMAIN Table' = DOMAIN Table \cup {v}
      /\ \A o \in DOMAIN Table : Table'[o] = Table[o]
      /\ Table'[v] = NewPlace
    BY DEF Alloc, Extended
<1>4. Copies' = Copies \cup {NewPlace} /\ Originals' = Originals
    BY <1>1, <1>2 DEF Copies, Originals
<1>5. Grows
    <2>1. \A o \in DOMAIN Table' : o \in Originals /\ MustMove(o)
        BY <1>3 DEF Alloc, IInv, TableOK
    <2> QED BY <1>2, <1>3, <1>4, <2>1 DEF Grows, Alloc, Originals
<1>6. \A o \in DOMAIN Table : heap'[Table[o]] = heap[Table[o]]
    BY <1>2 DEF IInv, TableOK, Copies
<1> QED BY <1>1, <1>2, <1>3, <1>4, <1>5, <1>6

(* The contents of the new copy.                                             *)
LEMMA BegunIs ==
    ASSUME IInv, NEW o \in Originals
    PROVE  /\ Begun(o).type = heap[o].type /\ Begun(o).level = target
           /\ Begun(o).body \in Seq(Others)
           /\ heap[o].type = "string" => Begun(o).body = heap[o].body
           /\ heap[o].type = "map" => Begun(o).body = <<>>
           /\ heap[o].type # "map" => Len(Begun(o).body) = Len(heap[o].body)
           /\ Begun(o) = [type |-> Begun(o).type, level |-> Begun(o).level, body |-> Begun(o).body]
<1>1. heap[o].body \in Seq(OldValues) /\ heap[o].type \in Types
    BY OriginalIs, HeapIs
<1>2. CASE heap[o].type = "string"
    <2>1. heap[o].body \in Seq(Others)
        <3>1. \A j \in 1 .. Len(heap[o].body) : heap[o].body[j] \in Others
            BY <1>2, OriginalIs DEF Others
        <3> QED BY <1>1, <3>1, SeqDef
    <2> QED BY <1>2, <2>1 DEF Begun
<1>3. CASE heap[o].type = "map"
    BY <1>3, EmptySeq DEF Begun
<1>4. CASE heap[o].type # "string" /\ heap[o].type # "map"
    <2>1. Begun(o).body = [i \in 1 .. Len(heap[o].body) |-> Garbage]
        BY <1>4 DEF Begun
    <2>2. Len(heap[o].body) \in Nat
        BY <1>1
    <2>3. [i \in 1 .. Len(heap[o].body) |-> Garbage] \in Seq(Others)
        BY <2>2 DEF Others
    <2>4. Len([i \in 1 .. Len(heap[o].body) |-> Garbage]) = Len(heap[o].body)
        BY <2>2
    <2> QED BY <1>4, <2>1, <2>3, <2>4 DEF Begun
<1> QED BY <1>2, <1>3, <1>4

(* The heap, and the new copy in it, after an allocation.                    *)
LEMMA AllocKeepsHeap ==
    ASSUME IInv, NEW v, Alloc(v)
    PROVE  /\ heap' \in [DOMAIN heap' -> Objects(DOMAIN heap')]
           /\ CopiesAreOld' /\ HeapOK'
<1>1. v \in Originals
    BY DEF Alloc
<1>2. /\ NewPlace \in Places /\ NewPlace \notin DOMAIN heap
      /\ DOMAIN heap' = DOMAIN heap \cup {NewPlace}
      /\ \A a \in DOMAIN heap : heap'[a] = heap[a]
      /\ heap'[NewPlace] = Begun(v)
      /\ Copies' = Copies \cup {NewPlace}
      /\ target' = target
    BY AllocIs DEF Alloc
<1>3. \A a \in DOMAIN heap \cup {NewPlace} : a \notin Others /\ a # NoResult
    BY <1>2, HeapIs
<1>4. /\ Begun(v).type = heap[v].type /\ Begun(v).level = target
      /\ Begun(v).body \in Seq(Others)
      /\ heap[v].type = "map" => Begun(v).body = <<>>
      /\ Begun(v) = [type |-> Begun(v).type, level |-> Begun(v).level, body |-> Begun(v).body]
    BY <1>1, BegunIs
<1>5. \A a \in DOMAIN heap' : heap'[a] \in Objects(DOMAIN heap')
    <2>1. ASSUME NEW a \in DOMAIN heap
          PROVE  heap'[a] \in Objects(DOMAIN heap')
        <3>1. heap[a] \in Objects(DOMAIN heap)
            BY DEF IInv, TypeOK
        <3>2. heap[a].body \in Seq(DOMAIN heap' \cup Immediate \cup {Nil, Tombstone, Garbage})
            <4>1. heap[a].body \in Seq(DOMAIN heap \cup Immediate \cup {Nil, Tombstone, Garbage})
                BY <3>1 DEF Objects
            <4>2. DOMAIN heap \cup Immediate \cup {Nil, Tombstone, Garbage} \subseteq
                  DOMAIN heap' \cup Immediate \cup {Nil, Tombstone, Garbage}
                BY <1>2
            <4> QED BY ONLY <4>1, <4>2, SeqMonotonic
        <3> QED BY <1>2, <3>1, <3>2 DEF Objects
    <2>2. heap'[NewPlace] \in Objects(DOMAIN heap')
        <3>1. Begun(v).body \in Seq(DOMAIN heap' \cup Immediate \cup {Nil, Tombstone, Garbage})
            <4>1. Others \subseteq DOMAIN heap' \cup Immediate \cup {Nil, Tombstone, Garbage}
                BY DEF Others
            <4> QED BY ONLY <1>4, <4>1, SeqMonotonic
        <3>2. Begun(v).type \in Types /\ Begun(v).level \in Int
            BY <1>1, <1>4, HeapIs DEF Originals
        <3> QED BY <1>2, <1>4, <3>1, <3>2 DEF Objects
    <2> QED BY <1>2, <2>1, <2>2
<1>6. heap' \in [DOMAIN heap' -> Objects(DOMAIN heap')]
    <2>1. heap' = [a \in DOMAIN heap' |-> heap'[a]]
        BY DEF Alloc, Extended
    <2> QED BY <1>5, <2>1
<1>7. CopiesAreOld'
    <2>1. ASSUME NEW a \in Copies, NEW i \in 1 .. Len(heap[a].body), heap[a].body[i] \in DOMAIN heap'
          PROVE  heap'[heap[a].body[i]].level <= target
        <3>1. heap[a].body[i] \in Values
            BY HeapIs DEF Copies
        <3>2. heap[a].body[i] \in DOMAIN heap
            <4>1. heap[a].body[i] # NewPlace
                <5>1. NewPlace \notin Values
                    BY <1>2, <1>3 DEF Values, Others
                <5> QED BY <3>1, <5>1
            <4> QED BY <1>2, <2>1, <4>1
        <3> QED BY <1>2, <3>2 DEF IInv, CopiesAreOld
    <2>2. \A i \in 1 .. Len(Begun(v).body) : Begun(v).body[i] \notin DOMAIN heap'
        <3>1. \A i \in 1 .. Len(Begun(v).body) : Begun(v).body[i] \in Others
            BY <1>4
        <3> QED BY <1>2, <1>3, <3>1
    <2>3. \A a \in Copies : heap'[a] = heap[a] /\ heap[a].level = target
        BY <1>2 DEF Copies, IInv, CopiesAreOld
    <2> QED BY <1>2, <1>4, <2>1, <2>2, <2>3 DEF CopiesAreOld
<1>8. HeapOK'
    <2>1. [o \in Originals' |-> heap'[o]] = [o \in Originals |-> heap[o]]
        BY AllocIs DEF Grows
    <2>2. IsGraph([o \in Originals' |-> heap'[o]])
        BY <2>1 DEF IInv, HeapOK
    <2>3. ASSUME NEW a \in Copies', heap'[a].type = "map"
          PROVE  Len(heap'[a].body) % 2 = 0
        <3>1. CASE a \in Copies
            BY <1>2, <2>3, <3>1 DEF IInv, HeapOK, Copies
        <3>2. CASE a = NewPlace
            <4>1. Begun(v).body = <<>>
                BY <1>2, <1>4, <2>3, <3>2
            <4>2. Len(heap'[a].body) = 0
                BY <1>2, <3>2, <4>1
            <4> QED BY <4>2
        <3> QED BY <1>2, <3>1, <3>2
    <2>4. value' \in Originals' \cup Immediate
        BY AllocIs DEF Grows, IInv, HeapOK
    <2>5. \A x \in DOMAIN heap' \cup Places : x \notin Immediate \cup {Nil, Tombstone, Garbage, NoResult}
        BY <1>2 DEF IInv, HeapOK
    <2> QED BY <2>2, <2>3, <2>4, <2>5 DEF HeapOK
<1> QED BY <1>6, <1>7, <1>8

(* The table, and how far the copies are, after an allocation.               *)
LEMMA AllocKeepsTable ==
    ASSUME IInv, NEW v, Alloc(v)
    PROVE  /\ TableOK'
           /\ \A o \in DOMAIN Table : \A n \in Nat : CopiedUpTo(o, n) => CopiedUpTo(o, n)'
           /\ heap[v].type # "string" => CopiedUpTo(v, 0)'
           /\ heap[v].type = "string" => CopiedUpTo(v, Len(heap[v].body))'
<1>1. v \in Originals
    BY DEF Alloc
<1>2. /\ NewPlace \in Places /\ NewPlace \notin DOMAIN heap
      /\ DOMAIN heap' = DOMAIN heap \cup {NewPlace}
      /\ \A a \in DOMAIN heap : heap'[a] = heap[a]
      /\ heap'[NewPlace] = Begun(v)
      /\ Copies' = Copies \cup {NewPlace}
      /\ DOMAIN Table' = DOMAIN Table \cup {v}
      /\ \A o \in DOMAIN Table : Table'[o] = Table[o]
      /\ Table'[v] = NewPlace
    BY AllocIs
<1>3. Grows
    BY AllocIs
<1>4. /\ Begun(v).type = heap[v].type
      /\ heap[v].type = "string" => Begun(v).body = heap[v].body
      /\ heap[v].type = "map" => Begun(v).body = <<>>
      /\ heap[v].type # "map" => Len(Begun(v).body) = Len(heap[v].body)
    BY <1>1, BegunIs
<1>5. TableOK'
    <2>1. DOMAIN Table' \subseteq Originals'
        BY <1>3 DEF Grows
    <2>2. ASSUME NEW o \in DOMAIN Table'
          PROVE  Table'[o] \in Copies' /\ heap'[Table'[o]].type = heap'[o].type
        <3>1. CASE o \in DOMAIN Table
            BY <1>2, <3>1 DEF IInv, TableOK, Copies, Originals
        <3>2. CASE o = v
            BY <1>1, <1>2, <1>4, <3>2 DEF Originals
        <3> QED BY <1>2, <3>1, <3>2
    <2>3. ASSUME NEW o \in DOMAIN Table'
          PROVE  MustMove(o)'
        <3>1. o \in Originals /\ MustMove(o)
            BY <1>3 DEF Grows
        <3>2. PICK x \in OldValues : x = o
            BY <3>1 DEF OldValues
        <3> QED BY <1>3, <3>1, <3>2, GrowsMet
    <2>4. \A o \in DOMAIN Table : Table'[o] \in Copies /\ Table'[o] # NewPlace
        BY <1>2 DEF IInv, TableOK, Copies
    <2>5. \A o, p \in DOMAIN Table' : Table'[o] = Table'[p] => o = p
        BY <1>2, <2>4 DEF IInv, TableOK
    <2>6. \A a \in Copies' : \E o \in DOMAIN Table' : Table'[o] = a
        BY <1>2 DEF IInv, TableOK
    <2> QED BY <2>1, <2>2, <2>3, <2>5, <2>6 DEF TableOK
<1>6. ASSUME NEW o \in DOMAIN Table, NEW n \in Nat, CopiedUpTo(o, n)
      PROVE  CopiedUpTo(o, n)'
    <2>1. heap'[Table[o]] = heap[Table[o]]
        BY AllocIs
    <2> QED BY <1>3, <1>6, <2>1, CopyStays
<1>7. heap'[v] = heap[v] /\ Table'[v] = NewPlace /\ heap'[NewPlace] = Begun(v)
    BY <1>1, <1>2 DEF Originals
<1>8. heap[v].body \in Seq(OldValues)
    BY <1>1, OriginalIs
<1>9. 0 <= Len(heap[v].body) /\ 1 .. 0 = {}
    BY <1>8
<1>10. ASSUME heap[v].type # "string"
      PROVE  CopiedUpTo(v, 0)'
    <2>1. CASE heap[v].type = "map"
        <3>1. heap'[NewPlace].body = <<>>
            BY <1>4, <1>7, <2>1
        <3>2. Len(heap'[NewPlace].body) \div 2 = 0
            BY <3>1
        <3>3. EntriesUpTo(heap[Table[v]].body, Len(heap[Table[v]].body) \div 2)' = {}
            <4>1. Len(heap'[Table'[v]].body) \div 2 = 0
                BY <1>7, <3>2
            <4> QED BY <1>9, <4>1 DEF EntriesUpTo
        <3>4. RenamedEntries(heap[v].body, 0 \div 2)' = {}
            BY DEF RenamedEntries
        <3> QED BY <1>7, <1>9, <2>1, <3>3, <3>4 DEF CopiedUpTo
    <2>2. CASE heap[v].type # "map"
        BY <1>4, <1>7, <1>9, <2>2 DEF CopiedUpTo
    <2> QED BY <2>1, <2>2
<1>11. ASSUME heap[v].type = "string"
       PROVE  CopiedUpTo(v, Len(heap[v].body))'
    <2>1. \A j \in 1 .. Len(heap[v].body) : heap[v].body[j] \in Immediate
        BY <1>1, <1>11, OriginalIs
    <2>2. \A x \in Immediate : x \notin DOMAIN heap' /\ x \notin DOMAIN Table'
        BY <1>2, <1>3, HeapIs DEF Others, Grows, Originals
    <2>3. \A x \in Immediate : Met(x)' /\ Renamed(Table', x) = x
        BY <2>2 DEF Met, MustMove, Renamed
    <2> QED BY <1>4, <1>7, <1>8, <1>11, <2>1, <2>2, <2>3 DEF CopiedUpTo, Met, MustMove
<1> QED BY <1>5, <1>6, <1>10, <1>11

LEMMA AllocKeepsReached ==
    ASSUME IInv, NEW v, Alloc(v),
           \/ v = value
           \/ \E o \in DOMAIN Table : \E j \in 1 .. Len(heap[o].body) : v = heap[o].body[j]
    PROVE  OnlyReached'
<1>1. Grows /\ DOMAIN Table' = DOMAIN Table \cup {v}
    BY AllocIs
<1>2. ASSUME NEW S \in SUBSET Young, Closed(S)
      PROVE  DOMAIN Table' \subseteq S
    <2>1. DOMAIN Table \subseteq S
        BY <1>2 DEF IInv, OnlyReached
    <2>2. v \in S
        BY <1>2, <2>1 DEF Closed, Alloc
    <2> QED BY <1>1, <2>1, <2>2
<1>3. Young' = Young /\ \A S \in SUBSET Young : Closed(S)' => Closed(S)
    BY <1>1, GrowsClosed
<1> QED BY <1>2, <1>3 DEF OnlyReached

-----------------------------------------------------------------------------
Frames == [obj : DOMAIN copied, copy : Copies, done : Nat, key : Values]

LEMMA TableIsCopied ==
    ASSUME IInv
    PROVE  /\ ret = NoResult => Table = copied
           /\ stack # <<>> => Table = copied
           /\ copied # <<>> => Table = copied
           /\ DOMAIN copied \subseteq DOMAIN Table
<1>1. ASSUME stack # <<>>
      PROVE  copied # <<>>
    <2>1. stack \in Seq(Frames)
        BY DEF IInv, TypeOK, Frames
    <2>2. stack[1] \in Frames
        BY <1>1, <2>1, EmptySeq
    <2>3. stack[1].obj \in DOMAIN copied
        BY <2>2 DEF Frames
    <2> QED BY <2>3
<1>2. DOMAIN <<>> = {}
    OBVIOUS
<1> QED BY <1>1, <1>2 DEF Table

LEMMA StackIs ==
    ASSUME IInv
    PROVE  /\ stack \in Seq(Frames) /\ Len(stack) \in Nat
           /\ stack = <<>> <=> Len(stack) = 0
           /\ \A i \in 1 .. Len(stack) :
                /\ stack[i] \in Frames /\ stack[i].obj \in DOMAIN copied
                /\ stack[i].obj \in DOMAIN Table /\ stack[i].obj \in Originals
                /\ stack[i].copy \in Copies /\ stack[i].done \in Nat /\ stack[i].key \in Values
           /\ Top = stack[Len(stack)]
<1>1. stack \in Seq(Frames)
    BY DEF IInv, TypeOK, Frames
<1>2. stack = <<>> <=> Len(stack) = 0
    BY <1>1, EmptySeq
<1>3. \A f \in Frames : /\ f.obj \in DOMAIN copied /\ f.copy \in Copies
                        /\ f.done \in Nat /\ f.key \in Values
    BY DEF Frames
<1>4. \A i \in 1 .. Len(stack) : stack[i] \in Frames
    BY <1>1
<1>5. \A o \in DOMAIN copied : o \in DOMAIN Table /\ o \in Originals
    BY TableIsCopied DEF IInv, TableOK
<1> QED BY <1>1, <1>2, <1>3, <1>4, <1>5 DEF Top, Last

(* What each call knows stays true while the table grows.                    *)
LEMMA FrameStays ==
    ASSUME IInv, Grows, NEW f \in Frames, f.obj \in DOMAIN Table, FrameOK(f), CopiedUpTo(f.obj, f.done)
    PROVE  FrameOK(f)'
<1>1. f.obj \in Originals /\ heap'[f.obj] = heap[f.obj] /\ Table'[f.obj] = Table[f.obj]
    BY DEF Grows, IInv, TableOK
<1>2. ASSUME heap[f.obj].type = "map", f.done % 2 = 1
      PROVE  f.key = Renamed(Table', heap[f.obj].body[f.done])
    <2>1. f.done \in Nat /\ f.done >= 1 /\ f.done <= Len(heap[f.obj].body)
        BY <1>2 DEF Frames, CopiedUpTo
    <2>2. heap[f.obj].body \in Seq(OldValues)
        BY <1>1, OriginalIs
    <2>3. PICK x \in OldValues : x = heap[f.obj].body[f.done]
        BY <2>1, <2>2
    <2>4. Met(heap[f.obj].body[f.done])
        BY <2>1 DEF CopiedUpTo
    <2>5. Renamed(Table', x) = Renamed(Table, x)
        BY <2>3, <2>4, GrowsMet
    <2> QED BY <1>2, <2>3, <2>5 DEF FrameOK
<1> QED BY <1>1, <1>2 DEF FrameOK

(* The copies that there were are as they were.                              *)
CopiesUnchanged == \A o \in DOMAIN Table : heap'[Table[o]] = heap[Table[o]]

LEMMA CallStays ==
    ASSUME IInv, Grows, CopiesUnchanged, NEW i \in 1 .. Len(stack), NEW f, f = stack[i]
    PROVE  /\ FrameOK(f)' /\ CopiedUpTo(f.obj, f.done)'
           /\ heap'[f.obj] = heap[f.obj]
<1>1. f \in Frames /\ f.obj \in DOMAIN Table /\ f.obj \in Originals /\ f.done \in Nat
    BY StackIs
<1>2. FrameOK(f) /\ CopiedUpTo(f.obj, f.done)
    BY DEF IInv, CallsOK, CopiesOK
<1>3. FrameOK(f)'
    BY <1>1, <1>2, FrameStays
<1>4. PICK o \in DOMAIN Table : o = f.obj
    BY <1>1
<1>5. PICK n \in Nat : n = f.done
    BY <1>1
<1>6. CopiedUpTo(o, n)'
    BY <1>2, <1>4, <1>5, CopyStays DEF CopiesUnchanged
<1> QED BY <1>1, <1>3, <1>4, <1>5, <1>6 DEF Grows

LEMMA CompleteStays ==
    ASSUME IInv, Grows, CopiesUnchanged, NEW o \in DOMAIN Table, ~ InProgress(o)
    PROVE  CopiedUpTo(o, Len(heap[o].body))'
<1>1. o \in Originals /\ heap'[o] = heap[o]
    BY DEF Grows, IInv, TableOK
<1>2. heap[o].body \in Seq(OldValues)
    BY <1>1, OriginalIs
<1>3. PICK n \in Nat : n = Len(heap[o].body)
    BY <1>2
<1>4. CopiedUpTo(o, n)
    BY <1>3 DEF IInv, CopiesOK
<1>5. CopiedUpTo(o, n)'
    BY <1>4, CopyStays DEF CopiesUnchanged
<1> QED BY <1>1, <1>3, <1>5

(* The value that mara_deep_copy is about to be called with.                 *)
Due(v) ==
    /\ ret = NoResult
    /\ \/ stack = <<>> /\ v = value
       \/ stack # <<>> /\ Top.done < Len(Original) /\ v = Original[Top.done + 1]

LEMMA DueIs ==
    ASSUME IInv, NEW v, Due(v)
    PROVE  /\ v \in OldValues /\ result = NoResult
           /\ stack # <<>> => v = At(Len(stack))
           /\ \A i \in 1 .. Len(stack) : stack[i].done < Len(heap[stack[i].obj].body)
           /\ \/ v = value
              \/ \E o \in DOMAIN Table : \E j \in 1 .. Len(heap[o].body) : v = heap[o].body[j]
<1>1. result = NoResult
    BY DEF Due, IInv, CallsOK
<1>2. CASE stack = <<>>
    <2>1. v = value /\ value \in OldValues
        BY <1>2 DEF Due, IInv, HeapOK, OldValues, Others
    <2> QED BY <1>1, <1>2, <2>1, StackIs
<1>3. CASE stack # <<>>
    <2>1. Len(stack) \in Nat /\ Len(stack) >= 1
        BY <1>3, StackIs
    <2>2. /\ Top = stack[Len(stack)] /\ Top.done \in Nat
          /\ Top.obj \in Originals /\ Top.obj \in DOMAIN Table
        BY <2>1, StackIs
    <2>3. heap[Top.obj].body \in Seq(OldValues)
        BY <2>2, OriginalIs
    <2>4. /\ Top.done < Len(heap[Top.obj].body) /\ v = heap[Top.obj].body[Top.done + 1]
          /\ Top.done + 1 \in 1 .. Len(heap[Top.obj].body)
        BY <1>3, <2>2, <2>3 DEF Due, Original
    <2>5. v \in OldValues
        BY <2>3, <2>4
    <2>6. v = At(Len(stack))
        BY <2>2, <2>4 DEF At
    <2>7. \A i \in 1 .. Len(stack) : i < Len(stack) => stack[i].done < Len(heap[stack[i].obj].body)
        BY DEF IInv, CallsOK
    <2>8. \A i \in 1 .. Len(stack) : stack[i].done < Len(heap[stack[i].obj].body)
        BY <2>1, <2>2, <2>4, <2>7
    <2> QED BY <1>1, <2>2, <2>4, <2>5, <2>6, <2>8
<1> QED BY <1>2, <1>3

(* A call of mara_deep_copy, or mara_copy itself, returns at once.           *)
Returned(v) ==
    /\ Due(v) /\ Grows /\ CopiesUnchanged
    /\ Met(v)' /\ ret' = Renamed(Table', v) /\ ret' # NoResult
    /\ UNCHANGED <<stack, result>>

LEMMA ReturnedKeepsCalls ==
    ASSUME IInv, NEW v, Returned(v)
    PROVE  CallsOK'
<1>1. /\ result' = NoResult /\ stack' = stack /\ value' = value
      /\ stack # <<>> => v = At(Len(stack))
      /\ \A i \in 1 .. Len(stack) : stack[i].done < Len(heap[stack[i].obj].body)
    BY DueIs DEF Returned, Grows
<1>2. ASSUME NEW i \in 1 .. Len(stack)
      PROVE  /\ FrameOK(stack[i])' /\ heap'[stack[i].obj] = heap[stack[i].obj]
             /\ At(i)' = At(i)
    <2>1. PICK f : f = stack[i]
        OBVIOUS
    <2>2. FrameOK(f)' /\ heap'[f.obj] = heap[f.obj]
        BY <2>1, CallStays DEF Returned
    <2> QED BY <1>1, <2>1, <2>2 DEF FrameOK, At
<1>3. \A i \in 1 .. Len(stack) : i < Len(stack) => stack[i + 1].obj = At(i)
    BY DEF IInv, CallsOK
<1>4. ASSUME stack # <<>>
      PROVE  /\ Met(At(Len(stack)))' /\ ret' = Renamed(Table', At(Len(stack))')
             /\ stack[1].obj = value
    <2>1. Len(stack) \in 1 .. Len(stack)
        BY <1>4, StackIs
    <2>2. At(Len(stack))' = v
        BY <1>1, <1>2, <1>4, <2>1
    <2> QED BY <1>4, <2>2 DEF Returned, IInv, CallsOK, Met
<1>5. ASSUME stack = <<>>
      PROVE  Met(value)' /\ ret' = Renamed(Table', value)
    BY <1>1, <1>5 DEF Returned, Due, Met
<1>6. \A i \in 1 .. Len(stack') :
         /\ FrameOK(stack[i])'
         /\ stack'[i].done < Len(heap'[stack'[i].obj].body)
         /\ i < Len(stack') => stack'[i + 1].obj = At(i)'
    BY <1>1, <1>2, <1>3
<1> QED BY <1>1, <1>4, <1>5, <1>6 DEF CallsOK, Returned

LEMMA ReturnedKeepsCopies ==
    ASSUME IInv, NEW v, Returned(v),
           \A o \in DOMAIN Table' : o \notin DOMAIN Table => CopiedUpTo(o, Len(heap[o].body))'
    PROVE  CopiesOK'
<1>1. stack' = stack
    BY DEF Returned
<1>2. ASSUME NEW o \in DOMAIN Table', ~ InProgress(o)'
      PROVE  CopiedUpTo(o, Len(heap[o].body))'
    <2>1. ~ InProgress(o)
        BY <1>1, <1>2 DEF InProgress
    <2> QED BY <2>1, CompleteStays DEF Returned
<1>3. ASSUME NEW i \in 1 .. Len(stack)
      PROVE  CopiedUpTo(stack[i].obj, stack[i].done)'
    <2>1. PICK f : f = stack[i]
        OBVIOUS
    <2>2. CopiedUpTo(f.obj, f.done)'
        BY <2>1, CallStays DEF Returned
    <2> QED BY <1>1, <2>1, <2>2 DEF CopiedUpTo
<1> QED BY <1>1, <1>2, <1>3 DEF CopiesOK

LEMMA StackTypeGrows ==
    ASSUME IInv, DOMAIN copied \subseteq DOMAIN copied', DOMAIN heap \subseteq DOMAIN heap'
    PROVE  stack \in Seq(Frames') /\ Frames \subseteq Frames' /\ Values \subseteq Values'
<1>1. Copies \subseteq Copies' /\ Values \subseteq Values'
    BY DEF Copies, Values
<1>2. Frames \subseteq Frames'
    BY <1>1 DEF Frames
<1>3. stack \in Seq(Frames)
    BY StackIs
<1>4. stack \in Seq(Frames')
    BY ONLY <1>2, <1>3, SeqMonotonic
<1> QED BY <1>1, <1>2, <1>4

(* The early returns, and an object that is in the table.                    *)
LEMMA VisitOldKeeps ==
    ASSUME IInv, NEW v, Due(v), UNCHANGED <<heap, value, target, copied, stack, result>>,
           \/ ~ MustMove(v) /\ ret' = v
           \/ MustMove(v) /\ v \in DOMAIN copied /\ ret' = copied[v]
    PROVE  IInv'
<1>1. v \in OldValues /\ Table = copied /\ ret = NoResult
    BY DueIs, TableIsCopied DEF Due
<1>2. Table' = Table
    <2>1. CASE stack # <<>>
        <3>1. stack[1].obj \in DOMAIN copied
            BY <2>1, StackIs
        <3>2. copied # <<>>
            BY <3>1
        <3> QED BY <1>1, <3>2 DEF Table
    <2>2. CASE stack = <<>>
        <3>1. v = value
            BY <2>2 DEF Due
        <3>2. v \in DOMAIN copied => copied # <<>>
            OBVIOUS
        <3> QED BY <1>1, <3>1, <3>2 DEF Table, MustMove
    <2> QED BY <2>1, <2>2
<1>3. Grows /\ CopiesUnchanged
    BY <1>2 DEF Grows, CopiesUnchanged, Originals, IInv, TableOK
<1>4. Met(v) /\ ret' = Renamed(Table, v)
    <2>1. v \in DOMAIN Table => MustMove(v)
        BY DEF IInv, TableOK
    <2> QED BY <1>1, <2>1 DEF Met, Renamed
<1>5. ret' \in Values /\ ret' # NoResult
    <2>1. Renamed(Table, v) \in Values
        BY <1>1, <1>4, RenamedIs
    <2> QED BY <1>4, <2>1, HeapIs DEF Values, Others
<1>6. Returned(v)
    BY <1>2, <1>3, <1>4, <1>5 DEF Returned, Met, MustMove
<1>7. CallsOK' /\ CopiesOK'
    BY <1>2, <1>6, ReturnedKeepsCalls, ReturnedKeepsCopies
<1>8. TypeOK'
    BY <1>5 DEF IInv, TypeOK, NoReentry, Copies, Values
<1>9. CopiesAreOld' /\ HeapOK'
    BY DEF IInv, CopiesAreOld, HeapOK, Copies, Originals
<1>10. TableOK'
    BY <1>2 DEF IInv, TableOK, Copies, Originals, MustMove
<1>11. OnlyReached'
    BY <1>2, <1>3, GrowsClosed DEF IInv, OnlyReached
<1> QED BY <1>7, <1>8, <1>9, <1>10, <1>11 DEF IInv

(* A string or a ref is copied, with the table or without it.                *)
LEMMA CopyLeafKeeps ==
    ASSUME IInv, NEW v, Due(v), Alloc(v), heap[v].type = "string",
           \/ copied' = Extended(copied, v, NewPlace)
           \/ copied' = copied,
           ret' = NewPlace, UNCHANGED <<stack, result>>
    PROVE  IInv'
<1>1. /\ NewPlace \in Places /\ NewPlace \notin DOMAIN heap
      /\ DOMAIN heap' = DOMAIN heap \cup {NewPlace}
      /\ DOMAIN Table' = DOMAIN Table \cup {v}
      /\ Table'[v] = NewPlace
      /\ Copies' = Copies \cup {NewPlace}
      /\ Grows /\ CopiesUnchanged
    BY AllocIs DEF CopiesUnchanged
<1>2. /\ heap' \in [DOMAIN heap' -> Objects(DOMAIN heap')]
      /\ CopiesAreOld' /\ HeapOK'
    BY AllocKeepsHeap
<1>3. TableOK' /\ CopiedUpTo(v, Len(heap[v].body))' /\ OnlyReached'
    BY AllocKeepsTable, AllocKeepsReached, DueIs
<1>4. ret' \in Values' /\ ret' # NoResult
    BY <1>1, HeapIs DEF Values
<1>5. Met(v)' /\ ret' = Renamed(Table', v)
    BY <1>1 DEF Met, Renamed
<1>6. Returned(v)
    BY <1>1, <1>4, <1>5 DEF Returned
<1>7. CallsOK'
    BY <1>6, ReturnedKeepsCalls
<1>8. CopiesOK'
    <2>1. \A o \in DOMAIN Table' : o \notin DOMAIN Table => CopiedUpTo(o, Len(heap[o].body))'
        BY <1>1, <1>3
    <2> QED BY <1>6, <2>1, ReturnedKeepsCopies
<1>9. TypeOK'
    <2>1. /\ copied' \in [DOMAIN copied' -> Copies']
          /\ DOMAIN copied \subseteq DOMAIN copied'
          /\ DOMAIN copied' \subseteq DOMAIN heap' \ Places
        <3>1. /\ copied \in [DOMAIN copied -> Copies]
              /\ DOMAIN copied \subseteq DOMAIN heap \ Places
              /\ v \in DOMAIN heap \ Places
            BY DEF IInv, TypeOK, Alloc, Originals
        <3>2. CASE copied' = Extended(copied, v, NewPlace)
            BY <1>1, <3>1, <3>2 DEF Extended
        <3>3. CASE copied' = copied
            BY <1>1, <3>1, <3>3
        <3> QED BY <3>2, <3>3
    <2>2. stack' \in Seq(Frames') /\ Values \subseteq Values'
        BY <1>1, <2>1, StackTypeGrows
    <2>3. value' \in Values' /\ target' \in Targets /\ result' \in Values' \cup {NoResult}
        BY <2>2 DEF Alloc, IInv, TypeOK
    <2>4. NoReentry'
        BY DEF IInv, TypeOK, NoReentry
    <2> QED BY <1>2, <1>4, <2>1, <2>2, <2>3, <2>4 DEF TypeOK, Frames
<1> QED BY <1>2, <1>3, <1>7, <1>8, <1>9 DEF IInv

(* mara_deep_copy begins a copy that it has to go on with.                   *)
LEMMA CopyContainerKeeps ==
    ASSUME IInv, NEW v, Due(v), Alloc(v), heap[v].type # "string",
           copied' = Extended(copied, v, NewPlace),
           ret' = NoResult, stack' = Append(stack, Frame(v, NewPlace)), UNCHANGED result
    PROVE  IInv'
<1>1. /\ NewPlace \in Places /\ NewPlace \notin DOMAIN heap
      /\ DOMAIN heap' = DOMAIN heap \cup {NewPlace}
      /\ DOMAIN Table' = DOMAIN Table \cup {v}
      /\ Table'[v] = NewPlace
      /\ Copies' = Copies \cup {NewPlace}
      /\ Grows /\ CopiesUnchanged
    BY AllocIs DEF CopiesUnchanged
<1>2. /\ heap' \in [DOMAIN heap' -> Objects(DOMAIN heap')]
      /\ CopiesAreOld' /\ HeapOK'
    BY AllocKeepsHeap
<1>3. TableOK' /\ CopiedUpTo(v, 0)' /\ OnlyReached'
    BY AllocKeepsTable, AllocKeepsReached, DueIs
<1>4. /\ copied' \in [DOMAIN copied' -> Copies']
      /\ DOMAIN copied \subseteq DOMAIN copied'
      /\ DOMAIN copied' \subseteq DOMAIN heap' \ Places
      /\ v \in DOMAIN copied'
    <2>1. /\ copied \in [DOMAIN copied -> Copies]
          /\ DOMAIN copied \subseteq DOMAIN heap \ Places
          /\ v \in DOMAIN heap \ Places
        BY DEF IInv, TypeOK, Alloc, Originals
    <2> QED BY <1>1, <2>1 DEF Extended
<1>5. stack \in Seq(Frames') /\ Values \subseteq Values'
    BY <1>1, <1>4, StackTypeGrows
<1>6. PICK f : f = Frame(v, NewPlace)
    OBVIOUS
<1>7. f \in Frames' /\ f.obj = v /\ f.copy = NewPlace /\ f.done = 0
    BY <1>1, <1>4, <1>6 DEF Frame, Frames, Values
<1>8. PICK l : l = Len(stack)
    OBVIOUS
<1>9. /\ stack' \in Seq(Frames') /\ Len(stack') = l + 1 /\ l \in Nat
      /\ \A i \in 1 .. l : stack'[i] = stack[i]
      /\ stack'[l + 1] = f
    <2>1. stack' = Append(stack, f)
        BY <1>6
    <2> QED BY ONLY <1>5, <1>7, <1>8, <2>1, AppendProperties
<1>10. v \notin DOMAIN Table
    BY DEF Alloc
<1>11. \A i \in 1 .. l : stack[i].obj # v /\ stack[i].obj \in DOMAIN Table
    BY <1>8, <1>10, StackIs
<1>12. TypeOK'
    <2>1. NoReentry'
        <3> SUFFICES ASSUME NEW i \in 1 .. l + 1, NEW j \in 1 .. l + 1, stack'[i].obj = stack'[j].obj
                     PROVE  i = j
            BY <1>9 DEF NoReentry
        <3>1. CASE i = l + 1 /\ j = l + 1
            BY <3>1
        <3>2. CASE i = l + 1 /\ j # l + 1
            <4>1. j \in 1 .. l
                BY <1>9, <3>2
            <4> QED BY <1>7, <1>9, <1>11, <3>2, <4>1
        <3>3. CASE i # l + 1 /\ j = l + 1
            <4>1. i \in 1 .. l
                BY <1>9, <3>3
            <4> QED BY <1>7, <1>9, <1>11, <3>3, <4>1
        <3>4. CASE i # l + 1 /\ j # l + 1
            <4>1. i \in 1 .. l /\ j \in 1 .. l
                BY <1>9, <3>4
            <4> QED BY <1>8, <1>9, <4>1 DEF IInv, TypeOK, NoReentry
        <3> QED BY <3>1, <3>2, <3>3, <3>4
    <2>2. value' \in Values' /\ target' \in Targets /\ result' \in Values' \cup {NoResult}
        BY <1>5 DEF Alloc, IInv, TypeOK
    <2> QED BY <1>2, <1>4, <1>9, <2>1, <2>2 DEF TypeOK, Frames
<1>13. \A i \in 1 .. l :
          /\ FrameOK(stack[i])'
          /\ CopiedUpTo(stack[i].obj, stack[i].done)'
          /\ stack[i].done < Len(heap'[stack[i].obj].body)
          /\ At(i)' = At(i)
    <2> TAKE i \in 1 .. l
    <2>1. PICK g : g = stack[i] /\ g = stack'[i]
        BY <1>9
    <2>2. FrameOK(g)' /\ CopiedUpTo(g.obj, g.done)' /\ heap'[g.obj] = heap[g.obj]
        BY <1>1, <1>8, <2>1, CallStays
    <2>3. g.done < Len(heap[g.obj].body)
        BY <1>8, <2>1, DueIs
    <2> QED BY <2>1, <2>2, <2>3 DEF FrameOK, CopiedUpTo, At
<1>14. FrameOK(f)' /\ CopiedUpTo(f.obj, f.done)'
    <2>1. heap'[v] = heap[v]
        BY <1>1 DEF Grows, Alloc
    <2>2. FrameOK(f)'
        BY <1>1, <1>7, <2>1 DEF FrameOK
    <2> QED BY <1>3, <1>7, <2>2 DEF CopiedUpTo
<1>15. CopiesOK'
    <2>1. ASSUME NEW o \in DOMAIN Table', ~ InProgress(o)'
          PROVE  CopiedUpTo(o, Len(heap[o].body))'
        <3>1. o # v
            <4>1. l + 1 \in 1 .. Len(stack') /\ stack'[l + 1].obj = v
                BY <1>7, <1>9
            <4> QED BY <2>1, <4>1 DEF InProgress
        <3>2. ~ InProgress(o)
            <4>1. \A i \in 1 .. l : i \in 1 .. Len(stack') /\ stack'[i].obj = stack[i].obj
                BY <1>9
            <4> QED BY <1>8, <2>1, <4>1 DEF InProgress
        <3> QED BY <1>1, <3>1, <3>2, CompleteStays
    <2>2. ASSUME NEW i \in 1 .. l + 1
          PROVE  CopiedUpTo(stack[i].obj, stack[i].done)'
        <3>1. CASE i = l + 1
            BY <1>9, <1>14, <3>1 DEF CopiedUpTo
        <3>2. CASE i # l + 1
            <4>1. i \in 1 .. l
                BY <1>9, <3>2
            <4> QED BY <1>9, <1>13, <4>1
        <3> QED BY <3>1, <3>2
    <2> QED BY <1>9, <2>1, <2>2 DEF CopiesOK
<1>16. CallsOK'
    <2>1. ASSUME NEW i \in 1 .. l + 1
          PROVE  /\ FrameOK(stack[i])'
                 /\ i < l + 1 => stack'[i].done < Len(heap'[stack'[i].obj].body)
                 /\ i < l + 1 => stack'[i + 1].obj = At(i)'
        <3>1. CASE i = l + 1
            BY <1>9, <1>14, <3>1 DEF FrameOK
        <3>2. CASE i # l + 1
            <4>1. i \in 1 .. l /\ (i # l => i + 1 \in 1 .. l)
                BY <1>9, <3>2
            <4>2. stack'[i + 1].obj = At(i)
                <5>1. CASE i = l
                    <6>1. stack # <<>>
                        BY <1>8, <4>1, <5>1, StackIs
                    <6>2. v = At(l)
                        BY <1>8, <6>1, DueIs
                    <6> QED BY <1>7, <1>9, <5>1, <6>2
                <5>2. CASE i # l
                    <6>1. stack[i + 1].obj = At(i)
                        BY <1>8, <1>9, <4>1, <5>2 DEF IInv, CallsOK
                    <6> QED BY <1>9, <4>1, <5>2, <6>1
                <5> QED BY <5>1, <5>2
            <4> QED BY <1>9, <1>13, <4>1, <4>2
        <3> QED BY <3>1, <3>2
    <2>2. stack'[1].obj = value'
        <3>1. CASE l = 0
            BY <1>7, <1>8, <1>9, <3>1, StackIs DEF Due, Alloc
        <3>2. CASE l # 0
            <4>1. stack # <<>> /\ 1 \in 1 .. l
                BY <1>8, <1>9, <3>2, StackIs
            <4> QED BY <1>9, <4>1 DEF IInv, CallsOK, Alloc
        <3> QED BY <3>1, <3>2
    <2>3. stack' # <<>>
        BY <1>9
    <2>4. result' = NoResult
        BY DueIs
    <2> QED BY <1>9, <2>1, <2>2, <2>3, <2>4 DEF CallsOK
<1> QED BY <1>2, <1>3, <1>12, <1>15, <1>16 DEF IInv

LEMMA VisitKeeps ==
    ASSUME IInv, NEW v, Due(v), Visit(v), UNCHANGED <<value, target, result>>
    PROVE  IInv'
<1>1. v \in OldValues /\ Table = copied /\ ret = NoResult
    BY DueIs, TableIsCopied DEF Due
<1>2. CASE ~ MustMove(v) /\ ret' = v /\ UNCHANGED <<heap, copied, stack>>
    BY <1>2, VisitOldKeeps
<1>3. CASE MustMove(v) /\ v \in DOMAIN copied /\ ret' = copied[v] /\ UNCHANGED <<heap, copied, stack>>
    BY <1>3, VisitOldKeeps
<1>4. CASE /\ MustMove(v) /\ v \notin DOMAIN copied /\ ~ Places \subseteq DOMAIN heap
           /\ heap' = Extended(heap, NewPlace, Begun(v))
           /\ copied' = Extended(copied, v, NewPlace)
           /\ IF IsLeaf(v)
              THEN ret' = NewPlace /\ UNCHANGED stack
              ELSE ret' = NoResult /\ stack' = Append(stack, Frame(v, NewPlace))
    <2>1. v \in Originals
        BY <1>1, <1>4, HeapIs DEF MustMove, OldValues
    <2>2. Table' = copied'
        <3>1. v \in DOMAIN copied'
            BY <1>4 DEF Extended
        <3>2. copied' # <<>>
            BY <3>1
        <3> QED BY <3>2 DEF Table
    <2>3. Alloc(v)
        BY <1>1, <1>4, <2>1, <2>2 DEF Alloc
    <2>4. CASE IsLeaf(v)
        BY <1>4, <2>3, <2>4, CopyLeafKeeps DEF IsLeaf
    <2>5. CASE ~ IsLeaf(v)
        BY <1>4, <2>3, <2>5, CopyContainerKeeps DEF IsLeaf
    <2> QED BY <2>4, <2>5
<1> QED BY <1>2, <1>3, <1>4 DEF Visit, Put

LEMMA StartKeeps ==
    ASSUME IInv, Start
    PROVE  IInv'
<1>1. Due(value) /\ UNCHANGED <<value, target, result>>
    BY DEF Start, Due
<1>2. CASE /\ MustMove(value) /\ IsLeaf(value) /\ ~ Places \subseteq DOMAIN heap
           /\ heap' = Extended(heap, NewPlace, Begun(value))
           /\ ret' = NewPlace
           /\ UNCHANGED <<copied, stack>>
    <2>1. copied = <<>> /\ Table = <<>> /\ ret = NoResult
        BY TableIsCopied DEF Start, IInv, CallsOK
    <2>2. DOMAIN Table = {}
        BY <2>1
    <2>3. value \in Originals
        BY <1>2, HeapIs DEF IInv, HeapOK, MustMove, Others
    <2>4. NewPlace \in Places
        <3>1. \E a \in Places : a \notin DOMAIN heap
            BY <1>2
        <3> QED BY <3>1 DEF NewPlace
    <2>5. MustMove(value)' /\ ret' # NoResult
        <3>1. value \in DOMAIN heap' /\ (value # NewPlace => heap'[value] = heap[value])
            BY <1>2, <2>3 DEF Extended, Originals
        <3>2. value # NewPlace
            BY <2>3, <2>4 DEF Originals
        <3> QED BY <1>1, <1>2, <2>4, <3>1, <3>2, HeapIs DEF MustMove
    <2>6. Table' = [o \in {value} |-> NewPlace]
        BY <1>1, <1>2, <2>1, <2>5 DEF Table
    <2>7. Table' = Extended(Table, value, NewPlace)
        BY <2>2, <2>6 DEF Extended
    <2>8. Alloc(value)
        BY <1>1, <1>2, <2>2, <2>3, <2>7 DEF Alloc
    <2> QED BY <1>1, <1>2, <2>8, CopyLeafKeeps DEF IsLeaf
<1>3. CASE Visit(value)
    BY <1>1, <1>3, VisitKeeps
<1> QED BY <1>2, <1>3 DEF Start

LEMMA DescendKeeps ==
    ASSUME IInv, Descend
    PROVE  IInv'
<1>1. PICK v : v = Original[Top.done + 1]
    OBVIOUS
<1>2. Due(v) /\ Visit(v) /\ UNCHANGED <<value, target, result>>
    BY <1>1 DEF Descend, Due
<1> QED BY <1>2, VisitKeeps

LEMMA ReturnKeeps ==
    ASSUME IInv, Return
    PROVE  IInv'
<1>1. PICK l : l = Len(stack)
    OBVIOUS
<1>2. l \in Nat /\ l >= 1 /\ Top = stack[l] /\ stack \in Seq(Frames) /\ ret = NoResult
    BY <1>1, StackIs DEF Return
<1>3. /\ stack' \in Seq(Frames) /\ Len(stack') = l - 1
      /\ \A i \in 1 .. l - 1 : stack'[i] = stack[i]
    <2>1. \A i \in 1 .. l - 1 : stack[i] \in Frames
        BY <1>1, <1>2
    <2>2. stack' = SubSeq(stack, 1, l - 1)
        BY <1>1 DEF Return, Front
    <2> QED BY <1>1, <1>2, <2>1, <2>2, SubSeqProperties
<1>4. /\ \A i \in 1 .. l : stack[i].obj \in DOMAIN Table /\ stack[i].copy \in Copies
      /\ Table = copied /\ copied # <<>>
    <2>1. stack[1].obj \in DOMAIN copied
        BY <1>1, <1>2, StackIs
    <2>2. copied # <<>>
        BY <2>1
    <2> QED BY <1>1, <2>2, StackIs, TableIsCopied
<1>5. Table' = Table /\ UNCHANGED <<heap, value, target, copied, result>> /\ ret' = stack[l].copy
    BY <1>2, <1>4 DEF Table, Return
<1>6. Grows
    BY <1>5 DEF Grows, Originals, IInv, TableOK
<1>7. ret' \in Values /\ ret' # NoResult /\ ret' = Table[stack[l].obj]
    <2>1. stack[l].copy \in Copies
        BY <1>2, <1>4
    <2>2. stack[l].copy = Table[stack[l].obj]
        BY <1>1, <1>2 DEF IInv, CallsOK, FrameOK
    <2> QED BY <1>5, <2>1, <2>2, HeapIs DEF Copies, Values
<1>8. TypeOK'
    <2>1. NoReentry'
        <3> SUFFICES ASSUME NEW i \in 1 .. l - 1, NEW j \in 1 .. l - 1, stack'[i].obj = stack'[j].obj
                     PROVE  i = j
            BY <1>3 DEF NoReentry
        <3>1. i \in 1 .. l /\ j \in 1 .. l /\ stack[i].obj = stack[j].obj
            BY <1>2, <1>3
        <3> QED BY <1>1, <3>1 DEF NoReentry, IInv, TypeOK
    <2>2. Frames' = Frames /\ Values' = Values /\ Copies' = Copies
        BY <1>5 DEF Frames, Values, Copies
    <2>3. stack' \in Seq(Frames')
        BY <1>3, <2>2
    <2> QED BY <1>5, <1>7, <2>1, <2>2, <2>3 DEF IInv, TypeOK, Frames
<1>9. CopiesAreOld' /\ HeapOK'
    BY <1>5 DEF IInv, CopiesAreOld, HeapOK, Copies, Originals
<1>10. TableOK'
    BY <1>5 DEF IInv, TableOK, Copies, Originals, MustMove
<1>11. OnlyReached'
    BY <1>5, <1>6, GrowsClosed DEF IInv, OnlyReached
<1>12. \A o : \A n : CopiedUpTo(o, n) => CopiedUpTo(o, n)'
    BY <1>5, CopyIsSame
<1>13. CopiesOK'
    <2>1. ASSUME NEW o \in DOMAIN Table, ~ InProgress(o)'
          PROVE  CopiedUpTo(o, Len(heap[o].body))
        <3>1. CASE o = stack[l].obj
            <4>1. Top.done = Len(heap[o].body) /\ Top = stack[l]
                BY <1>2, <3>1 DEF Return, Original
            <4> QED BY <1>1, <1>2, <3>1, <4>1 DEF IInv, CopiesOK
        <3>2. CASE o # stack[l].obj
            <4>1. ASSUME NEW i \in 1 .. l
                  PROVE  stack[i].obj # o
                <5>1. CASE i = l
                    BY <3>2, <5>1
                <5>2. CASE i # l
                    <6>1. i \in 1 .. l - 1
                        BY <1>2, <5>2
                    <6> QED BY <1>3, <2>1, <6>1 DEF InProgress
                <5> QED BY <5>1, <5>2
            <4>2. ~ InProgress(o)
                BY <1>1, <4>1 DEF InProgress
            <4> QED BY <4>2 DEF IInv, CopiesOK
        <3> QED BY <3>1, <3>2
    <2>2. ASSUME NEW i \in 1 .. l - 1
          PROVE  CopiedUpTo(stack[i].obj, stack[i].done)'
        <3>1. i \in 1 .. l
            BY <1>2
        <3>2. PICK f : f = stack[i] /\ f = stack'[i]
            BY <1>3
        <3>3. CopiedUpTo(f.obj, f.done)
            BY <1>1, <3>1, <3>2 DEF IInv, CopiesOK
        <3>4. CopiedUpTo(f.obj, f.done)'
            BY <1>12, <3>3
        <3> QED BY <3>2, <3>4 DEF CopiedUpTo
    <2>3. ASSUME NEW o \in DOMAIN Table', ~ InProgress(o)'
          PROVE  CopiedUpTo(o, Len(heap[o].body))'
        <3>1. PICK n : n = Len(heap[o].body)
            OBVIOUS
        <3>2. CopiedUpTo(o, n)'
            BY <1>5, <1>12, <2>1, <2>3, <3>1
        <3> QED BY <1>5, <3>1, <3>2
    <2> QED BY <1>3, <2>2, <2>3 DEF CopiesOK
<1>14. CallsOK'
    <2>1. ASSUME NEW i \in 1 .. l - 1
          PROVE  /\ FrameOK(stack[i])'
                 /\ stack'[i].done < Len(heap'[stack'[i].obj].body)
                 /\ i < l - 1 => stack'[i + 1].obj = At(i)'
                 /\ At(i)' = At(i) /\ stack[i + 1].obj = At(i)
        <3>1. i \in 1 .. l /\ i < l /\ (i < l - 1 => i + 1 \in 1 .. l - 1)
            BY <1>2
        <3>2. /\ FrameOK(stack[i]) /\ stack[i].done < Len(heap[stack[i].obj].body)
              /\ stack[i + 1].obj = At(i)
            BY <1>1, <3>1 DEF IInv, CallsOK
        <3>3. FrameOK(stack[i])' /\ At(i)' = At(i)
            BY <1>3, <1>5, <3>2 DEF FrameOK, At
        <3> QED BY <1>3, <1>5, <3>1, <3>2, <3>3
    <2>2. l # 1 => stack'[1].obj = value'
        BY <1>1, <1>2, <1>3, <1>5 DEF IInv, CallsOK
    <2>3. ASSUME NEW x, x = stack[l].obj
          PROVE  Met(x)' /\ ret' = Renamed(Table', x)
        <3>1. x \in DOMAIN Table
            BY <1>2, <1>4, <2>3
        <3> QED BY <1>5, <1>7, <2>3, <3>1 DEF Met, Renamed
    <2>4. l # 1 => Met(At(l - 1))' /\ ret' = Renamed(Table', At(l - 1)')
        <3>1. SUFFICES ASSUME l # 1
                       PROVE  Met(At(l - 1))' /\ ret' = Renamed(Table', At(l - 1)')
            OBVIOUS
        <3>2. l - 1 \in 1 .. l - 1 /\ (l - 1) + 1 = l
            BY <1>2, <3>1
        <3>3. PICK x : x = stack[l].obj
            OBVIOUS
        <3>4. At(l - 1)' = x
            BY <2>1, <3>2, <3>3
        <3> QED BY <2>3, <3>3, <3>4 DEF Met, MustMove
    <2>5. l = 1 => Met(value)' /\ ret' = Renamed(Table', value')
        <3>1. SUFFICES ASSUME l = 1
                       PROVE  Met(value)' /\ ret' = Renamed(Table', value')
            OBVIOUS
        <3>2. PICK x : x = stack[l].obj
            OBVIOUS
        <3>3. x = value
            BY <1>1, <3>1, <3>2 DEF IInv, CallsOK, Return
        <3> QED BY <1>5, <2>3, <3>2, <3>3 DEF Met, MustMove
    <2>6. stack' = <<>> <=> l = 1
        BY <1>2, <1>3, EmptySeq
    <2>7. result' = NoResult
        BY <1>5 DEF IInv, CallsOK, Return
    <2> QED BY <1>2, <1>3, <1>7, <2>1, <2>2, <2>4, <2>5, <2>6, <2>7 DEF CallsOK
<1> QED BY <1>8, <1>9, <1>10, <1>11, <1>13, <1>14 DEF IInv

LEMMA FinishKeeps ==
    ASSUME IInv, Finish
    PROVE  IInv'
<1>1. Table' = Table
    BY DEF Finish, Table, MustMove
<1>2. TypeOK'
    BY DEF Finish, IInv, TypeOK, NoReentry, Copies, Values
<1>3. CopiesAreOld' /\ HeapOK' /\ TableOK'
    BY <1>1 DEF Finish, IInv, CopiesAreOld, HeapOK, TableOK, Copies, Originals, MustMove
<1>4. CopiesOK'
    <2>1. \A o : \A n : CopiedUpTo(o, n)' <=> CopiedUpTo(o, n)
        BY <1>1, CopyIsSame DEF Finish
    <2>2. ASSUME NEW o \in DOMAIN Table', ~ InProgress(o)'
          PROVE  CopiedUpTo(o, Len(heap[o].body))'
        <3>1. PICK n : n = Len(heap[o].body)
            OBVIOUS
        <3>2. CopiedUpTo(o, n)
            BY <1>1, <2>2, <3>1 DEF IInv, CopiesOK, Finish, InProgress
        <3>3. CopiedUpTo(o, n)'
            BY <2>1, <3>2
        <3> QED BY <3>1, <3>3 DEF Finish
    <2>3. ASSUME NEW i \in 1 .. Len(stack)
          PROVE  CopiedUpTo(stack[i].obj, stack[i].done)'
        <3>1. PICK f : f = stack[i] /\ f = stack'[i]
            BY DEF Finish
        <3>2. CopiedUpTo(f.obj, f.done)
            BY <3>1 DEF IInv, CopiesOK
        <3>3. CopiedUpTo(f.obj, f.done)'
            BY <2>1, <3>2
        <3> QED BY <3>1, <3>3 DEF CopiedUpTo
    <2> QED BY <1>1, <2>2, <2>3 DEF CopiesOK, Finish
<1>5. CallsOK'
    BY <1>1 DEF Finish, IInv, CallsOK, FrameOK, At, Met, MustMove
<1>6. OnlyReached'
    BY <1>1 DEF Finish, IInv, OnlyReached, Young, Closed, Originals, MustMove
<1> QED BY <1>2, <1>3, <1>4, <1>5, <1>6 DEF IInv

-----------------------------------------------------------------------------
(* What Store finds.                                                         *)
LEMMA TopIs ==
    ASSUME IInv, Store
    PROVE  /\ Len(stack) \in Nat /\ Len(stack) >= 1 /\ Top = stack[Len(stack)]
           /\ Top \in Frames /\ Top.done \in Nat /\ Top.copy = Table[Top.obj]
           /\ Top.obj \in DOMAIN Table /\ Top.obj \in Originals /\ Top.copy \in Copies
           /\ heap[Top.copy].type = heap[Top.obj].type /\ heap[Top.obj].type # "string"
           /\ Top.done < Len(heap[Top.obj].body)
           /\ heap[Top.obj].body \in Seq(OldValues) /\ heap[Top.copy].body \in Seq(Values)
           /\ CopiedUpTo(Top.obj, Top.done) /\ FrameOK(Top)
           /\ Met(heap[Top.obj].body[Top.done + 1])
           /\ ret = Renamed(Table, heap[Top.obj].body[Top.done + 1])
           /\ Table = copied
<1>1. stack # <<>> /\ ret # NoResult
    BY DEF Store
<1>2. Len(stack) \in Nat /\ Len(stack) >= 1 /\ Top = stack[Len(stack)]
    BY <1>1, StackIs
<1>3. /\ Top \in Frames /\ Top.done \in Nat /\ Top.obj \in DOMAIN Table
      /\ Top.obj \in Originals /\ Top.copy \in Copies
    BY <1>2, StackIs
<1>4. FrameOK(Top) /\ Top.done < Len(heap[Top.obj].body) /\ CopiedUpTo(Top.obj, Top.done)
    BY <1>1, <1>2 DEF IInv, CallsOK, CopiesOK
<1>5. Top.copy = Table[Top.obj] /\ heap[Top.obj].type # "string"
    BY <1>4 DEF FrameOK
<1>6. heap[Top.copy].type = heap[Top.obj].type
    BY <1>3, <1>5 DEF IInv, TableOK
<1>7. heap[Top.obj].body \in Seq(OldValues)
    BY <1>3, OriginalIs
<1>8. heap[Top.copy].body \in Seq(Values)
    BY <1>3, HeapIs DEF Copies
<1>9. Met(At(Len(stack))) /\ ret = Renamed(Table, At(Len(stack)))
    BY <1>1 DEF IInv, CallsOK
<1>10. At(Len(stack)) = heap[Top.obj].body[Top.done + 1]
    BY <1>2 DEF At
<1>11. Met(heap[Top.obj].body[Top.done + 1])
       /\ ret = Renamed(Table, heap[Top.obj].body[Top.done + 1])
    BY <1>9, <1>10
<1>12. Table = copied
    BY <1>1, TableIsCopied
<1> QED BY <1>2, <1>3, <1>4, <1>5, <1>6, <1>7, <1>8, <1>11, <1>12

(* A key that is being copied has no equal among the keys of the copy.       *)
LEMMA NoSameKey ==
    ASSUME IInv, NEW o \in DOMAIN Table, heap[o].type = "map",
           NEW n \in Nodes(heap[o].body), CopiedUpTo(o, 2 * n - 1),
           Key(heap[o].body, n) # Tombstone,
           NEW m \in Nodes(heap[Table[o]].body)
    PROVE  ~ SameKey(heap, Key(heap[Table[o]].body, m), Renamed(Table, Key(heap[o].body, n)))
<1> DEFINE old == heap[o].body
           new == heap[Table[o]].body
           k == Key(heap[o].body, n)
<1>1. o \in Originals /\ old \in Seq(OldValues) /\ new \in Seq(Values) /\ Len(old) \in Nat
    <2>1. o \in Originals /\ Table[o] \in DOMAIN heap
        BY DEF IInv, TableOK, Copies
    <2>2. old \in Seq(OldValues)
        BY <2>1, OriginalIs
    <2> QED BY <2>1, <2>2, HeapIs
<1>2. n \in Nat /\ n >= 1 /\ 2 * n - 1 \in 1 .. Len(old)
    <2>1. n \in 1 .. Len(old) \div 2
        BY DEF Nodes
    <2> QED BY ONLY <1>1, <2>1, TwoSlots
<1>3. k \in OldValues /\ Met(k)
    <2>1. k = old[2 * n - 1] /\ 2 * n - 1 \in 1 .. 2 * n - 1
        BY <1>2 DEF Key
    <2> QED BY <1>1, <1>2, <2>1 DEF CopiedUpTo
<1>4. SUFFICES ASSUME SameKey(heap, Key(new, m), Renamed(Table, k))
               PROVE  FALSE
    OBVIOUS
<1>5. Renamed(Table, k) # Tombstone
    BY <1>3, RenamedIs
<1>6. Key(new, m) # Tombstone
    <2>1. Tombstone \notin DOMAIN heap
        BY HeapIs DEF Others
    <2> QED BY <1>4, <1>5, <2>1 DEF SameKey
<1>7. m \in 1 .. Len(new) \div 2
    BY DEF Nodes
<1>8. <<Key(new, m), Value(new, m)>> \in EntriesUpTo(new, Len(new) \div 2)
    BY <1>6, <1>7 DEF EntriesUpTo
<1>9. (2 * n - 1) \div 2 = n - 1
    BY <1>2
<1>10. EntriesUpTo(new, Len(new) \div 2) = RenamedEntries(old, n - 1)
    BY <1>9 DEF CopiedUpTo
<1>11. PICK j \in 1 .. n - 1 : Key(old, j) # Tombstone /\ Key(new, m) = Renamed(Table, Key(old, j))
    BY <1>8, <1>10 DEF RenamedEntries
<1>12. /\ j \in Nodes(old) /\ j # n /\ 2 * j - 1 \in 1 .. 2 * n - 1
       /\ 2 * j - 1 \in 1 .. Len(old)
    <2>1. PICK h : h = Len(old) \div 2
        OBVIOUS
    <2>2. n \in 1 .. h /\ Nodes(old) = 1 .. h
        BY <2>1 DEF Nodes
    <2>3. j \in 1 .. h /\ j # n /\ 2 * j - 1 \in 1 .. 2 * n - 1
        <3>1. h \in Nat
            <4>1. PICK len \in Nat : len = Len(old)
                BY <1>1
            <4> QED BY ONLY <2>1, <4>1, HalfIsNatural
        <3> QED BY ONLY <1>2, <2>2, <3>1, j \in 1 .. n - 1
    <2>4. 2 * j - 1 \in 1 .. Len(old)
        BY ONLY <1>1, <1>2, <2>3
    <2> QED BY <2>2, <2>3, <2>4
<1>13. Key(old, j) \in OldValues /\ Met(Key(old, j))
    BY <1>1, <1>12 DEF Key, CopiedUpTo
<1>14. SameKey(heap, Key(old, j), k)
    BY <1>3, <1>4, <1>11, <1>13, RenamedSameKey
<1> QED BY <1>1, <1>12, <1>14, OriginalIs

(* The table says where the copy of a slot is, and that it is old.           *)
LEMMA SlotIsCopied ==
    ASSUME IInv, Store, NEW j \in 1 .. Top.done + 1
    PROVE  /\ heap[Top.obj].body[j] \in OldValues /\ Met(heap[Top.obj].body[j])
           /\ Renamed(Table, heap[Top.obj].body[j]) \in Values
           /\ Renamed(Table, heap[Top.obj].body[j]) \in DOMAIN heap =>
                heap[Renamed(Table, heap[Top.obj].body[j])].level <= target
<1>1. /\ Top.done \in Nat /\ Top.done < Len(heap[Top.obj].body)
      /\ heap[Top.obj].body \in Seq(OldValues)
      /\ CopiedUpTo(Top.obj, Top.done) /\ Met(heap[Top.obj].body[Top.done + 1])
    BY TopIs
<1>2. j \in 1 .. Len(heap[Top.obj].body) /\ (j # Top.done + 1 => j \in 1 .. Top.done)
    BY <1>1
<1>3. PICK x \in OldValues : x = heap[Top.obj].body[j]
    BY <1>1, <1>2
<1>4. Met(x)
    BY <1>1, <1>2, <1>3 DEF CopiedUpTo
<1> QED BY <1>3, <1>4, RenamedIs

(* The body of the copy after Store, as far as it goes.                      *)
StoredWell(body) ==
    /\ body \in Seq(Values)
    /\ heap[Top.obj].type = "map" => Len(body) % 2 = 0
    /\ \A i \in 1 .. Len(body) : body[i] \in DOMAIN heap => heap[body[i]].level <= target
    /\ heap[Top.obj].type # "map" =>
         /\ Len(body) = Len(heap[Top.obj].body)
         /\ \A j \in 1 .. Top.done + 1 : body[j] = Renamed(Table, heap[Top.obj].body[j])
    /\ heap[Top.obj].type = "map" =>
         EntriesUpTo(body, Len(body) \div 2) =
         RenamedEntries(heap[Top.obj].body, (Top.done + 1) \div 2)

LEMMA StoredKey ==
    ASSUME IInv, Store, IsKey
    PROVE  StoredWell(Stored(heap[Top.copy].body))
<1>1. /\ Top.copy \in Copies /\ heap[Top.copy].type = heap[Top.obj].type
      /\ heap[Top.copy].body \in Seq(Values) /\ Top.copy = Table[Top.obj]
      /\ CopiedUpTo(Top.obj, Top.done) /\ Top.done \in Nat
    BY TopIs
<1>2. heap[Top.obj].type = "map" /\ Top.done % 2 = 0
    BY DEF IsKey
<1>3. (Top.done + 1) \div 2 = Top.done \div 2
    BY <1>1, <1>2
<1>4. Stored(heap[Top.copy].body) = heap[Top.copy].body
    BY DEF Stored
<1>5. Len(heap[Top.copy].body) % 2 = 0
    BY <1>1, <1>2 DEF IInv, HeapOK
<1>6. \A i \in 1 .. Len(heap[Top.copy].body) : heap[Top.copy].body[i] \in DOMAIN heap =>
        heap[heap[Top.copy].body[i]].level <= target
    BY <1>1 DEF IInv, CopiesAreOld
<1>7. EntriesUpTo(heap[Top.copy].body, Len(heap[Top.copy].body) \div 2) =
      RenamedEntries(heap[Top.obj].body, Top.done \div 2)
    BY <1>1, <1>2 DEF CopiedUpTo
<1> QED BY <1>1, <1>2, <1>3, <1>4, <1>5, <1>6, <1>7 DEF StoredWell

LEMMA StoredSlot ==
    ASSUME IInv, Store, heap[Top.obj].type # "map"
    PROVE  StoredWell(Stored(heap[Top.copy].body))
<1>1. /\ Top.copy \in Copies /\ Top.copy = Table[Top.obj]
      /\ heap[Top.copy].body \in Seq(Values)
      /\ CopiedUpTo(Top.obj, Top.done) /\ Top.done \in Nat
      /\ Top.done < Len(heap[Top.obj].body)
      /\ ret = Renamed(Table, heap[Top.obj].body[Top.done + 1])
    BY TopIs
<1>2. /\ Len(heap[Top.copy].body) = Len(heap[Top.obj].body)
      /\ \A j \in 1 .. Top.done : heap[Top.copy].body[j] = Renamed(Table, heap[Top.obj].body[j])
    BY <1>1 DEF CopiedUpTo
<1>3. Top.done + 1 \in 1 .. Top.done + 1 /\ Top.done + 1 \in 1 .. Len(heap[Top.copy].body)
    BY <1>1, <1>2
<1>4. ret \in Values /\ (ret \in DOMAIN heap => heap[ret].level <= target)
    BY <1>1, <1>3, SlotIsCopied
<1>5. PICK b : b = Stored(heap[Top.copy].body)
    OBVIOUS
<1>6. b = [heap[Top.copy].body EXCEPT ![Top.done + 1] = ret]
    BY <1>5 DEF Stored, IsKey
<1>7. /\ b \in Seq(Values) /\ Len(b) = Len(heap[Top.copy].body)
      /\ \A j \in 1 .. Len(b) : b[j] = IF j = Top.done + 1 THEN ret ELSE heap[Top.copy].body[j]
    <2>1. PICK body \in Seq(Values) : body = heap[Top.copy].body
        BY <1>1
    <2>2. PICK i \in 1 .. Len(body) : i = Top.done + 1
        BY <1>3, <2>1
    <2>3. /\ [body EXCEPT ![i] = ret] \in Seq(Values)
          /\ Len([body EXCEPT ![i] = ret]) = Len(body)
          /\ \A j \in 1 .. Len(body) : [body EXCEPT ![i] = ret][j] = IF j = i THEN ret ELSE body[j]
        BY ONLY <1>4, ExceptSeq, body \in Seq(Values), i \in 1 .. Len(body)
    <2> QED BY <1>6, <2>1, <2>2, <2>3
<1>8. \A i \in 1 .. Len(b) : b[i] \in DOMAIN heap => heap[b[i]].level <= target
    BY <1>1, <1>4, <1>7 DEF IInv, CopiesAreOld
<1>9. ASSUME NEW j \in 1 .. Top.done + 1
      PROVE  b[j] = Renamed(Table, heap[Top.obj].body[j])
    <2>1. CASE j = Top.done + 1
        BY <1>1, <1>3, <1>7, <2>1
    <2>2. CASE j # Top.done + 1
        <3>1. j \in 1 .. Top.done /\ j \in 1 .. Len(heap[Top.copy].body)
            BY <1>1, <1>2, <2>2
        <3> QED BY <1>2, <1>7, <2>2, <3>1
    <2> QED BY <2>1, <2>2
<1> QED BY <1>2, <1>5, <1>7, <1>8, <1>9 DEF StoredWell

(* The node that the call is at.                                             *)
LEMMA NodeIs ==
    ASSUME IInv, Store, heap[Top.obj].type = "map", ~ IsKey,
           NEW n, n = (Top.done + 1) \div 2
    PROVE  /\ n \in Nat /\ n >= 1 /\ Top.done = 2 * n - 1 /\ Top.done + 1 = 2 * n
           /\ Top.done \div 2 = n - 1
           /\ n \in Nodes(heap[Top.obj].body)
           /\ heap[Top.obj].body[Top.done] = Key(heap[Top.obj].body, n)
           /\ heap[Top.obj].body[Top.done + 1] = Value(heap[Top.obj].body, n)
           /\ Top.key = Renamed(Table, Key(heap[Top.obj].body, n))
           /\ ret = Renamed(Table, Value(heap[Top.obj].body, n))
           /\ Key(heap[Top.obj].body, n) = Tombstone <=> Value(heap[Top.obj].body, n) = Nil
<1>1. /\ Top.done \in Nat /\ Top.done < Len(heap[Top.obj].body) /\ FrameOK(Top)
      /\ heap[Top.obj].body \in Seq(OldValues) /\ Top.obj \in Originals
      /\ ret = Renamed(Table, heap[Top.obj].body[Top.done + 1])
    BY TopIs
<1>2. Top.done % 2 = 1
    BY <1>1 DEF IsKey
<1>3. PICK d \in Nat : d = Top.done
    BY <1>1
<1>4. n \in Nat /\ n >= 1 /\ d = 2 * n - 1 /\ d + 1 = 2 * n /\ d \div 2 = n - 1
    BY ONLY <1>2, <1>3, n = (Top.done + 1) \div 2
<1>5. PICK l \in Nat : l = Len(heap[Top.obj].body)
    BY <1>1
<1>6. n \in 1 .. l \div 2
    <2>1. d < l
        BY <1>1, <1>3, <1>5
    <2>2. 2 * n <= l
        BY ONLY <1>4, <2>1, d \in Nat, l \in Nat
    <2> QED BY ONLY <1>4, <2>2, l \in Nat
<1>7. n \in Nodes(heap[Top.obj].body)
    BY <1>5, <1>6 DEF Nodes
<1>8. /\ heap[Top.obj].body[Top.done] = Key(heap[Top.obj].body, n)
      /\ heap[Top.obj].body[Top.done + 1] = Value(heap[Top.obj].body, n)
    BY <1>3, <1>4 DEF Key, Value
<1>9. Top.key = Renamed(Table, Key(heap[Top.obj].body, n))
    BY <1>1, <1>2, <1>8 DEF FrameOK
<1>10. Key(heap[Top.obj].body, n) = Tombstone <=> Value(heap[Top.obj].body, n) = Nil
    BY <1>1, <1>7, OriginalIs
<1> QED BY <1>1, <1>3, <1>4, <1>7, <1>8, <1>9, <1>10

LEMMA NextEntry ==
    ASSUME NEW body, NEW n \in Nat, n >= 1
    PROVE  RenamedEntries(body, n) =
           IF Key(body, n) = Tombstone THEN RenamedEntries(body, n - 1)
           ELSE RenamedEntries(body, n - 1) \cup
                {<<Renamed(Table, Key(body, n)), Renamed(Table, Value(body, n))>>}
<1>1. 1 .. n = (1 .. n - 1) \cup {n}
    OBVIOUS
<1> QED BY <1>1 DEF RenamedEntries

LEMMA StoredValue ==
    ASSUME IInv, Store, heap[Top.obj].type = "map", ~ IsKey
    PROVE  StoredWell(Stored(heap[Top.copy].body))
<1> DEFINE old == heap[Top.obj].body
           new == heap[Top.copy].body
<1>1. /\ Top.copy \in Copies /\ Top.copy = Table[Top.obj]
      /\ heap[Top.copy].type = heap[Top.obj].type
      /\ new \in Seq(Values) /\ Top.obj \in DOMAIN Table
      /\ CopiedUpTo(Top.obj, Top.done)
    BY TopIs
<1>2. PICK n : n = (Top.done + 1) \div 2
    OBVIOUS
<1>3. /\ n \in Nat /\ n >= 1 /\ Top.done = 2 * n - 1 /\ Top.done + 1 = 2 * n
      /\ Top.done \div 2 = n - 1
      /\ n \in Nodes(old)
      /\ old[Top.done] = Key(old, n)
      /\ old[Top.done + 1] = Value(old, n)
      /\ Top.key = Renamed(Table, Key(old, n))
      /\ ret = Renamed(Table, Value(old, n))
      /\ Key(old, n) = Tombstone <=> Value(old, n) = Nil
    BY <1>2, NodeIs
<1>4. Top.done \in 1 .. Top.done + 1 /\ Top.done + 1 \in 1 .. Top.done + 1
    BY <1>3
<1>5. /\ Key(old, n) \in OldValues /\ Met(Key(old, n))
      /\ Value(old, n) \in OldValues /\ Met(Value(old, n))
      /\ Top.key \in Values /\ ret \in Values
      /\ Top.key \in DOMAIN heap => heap[Top.key].level <= target
      /\ ret \in DOMAIN heap => heap[ret].level <= target
    BY <1>3, <1>4, SlotIsCopied
<1>6. /\ ret = Nil <=> Value(old, n) = Nil
      /\ Top.key = Tombstone <=> Key(old, n) = Tombstone
    BY <1>3, <1>5, RenamedIs
<1>7. EntriesUpTo(new, Len(new) \div 2) = RenamedEntries(old, n - 1)
    BY <1>1, <1>3 DEF CopiedUpTo
<1>8. Len(new) % 2 = 0
    BY <1>1 DEF IInv, HeapOK
<1>9. \A i \in 1 .. Len(new) : new[i] \in DOMAIN heap => heap[new[i]].level <= target
    BY <1>1 DEF IInv, CopiesAreOld
<1>10. PICK b : b = Stored(new)
    OBVIOUS
<1>11. b = MapSet(new, Top.key, ret)
    BY <1>10 DEF Stored
<1>12. CASE ret = Nil
    <2>1. b = new
        BY <1>11, <1>12 DEF MapSet
    <2>2. RenamedEntries(old, n) = RenamedEntries(old, n - 1)
        BY <1>3, <1>6, <1>12, NextEntry
    <2> QED BY <1>1, <1>2, <1>7, <1>8, <1>9, <1>10, <2>1, <2>2 DEF StoredWell
<1>13. CASE ret # Nil
    <2>1. Key(old, n) # Tombstone
        BY <1>3, <1>6, <1>13
    <2>2. \A m \in Nodes(new) : ~ SameKey(heap, Key(new, m), Top.key)
        BY <1>1, <1>3, <2>1, NoSameKey
    <2>3. b = Inserted(new, Top.key, ret)
        <3>1. {m \in Nodes(new) : SameKey(heap, Key(new, m), Top.key)} = {}
            BY <2>2
        <3> HIDE DEF new
        <3> QED BY <1>11, <1>13, <3>1 DEF MapSet
    <2>4. b \in Seq(Values) /\ IsInsertion(b, new, Top.key, ret)
        BY <1>1, <1>5, <1>8, <2>3, InsertedIs
    <2>5. PICK l \in Nat : l = Len(new)
        BY <1>1
    <2>6. Len(b) = l + 2 /\ Len(b) % 2 = 0
        <3>1. Len(b) = l + 2 /\ l % 2 = 0
            BY <1>8, <2>4, <2>5 DEF IsInsertion
        <3> QED BY ONLY <3>1, l \in Nat
    <2>7. ASSUME NEW i \in 1 .. l + 2
          PROVE  b[i] = Top.key \/ b[i] = ret \/ \E j \in 1 .. l : b[i] = new[j]
        <3>1. CASE l = 0
            <4>1. i = 1 \/ i = 2
                BY <3>1
            <4> QED BY <2>4, <2>5, <3>1, <4>1 DEF IsInsertion
        <3>2. CASE l # 0
            <4>1. /\ l >= 2 /\ \A m \in 1 .. 2 : b[m] = new[m]
                  /\ b[3] = Top.key /\ b[4] = ret
                  /\ \A m \in 5 .. l + 2 : b[m] = new[m - 2]
                BY <2>4, <2>5, <3>2 DEF IsInsertion
            <4>2. CASE i \in 1 .. 2
                <5>1. i \in 1 .. l
                    BY <4>1, <4>2
                <5> QED BY <4>1, <4>2, <5>1
            <4>3. CASE i = 3 \/ i = 4
                BY <4>1, <4>3
            <4>4. CASE i \in 5 .. l + 2
                <5>1. i - 2 \in 1 .. l
                    BY <4>4
                <5> QED BY <4>1, <4>4, <5>1
            <4>5. i \in 1 .. 2 \/ i = 3 \/ i = 4 \/ i \in 5 .. l + 2
                OBVIOUS
            <4> QED BY <4>2, <4>3, <4>4, <4>5
        <3> QED BY <3>1, <3>2
    <2>8. \A i \in 1 .. Len(b) : b[i] \in DOMAIN heap => heap[b[i]].level <= target
        BY <1>5, <1>9, <2>5, <2>6, <2>7
    <2>9. EntriesUpTo(b, Len(b) \div 2) = EntriesUpTo(new, Len(new) \div 2) \cup {<<Top.key, ret>>}
        <3>1. Top.key # Tombstone
            BY <1>6, <2>1
        <3>2. PICK body \in Seq(Values) : body = new
            BY <1>1
        <3>3. Len(body) % 2 = 0
            BY <1>8, <3>2
        <3>4. EntriesUpTo(Inserted(body, Top.key, ret), Len(Inserted(body, Top.key, ret)) \div 2) =
              EntriesUpTo(body, Len(body) \div 2) \cup {<<Top.key, ret>>}
            BY ONLY <1>5, <3>1, <3>3, body \in Seq(Values), EntriesOfInserted
        <3> QED BY <2>3, <3>2, <3>4
    <2>10. EntriesUpTo(b, Len(b) \div 2) = RenamedEntries(old, n)
        BY <1>3, <1>7, <2>1, <2>9, NextEntry
    <2> QED BY <1>2, <1>10, <2>4, <2>6, <2>8, <2>10 DEF StoredWell
<1> QED BY <1>10, <1>12, <1>13

LEMMA StoreIs ==
    ASSUME IInv, Store, NEW b, b = Stored(heap[Top.copy].body)
    PROVE  /\ StoredWell(b)
           /\ DOMAIN heap' = DOMAIN heap /\ Copies' = Copies /\ Originals' = Originals
           /\ heap' = [a \in DOMAIN heap |-> heap'[a]]
           /\ \A a \in DOMAIN heap : a # Top.copy => heap'[a] = heap[a]
           /\ heap'[Top.copy] = [type |-> heap[Top.copy].type, level |-> heap[Top.copy].level, body |-> b]
           /\ \A a \in DOMAIN heap : heap'[a].level = heap[a].level /\ heap'[a].type = heap[a].type
           /\ Table' = Table /\ Grows
           /\ \A o \in DOMAIN Table : o # Top.obj => heap'[Table[o]] = heap[Table[o]]
<1>1. StoredWell(b)
    BY StoredKey, StoredSlot, StoredValue
<1>2. /\ Top.copy \in Copies /\ Top.copy \in DOMAIN heap /\ Top.copy = Table[Top.obj]
      /\ Top.obj \in DOMAIN Table /\ Table = copied
    BY TopIs DEF Copies
<1>3. heap' = [heap EXCEPT ![Top.copy] = WithBody(heap[Top.copy], b)]
    BY DEF Store
<1>4. WithBody(heap[Top.copy], b) =
      [type |-> heap[Top.copy].type, level |-> heap[Top.copy].level, body |-> b]
    BY <1>2, HeapIs DEF WithBody
<1>5. /\ DOMAIN heap' = DOMAIN heap
      /\ heap' = [a \in DOMAIN heap |-> heap'[a]]
      /\ \A a \in DOMAIN heap : a # Top.copy => heap'[a] = heap[a]
      /\ heap'[Top.copy] = [type |-> heap[Top.copy].type, level |-> heap[Top.copy].level, body |-> b]
    <2>1. heap = [a \in DOMAIN heap |-> heap[a]]
        BY DEF IInv, TypeOK
    <2> QED BY <1>2, <1>3, <1>4, <2>1
<1>6. Copies' = Copies /\ Originals' = Originals
    BY <1>5 DEF Copies, Originals
<1>7. \A a \in DOMAIN heap : heap'[a].level = heap[a].level /\ heap'[a].type = heap[a].type
    BY <1>5
<1>8. Table' = Table
    <2>1. copied' = copied /\ copied # <<>>
        <3>1. Top.obj \in DOMAIN copied
            BY <1>2
        <3>2. copied # <<>>
            BY <3>1
        <3> QED BY <3>2 DEF Store
    <2> QED BY <1>2, <2>1 DEF Table
<1>9. Grows
    <2>1. \A o \in Originals : heap'[o] = heap[o]
        BY <1>2, <1>5 DEF Originals, Copies
    <2> QED BY <1>6, <1>8, <2>1 DEF Grows, IInv, TableOK, Store
<1>10. \A o \in DOMAIN Table : o # Top.obj => heap'[Table[o]] = heap[Table[o]]
    BY <1>2, <1>5 DEF IInv, TableOK, Copies
<1> QED BY <1>1, <1>5, <1>6, <1>7, <1>8, <1>9, <1>10

LEMMA StoreKeepsHeap ==
    ASSUME IInv, Store
    PROVE  /\ heap' \in [DOMAIN heap' -> Objects(DOMAIN heap')]
           /\ CopiesAreOld' /\ HeapOK' /\ TableOK' /\ OnlyReached'
<1>1. PICK b : b = Stored(heap[Top.copy].body)
    OBVIOUS
<1>2. /\ StoredWell(b)
      /\ DOMAIN heap' = DOMAIN heap /\ Copies' = Copies /\ Originals' = Originals
      /\ heap' = [a \in DOMAIN heap |-> heap'[a]]
      /\ \A a \in DOMAIN heap : a # Top.copy => heap'[a] = heap[a]
      /\ heap'[Top.copy] = [type |-> heap[Top.copy].type, level |-> heap[Top.copy].level, body |-> b]
      /\ \A a \in DOMAIN heap : heap'[a].level = heap[a].level /\ heap'[a].type = heap[a].type
      /\ Table' = Table /\ Grows
    BY <1>1, StoreIs
<1>3. /\ Top.copy \in Copies /\ Top.copy \in DOMAIN heap
      /\ heap[Top.copy].type = heap[Top.obj].type
    BY TopIs DEF Copies
<1>4. heap' \in [DOMAIN heap' -> Objects(DOMAIN heap')]
    <2>1. heap'[Top.copy] \in Objects(DOMAIN heap)
        BY <1>2, <1>3, HeapIs DEF Objects, StoredWell, Values
    <2>2. \A a \in DOMAIN heap : a # Top.copy => heap'[a] \in Objects(DOMAIN heap)
        BY <1>2 DEF IInv, TypeOK
    <2>3. \A a \in DOMAIN heap : heap'[a] \in Objects(DOMAIN heap)
        BY <2>1, <2>2
    <2> QED BY <1>2, <2>3
<1>5. CopiesAreOld'
    <2>1. target' = target
        BY DEF Store
    <2>2. ASSUME NEW a \in Copies, NEW i \in 1 .. Len(heap'[a].body), heap'[a].body[i] \in DOMAIN heap
          PROVE  heap[heap'[a].body[i]].level <= target
        <3>1. CASE a = Top.copy
            BY <1>2, <2>2, <3>1 DEF StoredWell
        <3>2. CASE a # Top.copy
            BY <1>2, <2>2, <3>2 DEF IInv, CopiesAreOld, Copies
        <3> QED BY <3>1, <3>2
    <2>3. \A a \in Copies : heap'[a].level = target
        BY <1>2 DEF IInv, CopiesAreOld, Copies
    <2> QED BY <1>2, <2>1, <2>2, <2>3 DEF CopiesAreOld
<1>6. HeapOK'
    <2>1. [o \in Originals' |-> heap'[o]] = [o \in Originals |-> heap[o]]
        BY <1>2 DEF Grows
    <2>2. IsGraph([o \in Originals' |-> heap'[o]])
        BY <2>1 DEF IInv, HeapOK
    <2>3. ASSUME NEW a \in Copies, heap'[a].type = "map"
          PROVE  Len(heap'[a].body) % 2 = 0
        <3>1. CASE a = Top.copy
            <4>1. heap[Top.obj].type = "map" /\ heap'[a].body = b
                BY <1>2, <1>3, <2>3, <3>1
            <4>2. Len(b) % 2 = 0
                BY <1>2, <4>1 DEF StoredWell
            <4> QED BY <4>1, <4>2
        <3>2. CASE a # Top.copy
            BY <1>2, <2>3, <3>2 DEF IInv, HeapOK, Copies
        <3> QED BY <3>1, <3>2
    <2> QED BY <1>2, <2>2, <2>3 DEF HeapOK, IInv, Grows
<1>7. TableOK'
    <2>1. \A o \in DOMAIN Table : MustMove(o)'
        BY <1>2 DEF IInv, TableOK, MustMove, Grows, Originals
    <2>2. \A o \in DOMAIN Table : Table[o] \in DOMAIN heap /\ o \in DOMAIN heap
        BY DEF IInv, TableOK, Copies, Originals
    <2> QED BY <1>2, <2>1, <2>2 DEF IInv, TableOK
<1>8. OnlyReached'
    BY <1>2, GrowsClosed DEF IInv, OnlyReached
<1> QED BY <1>4, <1>5, <1>6, <1>7, <1>8

(* The copy is one slot further.                                             *)
LEMMA StoreAdvances ==
    ASSUME IInv, Store, NEW o, o = Top.obj, NEW n, n = Top.done + 1
    PROVE  CopiedUpTo(o, n)'
<1>1. PICK b : b = Stored(heap[Top.copy].body)
    OBVIOUS
<1>2. /\ StoredWell(b)
      /\ heap'[Top.copy] = [type |-> heap[Top.copy].type, level |-> heap[Top.copy].level, body |-> b]
      /\ Table' = Table /\ Grows
    BY <1>1, StoreIs
<1>3. /\ o \in Originals /\ Top.copy = Table[o]
      /\ Top.done \in Nat /\ Top.done < Len(heap[o].body)
      /\ heap[o].body \in Seq(OldValues)
    BY TopIs
<1>4. heap'[o] = heap[o] /\ heap'[Table'[o]].body = b
    BY <1>2, <1>3 DEF Grows
<1>5. n \in Nat /\ n <= Len(heap[o].body)
    BY <1>3
<1>6. ASSUME NEW j \in 1 .. n
      PROVE  Met(heap[o].body[j])'
    <2>1. PICK x : x = heap[o].body[j]
        OBVIOUS
    <2>2. x \in OldValues /\ Met(x)
        BY <2>1, SlotIsCopied
    <2>3. Met(x)'
        BY <1>2, <2>2, GrowsMet
    <2> QED BY <1>4, <2>1, <2>3 DEF Met, MustMove
<1>7. RenamedEntries(heap[o].body, n \div 2)' = RenamedEntries(heap[o].body, n \div 2)
    BY <1>2, <1>4 DEF RenamedEntries
<1>8. EntriesUpTo(heap[Table[o]].body, Len(heap[Table[o]].body) \div 2)' = EntriesUpTo(b, Len(b) \div 2)
    BY <1>4 DEF EntriesUpTo
<1>9. heap[o].type = "map" => EntriesUpTo(b, Len(b) \div 2) = RenamedEntries(heap[o].body, n \div 2)
    BY <1>2 DEF StoredWell
<1>10. heap[o].type # "map" =>
         Len(b) = Len(heap[o].body) /\ \A j \in 1 .. n : b[j] = Renamed(Table, heap[o].body[j])
    BY <1>2 DEF StoredWell
<1> QED BY <1>2, <1>4, <1>5, <1>6, <1>7, <1>8, <1>9, <1>10 DEF CopiedUpTo

(* The call knows the copy of a key that it has stored.                      *)
LEMMA StoreAdvancesFrame ==
    ASSUME IInv, Store, NEW f, f = Advanced(Top, IF IsKey THEN ret ELSE Nil)
    PROVE  /\ f \in Frames' /\ f.obj = Top.obj /\ f.done = Top.done + 1
           /\ FrameOK(f)'
<1>1. /\ Top \in Frames /\ Top.done \in Nat /\ Top.copy = Table[Top.obj]
      /\ Top.obj \in Originals /\ heap[Top.obj].type # "string"
      /\ ret = Renamed(Table, heap[Top.obj].body[Top.done + 1])
    BY TopIs
<1>2. Copies' = Copies /\ DOMAIN heap' = DOMAIN heap /\ Table' = Table /\ Grows
    BY StoreIs
<1>3. Frames' = Frames
    BY <1>2 DEF Frames, Values, Store
<1>4. PICK k : k = IF IsKey THEN ret ELSE Nil
    OBVIOUS
<1>5. k \in Values
    <2>1. Top.done + 1 \in 1 .. Top.done + 1
        BY <1>1
    <2>2. ret \in Values
        BY <1>1, <2>1, SlotIsCopied
    <2> QED BY <1>4, <2>2 DEF Values
<1>6. /\ f \in Frames /\ f.obj = Top.obj /\ f.copy = Top.copy
      /\ f.done = Top.done + 1 /\ f.key = k
    <2>1. f = Advanced(Top, k)
        BY <1>4
    <2>2. PICK t \in Frames : t = Top
        BY <1>1
    <2>3. f = [t EXCEPT !.done = t.done + 1, !.key = k]
        BY <2>1, <2>2 DEF Advanced
    <2>4. t.done + 1 \in Nat
        BY DEF Frames
    <2> QED BY ONLY <1>5, <2>2, <2>3, <2>4, t \in Frames DEF Frames
<1>7. heap'[f.obj] = heap[f.obj]
    BY <1>1, <1>2, <1>6 DEF Grows
<1>8. ASSUME heap[f.obj].type = "map", f.done % 2 = 1
      PROVE  f.key = Renamed(Table, heap[f.obj].body[f.done])
    <2>1. Top.done % 2 = 0
        <3>1. PICK d \in Nat : d = Top.done
            BY <1>1
        <3>2. (d + 1) % 2 = 1
            BY <1>6, <1>8, <3>1
        <3>3. d % 2 = 0
            BY ONLY <3>2, d \in Nat
        <3> QED BY <3>1, <3>3
    <2>2. IsKey
        BY <1>6, <1>8, <2>1 DEF IsKey
    <2> QED BY <1>1, <1>4, <1>6, <2>2
<1> QED BY <1>1, <1>2, <1>3, <1>6, <1>7, <1>8 DEF FrameOK

LEMMA StoreKeeps ==
    ASSUME IInv, Store
    PROVE  IInv'
<1>1. PICK l : l = Len(stack)
    OBVIOUS
<1>2. /\ l \in Nat /\ l >= 1 /\ Top = stack[l] /\ stack \in Seq(Frames)
      /\ Top.obj \in DOMAIN Table
    BY <1>1, TopIs, StackIs
<1>3. /\ Copies' = Copies /\ DOMAIN heap' = DOMAIN heap /\ Originals' = Originals
      /\ Table' = Table /\ Grows
      /\ \A o \in DOMAIN Table : o # Top.obj => heap'[Table[o]] = heap[Table[o]]
    BY StoreIs
<1>4. PICK f : f = Advanced(Top, IF IsKey THEN ret ELSE Nil)
    OBVIOUS
<1>5. /\ f \in Frames' /\ f.obj = Top.obj /\ f.done = Top.done + 1
      /\ FrameOK(f)'
    BY <1>4, StoreAdvancesFrame
<1>6. /\ stack' \in Seq(Frames') /\ Len(stack') = l
      /\ stack'[l] = f /\ \A i \in 1 .. l : i # l => stack'[i] = stack[i]
    <2>1. Frames' = Frames
        BY <1>3 DEF Frames, Values, Store
    <2>2. stack' = [stack EXCEPT ![l] = f]
        BY <1>1, <1>2, <1>4 DEF Store
    <2>3. l \in 1 .. Len(stack)
        BY <1>1, <1>2
    <2> QED BY <1>1, <1>2, <1>5, <2>1, <2>2, <2>3, ExceptSeq
<1>7. \A i \in 1 .. l : stack'[i].obj = stack[i].obj
    BY <1>2, <1>5, <1>6
<1>8. TypeOK'
    <2>1. NoReentry'
        BY <1>1, <1>6, <1>7 DEF NoReentry, IInv, TypeOK
    <2>2. heap' \in [DOMAIN heap' -> Objects(DOMAIN heap')]
        BY StoreKeepsHeap
    <2>3. /\ value' \in Values' /\ target' \in Targets /\ copied' \in [DOMAIN copied' -> Copies']
          /\ DOMAIN copied' \subseteq DOMAIN heap' \ Places
          /\ ret' = NoResult /\ result' \in Values' \cup {NoResult}
        BY <1>3 DEF Store, IInv, TypeOK, Values
    <2> QED BY <1>6, <2>1, <2>2, <2>3 DEF TypeOK, Frames
<1>9. CopiesAreOld' /\ HeapOK' /\ TableOK' /\ OnlyReached'
    BY StoreKeepsHeap
<1>10. CopiedUpTo(f.obj, f.done)'
    BY <1>5, StoreAdvances
<1>11. ASSUME NEW i \in 1 .. l, i # l, NEW g, g = stack[i]
       PROVE  FrameOK(g)' /\ CopiedUpTo(g.obj, g.done)' /\ heap'[g.obj] = heap[g.obj]
    <2>1. /\ g \in Frames /\ g.obj \in DOMAIN Table /\ g.done \in Nat /\ g.obj \in Originals
        BY <1>1, <1>11, StackIs
    <2>2. FrameOK(g) /\ CopiedUpTo(g.obj, g.done)
        BY <1>1, <1>11 DEF IInv, CallsOK, CopiesOK
    <2>3. g.obj # Top.obj
        BY <1>1, <1>2, <1>11 DEF IInv, TypeOK, NoReentry
    <2>4. FrameOK(g)'
        BY <1>3, <2>1, <2>2, FrameStays
    <2>5. PICK o \in DOMAIN Table : o = g.obj
        BY <2>1
    <2>6. PICK n \in Nat : n = g.done
        BY <2>1
    <2>7. CopiedUpTo(o, n) /\ heap'[Table[o]] = heap[Table[o]]
        BY <1>3, <2>2, <2>3, <2>5, <2>6
    <2>8. CopiedUpTo(o, n)'
        BY <1>3, <2>7, CopyStays
    <2> QED BY <1>3, <2>1, <2>4, <2>5, <2>6, <2>8 DEF Grows
<1>12. CopiesOK'
    <2>1. ASSUME NEW o \in DOMAIN Table', ~ InProgress(o)'
          PROVE  CopiedUpTo(o, Len(heap[o].body))'
        <3>1. o # Top.obj /\ ~ InProgress(o)
            BY <1>1, <1>2, <1>6, <1>7, <2>1 DEF InProgress
        <3>2. o \in Originals /\ heap'[o] = heap[o] /\ heap'[Table[o]] = heap[Table[o]]
            BY <1>3, <2>1, <3>1 DEF Grows
        <3>3. heap[o].body \in Seq(OldValues)
            BY <3>2, OriginalIs
        <3>4. PICK n \in Nat : n = Len(heap[o].body)
            BY <3>3
        <3>5. CopiedUpTo(o, n)
            BY <1>3, <2>1, <3>1, <3>4 DEF IInv, CopiesOK
        <3>6. CopiedUpTo(o, n)'
            BY <1>3, <2>1, <3>2, <3>5, CopyStays
        <3> QED BY <3>2, <3>4, <3>6
    <2>2. ASSUME NEW i \in 1 .. l
          PROVE  CopiedUpTo(stack[i].obj, stack[i].done)'
        <3>1. CASE i = l
            BY <1>6, <1>10, <3>1 DEF CopiedUpTo
        <3>2. CASE i # l
            <4>1. PICK g : g = stack[i] /\ g = stack'[i]
                BY <1>6, <3>2
            <4>2. CopiedUpTo(g.obj, g.done)'
                BY <1>11, <3>2, <4>1
            <4> QED BY <4>1, <4>2 DEF CopiedUpTo
        <3> QED BY <3>1, <3>2
    <2> QED BY <1>6, <2>1, <2>2 DEF CopiesOK
<1>13. CallsOK'
    <2>1. ASSUME NEW i \in 1 .. l
          PROVE  FrameOK(stack[i])'
        <3>1. CASE i = l
            BY <1>5, <1>6, <3>1 DEF FrameOK
        <3>2. CASE i # l
            <4>1. PICK g : g = stack[i] /\ g = stack'[i]
                BY <1>6, <3>2
            <4>2. FrameOK(g)'
                BY <1>11, <3>2, <4>1
            <4> QED BY <4>1, <4>2 DEF FrameOK
        <3> QED BY <3>1, <3>2
    <2>2. ASSUME NEW i \in 1 .. l, i < l
          PROVE  /\ stack'[i].done < Len(heap'[stack'[i].obj].body)
                 /\ stack'[i + 1].obj = At(i)'
        <3>1. i # l /\ i + 1 \in 1 .. l
            BY <1>2, <2>2
        <3>2. /\ stack[i].done < Len(heap[stack[i].obj].body)
              /\ stack[i + 1].obj = At(i)
            BY <1>1, <2>2 DEF IInv, CallsOK
        <3>3. PICK g : g = stack[i] /\ g = stack'[i]
            BY <1>6, <3>1
        <3>4. heap'[g.obj] = heap[g.obj]
            BY <1>11, <3>1, <3>3
        <3> QED BY <1>7, <3>1, <3>2, <3>3, <3>4 DEF At
    <2>3. stack'[1].obj = value'
        <3>1. 1 \in 1 .. l /\ stack # <<>>
            BY <1>2 DEF Store
        <3> QED BY <1>7, <3>1 DEF IInv, CallsOK, Store
    <2>4. stack' # <<>>
        BY <1>2, <1>6
    <2>5. ret' = NoResult /\ result' = NoResult
        BY DEF Store, IInv, CallsOK
    <2> QED BY <1>6, <2>1, <2>2, <2>3, <2>4, <2>5 DEF CallsOK
<1> QED BY <1>8, <1>9, <1>12, <1>13 DEF IInv

-----------------------------------------------------------------------------
LEMMA InitIsCorrect == Init => IInv
<1> SUFFICES ASSUME Init
             PROVE  IInv
    OBVIOUS
<1>1. IsGraph(heap)
    BY DeepCopyAssumption DEF Init
<1>2. /\ DOMAIN heap \cap Places = {} /\ heap \in [DOMAIN heap -> Objects(DOMAIN heap)]
      /\ Copies = {} /\ Originals = DOMAIN heap
    BY <1>1 DEF IsGraph, Copies, Originals
<1>3. /\ \A v \in DOMAIN heap \cup Places : v \notin Immediate \cup {Nil, Tombstone, Garbage, NoResult}
      /\ target \in Targets /\ target \in Int
    BY DeepCopyAssumption DEF Init
<1>4. Table = copied /\ copied = <<>> /\ DOMAIN copied = {} /\ stack = <<>> /\ Len(stack) = 0
    BY DEF Init, Table
<1>5. TypeOK
    <2>1. copied \in [DOMAIN copied -> Copies]
        BY <1>4
    <2>2. stack \in Seq([obj : DOMAIN copied, copy : Copies, done : Nat, key : Values])
        BY <1>4
    <2>3. NoReentry
        BY <1>4 DEF NoReentry
    <2>4. value \in Values /\ ret = NoResult /\ result = NoResult
        BY DEF Init, Values
    <2> QED BY <1>2, <1>3, <1>4, <2>1, <2>2, <2>3, <2>4 DEF TypeOK
<1>6. CopiesAreOld
    BY <1>2 DEF CopiesAreOld
<1>7. HeapOK
    <2>1. [o \in Originals |-> heap[o]] = heap
        BY <1>2
    <2>2. value \in Originals \cup Immediate
        BY <1>2 DEF Init
    <2> QED BY <1>1, <1>2, <1>3, <2>1, <2>2 DEF HeapOK
<1>8. TableOK
    BY <1>2, <1>4 DEF TableOK
<1>9. CopiesOK
    BY <1>4 DEF CopiesOK
<1>10. CallsOK
    BY <1>4 DEF CallsOK, Init
<1>11. OnlyReached
    BY <1>4 DEF OnlyReached
<1> QED BY <1>5, <1>6, <1>7, <1>8, <1>9, <1>10, <1>11 DEF IInv

LEMMA SameKeeps ==
    ASSUME IInv, UNCHANGED vars
    PROVE  IInv'
<1>1. Table' = Table
    BY DEF vars, Table, MustMove
<1>2. TypeOK'
    BY DEF vars, IInv, TypeOK, NoReentry, Copies, Values
<1>3. CopiesAreOld' /\ HeapOK' /\ TableOK'
    BY <1>1 DEF vars, IInv, CopiesAreOld, HeapOK, TableOK, Copies, Originals, MustMove
<1>4. CopiesOK' <=> CopiesOK
    BY DEF vars, CopiesOK, InProgress, CopiedUpTo, Met, MustMove, EntriesUpTo, RenamedEntries, Table
<1>5. CallsOK'
    BY <1>1 DEF vars, IInv, CallsOK, FrameOK, At, Met, MustMove
<1>6. OnlyReached'
    BY <1>1 DEF vars, IInv, OnlyReached, Young, Closed, Originals, MustMove
<1> QED BY <1>2, <1>3, <1>4, <1>5, <1>6 DEF IInv

(* What mara_deep_copy has done at each step: every copy stands for one      *)
(* object that had to move and that the value reaches, refers to copies for  *)
(* the originals of its slots so far and to nothing young, and waits only    *)
(* for the calls above it.                                                   *)
THEOREM Invariant == Spec => []IInv
<1>1. Init => IInv
    BY InitIsCorrect
<1>2. IInv /\ [Next]_vars => IInv'
    <2> SUFFICES ASSUME IInv, [Next]_vars
                 PROVE  IInv'
        OBVIOUS
    <2>1. CASE Start
        BY <2>1, StartKeeps
    <2>2. CASE Descend
        BY <2>2, DescendKeeps
    <2>3. CASE Store
        BY <2>3, StoreKeeps
    <2>4. CASE Return
        BY <2>4, ReturnKeeps
    <2>5. CASE Finish
        BY <2>5, FinishKeeps
    <2>6. CASE UNCHANGED vars
        BY <2>6, SameKeeps
    <2> QED BY <2>1, <2>2, <2>3, <2>4, <2>5, <2>6 DEF Next
<1> QED BY <1>1, <1>2, PTL DEF Spec

(* Every variable of mara_deep_copy has its type, and the recursion never    *)
(* enters an object again that it is in the middle of.                       *)
THEOREM TypeCorrect == Spec => []TypeOK
<1>1. IInv => TypeOK
    BY DEF IInv
<1> QED BY <1>1, Invariant, PTL

(* Nothing that mara_copy has written refers to an object that is younger    *)
(* than the zone that it copies to.                                          *)
THEOREM CopiesOld == Spec => []CopiesAreOld
<1>1. IInv => CopiesAreOld
    BY DEF IInv
<1> QED BY <1>1, Invariant, PTL

-----------------------------------------------------------------------------
(* Until mara_copy returns, the originals are as they were.                  *)
LEMMA NotSeen ==
    ASSUME IInv, Start \/ Descend \/ Store \/ Return
    PROVE  /\ result = NoResult /\ result' = NoResult
           /\ UNCHANGED <<value, target>>
           /\ Originals' = Originals
           /\ \A o \in Originals : heap'[o] = heap[o]
<1>1. result = NoResult
    BY DEF Start, Descend, Store, Return, IInv, CallsOK
<1>2. UNCHANGED <<value, target, result>>
    BY DEF Start, Descend, Store, Return
<1>3. ASSUME NEW v, ~ Places \subseteq DOMAIN heap, heap' = Extended(heap, NewPlace, Begun(v))
      PROVE  Originals' = Originals /\ \A o \in Originals : heap'[o] = heap[o]
    <2>1. \E a \in Places : a \notin DOMAIN heap
        BY <1>3
    <2>2. NewPlace \in Places
        BY <2>1 DEF NewPlace
    <2>3. DOMAIN heap' = DOMAIN heap \cup {NewPlace} /\ \A a \in DOMAIN heap : a # NewPlace => heap'[a] = heap[a]
        BY <1>3 DEF Extended
    <2> QED BY <2>2, <2>3 DEF Originals
<1>4. ASSUME UNCHANGED heap
      PROVE  Originals' = Originals /\ \A o \in Originals : heap'[o] = heap[o]
    BY <1>4 DEF Originals
<1>5. ASSUME NEW v, Visit(v)
      PROVE  Originals' = Originals /\ \A o \in Originals : heap'[o] = heap[o]
    BY <1>3, <1>4, <1>5 DEF Visit
<1>6. CASE Start
    BY <1>1, <1>2, <1>3, <1>5, <1>6 DEF Start
<1>7. CASE Descend
    BY <1>1, <1>2, <1>5, <1>7 DEF Descend
<1>8. CASE Store
    <2>1. Grows
        BY <1>8, StoreIs
    <2> QED BY <1>1, <1>2, <2>1 DEF Grows
<1>9. CASE Return
    BY <1>1, <1>2, <1>4, <1>9 DEF Return
<1> QED BY <1>6, <1>7, <1>8, <1>9

(* What AbstractCopy sees when the copy is done.                             *)
LEMMA SeenIs ==
    ASSUME IInv, Finish
    PROVE  /\ Seen = Originals /\ Seen' = DOMAIN heap
           /\ DOMAIN heap = Originals \cup Copies
           /\ UNCHANGED <<heap, value, target>>
           /\ Table' = Table
           /\ result = NoResult /\ result' = ret /\ ret = Renamed(Table, value)
           /\ Met(value)
           /\ \A o \in DOMAIN Table : CopiedUpTo(o, Len(heap[o].body))
<1>1. UNCHANGED <<heap, value, target>> /\ result = NoResult /\ result' = ret /\ ret # NoResult /\ stack = <<>>
    BY DEF Finish
<1>2. ret = Renamed(Table, value) /\ Met(value)
    BY <1>1 DEF IInv, CallsOK
<1>3. \A o \in DOMAIN Table : ~ InProgress(o)
    BY <1>1 DEF InProgress
<1>4. \A o \in DOMAIN Table : CopiedUpTo(o, Len(heap[o].body))
    BY <1>3 DEF IInv, CopiesOK
<1>5. Table' = Table
    BY DEF Finish, Table, MustMove
<1> QED BY <1>1, <1>2, <1>4, <1>5 DEF Seen, Originals, Copies

(* The slots of an object, as AbstractCopy sees them.                        *)
LEMMA SlotsAre ==
    ASSUME IInv, NEW o \in Originals, NEW v
    PROVE  /\ (\E j \in 1 .. Len(heap[o].body) : heap[o].body[j] = v) /\ MustMove(v) =>
                IF heap[o].type = "map"
                THEN \E e \in Contents(heap[o]).body : v \in {e[1], e[2]}
                ELSE \E j \in DOMAIN Contents(heap[o]).body : v = Contents(heap[o]).body[j]
           /\ (IF heap[o].type = "map"
               THEN \E e \in Contents(heap[o]).body : v \in {e[1], e[2]}
               ELSE \E j \in DOMAIN Contents(heap[o]).body : v = Contents(heap[o]).body[j]) =>
                \E j \in 1 .. Len(heap[o].body) : heap[o].body[j] = v
<1> DEFINE body == heap[o].body
<1>1. body \in Seq(OldValues) /\ DOMAIN body = 1 .. Len(body) /\ Len(body) \in Nat
    <2>1. body \in Seq(OldValues)
        BY OriginalIs
    <2> QED BY <2>1
<1>2. CASE heap[o].type # "map"
    BY <1>1, <1>2 DEF Contents
<1>3. CASE heap[o].type = "map"
    <2>1. Contents(heap[o]).body =
            {<<Key(body, n), Value(body, n)>> : n \in {m \in Nodes(body) : Key(body, m) # Tombstone}}
        BY <1>3 DEF Contents
    <2>2. ASSUME NEW j \in 1 .. Len(body), body[j] = v, MustMove(v)
          PROVE  \E e \in Contents(heap[o]).body : v \in {e[1], e[2]}
        <3>1. PICK l \in Nat : l = Len(body) /\ l % 2 = 0
            BY <1>1, <1>3, OriginalIs
        <3>2. PICK n \in 1 .. l \div 2 : j = 2 * n - 1 \/ j = 2 * n
            <4>1. j \in 1 .. l
                BY <3>1
            <4> QED BY ONLY <3>1, <4>1, NodeOfSlot
        <3>3. n \in Nodes(body)
            BY <3>1 DEF Nodes
        <3>4. v = Key(body, n) \/ v = Value(body, n)
            BY <2>2, <3>2 DEF Key, Value
        <3>5. v # Nil /\ v # Tombstone
            BY <2>2, HeapIs DEF MustMove, Others
        <3>6. Key(body, n) = Tombstone <=> Value(body, n) = Nil
            BY <1>3, <3>3, OriginalIs
        <3>7. Key(body, n) # Tombstone
            BY <3>4, <3>5, <3>6
        <3>8. <<Key(body, n), Value(body, n)>> \in Contents(heap[o]).body
            BY <2>1, <3>3, <3>7
        <3> QED BY <3>4, <3>8
    <2>3. ASSUME NEW e \in Contents(heap[o]).body, v \in {e[1], e[2]}
          PROVE  \E j \in 1 .. Len(body) : body[j] = v
        <3>1. PICK n \in Nodes(body) : e = <<Key(body, n), Value(body, n)>>
            BY <2>1
        <3>2. 2 * n - 1 \in 1 .. Len(body) /\ 2 * n \in 1 .. Len(body)
            <4>1. n \in 1 .. Len(body) \div 2
                BY DEF Nodes
            <4> QED BY ONLY <1>1, <4>1, TwoSlots
        <3>3. v = body[2 * n - 1] \/ v = body[2 * n]
            BY <2>3, <3>1 DEF Key, Value
        <3> QED BY <3>2, <3>3
    <2> QED BY <1>3, <2>2, <2>3
<1> QED BY <1>2, <1>3

(* The heap that AbstractCopy sees before mara_copy returns.                 *)
Before == [a \in Seen |-> Contents(heap[a])]

LEMMA AbstractIs ==
    ASSUME IInv, Finish
    PROVE  /\ Abstract!Younger = Young
           /\ \A v \in OldValues : Abstract!MustMove(v) <=> MustMove(v)
           /\ \A o \in Originals : Before[o] = Contents(heap[o])
           /\ DOMAIN Before = Originals
<1>1. Seen = Originals
    BY SeenIs
<1>2. \A o \in Originals : Contents(heap[o]).level = heap[o].level
    BY DEF Contents
<1>3. \A v \in OldValues : v \in DOMAIN heap <=> v \in Originals
    BY HeapIs DEF OldValues, Originals
<1>4. Abstract!Younger = Young
    BY <1>1, <1>2 DEF Abstract!Younger, Young
<1>5. \A v \in OldValues : Abstract!MustMove(v) <=> MustMove(v)
    BY <1>1, <1>2, <1>3 DEF Abstract!MustMove, MustMove
<1> QED BY <1>1, <1>4, <1>5 DEF Before

LEMMA ReachedIs ==
    ASSUME IInv, Finish
    PROVE  Abstract!Reached = DOMAIN Table
<1> DEFINE AbstractlyClosed(S) ==
               /\ Abstract!MustMove(value) => value \in S
               /\ \A o \in S : {v \in Abstract!Slots(o) : Abstract!MustMove(v)} \subseteq S
<1>1. /\ Abstract!Younger = Young
      /\ \A v \in OldValues : Abstract!MustMove(v) <=> MustMove(v)
      /\ Seen = Originals
    BY AbstractIs, SeenIs
<1>2. value \in OldValues
    BY DEF IInv, HeapOK, OldValues, Others
<1>3. \A o \in Originals : Contents(heap[o]).type = heap[o].type
    BY DEF Contents
<1>4. ASSUME NEW o \in Originals, NEW v
      PROVE  v \in Abstract!Slots(o) <=>
                IF heap[o].type = "map"
                THEN \E e \in Contents(heap[o]).body : v \in {e[1], e[2]}
                ELSE \E j \in DOMAIN Contents(heap[o]).body : v = Contents(heap[o]).body[j]
    BY <1>1, <1>3 DEF Abstract!Slots
<1>5. ASSUME NEW o \in Originals, NEW j \in 1 .. Len(heap[o].body)
      PROVE  heap[o].body[j] \in OldValues
    <2>1. heap[o].body \in Seq(OldValues)
        BY OriginalIs
    <2> QED BY <2>1
<1>6. ASSUME NEW S \in SUBSET Young, AbstractlyClosed(S)
      PROVE  DOMAIN Table \subseteq S
    <2>1. ASSUME NEW o \in S, NEW j \in 1 .. Len(heap[o].body), MustMove(heap[o].body[j])
          PROVE  heap[o].body[j] \in S
        <3>1. o \in Originals
            BY DEF Young
        <3>2. PICK v \in OldValues : v = heap[o].body[j]
            BY <1>5, <3>1
        <3>3. v \in Abstract!Slots(o)
            <4>1. (\E i \in 1 .. Len(heap[o].body) : heap[o].body[i] = v) /\ MustMove(v)
                BY <2>1, <3>2
            <4>2. IF heap[o].type = "map"
                  THEN \E e \in Contents(heap[o]).body : v \in {e[1], e[2]}
                  ELSE \E i \in DOMAIN Contents(heap[o]).body : v = Contents(heap[o]).body[i]
                BY <3>1, <4>1, SlotsAre
            <4> QED BY <1>4, <3>1, <4>2
        <3>4. Abstract!MustMove(v)
            BY <1>1, <2>1, <3>2
        <3> QED BY <1>6, <3>2, <3>3, <3>4
    <2>2. MustMove(value) => value \in S
        BY <1>1, <1>2, <1>6
    <2>3. Closed(S)
        BY <2>1, <2>2 DEF Closed
    <2> QED BY <2>3 DEF IInv, OnlyReached
<1>7. AbstractlyClosed(DOMAIN Table) /\ DOMAIN Table \in SUBSET Young
    <2>1. Abstract!MustMove(value) => value \in DOMAIN Table
        BY <1>1, <1>2, SeenIs DEF Met
    <2>2. ASSUME NEW o \in DOMAIN Table, NEW v \in Abstract!Slots(o), Abstract!MustMove(v)
          PROVE  v \in DOMAIN Table
        <3>1. o \in Originals
            BY DEF IInv, TableOK
        <3>2. PICK j \in 1 .. Len(heap[o].body) : heap[o].body[j] = v
            BY <1>4, <3>1, SlotsAre
        <3>3. v \in OldValues
            BY <1>5, <3>1, <3>2
        <3>4. CopiedUpTo(o, Len(heap[o].body))
            BY SeenIs
        <3>5. Met(v)
            BY <3>2, <3>4 DEF CopiedUpTo
        <3> QED BY <1>1, <2>2, <3>3, <3>5 DEF Met
    <2>3. DOMAIN Table \subseteq Young
        BY DEF IInv, TableOK, Young, MustMove
    <2> QED BY <2>1, <2>2, <2>3
<1>8. Abstract!Reached = {o \in Young : \A S \in SUBSET Young : AbstractlyClosed(S) => o \in S}
    BY <1>1 DEF Abstract!Reached
<1> HIDE DEF AbstractlyClosed
<1> QED BY <1>6, <1>7, <1>8

LEMMA CopyIsAbstract ==
    ASSUME IInv, Finish, NEW o \in DOMAIN Table
    PROVE  Contents(heap[Table[o]]) = Abstract!CopyOf(Table, o)
<1> DEFINE old == heap[o].body
           new == heap[Table[o]].body
<1>1. /\ o \in Originals /\ Seen = Originals /\ CopiedUpTo(o, Len(old))
      /\ Table[o] \in Copies /\ heap[Table[o]].type = heap[o].type
      /\ heap[Table[o]].level = target
    BY SeenIs DEF IInv, TableOK, CopiesAreOld
<1>2. \A v : Abstract!Renamed(Table, v) = Renamed(Table, v)
    BY DEF Abstract!Renamed, Renamed
<1>3. old \in Seq(OldValues) /\ new \in Seq(Values)
    <2>1. old \in Seq(OldValues)
        BY <1>1, OriginalIs
    <2> QED BY <1>1, <2>1, HeapIs DEF Copies
<1>4. CASE heap[o].type = "map"
    <2>1. Contents(heap[Table[o]]).body = EntriesUpTo(new, Len(new) \div 2)
        BY <1>1, <1>4 DEF Contents, EntriesUpTo, Nodes
    <2>2. EntriesUpTo(new, Len(new) \div 2) = RenamedEntries(old, Len(old) \div 2)
        BY <1>1, <1>4 DEF CopiedUpTo
    <2>3. Contents(heap[o]).body =
            {<<Key(old, n), Value(old, n)>> : n \in {m \in 1 .. Len(old) \div 2 : Key(old, m) # Tombstone}}
        BY <1>4 DEF Contents, Nodes
    <2>4. RenamedEntries(old, Len(old) \div 2) =
            {<<Renamed(Table, e[1]), Renamed(Table, e[2])>> : e \in Contents(heap[o]).body}
        <3> DEFINE Live == {m \in 1 .. Len(old) \div 2 : Key(old, m) # Tombstone}
        <3>1. ASSUME NEW n \in Live
              PROVE  <<Renamed(Table, Key(old, n)), Renamed(Table, Value(old, n))>> \in
                     {<<Renamed(Table, e[1]), Renamed(Table, e[2])>> : e \in Contents(heap[o]).body}
            <4>1. PICK e \in Contents(heap[o]).body : e = <<Key(old, n), Value(old, n)>>
                BY <2>3
            <4>2. e[1] = Key(old, n) /\ e[2] = Value(old, n)
                BY <4>1
            <4> QED BY <4>2
        <3>2. ASSUME NEW e \in Contents(heap[o]).body
              PROVE  \E n \in Live : <<Renamed(Table, e[1]), Renamed(Table, e[2])>> =
                                    <<Renamed(Table, Key(old, n)), Renamed(Table, Value(old, n))>>
            <4>1. PICK n \in Live : e = <<Key(old, n), Value(old, n)>>
                BY <2>3
            <4>2. e[1] = Key(old, n) /\ e[2] = Value(old, n)
                BY <4>1
            <4> QED BY <4>2
        <3>3. RenamedEntries(old, Len(old) \div 2) =
              {<<Renamed(Table, Key(old, n)), Renamed(Table, Value(old, n))>> : n \in Live}
            BY DEF RenamedEntries
        <3> HIDE DEF Live, old
        <3> QED BY <3>1, <3>2, <3>3
    <2>5. Abstract!CopyOf(Table, o) =
            [type |-> heap[o].type, level |-> target,
             body |-> {<<Renamed(Table, e[1]), Renamed(Table, e[2])>> : e \in Contents(heap[o]).body}]
        BY <1>1, <1>2, <1>4 DEF Abstract!CopyOf, Contents
    <2>6. Contents(heap[Table[o]]) =
            [type |-> heap[o].type, level |-> target, body |-> Contents(heap[Table[o]]).body]
        BY <1>1 DEF Contents
    <2> QED BY <2>1, <2>2, <2>4, <2>5, <2>6
<1>5. CASE heap[o].type # "map"
    <2>1. Len(new) = Len(old) /\ \A j \in 1 .. Len(old) : new[j] = Renamed(Table, old[j])
        BY <1>1, <1>5 DEF CopiedUpTo
    <2>2. new = [i \in DOMAIN old |-> Renamed(Table, old[i])]
        <3>1. DOMAIN old = 1 .. Len(old) /\ new = [i \in 1 .. Len(old) |-> new[i]]
            BY <1>3, <2>1
        <3> QED BY <2>1, <3>1
    <2>3. Contents(heap[o]).body = old /\ Contents(heap[Table[o]]).body = new
        BY <1>1, <1>5 DEF Contents
    <2>4. Abstract!CopyOf(Table, o) =
            [type |-> heap[o].type, level |-> target, body |-> [i \in DOMAIN old |-> Renamed(Table, old[i])]]
        BY <1>1, <1>2, <1>5, <2>3 DEF Abstract!CopyOf, Contents
    <2>5. Contents(heap[Table[o]]) =
            [type |-> heap[o].type, level |-> target, body |-> Contents(heap[Table[o]]).body]
        BY <1>1 DEF Contents
    <2> QED BY <2>2, <2>3, <2>4, <2>5
<1> QED BY <1>4, <1>5

LEMMA FinishIsCopy ==
    ASSUME IInv, Finish
    PROVE  Abstract!Copy
<1>1. /\ Seen = Originals /\ Seen' = DOMAIN heap /\ DOMAIN heap = Originals \cup Copies
      /\ UNCHANGED <<heap, value, target>>
      /\ result = NoResult /\ result' = Renamed(Table, value)
    BY SeenIs
<1>2. Abstract!Reached = DOMAIN Table
    BY ReachedIs
<1>3. DOMAIN Before = Originals /\ \A o \in Originals : Before[o] = Contents(heap[o])
    BY AbstractIs
<1>4. Originals \cap Copies = {} /\ Copies \subseteq Places /\ Originals \cap Places = {}
    BY DEF Originals, Copies
<1>5. Table \in [DOMAIN Table -> Places \ DOMAIN Before]
    <2>1. Table = [o \in DOMAIN Table |-> Table[o]]
        BY DEF Table, IInv, TypeOK
    <2>2. \A o \in DOMAIN Table : Table[o] \in Places \ DOMAIN Before
        BY <1>3, <1>4 DEF IInv, TableOK
    <2> QED BY <2>1, <2>2
<1>6. Abstract!IsInjective(Table)
    BY DEF IInv, TableOK, Abstract!IsInjective
<1>7. Abstract!Range(Table) = Copies
    BY DEF IInv, TableOK, Abstract!Range
<1>8. [a \in Seen |-> Contents(heap[a])]' =
      [a \in DOMAIN Before \cup Copies |->
         IF a \in DOMAIN Before THEN Before[a]
         ELSE Abstract!CopyOf(Table, CHOOSE o \in DOMAIN Table : Table[o] = a)]
    <2>1. [a \in Seen |-> Contents(heap[a])]' = [a \in DOMAIN heap |-> Contents(heap[a])]
        BY <1>1 DEF Contents
    <2>2. ASSUME NEW a \in Copies
          PROVE  Contents(heap[a]) = Abstract!CopyOf(Table, CHOOSE o \in DOMAIN Table : Table[o] = a)
        <3>1. \E o \in DOMAIN Table : Table[o] = a
            BY DEF IInv, TableOK
        <3>2. PICK o \in DOMAIN Table : o = CHOOSE x \in DOMAIN Table : Table[x] = a
            BY <3>1
        <3>3. Table[o] = a
            BY <3>1, <3>2
        <3>4. Contents(heap[Table[o]]) = Abstract!CopyOf(Table, o)
            BY CopyIsAbstract
        <3> QED BY <3>2, <3>3, <3>4
    <2> QED BY <1>1, <1>3, <1>4, <2>1, <2>2
<1>9. result' = Abstract!Renamed(Table, value)
    BY <1>1 DEF Abstract!Renamed, Renamed
<1> QED BY <1>1, <1>2, <1>5, <1>6, <1>7, <1>8, <1>9 DEF Abstract!Copy, Before

(* mara_copy does what AbstractCopy says: all of the copying is its one      *)
(* step, taken when mara_copy returns, for the renaming that the table is.   *)
THEOREM Refinement == Spec => AbstractSpec
<1>1. Init => Abstract!Init
    BY DEF Init, Abstract!Init
<1>2. IInv /\ [Next]_vars => [Abstract!Copy]_(Abstract!vars)
    <2> SUFFICES ASSUME IInv, [Next]_vars
                 PROVE  [Abstract!Copy]_(Abstract!vars)
        OBVIOUS
    <2>1. CASE Start \/ Descend \/ Store \/ Return
        <3>1. /\ result = NoResult /\ result' = NoResult
              /\ UNCHANGED <<value, target>>
              /\ Originals' = Originals
              /\ \A o \in Originals : heap'[o] = heap[o]
            BY <2>1, NotSeen
        <3>2. Seen = Originals /\ Seen' = Originals
            BY <3>1 DEF Seen, Originals
        <3>3. [a \in Seen |-> Contents(heap[a])]' = [a \in Seen |-> Contents(heap[a])]
            <4>1. [a \in Seen |-> Contents(heap[a])]' = [a \in Originals |-> Contents(heap'[a])]
                BY <3>2 DEF Contents
            <4>2. [a \in Originals |-> Contents(heap'[a])] = [a \in Originals |-> Contents(heap[a])]
                BY <3>1
            <4> QED BY <3>2, <4>1, <4>2
        <3> QED BY <3>1, <3>3 DEF Abstract!vars
    <2>2. CASE Finish
        BY <2>2, FinishIsCopy
    <2>3. CASE UNCHANGED vars
        BY <2>3 DEF vars, Abstract!vars, Seen, Contents
    <2> QED BY <2>1, <2>2, <2>3 DEF Next
<1> QED BY <1>1, <1>2, Invariant, PTL DEF Spec, AbstractSpec, Abstract!Spec
=============================================================================
