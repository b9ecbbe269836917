--------------------------- MODULE MaraListProofs ---------------------------
(***************************************************************************)
(* Proofs about MaraList, for all values, capacities and positions and every *)
(* length: the properties of its run, and that it implements AbstractList.   *)
(***************************************************************************)
EXTENDS MaraList, SequenceTheorems, TLAPS

Any == Values \cup {Nil, Garbage}

IInv == TypeOK /\ BlockFreedOnce /\ ForeachReadsWritten

USE ListAssumption DEF Slots, Any

-----------------------------------------------------------------------------
(* What IInv says of numbers: the elements fit, and so does what an          *)
(* iteration still has to read.                                              *)
LEMMA Bounds ==
    ASSUME IInv
    PROVE  /\ capacity \in Int /\ len \in Nat /\ len <= MaxLen
           /\ itr.i \in Nat /\ itr.len \in Nat
           /\ elems \in [Slots(capacity) -> Any]
           /\ len > 0 => len <= capacity
           /\ itr.i < itr.len => itr.len <= capacity
           /\ \A s \in Slots(len) : s \in Slots(capacity) /\ elems[s] \in Values \cup {Nil}
           /\ \A s \in itr.i .. itr.len - 1 : s \in Slots(capacity) /\ elems[s] # Garbage
<1>1. /\ capacity \in Int /\ len \in Nat /\ len <= MaxLen
      /\ itr.i \in Nat /\ itr.len \in Nat
      /\ elems \in [Slots(capacity) -> Any]
    BY DEF IInv, TypeOK
<1>2. \A s \in Slots(len) : s \in Slots(capacity) /\ elems[s] \in Values \cup {Nil}
    BY <1>1 DEF IInv, TypeOK
<1>3. \A s \in itr.i .. itr.len - 1 : s \in Slots(capacity) /\ elems[s] # Garbage
    BY <1>1 DEF IInv, ForeachReadsWritten
<1>4. ASSUME len > 0 PROVE len <= capacity
    <2>1. len - 1 \in Slots(len)
        BY <1>1, <1>4
    <2> QED BY <1>1, <1>2, <2>1
<1>5. ASSUME itr.i < itr.len PROVE itr.len <= capacity
    <2>1. itr.len - 1 \in itr.i .. itr.len - 1
        BY <1>1, <1>5
    <2> QED BY <1>1, <1>3, <2>1
<1> QED BY <1>1, <1>2, <1>3, <1>4, <1>5

(* mara_list_reserve keeps the elements.                                     *)
LEMMA ReservedKeeps ==
    ASSUME IInv, NEW c \in Int, c >= capacity
    PROVE  /\ Reserved(c) \in [Slots(c) -> Any]
           /\ \A s \in Slots(len) : s \in Slots(c) /\ Reserved(c)[s] = elems[s]
<1>1. \A s \in Slots(len) : s \in Slots(capacity) /\ s \in Slots(c)
    BY Bounds
<1>2. \A s \in Slots(c) : s < len \/ s < capacity => s \in Slots(capacity)
    BY <1>1, Bounds
<1>3. \A s \in Slots(capacity) : elems[s] \in Any
    BY Bounds
<1> QED BY <1>1, <1>2, <1>3, Bounds DEF Reserved

(* mara_list_resize keeps the elements, adds nil, and leaves nothing that an *)
(* iteration will read unwritten.                                            *)
LEMMA ResizedKeeps ==
    ASSUME IInv, NEW n \in Nat,
           NEW c, c = IF n <= capacity THEN capacity ELSE n
    PROVE  /\ ResizedArray(n) \in [Slots(c) -> Any]
           /\ \A s \in Slots(n) : /\ s \in Slots(c)
                                  /\ ResizedArray(n)[s] = IF s < len THEN elems[s] ELSE Nil
           /\ \A s \in itr.i .. itr.len - 1 : s \in Slots(c) /\ ResizedArray(n)[s] # Garbage
<1> DEFINE array == IF n <= capacity THEN elems ELSE Reserved(n)
<1>1. c \in Int /\ c >= capacity /\ n <= c
    BY Bounds
<1>2. /\ array \in [Slots(c) -> Any]
      /\ \A s \in Slots(len) : s \in Slots(c) /\ array[s] = elems[s]
    <2>1. CASE n <= capacity
        BY <2>1, Bounds
    <2>2. CASE ~ n <= capacity
        <3>1. c = n
            BY <2>2
        <3> QED BY <1>1, <2>2, <3>1, ReservedKeeps
    <2> QED BY <2>1, <2>2
<1>3. ResizedArray(n) = [s \in Slots(c) |-> IF len <= s /\ s < n THEN Nil ELSE array[s]]
    BY <1>2 DEF ResizedArray
<1> HIDE DEF array
<1>4. ResizedArray(n) \in [Slots(c) -> Any]
    BY <1>2, <1>3
<1>5. ASSUME NEW s \in Slots(n)
      PROVE  s \in Slots(c) /\ ResizedArray(n)[s] = IF s < len THEN elems[s] ELSE Nil
    <2>1. s \in Slots(c) /\ s \in Nat /\ s < n
        BY <1>1
    <2>2. CASE s < len
        <3>1. s \in Slots(len)
            BY <2>1, <2>2, Bounds
        <3> QED BY <1>2, <1>3, <2>1, <2>2, <3>1, Bounds
    <2>3. CASE ~ s < len
        BY <1>3, <2>1, <2>3, Bounds
    <2> QED BY <2>2, <2>3
<1>6. ASSUME NEW s \in itr.i .. itr.len - 1
      PROVE  s \in Slots(c) /\ ResizedArray(n)[s] # Garbage
    <2>1. s \in Slots(capacity) /\ elems[s] # Garbage /\ s \in Nat
        BY Bounds
    <2>2. s \in Slots(c)
        BY <1>1, <2>1, Bounds
    <2>3. CASE s < len
        <3>1. s \in Slots(len)
            BY <2>1, <2>3, Bounds
        <3> QED BY <1>2, <1>3, <2>1, <2>2, <2>3, <3>1, Bounds
    <2>4. CASE ~ s < len /\ s < n
        BY <1>3, <2>2, <2>4, Bounds
    <2>5. CASE ~ s < n
        <3>1. n <= capacity
            BY <2>1, <2>5, Bounds
        <3> QED BY <1>3, <2>1, <2>2, <2>5, <3>1 DEF array
    <2> QED BY <2>3, <2>4, <2>5
<1> QED BY <1>4, <1>5, <1>6

(* A step that leaves a good array, block and finalizer.                     *)
LEMMA Kept ==
    ASSUME IInv, Keep \/ Grow(capacity'), capacity' \in Int,
           elems' \in [Slots(capacity') -> Any],
           len' \in 0 .. MaxLen,
           \A s \in Slots(len') : s \in Slots(capacity') /\ elems'[s] # Garbage,
           \A s \in itr.i .. itr.len - 1 : s \in Slots(capacity') /\ elems'[s] # Garbage,
           result' \in Values \cup {Nil} \cup Nat, itr' = itr
    PROVE  IInv'
<1>1. /\ in_zone' \in BOOLEAN /\ blocks' \in Nat /\ finalizers' \in Nat
      /\ BlockFreedOnce'
    <2>1. /\ in_zone \in BOOLEAN /\ finalizers = blocks
          /\ in_zone => blocks = 0
          /\ ~ in_zone => blocks = 1
        BY DEF IInv, TypeOK, BlockFreedOnce
    <2>2. CASE Keep
        BY <2>1, <2>2 DEF Keep, BlockFreedOnce
    <2>3. CASE Grow(capacity') /\ in_zone
        <3>1. in_zone' = FALSE /\ blocks' = 1 /\ finalizers' = 1
            BY <2>1, <2>3 DEF Grow
        <3> QED BY <3>1 DEF BlockFreedOnce
    <2>4. CASE Grow(capacity') /\ ~ in_zone
        <3>1. in_zone' = FALSE /\ blocks' = 1 /\ finalizers' = 1
            BY <2>1, <2>4 DEF Grow
        <3> QED BY <3>1 DEF BlockFreedOnce
    <2> QED BY <2>2, <2>3, <2>4
<1>2. DOMAIN elems' = Slots(capacity')
    OBVIOUS
<1>3. TypeOK'
    BY <1>1, <1>2 DEF IInv, TypeOK
<1>4. ForeachReadsWritten'
    BY <1>2 DEF ForeachReadsWritten
<1> QED BY <1>1, <1>3, <1>4 DEF IInv

-----------------------------------------------------------------------------
(* What mara_list_resize and mara_list_set do to a list that gets longer.    *)
LEMMA ResizesKeep ==
    ASSUME IInv, NEW n \in Nat, n <= MaxLen, ResizedWithin(n),
           len' = n, itr' = itr, result' \in Values \cup {Nil} \cup Nat,
           \/ elems' = ResizedArray(n)
           \/ \E j \in Slots(n), v \in Values \cup {Nil} : elems' = [ResizedArray(n) EXCEPT ![j] = v]
    PROVE  IInv'
<1> DEFINE a == ResizedArray(n)
           c == IF n <= capacity THEN capacity ELSE n
<1>1. c \in Int /\ capacity' = c /\ (Keep \/ Grow(capacity'))
    BY Bounds DEF ResizedWithin, Keep, Grow
<1>2. /\ a \in [Slots(c) -> Any]
      /\ \A s \in Slots(n) : s \in Slots(c) /\ a[s] = IF s < len THEN elems[s] ELSE Nil
      /\ \A s \in itr.i .. itr.len - 1 : s \in Slots(c) /\ a[s] # Garbage
    BY ResizedKeeps
<1>3. \A s \in Slots(n) : s \in Slots(c) /\ a[s] # Garbage
    <2> SUFFICES ASSUME NEW s \in Slots(n) PROVE a[s] # Garbage
        BY <1>2
    <2>1. s < len => s \in Slots(len)
        BY Bounds
    <2> QED BY <1>2, <2>1, Bounds
<1> HIDE DEF a, c
<1>4. CASE elems' = a
    BY <1>1, <1>2, <1>3, <1>4, Kept
<1>5. CASE \E j \in Slots(n), v \in Values \cup {Nil} : elems' = [a EXCEPT ![j] = v]
    <2>1. PICK j \in Slots(n), v \in Values \cup {Nil} : elems' = [a EXCEPT ![j] = v]
        BY <1>5
    <2>2. elems' \in [Slots(c) -> Any]
        BY <1>2, <2>1
    <2>3. \A s \in Slots(c) : elems'[s] = a[s] \/ elems'[s] = v
        BY <1>2, <2>1
    <2> QED BY <1>1, <1>2, <1>3, <2>2, <2>3, Kept
<1> QED BY <1>4, <1>5 DEF a

LEMMA ResizeHolds ==
    ASSUME IInv, NEW i \in Positions, Resize(i)
    PROVE  IInv'
<1> DEFINE n == IF i < 0 THEN 0 ELSE i
<1>1. n \in Nat
    OBVIOUS
<1>2. n <= MaxLen /\ elems' = ResizedArray(n) /\ ResizedWithin(n) /\ len' = n
      /\ result' = result /\ itr' = itr
    BY DEF Resize
<1>3. result' \in Values \cup {Nil} \cup Nat
    BY <1>2 DEF IInv, TypeOK
<1> HIDE DEF n
<1> QED BY <1>1, <1>2, <1>3, ResizesKeep

(* An operation that leaves the array where it is.                           *)
LEMMA InPlace ==
    ASSUME IInv, Keep, itr' = itr, result' \in Values \cup {Nil} \cup Nat,
           len' \in Nat, len' <= len,
           elems' \in [Slots(capacity) -> Any],
           \A s \in Slots(capacity) :
               elems[s] # Garbage => elems'[s] # Garbage
    PROVE  IInv'
<1>1. capacity' = capacity /\ capacity \in Int
    BY Bounds DEF Keep
<1>2. len' \in 0 .. MaxLen /\ \A s \in Slots(len') : s \in Slots(len)
    <2>1. len \in Nat /\ len <= MaxLen
        BY Bounds
    <2>2. len' \in 0 .. MaxLen
        BY <2>1
    <2>3. ASSUME NEW n \in Nat, NEW m \in Nat, n <= m, NEW s \in 0 .. n - 1
          PROVE  s \in 0 .. m - 1
        BY <2>3
    <2>4. \A s \in Slots(len') : s \in Slots(len)
        BY <2>1, <2>3
    <2> QED BY <2>2, <2>4
<1>3. \A s \in Slots(len') : s \in Slots(capacity) /\ elems'[s] # Garbage
    BY <1>2, Bounds
<1>4. \A s \in itr.i .. itr.len - 1 : s \in Slots(capacity) /\ elems'[s] # Garbage
    BY Bounds
<1> QED BY <1>1, <1>2, <1>3, <1>4, Kept

LEMMA AtType ==
    ASSUME IInv, NEW i \in Int
    PROVE  At(i) \in Values \cup {Nil} \cup Nat
<1>1. CASE InRange(i)
    <2>1. i \in Slots(len)
        BY <1>1, Bounds DEF InRange
    <2> QED BY <1>1, <2>1, Bounds DEF At
<1>2. CASE ~ InRange(i)
    BY <1>2 DEF At
<1> QED BY <1>1, <1>2

LEMMA SetHolds ==
    ASSUME IInv, NEW i \in Positions, NEW v \in Values \cup {Nil}, Set(i, v)
    PROVE  IInv'
<1>1. itr' = itr /\ i < MaxLen /\ i \in Int
    BY DEF Set
<1>2. CASE i < 0 /\ result' = Nil /\ UNCHANGED <<elems, len>> /\ Keep
    BY <1>1, <1>2, InPlace, Bounds
<1>3. CASE /\ InRange(i) /\ elems' = [elems EXCEPT ![i] = v] /\ result' = elems[i]
           /\ len' = len /\ Keep
    <2>1. i \in Slots(len)
        BY <1>1, <1>3, Bounds DEF InRange
    <2>2. result' \in Values \cup {Nil} \cup Nat
        BY <1>3, <2>1, Bounds
    <2>3. elems' \in [Slots(capacity) -> Any]
        BY <1>3, Bounds
    <2>4. \A s \in Slots(capacity) : elems'[s] = elems[s] \/ elems'[s] = v
        BY <1>3, Bounds
    <2> QED BY <1>1, <1>3, <2>2, <2>3, <2>4, InPlace, Bounds
<1>4. CASE /\ i >= len /\ elems' = [ResizedArray(i + 1) EXCEPT ![i] = v]
           /\ ResizedWithin(i + 1) /\ len' = i + 1 /\ result' = Nil
    <2>1. i + 1 \in Nat /\ i + 1 <= MaxLen /\ i \in Slots(i + 1)
        BY <1>1, <1>4, Bounds
    <2> QED BY <1>1, <1>4, <2>1, ResizesKeep
<1> QED BY <1>2, <1>3, <1>4 DEF Set

LEMMA PushHolds ==
    ASSUME IInv, NEW v \in Values \cup {Nil}, Push(v)
    PROVE  IInv'
<1>1. len < MaxLen /\ len' = len + 1 /\ itr' = itr /\ result' = result
    BY DEF Push
<1>2. result' \in Values \cup {Nil} \cup Nat
    BY <1>1 DEF IInv, TypeOK
<1>3. len' \in 0 .. MaxLen /\ \A s \in Slots(len') : s \in Slots(len) \/ s = len
    BY <1>1, Bounds
<1>4. CASE ~ len >= capacity
    <2>1. elems' = [elems EXCEPT ![len] = v] /\ Keep /\ capacity' = capacity
        BY <1>4 DEF Push, Keep
    <2>2. len \in Slots(capacity)
        BY <1>4, Bounds
    <2>3. elems' \in [Slots(capacity) -> Any] /\ elems'[len] = v
        BY <2>1, <2>2, Bounds
    <2>4. \A s \in Slots(capacity) : elems'[s] = elems[s] \/ elems'[s] = v
        BY <2>1, Bounds
    <2>5. \A s \in Slots(len') : s \in Slots(capacity) /\ elems'[s] # Garbage
        BY <1>3, <2>2, <2>3, <2>4, Bounds
    <2>6. \A s \in itr.i .. itr.len - 1 : s \in Slots(capacity) /\ elems'[s] # Garbage
        BY <2>4, Bounds
    <2> QED BY <1>1, <1>2, <1>3, <2>1, <2>3, <2>5, <2>6, Kept, Bounds
<1>5. CASE len >= capacity
    <2> DEFINE c == IF capacity > 0 THEN capacity * 2 ELSE 4
    <2>1. elems' = [Reserved(c) EXCEPT ![len] = v] /\ Grow(c) /\ capacity' = c
        BY <1>5 DEF Push, Grow
    <2>2. c \in Int /\ c > capacity /\ c >= capacity /\ len \in Slots(c)
        BY <1>5, Bounds
    <2> HIDE DEF c
    <2>3. /\ Reserved(c) \in [Slots(c) -> Any]
          /\ \A s \in Slots(len) : s \in Slots(c) /\ Reserved(c)[s] = elems[s]
        BY <2>2, ReservedKeeps
    <2>4. elems' \in [Slots(c) -> Any] /\ elems'[len] = v
        BY <2>1, <2>2, <2>3
    <2>5. \A s \in Slots(len) : s \in Slots(c) /\ elems'[s] = elems[s]
        <3> SUFFICES ASSUME NEW s \in Slots(len) PROVE s \in Slots(c) /\ elems'[s] = elems[s]
            OBVIOUS
        <3>1. s # len
            BY Bounds
        <3> QED BY <2>1, <2>3, <3>1
    <2>6. \A s \in Slots(len') : s \in Slots(c) /\ elems'[s] # Garbage
        BY <1>3, <2>2, <2>4, <2>5, Bounds
    <2>7. \A s \in itr.i .. itr.len - 1 : s \in Slots(len)
        BY <1>5, Bounds
    <2>8. \A s \in itr.i .. itr.len - 1 : s \in Slots(c) /\ elems'[s] # Garbage
        BY <2>5, <2>7, Bounds
    <2> QED BY <1>1, <1>2, <1>3, <2>1, <2>2, <2>4, <2>6, <2>8, Kept
<1> QED BY <1>4, <1>5

LEMMA DeleteHolds ==
    ASSUME IInv, NEW i \in Positions, Delete(i)
    PROVE  IInv'
<1>1. Keep /\ itr' = itr /\ result' = At(i)
    BY DEF Delete
<1>2. result' \in Values \cup {Nil} \cup Nat
    BY <1>1, AtType
<1>3. CASE InRange(i)
    <2>1. /\ elems' = [s \in DOMAIN elems |-> IF i <= s /\ s < len - 1 THEN elems[s + 1] ELSE elems[s]]
          /\ len' = len - 1
        BY <1>3 DEF Delete
    <2>2. len' \in Nat /\ len' <= len
        BY <1>3, <2>1, Bounds DEF InRange
    <2>3. ASSUME NEW s \in Slots(capacity), i <= s, s < len - 1
          PROVE  s + 1 \in Slots(len)
        BY <1>3, <2>3, Bounds DEF InRange
    <2>4. elems' \in [Slots(capacity) -> Any]
        BY <2>1, <2>3, Bounds
    <2>5. \A s \in Slots(capacity) : elems[s] # Garbage => elems'[s] # Garbage
        BY <2>1, <2>3, Bounds
    <2> QED BY <1>1, <1>2, <2>2, <2>4, <2>5, InPlace
<1>4. CASE ~ InRange(i)
    BY <1>1, <1>2, <1>4, InPlace, Bounds DEF Delete
<1> QED BY <1>3, <1>4

LEMMA SwapDeleteHolds ==
    ASSUME IInv, NEW i \in Positions, SwapDelete(i)
    PROVE  IInv'
<1>1. Keep /\ itr' = itr /\ result' = At(i)
    BY DEF SwapDelete
<1>2. result' \in Values \cup {Nil} \cup Nat
    BY <1>1, AtType
<1>3. CASE InRange(i)
    <2>1. elems' = [elems EXCEPT ![i] = elems[len - 1]] /\ len' = len - 1
        BY <1>3 DEF SwapDelete
    <2>2. len' \in Nat /\ len' <= len /\ len - 1 \in Slots(len)
        BY <1>3, <2>1, Bounds DEF InRange
    <2>3. elems' \in [Slots(capacity) -> Any]
        BY <2>1, <2>2, Bounds
    <2>4. \A s \in Slots(capacity) : elems'[s] = elems[s] \/ elems'[s] = elems[len - 1]
        BY <2>1, Bounds
    <2>5. \A s \in Slots(capacity) : elems[s] # Garbage => elems'[s] # Garbage
        BY <2>2, <2>4, Bounds
    <2> QED BY <1>1, <1>2, <2>2, <2>3, <2>5, InPlace
<1>4. CASE ~ InRange(i)
    BY <1>1, <1>2, <1>4, InPlace, Bounds DEF SwapDelete
<1> QED BY <1>3, <1>4

(* Reading the list, and steps of an iteration.                              *)
LEMMA ReadsHold ==
    ASSUME IInv, (\E i \in Positions : Get(i)) \/ Length
    PROVE  IInv'
<1>1. elems' = elems /\ len' = len /\ itr' = itr /\ Keep
    BY DEF Get, Length
<1>2. result' \in Values \cup {Nil} \cup Nat
    BY AtType, Bounds DEF Get, Length
<1> QED BY <1>1, <1>2, InPlace, Bounds

LEMMA IterationHolds ==
    ASSUME IInv, Foreach \/ Continue \/ Break
    PROVE  IInv'
<1>1. /\ elems' = elems /\ len' = len /\ result' = result
      /\ capacity' = capacity /\ in_zone' = in_zone /\ blocks' = blocks /\ finalizers' = finalizers
    BY DEF Foreach, Continue, Break, Keep
<1>2. itr \in [i : Nat, len : Nat]
    BY DEF IInv, TypeOK
<1>3. NoItr \in [i : Nat, len : Nat]
    BY DEF NoItr
<1>4. /\ itr' \in [i : Nat, len : Nat]
      /\ \/ \A s \in itr'.i .. itr'.len - 1 : s \in itr.i .. itr.len - 1
         \/ \A s \in itr'.i .. itr'.len - 1 : s \in Slots(len)
    <2>1. CASE Foreach
        <3>1. itr' = [i |-> 0, len |-> len]
            BY <2>1 DEF Foreach
        <3> QED BY <3>1, Bounds
    <2>2. CASE itr' = NoItr
        BY <1>3, <2>2 DEF NoItr
    <2>3. CASE itr' = [itr EXCEPT !.i = @ + 1]
        BY <1>2, <2>3
    <2> QED BY <2>1, <2>2, <2>3 DEF Continue, Break
<1>5. \A s \in itr'.i .. itr'.len - 1 : s \in DOMAIN elems' /\ elems'[s] # Garbage
    BY <1>1, <1>4, Bounds
<1> QED BY <1>1, <1>4, <1>5 DEF IInv, TypeOK, BlockFreedOnce, ForeachReadsWritten

(* A new list.                                                               *)
LEMMA NewListHolds ==
    ASSUME NEW c \in Capacities, capacity' = c, elems' = NewArray(c), len' = 0,
           in_zone' = TRUE, blocks' = 0, finalizers' = 0,
           result' \in Values \cup {Nil} \cup Nat, itr' = NoItr
    PROVE  IInv'
<1>1. elems' \in [Slots(capacity') -> Any]
    BY DEF NewArray
<1>2. itr' \in [i : Nat, len : Nat] /\ \A s \in itr'.i .. itr'.len - 1 : FALSE
    BY DEF NoItr
<1>3. TypeOK'
    BY <1>1, <1>2 DEF TypeOK
<1>4. BlockFreedOnce' /\ ForeachReadsWritten'
    BY <1>2 DEF BlockFreedOnce, ForeachReadsWritten
<1> QED BY <1>3, <1>4 DEF IInv

LEMMA InitHolds == Init => IInv
<1> SUFFICES ASSUME Init PROVE IInv
    OBVIOUS
<1>1. PICK c \in Capacities : capacity = c /\ elems = NewArray(c)
    BY DEF Init
<1>2. /\ len = 0 /\ in_zone = TRUE /\ blocks = 0 /\ finalizers = 0 /\ result = Nil /\ itr = NoItr
    BY DEF Init
<1>3. elems \in [Slots(capacity) -> Any]
    BY <1>1 DEF NewArray
<1>4. itr \in [i : Nat, len : Nat] /\ \A s \in itr.i .. itr.len - 1 : FALSE
    BY <1>2 DEF NoItr
<1>5. TypeOK
    BY <1>1, <1>2, <1>3, <1>4 DEF TypeOK
<1>6. BlockFreedOnce /\ ForeachReadsWritten
    BY <1>2, <1>4 DEF BlockFreedOnce, ForeachReadsWritten
<1> QED BY <1>5, <1>6 DEF IInv

LEMMA NextHolds == IInv /\ [Next]_vars => IInv'
<1> SUFFICES ASSUME IInv, [Next]_vars PROVE IInv'
    OBVIOUS
<1>1. CASE \E i \in Positions : Get(i) \/ Delete(i) \/ SwapDelete(i) \/ Resize(i)
    BY <1>1, ReadsHold, DeleteHolds, SwapDeleteHolds, ResizeHolds
<1>2. CASE \E i \in Positions, v \in Values \cup {Nil} : Set(i, v)
    BY <1>2, SetHolds
<1>3. CASE \E v \in Values \cup {Nil} : Push(v)
    BY <1>3, PushHolds
<1>4. CASE Length
    BY <1>4, ReadsHold
<1>5. CASE Foreach \/ Continue \/ Break
    BY <1>5, IterationHolds
<1>6. CASE Renew
    <2>1. PICK c \in Capacities : capacity' = c /\ elems' = NewArray(c)
        BY <1>6 DEF Renew
    <2>2. result' \in Values \cup {Nil} \cup Nat
        BY <1>6 DEF Renew, IInv, TypeOK
    <2> QED BY <1>6, <2>1, <2>2, NewListHolds DEF Renew
<1>7. CASE UNCHANGED vars
    BY <1>7 DEF vars, IInv, TypeOK, BlockFreedOnce, ForeachReadsWritten
<1> QED BY <1>1, <1>2, <1>3, <1>4, <1>5, <1>6, <1>7 DEF Next

LEMMA Invariant == Spec => []IInv
<1> QED BY InitHolds, NextHolds, PTL DEF Spec

(* The array of a list and its block keep their types, and the elements are  *)
(* in slots that were written, whatever is done to the list.                 *)
THEOREM TypeCorrect == Spec => []TypeOK
<1>1. IInv => TypeOK
    BY DEF IInv
<1> QED BY <1>1, Invariant, PTL

(* Nothing of a list is left in malloc when its zone has been exited, and    *)
(* nothing is freed twice.                                                   *)
THEOREM FreedOnce == Spec => []BlockFreedOnce
<1>1. IInv => BlockFreedOnce
    BY DEF IInv
<1> QED BY <1>1, Invariant, PTL

(* An iteration reads elements only, or what was one when it began, whatever *)
(* the function it calls does to the list.                                   *)
THEOREM ForeachSafe == Spec => []ForeachReadsWritten
<1>1. IInv => ForeachReadsWritten
    BY DEF IInv
<1> QED BY <1>1, Invariant, PTL

-----------------------------------------------------------------------------
(* The refinement of AbstractList.                                           *)
Element == Values \cup {Nil}

LEMMA ArrayAsSeq ==
    ASSUME NEW n \in Nat, NEW e, \A s \in 0 .. n - 1 : e[s] \in Element,
           NEW q, q = [m \in 1 .. n |-> e[m - 1]]
    PROVE  /\ q \in Seq(Element) /\ Len(q) = n
           /\ \A m \in 1 .. n : q[m] = e[m - 1]
<1>1. \A m \in 1 .. n : q[m] = e[m - 1] /\ m - 1 \in 0 .. n - 1
    OBVIOUS
<1>2. q \in [1 .. n -> Element]
    BY <1>1
<1> QED BY <1>1, <1>2

LEMMA ContentNow ==
    ASSUME IInv
    PROVE  /\ Content \in Seq(Element) /\ Len(Content) = len /\ len \in Nat
           /\ \A m \in 1 .. len : Content[m] = elems[m - 1]
<1>1. len \in Nat /\ \A s \in 0 .. len - 1 : elems[s] \in Element
    BY Bounds DEF Element
<1> QED BY <1>1, ArrayAsSeq DEF Content

LEMMA ContentNext ==
    ASSUME IInv'
    PROVE  /\ Content' \in Seq(Element) /\ Len(Content') = len' /\ len' \in Nat
           /\ \A m \in 1 .. len' : Content'[m] = elems'[m - 1]
<1> DEFINE n == len'
           e == elems'
           q == Content'
<1>1. n \in Nat
    BY DEF IInv, TypeOK
<1>2. ASSUME NEW s \in 0 .. n - 1 PROVE e[s] \in Element
    <2>1. /\ elems' \in [Slots(capacity') -> Any]
          /\ s \in DOMAIN elems' /\ elems'[s] # Garbage
        BY <1>2 DEF IInv, TypeOK
    <2>2. elems'[s] \in Any
        BY <2>1
    <2> QED BY <2>1, <2>2 DEF Element
<1>3. q = [m \in 1 .. n |-> e[m - 1]]
    BY DEF Content
<1> HIDE DEF n, e, q
<1>4. /\ q \in Seq(Element) /\ Len(q) = n
      /\ \A m \in 1 .. n : q[m] = e[m - 1]
    BY <1>1, <1>2, <1>3, ArrayAsSeq
<1> QED BY <1>1, <1>4 DEF n, e, q

(* A sequence is the new content if it has what the array has.               *)
LEMMA ContentIs ==
    ASSUME IInv', NEW t \in Seq(Element), Len(t) = len',
           \A m \in 1 .. len' : t[m] = elems'[m - 1]
    PROVE  Content' = t
BY ContentNext, SeqEqual

LEMMA SameContent ==
    ASSUME elems' = elems, len' = len
    PROVE  Content' = Content
BY DEF Content

LEMMA AtIs ==
    ASSUME IInv, NEW i \in Int
    PROVE  At(i) = Abstract!At(Content, i)
<1>1. InRange(i) <=> i \in 0 .. Len(Content) - 1
    BY ContentNow DEF InRange
<1>2. i \in 0 .. len - 1 => i + 1 \in 1 .. len /\ i + 1 - 1 = i
    BY Bounds
<1>3. i \in 0 .. len - 1 => Content[i + 1] = elems[i]
    BY <1>2, ContentNow
<1> QED BY <1>1, <1>3, ContentNow DEF At, Abstract!At

LEMMA ResizedIs ==
    ASSUME IInv, NEW n \in Nat, NEW t, t = Abstract!Resized(Content, n)
    PROVE  /\ t \in Seq(Element) /\ Len(t) = n
           /\ \A m \in 1 .. n : t[m] = ResizedArray(n)[m - 1]
<1>1. t = [m \in 1 .. n |-> IF m <= len THEN Content[m] ELSE Nil]
    BY ContentNow DEF Abstract!Resized
<1>2. ASSUME NEW m \in 1 .. n
      PROVE  t[m] = ResizedArray(n)[m - 1] /\ t[m] \in Element
    <2>1. m - 1 \in Slots(n) /\ m \in Int
        OBVIOUS
    <2>2. ResizedArray(n)[m - 1] = IF m - 1 < len THEN elems[m - 1] ELSE Nil
        <3> DEFINE c == IF n <= capacity THEN capacity ELSE n
        <3> HIDE DEF c
        <3> QED BY <2>1, ResizedKeeps
    <2>3. CASE m <= len
        <3>1. m \in 1 .. len /\ m - 1 < len
            BY <2>1, <2>3, Bounds
        <3>2. Content[m] = elems[m - 1] /\ Content[m] \in Element
            BY <3>1, ContentNow
        <3> QED BY <1>1, <2>2, <2>3, <3>1, <3>2
    <2>4. CASE ~ m <= len
        <3>1. ~ m - 1 < len
            BY <2>1, <2>4, Bounds
        <3> QED BY <1>1, <2>2, <2>4, <3>1 DEF Element
    <2> QED BY <2>3, <2>4
<1>3. t \in [1 .. n -> Element]
    BY <1>1, <1>2
<1> QED BY <1>1, <1>2, <1>3

(* A sequence with one element replaced.                                     *)
LEMMA ReplacedIs ==
    ASSUME NEW q \in Seq(Element), NEW k \in 1 .. Len(q), NEW v \in Element,
           NEW t, t = [q EXCEPT ![k] = v]
    PROVE  /\ t \in Seq(Element) /\ Len(t) = Len(q)
           /\ \A m \in 1 .. Len(q) : t[m] = IF m = k THEN v ELSE q[m]
<1>1. Len(q) \in Nat /\ q \in [1 .. Len(q) -> Element]
    OBVIOUS
<1>2. t \in [1 .. Len(q) -> Element]
    BY <1>1
<1>3. t \in Seq(Element) /\ Len(t) = Len(q)
    BY <1>1, <1>2
<1>4. \A m \in 1 .. Len(q) : t[m] = IF m = k THEN v ELSE q[m]
    BY <1>1
<1> QED BY <1>3, <1>4

LEMMA GetIs ==
    ASSUME IInv, NEW i \in Int, Get(i)
    PROVE  Abstract!Get(i)
BY AtIs, SameContent DEF Get, Abstract!Get

LEMMA LengthIs ==
    ASSUME IInv, Length
    PROVE  Abstract!Length
BY ContentNow, SameContent DEF Length, Abstract!Length

LEMMA ResizeIs ==
    ASSUME IInv, IInv', NEW i \in Int, Resize(i)
    PROVE  Abstract!Resize(i)
<1> DEFINE n == IF i < 0 THEN 0 ELSE i
           t == Abstract!Resized(Content, n)
<1>1. n \in Nat /\ len' = n /\ elems' = ResizedArray(n) /\ result' = result
    BY DEF Resize
<1> HIDE DEF n
<1>2. /\ t \in Seq(Element) /\ Len(t) = n
      /\ \A m \in 1 .. n : t[m] = ResizedArray(n)[m - 1]
    BY <1>1, ResizedIs
<1> HIDE DEF t
<1>3. Content' = t
    BY <1>1, <1>2, ContentIs
<1> QED BY <1>1, <1>3 DEF t, n, Abstract!Resize

LEMMA SetIs ==
    ASSUME IInv, IInv', NEW i \in Int, NEW v \in Element, Set(i, v)
    PROVE  Abstract!Set(i, v)
<1>1. CASE i < 0
    <2>1. result' = Nil /\ elems' = elems /\ len' = len
        BY <1>1, Bounds DEF Set, InRange
    <2> QED BY <1>1, <2>1, SameContent DEF Abstract!Set
<1>2. CASE i >= 0
    <2> DEFINE n == IF i < Len(Content) THEN Len(Content) ELSE i + 1
               q == Abstract!Resized(Content, n)
               t == [q EXCEPT ![i + 1] = v]
    <2>1. Len(Content) = len /\ len \in Nat
        BY ContentNow
    <2>2. n \in Nat /\ i + 1 \in 1 .. n /\ n = IF i < len THEN len ELSE i + 1
        BY <1>2, <2>1
    <2>3. len' = n
        BY <1>2, <2>1, <2>2 DEF Set, InRange
    <2> HIDE DEF n
    <2>4. /\ q \in Seq(Element) /\ Len(q) = n
          /\ \A m \in 1 .. n : q[m] = ResizedArray(n)[m - 1]
        BY <2>2, ResizedIs
    <2> HIDE DEF q
    <2>5. /\ t \in Seq(Element) /\ Len(t) = n
          /\ \A m \in 1 .. n : t[m] = IF m = i + 1 THEN v ELSE q[m]
        BY <2>2, <2>4, ReplacedIs
    <2> HIDE DEF t
    <2>6. ASSUME NEW m \in 1 .. n PROVE t[m] = elems'[m - 1]
        <3>1. m - 1 \in Slots(n) /\ m \in Int
            BY <2>2
        <3>2. CASE i < len
            <4>1. n = len /\ InRange(i) /\ elems' = [elems EXCEPT ![i] = v]
                BY <1>2, <2>1, <2>2, <3>2 DEF Set, InRange
            <4>2. m - 1 \in DOMAIN elems /\ ResizedArray(n)[m - 1] = elems[m - 1]
                <5>1. m - 1 < len
                    BY <2>1, <3>1, <4>1
                <5>2. ResizedArray(n)[m - 1] = elems[m - 1]
                    <6> DEFINE c == IF n <= capacity THEN capacity ELSE n
                    <6> HIDE DEF c
                    <6> QED BY <2>2, <3>1, <5>1, ResizedKeeps
                <5>3. m - 1 \in DOMAIN elems
                    BY <3>1, <4>1, Bounds
                <5> QED BY <5>2, <5>3
            <4>3. elems'[m - 1] = IF m - 1 = i THEN v ELSE elems[m - 1]
                BY <4>1, <4>2
            <4>4. m - 1 = i <=> m = i + 1
                BY <3>1
            <4> QED BY <2>4, <2>5, <4>2, <4>3, <4>4
        <3>3. CASE ~ i < len
            <4>1. n = i + 1 /\ elems' = [ResizedArray(n) EXCEPT ![i] = v]
                BY <1>2, <2>1, <2>2, <3>3 DEF Set, InRange
            <4>2. m - 1 \in DOMAIN ResizedArray(n)
                <5> DEFINE c == IF n <= capacity THEN capacity ELSE n
                <5>1. c = IF n <= capacity THEN capacity ELSE n
                    OBVIOUS
                <5> HIDE DEF c
                <5>2. /\ ResizedArray(n) \in [Slots(c) -> Any]
                      /\ \A s \in Slots(n) : s \in Slots(c)
                    BY <2>2, <5>1, ResizedKeeps
                <5> QED BY <3>1, <5>2
            <4>3. elems'[m - 1] = IF m - 1 = i THEN v ELSE ResizedArray(n)[m - 1]
                BY <4>1, <4>2
            <4>4. m - 1 = i <=> m = i + 1
                BY <3>1
            <4> QED BY <2>4, <2>5, <4>3, <4>4
        <3> QED BY <3>2, <3>3
    <2>7. Content' = t
        BY <2>3, <2>5, <2>6, ContentIs
    <2>8. result' = Abstract!At(Content, i)
        BY <1>2, <2>1, AtIs DEF Set, InRange, At
    <2> QED BY <1>2, <2>7, <2>8 DEF t, q, n, Abstract!Set
<1> QED BY <1>1, <1>2

LEMMA PushIs ==
    ASSUME IInv, IInv', NEW v \in Element, Push(v)
    PROVE  Abstract!Push(v)
<1> DEFINE full == len >= capacity
           c == IF capacity > 0 THEN capacity * 2 ELSE 4
           array == IF full THEN Reserved(c) ELSE elems
           t == Append(Content, v)
<1>1. elems' = [array EXCEPT ![len] = v] /\ len' = len + 1 /\ result' = result
    BY DEF Push
<1>2. c \in Int /\ c >= capacity /\ (c > len \/ ~ full)
    <2>1. capacity > 0 => capacity * 2 \in Int /\ capacity * 2 > capacity
        BY Bounds
    <2>2. capacity <= 0 => len = 0
        BY Bounds
    <2>3. len <= capacity \/ len = 0
        BY Bounds
    <2> QED BY <2>1, <2>2, <2>3, Bounds
<1>3. /\ len \in DOMAIN array
      /\ \A s \in Slots(len) : s \in DOMAIN array /\ array[s] = elems[s]
    <2>1. CASE full
        <3> HIDE DEF c
        <3>1. c \in Int /\ c >= capacity /\ c > len
            BY <1>2, <2>1
        <3>2. /\ Reserved(c) \in [Slots(c) -> Any]
              /\ \A s \in Slots(len) : s \in Slots(c) /\ Reserved(c)[s] = elems[s]
            BY <3>1, ReservedKeeps
        <3>3. len \in Slots(c)
            BY <3>1, Bounds
        <3> QED BY <2>1, <3>2, <3>3
    <2>2. CASE ~ full
        BY <2>2, Bounds
    <2> QED BY <2>1, <2>2
<1> HIDE DEF array
<1>4. /\ t \in Seq(Element) /\ Len(t) = len + 1
      /\ \A m \in 1 .. len : t[m] = elems[m - 1]
      /\ t[len + 1] = v
    BY ContentNow, AppendProperties
<1> HIDE DEF t
<1>5. ASSUME NEW m \in 1 .. len + 1 PROVE t[m] = elems'[m - 1]
    <2>1. len \in Nat /\ m \in Nat
        BY Bounds
    <2>2. CASE m = len + 1
        <3>1. m - 1 = len
            BY <2>1, <2>2
        <3> QED BY <1>1, <1>3, <1>4, <2>2, <3>1
    <2>3. CASE m # len + 1
        <3>1. m \in 1 .. len /\ m - 1 \in Slots(len) /\ m - 1 # len
            BY <2>1, <2>3
        <3> QED BY <1>1, <1>3, <1>4, <3>1
    <2> QED BY <2>2, <2>3
<1>6. Content' = t
    BY <1>1, <1>4, <1>5, ContentIs
<1> QED BY <1>1, <1>6 DEF t, Abstract!Push

LEMMA DeleteIs ==
    ASSUME IInv, IInv', NEW i \in Int, Delete(i)
    PROVE  Abstract!Delete(i)
<1>1. Len(Content) = len /\ len \in Nat /\ result' = Abstract!At(Content, i)
    BY ContentNow, AtIs DEF Delete
<1>2. CASE ~ InRange(i)
    <2>1. elems' = elems /\ len' = len /\ i \notin 0 .. Len(Content) - 1
        BY <1>1, <1>2 DEF Delete, InRange
    <2> QED BY <1>1, <2>1, SameContent DEF Abstract!Delete
<1>3. CASE InRange(i)
    <2> DEFINE n == len - 1
               t == Abstract!Without(Content, i)
    <2>1. n \in Nat /\ i \in 0 .. n /\ len' = n
        BY <1>1, <1>3 DEF Delete, InRange
    <2>2. elems' = [s \in DOMAIN elems |-> IF i <= s /\ s < n THEN elems[s + 1]
                                            ELSE elems[s]]
        BY <1>3 DEF Delete
    <2>3. t = [j \in 1 .. n |-> IF j <= i THEN Content[j] ELSE Content[j + 1]]
        BY <1>1 DEF Abstract!Without
    <2>4. ASSUME NEW m \in 1 .. n PROVE t[m] = elems'[m - 1] /\ t[m] \in Element
        <3>1. /\ m \in 1 .. len /\ m + 1 \in 1 .. len
              /\ m - 1 \in Slots(len) /\ m + 1 - 1 = m /\ m - 1 + 1 = m
              /\ (m <= i <=> ~ (i <= m - 1 /\ m - 1 < n))
            BY <1>1, <2>1
        <3>2. /\ Content[m] = elems[m - 1] /\ Content[m] \in Element
              /\ Content[m + 1] = elems[m] /\ Content[m + 1] \in Element
            BY <3>1, ContentNow
        <3>3. m - 1 \in DOMAIN elems
            BY <3>1, Bounds
        <3>4. elems'[m - 1] = IF m <= i THEN elems[m - 1] ELSE elems[m]
            BY <2>2, <3>1, <3>3
        <3>5. t[m] = IF m <= i THEN Content[m] ELSE Content[m + 1]
            BY <2>3
        <3> QED BY <3>2, <3>4, <3>5
    <2>5. t \in [1 .. n -> Element]
        BY <2>3, <2>4
    <2>6. t \in Seq(Element) /\ Len(t) = n
        BY <2>1, <2>5
    <2>7. Content' = t
        BY <2>1, <2>4, <2>6, ContentIs
    <2>8. i \in 0 .. Len(Content) - 1
        BY <1>1, <2>1
    <2> QED BY <1>1, <2>7, <2>8 DEF Abstract!Delete
<1> QED BY <1>2, <1>3

LEMMA SwapDeleteIs ==
    ASSUME IInv, IInv', NEW i \in Int, SwapDelete(i)
    PROVE  Abstract!SwapDelete(i)
<1>1. Len(Content) = len /\ len \in Nat /\ result' = Abstract!At(Content, i)
    BY ContentNow, AtIs DEF SwapDelete
<1>2. CASE ~ InRange(i)
    <2>1. elems' = elems /\ len' = len /\ i \notin 0 .. Len(Content) - 1
        BY <1>1, <1>2 DEF SwapDelete, InRange
    <2> QED BY <1>1, <2>1, SameContent DEF Abstract!SwapDelete
<1>3. CASE InRange(i)
    <2> DEFINE n == len - 1
               t == Abstract!Swapped(Content, i)
    <2>1. n \in Nat /\ i \in 0 .. n /\ len' = n /\ len \in 1 .. len
        BY <1>1, <1>3 DEF SwapDelete, InRange
    <2>2. elems' = [elems EXCEPT ![i] = elems[n]]
        BY <1>3 DEF SwapDelete
    <2>3. t = [j \in 1 .. n |-> IF j = i + 1 THEN Content[len] ELSE Content[j]]
        BY <1>1 DEF Abstract!Swapped
    <2>4. ASSUME NEW m \in 1 .. n PROVE t[m] = elems'[m - 1] /\ t[m] \in Element
        <3>1. /\ m \in 1 .. len /\ m - 1 \in Slots(len)
              /\ (m = i + 1 <=> m - 1 = i)
            BY <1>1, <2>1
        <3>2. /\ Content[m] = elems[m - 1] /\ Content[m] \in Element
              /\ Content[len] = elems[n] /\ Content[len] \in Element
            BY <2>1, <3>1, ContentNow
        <3>3. m - 1 \in DOMAIN elems
            BY <3>1, Bounds
        <3>4. elems'[m - 1] = IF m - 1 = i THEN elems[n] ELSE elems[m - 1]
            BY <2>2, <3>3
        <3>5. t[m] = IF m = i + 1 THEN Content[len] ELSE Content[m]
            BY <2>3
        <3> QED BY <3>1, <3>2, <3>4, <3>5
    <2>5. t \in [1 .. n -> Element]
        BY <2>3, <2>4
    <2>6. t \in Seq(Element) /\ Len(t) = n
        BY <2>1, <2>5
    <2>7. Content' = t
        BY <2>1, <2>4, <2>6, ContentIs
    <2>8. i \in 0 .. Len(Content) - 1
        BY <1>1, <2>1
    <2> QED BY <1>1, <2>7, <2>8 DEF Abstract!SwapDelete
<1> QED BY <1>2, <1>3

LEMMA RenewIs ==
    ASSUME IInv', Renew
    PROVE  Abstract!Renew
<1>1. len' = 0 /\ result' = result
    BY DEF Renew
<1>2. Content' \in Seq(Element) /\ Len(Content') = 0
    BY <1>1, ContentNext
<1>3. Content' = << >>
    BY <1>2, EmptySeq
<1> QED BY <1>1, <1>3 DEF Abstract!Renew

LEMMA InitIs == Init => Abstract!Init
<1> SUFFICES ASSUME Init PROVE Abstract!Init
    OBVIOUS
<1>1. IInv
    BY InitHolds
<1>2. Content \in Seq(Element) /\ Len(Content) = 0
    BY <1>1, ContentNow DEF Init
<1>3. Content = << >>
    BY <1>2, EmptySeq
<1> QED BY <1>3 DEF Init, Abstract!Init

(* An operation is the operation on the sequence; an iteration changes       *)
(* nothing that the sequence shows.                                          *)
LEMMA NextIs ==
    IInv /\ IInv' /\ [Next]_vars => [Abstract!Next]_<<Content, result>>
<1> SUFFICES ASSUME IInv, IInv', [Next]_vars
             PROVE  [Abstract!Next]_<<Content, result>>
    OBVIOUS
<1>1. ASSUME NEW i \in Positions, Get(i) \/ Delete(i) \/ SwapDelete(i) \/ Resize(i)
      PROVE  Abstract!Next
    <2>1. i \in Int
        OBVIOUS
    <2>2. Abstract!Get(i) \/ Abstract!Delete(i) \/ Abstract!SwapDelete(i) \/ Abstract!Resize(i)
        BY <1>1, <2>1, GetIs, DeleteIs, SwapDeleteIs, ResizeIs
    <2> QED BY <2>2 DEF Abstract!Next
<1>2. ASSUME NEW i \in Positions, NEW v \in Values \cup {Nil}, Set(i, v)
      PROVE  Abstract!Next
    <2>1. i \in Int /\ v \in Element
        BY DEF Element
    <2>2. Abstract!Set(i, v)
        BY <1>2, <2>1, SetIs
    <2> QED BY <2>2 DEF Abstract!Next
<1>3. ASSUME NEW v \in Values \cup {Nil}, Push(v)
      PROVE  Abstract!Next
    <2>1. v \in Element
        BY DEF Element
    <2>2. Abstract!Push(v)
        BY <1>3, <2>1, PushIs
    <2> QED BY <2>2 DEF Abstract!Next
<1>4. CASE Length
    BY <1>4, LengthIs DEF Abstract!Next
<1>5. CASE Foreach \/ Continue \/ Break
    <2>1. elems' = elems /\ len' = len /\ result' = result
        BY <1>5 DEF Foreach, Continue, Break
    <2> QED BY <2>1, SameContent
<1>6. CASE Renew
    BY <1>6, RenewIs DEF Abstract!Next
<1>7. CASE UNCHANGED vars
    <2>1. elems' = elems /\ len' = len /\ result' = result
        BY <1>7 DEF vars
    <2> QED BY <2>1, SameContent
<1> QED BY <1>1, <1>2, <1>3, <1>4, <1>5, <1>6, <1>7 DEF Next

(* The array, its capacity and its block do not show: to its users the list  *)
(* is a sequence.                                                            *)
THEOREM Implements == Spec => AbstractSpec
<1>1. Spec => []IInv
    BY Invariant
<1>2. Init => Abstract!Init
    BY InitIs
<1>3. IInv /\ IInv' /\ [Next]_vars => [Abstract!Next]_<<Content, result>>
    BY NextIs
<1> QED BY <1>1, <1>2, <1>3, PTL DEF Spec, AbstractSpec, Abstract!Spec
=============================================================================
