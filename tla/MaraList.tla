------------------------------ MODULE MaraList ------------------------------
(***************************************************************************)
(* The list of mara (src/src/list.c).  The elements are first in the zone   *)
(* of the list; once there are too many they are in a block of malloc, and  *)
(* a finalizer of the zone (src/src/zone.c) frees it.  mara_list_foreach    *)
(* calls a function that may change the list.                               *)
(*                                                                          *)
(* Positions count from 0.  A slot that was never written has Garbage.      *)
(***************************************************************************)
EXTENDS Integers, Sequences

CONSTANTS
    Values,     \* elements, besides nil
    Nil,
    Garbage,
    Capacities, \* the initial capacities that mara_new_list is given
    Positions,  \* the positions and lengths that callers pass
    MaxLen      \* bound: elements of a list

ASSUME ListAssumption ==
    /\ Nil \notin Values /\ Garbage \notin Values \cup {Nil}
    /\ Capacities \subseteq Int /\ Positions \subseteq Int
    /\ MaxLen \in Nat

VARIABLES
    elems,      \* what list->elems points to, a function from slots
    capacity,
    len,
    in_zone,
    blocks,     \* how many blocks of malloc the list has been given
    finalizers, \* how many finalizers of the zone free list->elems
    result,     \* what the last operation returned
    itr         \* i and len of the mara_list_foreach whose function runs

vars == <<elems, capacity, len, in_zone, blocks, finalizers, result, itr>>

Slots(c) == 0 .. c - 1
NoItr == [i |-> 0, len |-> 0]

NewArray(c) == [s \in Slots(c) |-> Garbage]

(* mara_new_list. *)
Init ==
    /\ \E c \in Capacities : capacity = c /\ elems = NewArray(c)
    /\ len = 0
    /\ in_zone = TRUE
    /\ blocks = 0
    /\ finalizers = 0
    /\ result = Nil
    /\ itr = NoItr

-----------------------------------------------------------------------------
(* mara_list_reserve: the array when it has room for c elements.  malloc and *)
(* memcpy move the elements, realloc what was behind them as well.           *)
Reserved(c) ==
    [s \in Slots(c) |->
        IF s < len \/ (~ in_zone /\ s < capacity) THEN elems[s] ELSE Garbage]

GrowForgettingZone(c) ==
    /\ capacity' = c
    /\ UNCHANGED in_zone
    /\ blocks' = IF in_zone THEN blocks + 1 ELSE blocks
    /\ finalizers' = IF in_zone THEN finalizers + 1 ELSE finalizers

Grow(c) ==
    /\ capacity' = c
    /\ in_zone' = FALSE
    /\ blocks' = IF in_zone THEN blocks + 1 ELSE blocks
    /\ finalizers' = IF in_zone THEN finalizers + 1 ELSE finalizers

Keep == UNCHANGED <<capacity, in_zone, blocks, finalizers>>

InRange(i) == 0 <= i /\ i < len

At(i) == IF InRange(i) THEN elems[i] ELSE Nil

(* The array when mara_list_resize has made the list n elements long. *)
ResizedArray(n) ==
    LET array == IF n <= capacity THEN elems ELSE Reserved(n) IN
    [s \in DOMAIN array |-> IF len <= s /\ s < n THEN Nil ELSE array[s]]

ResizedWithin(n) == IF n <= capacity THEN Keep ELSE Grow(n)

ResizeNoNil(i) ==
    LET n == IF i < 0 THEN 0 ELSE i IN
    /\ n <= MaxLen
    /\ elems' = IF n <= capacity THEN elems ELSE Reserved(n)
    /\ ResizedWithin(n)
    /\ len' = n
    /\ UNCHANGED <<result, itr>>

ResizeToFit(i) ==
    LET n == IF i < 0 THEN 0 ELSE i IN
    /\ n <= MaxLen
    /\ elems' = [s \in Slots(n) |-> IF s < len THEN elems[s] ELSE Nil]
    /\ capacity' = n
    /\ len' = n
    /\ UNCHANGED <<in_zone, blocks, finalizers, result, itr>>

(* mara_list_resize. *)
Resize(i) ==
    LET n == IF i < 0 THEN 0 ELSE i IN
    /\ n <= MaxLen
    /\ elems' = ResizedArray(n)
    /\ ResizedWithin(n)
    /\ len' = n
    /\ UNCHANGED <<result, itr>>

(* mara_list_set: a position behind the end makes the list longer. *)
Set(i, v) ==
    /\ i < MaxLen
    /\ \/ /\ i < 0
          /\ result' = Nil
          /\ UNCHANGED <<elems, len>> /\ Keep
       \/ /\ InRange(i)
          /\ elems' = [elems EXCEPT ![i] = v]
          /\ result' = elems[i]
          /\ UNCHANGED len /\ Keep
       \/ /\ i >= len
          /\ elems' = [ResizedArray(i + 1) EXCEPT ![i] = v]
          /\ ResizedWithin(i + 1)
          /\ len' = i + 1
          /\ result' = Nil
    /\ UNCHANGED itr

(* mara_list_push. *)
Push(v) ==
    /\ len < MaxLen
    /\ LET full == len >= capacity
           c == IF capacity > 0 THEN capacity * 2 ELSE 4
       IN  /\ elems' = [(IF full THEN Reserved(c) ELSE elems) EXCEPT ![len] = v]
           /\ IF full THEN Grow(c) ELSE Keep
    /\ len' = len + 1
    /\ UNCHANGED <<result, itr>>

(* mara_list_delete moves what is behind the element. *)
Delete(i) ==
    /\ result' = At(i)
    /\ IF InRange(i)
       THEN /\ elems' = [s \in DOMAIN elems |-> IF i <= s /\ s < len - 1 THEN elems[s + 1]
                                                ELSE elems[s]]
            /\ len' = len - 1
       ELSE UNCHANGED <<elems, len>>
    /\ UNCHANGED itr /\ Keep

SwapDeleteWithNext(i) ==
    /\ result' = At(i)
    /\ IF InRange(i)
       THEN /\ elems' = [elems EXCEPT ![i] = IF i < len - 1 THEN elems[i + 1] ELSE @]
            /\ len' = len - 1
       ELSE UNCHANGED <<elems, len>>
    /\ UNCHANGED itr /\ Keep

(* mara_list_swap_delete puts the last element in its place. *)
SwapDelete(i) ==
    /\ result' = At(i)
    /\ IF InRange(i)
       THEN /\ elems' = [elems EXCEPT ![i] = elems[len - 1]]
            /\ len' = len - 1
       ELSE UNCHANGED <<elems, len>>
    /\ UNCHANGED itr /\ Keep

(* mara_list_get, mara_list_len. *)
Get(i) ==
    /\ result' = At(i)
    /\ UNCHANGED <<elems, len, itr>> /\ Keep

Length ==
    /\ result' = len
    /\ UNCHANGED <<elems, len, itr>> /\ Keep

-----------------------------------------------------------------------------
(* mara_list_foreach: how many elements there are is read once, the elements *)
(* one by one.                                                               *)
Foreach ==
    /\ itr = NoItr /\ len > 0
    /\ itr' = [i |-> 0, len |-> len]
    /\ UNCHANGED <<elems, len, result>> /\ Keep

(* The function has returned, and not false. *)
Continue ==
    /\ itr # NoItr
    /\ itr' = IF itr.i + 1 < itr.len THEN [itr EXCEPT !.i = @ + 1] ELSE NoItr
    /\ UNCHANGED <<elems, len, result>> /\ Keep

(* The function has returned false, or an error. *)
Break ==
    /\ itr # NoItr
    /\ itr' = NoItr
    /\ UNCHANGED <<elems, len, result>> /\ Keep

(* The zone of the list is exited, its finalizers run (see BlockFreedOnce).  *)
(* Another list is made.                                                     *)
Renew ==
    /\ itr = NoItr
    /\ \E c \in Capacities : capacity' = c /\ elems' = NewArray(c)
    /\ len' = 0
    /\ in_zone' = TRUE
    /\ blocks' = 0
    /\ finalizers' = 0
    /\ UNCHANGED <<result, itr>>

Next ==
    \/ \E i \in Positions : Get(i) \/ Delete(i) \/ SwapDelete(i) \/ Resize(i)
    \/ \E i \in Positions, v \in Values \cup {Nil} : Set(i, v)
    \/ \E v \in Values \cup {Nil} : Push(v)
    \/ Length
    \/ Foreach \/ Continue \/ Break
    \/ Renew

Spec == Init /\ [][Next]_vars

-----------------------------------------------------------------------------
(* Every variable has its type; the elements are in slots of the array that  *)
(* were written.                                                             *)
TypeOK ==
    /\ capacity \in Int
    /\ elems \in [Slots(capacity) -> Values \cup {Nil, Garbage}]
    /\ len \in 0 .. MaxLen
    /\ \A s \in Slots(len) : s \in DOMAIN elems /\ elems[s] # Garbage
    /\ in_zone \in BOOLEAN
    /\ blocks \in Nat /\ finalizers \in Nat
    /\ result \in Values \cup {Nil} \cup Nat
    /\ itr \in [i : Nat, len : Nat]

(* However the list grows, it has at most one block of malloc, which it uses *)
(* for its elements, and one finalizer for it: when the zone is exited the   *)
(* block is freed, and freed once.                                           *)
BlockFreedOnce ==
    /\ blocks = IF in_zone THEN 0 ELSE 1
    /\ finalizers = blocks

(* mara_list_foreach goes on to the length the list had, though the function *)
(* it calls may have made the list shorter or moved it: what it reads then   *)
(* is in the array, and was written once.                                    *)
ForeachReadsWritten ==
    \A s \in itr.i .. itr.len - 1 : s \in DOMAIN elems /\ elems[s] # Garbage

(* The promise of the list: array, capacity and moves behave as a sequence.  *)
Content == [n \in 1 .. len |-> elems[n - 1]]

Abstract == INSTANCE AbstractList WITH content <- Content, Values <- Values \cup {Nil}
AbstractSpec == Abstract!Spec
=============================================================================
