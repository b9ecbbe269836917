---------------------------- MODULE AbstractList ----------------------------
(***************************************************************************)
(* What a mara list promises its users (the mara_list_* functions of        *)
(* src/include/mara.h): a sequence of values, with positions counted from   *)
(* 0.  Capacity and storage do not show.                                    *)
(***************************************************************************)
EXTENDS Integers, Sequences

CONSTANTS Values, Nil, Positions

VARIABLES
    content,    \* the elements
    result      \* what the last operation returned

Init == content = <<>> /\ result = Nil

At(s, i) == IF i \in 0 .. Len(s) - 1 THEN s[i + 1] ELSE Nil

(* s made n elements long, with nil for what was not there. *)
Resized(s, n) == [i \in 1 .. n |-> IF i <= Len(s) THEN s[i] ELSE Nil]

Without(s, i) == [j \in 1 .. Len(s) - 1 |-> IF j <= i THEN s[j] ELSE s[j + 1]]

Swapped(s, i) == [j \in 1 .. Len(s) - 1 |-> IF j = i + 1 THEN s[Len(s)] ELSE s[j]]

Get(i) == result' = At(content, i) /\ UNCHANGED content

Set(i, v) ==
    IF i < 0 THEN result' = Nil /\ UNCHANGED content
    ELSE /\ content' = [Resized(content, IF i < Len(content) THEN Len(content) ELSE i + 1)
                            EXCEPT ![i + 1] = v]
         /\ result' = At(content, i)

Push(v) == content' = Append(content, v) /\ UNCHANGED result

Delete(i) ==
    /\ content' = IF i \in 0 .. Len(content) - 1 THEN Without(content, i) ELSE content
    /\ result' = At(content, i)

SwapDelete(i) ==
    /\ content' = IF i \in 0 .. Len(content) - 1 THEN Swapped(content, i) ELSE content
    /\ result' = At(content, i)

Resize(n) == content' = Resized(content, IF n < 0 THEN 0 ELSE n) /\ UNCHANGED result

Length == result' = Len(content) /\ UNCHANGED content

(* The list goes with its zone; another one begins empty. *)
Renew == content' = <<>> /\ UNCHANGED result

Next ==
    \/ \E i \in Positions : Get(i) \/ Delete(i) \/ SwapDelete(i) \/ Resize(i)
    \/ \E i \in Positions, v \in Values : Set(i, v)
    \/ \E v \in Values : Push(v)
    \/ Length \/ Renew

Spec == Init /\ [][Next]_<<content, result>>
=============================================================================
