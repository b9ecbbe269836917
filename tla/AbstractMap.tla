---------------------------- MODULE AbstractMap ----------------------------
(***************************************************************************)
(* What a mara map promises its users (the mara_map_* functions of          *)
(* src/include/mara.h, which describe it by their signatures): a function   *)
(* from keys to values where nil stands for "no value", and the number of   *)
(* keys that have one.  How the map is stored does not show.                *)
(***************************************************************************)
EXTENDS Naturals, FiniteSets

CONSTANTS Keys, Values, Nil

VARIABLES
    content,    \* the value of each key, or Nil
    result      \* what the last operation returned

Init ==
    /\ content = [k \in Keys |-> Nil]
    /\ result = Nil

(* Setting nil is deleting; both return the value the key had. *)
Set(k, v) ==
    /\ content' = [content EXCEPT ![k] = v]
    /\ result' = content[k]

Get(k) ==
    /\ result' = content[k]
    /\ UNCHANGED content

Len ==
    /\ result' = Cardinality({k \in Keys : content[k] # Nil})
    /\ UNCHANGED content

(* mara_map_foreach is no operation on the content; what its callback does   *)
(* to the map are.                                                           *)
Next ==
    \/ \E k \in Keys, v \in Values \cup {Nil} : Set(k, v)
    \/ \E k \in Keys : Get(k)
    \/ Len

Spec == Init /\ [][Next]_<<content, result>>
=============================================================================
