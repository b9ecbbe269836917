---------------------------- MODULE AbstractCopy ----------------------------
(***************************************************************************)
(* What mara_copy promises (src/src/copy.c): in one step, everything that a *)
(* value reaches and that is younger than the target zone has one copy in   *)
(* the target zone, and the copies refer to each other as the originals do. *)
(* Nothing else changes.                                                    *)
(***************************************************************************)
EXTENDS Naturals, Sequences, Functions

CONSTANTS
    Places,     \* where a copy may be put
    NoResult    \* the value of result before mara_copy has returned

VARIABLES
    heap,       \* the objects: type, level of the zone, contents
    value,      \* the value to copy
    target,     \* the level of the zone it is copied to
    result      \* what mara_copy returns

vars == <<heap, value, target, result>>

(* The contents of a map are the set of its entries, those of another object *)
(* the sequence of what it refers to.                                        *)
Slots(o) == IF heap[o].type = "map" THEN UNION {{e[1], e[2]} : e \in heap[o].body}
            ELSE {heap[o].body[i] : i \in DOMAIN heap[o].body}

MustMove(v) == v \in DOMAIN heap /\ heap[v].level > target
Younger == {o \in DOMAIN heap : heap[o].level > target}

(* What the value reaches through objects that are younger than the target.  *)
Reached ==
    LET Closed(S) == /\ MustMove(value) => value \in S
                     /\ \A o \in S : {v \in Slots(o) : MustMove(v)} \subseteq S
    IN  {o \in Younger : \A S \in SUBSET Younger : Closed(S) => o \in S}

Renamed(f, v) == IF v \in DOMAIN f THEN f[v] ELSE v

CopyOf(f, o) ==
    [type |-> heap[o].type, level |-> target,
     body |-> IF heap[o].type = "map"
              THEN {<<Renamed(f, e[1]), Renamed(f, e[2])>> : e \in heap[o].body}
              ELSE [i \in DOMAIN heap[o].body |-> Renamed(f, heap[o].body[i])]]

Copy ==
    /\ result = NoResult
    /\ \E f \in [Reached -> Places \ DOMAIN heap] :
        /\ IsInjective(f)
        /\ heap' = [a \in DOMAIN heap \cup Range(f) |->
                      IF a \in DOMAIN heap THEN heap[a]
                      ELSE CopyOf(f, CHOOSE o \in Reached : f[o] = a)]
        /\ result' = Renamed(f, value)
    /\ UNCHANGED <<value, target>>

Init == result = NoResult

Spec == Init /\ [][Copy]_vars
=============================================================================
