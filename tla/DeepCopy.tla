------------------------------ MODULE DeepCopy ------------------------------
(***************************************************************************)
(* The traversal behind mara_copy (src/src/copy.c): mara_deep_copy calls    *)
(* itself for each value an object refers to, and a table from objects to   *)
(* their copies stops it at objects it has met, in sharing and in cycles.   *)
(* The C stack of the recursion is the variable stack.  The hash trie of    *)
(* the table and of maps is in MaraMap, the zone of the table in CallStack. *)
(***************************************************************************)
EXTENDS Integers, Sequences, SequencesExt

CONSTANTS
    Graphs,     \* the heaps that mara_copy may find, functions from addresses
    Places,     \* the addresses that the allocator may give to copies: a bound
    Targets,    \* the levels of the zones that a value may be copied to
    Immediate,  \* values that are no objects
    Nil,        \* nil
    Tombstone,  \* mara_tombstone(), the key of a deleted node of a map
    Garbage,    \* what a slot has that nobody wrote
    NoResult    \* no value: nothing has been returned

Types == {"string", "list", "map", "function"}

(* The body of an object is the sequence of the values in it: the elements   *)
(* of a list, the captures of a function, the characters of a string (or the *)
(* tag and value of a ref) as one value, and for a map its nodes in the      *)
(* order of the next chain, each as its key and its value.                   *)
Objects(addresses) == [type : Types, level : Int,
                       body : Seq(addresses \cup Immediate \cup {Nil, Tombstone, Garbage})]

Key(body, n) == body[2 * n - 1]
Value(body, n) == body[2 * n]
Nodes(body) == 1 .. Len(body) \div 2

(* mara_value_equal. *)
SameKey(g, k, l) ==
    \/ k = l
    \/ /\ {k, l} \subseteq DOMAIN g
       /\ g[k].type = "string" /\ g[l].type = "string"
       /\ g[k].body = g[l].body

(* No object refers to a younger one (theorem ReferencesOutlive of           *)
(* HeapProofs), and a key is in a map once (KeyReachable of MaraMap).        *)
IsGraph(g) ==
    /\ DOMAIN g \cap Places = {}
    /\ g \in [DOMAIN g -> Objects(DOMAIN g)]
    /\ \A o \in DOMAIN g : \A i \in 1 .. Len(g[o].body) :
         g[o].body[i] \in DOMAIN g => g[g[o].body[i]].level <= g[o].level
    /\ \A o \in DOMAIN g : g[o].type = "string" =>
         \A i \in 1 .. Len(g[o].body) : g[o].body[i] \in Immediate
    /\ \A o \in DOMAIN g : g[o].type = "map" =>
         /\ Len(g[o].body) % 2 = 0
         /\ \A n \in Nodes(g[o].body) :
              /\ Key(g[o].body, n) = Tombstone <=> Value(g[o].body, n) = Nil
              /\ \A m \in Nodes(g[o].body) :
                   SameKey(g, Key(g[o].body, m), Key(g[o].body, n)) /\ m # n =>
                   Key(g[o].body, n) = Tombstone

ASSUME DeepCopyAssumption ==
    /\ \A g \in Graphs : IsGraph(g)
    /\ Targets \subseteq Int
    /\ \A g \in Graphs :
         (DOMAIN g \cup Places) \cap (Immediate \cup {Nil, Tombstone, Garbage, NoResult}) = {}
    /\ NoResult \notin Immediate \cup {Nil, Tombstone, Garbage}

VARIABLES
    heap,   \* every object, the copies made so far included
    value,  \* the value that mara_copy was called with
    target, \* the level of the zone it was called with
    copied, \* copied_objs: from objects to their copies
    stack,  \* the calls of mara_deep_copy that copy a container
    ret,    \* what the last call of mara_deep_copy has returned
    result  \* what mara_copy has returned

vars == <<heap, value, target, copied, stack, ret, result>>

Init ==
    /\ heap \in Graphs
    /\ value \in DOMAIN heap \cup Immediate
    /\ target \in Targets
    /\ copied = <<>>
    /\ stack = <<>>
    /\ ret = NoResult
    /\ result = NoResult

Extended(f, k, v) == [x \in DOMAIN f \cup {k} |-> IF x = k THEN v ELSE f[x]]

-----------------------------------------------------------------------------
MustMoveToOwnLevel(v) == v \in DOMAIN heap /\ heap[v].level >= target

MustMoveFarther(v) == v \in DOMAIN heap /\ heap[v].level > target + 1

(* The early returns of mara_copy and of mara_deep_copy.                     *)
MustMove(v) == v \in DOMAIN heap /\ heap[v].level > target

(* mara_alloc_obj: the address that the arena hands out next.                *)
NewPlace == CHOOSE a \in Places : a \notin DOMAIN heap

PutSwapped(o, copy) == copied' = Extended(copied, copy, o)

PutStringsOnly(o, copy) ==
    copied' = IF heap[o].type = "string" THEN Extended(copied, o, copy) ELSE copied

(* mara_ptr_map_put: the table has the copy before it is complete. *)
Put(o, copy) == copied' = Extended(copied, o, copy)

(* A string or a ref is copied with its contents; a list has its length and  *)
(* a function its captures, which are written later; a map has no nodes.     *)
Begun(o) == [type |-> heap[o].type, level |-> target,
             body |-> CASE heap[o].type = "string" -> heap[o].body
                        [] heap[o].type = "map" -> <<>>
                        [] OTHER -> [i \in 1 .. Len(heap[o].body) |-> Garbage]]

IsLeaf(o) == heap[o].type = "string"

(* A call of mara_deep_copy that goes on: the object, its copy, how many     *)
(* slots have been copied, and the copy of the key of the node at hand.      *)
Frame(o, copy) == [obj |-> o, copy |-> copy, done |-> 0, key |-> Nil]

Visit(v) ==
    \/ /\ ~ MustMove(v)
       /\ ret' = v
       /\ UNCHANGED <<heap, copied, stack>>
    \/ /\ MustMove(v)
       /\ v \in DOMAIN copied
       /\ ret' = copied[v]
       /\ UNCHANGED <<heap, copied, stack>>
    \/ /\ MustMove(v)
       /\ v \notin DOMAIN copied
       /\ ~ Places \subseteq DOMAIN heap
       /\ heap' = Extended(heap, NewPlace, Begun(v))
       /\ Put(v, NewPlace)
       /\ IF IsLeaf(v)
          THEN ret' = NewPlace /\ UNCHANGED stack
          ELSE ret' = NoResult /\ stack' = Append(stack, Frame(v, NewPlace))

(* mara_copy: a string or a ref needs no table. *)
Start ==
    /\ stack = <<>> /\ ret = NoResult /\ result = NoResult
    /\ IF MustMove(value) /\ IsLeaf(value)
       THEN /\ ~ Places \subseteq DOMAIN heap
            /\ heap' = Extended(heap, NewPlace, Begun(value))
            /\ ret' = NewPlace
            /\ UNCHANGED <<copied, stack>>
       ELSE Visit(value)
    /\ UNCHANGED <<value, target, result>>

Top == Last(stack)
Original == heap[Top.obj].body

(* The innermost call goes on with the next value of its object. *)
Descend ==
    /\ stack # <<>> /\ ret = NoResult
    /\ Top.done < Len(Original)
    /\ Visit(Original[Top.done + 1])
    /\ UNCHANGED <<value, target, result>>

(* mara_map_set in a new map: nil deletes, and nothing is there to delete; a *)
(* new node comes second in the next chain.                                  *)
Inserted(body, k, v) ==
    IF body = <<>> THEN <<k, v>>
    ELSE SubSeq(body, 1, 2) \o <<k, v>> \o SubSeq(body, 3, Len(body))

MapSet(body, k, v) ==
    LET same == {n \in Nodes(body) : SameKey(heap, Key(body, n), k)}
    IN  CASE v = Nil -> body
          [] v # Nil /\ same # {} -> [body EXCEPT ![2 * (CHOOSE n \in same : TRUE)] = v]
          [] OTHER -> Inserted(body, k, v)

WithBody(o, body) == [o EXCEPT !.body = body]
Advanced(frame, key) == [frame EXCEPT !.done = @ + 1, !.key = key]

(* It stores what the call it made has returned; the key of a node waits for *)
(* its value.                                                                *)
IsKey == heap[Top.obj].type = "map" /\ Top.done % 2 = 0

Stored(body) ==
    CASE IsKey -> body
      [] heap[Top.obj].type = "map" /\ ~ IsKey -> MapSet(body, Top.key, ret)
      [] OTHER -> [body EXCEPT ![Top.done + 1] = ret]

Store ==
    /\ stack # <<>> /\ ret # NoResult
    /\ heap' = [heap EXCEPT ![Top.copy] = WithBody(@, Stored(@.body))]
    /\ stack' = [stack EXCEPT ![Len(stack)] = Advanced(@, IF IsKey THEN ret ELSE Nil)]
    /\ ret' = NoResult
    /\ UNCHANGED <<value, target, copied, result>>

(* It returns the copy. *)
Return ==
    /\ stack # <<>> /\ ret = NoResult
    /\ Top.done = Len(Original)
    /\ ret' = Top.copy
    /\ stack' = Front(stack)
    /\ UNCHANGED <<heap, value, target, copied, result>>

(* mara_start_deep_copy, or mara_copy itself, returns. *)
Finish ==
    /\ stack = <<>> /\ ret # NoResult /\ result = NoResult
    /\ result' = ret
    /\ UNCHANGED <<heap, value, target, copied, stack, ret>>

Next == Start \/ Descend \/ Store \/ Return \/ Finish

(* The copy is a C function that nothing interrupts: it goes on while it can. *)
Spec == Init /\ [][Next]_vars /\ WF_vars(Next)

-----------------------------------------------------------------------------
Copies == DOMAIN heap \cap Places
Values == DOMAIN heap \cup Immediate \cup {Nil, Tombstone, Garbage}

(* The recursion never meets an object again that it is in the middle of: it *)
(* goes no deeper than there are objects, also in a list that contains       *)
(* itself.                                                                   *)
NoReentry ==
    \A i, j \in 1 .. Len(stack) : stack[i].obj = stack[j].obj => i = j

(* Every variable has its type, and the calls in progress are about objects  *)
(* with a copy in the table, each about another one.                         *)
TypeOK ==
    /\ heap \in [DOMAIN heap -> Objects(DOMAIN heap)]
    /\ value \in Values
    /\ target \in Targets
    /\ copied \in [DOMAIN copied -> Copies]
    /\ DOMAIN copied \subseteq DOMAIN heap \ Places
    /\ stack \in Seq([obj : DOMAIN copied, copy : Copies, done : Nat, key : Values])
    /\ NoReentry
    /\ ret \in Values \cup {NoResult}
    /\ result \in Values \cup {NoResult}

(* While the copy is being made, and after it, nothing that is in it refers  *)
(* to an object that is younger than the zone it was made for: what has been *)
(* written survives the zones that the caller will exit.                     *)
CopiesAreOld ==
    \A a \in Copies :
        /\ heap[a].level = target
        /\ \A i \in 1 .. Len(heap[a].body) :
             heap[a].body[i] \in DOMAIN heap => heap[heap[a].body[i]].level <= target

(* mara_copy returns, whatever the graph.  *)
Terminates == <>(result # NoResult)

-----------------------------------------------------------------------------
(* The copies come into being when mara_copy returns; the order of the nodes *)
(* of a map and its deleted nodes are not to be seen.                        *)
Seen == IF result = NoResult THEN DOMAIN heap \ Places ELSE DOMAIN heap

Contents(o) ==
    [type |-> o.type, level |-> o.level,
     body |-> IF o.type = "map"
              THEN {<<Key(o.body, n), Value(o.body, n)>> :
                      n \in {m \in Nodes(o.body) : Key(o.body, m) # Tombstone}}
              ELSE o.body]

Abstract == INSTANCE AbstractCopy WITH heap <- [a \in Seen |-> Contents(heap[a])]

(* Whatever is shared, cyclic, old already or deleted in the graph, the      *)
(* result is the graph again, with one copy of each object that has to move  *)
(* and the original of each that has not, and the original is as it was.     *)
AbstractSpec == Abstract!Spec
=============================================================================
