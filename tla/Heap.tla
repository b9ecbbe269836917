-------------------------------- MODULE Heap --------------------------------
(***************************************************************************)
(* The objects of mara, the zones they live in and the references between   *)
(* them (src/src/copy.c, vm.c, list.c, map.c, value.c).  An object is never *)
(* freed on its own: it goes with its zone, so a reference may only lead to *)
(* a zone that lives at least as long, which is what mara_copy is for.      *)
(*                                                                          *)
(* An object is the level of its zone and the set of the objects it refers  *)
(* to: the elements of a list, the keys and values of a map, the captures   *)
(* of a function; a string or a ref has none.  A value that is no object is *)
(* copied by assignment and is left out.                                    *)
(*                                                                          *)
(* The calls modelled are those the Debug build survives: the host calls VM *)
(* functions and native functions, VM functions call both, native functions *)
(* call native functions.  CallStack has the others, and the failures.      *)
(* SET_ARG is not a step: the arguments of a call are a slot of the caller's *)
(* operand stack that is not read after the call, but for mara_apply, which  *)
(* is left out.                                                             *)
(***************************************************************************)
EXTENDS Integers, Sequences, FiniteSets, SequencesExt

CONSTANTS
    Obj,        \* the addresses of objects
    Cache,      \* env->module_cache, an object of the permanent zone
    MaxLevel,   \* bound: level of the innermost zone (max_stack_frames - 1)
    MaxRefs     \* bound: how many objects one object refers to

ASSUME HeapAssumption ==
    /\ Cache \in Obj
    /\ MaxLevel \in Nat
    /\ MaxRefs \in Nat

Permanent == -1         \* level of env->permanent_zone

VARIABLES
    heap,   \* the objects whose zone is open, a function from Obj
    acts    \* the calls in progress: host first, the running one last

vars == <<heap, acts>>

Live == DOMAIN heap
Running == Last(acts)
Local == Running.zone       \* the level of ctx->current_zone

(* A call: its code, its local zone, the zone its result goes to, and the    *)
(* objects it holds, on the operand stack, in locals and arguments, or in C  *)
(* variables.                                                                *)
Act(code, zone, ret, held) == [code |-> code, zone |-> zone, ret |-> ret, held |-> held]

(* mara_create_env and mara_begin. *)
Init ==
    /\ heap = [o \in {Cache} |-> [zone |-> Permanent, refs |-> {}]]
    /\ acts = <<Act("host", 0, 0, {Cache})>>

(* What the running code can name: what it holds, and what mara_list_get,    *)
(* mara_map_get and GET_CAPTURE lead to from there.                          *)
Named ==
    {o \in Obj : \A S \in SUBSET Obj :
        (/\ Running.held \subseteq S
         /\ \A p \in S \cap Live : heap[p].refs \subseteq S) => o \in S}

-----------------------------------------------------------------------------
(* mara_copy and mara_deep_copy into a zone of level t.                      *)
Younger(t) == {o \in Live : heap[o].zone > t}

(* Closed: what a traversal from v that does not enter older zones must have *)
(* visited.  The objects it visits are in every closed set.                  *)
Closed(S, v, t) ==
    /\ v \in Younger(t) => v \in S
    /\ \A o \in S : heap[o].refs \cap Younger(t) \subseteq S

ToCopy(v, t) == {o \in Younger(t) : \A S \in SUBSET Younger(t) : Closed(S, v, t) => o \in S}

(* Where the copies go: one address for each object, however often it is     *)
(* referred to (copied_objs).                                                *)
Placements(v, t) ==
    {f \in [ToCopy(v, t) -> Obj \ Live] : \A o, p \in ToCopy(v, t) : f[o] = f[p] => o = p}

Image(f, o) == IF o \in DOMAIN f THEN f[o] ELSE o

CopyOf(f, o, t) ==
    [zone |-> t, refs |-> {Image(f, r) : r \in heap[o].refs}]

Copies(f) == {f[o] : o \in DOMAIN f}

(* The heap when the copies have been made. *)
WithCopies(f, t) ==
    [o \in Live \cup Copies(f) |->
        IF o \in Live THEN heap[o]
        ELSE CopyOf(f, CHOOSE p \in DOMAIN f : f[p] = o, t)]

WithoutNothing(h) == h

(* The heap when mara_zone_exit has given back the current zone. *)
WithoutZone(h) == [o \in {p \in DOMAIN h : h[p].zone # Local} |-> h[o]]

Hold(o) == [acts EXCEPT ![Len(acts)].held = @ \cup {o}]

-----------------------------------------------------------------------------
(* An object o of zone z that refers to what refs says. *)
WithObject(h, o, z, refs) ==
    [p \in DOMAIN h \cup {o} |-> IF p = o THEN [zone |-> z, refs |-> refs] ELSE h[p]]

(* mara_new_str, mara_new_ref, mara_new_list, mara_new_map: a native function *)
(* or the host makes an object in its local zone or in the return zone, a VM  *)
(* function in the current zone (a list, the copy of a constant).             *)
NewObject ==
    \E o \in Obj \ Live, z \in IF Running.code = "vm" THEN {Local} ELSE {Local, Running.ret} :
        /\ heap' = WithObject(heap, o, z, {})
        /\ acts' = Hold(o)

(* The instruction MAKE_CLOSURE: the captures are not copied, the closure is *)
(* in the youngest zone.                                                     *)
MakeClosure ==
    /\ Running.code = "vm"
    /\ \E o \in Obj \ Live, v \in Named :
        /\ heap' = WithObject(heap, o, Local, {v})
        /\ acts' = Hold(o)

(* mara_new_fn: the userdata of a native function is copied to its zone.     *)
NewFn ==
    /\ Running.code # "vm"
    /\ \E v \in Named, z \in {Local, Running.ret} :
        \E f \in Placements(v, z) : \E o \in Obj \ (Live \cup Copies(f)) :
            /\ heap' = WithObject(WithCopies(f, z), o, z, {Image(f, v)})
            /\ acts' = Hold(o)

(* A container or a closure takes a reference to v: mara_list_do_set,        *)
(* mara_list_push, mara_map_set, the instructions SET_CAPTURE and PUT, and   *)
(* module_cache as well.  old is what it replaces, if anything.              *)
PutUncopied(c, v, old) == heap' = [heap EXCEPT ![c].refs = (@ \ old) \cup {v}]

Put(c, v, old) ==
    LET t == heap[c].zone IN
    \E f \in Placements(v, t) :
        LET h == WithCopies(f, t) IN
        heap' = [h EXCEPT ![c].refs = (@ \ old) \cup {Image(f, v)}]

Store ==
    /\ \E c \in Named, v \in Named :
        \E old \in {{}} \cup {{r} : r \in heap[c].refs} :
            /\ Cardinality(heap[c].refs \ old) < MaxRefs
            /\ Put(c, v, old)
    /\ UNCHANGED acts

(* mara_list_delete, mara_list_swap_delete, mara_list_resize, mara_map_delete. *)
Delete ==
    \E c \in Named : \E r \in heap[c].refs :
        /\ heap' = [heap EXCEPT ![c].refs = @ \ {r}]
        /\ acts' = Hold(r)

-----------------------------------------------------------------------------
(* mara_call and the instruction CALL.  The callee is given all the caller   *)
(* can name.                                                                 *)
Enter(code, ret) ==
    /\ Local < MaxLevel
    /\ acts' = Append(acts, Act(code, Local + 1, ret, Running.held))
    /\ UNCHANGED heap

CallVmIntoCallee == Running.code = "vm" /\ Enter("vm", Local + 1)

CallVm == Running.code = "vm" /\ Enter("vm", Local)

HostCallsVm ==
    /\ Running.code = "host"
    /\ \E ret \in {Local, Running.ret} : Enter("vm", ret)

CallNative == Running.code = "vm" /\ Enter("native", Local)

MaraCallNative ==
    /\ Running.code # "vm"
    /\ \E ret \in {Local, Running.ret} : Enter("native", ret)

Caller == acts[Len(acts) - 1]

(* The caller goes on in a zone of level z, with the result o. *)
Resume(z, o) ==
    acts' = [Front(acts) EXCEPT ![Len(acts) - 1].held = @ \cup {o},
                                ![Len(acts) - 1].zone = z]

(* RETURN to a VM function, and a native function's return: the result is    *)
(* copied to the return zone, then the zone of the call is exited.           *)
ReturnAndExit ==
    /\ Len(acts) > 1
    /\ Running.code = "native" \/ Caller.code = "vm"
    /\ \E v \in Named : \E f \in Placements(v, Running.ret) :
        /\ heap' = WithoutZone(WithCopies(f, Running.ret))
        /\ Resume(Caller.zone, Image(f, v))

(* RETURN to the host: the zone of the call is not exited, it is now what    *)
(* mara_get_local_zone returns to the host.                                  *)
ReturnToHost ==
    /\ Len(acts) > 1
    /\ Running.code = "vm" /\ Caller.code = "host"
    /\ \E v \in Named : \E f \in Placements(v, Running.ret) :
        /\ heap' = WithCopies(f, Running.ret)
        /\ Resume(Local, Image(f, v))

(* mara_end: all zones of the context are cleaned up. *)
End ==
    /\ Running.code = "host"
    /\ heap' = [o \in {p \in Live : heap[p].zone = Permanent} |-> heap[o]]
    /\ acts' = <<Act("host", 0, 0, {Cache})>>

Next ==
    \/ NewObject \/ MakeClosure \/ Store \/ Delete \/ NewFn
    \/ CallVm \/ HostCallsVm \/ CallNative \/ MaraCallNative
    \/ ReturnAndExit \/ ReturnToHost
    \/ End

Spec == Init /\ [][Next]_vars

-----------------------------------------------------------------------------
Level == Permanent .. MaxLevel
Object == [zone : Level, refs : SUBSET Obj]
ActType == [code : {"host", "vm", "native"}, zone : 0 .. MaxLevel, ret : 0 .. MaxLevel,
            held : SUBSET Obj]

(* Every variable has its type, and no object is in a zone that is not open. *)
TypeOK ==
    /\ Live \subseteq Obj
    /\ heap \in [Live -> Object]
    /\ acts \in Seq(ActType) /\ acts # <<>>
    /\ \A o \in Live : heap[o].zone <= Local

(* What an object refers to lives at least as long as the object itself,     *)
(* through any sequence of stores, captures, calls and returns: mara_copy's  *)
(* test of the zone levels is made wherever a reference is stored.           *)
NoYoungerReference ==
    \A o \in Live : \A r \in heap[o].refs : r \in Live /\ heap[r].zone <= heap[o].zone

(* Whatever code can name is still there, for every call in progress: the    *)
(* zone that a return exits holds no value a caller got from the callee.     *)
NothingDangles ==
    \A i \in 1 .. Len(acts) :
        /\ acts[i].held \subseteq Live
        /\ \A o \in acts[i].held : heap[o].zone <= acts[i].zone
=============================================================================
