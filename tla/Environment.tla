---------------------------- MODULE Environment ----------------------------
(***************************************************************************)
(* The life of an environment and of its contexts (src/src/env.c), and the  *)
(* finalizers of zones (src/src/zone.c): a list whose array has moved to    *)
(* malloc (src/src/list.c), a function being compiled                       *)
(* (src/src/compiler.c) and the list of module loaders (src/src/module.c)   *)
(* have memory, or are referred to from memory, that is not in their zone.  *)
(*                                                                          *)
(* Behind the zones of a context lie its stack frames.  mara_zone_enter      *)
(* moves current_zone there when there is no zone left, and what is read     *)
(* there as a zone is that of the root frame: in the first place a zone that  *)
(* looks as new, of level 0, in the others anything.                         *)
(***************************************************************************)
EXTENDS Integers, Sequences, SequencesExt, FiniteSets

CONSTANTS
    Finalizers, \* the callbacks that are registered at a time: a bound
    Sizes,      \* how much memory the options of mara_begin ask for
    MaxBlocks,  \* how many blocks of memory for contexts there may be: a bound
    MaxZones,   \* options.max_stack_frames
    MaxPast     \* how far current_zone may get behind the zones: a bound

ASSUME EnvironmentAssumption ==
    /\ Sizes \subseteq Nat
    /\ MaxBlocks \in Nat /\ MaxZones \in Nat \ {0} /\ MaxPast \in Nat

VARIABLES
    blocks,     \* the contexts' memory, in the permanent zone: mara_exec_ctx_t.size of each
    free,       \* env->free_contexts
    ref_count,  \* env->ref_count
    zones,      \* the open zones of each block, the context's first one first, and
                \* then what lies behind them up to current_zone
    needs,      \* history: the memory that the options of the context asked for
    permanent,  \* the finalizers of env->permanent_zone
    armed,      \* history: what has been registered and not run
    misrun,     \* history: a finalizer ran that was not to run any more
    lost,       \* history: what mara_end has left behind, because it did not begin
                \* with a zone of the context
    panic       \* "none", or why the program stopped

vars == <<blocks, free, ref_count, zones, needs, permanent, armed, misrun, lost, panic>>

(* A zone: its finalizers, and the snapshots of the functions that are being *)
(* compiled in it, where zone->finalizers was.  Only mara_compile's zone has *)
(* snapshots, and nothing but mara_compile runs while it is open.            *)
Zone(kind) == [kind |-> kind, finalizers |-> <<>>, snapshots |-> <<>>]

Init ==
    /\ blocks = <<>> /\ free = <<>> /\ ref_count = 0
    /\ zones = <<>> /\ needs = <<>>
    /\ permanent = <<>>
    /\ armed = {} /\ misrun = FALSE /\ lost = {}
    /\ panic = "none"

InUse == {c \in DOMAIN blocks : zones[c] # <<>>}
Current(c) == Last(zones[c])
Depth(c) == Len(zones[c])
ZoneAvailable(c) == Depth(c) < MaxZones

(* Nothing but mara_compile runs while its zone is open. *)
Compiling == {c \in InUse : Current(c).kind = "compiler"}
Running(c) == panic = "none" /\ c \in InUse /\ Compiling = {}

Panic(why) ==
    /\ panic' = why
    /\ UNCHANGED <<blocks, free, ref_count, zones, needs, permanent, armed, misrun, lost>>

(* Of some lists of finalizers: what is in them, and that nothing is in them *)
(* twice.                                                                    *)
InLists(lists) == UNION {ToSet(lists[i]) : i \in DOMAIN lists}

NoneTwice(lists) ==
    \A i, j \in DOMAIN lists : \A m \in DOMAIN lists[i], n \in DOMAIN lists[j] :
        lists[i][m] = lists[j][n] => i = j /\ m = n

(* The finalizers of the lists run, whether or not they have run before.     *)
Run(lists) ==
    /\ armed' = armed \ InLists(lists)
    /\ misrun' = (misrun \/ ~ InLists(lists) \subseteq armed \/ ~ NoneTwice(lists))

-----------------------------------------------------------------------------
FitsAnySize(size) == free # <<>>

(* The first free context is taken if it is large enough. *)
Fits(size) == free # <<>> /\ blocks[Head(free)] >= size

(* mara_begin: a block that is used for less stays as large as it is.        *)
Begin(size) ==
    /\ panic = "none" /\ Compiling = {}
    /\ \/ /\ Fits(size)
          /\ free' = Tail(free)
          /\ zones' = [zones EXCEPT ![Head(free)] = <<Zone("call")>>]
          /\ needs' = [needs EXCEPT ![Head(free)] = size]
          /\ UNCHANGED blocks
       \/ /\ ~ Fits(size)
          /\ Len(blocks) < MaxBlocks
          /\ blocks' = Append(blocks, size)
          /\ zones' = Append(zones, <<Zone("call")>>)
          /\ needs' = Append(needs, size)
          /\ UNCHANGED free
    /\ ref_count' = ref_count + 1
    /\ UNCHANGED <<permanent, armed, misrun, lost, panic>>

Lists(c, from, to) == [i \in 1 .. to - from + 1 |-> zones[c][from + i - 1].finalizers]

CleanedButFirst(c) == Lists(c, 2, Depth(c))

(* mara_end cleans up as many zones as the level of the current one says:    *)
(* every one that is open, but behind the zones only that place.             *)
Cleaned(c) == Lists(c, IF Depth(c) <= MaxZones THEN 1 ELSE Depth(c), Depth(c))

Abandoned(c) == IF Depth(c) <= MaxZones THEN {} ELSE InLists(Lists(c, 1, Depth(c) - 1))

End(c) ==
    /\ Running(c)
    /\ Run(Cleaned(c))
    /\ lost' = lost \cup Abandoned(c)
    /\ zones' = [zones EXCEPT ![c] = <<>>]
    /\ free' = <<c>> \o free
    /\ ref_count' = ref_count - 1
    /\ UNCHANGED <<blocks, needs, permanent, panic>>

(* Further behind, what mara_end takes for finalizers may be anything.       *)
EndWildly(c) == Running(c) /\ Depth(c) > MaxZones + 1 /\ Panic("wild zone")

EnteredUnchecked(c, kind) == [zones EXCEPT ![c] = Append(@, Zone(kind))]

(* mara_zone_enter: without a zone left it returns NULL, and current_zone    *)
(* has been moved all the same.                                              *)
Entered(c, kind) ==
    [zones EXCEPT ![c] = Append(@, Zone(IF ZoneAvailable(c) THEN kind ELSE "past"))]

(* A call, a deep copy or mara_parse enters a zone.  mara_parse answers with *)
(* an error if there is none and does not move current_zone back; the CALL   *)
(* of a native function goes on (vm.c:360).                                  *)
Enter(c) ==
    /\ Running(c) /\ Depth(c) < MaxZones + MaxPast
    /\ zones' = Entered(c, "call")
    /\ UNCHANGED <<blocks, free, ref_count, needs, permanent, armed, misrun, lost, panic>>

(* Other calls and deep copies assert that there is one. *)
EnterFails(c) == Running(c) /\ ~ ZoneAvailable(c) /\ Panic("no zone")

(* mara_zone_exit *)
ExitZone(c) ==
    /\ Run(<<Current(c).finalizers>>)
    /\ zones' = [zones EXCEPT ![c] = Front(@)]
    /\ UNCHANGED <<blocks, free, ref_count, needs, permanent, lost, panic>>

(* A native function, which knows its zone, returns, or the VM gives back    *)
(* the current zone.                                                         *)
Exit(c) ==
    /\ Running(c) /\ Depth(c) > 1
    /\ IF Depth(c) <= MaxZones THEN ExitZone(c) ELSE Panic("Unmatched zone")

(* mara_add_finalizer puts the new one in front: a list of an open zone      *)
(* grows for the first time, or the first loader is added.                   *)
Register(c, i, f) ==
    /\ Running(c) /\ i <= Depth(c)
    /\ f \in Finalizers \ armed
    /\ zones' = [zones EXCEPT ![c][i].finalizers = <<f>> \o @]
    /\ armed' = armed \cup {f}
    /\ UNCHANGED <<blocks, free, ref_count, needs, permanent, misrun, lost, panic>>

(* In the second place behind the zones, and further, memory that belongs to *)
(* something else is written.                                                *)
RegisterWildly(c) == Running(c) /\ Depth(c) > MaxZones + 1 /\ Panic("wild write")

(* A list in the module cache grows. *)
RegisterPermanent(f) ==
    /\ panic = "none" /\ InUse # {} /\ Compiling = {}
    /\ f \in Finalizers \ armed
    /\ permanent' = <<f>> \o permanent
    /\ armed' = armed \cup {f}
    /\ UNCHANGED <<blocks, free, ref_count, zones, needs, misrun, lost, panic>>

-----------------------------------------------------------------------------
(* mara_compile, in a zone of its own; without one it answers with an error  *)
(* at once, and current_zone stays where it is.                              *)
Compile(c) ==
    /\ Running(c) /\ Depth(c) < MaxZones + MaxPast
    /\ zones' = Entered(c, "compiler")
    /\ UNCHANGED <<blocks, free, ref_count, needs, permanent, armed, misrun, lost, panic>>

(* mara_compiler_begin_function: the snapshot has what is older than the     *)
(* arrays of the function, for which a finalizer is added.                   *)
Begun(zone, f) ==
    [zone EXCEPT !.snapshots = Append(@, zone.finalizers), !.finalizers = <<f>> \o @]

BeginFunction(c, f) ==
    /\ c \in Compiling
    /\ f \in Finalizers \ armed
    /\ zones' = [zones EXCEPT ![c][Depth(c)] = Begun(@, f)]
    /\ armed' = armed \cup {f}
    /\ UNCHANGED <<blocks, free, ref_count, needs, permanent, misrun, lost, panic>>

(* What mara_zone_restore runs, and what it leaves. *)
Newer(zone) == SubSeq(zone.finalizers, 1, Len(zone.finalizers) - Len(Last(zone.snapshots)))

Restored(zone) == [zone EXCEPT !.snapshots = Front(@), !.finalizers = Last(zone.snapshots)]

(* mara_compiler_end_function. *)
EndFunction(c) ==
    /\ c \in Compiling /\ Current(c).snapshots # <<>>
    /\ Run(<<Newer(Current(c))>>)
    /\ zones' = [zones EXCEPT ![c][Depth(c)] = Restored(@)]
    /\ UNCHANGED <<blocks, free, ref_count, needs, permanent, lost, panic>>

(* mara_compile ends, with an error when functions are still being compiled. *)
CompileEnds(c) == c \in Compiling /\ ExitZone(c)

(* mara_destroy_env: mara_reset cleans up the permanent zone; the host may   *)
(* create another environment.                                               *)
Destroy ==
    /\ panic = "none" /\ ref_count = 0
    /\ Run(<<permanent>>)
    /\ permanent' = <<>>
    /\ blocks' = <<>> /\ free' = <<>> /\ zones' = <<>> /\ needs' = <<>>
    /\ UNCHANGED <<ref_count, lost, panic>>

Next ==
    \/ \E size \in Sizes : Begin(size)
    \/ \E c \in DOMAIN blocks :
        \/ End(c) \/ EndWildly(c) \/ Enter(c) \/ EnterFails(c) \/ Exit(c) \/ RegisterWildly(c)
        \/ \E f \in Finalizers :
              BeginFunction(c, f) \/ \E i \in 1 .. MaxZones + 1 : Register(c, i, f)
        \/ Compile(c) \/ EndFunction(c) \/ CompileEnds(c)
    \/ \E f \in Finalizers : RegisterPermanent(f)
    \/ Destroy

Spec == Init /\ [][Next]_vars

-----------------------------------------------------------------------------
ListType == Seq(Finalizers)
ZoneType ==
    [kind : {"call", "compiler", "past"}, finalizers : ListType, snapshots : Seq(ListType)]
Panics == {"none", "no zone", "wild zone", "wild write", "Unmatched zone"}

(* Every variable has its type, and what is current is a zone of the context *)
(* unless they are all in use.                                               *)
TypeOK ==
    /\ blocks \in Seq(Sizes) /\ Len(blocks) <= MaxBlocks
    /\ free \in Seq(DOMAIN blocks)
    /\ ref_count \in Nat
    /\ zones \in Seq(Seq(ZoneType)) /\ Len(zones) = Len(blocks)
    /\ \A c \in DOMAIN blocks :
          /\ Depth(c) <= MaxZones + MaxPast
          /\ \A i \in 1 .. Depth(c) : zones[c][i].kind = "past" <=> i > MaxZones
    /\ needs \in Seq(Sizes) /\ Len(needs) = Len(blocks)
    /\ permanent \in ListType
    /\ armed \subseteq Finalizers
    /\ misrun \in BOOLEAN
    /\ lost \subseteq Finalizers
    /\ panic \in Panics

(* A context in use has memory that nobody else has, which is large enough   *)
(* for it although it was made for another one, and the environment cannot   *)
(* be destroyed before it has ended.                                         *)
ContextsApart ==
    /\ IsInjective(free)
    /\ ToSet(free) = DOMAIN blocks \ InUse
    /\ \A c \in InUse : needs[c] <= blocks[c]
    /\ ref_count = Cardinality(InUse)

(* Who has a list of finalizers: the permanent zone, and every open zone.    *)
PermanentZone == <<0, 0>>
Holders ==
    {PermanentZone} \cup {h \in (DOMAIN blocks) \X (1 .. MaxZones + MaxPast) : h[2] <= Depth(h[1])}
ListOf ==
    [h \in Holders |-> IF h = PermanentZone THEN permanent ELSE zones[h[1]][h[2]].finalizers]

(* What a zone keeps outside of it is released exactly once: no finalizer    *)
(* runs that has run already, and one that has not run is in the list of one *)
(* zone that is still to be cleaned up, also after functions were compiled   *)
(* in it, to the end or not, and after calls that left their zones open.     *)
(* The exception is a context that ends after mara_compile or mara_parse has *)
(* failed for want of a zone: the finalizers of all its zones are lost, and  *)
(* those only.                                                               *)
FinalizedOnce ==
    /\ ~ misrun
    /\ NoneTwice(ListOf) /\ armed = InLists(ListOf) \cup lost
    /\ lost \cap InLists(ListOf) = {}
=============================================================================
