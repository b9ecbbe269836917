----------------------------- MODULE CallStack -----------------------------
(***************************************************************************)
(* The control stacks of one mara_exec_ctx_t: stack frames and the operand  *)
(* stack (src/src/vm.c), zones (src/src/zone.c), and the C activations that  *)
(* drive them: the host program, native functions, and mara_vm_execute.     *)
(*                                                                          *)
(* The build is the Debug one, where mara_assert stops the program: panic   *)
(* names the assertion, or the wild write of vm.c:351.  What values are     *)
(* computed is left out; which function is called, whether it fails and     *)
(* whether its result has to be copied deeply are free choices.             *)
(***************************************************************************)
EXTENDS Integers, Sequences, SequencesExt

CONSTANTS
    MaxFrames,  \* options.max_stack_frames, the number of zones as well
    MaxStack,   \* options.max_stack_size
    StackSizes  \* the stack_size of the VM functions that may be called

ASSUME CallStackAssumption ==
    /\ MaxFrames \in Nat \ {0}
    /\ MaxStack \in Nat
    /\ StackSizes \subseteq Nat

NoZone == -1    \* the NULL of mara_zone_enter

VARIABLES
    frames, \* the stack frames up to vm_state.fp; frames[1] is the root frame
    cur,    \* ctx->current_zone, as an index into the zones of the context
    calls,  \* the C activations: host, native functions, mara_vm_execute
    panic   \* "none", or why the program stopped

vars == <<frames, cur, calls, panic>>

Panics == {"none", "Could not allocate call zone", "Cannot alloc call zone",
           "Zone limit reached", "Unmatched zone", "Illegal zone exit",
           "Unmatched stack frame", "wild write"}

(* A frame: its function's kind, return_zone, stack and size.  zone is       *)
(* history: the zone that was entered for the call.                          *)
Frame(kind, ret, zone, base, size) ==
    [kind |-> kind, ret |-> ret, zone |-> zone, base |-> base, size |-> size]

(* An activation: its code, the frame it pushed (for mara_vm_execute, the    *)
(* frame it was entered with), its variable call_zone, and for a native      *)
(* function whether mara_call or the instruction CALL called it.             *)
Activation(code, frame, zone, by) ==
    [code |-> code, frame |-> frame, zone |-> zone, by |-> by]

(* mara_begin. *)
Init ==
    /\ frames = <<Frame("root", 0, 0, 0, 0)>>
    /\ cur = 0
    /\ calls = <<Activation("host", 1, 0, "main")>>
    /\ panic = "none"

Fp == Len(frames)
Running == Last(calls)

-----------------------------------------------------------------------------
Panic(why) == panic' = why /\ UNCHANGED <<frames, cur, calls>>

FrameAvailableAnyStack(size) == Fp < MaxFrames

(* mara_vm_alloc_stack_frame: there is a frame left, and the stack behind    *)
(* the current frame has room.                                               *)
FrameAvailable(size) ==
    /\ Fp < MaxFrames
    /\ Last(frames).base + Last(frames).size + size <= MaxStack

NewFrame(kind, ret, zone, size) ==
    Frame(kind, ret, zone, Last(frames).base + Last(frames).size, size)

(* mara_zone_enter moves current_zone before it knows whether there is one.  *)
ZoneAvailable == cur + 1 < MaxFrames

(* The zones that a native function or the host passes as the return zone:   *)
(* mara_get_local_zone and mara_get_return_zone.                             *)
ZoneArgs == {cur, Last(frames).ret}

InC == panic = "none" /\ Running.code \in {"host", "native"}
InVM == panic = "none" /\ Running.code = "vm"

(* mara_call of a native function.  A call that finds no frame is answered   *)
(* with an error and changes nothing here.                                   *)
MaraCallNative ==
    /\ InC
    /\ FrameAvailable(0)
    /\ IF ZoneAvailable
       THEN \E ret \in ZoneArgs :
            /\ frames' = Append(frames, NewFrame("native", ret, cur + 1, 0))
            /\ cur' = cur + 1
            /\ calls' = Append(calls, Activation("native", Fp + 1, cur + 1, "mara_call"))
            /\ UNCHANGED panic
       ELSE Panic("Could not allocate call zone")

(* mara_call of a VM function, with enough arguments: mara_vm_execute runs   *)
(* until the function returns or fails.                                      *)
MaraCallVm ==
    /\ InC
    /\ \E n \in StackSizes :
        /\ FrameAvailable(n + 1)
        /\ IF ZoneAvailable
           THEN \E ret \in ZoneArgs :
                /\ frames' = Append(frames, NewFrame("vm", ret, cur + 1, n + 1))
                /\ cur' = cur + 1
                /\ calls' = Append(calls, Activation("vm", Fp + 1, cur + 1, "mara_call"))
                /\ UNCHANGED panic
           ELSE Panic("Cannot alloc call zone")

CallVmZoneFirst ==
    /\ InVM
    /\ \E n \in StackSizes :
        /\ FrameAvailable(n + 1)
        /\ IF ZoneAvailable
           THEN /\ frames' = Append(frames, NewFrame("vm", cur + 1, cur + 1, n + 1))
                /\ cur' = cur + 1
                /\ UNCHANGED <<calls, panic>>
           ELSE Panic("Cannot alloc call zone")

(* The instruction CALL on a VM function (also through CALL_CAPTURE,         *)
(* CALL_ARG and CALL_LOCAL): the same activation runs the callee.            *)
CallVm ==
    /\ InVM
    /\ \E n \in StackSizes :
        /\ FrameAvailable(n + 1)
        /\ IF ZoneAvailable
           THEN /\ frames' = Append(frames, NewFrame("vm", cur, cur + 1, n + 1))
                /\ cur' = cur + 1
                /\ UNCHANGED <<calls, panic>>
           ELSE Panic("Cannot alloc call zone")

(* The instruction CALL on a native function: vm.c:351 stores through the    *)
(* new frame before it is known to exist, and nothing looks at the result    *)
(* of mara_zone_enter.                                                       *)
CallNative ==
    /\ InVM
    /\ IF FrameAvailable(0)
       THEN LET zone == IF ZoneAvailable THEN cur + 1 ELSE NoZone IN
            /\ frames' = Append(frames, NewFrame("native", cur, zone, 0))
            /\ cur' = cur + 1
            /\ calls' = Append(calls, Activation("native", Fp + 1, zone, "CALL"))
            /\ UNCHANGED panic
       ELSE Panic("wild write")

(* mara_vm_execute returns an error, of an intrinsic, a call with too few    *)
(* arguments, a call of what is no function, or the stack's limit: fp is     *)
(* saved, neither frames nor zones are given back.                           *)
VmError ==
    /\ InVM
    /\ calls' = Front(calls)
    /\ UNCHANGED <<frames, cur, panic>>

ReturnKeepingZone ==
    /\ InVM
    /\ frames' = Front(frames)
    /\ calls' = IF frames[Fp - 1].kind \in {"root", "native"} THEN Front(calls) ELSE calls
    /\ UNCHANGED <<cur, panic>>

ReturnPastNative ==
    /\ InVM
    /\ frames' = Front(frames)
    /\ IF frames[Fp - 1].kind = "root"
       THEN calls' = Front(calls) /\ UNCHANGED cur
       ELSE cur' = cur - 1 /\ UNCHANGED calls
    /\ UNCHANGED panic

(* The instruction RETURN: what the frame below belongs to decides whether   *)
(* mara_vm_execute returns or goes on with the caller.                       *)
Return ==
    /\ InVM
    /\ LET below == frames[Fp - 1] IN
       IF below.kind \in {"root", "native"}
       THEN /\ frames' = Front(frames)
            /\ calls' = Front(calls)
            /\ UNCHANGED <<cur, panic>>
       ELSE IF cur = 0
       THEN Panic("Illegal zone exit")
       ELSE /\ frames' = Front(frames)
            /\ cur' = cur - 1
            /\ UNCHANGED <<calls, panic>>

(* A native function returns: mara_zone_exit(call_zone), then                *)
(* mara_vm_pop_stack_frame.                                                  *)
ExitZone(act, next) ==
    IF act.zone # cur THEN Panic("Unmatched zone")
    ELSE IF cur = 0 THEN Panic("Illegal zone exit")
    ELSE next

PopFrame(act) ==
    IF act.frame # Fp THEN Panic("Unmatched stack frame")
    ELSE /\ frames' = Front(frames)
         /\ cur' = cur - 1
         /\ calls' = Front(calls)
         /\ UNCHANGED panic

(* Back to mara_call, with or without an error, or to the instruction CALL   *)
(* without one.                                                              *)
NativeReturns ==
    /\ InC /\ Running.code = "native"
    /\ ExitZone(Running, PopFrame(Running))

(* Back to the instruction CALL with an error: the zone is exited, the frame *)
(* stays, and mara_vm_execute returns the error to its caller.               *)
NativeFails ==
    /\ InC /\ Running.code = "native" /\ Running.by = "CALL"
    /\ ExitZone(Running,
            /\ cur' = cur - 1
            /\ calls' = Front(Front(calls))
            /\ UNCHANGED <<frames, panic>>)

(* mara_copy of a list, a map or a function into an older zone, by anyone:   *)
(* the result of a call, an element stored in a container, a capture.  It    *)
(* works in a zone of its own.                                               *)
DeepCopy ==
    /\ panic = "none"
    /\ ~ ZoneAvailable
    /\ Panic("Zone limit reached")

(* mara_parse and mara_compile, called by the host or a native function,     *)
(* work in a zone of their own, which they exit.  When there is none they    *)
(* answer an error and current_zone stays where mara_zone_enter moved it     *)
(* (once: Environment goes on from there).                                   *)
ParseOrCompileFails ==
    /\ InC
    /\ ~ ZoneAvailable /\ cur < MaxFrames
    /\ cur' = cur + 1
    /\ UNCHANGED <<frames, calls, panic>>

(* mara_end, and mara_begin of the same context. *)
End ==
    /\ panic = "none" /\ Running.code = "host" /\ calls # <<>>
    /\ frames' = <<Frame("root", 0, 0, 0, 0)>>
    /\ cur' = 0
    /\ UNCHANGED <<calls, panic>>

Next ==
    \/ MaraCallNative \/ MaraCallVm
    \/ CallVm \/ CallNative \/ VmError \/ Return
    \/ NativeReturns \/ NativeFails
    \/ DeepCopy \/ ParseOrCompileFails \/ End

Spec == Init /\ [][Next]_vars

-----------------------------------------------------------------------------
Level == 0 .. MaxFrames
FrameType == [kind : {"root", "vm", "native"}, ret : Level,
              zone : Level \cup {NoZone}, base : 0 .. MaxStack, size : 0 .. MaxStack]
CallType == [code : {"host", "vm", "native"}, frame : 1 .. MaxFrames,
             zone : Level \cup {NoZone}, by : {"main", "mara_call", "CALL"}]

(* Every variable has its type; the frames of a run lie behind each other on *)
(* the operand stack and within it.                                          *)
TypeOK ==
    /\ frames \in Seq(FrameType)
    /\ Fp \in 1 .. MaxFrames
    /\ cur \in Level
    /\ calls \in Seq(CallType)
    /\ panic \in Panics
    /\ \A i \in 1 .. Fp :
         /\ frames[i].base + frames[i].size <= MaxStack
         /\ i > 1 => frames[i].base = frames[i - 1].base + frames[i - 1].size

Alive == panic = "none"

(* mara_vm_execute always runs a VM function, in the zone that was entered   *)
(* for it, whatever was called, failed or was left behind before: the values *)
(* it makes are in the zone its own RETURN exits, so RETURN neither exits    *)
(* the zone of another call nor keeps its own.                               *)
VmRunsInItsZone ==
    Alive /\ Running.code = "vm" =>
        Last(frames).kind = "vm" /\ Last(frames).zone = cur

(* The zone a result will be copied to is still open when the call returns,  *)
(* and older than the zone of the call, for all calls in progress and those  *)
(* that an error left behind.                                                *)
ReturnZonesOpen ==
    Alive => \A i \in 2 .. Fp :
        /\ frames[i].ret <= cur
        /\ frames[i].zone # NoZone => frames[i].ret < frames[i].zone

(* Whatever a native function calls back, its own frame and its own zone are *)
(* still there when it goes on: no RETURN below it pops the one or exits     *)
(* the other.                                                                *)
NativeKeepsFrameAndZone ==
    Alive => \A i \in 1 .. Len(calls) : calls[i].code = "native" =>
        /\ calls[i].frame <= Fp
        /\ frames[calls[i].frame].kind = "native"
        /\ calls[i].zone <= cur

-----------------------------------------------------------------------------
(* What comments of the code say, and the code does not keep.               *)

(* vm.c:107 "The VM always copy the result into the return zone": the frame  *)
(* whose return zone receives the result of mara_call is the frame that this *)
(* mara_call pushed.                                                         *)
ResultOfOwnCall ==
    [][(Len(calls') < Len(calls) /\ Running.code = "vm" /\ frames' # frames)
        => Fp = Running.frame]_vars

(* vm.c:103 "There are as many zones as stack frames", and the assertion     *)
(* below it: whoever gets a frame for a VM function gets a zone as well,     *)
(* after any sequence of calls, returns and failures.                        *)
AsManyZonesAsFrames == panic # "Cannot alloc call zone"
=============================================================================
