------------------------------ MODULE VmProofs ------------------------------
(***************************************************************************)
(* Proofs about the two models of src/src/vm.c.                             *)
(*                                                                          *)
(* CallStack, for every number of frames, every stack size and all          *)
(* functions: an error leaves frames behind and RETURN decides by the frame  *)
(* below it what to do, so that what holds of the frame that runs depends   *)
(* on every frame, dead or alive: a frame above that of a VM function has    *)
(* the next zone, and the frames and zones above those of a native function *)
(* are younger.                                                             *)
(*                                                                          *)
(* Loop, for every verified function and every size of the stacks: nothing  *)
(* is checked at run time, so that the stack of each frame has to be as high *)
(* as the verifier has counted where the function is or goes on, and every   *)
(* reference has to be one to an object of its kind.                        *)
(***************************************************************************)
EXTENDS CallStack, Loop, SequenceTheorems, TLAPS

(* mara_vm_execute is called by the host or a native function, and calls     *)
(* only native functions.                                                    *)
CallsNest ==
    /\ Len(calls) >= 1 /\ calls[1].code = "host"
    /\ \A i \in 2 .. Len(calls) :
         /\ calls[i].code # "host"
         /\ calls[i].code = "vm" => calls[i - 1].code # "vm"
         /\ calls[i].code = "native" => (calls[i].by = "CALL" <=> calls[i - 1].code = "vm")

FramesNest ==
    /\ frames[1].kind = "root" /\ frames[1].ret = 0
    /\ \A i \in 1 .. Fp : frames[i].kind = "vm" => frames[i].zone \in 0 .. MaxFrames - 1
    /\ \A i \in 2 .. Fp :
         frames[i - 1].kind = "vm" => frames[i].zone \in {NoZone, frames[i - 1].zone + 1}
    /\ frames[Fp].kind = "vm" =>
         frames[Fp].zone = cur \/ (cur = MaxFrames /\ calls[Len(calls)].code # "vm")
    /\ calls[Len(calls)].code = "vm" => frames[Fp].kind = "vm"

ReturnZonesGrow ==
    /\ \A i, j \in 1 .. Fp : i <= j => frames[i].ret <= frames[j].ret
    /\ \A i \in 1 .. Fp : frames[i].ret <= cur
    /\ \A i \in 2 .. Fp : frames[i].zone # NoZone => frames[i].ret < frames[i].zone

(* What is above the frame of a native function in progress.                 *)
NativeBelow(c) ==
    /\ c.frame \in 2 .. Fp
    /\ frames[c.frame].kind = "native"
    /\ frames[c.frame].zone = c.zone
    /\ c.zone <= cur
    /\ c.frame < Fp => c.zone < cur
    /\ c.by = "CALL" => frames[c.frame - 1].kind = "vm"
    /\ \A k \in c.frame + 1 .. Fp : frames[k].kind = "vm" => c.zone < frames[k].zone

(* A native function and one that it has called.                             *)
NativeAbove(c, d) ==
    /\ c.frame < d.frame
    /\ d.zone # NoZone => /\ c.zone < d.zone
                          /\ c.frame + 1 < d.frame => c.zone + 1 < d.zone

NativesNest ==
    /\ \A i \in 1 .. Len(calls) : calls[i].code = "native" => NativeBelow(calls[i])
    /\ \A i, j \in 1 .. Len(calls) :
         i < j /\ calls[i].code = "native" /\ calls[j].code = "native" =>
         NativeAbove(calls[i], calls[j])

Nested == CallsNest /\ FramesNest /\ ReturnZonesGrow /\ NativesNest

IInv == TypeOK /\ (Alive => Nested)

USE CallStackAssumption DEF NoZone, Fp, Level

-----------------------------------------------------------------------------
LEMMA FrontFacts ==
    ASSUME NEW S, NEW s \in Seq(S), Len(s) >= 1
    PROVE  /\ Front(s) \in Seq(S)
           /\ Len(Front(s)) = Len(s) - 1
           /\ \A i \in 1 .. Len(s) - 1 : Front(s)[i] = s[i]
<1>1. Len(s) \in Nat /\ \A i \in 1 .. Len(s) - 1 : s[i] \in S
    OBVIOUS
<1> DEFINE n == Len(s) - 1
<1>2. 1 \in Int /\ n \in Nat /\ \A i \in 1 .. n : s[i] \in S
    BY <1>1
<1>3. /\ SubSeq(s, 1, n) \in Seq(S)
      /\ Len(SubSeq(s, 1, n)) = IF 1 <= n THEN n - 1 + 1 ELSE 0
      /\ \A i \in 1 .. n - 1 + 1 : SubSeq(s, 1, n)[i] = s[1 + i - 1]
    <2> HIDE DEF n
    <2> QED BY <1>2, SubSeqProperties
<1> DEFINE t == SubSeq(s, 1, n)
<1>4. t \in Seq(S) /\ Len(t) = n /\ \A i \in 1 .. n : t[i] = s[i]
    <2> HIDE DEF n, t
    <2>1. /\ t \in Seq(S) /\ Len(t) = IF 1 <= n THEN n - 1 + 1 ELSE 0
          /\ \A i \in 1 .. n - 1 + 1 : t[i] = s[1 + i - 1]
        BY <1>3 DEF t
    <2> QED BY <1>2, <2>1
<1>5. Front(s) = t
    BY DEF Front
<1> HIDE DEF t
<1> QED BY <1>4, <1>5

(* What IInv says of the call that runs and of the last frame.               *)
LEMMA IInvFacts ==
    ASSUME IInv, Alive
    PROVE  /\ Fp \in 1 .. MaxFrames /\ cur \in 0 .. MaxFrames
           /\ frames \in Seq(FrameType) /\ calls \in Seq(CallType)
           /\ \A i \in 1 .. Fp :
                /\ frames[i] \in FrameType
                /\ frames[i].ret \in Nat /\ frames[i].zone \in Int
                /\ frames[i].base \in Nat /\ frames[i].size \in Nat
           /\ \A i \in 1 .. Len(calls) :
                /\ calls[i] \in CallType
                /\ calls[i].frame \in Nat /\ calls[i].zone \in Int
           /\ Len(calls) \in Nat \ {0}
           /\ Running = calls[Len(calls)] /\ Last(frames) = frames[Fp]
           /\ Running.code = "vm" =>
                 /\ Fp >= 2 /\ Len(calls) >= 2 /\ cur < MaxFrames
                 /\ frames[Fp].kind = "vm" /\ frames[Fp].zone = cur
<1>1. /\ Fp \in 1 .. MaxFrames /\ cur \in 0 .. MaxFrames
      /\ frames \in Seq(FrameType) /\ calls \in Seq(CallType)
    BY DEF IInv, TypeOK
<1>2. Len(calls) \in Nat \ {0}
    BY <1>1 DEF IInv, Nested, CallsNest
<1>3. Running = calls[Len(calls)] /\ Last(frames) = frames[Fp]
    BY DEF Running, Last
<1>4. ASSUME NEW i \in 1 .. Fp
      PROVE  /\ frames[i] \in FrameType
             /\ frames[i].ret \in Nat /\ frames[i].zone \in Int
             /\ frames[i].base \in Nat /\ frames[i].size \in Nat
    <2>1. frames[i] \in FrameType
        BY <1>1
    <2> QED BY <2>1 DEF FrameType
<1>5. ASSUME NEW i \in 1 .. Len(calls)
      PROVE  /\ calls[i] \in CallType
             /\ calls[i].frame \in Nat /\ calls[i].zone \in Int
    <2>1. calls[i] \in CallType
        BY <1>1
    <2> QED BY <2>1 DEF CallType
<1>6. ASSUME Running.code = "vm"
      PROVE  /\ Fp >= 2 /\ Len(calls) >= 2 /\ cur < MaxFrames
             /\ frames[Fp].kind = "vm" /\ frames[Fp].zone = cur
    BY <1>1, <1>2, <1>3, <1>6 DEF IInv, Nested, CallsNest, FramesNest
<1> QED BY <1>1, <1>2, <1>3, <1>4, <1>5, <1>6

(* What a frame with the next zone or none leaves of the order of frames.    *)
LEMMA PushedFrames ==
    ASSUME IInv, Alive, NEW kind, NEW ret \in Nat, NEW zone \in Int,
           Fp \in Nat \ {0}, cur \in Nat, cur < MaxFrames,
           zone = cur + 1 \/ (zone = NoZone /\ kind = "native"),
           zone = cur + 1 => cur + 1 < MaxFrames,
           frames[Fp].ret <= ret, ret <= cur, \A i \in 1 .. Fp : frames[i].ret \in Nat,
           Fp' = Fp + 1, cur' = cur + 1,
           \A i \in 1 .. Fp : frames'[i] = frames[i],
           frames'[Fp + 1].kind = kind, frames'[Fp + 1].ret = ret, frames'[Fp + 1].zone = zone,
           calls'[Len(calls')].code = "vm" => kind = "vm"
    PROVE  FramesNest' /\ ReturnZonesGrow'
<1> HIDE DEF Fp
<1>1. FramesNest /\ ReturnZonesGrow
    BY DEF IInv, Nested
<1>2. ASSUME NEW i \in 1 .. Fp' PROVE i \in 1 .. Fp \/ i = Fp + 1
    OBVIOUS
<1>3. 1 \in 1 .. Fp /\ Fp \in 1 .. Fp
    OBVIOUS
<1>4. FramesNest'
    <2>1. frames'[1].kind = "root" /\ frames'[1].ret = 0
        BY <1>1, <1>3 DEF FramesNest
    <2>2. ASSUME NEW i \in 1 .. Fp', frames'[i].kind = "vm"
          PROVE  frames'[i].zone \in 0 .. MaxFrames - 1
        BY <1>1, <1>2, <2>2 DEF FramesNest
    <2>3. ASSUME NEW i \in 2 .. Fp', frames'[i - 1].kind = "vm"
          PROVE  frames'[i].zone \in {NoZone, frames'[i - 1].zone + 1}
        <3>1. CASE i \in 2 .. Fp
            <4>1. i \in 1 .. Fp /\ i - 1 \in 1 .. Fp
                BY <3>1
            <4> QED BY <1>1, <2>3, <3>1, <4>1 DEF FramesNest
        <3>2. CASE i = Fp + 1
            <4>1. i - 1 = Fp
                BY <3>2
            <4>2. frames[Fp].zone = cur
                BY <1>1, <1>3, <2>3, <4>1 DEF FramesNest
            <4> QED BY <1>3, <3>2, <4>1, <4>2
        <3> QED BY <3>1, <3>2
    <2>4. frames'[Fp'].kind = "vm" => frames'[Fp'].zone = cur'
        OBVIOUS
    <2>5. calls'[Len(calls')].code = "vm" => frames'[Fp'].kind = "vm"
        OBVIOUS
    <2> QED BY <2>1, <2>2, <2>3, <2>4, <2>5 DEF FramesNest
<1>5. ReturnZonesGrow'
    <2>1. ASSUME NEW i \in 1 .. Fp
          PROVE  /\ frames'[i].ret = frames[i].ret /\ frames[i].ret \in Nat
                 /\ frames[i].ret <= frames[Fp].ret /\ frames[i].ret <= cur
        BY <1>1, <1>3 DEF ReturnZonesGrow
    <2>2. ASSUME NEW i \in 1 .. Fp PROVE frames'[i].ret <= ret
        <3>1. frames[Fp].ret \in Nat
            BY <1>3
        <3> QED BY <2>1, <3>1
    <2>3. ASSUME NEW i \in 1 .. Fp', NEW j \in 1 .. Fp', i <= j
          PROVE  frames'[i].ret <= frames'[j].ret
        <3>1. CASE j \in 1 .. Fp
            <4>1. i \in 1 .. Fp
                BY <2>3, <3>1
            <4> QED BY <1>1, <2>3, <3>1, <4>1 DEF ReturnZonesGrow
        <3>2. CASE j = Fp + 1
            BY <1>2, <2>2, <3>2
        <3> QED BY <1>2, <3>1, <3>2
    <2>4. ASSUME NEW i \in 1 .. Fp' PROVE frames'[i].ret <= cur'
        <3>1. CASE i \in 1 .. Fp
            BY <2>1, <3>1
        <3>2. CASE i = Fp + 1
            BY <3>2
        <3> QED BY <1>2, <3>1, <3>2
    <2>5. ASSUME NEW i \in 2 .. Fp', frames'[i].zone # NoZone
          PROVE  frames'[i].ret < frames'[i].zone
        <3>1. CASE i \in 2 .. Fp
            <4>1. i \in 1 .. Fp
                BY <3>1
            <4> QED BY <1>1, <2>5, <3>1, <4>1 DEF ReturnZonesGrow
        <3>2. CASE i = Fp + 1
            BY <2>5, <3>2
        <3> QED BY <3>1, <3>2
    <2> QED BY <2>3, <2>4, <2>5 DEF ReturnZonesGrow
<1> QED BY <1>4, <1>5

(* What is above a native function in progress when a frame is pushed.       *)
LEMMA PushedAbove ==
    ASSUME IInv, Alive, NEW zone \in Int,
           Fp \in Nat \ {0}, cur \in Nat,
           Fp' = Fp + 1, cur' = cur + 1,
           \A k \in 1 .. Fp : frames'[k] = frames[k],
           frames'[Fp + 1].kind = "vm" => frames'[Fp + 1].zone = cur + 1,
           NEW i \in 1 .. Len(calls), calls'[i] = calls[i], calls[i].code = "native",
           calls[i].zone \in Int
    PROVE  NativeBelow(calls[i])'
<1> HIDE DEF Fp
<1>1. NativeBelow(calls[i])
    BY DEF IInv, Nested, NativesNest
<1> DEFINE b == calls[i].frame
           z == calls[i].zone
<1>2. /\ b \in 2 .. Fp /\ frames[b].kind = "native" /\ frames[b].zone = z
      /\ z <= cur
      /\ calls[i].by = "CALL" => frames[b - 1].kind = "vm"
      /\ \A k \in b + 1 .. Fp : frames[k].kind = "vm" => z < frames[k].zone
    BY <1>1 DEF NativeBelow
<1>3. /\ calls'[i].frame = b /\ calls'[i].zone = z /\ calls'[i].by = calls[i].by
    OBVIOUS
<1>4. z \in Int
    OBVIOUS
<1> HIDE DEF b, z
<1>5. b \in 1 .. Fp /\ b - 1 \in 1 .. Fp /\ b \in 2 .. Fp' /\ z <= cur' /\ z < cur'
    BY <1>2, <1>4
<1>6. ASSUME NEW k \in b + 1 .. Fp', frames'[k].kind = "vm"
      PROVE  z < frames'[k].zone
    <2>1. CASE k \in b + 1 .. Fp
        <3>1. k \in 1 .. Fp
            BY <1>2, <2>1
        <3> QED BY <1>2, <1>6, <2>1, <3>1
    <2>2. CASE k = Fp + 1
        BY <1>5, <1>6, <2>2
    <2> QED BY <1>2, <2>1, <2>2
<1>7. frames'[b] = frames[b] /\ frames'[b - 1] = frames[b - 1]
    BY <1>5
<1> QED BY <1>2, <1>3, <1>5, <1>6, <1>7 DEF NativeBelow

(* Pushing a frame, with the next zone or none.                              *)
LEMMA PushFrame ==
    ASSUME IInv, Alive,
           NEW kind \in {"vm", "native"}, NEW ret \in ZoneArgs, NEW zone, NEW size \in Nat,
           FrameAvailable(size), zone = cur + 1 \/ (zone = NoZone /\ kind = "native"),
           zone = cur + 1 => cur + 1 < MaxFrames,
           cur < MaxFrames,
           frames' = Append(frames, NewFrame(kind, ret, zone, size)),
           cur' = cur + 1,
           NEW c \in CallType, calls' = calls \/ calls' = Append(calls, c),
           calls'[Len(calls')].code = "vm" => kind = "vm"
    PROVE  /\ frames' \in Seq(FrameType) /\ Fp' \in 1 .. MaxFrames /\ cur' \in Level
           /\ \A i \in 1 .. Fp' :
                /\ frames'[i].base + frames'[i].size <= MaxStack
                /\ i > 1 => frames'[i].base = frames'[i - 1].base + frames'[i - 1].size
           /\ FramesNest' /\ ReturnZonesGrow'
           /\ \A i \in 1 .. Len(calls) : calls[i].code = "native" => NativeBelow(calls[i])'
<1> DEFINE f == NewFrame(kind, ret, zone, size)
<1>1. /\ Fp \in Nat \ {0} /\ Fp \in 1 .. MaxFrames /\ cur \in Nat
      /\ frames \in Seq(FrameType) /\ calls \in Seq(CallType)
      /\ Last(frames) = frames[Fp] /\ Fp \in 1 .. Fp
    BY IInvFacts
<1>2. \A i \in 1 .. Fp :
           /\ frames[i].ret \in Nat /\ frames[i].zone \in Int
           /\ frames[i].base \in Nat /\ frames[i].size \in Nat
    BY IInvFacts
<1>3. /\ f.kind = kind /\ f.ret = ret /\ f.zone = zone /\ f.size = size
      /\ f.base = frames[Fp].base + frames[Fp].size
      /\ f.base \in Nat /\ f.base + f.size <= MaxStack
    <2>1. /\ f.kind = kind /\ f.ret = ret /\ f.zone = zone /\ f.size = size
          /\ f.base = frames[Fp].base + frames[Fp].size
        BY <1>1 DEF NewFrame, Frame
    <2>2. frames[Fp].base \in Nat /\ frames[Fp].size \in Nat
        BY <1>1, <1>2
    <2>3. frames[Fp].base + frames[Fp].size + size <= MaxStack
        BY <1>1 DEF FrameAvailable
    <2>4. f.base \in Nat
        BY <2>1, <2>2
    <2>5. f.base + f.size <= MaxStack
        BY <2>1, <2>3
    <2> QED BY <2>1, <2>4, <2>5
<1>4. ret \in Nat /\ ret <= cur /\ frames[Fp].ret <= ret
    <2>1. frames[Fp].ret \in Nat /\ frames[Fp].ret <= cur
        BY <1>1, <1>2 DEF IInv, Nested, ReturnZonesGrow
    <2> QED BY <1>1, <2>1 DEF ZoneArgs
<1>5. zone \in Int
    BY <1>1
<1>6. f \in FrameType
    <2>1. f.base \in 0 .. MaxStack /\ f.size \in 0 .. MaxStack
        BY <1>3
    <2>2. zone \in Level \cup {NoZone} /\ ret \in Level
        BY <1>1, <1>4
    <2> QED BY <1>3, <2>1, <2>2 DEF FrameType, NewFrame, Frame
<1>7. /\ frames' \in Seq(FrameType) /\ Fp' = Fp + 1
      /\ \A i \in 1 .. Fp : frames'[i] = frames[i]
      /\ frames'[Fp + 1] = f
    <2> HIDE DEF f
    <2>1. frames' = Append(frames, f)
        BY DEF f
    <2> QED BY <1>1, <1>6, <2>1
<1>8. Fp' \in 1 .. MaxFrames /\ cur' \in Level
    BY <1>1, <1>7 DEF FrameAvailable
<1>9. ASSUME NEW i \in 1 .. Fp'
      PROVE  /\ frames'[i].base + frames'[i].size <= MaxStack
             /\ i > 1 => frames'[i].base = frames'[i - 1].base + frames'[i - 1].size
    <2>1. CASE i \in 1 .. Fp
        <3>1. frames'[i] = frames[i] /\ (i > 1 => frames'[i - 1] = frames[i - 1])
            BY <1>1, <1>7, <2>1
        <3> QED BY <2>1, <3>1 DEF IInv, TypeOK
    <2>2. CASE i = Fp + 1
        <3>1. i - 1 = Fp
            BY <1>1, <2>2
        <3> HIDE DEF f
        <3> QED BY <1>1, <1>3, <1>7, <2>2, <3>1
    <2> QED BY <1>1, <1>7, <2>1, <2>2
<1>10. /\ frames'[Fp + 1].kind = kind /\ frames'[Fp + 1].ret = ret
       /\ frames'[Fp + 1].zone = zone
    BY <1>3, <1>7
<1>11. FramesNest' /\ ReturnZonesGrow'
    BY <1>1, <1>2, <1>4, <1>5, <1>7, <1>10, PushedFrames
<1>12. ASSUME NEW i \in 1 .. Len(calls), calls[i].code = "native"
       PROVE  NativeBelow(calls[i])'
    <2>1. calls'[i] = calls[i]
        <3>1. CASE calls' = calls
            BY <3>1
        <3>2. CASE calls' = Append(calls, c)
            BY <1>1, <3>2
        <3> QED BY <3>1, <3>2
    <2>2. calls[i].zone \in Int
        BY IInvFacts
    <2>3. frames'[Fp + 1].kind = "vm" => frames'[Fp + 1].zone = cur + 1
        BY <1>10
    <2> QED BY <1>1, <1>5, <1>7, <1>12, <2>1, <2>2, <2>3, PushedAbove
<1> QED BY <1>7, <1>8, <1>9, <1>11, <1>12

(* A failed assertion stops the program.                                     *)
LEMMA Stops ==
    ASSUME IInv, NEW why \in Panics \ {"none"}, Panic(why)
    PROVE  IInv'
<1>1. ~ Alive' /\ panic' \in Panics
    BY DEF Panic, Alive, Panics
<1>2. TypeOK'
    BY <1>1 DEF Panic, IInv, TypeOK
<1> QED BY <1>1, <1>2 DEF IInv

(* A native function is called, by mara_call or by the instruction CALL.     *)
LEMMA CallsNative ==
    ASSUME IInv, Alive, UNCHANGED panic,
           NEW ret \in ZoneArgs, NEW zone, NEW by \in {"mara_call", "CALL"},
           FrameAvailable(0), zone = cur + 1 \/ zone = NoZone,
           zone = cur + 1 => cur + 1 < MaxFrames,
           cur < MaxFrames,
           by = "CALL" <=> Running.code = "vm",
           frames' = Append(frames, NewFrame("native", ret, zone, 0)),
           cur' = cur + 1,
           calls' = Append(calls, Activation("native", Fp + 1, zone, by))
    PROVE  IInv'
<1> DEFINE c == Activation("native", Fp + 1, zone, by)
           n == Len(calls)
<1>1. /\ Fp \in 1 .. MaxFrames /\ cur \in 0 .. MaxFrames
      /\ calls \in Seq(CallType) /\ n \in Nat \ {0}
      /\ frames \in Seq(FrameType)
      /\ Running = calls[n] /\ (Running.code = "vm" => frames[Fp].kind = "vm")
      /\ \A i \in 1 .. n : calls[i].frame \in Nat /\ calls[i].zone \in Int
    BY IInvFacts
<1>2. /\ c.code = "native" /\ c.frame = Fp + 1 /\ c.zone = zone /\ c.by = by
      /\ c \in CallType
    BY <1>1 DEF Activation, CallType, FrameAvailable
<1>3. /\ calls' \in Seq(CallType) /\ Len(calls') = n + 1
      /\ \A i \in 1 .. n : calls'[i] = calls[i]
      /\ calls'[n + 1] = c
    BY <1>1, <1>2
<1>4. /\ frames' \in Seq(FrameType) /\ Fp' \in 1 .. MaxFrames /\ cur' \in Level
      /\ \A i \in 1 .. Fp' :
           /\ frames'[i].base + frames'[i].size <= MaxStack
           /\ i > 1 => frames'[i].base = frames'[i - 1].base + frames'[i - 1].size
      /\ FramesNest' /\ ReturnZonesGrow'
      /\ \A i \in 1 .. n : calls[i].code = "native" => NativeBelow(calls[i])'
    <2>1. calls'[Len(calls')].code # "vm"
        BY <1>1, <1>2, <1>3
    <2> HIDE DEF c
    <2>2. calls' = Append(calls, c)
        BY DEF c
    <2> QED BY <1>2, <2>1, <2>2, PushFrame
<1>5. TypeOK'
    BY <1>3, <1>4 DEF IInv, TypeOK
<1>6. CallsNest'
    BY <1>1, <1>2, <1>3 DEF IInv, Nested, CallsNest
<1>7. /\ Fp' = Fp + 1
      /\ frames'[Fp + 1] = NewFrame("native", ret, zone, 0) /\ frames'[Fp] = frames[Fp]
    BY <1>1, <1>4
<1>8. ASSUME NEW i, i = n + 1 PROVE NativeBelow(calls[i])'
    <2>1. calls'[i] = c
        BY <1>3, <1>8
    <2>2. frames'[Fp + 1].kind = "native" /\ frames'[Fp + 1].zone = zone
        BY <1>7 DEF NewFrame, Frame
    <2>3. by = "CALL" => frames'[Fp + 1 - 1].kind = "vm"
        BY <1>1, <1>7
    <2> HIDE DEF c
    <2>4. calls'[i].frame = Fp + 1 /\ calls'[i].zone = zone /\ calls'[i].by = by
        BY <1>2, <2>1
    <2>5. Fp' = Fp + 1 /\ Fp + 1 \in 2 .. Fp + 1 /\ zone <= cur + 1 /\ cur' = cur + 1
        BY <1>1, <1>7
    <2>6. \A k \in Fp + 1 + 1 .. Fp + 1 : FALSE
        BY <1>1
    <2>7. ~ (Fp + 1 < Fp + 1)
        BY <1>1
    <2>8. /\ calls'[i].frame \in 2 .. Fp'
          /\ frames'[calls'[i].frame].kind = "native"
          /\ frames'[calls'[i].frame].zone = calls'[i].zone
          /\ calls'[i].zone <= cur'
        BY <1>1, <2>2, <2>4, <2>5
    <2>9. calls'[i].frame < Fp' => calls'[i].zone < cur'
        BY <2>4, <2>5, <2>7, Zenon
    <2>10. calls'[i].by = "CALL" => frames'[calls'[i].frame - 1].kind = "vm"
        <3>1. calls'[i].frame - 1 = Fp + 1 - 1
            BY <1>1, <1>8, <2>4
        <3> QED BY <2>3, <2>4, <3>1, Zenon
    <2>11. \A k \in calls'[i].frame + 1 .. Fp' :
             frames'[k].kind = "vm" => calls'[i].zone < frames'[k].zone
        BY <2>4, <2>5, <2>6
    <2> QED BY <2>8, <2>9, <2>10, <2>11 DEF NativeBelow
<1>9. ASSUME NEW i \in 1 .. n, calls[i].code = "native" PROVE NativeAbove(calls[i], c)
    <2>1. NativeBelow(calls[i])
        BY <1>9 DEF IInv, Nested, NativesNest
    <2>2. /\ calls[i].frame \in 2 .. Fp /\ calls[i].zone <= cur /\ calls[i].zone \in Int
          /\ calls[i].frame < Fp => calls[i].zone < cur
        BY <1>1, <1>9, <2>1 DEF NativeBelow
    <2>3. c.frame = Fp + 1 /\ (c.zone # NoZone => c.zone = cur + 1)
        BY <1>2
    <2>4. Fp \in Nat /\ cur \in Nat
        BY <1>1
    <2> HIDE DEF c, Fp
    <2>5. calls[i].frame < c.frame
        BY <2>2, <2>3, <2>4
    <2>6. c.zone # NoZone => calls[i].zone < c.zone
        BY <2>2, <2>3, <2>4
    <2>7. ASSUME c.zone # NoZone, calls[i].frame + 1 < c.frame
          PROVE  calls[i].zone + 1 < c.zone
        <3>1. calls[i].frame < Fp
            BY <2>2, <2>3, <2>4, <2>7
        <3> QED BY <2>2, <2>3, <2>4, <2>7, <3>1
    <2> QED BY <2>5, <2>6, <2>7 DEF NativeAbove
<1>10. NativesNest'
    <2>1. ASSUME NEW i \in 1 .. Len(calls'), calls'[i].code = "native"
          PROVE  NativeBelow(calls[i])'
        <3>1. CASE i \in 1 .. n
            BY <1>3, <1>4, <2>1, <3>1
        <3>2. CASE i = n + 1
            BY <1>8, <3>2
        <3> QED BY <1>1, <1>3, <3>1, <3>2
    <2>2. ASSUME NEW i \in 1 .. Len(calls'), NEW j \in 1 .. Len(calls'), i < j,
                 calls'[i].code = "native", calls'[j].code = "native"
          PROVE  NativeAbove(calls'[i], calls'[j])
        <3>1. CASE j \in 1 .. n
            BY <1>1, <1>3, <2>2, <3>1 DEF IInv, Nested, NativesNest
        <3>2. CASE j = n + 1
            BY <1>1, <1>3, <1>9, <2>2, <3>2
        <3> QED BY <1>1, <1>3, <3>1, <3>2
    <2> QED BY <2>1, <2>2 DEF NativesNest, NativeAbove
<1> QED BY <1>4, <1>5, <1>6, <1>10 DEF IInv, Nested

(* A VM function is called, by mara_call or by the instruction CALL.         *)
LEMMA CallsVm ==
    ASSUME IInv, Alive, UNCHANGED panic,
           NEW ret \in ZoneArgs, NEW size \in Nat,
           FrameAvailable(size), cur + 1 < MaxFrames,
           frames' = Append(frames, NewFrame("vm", ret, cur + 1, size)),
           cur' = cur + 1,
           \/ Running.code = "vm" /\ calls' = calls
           \/ /\ Running.code # "vm"
              /\ calls' = Append(calls, Activation("vm", Fp + 1, cur + 1, "mara_call"))
    PROVE  IInv'
<1> DEFINE c == Activation("vm", Fp + 1, cur + 1, "mara_call")
           n == Len(calls)
<1>1. /\ Fp \in 1 .. MaxFrames /\ cur \in 0 .. MaxFrames
      /\ calls \in Seq(CallType) /\ n \in Nat \ {0}
      /\ Running = calls[n]
    BY IInvFacts
<1>2. c.code = "vm" /\ c \in CallType
    BY <1>1 DEF Activation, CallType, FrameAvailable
<1>3. /\ calls' \in Seq(CallType) /\ Len(calls') \in {n, n + 1}
      /\ \A i \in 1 .. n : calls'[i] = calls[i]
      /\ Len(calls') = n => calls' = calls
      /\ Len(calls') = n + 1 => calls'[n + 1] = c /\ calls[n].code # "vm"
    <2>1. CASE calls' = calls
        BY <1>1, <2>1
    <2>2. CASE calls' = Append(calls, c) /\ Running.code # "vm"
        BY <1>1, <1>2, <2>2
    <2> QED BY <2>1, <2>2
<1>4. /\ frames' \in Seq(FrameType) /\ Fp' \in 1 .. MaxFrames /\ cur' \in Level
      /\ \A i \in 1 .. Fp' :
           /\ frames'[i].base + frames'[i].size <= MaxStack
           /\ i > 1 => frames'[i].base = frames'[i - 1].base + frames'[i - 1].size
      /\ FramesNest' /\ ReturnZonesGrow'
      /\ \A i \in 1 .. n : calls[i].code = "native" => NativeBelow(calls[i])'
    <2>1. calls' = calls \/ calls' = Append(calls, c)
        OBVIOUS
    <2> HIDE DEF c
    <2>2. cur < MaxFrames
        BY <1>1
    <2> QED BY <1>2, <2>1, <2>2, PushFrame
<1>5. TypeOK'
    BY <1>3, <1>4 DEF IInv, TypeOK
<1>6. CallsNest'
    <2>1. CASE Len(calls') = n
        <3>1. calls' = calls
            BY <1>3, <2>1
        <3>2. CallsNest
            BY DEF IInv, Nested
        <3> QED BY <3>1, <3>2 DEF CallsNest
    <2>2. CASE Len(calls') = n + 1
        <3>1. Len(calls') >= 1 /\ calls'[1].code = "host"
            BY <1>1, <1>3, <2>2 DEF IInv, Nested, CallsNest
        <3>2. ASSUME NEW i \in 2 .. n
              PROVE  /\ calls'[i] = calls[i] /\ calls'[i - 1] = calls[i - 1]
                     /\ calls[i].code # "host"
                     /\ calls[i].code = "vm" => calls[i - 1].code # "vm"
                     /\ calls[i].code = "native" => (calls[i].by = "CALL" <=> calls[i - 1].code = "vm")
            BY <1>1, <1>3 DEF IInv, Nested, CallsNest
        <3>3. calls'[n + 1].code = "vm" /\ calls'[n + 1 - 1].code # "vm"
            BY <1>1, <1>2, <1>3, <2>2
        <3>4. ASSUME NEW i \in 2 .. Len(calls')
              PROVE  /\ calls'[i].code # "host"
                     /\ calls'[i].code = "vm" => calls'[i - 1].code # "vm"
                     /\ calls'[i].code = "native" =>
                          (calls'[i].by = "CALL" <=> calls'[i - 1].code = "vm")
            <4>1. CASE i \in 2 .. n
                BY <3>2, <4>1
            <4>2. CASE i = n + 1
                BY <3>3, <4>2
            <4> QED BY <1>1, <2>2, <4>1, <4>2
        <3> QED BY <3>1, <3>4 DEF CallsNest
    <2> QED BY <1>3, <2>1, <2>2
<1>7. \A i \in 1 .. Len(calls') : calls'[i].code = "native" => i \in 1 .. n
    BY <1>1, <1>2, <1>3
<1>8. NativesNest'
    <2>1. ASSUME NEW i \in 1 .. Len(calls'), calls'[i].code = "native"
          PROVE  NativeBelow(calls[i])'
        BY <1>3, <1>4, <1>7, <2>1
    <2>2. ASSUME NEW i \in 1 .. Len(calls'), NEW j \in 1 .. Len(calls'), i < j,
                 calls'[i].code = "native", calls'[j].code = "native"
          PROVE  NativeAbove(calls'[i], calls'[j])
        BY <1>1, <1>3, <1>7, <2>2 DEF IInv, Nested, NativesNest
    <2> QED BY <2>1, <2>2 DEF NativesNest, NativeAbove
<1> QED BY <1>4, <1>5, <1>6, <1>8 DEF IInv, Nested

(* Popping a frame, with or without leaving its zone.                        *)
LEMMA PopsFrame ==
    ASSUME IInv, Alive, Fp >= 2,
           frames' = Front(frames),
           cur' = cur \/ (cur' = cur - 1 /\ frames[Fp].ret < cur),
           frames[Fp - 1].kind = "vm" => frames[Fp - 1].zone = cur',
           calls'[Len(calls')].code = "vm" => frames[Fp - 1].kind = "vm"
    PROVE  /\ frames' \in Seq(FrameType) /\ Fp' \in 1 .. MaxFrames /\ cur' \in Level
           /\ \A i \in 1 .. Fp' :
                /\ frames'[i].base + frames'[i].size <= MaxStack
                /\ i > 1 => frames'[i].base = frames'[i - 1].base + frames'[i - 1].size
           /\ Fp' = Fp - 1
           /\ \A i \in 1 .. Fp - 1 : frames'[i] = frames[i]
           /\ FramesNest' /\ ReturnZonesGrow'
<1>1. /\ Fp \in 1 .. MaxFrames /\ cur \in 0 .. MaxFrames
      /\ frames \in Seq(FrameType)
      /\ \A i \in 1 .. Fp : frames[i].ret \in Nat
    BY IInvFacts
<1>2. /\ frames' \in Seq(FrameType) /\ Fp' = Fp - 1
      /\ \A i \in 1 .. Fp - 1 : frames'[i] = frames[i]
    <2>1. frames \in Seq(FrameType) /\ Len(frames) >= 1
        BY <1>1
    <2>2. /\ Front(frames) \in Seq(FrameType) /\ Len(Front(frames)) = Len(frames) - 1
          /\ \A i \in 1 .. Len(frames) - 1 : Front(frames)[i] = frames[i]
        BY <2>1, FrontFacts
    <2> QED BY <2>2
<1>3. Fp' \in 1 .. MaxFrames /\ cur' \in Level
    BY <1>1, <1>2
<1>4. \A i \in 1 .. Fp' :
           /\ frames'[i].base + frames'[i].size <= MaxStack
           /\ i > 1 => frames'[i].base = frames'[i - 1].base + frames'[i - 1].size
    <2>1. ASSUME NEW i \in 1 .. Fp'
          PROVE  /\ frames'[i] = frames[i] /\ i \in 1 .. Fp
                 /\ i > 1 => frames'[i - 1] = frames[i - 1]
        <3>1. i \in 1 .. Fp - 1 /\ i \in 1 .. Fp /\ (i > 1 => i - 1 \in 1 .. Fp - 1)
            BY <1>1, <1>2
        <3> QED BY <1>2, <3>1
    <2> QED BY <2>1 DEF IInv, TypeOK
<1>5. ASSUME NEW i \in 1 .. Fp' PROVE frames'[i] = frames[i] /\ frames[i].ret <= cur'
    <2>1. frames'[i] = frames[i] /\ i \in 1 .. Fp /\ i <= Fp
        BY <1>1, <1>2
    <2>2. Fp \in 1 .. Fp
        BY <1>1
    <2>3. frames[i].ret <= frames[Fp].ret /\ frames[i].ret <= cur
        BY <2>1, <2>2 DEF IInv, Nested, ReturnZonesGrow
    <2>4. frames[i].ret \in Nat /\ frames[Fp].ret \in Nat /\ cur \in Nat
        BY <1>1, <2>1, <2>2
    <2>5. CASE cur' = cur
        BY <2>1, <2>3, <2>5
    <2>6. CASE cur' = cur - 1 /\ frames[Fp].ret < cur
        BY <2>1, <2>3, <2>4, <2>6
    <2> QED BY <2>5, <2>6
<1>6. FramesNest'
    <2>1. frames'[1].kind = "root" /\ frames'[1].ret = 0
        BY <1>1, <1>2 DEF IInv, Nested, FramesNest
    <2>2. \A i \in 1 .. Fp' : frames'[i].kind = "vm" => frames'[i].zone \in 0 .. MaxFrames - 1
        BY <1>1, <1>2 DEF IInv, Nested, FramesNest
    <2>3. \A i \in 2 .. Fp' :
            frames'[i - 1].kind = "vm" => frames'[i].zone \in {NoZone, frames'[i - 1].zone + 1}
        <3>1. ASSUME NEW i \in 2 .. Fp'
              PROVE  frames'[i] = frames[i] /\ frames'[i - 1] = frames[i - 1] /\ i \in 2 .. Fp
            BY <1>1, <1>2
        <3> QED BY <3>1 DEF IInv, Nested, FramesNest
    <2>4. frames'[Fp'] = frames[Fp - 1]
        BY <1>1, <1>2
    <2> QED BY <2>1, <2>2, <2>3, <2>4 DEF FramesNest
<1>7. ReturnZonesGrow'
    <2>1. \A i \in 1 .. Fp' : i \in 1 .. Fp
        BY <1>1, <1>2
    <2>2. \A i \in 2 .. Fp' : i \in 2 .. Fp /\ i \in 1 .. Fp'
        BY <1>1, <1>2
    <2>3. \A i, j \in 1 .. Fp' : i <= j => frames'[i].ret <= frames'[j].ret
        BY <1>5, <2>1 DEF IInv, Nested, ReturnZonesGrow
    <2>4. \A i \in 2 .. Fp' : frames'[i].zone # NoZone => frames'[i].ret < frames'[i].zone
        BY <1>5, <2>2 DEF IInv, Nested, ReturnZonesGrow
    <2> QED BY <1>5, <2>3, <2>4 DEF ReturnZonesGrow
<1> QED BY <1>2, <1>3, <1>4, <1>6, <1>7

(* What is above a native function that goes on when a frame is popped.      *)
LEMMA PopsAbove ==
    ASSUME IInv, Alive, Fp >= 2, Fp' = Fp - 1,
           \A i \in 1 .. Fp - 1 : frames'[i] = frames[i],
           NEW i \in 1 .. Len(calls), calls[i].code = "native", calls'[i] = calls[i],
           calls[i].frame < Fp, calls[i].zone <= cur',
           calls[i].frame < Fp - 1 => calls[i].zone < cur'
    PROVE  NativeBelow(calls[i])'
<1>1. /\ Fp \in 1 .. MaxFrames
      /\ calls[i].frame \in Nat /\ calls[i].zone \in Int
    BY IInvFacts
<1>2. NativeBelow(calls[i])
    BY DEF IInv, Nested, NativesNest
<1> DEFINE b == calls[i].frame
<1>3. /\ b \in 2 .. Fp - 1 /\ b \in 1 .. Fp - 1 /\ b - 1 \in 1 .. Fp - 1
      /\ frames'[b] = frames[b] /\ frames'[b - 1] = frames[b - 1]
    <2>1. b \in 2 .. Fp /\ b < Fp
        BY <1>2 DEF NativeBelow
    <2>2. b \in 2 .. Fp - 1 /\ b \in 1 .. Fp - 1 /\ b - 1 \in 1 .. Fp - 1
        BY <1>1, <2>1
    <2> QED BY <2>2
<1>4. ASSUME NEW k \in b + 1 .. Fp - 1
      PROVE  frames'[k] = frames[k] /\ k \in b + 1 .. Fp
    <2>1. k \in 1 .. Fp - 1 /\ k \in b + 1 .. Fp
        BY <1>1, <1>3
    <2> QED BY <2>1
<1> QED BY <1>1, <1>2, <1>3, <1>4 DEF NativeBelow

(* mara_vm_execute returns to the function that called it, which is the host *)
(* or a native function, or else goes on.                                    *)
LEMMA CallsFront ==
    ASSUME IInv, Alive, Len(calls) >= 2, calls' = Front(calls)
    PROVE  /\ calls' \in Seq(CallType) /\ Len(calls') = Len(calls) - 1
           /\ \A i \in 1 .. Len(calls) - 1 : calls'[i] = calls[i]
           /\ CallsNest'
           /\ calls[Len(calls)].code = "vm" => calls'[Len(calls')].code # "vm"
<1>1. calls \in Seq(CallType) /\ Len(calls) \in Nat
    BY IInvFacts
<1>2. /\ calls' \in Seq(CallType) /\ Len(calls') = Len(calls) - 1
      /\ \A i \in 1 .. Len(calls) - 1 : calls'[i] = calls[i]
    BY <1>1, FrontFacts
<1>3. CallsNest'
    BY <1>1, <1>2 DEF IInv, Nested, CallsNest
<1>4. calls[Len(calls)].code = "vm" => calls'[Len(calls')].code # "vm"
    BY <1>1, <1>2 DEF IInv, Nested, CallsNest
<1> QED BY <1>2, <1>3, <1>4

LEMMA VmFails ==
    ASSUME IInv, VmError
    PROVE  IInv'
<1> DEFINE n == Len(calls)
<1>1. /\ Alive /\ Running.code = "vm" /\ calls' = Front(calls)
      /\ frames' = frames /\ cur' = cur /\ panic' = panic
    BY DEF VmError, InVM, Alive
<1>2. n \in Nat /\ n >= 2 /\ calls[n].code = "vm"
    BY <1>1, IInvFacts
<1>3. /\ calls' \in Seq(CallType) /\ Len(calls') = n - 1
      /\ \A i \in 1 .. n - 1 : calls'[i] = calls[i]
      /\ CallsNest' /\ calls'[Len(calls')].code # "vm"
    BY <1>1, <1>2, CallsFront
<1>4. TypeOK'
    BY <1>1, <1>3 DEF IInv, TypeOK
<1>5. FramesNest' /\ ReturnZonesGrow'
    BY <1>1, <1>3 DEF IInv, Nested, FramesNest, ReturnZonesGrow
<1>6. NativesNest'
    <2>1. ASSUME NEW i \in 1 .. Len(calls'), calls'[i].code = "native"
          PROVE  NativeBelow(calls[i])'
        <3>1. calls'[i] = calls[i] /\ i \in 1 .. n
            BY <1>2, <1>3
        <3>2. NativeBelow(calls[i])
            BY <2>1, <3>1, <1>1 DEF IInv, Nested, NativesNest
        <3> QED BY <1>1, <3>1, <3>2 DEF NativeBelow
    <2>2. ASSUME NEW i \in 1 .. Len(calls'), NEW j \in 1 .. Len(calls'), i < j,
                 calls'[i].code = "native", calls'[j].code = "native"
          PROVE  NativeAbove(calls'[i], calls'[j])
        <3>1. i \in 1 .. n - 1 /\ j \in 1 .. n - 1
            BY <1>3
        <3>2. i \in 1 .. n /\ j \in 1 .. n
            BY <1>2, <3>1
        <3>3. calls'[i] = calls[i] /\ calls'[j] = calls[j]
            BY <1>3, <3>1
        <3>4. NativeAbove(calls[i], calls[j])
            BY <1>1, <2>2, <3>2, <3>3 DEF IInv, Nested, NativesNest
        <3> QED BY <3>3, <3>4
    <2> QED BY <2>1, <2>2 DEF NativesNest, NativeAbove
<1> QED BY <1>1, <1>3, <1>4, <1>5, <1>6 DEF IInv, Nested

LEMMA VmReturns ==
    ASSUME IInv, Return
    PROVE  IInv'
<1> DEFINE n == Len(calls)
<1>1. Alive /\ Running.code = "vm"
    BY DEF Return, InVM, Alive
<1>2. /\ Fp \in 1 .. MaxFrames /\ Fp >= 2 /\ cur \in 0 .. MaxFrames - 1
      /\ n \in Nat /\ n >= 2 /\ calls[n].code = "vm" /\ calls \in Seq(CallType)
      /\ frames[Fp].kind = "vm" /\ frames[Fp].zone = cur
      /\ \A i \in 1 .. Fp : frames[i].zone \in Int /\ frames[i].ret \in Nat
      /\ \A i \in 1 .. n : calls[i].frame \in Nat /\ calls[i].zone \in Int
    BY <1>1, IInvFacts
<1>3. ASSUME NEW i \in 1 .. n, calls[i].code = "native"
      PROVE  /\ calls[i].frame < Fp /\ calls[i].zone < cur
             /\ calls[i].frame = Fp - 1 => frames[Fp - 1].kind = "native"
             /\ \A k \in calls[i].frame + 1 .. Fp :
                  frames[k].kind = "vm" => calls[i].zone < frames[k].zone
    <2>1. NativeBelow(calls[i])
        BY <1>1, <1>3 DEF IInv, Nested, NativesNest
    <2>2. calls[i].frame # Fp /\ calls[i].frame \in 2 .. Fp
        BY <1>2, <2>1 DEF NativeBelow
    <2> QED BY <1>2, <2>1, <2>2 DEF NativeBelow
<1>4. CASE frames[Fp - 1].kind \in {"root", "native"}
    <2>1. /\ frames' = Front(frames) /\ calls' = Front(calls)
          /\ cur' = cur /\ panic' = panic
        BY <1>4 DEF Return
    <2>2. /\ calls' \in Seq(CallType) /\ Len(calls') = n - 1
          /\ \A i \in 1 .. n - 1 : calls'[i] = calls[i]
          /\ CallsNest' /\ calls'[Len(calls')].code # "vm"
        BY <1>1, <1>2, <2>1, CallsFront
    <2>3. /\ frames' \in Seq(FrameType) /\ Fp' \in 1 .. MaxFrames /\ cur' \in Level
          /\ \A i \in 1 .. Fp' :
               /\ frames'[i].base + frames'[i].size <= MaxStack
               /\ i > 1 => frames'[i].base = frames'[i - 1].base + frames'[i - 1].size
          /\ Fp' = Fp - 1
          /\ \A i \in 1 .. Fp - 1 : frames'[i] = frames[i]
          /\ FramesNest' /\ ReturnZonesGrow'
        BY <1>1, <1>2, <1>4, <2>1, <2>2, PopsFrame
    <2>4. TypeOK'
        BY <2>1, <2>2, <2>3 DEF IInv, TypeOK
    <2>5. NativesNest'
        <3>1. ASSUME NEW i \in 1 .. Len(calls'), calls'[i].code = "native"
              PROVE  NativeBelow(calls[i])'
            <4>1. calls'[i] = calls[i] /\ i \in 1 .. n
                BY <1>2, <2>2
            <4>2. calls[i].frame < Fp /\ calls[i].zone < cur /\ calls[i].zone \in Int
                BY <1>2, <1>3, <3>1, <4>1
            <4> QED BY <1>1, <1>2, <2>1, <2>3, <3>1, <4>1, <4>2, PopsAbove
        <3>2. ASSUME NEW i \in 1 .. Len(calls'), NEW j \in 1 .. Len(calls'), i < j,
                     calls'[i].code = "native", calls'[j].code = "native"
              PROVE  NativeAbove(calls'[i], calls'[j])
            <4>1. i \in 1 .. n - 1 /\ j \in 1 .. n - 1
                BY <2>2
            <4>2. i \in 1 .. n /\ j \in 1 .. n
                BY <1>2, <4>1
            <4>3. calls'[i] = calls[i] /\ calls'[j] = calls[j]
                BY <2>2, <4>1
            <4>4. NativeAbove(calls[i], calls[j])
                BY <1>1, <3>2, <4>2, <4>3 DEF IInv, Nested, NativesNest
            <4> QED BY <4>3, <4>4
        <3> QED BY <3>1, <3>2 DEF NativesNest, NativeAbove
    <2> QED BY <2>2, <2>3, <2>4, <2>5 DEF IInv, Nested
<1>5. CASE ~ frames[Fp - 1].kind \in {"root", "native"} /\ cur = 0
    BY <1>5, Stops DEF Return, Panics
<1>6. CASE ~ frames[Fp - 1].kind \in {"root", "native"} /\ cur # 0
    <2>1. frames' = Front(frames) /\ calls' = calls /\ cur' = cur - 1 /\ panic' = panic
        BY <1>6 DEF Return
    <2>2. frames[Fp - 1] \in FrameType /\ Fp - 1 \in 1 .. Fp
        BY <1>1, <1>2, IInvFacts
    <2>3. frames[Fp - 1].kind = "vm"
        BY <1>6, <2>2 DEF FrameType
    <2>4. frames[Fp - 1].zone = cur - 1 /\ frames[Fp].ret < cur
        <3>1. Fp \in 2 .. Fp
            BY <1>2
        <3>2. cur \in {NoZone, frames[Fp - 1].zone + 1}
            BY <1>1, <1>2, <2>3, <3>1 DEF IInv, Nested, FramesNest
        <3>3. \A i \in 2 .. Fp : frames[i].zone # NoZone => frames[i].ret < frames[i].zone
            BY <1>1 DEF IInv, Nested, ReturnZonesGrow
        <3>4. cur # NoZone
            BY <1>2
        <3>5. frames[Fp].ret < cur
            BY <1>2, <3>1, <3>3, <3>4
        <3>6. frames[Fp - 1].zone \in Int
            BY <1>2, <2>2
        <3> QED BY <1>2, <3>2, <3>4, <3>5, <3>6
    <2>5. /\ frames' \in Seq(FrameType) /\ Fp' \in 1 .. MaxFrames /\ cur' \in Level
          /\ \A i \in 1 .. Fp' :
               /\ frames'[i].base + frames'[i].size <= MaxStack
               /\ i > 1 => frames'[i].base = frames'[i - 1].base + frames'[i - 1].size
          /\ Fp' = Fp - 1
          /\ \A i \in 1 .. Fp - 1 : frames'[i] = frames[i]
          /\ FramesNest' /\ ReturnZonesGrow'
        <3>1. cur' \in Level
            BY <1>2, <1>6, <2>1
        <3> QED BY <1>1, <1>2, <2>1, <2>3, <2>4, <3>1, PopsFrame
    <2>6. TypeOK'
        BY <2>1, <2>5 DEF IInv, TypeOK
    <2>7. NativesNest'
        <3>1. ASSUME NEW i \in 1 .. Len(calls), calls[i].code = "native"
              PROVE  NativeBelow(calls[i])'
            <4>1. calls[i].frame < Fp /\ calls[i].frame # Fp - 1
                BY <1>3, <2>3, <3>1
            <4>2. Fp - 1 \in calls[i].frame + 1 .. Fp
                BY <1>2, <4>1
            <4>3. calls[i].zone < cur - 1
                BY <1>3, <2>3, <2>4, <3>1, <4>2
            <4>4. calls[i].zone <= cur - 1
                BY <1>2, <4>3
            <4> QED BY <1>1, <1>2, <2>1, <2>5, <3>1, <4>1, <4>3, <4>4, PopsAbove
        <3> QED BY <1>1, <2>1, <3>1 DEF IInv, Nested, NativesNest, NativeAbove
    <2>8. CallsNest'
        BY <1>1, <2>1 DEF IInv, Nested, CallsNest
    <2> QED BY <2>5, <2>6, <2>7, <2>8 DEF IInv, Nested
<1> QED BY <1>4, <1>5, <1>6

(* The zone of a native function is the current one on its return, and so    *)
(* its frame is the last one.                                                *)
LEMMA NativeGoesOn ==
    ASSUME IInv, Alive, Running.code = "native", Running.zone = cur
    PROVE  /\ Len(calls) \in Nat /\ Len(calls) >= 2 /\ Running = calls[Len(calls)]
           /\ cur \in 0 .. MaxFrames /\ Fp >= 2
           /\ Running.frame = Fp
           /\ frames[Fp].kind = "native" /\ frames[Fp].zone = cur
           /\ frames[Fp].ret < cur
           /\ frames[Fp - 1].kind = "vm" => frames[Fp - 1].zone = cur - 1
           /\ Running.by = "CALL" <=> calls[Len(calls) - 1].code = "vm"
           /\ Running.by = "CALL" => frames[Fp - 1].kind = "vm"
<1>1. /\ Fp \in 1 .. MaxFrames /\ cur \in 0 .. MaxFrames
      /\ Len(calls) \in Nat \ {0} /\ Running = calls[Len(calls)]
      /\ \A i \in 1 .. Fp : frames[i].zone \in Int /\ frames[i].ret \in Nat
    BY IInvFacts
<1>2. NativeBelow(Running)
    BY <1>1 DEF IInv, Nested, NativesNest
<1>3. /\ Fp >= 2 /\ Running.frame = Fp
      /\ frames[Fp].kind = "native" /\ frames[Fp].zone = cur
      /\ Running.by = "CALL" => frames[Fp - 1].kind = "vm"
    BY <1>1, <1>2 DEF NativeBelow
<1>4. Len(calls) >= 2 /\ (Running.by = "CALL" <=> calls[Len(calls) - 1].code = "vm")
    BY <1>1 DEF IInv, Nested, CallsNest
<1>5. Fp \in 2 .. Fp /\ Fp - 1 \in 1 .. Fp
    BY <1>1, <1>3
<1>6. frames[Fp].ret < cur /\ cur # NoZone
    BY <1>1, <1>3, <1>5 DEF IInv, Nested, ReturnZonesGrow
<1>7. frames[Fp - 1].kind = "vm" => cur = frames[Fp - 1].zone + 1
    BY <1>3, <1>5, <1>6 DEF IInv, Nested, FramesNest
<1>8. frames[Fp - 1].zone \in Int
    BY <1>1, <1>5
<1> QED BY <1>1, <1>3, <1>4, <1>5, <1>6, <1>7, <1>8

LEMMA NativeReturnsKeeps ==
    ASSUME IInv, NativeReturns
    PROVE  IInv'
<1> DEFINE n == Len(calls)
<1>1. Alive /\ Running.code = "native"
    BY DEF NativeReturns, InC, Alive
<1>2. CASE Running.zone # cur \/ cur = 0 \/ Running.frame # Fp
    <2>1. \E why \in {"Unmatched zone", "Illegal zone exit", "Unmatched stack frame"} : Panic(why)
        BY <1>2 DEF NativeReturns, ExitZone, PopFrame
    <2> QED BY <2>1, Stops DEF Panics
<1>3. CASE Running.zone = cur /\ cur # 0 /\ Running.frame = Fp
    <2>1. frames' = Front(frames) /\ calls' = Front(calls) /\ cur' = cur - 1 /\ panic' = panic
        BY <1>3 DEF NativeReturns, ExitZone, PopFrame
    <2>2. /\ n \in Nat /\ n >= 2 /\ Running = calls[n]
          /\ cur \in 0 .. MaxFrames /\ Fp >= 2 /\ Running.frame = Fp
          /\ frames[Fp].ret < cur
          /\ frames[Fp - 1].kind = "vm" => frames[Fp - 1].zone = cur - 1
          /\ Running.by = "CALL" <=> calls[n - 1].code = "vm"
          /\ Running.by = "CALL" => frames[Fp - 1].kind = "vm"
        BY <1>1, <1>3, NativeGoesOn
    <2>3. /\ calls' \in Seq(CallType) /\ Len(calls') = n - 1
          /\ \A i \in 1 .. n - 1 : calls'[i] = calls[i]
          /\ CallsNest'
        BY <1>1, <2>1, <2>2, CallsFront
    <2>4. calls'[Len(calls')].code = "vm" => frames[Fp - 1].kind = "vm"
        <3>1. n - 1 \in 1 .. n - 1
            BY <2>2
        <3> QED BY <2>2, <2>3, <3>1
    <2>5. /\ frames' \in Seq(FrameType) /\ Fp' \in 1 .. MaxFrames /\ cur' \in Level
          /\ \A i \in 1 .. Fp' :
               /\ frames'[i].base + frames'[i].size <= MaxStack
               /\ i > 1 => frames'[i].base = frames'[i - 1].base + frames'[i - 1].size
          /\ Fp' = Fp - 1
          /\ \A i \in 1 .. Fp - 1 : frames'[i] = frames[i]
          /\ FramesNest' /\ ReturnZonesGrow'
        BY <1>1, <2>1, <2>2, <2>4, PopsFrame
    <2>6. TypeOK'
        BY <2>1, <2>3, <2>5 DEF IInv, TypeOK
    <2>7. NativesNest'
        <3>1. ASSUME NEW i \in 1 .. n - 1, calls[i].code = "native"
              PROVE  NativeBelow(calls[i])'
            <4>1. i \in 1 .. n /\ n \in 1 .. n /\ i < n
                BY <2>2
            <4>2. NativeAbove(calls[i], calls[n])
                BY <1>1, <2>2, <3>1, <4>1 DEF IInv, Nested, NativesNest
            <4>3. /\ calls[i].frame \in Nat /\ calls[i].zone \in Int
                  /\ Fp \in 1 .. MaxFrames
                BY <1>1, <4>1, IInvFacts
            <4>4. /\ calls[i].frame < Fp /\ calls[i].zone < cur
                  /\ calls[i].frame + 1 < Fp => calls[i].zone + 1 < cur
                BY <1>3, <2>2, <4>2 DEF NativeAbove
            <4>5. calls[i].zone <= cur - 1 /\ (calls[i].frame < Fp - 1 => calls[i].zone < cur - 1)
                <5>1. cur \in Int
                    BY <2>2
                <5>2. calls[i].zone <= cur - 1
                    BY <4>3, <4>4, <5>1
                <5>3. calls[i].frame < Fp - 1 => calls[i].frame + 1 < Fp
                    BY <4>3
                <5>4. calls[i].zone + 1 < cur => calls[i].zone < cur - 1
                    BY <4>3, <5>1
                <5> QED BY <4>4, <5>2, <5>3, <5>4
            <4> QED BY <1>1, <2>1, <2>2, <2>3, <2>5, <3>1, <4>1, <4>4, <4>5, PopsAbove
        <3>2. ASSUME NEW i \in 1 .. Len(calls'), NEW j \in 1 .. Len(calls'), i < j,
                     calls'[i].code = "native", calls'[j].code = "native"
              PROVE  NativeAbove(calls'[i], calls'[j])
            <4>1. i \in 1 .. n - 1 /\ j \in 1 .. n - 1
                BY <2>3
            <4>2. i \in 1 .. n /\ j \in 1 .. n
                BY <2>2, <4>1
            <4>3. calls'[i] = calls[i] /\ calls'[j] = calls[j]
                BY <2>3, <4>1
            <4>4. NativeAbove(calls[i], calls[j])
                BY <1>1, <3>2, <4>2, <4>3 DEF IInv, Nested, NativesNest
            <4> QED BY <4>3, <4>4
        <3> QED BY <2>3, <3>1, <3>2 DEF NativesNest, NativeAbove
    <2> QED BY <2>3, <2>5, <2>6, <2>7 DEF IInv, Nested
<1> QED BY <1>2, <1>3

(* The frame of the native function stays, and that of the VM function below *)
(* it: only the zone is given back, and mara_vm_execute returns.             *)
LEMMA NativeFailsKeeps ==
    ASSUME IInv, NativeFails
    PROVE  IInv'
<1> DEFINE n == Len(calls)
<1>1. Alive /\ Running.code = "native" /\ Running.by = "CALL"
    BY DEF NativeFails, InC, Alive
<1>2. CASE Running.zone # cur \/ cur = 0
    <2>1. \E why \in {"Unmatched zone", "Illegal zone exit"} : Panic(why)
        BY <1>2 DEF NativeFails, ExitZone
    <2> QED BY <2>1, Stops DEF Panics
<1>3. CASE Running.zone = cur /\ cur # 0
    <2>1. frames' = frames /\ calls' = Front(Front(calls)) /\ cur' = cur - 1 /\ panic' = panic
        BY <1>3 DEF NativeFails, ExitZone
    <2>2. /\ n \in Nat /\ n >= 2 /\ Running = calls[n]
          /\ cur \in 0 .. MaxFrames /\ Fp >= 2 /\ Running.frame = Fp
          /\ frames[Fp].kind = "native" /\ frames[Fp].ret < cur
          /\ calls[n - 1].code = "vm" /\ frames[Fp - 1].kind = "vm"
        BY <1>1, <1>3, NativeGoesOn
    <2>3. /\ calls \in Seq(CallType) /\ Fp \in 1 .. MaxFrames
          /\ \A i \in 1 .. Fp : frames[i].ret \in Nat
          /\ \A i \in 1 .. n : calls[i].frame \in Nat /\ calls[i].zone \in Int
        BY <1>1, IInvFacts
    <2>4. n >= 3
        BY <1>1, <2>2 DEF IInv, Nested, CallsNest
    <2>5. /\ calls' \in Seq(CallType) /\ Len(calls') = n - 2
          /\ \A i \in 1 .. n - 2 : calls'[i] = calls[i]
        <3> DEFINE c == Front(calls)
        <3>1. c \in Seq(CallType) /\ Len(c) = n - 1 /\ \A i \in 1 .. n - 1 : c[i] = calls[i]
            BY <2>2, <2>3, FrontFacts
        <3> HIDE DEF c
        <3>2. Len(c) >= 1
            BY <2>4, <2>2, <3>1
        <3>3. /\ Front(c) \in Seq(CallType) /\ Len(Front(c)) = Len(c) - 1
              /\ \A i \in 1 .. Len(c) - 1 : Front(c)[i] = c[i]
            BY <3>1, <3>2, FrontFacts
        <3>4. calls' = Front(c)
            BY <2>1 DEF c
        <3> QED BY <2>2, <3>1, <3>3, <3>4
    <2>6. CallsNest' /\ calls'[Len(calls')].code # "vm"
        <3>1. ASSUME NEW i \in 1 .. n - 2 PROVE i \in 1 .. n /\ calls'[i] = calls[i]
            BY <2>2, <2>5
        <3>2. 1 \in 1 .. n - 2 /\ n - 1 \in 2 .. n /\ n - 2 \in 1 .. n - 2 /\ Len(calls') \in Nat
            BY <2>2, <2>4, <2>5
        <3>3. Len(calls') >= 1 /\ calls'[1].code = "host"
            BY <1>1, <2>4, <2>5, <3>1, <3>2 DEF IInv, Nested, CallsNest
        <3>4. ASSUME NEW i \in 2 .. n - 2
              PROVE  /\ calls'[i].code # "host"
                     /\ calls'[i].code = "vm" => calls'[i - 1].code # "vm"
                     /\ calls'[i].code = "native" => (calls'[i].by = "CALL" <=> calls'[i - 1].code = "vm")
            <4>1. i \in 2 .. n /\ i \in 1 .. n - 2 /\ i - 1 \in 1 .. n - 2
                BY <2>2
            <4>2. calls'[i] = calls[i] /\ calls'[i - 1] = calls[i - 1]
                BY <2>5, <4>1
            <4> QED BY <1>1, <4>1, <4>2 DEF IInv, Nested, CallsNest
        <3>5. n - 1 - 1 = n - 2
            BY <2>2
        <3>6. calls[n - 2].code # "vm"
            BY <1>1, <2>2, <3>2, <3>5 DEF IInv, Nested, CallsNest
        <3> QED BY <2>5, <3>1, <3>2, <3>3, <3>4, <3>6 DEF CallsNest
    <2>7. TypeOK'
        <3>1. cur' \in Level
            BY <1>3, <2>1, <2>2
        <3> QED BY <2>1, <2>5, <3>1 DEF IInv, TypeOK
    <2>8. FramesNest'
        BY <1>1, <2>1, <2>2, <2>6 DEF IInv, Nested, FramesNest
    <2>9. ReturnZonesGrow'
        <3>1. ASSUME NEW i \in 1 .. Fp PROVE frames[i].ret <= cur - 1
            <4>1. i <= Fp /\ Fp \in 1 .. Fp
                BY <2>3
            <4>2. frames[i].ret <= frames[Fp].ret
                BY <1>1, <4>1 DEF IInv, Nested, ReturnZonesGrow
            <4>3. frames[Fp].ret \in Nat /\ frames[i].ret \in Nat /\ cur \in Int
                BY <2>2, <2>3, <4>1
            <4> QED BY <2>2, <4>2, <4>3
        <3> QED BY <1>1, <2>1, <3>1 DEF IInv, Nested, ReturnZonesGrow
    <2>10. NativesNest'
        <3>1. ASSUME NEW i \in 1 .. n - 2, calls[i].code = "native"
              PROVE  NativeBelow(calls[i])'
            <4>1. i \in 1 .. n /\ n \in 1 .. n /\ i < n /\ calls'[i] = calls[i]
                BY <2>2, <2>5
            <4>2. NativeAbove(calls[i], calls[n]) /\ NativeBelow(calls[i])
                BY <1>1, <2>2, <3>1, <4>1 DEF IInv, Nested, NativesNest
            <4>3. calls[i].frame # Fp - 1
                BY <2>2, <4>2 DEF NativeBelow
            <4>4. calls[i].zone + 1 < cur
                <5>1. calls[i].frame < Fp /\ cur # NoZone
                    BY <2>2, <4>2 DEF NativeAbove
                <5>2. calls[i].frame + 1 < Fp
                    BY <2>3, <4>1, <4>3, <5>1
                <5> QED BY <1>3, <2>2, <4>2, <5>1, <5>2 DEF NativeAbove
            <4>5. calls[i].zone < cur - 1 /\ calls[i].zone <= cur - 1
                BY <2>2, <2>3, <4>1, <4>4
            <4> QED BY <2>1, <4>1, <4>2, <4>5 DEF NativeBelow
        <3>2. ASSUME NEW i \in 1 .. n - 2, NEW j \in 1 .. n - 2, i < j,
                     calls'[i].code = "native", calls'[j].code = "native"
              PROVE  NativeAbove(calls'[i], calls'[j])
            <4>1. i \in 1 .. n /\ j \in 1 .. n
                BY <2>2
            <4>2. calls'[i] = calls[i] /\ calls'[j] = calls[j]
                BY <2>5
            <4>3. NativeAbove(calls[i], calls[j])
                BY <1>1, <3>2, <4>1, <4>2 DEF IInv, Nested, NativesNest
            <4> QED BY <4>2, <4>3
        <3> QED BY <2>5, <3>1, <3>2 DEF NativesNest, NativeAbove
    <2> QED BY <2>6, <2>7, <2>8, <2>9, <2>10 DEF IInv, Nested
<1> QED BY <1>2, <1>3

(* A new run: the root frame is alone, and so is the host. *)
LEMMA FreshRun ==
    ASSUME frames' = <<Frame("root", 0, 0, 0, 0)>>, cur' = 0,
           calls' \in Seq(CallType), Len(calls') = 1, calls'[1].code = "host", panic' = "none"
    PROVE  IInv'
<1> DEFINE f == Frame("root", 0, 0, 0, 0)
<1>1. /\ f \in FrameType /\ f.kind = "root" /\ f.ret = 0 /\ f.zone = 0
      /\ f.base + f.size <= MaxStack
    BY DEF Frame, FrameType
<1>2. /\ frames' \in Seq(FrameType) /\ Len(frames') = 1 /\ frames'[1] = f
    BY <1>1
<1>3. cur' \in Level /\ Fp' \in 1 .. MaxFrames /\ panic' \in Panics
    BY <1>2 DEF Panics
<1>4. TypeOK'
    BY <1>1, <1>2, <1>3 DEF TypeOK
<1>5. CallsNest' /\ FramesNest' /\ ReturnZonesGrow' /\ NativesNest'
    BY <1>1, <1>2 DEF CallsNest, FramesNest, ReturnZonesGrow, NativesNest
<1> QED BY <1>4, <1>5 DEF IInv, Nested

LEMMA InitHolds == Init => IInv
<1> SUFFICES ASSUME Init PROVE IInv
    OBVIOUS
<1> DEFINE f == Frame("root", 0, 0, 0, 0)
           c == Activation("host", 1, 0, "main")
<1>1. /\ f \in FrameType /\ f.kind = "root" /\ f.ret = 0 /\ f.zone = 0
      /\ f.base + f.size <= MaxStack
    BY DEF Frame, FrameType
<1>2. c \in CallType /\ c.code = "host"
    BY DEF Activation, CallType
<1>3. /\ frames \in Seq(FrameType) /\ Len(frames) = 1 /\ frames[1] = f
      /\ calls \in Seq(CallType) /\ Len(calls) = 1 /\ calls[1] = c
    BY <1>1, <1>2 DEF Init
<1>4. cur = 0 /\ cur \in Level /\ Fp \in 1 .. MaxFrames /\ panic \in Panics
    BY <1>3 DEF Panics, Init
<1>5. TypeOK
    BY <1>1, <1>3, <1>4 DEF TypeOK
<1>6. CallsNest /\ FramesNest /\ ReturnZonesGrow /\ NativesNest
    BY <1>1, <1>2, <1>3, <1>4 DEF CallsNest, FramesNest, ReturnZonesGrow, NativesNest
<1> QED BY <1>5, <1>6 DEF IInv, Nested

(* The host's activation is the first, and so the only one when it ends a    *)
(* run.                                                                      *)
LEMMA HostAlone ==
    ASSUME IInv, Alive, Running.code = "host"
    PROVE  Len(calls) = 1 /\ calls[1].code = "host"
<1>1. Len(calls) \in Nat \ {0} /\ Running = calls[Len(calls)]
    BY IInvFacts
<1>2. /\ calls[1].code = "host"
      /\ \A i \in 2 .. Len(calls) : calls[i].code # "host"
    BY DEF IInv, Nested, CallsNest
<1>3. calls[Len(calls)].code = "host"
    BY <1>1
<1>4. ~ Len(calls) \in 2 .. Len(calls)
    BY <1>2, <1>3
<1>5. Len(calls) = 1
    <2>1. ASSUME NEW n \in Nat \ {0}, ~ n \in 2 .. n PROVE n = 1
        <3>1. n < 2
            BY <2>1
        <3> QED BY <3>1
    <2> QED BY <1>1, <1>4, <2>1
<1> QED BY <1>2, <1>5

(* Calls, by the host, a native function or the VM.                          *)
LEMMA CallsKeep ==
    ASSUME IInv, MaraCallNative \/ MaraCallVm \/ CallVm \/ CallNative
    PROVE  IInv'
<1>1. Alive /\ cur \in 0 .. MaxFrames /\ cur \in ZoneArgs
      /\ (Running.code = "vm" => cur < MaxFrames)
    BY IInvFacts DEF MaraCallNative, MaraCallVm, CallVm, CallNative, InC, InVM, Alive, ZoneArgs
<1>2. ASSUME NEW size \in StackSizes PROVE size + 1 \in Nat
    BY <1>2
<1>3. CASE \E why \in Panics \ {"none"} : Panic(why)
    BY <1>3, Stops
<1>4. CASE MaraCallNative /\ ZoneAvailable
    BY <1>1, <1>4, CallsNative DEF MaraCallNative, InC, ZoneAvailable
<1>5. CASE MaraCallVm /\ ZoneAvailable
    <2>1. PICK size \in StackSizes : \E ret \in ZoneArgs :
            /\ FrameAvailable(size + 1)
            /\ frames' = Append(frames, NewFrame("vm", ret, cur + 1, size + 1))
            /\ cur' = cur + 1
            /\ calls' = Append(calls, Activation("vm", Fp + 1, cur + 1, "mara_call"))
            /\ UNCHANGED panic
        BY <1>5 DEF MaraCallVm
    <2>2. Running.code # "vm"
        BY <1>5 DEF MaraCallVm, InC
    <2> QED BY <1>1, <1>2, <1>5, <2>1, <2>2, CallsVm DEF ZoneAvailable
<1>6. CASE CallVm /\ ZoneAvailable
    <2>1. PICK size \in StackSizes :
            /\ FrameAvailable(size + 1)
            /\ frames' = Append(frames, NewFrame("vm", cur, cur + 1, size + 1))
            /\ cur' = cur + 1
            /\ UNCHANGED <<calls, panic>>
        BY <1>6 DEF CallVm
    <2>2. Running.code = "vm"
        BY <1>6 DEF CallVm, InVM
    <2> QED BY <1>1, <1>2, <1>6, <2>1, <2>2, CallsVm DEF ZoneAvailable
<1>7. CASE CallNative /\ FrameAvailable(0)
    <2> DEFINE zone == IF ZoneAvailable THEN cur + 1 ELSE NoZone
    <2>1. /\ frames' = Append(frames, NewFrame("native", cur, zone, 0))
          /\ cur' = cur + 1
          /\ calls' = Append(calls, Activation("native", Fp + 1, zone, "CALL"))
          /\ UNCHANGED panic
        BY <1>7 DEF CallNative
    <2>2. Running.code = "vm"
        BY <1>7 DEF CallNative, InVM
    <2>3. (zone = cur + 1 \/ zone = NoZone) /\ (zone = cur + 1 => cur + 1 < MaxFrames)
        BY <1>1 DEF ZoneAvailable
    <2> HIDE DEF zone
    <2> QED BY <1>1, <1>7, <2>1, <2>2, <2>3, CallsNative
<1> QED BY <1>3, <1>4, <1>5, <1>6, <1>7
        DEF MaraCallNative, MaraCallVm, CallVm, CallNative, Panics

(* The zone that mara_parse and mara_compile did not get is none of a call.  *)
LEMMA ZoneLost == ASSUME IInv, ParseOrCompileFails PROVE IInv'
<1>1. /\ Alive /\ cur \in 0 .. MaxFrames /\ cur' = cur + 1 /\ cur' = MaxFrames
      /\ Running.code # "vm" /\ Running = calls[Len(calls)]
      /\ UNCHANGED <<frames, calls, panic>>
    BY IInvFacts DEF ParseOrCompileFails, InC, Alive, ZoneAvailable
<1>2. TypeOK'
    BY <1>1 DEF IInv, TypeOK
<1>3. CallsNest'
    BY <1>1 DEF IInv, Nested, CallsNest
<1>4. FramesNest'
    BY <1>1 DEF IInv, Nested, FramesNest
<1>5. ReturnZonesGrow'
    <2>1. \A i \in 1 .. Fp : frames[i].ret \in Nat
        BY <1>1, IInvFacts
    <2> QED BY <1>1, <2>1 DEF IInv, Nested, ReturnZonesGrow
<1>6. NativesNest'
    <2>1. \A i \in 1 .. Len(calls) : calls[i].zone \in Int
        BY <1>1, IInvFacts
    <2>2. ASSUME NEW i \in 1 .. Len(calls), calls[i].code = "native" PROVE NativeBelow(calls[i])'
        <3>1. NativeBelow(calls[i])
            BY <1>1, <2>2 DEF IInv, Nested, NativesNest
        <3> QED BY <1>1, <2>1, <3>1 DEF NativeBelow
    <2> QED BY <1>1, <2>2 DEF IInv, Nested, NativesNest, NativeAbove
<1> QED BY <1>1, <1>2, <1>3, <1>4, <1>5, <1>6 DEF IInv, Nested

(* IInv holds in every state: one case for each operation. *)
LEMMA IInvHolds == Spec => []IInv
<1>1. IInv /\ [Next]_vars => IInv'
    <2> SUFFICES ASSUME IInv, [Next]_vars PROVE IInv'
        OBVIOUS
    <2>1. CASE MaraCallNative \/ MaraCallVm \/ CallVm \/ CallNative
        BY <2>1, CallsKeep
    <2>2. CASE VmError
        BY <2>2, VmFails
    <2>3. CASE Return
        BY <2>3, VmReturns
    <2>4. CASE NativeReturns
        BY <2>4, NativeReturnsKeeps
    <2>5. CASE NativeFails
        BY <2>5, NativeFailsKeeps
    <2>6. CASE DeepCopy
        BY <2>6, Stops DEF DeepCopy, Panics
    <2>7. CASE ParseOrCompileFails
        BY <2>7, ZoneLost
    <2>8. CASE End
        <3>1. Len(calls) = 1 /\ calls[1].code = "host" /\ calls \in Seq(CallType)
            BY <2>8, HostAlone DEF End, Alive, IInv, TypeOK
        <3> QED BY <2>8, <3>1, FreshRun DEF End
    <2>9. CASE UNCHANGED vars
        BY <2>9 DEF vars, IInv, TypeOK, Alive, Nested, CallsNest, FramesNest,
                    ReturnZonesGrow, NativesNest, NativeBelow, NativeAbove
    <2> QED BY <2>1, <2>2, <2>3, <2>4, <2>5, <2>6, <2>7, <2>8, <2>9 DEF Next
<1> QED BY <1>1, InitHolds, PTL DEF Spec

(* Whatever is called, fails and is left behind, the frames stay within the  *)
(* stack and behind each other, and the zones within the context.            *)
THEOREM TypeCorrect == Spec => []TypeOK
<1>1. IInv => TypeOK
    BY DEF IInv
<1> QED BY <1>1, IInvHolds, PTL

(* mara_vm_execute never runs a function in the zone of another call.        *)
THEOREM RunsInZone == Spec => []VmRunsInItsZone
<1>1. IInv => VmRunsInItsZone
    BY IInvFacts DEF VmRunsInItsZone
<1> QED BY <1>1, IInvHolds, PTL

(* The zone that a result is copied into is open and older than the call's,  *)
(* for the calls in progress and for those that an error left behind.        *)
THEOREM ZonesOpen == Spec => []ReturnZonesOpen
<1>1. IInv => ReturnZonesOpen
    <2> SUFFICES ASSUME IInv, Alive, NEW i \in 2 .. Fp
                 PROVE  /\ frames[i].ret <= cur
                        /\ frames[i].zone # NoZone => frames[i].ret < frames[i].zone
        BY DEF ReturnZonesOpen
    <2>1. i \in 1 .. Fp
        BY IInvFacts
    <2> QED BY <2>1 DEF IInv, Nested, ReturnZonesGrow
<1> QED BY <1>1, IInvHolds, PTL

(* No call that a native function makes costs it its frame or its zone.      *)
THEOREM NativesKeep == Spec => []NativeKeepsFrameAndZone
<1>1. IInv => NativeKeepsFrameAndZone
    <2> SUFFICES ASSUME IInv, Alive, NEW i \in 1 .. Len(calls), calls[i].code = "native"
                 PROVE  /\ calls[i].frame <= Fp
                        /\ frames[calls[i].frame].kind = "native"
                        /\ calls[i].zone <= cur
        BY DEF NativeKeepsFrameAndZone
    <2>1. Fp \in Nat /\ NativeBelow(calls[i])
        BY IInvFacts DEF IInv, Nested, NativesNest
    <2> QED BY <2>1 DEF NativeBelow
<1> QED BY <1>1, IInvHolds, PTL

HIDE CallStackAssumption DEF NoZone, Fp, Level

-----------------------------------------------------------------------------
(* The dispatch loop.                                                       *)

(* F is a set of functions, the closed one that the program belongs to.  A   *)
(* reference to a closure is one to an object with such a function, and a    *)
(* reference to a list is not.                                               *)
Refers(F, objs, v) ==
    /\ v[1] = "fn" => v[2] \in DOMAIN objs /\ objs[v[2]].fn \in F
    /\ v[1] = "list" => v[2] \in DOMAIN objs /\ objs[v[2]].fn = NoFunction

IsSequence(s) == s \in Seq(Range(s))

ObjectWell(F, objs, object) ==
    /\ DOMAIN object = {"fn", "slots"}
    /\ object.fn \in F \cup {NoFunction}
    /\ IsSequence(object.slots)
    /\ object.fn \in F => Len(object.slots) = object.fn.numCaptures
    /\ \A k \in DOMAIN object.slots : Refers(F, objs, object.slots[k])

ObjectsWell(F, objs) ==
    /\ IsSequence(objs)
    /\ \A o \in DOMAIN objs : ObjectWell(F, objs, objs[o])

MemoryWell(F) ==
    /\ DOMAIN memory = Cells
    /\ \A a \in Cells : Refers(F, objects, memory[a])
    /\ DOMAIN reg = {"ip", "sp", "args", "top"}
    /\ Refers(F, objects, reg.top)

FrameWell(F, objs, frame) ==
    /\ frame.closure \in DOMAIN objs
    /\ objs[frame.closure].fn \in F
    /\ frame.size = objs[frame.closure].fn.stackSize + 1

FramesWell(F) ==
    /\ IsSequence(stack_frames) /\ Len(stack_frames) >= 1
    /\ \A k \in DOMAIN stack_frames :
        /\ stack_frames[k].base \in Nat /\ stack_frames[k].size \in Nat
        /\ stack_frames[k].base + stack_frames[k].size <= StackEnd
        /\ k > 1 => /\ stack_frames[k].base = stack_frames[k - 1].base + stack_frames[k - 1].size
                    /\ FrameWell(F, objects, stack_frames[k])

(* Where the function of a frame is, or goes on: at an instruction that can be *)
(* reached, with as many values on the stack as the verifier has counted.     *)
AtHeight(fn, frame, point) ==
    /\ point.ip \in DOMAIN Heights(fn.code)
    /\ point.sp = frame.base + fn.numLocals + Heights(fn.code)[point.ip]
    /\ point.args \in Int /\ -2 <= point.args /\ point.args + fn.numArgs <= frame.base

FnOf(k) == objects[stack_frames[k].closure].fn

CallersWell ==
    \A k \in 2 .. Len(stack_frames) - 1 :
        /\ AtHeight(FnOf(k), stack_frames[k], stack_frames[k + 1].saved)
        /\ Heights(FnOf(k).code)[stack_frames[k + 1].saved.ip] >= 1

RunsWell ==
    /\ Len(stack_frames) >= 2
    /\ AtHeight(Function, TopFrame, reg)
    /\ CallersWell
    /\ TopCached

LoopInv(F) ==
    /\ status \in Statuses \ {"assert", "crash"}
    /\ ObjectsWell(F, objects)
    /\ MemoryWell(F)
    /\ FramesWell(F)
    /\ status = "running" => RunsWell

-----------------------------------------------------------------------------
(* Sequences of which nothing is known but that they are sequences.          *)
LEMMA IsOne ==
    ASSUME NEW S, NEW s \in Seq(S)
    PROVE  IsSequence(s) /\ Len(s) \in Nat /\ DOMAIN s = 1 .. Len(s)
<1>1. /\ Len(s) \in Nat /\ DOMAIN s = 1 .. Len(s)
      /\ s \in [1 .. Len(s) -> S]
    BY LenProperties
<1>2. s \in [1 .. Len(s) -> Range(s)]
    BY <1>1 DEF Range
<1>3. s \in Seq(Range(s))
    BY <1>1, <1>2, SeqDef
<1> QED BY <1>1, <1>3 DEF IsSequence

LEMMA SequenceFacts ==
    ASSUME NEW s, IsSequence(s)
    PROVE  Len(s) \in Nat /\ DOMAIN s = 1 .. Len(s)
BY IsOne DEF IsSequence

LEMMA Filled ==
    ASSUME NEW n \in Nat, NEW S, NEW s \in [1 .. n -> S]
    PROVE  IsSequence(s) /\ Len(s) = n /\ DOMAIN s = 1 .. n
<1>1. s \in Seq(S)
    BY SeqDef
<1>2. IsSequence(s) /\ Len(s) \in Nat /\ DOMAIN s = 1 .. Len(s) /\ DOMAIN s = 1 .. n
    BY <1>1, IsOne
<1> QED BY <1>2

LEMMA Appended ==
    ASSUME NEW s, IsSequence(s), NEW x
    PROVE  /\ IsSequence(Append(s, x)) /\ Len(Append(s, x)) = Len(s) + 1
           /\ DOMAIN Append(s, x) = 1 .. Len(s) + 1
           /\ \A i \in 1 .. Len(s) : Append(s, x)[i] = s[i]
           /\ Append(s, x)[Len(s) + 1] = x
<1> DEFINE S == Range(s) \cup {x}
<1>1. s \in Seq(S) /\ x \in S
    BY SeqMonotonic DEF IsSequence
<1> HIDE DEF S
<1>2. /\ Append(s, x) \in Seq(S) /\ Len(Append(s, x)) = Len(s) + 1
      /\ \A i \in 1 .. Len(s) : Append(s, x)[i] = s[i]
      /\ Append(s, x)[Len(s) + 1] = x
    BY <1>1, AppendProperties
<1> QED BY <1>2, IsOne

LEMMA Fronted ==
    ASSUME NEW s, IsSequence(s), Len(s) >= 1
    PROVE  /\ IsSequence(Front(s)) /\ Len(Front(s)) = Len(s) - 1
           /\ DOMAIN Front(s) = 1 .. Len(s) - 1
           /\ \A i \in 1 .. Len(s) - 1 : Front(s)[i] = s[i]
<1> DEFINE S == Range(s)
<1>1. s \in Seq(S)
    BY DEF IsSequence
<1> HIDE DEF S
<1>2. /\ Front(s) \in Seq(S) /\ Len(Front(s)) = Len(s) - 1
      /\ \A i \in 1 .. Len(s) - 1 : Front(s)[i] = s[i]
    BY <1>1, FrontFacts
<1> QED BY <1>2, IsOne

LEMMA Replaced ==
    ASSUME NEW s, IsSequence(s), NEW i \in DOMAIN s, NEW x
    PROVE  /\ IsSequence([s EXCEPT ![i] = x]) /\ Len([s EXCEPT ![i] = x]) = Len(s)
           /\ DOMAIN [s EXCEPT ![i] = x] = DOMAIN s
<1> DEFINE S == Range(s) \cup {x}
<1>1. s \in Seq(S) /\ x \in S /\ i \in 1 .. Len(s)
    BY SeqMonotonic, SequenceFacts DEF IsSequence
<1> HIDE DEF S
<1>2. [s EXCEPT ![i] = x] \in Seq(S) /\ Len([s EXCEPT ![i] = x]) = Len(s)
    BY <1>1, ExceptSeq
<1> QED BY <1>2, IsOne

-----------------------------------------------------------------------------
(* Objects never change their functions and are never gone.                 *)
Grows(objs, later) ==
    \A o \in DOMAIN objs : o \in DOMAIN later /\ later[o].fn = objs[o].fn

LEMMA RefersStays ==
    ASSUME NEW F, NEW objs, NEW later, Grows(objs, later), NEW v, Refers(F, objs, v)
    PROVE  Refers(F, later, v)
BY DEF Refers, Grows

LEMMA ObjectStays ==
    ASSUME NEW F, NEW objs, NEW later, Grows(objs, later), NEW object,
           ObjectWell(F, objs, object)
    PROVE  ObjectWell(F, later, object)
<1>1. \A k \in DOMAIN object.slots : Refers(F, later, object.slots[k])
    BY RefersStays DEF ObjectWell
<1> QED BY <1>1 DEF ObjectWell

LEMMA ObjectAdded ==
    ASSUME NEW F, NEW objs, ObjectsWell(F, objs), NEW object, ObjectWell(F, objs, object)
    PROVE  /\ ObjectsWell(F, Append(objs, object))
           /\ Grows(objs, Append(objs, object))
           /\ Len(objs) + 1 \in DOMAIN Append(objs, object)
           /\ Append(objs, object)[Len(objs) + 1] = object
<1> DEFINE later == Append(objs, object)
<1>1. /\ Len(objs) \in Nat /\ DOMAIN objs = 1 .. Len(objs)
      /\ IsSequence(later) /\ DOMAIN later = 1 .. Len(objs) + 1
      /\ \A o \in 1 .. Len(objs) : later[o] = objs[o]
      /\ later[Len(objs) + 1] = object
    BY SequenceFacts, Appended DEF ObjectsWell
<1> HIDE DEF later
<1>2. Grows(objs, later)
    BY <1>1 DEF Grows
<1>3. ASSUME NEW o \in DOMAIN later
      PROVE  ObjectWell(F, later, later[o])
    <2>1. CASE o = Len(objs) + 1
        BY <1>1, <1>2, <2>1, ObjectStays
    <2>2. CASE o \in 1 .. Len(objs)
        <3>1. ObjectWell(F, objs, objs[o]) /\ later[o] = objs[o]
            BY <1>1, <2>2 DEF ObjectsWell
        <3> QED BY <1>2, <3>1, ObjectStays
    <2> QED BY <1>1, <1>3, <2>1, <2>2
<1>4. ObjectsWell(F, later)
    BY <1>1, <1>3 DEF ObjectsWell
<1>5. Len(objs) + 1 \in DOMAIN later
    BY <1>1
<1> QED BY <1>1, <1>2, <1>4, <1>5 DEF later

LEMMA ObjectChanged ==
    ASSUME NEW F, NEW objs, ObjectsWell(F, objs), NEW o \in DOMAIN objs, NEW object,
           ObjectWell(F, objs, object), object.fn = objs[o].fn
    PROVE  /\ ObjectsWell(F, [objs EXCEPT ![o] = object])
           /\ Grows(objs, [objs EXCEPT ![o] = object])
<1> DEFINE later == [objs EXCEPT ![o] = object]
<1>1. IsSequence(later) /\ DOMAIN later = DOMAIN objs
    BY Replaced DEF ObjectsWell
<1>2. \A p \in DOMAIN objs : later[p] = IF p = o THEN object ELSE objs[p]
    OBVIOUS
<1> HIDE DEF later
<1>3. Grows(objs, later)
    BY <1>1, <1>2 DEF Grows
<1>4. ASSUME NEW p \in DOMAIN later
      PROVE  ObjectWell(F, later, later[p])
    BY <1>1, <1>2, <1>3, <1>4, ObjectStays DEF ObjectsWell
<1>5. ObjectsWell(F, later)
    BY <1>1, <1>4 DEF ObjectsWell
<1> QED BY <1>3, <1>5 DEF later

LEMMA SlotsChanged ==
    ASSUME NEW F, NEW objs, ObjectsWell(F, objs), NEW o \in DOMAIN objs, NEW slots,
           IsSequence(slots), objs[o].fn \in F => Len(slots) = Len(objs[o].slots),
           \A k \in DOMAIN slots : Refers(F, objs, slots[k])
    PROVE  /\ ObjectsWell(F, [objs EXCEPT ![o] = [@ EXCEPT !.slots = slots]])
           /\ Grows(objs, [objs EXCEPT ![o] = [@ EXCEPT !.slots = slots]])
<1> DEFINE object == [objs[o] EXCEPT !.slots = slots]
<1>1. ObjectWell(F, objs, objs[o])
    BY DEF ObjectsWell
<1>2. DOMAIN object = {"fn", "slots"} /\ object.fn = objs[o].fn /\ object.slots = slots
    BY <1>1 DEF ObjectWell
<1> HIDE DEF object
<1>3. ObjectWell(F, objs, object)
    BY <1>1, <1>2 DEF ObjectWell
<1>4. /\ ObjectsWell(F, [objs EXCEPT ![o] = object])
      /\ Grows(objs, [objs EXCEPT ![o] = object])
    BY <1>2, <1>3, ObjectChanged
<1> QED BY <1>4 DEF object

-----------------------------------------------------------------------------
(* Where the loop is in verified code.                                      *)
Height == Heights(Function.code)[reg.ip]

LEMMA TakesSome ==
    ASSUME NEW fn, NEW i, OperandsExist(fn, i)
    PROVE  Takes(fn.code[i]) \in Nat /\ Leaves(fn.code[i]) \in {0, 1}
<1> DEFINE instr == fn.code[i]
<1>1. /\ instr.op \in Opcodes /\ instr.b \in Nat
      /\ instr.op = "POP" => instr.a \in Nat
      /\ instr.op \in {"PLUS", "SUB", "MAKE_LIST"} => instr.a \in Nat
    BY DEF OperandsExist
<1>2. Leaves(instr) \in {0, 1} /\ FromTop(instr) \in {0, 1}
    BY DEF Leaves, FromTop
<1>3. Takes(instr) \in Nat
    BY <1>1, <1>2 DEF Takes
<1> QED BY <1>2, <1>3

LEMMA AtVerified ==
    ASSUME NEW fn, Verified(fn), NEW i \in DOMAIN Heights(fn.code)
    PROVE  /\ i \in DOMAIN fn.code /\ OperandsExist(fn, i)
           /\ Takes(fn.code[i]) \in Nat /\ Leaves(fn.code[i]) \in {0, 1}
           /\ Heights(fn.code)[i] \in Nat /\ Heights(fn.code)[i] >= Takes(fn.code[i])
           /\ fn.numLocals + Heights(fn.code)[i] <= fn.stackSize
           /\ fn.code[i].op = "RETURN" => Heights(fn.code)[i] = 1
           /\ \A k \in Successors(fn.code, i) :
                /\ k \in DOMAIN Heights(fn.code)
                /\ Heights(fn.code)[k] =
                      Heights(fn.code)[i] - Takes(fn.code[i]) + Leaves(fn.code[i])
<1>1. /\ i \in DOMAIN fn.code /\ OperandsExist(fn, i) /\ StackAgrees(fn, Heights(fn.code), i)
      /\ fn.numLocals \in Nat /\ fn.stackSize \in Nat
    BY DEF Verified
<1>2. Takes(fn.code[i]) \in Nat /\ Leaves(fn.code[i]) \in {0, 1}
    BY <1>1, TakesSome
<1> HIDE DEF Heights, Takes, Leaves
<1>3. /\ Heights(fn.code)[i] \in Takes(fn.code[i]) .. fn.stackSize - fn.numLocals
      /\ fn.code[i].op = "RETURN" => Heights(fn.code)[i] = 1
      /\ \A k \in Successors(fn.code, i) :
           /\ k \in DOMAIN Heights(fn.code)
           /\ Heights(fn.code)[k] =
                 Heights(fn.code)[i] - Takes(fn.code[i]) + Leaves(fn.code[i])
    BY <1>1 DEF StackAgrees, HeightAfter
<1> QED BY <1>1, <1>2, <1>3

LEMMA ClosedFacts ==
    ASSUME NEW F, Closed(F), NEW fn \in F
    PROVE  /\ Verified(fn) /\ fn # NoFunction
           /\ fn.numArgs \in Nat /\ fn.numLocals \in Nat /\ fn.numCaptures \in Nat
           /\ fn.stackSize \in Nat
           /\ 1 \in DOMAIN Heights(fn.code) /\ Heights(fn.code)[1] = 0
           /\ \A k \in DOMAIN fn.functions : fn.functions[k] \in F
<1>1. Verified(fn) /\ \A k \in DOMAIN fn.functions : fn.functions[k] \in F
    BY DEF Closed
<1>2. /\ fn.numArgs \in Nat /\ fn.numLocals \in Nat /\ fn.numCaptures \in Nat
      /\ fn.stackSize \in Nat
      /\ 1 \in DOMAIN Heights(fn.code) /\ Heights(fn.code)[1] = 0
      /\ 1 \in DOMAIN fn.code
    BY <1>1 DEF Verified
<1>3. fn # NoFunction
    BY <1>2 DEF NoFunction
<1> QED BY <1>1, <1>2, <1>3

LEMMA Here ==
    ASSUME NEW F, Closed(F), LoopInv(F), status = "running"
    PROVE  /\ Len(stack_frames) \in Nat /\ Len(stack_frames) >= 2
           /\ DOMAIN stack_frames = 1 .. Len(stack_frames)
           /\ TopFrame = stack_frames[Len(stack_frames)]
           /\ TopFrame.closure \in DOMAIN objects /\ Function \in F /\ Verified(Function)
           /\ Function = FnOf(Len(stack_frames))
           /\ TopFrame.base \in Nat /\ TopFrame.size = Function.stackSize + 1
           /\ TopFrame.base + TopFrame.size <= StackEnd
           /\ Function.numArgs \in Nat /\ Function.numLocals \in Nat
           /\ Function.numCaptures \in Nat /\ Function.stackSize \in Nat
           /\ reg.ip \in DOMAIN Heights(Function.code) /\ reg.ip \in DOMAIN Function.code
           /\ OperandsExist(Function, reg.ip)
           /\ Instruction = Function.code[reg.ip]
           /\ Takes(Instruction) \in Nat /\ Leaves(Instruction) \in {0, 1}
           /\ Height \in Nat /\ Height >= Takes(Instruction)
           /\ Function.numLocals + Height <= Function.stackSize
           /\ Instruction.op = "RETURN" => Height = 1
           /\ reg.sp = TopFrame.base + Function.numLocals + Height
           /\ reg.args \in Int /\ -2 <= reg.args
           /\ reg.args + Function.numArgs <= TopFrame.base
<1> DEFINE n == Len(stack_frames)
<1>1. /\ n \in Nat /\ n >= 2 /\ DOMAIN stack_frames = 1 .. n
      /\ TopFrame = stack_frames[n] /\ n \in DOMAIN stack_frames
    BY SequenceFacts DEF LoopInv, FramesWell, RunsWell, TopFrame, Last
<1>2. /\ TopFrame.base \in Nat /\ TopFrame.base + TopFrame.size <= StackEnd
      /\ FrameWell(F, objects, TopFrame)
    BY <1>1 DEF LoopInv, FramesWell
<1>3. /\ TopFrame.closure \in DOMAIN objects /\ Function \in F
      /\ TopFrame.size = Function.stackSize + 1 /\ Function = FnOf(n)
    BY <1>1, <1>2 DEF FrameWell, Function, Closure, FnOf
<1>4. /\ Verified(Function)
      /\ Function.numArgs \in Nat /\ Function.numLocals \in Nat
      /\ Function.numCaptures \in Nat /\ Function.stackSize \in Nat
    BY <1>3, ClosedFacts
<1>5. AtHeight(Function, TopFrame, reg)
    BY DEF LoopInv, RunsWell
<1>6. /\ reg.ip \in DOMAIN Heights(Function.code)
      /\ reg.sp = TopFrame.base + Function.numLocals + Height
      /\ reg.args \in Int /\ -2 <= reg.args
      /\ reg.args + Function.numArgs <= TopFrame.base
    BY <1>5 DEF AtHeight, Height
<1>7. /\ reg.ip \in DOMAIN Function.code /\ OperandsExist(Function, reg.ip)
      /\ Takes(Instruction) \in Nat /\ Leaves(Instruction) \in {0, 1}
      /\ Height \in Nat /\ Height >= Takes(Instruction)
      /\ Function.numLocals + Height <= Function.stackSize
      /\ Instruction.op = "RETURN" => Height = 1
    BY <1>4, <1>6, AtVerified DEF Height, Instruction
<1> QED BY <1>1, <1>2, <1>3, <1>4, <1>6, <1>7 DEF Instruction

(* The instruction at a successor has the height that the one here leaves.  *)
LEMMA NextHeight ==
    ASSUME NEW F, Closed(F), LoopInv(F), status = "running",
           NEW i \in Successors(Function.code, reg.ip)
    PROVE  /\ i \in DOMAIN Heights(Function.code)
           /\ Heights(Function.code)[i] = Height - Takes(Instruction) + Leaves(Instruction)
           /\ Heights(Function.code)[i] \in Nat
           /\ Function.numLocals + Heights(Function.code)[i] <= Function.stackSize
<1>1. Verified(Function) /\ reg.ip \in DOMAIN Heights(Function.code)
    BY Here
<1>2. /\ i \in DOMAIN Heights(Function.code)
      /\ Heights(Function.code)[i] = Height - Takes(Instruction) + Leaves(Instruction)
    BY <1>1, AtVerified DEF Height, Instruction
<1> QED BY <1>1, <1>2, AtVerified

(* A step of the frame that runs: what it does to the stack and to objects. *)
LEMMA StaysInFrame ==
    ASSUME NEW F, Closed(F), LoopInv(F), status = "running",
           UNCHANGED <<status, stack_frames>>,
           ObjectsWell(F, objects'), Grows(objects, objects'), MemoryWell(F)',
           reg'.ip \in Successors(Function.code, reg.ip),
           reg'.sp = reg.sp - Takes(Instruction) + Leaves(Instruction),
           reg'.args = reg.args, TopCached'
    PROVE  LoopInv(F)'
<1> DEFINE n == Len(stack_frames)
<1>1. /\ n \in Nat /\ n >= 2 /\ DOMAIN stack_frames = 1 .. n
      /\ \A k \in 2 .. n : FrameWell(F, objects, stack_frames[k])
    BY Here DEF LoopInv, FramesWell
<1>2. \A k \in 2 .. n : FrameWell(F, objects', stack_frames[k]) /\ FnOf(k)' = FnOf(k)
    BY <1>1 DEF FrameWell, Grows, FnOf
<1>3. FramesWell(F)'
    BY <1>1, <1>2 DEF LoopInv, FramesWell
<1>4. CallersWell'
    BY <1>1, <1>2 DEF LoopInv, RunsWell, CallersWell
<1>5. /\ TopFrame' = TopFrame /\ Function' = Function
    BY Here DEF TopFrame, Function, Closure, Grows
<1>6. AtHeight(Function, TopFrame, reg)'
    <2>1. /\ reg'.ip \in DOMAIN Heights(Function.code)
          /\ reg'.sp = TopFrame.base + Function.numLocals + Heights(Function.code)[reg'.ip]
        <3> DEFINE i == reg'.ip
                   after == Heights(Function.code)[i]
                   base == TopFrame.base
                   locals == Function.numLocals
                   takes == Takes(Instruction)
                   leaves == Leaves(Instruction)
                   sp == reg.sp
                   sp_after == reg'.sp
        <3>1. i \in DOMAIN Heights(Function.code) /\ after = Height - takes + leaves
            BY NextHeight
        <3>2. /\ base \in Nat /\ locals \in Nat /\ takes \in Nat /\ leaves \in {0, 1}
              /\ Height \in Nat /\ sp = base + locals + Height
            BY Here
        <3>3. sp_after = sp - takes + leaves
            OBVIOUS
        <3>4. sp_after = base + locals + after
            <4> HIDE DEF after, base, locals, takes, leaves, sp, sp_after
            <4> QED BY <3>1, <3>2, <3>3
        <3> QED BY <3>1, <3>4
    <2>2. /\ reg'.args \in Int /\ -2 <= reg'.args
          /\ reg'.args + Function.numArgs <= TopFrame.base
        BY Here
    <2> QED BY <1>5, <2>1, <2>2 DEF AtHeight
<1>7. RunsWell'
    BY <1>1, <1>4, <1>6 DEF RunsWell
<1> QED BY <1>3, <1>7 DEF LoopInv

(* A cell is written; the registers have other values.                      *)
LEMMA MemoryStays ==
    ASSUME NEW F, MemoryWell(F), Grows(objects, objects'),
           NEW a \in Cells, NEW v, Refers(F, objects', v),
           memory' = memory \/ memory' = [memory EXCEPT ![a] = v],
           DOMAIN reg' = {"ip", "sp", "args", "top"}, Refers(F, objects', reg'.top)
    PROVE  MemoryWell(F)'
<1>1. /\ DOMAIN memory = Cells /\ DOMAIN memory' = Cells /\ Cells' = Cells
      /\ \A b \in Cells : Refers(F, objects, memory[b])
      /\ \A b \in Cells : memory'[b] = memory[b] \/ memory'[b] = v
    BY DEF MemoryWell, Cells
<1>2. \A b \in Cells : Refers(F, objects', memory'[b])
    BY <1>1, RefersStays
<1> QED BY <1>1, <1>2 DEF MemoryWell

LEMMA NothingChanges ==
    ASSUME NEW F, LoopInv(F), UNCHANGED objects
    PROVE  ObjectsWell(F, objects') /\ Grows(objects, objects')
BY DEF LoopInv, Grows

(* Where there is room: cells from the locals of the frame to its end.      *)
LEMMA CellsOfFrame ==
    ASSUME NEW F, Closed(F), LoopInv(F), status = "running",
           NEW a \in Int, a >= TopFrame.base, a <= TopFrame.base + Function.stackSize
    PROVE  a \in Cells /\ Refers(F, objects, memory[a])
<1>1. a \in Cells
    <2>1. /\ TopFrame.base \in Nat /\ Function.stackSize \in Nat
          /\ TopFrame.base + Function.stackSize + 1 <= StackEnd
        BY Here
    <2>2. StackEnd \in Nat
        BY LoopAssumption
    <2> HIDE DEF TopFrame, Function
    <2> QED BY <2>1, <2>2 DEF Cells
<1> QED BY <1>1 DEF LoopInv, MemoryWell

(* An instruction that leaves its result on the stack.                      *)
LEMMA LeavesResult ==
    ASSUME NEW F, Closed(F), LoopInv(F), status = "running",
           UNCHANGED <<status, stack_frames>>,
           ObjectsWell(F, objects'), Grows(objects, objects'),
           NEW ip \in Successors(Function.code, reg.ip),
           NEW sp, sp = reg.sp - Takes(Instruction) + 1, Leaves(Instruction) = 1,
           NEW v, Refers(F, objects', v),
           memory' = [memory EXCEPT ![sp] = v],
           reg' = [reg EXCEPT !.ip = ip, !.sp = sp, !.top = v]
    PROVE  LoopInv(F)'
<1> DEFINE after == Heights(Function.code)[ip]
           base == TopFrame.base
           locals == Function.numLocals
           takes == Takes(Instruction)
           top == reg.sp
<1>1. after = Height - takes + 1 /\ after \in Nat /\ locals + after <= Function.stackSize
    BY NextHeight
<1>2. /\ base \in Nat /\ locals \in Nat /\ takes \in Nat
      /\ Height \in Nat /\ top = base + locals + Height
    BY Here
<1>3. sp = base + locals + after
    <2>1. sp = top - takes + 1
        OBVIOUS
    <2> HIDE DEF after, base, locals, takes, top
    <2> QED BY <1>1, <1>2, <2>1
<1>4. sp \in Int /\ sp >= base /\ sp <= base + Function.stackSize
    <2>1. Function.stackSize \in Nat
        BY Here
    <2> HIDE DEF after, base, locals
    <2> QED BY <1>1, <1>2, <1>3, <2>1
<1>5. sp \in Cells
    BY <1>4, CellsOfFrame
<1>6. DOMAIN memory = Cells /\ DOMAIN reg = {"ip", "sp", "args", "top"}
    BY DEF LoopInv, MemoryWell
<1>7. /\ DOMAIN reg' = {"ip", "sp", "args", "top"}
      /\ reg'.ip = ip /\ reg'.sp = sp /\ reg'.args = reg.args /\ reg'.top = v
      /\ memory'[sp] = v
    BY <1>5, <1>6
<1>8. MemoryWell(F)'
    BY <1>5, <1>7, MemoryStays DEF LoopInv
<1>9. TopCached'
    BY <1>7 DEF TopCached
<1>10. reg'.sp = reg.sp - Takes(Instruction) + Leaves(Instruction)
    BY <1>7
<1> QED BY <1>7, <1>8, <1>9, <1>10, StaysInFrame

LEMMA TopAtKeeps ==
    ASSUME NEW F, Closed(F), LoopInv(F), status = "running",
           UNCHANGED <<status, stack_frames>>,
           ObjectsWell(F, objects'), Grows(objects, objects'),
           Successors(Function.code, reg.ip) = {reg.ip + 1}, Leaves(Instruction) = 1,
           NEW sp, sp = reg.sp - Takes(Instruction) + 1,
           NEW v, Refers(F, objects', v), TopAt(sp, v)
    PROVE  LoopInv(F)'
BY LeavesResult DEF TopAt

(* The program ends otherwise than by a return.                             *)
LEMMA EndsKeeps ==
    ASSUME NEW F, LoopInv(F), NEW how \in {"error", "stack-overflow"}, Ends(how)
    PROVE  LoopInv(F)'
<1>1. status' = how /\ UNCHANGED <<memory, reg, stack_frames, objects>>
    BY DEF Ends
<1>2. /\ ObjectsWell(F, objects)' /\ MemoryWell(F)' /\ FramesWell(F)'
    BY <1>1 DEF LoopInv, ObjectsWell, MemoryWell, FramesWell, FrameWell, Cells
<1>3. status' \in Statuses \ {"assert", "crash"} /\ status' # "running"
    BY <1>1 DEF Statuses
<1> QED BY <1>2, <1>3 DEF LoopInv

-----------------------------------------------------------------------------
(* What an instruction reads refers to objects that exist.                  *)
LEMMA SlotsOfClosure ==
    ASSUME NEW F, Closed(F), LoopInv(F), status = "running"
    PROVE  /\ IsSequence(Closure.slots) /\ Len(Closure.slots) = Function.numCaptures
           /\ DOMAIN Closure.slots = 1 .. Function.numCaptures
           /\ DOMAIN Closure = {"fn", "slots"}
           /\ \A k \in DOMAIN Closure.slots : Refers(F, objects, Closure.slots[k])
<1>1. TopFrame.closure \in DOMAIN objects /\ Function \in F
    BY Here
<1>2. ObjectWell(F, objects, Closure)
    BY <1>1 DEF LoopInv, ObjectsWell, Closure
<1>3. /\ IsSequence(Closure.slots) /\ Len(Closure.slots) = Function.numCaptures
      /\ DOMAIN Closure = {"fn", "slots"}
      /\ \A k \in DOMAIN Closure.slots : Refers(F, objects, Closure.slots[k])
    BY <1>1, <1>2 DEF ObjectWell, Function
<1> QED BY <1>3, SequenceFacts

LEMMA CellOfVariable ==
    ASSUME NEW F, Closed(F), LoopInv(F), status = "running",
           NEW instr, IsVariable(Function, instr)
    PROVE  /\ instr.a \in Nat
           /\ instr.kind = "LOCAL" =>
                /\ TopFrame.base + instr.a \in Cells
                /\ TopFrame.base + instr.a < TopFrame.base + Function.numLocals
           /\ instr.kind = "ARG" =>
                /\ reg.args + instr.a \in Cells
                /\ reg.args + instr.a < TopFrame.base
           /\ instr.kind = "CAPTURE" => instr.a + 1 \in DOMAIN Closure.slots
           /\ instr.kind \in {"LOCAL", "ARG", "CAPTURE"}
<1> DEFINE base == TopFrame.base
           fn == Function
           args == reg.args
           a == instr.a
<1>1. /\ base \in Nat /\ base + (fn.stackSize + 1) <= StackEnd
      /\ fn.numArgs \in Nat /\ fn.numLocals \in Nat
      /\ fn.numCaptures \in Nat /\ fn.stackSize \in Nat
      /\ args \in Int /\ -2 <= args /\ args + fn.numArgs <= base
      /\ fn.numLocals + Height <= fn.stackSize /\ Height \in Nat
    BY Here
<1>2. DOMAIN Closure.slots = 1 .. fn.numCaptures /\ StackEnd \in Nat
    BY SlotsOfClosure, LoopAssumption
<1>3. /\ a \in Nat /\ instr.kind \in {"LOCAL", "ARG", "CAPTURE"}
      /\ instr.kind = "LOCAL" => a < fn.numLocals
      /\ instr.kind = "ARG" => a < fn.numArgs
      /\ instr.kind = "CAPTURE" => a < fn.numCaptures
    BY <1>1 DEF IsVariable
<1> HIDE DEF base, fn, args, a
<1>4. ASSUME instr.kind = "LOCAL"
      PROVE  base + a \in Cells /\ base + a < base + fn.numLocals
    <2> DEFINE locals == fn.numLocals
               size == fn.stackSize
    <2>1. /\ base \in Nat /\ locals \in Nat /\ size \in Nat /\ Height \in Nat /\ a \in Nat
          /\ base + (size + 1) <= StackEnd /\ locals + Height <= size /\ a < locals
        BY <1>1, <1>3, <1>4
    <2> HIDE DEF locals, size
    <2>2. base + a <= StackEnd - 1 /\ base + a >= -2 /\ base + a < base + locals /\ base + a \in Int
        BY <1>2, <2>1
    <2> QED BY <2>2 DEF Cells, locals
<1>5. instr.kind = "ARG" => args + a \in Cells /\ args + a < base
    BY <1>1, <1>2, <1>3 DEF Cells
<1>6. instr.kind = "CAPTURE" => a + 1 \in DOMAIN Closure.slots
    BY <1>1, <1>2, <1>3
<1> QED BY <1>3, <1>4, <1>5, <1>6 DEF base, fn, args, a

LEMMA ValueRefers ==
    ASSUME NEW F, Closed(F), LoopInv(F), status = "running",
           NEW instr, IsVariable(Function, instr) \/ instr.kind = "TOP"
    PROVE  Refers(F, objects, Value(instr.kind, instr.a))
<1>1. /\ \A a \in Cells : Refers(F, objects, memory[a])
      /\ Refers(F, objects, reg.top)
      /\ \A k \in DOMAIN Closure.slots : Refers(F, objects, Closure.slots[k])
    BY SlotsOfClosure DEF LoopInv, MemoryWell
<1>2. CASE instr.kind = "TOP"
    BY <1>1, <1>2 DEF Value
<1>3. CASE instr.kind = "LOCAL"
    <2>1. Value(instr.kind, instr.a) = memory[TopFrame.base + instr.a]
        BY <1>3 DEF Value
    <2> QED BY <1>1, <1>3, <2>1, CellOfVariable
<1>4. CASE instr.kind = "ARG"
    <2>1. Value(instr.kind, instr.a) = memory[reg.args + instr.a]
        BY <1>4 DEF Value
    <2> QED BY <1>1, <1>4, <2>1, CellOfVariable
<1>5. CASE instr.kind = "CAPTURE"
    <2>1. Value(instr.kind, instr.a) = Closure.slots[instr.a + 1]
        BY <1>5 DEF Value
    <2> QED BY <1>1, <1>5, <2>1, CellOfVariable
<1> QED BY <1>2, <1>3, <1>4, <1>5, CellOfVariable

LEMMA OperandsRefer ==
    ASSUME NEW F, Closed(F), LoopInv(F), status = "running",
           NEW n \in Nat, n = Takes(Instruction)
    PROVE  /\ DOMAIN Operands(n) = 1 .. n
           /\ \A i \in 1 .. n : Refers(F, objects, Operands(n)[i])
<1>1. DOMAIN Operands(n) = 1 .. n
    BY DEF Operands
<1>2. ASSUME NEW i \in 1 .. n
      PROVE  Refers(F, objects, Operands(n)[i])
    <2> DEFINE base == TopFrame.base
               fn == Function
               sp == reg.sp
               a == sp - n + i
    <2>1. /\ base \in Nat /\ fn.numLocals \in Nat /\ fn.stackSize \in Nat
          /\ Height \in Nat /\ Height >= n /\ sp = base + fn.numLocals + Height
          /\ fn.numLocals + Height <= fn.stackSize
        BY Here
    <2>2. a \in Int /\ a >= base /\ a <= base + fn.stackSize
        <3> HIDE DEF base, fn, sp
        <3> QED BY <1>2, <2>1
    <2>3. Refers(F, objects, memory[a])
        <3> HIDE DEF a
        <3> QED BY <2>2, CellsOfFrame
    <2> QED BY <2>3 DEF Operands
<1> QED BY <1>1, <1>2

-----------------------------------------------------------------------------
(* The instructions.                                                        *)
LEMMA IsSimple ==
    ASSUME NEW F, NEW objs, NEW v, v[1] \notin {"fn", "list"}
    PROVE  Refers(F, objs, v)
BY DEF Refers

LEMMA SimpleValues ==
    ASSUME NEW F, NEW objs
    PROVE  /\ Refers(F, objs, Nil) /\ Refers(F, objs, Tombstone) /\ Refers(F, objs, Unwritten)
           /\ \A b \in BOOLEAN : Refers(F, objs, Bool(b))
           /\ \A n : Refers(F, objs, Number(n))
<1>1. Nil[1] = "nil" /\ Tombstone[1] = "tombstone" /\ Unwritten[1] = "unwritten"
    BY DEF Nil, Tombstone, Unwritten
<1>2. \A b \in BOOLEAN : Bool(b)[1] \in {"true", "false"}
    BY DEF Bool
<1>3. \A n : Number(n)[1] = "int"
    BY DEF Number
<1> QED BY <1>1, <1>2, <1>3 DEF Refers

LEMMA GoesOn ==
    ASSUME Instruction.op \notin {"RETURN", "JUMP", "JUMP_IF_FALSE", "MAKE_CLOSURE"}
    PROVE  Successors(Function.code, reg.ip) = {reg.ip + 1}
BY DEF Successors, Instruction

LEMMA RegIsInt ==
    ASSUME NEW F, Closed(F), LoopInv(F), status = "running"
    PROVE  reg.sp \in Int
<1> DEFINE base == TopFrame.base
           locals == Function.numLocals
           sp == reg.sp
<1>1. base \in Nat /\ locals \in Nat /\ Height \in Nat /\ sp = base + locals + Height
    BY Here
<1>2. sp \in Int
    <2> HIDE DEF base, locals, sp
    <2> QED BY <1>1
<1> QED BY <1>2

LEMMA PushKeeps ==
    ASSUME NEW F, Closed(F), LoopInv(F), status = "running",
           Instruction.op \in {"NIL", "TRUE", "FALSE", "SMALL_INT", "CONSTANT", "GET"},
           NEW v, Refers(F, objects, v), Push(v), OnlyStack
    PROVE  LoopInv(F)'
<1>1. UNCHANGED <<status, stack_frames, objects>>
    BY DEF OnlyStack
<1>2. /\ ObjectsWell(F, objects') /\ Grows(objects, objects') /\ Refers(F, objects', v)
    BY <1>1, NothingChanges
<1>3. Successors(Function.code, reg.ip) = {reg.ip + 1}
    BY GoesOn
<1>4. Takes(Instruction) = 0 /\ Leaves(Instruction) = 1
    BY DEF Takes, Leaves
<1>5. reg.sp + 1 = reg.sp - Takes(Instruction) + 1
    BY <1>4, RegIsInt
<1> QED BY <1>1, <1>2, <1>3, <1>4, <1>5, TopAtKeeps DEF Push

LEMMA ConstantsKeep ==
    ASSUME NEW F, Closed(F), LoopInv(F), Constants
    PROVE  LoopInv(F)'
<1>1. status = "running" /\ OnlyStack
    BY DEF Constants
<1>2. ASSUME Instruction.op = "CONSTANT"
      PROVE  Refers(F, objects, Function.constants[Instruction.a + 1])
    <2>1. Verified(Function) /\ Instruction.a + 1 \in DOMAIN Function.constants
        BY <1>1, <1>2, Here DEF OperandsExist
    <2>2. Function.constants[Instruction.a + 1][1] \in {"int", "str"}
        BY <2>1 DEF Verified
    <2> QED BY <2>2, IsSimple
<1>3. /\ Refers(F, objects, Nil) /\ Refers(F, objects, Bool(TRUE))
      /\ Refers(F, objects, Bool(FALSE)) /\ Refers(F, objects, Number(Instruction.a))
    BY SimpleValues
<1>4. \/ Instruction.op = "NIL" /\ Push(Nil)
      \/ Instruction.op = "TRUE" /\ Push(Bool(TRUE))
      \/ Instruction.op = "FALSE" /\ Push(Bool(FALSE))
      \/ Instruction.op = "SMALL_INT" /\ Push(Number(Instruction.a))
      \/ Instruction.op = "CONSTANT" /\ Push(Function.constants[Instruction.a + 1])
    BY DEF Constants
<1> QED BY <1>1, <1>2, <1>3, <1>4, PushKeeps

LEMMA GetVariableKeeps ==
    ASSUME NEW F, Closed(F), LoopInv(F), GetVariable
    PROVE  LoopInv(F)'
<1>1. status = "running" /\ Instruction.op = "GET" /\ OnlyStack
      /\ Push(Value(Instruction.kind, Instruction.a))
    BY DEF GetVariable, Fetch
<1>2. IsVariable(Function, Instruction)
    BY <1>1, Here DEF OperandsExist
<1>3. Refers(F, objects, Value(Instruction.kind, Instruction.a))
    BY <1>1, <1>2, ValueRefers
<1> QED BY <1>1, <1>3, PushKeeps

(* Instructions that change the registers only.                             *)
LEMMA MovesKeep ==
    ASSUME NEW F, Closed(F), LoopInv(F), status = "running",
           UNCHANGED <<memory, status, stack_frames, objects>>,
           NEW ip \in Successors(Function.code, reg.ip),
           NEW sp, sp = reg.sp - Takes(Instruction) + Leaves(Instruction),
           NEW top, reg' = [reg EXCEPT !.ip = ip, !.sp = sp, !.top = top],
           top = memory[sp] \/ (top = reg.top /\ sp = reg.sp)
    PROVE  LoopInv(F)'
<1> DEFINE after == Heights(Function.code)[ip]
           base == TopFrame.base
           locals == Function.numLocals
           takes == Takes(Instruction)
           leaves == Leaves(Instruction)
           old == reg.sp
<1>1. after = Height - takes + leaves /\ after \in Nat /\ locals + after <= Function.stackSize
    BY NextHeight
<1>2. /\ base \in Nat /\ locals \in Nat /\ takes \in Nat /\ leaves \in {0, 1}
      /\ Height \in Nat /\ old = base + locals + Height
    BY Here
<1>3. sp \in Int /\ sp >= base /\ sp <= base + Function.stackSize
    <2>1. Function.stackSize \in Nat /\ sp = old - takes + leaves
        BY Here
    <2> HIDE DEF after, base, locals, takes, leaves, old
    <2> QED BY <1>1, <1>2, <2>1
<1>4. sp \in Cells /\ Refers(F, objects, memory[sp])
    BY <1>3, CellsOfFrame
<1>5. DOMAIN reg = {"ip", "sp", "args", "top"} /\ Refers(F, objects, reg.top)
    BY DEF LoopInv, MemoryWell
<1>6. /\ DOMAIN reg' = {"ip", "sp", "args", "top"}
      /\ reg'.ip = ip /\ reg'.sp = sp /\ reg'.args = reg.args /\ reg'.top = top
    BY <1>5
<1>7. Refers(F, objects, top)
    BY <1>4, <1>5
<1>8. ObjectsWell(F, objects') /\ Grows(objects, objects')
    BY NothingChanges
<1>9. MemoryWell(F)'
    BY <1>4, <1>6, <1>7, <1>8, MemoryStays DEF LoopInv
<1>10. TopCached'
    <2>1. TopFrame' = TopFrame /\ Function' = Function
        BY DEF TopFrame, Function, Closure
    <2>2. TopCached
        BY DEF LoopInv, RunsWell
    <2> QED BY <1>6, <2>1, <2>2 DEF TopCached
<1> QED BY <1>6, <1>8, <1>9, <1>10, StaysInFrame

LEMMA PopKeeps ==
    ASSUME NEW F, Closed(F), LoopInv(F), Pop
    PROVE  LoopInv(F)'
<1> DEFINE sp == reg.sp - Instruction.a
<1>1. /\ status = "running" /\ Instruction.op = "POP"
      /\ reg' = [reg EXCEPT !.ip = @ + 1, !.sp = sp, !.top = memory[sp]]
      /\ UNCHANGED <<memory, status, stack_frames, objects>>
    BY DEF Pop, Fetch, OnlyStack
<1>2. reg.ip + 1 \in Successors(Function.code, reg.ip)
    BY <1>1, GoesOn
<1>3. sp = reg.sp - Takes(Instruction) + Leaves(Instruction)
    <2>1. Takes(Instruction) = Instruction.a /\ Leaves(Instruction) = 0
        BY <1>1 DEF Takes, Leaves
    <2>2. reg.sp \in Int /\ Takes(Instruction) \in Nat
        BY <1>1, RegIsInt, Here
    <2> QED BY <2>1, <2>2
<1> QED BY <1>1, <1>2, <1>3, MovesKeep

LEMMA JumpKeeps ==
    ASSUME NEW F, Closed(F), LoopInv(F), Jump
    PROVE  LoopInv(F)'
<1>1. /\ status = "running" /\ Instruction.op = "JUMP"
      /\ reg' = [reg EXCEPT !.ip = @ + 1 + Instruction.a]
      /\ UNCHANGED <<memory, status, stack_frames, objects>>
    BY DEF Jump, Fetch, OnlyStack
<1> DEFINE ip == reg.ip + 1 + Instruction.a
<1>2. ip \in Successors(Function.code, reg.ip)
    BY <1>1 DEF Successors, Instruction
<1>3. Takes(Instruction) = 0 /\ Leaves(Instruction) = 0
    BY <1>1 DEF Takes, Leaves
<1>4. reg.sp = reg.sp - Takes(Instruction) + Leaves(Instruction)
    BY <1>1, <1>3, RegIsInt
<1>5. DOMAIN reg = {"ip", "sp", "args", "top"}
    BY DEF LoopInv, MemoryWell
<1>6. reg' = [reg EXCEPT !.ip = ip, !.sp = reg.sp, !.top = reg.top]
    BY <1>1, <1>5
<1> HIDE DEF ip
<1> QED BY <1>1, <1>2, <1>4, <1>6, MovesKeep

LEMMA JumpIfFalseKeeps ==
    ASSUME NEW F, Closed(F), LoopInv(F), JumpIfFalse
    PROVE  LoopInv(F)'
<1> DEFINE ip == reg.ip + 1 + (IF IsFalsy(reg.top) THEN Instruction.a ELSE 0)
           sp == reg.sp - 1
<1>1. /\ status = "running" /\ Instruction.op = "JUMP_IF_FALSE"
      /\ reg' = [reg EXCEPT !.ip = ip, !.sp = sp, !.top = memory[sp]]
      /\ UNCHANGED <<memory, status, stack_frames, objects>>
    BY DEF JumpIfFalse, Fetch, OnlyStack
<1>2. ip \in Successors(Function.code, reg.ip)
    <2>1. Successors(Function.code, reg.ip) = {reg.ip + 1, reg.ip + 1 + Instruction.a}
        BY <1>1 DEF Successors, Instruction
    <2>2. reg.ip \in Int
        BY <1>1, Here DEF Verified
    <2> QED BY <2>1, <2>2
<1>3. Takes(Instruction) = 1 /\ Leaves(Instruction) = 0
    BY <1>1 DEF Takes, Leaves
<1>4. sp = reg.sp - Takes(Instruction) + Leaves(Instruction)
    BY <1>1, <1>3, RegIsInt
<1> HIDE DEF ip
<1> QED BY <1>1, <1>2, <1>4, MovesKeep

LEMMA CaptureSet ==
    ASSUME NEW F, Closed(F), LoopInv(F), status = "running",
           NEW i \in DOMAIN Closure.slots,
           objects' = [objects EXCEPT ![TopFrame.closure].slots[i] = reg.top]
    PROVE  ObjectsWell(F, objects') /\ Grows(objects, objects')
<1> DEFINE c == TopFrame.closure
           slots == [Closure.slots EXCEPT ![i] = reg.top]
<1>1. /\ IsSequence(Closure.slots) /\ Len(Closure.slots) = Function.numCaptures
      /\ \A k \in DOMAIN Closure.slots : Refers(F, objects, Closure.slots[k])
      /\ c \in DOMAIN objects /\ ObjectsWell(F, objects) /\ Refers(F, objects, reg.top)
    BY SlotsOfClosure, Here DEF LoopInv, MemoryWell
<1>2. IsSequence(slots) /\ Len(slots) = Len(Closure.slots) /\ DOMAIN slots = DOMAIN Closure.slots
    BY <1>1, Replaced
<1>3. \A k \in DOMAIN slots : Refers(F, objects, slots[k])
    BY <1>1
<1>4. objects' = [objects EXCEPT ![c] = [@ EXCEPT !.slots = slots]]
    BY DEF Closure
<1>5. objects[c].slots = Closure.slots
    BY DEF Closure
<1> HIDE DEF slots, c
<1>6. /\ ObjectsWell(F, [objects EXCEPT ![c] = [@ EXCEPT !.slots = slots]])
      /\ Grows(objects, [objects EXCEPT ![c] = [@ EXCEPT !.slots = slots]])
    <2>1. objects[c].fn \in F => Len(slots) = Len(objects[c].slots)
        BY <1>2, <1>5
    <2> QED BY <1>1, <1>2, <1>3, <2>1, SlotsChanged, Zenon
<1> QED BY <1>4, <1>6, Zenon

LEMMA SetVariableKeeps ==
    ASSUME NEW F, Closed(F), LoopInv(F), SetVariable
    PROVE  LoopInv(F)'
<1> DEFINE index == Instruction.a
           base == TopFrame.base
<1>1. /\ status = "running" /\ Instruction.op = "SET"
      /\ reg' = [reg EXCEPT !.ip = @ + 1] /\ UNCHANGED <<status, stack_frames>>
    BY DEF SetVariable, Fetch
<1>2. IsVariable(Function, Instruction)
    BY <1>1, Here DEF OperandsExist
<1>3. \/ /\ Instruction.kind = "LOCAL" /\ base + index \in Cells
         /\ memory' = [memory EXCEPT ![base + index] = reg.top] /\ objects' = objects
      \/ /\ Instruction.kind = "ARG" /\ reg.args + index \in Cells
         /\ memory' = [memory EXCEPT ![reg.args + index] = reg.top] /\ objects' = objects
      \/ /\ Instruction.kind = "CAPTURE" /\ index + 1 \in DOMAIN Closure.slots
         /\ objects' = [objects EXCEPT ![TopFrame.closure].slots[index + 1] = reg.top]
         /\ memory' = memory
    BY <1>1, <1>2, CellOfVariable DEF SetVariable
<1>4. ObjectsWell(F, objects') /\ Grows(objects, objects')
    BY <1>1, <1>3, NothingChanges, CaptureSet
<1>5. PICK a \in Cells : memory' = memory \/ memory' = [memory EXCEPT ![a] = reg.top]
    <2>1. -1 \in Cells
        BY LoopAssumption DEF Cells
    <2> QED BY <1>3, <2>1
<1>6. /\ DOMAIN memory = Cells /\ DOMAIN reg = {"ip", "sp", "args", "top"}
      /\ Refers(F, objects, reg.top)
    BY DEF LoopInv, MemoryWell
<1>7. /\ DOMAIN reg' = {"ip", "sp", "args", "top"}
      /\ reg'.ip = reg.ip + 1 /\ reg'.sp = reg.sp /\ reg'.args = reg.args
      /\ reg'.top = reg.top
    BY <1>1, <1>6
<1>8. MemoryWell(F)'
    <2>1. Refers(F, objects', reg.top)
        BY <1>4, <1>6, RefersStays
    <2> QED BY <1>4, <1>5, <1>7, <2>1, MemoryStays DEF LoopInv
<1>9. TopCached'
    <2>1. TopFrame' = TopFrame /\ Function' = Function
        BY <1>1, <1>4, Here DEF TopFrame, Function, Closure, Grows
    <2>2. TopCached
        BY <1>1 DEF LoopInv, RunsWell
    <2>3. reg.sp \in Cells
        <3> DEFINE locals == Function.numLocals
                   sp == reg.sp
        <3>1. /\ base \in Nat /\ locals \in Nat /\ Height \in Nat
              /\ sp = base + locals + Height /\ locals + Height <= Function.stackSize
              /\ Function.stackSize \in Nat
            BY <1>1, Here
        <3>2. sp \in Int /\ sp >= base /\ sp <= base + Function.stackSize
            <4> HIDE DEF base, locals, sp
            <4> QED BY <3>1
        <3> QED BY <1>1, <3>2, CellsOfFrame
    <2>4. memory'[reg.sp] \in {memory[reg.sp], reg.top}
        BY <1>5, <1>6, <2>3
    <2> QED BY <1>7, <2>1, <2>2, <2>4 DEF TopCached
<1>10. reg'.sp = reg.sp - Takes(Instruction) + Leaves(Instruction)
    <2>1. Takes(Instruction) = 1 /\ Leaves(Instruction) = 1
        BY <1>1 DEF Takes, Leaves
    <2> QED BY <1>1, <1>7, <2>1, RegIsInt
<1>11. reg'.ip \in Successors(Function.code, reg.ip)
    BY <1>1, <1>7, GoesOn
<1> QED BY <1>1, <1>4, <1>7, <1>8, <1>9, <1>10, <1>11, StaysInFrame

(* Calls.                                                                   *)
LEMMA CalleeRefers ==
    ASSUME NEW F, Closed(F), LoopInv(F), Fetch("CALL")
    PROVE  /\ Refers(F, objects, Callee)
           /\ Instruction.b \in Nat /\ ArgsOfCall \in Int
           /\ ArgsOfCall = reg.sp - Takes(Instruction) + 1
           /\ ArgsOfCall + Instruction.b <= reg.sp + 1
           /\ Successors(Function.code, reg.ip) = {reg.ip + 1} /\ Leaves(Instruction) = 1
<1>1. status = "running" /\ Instruction.op = "CALL"
    BY DEF Fetch
<1>2. /\ Instruction.kind = "TOP" \/ IsVariable(Function, Instruction)
      /\ Instruction.b \in Nat
    BY <1>1, Here DEF OperandsExist
<1>3. Refers(F, objects, Callee)
    BY <1>1, <1>2, ValueRefers DEF Callee
<1>4. reg.sp \in Int
    BY <1>1, RegIsInt
<1>5. Takes(Instruction) = Instruction.b + FromTop(Instruction)
    BY <1>1 DEF Takes
<1>6. /\ ArgsOfCall \in Int /\ ArgsOfCall = reg.sp - Takes(Instruction) + 1
      /\ ArgsOfCall + Instruction.b <= reg.sp + 1
    BY <1>2, <1>4, <1>5 DEF ArgsOfCall, FromTop
<1> QED BY <1>1, <1>2, <1>3, <1>6, GoesOn DEF Leaves

LEMMA CallNativeKeeps ==
    ASSUME NEW F, Closed(F), LoopInv(F), CallNativeFunction
    PROVE  LoopInv(F)'
<1>1. /\ Fetch("CALL") /\ status = "running" /\ TopAt(ArgsOfCall, Nil)
      /\ UNCHANGED <<status, stack_frames, objects>>
    BY DEF CallNativeFunction, OnlyStack, Fetch
<1>2. Refers(F, objects', Nil)
    BY SimpleValues
<1>3. ObjectsWell(F, objects') /\ Grows(objects, objects')
    BY <1>1, NothingChanges
<1> QED BY <1>1, <1>2, <1>3, CalleeRefers, TopAtKeeps

LEMMA CallFailsKeeps ==
    ASSUME NEW F, LoopInv(F), CallFails
    PROVE  LoopInv(F)'
BY EndsKeeps DEF CallFails

(* The caller will go on behind its CALL, with the result on its stack.     *)
LEMMA CallerGoesOn ==
    ASSUME NEW F, Closed(F), LoopInv(F), Fetch("CALL"),
           NEW saved, saved = [ip |-> reg.ip + 1, sp |-> ArgsOfCall, args |-> reg.args]
    PROVE  /\ AtHeight(Function, TopFrame, saved)
           /\ Heights(Function.code)[saved.ip] >= 1
           /\ ArgsOfCall \in Int /\ ArgsOfCall >= 0
           /\ ArgsOfCall + Instruction.b <= TopFrame.base + TopFrame.size
<1> DEFINE ip == reg.ip + 1
           after == Heights(Function.code)[ip]
           base == TopFrame.base
           locals == Function.numLocals
           takes == Takes(Instruction)
           sp == reg.sp
           args == ArgsOfCall
           b == Instruction.b
<1>1. status = "running" /\ saved.ip = ip /\ saved.sp = args /\ saved.args = reg.args
    BY DEF Fetch
<1>2. /\ args = sp - takes + 1 /\ ip \in Successors(Function.code, reg.ip)
      /\ Leaves(Instruction) = 1 /\ args + b <= sp + 1 /\ b \in Nat /\ args \in Int
    BY CalleeRefers
<1>3. /\ after = Height - takes + 1 /\ ip \in DOMAIN Heights(Function.code)
    BY <1>1, <1>2, NextHeight
<1>4. /\ base \in Nat /\ locals \in Nat /\ takes \in Nat /\ Height \in Nat
      /\ Height >= takes /\ sp = base + locals + Height
      /\ locals + Height <= Function.stackSize /\ Function.stackSize \in Nat
      /\ TopFrame.size = Function.stackSize + 1
      /\ reg.args \in Int /\ -2 <= reg.args /\ reg.args + Function.numArgs <= base
    BY <1>1, Here
<1>5. after >= 1 /\ args = base + locals + after /\ args >= 0
    <2> HIDE DEF after, base, locals, takes, sp, args, b
    <2> QED BY <1>2, <1>3, <1>4
<1>6. args + b <= base + TopFrame.size
    <2> HIDE DEF after, base, locals, takes, sp, args, b
    <2> QED BY <1>2, <1>4
<1>7. AtHeight(Function, TopFrame, saved)
    BY <1>1, <1>3, <1>4, <1>5 DEF AtHeight
<1> QED BY <1>1, <1>2, <1>5, <1>6, <1>7

LEMMA FramePushed ==
    ASSUME NEW F, Closed(F), LoopInv(F), status = "running",
           NEW frame, stack_frames' = Append(stack_frames, frame), objects' = objects,
           frame.base = TopFrame.base + TopFrame.size, FrameWell(F, objects, frame),
           frame.base + frame.size <= StackEnd,
           AtHeight(Function, TopFrame, frame.saved),
           Heights(Function.code)[frame.saved.ip] >= 1
    PROVE  /\ FramesWell(F)' /\ CallersWell' /\ (Len(stack_frames) >= 2)'
           /\ TopFrame' = frame /\ frame.base \in Nat
<1> DEFINE n == Len(stack_frames)
           later == stack_frames'
<1>1. /\ n \in Nat /\ n >= 2 /\ DOMAIN stack_frames = 1 .. n
      /\ TopFrame = stack_frames[n] /\ IsSequence(stack_frames)
      /\ Function = FnOf(n)
    BY Here DEF LoopInv, FramesWell
<1>2. /\ IsSequence(later) /\ Len(later) = n + 1 /\ DOMAIN later = 1 .. n + 1
      /\ \A k \in 1 .. n : later[k] = stack_frames[k]
      /\ later[n + 1] = frame
    BY <1>1, Appended
<1>3. /\ TopFrame.base \in Nat /\ TopFrame.size \in Nat
      /\ objects[frame.closure].fn \in F /\ frame.size = objects[frame.closure].fn.stackSize + 1
    BY <1>1, Here DEF LoopInv, FramesWell, FrameWell
<1>4. frame.base \in Nat /\ frame.size \in Nat
    BY <1>3, ClosedFacts
<1> HIDE DEF n, later
<1>5. ASSUME NEW k \in DOMAIN later
      PROVE  /\ later[k].base \in Nat /\ later[k].size \in Nat
             /\ later[k].base + later[k].size <= StackEnd
             /\ k > 1 => /\ later[k].base = later[k - 1].base + later[k - 1].size
                         /\ FrameWell(F, objects, later[k])
    <2>1. CASE k = n + 1
        <3>1. later[k] = frame /\ later[k - 1] = TopFrame
            BY <1>1, <1>2, <2>1
        <3> QED BY <1>4, <3>1
    <2>2. CASE k \in 1 .. n
        <3>1. later[k] = stack_frames[k] /\ (k > 1 => later[k - 1] = stack_frames[k - 1])
            BY <1>1, <1>2, <2>2
        <3> QED BY <1>1, <2>2, <3>1 DEF LoopInv, FramesWell
    <2> QED BY <1>1, <1>2, <1>5, <2>1, <2>2
<1>6. FramesWell(F)'
    BY <1>1, <1>2, <1>5 DEF FramesWell, later
<1>7. ASSUME NEW k \in 2 .. n
      PROVE  /\ AtHeight(FnOf(k), later[k], later[k + 1].saved)
             /\ Heights(FnOf(k).code)[later[k + 1].saved.ip] >= 1
             /\ FnOf(k)' = FnOf(k)
    <2>1. FnOf(k)' = FnOf(k)
        BY <1>1, <1>2, <1>7 DEF FnOf, later
    <2>2. CASE k = n
        <3>1. later[k] = TopFrame /\ later[k + 1] = frame
            BY <1>1, <1>2, <2>2
        <3> QED BY <1>1, <2>1, <2>2, <3>1
    <2>3. CASE k \in 2 .. n - 1
        <3>1. later[k] = stack_frames[k] /\ later[k + 1] = stack_frames[k + 1]
            BY <1>1, <1>2, <2>3
        <3>2. CallersWell
            BY DEF LoopInv, RunsWell
        <3> QED BY <2>1, <2>3, <3>1, <3>2 DEF CallersWell, n
    <2> QED BY <1>1, <1>7, <2>2, <2>3
<1>8. CallersWell'
    <2>1. 2 .. (Len(stack_frames)' - 1) = 2 .. n
        BY <1>1, <1>2 DEF later
    <2> QED BY <1>7, <2>1 DEF CallersWell, later
<1>9. TopFrame' = frame
    BY <1>2 DEF TopFrame, Last, later
<1> QED BY <1>1, <1>2, <1>4, <1>6, <1>8, <1>9 DEF later

LEMMA CallClosureKeeps ==
    ASSUME NEW F, Closed(F), LoopInv(F), CallClosure
    PROVE  LoopInv(F)'
<1> DEFINE fn == objects[Callee[2]].fn
           saved == [ip |-> reg.ip + 1, sp |-> ArgsOfCall, args |-> reg.args]
           frame == CalleeFrame(Callee[2], saved)
<1>1. /\ Fetch("CALL") /\ status = "running" /\ Callee[1] = "fn"
      /\ fn.numArgs <= Instruction.b
    BY DEF CallClosure, Fetch
<1>2. CASE ~ FrameFits(frame)
    BY <1>2, EndsKeeps DEF CallClosure
<1>3. CASE FrameFits(frame)
    <2>1. /\ stack_frames' = Append(stack_frames, frame)
          /\ memory' = [memory EXCEPT ![frame.base] = Tombstone]
          /\ reg' = [ip |-> 1, sp |-> frame.base + fn.numLocals,
                     args |-> ArgsOfCall, top |-> Callee]
          /\ UNCHANGED <<status, objects>>
        BY <1>3 DEF CallClosure
    <2>2. Callee[2] \in DOMAIN objects /\ fn \in F /\ Refers(F, objects, Callee)
        BY <1>1, CalleeRefers DEF Refers
    <2>3. /\ frame.closure = Callee[2] /\ frame.saved = saved
          /\ frame.base = TopFrame.base + TopFrame.size /\ frame.size = fn.stackSize + 1
        BY DEF CalleeFrame
    <2>4. frame.base + frame.size <= StackEnd
        BY <1>3 DEF FrameFits
    <2>5. /\ AtHeight(Function, TopFrame, saved) /\ Heights(Function.code)[saved.ip] >= 1
          /\ ArgsOfCall \in Int /\ ArgsOfCall >= 0
          /\ ArgsOfCall + Instruction.b <= frame.base /\ Instruction.b \in Nat
        BY <1>1, <2>3, CallerGoesOn, CalleeRefers
    <2>6. FrameWell(F, objects, frame)
        BY <2>2, <2>3 DEF FrameWell
    <2> HIDE DEF frame
    <2>7. /\ FramesWell(F)' /\ CallersWell' /\ (Len(stack_frames) >= 2)'
          /\ TopFrame' = frame /\ frame.base \in Nat
        BY <1>1, <2>1, <2>3, <2>4, <2>5, <2>6, FramePushed
    <2>8. Function' = fn
        BY <2>1, <2>3, <2>7 DEF Function, Closure
    <2>9. /\ fn.numArgs \in Nat /\ fn.numLocals \in Nat /\ fn.stackSize \in Nat
          /\ 1 \in DOMAIN Heights(fn.code) /\ Heights(fn.code)[1] = 0
        BY <2>2, ClosedFacts
    <2> HIDE DEF fn
    <2>10. AtHeight(fn, frame, reg')
        <3>1. ArgsOfCall + fn.numArgs <= frame.base
            BY <1>1, <2>5, <2>7, <2>9
        <3> QED BY <2>1, <2>5, <2>7, <2>9, <3>1 DEF AtHeight
    <2>11. TopCached'
        BY <2>1, <2>7, <2>8, <2>9 DEF TopCached
    <2>12. RunsWell'
        BY <2>7, <2>8, <2>10, <2>11 DEF RunsWell
    <2>13. frame.base \in Cells
        BY <2>3, <2>4, <2>7, <2>9, LoopAssumption DEF Cells
    <2>14. ObjectsWell(F, objects') /\ Grows(objects, objects')
        BY <2>1, NothingChanges
    <2>15. MemoryWell(F)'
        BY <2>1, <2>2, <2>13, <2>14, MemoryStays, SimpleValues DEF LoopInv
    <2> QED BY <2>1, <2>7, <2>12, <2>14, <2>15 DEF LoopInv
<1> QED BY <1>2, <1>3

(* Returns.                                                                 *)
LEMMA FramePopped ==
    ASSUME NEW F, FramesWell(F), Len(stack_frames) >= 2,
           stack_frames' = Front(stack_frames), objects' = objects
    PROVE  /\ FramesWell(F)' /\ Len(stack_frames)' = Len(stack_frames) - 1
           /\ \A k \in 1 .. Len(stack_frames) - 1 : stack_frames'[k] = stack_frames[k]
<1> DEFINE n == Len(stack_frames)
           later == stack_frames'
<1>1. IsSequence(stack_frames) /\ n \in Nat /\ DOMAIN stack_frames = 1 .. n
    BY SequenceFacts DEF FramesWell
<1>2. /\ IsSequence(later) /\ Len(later) = n - 1 /\ DOMAIN later = 1 .. n - 1
      /\ \A k \in 1 .. n - 1 : later[k] = stack_frames[k]
    <2>1. /\ IsSequence(Front(stack_frames)) /\ Len(Front(stack_frames)) = n - 1
          /\ DOMAIN Front(stack_frames) = 1 .. n - 1
          /\ \A k \in 1 .. n - 1 : Front(stack_frames)[k] = stack_frames[k]
        <3>1. Len(stack_frames) >= 1
            BY <1>1
        <3> HIDE DEF n
        <3>2. /\ IsSequence(Front(stack_frames))
              /\ Len(Front(stack_frames)) = Len(stack_frames) - 1
              /\ DOMAIN Front(stack_frames) = 1 .. Len(stack_frames) - 1
              /\ \A k \in 1 .. Len(stack_frames) - 1 : Front(stack_frames)[k] = stack_frames[k]
            BY <1>1, <3>1, Fronted
        <3> QED BY <3>2 DEF n
    <2> HIDE DEF n
    <2> QED BY <2>1
<1> HIDE DEF n, later
<1>3. ASSUME NEW k \in DOMAIN later
      PROVE  /\ later[k].base \in Nat /\ later[k].size \in Nat
             /\ later[k].base + later[k].size <= StackEnd
             /\ k > 1 => /\ later[k].base = later[k - 1].base + later[k - 1].size
                         /\ FrameWell(F, objects, later[k])
    <2>1. /\ k \in DOMAIN stack_frames /\ later[k] = stack_frames[k]
          /\ k > 1 => later[k - 1] = stack_frames[k - 1]
        BY <1>1, <1>2, <1>3
    <2> QED BY <2>1 DEF FramesWell
<1>4. FramesWell(F)'
    <2>1. Len(later) >= 1
        BY <1>1, <1>2 DEF n
    <2> QED BY <1>2, <1>3, <2>1 DEF FramesWell, later
<1> QED BY <1>2, <1>4 DEF n, later

LEMMA ReturnKeeps ==
    ASSUME NEW F, Closed(F), LoopInv(F), ReturnFromFunction
    PROVE  LoopInv(F)'
<1> DEFINE n == Len(stack_frames)
           below == stack_frames[n - 1]
           fn == FnOf(n - 1)
           saved == TopFrame.saved
<1>1. /\ status = "running" /\ stack_frames' = Front(stack_frames) /\ objects' = objects
    BY DEF ReturnFromFunction, Fetch
<1>2. /\ n \in Nat /\ n >= 2 /\ TopFrame = stack_frames[n] /\ FramesWell(F)
      /\ ObjectsWell(F, objects) /\ MemoryWell(F)
      /\ DOMAIN memory = Cells /\ DOMAIN reg = {"ip", "sp", "args", "top"}
      /\ Refers(F, objects, reg.top)
    BY <1>1, Here DEF LoopInv, MemoryWell
<1>3. /\ FramesWell(F)' /\ Len(stack_frames)' = n - 1
      /\ \A k \in 1 .. n - 1 : stack_frames'[k] = stack_frames[k]
    BY <1>1, <1>2, FramePopped
<1>4. ObjectsWell(F, objects') /\ Grows(objects, objects')
    BY <1>1, NothingChanges
<1>5. CASE n = 2
    <2>1. status' = "done" /\ UNCHANGED <<memory, reg>>
        BY <1>5 DEF ReturnFromFunction
    <2>2. MemoryWell(F)'
        BY <1>1, <1>2, <2>1 DEF MemoryWell, Cells
    <2> QED BY <1>3, <1>4, <2>1, <2>2 DEF LoopInv, Statuses
<1>6. CASE n > 2
    <2>1. /\ memory' = [memory EXCEPT ![saved.sp] = reg.top]
          /\ reg' = [ip |-> saved.ip, sp |-> saved.sp, args |-> saved.args, top |-> reg.top]
          /\ status' = status
        <3>1. Len(stack_frames) # 2
            BY <1>2, <1>6
        <3> QED BY <3>1 DEF ReturnFromFunction
    <2>2. /\ AtHeight(fn, below, saved) /\ Heights(fn.code)[saved.ip] >= 1
        <3>1. CallersWell /\ n - 1 \in 2 .. n - 1 /\ stack_frames[n - 1 + 1] = TopFrame
            BY <1>1, <1>2, <1>6 DEF LoopInv, RunsWell
        <3> QED BY <3>1 DEF CallersWell
    <2>3. /\ below.base \in Nat /\ below.base + below.size <= StackEnd
          /\ FrameWell(F, objects, below)
        <3>1. n - 1 \in DOMAIN stack_frames /\ n - 1 > 1
            BY <1>1, <1>2, <1>6, Here
        <3> QED BY <1>2, <3>1 DEF FramesWell
    <2>4. fn \in F /\ below.size = fn.stackSize + 1
        BY <2>3 DEF FrameWell, FnOf
    <2>5. TopFrame' = below /\ Function' = fn
        <3>1. TopFrame' = below
            BY <1>2, <1>3, <1>6 DEF TopFrame, Last
        <3> QED BY <1>1, <3>1 DEF Function, Closure, FnOf
    <2>6. saved.sp \in Cells
        <3> DEFINE h == Heights(fn.code)[saved.ip]
                   base == below.base
                   locals == fn.numLocals
                   sp == saved.sp
        <3>1. h \in Nat /\ locals \in Nat /\ fn.stackSize \in Nat /\ locals + h <= fn.stackSize
            BY <2>2, <2>4, ClosedFacts, AtVerified DEF AtHeight
        <3>2. sp = base + locals + h
            BY <2>2 DEF AtHeight
        <3>3. base \in Nat /\ base + (fn.stackSize + 1) <= StackEnd /\ StackEnd \in Nat
            BY <2>3, <2>4, LoopAssumption
        <3> HIDE DEF h, base, locals, sp, fn
        <3>4. sp \in Int /\ sp >= -2 /\ sp <= StackEnd - 1
            BY <3>1, <3>2, <3>3
        <3>5. sp \in Cells
            BY <3>3, <3>4 DEF Cells
        <3> QED BY <3>5 DEF sp
    <2> HIDE DEF saved, below, fn
    <2>7. /\ reg'.ip = saved.ip /\ reg'.sp = saved.sp /\ reg'.args = saved.args
          /\ reg'.top = reg.top /\ DOMAIN reg' = {"ip", "sp", "args", "top"}
          /\ memory'[saved.sp] = reg.top
        BY <1>2, <2>1, <2>6
    <2>8. MemoryWell(F)'
        BY <1>1, <1>2, <1>4, <2>1, <2>6, <2>7, MemoryStays
    <2>9. AtHeight(Function, TopFrame, reg)'
        <3>1. AtHeight(fn, below, reg')
            BY <2>2, <2>7 DEF AtHeight
        <3> QED BY <2>5, <3>1 DEF AtHeight
    <2>10. TopCached'
        BY <2>7 DEF TopCached
    <2>11. CallersWell'
        <3>1. ASSUME NEW k \in 2 .. n - 2
              PROVE  /\ AtHeight(FnOf(k)', stack_frames'[k], stack_frames'[k + 1].saved)
                     /\ Heights(FnOf(k)'.code)[stack_frames'[k + 1].saved.ip] >= 1
            <4>1. stack_frames'[k] = stack_frames[k] /\ stack_frames'[k + 1] = stack_frames[k + 1]
                BY <1>2, <1>3, <3>1
            <4>2. FnOf(k)' = FnOf(k) /\ k \in 2 .. n - 1
                BY <1>1, <1>2, <3>1, <4>1 DEF FnOf
            <4>3. CallersWell
                BY <1>1 DEF LoopInv, RunsWell
            <4> QED BY <4>1, <4>2, <4>3 DEF CallersWell
        <3>2. Len(stack_frames)' - 1 = n - 2
            BY <1>2, <1>3
        <3> HIDE DEF n
        <3> QED BY <3>1, <3>2 DEF CallersWell
    <2>12. Len(stack_frames)' >= 2
        BY <1>2, <1>3, <1>6
    <2>13. RunsWell'
        BY <2>9, <2>10, <2>11, <2>12 DEF RunsWell
    <2> QED BY <1>1, <1>3, <1>4, <2>1, <2>8, <2>13 DEF LoopInv
<1>7. n = 2 \/ n > 2
    <2>1. n \in Nat /\ n >= 2
        BY <1>2
    <2> HIDE DEF n
    <2> QED BY <2>1
<1> QED BY <1>5, <1>6, <1>7

(* A closure holds what the loads behind MAKE_CLOSURE name.                 *)
LEMMA MakeClosureKeeps ==
    ASSUME NEW F, Closed(F), LoopInv(F), MakeClosure
    PROVE  LoopInv(F)'
<1> DEFINE code == Function.code
           b == Instruction.b
           pseudo == SubSeq(code, reg.ip + 1, reg.ip + b)
           captured == [i \in DOMAIN pseudo |-> Value(pseudo[i].kind, pseudo[i].a)]
           fn == Function.functions[Instruction.a + 1]
           closure == Object(fn, captured)
           v == <<"fn", Len(objects) + 1>>
<1>1. status = "running" /\ Instruction.op = "MAKE_CLOSURE"
    BY DEF MakeClosure, Fetch
<1>2. /\ b \in Nat /\ fn.numCaptures = b /\ fn \in F
      /\ \A k \in reg.ip + 1 .. reg.ip + b :
            k \in DOMAIN code /\ code[k].op = "GET" /\ IsVariable(Function, code[k])
    <2>1. OperandsExist(Function, reg.ip) /\ Instruction = code[reg.ip] /\ Function \in F
        BY <1>1, Here
    <2> QED BY <1>1, <2>1, ClosedFacts DEF OperandsExist
<1>3. reg.ip \in Nat
    BY <1>1, Here DEF Verified
<1>4. /\ DOMAIN pseudo = 1 .. b /\ \A i \in 1 .. b : pseudo[i] = code[reg.ip + i]
    <2> DEFINE S == Range(code)
               m == reg.ip + 1
               l == reg.ip + b
    <2>1. m \in Int /\ l \in Int /\ \A i \in m .. l : code[i] \in S
        BY <1>2, <1>3 DEF Range
    <2>2. /\ pseudo \in Seq(S) /\ Len(pseudo) = IF m <= l THEN l - m + 1 ELSE 0
          /\ \A i \in 1 .. l - m + 1 : pseudo[i] = code[m + i - 1]
        <3> HIDE DEF S, m, l, code
        <3>1. /\ SubSeq(code, m, l) \in Seq(S)
              /\ Len(SubSeq(code, m, l)) = IF m <= l THEN l - m + 1 ELSE 0
              /\ \A i \in 1 .. l - m + 1 : SubSeq(code, m, l)[i] = code[m + i - 1]
            BY <2>1, SubSeqProperties
        <3> QED BY <3>1 DEF m, l
    <2>3. Len(pseudo) = b /\ l - m + 1 = b /\ \A i \in 1 .. b : m + i - 1 = reg.ip + i
        <3>1. l - m + 1 = b /\ (m <= l <=> b # 0) /\ \A i \in 1 .. b : m + i - 1 = reg.ip + i
            <4> HIDE DEF b
            <4> QED BY <1>2, <1>3
        <3> HIDE DEF pseudo, code, b, m, l
        <3> QED BY <1>2, <2>2, <3>1
    <2> HIDE DEF pseudo, m, l, S, b
    <2> QED BY <2>2, <2>3, LenProperties
<1>5. ASSUME NEW i \in 1 .. b
      PROVE  /\ pseudo[i].op = "GET"
             /\ Refers(F, objects, Value(pseudo[i].kind, pseudo[i].a))
    <2>1. pseudo[i] = code[reg.ip + i] /\ reg.ip + i \in reg.ip + 1 .. reg.ip + b
        BY <1>2, <1>3, <1>4
    <2> HIDE DEF pseudo, code, b
    <2>2. pseudo[i].op = "GET" /\ IsVariable(Function, pseudo[i])
        BY <1>2, <2>1
    <2> QED BY <1>1, <2>2, ValueRefers
<1> HIDE DEF pseudo, fn, code
<1>6. /\ objects' = Append(objects, closure)
      /\ memory' = [memory EXCEPT ![reg.sp + 1] = v]
      /\ reg' = [reg EXCEPT !.ip = @ + 1 + Len(pseudo), !.sp = @ + 1, !.top = v]
      /\ UNCHANGED <<status, stack_frames>>
    BY <1>4, <1>5 DEF MakeClosure, pseudo, fn, code
<1>7. Len(pseudo) = b
    <2>1. pseudo \in Seq(Range(code))
        <3>1. \A i \in reg.ip + 1 .. reg.ip + b : code[i] \in Range(code)
            BY <1>2 DEF Range
        <3>2. reg.ip + 1 \in Int /\ reg.ip + b \in Int
            BY <1>2, <1>3
        <3> QED BY <3>1, <3>2, SubSeqProperties DEF pseudo
    <2>2. Len(pseudo) \in Nat /\ 1 .. Len(pseudo) = 1 .. b
        BY <1>4, <2>1, LenProperties
    <2> QED BY <1>2, <2>2
<1>8. /\ IsSequence(captured) /\ Len(captured) = b /\ DOMAIN captured = 1 .. b
      /\ \A i \in 1 .. b : Refers(F, objects, captured[i])
    <2>1. captured \in [1 .. b -> Range(captured)]
        BY <1>4 DEF Range
    <2>2. \A i \in 1 .. b : captured[i] = Value(pseudo[i].kind, pseudo[i].a)
        BY <1>4
    <2> HIDE DEF captured
    <2> QED BY <1>2, <1>5, <2>1, <2>2, Filled
<1> HIDE DEF captured
<1>9. ObjectWell(F, objects, closure) /\ closure.fn = fn
    BY <1>2, <1>8 DEF ObjectWell, Object
<1>10. ObjectsWell(F, objects') /\ Grows(objects, objects') /\ Refers(F, objects', v)
    <2>1. /\ ObjectsWell(F, objects') /\ Grows(objects, objects')
          /\ Len(objects) + 1 \in DOMAIN objects' /\ objects'[Len(objects) + 1] = closure
        BY <1>6, <1>9, ObjectAdded DEF LoopInv
    <2> QED BY <1>2, <1>9, <2>1 DEF Refers
<1>11. /\ Takes(Instruction) = 0 /\ Leaves(Instruction) = 1
       /\ Successors(Function.code, reg.ip) = {reg.ip + 1 + b}
    BY <1>1 DEF Takes, Leaves, Successors, Instruction
<1>12. reg.sp + 1 = reg.sp - Takes(Instruction) + 1
    BY <1>1, <1>11, RegIsInt
<1>13. reg' = [reg EXCEPT !.ip = reg.ip + 1 + b, !.sp = reg.sp + 1, !.top = v]
    BY <1>6, <1>7
<1> HIDE DEF v, b
<1> QED BY <1>1, <1>6, <1>10, <1>11, <1>12, <1>13, LeavesResult

(* Intrinsics.                                                              *)
LEMMA IntrinsicKeeps ==
    ASSUME NEW F, Closed(F), LoopInv(F), status = "running",
           Instruction.op \in {"COMPARE", "PLUS", "SUB", "NEG", "GET_ITEM", "PUT_ITEM"},
           NEW n \in Nat \ {0}, n = Takes(Instruction), NEW ok, NEW v, Intrinsic(n, ok, v),
           ok => Refers(F, objects, v)
    PROVE  LoopInv(F)'
<1>1. CASE ~ ok
    BY <1>1, EndsKeeps DEF Intrinsic
<1>2. CASE ok
    <2>1. TopAt(reg.sp - n + 1, v) /\ UNCHANGED <<status, stack_frames, objects>>
        BY <1>2 DEF Intrinsic, OnlyStack
    <2>2. ObjectsWell(F, objects') /\ Grows(objects, objects') /\ Refers(F, objects', v)
        BY <1>2, <2>1, NothingChanges
    <2>3. Leaves(Instruction) = 1 /\ Successors(Function.code, reg.ip) = {reg.ip + 1}
        BY GoesOn DEF Leaves
    <2> QED BY <2>1, <2>2, <2>3, TopAtKeeps
<1> QED BY <1>1, <1>2

LEMMA CompareKeeps ==
    ASSUME NEW F, Closed(F), LoopInv(F), Compare
    PROVE  LoopInv(F)'
<1> DEFINE v == Operands(2)
           result == Bool(Less(v[1][2], v[2][2], Instruction.kind))
<1>1. status = "running" /\ Instruction.op = "COMPARE" /\ Intrinsic(2, AreInts(v), result)
    BY DEF Compare, Fetch
<1>2. Takes(Instruction) = 2
    BY <1>1 DEF Takes
<1>3. Refers(F, objects, result)
    <2>1. result[1] \in {"true", "false"}
        BY DEF Bool
    <2> QED BY <2>1, IsSimple
<1> HIDE DEF v, result
<1> QED BY <1>1, <1>2, <1>3, IntrinsicKeeps

LEMMA ArithmeticKeeps ==
    ASSUME NEW F, Closed(F), LoopInv(F), Arithmetic
    PROVE  LoopInv(F)'
<1>1. PICK n, ok, x :
        /\ status = "running" /\ Instruction.op \in {"PLUS", "SUB", "NEG"}
        /\ n = IF Instruction.op = "NEG" THEN 1 ELSE Instruction.a
        /\ Intrinsic(n, ok, Number(x))
    <2>1. /\ status = "running"
          /\ \/ /\ Instruction.op = "PLUS"
                /\ \E ok, x : Intrinsic(Instruction.a, ok, Number(x))
             \/ /\ Instruction.op = "SUB"
                /\ \E ok, x : Intrinsic(Instruction.a, ok, Number(x))
             \/ /\ Instruction.op = "NEG"
                /\ \E ok, x : Intrinsic(1, ok, Number(x))
        BY DEF Arithmetic
    <2> QED BY <2>1
<1>2. n = Takes(Instruction)
    BY <1>1 DEF Takes
<1>3. n \in Nat \ {0}
    BY <1>1, Here DEF OperandsExist
<1>4. Refers(F, objects, Number(x))
    BY SimpleValues
<1> QED BY <1>1, <1>2, <1>3, <1>4, IntrinsicKeeps

LEMMA MakeListKeeps ==
    ASSUME NEW F, Closed(F), LoopInv(F), MakeList
    PROVE  LoopInv(F)'
<1> DEFINE n == Instruction.a
           elems == [i \in 1 .. n |-> Operands(n)[1]]
           list == Object(NoFunction, elems)
           v == <<"list", Len(objects) + 1>>
<1>1. status = "running" /\ Instruction.op = "MAKE_LIST"
    BY DEF MakeList, Fetch
<1>2. n \in Nat \ {0} /\ n = Takes(Instruction)
    BY <1>1, Here DEF OperandsExist, Takes
<1>3. /\ objects' = Append(objects, list) /\ TopAt(reg.sp - n + 1, v)
      /\ UNCHANGED <<status, stack_frames>>
    BY <1>2 DEF MakeList
<1>4. Refers(F, objects, Operands(n)[1])
    <2> HIDE DEF n
    <2> QED BY <1>1, <1>2, OperandsRefer
<1>5. /\ IsSequence(elems) /\ DOMAIN elems = 1 .. n
      /\ \A i \in 1 .. n : Refers(F, objects, elems[i])
    <2>1. elems \in [1 .. n -> {Operands(n)[1]}] /\ DOMAIN elems = 1 .. n
        OBVIOUS
    <2>2. IsSequence(elems)
        <3> HIDE DEF elems, n
        <3> QED BY <1>2, <2>1, Filled
    <2>3. \A i \in 1 .. n : elems[i] = Operands(n)[1]
        OBVIOUS
    <2> HIDE DEF elems, n
    <2> QED BY <1>4, <2>1, <2>2, <2>3
<1> HIDE DEF elems
<1>6. NoFunction \notin F
    BY ClosedFacts
<1>7. ObjectWell(F, objects, list) /\ list.fn = NoFunction
    BY <1>5, <1>6 DEF ObjectWell, Object
<1>8. ObjectsWell(F, objects') /\ Grows(objects, objects') /\ Refers(F, objects', v)
    <2>1. /\ ObjectsWell(F, objects') /\ Grows(objects, objects')
          /\ Len(objects) + 1 \in DOMAIN objects' /\ objects'[Len(objects) + 1] = list
        BY <1>3, <1>7, ObjectAdded DEF LoopInv
    <2> QED BY <1>7, <2>1 DEF Refers
<1>9. Leaves(Instruction) = 1 /\ Successors(Function.code, reg.ip) = {reg.ip + 1}
    BY <1>1, GoesOn DEF Leaves
<1> HIDE DEF v, list
<1> QED BY <1>1, <1>2, <1>3, <1>8, <1>9, TopAtKeeps

LEMMA ElementRefers ==
    ASSUME NEW F, NEW elems, IsSequence(elems), NEW index,
           \A k \in DOMAIN elems : Refers(F, objects, elems[k])
    PROVE  Refers(F, objects, At(elems, index))
<1>1. CASE index \in 0 .. Len(elems) - 1
    <2>1. index + 1 \in DOMAIN elems
        BY <1>1, SequenceFacts
    <2> QED BY <1>1, <2>1 DEF At
<1>2. CASE index \notin 0 .. Len(elems) - 1
    BY <1>2, SimpleValues DEF At
<1> QED BY <1>1, <1>2

LEMMA ElementsRefer ==
    ASSUME NEW F, Closed(F), LoopInv(F), NEW list, Refers(F, objects, list), list[1] = "list"
    PROVE  /\ list[2] \in DOMAIN objects /\ objects[list[2]].fn \notin F
           /\ IsSequence(Elements(list))
           /\ \A k \in DOMAIN Elements(list) : Refers(F, objects, Elements(list)[k])
<1>1. list[2] \in DOMAIN objects /\ objects[list[2]].fn = NoFunction
    BY DEF Refers
<1>2. ObjectWell(F, objects, objects[list[2]])
    BY <1>1 DEF LoopInv, ObjectsWell
<1>3. NoFunction \notin F
    BY ClosedFacts
<1> QED BY <1>1, <1>2, <1>3 DEF ObjectWell, Elements

LEMMA GetElementKeeps ==
    ASSUME NEW F, Closed(F), LoopInv(F), GetElement
    PROVE  LoopInv(F)'
<1> DEFINE v == Operands(2)
           result == At(Elements(v[1]), v[2][2])
<1>1. status = "running" /\ Instruction.op = "GET_ITEM" /\ Intrinsic(2, IsIndexed(v), result)
    BY DEF GetElement, Fetch
<1>2. Takes(Instruction) = 2
    BY <1>1 DEF Takes
<1>3. ASSUME IsIndexed(v)
      PROVE  Refers(F, objects, result)
    <2>1. Refers(F, objects, v[1])
        BY <1>1, <1>2, OperandsRefer
    <2>2. v[1][1] = "list"
        BY <1>3 DEF IsIndexed
    <2> HIDE DEF v
    <2> QED BY <2>1, <2>2, ElementsRefer, ElementRefers
<1> HIDE DEF v, result
<1> QED BY <1>1, <1>2, <1>3, IntrinsicKeeps

LEMMA MaxOfTwo ==
    ASSUME NEW a \in Nat, NEW b \in Nat
    PROVE  Max({a, b}) \in Nat
<1>1. \E x \in {a, b} : \A y \in {a, b} : x >= y
    OBVIOUS
<1>2. Max({a, b}) \in {a, b}
    BY <1>1 DEF Max
<1> QED BY <1>2

LEMMA PutElementKeeps ==
    ASSUME NEW F, Closed(F), LoopInv(F), PutElement
    PROVE  LoopInv(F)'
<1> DEFINE v == Operands(3)
           elems == Elements(v[1])
           index == v[2][2]
           m == Max({Len(elems), index + 1})
           grown == [i \in 1 .. m |-> At(elems, i - 1)]
           slots == [grown EXCEPT ![index + 1] = v[3]]
           o == v[1][2]
<1>1. status = "running" /\ Instruction.op = "PUT_ITEM"
    BY DEF PutElement, Fetch
<1>2. Takes(Instruction) = 3 /\ Leaves(Instruction) = 1
      /\ Successors(Function.code, reg.ip) = {reg.ip + 1}
    BY <1>1, GoesOn DEF Takes, Leaves
<1>3. \A i \in 1 .. 3 : Refers(F, objects, v[i])
    BY <1>1, <1>2, OperandsRefer
<1>4. CASE ~ (IsIndexed(v) /\ index \in Nat)
    <2>1. Intrinsic(3, IsIndexed(v), Nil)
        BY <1>4 DEF PutElement
    <2> HIDE DEF v
    <2> QED BY <1>1, <1>2, <2>1, IntrinsicKeeps, SimpleValues
<1>5. CASE IsIndexed(v) /\ index \in Nat
    <2>1. /\ objects' = [objects EXCEPT ![o].slots = slots]
          /\ TopAt(reg.sp - 2, At(elems, index)) /\ UNCHANGED <<status, stack_frames>>
        BY <1>5 DEF PutElement
    <2>2. v[1][1] = "list" /\ Refers(F, objects, v[1]) /\ Refers(F, objects, v[3])
        BY <1>3, <1>5 DEF IsIndexed
    <2> HIDE DEF v
    <2>3. /\ o \in DOMAIN objects /\ objects[o].fn \notin F /\ IsSequence(elems)
          /\ \A k \in DOMAIN elems : Refers(F, objects, elems[k])
        BY <2>2, ElementsRefer
    <2>4. m \in Nat
        <3>1. Len(elems) \in Nat /\ index + 1 \in Nat
            BY <1>5, <2>3, SequenceFacts
        <3> QED BY <3>1, MaxOfTwo
    <2> HIDE DEF elems, index, m
    <2>5. \A i : Refers(F, objects, At(elems, i))
        BY <2>3, ElementRefers
    <2>6. DOMAIN slots = 1 .. m /\ \A i \in 1 .. m : Refers(F, objects, slots[i])
        BY <2>2, <2>5
    <2>7. IsSequence(slots)
        <3>1. slots \in [1 .. m -> Range(grown) \cup {v[3]}]
            BY DEF Range
        <3> QED BY <2>4, <3>1, Filled
    <2> HIDE DEF slots, o
    <2>8. /\ ObjectsWell(F, [objects EXCEPT ![o] = [@ EXCEPT !.slots = slots]])
          /\ Grows(objects, [objects EXCEPT ![o] = [@ EXCEPT !.slots = slots]])
        <3>1. ObjectsWell(F, objects) /\ \A k \in DOMAIN slots : Refers(F, objects, slots[k])
            BY <2>6 DEF LoopInv
        <3> QED BY <2>3, <2>7, <3>1, SlotsChanged, Zenon
    <2>9. ObjectsWell(F, objects') /\ Grows(objects, objects')
        BY <2>1, <2>8, Zenon
    <2>10. Refers(F, objects', At(elems, index))
        BY <2>5, <2>9, RefersStays
    <2>11. reg.sp - 2 = reg.sp - Takes(Instruction) + 1
        BY <1>1, <1>2, RegIsInt
    <2> QED BY <1>1, <1>2, <2>1, <2>9, <2>10, <2>11, TopAtKeeps
<1> QED BY <1>4, <1>5

-----------------------------------------------------------------------------
LEMMA LoopBegins ==
    ASSUME NEW F, NEW fn, Complete(fn, F), LoopInit(fn)
    PROVE  LoopInv(F)
<1> DEFINE object == Object(fn, <<>>)
           frame == [closure |-> 1, base |-> 0, saved |-> <<>>, size |-> fn.stackSize + 1]
<1>1. fn.numArgs <= 2 /\ fn.stackSize + 1 <= StackEnd /\ status = "running"
    BY DEF LoopInit, Callable
<1>2. /\ objects = <<object>> /\ stack_frames = <<HostFrame, frame>>
      /\ reg = [ip |-> 1, sp |-> fn.numLocals, args |-> HostArgs, top |-> Tombstone]
    BY DEF LoopInit, Begin
<1>3. /\ DOMAIN memory = Cells
      /\ \A a \in Cells : memory[a][1] \in {"native", "tombstone", "unwritten"}
    <2>1. memory = [a \in Cells |->
                        CASE a = -2 -> <<"native", "import">>
                          [] a = -1 -> <<"native", "export">>
                          [] a = 0 -> Tombstone
                          [] OTHER -> Unwritten]
        BY DEF LoopInit, Begin
    <2> QED BY <2>1 DEF Tombstone, Unwritten
<1>4. /\ fn \in F /\ Closed(F) /\ fn.numCaptures = 0
      /\ fn.numArgs \in Nat /\ fn.numLocals \in Nat /\ fn.stackSize \in Nat
      /\ 1 \in DOMAIN Heights(fn.code) /\ Heights(fn.code)[1] = 0
    BY ClosedFacts DEF Complete
<1>5. Len(objects) = 1 /\ DOMAIN objects = 1 .. 1 /\ objects[1] = object /\ IsSequence(objects)
    <2>1. objects \in Seq({object})
        BY <1>2
    <2> HIDE DEF object
    <2> QED BY <1>2, <2>1, IsOne
<1>6. /\ Len(stack_frames) = 2 /\ DOMAIN stack_frames = 1 .. 2 /\ IsSequence(stack_frames)
      /\ stack_frames[1] = HostFrame /\ stack_frames[2] = frame
    <2>1. stack_frames \in Seq({HostFrame, frame})
        BY <1>2
    <2> HIDE DEF frame
    <2> QED BY <1>2, <2>1, IsOne
<1>7. ObjectWell(F, objects, object)
    <2>1. IsSequence(<<>>) /\ Len(<<>>) = 0 /\ DOMAIN <<>> = {}
        <3> DEFINE none == <<>>
        <3>1. none \in Seq({}) /\ Len(none) = 0 /\ DOMAIN none = {}
            OBVIOUS
        <3> HIDE DEF none
        <3>2. IsSequence(none)
            BY <3>1, IsOne
        <3> QED BY <3>1, <3>2 DEF none
    <2> QED BY <1>4, <2>1 DEF ObjectWell, Object
<1>8. ObjectsWell(F, objects)
    BY <1>5, <1>7 DEF ObjectsWell
<1>9. MemoryWell(F)
    BY <1>2, <1>3, IsSimple, SimpleValues DEF MemoryWell
<1>10. FramesWell(F)
    <2>1. FrameWell(F, objects, frame)
        BY <1>4, <1>5 DEF FrameWell, Object
    <2>2. StackEnd \in Nat
        BY LoopAssumption
    <2> QED BY <1>1, <1>4, <1>6, <2>1, <2>2 DEF FramesWell, HostFrame
<1>11. TopFrame = frame /\ Function = fn
    BY <1>5, <1>6 DEF TopFrame, Last, Function, Closure, Object
<1>12. RunsWell
    <2>1. AtHeight(fn, frame, reg)
        BY <1>1, <1>2, <1>4 DEF AtHeight, HostArgs
    <2>2. CallersWell
        BY <1>6 DEF CallersWell
    <2>3. TopCached
        BY <1>2, <1>4, <1>11 DEF TopCached
    <2> QED BY <1>6, <1>11, <2>1, <2>2, <2>3 DEF RunsWell
<1> QED BY <1>1, <1>8, <1>9, <1>10, <1>12 DEF LoopInv, Statuses

LEMMA StutterKeeps ==
    ASSUME NEW F, LoopInv(F), UNCHANGED loopVars
    PROVE  LoopInv(F)'
<1>1. UNCHANGED <<status, memory, reg, stack_frames, objects>>
    BY DEF loopVars
<1>2. ObjectsWell(F, objects)' /\ MemoryWell(F)' /\ FramesWell(F)'
    BY <1>1 DEF LoopInv, ObjectsWell, MemoryWell, FramesWell, FrameWell, Cells
<1>3. status = "running" => RunsWell'
    <2>1. Function' = Function /\ TopFrame' = TopFrame /\ \A k : FnOf(k)' = FnOf(k)
        BY <1>1 DEF Function, Closure, TopFrame, FnOf
    <2> QED BY <1>1, <2>1 DEF LoopInv, RunsWell, CallersWell, AtHeight, TopCached
<1> QED BY <1>1, <1>2, <1>3 DEF LoopInv

(* Every instruction keeps the invariant.                                   *)
LEMMA StepKeeps ==
    ASSUME NEW F, Closed(F), LoopInv(F), [LoopNext]_loopVars
    PROVE  LoopInv(F)'
<1>1. CASE Constants
    BY <1>1, ConstantsKeep
<1>2. CASE Pop
    BY <1>2, PopKeeps
<1>3. CASE GetVariable
    BY <1>3, GetVariableKeeps
<1>4. CASE SetVariable
    BY <1>4, SetVariableKeeps
<1>5. CASE CallClosure
    BY <1>5, CallClosureKeeps
<1>6. CASE CallNativeFunction
    BY <1>6, CallNativeKeeps
<1>7. CASE CallFails
    BY <1>7, CallFailsKeeps
<1>8. CASE ReturnFromFunction
    BY <1>8, ReturnKeeps
<1>9. CASE Jump
    BY <1>9, JumpKeeps
<1>10. CASE JumpIfFalse
    BY <1>10, JumpIfFalseKeeps
<1>11. CASE MakeClosure
    BY <1>11, MakeClosureKeeps
<1>12. CASE Compare
    BY <1>12, CompareKeeps
<1>13. CASE Arithmetic
    BY <1>13, ArithmeticKeeps
<1>14. CASE MakeList
    BY <1>14, MakeListKeeps
<1>15. CASE GetElement
    BY <1>15, GetElementKeeps
<1>16. CASE PutElement
    BY <1>16, PutElementKeeps
<1>17. CASE UNCHANGED loopVars
    BY <1>17, StutterKeeps
<1> QED BY <1>1, <1>2, <1>3, <1>4, <1>5, <1>6, <1>7, <1>8, <1>9, <1>10, <1>11, <1>12,
           <1>13, <1>14, <1>15, <1>16, <1>17 DEF LoopNext

LEMMA LoopInvHolds ==
    ASSUME NEW F, NEW fn, Complete(fn, F)
    PROVE  LoopSpec(fn) => []LoopInv(F)
<1>1. LoopInit(fn) => LoopInv(F)
    BY LoopBegins
<1>2. Closed(F)
    BY DEF Complete
<1>3. LoopInv(F) /\ [LoopNext]_loopVars => LoopInv(F)'
    BY <1>2, StepKeeps
<1> QED BY <1>1, <1>3, PTL DEF LoopSpec

LEMMA InvGivesTypes ==
    ASSUME NEW F, Closed(F), LoopInv(F)
    PROVE  LoopTypeOK
<1>1. /\ \A k \in DOMAIN stack_frames : k > 1 =>
            /\ stack_frames[k].base = stack_frames[k - 1].base + stack_frames[k - 1].size
            /\ stack_frames[k].closure \in DOMAIN objects
    BY DEF LoopInv, FramesWell, FrameWell
<1>2. status \in Statuses /\ DOMAIN memory = Cells
    BY DEF LoopInv, MemoryWell
<1>3. ASSUME status = "running"
      PROVE  /\ reg.ip \in DOMAIN Function.code
             /\ reg.sp \in Cells /\ reg.args \in Cells /\ TopCached
    <2> DEFINE base == TopFrame.base
               locals == Function.numLocals
               size == Function.stackSize
               sp == reg.sp
               args == reg.args
               n == Function.numArgs
    <2>1. /\ base \in Nat /\ locals \in Nat /\ size \in Nat /\ Height \in Nat /\ n \in Nat
          /\ sp = base + locals + Height /\ locals + Height <= size
          /\ base + (size + 1) <= StackEnd
          /\ args \in Int /\ -2 <= args /\ args + n <= base
        BY <1>3, Here
    <2>2. sp \in Int /\ -2 <= sp /\ sp <= StackEnd - 1 /\ args <= StackEnd - 1 /\ StackEnd \in Nat
        <3>1. StackEnd \in Nat
            BY LoopAssumption
        <3> HIDE DEF base, locals, size, sp, args, n
        <3> QED BY <2>1, <3>1
    <2>3. sp \in Cells /\ args \in Cells
        <3> HIDE DEF base, locals, size, sp, args, n
        <3> QED BY <2>1, <2>2 DEF Cells
    <2>4. TopCached
        BY <1>3 DEF LoopInv, RunsWell
    <2>5. reg.ip \in DOMAIN Function.code
        BY <1>3, Here
    <2> QED BY <2>3, <2>4, <2>5
<1> QED BY <1>1, <1>2, <1>3 DEF LoopTypeOK

LEMMA InvKeepsFrame ==
    ASSUME NEW F, Closed(F), LoopInv(F)
    PROVE  StackInFrame
<1>1. SUFFICES ASSUME status = "running"
               PROVE  /\ reg.sp - (TopFrame.base + Function.numLocals) >= 0
                      /\ reg.sp < TopFrame.base + TopFrame.size
                      /\ Instruction.op = "RETURN" =>
                            reg.sp - (TopFrame.base + Function.numLocals) = 1
    BY DEF StackInFrame
<1> DEFINE base == TopFrame.base
           locals == Function.numLocals
           stack == Function.stackSize
           size == TopFrame.size
           sp == reg.sp
<1>2. /\ base \in Nat /\ locals \in Nat /\ stack \in Nat /\ Height \in Nat
      /\ sp = base + locals + Height /\ locals + Height <= stack /\ size = stack + 1
      /\ Instruction.op = "RETURN" => Height = 1
    BY <1>1, Here
<1> HIDE DEF base, locals, stack, size, sp
<1>3. /\ sp - (base + locals) >= 0 /\ sp < base + size
      /\ Instruction.op = "RETURN" => sp - (base + locals) = 1
    BY <1>2
<1> QED BY <1>3 DEF base, locals, stack, size, sp

(* The registers of the loop stay in the code and in the memory, the frames   *)
(* lie behind each other, and the cached top of the stack is the one in      *)
(* memory, whatever verified program the host calls.                         *)
THEOREM LoopTypeCorrect ==
    ASSUME NEW F, NEW fn, Complete(fn, F)
    PROVE  LoopSpec(fn) => []LoopTypeOK
<1>1. Closed(F)
    BY DEF Complete
<1>2. LoopInv(F) => LoopTypeOK
    BY <1>1, InvGivesTypes
<1> QED BY <1>2, LoopInvHolds, PTL

(* Verified code never leaves its stack frame: the operands are between the   *)
(* locals and the size that mara_vm_alloc_stack_frame has checked, in every   *)
(* call, and a function returns with one value.                              *)
THEOREM StackStaysInFrame ==
    ASSUME NEW F, NEW fn, Complete(fn, F)
    PROVE  LoopSpec(fn) => []StackInFrame
<1>1. Closed(F)
    BY DEF Complete
<1>2. LoopInv(F) => StackInFrame
    BY <1>1, InvKeepsFrame
<1> QED BY <1>2, LoopInvHolds, PTL

(* Verified code neither reaches "Illegal closure pseudo instruction" nor     *)
(* moves sp by an operand count of zero less one.                            *)
THEOREM NeverAsserts ==
    ASSUME NEW F, NEW fn, Complete(fn, F)
    PROVE  LoopSpec(fn) => [](status \notin {"assert", "crash"})
<1>1. LoopInv(F) => status \notin {"assert", "crash"}
    BY DEF LoopInv
<1> QED BY <1>1, LoopInvHolds, PTL
=============================================================================
