--------------------------------- MODULE Loop ---------------------------------
(***************************************************************************)
(* The dispatch loop of mara (src/src/vm.c), one instruction at a time, with *)
(* the operand stack as it is in memory: the frames lie next to each other,  *)
(* the locals of a frame come first, and arguments are the cells of the      *)
(* caller.  What a frame does not overwrite keeps what an earlier one has    *)
(* left there.  The loop checks nothing about the code it runs: Verified     *)
(* says what it relies on.  Zones and copying are in Heap; here an object is *)
(* shared when the code would copy it.                                       *)
(***************************************************************************)
EXTENDS Integers, Sequences, SequencesExt, FiniteSetsExt

CONSTANTS
    StackEnd,   \* ctx->stack_end: the number of cells of the stack
    FramesEnd   \* ctx->stack_frames_end: the number of stack frames

ASSUME LoopAssumption == StackEnd \in Nat /\ FramesEnd \in Nat

VARIABLES
    status,         \* "running", or how it ended
    memory,         \* the operand stack; the arguments of the host are below 0
    reg,            \* ip, sp, args and the cached top of the stack
    stack_frames,   \* up to fp, that of the host first
    objects         \* closures and lists: a function, and captures or elements

loopVars == <<status, memory, reg, stack_frames, objects>>

(***************************************************************************)
(* Values                                                                  *)
(***************************************************************************)
Nil == <<"nil">>
Bool(b) == <<IF b THEN "true" ELSE "false">>
IsFalsy(v) == v \in {Nil, Bool(FALSE)}
Tombstone == <<"tombstone">>
Unwritten == <<"unwritten">>
Number(n) == <<"int", n>>
AreInts(values) == \A i \in DOMAIN values : values[i][1] = "int"

Cells == (-2) .. (StackEnd - 1)
HostArgs == -2
Object(fn, slots) == [fn |-> fn, slots |-> slots]
NoFunction ==
    [numArgs |-> 0, numLocals |-> 0, numCaptures |-> 0, stackSize |-> 0,
     code |-> <<>>, constants |-> <<>>, functions |-> <<>>]

TopFrame == Last(stack_frames)
Closure == objects[TopFrame.closure]
Function == Closure.fn
Instruction == Function.code[reg.ip]

(***************************************************************************)
(* Frames                                                                  *)
(***************************************************************************)
HostFrame == [closure |-> 0, base |-> 0, size |-> 0, saved |-> <<>>]

CalleeFrame(closure, saved) ==
    [closure |-> closure, base |-> TopFrame.base + TopFrame.size,
     size |-> objects[closure].fn.stackSize + 1, saved |-> saved]

FrameFits(frame) ==
    Len(stack_frames) < FramesEnd /\ frame.base + frame.size <= StackEnd

(* mara_call by the host, with two arguments: whether it begins to run fn,  *)
(* and the state in which it does.                                          *)
Callable(fn) == fn.numArgs <= 2 /\ FramesEnd > 1 /\ fn.stackSize + 1 <= StackEnd

Begin(fn) ==
    /\ objects = <<Object(fn, <<>>)>>
    /\ stack_frames = <<HostFrame, [closure |-> 1, base |-> 0, saved |-> <<>>,
                                    size |-> fn.stackSize + 1]>>
    /\ memory = [a \in Cells |->
                    CASE a = -2 -> <<"native", "import">>
                      [] a = -1 -> <<"native", "export">>
                      [] a = 0 -> Tombstone
                      [] OTHER -> Unwritten]
    /\ reg = [ip |-> 1, sp |-> fn.numLocals, args |-> HostArgs, top |-> Tombstone]

LoopInit(fn) == Callable(fn) /\ status = "running" /\ Begin(fn)

(***************************************************************************)
(* Instructions.                                                           *)
(***************************************************************************)
Fetch(op) == status = "running" /\ Instruction.op = op

(* v becomes the top of the stack at sp, and ip goes to the next. *)
TopAt(sp, v) ==
    /\ memory' = [memory EXCEPT ![sp] = v]
    /\ reg' = [reg EXCEPT !.ip = @ + 1, !.sp = sp, !.top = v]

Push(v) == TopAt(reg.sp + 1, v)

OnlyStack == UNCHANGED <<status, stack_frames, objects>>

Ends(how) ==
    /\ status' = how
    /\ UNCHANGED <<memory, reg, stack_frames, objects>>

Constants ==
    /\ status = "running"
    /\ \/ Instruction.op = "NIL" /\ Push(Nil)
       \/ Instruction.op = "TRUE" /\ Push(Bool(TRUE))
       \/ Instruction.op = "FALSE" /\ Push(Bool(FALSE))
       \/ Instruction.op = "SMALL_INT" /\ Push(Number(Instruction.a))
       \/ Instruction.op = "CONSTANT" /\ Push(Function.constants[Instruction.a + 1])
    /\ OnlyStack

Pop ==
    /\ Fetch("POP")
    /\ LET sp == reg.sp - Instruction.a
       IN  reg' = [reg EXCEPT !.ip = @ + 1, !.sp = sp, !.top = memory[sp]]
    /\ UNCHANGED memory /\ OnlyStack

Value(kind, index) ==
    CASE kind = "LOCAL" -> memory[TopFrame.base + index]
      [] kind = "ARG" -> memory[reg.args + index]
      [] kind = "CAPTURE" -> Closure.slots[index + 1]
      [] kind = "TOP" -> reg.top

GetVariable ==
    Fetch("GET") /\ Push(Value(Instruction.kind, Instruction.a)) /\ OnlyStack

SetVariable ==
    /\ Fetch("SET")
    /\ LET index == Instruction.a
       IN  \/ /\ Instruction.kind = "LOCAL"
              /\ memory' = [memory EXCEPT ![TopFrame.base + index] = reg.top]
              /\ UNCHANGED objects
           \/ /\ Instruction.kind = "ARG"
              /\ memory' = [memory EXCEPT ![reg.args + index] = reg.top]
              /\ UNCHANGED objects
           \/ /\ Instruction.kind = "CAPTURE"
              /\ objects' = [objects EXCEPT ![TopFrame.closure].slots[index + 1] = reg.top]
              /\ UNCHANGED memory
    /\ reg' = [reg EXCEPT !.ip = @ + 1]
    /\ UNCHANGED <<status, stack_frames>>

(* CALL finds the function on top of the stack; the super instructions load *)
(* it without storing it there.  The first argument is where the result     *)
(* will be.                                                                *)
Callee == Value(Instruction.kind, Instruction.a)

ArgsOfCall ==
    (IF Instruction.kind = "TOP" THEN reg.sp ELSE reg.sp + 1) - Instruction.b

CallClosure ==
    /\ Fetch("CALL")
    /\ Callee[1] = "fn"
    /\ objects[Callee[2]].fn.numArgs <= Instruction.b
    /\ LET fn == objects[Callee[2]].fn
           saved == [ip |-> reg.ip + 1, sp |-> ArgsOfCall, args |-> reg.args]
           frame == CalleeFrame(Callee[2], saved)
       IN  IF FrameFits(frame)
           THEN /\ stack_frames' = Append(stack_frames, frame)
                /\ memory' = [memory EXCEPT ![frame.base] = Tombstone]
                /\ reg' = [ip |-> 1, sp |-> frame.base + fn.numLocals,
                           args |-> ArgsOfCall, top |-> Callee]
                /\ UNCHANGED <<status, objects>>
           ELSE Ends("stack-overflow")

(* A native function; the ones here return nil. *)
CallNativeFunction ==
    /\ Fetch("CALL")
    /\ Callee[1] = "native"
    /\ TopAt(ArgsOfCall, Nil)
    /\ OnlyStack

CallFails ==
    /\ Fetch("CALL")
    /\ Callee[1] # "native"
    /\ Callee[1] = "fn" => objects[Callee[2]].fn.numArgs > Instruction.b
    /\ Ends("error")

ReturnFromFunction ==
    /\ Fetch("RETURN")
    /\ stack_frames' = Front(stack_frames)
    /\ \/ /\ Len(stack_frames) = 2
          /\ status' = "done"
          /\ UNCHANGED <<memory, reg>>
       \/ /\ Len(stack_frames) > 2
          /\ memory' = [memory EXCEPT ![TopFrame.saved.sp] = reg.top]
          /\ reg' = [ip |-> TopFrame.saved.ip, sp |-> TopFrame.saved.sp, args |-> TopFrame.saved.args,
                     top |-> reg.top]
          /\ UNCHANGED status
    /\ UNCHANGED objects

Jump ==
    /\ Fetch("JUMP")
    /\ reg' = [reg EXCEPT !.ip = @ + 1 + Instruction.a]
    /\ UNCHANGED memory /\ OnlyStack

JumpIfFalse ==
    /\ Fetch("JUMP_IF_FALSE")
    /\ reg' = [reg EXCEPT !.ip = @ + 1 + (IF IsFalsy(reg.top) THEN Instruction.a ELSE 0),
                          !.sp = @ - 1, !.top = memory[reg.sp - 1]]
    /\ UNCHANGED memory /\ OnlyStack

(* The pseudo instructions say what is captured; mara_assert stops the      *)
(* program when one of them is no load.                                     *)
MakeClosure ==
    /\ Fetch("MAKE_CLOSURE")
    /\ LET pseudo == SubSeq(Function.code, reg.ip + 1, reg.ip + Instruction.b)
           captured == [i \in DOMAIN pseudo |-> Value(pseudo[i].kind, pseudo[i].a)]
           closure == Object(Function.functions[Instruction.a + 1], captured)
           v == <<"fn", Len(objects) + 1>>
       IN  IF \A i \in DOMAIN pseudo : pseudo[i].op = "GET"
           THEN /\ objects' = Append(objects, closure)
                /\ memory' = [memory EXCEPT ![reg.sp + 1] = v]
                /\ reg' = [reg EXCEPT !.ip = @ + 1 + Len(pseudo), !.sp = @ + 1, !.top = v]
                /\ UNCHANGED <<status, stack_frames>>
           ELSE Ends("assert")

(***************************************************************************)
(* Intrinsics, on n operands of which the last is on top of the stack.      *)
(* With none, sp -= operands - 1 is a wild pointer: operands is unsigned.    *)
(***************************************************************************)
Operands(n) == [i \in 1 .. n |-> memory[reg.sp - n + i]]

Intrinsic(n, ok, v) ==
    IF n = 0 THEN Ends("crash")
    ELSE IF ~ok THEN Ends("error")
    ELSE TopAt(reg.sp - n + 1, v) /\ OnlyStack

Less(x, y, comparison) ==
    CASE comparison = "<" -> x < y
      [] comparison = "<=" -> x <= y
      [] comparison = ">" -> x > y
      [] comparison = ">=" -> x >= y

Compare ==
    /\ Fetch("COMPARE")
    /\ LET v == Operands(2)
       IN  Intrinsic(2, AreInts(v), Bool(Less(v[1][2], v[2][2], Instruction.kind)))

Total(values) == FoldLeft(LAMBDA sum, v : sum + v[2], 0, values)

Arithmetic ==
    /\ status = "running"
    /\ \/ /\ Instruction.op = "PLUS"
          /\ LET v == Operands(Instruction.a)
             IN  Intrinsic(Instruction.a, AreInts(v), Number(Total(v)))
       \/ /\ Instruction.op = "SUB"
          /\ LET v == Operands(Instruction.a)
             IN  Intrinsic(Instruction.a, AreInts(v), Number(v[1][2] - Total(Tail(v))))
       \/ /\ Instruction.op = "NEG"
          /\ LET v == Operands(1)
             IN  Intrinsic(1, AreInts(v), Number(-v[1][2]))

(* Every element of the list is the first operand. *)
MakeList ==
    /\ Fetch("MAKE_LIST")
    /\ LET n == Instruction.a
       IN  IF n = 0 THEN Ends("crash")
           ELSE /\ objects' = Append(objects,
                                     Object(NoFunction, [i \in 1 .. n |-> Operands(n)[1]]))
                /\ TopAt(reg.sp - n + 1, <<"list", Len(objects) + 1>>)
                /\ UNCHANGED <<status, stack_frames>>

Elements(list) == objects[list[2]].slots
IsIndexed(v) == v[1][1] = "list" /\ v[2][1] = "int"
At(elems, index) == IF index \in 0 .. Len(elems) - 1 THEN elems[index + 1] ELSE Nil

GetElement ==
    /\ Fetch("GET_ITEM")
    /\ LET v == Operands(2)
       IN  Intrinsic(2, IsIndexed(v), At(Elements(v[1]), v[2][2]))

(* The list grows with nils to the index; the old element is the result. *)
PutElement ==
    /\ Fetch("PUT_ITEM")
    /\ LET v == Operands(3)
           elems == Elements(v[1])
           index == v[2][2]
           grown == [i \in 1 .. Max({Len(elems), index + 1}) |-> At(elems, i - 1)]
       IN  IF IsIndexed(v) /\ index \in Nat
           THEN /\ objects' = [objects EXCEPT ![v[1][2]].slots = [grown EXCEPT ![index + 1] = v[3]]]
                /\ TopAt(reg.sp - 2, At(elems, index))
                /\ UNCHANGED <<status, stack_frames>>
           ELSE Intrinsic(3, IsIndexed(v), Nil)

LoopNext ==
    \/ Constants \/ Pop \/ GetVariable \/ SetVariable
    \/ CallClosure \/ CallNativeFunction \/ CallFails \/ ReturnFromFunction
    \/ Jump \/ JumpIfFalse \/ MakeClosure
    \/ Compare \/ Arithmetic \/ MakeList \/ GetElement \/ PutElement

LoopSpec(fn) == LoopInit(fn) /\ [][LoopNext]_loopVars

(***************************************************************************)
(* What the loop relies on.  The compiler has to see to it, since nothing is *)
(* checked at run time: every way through the code of a function to an       *)
(* instruction leaves the same number of values on the stack, enough for its *)
(* operands and never more than the frame holds, and every index is that of  *)
(* something that exists.                                                    *)
(***************************************************************************)
Opcodes ==
    {"NIL", "TRUE", "FALSE", "SMALL_INT", "CONSTANT", "POP", "GET", "SET", "CALL", "RETURN",
     "JUMP", "JUMP_IF_FALSE", "MAKE_CLOSURE", "COMPARE", "PLUS", "SUB", "NEG", "MAKE_LIST",
     "GET_ITEM", "PUT_ITEM"}

FromTop(instr) == IF instr.kind = "TOP" THEN 1 ELSE 0

(* How many values an instruction takes from the stack, and leaves there. *)
Takes(instr) ==
    CASE instr.op \in {"POP", "PLUS", "SUB", "MAKE_LIST"} -> instr.a
      [] instr.op = "CALL" -> instr.b + FromTop(instr)
      [] instr.op \in {"SET", "NEG", "RETURN", "JUMP_IF_FALSE"} -> 1
      [] instr.op \in {"COMPARE", "GET_ITEM"} -> 2
      [] instr.op = "PUT_ITEM" -> 3
      [] OTHER -> 0

Leaves(instr) == IF instr.op \in {"POP", "JUMP", "JUMP_IF_FALSE"} THEN 0 ELSE 1

(* The instructions that may be executed after the one at i. *)
Successors(code, i) ==
    CASE code[i].op = "RETURN" -> {}
      [] code[i].op = "JUMP" -> {i + 1 + code[i].a}
      [] code[i].op = "JUMP_IF_FALSE" -> {i + 1, i + 1 + code[i].a}
      [] code[i].op = "MAKE_CLOSURE" -> {i + 1 + code[i].b}
      [] OTHER -> {i + 1}

HeightAfter(code, heights, i) == heights[i] - Takes(code[i]) + Leaves(code[i])

(* The number of values on the stack before each instruction that can be    *)
(* reached, on some way there.                                              *)
Heights(code) ==
    FoldLeftDomain(LAMBDA heights, i :
            IF i \in DOMAIN heights
            THEN [k \in Successors(code, i) |-> HeightAfter(code, heights, i)] @@ heights
            ELSE heights,
        1 :> 0, code)

IsVariable(fn, instr) ==
    \/ instr.kind = "LOCAL" /\ instr.a \in 0 .. fn.numLocals - 1
    \/ instr.kind = "ARG" /\ instr.a \in 0 .. fn.numArgs - 1
    \/ instr.kind = "CAPTURE" /\ instr.a \in 0 .. fn.numCaptures - 1

(* The operands of an instruction; a closure is followed by one load for    *)
(* each of its captures.                                                    *)
OperandsExist(fn, i) ==
    LET instr == fn.code[i]
    IN  /\ instr.op \in Opcodes
        /\ instr.a \in Int /\ instr.b \in Nat
        /\ instr.op = "POP" => instr.a \in Nat
        /\ instr.op = "CONSTANT" => instr.a + 1 \in DOMAIN fn.constants
        /\ instr.op \in {"GET", "SET"} => IsVariable(fn, instr)
        /\ instr.op = "CALL" => instr.kind = "TOP" \/ IsVariable(fn, instr)
        /\ instr.op \in {"PLUS", "SUB", "MAKE_LIST"} => instr.a > 0
        /\ instr.op = "MAKE_CLOSURE" =>
              /\ instr.a + 1 \in DOMAIN fn.functions
              /\ fn.functions[instr.a + 1].numCaptures = instr.b
              /\ \A k \in i + 1 .. i + instr.b :
                    k \in DOMAIN fn.code /\ fn.code[k].op = "GET" /\ IsVariable(fn, fn.code[k])

StackAgrees(fn, heights, i) ==
    LET instr == fn.code[i]
    IN  /\ heights[i] \in Takes(instr) .. fn.stackSize - fn.numLocals
        /\ instr.op = "RETURN" => heights[i] = 1
        /\ \A k \in Successors(fn.code, i) :
              k \in DOMAIN heights /\ heights[k] = HeightAfter(fn.code, heights, i)

Verified(fn) ==
    LET heights == Heights(fn.code)
    IN  /\ fn.numArgs \in Nat /\ fn.numLocals \in Nat /\ fn.numCaptures \in Nat
        /\ fn.stackSize \in Nat
        /\ DOMAIN fn.code = 1 .. Len(fn.code)
        /\ \A c \in DOMAIN fn.constants : fn.constants[c][1] \in {"int", "str"}
        /\ 1 \in DOMAIN heights /\ heights[1] = 0
        /\ \A i \in DOMAIN heights :
              i \in DOMAIN fn.code /\ OperandsExist(fn, i) /\ StackAgrees(fn, heights, i)

(* Functions that are verified, with those that they make closures of. *)
Closed(functions) ==
    \A fn \in functions :
        Verified(fn) /\ \A k \in DOMAIN fn.functions : fn.functions[k] \in functions

(* What the host may call: one that captures nothing, of such functions. *)
Complete(fn, functions) == fn \in functions /\ Closed(functions) /\ fn.numCaptures = 0

(***************************************************************************)
(* Properties                                                              *)
(***************************************************************************)

Statuses == {"running", "done", "error", "rejected", "stack-overflow", "assert", "crash"}

(* The top of the stack that the loop keeps in a variable is the one in     *)
(* memory, across calls, returns, jumps and stores to the caller's cells.   *)
TopCached == reg.sp > TopFrame.base + Function.numLocals => reg.top = memory[reg.sp]

(* The registers point into the code and into the memory, and the frames lie *)
(* one after the other (the types of the registers and of the frames); the   *)
(* cached top of the stack is the one in memory.                             *)
LoopTypeOK ==
    /\ status \in Statuses
    /\ DOMAIN memory = Cells
    /\ \A k \in DOMAIN stack_frames : k > 1 =>
            /\ stack_frames[k].base = stack_frames[k - 1].base + stack_frames[k - 1].size
            /\ stack_frames[k].closure \in DOMAIN objects
    /\ status = "running" =>
            /\ reg.ip \in DOMAIN Function.code
            /\ reg.sp \in Cells /\ reg.args \in Cells
            /\ TopCached

(* The operand stack of a call stays between its locals and the size that   *)
(* mara_compiler_emit has counted for it, whatever branches are taken, and  *)
(* a function returns with one value on it: otherwise it would run into the *)
(* locals of its own frame or into the frame of the next call.              *)
StackInFrame ==
    status = "running" =>
        LET height == reg.sp - (TopFrame.base + Function.numLocals)
        IN  /\ height >= 0
            /\ reg.sp < TopFrame.base + TopFrame.size
            /\ Instruction.op = "RETURN" => height = 1
=============================================================================
