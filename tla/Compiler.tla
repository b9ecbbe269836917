------------------------------ MODULE Compiler ------------------------------
(***************************************************************************)
(* The compiler of mara (src/src/compiler.c), as a function from the list   *)
(* of expressions of a program to a function of the virtual machine.  One   *)
(* call of mara_compile is one step for everything else, so that there are  *)
(* no actions here; Machine runs what comes out.                            *)
(*                                                                         *)
(* An expression is <<"sym", name>>, <<"int", n>>, <<"str", s>> or          *)
(* <<"list", elements>>.  An instruction has an opcode, a kind (which       *)
(* variable or comparison, or "") and two operands.  A compilation is a     *)
(* record that is passed along: its error and its function scopes, the      *)
(* innermost last.  Once there is an error, nothing changes it any more.    *)
(***************************************************************************)
EXTENDS Integers, Sequences, SequencesExt, FiniteSetsExt

CONSTANT
    Limit   \* MARA_MAX_ARGS, _NAMES, _LABELS, _FUNCTIONS and _INSTRUCTIONS

ASSUME CompilerAssumption ==
    Limit \in [{"args", "names", "labels", "functions", "instructions"} -> Nat]

Sym(e) == e[1] = "sym"
Named(name) == <<"sym", name>>
SmallInt == (-32768) .. 32767

Comparisons == {"<", "<=", ">", ">="}
Builtins == Comparisons \cup
    {"def", "set", "if", "fn", "do", "+", "-", "list", "put", "get"}

Instr(op, kind, a, b) == [op |-> op, kind |-> kind, a |-> a, b |-> b]

NoBlock == [x \in {} |-> 0]

NewScope ==
    [args |-> <<>>, captures |-> <<>>,
     blocks |-> <<NoBlock>>,            \* local scopes, names to slots
     locals |-> 0, maxLocals |-> 0, temps |-> 0, maxTemps |-> 0,
     constants |-> <<>>, functions |-> <<>>, labels |-> 0, code |-> <<>>]

(* Indices count from 0. *)
IndexIn(seq, x) == SelectInSeq(seq, LAMBDA y : y = x) - 1

NewCompilation == [err |-> "none", scopes |-> <<>>]

Ok(c) == c.err = "none"
Fail(c, err) == IF Ok(c) THEN [c EXCEPT !.err = err] ELSE c
Scope(c) == Last(c.scopes)
WithScope(c, s) == [c EXCEPT !.scopes[Len(c.scopes)] = s]

(***************************************************************************)
(* Scopes and names.                                                       *)
(***************************************************************************)
BeginFunction(c) == [c EXCEPT !.scopes = Append(@, NewScope)]

BeginBlock(c) ==
    WithScope(c, [Scope(c) EXCEPT !.blocks = Append(@, NoBlock)])

LeaveBlockCountingLate(s) ==
    LET left == s.locals - Cardinality(DOMAIN Last(s.blocks))
    IN  [s EXCEPT !.maxLocals = Max({@, left}), !.locals = left, !.blocks = Front(@)]

(* The slots of a block are given to the blocks that follow it. *)
LeaveBlock(s) ==
    [s EXCEPT !.maxLocals = Max({@, s.locals}),
              !.locals = @ - Cardinality(DOMAIN Last(s.blocks)),
              !.blocks = Front(@)]

(* After an error inside a function, its scope is still the current one, and *)
(* the block that ends is one of that function, or none: a null pointer.      *)
EndBlock(c) ==
    IF Scope(c).blocks = <<>> THEN [c EXCEPT !.err = "crash"]
    ELSE WithScope(c, LeaveBlock(Scope(c)))

AddArgument(c, name) ==
    LET s == Scope(c)
    IN  IF Len(s.args) >= Limit.args THEN Fail(c, "max-arguments")
        ELSE IF Contains(s.args, name) THEN Fail(c, "duplicated-names")
        ELSE IF ~Ok(c) THEN c
        ELSE WithScope(c, [s EXCEPT !.args = Append(@, name)])

AddLocal(c, name) ==
    LET s == Scope(c)
    IN  IF name \in DOMAIN Last(s.blocks) THEN Fail(c, "duplicated-names")
        ELSE IF s.locals >= Limit.names THEN Fail(c, "max-locals")
        ELSE IF ~Ok(c) THEN c
        ELSE WithScope(c, [s EXCEPT !.locals = @ + 1,
                !.blocks[Len(s.blocks)] = (name :> s.locals) @@ @])

AddCapture(c, name) ==
    IF Len(Scope(c).captures) >= Limit.names THEN Fail(c, "max-captures")
    ELSE WithScope(c, [Scope(c) EXCEPT !.captures = Append(@, name)])

(* The blocks of a function in which a name is defined, and whether the     *)
(* function knows the name at all.                                          *)
BlocksWith(s, name) == {i \in DOMAIN s.blocks : name \in DOMAIN s.blocks[i]}

Knows(s, name) ==
    BlocksWith(s, name) # {} \/ Contains(s.args, name) \/ Contains(s.captures, name)

Found(kind, index) == [kind |-> kind, index |-> index]

FindName(c, name) ==
    LET s == Scope(c)
        blocks == BlocksWith(s, name)
        outer == SubSeq(c.scopes, 1, Len(c.scopes) - 1)
    IN  IF blocks # {} THEN Found("LOCAL", s.blocks[Max(blocks)][name])
        ELSE IF Contains(s.args, name) THEN Found("ARG", IndexIn(s.args, name))
        ELSE IF Contains(s.captures, name)
             THEN Found("CAPTURE", IndexIn(s.captures, name))
        ELSE IF \E d \in DOMAIN outer : Knows(outer[d], name)
             THEN Found("NEW_CAPTURE", Len(s.captures))
        ELSE IF name \in Builtins THEN Found("BUILTIN", 0)
        ELSE Found("NOT_FOUND", 0)

(* FindVar is the kind and the index of a variable, CanFindVar(c, name) the *)
(* compilation after it: a variable of an outer function has become a       *)
(* capture of this one.                                                     *)
FindVar(c, name) ==
    LET found == FindName(c, name)
    IN  IF found.kind = "NEW_CAPTURE" THEN [found EXCEPT !.kind = "CAPTURE"] ELSE found

AfterFindVar(c, name) ==
    CASE FindName(c, name).kind = "NEW_CAPTURE" -> AddCapture(c, name)
      [] FindName(c, name).kind \in {"BUILTIN", "NOT_FOUND"} -> Fail(c, "name-error")
      [] OTHER -> c

(***************************************************************************)
(* Instructions.                                                           *)
(***************************************************************************)
Emit(c, instr, delta) ==
    LET s == Scope(c)
        temps == s.temps + delta
        next == [s EXCEPT !.code = Append(@, instr), !.temps = temps,
                          !.maxTemps = Max({@, temps})]
    IN  IF ~Ok(c) THEN c
        ELSE IF temps < 0 THEN Fail(c, "assert")
        ELSE IF Len(next.code) > Limit.instructions THEN Fail(c, "max-instructions")
        ELSE WithScope(c, next)

EmitOp(c, op, delta) == Emit(c, Instr(op, "", 0, 0), delta)

(* The instructions of code at the positions in keep. *)
Only(code, keep) ==
    FoldLeftDomain(LAMBDA kept, i : IF i \in keep THEN Append(kept, code[i]) ELSE kept,
                   <<>>, code)

Follows(code, i, op, kind) ==
    i < Len(code) /\ code[i + 1].op = op /\ code[i + 1].kind = kind

WithoutPushPop(code) ==
    LET pair(i) == code[i].op \in {"NIL", "GET"} /\ Follows(code, i, "POP", "")
    IN  Only(code, {i \in DOMAIN code : ~pair(i) /\ (i > 1 => ~pair(i - 1))})

(* NIL followed by POP 1 does nothing. *)
WithoutNilPop(code) ==
    LET pair(i) == code[i].op = "NIL" /\ Follows(code, i, "POP", "") /\ code[i + 1].a = 1
    IN  Only(code, {i \in DOMAIN code : ~pair(i) /\ (i > 1 => ~pair(i - 1))})

(* A load followed by CALL becomes one instruction, and so does the last    *)
(* pseudo instruction of a MAKE_CLOSURE.                                    *)
WithSuperInstructions(code) ==
    LET pair(i) == code[i].op = "GET" /\ Follows(code, i, "CALL", "TOP")
        merged == [i \in DOMAIN code |->
                      IF i > 1 /\ pair(i - 1)
                      THEN Instr("CALL", code[i - 1].kind, code[i - 1].a, code[i].b)
                      ELSE code[i]]
    IN  Only(merged, {i \in DOMAIN code : ~pair(i)})

IsLabel(instr) == instr.op = "LABEL"

(* Where a label is, counting the instructions before it. *)
LabelTarget(code, label) ==
    LET at == CHOOSE i \in DOMAIN code : IsLabel(code[i]) /\ code[i].a = label
    IN  Cardinality({i \in 1 .. at : ~IsLabel(code[i])})

WithOffsetsFromJump(code) ==
    LET plain == Only(code, {i \in DOMAIN code : ~IsLabel(code[i])})
    IN  [i \in DOMAIN plain |->
            IF plain[i].op \in {"JUMP", "JUMP_IF_FALSE"}
            THEN [plain[i] EXCEPT !.a = LabelTarget(code, @) - i + 1]
            ELSE plain[i]]

(* Offsets are counted from the instruction after the jump. *)
WithOffsets(code) ==
    LET plain == Only(code, {i \in DOMAIN code : ~IsLabel(code[i])})
    IN  [i \in DOMAIN plain |->
            IF plain[i].op \in {"JUMP", "JUMP_IF_FALSE"}
            THEN [plain[i] EXCEPT !.a = LabelTarget(code, @) - i]
            ELSE plain[i]]

FinishedWithLarger(scope) ==
    LET s == LeaveBlock(scope)
    IN  [numArgs |-> Len(s.args), numLocals |-> s.maxLocals,
         numCaptures |-> Len(s.captures), stackSize |-> Max({s.maxLocals, s.maxTemps}),
         code |-> WithOffsets(WithSuperInstructions(WithoutNilPop(s.code))),
         constants |-> s.constants, functions |-> s.functions]

Finished(scope) ==
    LET s == LeaveBlock(scope)
    IN  [numArgs |-> Len(s.args), numLocals |-> s.maxLocals,
         numCaptures |-> Len(s.captures), stackSize |-> s.maxLocals + s.maxTemps,
         code |-> WithOffsets(WithSuperInstructions(WithoutNilPop(s.code))),
         constants |-> s.constants, functions |-> s.functions]

(***************************************************************************)
(* Expressions.  Every one leaves one value more on the stack.              *)
(***************************************************************************)
RECURSIVE Expression(_, _)

Each(c, exprs) == FoldLeft(Expression, c, exprs)

(* The value of the expression before is popped, NIL before the first. *)
Sequence(c, exprs) ==
    FoldLeft(LAMBDA d, e : Expression(Emit(d, Instr("POP", "", 1, 0), -1), e),
             EmitOp(c, "NIL", 1), exprs)

NumArgs(list) == Len(list) - 1

Call(c, list, fn) ==
    IF NumArgs(list) > Limit.args THEN Fail(c, "max-arguments")
    ELSE Emit(Expression(Each(c, Tail(list)), fn),
              Instr("CALL", "TOP", 0, NumArgs(list)), -NumArgs(list))

BinOp(c, list) ==
    IF Len(list) # 3 THEN Fail(c, "syntax-error")
    ELSE Emit(Each(c, Tail(list)), Instr("COMPARE", list[1][2], 0, 0), -1)

(* list, put and get take any number of operands. *)
Variadic(c, list, op) ==
    Emit(Each(c, Tail(list)), Instr(op, "", NumArgs(list), 0), 1 - NumArgs(list))

Plus(c, list) ==
    IF NumArgs(list) > Limit.args THEN Fail(c, "max-arguments") ELSE Variadic(c, list, "PLUS")

Minus(c, list) ==
    IF NumArgs(list) > Limit.args THEN Fail(c, "max-arguments")
    ELSE IF Len(list) = 2 THEN EmitOp(Each(c, Tail(list)), "NEG", 0)
    ELSE Variadic(c, list, "SUB")

(* The value is compiled before the name is defined. *)
Def(c, list) ==
    LET value == IF Len(list) = 3 THEN Expression(c, list[3]) ELSE EmitOp(c, "NIL", 1)
    IN  IF Len(list) \notin {2, 3} \/ ~Sym(list[2]) THEN Fail(c, "syntax-error/def")
        ELSE Emit(AddLocal(value, list[2][2]), Instr("SET", "LOCAL", Scope(value).locals, 0), 0)

(* The variable is looked up before the value is compiled. *)
Set(c, list) ==
    IF Len(list) # 3 \/ ~Sym(list[2]) THEN Fail(c, "syntax-error/set")
    ELSE LET var == FindVar(c, list[2][2])
         IN  Emit(Expression(AfterFindVar(c, list[2][2]), list[3]),
                  Instr("SET", var.kind, var.index, 0), 0)

(* Two labels: where the false branch begins, and the end.  Both branches   *)
(* count one value more on the stack.                                       *)
AddLabels(c) ==
    IF Scope(c).labels + 2 > Limit.labels THEN Fail(c, "max-labels")
    ELSE WithScope(c, [Scope(c) EXCEPT !.labels = @ + 2])

If(c, list) ==
    LET false == Scope(c).labels
        end == false + 1
        cond == Emit(Expression(AddLabels(c), list[2]), Instr("JUMP_IF_FALSE", "", false, 0), -1)
        true == Emit(Expression(cond, list[3]), Instr("JUMP", "", end, 0), 0)
        other == Emit(true, Instr("LABEL", "", false, 0), 0)
        both == IF Len(list) = 4 THEN Expression(other, list[4]) ELSE EmitOp(other, "NIL", 1)
    IN  IF Len(list) \notin {3, 4} THEN Fail(c, "syntax-error/if")
        ELSE Emit(both, Instr("LABEL", "", end, 0), 0)

Do(c, list) == EndBlock(Sequence(BeginBlock(c), Tail(list)))

(* A finished function goes to the one around it, which makes the closure.  *)
(* The pseudo instructions that follow say where the captures are, and may  *)
(* make them captures of the function around, too.                          *)
LeaveFunction(c) ==
    LET around == [c EXCEPT !.scopes = Front(@)]
    IN  WithScope(around, [Scope(around) EXCEPT !.functions = Append(@, Finished(Scope(c)))])

PseudoInstruction(c, name) ==
    LET var == FindVar(c, name)
    IN  Emit(AfterFindVar(c, name), Instr("GET", var.kind, var.index, 0), 0)

Fn(c, list) ==
    LET params == list[2][2]
        begun == FoldLeft(AddArgument, BeginFunction(c), [i \in DOMAIN params |-> params[i][2]])
        body == EmitOp(Sequence(begun, SubSeq(list, 3, Len(list))), "RETURN", 0)
        captures == Scope(body).captures
        closure == Emit(LeaveFunction(body),
                        Instr("MAKE_CLOSURE", "", Len(Scope(c).functions), Len(captures)), 1)
    IN  IF Len(list) < 2 \/ list[2][1] # "list" \/ \E i \in DOMAIN list[2][2] : ~Sym(list[2][2][i])
        THEN Fail(c, "syntax-error/fn")
        ELSE IF Len(Scope(c).functions) >= Limit.functions THEN Fail(c, "max-functions")
        ELSE IF ~Ok(body) THEN body
        ELSE FoldLeft(PseudoInstruction, closure, captures)

Builtin(c, list) ==
    LET name == list[1][2]
    IN  CASE name = "def" -> Def(c, list)
          [] name = "set" -> Set(c, list)
          [] name = "if" -> If(c, list)
          [] name = "fn" -> Fn(c, list)
          [] name = "do" -> Do(c, list)
          [] name = "+" -> Plus(c, list)
          [] name = "-" -> Minus(c, list)
          [] name = "list" -> Variadic(c, list, "MAKE_LIST")
          [] name = "put" -> Variadic(c, list, "PUT_ITEM")
          [] name = "get" -> Variadic(c, list, "GET_ITEM")
          [] name \in Comparisons -> BinOp(c, list)

ListExpr(c, list) ==
    IF list = <<>> THEN Fail(c, "syntax-error/empty-list")
    ELSE IF list[1][1] = "list" THEN Call(c, list, list[1])
    ELSE IF ~Sym(list[1]) THEN Fail(c, "unexpected-type")
    ELSE LET kind == FindName(c, list[1][2]).kind
         IN  CASE kind = "BUILTIN" -> Builtin(c, list)
               [] kind = "NOT_FOUND" -> Fail(c, "name-error")
               [] OTHER -> Call(c, list, list[1])

(* A constant is stored once in the pool of its function. *)
Constant(c, value) ==
    LET pool == Scope(c).constants
        known == Contains(pool, value)
        index == IF known THEN IndexIn(pool, value) ELSE Len(pool)
        stored == IF known THEN c ELSE WithScope(c, [Scope(c) EXCEPT !.constants = Append(@, value)])
    IN  Emit(stored, Instr("CONSTANT", "", index, 0), 1)

Variable(c, name) ==
    LET var == FindVar(c, name)
    IN  Emit(AfterFindVar(c, name), Instr("GET", var.kind, var.index, 0), 1)

Expression(c, e) ==
    IF ~Ok(c) THEN c
    ELSE IF e = Named("nil") THEN EmitOp(c, "NIL", 1)
    ELSE IF e = Named("true") THEN EmitOp(c, "TRUE", 1)
    ELSE IF e = Named("false") THEN EmitOp(c, "FALSE", 1)
    ELSE IF e[1] = "int" /\ e[2] \in SmallInt THEN Emit(c, Instr("SMALL_INT", "", e[2], 0), 1)
    ELSE IF e[1] \in {"int", "str"} THEN Constant(c, e)
    ELSE IF Sym(e) THEN Variable(c, e[2])
    ELSE ListExpr(c, e[2])

(* A program that is not standalone is a function of import and export. *)
Parameters(standalone) == IF standalone THEN <<>> ELSE <<"import", "export">>

Compile(exprs, standalone) ==
    LET begun == FoldLeft(AddArgument, BeginFunction(NewCompilation), Parameters(standalone))
        c == EmitOp(Sequence(begun, exprs), "RETURN", 0)
    IN  [err |-> c.err, fn |-> IF Ok(c) THEN Finished(Scope(c)) ELSE Finished(NewScope)]

=============================================================================
