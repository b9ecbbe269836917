------------------------------- MODULE Machine -------------------------------
(***************************************************************************)
(* A program of mara from its expressions to its result: the compiler       *)
(* (src/src/compiler.c) makes a function of it, which the host calls, and    *)
(* the dispatch loop (src/src/vm.c) runs it.                                 *)
(***************************************************************************)
EXTENDS Loop, Compiler, Meaning

CONSTANT
    Programs    \* what is compiled: [exprs, standalone]

VARIABLES
    program,    \* the program
    unit        \* what the compiler has made of it

vars == <<program, unit, status, memory, reg, stack_frames, objects>>

(* mara_call by the host on the function that mara_compile has returned. *)
Init ==
    /\ program \in Programs
    /\ unit = Compile(program.exprs, program.standalone)
    /\ status = IF unit.err = "none" /\ Callable(unit.fn) THEN "running" ELSE "rejected"
    /\ Begin(unit.fn)

Next == LoopNext /\ UNCHANGED <<program, unit>>

Spec == Init /\ [][Next]_vars

(***************************************************************************)
(* Properties                                                              *)
(***************************************************************************)

(* A function and those inside it. *)
RECURSIVE Nest(_)
Nest(fn) == {fn} \cup UNION {Nest(fn.functions[k]) : k \in DOMAIN fn.functions}

(* The compiler only makes functions that the loop can rely on, those that  *)
(* the program never calls as well: the heights of the stack agree where    *)
(* branches meet, MAKE_CLOSURE is followed by one load for each variable    *)
(* that it captures (the assertion "Illegal closure pseudo instruction" of  *)
(* the loop), and jumps land in the code, after the passes that delete and  *)
(* merge instructions.                                                      *)
CodeVerified == unit.err = "none" => Complete(unit.fn, Nest(unit.fn))

(* What an object looks like from outside: a closure is a closure. *)
RECURSIVE Shape(_)
Shape(v) ==
    CASE v[1] = "fn" -> <<"fn">>
      [] v[1] = "list" -> <<"list", [i \in DOMAIN Elements(v) |-> Shape(Elements(v)[i])]>>
      [] OTHER -> v

(* A compiled program does what its expressions mean: it ends with their    *)
(* value, or with an error where they have none, and never in an assertion  *)
(* or at a wild pointer.  This covers the slots that blocks share, captures *)
(* through several functions, and the passes over the instructions.         *)
MeaningKept ==
    LET meaning == Meaning(program.exprs, Parameters(program.standalone))
    IN  /\ status = "done" => meaning.ok /\ Shape(reg.top) = ShapeIn(meaning.objs, meaning.val)
        /\ status = "error" => ~meaning.ok
        /\ status \notin {"assert", "crash"}

=============================================================================
