------------------------------ MODULE MCMachine ------------------------------
(* Programs for the compiler and the machine. *)
EXTENDS Machine

N(n) == <<"int", n>>
S(name) == Named(name)
L(elements) == <<"list", elements>>
Op(name, operands) == L(<<S(name)>> \o operands)
Lambda(params, body) == Op("fn", <<L(params), body>>)

(* x is a variable of the program, f changes its own copy of it, g is the   *)
(* identity.                                                               *)
Prelude ==
    <<Op("def", <<S("x"), N(1)>>),
      Op("def", <<S("f"), L(<<S("fn"), L(<<S("a")>>),
                              Op("set", <<S("x"), Op("+", <<S("x"), S("a")>>)>>), S("x")>>)>>),
      Op("def", <<S("g"), Lambda(<<S("v")>>, S("v"))>>)>>

Small ==
    {S("nil"), S("x"), N(40000), Op("-", <<S("x"), N(3)>>), Op("set", <<S("x"), N(2)>>),
     Op("do", <<Op("def", <<S("x"), N(5)>>), S("x")>>), Op("f", <<N(2)>>),
     Lambda(<<S("y")>>, Op("+", <<S("x"), S("y")>>))}

(* Where an expression may stand. *)
Around(e) ==
    {Op("+", <<N(1), e, S("x")>>), Op("if", <<e, N(1), S("x")>>), Op("if", <<S("x"), e, N(7)>>),
     Op("if", <<S("nil"), N(1), e>>), Op("do", <<e, N(3)>>),
     Op("do", <<Op("def", <<S("x"), e>>), Op("list", <<S("x")>>)>>),
     Op("set", <<S("x"), e>>), Op("f", <<e>>), Op("g", <<e, S("x")>>),
     Op("do", <<Op("def", <<S("h"), Lambda(<<S("z")>>, e)>>), Op("h", <<N(1)>>), Op("h", <<N(2)>>)>>),
     L(<<Lambda(<<S("y"), S("x")>>, Op("<", <<S("x"), S("y")>>)), e, N(2)>>)}

Twice == {Prelude \o <<d>> : d \in UNION {Around(e) : e \in UNION {Around(s) : s \in Small}}}

(* The programs under examples/, for small numbers, and others. *)
FibRec ==
    <<Op("def", <<S("fib-rec"), Lambda(<<S("self"), S("n")>>,
        Op("if", <<Op("<=", <<S("n"), N(1)>>), S("n"),
            Op("+", <<Op("self", <<S("self"), Op("-", <<S("n"), N(1)>>)>>),
                      Op("self", <<S("self"), Op("-", <<S("n"), N(2)>>)>>)>>)>>))>>),
      Op("def", <<S("fib"), Lambda(<<S("n")>>, Op("fib-rec", <<S("fib-rec"), S("n")>>))>>),
      Op("fib", <<N(4)>>)>>

BoxedFib ==
    <<Op("def", <<S("fib-box"), Op("list", <<S("nil")>>)>>),
      Op("def", <<S("boxed-fib"), L(<<S("fn"), L(<<S("n")>>),
        Op("def", <<S("fib"), Op("get", <<S("fib-box"), N(0)>>)>>),
        Op("if", <<Op("<=", <<S("n"), N(1)>>), S("n"),
            Op("+", <<Op("fib", <<Op("-", <<S("n"), N(1)>>)>>),
                      Op("fib", <<Op("-", <<S("n"), N(2)>>)>>)>>)>>)>>)>>),
      Op("put", <<S("fib-box"), N(0), S("boxed-fib")>>),
      Op("boxed-fib", <<N(3)>>)>>

Forever == LET again == Lambda(<<S("f")>>, Op("f", <<S("f")>>)) IN <<L(<<again, again>>)>>

Others ==
    {FibRec, BoxedFib, Forever,
     <<Op("import", <<N(1)>>), Op("export", <<>>)>>, <<>>,
     <<Op("get", <<Op("list", <<N(6), N(6)>>), Op("-", <<N(1)>>)>>)>>,
     <<Op("put", <<Op("list", <<N(6)>>), N(2), S("true")>>)>>,
     <<Op(">", <<N(1), S("false")>>)>>, <<Op(">=", <<N(1), N(2)>>)>>,
     <<L(<<Lambda(<<S("a")>>, S("a"))>>)>>, <<Op("def", <<S("a")>>), Op("a", <<>>)>>,
     <<L(<<Lambda(<<S("a"), S("a")>>, S("a"))>>)>>, <<S("undefined")>>, <<L(<<>>)>>,
     <<Op("def", <<S("a")>>), Op("def", <<S("a")>>)>>, <<L(<<N(1)>>)>>}

MCPrograms ==
    [exprs : Twice, standalone : {TRUE}] \cup [exprs : Others, standalone : BOOLEAN]

MCLimit == [args |-> 3, names |-> 8, labels |-> 8, functions |-> 4, instructions |-> 64]
=============================================================================
