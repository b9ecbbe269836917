------------------------------- MODULE Meaning -------------------------------
(***************************************************************************)
(* What a program of mara means, without compiler and machine: expressions  *)
(* are evaluated in the environment of their names.  A closure has a copy   *)
(* of every variable that is visible where it is made.                      *)
(*                                                                         *)
(* Expressions are those of Compiler.  The state of an evaluation is the    *)
(* last value, whether there was no error, the objects, and the names that  *)
(* are visible: blocks, arguments, and those of the closure that runs.      *)
(***************************************************************************)
EXTENDS Integers, Sequences, SequencesExt, FiniteSetsExt

NoNames == [x \in {} |-> 0]

(* A closure, or a list with its items. *)
ClosureOf(params, body, env) == [params |-> params, body |-> body, env |-> env, items |-> <<>>]
ListOf(items) == [params |-> <<>>, body |-> <<>>, env |-> NoNames, items |-> items]

Failed(s) == [s EXCEPT !.ok = FALSE]
Yields(s, v) == [s EXCEPT !.val = v]
YieldsObject(s, type, object) ==
    [s EXCEPT !.objs = Append(@, object), !.val = <<type, Len(s.objs) + 1>>]

Truth(b) == <<IF b THEN "true" ELSE "false">>
Holds(v) == v \notin {<<"nil">>, <<"false">>}

Visible(s) ==
    FoldLeft(LAMBDA outer, block : block @@ outer, s.args @@ s.objs[s.self].env, s.blocks)

Assign(s, name, v) ==
    LET blocks == {i \in DOMAIN s.blocks : name \in DOMAIN s.blocks[i]}
    IN  CASE blocks # {} -> [s EXCEPT !.blocks[Max(blocks)][name] = v]
          [] blocks = {} /\ name \in DOMAIN s.args -> [s EXCEPT !.args[name] = v]
          [] OTHER -> [s EXCEPT !.objs[s.self].env[name] = v]

RECURSIVE Eval(_, _)

EvalBody(s, exprs) == FoldLeft(Eval, Yields(s, <<"nil">>), exprs)

(* The state after several expressions, and their values. *)
EvalAll(s, exprs) ==
    FoldLeft(LAMBDA r, e : LET t == Eval(r.s, e) IN [s |-> t, vals |-> Append(r.vals, t.val)],
             [s |-> s, vals |-> <<>>], exprs)

(* More arguments than parameters are allowed. *)
Applied(s, f, vals) ==
    LET closure == s.objs[f[2]]
        callee == [s EXCEPT !.blocks = <<NoNames>>, !.self = f[2],
                    !.args = [p \in Range(closure.params) |->
                                 vals[CHOOSE i \in DOMAIN closure.params : closure.params[i] = p]]]
        after == EvalBody(callee, closure.body)
    IN  CASE f[1] = "native" -> Yields(s, <<"nil">>)
          [] f[1] = "fn" /\ Len(closure.params) <= Len(vals) ->
                 [s EXCEPT !.val = after.val, !.ok = after.ok, !.objs = after.objs]
          [] OTHER -> Failed(s)

(* The operators: s after the operands v. *)
Item(items, i) == IF i \in 0 .. Len(items) - 1 THEN items[i + 1] ELSE <<"nil">>

Operate(s, op, v) ==
    LET ints == \A i \in DOMAIN v : v[i][1] = "int"
        list == v[1][1] = "list" /\ v[2][1] = "int"
        items == s.objs[v[1][2]].items
        stored == [i \in 1 .. Max({Len(items), v[2][2] + 1}) |->
                      IF i = v[2][2] + 1 THEN v[3] ELSE Item(items, i - 1)]
    IN  CASE op = "list" -> YieldsObject(s, "list", ListOf(v))
          [] op = "get" /\ list -> Yields(s, Item(items, v[2][2]))
          [] op = "put" /\ list ->
                 [Yields(s, Item(items, v[2][2])) EXCEPT
                     !.objs[v[1][2]].items = IF v[2][2] < 0 THEN @ ELSE stored]
          [] op = "+" /\ ints -> Yields(s, <<"int", FoldLeft(LAMBDA n, w : n + w[2], 0, v)>>)
          [] op = "-" /\ ints /\ Len(v) = 1 -> Yields(s, <<"int", -v[1][2]>>)
          [] op = "-" /\ ints /\ Len(v) > 1 ->
                 Yields(s, <<"int", FoldLeft(LAMBDA n, w : n - w[2], v[1][2], Tail(v))>>)
          [] op = "<" /\ ints -> Yields(s, Truth(v[1][2] < v[2][2]))
          [] op = "<=" /\ ints -> Yields(s, Truth(v[1][2] <= v[2][2]))
          [] op = ">" /\ ints -> Yields(s, Truth(v[1][2] > v[2][2]))
          [] op = ">=" /\ ints -> Yields(s, Truth(v[1][2] >= v[2][2]))
          [] OTHER -> Failed(s)

Form(s, name, list) ==
    CASE name = "def" ->
             LET t == IF Len(list) = 3 THEN Eval(s, list[3]) ELSE Yields(s, <<"nil">>)
             IN  [t EXCEPT !.blocks[Len(t.blocks)] = (list[2][2] :> t.val) @@ @]
      [] name = "set" ->
             LET t == Eval(s, list[3]) IN IF t.ok THEN Assign(t, list[2][2], t.val) ELSE t
      [] name = "if" ->
             LET t == Eval(s, list[2])
             IN  IF Holds(t.val) THEN Eval(t, list[3])
                 ELSE IF Len(list) = 4 THEN Eval(t, list[4]) ELSE Yields(t, <<"nil">>)
      [] name = "do" ->
             LET t == EvalBody([s EXCEPT !.blocks = Append(@, NoNames)], Tail(list))
             IN  [t EXCEPT !.blocks = Front(@)]
      [] name = "fn" ->
             LET params == [i \in DOMAIN list[2][2] |-> list[2][2][i][2]]
             IN  YieldsObject(s, "fn", ClosureOf(params, SubSeq(list, 3, Len(list)), Visible(s)))
      [] OTHER ->
             LET r == EvalAll(s, Tail(list)) IN IF r.s.ok THEN Operate(r.s, name, r.vals) ELSE r.s

Eval(s, e) ==
    CASE ~s.ok -> s
      [] s.ok /\ e[1] # "sym" /\ e[1] # "list" -> Yields(s, e)
      [] s.ok /\ e[1] = "sym" ->
             IF e[2] \in {"nil", "true", "false"} THEN Yields(s, <<e[2]>>)
             ELSE IF e[2] \in DOMAIN Visible(s) THEN Yields(s, Visible(s)[e[2]]) ELSE Failed(s)
      [] OTHER ->
             IF e[2][1][1] = "sym" /\ e[2][1][2] \notin DOMAIN Visible(s)
             THEN Form(s, e[2][1][2], e[2])
             ELSE LET r == EvalAll(s, Tail(e[2]))
                      f == Eval(r.s, e[2][1])
                  IN  IF f.ok THEN Applied(f, f.val, r.vals) ELSE f

(* A program is the body of a function whose arguments are native. *)
Meaning(exprs, params) ==
    EvalBody([val |-> <<"nil">>, ok |-> TRUE, objs |-> <<ClosureOf(params, exprs, NoNames)>>,
              blocks |-> <<NoNames>>, self |-> 1,
              args |-> [p \in Range(params) |-> <<"native", p>>]], exprs)

RECURSIVE ShapeIn(_, _)
ShapeIn(objs, v) ==
    CASE v[1] = "fn" -> <<"fn">>
      [] v[1] = "list" ->
             <<"list", [i \in DOMAIN objs[v[2]].items |-> ShapeIn(objs, objs[v[2]].items[i])]>>
      [] OTHER -> v

=============================================================================
