--------------------------- MODULE SchemeReference ---------------------------
(***************************************************************************)
(* What a program means, by the definition of the language: expressions    *)
(* are trees, environments are chains of frames, a continuation is the     *)
(* sequence of what is still to do.  Nothing here is taken from the        *)
(* evaluator: no code is rewritten, no stack is copied, and names are      *)
(* looked up when they are evaluated.                                      *)
(*                                                                         *)
(* A datum is a symbol, a number, a special value or a pair of data; the   *)
(* data are also the expressions.  Other values are closures, builtins,    *)
(* continuations and several values.                                       *)
(***************************************************************************)
EXTENDS Integers, Sequences, SequencesExt, TLC

S(s) == <<"TSYMBOL", s>>
N(n) == <<"TNUMBER", n>>
Nil == <<"TSPECIAL", "()">>
False == <<"TSPECIAL", "#f">>
True == <<"TSPECIAL", "#t">>
Unspecified == <<"TSPECIAL", "*unspecified*">>
Undefined == <<"TSPECIAL", "*undefined*">>
P(a, d) == <<"TPAIR", a, d>>

IsP(v) == v[1] = "TPAIR"
First(v) == v[2]
Second(v) == v[3][2]
Third(v) == v[3][3][2]

RECURSIVE ListOf(_, _)
ListOf(s, tail) == IF s = <<>> THEN tail ELSE P(Head(s), ListOf(Tail(s), tail))
L(s) == ListOf(s, Nil)

RECURSIVE ListItems(_)
ListItems(v) == IF IsP(v) THEN <<v[2]>> \o ListItems(v[3]) ELSE <<>>

Primitives == {"car", "cdr", "cons", "eq?", "null?", "+", "-", "<", "list",
               "values", "core:display"}
Keywords == {"quote", "if", "define", "define-macro", "set!", "lambda", "begin"}

-----------------------------------------------------------------------------
(* State: what to do (an expression in an environment, or a value to give  *)
(* to the continuation), the continuation k, the variables by frame and    *)
(* name, the macros, the output.                                           *)

GlobalEnv == <<0>>
Start == [mode |-> "value", x |-> Unspecified, env |-> GlobalEnv, k |-> <<>>,
          store |-> <<>>, frames |-> 0, macros |-> <<>>, out |-> <<>>]

Give(s, v) == [s EXCEPT !.mode = "value", !.x = v]
Eval(s, e, env) == [s EXCEPT !.mode = "eval", !.x = e, !.env = env]
Push(s, f) == [s EXCEPT !.k = <<f>> \o @]
Todo(s, kind, a, env) == Push(s, [kind |-> kind, a |-> a, env |-> env, done |-> <<>>])
Fail(s) == [s EXCEPT !.mode = "error"]

FramesOf(s, env, name) == SelectSeq(env, LAMBDA f : <<f, name>> \in DOMAIN s.store)
ValueOf(s, env, name) ==
  LET f == FramesOf(s, env, name)
  IN  IF f # <<>> THEN s.store[<<f[1], name>>]
      ELSE IF name \in Primitives THEN <<"TSTRUCT", name>>
      ELSE IF name \in {"call-with-current-continuation", "call-with-values",
                        "current-environment"}
      THEN S(name) ELSE Undefined
Bind(s, frame, name, v) == [s EXCEPT !.store = (<<frame, name>> :> v) @@ @]

Body(s, forms, env) ==
  IF ~IsP(forms) THEN Give(s, Unspecified)
  ELSE IF forms[3] = Nil THEN Eval(s, forms[2], env)
  ELSE Eval(Todo(s, "body", forms[3], env), forms[2], env)

(* A procedure body runs in a new frame.                                   *)
RECURSIVE BindAll(_, _, _)
BindAll(s, formals, args) ==
  IF IsP(formals)
  THEN BindAll(Bind(s, s.frames, formals[2][2], Head(args)), formals[3], Tail(args))
  ELSE IF formals[1] = "TSYMBOL" THEN Bind(s, s.frames, formals[2], L(args)) ELSE s

Matches(formals, args) ==
  LET n == Len(ListItems(formals))
  IN  \/ Len(args) = n
      \/ Len(args) >= n /\ ~(formals = Nil) /\ (n = 0 \/ ListItems(formals) # <<>>)
         /\ LET RECURSIVE End(_) End(f) == IF IsP(f) THEN End(f[3]) ELSE f
            IN  End(formals)[1] = "TSYMBOL"

SumOf(a) == FoldSeq(LAMBDA x, n : n + x[2], 0, a)
AllNumbers(a) == \A i \in 1..Len(a) : a[i][1] = "TNUMBER"

RECURSIVE Printed(_)
Printed(v) ==
  IF IsP(v) THEN P(Printed(v[2]), Printed(v[3]))
  ELSE IF v[1] \in {"TSYMBOL", "TNUMBER", "TSPECIAL"} THEN v ELSE <<"procedure">>

Takes(f) == CASE f \in {"car", "cdr", "null?", "core:display"} -> {1}
              [] f \in {"cons", "eq?"} -> {2}
              [] OTHER -> 0..9

Primitive(s, f, a) ==
  CASE Len(a) \notin Takes(f) -> Fail(s)
    [] f \in {"car", "cdr"} /\ Len(a) = 1 ->
         IF IsP(a[1]) THEN Give(s, a[1][IF f = "car" THEN 2 ELSE 3]) ELSE Fail(s)
    [] f = "cons" /\ Len(a) \in Takes(f) -> Give(s, P(a[1], a[2]))
    [] f = "eq?" /\ Len(a) \in Takes(f) -> Give(s, IF a[1] = a[2] THEN True ELSE False)
    [] f = "null?" /\ Len(a) \in Takes(f) -> Give(s, IF a[1] = Nil THEN True ELSE False)
    [] f \in {"+", "-", "<"} ->
         IF ~AllNumbers(a) THEN Fail(s)
         ELSE IF f = "+" THEN Give(s, N(SumOf(a)))
         ELSE IF f = "-"
         THEN Give(s, N(IF Len(a) = 1 THEN 0 - a[1][2] ELSE a[1][2] - SumOf(Tail(a))))
         ELSE Give(s, IF \A i \in 1..Len(a) - 1 : a[i][2] < a[i + 1][2]
                      THEN True ELSE False)
    [] f = "list" -> Give(s, L(a))
    [] f = "values" -> Give(s, <<"values", a>>)
    [] f = "core:display" /\ Len(a) = 1 ->
         Give([s EXCEPT !.out = Append(@, Printed(a[1]))], Unspecified)

Call(s, f, a) ==
  CASE f[1] = "TSTRUCT" -> Primitive(s, f[2], a)
    [] f[1] = "closure" ->
         IF ~Matches(f[2], a) THEN Fail(s)
         ELSE LET s1 == [s EXCEPT !.frames = @ + 1]
              IN  Body(BindAll(s1, f[2], a), f[3], <<s1.frames>> \o f[4])
    [] f[1] = "continuation" -> Give([s EXCEPT !.k = f[2]], a[1])
    [] f = S("call-with-current-continuation") ->
         Push(Give(s, <<"continuation", s.k>>),
              [kind |-> "call", a |-> Nil, env |-> GlobalEnv, done |-> <<a[1]>>])
    [] f = S("call-with-values") ->
         Push(Push(Give(s, Unspecified),
                   [kind |-> "values", a |-> a[2], env |-> GlobalEnv, done |-> <<>>]),
              [kind |-> "thunk", a |-> a[1], env |-> GlobalEnv, done |-> <<>>])
    [] f = <<"TSPECIAL", "core:apply">> ->
         Push(Give(s, Unspecified),
              [kind |-> "thunk", a |-> a[1], env |-> GlobalEnv, done |-> ListItems(a[2])])
    [] f[1] = "TSPECIAL" /\ f[2] \in {"core:eval", "core:eval-expanded"} ->
         Eval(s, a[1], GlobalEnv)
    [] f = S("current-environment") -> Give(s, <<"environment">>)
    [] OTHER -> Fail(s)

-----------------------------------------------------------------------------
(* One step of an expression *)

Target(e) == IF IsP(Second(e)) THEN Second(e)[2] ELSE Second(e)
Lambda(formals, body, env) == <<"closure", formals, body, env>>

Form(s, e, env) ==
  CASE e[2] = S("quote") -> Give(s, Second(e))
    [] e[2] = S("begin") -> Body(s, e[3], env)
    [] e[2] = S("lambda") -> Give(s, Lambda(Second(e), e[3][3], env))
    [] e[2] = S("if") -> Eval(Todo(s, "if", e[3][3], env), Second(e), env)
    [] e[2] = S("set!") -> Eval(Todo(s, "set", Second(e), env), Third(e), env)
    [] e[2] \in {S("define"), S("define-macro")} ->
         LET s1 == Todo(s, IF e[2] = S("define") THEN "define" ELSE "macro",
                        Target(e), env)
         IN  IF IsP(Second(e))
             THEN Give(s1, Lambda(Second(e)[3], e[3][3], env))
             ELSE Eval(s1, Third(e), env)

EvalStep(s) ==
  LET e == s.x
      keyword == IsP(e) /\ e[2][1] = "TSYMBOL" /\ e[2][2] \in Keywords
      macro == IsP(e) /\ e[2][1] = "TSYMBOL" /\ e[2][2] \in DOMAIN s.macros
      v == ValueOf(s, s.env, e[2])
  IN  CASE e[1] = "TSYMBOL" -> IF v = Undefined THEN Fail(s) ELSE Give(s, v)
        [] keyword -> Form(s, e, s.env)
        [] IsP(e) /\ e[2] = <<"TSPECIAL", "core:macro-expand">> ->
             Eval(Todo(s, "expand", Nil, s.env), Second(e), s.env)
        [] ~keyword /\ macro ->
             Call(Todo(s, "expansion", Nil, s.env), s.macros[e[2][2]], ListItems(e[3]))
        [] IsP(e) /\ ~keyword /\ ~macro /\ e[2] # <<"TSPECIAL", "core:macro-expand">> ->
             Eval(Todo(s, "call", e[3], s.env), e[2], s.env)
        [] OTHER -> Give(s, e)

(* One step of the continuation with a value.                              *)
ValueStep(s) ==
  LET f == Head(s.k)
      v == s.x
      s1 == [s EXCEPT !.k = Tail(@)]
      done == Append(f.done, v)
      frame == f.env[1]
      where == FramesOf(s, f.env, f.a[2])
  IN  CASE f.kind = "body" -> Body(s1, f.a, f.env)
        [] f.kind = "if" ->
             IF v # False THEN Eval(s1, f.a[2], f.env)
             ELSE IF f.a[3] = Nil THEN Give(s1, Unspecified)
             ELSE Eval(s1, f.a[3][2], f.env)
        [] f.kind = "define" -> Give(Bind(s1, frame, f.a[2], v), Unspecified)
        [] f.kind = "macro" ->
             Give([s1 EXCEPT !.macros = (f.a[2] :> v) @@ @], Unspecified)
        [] f.kind = "expand" ->
             IF IsP(v) /\ v[2][2] \in DOMAIN s.macros
             THEN Call(s, s.macros[v[2][2]], ListItems(v[3])) ELSE Give(s1, v)
        [] f.kind = "expansion" -> Eval(s1, v, f.env)
        [] f.kind = "set" ->
             IF where = <<>> THEN Fail(s1)
             ELSE Give(Bind(s1, where[1], f.a[2], v), Unspecified)
        [] f.kind = "call" ->
             IF f.a = Nil THEN Call(s1, Head(done), Tail(done))
             ELSE Eval([s EXCEPT !.k = <<[f EXCEPT !.a = f.a[3], !.done = done]>> \o Tail(@)],
                       f.a[2], f.env)
        [] f.kind = "thunk" -> Call(s1, f.a, f.done)
        [] f.kind = "values" -> Call(s1, f.a, IF v[1] = "values" THEN v[2] ELSE <<v>>)

(* An error calls the procedure throw; without one the program ends.       *)
Thrower(s) == ValueOf(s, GlobalEnv, "throw")
Finished(s) ==
  (s.mode = "error" /\ Thrower(s) = Undefined) \/ (s.mode = "value" /\ s.k = <<>>)

Step(s) ==
  IF Finished(s) THEN s
  ELSE CASE s.mode = "error" -> Call(s, Thrower(s), <<S("error"), Nil>>)
         [] s.mode = "eval" -> EvalStep(s)
         [] s.mode = "value" -> ValueStep(s)

(* 2^n steps.                                                              *)
RECURSIVE Run(_, _)
Run(s, n) ==
  IF n = 0 THEN Step(s)
  ELSE LET t == Run(s, n - 1) IN IF Finished(t) THEN t ELSE Run(t, n - 1)

(* What a list of forms writes, and how it ends, in 2^n steps.             *)
Meaning(forms, n) ==
  LET s == Run(Body(Start, forms, GlobalEnv), n)
  IN  [out |-> s.out,
       end |-> IF s.mode = "error" THEN "exit 1"
               ELSE IF s.mode = "value" /\ s.k = <<>> THEN "exit 0" ELSE "running"]
=============================================================================
