----------------------------- MODULE MCEvalApply -----------------------------
(***************************************************************************)
(* Programs for the evaluator, loaded into memory, with what they mean.    *)
(***************************************************************************)
EXTENDS EvalApply, SchemeReference

CONSTANTS Programs, Fuel, TailFrames

(* The pairs of a datum laid out in memory from a place on.                *)
RECURSIVE Pairs(_)
Pairs(d) == IF IsP(d) THEN 1 + Pairs(d[2]) + Pairs(d[3]) ELSE 0

At1(d, place) == IF IsP(d) THEN Pair(place) ELSE d

RECURSIVE Layout(_, _)
Layout(d, place) ==
  IF ~IsP(d) THEN <<>>
  ELSE LET behind == place + 1 + Pairs(d[2])
       IN  <<Cell(At1(d[2], place + 1), At1(d[3], behind))>>
             \o Layout(d[2], place + 1) \o Layout(d[3], behind)

-----------------------------------------------------------------------------
(* Forms.  A program is a sequence of their names.                         *)

Define(name, e) == L(<<S("define"), name, e>>)
Fn(formals, body) == L(<<S("lambda"), L(formals), body>>)
Call0(f) == L(<<f>>)
Call1(f, a) == L(<<f, a>>)
Call2(f, a, b) == L(<<f, a, b>>)
Set(name, e) == L(<<S("set!"), name, e>>)
IfElse(c, a, b) == L(<<S("if"), c, a, b>>)
Begin2(a, b) == L(<<S("begin"), a, b>>)
Quote(d) == L(<<S("quote"), d>>)
Display(e) == Call1(S("core:display"), e)
Core(name) == <<"TSPECIAL", name>>
Plus(a, b) == Call2(S("+"), a, b)
Minus1(a) == Call2(S("-"), a, N(1))
Less(a, b) == Call2(S("<"), a, b)
x == S("x")
y == S("y")
z == S("z")
k == S("k")
n == S("n")

\* A continuation that is captured, and entered again; an error that goes
\* away when it is met again; what error calls.
Mark == Display(Call1(S("call-with-current-continuation"), Fn(<<z>>, Begin2(Set(k, z), N(0)))))
Below3(e) == L(<<S("if"), Less(x, N(3)), Begin2(Set(x, Plus(x, N(1))), e)>>)
Again == Below3(Call1(k, x))
FailsOnce == Below3(Display(Set(S("nowhere"), N(1))))
Throw(body) == L(<<S("define"), P(S("throw"), y)>> \o body)

Forms == [
  \* a closure that keeps a state of its own
  counter |-> Define(S("next"), Call1(Fn(<<n>>, L(<<S("lambda"), Nil, Set(n, Plus(n, x)), n>>)), N(4))),
  next |-> Display(Call0(S("next"))),
  \* a global variable that is changed
  increase |-> Set(x, Plus(x, N(1))),
  \* recursion over an internal definition, in a body that is a begin
  count |-> Define(L(<<S("count"), n>>),
              Begin2(Define(y, Minus1(n)),
                     IfElse(Less(N(0), n), Begin2(Display(n), Call1(S("count"), y)), Quote(S("done"))))),
  count2 |-> Display(Call1(S("count"), N(2))),
  \* a loop of tail calls, and one of calls that are no tail calls
  loop |-> L(<<S("define"), L(<<S("loop"), n>>), Set(z, n),
               IfElse(Less(n, N(9)), Call1(S("loop"), Plus(n, N(1))), z)>>),
  loop_9 |-> Begin2(Define(z, N(0)), Display(Call1(S("loop"), N(1)))),
  \* definitions inside a procedure that see one another
  inner |-> L(<<S("define"), Call0(S("outer")), L(<<S("define"), Call0(S("in")), y>>),
                Define(y, x), Call0(S("in"))>>),
  outer |-> Display(Call0(S("outer"))),
  \* a continuation that is entered again
  mark |-> Mark,
  again |-> Again,
  \* a continuation that leaves a call early
  escape |-> Display(Plus(x, Call1(S("call-with-current-continuation"),
                       Fn(<<z>>, Begin2(Call1(z, N(5)), Display(N(9))))))),
  \* several values; apply, eval; a curried call; numbers of arguments
  several |-> Display(Call2(S("call-with-values"), L(<<S("lambda"), Nil, Call2(S("values"), N(7), x)>>),
                            L(<<S("lambda"), y, y>>))),
  single |-> Display(Call2(S("call-with-values"), L(<<S("lambda"), Nil, x>>), L(<<S("lambda"), y, y>>))),
  apply |-> Display(Call2(Core("core:apply"), S("+"), Call2(S("list"), x, N(2)))),
  eval |-> Display(Call2(Core("core:eval"), L(<<S("list"), Quote(S("+")), Quote(x), N(3)>>), Nil)),
  curried |-> Display(Call1(Call1(Fn(<<y>>, Fn(<<z>>, Plus(y, z))), x), N(8))),
  rest |-> Display(L(<<L(<<S("lambda"), P(y, z), Call2(S("list"), z, y)>>), N(1), x>>)),
  environment |-> Display(Call1(S("null?"), Call0(S("current-environment")))),
  \* data that look like code
  data |-> Display(Call1(Fn(<<y>>, Call1(S("cdr"), y)),
                         Quote(L(<<x, L(<<S("unless"), S("lambda"), x>>), S("define"), x>>)))),
  \* a macro, a use of it, its expansion
  macro |-> L(<<S("define-macro"), L(<<S("unless"), y, z>>),
                L(<<S("list"), Quote(S("if")), y, False, z>>)>>),
  use |-> Display(Call2(S("unless"), Call2(S("eq?"), x, N(2)), Begin2(Define(y, x), y))),
  use_whole |-> Call2(S("unless"), False, Display(x)),
  expand |-> Display(Call1(Core("core:macro-expand"), Quote(L(<<S("unless"), x, N(2)>>)))),
  named |-> L(<<S("define-macro"), S("unless"), Fn(<<y, z>>, z)>>),
  \* errors
  not_a_pair |-> Display(Call1(S("car"), x)),
  not_applied |-> Call1(x, N(2)),
  not_special |-> Call1(False, N(2)),
  too_few |-> Call1(S("cons"), x),
  one_of_two |-> Call1(Fn(<<y, z>>, y), N(1)),
  rest_of_none |-> Call0(L(<<S("lambda"), P(y, z), y>>)),
  too_many |-> Call2(Fn(<<y>>, y), N(1), N(2)),
  next_2 |-> Call1(S("next"), N(2)),
  nowhere |-> Display(S("nowhere")),
  set_nowhere |-> Display(Set(S("nowhere"), N(1))),
  eval_nowhere |-> Display(Call2(Core("core:eval-expanded"), Quote(S("nowhere")), Nil)),
  call_nowhere |-> Call0(S("nowhere")),
  fails_once |-> FailsOnce,
  \* what error calls: it returns, after a continuation of its own is entered
  \* again, or another error has returned in it; it leaves by a continuation,
  \* or one that it has captured is entered when it has returned
  throw |-> Throw(<<Display(N(8)), N(7)>>),
  throw_again |-> Throw(<<Mark, Again, N(7)>>),
  throw_fails |-> Throw(<<Display(N(8)), FailsOnce, N(7)>>),
  throw_nowhere |-> Throw(<<Display(N(8)), Below3(Display(S("nowhere"))), N(7)>>),
  throw_leaves |-> Throw(<<Call1(k, N(6))>>),
  throw_mark |-> Throw(<<Mark, N(7)>>) ]

Prelude == <<Define(x, N(1)), Define(k, False)>>
Read(p) == L(Prelude \o [i \in 1..Len(p) |-> Forms[p[i]]])
Image(p) == [program |-> p,
             cells |-> InitialCells \o Layout(Read(p), New(InitialCells)),
             forms |-> Pair(New(InitialCells))]
MCImages == {Image(p) : p \in Programs}

\* Programs of two forms, whatever they are; longer ones of forms that act
\* on the same thing: a continuation entered again, errors that return, and
\* both of them, in the program and in what error calls.
Continuing == {"mark", "again", "increase", "escape"}
Throwing == {"throw", "set_nowhere", "eval_nowhere", "increase"}
Failing == {"not_a_pair", "not_applied", "not_special", "too_few", "too_many", "nowhere",
            "set_nowhere", "eval_nowhere", "call_nowhere"}
Alone == Failing \cup {"one_of_two", "rest_of_none", "single", "apply", "rest", "environment", "several", "curried"}
Apart == {"next_2", "fails_once", "throw", "throw_again", "throw_fails", "throw_nowhere",
          "throw_leaves", "throw_mark"}
Mixed == {"again", "escape", "set_nowhere", "eval_nowhere"}
\* An activation of eval_apply is left or entered by a continuation, or
\* returns in the middle, at an unbound variable.
Astray ==
  {<<"throw_leaves", "mark", "fails_once">>}
    \cup {<<"throw_leaves", "mark", "fails_once", f>> : f \in Mixed}
    \cup {<<"throw_mark", f, "again">> : f \in {"set_nowhere", "eval_nowhere", "fails_once"}}
    \cup {<<"throw", "nowhere", f>> : f \in {"mark", "nowhere", "set_nowhere"}}
    \cup {<<"throw_nowhere", e, f>> : e \in {"nowhere", "fails_once"}, f \in {"mark", "nowhere"}}
CorePrograms ==
  [1..2 -> DOMAIN Forms \ (Alone \cup Apart)]
    \cup {<<"mark">> \o s : s \in [1..3 -> Continuing]} \cup [1..3 -> Throwing]
    \cup {<<t, "mark">> \o s : t \in {"throw", "throw_fails"}, s \in [1..2 -> Mixed]}
    \cup {<<"throw_again">> \o s : s \in [1..2 -> (Mixed \ {"again"}) \cup {"mark"}]}
    \cup {<<f>> : f \in Alone} \cup Astray
    \cup {<<"counter", "next_2">>, <<"counter", "mark", "next", "again">>,
          <<"macro", "named", "use">>}

Expected == [p \in Programs |-> Meaning(Read(p), Fuel)]

-----------------------------------------------------------------------------
(* Every value the machine works on is in memory, and so is all that the   *)
(* frames have saved; the label in a frame is one vm_return knows.         *)
InRange(v) == v[1] \in InMemory => v[2] \in 1..Len(mem)
TypeOK ==
  /\ \A v \in {R0, R1, R2, R3} : InRange(v)
  /\ \A i \in 1..Len(stack) :
       LET f == stack[i]
       IN  /\ \A v \in {f.R0, f.R1, f.R2} : InRange(v)
           /\ f.R3 \in {Vm(l) : l \in Labels \cup {"begin_expand", "apply"}}
                         \cup {cell_unspecified, cell_nil}
  /\ \A name \in DOMAIN M0 : M0[name] \in 1..Len(mem)
  /\ Len(mem) > 0 => InRange(mem[Len(mem)].car) /\ InRange(mem[Len(mem)].cdr)

IsPrefixOf(s, t) == Len(s) <= Len(t) /\ SubSeq(t, 1, Len(s)) = s

(* What a program writes is what its meaning writes, in the same order,    *)
(* and it ends the same way; only a program that goes astray between       *)
(* activations of eval_apply may stop in the middle.                       *)
MeansWhatItSays ==
  LET e == Expected[program]
  IN  /\ IsPrefixOf(output, e.out) \/ (e.end = "running" /\ IsPrefixOf(e.out, output))
      /\ pc \in Ended /\ e.end # "running" =>
           program \in Astray \/ (pc = e.end /\ output = e.out)

(* A loop of tail calls does not make the stack grow.                      *)
TailCallsKeepTheStack ==
  program = <<"loop", "loop_9">> /\ pc = "apply_closure" => Len(stack) <= TailFrames

(* Every activation of eval_apply that C code waits for has one frame on   *)
(* the stack that ends it.  An error adds and takes away both; nothing     *)
(* separates them but a continuation that was captured in other            *)
(* activations, whose frames then are there, and an eval_apply that        *)
(* returns at an unbound variable (eval-apply.c, core.c).                  *)
Activations == SelectSeq(calls, LAMBDA c : "local" \in DOMAIN c)
Expanding == calls # <<>> /\ "local" \notin DOMAIN Head(calls)
BasesOf(frames) == SelectSeq(frames, LAMBDA f : f.R3 = cell_unspecified)
Bases == BasesOf(IF Expanding THEN Tail(stack) ELSE stack)
Surplus == Len(Bases) + (IF pc = "return" THEN 1 ELSE 0) - Len(Activations)
EntersOthers ==
  /\ pc = "apply_procedure" /\ Type(Car(R1)) = "TCONTINUATION"
  /\ LET saved == Cdr(Car(R1)) IN BasesOf(saved) # Bases /\ Bases' = BasesOf(saved)
BasesMatchActivations ==
  /\ Surplus = 0
  /\ [][Surplus' = Surplus \/ EntersOthers \/ (pc = "return" /\ pc' = "return")]_vars

(* Expansion and evaluation, which rewrite code where it stands, never     *)
(* change a datum that the program quotes.                                 *)
RECURSIVE QuotedFrom(_, _)
QuotedFrom(d, place) ==
  IF ~IsP(d) THEN {}
  ELSE IF d[2] = S("quote") /\ IsP(d[3])
  THEN place + 2 .. place + 1 + Pairs(Second(d))
  ELSE QuotedFrom(d[2], place + 1) \cup QuotedFrom(d[3], place + 1 + Pairs(d[2]))
Quoted == [p \in Programs |-> QuotedFrom(Read(p), New(InitialCells))]
QuotedDataIsConstant == [][\A q \in Quoted[program] : mem'[q] = mem[q]]_vars

(* A program whose meaning ends, ends.                                     *)
EndsWhenItsMeaningEnds == <>(pc \in Ended \/ Expected[program].end = "running")
=============================================================================
