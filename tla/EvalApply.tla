------------------------------ MODULE EvalApply ------------------------------
(***************************************************************************)
(* The evaluator: eval_apply, a machine of four registers and a stack that *)
(* jumps between labels, with the expansion of variables and macros that   *)
(* prepares a form, first-class continuations that copy the stack, and the *)
(* calls of eval_apply from C that error makes.                            *)
(*                                                                         *)
(* A value is <<type, payload>>.  The payload of a pair, closure, binding, *)
(* variable, continuation, macro or values cell is its place in mem, the   *)
(* one of a symbol, number, special cell or builtin is its name or number. *)
(* pc is the label eval_apply is at; the cells cell_vm_* that R3 and the   *)
(* frames hold are special cells named after the label they stand for.     *)
(***************************************************************************)
EXTENDS Integers, Sequences, SequencesExt, TLC

CONSTANTS
  Images,      \* what reading a program leaves: [program, cells, forms]
  MaxCells     \* bound: no further step once so many cells are made

VARIABLES
  mem,         \* the cells, in the order they are made
  R0, R1, R2, R3,
  stack,       \* the frames, youngest first
  pc,          \* the label, or how the program ended
  calls,       \* the C functions that wait for eval_apply, innermost first
  M0,          \* the initial module: name -> place of its variable
  macros,      \* g_macros: name -> macro cell or #f
  output,      \* what core:display has written
  program      \* the program that runs, for the properties

vars == <<mem, R0, R1, R2, R3, stack, pc, calls, M0, macros, output, program>>

-----------------------------------------------------------------------------
(* Values *)

Sym(s) == <<"TSYMBOL", s>>
Num(n) == <<"TNUMBER", n>>
Special(s) == <<"TSPECIAL", s>>
Pair(n) == <<"TPAIR", n>>
Builtin(s) == <<"TSTRUCT", s>>

cell_nil == Special("()")
cell_f == Special("#f")
cell_t == Special("#t")
cell_unspecified == Special("*unspecified*")
cell_undefined == Special("*undefined*")
cell_closure == Special("*closure*")
cell_circular == Special("*circular*")
cell_wild == <<"WILD", 0>>

InMemory == {"TPAIR", "TCLOSURE", "TBINDING", "TVARIABLE", "TCONTINUATION",
             "TMACRO", "TVALUES"}
Type(v) == v[1]
IsPair(v) == v[1] = "TPAIR"
IsSym(v, names) == v[1] = "TSYMBOL" /\ v[2] \in names
Bool(b) == IF b THEN cell_t ELSE cell_f

(* x->car and x->cdr; of a cell without them, whatever the word holds.     *)
CarIn(m, v) == IF v[1] \in InMemory THEN m[v[2]].car ELSE cell_wild
CdrIn(m, v) == IF v[1] \in InMemory THEN m[v[2]].cdr ELSE cell_wild
Car(v) == CarIn(mem, v)
Cdr(v) == CdrIn(mem, v)
Cadr(v) == Car(Cdr(v))
Cddr(v) == Cdr(Cdr(v))
Caddr(v) == Car(Cddr(v))

Cell(a, d) == [car |-> a, cdr |-> d]
New(m) == Len(m) + 1

(* Conses that make a list of the values s before tail; the first one is   *)
(* the pair NewList(m, s, tail).                                           *)
Conses(m, s, tail) ==
  m \o [i \in 1..Len(s) |->
          Cell(s[i], IF i = Len(s) THEN tail ELSE Pair(Len(m) + i + 1))]
NewList(m, s, tail) == IF s = <<>> THEN tail ELSE Pair(New(m))

(* The places of the pairs of the list x, in order, and what comes after.  *)
Spine(m, x) ==
  LET from[n \in 1..Len(m)] ==
        <<n>> \o IF IsPair(m[n].cdr) THEN from[m[n].cdr[2]] ELSE <<>>
  IN  IF IsPair(x) THEN from[x[2]] ELSE <<>>
Items(m, x) == LET s == Spine(m, x) IN [i \in 1..Len(s) |-> m[s[i]].car]
Rest(m, x) == LET s == Spine(m, x) IN IF s = <<>> THEN x ELSE m[s[Len(s)]].cdr

(* length__: -1 when the list is not proper.                               *)
length__(m, x) == IF Rest(m, x) = cell_nil THEN Len(Spine(m, x)) ELSE -1

(* assq on an association list: the place of the first entry, 0 if none.   *)
Assq(m, name, a) ==
  LET entries == Items(m, a)
      found == {i \in 1..Len(entries) : CarIn(m, entries[i]) = name}
  IN  IF found = {} THEN 0 ELSE entries[Min(found)][2]

(* pairlis: the alist of the names x with the values y, before a.  A name  *)
(* after the dot takes the values that are left.                           *)
pairlis(m, x, y, a) ==
  LET names == Spine(m, x)
      values == Spine(m, y)
      rest == Rest(m, x)
      After(i) == IF i = 0 THEN y ELSE CdrIn(m, Pair(values[i]))
      entries ==
        [i \in 1..Len(names) |-> Cell(m[names[i]].car, m[values[i]].car)]
        \o (IF rest = cell_nil THEN <<>> ELSE <<Cell(rest, After(Len(names)))>>)
      m1 == m \o entries
      made == [i \in 1..Len(entries) |-> Pair(Len(m) + i)]
  IN  [mem |-> Conses(m1, made, a), alist |-> NewList(m1, made, a)]

(* The innermost environment of a closure body starts with an entry that   *)
(* refers to the rest of it (call_lambda).                                 *)
call_lambda(m, p) ==
  [mem |-> m \o <<Cell(cell_closure, p), Cell(Pair(New(m)), p)>>,
   env |-> Pair(New(m) + 1)]

-----------------------------------------------------------------------------
(* Variables *)

(* lookup_binding: a cell TBINDING of the entry of R0, or of a fresh pair  *)
(* of the name and its variable in M0; with define_p a missing variable is *)
(* made, without it there is no binding.                                   *)
lookup_binding(m, env, name, define_p) ==
  LET handle == Assq(m, name, env)
      known == name[1] = "TSYMBOL" /\ name[2] \in DOMAIN M0
      place == IF known THEN M0[name[2]] ELSE New(m)
      m1 == IF known THEN m ELSE Append(m, Cell(cell_undefined, cell_nil))
  IN  IF handle # 0
      THEN [mem |-> Append(m, Cell(Pair(handle), cell_t)), M0 |-> M0,
            binding |-> <<"TBINDING", New(m)>>]
      ELSE IF known \/ define_p
      THEN [mem |-> m1 \o <<Cell(name, <<"TVARIABLE", place>>),
                            Cell(Pair(New(m1)), cell_f)>>,
            M0 |-> IF known THEN M0 ELSE M0 @@ (name[2] :> place),
            binding |-> <<"TBINDING", New(m1) + 1>>]
      ELSE [mem |-> m, M0 |-> M0, binding |-> cell_f]

lexical_p(m, b) == CdrIn(m, b) = cell_t
BoundName(m, b) == CarIn(m, CarIn(m, b))
BoundValue(m, b) ==
  LET handle == CarIn(m, b)
  IN  IF lexical_p(m, b) THEN CdrIn(m, handle) ELSE CarIn(m, CdrIn(m, handle))

lookup_value(name) ==
  LET b == lookup_binding(mem, R0, name, FALSE)
  IN  IF b.binding = cell_f THEN cell_undefined ELSE BoundValue(b.mem, b.binding)

(* macro_get_handle: only a symbol can name a macro.                       *)
HasMacro(name) == name[1] = "TSYMBOL" /\ name[2] \in DOMAIN macros

-----------------------------------------------------------------------------
(* Steps between the labels *)

At(label) == pc = label /\ Len(mem) < MaxCells
Goto(label) == pc' = label
Vm(label) == Special(label)
KeepGlobals == UNCHANGED <<M0, macros, output, program>>
KeepRegisters == UNCHANGED <<R0, R2, R3, stack>>

Frame(r1, r2, r3) == [R0 |-> R0, R1 |-> r1, R2 |-> r2, R3 |-> r3, procedure |-> cell_f]

(* push_cc: a frame saves R0 and R1 = r1, with p2 and c in the places of   *)
(* R2 and R3; the machine goes on with p1 in a, and R2 keeps p2.           *)
push_cc(r1, p1, p2, a, c) ==
  /\ stack' = <<Frame(r1, p2, c)>> \o stack
  /\ R0' = a /\ R1' = p1 /\ R2' = p2 /\ R3' = R3

(* Work on x in env from a label, then go on at the label after with p2 in *)
(* R2.                                                                     *)
ThenFrom(r1, label, x, p2, env, after) ==
  push_cc(r1, x, p2, env, Vm(after)) /\ Goto(label) /\ UNCHANGED calls
Then(label, x, p2, env, after) == ThenFrom(R1, label, x, p2, env, after)

(* R1 is the value of what was asked for.                                  *)
Return(v) ==
  R1' = v /\ Goto("vm_return") /\ KeepRegisters /\ UNCHANGED calls

(* Go on at a label with another R1.                                       *)
Continue(label, v) ==
  R1' = v /\ Goto(label) /\ KeepRegisters /\ UNCHANGED calls

(* error: calls the procedure throw, through apply and a new eval_apply;   *)
(* the C function that called error waits for it in the record c.  Without *)
(* throw the program ends.                                                 *)
error(m, key, x, c) ==
  LET throw == lookup_value(Sym("throw"))
      call == <<throw, key, x>>
  IN  IF throw = cell_undefined
      THEN Goto("exit 1") /\ mem' = m /\ UNCHANGED <<R0, R1, R2, R3, stack, calls>>
      ELSE /\ mem' = Conses(m, call, cell_nil)
           /\ stack' = <<Frame(R1, cell_unspecified, cell_unspecified)>> \o stack
           /\ R1' = NewList(m, call, cell_nil) /\ R2' = cell_unspecified
           /\ R3' = Vm("apply") /\ UNCHANGED R0
           /\ calls' = <<c>> \o calls
           /\ Goto("apply")

(* gc_pop_frame and the dispatch on R3.  Behind the stack lies memory that *)
(* is no label.                                                            *)
Labels == {"evlis2", "evlis3", "eval_check_func", "eval2", "apply2", "if_expr",
  "begin_eval", "eval_set_x", "macro_expand_car", "vm_return",
  "macro_expand_cdr", "eval_define", "macro_expand", "macro_expand_lambda",
  "begin_expand_macro", "macro_expand_define", "begin_expand_eval",
  "call_with_current_continuation2", "macro_expand_set_x",
  "macro_expand_define_macro", "eval_macro_expand_eval",
  "eval_macro_expand_expand", "call_with_values2"}

VmReturn ==
  /\ At("vm_return")
  /\ IF stack = <<>>
     THEN Goto("unknown continuation") /\ UNCHANGED <<R0, R1, R2, R3, stack, calls>>
     ELSE LET f == stack[1]
          IN  /\ R0' = f.R0 /\ R2' = f.R2 /\ R3' = f.R3 /\ R1' = R1
              /\ stack' = Tail(stack) /\ UNCHANGED calls
              /\ Goto(IF f.R3 = cell_unspecified THEN "return"
                      ELSE IF f.R3[1] = "TSPECIAL" /\ f.R3[2] \in Labels
                      THEN f.R3[2] ELSE "unknown continuation")
  /\ UNCHANGED mem /\ KeepGlobals

(* eval_apply returns R1 to the C function that called it, which goes on   *)
(* with that value, or with one it holds in a local.                       *)
ReturnToC ==
  /\ At("return")
  /\ LET c == Head(calls)
     IN  /\ Goto(c.at) /\ calls' = Tail(calls)
         /\ R1' = IF c.local = <<>> THEN R1 ELSE c.local[1]
  /\ KeepRegisters /\ UNCHANGED mem /\ KeepGlobals

Waits(at) == [at |-> at, local |-> <<>>]
WaitsWith(at, v) == [at |-> at, local |-> <<v>>]

-----------------------------------------------------------------------------
(* evlis: the values of a list of operands, from left to right             *)

Evlis ==
  /\ At("evlis")
  /\ \/ R1 = cell_nil /\ Return(R1)
     \/ R1 # cell_nil /\ ~IsPair(R1) /\ Continue("eval", R1)
     \/ IsPair(R1) /\ Then("eval", Car(R1), R1, R0, "evlis2")
  /\ UNCHANGED mem /\ KeepGlobals

Evlis2 ==
  /\ At("evlis2")
  /\ Then("evlis", Cdr(R2), R1, R0, "evlis3")
  /\ UNCHANGED mem /\ KeepGlobals

Evlis3 ==
  /\ At("evlis3")
  /\ mem' = Append(mem, Cell(R2, R1)) /\ Return(Pair(New(mem)))
  /\ KeepGlobals

-----------------------------------------------------------------------------
(* apply: R1 is the list of a procedure and its arguments *)

(* The procedure is noted in the youngest frame, for stack traces.         *)
Apply ==
  /\ At("apply")
  /\ stack' = IF stack = <<>> THEN stack ELSE [stack EXCEPT ![1].procedure = Car(R1)]
  /\ Goto("apply_procedure")
  /\ UNCHANGED <<mem, R0, R1, R2, R3, calls>> /\ KeepGlobals

Arity == ("car" :> 1) @@ ("cdr" :> 1) @@ ("null?" :> 1) @@ ("core:display" :> 1)
  @@ ("cons" :> 2) @@ ("eq?" :> 2) @@ ("+" :> -1) @@ ("-" :> -1) @@ ("<" :> -1)
  @@ ("list" :> -1) @@ ("values" :> -1)

WrongArity(formals_length, args) ==
  LET n == length__(mem, args)
  IN  n # formals_length /\ n # -1 /\ formals_length # -1

WrongNumberOfArgs(f, c) ==
  error(Append(mem, Cell(Special("apply: wrong number"), f)),
        Sym("wrong-number-of-args"), Pair(New(mem)), c)

ApplyBuiltin ==
  /\ At("apply_procedure") /\ Type(Car(R1)) = "TSTRUCT"
  /\ IF WrongArity(Arity[Car(R1)[2]], Cdr(R1))
     THEN WrongNumberOfArgs(Car(R1), Waits("apply_builtin"))
     ELSE /\ Goto("apply_builtin")
          /\ UNCHANGED <<mem, R0, R1, R2, R3, stack, calls>>
  /\ KeepGlobals

(* apply_builtin takes the first of several values where it finds them as  *)
(* first or second argument.                                               *)
FirstValue(v) == IF Type(v) = "TVALUES" THEN Car(Cdr(v)) ELSE v
Arguments(x) ==
  LET a == Items(mem, x)
      second == IF Len(a) > 1 /\ Type(a[2]) = "TVALUES" THEN <<FirstValue(a[2])>> ELSE <<>>
  IN  IF a = <<>> THEN a ELSE <<FirstValue(a[1])>> \o second \o Tail(a)

Shown(v) ==
  LET show[n \in 1..Len(mem)] ==
        LET Part(p) == IF IsPair(p) THEN show[p[2]] ELSE p
        IN  <<"TPAIR", Part(mem[n].car), Part(mem[n].cdr)>>
  IN  CASE IsPair(v) -> show[v[2]]
        [] v[1] \in InMemory \cup {"TSTRUCT"} -> <<"procedure">>
        [] OTHER -> v

Numbers(a) == \A i \in 1..Len(a) : a[i][1] = "TNUMBER"
Sum(a) == FoldSeq(LAMBDA x, n : n + x[2], 0, a)
Difference(a) == IF Len(a) = 1 THEN 0 - a[1][2] ELSE a[1][2] - Sum(Tail(a))
Increasing(a) == \A i \in 1..Len(a) - 1 : a[i][2] < a[i + 1][2]

(* car and cdr signal a non-pair, arithmetic a non-number; when throw      *)
(* returns, the builtin reads the word all the same.                       *)
Fault(f, a) ==
  CASE f \in {"car", "cdr"} /\ a # <<>> /\ ~IsPair(a[1]) -> "not-a-pair"
    [] f \in {"+", "-", "<"} /\ ~Numbers(a) -> "not-a-number"
    [] OTHER -> "none"

CallBuiltin ==
  /\ At("apply_builtin")
  /\ LET f == Car(R1)[2]
         a == Arguments(Cdr(R1))
     IN
     IF Type(Car(R1)) # "TSTRUCT" \/ (Arity[f] >= 0 /\ Len(a) < Arity[f])
     THEN Goto("wild") /\ UNCHANGED <<mem, R0, R1, R2, R3, stack, calls, output>>
     ELSE IF Fault(f, a) # "none"
     THEN /\ error(Append(mem, Cell(a[1], Sym(f))), Sym(Fault(f, a)),
                   Pair(New(mem)), WaitsWith("vm_return", cell_wild))
          /\ UNCHANGED output
     ELSE /\ mem' = CASE f = "cons" -> Append(mem, Cell(a[1], a[2]))
                      [] f \in {"list", "values"} ->
                           Append(Conses(mem, a, cell_nil),
                                  Cell(Num(0), NewList(mem, a, cell_nil)))
                      [] OTHER -> mem
          /\ output' = IF f = "core:display" THEN Append(output, Shown(a[1])) ELSE output
          /\ Return(CASE f = "car" -> Car(a[1])
                      [] f = "cdr" -> Cdr(a[1])
                      [] f = "cons" -> Pair(New(mem))
                      [] f = "list" -> NewList(mem, a, cell_nil)
                      [] f = "values" -> <<"TVALUES", New(mem) + Len(a)>>
                      [] f = "null?" -> Bool(a[1] = cell_nil)
                      [] f = "eq?" -> Bool(a[1] = a[2])
                      [] f = "+" -> Num(Sum(a))
                      [] f = "-" -> Num(Difference(a))
                      [] f = "<" -> Bool(Increasing(a))
                      [] f = "core:display" -> cell_unspecified)
  /\ UNCHANGED <<M0, macros, program>>

(* Mutant: the body of a closure runs in the environment of the call.      *)
ClosureEnvironmentOfCall(f) == R0

(* A closure is a cell whose car is a pair of the marker *circular* and    *)
(* the environment it was made in, its cdr a pair of formals and body.  A  *)
(* call leaves out the first entry of that environment, the one call_lambda*)
(* or a define has put there.                                              *)
ClosureFormals(f) == Cadr(Cdr(f))
ClosureBody(f) == Cddr(Cdr(f))
ClosureEnvironment(f) == Cddr(Car(Cdr(f)))

ApplyClosure ==
  /\ At("apply_procedure") /\ Type(Car(R1)) = "TCLOSURE"
  /\ IF WrongArity(length__(mem, ClosureFormals(Car(R1))), Cdr(R1))
     THEN WrongNumberOfArgs(Car(R1), WaitsWith("apply_closure", R1))
     ELSE /\ Goto("apply_closure")
          /\ UNCHANGED <<mem, R0, R1, R2, R3, stack, calls>>
  /\ KeepGlobals

(* pairlis takes the car of the arguments that are left, also when none is.*)
TooFew(formals, args) == Len(Spine(mem, args)) < Len(Spine(mem, formals))
PairlisFails ==
  error(Append(mem, Cell(cell_nil, Sym("car"))), Sym("not-a-pair"), Pair(New(mem)),
        Waits("wild"))

CallBody(formals, args, body, a) ==
  LET p == pairlis(mem, formals, args, a)
      cl == call_lambda(p.mem, p.alist)
  IN  IF TooFew(formals, args)
      THEN PairlisFails
      ELSE /\ mem' = cl.mem /\ R0' = cl.env /\ R1' = body
           /\ Goto("begin") /\ UNCHANGED <<R2, R3, stack, calls>>

CallClosure ==
  /\ At("apply_closure")
  /\ LET f == Car(R1)
     IN  CallBody(ClosureFormals(f), Cdr(R1), ClosureBody(f), ClosureEnvironment(f))
  /\ KeepGlobals

(* A lambda expression as operator is called in the environment it is in;  *)
(* its arguments are paired with the formals before they are counted.      *)
IsLambda(v) == IsPair(v) /\ IsSym(Car(v), {"lambda"})

ApplyLambda ==
  /\ At("apply_procedure") /\ IsLambda(Car(R1))
  /\ IF TooFew(Cadr(Car(R1)), Cdr(R1))
     THEN PairlisFails
     ELSE IF WrongArity(length__(mem, Cadr(Car(R1))), Cdr(R1))
     THEN WrongNumberOfArgs(R1, WaitsWith("apply_lambda", R1))
     ELSE /\ Goto("apply_lambda")
          /\ UNCHANGED <<mem, R0, R1, R2, R3, stack, calls>>
  /\ KeepGlobals

CallLambda ==
  /\ At("apply_lambda")
  /\ CallBody(Cadr(Car(R1)), Cdr(R1), Cddr(Car(R1)), R0)
  /\ KeepGlobals

(* Mutant: the frames of the stack stay below those of the continuation.   *)
ApplyContinuationOnTop ==
  /\ At("apply_procedure") /\ Type(Car(R1)) = "TCONTINUATION"
  /\ stack' = Cdr(Car(R1)) \o stack
  /\ R1' = Cadr(R1) /\ Goto("vm_return")
  /\ UNCHANGED <<mem, R0, R2, R3, calls>> /\ KeepGlobals

(* A continuation writes the slots it has saved over the stack, unless it  *)
(* has saved none.                                                         *)
ApplyContinuation ==
  /\ At("apply_procedure") /\ Type(Car(R1)) = "TCONTINUATION"
  /\ LET saved == Cdr(Car(R1))
     IN  stack' = IF saved = <<>> THEN stack ELSE saved
  /\ R1' = Cadr(R1) /\ Goto("vm_return")
  /\ UNCHANGED <<mem, R0, R2, R3, calls>> /\ KeepGlobals

(* core:apply, core:eval and core:eval-expanded are special cells; another *)
(* special cell is an error.                                               *)
ApplySpecial ==
  /\ At("apply_procedure") /\ Type(Car(R1)) = "TSPECIAL"
  /\ LET special == Car(R1)[2]
         first == Cadr(R1)
     IN
     \/ /\ special = "core:apply"
        /\ mem' = Append(mem, Cell(first, Caddr(R1)))
        /\ Then("apply", Pair(New(mem)), R1, R0, "vm_return")
     \/ /\ special = "core:eval-expanded"
        /\ Then("eval", first, R1, Caddr(R1), "vm_return") /\ UNCHANGED mem
     \/ /\ special = "core:eval"
        /\ mem' = Append(mem, Cell(first, cell_nil))
        /\ Then("begin_expand", Pair(New(mem)), R1, Caddr(R1), "vm_return")
     \/ /\ special \notin {"core:apply", "core:eval-expanded", "core:eval"}
        /\ error(Append(mem, Cell(Special("cannot apply: "), cell_f)),
                 Sym("wrong-type-arg"), Pair(New(mem)), Waits("apply_operator"))
  /\ KeepGlobals

SpecialNames == {"call-with-current-continuation", "call-with-values",
                 "current-environment"}

ApplySymbol ==
  /\ At("apply_procedure") /\ IsSym(Car(R1), SpecialNames)
  /\ CASE Car(R1)[2] = "current-environment" -> Return(R0)
       [] OTHER -> Continue(Car(R1)[2], Cdr(R1))
  /\ UNCHANGED mem /\ KeepGlobals

(* Anything else is an expression: apply its value.                        *)
ApplyOther ==
  /\ At("apply_procedure")
  /\ Type(Car(R1)) \notin {"TSTRUCT", "TCLOSURE", "TCONTINUATION", "TSPECIAL"}
  /\ ~IsLambda(Car(R1)) /\ ~IsSym(Car(R1), SpecialNames)
  /\ Goto("apply_operator")
  /\ UNCHANGED <<mem, R0, R1, R2, R3, stack, calls>> /\ KeepGlobals

ApplyOperator ==
  /\ At("apply_operator")
  /\ Then("eval", Car(R1), R1, R0, "apply2")
  /\ UNCHANGED mem /\ KeepGlobals

(* check_apply, which overwrites R2 when throw returns.                    *)
CannotApply(f) ==
  \/ f \in {cell_f, cell_t, cell_nil, cell_unspecified, cell_undefined}
  \/ Type(f) = "TNUMBER"

Apply2 ==
  /\ At("apply2")
  /\ IF CannotApply(R1)
     THEN error(Append(mem, Cell(Special("cannot apply: "), R1)),
                Sym("wrong-type-arg"), Pair(New(mem)), Waits("apply2_checked"))
     ELSE /\ Goto("apply2_checked")
          /\ UNCHANGED <<mem, R0, R1, R2, R3, stack, calls>>
  /\ KeepGlobals

Apply2Checked ==
  /\ At("apply2_checked")
  /\ mem' = Append(mem, Cell(R1, Cdr(R2))) /\ Continue("apply", Pair(New(mem)))
  /\ KeepGlobals

-----------------------------------------------------------------------------
(* Continuations and several values *)

(* The continuation keeps the stack from before its own frame, and from    *)
(* the return of the procedure it is given to the same stack again.        *)
CallCC ==
  /\ At("call-with-current-continuation")
  /\ LET k == <<"TCONTINUATION", New(mem)>>
         call == <<Car(R1), k>>
         m == Append(mem, Cell(cell_unspecified, stack))
     IN  /\ mem' = Conses(m, call, cell_nil)
         /\ Then("apply", NewList(m, call, cell_nil), k, R0,
                 "call_with_current_continuation2")
  /\ KeepGlobals

CallCC2 ==
  /\ At("call_with_current_continuation2")
  /\ mem' = [mem EXCEPT ![R2[2]].cdr = stack]
  /\ Return(R1) /\ KeepGlobals

CallWithValues ==
  /\ At("call-with-values")
  /\ mem' = Append(mem, Cell(Car(R1), cell_nil))
  /\ Then("apply", Pair(New(mem)), R1, R0, "call_with_values2")
  /\ KeepGlobals

CallWithValues2 ==
  /\ At("call_with_values2")
  /\ LET several == Type(R1) = "TVALUES"
         m == IF several THEN mem ELSE Append(mem, Cell(R1, cell_nil))
     IN  /\ mem' = Append(m, Cell(Cadr(R2), IF several THEN Cdr(R1) ELSE Pair(New(mem))))
         /\ Continue("apply", Pair(New(m)))
  /\ KeepGlobals

-----------------------------------------------------------------------------
(* eval: R1 is an expression, R0 its environment *)

UnboundVariable(m, name) == error(m, Sym("unbound-variable"), name, Waits("return"))

EvalPair(names) == At("eval") /\ IsPair(R1) /\ IsSym(Car(R1), names)

(* A bound identifier as operator is replaced, in the code, by the value   *)
(* to which it is bound.                                                   *)
EvalBoundOperator ==
  /\ At("eval") /\ IsPair(R1) /\ Type(Car(R1)) = "TBINDING"
  /\ LET b == Car(R1)
         value == BoundValue(mem, b)
         m == [mem EXCEPT ![R1[2]].car = value]
     IN  IF value = cell_undefined
         THEN UnboundVariable(m, BoundName(mem, b))
         ELSE mem' = m /\ UNCHANGED <<pc, R0, R1, R2, R3, stack, calls>>
  /\ KeepGlobals

EvalQuote ==
  EvalPair({"quote"}) /\ Return(Cadr(R1)) /\ UNCHANGED mem /\ KeepGlobals

EvalBegin ==
  EvalPair({"begin"}) /\ Continue("begin", R1) /\ UNCHANGED mem /\ KeepGlobals

EvalLambda ==
  /\ EvalPair({"lambda"})
  /\ LET n == New(mem)
     IN  /\ mem' = mem \o <<Cell(cell_circular, R0), Cell(Cadr(R1), Cddr(R1)),
                            Cell(Pair(n), Pair(n + 1)), Cell(cell_f, Pair(n + 2))>>
         /\ Return(<<"TCLOSURE", n + 3>>)
  /\ KeepGlobals

EvalIf ==
  EvalPair({"if"}) /\ Continue("if", Cdr(R1)) /\ UNCHANGED mem /\ KeepGlobals

(* Mutant: a label that vm_return does not know.                           *)
EvalSetUnknown ==
  /\ EvalPair({"set!"})
  /\ Then("eval", Caddr(R1), R1, R0, "eval_set")
  /\ UNCHANGED mem /\ KeepGlobals

EvalSet ==
  /\ EvalPair({"set!"})
  /\ Then("eval", Caddr(R1), R1, R0, "eval_set_x")
  /\ UNCHANGED mem /\ KeepGlobals

(* set_x: a lexical binding is the entry of an environment, a global one   *)
(* a variable, which a set! may not define.                                *)
EvalSetX ==
  /\ At("eval_set_x")
  /\ LET x == Cadr(R2)
         b == IF Type(x) = "TBINDING" THEN [mem |-> mem, binding |-> x]
              ELSE lookup_binding(mem, R0, x, FALSE)
         unbound == error(b.mem, Sym("unbound-variable"),
                          IF b.binding = cell_f THEN x ELSE BoundName(b.mem, b.binding),
                          Waits("vm_return"))
         handle == CarIn(b.mem, b.binding)
     IN
     IF b.binding = cell_f THEN unbound
     ELSE IF lexical_p(b.mem, b.binding)
     THEN /\ mem' = [b.mem EXCEPT ![handle[2]].cdr = R1]
          /\ Return(cell_unspecified)
     ELSE IF BoundValue(b.mem, b.binding) = cell_undefined THEN unbound
     ELSE /\ mem' = [b.mem EXCEPT ![CdrIn(b.mem, handle)[2]].car = R1]
          /\ Return(cell_unspecified)
  /\ KeepGlobals

(* core:macro-expand evaluates its argument and expands what comes out.    *)
EvalMacroExpand ==
  /\ At("eval") /\ IsPair(R1) /\ Car(R1) = Special("core:macro-expand")
  /\ Then("eval", Cadr(R1), R1, R0, "eval_macro_expand_eval")
  /\ UNCHANGED mem /\ KeepGlobals

EvalMacroExpandEval ==
  /\ At("eval_macro_expand_eval")
  /\ Then("macro_expand", R1, R2, R0, "eval_macro_expand_expand")
  /\ UNCHANGED mem /\ KeepGlobals

EvalMacroExpandExpand ==
  At("eval_macro_expand_expand") /\ Return(R1) /\ UNCHANGED mem /\ KeepGlobals

(* A call: the operator is evaluated to check it, then the operands; the   *)
(* operator itself goes to apply.                                          *)
EvalCall ==
  /\ At("eval") /\ IsPair(R1) /\ Type(Car(R1)) # "TBINDING"
  /\ Car(R1) # Special("core:macro-expand")
  /\ ~IsSym(Car(R1), {"quote", "begin", "lambda", "if", "set!", "define", "define-macro"})
  /\ Then("eval", Car(R1), R1, R0, "eval_check_func")
  /\ UNCHANGED mem /\ KeepGlobals

EvalCheckFunc ==
  /\ At("eval_check_func")
  /\ Then("evlis", Cdr(R2), R2, R0, "eval2")
  /\ UNCHANGED mem /\ KeepGlobals

Eval2 ==
  /\ At("eval2")
  /\ mem' = Append(mem, Cell(Car(R2), R1)) /\ Continue("apply", Pair(New(mem)))
  /\ KeepGlobals

EvalSymbol ==
  /\ At("eval") /\ Type(R1) = "TSYMBOL"
  /\ IF R1[2] \in {"current-environment", "begin", "call-with-current-continuation"}
     THEN Return(R1) /\ UNCHANGED mem
     ELSE IF lookup_value(R1) = cell_undefined
     THEN error(mem, Sym("unbound-variable"), R1, Waits("vm_return"))
     ELSE Return(lookup_value(R1)) /\ UNCHANGED mem
  /\ KeepGlobals

EvalBinding ==
  /\ At("eval") /\ Type(R1) = "TBINDING"
  /\ IF BoundValue(mem, R1) = cell_undefined
     THEN UnboundVariable(mem, BoundName(mem, R1))
     ELSE Return(BoundValue(mem, R1)) /\ UNCHANGED mem
  /\ KeepGlobals

EvalSelf ==
  /\ At("eval") /\ ~IsPair(R1) /\ Type(R1) \notin {"TSYMBOL", "TBINDING"}
  /\ IF R1 = cell_wild
     THEN Goto("wild") /\ UNCHANGED <<R0, R1, R2, R3, stack, calls>>
     ELSE Return(R1)
  /\ UNCHANGED mem /\ KeepGlobals

-----------------------------------------------------------------------------
(* define: global unless the environment is one of a procedure body *)

global_p == Car(Car(R0)) # cell_closure
DefinesFunction(e) == IsPair(Cadr(e))
DefinedName(e) == IF DefinesFunction(e) THEN Car(Cadr(e)) ELSE Cadr(e)
IsMacro(e) == Car(e) = Sym("define-macro")

(* Register a global name before the value is evaluated: macros get #f for *)
(* now, a variable gets a place in M0.                                     *)
Registered(e) ==
  LET name == DefinedName(e)
      b == lookup_binding(mem, R0, name, TRUE)
  IN  CASE ~global_p -> [mem |-> mem, M0 |-> M0, macros |-> macros]
        [] global_p /\ IsMacro(e) ->
             [mem |-> mem, M0 |-> M0,
              macros |-> IF HasMacro(name) THEN macros ELSE macros @@ (name[2] :> cell_f)]
        [] OTHER -> [mem |-> b.mem, M0 |-> b.M0, macros |-> macros]

(* The value is evaluated where the name stands for itself.                *)
EvalDefine ==
  /\ EvalPair({"define", "define-macro"}) /\ ~DefinesFunction(R1)
  /\ LET r == Registered(R1)
         n == New(r.mem)
     IN  /\ mem' = r.mem \o <<Cell(Cadr(R1), Cadr(R1)), Cell(Pair(n), R0)>>
         /\ M0' = r.M0 /\ macros' = r.macros
         /\ Then("eval", Caddr(R1), R1, Pair(n + 1), "eval_define")
  /\ UNCHANGED <<output, program>>

(* expand_variable saves the registers in a frame of its own; top_p says   *)
(* that the form is the one it was called with.                            *)
ExpandVariable(r1, x, formals, after) ==
  /\ stack' = <<Frame(r1, r1, R3)>> \o stack
  /\ R1' = x /\ R2' = formals /\ R3' = cell_nil /\ UNCHANGED R0
  /\ calls' = <<[at |-> after, top_p |-> TRUE]>> \o calls
  /\ Goto("expand_definitions")

EvalDefineFunction ==
  /\ EvalPair({"define", "define-macro"}) /\ DefinesFunction(R1)
  /\ LET r == Registered(R1)
     IN  mem' = r.mem /\ M0' = r.M0 /\ macros' = r.macros
  /\ IF IsMacro(R1) \/ global_p
     THEN ExpandVariable(R1, Cddr(R1), Cdr(Cadr(R1)), "eval_define_lambda")
     ELSE /\ Goto("eval_define_lambda") /\ R2' = R1
          /\ UNCHANGED <<R0, R1, R3, stack, calls>>
  /\ UNCHANGED <<output, program>>

EvalDefineLambda ==
  /\ At("eval_define_lambda")
  /\ LET p == pairlis(mem, Cadr(R1), Cadr(R1), R0)
         lambda == <<Sym("lambda"), Cdr(Cadr(R1))>>
         new == NewList(p.mem, lambda, Cddr(R1))
     IN  /\ mem' = Conses(p.mem, lambda, Cddr(R1))
         /\ ThenFrom(new, "eval", new, R2, p.alist, "eval_define")
  /\ KeepGlobals

(* The value is there: enter it in the macro, in the variable, or as a new *)
(* entry behind the first one of the environment of the body.              *)
EvalDefineValue ==
  /\ At("eval_define")
  /\ LET name == DefinedName(R2)
         b == lookup_binding(mem, R0, name, FALSE)
         handle == CarIn(b.mem, b.binding)
         place == IF lexical_p(b.mem, b.binding) THEN handle[2]
                  ELSE CdrIn(b.mem, handle)[2]
         n == New(mem)
     IN
     IF IsMacro(R2)
     THEN /\ mem' = Append(mem, Cell(name, R1))
          /\ macros' = [macros EXCEPT ![name[2]] = <<"TMACRO", n>>]
     ELSE IF global_p
     THEN /\ mem' = IF lexical_p(b.mem, b.binding)
                    THEN [b.mem EXCEPT ![place].cdr = R1]
                    ELSE [b.mem EXCEPT ![place].car = R1]
          /\ UNCHANGED macros
     ELSE /\ mem' = [mem EXCEPT ![R0[2]].cdr = Pair(n + 1), ![Car(R0)[2]].cdr = Pair(n + 1)]
                      \o <<Cell(name, R1), Cell(Pair(n), Cdr(R0))>>
          /\ UNCHANGED macros
  /\ Return(cell_unspecified)
  /\ UNCHANGED <<M0, output, program>>

-----------------------------------------------------------------------------
(* if, begin *)

If ==
  /\ At("if")
  /\ Then("eval", Car(R1), R1, R0, "if_expr")
  /\ UNCHANGED mem /\ KeepGlobals

(* Mutant: the chosen branch is no tail call.                              *)
IfExprPushes ==
  /\ At("if_expr")
  /\ IF R1 = cell_f /\ Cddr(R2) = cell_nil THEN Return(cell_unspecified)
     ELSE Then("eval", IF R1 # cell_f THEN Cadr(R2) ELSE Caddr(R2), R2, R0, "vm_return")
  /\ UNCHANGED mem /\ KeepGlobals

IfExpr ==
  /\ At("if_expr")
  /\ pc' = IF R1 = cell_f /\ Cddr(R2) = cell_nil THEN "vm_return" ELSE "eval"
  /\ R1' = IF R1 # cell_f THEN Cadr(R2)
           ELSE IF Cddr(R2) # cell_nil THEN Caddr(R2) ELSE cell_unspecified
  /\ KeepRegisters /\ UNCHANGED calls
  /\ UNCHANGED mem /\ KeepGlobals

(* A form (begin ...) at the head of a body becomes part of the body       *)
(* (append2 copies it).                                                    *)
Spliced(m, x) ==
  LET inner == CdrIn(m, CarIn(m, x))
      forms == Items(m, inner)
  IN  IF IsPair(x) /\ IsPair(CarIn(m, x)) /\ IsSym(CarIn(m, CarIn(m, x)), {"begin"})
      THEN [mem |-> Conses(m, forms, CdrIn(m, x)), x |-> NewList(m, forms, CdrIn(m, x))]
      ELSE [mem |-> m, x |-> x]

(* A body: its last form takes the place of the body.  An empty body has   *)
(* no value; a body that is empty only after splicing is read all the same.*)
BeginLoop(x) ==
  LET s == Spliced(mem, x)
  IN  /\ mem' = s.mem
      /\ IF CdrIn(s.mem, s.x) = cell_nil
         THEN Continue("eval", CarIn(s.mem, s.x))
         ELSE IF ~IsPair(s.x)
         THEN Goto("wild") /\ UNCHANGED <<R0, R1, R2, R3, stack, calls>>
         ELSE ThenFrom(s.x, "eval", CarIn(s.mem, s.x), s.x, R0, "begin_eval")

Begin ==
  /\ At("begin")
  /\ IF R1 = cell_nil THEN Return(cell_unspecified) /\ UNCHANGED mem ELSE BeginLoop(R1)
  /\ KeepGlobals

BeginEval ==
  /\ At("begin_eval")
  /\ IF Cdr(R2) = cell_nil THEN Return(R1) /\ UNCHANGED mem ELSE BeginLoop(Cdr(R2))
  /\ KeepGlobals

-----------------------------------------------------------------------------
(* macro_expand: R1 is a form; what it becomes is put back in place *)

Expandable(names) == At("macro_expand") /\ IsPair(R1) /\ IsSym(Car(R1), names)

MacroExpandNot ==
  /\ At("macro_expand") /\ (~IsPair(R1) \/ IsSym(Car(R1), {"quote"}))
  /\ Return(R1) /\ UNCHANGED mem /\ KeepGlobals

ExpandTail == ("lambda" :> "macro_expand_lambda") @@ ("define" :> "macro_expand_define")
  @@ ("define-macro" :> "macro_expand_define") @@ ("set!" :> "macro_expand_set_x")

MacroExpandTail ==
  /\ Expandable(DOMAIN ExpandTail)
  /\ Then("macro_expand", Cddr(R1), R1, R0, ExpandTail[Car(R1)[2]])
  /\ UNCHANGED mem /\ KeepGlobals

(* A macro is also defined while it is expanded.                           *)
MacroExpandTailDone ==
  /\ pc \in {"macro_expand_lambda", "macro_expand_define", "macro_expand_set_x"}
  /\ At(pc)
  /\ mem' = [mem EXCEPT ![Cdr(R2)[2]].cdr = R1]
  /\ IF pc = "macro_expand_define" /\ IsMacro(R2)
     THEN ThenFrom(R2, "eval", R2, R2, R0, "macro_expand_define_macro")
     ELSE Return(R2)
  /\ KeepGlobals

MacroExpandDefineMacro ==
  At("macro_expand_define_macro") /\ Return(R2) /\ UNCHANGED mem /\ KeepGlobals

(* A macro is called with the rest of the form, and what it returns is     *)
(* expanded again.                                                         *)
IsMacroCall(x) == HasMacro(Car(x)) /\ macros[Car(x)[2]] # cell_f

MacroExpandCall ==
  /\ At("macro_expand") /\ IsPair(R1)
  /\ ~IsSym(Car(R1), {"quote"} \cup DOMAIN ExpandTail) /\ IsMacroCall(R1)
  /\ LET macro == Cdr(macros[Car(R1)[2]])
         n == New(mem)
     IN  /\ mem' = Append(mem, Cell(macro, Cdr(R1)))
         /\ ThenFrom(Pair(n), "apply", Pair(n), cell_nil, R0, "macro_expand")
  /\ KeepGlobals

(* Other forms are expanded part by part.  (No expander of syntax-case is  *)
(* loaded here: portable-macro-expand is no macro.)                        *)
MacroExpandCombination ==
  /\ At("macro_expand") /\ IsPair(R1)
  /\ ~IsSym(Car(R1), {"quote"} \cup DOMAIN ExpandTail) /\ ~IsMacroCall(R1)
  /\ Then("macro_expand", Car(R1), R1, R0, "macro_expand_car")
  /\ UNCHANGED mem /\ KeepGlobals

MacroExpandCar ==
  /\ At("macro_expand_car")
  /\ mem' = [mem EXCEPT ![R2[2]].car = R1]
  /\ IF Cdr(R2) = cell_nil
     THEN Return(R2)
     ELSE ThenFrom(R2, "macro_expand", Cdr(R2), R2, R0, "macro_expand_cdr")
  /\ KeepGlobals

MacroExpandCdr ==
  /\ At("macro_expand_cdr")
  /\ mem' = [mem EXCEPT ![R2[2]].cdr = R1] /\ Return(R2) /\ KeepGlobals

-----------------------------------------------------------------------------
(* begin_expand: each form of a program is expanded, then evaluated *)

BeginExpandLoop(x) ==
  LET s == Spliced(mem, x)
  IN  /\ mem' = s.mem
      /\ IF ~IsPair(s.x)
         THEN Goto("wild") /\ UNCHANGED <<R0, R1, R2, R3, stack, calls>>
         ELSE ThenFrom(s.x, "macro_expand", CarIn(s.mem, s.x), s.x, R0, "begin_expand_macro")

BeginExpand ==
  /\ At("begin_expand")
  /\ IF R1 = cell_nil THEN Return(cell_unspecified) /\ UNCHANGED mem ELSE BeginExpandLoop(R1)
  /\ KeepGlobals

(* Mutant: what the form has become is not put in its place.               *)
BeginExpandMacroForgets ==
  /\ At("begin_expand_macro")
  /\ IF R1 # Car(R2)
     THEN Continue("begin_expand_again", R2) /\ UNCHANGED <<mem, M0>>
     ELSE ExpandVariable(R2, R1, cell_nil, "begin_expanded") /\ UNCHANGED <<mem, M0>>
  /\ UNCHANGED <<macros, output, program>>

(* As long as expansion changes the form it is expanded again.  A function *)
(* that is defined gets its variable before its body is expanded.          *)
BeginExpandMacro ==
  /\ At("begin_expand_macro")
  /\ IF R1 # Car(R2)
     THEN /\ mem' = [mem EXCEPT ![R2[2]].car = R1]
          /\ Continue("begin_expand_again", R2) /\ UNCHANGED M0
     ELSE LET defines == IsPair(R1) /\ IsSym(Car(R1), {"define"}) /\ DefinesFunction(R1)
              b == lookup_binding(mem, R0, DefinedName(R1), TRUE)
          IN  /\ mem' = IF defines THEN b.mem ELSE mem
              /\ M0' = IF defines THEN b.M0 ELSE M0
              /\ ExpandVariable(R2, R1, cell_nil, "begin_expanded")
  /\ UNCHANGED <<macros, output, program>>

BeginExpandAgain ==
  At("begin_expand_again") /\ BeginExpandLoop(R1) /\ KeepGlobals

BeginExpanded ==
  /\ At("begin_expanded")
  /\ Then("eval", Car(R1), R1, R0, "begin_expand_eval")
  /\ UNCHANGED mem /\ KeepGlobals

BeginExpandEval ==
  /\ At("begin_expand_eval")
  /\ IF Cdr(R2) = cell_nil THEN Return(R1) /\ UNCHANGED mem ELSE BeginExpandLoop(Cdr(R2))
  /\ KeepGlobals

-----------------------------------------------------------------------------
(* expand_variable: R1 is a list of code, R2 the names that are formals or *)
(* internal definitions there, R3 the lists still to do with their names.  *)

(* First the names of the internal definitions of the list, up to a quote. *)
ExpandDefinitions ==
  /\ At("expand_definitions")
  /\ LET items == Items(mem, R1)
         quotes == {i \in 1..Len(items) : IsSym(items[i], {"quote"})}
         before == IF quotes = {} THEN items ELSE SubSeq(items, 1, Min(quotes) - 1)
         defines == SelectSeq(before, LAMBDA a :
                      IsPair(a) /\ IsSym(Car(a), {"define", "define-macro"}))
         names == Reverse([i \in 1..Len(defines) |-> DefinedName(defines[i])])
     IN  /\ mem' = Conses(mem, names, R2) /\ R2' = NewList(mem, names, R2)
  /\ Goto("expand_names")
  /\ UNCHANGED <<R0, R1, R3, stack, calls>> /\ KeepGlobals

(* add_formals, formal_p.                                                  *)
FormalNames(x) ==
  LET rest == Rest(mem, x)
  IN  (IF Type(rest) = "TSYMBOL" THEN <<rest>> ELSE <<>>) \o Reverse(Items(mem, x))
formal_p(x) ==
  \/ \E i \in 1..Len(Items(mem, R2)) : Items(mem, R2)[i] = x
  \/ Rest(mem, R2) = x

TopP == calls' = <<[calls[1] EXCEPT !.top_p = FALSE]>> \o Tail(calls)

ExpandSublist ==
  /\ At("expand_names") /\ IsPair(R1) /\ IsPair(Car(R1))
  /\ LET n == New(mem)
     IN  mem' = mem \o <<Cell(Car(R1), R2), Cell(Pair(n), R3)>> /\ R3' = Pair(n + 1)
  /\ R1' = Cdr(R1) /\ TopP
  /\ UNCHANGED <<pc, R0, R2, stack>> /\ KeepGlobals

(* The formals of a lambda or define are not expanded; the name that a top *)
(* level define gives is no formal in it.                                  *)
ExpandFormals ==
  /\ At("expand_names") /\ IsPair(R1)
  /\ IsSym(Car(R1), {"lambda", "define", "define-macro"})
  /\ LET f == Cadr(R1)
         formals == IF ~IsSym(Car(R1), {"lambda"}) /\ calls[1].top_p
                    THEN IF IsPair(f) THEN Cdr(f) ELSE cell_nil
                    ELSE f
         names == FormalNames(formals)
     IN  mem' = Conses(mem, names, R2) /\ R2' = NewList(mem, names, R2)
  /\ R1' = Cddr(R1) /\ TopP
  /\ UNCHANGED <<pc, R0, R3, stack>> /\ KeepGlobals

(* A free name becomes a binding, of a new variable when it has none yet.  *)
ExpandName ==
  /\ At("expand_names") /\ IsPair(R1) /\ ~IsPair(Car(R1))
  /\ ~IsSym(Car(R1), {"lambda", "define", "define-macro", "quote"})
  /\ LET a == Car(R1)
         free == Type(a) = "TSYMBOL" /\ a # Sym("current-environment") /\ ~formal_p(a)
         b == lookup_binding(mem, R0, a, TRUE)
     IN  /\ mem' = IF free THEN [b.mem EXCEPT ![R1[2]].car = b.binding] ELSE mem
         /\ M0' = IF free THEN b.M0 ELSE M0
  /\ R1' = Cdr(R1) /\ TopP
  /\ UNCHANGED <<pc, R0, R2, R3, stack, macros, output, program>>

(* Mutant: at a quote only the word is passed over.                        *)
ExpandNextPastQuote ==
  /\ At("expand_names") /\ (~IsPair(R1) \/ IsSym(Car(R1), {"quote"}))
  /\ IF IsPair(R1)
     THEN R1' = Cdr(R1) /\ TopP /\ UNCHANGED <<pc, R0, R2, R3, stack>>
     ELSE IF IsPair(R3)
     THEN /\ R1' = Car(Car(R3)) /\ R2' = Cdr(Car(R3)) /\ R3' = Cdr(R3)
          /\ Goto("expand_definitions") /\ TopP /\ UNCHANGED <<R0, stack>>
     ELSE LET f == stack[1]
          IN  /\ R0' = f.R0 /\ R1' = f.R1 /\ R2' = f.R2 /\ R3' = f.R3
              /\ stack' = Tail(stack) /\ calls' = Tail(calls) /\ Goto(calls[1].at)
  /\ UNCHANGED mem /\ KeepGlobals

(* At the end of a list, or at a quote, the next list that R3 has kept;    *)
(* after the last one the frame is popped.                                 *)
ExpandNext ==
  /\ At("expand_names") /\ (~IsPair(R1) \/ IsSym(Car(R1), {"quote"}))
  /\ IF IsPair(R3)
     THEN /\ R1' = Car(Car(R3)) /\ R2' = Cdr(Car(R3)) /\ R3' = Cdr(R3)
          /\ Goto("expand_definitions") /\ TopP /\ UNCHANGED <<R0, stack>>
     ELSE LET f == stack[1]
          IN  /\ R0' = f.R0 /\ R1' = f.R1 /\ R2' = f.R2 /\ R3' = f.R3
              /\ stack' = Tail(stack) /\ calls' = Tail(calls) /\ Goto(calls[1].at)
  /\ UNCHANGED mem /\ KeepGlobals

-----------------------------------------------------------------------------
(* main: the variables of the builtins and of the symbols that the         *)
(* evaluator treats specially, then the program, read into memory          *)

SelfBound == <<"call-with-current-continuation", "call-with-values",
  "current-environment", "lambda", "quote", "begin", "if", "set!", "define",
  "define-macro">>
BuiltinNames == <<"car", "cdr", "null?", "core:display", "cons", "eq?", "+", "-", "<",
  "list", "values">>

InitialNames == SelfBound \o BuiltinNames
InitialCells ==
  [i \in 1..Len(InitialNames) |->
     Cell(IF i <= Len(SelfBound) THEN Sym(InitialNames[i]) ELSE Builtin(InitialNames[i]),
          cell_nil)]
InitialModule ==
  [name \in {InitialNames[i] : i \in 1..Len(InitialNames)} |->
     CHOOSE i \in 1..Len(InitialNames) : InitialNames[i] = name]

Init ==
  \E image \in Images :
    LET n == Len(image.cells) + 1
        env == Pair(n + 1)
    IN  /\ program = image.program
        /\ mem = image.cells \o <<Cell(Sym("%program"), image.forms), Cell(Pair(n), cell_nil)>>
        /\ R0 = env /\ R1 = image.forms /\ R2 = cell_unspecified
        /\ R3 = Vm("begin_expand")
        /\ stack = <<[R0 |-> env, R1 |-> cell_unspecified, R2 |-> cell_unspecified,
                      R3 |-> cell_unspecified, procedure |-> cell_f]>>
        /\ pc = "begin_expand" /\ calls = <<Waits("exit 0")>>
        /\ M0 = InitialModule /\ macros = <<>> /\ output = <<>>

Ended == {"exit 0", "exit 1", "wild", "unknown continuation"}

Next ==
  \/ VmReturn \/ ReturnToC \/ Evlis \/ Evlis2 \/ Evlis3
  \/ Apply \/ ApplyBuiltin \/ CallBuiltin \/ ApplyClosure \/ CallClosure
  \/ ApplyLambda \/ CallLambda \/ ApplyContinuation \/ ApplySpecial \/ ApplySymbol
  \/ ApplyOther \/ ApplyOperator \/ Apply2 \/ Apply2Checked
  \/ CallCC \/ CallCC2 \/ CallWithValues \/ CallWithValues2
  \/ EvalBoundOperator \/ EvalQuote \/ EvalBegin \/ EvalLambda \/ EvalIf \/ EvalSet
  \/ EvalSetX \/ EvalMacroExpand \/ EvalMacroExpandEval \/ EvalMacroExpandExpand
  \/ EvalCall \/ EvalCheckFunc \/ Eval2 \/ EvalSymbol \/ EvalBinding \/ EvalSelf
  \/ EvalDefine \/ EvalDefineFunction \/ EvalDefineLambda \/ EvalDefineValue
  \/ If \/ IfExpr \/ Begin \/ BeginEval
  \/ MacroExpandNot \/ MacroExpandTail \/ MacroExpandTailDone \/ MacroExpandDefineMacro
  \/ MacroExpandCall \/ MacroExpandCombination \/ MacroExpandCar \/ MacroExpandCdr
  \/ BeginExpand \/ BeginExpandMacro \/ BeginExpandAgain \/ BeginExpanded
  \/ BeginExpandEval
  \/ ExpandDefinitions \/ ExpandSublist \/ ExpandFormals \/ ExpandName \/ ExpandNext

(* A program that has ended, or reached the bound, stays as it is.         *)
Done == (pc \in Ended \/ Len(mem) >= MaxCells) /\ UNCHANGED vars

Spec == Init /\ [][Next \/ Done]_vars /\ WF_vars(Next)
=============================================================================
