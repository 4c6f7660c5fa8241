------------------------------- MODULE Modules -------------------------------
(***************************************************************************)
(* How a name is looked up in the module system: a module has variables of *)
(* its own, its obarray, and uses others.  The current module may be #f,   *)
(* before the module system is booted: then it is the initial module.      *)
(***************************************************************************)
EXTENDS Integers, Sequences, SequencesExt

CONSTANT MaxVisits   \* bound: modules that a search visits

\* modules: module -> [obarray: name -> variable, uses: modules,
\* eval_closure].  0: no variable.  A new variable gets the next number.
Obarray(modules, m) == modules[m].obarray

RECURSIVE Visit(_, _, _, _)
Visit(modules, list, name, visits) ==
  IF list = <<>> THEN 0
  ELSE IF visits = MaxVisits THEN -1   \* it goes on
  ELSE LET variable == Obarray(modules, Head(list))[name]
       IN  IF variable # 0 THEN variable
           ELSE Visit(modules, modules[Head(list)].uses \o Tail(list), name, visits + 1)
module_variable(modules, m, name) == Visit(modules, <<m>>, name, 0)

Found(variable, modules) == [variable |-> variable, modules |-> modules]
module_make_local_var_x(modules, m, name, new) ==
  IF Obarray(modules, m)[name] # 0 THEN Found(Obarray(modules, m)[name], modules)
  ELSE Found(new, [modules EXCEPT ![m].obarray[name] = new])

standard_eval_closure(modules, M1, name, define_p, new) ==
  IF define_p THEN module_make_local_var_x(modules, M1, name, new)
  ELSE Found(module_variable(modules, M1, name), modules)
standard_interface_eval_closure(modules, M1, name, define_p) ==
  Found(IF define_p THEN 0 ELSE module_variable(modules, M1, name), modules)

\* Another eval-closure is a procedure of Scheme.
current_module_variable(modules, M0, M1, name, define_p, new) ==
  CASE M1 = "#f" -> IF Obarray(modules, M0)[name] = 0 /\ define_p
                    THEN Found(new, [modules EXCEPT ![M0].obarray[name] = new])
                    ELSE Found(Obarray(modules, M0)[name], modules)
    [] M1 # "#f" /\ modules[M1].eval_closure = "standard-eval-closure" ->
         standard_eval_closure(modules, M1, name, define_p, new)
    [] M1 # "#f" /\ modules[M1].eval_closure = "standard-interface-eval-closure" ->
         standard_interface_eval_closure(modules, M1, name, define_p)
=============================================================================
