------------------------------- MODULE Structs --------------------------------
(***************************************************************************)
(* Vectors and structs, and the records that C makes of them: variables,   *)
(* hash tables, builtins, and the stack as data, which a program may ask   *)
(* for.                                                                    *)
(***************************************************************************)
EXTENDS Lists

\* What is done with a cell, in the heap that has it.
With(result, Do(_, _)) == Do(result.r, result.h)

\* A symbol is the one cell with its name.
cstring_to_symbol(h, name) ==
  LET places == {i \in DOMAIN h : h[i].type = "TSPECIAL" /\ h[i] = Special(name)}
  IN  IF places = {} THEN alloc(h, Special(name)) ELSE Result(Min(places), h)
RECURSIVE list(_, _)
list(h, xs) ==
  IF xs = <<>> THEN Result(cell_nil, h)
  ELSE With(list(h, Tail(xs)), LAMBDA rest, h1 : cons(h1, Head(xs), rest))

\* A struct is its type, its printer and its fields.
make_struct(h, type, fields, printer) ==
  LET pairs == Pairs(h, fields)
  IN  alloc(h, [type |-> "TSTRUCT", structure |-> <<type, printer>> \o [i \in DOMAIN pairs |-> h[pairs[i]].car]])
struct_length(h, x) == Len(h[x].structure)
\* A number or a character comes out in a cell of its own.
struct_ref_(h, x, i) ==
  LET e == h[x].structure[i + 1]
  IN  IF i >= Len(h[x].structure) THEN Raises("assertion", h)
      ELSE IF h[e].type \in {"TCHAR", "TNUMBER"} THEN alloc(h, h[e]) ELSE Result(e, h)
struct_set_x_(h, x, i, e) ==
  IF i >= Len(h[x].structure) THEN Raises("assertion", h)
  ELSE Result(cell_unspecified, [h EXCEPT ![x].structure[i + 1] = e])

\* A record type is a struct with its name and the list of its fields.
RECURSIVE Symbols(_, _)
Symbols(h, names) ==
  IF names = <<>> THEN Result(<<>>, h)
  ELSE With(cstring_to_symbol(h, Head(names)), LAMBDA first, h1 :
       With(Symbols(h1, Tail(names)), LAMBDA rest, h2 : Result(<<first>> \o rest, h2)))
make_record_type(h, name, names) ==
  With(Symbols(h, <<name, "<record-type>">> \o names), LAMBDA symbols, h1 :
  With(list(h1, SubSeq(symbols, 3, Len(symbols))), LAMBDA inner, h2 :
  With(list(h2, <<symbols[1], inner>>), LAMBDA fields, h3 :
    make_struct(h3, symbols[2], fields, cell_unspecified))))
make_record(h, type, name, values, printer) ==
  With(Symbols(h, <<name, printer>>), LAMBDA symbols, h1 :
  With(list(h1, <<symbols[1]>> \o values), LAMBDA fields, h2 : make_struct(h2, type, fields, symbols[2])))
\* The type that was made before, known, or a new one.
Once(h, known, name, names) == IF known # 0 THEN Result(known, h) ELSE make_record_type(h, name, names)
IsRecord(h, type, x) == h[x].type = "TSTRUCT" /\ struct_ref_(h, x, 0).r = type

-----------------------------------------------------------------------------
(* Vectors: here the places of the elements.  An index is only compared    *)
(* with the length.                                                        *)
make_vector_(h, k, e) == alloc(h, [type |-> "TVECTOR", vector |-> [i \in 1..k |-> e]])
make_vector(h, x) ==
  IF h[h[x].car].type # "TNUMBER" THEN Raises("not-a-number", h)
  ELSE make_vector_(h, h[h[x].car].value, IF h[x].cdr = cell_nil THEN cell_unspecified ELSE h[h[x].cdr].car)
vector_length(h, x) == alloc(h, make_number(Len(h[x].vector)))
\* Numbers and characters come out in cells of their own.
vector_ref_(h, x, i) ==
  LET e == h[x].vector[i + 1]
  IN  IF i >= Len(h[x].vector) THEN Raises("assertion", h)
      ELSE IF h[e].type \in {"TCHAR", "TNUMBER"} THEN alloc(h, h[e]) ELSE Result(e, h)
vector_set_x_(h, x, i, e) ==
  IF i >= Len(h[x].vector) THEN Raises("assertion", h)
  ELSE Result(cell_unspecified, [h EXCEPT ![x].vector[i + 1] = e])
list_to_vector(h, x) ==
  LET pairs == Pairs(h, x)
  IN  With(make_vector_(h, length__(h, x), cell_unspecified), LAMBDA v, h1 :
        Result(v, [h1 EXCEPT ![v].vector = [i \in DOMAIN @ |-> h[pairs[i]].car]]))
vector_to_list(h, v) == list(h, h[v].vector)

-----------------------------------------------------------------------------
(* Variables.                                                              *)
make_variable_type(h, scm_variable_type) == Once(h, scm_variable_type, "variable", <<"value">>)
make_variable(h, scm_variable_type, value) ==
  With(make_variable_type(h, scm_variable_type), LAMBDA type, h1 :
    make_record(h1, type, "variable", <<value>>, "variable-printer"))
variable_p(h, scm_variable_type, x) == Bool(IsRecord(h, scm_variable_type, x))
variable_ref(h, var) == struct_ref_(h, var, 3)
variable_set_x(h, var, val) == struct_set_x_(h, var, 3, val)

-----------------------------------------------------------------------------
(* Hash tables: the size comes before the buckets.                         *)
make_hash_table_type(h, scm_hash_table_type) == Once(h, scm_hash_table_type, "<hashq-table>", <<"size", "buckets">>)
make_hash_table_(h, scm_hash_table_type, size) ==
  LET n == IF size = 0 THEN 100 ELSE size
  IN  With(make_hash_table_type(h, scm_hash_table_type), LAMBDA type, h1 :
      With(make_vector_(h1, n, cell_unspecified), LAMBDA buckets, h2 :
      With(alloc(h2, make_number(n)), LAMBDA number, h3 :
        make_record(h3, type, "<hashq-table>", <<number, buckets>>, "*unspecified*"))))
make_hash_table(h, scm_hash_table_type, x) ==
  IF ~IsPair(h, x) THEN make_hash_table_(h, scm_hash_table_type, 0)
  ELSE IF h[h[x].car].type # "TNUMBER" THEN Raises("not-a-number", h)
  ELSE make_hash_table_(h, scm_hash_table_type, h[h[x].car].value)
hash_table_p(h, scm_hash_table_type, table) == Bool(IsRecord(h, scm_hash_table_type, table))
hash_buckets(h, table) == struct_ref_(h, table, 4)

-----------------------------------------------------------------------------
(* Builtins: a symbol and a record with name, arity and address.           *)
cell_symbol_builtin(h) == cstring_to_symbol(h, "<builtin>").r
make_builtin_type(h) == make_record_type(h, "<builtin>", <<"name", "arity", "address">>)
make_builtin(h, builtin_type, name, arity, function) ==
  make_record(h, builtin_type, "<builtin>", <<name, arity, function>>, "builtin-printer")
builtin_name(h, builtin) == struct_ref_(h, builtin, 3)
builtin_arity(h, builtin) == struct_ref_(h, builtin, 4)
builtin_function(h, builtin) == LET x == struct_ref_(h, builtin, 5) IN x.h[x.r].value
\* A builtin is known by the name of its type, which the type has as well.
builtin_p(h, x) ==
  Bool(h[x].type = "TSTRUCT" /\ struct_ref_(h, x, 2) = Result(cell_symbol_builtin(h), h))
init_builtin(h, builtin_type, name, arity, function, a) ==
  With(cstring_to_symbol(h, name), LAMBDA s, h1 :
  With(alloc(h1, make_number(function)), LAMBDA address, h2 :
  With(alloc(h2, make_number(arity)), LAMBDA number, h3 :
  With(symbol_to_string(h3, s), LAMBDA string, h4 :
  With(make_builtin(h4, builtin_type, string, number, address), LAMBDA builtin, h5 : acons(h5, s, builtin, a))))))

-----------------------------------------------------------------------------
(* The stack: the procedures of its frames, the outermost first.  The      *)
(* frame of index 0 has no procedure, so that the last one is left out.    *)
make_frame_type(h) == make_record_type(h, "frame", <<"procedure">>)
make_frame(h, g_stack_array, index) ==
  With(make_frame_type(h), LAMBDA type, h1 :
    make_record(h1, type, "frame", <<IF index # 0 THEN g_stack_array[index] ELSE cell_f>>, "frame-printer"))
make_stack_type(h) == make_record_type(h, "stack", <<"frames">>)
RECURSIVE Frames(_, _, _)
Frames(h, g_stack_array, i) ==
  IF i = Len(g_stack_array) THEN Result(<<>>, h)
  ELSE With(make_frame(h, g_stack_array, i), LAMBDA frame, h1 :
       With(Frames(h1, g_stack_array, i + 1), LAMBDA rest, h2 : Result(<<frame>> \o rest, h2)))
make_stack(h, g_stack_array) ==
  With(make_stack_type(h), LAMBDA type, h1 :
  With(Frames(h1, g_stack_array, 0), LAMBDA frames, h2 :
  With(alloc(h2, [type |-> "TVECTOR", vector |-> frames]), LAMBDA vector, h3 :
    make_record(h3, type, "stack", <<vector>>, "*unspecified*"))))
stack_length(h, stack) == Len(h[struct_ref_(h, stack, 3).r].vector)
stack_ref(h, stack, index) == h[struct_ref_(h, stack, 3).r].vector[index + 1]
=============================================================================
