---------------------------- MODULE OptionsLookup ----------------------------
(***************************************************************************)
(* build-options-lookup of srfi-37: the names of the options of a program  *)
(* are entered in a hash table, each with a handle made for it.            *)
(*                                                                         *)
(* The value a name is created with stands for #f, 0 for an option.        *)
(***************************************************************************)
EXTENDS HashTable

VARIABLES
  pc,       \* "name": takes the next name; "handle": looks at its handle
  entered,  \* the names that have an option
  error     \* the program was told of a duplicate name

lookupVars == <<vars, pc, entered, error>>

\* The handle of the next name.
CreateHandle(name) ==
  /\ pc = "name" /\ ~ error
  /\ hash_create_handle_x(name)
  /\ pc' = "handle"
  /\ UNCHANGED <<entered, error>>

\* The handle has an option already.
Duplicate ==
  /\ pc = "handle" /\ entry[handle].value = 0
  /\ error' = TRUE
  /\ pc' = "name"
  /\ UNCHANGED <<vars, entered>>

Enter ==
  /\ pc = "handle" /\ entry[handle].value # 0
  /\ set_cdr_x
  /\ entered' = Append(entered, entry[handle].key)
  /\ pc' = "name"
  /\ UNCHANGED error

LookupInit ==
  /\ Init /\ interface = "hash"
  /\ pc = "name" /\ entered = << >> /\ error = FALSE

LookupNext ==
  \/ \E name \in HandleKeys : CreateHandle(name)
  \/ Duplicate
  \/ Enter

LookupSpec == LookupInit /\ [][LookupNext]_lookupVars

-----------------------------------------------------------------------------
\* srfi-37 promises of this table that it is an equal? one and that a name
\* entered more than once is signalled as an error.
NamesAreDistinct ==
  \A i, j \in DOMAIN entered : i < j => ~ equal2_p(entered[i], entered[j])
=============================================================================
