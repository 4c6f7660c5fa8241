-------------------------------- MODULE MCGc --------------------------------
(***************************************************************************)
(* Instances of Gc for TLC: the programs that the runs explore.            *)
(***************************************************************************)
EXTENDS GcRefinement

\* Lists that are built, made circular and saved in frames.
Pairs == {"cons", "set_cdr_x", "SetGlobal", "gc_push_frame"}

\* Cells with one pointer, and every way to take a pair apart.
Cells == {"cons", "set_car_x", "car", "cdr", "make_binding_", "make_closure_"}

\* Vectors that share and contain one another, numbers and strings.
Vectors == {"make_vector_", "vector_set_x_", "vector_ref_", "vector_to_list",
            "make_number", "make_string"}

\* vector->list of vectors of numbers.
Interiors == {"make_vector_", "vector_to_list", "make_number"}

OfPairs == {Pairs, Cells}
OfVectors == {Vectors}
OfInteriors == {Interiors}
=============================================================================
