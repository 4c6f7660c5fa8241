----------------------------- MODULE MCMachine ------------------------------
(***************************************************************************)
(* Every build of the library.  Left out are the functions that the code   *)
(* of a build does not have, and those that are wrong there (README,       *)
(* section 5).                                                             *)
(***************************************************************************)
EXTENDS Machine
MCBuilds == {"x86", "x86_64", "arm", "aarch64", "riscv64"} \X {"mescc", "gcc", "m2"}
MCStarting == {<<p, "mescc">> : p \in {"x86", "x86_64", "arm", "riscv64"}}
                \cup {<<p, "gcc">> : p \in {"x86", "aarch64"}}
MCJumping == {<<p, "mescc">> : p \in {"x86", "x86_64", "arm", "aarch64"}}
               \cup {<<p, "gcc">> : p \in {"x86", "aarch64", "riscv64"}}
MCWriting == MCBuilds \ {<<"arm", "gcc">>}
MCArity ==
  [b \in MCBuilds |-> CASE b = <<"arm", "mescc">> -> {0, 1, 2, 3, 4, 6}
                        [] b = <<"arm", "m2">> -> 0..3
                        [] b[1] \in {"aarch64", "riscv64"} -> 0..5
                        [] OTHER -> 0..4]
MCAnswers == {-2, 7}
=============================================================================
