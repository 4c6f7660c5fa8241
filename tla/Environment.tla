----------------------------- MODULE Environment -----------------------------
(***************************************************************************)
(* The environment of a process in the C library of Mes, the search for a  *)
(* program in it, and the procedures of Mes that start one.  A text is a   *)
(* sequence of characters; environ is a sequence of texts NAME=value.      *)
(***************************************************************************)
EXTENDS Integers, Sequences, SequencesExt, FiniteSetsExt, Functions

CONSTANT MaxArguments   \* what execl_ and execle_ take: 1000 in the code

Nothing == <<"NULL">>
Names_(entry, name) == IsPrefix(name \o <<"=">>, entry)
Places(environ, name) == {i \in DOMAIN environ : Names_(environ[i], name)}
Value(entry, name) == SubSeq(entry, Len(name) + 2, Len(entry))

getenv(environ, name) ==
  LET places == Places(environ, name)
  IN  IF places = {} THEN Nothing ELSE Value(environ[Min(places)], name)

\* Whether to overwrite an entry is not asked.
setenv(environ, name, value, overwrite_p) ==
  LET entry == name \o <<"=">> \o value
      places == Places(environ, name)
  IN  IF places = {} THEN Append(environ, entry) ELSE [environ EXCEPT ![Min(places)] = entry]

\* What comes to the place of a deleted entry is not looked at.
RECURSIVE Unset(_, _, _)
Unset(environ, name, i) ==
  IF i > Len(environ) THEN environ
  ELSE Unset(IF Names_(environ[i], name) THEN RemoveAt(environ, i) ELSE environ, name, i + 1)
unsetenv(environ, name) == Unset(environ, name, 1)

\* environ as a procedure: <<value, the environment>>.
environ_(environ, args) ==
  CASE args = <<>> -> <<environ, environ>>
    [] Len(args) > 1 -> <<"wrong-number-of-args", environ>>
    [] OTHER -> IF \A i \in DOMAIN args[1] : args[1][i][1] = "string"
                THEN <<"unspecified", [i \in DOMAIN args[1] |-> args[1][i][2]]>>
                ELSE <<"wrong-type-arg", environ>>

-----------------------------------------------------------------------------
(* Programs: executable is the set of names that access allows to execute. *)

\* The directories of PATH, and after the last one the texts behind PATH.
RECURSIVE Split(_)
Split(path) ==
  LET ends == {i \in DOMAIN path : path[i] = ":"}
  IN  IF path = <<>> THEN <<>>
      ELSE IF ends = {} THEN <<path>>
      ELSE <<SubSeq(path, 1, Min(ends) - 1)>> \o Split(SubSeq(path, Min(ends) + 1, Len(path)))
search_path(environ, executable, file_name, behind) ==
  LET dirs == Split(getenv(environ, <<"P">>)) \o behind
      buf(i) == dirs[i] \o <<"/">> \o file_name
      found == {i \in DOMAIN dirs : buf(i) \in executable}
  IN  IF found = {} THEN Nothing ELSE buf(Min(found))

\* What the kernel is asked to execute, or the error.
execve(file_name, argv, env) == [file |-> file_name, argv |-> argv, env |-> env]
ENOENT == [errno |-> "ENOENT"]
Search(environ, executable, file_name, behind) ==
  IF "/" \in Range(file_name) THEN file_name ELSE search_path(environ, executable, file_name, behind)
execvp(environ, executable, file_name, argv, behind) ==
  LET found == Search(environ, executable, file_name, behind)
  IN  IF found = Nothing THEN ENOENT ELSE execve(found, argv, environ)

\* The first argument is the name of the file, whatever was given.
vexec(environ, file_name, args) == execve(file_name, <<file_name>> \o Tail(args), environ)
execlp(environ, executable, file_name, args, behind) ==
  LET found == Search(environ, executable, file_name, behind)
  IN  IF found = Nothing THEN ENOENT ELSE vexec(environ, found, args)

\* The procedures execl and execle.
Strings(args) == [i \in DOMAIN args |-> args[i][2]]
AllStrings(args) == \A i \in DOMAIN args : args[i][1] = "string"
execl_(environ, file_name, args) ==
  IF Len(args) > MaxArguments THEN [errno |-> "system-error"]
  ELSE IF ~AllStrings(args) THEN [errno |-> "assertion"]
  ELSE execve(file_name[2], Strings(args), environ)
execle_(file_name, args, env) ==
  IF Len(args) > MaxArguments \/ Len(env) > MaxArguments THEN [errno |-> "system-error"]
  ELSE IF ~AllStrings(args) \/ ~AllStrings(env) THEN [errno |-> "assertion"]
  ELSE execve(file_name[2], Strings(args), Strings(env))

-----------------------------------------------------------------------------
(* Where Mes looks for the file it boots from (src/mes.c).  env is what    *)
(* the environment says of MES_BOOT, MES_PREFIX and srcdest, or some of    *)
(* them; files is the set of the files that can be read.                   *)
boot(env) == IF "MES_BOOT" \in DOMAIN env THEN env.MES_BOOT ELSE "boot-5.scm"

\* A place is the directory that becomes g_datadir, and the file in it.
Place(env, g_datadir) == [g_datadir |-> g_datadir, file_name |-> g_datadir \o "/module/mes/" \o boot(env)]
prefix(env) ==
  IF "MES_PREFIX" \in DOMAIN env
  THEN <<Place(env, env.MES_PREFIX \o "/mes"), Place(env, env.MES_PREFIX \o "/share/mes")>>
  ELSE <<>>
srcdest(env) == (IF "srcdest" \in DOMAIN env THEN env.srcdest ELSE "") \o "mes"
\* g_datadir stays that of the place before.
Here(env) == [g_datadir |-> srcdest(env), file_name |-> boot(env)]

try_open_boot(place, files) == place.file_name \in files
\* The place of the file that is opened, or the end of the process.
Exited == [g_datadir |-> "none", file_name |-> "exit 1"]
open_boot(env, files) ==
  LET places == prefix(env) \o <<Place(env, srcdest(env)), Here(env)>>
      found == {i \in DOMAIN places : try_open_boot(places[i], files)}
  IN  IF found = {} THEN Exited ELSE places[Min(found)]
=============================================================================
