-------------------------------- MODULE Files --------------------------------
(***************************************************************************)
(* The procedures of Mes for files that are not ports, and how they come   *)
(* to the kernel: a procedure checks its arguments and calls the C         *)
(* library, which makes the system call that the architecture has.  The    *)
(* generic table of Linux has only the calls with a directory descriptor.  *)
(***************************************************************************)
EXTENDS Integers, Sequences, SequencesExt, FiniteSets

Architectures == {"x86", "x86_64", "arm", "aarch64", "riscv64"}

\* The calls each architecture defines, by <arch/syscall.h>.
CallsOfAll ==
  {"exit", "write", "read", "wait4", "execve", "brk", "ioctl", "fsync", "newuname", "close", "lseek",
   "getcwd", "dup", "gettimeofday", "clock_gettime", "chdir", "getpid", "getuid", "kill", "getgid",
   "rt_sigaction", "fcntl", "getrusage", "setitimer", "fstat", "nanosleep", "getdents64", "setuid",
   "geteuid", "getegid", "setgid", "getppid", "rt_sigprocmask", "umask", "utimensat"}
CallsWithName ==
  {"fork", "open", "chmod", "access", "dup2", "unlink", "rmdir", "stat", "link", "rename", "mkdir",
   "pipe", "lstat", "symlink", "readlink", "mknod"}
CallsX86 == (CallsOfAll \ {"rt_sigprocmask"}) \cup CallsWithName \cup
  {"waitpid", "time", "signal", "sigaction", "sigprocmask", "getdents", "stat64", "lstat64", "fstat64", "fcntl64"}
CallsX86_64 == CallsOfAll \cup CallsWithName \cup {"time", "rt_sigreturn"}
CallsArm == CallsOfAll \cup CallsWithName \cup
  {"rt_sigreturn", "getdents", "stat64", "lstat64", "fstat64", "fcntl64"}
CallsGeneric == CallsOfAll \cup
  {"clone", "openat", "fchmodat", "faccessat", "unlinkat", "linkat", "renameat2", "mkdirat", "pipe2",
   "dup3", "newfstatat", "symlinkat", "readlinkat", "mknodat"}
SYS == [x86 |-> CallsX86, x86_64 |-> CallsX86_64, arm |-> CallsArm, aarch64 |-> CallsGeneric, riscv64 |-> CallsGeneric]

-----------------------------------------------------------------------------
(* The kernel: a directory of names for the nodes of files, directories    *)
(* that may have something in them, and symbolic links.  0: no node.       *)
Ok(value, fs) == [r |-> value, fs |-> fs]
No(fs) == [r |-> -1, fs |-> fs]
When(condition, value, fs, next) == IF condition THEN Ok(value, next) ELSE No(fs)

At(fs, name) == fs.entry[name]
Is(fs, node, kind) == node # 0 /\ fs.node[node].kind = kind
Followed(fs, name) ==
  LET node == At(fs, name)
      there == IF Is(fs, node, "link") THEN At(fs, fs.node[node].to) ELSE node
  IN  IF Is(fs, there, "link") THEN 0 ELSE there
Links(fs, node) == Cardinality({name \in DOMAIN fs.entry : At(fs, name) = node})
Unused(fs) == CHOOSE node \in DOMAIN fs.node : Links(fs, node) = 0
Enter(fs, name, node) == [fs EXCEPT !.entry[name] = node]
Make(fs, name, node) == [Enter(fs, name, Unused(fs)) EXCEPT !.node[Unused(fs)] = node]
Node(kind, mode, to) == [kind |-> kind, mode |-> mode, to |-> to, empty |-> TRUE, times |-> <<0, 0>>]

unlinkat(fs, name, flags) ==
  LET node == At(fs, name)
      removable == IF "AT_REMOVEDIR" \in flags THEN Is(fs, node, "directory") /\ fs.node[node].empty
                   ELSE ~Is(fs, node, "directory")
  IN  When(node # 0 /\ removable, 0, fs, Enter(fs, name, 0))
mkdirat(fs, name, mode) ==
  When(At(fs, name) = 0, 0, fs, Make(fs, name, Node("directory", mode \ fs.mask, name)))
symlinkat(fs, to, name) == When(At(fs, name) = 0, 0, fs, Make(fs, name, Node("link", {"r", "w", "x"}, to)))
linkat(fs, old, new, flags) ==
  When(flags = {} /\ At(fs, old) # 0 /\ ~Is(fs, At(fs, old), "directory") /\ At(fs, new) = 0,
       0, fs, Enter(fs, new, At(fs, old)))
renameat2(fs, old, new, flags) ==
  LET from == At(fs, old)
      onto == At(fs, new)
      fits == Is(fs, from, "directory") = Is(fs, onto, "directory") /\ fs.node[onto].empty
  IN  When(from # 0 /\ (onto \in {0, from} \/ fits), 0, fs,
           IF onto = from THEN fs ELSE Enter(Enter(fs, new, from), old, 0))
fchmodat(fs, name, mode) ==
  LET node == Followed(fs, name) IN When(node # 0, 0, fs, [fs EXCEPT !.node[node].mode = mode])
utimensat(fs, name, times) ==
  LET node == Followed(fs, name) IN When(node # 0, 0, fs, [fs EXCEPT !.node[node].times = times])
faccessat(fs, name, how) ==
  When(Followed(fs, name) # 0 /\ (how = "X_OK" => "x" \in fs.node[Followed(fs, name)].mode), 0, fs, fs)
newfstatat(fs, name, flags) ==
  LET node == IF "AT_SYMLINK_NOFOLLOW" \in flags THEN At(fs, name) ELSE Followed(fs, name)
  IN  IF node = 0 THEN No(fs) ELSE [r |-> 0, fs |-> fs, buf |-> [of |-> fs.node[node], links |-> Links(fs, node)]]
umask(fs, mask) == Ok(fs.mask, [fs EXCEPT !.mask = mask])
chdir(fs, name) ==
  LET node == Followed(fs, name) IN When(Is(fs, node, "directory"), 0, fs, [fs EXCEPT !.cwd = node])

\* What a system call does; garbage is in the registers that were not set.
sys_call(request, garbage, fs) ==
  LET A(i) == request[i + 1]
  IN  CASE request[1] = "unlink" -> unlinkat(fs, A(1), {})
        [] request[1] = "rmdir" -> unlinkat(fs, A(1), {"AT_REMOVEDIR"})
        [] request[1] = "unlinkat" -> unlinkat(fs, A(2), A(3))
        [] request[1] = "mkdir" -> mkdirat(fs, A(1), A(2))
        [] request[1] = "mkdirat" -> mkdirat(fs, A(2), A(3))
        [] request[1] = "symlink" -> symlinkat(fs, A(1), A(2))
        [] request[1] = "symlinkat" -> symlinkat(fs, A(1), A(3))
        [] request[1] = "link" -> linkat(fs, A(1), A(2), {})
        [] request[1] = "linkat" -> linkat(fs, A(2), A(4), garbage)
        [] request[1] = "rename" -> renameat2(fs, A(1), A(2), {})
        [] request[1] = "renameat2" -> renameat2(fs, A(2), A(4), A(5))
        [] request[1] = "chmod" -> fchmodat(fs, A(1), A(2))
        [] request[1] = "fchmodat" -> fchmodat(fs, A(2), A(3))
        [] request[1] = "access" -> faccessat(fs, A(1), A(2))
        [] request[1] = "faccessat" -> faccessat(fs, A(2), A(3))
        [] request[1] = "stat" -> newfstatat(fs, A(1), {})
        [] request[1] = "lstat" -> newfstatat(fs, A(1), {"AT_SYMLINK_NOFOLLOW"})
        [] request[1] = "newfstatat" -> newfstatat(fs, A(2), A(4))
        [] request[1] = "utimensat" -> utimensat(fs, A(2), A(3))
        [] request[1] = "umask" -> umask(fs, A(1))
        [] request[1] = "chdir" -> chdir(fs, A(1))

-----------------------------------------------------------------------------
(* The C library: the request it makes, on an architecture.                *)
AT_FDCWD == -100
One(arch, call, plain, at) == IF call \in SYS[arch] THEN plain ELSE at

lib_unlink(arch, name) == One(arch, "unlink", <<"unlink", name>>, <<"unlinkat", AT_FDCWD, name, {}>>)
\* mutant: without AT_REMOVEDIR
RmdirAsUnlink(arch, name) == One(arch, "rmdir", <<"rmdir", name>>, <<"unlinkat", AT_FDCWD, name, {}>>)
lib_rmdir(arch, name) == One(arch, "rmdir", <<"rmdir", name>>, <<"unlinkat", AT_FDCWD, name, {"AT_REMOVEDIR"}>>)
lib_mkdir(arch, name, mode) == One(arch, "mkdir", <<"mkdir", name, mode>>, <<"mkdirat", AT_FDCWD, name, mode>>)
lib_symlink(arch, to, name) == One(arch, "symlink", <<"symlink", to, name>>, <<"symlinkat", to, AT_FDCWD, name>>)
lib_link(arch, old, new) == One(arch, "link", <<"link", old, new>>, <<"linkat", AT_FDCWD, old, AT_FDCWD, new>>)
lib_rename(arch, old, new) ==
  One(arch, "rename", <<"rename", old, new>>, <<"renameat2", AT_FDCWD, old, AT_FDCWD, new, {}>>)
lib_chmod(arch, name, mode) == One(arch, "chmod", <<"chmod", name, mode>>, <<"fchmodat", AT_FDCWD, name, mode>>)
lib_access(arch, name, how) == One(arch, "access", <<"access", name, how>>, <<"faccessat", AT_FDCWD, name, how>>)
lib_stat(arch, name) ==
  One(arch, "stat", <<"stat", name>>, <<"newfstatat", AT_FDCWD, name, {}, {"AT_SYMLINK_NOFOLLOW"}>>)
lib_lstat(arch, name) == One(arch, "lstat", <<"lstat", name>>, <<"newfstatat", AT_FDCWD, name, {}, {}>>)
lib_utimensat(name, times) == <<"utimensat", AT_FDCWD, name, times, 0>>
lib_umask(mask) == <<"umask", mask>>
lib_chdir(name) == <<"chdir", name>>

-----------------------------------------------------------------------------
(* The procedures.  An argument is <<"string", name>>, or of another type. *)
IsString(x) == x[1] = "string"
IsNumber(x) == x[1] = "number"
Answer(error, value, fs) == [error |-> error, value |-> value, fs |-> fs]
Return(value, fs) == Answer("none", value, fs)
WrongType(fs) == Answer("wrong-type-arg", 0, fs)
Quiet(call) == Return(0, call.fs)
Done(call) == IF call.r = -1 THEN Answer("system-error", 0, call.fs) ELSE Quiet(call)

access_p(arch, g, fs, name, how) ==
  LET call == sys_call(lib_access(arch, name[2], how[2]), g, fs) IN Return(call.r = 0, call.fs)
chmod_(arch, g, fs, name, mode) == Quiet(sys_call(lib_chmod(arch, name[2], mode[2]), g, fs))
delete_file(arch, g, fs, name) == Quiet(sys_call(lib_unlink(arch, name[2]), g, fs))
mkdir_(arch, g, fs, name) ==
  IF ~IsString(name) THEN WrongType(fs) ELSE Done(sys_call(lib_mkdir(arch, name[2], {"r", "w", "x"}), g, fs))
rmdir_(arch, g, fs, name) ==
  IF ~IsString(name) THEN WrongType(fs) ELSE Done(sys_call(lib_rmdir(arch, name[2]), g, fs))
chdir_(arch, g, fs, name) ==
  IF ~IsString(name) THEN WrongType(fs) ELSE Done(sys_call(lib_chdir(name[2]), g, fs))
rename_file(arch, g, fs, old, new) ==
  IF ~IsString(old) \/ ~IsString(new) THEN WrongType(fs)
  ELSE Done(sys_call(lib_rename(arch, old[2], new[2]), g, fs))
link_(arch, g, fs, old, new) ==
  IF ~IsString(old) \/ ~IsString(new) THEN WrongType(fs) ELSE Done(sys_call(lib_link(arch, old[2], new[2]), g, fs))
symlink_(arch, g, fs, old, new) ==
  IF ~IsString(old) \/ ~IsString(new) THEN WrongType(fs)
  ELSE Done(sys_call(lib_symlink(arch, old[2], new[2]), g, fs))
utime_(arch, g, fs, name, actime, modtime) ==
  IF ~IsString(name) \/ ~IsNumber(actime) \/ ~IsNumber(modtime) THEN WrongType(fs)
  ELSE Done(sys_call(lib_utimensat(name[2], <<actime[2], modtime[2]>>), g, fs))

\* Without an argument it must set the mask to read it.
umask_(arch, g, fs, args) ==
  IF args = <<>> THEN LET mask == sys_call(lib_umask({}), g, fs)
                      IN  Return(mask.r, sys_call(lib_umask(mask.r), g, mask.fs).fs)
  ELSE IF ~IsNumber(args[1]) THEN WrongType(fs)
  ELSE LET call == sys_call(lib_umask(args[1][2]), g, fs) IN Return(call.r, call.fs)

statbuf_to_vector(buf) ==
  [type |-> IF buf.of.kind \in {"directory", "regular", "fifo"} THEN buf.of.kind ELSE "unknown",
   nlink |-> buf.links, times |-> buf.of.times, mode |-> buf.of.mode]
stat__(request, g, fs, exception_on_error) ==
  LET call == sys_call(request, g, fs)
  IN  IF call.r # -1 THEN Return(statbuf_to_vector(call.buf), call.fs)
      ELSE IF exception_on_error THEN Answer("system-error", 0, call.fs) ELSE Answer("#f", 0, call.fs)
stat_(arch, g, fs, name, exception_on_error) ==
  IF ~IsString(name) THEN WrongType(fs) ELSE stat__(lib_stat(arch, name[2]), g, fs, exception_on_error)
lstat_(arch, g, fs, name, exception_on_error) ==
  IF ~IsString(name) THEN WrongType(fs) ELSE stat__(lib_lstat(arch, name[2]), g, fs, exception_on_error)

-----------------------------------------------------------------------------
(* A directory stream: its buffer holds some entries of the kernel's list, *)
(* each a name and whether it has a node still.  At error the kernel fails.*)
getdents(listing, filepos, allocation, error) ==
  IF filepos = error THEN <<"error">>
  ELSE LET last == IF filepos + allocation < Len(listing) THEN filepos + allocation ELSE Len(listing)
       IN  <<"ok", SubSeq(listing, filepos + 1, last)>>

opendir_(fs, name) ==
  IF ~IsString(name) THEN WrongType(fs)
  ELSE Answer(IF Is(fs, Followed(fs, name[2]), "directory") THEN "none" ELSE "system-error", 0, fs)

closedir(dirp) == [error |-> IF dirp = 0 THEN "EINVAL" ELSE "none", closed |-> {dirp} \ {0}]
\* A closed stream is NULL; to close that is an error.
closedir_(dirstream) ==
  LET result == closedir(dirstream)
  IN  [error |-> IF result.error = "none" THEN "none" ELSE "system-error", closed |-> result.closed, dir |-> 0]

RECURSIVE readdir(_, _, _, _)
readdir(listing, allocation, error, dir) ==
  LET refill == getdents(listing, dir.filepos, allocation, error)
  IN  IF dir.buffer = <<>>
      THEN IF refill = <<"error">> THEN [dir EXCEPT !.entry = "error"]
           ELSE IF refill[2] = <<>> THEN [dir EXCEPT !.entry = "end"]
           ELSE readdir(listing, allocation, error, [dir EXCEPT !.buffer = refill[2]])
      ELSE LET next == [buffer |-> Tail(dir.buffer), filepos |-> dir.filepos + 1, entry |-> Head(dir.buffer).name]
           IN  IF Head(dir.buffer).node THEN next ELSE readdir(listing, allocation, error, next)

\* What readdir_ returns until it returns #f or raises an error.
RECURSIVE AllOf(_, _, _, _)
AllOf(listing, allocation, error, dir) ==
  LET next == readdir(listing, allocation, error, dir)
  IN  IF next.entry \in {"error", "end"} THEN <<next.entry>>
      ELSE <<next.entry>> \o AllOf(listing, allocation, error, next)
readdir_(listing, allocation, error) ==
  AllOf(listing, allocation, error, [buffer |-> <<>>, filepos |-> 0, entry |-> <<>>])
=============================================================================
