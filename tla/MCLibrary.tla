------------------------------ MODULE MCLibrary ------------------------------
(***************************************************************************)
(* What MCFunctions asks of the procedures for files, lists and modules    *)
(* and of the C library, and what their specifications say of the answers. *)
(***************************************************************************)
EXTENDS Stdio

F == INSTANCE Files
S == INSTANCE CStrings
E == INSTANCE Environment WITH MaxArguments <- 2
L == INSTANCE Structs
M == INSTANCE Modules WITH MaxVisits <- 40
ShortOptions == [c \in {"a", "b", "c"} |-> CASE c = "a" -> "none" [] c = "b" -> "required" [] c = "c" -> "optional"]
LongOptions == <<[name |-> <<"f", "o">>, has_arg |-> "required"], [name |-> <<"f", "x">>, has_arg |-> "none"],
                 [name |-> <<"f", "o", "o">>, has_arg |-> "optional"]>>
G == INSTANCE Getopt WITH optstring <- ShortOptions, longopts <- <<>>
GL == INSTANCE Getopt WITH optstring <- ShortOptions, longopts <- LongOptions

-----------------------------------------------------------------------------
(* Files: a directory of two names.                                        *)
FileNames == {"a", "b"}
Nodes == {F!Node(kind, {"r", "w"}, to) : kind \in {"regular", "fifo", "directory"}, to \in {"a"}}
  \cup {F!Node("link", {"r"}, to) : to \in FileNames}
  \cup {[F!Node("directory", {"r", "x"}, "a") EXCEPT !.empty = FALSE]}
Trees == {[entry |-> [a |-> a, b |-> b], node |-> <<n1, n2, F!Node("regular", {}, "a")>>, mask |-> {"w"}, cwd |-> 0] :
            a \in {0, 1}, b \in {0, 1, 2}, n1 \in Nodes, n2 \in Nodes}
Possible(fs) == \A node \in 1..2 : F!Is(fs, node, "directory") => F!Links(fs, node) < 2
NameArgs == {<<"string", name>> : name \in FileNames} \cup {<<"number", 0>>}
Calls ==
  {<<p, <<x>>>> : p \in {"mkdir", "rmdir", "chdir", "opendir"}, x \in NameArgs}
  \cup {<<p, <<x, y>>>> : p \in {"rename-file", "link", "symlink"}, x, y \in NameArgs}
  \cup {<<p, <<x, y>>>> : p \in {"stat", "lstat"}, x \in NameArgs, y \in BOOLEAN}
  \cup {<<"delete-file", <<<<"string", name>>>>>> : name \in FileNames}
  \cup {<<"chmod", <<<<"string", name>>, <<"number", {"x"}>>>>>> : name \in FileNames}
  \cup {<<"access?", <<<<"string", name>>, <<"number", how>>>>>> : name \in FileNames, how \in {"F_OK", "X_OK"}}
  \cup {<<"umask", args>> : args \in {<<>>, <<<<"number", {"x"}>>>>, <<<<"string", "a">>>>}}
  \cup {<<"utime", <<x, y, <<"number", 7>>>>>> : x \in NameArgs, y \in {<<"number", 3>>, <<"string", "a">>}}

Call(arch, garbage, fs, call) ==
  LET x == call[2][1]
      y == call[2][2]
  IN  CASE call[1] = "mkdir" -> F!mkdir_(arch, garbage, fs, x)
        [] call[1] = "rmdir" -> F!rmdir_(arch, garbage, fs, x)
        [] call[1] = "chdir" -> F!chdir_(arch, garbage, fs, x)
        [] call[1] = "opendir" -> F!opendir_(fs, x)
        [] call[1] = "rename-file" -> F!rename_file(arch, garbage, fs, x, y)
        [] call[1] = "link" -> F!link_(arch, garbage, fs, x, y)
        [] call[1] = "symlink" -> F!symlink_(arch, garbage, fs, x, y)
        [] call[1] = "stat" -> F!stat_(arch, garbage, fs, x, y)
        [] call[1] = "lstat" -> F!lstat_(arch, garbage, fs, x, y)
        [] call[1] = "delete-file" -> F!delete_file(arch, garbage, fs, x)
        [] call[1] = "chmod" -> F!chmod_(arch, garbage, fs, x, y)
        [] call[1] = "access?" -> F!access_p(arch, garbage, fs, x, y)
        [] call[1] = "umask" -> F!umask_(arch, garbage, fs, call[2])
        [] call[1] = "utime" -> F!utime_(arch, garbage, fs, x, y, call[2][3])
CallAll(fs, call) == [on \in F!Architectures \X {{}, {"garbage"}} |-> Call(on[1], on[2], fs, call)]

\* What POSIX says of a call with arguments of the right types: when it
\* succeeds, and what the directory is then.
Succeeds(fs, call) ==
  LET node == F!At(fs, call[2][1][2])
      there == F!Followed(fs, call[2][1][2])
      onto == F!At(fs, call[2][2][2])
  IN  CASE call[1] = "mkdir" -> node = 0
        [] call[1] = "rmdir" -> F!Is(fs, node, "directory") /\ fs.node[node].empty
        [] call[1] \in {"chdir", "opendir"} -> F!Is(fs, there, "directory")
        [] call[1] = "link" -> node # 0 /\ ~F!Is(fs, node, "directory") /\ onto = 0
        [] call[1] = "symlink" -> onto = 0
        [] call[1] = "rename-file" -> 
             /\ node # 0
             /\ \/ onto \in {0, node}
                \/ (F!Is(fs, node, "directory") <=> F!Is(fs, onto, "directory")) /\ fs.node[onto].empty
        [] call[1] = "delete-file" -> node # 0 /\ ~F!Is(fs, node, "directory")
        [] call[1] = "lstat" -> node # 0
        [] call[1] \in {"stat", "chmod", "utime"} -> there # 0
        [] OTHER -> TRUE
Effect(fs, call, next) ==
  LET x == call[2][1][2]
      y == call[2][2][2]
      there == F!Followed(fs, x)
      Entries(entry) == next = [fs EXCEPT !.entry = entry]
  IN  CASE call[1] = "mkdir" -> /\ F!Is(next, F!At(next, x), "directory")
                                /\ next.node[F!At(next, x)].mode = {"r", "x"}
                                /\ \A n \in FileNames \ {x} : F!At(next, n) = F!At(fs, n) /\ F!At(next, x) # F!At(fs, n)
        [] call[1] \in {"rmdir", "delete-file"} -> Entries([fs.entry EXCEPT ![x] = 0])
        [] call[1] = "link" -> Entries([fs.entry EXCEPT ![y] = F!At(fs, x)])
        [] call[1] = "symlink" -> next.entry[x] = fs.entry[x] \/ x = y
        [] call[1] = "rename-file" -> IF F!At(fs, x) = F!At(fs, y) THEN next = fs
                                      ELSE Entries([fs.entry EXCEPT ![x] = 0, ![y] = F!At(fs, x)])
        [] call[1] = "chmod" -> next = [fs EXCEPT !.node[there].mode = y]
        [] call[1] = "utime" -> next = [fs EXCEPT !.node[there].times = <<3, 7>>]
        [] call[1] = "chdir" -> next = [fs EXCEPT !.cwd = there]
        [] call[1] = "umask" -> next = IF call[2] = <<>> THEN fs ELSE [fs EXCEPT !.mask = x]
        [] OTHER -> next = fs
\* Of an architecture with the generic table: stat and lstat are each
\* other, and the fifth argument of linkat is not set.
Known(on, fs, call) ==
  "stat" \in F!SYS[on[1]] \/
    /\ call[1] \in {"stat", "lstat"} => ~F!Is(fs, F!At(fs, call[2][1][2]), "link")
    /\ call[1] = "link" => on[2] = {}
RightTypes(call) ==
  CASE call[1] = "umask" -> call[2] = <<>> \/ call[2][1][1] = "number"
    [] call[1] = "utime" -> call[2][1][1] = "string" /\ call[2][2][1] = "number"
    [] call[1] \in {"rename-file", "link", "symlink"} -> call[2][1][1] = "string" /\ call[2][2][1] = "string"
    [] OTHER -> call[2][1][1] = "string"
Posix(fs, call, answer) ==
  \A on \in DOMAIN answer :
    LET value == answer[on].value
        next == answer[on].fs
        raised == answer[on].error # "none"
    IN  IF ~RightTypes(call) THEN answer[on] = F!WrongType(fs)
        ELSE Known(on, fs, call) =>
          /\ answer[on] = answer[<<"x86", {}>>]
          /\ Succeeds(fs, call) => Effect(fs, call, next)
          /\ ~Succeeds(fs, call) => next = fs
          /\ call[1] \notin {"delete-file", "chmod", "access?"} => raised = ~Succeeds(fs, call)
          /\ call[1] = "access?" => value =
               LET there == F!Followed(fs, call[2][1][2])
               IN  there # 0 /\ (call[2][2][2] = "X_OK" => "x" \in fs.node[there].mode)
          /\ call[1] = "umask" => value = fs.mask
          /\ call[1] \in {"stat", "lstat"} /\ raised => answer[on].error = IF call[2][2] THEN "system-error" ELSE "#f"
          /\ call[1] \in {"stat", "lstat"} /\ ~raised =>
               LET node == fs.node[IF call[1] = "stat" THEN F!Followed(fs, call[2][1][2]) ELSE F!At(fs, call[2][1][2])]
               IN  value.type = (IF node.kind = "link" THEN "unknown" ELSE node.kind) /\ value.mode = node.mode

\* Directories: up to 3 entries, with and without a node.
Listings == UNION {[1..n -> [name : FileNames, node : BOOLEAN]] : n \in 0..3}
DirectoryJobs == {<<listing, allocation, error>> : listing \in Listings, allocation \in 1..2, error \in {-1, 0, 2}}
ClosesOnce == LET once == F!closedir_(3) IN once.closed = {3} /\ F!closedir_(once.dir).error = "system-error"
ReadsAll(job, answer) ==
  LET live == SelectSeq(job[1], LAMBDA entry : entry.node)
      names == [i \in DOMAIN live |-> live[i].name]
  IN  /\ ClosesOnce
      /\ \/ answer = Append(names, "end")
         \/ job[3] # -1 /\ answer[Len(answer)] = "error" /\ IsPrefix(Front(answer), names)

-----------------------------------------------------------------------------
(* Strings of bytes, some of them above 127.                               *)
ByteStrings == UNION {[1..n -> {1, 2, 200}] : n \in 0..3}
Some(s, Holds(_)) == {i \in 0 .. Len(s) - 1 : Holds(s[i + 1])}
FirstOr(places, else) == IF places = {} THEN else ELSE CHOOSE i \in places : \A j \in places : i <= j
LastOr(places, else) == IF places = {} THEN else ELSE CHOOSE i \in places : \A j \in places : i >= j
Sign(n) == IF n < 0 THEN -1 ELSE IF n > 0 THEN 1 ELSE 0

StringAnswer(a, b) == [
  len |-> S!strlen(a),
  cmp |-> [signed \in BOOLEAN |-> Sign(S!strcmp(a, b, signed))],
  ncmp |-> [n \in 0..4 |-> Sign(S!strncmp(a, b, n, FALSE))],
  mem |-> [n \in 0 .. (IF Len(a) < Len(b) THEN Len(a) ELSE Len(b)) |-> Sign(S!memcmp(a, b, n, FALSE))],
  chr |-> [c \in {0, 1, 200} |-> S!strchr(a, c)], rchr |-> [c \in {0, 1, 200} |-> S!strrchr(a, c)],
  mchr |-> [c \in {1, 200} |-> S!memchr(a, c, Len(a))],
  span |-> S!strspn(a, b), cspan |-> S!strcspn(a, b), pbrk |-> S!strpbrk(a, b), str |-> S!strstr(a, b),
  argz |-> S!argz_extract(a \o <<0>> \o b \o <<0>>), count |-> S!argz_count(a \o <<0>> \o b \o <<0>>)]

\* Unsigned bytes in order; a prefix is before what it is a prefix of.
RECURSIVE Order(_, _)
Order(a, b) ==
  CASE a = <<>> -> IF b = <<>> THEN 0 ELSE -1
    [] a # <<>> /\ b = <<>> -> 1
    [] OTHER -> IF a[1] = b[1] THEN Order(Tail(a), Tail(b)) ELSE Sign(a[1] - b[1])
Upto(s, n) == SubSeq(s, 1, IF n < Len(s) THEN n ELSE Len(s))
StringMeansC(a, b, answer) ==
  /\ answer.len = Len(a)
  /\ answer.cmp[FALSE] = Order(a, b) /\ (answer.cmp[TRUE] = 0 <=> a = b)
  /\ \A n \in DOMAIN answer.ncmp : answer.ncmp[n] = Order(Upto(a, n), Upto(b, n))
  /\ \A n \in DOMAIN answer.mem : answer.mem[n] = Order(Upto(a, n), Upto(b, n))
  /\ \A c \in {1, 200} : /\ answer.chr[c] = FirstOr(Some(a, LAMBDA x : x = c), -1)
                          /\ answer.rchr[c] = LastOr(Some(a, LAMBDA x : x = c), -1)
                          /\ answer.mchr[c] = answer.chr[c]
  /\ answer.chr[0] = Len(a) /\ (a # <<>> => answer.rchr[0] = Len(a))
  /\ answer.span = FirstOr(Some(a, LAMBDA x : x \notin Range(b)), Len(a))
  /\ answer.cspan = FirstOr(Some(a, LAMBDA x : x \in Range(b)), Len(a))
  /\ (Range(a) \cap Range(b) # {} => answer.pbrk = answer.cspan)
  /\ answer.str = FirstOr({i \in 0 .. Len(a) : IsPrefix(b, After(a, i))}, -1)
  /\ answer.argz = <<a, b>> /\ answer.count = 2

\* Memory: eight bytes, and two strings of at most two.
Memory == <<1, 2, 0, 4, 5, 6, 7, 8>>
MemoryJobs == {[dest |-> dest, src |-> src, n |-> n, from |-> from] :
                 dest \in 0..4, src \in 0..4, n \in 0..4, from \in {s \in ByteStrings : Len(s) < 3}}
MemoryAnswer(job) == [
  memcpy |-> S!memcpy(Memory, job.dest, job.src, job.n), memmove |-> S!memmove(Memory, job.dest, job.src, job.n),
  memset |-> S!memset(Memory, job.dest, 200, job.n), strcpy |-> S!strcpy(Memory, job.dest, job.from),
  strncpy |-> S!strncpy(Memory, job.dest, job.from, job.n), strcat |-> S!strcat(Memory, 0, job.from),
  strncat |-> S!strncat(Memory, 0, job.from, job.n)]
Over(at, bytes) == [i \in DOMAIN Memory |-> IF i - at \in DOMAIN bytes THEN bytes[i - at] ELSE Memory[i]]
MemoryMeansC(job, answer) ==
  LET moved == Over(job.dest, SubSeq(Memory, job.src + 1, job.src + job.n))
      Padded(s) == s \o [i \in 1 .. job.n - Len(s) |-> 0]
  IN  /\ answer.memmove = moved
      /\ (job.dest \in job.src + 1 .. job.src + job.n - 1 \/ answer.memcpy = moved)
      /\ answer.memset = Over(job.dest, [i \in 1 .. job.n |-> 200])
      /\ answer.strcpy = Over(job.dest, job.from \o <<0>>)
      /\ answer.strncpy = Over(job.dest, Padded(Upto(job.from, job.n)))
      /\ answer.strcat = Over(2, job.from \o <<0>>)
      /\ answer.strncat = Over(2, Upto(job.from, job.n) \o <<0>>)

\* Allocations: three, one after the other; each block is filled with its
\* number.  A block to reallocate is known by its number, 0: NULL.
NoMemory == [start |-> 3, break |-> 3, brk |-> 0, memory |-> [i \in 1 .. S!Limit |-> 99]]
Allocations == {<<p, n, 0>> : p \in {"malloc", "calloc", "sbrk"}, n \in {0, 1, 4, 6}}
               \cup {<<"realloc", n, i>> : n \in {1, 4, 6, 9}, i \in 0..2}
AllocationJobs == {job \in [1..3 -> Allocations] : \A i \in 1..3 : job[i][3] < i}
BytesAt(memory, p, n) == SubSeq(memory, p + 1, p + n)
Allocated(operation, n, from, s) ==
  CASE operation = "malloc" -> S!malloc(s, n) [] operation = "sbrk" -> S!sbrk(s, n)
    [] operation = "calloc" -> S!calloc(s, n, 1) [] operation = "realloc" -> S!realloc(s, from, n)
Filled(block, n, i, blocks) == [
  s |-> [block.s EXCEPT !.memory = S!memset(@, block.p, i, n)],
  blocks |-> Append(blocks, [p |-> block.p, n |-> n, got |-> BytesAt(block.s.memory, block.p, n)])]
AllocationAnswer(job) ==
  LET answer[i \in 0..3] ==
        IF i = 0 THEN [s |-> NoMemory, blocks |-> <<>>]
        ELSE LET before == answer[i - 1]
                 from == IF job[i][3] = 0 THEN 0 ELSE before.blocks[job[i][3]].p
             IN  Filled(Allocated(job[i][1], job[i][2], from, before.s), job[i][2], i, before.blocks)
  IN  answer[3]
\* As long as the kernel has memory.
AllocationMeansC(job, answer) ==
  \A i \in DOMAIN job :
    LET block == answer.blocks[i]
        old == answer.blocks[job[i][3]]
    IN  /\ block.p # 0 /\ block.p % S!Alignment = 0 /\ block.p + block.n <= answer.s.break
        /\ \A j \in 1 .. i - 1 : answer.blocks[j].p + answer.blocks[j].n <= block.p
        /\ BytesAt(answer.s.memory, block.p, block.n) = [k \in 1 .. block.n |-> i]
        /\ job[i][1] = "calloc" => block.got = [k \in 1 .. block.n |-> 0]
        /\ job[i][1] = "realloc" /\ job[i][3] # 0 =>
             \A k \in 1 .. block.n : k <= old.n => block.got[k] = job[i][3]

\* Characters: each is of one class.  127 is of none.
CharacterAnswer(c) == [
  classes |-> {class \in {"cntrl", "blank", "alpha", "digit", "punct"} :
                 CASE class = "cntrl" -> S!iscntrl(c) [] class = "blank" -> c = 32 [] class = "alpha" -> S!isalpha(c)
                   [] class = "digit" -> S!isdigit(c) [] class = "punct" -> S!ispunct(c)},
  lower |-> S!tolower(c), upper |-> S!toupper(c), alnum |-> S!isalnum(c), graph |-> S!isgraph(c),
  print |-> S!isprint(c), space |-> S!isspace(c), xdigit |-> S!isxdigit(c), ascii |-> S!isascii(c),
  lwr |-> S!strlwr(<<c>>)]
CharacterMeansC(c, answer) ==
  /\ Cardinality(answer.classes) = IF c \in 0..126 THEN 1 ELSE 0
  /\ answer.ascii = (c \in 0..127)
  /\ answer.alnum = (answer.classes \in {{"alpha"}, {"digit"}})
  /\ answer.graph = (answer.alnum \/ answer.classes = {"punct"})
  /\ answer.print = (answer.graph \/ c = 32)
  /\ answer.space => answer.classes \in {{"cntrl"}, {"blank"}}
  /\ answer.xdigit = (c \in {ch \in 0..127 : Char[ch] \in isnumber(16)})
  /\ IF answer.classes = {"alpha"} THEN {answer.lower, answer.upper} = {c, c + answer.lower + answer.upper - 2 * c}
                                         /\ answer.lower = answer.upper + 32
     ELSE answer.lower = c /\ answer.upper = c
  /\ answer.lwr = <<answer.lower>>

-----------------------------------------------------------------------------
(* The environment: three entries at most, whose names may be equal.       *)
Variables == {<<"A">>, <<"A", "B">>, <<"B">>}
Entry(name, value) == name \o <<"=">> \o value
Environments == UNION {[1..n -> {Entry(name, v) : name \in Variables, v \in {<<"1">>, <<>>}}] : n \in 0..3}
EnvironmentJobs == Environments \X Variables
Known_(environ) == [name \in Variables |-> E!getenv(environ, name)]
EnvironmentAnswer(environ, name) == [
  before |-> Known_(environ), set |-> Known_(E!setenv(environ, name, <<"2">>, TRUE)),
  unset |-> Known_(E!unsetenv(environ, name)),
  size |-> Len(E!setenv(environ, name, <<"2">>, TRUE)), times |-> Cardinality(E!Places(environ, name)),
  twice |-> \E i \in 2 .. Len(environ) : {i - 1, i} \subseteq E!Places(environ, name),
  all |-> E!environ_(environ, <<[i \in DOMAIN environ |-> <<"string", environ[i]>>]>>)]
\* What has the same name behind a deleted entry stays.
EnvironmentMeansC(job, answer) ==
  LET name == job[2]
  IN  /\ answer.set = [answer.before EXCEPT ![name] = <<"2">>]
      /\ answer.twice \/ answer.unset = [answer.before EXCEPT ![name] = E!Nothing]
      /\ answer.size = Len(job[1]) + (IF answer.times = 0 THEN 1 ELSE 0)
      /\ (answer.before[name] = E!Nothing <=> answer.times = 0)
      /\ answer.all = <<"unspecified", job[1]>>

\* Programs: PATH has two directories at most; another text is behind it.
Directories == {<<"u">>, <<"v">>}
Paths == {<<d>> : d \in Directories} \cup {<<d, e>> : d \in Directories, e \in Directories}
Executables == SUBSET {<<"u", "/", "p">>, <<"v", "/", "p">>, <<"w", "/", "p">>}
ProgramJobs == {[path |-> path, executable |-> executable, file |-> file, behind |-> behind] :
                  path \in Paths, executable \in Executables,
                  file \in {<<"p">>, <<"w", "/", "p">>}, behind \in {<<>>, <<<<"w">>>>}}
PathOf(path) == IF Len(path) = 1 THEN path[1] ELSE path[1] \o <<":">> \o path[2]
ProgramAnswer(job) ==
  LET environ == <<Entry(<<"P">>, PathOf(job.path))>>
      argv == <<<<"x">>, <<"y">>>>
      args == <<<<"string", <<"x">>>>, <<"string", <<"y">>>>>>
  IN  [execvp |-> E!execvp(environ, job.executable, job.file, argv, job.behind),
       execlp |-> E!execlp(environ, job.executable, job.file, argv, job.behind),
       execl |-> E!execl_(environ, <<"string", job.file>>, args),
       execle |-> E!execle_(<<"string", job.file>>, args, <<<<"string", environ[1]>>>>),
       more |-> E!execl_(environ, <<"string", job.file>>, args \o args)]
ProgramMeansC(job, answer) ==
  LET environ == <<Entry(<<"P">>, PathOf(job.path))>>
      In(d) == d \o <<"/", "p">>
      found == SelectSeq(job.path, LAMBDA d : In(d) \in job.executable)
      program == IF job.file # <<"p">> THEN job.file ELSE In(found[1])
      Starts(argv) == [file |-> program, argv |-> argv, env |-> environ]
  IN  /\ job.file # <<"p">> \/ found # <<>> =>
           /\ answer.execvp = Starts(<<<<"x">>, <<"y">>>>)
           /\ answer.execlp = Starts(<<program, <<"y">>>>)   \* the given name is lost
      /\ job.file = <<"p">> /\ found = <<>> /\ job.behind = <<>> => answer.execvp = E!ENOENT
      /\ answer.execl = [file |-> job.file, argv |-> <<<<"x">>, <<"y">>>>, env |-> environ]
      /\ answer.execle = answer.execl
      /\ answer.more = [errno |-> "system-error"]

\* Booting: a file of the asked name, or of the usual one, in some places.
BootSettings == [MES_BOOT |-> "b", MES_PREFIX |-> "/p", srcdest |-> "s/"]
BootPlaces == {"/p/mes/module/mes/", "/p/share/mes/module/mes/", "s/mes/module/mes/", "mes/module/mes/", ""}
BootJobs == {[env |-> Restrict(BootSettings, names), files |-> {d \o name : d \in places}] :
               names \in SUBSET DOMAIN BootSettings, places \in SUBSET BootPlaces, name \in {"b", "boot-5.scm"}}
BootIsFound(job, answer) ==
  LET set(name) == name \in DOMAIN job.env
      asked == IF set("MES_BOOT") THEN "b" ELSE "boot-5.scm"
      source == IF set("srcdest") THEN "s/mes" ELSE "mes"
      File(datadir) == datadir \o "/module/mes/" \o asked
      installed == IF set("MES_PREFIX") THEN {File("/p/mes"), File("/p/share/mes")} ELSE {}
      known == installed \cup {File(source), asked}
  IN  IF job.files \cap known = {} THEN answer = E!Exited
      ELSE /\ answer.file_name \in job.files \cap known
           /\ job.files \cap installed # {} => answer.file_name \in installed
           /\ answer.file_name = asked => job.files \cap known = {asked}
           /\ answer.g_datadir = source \/ answer.file_name # asked
           /\ answer.file_name \in {asked, File(answer.g_datadir)}

-----------------------------------------------------------------------------
(* Options: what was meant, and the words it is written with.  A word that *)
(* is an argument may look like an option.                                 *)
Meant(words, options) == [words |-> words, options |-> options]
Values == {<<"v">>, <<"-", "a">>, <<>>}
Spelt ==
  {Meant(<<<<"-", "a">>>>, <<<<<<"a">>, G!NULL>>>>), Meant(<<<<"-", "c">>>>, <<<<<<"c">>, G!NULL>>>>),
   Meant(<<<<"-", "c", "v">>>>, <<<<<<"c">>, <<"v">>>>>>), Meant(<<<<"-", "b", "v">>>>, <<<<<<"b">>, <<"v">>>>>>),
   Meant(<<<<"-", "a", "z">>>>, <<<<<<"a">>, G!NULL>>, <<<<"?">>, G!NULL>>>>)}
  \cup {Meant(<<<<"-", "b">>, v>>, <<<<<<"b">>, v>>>>) : v \in Values}
  \cup {Meant(<<<<"-", "a", "b">>, v>>, <<<<<<"a">>, G!NULL>>, <<<<"b">>, v>>>>) : v \in Values}
LongSpelt(dashes) ==
  LET Word(letters) == dashes \o letters
      None(word) == Meant(<<word>>, <<<<<<"?">>, G!NULL>>>>)
  IN  {Meant(<<Word(<<"f", "o">>), v>>, <<<<<<"f", "o">>, v>>>>) : v \in Values}
      \cup {Meant(<<Word(<<"f", "o", "=", "v">>)>>, <<<<<<"f", "o">>, <<"v">>>>>>),
            Meant(<<Word(<<"f", "o", "o">>)>>, <<<<<<"f", "o", "o">>, G!NULL>>>>),
            Meant(<<Word(<<"f", "o", "o", "=">>)>>, <<<<<<"f", "o", "o">>, <<>>>>>>),
            Meant(<<Word(<<"f", "x">>)>>, <<<<<<"f", "x">>, G!NULL>>>>),
            None(Word(<<"f", "x", "=", "v">>)), None(Word(<<"f">>)), None(Word(<<"q">>))}
\* The last option may miss its argument; then there are other words.
Lasts == {Meant(<<>>, <<>>), Meant(<<<<"x">>, <<"-", "a">>>>, <<>>), Meant(<<<<"-">>>>, <<>>),
          Meant(<<<<"-", "b">>>>, <<<<<<"?">>, G!NULL>>>>)}
Spellings(style) ==
  CASE style = "short" -> Spelt
    [] style = "long" -> Spelt \cup LongSpelt(<<"-", "-">>)
    [] style = "long only" -> {m \in Spelt : m.words[1][2] # "z"} \cup LongSpelt(<<"-", "-">>) \cup LongSpelt(<<"-">>)
OptionJobs == UNION {[style : {style}, first : Spellings(style), then : Spellings(style), last : Lasts] :
                       style \in {"short", "long", "long only"}}
Argv(job) == <<<<"p">>>> \o job.first.words \o job.then.words \o job.last.words
OptionAnswer(job) ==
  IF job.style = "short" THEN G!Options(Argv(job), G!Start, FALSE)
  ELSE GL!Options(Argv(job), GL!Start, job.style = "long only")
OptionsMeant(job, answer) ==
  /\ answer.options = job.first.options \o job.then.options \o job.last.options
  /\ answer.optind = Len(Argv(job)) - (IF job.last.options = <<>> THEN Len(job.last.words) ELSE 0)

-----------------------------------------------------------------------------
(* Streams.                                                                *)
Streams == {Stream(ungot, rest) : ungot \in {<<>>, <<"a">>, <<"\n">>}, rest \in UNION {[1..n -> {"a", "\n"}] : n \in 0..4}}
StreamJobs == {[stream |-> stream, count |-> count, size |-> size] : stream \in Streams, count \in 0..4, size \in 0..2}
SomeInts == {-128, -7, 0, 10, 127}

RECURSIVE AllLines(_, _)
AllLines(count, stream) ==
  LET line == fdgets(count, stream)
  IN  IF line.s = <<"NULL">> THEN <<>> ELSE <<line.s>> \o AllLines(count, line.stream)
StreamAnswer(job) == [
  lines |-> IF job.count < 2 THEN <<>> ELSE AllLines(job.count, job.stream), line |-> fdgets(job.count, job.stream),
  block |-> fread(job.size, job.count, job.stream),
  again |-> LET c == fgetc(job.stream) IN fgetc(ungetc(c[1], c[2]))[1] = c[1]]
IsLine(s, count) == Len(s) \in 1 .. count - 1 /\ \A i \in 1 .. Len(s) - 1 : s[i] # "\n"
StreamMeansC(job, answer) ==
  LET text == Left(job.stream)
      lines == answer.lines
  IN  /\ answer.again
      /\ job.count > 1 =>
           /\ FlattenSeq(lines) = text
           /\ \A i \in DOMAIN lines : IsLine(lines[i], job.count)
           /\ \A i \in 1 .. Len(lines) - 1 : Len(lines[i]) = job.count - 1 \/ Last(lines[i]) = "\n"
      /\ job.count = 1 => answer.line.s = <<>>
      /\ answer.block.data = Upto(text, job.size * job.count)
      /\ answer.block.data \o Left(answer.block.stream) = text
      /\ job.size > 0 => answer.block.result = Len(answer.block.data) \div job.size

\* Two numbers and a character, written and scanned.
ScanJobs == {[m |-> m, n |-> n, c |-> c] : m \in SomeInts, n \in SomeInts, c \in {",", "x"}}
D == <<"%", "d">>
C == <<"%", "c">>
ScanAnswer(job) ==
  LET text == ltoa(job.m) \o <<job.c>> \o ltoa(job.n)
  IN  [string |-> <<vsscanf(text, <<D, C, D>>), vsscanf(text, <<D, <<job.c>>, D>>)>>,
       stream |-> <<vfscanf(Stream(<<>>, text), <<D>>), vfscanf(Stream(<<job.c>>, ltoa(job.n)), <<C, D>>),
                    vfscanf(Stream(<<>>, <<job.c>> \o ltoa(job.n)), <<<<job.c>>, D>>)>>]
Scanned(job, answer) ==
  /\ answer.string = <<<<job.m, job.c, job.n>>, <<job.m, job.n>>>>
  /\ answer.stream = <<<<job.m>>, <<job.c, job.n>>, <<job.n>>>>
OpenJobs == {<<opentype, exists>> : opentype \in {<<"r">>, <<"w">>, <<"a">>, <<"r", "+">>, <<"a", "+">>}, exists \in BOOLEAN}
\* Not so: r+ and a where there is no file.
OpensAsC(job, flags) ==
  LET mode == job[1][1]
      plus == Len(job[1]) = 2
  IN  /\ mode # "r" => "O_CREAT" \in flags \/ job[2]
      /\ job[2] => /\ "O_TRUNC" \in flags <=> mode = "w"
                   /\ "O_APPEND" \in flags <=> mode = "a"
      /\ plus => "O_RDWR" \in flags
      /\ mode = "r" /\ ~plus => flags = {"O_RDONLY"}

-----------------------------------------------------------------------------
(* Lists: the cells, and what they are as data.  Two keywords and two      *)
(* strings have the same name.                                             *)
Text(type, bytes) == [type |-> type, string |-> bytes]
Heap == L!Nucleus \o <<[type |-> "TBYTES", bytes |-> <<107>>], [type |-> "TBYTES", bytes |-> <<>>],
  L!make_number(5), L!make_number(5), L!make_number(200), L!make_char(65),
  Text("TKEYWORD", 5), Text("TKEYWORD", 5), Text("TSTRING", 5), Text("TSTRING", 5), Text("TSTRING", 6), Text("TSYMBOL", 5)>>
Elements == {L!cell_nil, 7, 8, 9, 10, 11, 12, 13, 14, 16}
RECURSIVE Datum(_, _)
Datum(h, x) ==
  CASE h[x].type = "TPAIR" -> <<"pair", Datum(h, h[x].car), Datum(h, h[x].cdr)>>
    [] h[x].type = "TVECTOR" -> <<"vector", [i \in DOMAIN h[x].vector |-> Datum(h, h[x].vector[i])]>>
    [] h[x].type \in {"TNUMBER", "TCHAR"} -> <<h[x].type, h[x].value>>
    [] h[x].type \in {"TKEYWORD", "TSTRING"} -> <<h[x].type, L!Bytes(h, x)>>
    [] OTHER -> <<"cell", x>>
Same(h, x, y) == IF h[x].type = "TSTRING" THEN x = y ELSE Datum(h, x) = Datum(h, y)
RECURSIVE OfList(_, _, _), ToList(_, _)
OfList(h, xs, tail) ==
  IF xs = <<>> THEN L!Result(tail, h) ELSE LET rest == OfList(h, Tail(xs), tail) IN L!cons(rest.h, xs[1], rest.r)
ToList(h, x) == IF h[x].type = "TPAIR" THEN <<h[x].car>> \o ToList(h, h[x].cdr) ELSE <<>>
RECURSIVE TailOf(_, _)
TailOf(h, x) == IF h[x].type = "TPAIR" THEN TailOf(h, h[x].cdr) ELSE x
Of(result) == [list |-> ToList(result.h, result.r), tail |-> TailOf(result.h, result.r)]

ListJobs == {[x |-> x, y |-> y] : x \in UNION {[1..n -> Elements] : n \in 0..2} \cup [1..3 -> {7, 11, 13}],
                                  y \in {<<>>} \cup {<<e>> : e \in Elements} \cup {<<7, 8>>, <<13, 14>>, <<8, 13, 1>>}}
\* A vector of a list, and with element e as the first.
VectorOf(vector, e) ==
  LET v == vector.r
      set == L!vector_set_x_(vector.h, v, 0, e)
      Refs(h) == [i \in DOMAIN h[v].vector |-> LET ref == L!vector_ref_(h, v, i - 1) IN Datum(ref.h, ref.r)]
      length == L!vector_length(vector.h, v)
  IN  [refs |-> Refs(vector.h), changed |-> Refs(set.h), back |-> Of(L!vector_to_list(vector.h, v)),
       length |-> Datum(length.h, length.r),
       errors |-> <<set.error, L!vector_ref_(vector.h, v, Len(vector.h[v].vector)).error>>]
ListAnswer(x, y, h) ==
  LET append == L!append2(h, x, y)
      reverse == L!append_reverse(h, x, y)
      turned == L!reverse_x_(h, x, y)
  IN  [append |-> Of(append), kept |-> IsPrefix(h, append.h) /\ IsPrefix(h, reverse.h), reverse |-> Of(reverse),
       turned |-> Of(turned), cells |-> Len(turned.h) - Len(h), shared |-> append.r = y \/ TailOf(append.h, append.r) = TailOf(h, y),
       length |-> L!length__(h, x), last |-> L!last_pair(h, x),
       equal |-> L!equal2_p(h, x, y) = L!cell_t,
       memq |-> [e \in Elements |-> L!memq(h, e, x)],
       vector |-> VectorOf(L!list_to_vector(h, x), y)]
ListAnswerOf(job) ==
  LET y == OfList(Heap, job.y, L!cell_nil)
      x == OfList(y.h, job.x, L!cell_nil)
  IN  [given |-> [h |-> x.h, x |-> x.r, y |-> y.r], got |-> ListAnswer(x.r, y.r, x.h),
       improper |-> L!length__(Append(x.h, L!Pair(L!cell_nil, 7)), Len(x.h) + 1),
       raised |-> {L!append2(x.h, 7, y.r).error, L!append_reverse(x.h, 7, y.r).error, L!reverse_x_(x.h, 7, y.r).error}]
\* The words of a number and a character are not told apart here: no
\* number is 65.
ListIsSequence(job, answer) ==
  LET got == answer.got
      h == answer.given.h
      Is(it, xs) == it = [list |-> xs, tail |-> L!cell_nil]
  IN  /\ Is(got.append, job.x \o job.y) /\ got.kept /\ got.shared
      /\ Is(got.reverse, Reverse(job.x) \o job.y)
      /\ Is(got.turned, Reverse(job.x) \o job.y) /\ got.cells = 0
      /\ got.length = Len(job.x) /\ answer.improper = -1
      /\ IF job.x = <<>> THEN got.last = L!cell_nil ELSE ToList(h, got.last) = <<Last(job.x)>>
      /\ got.equal = (Datum(h, answer.given.x) = Datum(h, answer.given.y))
      /\ \A e \in Elements :
           LET i == SelectInSeq(job.x, LAMBDA x : Same(h, e, x))
           IN  IF i = 0 THEN got.memq[e] = L!cell_f ELSE ToList(h, got.memq[e]) = SubSeq(job.x, i, Len(job.x))
      /\ answer.raised = {"not-a-pair"}
      /\ Is(got.vector.back, job.x) /\ got.vector.length = <<"TNUMBER", Len(job.x)>>
      /\ got.vector.refs = [i \in DOMAIN job.x |-> Datum(h, job.x[i])]
      /\ got.vector.changed = [i \in DOMAIN job.x |-> Datum(h, IF i = 1 THEN answer.given.y ELSE job.x[i])]
      /\ got.vector.errors = <<IF job.x = <<>> THEN "assertion" ELSE "none", "assertion">>

\* Association lists: the keys of a list with their places as values.
AlistJobs == UNION {[1..n -> Elements \ {L!cell_nil}] : n \in 0..3}
RECURSIVE OfAlist(_, _, _)
OfAlist(h, keys, i) ==
  IF i > Len(keys) THEN L!Result(L!cell_nil, h)
  ELSE LET rest == OfAlist(h, keys, i + 1) IN L!acons(rest.h, keys[i], i, rest.r)
AlistAnswer(keys) ==
  LET a == OfAlist(Heap, keys, 1)
      Value(pair) == IF pair = L!cell_f THEN 0 ELSE a.h[pair].cdr
  IN  [e \in Elements |-> [assq |-> Value(L!assq(a.h, e, a.r)), assoc |-> Value(L!assoc(a.h, e, a.r)),
                           xassq |-> [i \in 1..3 |-> Value(L!xassq(a.h, i, a.r))]]]
\* A keyword is also found at a string or symbol with its name.
AlistIsMap(keys, answer) ==
  \A e \in Elements :
    LET Keyword(x) == Heap[x].type = "TKEYWORD"
        Named(x) == Keyword(e) /\ Heap[x].type \in {"TSTRING", "TSYMBOL"} /\ L!Bytes(Heap, x) = L!Bytes(Heap, e)
    IN  /\ answer[e].assoc = SelectInSeq(keys, LAMBDA x : Datum(Heap, e) = Datum(Heap, x))
        /\ answer[e].assq = SelectInSeq(keys, LAMBDA x : Same(Heap, e, x) \/ Named(x))
        /\ \A i \in 1..3 : answer[e].xassq[i] = IF i <= Len(keys) THEN i ELSE 0

-----------------------------------------------------------------------------
(* Strings, bytevectors and structs: bytes a, b; a place k; a value v.     *)
BytesJobs == {[a |-> a, b |-> b, k |-> k, v |-> v, signed |-> signed] :
                a \in ByteStrings, b \in {s \in ByteStrings : Len(s) < 2}, k \in -1..4, v \in {-1, 0, 127, 200, 256}, signed \in BOOLEAN}
BytesAnswer(job) ==
  LET a == L!make_string(Heap, job.a)
      b == L!make_string(a.h, job.b)
      list == OfList(b.h, <<a.r, b.r, a.r>>, L!cell_nil)
      append == L!string_append(list.h, list.r)
      chars == L!string_to_list(b.h, a.r)
      back == L!list_to_string(chars.h, chars.r)
      given == b.h \o <<L!make_number(job.k), L!make_char(job.v)>>
      k == Len(b.h) + 1
      c == Len(b.h) + 2
      ref == L!string_ref(given, a.r, k, job.signed)
      set == L!string_set_x(given, a.r, k, c)
      length == L!string_length(append.h, append.r)
      new == L!symbol_to_string(L!keyword_to_string(b.h, 11).h, 16)
      keyword == L!symbol_to_keyword(new.h, 16)
  IN  [append |-> L!Bytes(append.h, append.r), back |-> L!Bytes(back.h, back.r),
       list |-> [i \in DOMAIN job.a |-> Datum(chars.h, ToList(chars.h, chars.r)[i])],
       ref |-> IF ref.error = "none" THEN Datum(ref.h, ref.r) ELSE <<ref.error>>, error |-> set.error = "system-error",
       wrong |-> {L!string_ref(given, 16, k, job.signed).error, L!string_ref(given, a.r, c, job.signed).error,
                  L!string_set_x(given, 16, k, c).error, L!string_set_x(given, a.r, c, c).error,
                  L!string_set_x(given, a.r, k, k).error, L!string_equal_p(given, a.r, 16).error},
       length |-> Datum(length.h, length.r), symbol |-> L!string_length(Heap, 16).error,
       set |-> L!Bytes(set.h, a.r), others |-> L!Bytes(set.h, b.r) = job.b,
       names |-> Same(keyword.h, keyword.r, 11) /\ L!string_equal_p(new.h, new.r, 13).r = L!cell_t]
\* string-ref gives a byte above 127 as a negative character where char is
\* signed; string->list gives the byte.
BytesAreSequences(job, answer) ==
  /\ answer.append = job.a \o job.b \o job.a /\ answer.back = job.a /\ answer.names
  /\ answer.length = <<"TNUMBER", Len(answer.append)>> /\ answer.symbol = "assertion"
  /\ answer.list = [i \in DOMAIN job.a |-> <<"TCHAR", job.a[i]>>]
  /\ answer.ref = IF job.k \notin 0 .. Len(job.a) THEN <<"system-error">>
                  ELSE LET byte == Append(job.a, 0)[job.k + 1]
                       IN  <<"TCHAR", IF job.signed /\ byte > 127 THEN byte - 256 ELSE byte>>
  /\ answer.wrong = {"assertion"}
  /\ (answer.error <=> job.k \notin 0 .. Len(job.a)) /\ answer.others
  /\ answer.set = [i \in DOMAIN job.a |-> IF i = job.k + 1 THEN job.v % 256 ELSE job.a[i]]

\* A bytevector of n bytes, and a byte set in it; a struct of two fields.
VectorJobs == {[n |-> n, fill |-> fill, k |-> k, v |-> v, signed |-> signed] :
                 n \in 0..3, fill \in {-1, 0, 127, 200, 256}, k \in -1..3, v \in {-1, 0, 128, 255, 256}, signed \in BOOLEAN}
VectorAnswer(job) ==
  LET h == Heap \o <<L!make_number(job.n), L!make_number(job.fill), L!make_number(job.k), L!make_number(job.v)>>
      At(i) == Len(Heap) + i
      All(g, bv) == [i \in 1 .. job.n |->
        LET ref == L!bytevector_u8_ref(Append(g, L!make_number(i - 1)), bv, Len(g) + 1) IN ref.h[ref.r].value]
      made == L!make_bytevector(h, <<At(1), At(2)>>, 0)
      plain == L!make_bytevector(h, <<At(1)>>, 0)
      set == L!bytevector_u8_set_x(plain.h, plain.r, At(3), At(4), job.signed)
      fields == OfList(h, <<At(1), 13>>, L!cell_nil)
      struct == L!make_struct(fields.h, 16, fields.r, L!cell_f)
      change == L!struct_set_x_(struct.h, struct.r, 2, 13)
      FieldOf(g, i) == LET ref == L!struct_ref_(g, struct.r, i) IN <<ref.error, IF ref.r = 0 THEN 0 ELSE Datum(ref.h, ref.r)>>
  IN  [filled |-> IF made.error = "none" THEN L!Bytes(made.h, made.r) ELSE <<>>, refused |-> made.error # "none",
       bytes |-> All(set.h, plain.r), error |-> set.error,
       fields |-> [i \in 0..3 |-> FieldOf(struct.h, i)[2]], changed |-> [i \in 0..3 |-> FieldOf(change.h, i)[2]],
       beyond |-> FieldOf(struct.h, L!struct_length(struct.h, struct.r))[1]]
VectorIsSequence(job, answer) ==
  LET sets == job.k \in 0 .. job.n - 1 /\ job.v \in 0..255
      fields == <<<<"cell", 16>>, <<"cell", L!cell_f>>, <<"TNUMBER", job.n>>, <<"TSTRING", <<107>>>>>>
  IN  /\ IF job.fill \in 0..255 THEN answer.filled = [i \in 1 .. job.n |-> job.fill] ELSE answer.refused
      /\ answer.error = IF sets THEN "none" ELSE "system-error"
      /\ answer.bytes = [i \in 1 .. job.n |-> IF sets /\ i = job.k + 1 THEN job.v ELSE 0]
      /\ \A i \in 0..3 : /\ answer.fields[i] = fields[i + 1]
                         /\ answer.changed[i] = fields[IF i = 2 THEN 4 ELSE i + 1]
      /\ answer.beyond = "assertion"

\* Records: a variable that is set, a hash table, and the stack as data.
RecordJobs == {[value |-> value, new |-> new, size |-> size, stack |-> stack] :
                 value \in Elements, new \in Elements, size \in {0, 5}, stack \in UNION {[1..n -> {7, 13, 16}] : n \in 0..3}}
Referred(ref) == Datum(ref.h, ref.r)
VariableAnswer(job) ==
  L!With(L!make_variable_type(Heap, 0), LAMBDA type, h1 :
  L!With(L!make_variable(h1, type, job.value), LAMBDA var, h2 :
  L!With(L!make_variable(h2, type, job.value), LAMBDA other, h3 :
  L!With(L!variable_set_x(h3, var, job.new), LAMBDA unspecified, h :
    [before |-> Referred(L!variable_ref(h3, var)), after |-> Referred(L!variable_ref(h, var)),
     other |-> Referred(L!variable_ref(h, other)),
     are |-> {x \in DOMAIN h : L!variable_p(h, type, x) = L!cell_t} = {var, other}]))))
TableAnswer(job) ==
  L!With(L!make_hash_table_type(Heap, 0), LAMBDA type, h1 :
  L!With(L!list(Append(h1, L!make_number(job.size)), <<Len(h1) + 1>>), LAMBDA args, h2 :
  L!With(L!list(h2, <<13>>), LAMBDA wrong, h3 :
  L!With(L!make_hash_table(h3, type, IF job.size = 0 THEN L!cell_nil ELSE args), LAMBDA table, h4 :
  L!With(L!hash_buckets(h4, table), LAMBDA buckets, h :
    [is |-> L!hash_table_p(h, type, table) = L!cell_t, buckets |-> h[buckets].vector,
     raised |-> L!make_hash_table(h, type, wrong).error])))))
StackAnswer(job) ==
  L!With(L!make_stack(Heap, job.stack), LAMBDA stack, h :
    [procedures |-> [i \in 1 .. L!stack_length(h, stack) |-> Referred(L!struct_ref_(h, L!stack_ref(h, stack, i - 1), 3))],
     shared |-> IsPrefix(Heap, h)])
\* An environment of builtins: the size is the address of the last.  The
\* type of builtins has their name too, and passes for one.
BuiltinAnswer(job) ==
  L!With(L!make_builtin_type(Heap), LAMBDA type, h1 :
  L!With(L!init_builtin(h1, type, "car", 1, 77, L!cell_nil), LAMBDA a1, h2 :
  L!With(L!init_builtin(h2, type, "list", -1, 88, a1), LAMBDA a2, h3 :
  L!With(L!init_builtin(h3, type, "car", 2, job.size, a2), LAMBDA a3, h4 :
  L!With(L!make_variable(h4, type, job.value), LAMBDA other, h :
    LET Of_(name, a) == h[L!assq(h, L!cstring_to_symbol(h, name).r, a)].cdr
        Facts(b) == LET arity == L!builtin_arity(h, b)
                    IN  <<h[L!builtin_name(h, b).r].name, Datum(arity.h, arity.r)[2], L!builtin_function(h, b)>>
        pairs == L!Pairs(h, a3)
    IN  [car |-> Facts(Of_("car", a3)), before |-> Facts(Of_("car", a2)), list |-> Facts(Of_("list", a3)),
         are |-> {x \in DOMAIN h : L!builtin_p(h, x) = L!cell_t} = {type} \cup {h[h[pairs[i]].car].cdr : i \in 1..3},
         symbols |-> h[h[pairs[1]].car].car = h[h[pairs[3]].car].car])))))
FilledAnswer(job) ==
  LET args == OfList(Append(Heap, L!make_number(job.size)), IF job.stack = <<>> THEN <<17>> ELSE <<17, job.value>>, L!cell_nil)
      made == L!make_vector(args.h, args.r)
      wrong == L!cons(Heap, 13, L!cell_nil)
  IN  [vector |-> made.h[made.r].vector, raised |-> L!make_vector(wrong.h, wrong.r).error]
RecordAnswer(job) ==
  [variable |-> VariableAnswer(job), table |-> TableAnswer(job), stack |-> StackAnswer(job),
   builtins |-> BuiltinAnswer(job), filled |-> FilledAnswer(job)]
\* The last procedure, which asked for the stack, is not in it.
RecordsMeanTheirFields(job, answer) ==
  LET variable == answer.variable
      OfHeap(x) == Datum(Heap, x)
      procedures == <<L!cell_f>> \o Front(job.stack)
  IN  /\ variable.before = OfHeap(job.value) /\ variable.other = OfHeap(job.value)
      /\ variable.after = OfHeap(job.new) /\ variable.are
      /\ answer.table.is /\ answer.table.raised = "not-a-number"
      /\ answer.table.buckets = [i \in 1 .. (IF job.size = 0 THEN 100 ELSE job.size) |-> L!cell_unspecified]
      /\ answer.stack.procedures = (IF job.stack = <<>> THEN <<>> ELSE [i \in DOMAIN job.stack |-> OfHeap(procedures[i])])
      /\ answer.stack.shared
      /\ answer.builtins = [car |-> <<"car", 2, job.size>>, before |-> <<"car", 1, 77>>, list |-> <<"list", -1, 88>>,
                            are |-> TRUE, symbols |-> TRUE]
      /\ answer.filled = [raised |-> "not-a-number",
           vector |-> [i \in 1 .. job.size |-> IF job.stack = <<>> THEN L!cell_unspecified ELSE job.value]]

-----------------------------------------------------------------------------
(* Modules: four of them, that use each other; a name is defined in some.  *)
ModuleNames == {"m", "n", "o", "p"}
Uses == [m : {<<"n">>, <<"n", "o">>, <<"o", "n">>}, n : {<<>>, <<"p">>, <<"o", "p">>},
         o : {<<>>, <<"p">>, <<"n">>}, p : {<<>>, <<"m">>}]
ModuleJobs == {[uses |-> uses, defines |-> defines, closure |-> closure] :
                 uses \in Uses, defines \in SUBSET ModuleNames,
                 closure \in {"standard-eval-closure", "standard-interface-eval-closure"}}
VariableOf(m) == CASE m = "m" -> 1 [] m = "n" -> 2 [] m = "o" -> 3 [] m = "p" -> 4
ModulesOf(job) ==
  [m \in ModuleNames |-> [obarray |-> [x |-> IF m \in job.defines THEN VariableOf(m) ELSE 0],
                          uses |-> job.uses[m], eval_closure |-> job.closure]]
Reach(uses, m) ==
  LET Step(s) == s \cup UNION {Range(uses[n]) : n \in s} IN Step(Step(Step({m})))
CyclicFrom(uses, m) == \E n \in Reach(uses, m) : \E o \in Range(uses[n]) : n \in Reach(uses, o)
ModuleAnswer(job) ==
  LET modules == ModulesOf(job)
  IN  [found |-> [m \in ModuleNames |-> M!current_module_variable(modules, "o", m, "x", FALSE, 5).variable],
       boot |-> M!current_module_variable(modules, "o", "#f", "x", FALSE, 5).variable,
       define |-> [m \in ModuleNames |-> M!current_module_variable(modules, "o", m, "x", TRUE, 5)]]
\* The module's own variable, or that of a module that it uses by way of
\* the first that has one.
RECURSIVE Lookup(_, _, _)
Lookup(job, m, n) ==
  IF m \in job.defines THEN VariableOf(m)
  ELSE IF n = 0 THEN 0
  ELSE LET found == SelectSeq([i \in DOMAIN job.uses[m] |-> Lookup(job, job.uses[m][i], n - 1)], LAMBDA v : v # 0)
       IN  IF found = <<>> THEN 0 ELSE found[1]
ModulesAreSearched(job, answer) ==
  \A m \in ModuleNames :
    LET define == answer.define[m]
    IN  /\ IF answer.found[m] = -1 THEN CyclicFrom(job.uses, m)   \* it would never end
           ELSE CyclicFrom(job.uses, m) \/ answer.found[m] = Lookup(job, m, 4)
        /\ m \in job.defines => answer.found[m] = VariableOf(m)
        /\ answer.boot = ModulesOf(job)["o"].obarray.x
        /\ IF job.closure = "standard-interface-eval-closure" THEN define.variable = 0 /\ define.modules = ModulesOf(job)
           ELSE /\ define.variable = IF m \in job.defines THEN VariableOf(m) ELSE 5
                /\ define.modules[m].obarray.x = define.variable
                /\ \A n \in ModuleNames \ {m} : define.modules[n] = ModulesOf(job)[n]
=============================================================================
