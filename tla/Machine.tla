------------------------------ MODULE Machine -------------------------------
(***************************************************************************)
(* A processor with registers and memory that runs a C program linked with *)
(* the code of module MachineCode.  The program is any sequence of calls,  *)
(* returns and uses of the library; how its functions use the stack is     *)
(* what the library's code expects of the compiler.                        *)
(***************************************************************************)
EXTENDS MachineCode, SequencesExt
CONSTANTS Builds,      \* pairs of a processor and a compiler
          Starting,    \* those whose _start is used
          Jumping,     \* those whose setjmp is used
          Writing,     \* those whose _write is used
          Arity,       \* of each build: the numbers of arguments of _sys_callN
          Arguments, Answers, Values, MaxFrames
VARIABLES build, phase, reg, mem, errno, environ,
          given,       \* what main found as its parameters
          value, kernel,
          armed        \* depth of the function that called setjmp, a ghost: the
                       \* program must not jump to a function that has returned
vars == <<build, phase, reg, mem, errno, environ, given, value, kernel, armed>>

Processor == build[1]
Mescc == build[2] = "mescc"
Word == IF Processor \in {"x86", "arm"} THEN 4 ELSE 8
X86 == Processor \in {"x86", "x86_64"}

(* The kernel's side of a call: registers and numbers (external).          *)
Abi ==
  CASE Processor = "x86" -> [number |-> "eax", result |-> "eax", args |-> <<"ebx", "ecx", "edx", "esi">>]
    [] Processor = "x86_64" -> [number |-> "rax", result |-> "rax", args |-> <<"rdi", "rsi", "rdx", "r10">>]
    [] Processor = "arm" -> [number |-> "r7", result |-> "r0",
                             args |-> <<"r0", "r1", "r2", "r3", "r4", "r5">>]
    [] Processor = "aarch64" -> [number |-> "x8", result |-> "x0", args |-> <<"x0", "x1", "x2", "x3", "x4">>]
    [] Processor = "riscv64" -> [number |-> "a7", result |-> "a0", args |-> <<"a0", "a1", "a2", "a3", "a4">>]
SYS_exit   == CASE Processor \in {"x86", "arm"} -> 1  [] Processor = "x86_64" -> 60 [] OTHER -> 93
SYS_write  == CASE Processor \in {"x86", "arm"} -> 4  [] Processor = "x86_64" -> 1  [] OTHER -> 64
SYS_getpid == CASE Processor \in {"x86", "arm"} -> 20 [] Processor = "x86_64" -> 39 [] OTHER -> 172
SYS_kill   == CASE Processor \in {"x86", "arm"} -> 37 [] Processor = "x86_64" -> 62 [] OTHER -> 129
SysCallNumber == 1000                     \* any other

(* The compilers' side (external): a result register, arguments on the     *)
(* stack or in registers, and the registers a gcc function must preserve.  *)
Result ==
  CASE Processor = "x86" -> "eax" [] Processor = "x86_64" -> "rax" [] Processor = "arm" -> "r0"
    [] Processor = "aarch64" -> IF Mescc THEN "x9" ELSE "x0"
    [] Processor = "riscv64" -> IF Mescc THEN "t0" ELSE "a0"
Pushed == Mescc \/ build = <<"x86", "gcc">>
M2 == build[2] = "m2"
ArgumentRegisters ==
  CASE Processor = "x86_64" -> <<"rdi", "rsi", "rdx", "rcx", "r8">>
    [] Processor = "arm" -> <<"r0", "r1", "r2", "r3">>
    [] Processor = "aarch64" -> <<"x0", "x1", "x2", "x3", "x4", "x5">>
    [] Processor = "riscv64" -> <<"a0", "a1", "a2", "a3", "a4", "a5">>
    [] OTHER -> <<>>
KeptOf ==
  [b \in Builds |-> CASE b = <<"aarch64", "gcc">> -> SubSeq(Aarch64GccSaved, 1, 10)
                      [] b = <<"riscv64", "gcc">> -> SubSeq(Riscv64GccSaved, 2, 12)
                      [] OTHER -> <<>>]
Kept == KeptOf[build]
Naked == build \in {<<"aarch64", "gcc">>, <<"riscv64", "gcc">>}   \* setjmp without a frame

(* Memory, in words: a jmp_buf, the stack, and behind it what the kernel   *)
(* puts there for a new program: argc, argv, 0, the environment, 0.        *)
Junk == -1000
BufferWords == 16
StackWords == 16 + MaxFrames * (3 + Len(Kept))
ArgcAt == Word * (BufferWords + StackWords)
RegistersOf ==
  [b \in Builds |->
     {"sp", "bp", "pc", "lr", "t"}
       \cup (CASE b[1] = "x86" -> {"eax", "ebx", "ecx", "edx", "esi", "edi", "r8"}
               [] b[1] = "x86_64" -> {"rax", "rbx", "rcx", "rdx", "rdi", "rsi", "r8", "r10"}
               [] b[1] = "arm" -> {"r0", "r1", "r2", "r3", "r4", "r5", "r7", "r8"}
               [] b[1] = "aarch64" -> {"x0", "x1", "x2", "x3", "x4", "x5", "x8", "x9", "x10", "x16", "r8"}
               [] b[1] = "riscv64" -> {"a0", "a1", "a2", "a3", "a4", "a5", "a7", "t0", "t1", "t5", "r8"})
       \cup {KeptOf[b][i] : i \in DOMAIN KeptOf[b]}]
Registers == RegistersOf[build]

-----------------------------------------------------------------------------
(* A machine that runs code: registers and memory, the parameters of the   *)
(* library function as the compiler keeps them, the place of one operand,  *)
(* and the kernel with its answers and the number of arguments it takes.   *)
At(m, a) == IF a % Word = 0 /\ a \div Word \in DOMAIN m.mem THEN m.mem[a \div Word] ELSE Junk
KernelCall(m) ==
  LET n == m.reg[Abi.number]
      name == CASE n = SysCallNumber -> "call" [] n = SYS_exit -> "exit" [] n = SYS_write -> "write"
                [] n = SYS_getpid -> "getpid" [] n = SYS_kill -> "kill" [] OTHER -> "unknown"
      arity == CASE name = "call" -> m.arity [] name = "exit" -> 1 [] name = "write" -> 3
                 [] name = "kill" -> 2 [] OTHER -> 0
  IN  <<name>> \o [i \in 1..arity |-> IF i <= Len(Abi.args) THEN m.reg[Abi.args[i]] ELSE Junk]

Do(m, i) ==
  LET To(d, v) == [m EXCEPT !.reg[d] = v]
      Put(k, a, v) == IF a % Word = 0 /\ a \div Word \in DOMAIN k.mem THEN [k EXCEPT !.mem[a \div Word] = v] ELSE k
  IN CASE i[1] = "const" -> To(i[2], i[3])
       [] i[1] = "move" -> To(i[2], m.reg[i[3]] + i[4])
       [] i[1] = "shift" -> To(i[2], m.reg[i[2]] * 2 ^ i[3])
       [] i[1] = "sum" -> To(i[2], m.reg[i[2]] + m.reg[i[3]])
       [] i[1] = "load" -> To(i[2], At(m, m.reg[i[3]] + i[4]))
       [] i[1] = "store" -> Put(m, m.reg[i[2]] + i[3], m.reg[i[4]])
       [] i[1] = "push" -> Put([m EXCEPT !.reg["sp"] = @ - Word], m.reg["sp"] - Word, m.reg[i[2]])
       [] i[1] = "pop" -> [m EXCEPT !.reg[i[2]] = At(m, m.reg["sp"]), !.reg["sp"] = @ + Word]
       [] i[1] = "jump" -> [m EXCEPT !.reg["pc"] = m.reg[i[2]], !.jumped = TRUE]
       [] i[1] = "default1" -> To(i[2], IF m.reg[i[3]] = 0 THEN 1 ELSE m.reg[i[3]])
       [] i[1] = "trap" -> [m EXCEPT !.kernel = Append(@, KernelCall(m)),
                                     !.reg[Abi.result] = Head(m.answers), !.answers = Tail(@)]
       [] i[1] = "operands" ->
            IF m.place[1] = 0 THEN m ELSE To(m.place[2], m.params[m.place[1]])
       [] i[1] = "operand" -> To(i[2], IF i[3] = m.place[1] THEN m.reg[m.place[2]] ELSE m.params[i[3]])
       [] i[1] = "val" ->
            LET v == IF m.params[2] = 0 THEN 1 ELSE m.params[2]
            IN  Put(To(Result, v), IF Pushed THEN m.reg["bp"] + 3 * Word ELSE Junk, v)
       [] i[1] = "errno" ->
            LET r == m.reg[Result]
            IN  [m EXCEPT !.errno = IF r < 0 THEN -r ELSE 0, !.reg[Result] = IF r < 0 THEN -1 ELSE r]
Run(m, code) ==
  LET run[k \in 0 .. Len(code)] == IF k = 0 THEN m ELSE Do(run[k - 1], code[k])
  IN  run[Len(code)]

-----------------------------------------------------------------------------
(* Calls (external: what compilers do around the library's code).  A call  *)
(* with n arguments returns to the site 10 + n, where pushed arguments are *)
(* taken off again; a call of the program's own functions to OwnSite, main *)
(* to MainSite.                                                            *)
OwnSite == 1
MainSite == 2
PushAll(values) == FlattenSeq([i \in DOMAIN values |-> <<Const("t", values[i]), Push("t")>>])
To(site) == <<Const("lr", site)>> \o (IF X86 \/ M2 THEN <<Push("lr")>> ELSE <<>>)
Prologue == (IF X86 THEN <<>> ELSE <<Push("lr")>>) \o <<Push("bp"), Move("bp", "sp", 0)>>
Epilogue == <<Move("sp", "bp", 0), Pop("bp"), Pop("pc")>>

EnterCode(params, site) ==
  IF M2 THEN <<Push("bp"), Move("t", "sp", 0), Move("r8", "t", 0)>> \o PushAll(params)
               \o <<Move("bp", "r8", 0)>> \o To(site)
  ELSE (IF Pushed THEN PushAll(Reverse(params))
        ELSE [i \in 1 .. Len(params) |->
                IF i <= Len(ArgumentRegisters) THEN Const(ArgumentRegisters[i], params[i]) ELSE Push("t")])
       \o To(site)
LeaveCode(n) == IF M2 THEN <<Pop("pc"), Move("sp", "sp", n * Word), Pop("bp")>> ELSE Epilogue

(* The machine as the running function finds it, or with given answers.    *)
Start0 == [reg |-> reg, mem |-> mem, errno |-> errno, kernel |-> <<>>, answers |-> <<>>,
           params |-> <<>>, place |-> <<0, "t">>, arity |-> 0, jumped |-> FALSE]

(* The library function with this code is called with these parameters.    *)
Entered(m, params, naked) ==
  Run([m EXCEPT !.params = params, !.jumped = FALSE],
      EnterCode(params, 10 + Len(params)) \o (IF M2 \/ naked THEN <<>> ELSE Prologue))
Left(m, naked) ==
  IF m.jumped THEN m ELSE Run(m, IF naked THEN <<Jump("lr")>> ELSE LeaveCode(Len(m.params)))
OnStack(n) == IF M2 \/ n \notin 0..7 THEN 0
              ELSE IF Pushed THEN n ELSE Cardinality(1..n \ DOMAIN ArgumentRegisters)
TakenOff(m) == [m EXCEPT !.reg["sp"] = @ + Word * OnStack(m.reg["pc"] - 10)]
Library(m, params, code, naked) == TakenOff(Left(Run(Entered(m, params, naked), code), naked))

(* What a C program can rely on after a step: scratch registers and memory *)
(* below the stack are cleared, so that states that differ there are one.  *)
Settle(m) ==
  /\ LET kept == {"sp", "bp"} \cup {Kept[i] : i \in DOMAIN Kept}
     IN  reg' = [r \in Registers |-> IF r \in kept THEN m.reg[r] ELSE Junk]
  /\ mem' = [w \in DOMAIN mem |-> IF w >= BufferWords /\ w * Word < m.reg["sp"] THEN Junk ELSE m.mem[w]]
  /\ errno' = m.errno /\ kernel' = m.kernel
Returns(m) ==
  /\ Settle(m)
  /\ value' = m.reg[Result]
  /\ phase' = IF m.reg["pc"] \in {OwnSite} \cup 10..17 THEN phase ELSE "lost"
  /\ UNCHANGED <<build, environ, given>>
(* Of a process that has ended only its last call is left.                 *)
Exits(m, v) ==
  /\ kernel' = m.kernel /\ value' = v /\ phase' = "exited"
  /\ UNCHANGED <<build, reg, mem, errno, environ, given, armed>>

(* A function of the program: one variable on the stack, and the same      *)
(* value in every register it has to preserve for its caller.              *)
Body(token) ==
  <<Const("t", token), Push("t")>>
    \o FlattenSeq([i \in DOMAIN Kept |-> <<Push(Kept[i]), Const(Kept[i], token)>>])
OwnFrame(token, site) == EnterCode(<<>>, site) \o (IF M2 THEN <<>> ELSE Prologue) \o Body(token)

(* The stack as its functions see it, main first: a function that is       *)
(* active has its value in its variable and in every register that it has  *)
(* to preserve, or that the function it called (whose frame is at inner)   *)
(* has to.                                                                 *)
Peek(a) == At([mem |-> mem], a)
Token(bp, inner) ==
  LET token == Peek(bp - (IF M2 THEN 2 * Word ELSE Word))
  IN  IF \A i \in DOMAIN Kept : token = IF inner = 0 THEN reg[Kept[i]] ELSE Peek(inner - Word * (1 + i))
      THEN token ELSE 0
Frames ==
  LET walk[bp \in Int, inner \in Int, n \in 0..MaxFrames] ==
        IF n = 0 THEN <<>>
        ELSE (IF Peek(bp + (IF M2 THEN -Word ELSE Word)) = MainSite THEN <<>> ELSE walk[Peek(bp), bp, n - 1])
               \o <<Token(bp, inner)>>
  IN  IF phase = "new" THEN <<>> ELSE walk[reg["bp"], 0, MaxFrames]
Depth == Len(Frames)

-----------------------------------------------------------------------------
(* The library of each build.                                              *)
SysCallCode(n) ==
  CASE build = <<"x86", "mescc">> -> X86MesccSysCall(n)
    [] build = <<"x86", "gcc">> -> X86GccSysCall(n)
    [] build = <<"x86", "m2">> -> X86M2SysCall(n)
    [] build = <<"x86_64", "mescc">> -> X8664MesccSysCall(n)
    [] build = <<"x86_64", "gcc">> -> X8664GccSysCall(n)
    [] build = <<"x86_64", "m2">> -> X8664M2SysCall(n)
    [] build = <<"arm", "mescc">> -> ArmMesccSysCall(n)
    [] build = <<"arm", "gcc">> -> ArmGccSysCall(n)
    [] build = <<"arm", "m2">> -> ArmM2SysCall(n)
    [] build = <<"aarch64", "mescc">> -> Aarch64MesccSysCall(n)
    [] build = <<"aarch64", "gcc">> -> Aarch64GccSysCall(n)
    [] build = <<"aarch64", "m2">> -> Aarch64M2SysCall(n)
    [] build = <<"riscv64", "mescc">> -> Riscv64MesccSysCall(n)
    [] build = <<"riscv64", "gcc">> -> Riscv64GccSysCall(n)
    [] build = <<"riscv64", "m2">> -> Riscv64M2SysCall(n)
WriteCode ==
  CASE build = <<"x86", "mescc">> -> X86MesccWrite
    [] build = <<"x86", "gcc">> -> X86GccWrite
    [] build = <<"x86", "m2">> -> X86M2Write
    [] build = <<"x86_64", "mescc">> -> X8664MesccWrite
    [] build = <<"x86_64", "gcc">> -> X8664GccWrite
    [] build = <<"x86_64", "m2">> -> X8664M2Write
    [] build = <<"arm", "mescc">> -> ArmMesccWrite
    [] build = <<"arm", "gcc">> -> ArmGccWrite
    [] build = <<"arm", "m2">> -> ArmM2Write
    [] build = <<"aarch64", "mescc">> -> Aarch64MesccWrite
    [] build = <<"aarch64", "gcc">> -> Aarch64GccWrite
    [] build = <<"aarch64", "m2">> -> Aarch64M2Write
    [] build = <<"riscv64", "mescc">> -> Riscv64MesccWrite
    [] build = <<"riscv64", "gcc">> -> Riscv64GccWrite
    [] build = <<"riscv64", "m2">> -> Riscv64M2Write
ExitCode ==
  CASE build = <<"x86", "mescc">> -> X86MesccExit
    [] build = <<"x86", "gcc">> -> X86GccExit
    [] build = <<"x86", "m2">> -> X86M2Exit
    [] build = <<"x86_64", "mescc">> -> X8664MesccExit
    [] build = <<"x86_64", "gcc">> -> X8664GccExit
    [] build = <<"x86_64", "m2">> -> X8664M2Exit
    [] build = <<"arm", "mescc">> -> ArmMesccExit
    [] build = <<"arm", "gcc">> -> ArmGccExit
    [] build = <<"arm", "m2">> -> ArmM2Exit
    [] build = <<"aarch64", "mescc">> -> Aarch64MesccExit
    [] build = <<"aarch64", "gcc">> -> Aarch64GccExit
    [] build = <<"aarch64", "m2">> -> Aarch64M2Exit
    [] build = <<"riscv64", "mescc">> -> Riscv64MesccExit
    [] build = <<"riscv64", "gcc">> -> Riscv64GccExit
    [] build = <<"riscv64", "m2">> -> Riscv64M2Exit
RaiseCode ==
  CASE build = <<"x86", "mescc">> -> X86MesccRaise
    [] build = <<"x86", "gcc">> -> X86GccRaise
    [] build = <<"x86_64", "mescc">> -> X8664MesccRaise
    [] build = <<"x86_64", "gcc">> -> X8664GccRaise
    [] build = <<"arm", "mescc">> -> ArmMesccRaise
    [] build = <<"arm", "gcc">> -> ArmGccRaise
    [] build = <<"aarch64", "mescc">> -> Aarch64MesccRaise
    [] build = <<"aarch64", "gcc">> -> Aarch64GccRaise
    [] build = <<"riscv64", "mescc">> -> Riscv64MesccRaise
    [] build = <<"riscv64", "gcc">> -> Riscv64GccRaise
StartCode ==
  CASE build = <<"x86", "mescc">> -> X86MesccStart
    [] build = <<"x86", "gcc">> -> X86GccStart
    [] build = <<"x86_64", "mescc">> -> X8664MesccStart
    [] build = <<"arm", "mescc">> -> ArmMesccStart
    [] build = <<"aarch64", "gcc">> -> Aarch64GccStart
    [] build = <<"riscv64", "mescc">> -> Riscv64MesccStart
JumpCode ==
  CASE build = <<"x86", "mescc">> -> X86MesccJump
    [] build = <<"x86", "gcc">> -> X86GccJump
    [] build = <<"x86_64", "mescc">> -> X8664MesccJump
    [] build = <<"x86_64", "gcc">> -> X8664GccJump
    [] build = <<"arm", "mescc">> -> ArmMesccJump
    [] build = <<"aarch64", "mescc">> -> Aarch64MesccJump
    [] build = <<"aarch64", "gcc">> -> Aarch64GccJump
    [] build = <<"riscv64", "mescc">> -> Riscv64MesccJump
    [] build = <<"riscv64", "gcc">> -> Riscv64GccJump

-----------------------------------------------------------------------------
(* A new process has argc on its stack; a build whose _start is not used   *)
(* begins in main.                                                         *)
Fresh(argc) ==
  [reg |-> [r \in Registers |-> IF r = "sp" THEN ArgcAt ELSE Junk],
   mem |-> [w \in 0 .. BufferWords + StackWords + argc + 3 |-> IF w * Word = ArgcAt THEN argc ELSE Junk],
   errno |-> 0, kernel |-> <<>>, answers |-> <<>>, params |-> <<>>, place |-> <<0, "t">>,
   arity |-> 0, jumped |-> FALSE]
Init ==
  /\ build \in Builds
  /\ \E argc \in Arguments :
       LET m == IF build \in Starting THEN Fresh(argc)
                ELSE Run(Fresh(argc), OwnFrame(1, MainSite) \o <<Const("t", Junk), Const("lr", Junk)>>)
       IN  reg = m.reg /\ mem = m.mem
  /\ phase = IF build \in Starting THEN "new" ELSE "running"
  /\ errno = 0 /\ environ = 0 /\ given = <<>> /\ value = 0 /\ kernel = <<>> /\ armed = 0

(* _start: __init_io stores its third parameter, then main is called.      *)
Parameter(m, k) ==
  IF Pushed THEN At(m, m.reg["bp"] + Word * (k + 1)) ELSE m.reg[ArgumentRegisters[k]]
Clobber(m) == [m EXCEPT !.reg = [r \in Registers |-> IF r \in {"sp", "bp", "pc"} THEN @[r] ELSE Junk]]
InitIo == Run(Run(Start0, (IF Pushed THEN Prologue ELSE <<>>) \o StartCode.before),
              EnterCode(<<>>, OwnSite) \o Prologue)
Main(m) == Run(Clobber(m), StartCode.again \o OwnFrame(1, MainSite))
Started(m) == Settle(m) /\ given' = [k \in 1..3 |-> Parameter(m, k)]
Start ==
  /\ phase = "new" /\ phase' = "running"
  /\ environ' = Parameter(InitIo, 3)
  /\ Started(Main(Run(InitIo, LeaveCode(0))))
  /\ UNCHANGED <<build, value, armed>>

(* The program's own functions.                                            *)
Call ==
  /\ phase = "running" /\ Depth < MaxFrames
  /\ Settle(Run(Start0, OwnFrame(Depth + 1, OwnSite)))
  /\ UNCHANGED <<build, phase, environ, given, value, armed>>

Leave(v) ==
  Run(Start0, <<Const(Result, v)>> \o [i \in DOMAIN Kept |-> Load(Kept[i], "bp", -Word * (1 + i))]
                \o (IF M2 THEN <<Move("sp", "sp", Word)>> ELSE <<>>) \o LeaveCode(0))
Return ==
  \E v \in Values :
    /\ phase = "running" /\ Depth > 1
    /\ Returns(Leave(v))
    /\ armed' = IF armed = Depth THEN 0 ELSE armed
(* From main, back into _start.                                            *)
ReturnFromMain ==
  \E v \in Values :
    /\ phase = "running" /\ Depth = 1 /\ build \in Starting
    /\ Exits(Run([Leave(v) EXCEPT !.answers = <<0>>], StartCode.after), v)

SetJmp ==
  /\ phase = "running" /\ build \in Jumping
  /\ Returns(Library(Start0, <<0>>, JumpCode.setjmp, Naked))
  /\ armed' = Depth
LongJmp ==
  \E v \in Values :
    /\ phase = "running" /\ build \in Jumping /\ armed # 0
    /\ Returns(Library(Start0, <<0, v>>, JumpCode.longjmp, Naked))
    /\ UNCHANGED armed

(* Where the compiler of a gcc build may put one operand of the code.      *)
OperandRegisters ==
  CASE Processor = "x86" -> {"eax", "ebx", "ecx", "edx", "esi", "edi"}
    [] Processor = "x86_64" -> {"rax", "rcx", "rdx", "rdi", "rsi", "r8", "r10"}
    [] Processor = "arm" -> {"r0", "r1", "r2", "r3", "r4", "r5", "r7"}
    [] OTHER -> {}
Places(code, operands) ==
  {<<0, "t">>} \cup IF code[1][1] = "operands" THEN (1..operands) \X (OperandRegisters \ code[1][2]) ELSE {}

SystemCall ==
  \E n \in Arity[build], answer \in Answers : \E place \in Places(SysCallCode(n), n + 1) :
    /\ phase = "running"
    /\ Returns(Library([Start0 EXCEPT !.answers = <<answer>>, !.place = place, !.arity = n],
                       <<SysCallNumber>> \o [i \in 1..n |-> 100 + i], SysCallCode(n), FALSE))
    /\ UNCHANGED armed
Write ==
  \E answer \in Answers, place \in Places(WriteCode, 3) :
    /\ phase = "running" /\ build \in Writing
    /\ Returns(Library([Start0 EXCEPT !.answers = <<answer>>, !.place = place],
                       <<101, 102, 103>>, WriteCode, FALSE))
    /\ UNCHANGED armed
Kill(m, signum) ==
  IF m.reg[Result] < 0 THEN m ELSE Library(m, <<SYS_kill, m.reg[Result], signum>>, RaiseCode.kill, FALSE)
Raise ==
  \E pid \in Answers, answer \in Answers, signum \in Values :
    /\ phase = "running" /\ ~ M2
    /\ Returns(Kill(Library([Start0 EXCEPT !.answers = <<pid, answer>>], <<SYS_getpid>>,
                            RaiseCode.getpid, FALSE), signum))
    /\ UNCHANGED armed
Exit ==
  \E v \in Values, place \in Places(ExitCode, 1) :
    /\ phase = "running"
    /\ Exits(Library([Start0 EXCEPT !.answers = <<0>>, !.place = place], <<v>>, ExitCode, FALSE), v)

Next ==
  Start \/ Call \/ Return \/ ReturnFromMain \/ SetJmp \/ LongJmp \/ SystemCall \/ Write \/ Raise \/ Exit
Spec == Init /\ [][Next]_vars

-----------------------------------------------------------------------------
(* The process that the machine implements.                                *)
WordsBehindArgc(address) == (address - ArgcAt) \div Word
Promise ==
  INSTANCE Process WITH
    given <- IF given = <<>> THEN <<>>
             ELSE <<given[1], WordsBehindArgc(given[2]), WordsBehindArgc(given[3])>>,
    environ <- IF environ = 0 THEN 0 ELSE WordsBehindArgc(environ),
    frames <- Frames, jump <- armed
(* On every build the library's code keeps what Process promises: the      *)
(* arguments of a call reach the kernel and its answer the caller, longjmp *)
(* returns in the function that called setjmp with its variables and its   *)
(* preserved registers, and main finds argc, argv and the environment.     *)
ImplementsProcess == Promise!Spec

(* Between two steps of the program the stack ends at the running          *)
(* function's variables: every word that the library pushed is taken off,  *)
(* also when longjmp leaves through the middle of other functions.         *)
FrameSize == IF M2 THEN 2 * Word ELSE Word * (1 + Len(Kept))
StackIsBalanced == phase = "running" => reg["sp"] = reg["bp"] - FrameSize

(* Values have their types and control is never lost: a library function   *)
(* returns to a place that called one.                                     *)
TypeOK ==
  /\ build \in Builds /\ phase \in {"new", "running", "exited"}
  /\ reg \in [Registers -> Int]
  /\ \A a \in DOMAIN mem : mem[a] \in Int
  /\ errno \in Nat /\ value \in Int /\ armed \in 0..MaxFrames
=============================================================================
