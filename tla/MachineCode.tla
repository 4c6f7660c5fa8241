---------------------------- MODULE MachineCode -----------------------------
(***************************************************************************)
(* The part of the C library that is written for each processor and each   *)
(* compiler: system calls, _exit, _write, the start of a program, setjmp   *)
(* and longjmp.  A piece of machine code is a sequence of instructions on  *)
(* the machine of module Machine; addresses and offsets count bytes, as in *)
(* the code.  "bp" is the frame pointer (ebp, rbp, fp, s0, x29, x17) and   *)
(* "pc" what is executed next.                                             *)
(*                                                                         *)
(* A gcc build gets its parameters as operands of an asm statement.  The   *)
(* compiler may put an operand in memory or in any register that the       *)
(* statement does not clobber (Operands); mescc and M2-Planet put          *)
(* parameters on the stack, above and below the frame pointer.             *)
(***************************************************************************)
EXTENDS Integers, Sequences

(* Instructions: what they do is defined by Do in module Machine.          *)
Const(d, n)    == <<"const", d, n>>        \* d := n
Move(d, s, n)  == <<"move", d, s, n>>      \* d := s + n
Shift(d, n)    == <<"shift", d, n>>        \* d := d << n
Sum(d, s)      == <<"sum", d, s>>          \* d := d + s
Load(d, s, n)  == <<"load", d, s, n>>      \* d := [s + n]
Store(d, n, s) == <<"store", d, n, s>>     \* [d + n] := s
Push(s)        == <<"push", s>>
Pop(d)         == <<"pop", d>>
Jump(s)        == <<"jump", s>>
Default1(d, s) == <<"default1", d, s>>     \* d := s, but 1 for 0
Trap           == <<"trap">>               \* into the kernel
Operands(r)    == <<"operands", r>>        \* r: what the asm statement clobbers
Operand(d, k)  == <<"operand", d, k>>      \* d := operand k
ReturnOne      == <<"val">>                \* val = val == 0 ? 1 : val
Errno          == <<"errno">>              \* _sys_callN: from r to -1 and errno

(* The code for n arguments is the beginning of the code for more.         *)
Args(n, code) == SubSeq(code, 1, n + 1)

(* asm statement with operands in these registers, as many as it has.      *)
Statement(registers) ==
  <<Operands({registers[i] : i \in DOMAIN registers})>>
    \o [i \in DOMAIN registers |-> Operand(registers[i], i)] \o <<Trap>>
(* The statements of more than two arguments load the number last.         *)
NumberLast(registers) ==
  <<Operands({registers[i] : i \in DOMAIN registers})>>
    \o [i \in DOMAIN registers |-> IF i = Len(registers) THEN Operand(registers[1], 1)
                                   ELSE Operand(registers[i + 1], i + 1)] \o <<Trap>>

(* setjmp in C: p = &env; env->__bp = p[-2]; env->__pc = p[-1]; and the    *)
(* stack pointer is p.  Words have W bytes; t and u are scratch, u the     *)
(* result.                                                                 *)
SaveFrameInside(W, t, u) ==   \* mutant: the stack of setjmp itself
  <<Load(t, "bp", 2 * W),
    Load(u, "bp", 0), Store(t, 0, u),
    Load(u, "bp", W), Store(t, W, u),
    Move(u, "bp", 0), Store(t, 2 * W, u), Const(u, 0)>>
SaveFrame(W, t, u) ==
  <<Load(t, "bp", 2 * W),
    Load(u, "bp", 0), Store(t, 0, u),
    Load(u, "bp", W), Store(t, W, u),
    Move(u, "bp", 2 * W), Store(t, 2 * W, u), Const(u, 0)>>

-----------------------------------------------------------------------------
(* x86 *)
X86MesccCall(n) == Args(n, <<Load("eax", "bp", 8), Load("ebx", "bp", 12), Load("ecx", "bp", 16),
                             Load("edx", "bp", 20), Load("esi", "bp", 24)>>) \o <<Trap>>
X86MesccSysCall(n) == X86MesccCall(n) \o <<Errno>>
X86MesccRaise == [getpid |-> X86MesccCall(0), kill |-> X86MesccCall(2)]
X86MesccExit == <<Const("eax", 1), Load("ebx", "bp", 8), Trap>>
X86MesccWrite == <<Const("eax", 4), Load("ebx", "bp", 8), Load("ecx", "bp", 12),
                   Load("edx", "bp", 16), Trap>>
X86MesccStart ==
  [before |-> <<Move("eax", "bp", 4), Load("eax", "eax", 0), Move("eax", "eax", 3),
                Shift("eax", 2), Sum("eax", "bp"), Push("eax"),
                Move("eax", "bp", 8), Push("eax"),
                Move("eax", "bp", 4), Load("eax", "eax", 0), Push("eax")>>,
   again |-> <<>>,
   after |-> <<Move("ebx", "eax", 0), Const("eax", 1), Trap>>]
X86MesccJump ==
  [setjmp |-> SaveFrame(4, "ecx", "eax"),
   longjmp |-> <<ReturnOne, Load("bp", "bp", 8),
                 Load("ebx", "bp", 4), Load("sp", "bp", 8), Load("bp", "bp", 0), Jump("ebx")>>]

X86GccCallForgets(n) ==   \* mutant: clobbered registers that are not declared
  <<Operands({"eax", "ebx"})>> \o (IF n < 3 THEN Tail(Statement(Args(n, <<"eax", "ebx", "ecx">>)))
    ELSE Tail(NumberLast(Args(n, <<"eax", "ebx", "ecx", "edx", "esi">>))))
X86GccCall(n) == IF n < 3 THEN Statement(Args(n, <<"eax", "ebx", "ecx">>))
                 ELSE NumberLast(Args(n, <<"eax", "ebx", "ecx", "edx", "esi">>))
X86GccSysCall(n) == X86GccCall(n) \o <<Errno>>
X86GccRaise == [getpid |-> X86GccCall(0), kill |-> X86GccCall(2)]
X86GccExit == <<Operands({"eax", "ebx"}), Const("eax", 1), Operand("ebx", 1), Trap>>
X86GccWrite == <<Operands({"eax", "ebx", "ecx", "edx"}), Const("eax", 4), Operand("ebx", 1),
                 Operand("ecx", 2), Operand("edx", 3), Trap>>
X86GccStart == X86MesccStart
X86GccJump ==
  [setjmp |-> SaveFrame(4, "edx", "eax"),
   longjmp |-> <<ReturnOne, Load("bp", "bp", 8),
                 Load("ebx", "bp", 4), Load("sp", "bp", 8), Load("bp", "bp", 0), Jump("ebx")>>]

X86M2SysCall(n) == Args(n, <<Load("eax", "bp", -4), Load("ebx", "bp", -8), Load("ecx", "bp", -12),
                             Load("edx", "bp", -16), Load("esi", "bp", -20)>>) \o <<Trap, Errno>>
X86M2Exit == <<Const("eax", 1), Load("ebx", "bp", -4), Trap>>
X86M2Write == <<Const("eax", 4), Load("ebx", "bp", -4), Load("ecx", "bp", -8),
                Load("edx", "bp", -12), Trap>>
-----------------------------------------------------------------------------
(* x86_64 *)
X8664MesccCall(n) == Args(n, <<Load("rax", "bp", 16), Load("rdi", "bp", 24), Load("rsi", "bp", 32),
                               Load("rdx", "bp", 40), Load("r10", "bp", 48)>>) \o <<Trap>>
X8664MesccSysCall(n) == X8664MesccCall(n) \o <<Errno>>
X8664MesccRaise == [getpid |-> X8664MesccCall(0), kill |-> X8664MesccCall(2)]
X8664MesccExit == <<Load("rdi", "bp", 16), Const("rax", 60), Trap>>
X8664MesccWrite == <<Load("rdi", "bp", 16), Load("rsi", "bp", 24), Load("rdx", "bp", 32),
                     Const("rax", 1), Trap>>
X8664MesccStart ==
  [before |-> <<Move("rax", "bp", 8), Load("rax", "rax", 0), Move("rax", "rax", 3),
                Shift("rax", 3), Sum("rax", "bp"), Push("rax"),
                Move("rax", "bp", 16), Push("rax"),
                Move("rax", "bp", 8), Load("rax", "rax", 0), Push("rax")>>,
   again |-> <<>>,
   after |-> <<Move("rdi", "rax", 0), Const("rax", 60), Trap>>]
X8664MesccJump ==
  [setjmp |-> SaveFrame(8, "rcx", "rax"),
   longjmp |-> <<ReturnOne, Load("bp", "bp", 16),
                 Load("rbx", "bp", 8), Load("sp", "bp", 16), Load("bp", "bp", 0), Jump("rbx")>>]

X8664GccCall(n) == IF n < 3 THEN Statement(Args(n, <<"rax", "rdi", "rsi">>))
                   ELSE NumberLast(Args(n, <<"rax", "rdi", "rsi", "rdx", "r10">>))
X8664GccSysCall(n) == X8664GccCall(n) \o <<Errno>>
X8664GccRaise == [getpid |-> X8664GccCall(0), kill |-> X8664GccCall(2)]
(* Nothing is clobbered, but an int in a register would not assemble.      *)
X8664GccExit == <<Const("rax", 60), Operand("rdi", 1), Trap>>
X8664GccWrite == <<Operands({"rax", "rdi", "rsi", "rdx"}), Const("rax", 1), Operand("rdi", 1),
                   Operand("rsi", 2), Operand("rdx", 3), Trap>>
(* bp is the frame pointer of setjmp itself.                               *)
X8664GccJump ==
  [setjmp |-> <<Store("rdi", 0, "bp"), Load("rax", "bp", 8), Store("rdi", 8, "rax"),
                Load("rax", "bp", 0), Store("rdi", 16, "rax"), Const("rax", 0)>>,
   longjmp |-> <<ReturnOne, Load("bp", "rdi", 0), Load("rbx", "rdi", 8), Load("sp", "rdi", 16),
                 Jump("rbx")>>]

X8664M2SysCall(n) == Args(n, <<Load("rax", "bp", -8), Load("rdi", "bp", -16), Load("rsi", "bp", -24),
                               Load("rdx", "bp", -32), Load("r10", "bp", -40)>>) \o <<Trap, Errno>>
X8664M2Exit == <<Const("rax", 60), Load("rdi", "bp", -8), Trap>>
X8664M2Write == <<Const("rax", 1), Load("rdi", "bp", -8), Load("rsi", "bp", -16),
                  Load("rdx", "bp", -24), Trap>>
-----------------------------------------------------------------------------
(* arm *)
ArmMesccCall(n) == Args(n, <<Load("r7", "bp", 8), Load("r0", "bp", 12), Load("r1", "bp", 16),
                             Load("r2", "bp", 20), Load("r3", "bp", 24), Load("r4", "bp", 28),
                             Load("r5", "bp", 32)>>) \o <<Trap>>
ArmMesccSysCall(n) == ArmMesccCall(n) \o <<Errno>>
ArmMesccRaise == [getpid |-> ArmMesccCall(0), kill |-> ArmMesccCall(2)]
ArmMesccExit == <<Const("r7", 1), Load("r0", "bp", 8), Trap>>
ArmMesccWrite == <<Const("r7", 4), Load("r0", "bp", 8), Load("r1", "bp", 12),
                   Load("r2", "bp", 16), Trap>>
ArmMesccStart ==
  [before |-> <<Load("r0", "bp", 8), Move("r1", "bp", 12),
                Move("r2", "r0", 0), Shift("r2", 2), Sum("r2", "r1"), Move("r2", "r2", 4),
                Push("r2"), Push("r1"), Push("r0")>>,
   again |-> <<>>,
   after |-> <<Const("r7", 1), Trap>>]
ArmMesccJumpNoPush ==   \* mutant: ret finds no address
  [setjmp |-> SaveFrame(4, "r1", "r0"),
   longjmp |-> <<ReturnOne, Load("r0", "bp", 12), Load("bp", "bp", 8), Load("sp", "bp", 8),
                 Pop("lr"), Push("bp"), Load("lr", "bp", 4), Load("bp", "bp", 0),
                 Pop("lr"), Jump("lr")>>]
(* ret pops lr and jumps there.                                            *)
ArmMesccJump ==
  [setjmp |-> SaveFrame(4, "r1", "r0"),
   longjmp |-> <<ReturnOne, Load("r0", "bp", 12), Load("bp", "bp", 8), Load("sp", "bp", 8),
                 Pop("lr"), Push("bp"), Load("lr", "bp", 4), Load("bp", "bp", 0),
                 Push("lr"), Pop("lr"), Jump("lr")>>]

ArmGccCall(n) == Statement(Args(n, <<"r7", "r0", "r1", "r2", "r3">>))
ArmGccSysCall(n) == ArmGccCall(n) \o <<Errno>>
ArmGccRaise == [getpid |-> ArmGccCall(0), kill |-> ArmGccCall(2)]
ArmGccExit == <<Operands({"r0", "r7"}), Const("r7", 1), Operand("r0", 1), Trap>>
ArmGccWrite == <<Operands({"r0", "r1", "r2", "r7"}), Const("r7", 4), Operand("r0", 1),
                 Operand("r1", 2), Operand("r3", 3), Trap>>

ArmM2SysCall(n) == Args(n, <<Load("r7", "bp", -4), Load("r0", "bp", -8), Load("r1", "bp", -12),
                             Load("r2", "bp", -16), Load("r2", "bp", -20)>>) \o <<Trap, Errno>>
ArmM2Exit == <<Const("r7", 1), Load("r0", "bp", -4), Trap>>
ArmM2Write == <<Const("r7", 4), Load("r0", "bp", -4), Load("r1", "bp", -8),
                Load("r2", "bp", -12), Trap>>
-----------------------------------------------------------------------------
(* aarch64.  Every value goes through x0, so that the first argument is    *)
(* loaded last.                                                            *)
Slot(o) == <<Move("x0", "bp", 0), Move("x0", "x0", o), Load("x0", "x0", 0)>>
SlotTo(d, o) == Slot(o) \o <<Move(d, "x0", 0)>>

(* The arguments n .. 2 of a call whose parameters are W bytes apart.      *)
SlotsDown(n, first, W) ==
  (IF n >= 5 THEN SlotTo("x4", first + 5 * W) ELSE <<>>)
    \o (IF n >= 4 THEN SlotTo("x3", first + 4 * W) ELSE <<>>)
    \o (IF n >= 3 THEN SlotTo("x2", first + 3 * W) ELSE <<>>)
    \o (IF n >= 2 THEN SlotTo("x1", first + 2 * W) ELSE <<>>)
    \o (IF n >= 1 THEN Slot(first + W) ELSE <<>>)

Aarch64MesccCall(n) == SlotTo("x8", 16) \o SlotsDown(n, 16, 8) \o <<Trap, Move("x9", "x0", 0)>>
Aarch64MesccSysCall(n) == Aarch64MesccCall(n) \o <<Errno>>
Aarch64MesccRaise == [getpid |-> Aarch64MesccCall(0), kill |-> Aarch64MesccCall(2)]
Aarch64MesccExit == Slot(16) \o <<Const("x8", 93), Trap>>
Aarch64MesccWrite == SlotTo("x2", 32) \o SlotTo("x1", 24) \o Slot(16)
                       \o <<Const("x8", 64), Trap, Move("x9", "x0", 0)>>
Aarch64MesccJump ==
  [setjmp |-> SaveFrame(8, "x10", "x9"),
   longjmp |-> <<ReturnOne>> \o SlotTo("x9", 24) \o SlotTo("bp", 16) \o SlotTo("x16", 8)
                 \o SlotTo("sp", 16) \o <<Move("x0", "bp", 0), Load("x0", "x0", 0),
                                          Move("bp", "x0", 0), Jump("x16")>>]

(* Register variables: the compiler loads them just before the statement.  *)
Aarch64GccCall(n) == Statement(Args(n, <<"x8", "x0", "x1", "x2", "x3", "x4">>))
Aarch64GccSysCall(n) == Aarch64GccCall(n) \o <<Errno>>
Aarch64GccRaise == [getpid |-> Aarch64GccCall(0), kill |-> Aarch64GccCall(2)]
Aarch64GccExit == <<Const("x8", 93), Operand("x0", 1), Trap>>
Aarch64GccWrite == <<Const("x8", 64), Operand("x0", 1), Operand("x1", 2), Operand("x2", 3), Trap>>
Aarch64GccStart ==
  [before |-> <<Move("x9", "sp", 0), Load("x0", "x9", 0), Move("x1", "x9", 8), Move("x2", "x0", 1),
                Shift("x2", 3), Sum("x2", "x1"), Push("x2"), Push("x1"),
                Move("sp", "sp", -16), Store("sp", 0, "x0")>>,
   again |-> <<Load("x0", "sp", 0), Load("x1", "sp", 16), Load("x2", "sp", 24)>>,
   after |-> <<Const("x8", 93), Trap>>]
Aarch64GccSaved == <<"x19", "x20", "x21", "x22", "x23", "x24", "x25", "x26", "x27", "x28", "bp", "lr">>
Aarch64GccJump ==
  [setjmp |-> [i \in 1..12 |-> Store("x0", 8 * (i - 1), Aarch64GccSaved[i])]
                \o <<Move("x1", "sp", 0), Store("x0", 96, "x1"), Const("x0", 0)>>,
   longjmp |-> [i \in 1..12 |-> Load(Aarch64GccSaved[i], "x0", 8 * (i - 1))]
                 \o <<Load("x2", "x0", 96), Move("sp", "x2", 0), Default1("x0", "x1"), Jump("lr")>>]

Aarch64M2SysCall(n) == SlotTo("x8", -8) \o SlotsDown(n, -8, -8)
                         \o <<Trap, Move("x16", "x0", 0), Errno>>
Aarch64M2Exit == Slot(-8) \o <<Const("x8", 93), Trap>>
Aarch64M2Write == SlotTo("x2", -24) \o SlotTo("x1", -16) \o Slot(-8) \o <<Const("x8", 64), Trap>>
-----------------------------------------------------------------------------
(* riscv64 *)
Riscv64MesccCall(n) ==
  Args(n, <<Load("a7", "bp", 16), Load("a0", "bp", 24), Load("a1", "bp", 32), Load("a2", "bp", 40),
            Load("a3", "bp", 48), Load("a4", "bp", 56)>>) \o <<Trap, Move("t0", "a0", 0)>>
Riscv64MesccSysCall(n) == Riscv64MesccCall(n) \o <<Errno>>
Riscv64MesccRaise == [getpid |-> Riscv64MesccCall(0), kill |-> Riscv64MesccCall(2)]
Riscv64MesccExit == <<Load("a0", "bp", 16), Const("a7", 93), Trap>>
Riscv64MesccWrite == <<Load("a0", "bp", 16), Load("a1", "bp", 24), Load("a2", "bp", 32),
                       Const("a7", 64), Trap, Move("t0", "a0", 0)>>
Riscv64MesccStart ==
  [before |-> <<Move("t1", "bp", 0), Move("t1", "t1", 24), Move("t5", "bp", 16), Load("t0", "t5", 0),
                Move("t0", "t0", 1), Shift("t0", 3), Sum("t0", "t1"),
                Push("t0"), Push("t1"), Move("t5", "bp", 16), Load("t0", "t5", 0), Push("t0")>>,
   again |-> <<>>,
   after |-> <<Move("a0", "t0", 0), Const("a7", 93), Trap>>]
Riscv64MesccJump ==
  [setjmp |-> SaveFrame(8, "t1", "t0"),
   longjmp |-> <<ReturnOne, Load("bp", "bp", 16),
                 Load("t0", "bp", 8), Load("sp", "bp", 16), Load("bp", "bp", 0), Jump("t0")>>]

Riscv64GccCall(n) == Statement(Args(n, <<"a7", "a0", "a1", "a2", "a3", "a4">>))
Riscv64GccSysCall(n) == Riscv64GccCall(n) \o <<Errno>>
Riscv64GccRaise == [getpid |-> Riscv64GccCall(0), kill |-> Riscv64GccCall(2)]
Riscv64GccExit == <<Const("a7", 93), Operand("a0", 1), Trap>>
Riscv64GccWrite == <<Const("a7", 64), Operand("a0", 1), Operand("a1", 2), Operand("a2", 3), Trap>>
Riscv64GccSaved == <<"bp", "s1", "s2", "s3", "s4", "s5", "s6", "s7", "s8", "s9", "s10", "s11", "sp", "lr">>
Riscv64GccJump ==
  [setjmp |-> [i \in 1..14 |-> Store("a0", 8 * (i - 1), Riscv64GccSaved[i])] \o <<Const("a0", 0)>>,
   longjmp |-> [i \in 1..14 |-> Load(Riscv64GccSaved[i], "a0", 8 * (i - 1))]
                 \o <<Default1("a0", "a1"), Jump("lr")>>]

Riscv64M2SysCall(n) ==
  Args(n, <<Load("a7", "bp", -8), Load("a0", "bp", -16), Load("a1", "bp", -24), Load("a2", "bp", -32),
            Load("a3", "bp", -40), Load("a4", "bp", -48)>>) \o <<Trap, Move("t0", "a0", 0), Errno>>
Riscv64M2Exit == <<Load("a0", "bp", -8), Const("a7", 93), Trap>>
Riscv64M2Write == <<Load("a0", "bp", -8), Load("a1", "bp", -16), Load("a2", "bp", -24),
                    Const("a7", 64), Trap, Move("t0", "a0", 0)>>
=============================================================================
