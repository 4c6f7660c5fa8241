------------------------------ MODULE Process -------------------------------
(***************************************************************************)
(* What the processor-specific part of the C library promises to a C       *)
(* program: it is started with its arguments, functions call each other,   *)
(* setjmp returns a second time in the function that called it, a system   *)
(* call reaches the kernel with its arguments and its answer comes back.   *)
(***************************************************************************)
EXTENDS Integers, Sequences
CONSTANTS Arguments,  \* numbers of arguments of the program
          Answers,    \* of the kernel
          Values      \* given to return, longjmp, exit and raise
VARIABLES phase,      \* "new", "running", "exited"
          given,      \* parameters of main, in words behind the kernel's argc
          environ,    \* likewise
          frames,     \* the variables of each active function; every
                      \* function has a value of its own there
          jump,       \* the frame that called setjmp; 0 when it is gone
          value,      \* what the last call returned
          errno,
          kernel      \* the calls of the kernel made by the last step
vars == <<phase, kernel, value, errno, jump, given, environ, frames>>

Init ==
  /\ phase \in {"new", "running"}
  /\ given = <<>> /\ environ = 0
  /\ frames = IF phase = "new" THEN <<>> ELSE <<1>>
  /\ jump = 0 /\ value = 0 /\ errno = 0 /\ kernel = <<>>

Start ==
  \E argc \in Arguments :
    /\ phase = "new" /\ phase' = "running"
    /\ given' = <<argc, 1, argc + 2>> /\ environ' = argc + 2
    /\ frames' = <<1>>
    /\ UNCHANGED <<jump, value, errno, kernel>>

(* What a running program does; given and environ stay (Running, below).   *)
Call ==
  /\ kernel' = <<>>
  /\ UNCHANGED <<phase, jump, value, errno>>
  /\ frames' = Append(frames, Len(frames) + 1)

Return ==
  \E v \in Values :
    /\ kernel' = <<>> /\ value' = v
    /\ UNCHANGED <<phase, errno>>
    /\ Len(frames) > 1
    /\ frames' = SubSeq(frames, 1, Len(frames) - 1)
    /\ jump' = IF jump = Len(frames) THEN 0 ELSE jump

ReturnFromMain ==
  \E v \in Values :
    /\ phase' = "exited" /\ kernel' = <<<<"exit", v>>>> /\ value' = v
    /\ Len(frames) = 1
    /\ UNCHANGED <<errno, jump, frames>>

SetJmp ==
  /\ kernel' = <<>> /\ value' = 0
  /\ UNCHANGED <<phase, errno, frames>>
  /\ jump' = Len(frames)

LongJmp ==
  \E v \in Values :
    /\ kernel' = <<>> /\ jump # 0
    /\ value' = IF v = 0 THEN 1 ELSE v
    /\ UNCHANGED <<phase, errno, jump>>
    /\ frames' = SubSeq(frames, 1, jump)

SystemCall ==
  \E n \in 0..6, answer \in Answers :
    /\ kernel' = <<<<"call">> \o [i \in 1..n |-> 100 + i]>>
    /\ value' = IF answer < 0 THEN -1 ELSE answer
    /\ errno' = IF answer < 0 THEN -answer ELSE 0
    /\ UNCHANGED <<phase, jump, frames>>

\* _write leaves errno to its caller.
Write ==
  \E answer \in Answers :
    /\ kernel' = <<<<"write", 101, 102, 103>>>> /\ value' = answer
    /\ UNCHANGED <<phase, errno, jump, frames>>

\* So does __raise.
Raise ==
  \E pid \in Answers, answer \in Answers, signum \in Values :
    /\ kernel' = <<<<"getpid">>>> \o (IF pid < 0 THEN <<>> ELSE <<<<"kill", pid, signum>>>>)
    /\ value' = IF pid < 0 THEN pid ELSE answer
    /\ UNCHANGED <<phase, errno, jump, frames>>

Exit ==
  \E v \in Values :
    /\ phase' = "exited" /\ kernel' = <<<<"exit", v>>>> /\ value' = v
    /\ UNCHANGED <<errno, jump, frames>>

Running ==
  /\ phase = "running" /\ UNCHANGED <<given, environ>>
  /\ Call \/ Return \/ ReturnFromMain \/ SetJmp \/ LongJmp \/ SystemCall \/ Write \/ Raise \/ Exit
Next == Start \/ Running
Spec == Init /\ [][Next]_vars
=============================================================================
