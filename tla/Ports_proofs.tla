----------------------------- MODULE Ports_proofs -----------------------------
(***************************************************************************)
(* Proofs about Ports, for all files, limits and buffer sizes: that its    *)
(* invariants hold, and that it implements CharacterPorts.                 *)
(***************************************************************************)
EXTENDS Ports, OperatorLemmas

Byte == 0..255

\* The reads that may be in progress.
Calls == [op : {"none", "read", "fread", "getc", "peek"}, fd : fds, size : Nat,
          first : Seq(Byte), got : Seq(Byte)]

\* What has which type.
Types ==
  /\ file \in [Names -> Seq(Byte)]
  /\ table \in [Opened -> 0 .. OPEN_MAX]
  /\ desc \in [Range(table) -> [name : Names, offset : Nat, access : {"r", "w", "rw"}]]
  /\ read_cache \in [fds -> Seq(Byte)] /\ read_buffer_max \in Nat
  /\ call \in Calls
  /\ g_ports \in Seq(Seq(Byte))
  /\ stdout \in fds /\ uses \in Workloads

\* Only writers share a description or a file with another descriptor, and
\* the program cannot use a descriptor that it was not told of.
Sharing ==
  /\ \A f, g \in Opened : f # g /\ table[f] = table[g] =>
       f \in fds /\ g \in fds /\ Place(f).access = "w"
  /\ \A f, g \in Held : table[f] # table[g] /\ Place(f).name = Place(g).name =>
       Place(f).access = "r"
  /\ \A f \in Opened \ fds : Place(f).offset = 0

\* What a cache holds was read from the place before the kernel's offset.
Ahead ==
  \A fd \in fds : Len(read_cache[fd]) > 0 =>
    /\ Readable(fd) /\ Len(read_cache[fd]) <= Place(fd).offset
    /\ \A i \in 1 .. Len(read_cache[fd]) :
         read_cache[fd][i] = file[Place(fd).name][Place(fd).offset - Len(read_cache[fd]) + i]

\* What is pushed back is a byte when it goes into a slot of the library.
PushedBack ==
  ret.op = "getc" =>
    /\ ret.value[1] \in -128 .. 255
    /\ stdin \in fds => ret.value[1] >= -1

IInv == Types /\ TypeOK /\ Sharing /\ Ahead /\ PushedBack

\* The first n elements of a sequence.
LEMMA FirstOfSeq ==
  ASSUME NEW S, NEW s \in Seq(S), NEW n \in Nat
  PROVE  /\ FirstOf(s, n) \in Seq(S)
         /\ Len(FirstOf(s, n)) = IF n <= Len(s) THEN n ELSE Len(s)
         /\ \A i \in 1 .. Len(FirstOf(s, n)) : FirstOf(s, n)[i] = s[i]
  <1> DEFINE m == IF n <= Len(s) THEN n ELSE Len(s)
  <1>1. m \in 0 .. Len(s) /\ Len(s) \in Nat
    BY LenProperties
  <1>2. FirstOf(s, n) = SubSeq(s, 1, m)
    BY <1>1, MinOfTwo DEF FirstOf
  <1>3. \A i \in 1 .. m : s[i] \in S
    BY <1>1, ElementOfSeq
  <1> HIDE DEF m
  <1>4. /\ SubSeq(s, 1, m) \in Seq(S) /\ Len(SubSeq(s, 1, m)) = m
        /\ \A i \in 1 .. m : SubSeq(s, 1, m)[i] = s[i]
    BY <1>1, <1>3, SubSeqProperties
  <1> QED
    BY <1>1, <1>2, <1>4 DEF m

\* The elements of a sequence from one place to its end.
LEMMA EndOfSeq ==
  ASSUME NEW S, NEW s \in Seq(S), NEW k \in Nat
  PROVE  /\ SubSeq(s, k + 1, Len(s)) \in Seq(S)
         /\ Len(SubSeq(s, k + 1, Len(s))) = IF k <= Len(s) THEN Len(s) - k ELSE 0
         /\ \A i \in 1 .. Len(s) - k : SubSeq(s, k + 1, Len(s))[i] = s[k + i]
  <1>1. Len(s) \in Nat
    BY LenProperties
  <1>2. \A i \in k + 1 .. Len(s) : s[i] \in S
    BY <1>1, ElementOfSeq
  <1>3. /\ SubSeq(s, k + 1, Len(s)) \in Seq(S)
        /\ Len(SubSeq(s, k + 1, Len(s))) = IF k + 1 <= Len(s) THEN Len(s) - (k + 1) + 1 ELSE 0
        /\ \A i \in 1 .. Len(s) - (k + 1) + 1 : SubSeq(s, k + 1, Len(s))[i] = s[(k + 1) + i - 1]
    BY <1>1, <1>2, SubSeqProperties
  <1> QED
    BY <1>1, <1>3

\* The program starts with three descriptors and nothing read.
LEMMA InitIInv == Init => IInv
  <1> SUFFICES ASSUME Init PROVE IInv
    OBVIOUS
  <1>0. /\ FILEDES_MAX \in Nat /\ OPEN_MAX \in Nat /\ 2 < FILEDES_MAX /\ FILEDES_MAX <= OPEN_MAX
        /\ Pipe \in Names /\ Log \in Names /\ Contents \in [Names -> Seq(Byte)]
    BY DescriptorAssumption DEF Byte
  <1>1. /\ file = Contents
        /\ table = [fd \in 0..2 |-> IF fd = 0 THEN 0 ELSE 1]
        /\ desc = [d \in 0..1 |-> IF d = 0 THEN [name |-> Pipe, offset |-> 0, access |-> "r"]
                                  ELSE [name |-> Log, offset |-> 0, access |-> "w"]]
        /\ ungetc_buf = [fd \in fds |-> -1]
        /\ read_cache = [fd \in fds |-> <<>>]
        /\ read_buffer_max \in BufferSizes
        /\ call = Idle /\ ret = [op |-> "none", value |-> <<>>]
        /\ g_ports = <<>> /\ stdin = 0 /\ stdout = 1 /\ uses \in Workloads
    BY DEF Init, DescriptorInit
  <1>2. Opened = 0..2 /\ Range(table) = 0..1 /\ 0..2 \subseteq fds
    BY <1>0, <1>1 DEF Opened, Range, fds
  <1>3. read_buffer_max \in Nat
    BY <1>1, DescriptorAssumption
  <1>4. Types
    <2>1. table \in [Opened -> 0 .. OPEN_MAX]
      BY <1>0, <1>1, <1>2
    <2>2. desc \in [Range(table) -> [name : Names, offset : Nat, access : {"r", "w", "rw"}]]
      BY <1>0, <1>1, <1>2
    <2>3. call \in Calls
      BY <1>1, <1>2 DEF Idle, Calls
    <2>4. read_cache \in [fds -> Seq(Byte)] /\ g_ports \in Seq(Seq(Byte))
      BY <1>1
    <2> QED
      BY <1>0, <1>1, <1>2, <1>3, <2>1, <2>2, <2>3, <2>4 DEF Types
  <1>5. TypeOK
    <2>1. \A s \in Seq(Byte) : Len(s) \in Nat
      OBVIOUS
    <2>2. \A d \in DOMAIN desc : desc[d].offset \in 0 .. Len(file[desc[d].name])
      BY <1>0, <1>1, <2>1
    <2>3. ungetc_buf \in [fds -> -1..255]
      BY <1>1
    <2>4. \A fd \in fds : Len(read_cache[fd]) <= read_buffer_max
      BY <1>1, <1>3
    <2>5. Opened \subseteq 0 .. OPEN_MAX - 1
      BY <1>0, <1>2
    <2> QED
      BY <1>1, <1>2, <2>2, <2>3, <2>4, <2>5 DEF TypeOK, Idle
  <1>6. Sharing
    <2>1. /\ Place(0) = [name |-> Pipe, offset |-> 0, access |-> "r"]
          /\ Place(1) = [name |-> Log, offset |-> 0, access |-> "w"]
          /\ Place(2) = [name |-> Log, offset |-> 0, access |-> "w"]
      BY <1>1 DEF Place
    <2>2. Held = {0, 1, 2} /\ Opened = {0, 1, 2} /\ Pipe # Log
      BY <1>2, DescriptorAssumption DEF Held
    <2>3. table[0] = 0 /\ table[1] = 1 /\ table[2] = 1
      BY <1>1
    <2> QED
      BY <1>2, <2>1, <2>2, <2>3 DEF Sharing
  <1>7. Ahead /\ PushedBack
    BY <1>1 DEF Ahead, PushedBack
  <1> QED
    BY <1>4, <1>5, <1>6, <1>7 DEF IInv

-----------------------------------------------------------------------------
(* Reading.                                                                *)

\* Sharing and Ahead only speak of files, descriptors and caches.
LEMMA SameKernel ==
  ASSUME Sharing, Ahead, UNCHANGED <<file, table, desc, read_cache>>
  PROVE  Sharing' /\ Ahead'
  BY DEF Sharing, Ahead, Place, Held, Opened, Readable

\* No call is in progress and a byte, or -1, may be pushed back.
LEMMA IdleCall == Idle \in Calls /\ Len(Idle.got) <= Idle.size
  <1>1. 0 \in fds
    BY DescriptorAssumption DEF fds
  <1> QED
    BY <1>1 DEF Idle, Calls

\* The end of a call leaves characters where they belong.
LEMMA FinishIInv ==
  ASSUME IInv, NEW bytes \in Seq(Byte), Finish(bytes), UNCHANGED stdin
  PROVE  /\ call' \in Calls /\ Len(call'.got) <= call'.size
         /\ ungetc_buf' \in [fds -> -1..255]
         /\ PushedBack'
  <1> DEFINE value == IF call.op \in {"getc", "peek"} /\ bytes = <<>> THEN Error ELSE bytes
  <1>1. /\ ret' = [op |-> call.op, value |-> IF call.op = "fread" THEN call.first \o bytes ELSE value]
        /\ call' = Idle
        /\ ungetc_buf' = IF call.op = "peek" THEN [ungetc_buf EXCEPT ![call.fd] = value[1]]
                         ELSE ungetc_buf
    BY DEF Finish, Return
  <1>2. ungetc_buf \in [fds -> -1..255] /\ call.fd \in fds
    BY DEF IInv, TypeOK, Types, Calls
  <1>3. ASSUME call.op \in {"getc", "peek"} PROVE value[1] \in -1..255
    <2>1. CASE bytes = <<>>
      BY <1>3, <2>1 DEF Error
    <2>2. CASE bytes # <<>>
      <3>1. 1 \in 1 .. Len(bytes)
        BY <2>2, EmptySeq
      <3>2. bytes[1] \in Byte
        BY <3>1, ElementOfSeq
      <3> QED
        BY <2>2, <3>2 DEF Byte
    <2> QED
      BY <2>1, <2>2
  <1> HIDE DEF value
  <1>4. ungetc_buf' \in [fds -> -1..255]
    BY <1>1, <1>2, <1>3
  <1>5. PushedBack'
    <2>1. CASE call.op = "getc"
      <3>1. ret'.value = value
        BY <1>1, <2>1
      <3>2. value[1] \in -128 .. 255 /\ value[1] >= -1
        <4>1. \A c \in -1 .. 255 : c \in -128 .. 255 /\ c >= -1
          OBVIOUS
        <4> QED
          BY <1>3, <2>1, <4>1
      <3> QED
        BY <3>1, <3>2 DEF PushedBack
    <2>2. CASE call.op # "getc"
      BY <1>1, <2>2 DEF PushedBack
    <2> QED
      BY <2>1, <2>2
  <1> QED
    BY <1>1, <1>4, <1>5, IdleCall

\* A step that touches neither files nor descriptors nor caches.
Quiet == UNCHANGED <<file, table, desc, read_cache, read_buffer_max>>

LEMMA QuietIInv ==
  ASSUME IInv, Quiet,
         ungetc_buf' \in [fds -> -1..255],
         call' \in Calls, Len(call'.got) <= call'.size,
         g_ports' \in Seq(Seq(Byte)), stdin' \in fds \cup StringPorts',
         stdout' \in fds, uses' = uses, PushedBack'
  PROVE  IInv'
  <1>1. Types'
    BY DEF IInv, Quiet, Types, Opened
  <1>2. TypeOK'
    BY DEF IInv, Quiet, TypeOK, Opened
  <1>3. Sharing' /\ Ahead'
    BY SameKernel DEF IInv, Quiet
  <1> QED
    BY <1>1, <1>2, <1>3 DEF IInv

\* The calls begin.
LEMMA CallOK ==
  ASSUME NEW op \in {"read", "fread", "getc", "peek"}, NEW fd \in fds, NEW n \in Nat,
         NEW first \in Seq(Byte), Call(op, fd, n, first)
  PROVE  call' \in Calls /\ Len(call'.got) <= call'.size
  BY DEF Call, Calls

\* What is in the slot of a descriptor is one byte or nothing.
LEMMA PushedOK ==
  ASSUME IInv, NEW fd \in fds
  PROVE  /\ Pushed(fd) \in Seq(Byte)
         /\ Pushed(fd) = <<>> \/ (\E b \in Byte : Pushed(fd) = <<b>>)
         /\ ClearPushed(fd) \in [fds -> -1..255]
  <1>1. ungetc_buf \in [fds -> -1..255]
    BY DEF IInv, TypeOK
  <1>2. CASE ungetc_buf[fd] >= 0
    <2>1. ungetc_buf[fd] \in Byte
      BY <1>1, <1>2 DEF Byte
    <2> QED
      BY <1>1, <1>2, <2>1 DEF Pushed, ClearPushed
  <1>3. CASE ~(ungetc_buf[fd] >= 0)
    BY <1>1, <1>3 DEF Pushed, ClearPushed
  <1> QED
    BY <1>2, <1>3

\* A program's read only begins a call.
LEMMA ReadIInv ==
  ASSUME IInv, NEW fd \in fds, NEW n \in Requests, Read(fd, n), UNCHANGED portVars
  PROVE  IInv'
  <1>1. n \in Nat
    BY DescriptorAssumption
  <1>2. call' \in Calls /\ Len(call'.got) <= call'.size
    <2>1. Call("read", fd, n, <<>>)
      BY DEF Read
    <2>2. <<>> \in Seq(Byte) /\ Len(<<>>) <= n
      BY <1>1
    <2> QED
      BY <1>1, <2>1, <2>2 DEF Call, Calls
  <1> QED
    BY <1>2, QuietIInv DEF Read, Quiet, IInv, TypeOK, Types, StringPorts, PushedBack, portVars

\* fread takes the byte that was pushed back, and begins a read of what is left.
LEMMA FreadIInv ==
  ASSUME IInv, NEW fd \in fds, NEW n \in Requests, Fread(fd, n), UNCHANGED portVars
  PROVE  IInv'
  <1>1. n \in Nat /\ n # 0
    BY DescriptorAssumption
  <1>2. Pushed(fd) \in Seq(Byte) /\ (Len(Pushed(fd)) = 0 \/ Len(Pushed(fd)) = 1)
    BY PushedOK
  <1>3. call' \in Calls /\ Len(call'.got) <= call'.size
    <2>1. CASE Len(Pushed(fd)) = n
      BY <2>1 DEF Fread, IInv, Types, TypeOK
    <2>2. CASE Len(Pushed(fd)) # n
      <3>1. n - Len(Pushed(fd)) \in Nat
        <4>1. CASE Len(Pushed(fd)) = 0
          BY <1>1, <4>1
        <4>2. CASE Len(Pushed(fd)) = 1
          BY <1>1, <4>2
        <4> QED
          BY <1>2, <4>1, <4>2
      <3>2. Call("fread", fd, n - Len(Pushed(fd)), Pushed(fd))
        BY <2>2 DEF Fread
      <3> QED
        BY <1>2, <3>1, <3>2, CallOK
    <2> QED
      BY <2>1, <2>2
  <1>4. PushedBack'
    <2>1. ret' = ret \/ ret'.op = "fread"
      BY DEF Fread, Return
    <2> QED
      BY <2>1 DEF PushedBack, IInv, portVars
  <1>5. ungetc_buf' \in [fds -> -1..255]
    BY PushedOK DEF Fread
  <1> QED
    BY <1>3, <1>4, <1>5, QuietIInv DEF Fread, Quiet, IInv, TypeOK, Types, StringPorts, portVars

\* fdgetc takes the byte that was pushed back, or begins a read of one byte.
LEMMA FdgetcIInv ==
  ASSUME IInv, NEW fd \in fds, NEW op \in {"getc", "peek"}, Fdgetc(fd, op), UNCHANGED portVars
  PROVE  IInv'
  <1>1. CASE Pushed(fd) # <<>>
    <2>1. PICK b \in Byte : Pushed(fd) = <<b>>
      BY <1>1, PushedOK
    <2>2. ret' = [op |-> op, value |-> <<b>>] /\ UNCHANGED call
      BY <1>1, <2>1 DEF Fdgetc, Return
    <2>3. PushedBack'
      <3>1. b \in -128 .. 255 /\ b >= -1
        BY DEF Byte
      <3> QED
        BY <2>2, <3>1 DEF PushedBack
    <2>4. ungetc_buf' \in [fds -> -1..255]
      <3>1. ungetc_buf \in [fds -> -1..255]
        BY DEF IInv, TypeOK
      <3>2. ungetc_buf' = ungetc_buf \/ ungetc_buf' = ClearPushed(fd)
        BY <1>1 DEF Fdgetc
      <3> QED
        BY <3>1, <3>2, PushedOK
    <2> QED
      BY <2>2, <2>3, <2>4, QuietIInv
      DEF Fdgetc, Quiet, IInv, TypeOK, Types, StringPorts, portVars
  <1>2. CASE Pushed(fd) = <<>>
    <2>1. Call(op, fd, 1, <<>>) /\ UNCHANGED <<ungetc_buf, ret>>
      BY <1>2 DEF Fdgetc
    <2>2. <<>> \in Seq(Byte) /\ Len(<<>>) <= 1
      OBVIOUS
    <2>3. call' \in Calls /\ Len(call'.got) <= call'.size
      BY <2>1, <2>2 DEF Call, Calls
    <2> QED
      BY <2>1, <2>3, QuietIInv
      DEF Fdgetc, Quiet, IInv, TypeOK, Types, StringPorts, PushedBack, portVars
  <1> QED
    BY <1>1, <1>2

\* Only a character that fits in the slot is put into it.
LEMMA FdungetcIInv ==
  ASSUME IInv, NEW c \in -1..255, NEW fd \in fds, Fdungetc(c, fd), UNCHANGED portVars
  PROVE  IInv'
  <1>1. ungetc_buf' \in [fds -> -1..255]
    BY DEF Fdungetc, IInv, TypeOK
  <1>2. PushedBack'
    BY DEF Fdungetc, Return, PushedBack
  <1> QED
    BY <1>1, <1>2, QuietIInv
    DEF Fdungetc, Quiet, IInv, TypeOK, Types, StringPorts, portVars

-----------------------------------------------------------------------------
(* Ports on strings, and the current ports.                                *)

\* The number of a string port is negative, so that it is no descriptor.
LEMMA StringPortsOK ==
  ASSUME NEW p \in StringPorts, g_ports \in Seq(Seq(Byte))
  PROVE  p < 0 /\ p \notin fds /\ PortOf(p) \in DOMAIN g_ports
  <1>1. PICK i \in DOMAIN g_ports : p = -i - 1
    BY DEF StringPorts, number
  <1>2. i \in 1 .. Len(g_ports)
    BY LenProperties
  <1>3. FILEDES_MAX \in Nat
    BY DescriptorAssumption
  <1> QED
    BY <1>1, <1>2, <1>3 DEF PortOf, fds

\* The descriptors are numbers that are not negative.
LEMMA StdinOK ==
  ASSUME IInv
  PROVE  /\ stdin >= 0 <=> stdin \in fds
         /\ stdin < 0 <=> stdin \in StringPorts
         /\ stdin < 0 => PortOf(stdin) \in DOMAIN g_ports
  <1>1. stdin \in fds \cup StringPorts /\ g_ports \in Seq(Seq(Byte))
    BY DEF IInv, TypeOK, Types
  <1>2. \A p \in StringPorts : p < 0 /\ p \notin fds /\ PortOf(p) \in DOMAIN g_ports
    BY <1>1, StringPortsOK
  <1>3. \A p \in fds : p \in Int /\ p >= 0
    BY DescriptorAssumption DEF fds
  <1>4. CASE stdin \in fds
    BY <1>2, <1>3, <1>4
  <1>5. CASE stdin \in StringPorts
    <2>1. PICK i \in DOMAIN g_ports : stdin = -i - 1
      BY <1>5 DEF StringPorts, number
    <2>2. stdin \in Int
      BY <1>1, <2>1, LenProperties
    <2> QED
      BY <1>2, <1>5, <2>2
  <1> QED
    BY <1>1, <1>4, <1>5

\* A character of a string is its byte, signed.
LEMMA CharsOK ==
  ASSUME NEW text \in Seq(Byte)
  PROVE  Chars(text)[1] \in -128 .. 127
  <1>1. CASE text = <<>>
    BY <1>1 DEF Chars, Error
  <1>2. CASE text # <<>>
    <2>1. Head(text) \in Byte
      BY <1>2, HeadTailProperties
    <2>2. \A b \in Byte : Signed(b) \in -128 .. 127
      BY DEF Signed, Byte
    <2>3. Chars(text)[1] = Signed(Head(text))
      BY <1>2 DEF Chars
    <2> QED
      BY <2>1, <2>2, <2>3
  <1> QED
    BY <1>1, <1>2

\* A step of the ports on strings that leaves the descriptors alone.
LEMMA StringIInv ==
  ASSUME IInv, StringOnly, g_ports' \in Seq(Seq(Byte)), stdin' \in fds \cup StringPorts',
         stdout' \in fds, uses' = uses, PushedBack'
  PROVE  IInv'
  BY QuietIInv DEF StringOnly, Quiet, IInv, TypeOK, Types

\* peek-char reads a character and pushes it back, or looks at a string.
LEMMA PeekCharIInv ==
  ASSUME IInv, PeekChar
  PROVE  IInv'
  <1>1. CASE stdin >= 0 /\ Fdgetc(stdin, "peek") /\ UNCHANGED portVars
    BY <1>1, StdinOK, FdgetcIInv
  <1>2. CASE /\ stdin < 0 /\ Return("peek", Chars(g_ports[PortOf(stdin)]))
             /\ StringOnly /\ UNCHANGED portVars
    BY <1>2, StringIInv DEF Return, PushedBack, portVars, IInv, Types, TypeOK, StringPorts
  <1> QED
    BY <1>1, <1>2 DEF PeekChar

\* Reading from a string port leaves the rest of its string.
LEMMA ReadStringIInv ==
  ASSUME IInv, stdin < 0, ReadString(PortOf(stdin))
  PROVE  IInv'
  <1> DEFINE p == PortOf(stdin)
  <1>1. p \in DOMAIN g_ports /\ g_ports \in Seq(Seq(Byte)) /\ stdin \in StringPorts /\ stdin \notin fds
    BY StdinOK, StringPortsOK DEF IInv, Types
  <1>2. g_ports[p] \in Seq(Byte) /\ DOMAIN g_ports = 1 .. Len(g_ports)
    BY <1>1, ElementOfSeq, LenProperties
  <1>3. /\ g_ports' = [g_ports EXCEPT ![p] = IF g_ports[p] = <<>> THEN g_ports[p] ELSE Tail(g_ports[p])]
        /\ ret' = [op |-> "getc", value |-> Chars(g_ports[p])]
        /\ StringOnly /\ UNCHANGED <<stdin, stdout, uses>>
    BY DEF ReadString, Return
  <1> HIDE DEF p
  <1>4. (IF g_ports[p] = <<>> THEN g_ports[p] ELSE Tail(g_ports[p])) \in Seq(Byte)
    BY <1>2, HeadTailProperties
  <1>5. g_ports' \in Seq(Seq(Byte)) /\ DOMAIN g_ports' = DOMAIN g_ports
    BY <1>1, <1>2, <1>3, <1>4, ExceptSeq
  <1>6. PushedBack'
    <2>1. Chars(g_ports[p])[1] \in -128 .. 127
      BY <1>2, CharsOK
    <2>2. \A c \in -128 .. 127 : c \in -128 .. 255
      OBVIOUS
    <2>3. ret'.value[1] \in -128 .. 255
      BY <1>3, <2>1, <2>2
    <2> QED
      BY <1>1, <1>3, <2>3 DEF PushedBack, fds
  <1> QED
    BY <1>1, <1>3, <1>5, <1>6, StringIInv DEF IInv, Types, StringPorts

\* read-char is fdgetc, or takes from a string.
LEMMA ReadCharIInv ==
  ASSUME IInv, NEW port \in Held \cup StringPorts, ReadChar(port)
  PROVE  IInv'
  <1> DEFINE from == IF port \in fds THEN port ELSE stdin
  <1>1. CASE from >= 0 /\ Fdgetc(from, "getc") /\ UNCHANGED portVars
    BY <1>1, StdinOK, FdgetcIInv
  <1>2. CASE from < 0 /\ ReadString(PortOf(from))
    <2>1. \A fd \in fds : ~(fd < 0)
      BY DescriptorAssumption DEF fds
    <2>2. from = stdin
      BY <1>2, <2>1
    <2> QED
      BY <1>2, <2>2, ReadStringIInv
  <1> QED
    BY <1>1, <1>2 DEF ReadChar

\* A byte is what it was when it is pushed back to a string.
LEMMA UnreadCharIInv ==
  ASSUME IInv, ret.op = "getc", UnreadChar(ret.value[1])
  PROVE  IInv'
  <1> DEFINE c == ret.value[1]
             p == PortOf(stdin)
  <1>1. CASE stdin >= 0 /\ Readable(stdin) /\ Fdungetc(c, stdin) /\ UNCHANGED portVars
    <2>1. stdin \in fds
      BY <1>1, StdinOK
    <2>2. c \in -128 .. 255 /\ c >= -1
      BY <2>1 DEF IInv, PushedBack
    <2>3. \A i \in -128 .. 255 : i >= -1 => i \in -1 .. 255
      OBVIOUS
    <2>4. c \in -1 .. 255
      BY <2>2, <2>3
    <2> QED
      BY <1>1, <2>1, <2>4, FdungetcIInv
  <1>2. CASE /\ stdin < 0 /\ Return("unread", <<c>>)
             /\ g_ports' = IF c = -1 THEN g_ports
                           ELSE [g_ports EXCEPT ![p] = <<Unsigned(c)>> \o @]
             /\ StringOnly /\ UNCHANGED <<stdin, stdout, uses>>
    <2>1. p \in DOMAIN g_ports /\ g_ports \in Seq(Seq(Byte)) /\ stdin \in StringPorts
      BY <1>2, StdinOK DEF IInv, Types
    <2>2. g_ports[p] \in Seq(Byte) /\ DOMAIN g_ports = 1 .. Len(g_ports)
      BY <2>1, ElementOfSeq, LenProperties
    <2>3. Unsigned(c) \in Byte
      <3>1. \A i \in -128 .. 255 : Unsigned(i) \in Byte
        BY DEF Unsigned, Byte
      <3> QED
        BY <3>1 DEF IInv, PushedBack
    <2>4. <<Unsigned(c)>> \o g_ports[p] \in Seq(Byte)
      <3>1. <<Unsigned(c)>> \in Seq(Byte)
        BY <2>3
      <3> QED
        BY <2>2, <3>1, ConcatProperties
    <2> HIDE DEF c, p
    <2>5. g_ports' \in Seq(Seq(Byte)) /\ DOMAIN g_ports' = DOMAIN g_ports
      BY <1>2, <2>1, <2>2, <2>4, ExceptSeq
    <2>6. PushedBack'
      BY <1>2 DEF Return, PushedBack
    <2> QED
      BY <1>2, <2>1, <2>5, <2>6, StringIInv DEF IInv, Types, StringPorts
  <1> QED
    BY <1>1, <1>2 DEF UnreadChar

\* A string port is a new entry of g_ports; no descriptor changes.
LEMMA OpenInputStringIInv ==
  ASSUME IInv, NEW text \in Texts, OpenInputString(text)
  PROVE  IInv'
  <1>1. text \in Seq(Byte) /\ g_ports \in Seq(Seq(Byte))
    BY PortAssumption DEF IInv, Types, Byte
  <1>2. /\ g_ports' = Append(g_ports, text)
        /\ ret' = [op |-> "string", value |-> <<number(Len(g_ports) + 1)>>]
        /\ StringOnly /\ UNCHANGED <<stdin, stdout, uses>>
    BY DEF OpenInputString, Return
  <1>3. g_ports' \in Seq(Seq(Byte)) /\ Len(g_ports') = Len(g_ports) + 1
    BY <1>1, <1>2, AppendProperties
  <1>4. DOMAIN g_ports \subseteq DOMAIN g_ports'
    <2>1. DOMAIN g_ports = 1 .. Len(g_ports) /\ DOMAIN g_ports' = 1 .. Len(g_ports')
      BY <1>1, <1>3, LenProperties
    <2>2. Len(g_ports) \in Nat
      BY <1>1, LenProperties
    <2> QED
      BY <1>3, <2>1, <2>2
  <1>5. StringPorts \subseteq StringPorts'
    BY <1>4 DEF StringPorts
  <1>6. PushedBack'
    BY <1>2 DEF PushedBack
  <1>7. stdin' \in fds \cup StringPorts' /\ stdout' \in fds
    BY <1>2, <1>5 DEF IInv, Types, TypeOK
  <1> QED
    BY <1>2, <1>3, <1>6, <1>7, StringIInv

LEMMA SetCurrentInputPortIInv ==
  ASSUME IInv, NEW port \in Held \cup StringPorts, SetCurrentInputPort(port)
  PROVE  IInv'
  <1>1. PushedBack'
    BY DEF SetCurrentInputPort, Return, PushedBack
  <1>2. stdin' \in fds \cup StringPorts'
    BY DEF SetCurrentInputPort, StringPorts, Held
  <1> QED
    BY <1>1, <1>2, StringIInv DEF SetCurrentInputPort, IInv, Types

LEMMA SetCurrentOutputPortIInv ==
  ASSUME IInv, NEW port \in Held, SetCurrentOutputPort(port)
  PROVE  IInv'
  <1>1. PushedBack'
    BY DEF SetCurrentOutputPort, Return, PushedBack
  <1>2. stdout' \in fds
    BY DescriptorAssumption DEF SetCurrentOutputPort, Held, fds
  <1> QED
    BY <1>1, <1>2, StringIInv DEF SetCurrentOutputPort, IInv, Types, TypeOK, StringPorts

-----------------------------------------------------------------------------
(* What __buffered_read does to the kernel's offset and to the caches.     *)

\* The descriptions in use, and what they say of their files.
LEMMA PlaceOK ==
  ASSUME IInv, NEW fd \in Opened
  PROVE  /\ table[fd] \in DOMAIN desc /\ DOMAIN desc = Range(table)
         /\ Place(fd) \in [name : Names, offset : Nat, access : {"r", "w", "rw"}]
         /\ file[Place(fd).name] \in Seq(Byte)
         /\ Len(file[Place(fd).name]) \in Nat
         /\ Place(fd).offset \in 0 .. Len(file[Place(fd).name])
         /\ desc[table[fd]] = Place(fd)
  <1>1. table[fd] \in Range(table)
    BY DEF Opened, Range
  <1>2. /\ desc \in [Range(table) -> [name : Names, offset : Nat, access : {"r", "w", "rw"}]]
        /\ file \in [Names -> Seq(Byte)]
        /\ \A d \in DOMAIN desc : desc[d].offset \in 0 .. Len(file[desc[d].name])
    BY DEF IInv, Types, TypeOK
  <1> QED
    BY <1>1, <1>2, LenProperties DEF Place

\* A readable descriptor is the only one of its description.
LEMMA AloneOK ==
  ASSUME IInv, NEW fd \in Opened, Readable(fd), NEW g \in Opened, g # fd
  PROVE  table[g] # table[fd]
  BY DEF IInv, Sharing, Readable

\* The rest of a file begins at the offset.
LEMMA RestOK ==
  ASSUME IInv, NEW fd \in Opened, NEW n \in Nat
  PROVE  /\ SysRead(fd, n) \in Seq(Byte)
         /\ Len(SysRead(fd, n)) \in Nat /\ Len(SysRead(fd, n)) <= n
         /\ Place(fd).offset + Len(SysRead(fd, n)) <= Len(file[Place(fd).name])
         /\ \A i \in 1 .. Len(SysRead(fd, n)) :
              SysRead(fd, n)[i] = file[Place(fd).name][Place(fd).offset + i]
  <1> DEFINE s == file[Place(fd).name]
             o == Place(fd).offset
             rest == SubSeq(s, o + 1, Len(s))
  <1>1. s \in Seq(Byte) /\ Len(s) \in Nat /\ o \in Nat /\ o <= Len(s)
    BY PlaceOK
  <1> HIDE DEF s, o
  <1>2. /\ rest \in Seq(Byte) /\ Len(rest) = Len(s) - o
        /\ \A i \in 1 .. Len(s) - o : rest[i] = s[o + i]
    BY <1>1, EndOfSeq
  <1>3. SysRead(fd, n) = FirstOf(rest, n)
    BY DEF SysRead, RestOf, s, o
  <1> HIDE DEF rest
  <1>4. /\ FirstOf(rest, n) \in Seq(Byte)
        /\ Len(FirstOf(rest, n)) = IF n <= Len(rest) THEN n ELSE Len(rest)
        /\ \A i \in 1 .. Len(FirstOf(rest, n)) : FirstOf(rest, n)[i] = rest[i]
    BY <1>2, FirstOfSeq
  <1>5. /\ Len(FirstOf(rest, n)) \in Nat /\ Len(FirstOf(rest, n)) <= n
        /\ Len(FirstOf(rest, n)) <= Len(s) - o
    BY <1>1, <1>2, <1>4
  <1>6. \A i \in 1 .. Len(FirstOf(rest, n)) : FirstOf(rest, n)[i] = s[o + i]
    BY <1>1, <1>2, <1>4, <1>5
  <1>7. o + Len(FirstOf(rest, n)) <= Len(s)
    BY <1>1, <1>5
  <1> QED
    BY <1>3, <1>4, <1>5, <1>6, <1>7 DEF s, o

\* What the library and the ports know besides the kernel's tables is sound.
Library ==
  /\ call \in Calls /\ Len(call.got) <= call.size
  /\ ungetc_buf \in [fds -> -1..255]
  /\ g_ports \in Seq(Seq(Byte)) /\ stdin \in fds \cup StringPorts
  /\ stdout \in fds /\ uses \in Workloads
  /\ PushedBack

\* What the library's part of the invariant says now.
LEMMA LibraryOK == IInv => Library
  BY DEF IInv, Types, TypeOK, Library

\* Reading advances one description, and what is left of the bytes that were
\* read goes into the cache.
LEMMA AdvanceIInv ==
  ASSUME IInv, Library', NEW fd \in fds, Readable(fd), NEW n \in Nat, NEW bytes \in Seq(Byte),
         Place(fd).offset + n <= Len(file[Place(fd).name]),
         Len(bytes) <= n, Len(bytes) <= read_buffer_max,
         \A i \in 1 .. Len(bytes) :
           bytes[i] = file[Place(fd).name][Place(fd).offset + n - Len(bytes) + i],
         desc' = Advanced(fd, n), UNCHANGED <<file, table, read_buffer_max>>,
         read_cache' = [read_cache EXCEPT ![fd] = bytes]
  PROVE  IInv'
  <1>1. /\ file \in [Names -> Seq(Byte)] /\ table \in [Opened -> 0 .. OPEN_MAX]
        /\ desc \in [Range(table) -> [name : Names, offset : Nat, access : {"r", "w", "rw"}]]
        /\ read_cache \in [fds -> Seq(Byte)] /\ read_buffer_max \in Nat
        /\ fd \in Opened /\ Opened' = Opened /\ Held' = Held
    BY DEF IInv, Types, Readable, Opened, Held
  <1>2. /\ desc' \in [Range(table) -> [name : Names, offset : Nat, access : {"r", "w", "rw"}]]
        /\ Place(fd)' = [Place(fd) EXCEPT !.offset = @ + n]
    <2>1. desc' = [desc EXCEPT ![table[fd]] = [Place(fd) EXCEPT !.offset = @ + n]]
      BY DEF Advanced, Place
    <2>2. /\ Place(fd) \in [name : Names, offset : Nat, access : {"r", "w", "rw"}]
          /\ table[fd] \in Range(table)
      BY <1>1, PlaceOK
    <2>3. [Place(fd) EXCEPT !.offset = @ + n]
            \in [name : Names, offset : Nat, access : {"r", "w", "rw"}]
      BY <2>2
    <2>4. Place(fd)' = [Place(fd) EXCEPT !.offset = @ + n]
      BY <1>1, <2>1, <2>2 DEF Place
    <2> QED
      BY <1>1, <2>1, <2>2, <2>3, <2>4
  <1>3. \A g \in Opened : g # fd => Place(g)' = Place(g)
    BY <1>1, PlaceOK, AloneOK DEF Advanced, Place
  <1>4. /\ Place(fd)'.name = Place(fd).name /\ Place(fd)'.access = Place(fd).access
        /\ Place(fd)'.offset = Place(fd).offset + n
        /\ Place(fd).offset \in Nat
    BY <1>1, <1>2, PlaceOK
  <1>5. Types'
    BY <1>1, <1>2 DEF Types, Library, Opened
  <1>6. TypeOK'
    <2>1. \A d \in DOMAIN desc' : desc'[d].offset \in 0 .. Len(file[desc'[d].name])
      <3> SUFFICES ASSUME NEW d \in Range(table)
                   PROVE  desc'[d].offset \in 0 .. Len(file[desc'[d].name])
        BY <1>2
      <3>1. PICK g \in Opened : table[g] = d
        BY DEF Range, Opened
      <3>2. desc'[d] = Place(g)'
        BY <3>1 DEF Place
      <3>3. Place(g).offset \in 0 .. Len(file[Place(g).name]) /\ Len(file[Place(g).name]) \in Nat
        BY PlaceOK
      <3>4. CASE g = fd
        <4>1. Place(fd).offset + n \in 0 .. Len(file[Place(fd).name])
          BY <1>4, <3>3, <3>4
        <4> QED
          BY <1>4, <3>2, <3>4, <4>1
      <3>5. CASE g # fd
        BY <1>3, <3>2, <3>3, <3>5
      <3> QED
        BY <3>4, <3>5
    <2>2. \A f \in fds : Len(read_cache'[f]) <= read_buffer_max'
      BY <1>1 DEF IInv, TypeOK
    <2>3. Opened' \subseteq 0 .. OPEN_MAX - 1 /\ DOMAIN desc' = Range(table')
      BY <1>1, <1>2 DEF IInv, TypeOK
    <2> QED
      BY <2>1, <2>2, <2>3 DEF TypeOK, Library
  <1>7. Sharing'
    <2>1. \A g \in Opened : Place(g)'.name = Place(g).name /\ Place(g)'.access = Place(g).access
      BY <1>3, <1>4
    <2>2. \A g \in Opened \ fds : Place(g)'.offset = 0
      BY <1>3 DEF IInv, Sharing
    <2>3. Held \subseteq Opened
      BY DEF Held
    <2>4. \A f, g \in Opened : f # g /\ table[f] = table[g] =>
            f \in fds /\ g \in fds /\ Place(f)'.access = "w"
      BY <2>1 DEF IInv, Sharing
    <2>5. \A f, g \in Held : table[f] # table[g] /\ Place(f)'.name = Place(g)'.name =>
            Place(f)'.access = "r"
      BY <2>1, <2>3 DEF IInv, Sharing
    <2> QED
      BY <1>1, <2>2, <2>4, <2>5 DEF Sharing
  <1>8. Ahead'
    <2>1. ASSUME NEW f \in fds, Len(read_cache'[f]) > 0
          PROVE  /\ Readable(f)' /\ Len(read_cache'[f]) <= Place(f)'.offset
                 /\ \A i \in 1 .. Len(read_cache'[f]) :
                      read_cache'[f][i] = file[Place(f)'.name][Place(f)'.offset - Len(read_cache'[f]) + i]
      <3>1. CASE f = fd
        <4>1. read_cache'[f] = bytes /\ Len(bytes) \in Nat
          BY <1>1, <3>1, LenProperties
        <4>2. Readable(f)'
          BY <1>1, <1>4, <3>1 DEF Readable
        <4>3. Len(bytes) <= Place(fd).offset + n
          BY <1>4, <4>1
        <4> QED
          BY <1>4, <3>1, <4>1, <4>2, <4>3
      <3>2. CASE f # fd
        <4>1. read_cache'[f] = read_cache[f]
          BY <1>1, <3>2
        <4>2. Readable(f) /\ f \in Opened
          BY <2>1, <4>1 DEF IInv, Ahead, Readable
        <4>3. Place(f)' = Place(f)
          BY <1>3, <3>2, <4>2
        <4>4. Readable(f)'
          BY <1>1, <4>2, <4>3 DEF Readable
        <4> QED
          BY <2>1, <4>1, <4>3, <4>4 DEF IInv, Ahead
      <3> QED
        BY <3>1, <3>2
    <2> QED
      BY <2>1 DEF Ahead
  <1> QED
    BY <1>5, <1>6, <1>7, <1>8 DEF IInv, Library

\* What a call has, may take from the cache, and lacks.
LEMMA TodoOK ==
  ASSUME IInv
  PROVE  /\ call.fd \in fds /\ read_cache[call.fd] \in Seq(Byte)
         /\ Cached \in Seq(Byte) /\ Len(Cached) \in Nat
         /\ Len(Cached) <= Len(read_cache[call.fd]) /\ Left \in Nat
         /\ Got \in Seq(Byte) /\ Len(Got) + Left = call.size
  <1>1. /\ call.fd \in fds /\ call.size \in Nat /\ call.got \in Seq(Byte)
        /\ Len(call.got) <= call.size /\ read_cache[call.fd] \in Seq(Byte)
    BY DEF IInv, Types, TypeOK, Calls
  <1>2. Len(call.got) \in Nat /\ Len(read_cache[call.fd]) \in Nat
    BY <1>1, LenProperties
  <1>3. Todo \in Nat /\ Todo + Len(call.got) = call.size
    BY <1>1, <1>2 DEF Todo
  <1>4. /\ Cached \in Seq(Byte)
        /\ Len(Cached) = IF Todo <= Len(read_cache[call.fd]) THEN Todo
                         ELSE Len(read_cache[call.fd])
    BY <1>1, <1>3, FirstOfSeq DEF Cached
  <1>5. /\ Len(Cached) \in Nat /\ Len(Cached) <= Todo
        /\ Len(Cached) <= Len(read_cache[call.fd])
    BY <1>2, <1>3, <1>4
  <1>6. Left \in Nat /\ Left + Len(Cached) = Todo
    BY <1>3, <1>5 DEF Left
  <1>7. Got \in Seq(Byte) /\ Len(Got) = Len(call.got) + Len(Cached)
    BY <1>1, <1>4, ConcatProperties DEF Got
  <1>8. Len(Got) + Left = call.size
    <2>1. \A a, b, c \in Nat : (a + b) + c = (c + b) + a
      OBVIOUS
    <2>2. (Len(call.got) + Len(Cached)) + Left = (Left + Len(Cached)) + Len(call.got)
      BY <1>2, <1>5, <1>6, <2>1
    <2> QED
      BY <1>3, <1>6, <1>7, <2>2
  <1> QED
    BY <1>1, <1>4, <1>5, <1>6, <1>7, <1>8

\* Nothing of the kernel changes, and caches become shorter at the front.
LEMMA TakeIInv ==
  ASSUME IInv, Library', NEW fd \in fds, NEW k \in 0 .. Len(read_cache[fd]),
         read_cache' = [read_cache EXCEPT
                          ![fd] = SubSeq(read_cache[fd], k + 1, Len(read_cache[fd]))],
         UNCHANGED <<file, table, desc, read_buffer_max>>
  PROVE  IInv'
  <1> DEFINE old == read_cache[fd]
             new == SubSeq(old, k + 1, Len(old))
  <1>1. /\ read_cache \in [fds -> Seq(Byte)] /\ read_buffer_max \in Nat
        /\ old \in Seq(Byte) /\ Len(old) \in Nat /\ Len(old) <= read_buffer_max
        /\ k \in Nat /\ k <= Len(old)
    BY LenProperties DEF IInv, Types, TypeOK
  <1> HIDE DEF old
  <1>2. /\ new \in Seq(Byte) /\ Len(new) = Len(old) - k
        /\ \A i \in 1 .. Len(old) - k : new[i] = old[k + i]
    BY <1>1, EndOfSeq
  <1> HIDE DEF new
  <1>3. read_cache' = [read_cache EXCEPT ![fd] = new] /\ k \in Nat
    BY <1>1 DEF new, old
  <1>4. Types'
    BY <1>1, <1>2, <1>3 DEF IInv, Types, Library, Opened
  <1>5. TypeOK'
    <2>1. Len(new) <= read_buffer_max
      BY <1>1, <1>2, <1>3
    <2>2. \A f \in fds : Len(read_cache'[f]) <= read_buffer_max
      BY <1>1, <1>3, <2>1 DEF IInv, TypeOK
    <2> QED
      BY <2>2 DEF IInv, TypeOK, Library, Opened
  <1>6. Sharing'
    BY DEF IInv, Sharing, Place, Held, Opened
  <1>7. Ahead'
    <2>1. ASSUME NEW f \in fds, Len(read_cache'[f]) > 0
          PROVE  /\ Readable(f) /\ Len(read_cache'[f]) <= Place(f).offset
                 /\ \A i \in 1 .. Len(read_cache'[f]) :
                      read_cache'[f][i] = file[Place(f).name][Place(f).offset - Len(read_cache'[f]) + i]
      <3>1. CASE f = fd
        <4>1. read_cache'[f] = new
          BY <1>1, <1>3, <3>1
        <4>2. Len(old) > 0
          BY <1>1, <1>2, <1>3, <2>1, <4>1
        <4>3. /\ Readable(f) /\ Len(old) <= Place(f).offset
              /\ \A i \in 1 .. Len(old) :
                   old[i] = file[Place(f).name][Place(f).offset - Len(old) + i]
          BY <3>1, <4>2 DEF IInv, Ahead, old
        <4>4. Place(f).offset \in Nat
          BY <4>3, PlaceOK DEF Readable
        <4>5. ASSUME NEW i \in 1 .. Len(new)
              PROVE  new[i] = file[Place(f).name][Place(f).offset - Len(new) + i]
          <5>1. k + i \in 1 .. Len(old) /\ new[i] = old[k + i]
            BY <1>1, <1>2, <1>3
          <5>2. \A a \in Nat : a - Len(old) + (k + i) = a - (Len(old) - k) + i
            BY <1>1
          <5>3. Place(f).offset - Len(old) + (k + i) = Place(f).offset - Len(new) + i
            BY <1>2, <4>4, <5>2
          <5> QED
            BY <4>3, <5>1, <5>3
        <4>6. Len(new) <= Place(f).offset
          BY <1>1, <1>2, <1>3, <4>3, <4>4
        <4> QED
          BY <4>1, <4>3, <4>5, <4>6
      <3>2. CASE f # fd
        <4>1. read_cache'[f] = read_cache[f]
          BY <1>1, <1>3, <3>2
        <4> QED
          BY <2>1, <4>1 DEF IInv, Ahead
      <3> QED
        BY <3>1, <3>2
    <2>2. \A f : Place(f)' = Place(f) /\ (Readable(f)' <=> Readable(f)) /\ file' = file
      BY DEF Readable, Place, Opened
    <2>3. \A f \in fds : Len(read_cache[f])' > 0 =>
            /\ Readable(f)' /\ Len(read_cache[f])' <= Place(f)'.offset
            /\ \A i \in 1 .. Len(read_cache[f])' :
                 read_cache[f][i]' = file'[Place(f)'.name][Place(f)'.offset - Len(read_cache[f])' + i]
      BY <2>1, <2>2
    <2> QED
      BY <2>3, Zenon DEF Ahead
  <1> QED
    BY <1>4, <1>5, <1>6, <1>7 DEF IInv, Library

\* The end of a call keeps the library's part.
LEMMA FinishLibrary ==
  ASSUME IInv, NEW bytes \in Seq(Byte), Finish(bytes), UNCHANGED portVars
  PROVE  Library'
  BY FinishIInv DEF Library, portVars, StringPorts, IInv, Types, TypeOK

\* __buffered_read answers from the cache.
LEMMA ReadCachedIInv ==
  ASSUME IInv, ReadCached, UNCHANGED portVars
  PROVE  IInv'
  <1>1. /\ call.fd \in fds /\ Got \in Seq(Byte) /\ Len(Cached) \in 0 .. Len(read_cache[call.fd])
    <2>1. Len(read_cache[call.fd]) \in Nat
      BY TodoOK, LenProperties
    <2> QED
      BY <2>1, TodoOK
  <1>2. Library'
    BY <1>1, FinishLibrary DEF ReadCached
  <1> QED
    BY <1>1, <1>2, TakeIInv DEF ReadCached, Unread

\* A request as large as the cache goes to the kernel; the cache is empty.
LEMMA ReadDirectlyIInv ==
  ASSUME IInv, ReadDirectly, UNCHANGED portVars
  PROVE  IInv'
  <1> DEFINE bytes == SysRead(call.fd, Left)
  <1>1. /\ call.fd \in fds /\ call.fd \in Opened /\ Readable(call.fd) /\ Left \in Nat
        /\ Got \in Seq(Byte)
    BY TodoOK DEF ReadDirectly, Readable
  <1>2. /\ bytes \in Seq(Byte) /\ Len(bytes) \in Nat
        /\ Place(call.fd).offset + Len(bytes) <= Len(file[Place(call.fd).name])
    BY <1>1, RestOK
  <1>3. /\ desc' = Advanced(call.fd, Len(bytes)) /\ Finish(Got \o bytes)
        /\ read_cache' = [read_cache EXCEPT ![call.fd] = <<>>]
        /\ UNCHANGED <<file, table, read_buffer_max>>
    BY DEF ReadDirectly
  <1>4. Library'
    <2>1. Got \o bytes \in Seq(Byte)
      BY <1>1, <1>2, ConcatProperties
    <2> QED
      BY <1>3, <2>1, FinishLibrary
  <1>5. <<>> \in Seq(Byte) /\ Len(<<>>) = 0 /\ read_buffer_max \in Nat
    BY DEF IInv, Types
  <1> HIDE DEF bytes
  <1>6. Len(<<>>) <= Len(bytes) /\ Len(<<>>) <= read_buffer_max /\ 1 .. Len(<<>>) = {}
    BY <1>2, <1>5
  <1> QED
    BY <1>1, <1>2, <1>3, <1>4, <1>5, <1>6, AdvanceIInv

\* The cache is filled; what the call does not take stays in it.
LEMMA FillIInv ==
  ASSUME IInv, Fill, UNCHANGED portVars
  PROVE  IInv'
  <1> DEFINE bytes == SysRead(call.fd, read_buffer_max)
  <1>1. /\ call.fd \in fds /\ call.fd \in Opened /\ Readable(call.fd) /\ Left \in Nat
        /\ Got \in Seq(Byte) /\ Len(Got) + Left = call.size /\ read_buffer_max \in Nat
    BY TodoOK DEF Fill, Readable, IInv, Types
  <1>2. /\ bytes \in Seq(Byte) /\ Len(bytes) \in Nat /\ Len(bytes) <= read_buffer_max
        /\ Place(call.fd).offset + Len(bytes) <= Len(file[Place(call.fd).name])
        /\ \A i \in 1 .. Len(bytes) : bytes[i] = file[Place(call.fd).name][Place(call.fd).offset + i]
    BY <1>1, RestOK
  <1>3. /\ desc' = Advanced(call.fd, Len(bytes))
        /\ read_cache' = [read_cache EXCEPT ![call.fd] = bytes]
        /\ UNCHANGED <<file, table, read_buffer_max>>
        /\ \/ Finish(Got)
           \/ call' = [call EXCEPT !.got = Got] /\ UNCHANGED <<ungetc_buf, ret>>
    BY DEF Fill
  <1>4. Library'
    <2>1. CASE Finish(Got)
      BY <1>1, <2>1, FinishLibrary
    <2>2. CASE call' = [call EXCEPT !.got = Got] /\ UNCHANGED <<ungetc_buf, ret>>
      <3>1. call \in Calls /\ call.size \in Nat /\ Len(Got) \in Nat
        BY <1>1, LenProperties DEF IInv, Types, Calls
      <3>2. call' \in Calls
        BY <1>1, <2>2, <3>1 DEF Calls
      <3>3. Len(Got) <= call.size
        BY <1>1, <3>1
      <3>4. Len(call'.got) <= call'.size
        BY <2>2, <3>1, <3>3 DEF Calls
      <3> QED
        BY <2>2, <3>2, <3>4, LibraryOK DEF Library, portVars, StringPorts, PushedBack
    <2> QED
      BY <1>3, <2>1, <2>2
  <1>5. Place(call.fd).offset \in Nat
    BY <1>1, PlaceOK
  <1> HIDE DEF bytes
  <1>6. \A i \in 1 .. Len(bytes) :
          bytes[i] = file[Place(call.fd).name][Place(call.fd).offset + Len(bytes) - Len(bytes) + i]
    <2>1. Place(call.fd).offset + Len(bytes) - Len(bytes) = Place(call.fd).offset
      BY <1>2, <1>5
    <2> QED
      BY <1>2, <2>1
  <1>7. Len(bytes) <= Len(bytes)
    BY <1>2
  <1> QED
    BY <1>1, <1>2, <1>3, <1>4, <1>6, <1>7, AdvanceIInv

\* A read of a descriptor that is not open ends, and changes no buffer.
LEMMA ReadFailsIInv ==
  ASSUME IInv, ReadFails, UNCHANGED portVars
  PROVE  IInv'
  <1>1. CASE call.op = "read"
    <2>1. ret'.op = "read" /\ call' = Idle /\ ungetc_buf' = ungetc_buf
      BY <1>1 DEF ReadFails, Finish, Return
    <2>2. Library'
      BY <2>1, IdleCall, LibraryOK DEF Library, PushedBack, portVars, StringPorts
    <2> QED
      BY <2>2, QuietIInv DEF ReadFails, Quiet, Library, IInv, Types, portVars
  <1>2. CASE call.op # "read"
    <2>1. Finish(<<>>) /\ <<>> \in Seq(Byte)
      BY <1>2 DEF ReadFails
    <2>2. Library'
      BY <2>1, FinishLibrary
    <2> QED
      BY <2>2, QuietIInv DEF ReadFails, Quiet, Library, IInv, Types, portVars
  <1> QED
    BY <1>1, <1>2

-----------------------------------------------------------------------------
(* The other calls.                                                        *)

\* A call that neither reads nor changes the ports keeps what they know.
LEMMA OtherCallLibrary ==
  ASSUME IInv, NEW op, NEW value, op # "getc", Return(op, value),
         ungetc_buf' \in [fds -> -1..255], UNCHANGED <<call, portVars>>
  PROVE  Library'
  BY LibraryOK DEF Library, Return, PushedBack, portVars, StringPorts

\* A cache may be cleared at any time: only Write and Lseek must then move
\* the kernel's offset back.
LEMMA ClearIInv ==
  ASSUME IInv, Library', NEW fd \in fds, read_cache' = ClearCache(fd),
         UNCHANGED <<file, table, desc, read_buffer_max>>
  PROVE  IInv'
  <1>1. read_cache[fd] \in Seq(Byte) /\ Len(read_cache[fd]) \in Nat
    BY LenProperties DEF IInv, Types
  <1> DEFINE k == Len(read_cache[fd])
  <1>2. SubSeq(read_cache[fd], k + 1, k) = <<>>
    BY <1>1, SubSeqEmpty
  <1>3. k \in 0 .. k
    BY <1>1
  <1> QED
    BY <1>2, <1>3, TakeIInv DEF ClearCache

\* Writing and seeking move a description, and writing makes its file no shorter.
LEMMA MoveIInv ==
  ASSUME IInv, Library', NEW fd \in Held, NEW p \in Nat, NEW s \in Seq(Byte),
         p <= Len(s), Len(file[Place(fd).name]) <= Len(s),
         s = file[Place(fd).name] \/ Writable(fd),
         file' = [file EXCEPT ![Place(fd).name] = s],
         desc' = [desc EXCEPT ![table[fd]].offset = p],
         read_cache' = ClearCache(fd), UNCHANGED <<table, read_buffer_max>>
  PROVE  IInv'
  <1> DEFINE Record == [name : Names, offset : Nat, access : {"r", "w", "rw"}]
  <1>1. /\ file \in [Names -> Seq(Byte)] /\ table \in [Opened -> 0 .. OPEN_MAX]
        /\ desc \in [Range(table) -> Record]
        /\ read_cache \in [fds -> Seq(Byte)] /\ read_buffer_max \in Nat
        /\ fd \in Opened /\ fd \in fds /\ Opened' = Opened /\ Held' = Held
    BY DEF IInv, Types, Opened, Held
  <1>2. /\ table[fd] \in Range(table) /\ Place(fd) \in Record /\ Place(fd).name \in Names
        /\ Place(fd).offset \in 0 .. Len(file[Place(fd).name])
        /\ Len(file[Place(fd).name]) \in Nat
    BY <1>1, PlaceOK
  <1>3. desc' = [desc EXCEPT ![table[fd]] = [Place(fd) EXCEPT !.offset = p]]
    BY DEF Place
  <1>4. [Place(fd) EXCEPT !.offset = p] \in Record
    BY <1>2
  <1>5. desc' \in [Range(table) -> Record] /\ file' \in [Names -> Seq(Byte)]
    <2>1. desc' \in [Range(table) -> Record]
      <3> HIDE DEF Record
      <3> QED
        BY <1>1, <1>2, <1>3, <1>4
    <2>2. file' \in [Names -> Seq(Byte)]
      BY <1>1
    <2> QED
      BY <2>1, <2>2
  <1>6. \A g \in Opened : Place(g)' = IF table[g] = table[fd] THEN [Place(fd) EXCEPT !.offset = p]
                                      ELSE Place(g)
    BY <1>1, <1>2, <1>3, PlaceOK DEF Place
  <1>7. \A g \in Opened : /\ Place(g)'.name = Place(g).name /\ Place(g)'.access = Place(g).access
                          /\ Place(g)'.offset = IF table[g] = table[fd] THEN p ELSE Place(g).offset
    <2>1. \A g \in Opened : table[g] = table[fd] => Place(g) = Place(fd)
      BY DEF Place
    <2>2. /\ [Place(fd) EXCEPT !.offset = p].name = Place(fd).name
          /\ [Place(fd) EXCEPT !.offset = p].access = Place(fd).access
          /\ [Place(fd) EXCEPT !.offset = p].offset = p
      BY <1>2
    <2> QED
      BY <1>6, <2>1, <2>2
  <1>8. \A n \in Names : Len(file[n]) <= Len(file'[n]) /\ Len(file[n]) \in Nat /\ Len(file'[n]) \in Nat
    BY <1>1, <1>2, <1>5, LenProperties
  <1>9. Types'
    BY <1>1, <1>5 DEF Types, Library, Opened, ClearCache
  <1>10. TypeOK'
    <2>1. \A d \in DOMAIN desc' : desc'[d].offset \in 0 .. Len(file'[desc'[d].name])
      <3> SUFFICES ASSUME NEW d \in Range(table)
                   PROVE  desc'[d].offset \in 0 .. Len(file'[desc'[d].name])
        BY <1>5
      <3>1. PICK g \in Opened : table[g] = d
        BY DEF Range, Opened
      <3>2. desc'[d] = Place(g)'
        BY <3>1 DEF Place
      <3>3. /\ Place(g).offset \in 0 .. Len(file[Place(g).name])
            /\ Place(g).name \in Names
        BY PlaceOK
      <3>4. CASE table[g] = table[fd]
        <4>1. desc'[d].offset = p /\ desc'[d].name = Place(fd).name
          BY <1>7, <3>2, <3>4 DEF Place
        <4>2. file'[Place(fd).name] = s
          BY <1>1, <1>2
        <4>3. Len(s) \in Nat
          BY LenProperties
        <4> QED
          BY <4>1, <4>2, <4>3
      <3>5. CASE table[g] # table[fd]
        <4>1. desc'[d].offset = Place(g).offset /\ desc'[d].name = Place(g).name
          BY <1>7, <3>2, <3>5
        <4>2. \A a, b, c \in Nat : a \in 0 .. b /\ b <= c => a \in 0 .. c
          OBVIOUS
        <4>3. Place(g).offset \in Nat
          BY <1>8, <3>3
        <4> QED
          BY <1>8, <3>3, <4>1, <4>2, <4>3
      <3> QED
        BY <3>4, <3>5
    <2>2. \A f \in fds : Len(read_cache'[f]) <= read_buffer_max'
      BY <1>1 DEF IInv, TypeOK, ClearCache
    <2>3. Opened' \subseteq 0 .. OPEN_MAX - 1 /\ DOMAIN desc' = Range(table')
      BY <1>1, <1>5 DEF IInv, TypeOK
    <2> QED
      BY <2>1, <2>2, <2>3 DEF TypeOK, Library
  <1>11. Sharing'
    <2>1. \A f, g \in Opened : f # g /\ table[f] = table[g] =>
            f \in fds /\ g \in fds /\ Place(f)'.access = "w"
      BY <1>7 DEF IInv, Sharing
    <2>2. \A f, g \in Held : table[f] # table[g] /\ Place(f)'.name = Place(g)'.name =>
            Place(f)'.access = "r"
      BY <1>7 DEF IInv, Sharing, Held
    <2>3. \A g \in Opened \ fds : Place(g)'.offset = 0
      <3>1. \A g \in Opened \ fds : table[g] # table[fd]
        BY <1>1 DEF IInv, Sharing
      <3> QED
        BY <1>7, <3>1 DEF IInv, Sharing
    <2> QED
      BY <1>1, <2>1, <2>2, <2>3 DEF Sharing
  <1>12. Ahead'
    <2>1. ASSUME NEW f \in fds, Len(read_cache'[f]) > 0
          PROVE  /\ Readable(f)' /\ Len(read_cache'[f]) <= Place(f)'.offset
                 /\ \A i \in 1 .. Len(read_cache'[f]) :
                      read_cache'[f][i] = file'[Place(f)'.name][Place(f)'.offset - Len(read_cache'[f]) + i]
      <3>1. f # fd
        BY <1>1, <2>1 DEF ClearCache
      <3>2. read_cache'[f] = read_cache[f]
        BY <1>1, <3>1 DEF ClearCache
      <3>3. /\ Readable(f) /\ f \in Opened /\ f \in Held /\ Place(f).access # "w"
            /\ Place(f).name \in Names
        BY <2>1, <3>2, PlaceOK DEF IInv, Ahead, Readable, Held
      <3>4. table[f] # table[fd]
        BY <1>1, <3>1, <3>3 DEF IInv, Sharing
      <3>5. Place(f)' = Place(f)
        BY <1>6, <3>3, <3>4
      <3>6. Readable(f)'
        BY <1>1, <3>3, <3>5 DEF Readable
      <3>7. file'[Place(f).name] = file[Place(f).name]
        <4>1. CASE Place(f).name # Place(fd).name
          BY <1>1, <1>2, <3>3, <4>1
        <4>2. CASE Place(f).name = Place(fd).name
          <5>1. Place(fd).access = "r"
            BY <3>3, <3>4, <4>2 DEF IInv, Sharing
          <5>2. s = file[Place(fd).name]
            BY <5>1 DEF Writable
          <5> QED
            BY <1>1, <1>2, <4>2, <5>2
        <4> QED
          BY <4>1, <4>2
      <3> QED
        BY <2>1, <3>2, <3>5, <3>6, <3>7 DEF IInv, Ahead
    <2> QED
      BY <2>1 DEF Ahead
  <1> QED
    BY <1>9, <1>10, <1>11, <1>12 DEF IInv, Library

\* How far the kernel's offset is ahead of the program.
LEMMA SkipOK ==
  ASSUME IInv, NEW fd \in Held
  PROVE  /\ Place(fd).offset - Skip(fd) \in Nat
         /\ Place(fd).offset - Skip(fd) <= Len(file[Place(fd).name])
  <1>1. fd \in Opened /\ fd \in fds
    BY DEF Held
  <1>2. /\ Place(fd).offset \in Nat /\ Len(file[Place(fd).name]) \in Nat
        /\ Place(fd).offset <= Len(file[Place(fd).name])
    BY <1>1, PlaceOK
  <1>3. Len(read_cache[fd]) \in Nat
    BY <1>1, LenProperties DEF IInv, Types
  <1>4. Len(read_cache[fd]) <= Place(fd).offset
    <2>1. CASE Len(read_cache[fd]) > 0
      BY <1>1, <2>1 DEF IInv, Ahead
    <2>2. CASE Len(read_cache[fd]) = 0
      BY <1>2, <2>2
    <2> QED
      BY <1>3, <2>1, <2>2
  <1> QED
    BY <1>2, <1>3, <1>4 DEF Skip

\* A byte that is put into a file replaces one, or makes it longer by one.
LEMMA PutOK ==
  ASSUME NEW s \in Seq(Byte), NEW o \in Nat, o <= Len(s), NEW b \in Byte
  PROVE  /\ Put(s, o, b) \in Seq(Byte)
         /\ Len(s) <= Len(Put(s, o, b)) /\ o + 1 <= Len(Put(s, o, b))
         /\ \A i \in 1 .. o : Put(s, o, b)[i] = s[i]
         /\ Put(s, o, b)[o + 1] = b
         /\ \A i \in o + 2 .. Len(s) : Put(s, o, b)[i] = s[i]
         /\ Len(Put(s, o, b)) = IF o = Len(s) THEN o + 1 ELSE Len(s)
  <1> DEFINE k == o + 1
             front == FirstOf(s, o)
             first == front \o <<b>>
             back == SubSeq(s, k + 1, Len(s))
  <1>1. Len(s) \in Nat /\ k \in Nat
    BY LenProperties
  <1>2. /\ front \in Seq(Byte) /\ Len(front) = o
        /\ \A i \in 1 .. o : front[i] = s[i]
    BY FirstOfSeq
  <1>3. Put(s, o, b) = first \o back
    <2>1. o + 2 = k + 1
      OBVIOUS
    <2> QED
      BY <2>1 DEF Put
  <1>4. k = o + 1
    OBVIOUS
  <1> HIDE DEF k, front
  <1>5. /\ back \in Seq(Byte)
        /\ Len(back) = IF k <= Len(s) THEN Len(s) - k ELSE 0
        /\ \A i \in 1 .. Len(s) - k : back[i] = s[k + i]
    BY <1>1, EndOfSeq
  <1> HIDE DEF back
  <1>6. /\ first \in Seq(Byte) /\ Len(first) = k
        /\ \A i \in 1 .. k : first[i] = IF i <= o THEN front[i] ELSE b
    <2>1. <<b>> \in Seq(Byte) /\ Len(<<b>>) = 1 /\ <<b>>[1] = b
      OBVIOUS
    <2>2. /\ first \in Seq(Byte) /\ Len(first) = o + 1
          /\ \A i \in 1 .. o + 1 : first[i] = IF i <= o THEN front[i] ELSE <<b>>[i - o]
      BY <1>2, <2>1, ConcatProperties
    <2>3. \A i \in 1 .. o + 1 : ~(i <= o) => i - o = 1
      OBVIOUS
    <2> QED
      BY <1>4, <2>1, <2>2, <2>3
  <1> HIDE DEF first
  <1>7. /\ Put(s, o, b) \in Seq(Byte)
        /\ Len(Put(s, o, b)) = k + Len(back)
        /\ \A i \in 1 .. k + Len(back) :
             Put(s, o, b)[i] = IF i <= k THEN first[i] ELSE back[i - k]
    <2>1. /\ first \o back \in Seq(Byte)
          /\ Len(first \o back) = Len(first) + Len(back)
          /\ \A i \in 1 .. Len(first) + Len(back) :
               (first \o back)[i] = IF i <= Len(first) THEN first[i] ELSE back[i - Len(first)]
      BY <1>5, <1>6, ConcatProperties
    <2> QED
      BY <1>3, <1>6, <2>1
  <1>8. Len(Put(s, o, b)) = IF o = Len(s) THEN o + 1 ELSE Len(s)
    <2>1. CASE o = Len(s)
      BY <1>1, <1>4, <1>5, <1>7, <2>1
    <2>2. CASE o # Len(s)
      <3>1. k <= Len(s)
        BY <1>1, <1>4, <2>2
      <3> QED
        BY <1>1, <1>5, <1>7, <2>2, <3>1
    <2> QED
      BY <2>1, <2>2
  <1>9. Len(s) <= Len(Put(s, o, b)) /\ o + 1 <= Len(Put(s, o, b))
    BY <1>1, <1>8
  <1>10. Len(back) \in Nat
    BY <1>5, LenProperties
  <1>11. \A i \in 1 .. o : Put(s, o, b)[i] = s[i]
    BY <1>2, <1>4, <1>6, <1>7, <1>10
  <1>12. Put(s, o, b)[o + 1] = b
    <2>1. o + 1 \in 1 .. k + Len(back) /\ o + 1 \in 1 .. k /\ ~(o + 1 <= o) /\ o + 1 <= k
      BY <1>4, <1>10
    <2> QED
      BY <1>6, <1>7, <2>1
  <1>13. ASSUME NEW i \in o + 2 .. Len(s) PROVE Put(s, o, b)[i] = s[i]
    <2>1. k <= Len(s)
      BY <1>1, <1>4
    <2>2. Len(back) = Len(s) - k
      BY <1>5, <2>1
    <2>3. /\ i \in 1 .. k + Len(back) /\ ~(i <= k)
          /\ i - k \in 1 .. Len(s) - k /\ k + (i - k) = i
      BY <1>1, <1>4, <2>2
    <2>4. Put(s, o, b)[i] = back[i - k]
      BY <1>7, <2>3
    <2> QED
      BY <1>5, <2>3, <2>4
  <1> QED
    BY <1>7, <1>8, <1>9, <1>11, <1>12, <1>13

\* write and its users: the cache is dropped and the offset put back before.
LEMMA WriteIInv ==
  ASSUME IInv, NEW fd \in fds, NEW b \in Bytes, Write(fd, b), UNCHANGED portVars
  PROVE  IInv'
  <1> DEFINE offset == Place(fd).offset - Skip(fd)
             name == Place(fd).name
  <1>1. Library'
    <2>1. \E value : Return("write", value)
      BY DEF Write
    <2>2. ungetc_buf' \in [fds -> -1..255] /\ UNCHANGED <<call, portVars>>
      BY DEF Write, IInv, TypeOK
    <2> QED
      BY <2>1, <2>2, OtherCallLibrary
  <1>2. read_cache' = ClearCache(fd) /\ UNCHANGED <<table, read_buffer_max>>
    BY DEF Write
  <1>3. b \in Byte
    BY DescriptorAssumption DEF Byte
  <1>4. CASE /\ Writable(fd)
             /\ file' = [file EXCEPT ![name] = Put(@, offset, b)]
             /\ desc' = [desc EXCEPT ![table[fd]].offset = offset + 1]
    <2>1. fd \in Held /\ fd \in Opened
      BY <1>4 DEF Writable, Held
    <2>2. /\ offset \in Nat /\ offset <= Len(file[name]) /\ file[name] \in Seq(Byte)
      BY <2>1, SkipOK, PlaceOK
    <2>3. /\ Put(file[name], offset, b) \in Seq(Byte)
          /\ Len(file[name]) <= Len(Put(file[name], offset, b))
          /\ offset + 1 <= Len(Put(file[name], offset, b)) /\ offset + 1 \in Nat
      <3> DEFINE t == file[name]
      <3> HIDE DEF offset, t
      <3>1. offset \in Nat /\ offset <= Len(t) /\ t \in Seq(Byte)
        BY <2>2 DEF t
      <3>2. /\ Put(t, offset, b) \in Seq(Byte) /\ Len(t) <= Len(Put(t, offset, b))
            /\ offset + 1 <= Len(Put(t, offset, b))
        BY <1>3, <3>1, PutOK
      <3> QED
        BY <3>1, <3>2 DEF t
    <2>4. file' = [file EXCEPT ![name] = Put(file[name], offset, b)]
      BY <1>4
    <2> QED
      BY <1>1, <1>2, <1>4, <2>1, <2>3, <2>4, MoveIInv
  <1>5. CASE /\ fd \in Held /\ ~Writable(fd)
             /\ desc' = [desc EXCEPT ![table[fd]].offset = offset] /\ UNCHANGED file
    <2>1. fd \in Opened
      BY <1>5 DEF Held
    <2>2. /\ offset \in Nat /\ offset <= Len(file[name]) /\ file[name] \in Seq(Byte)
          /\ Len(file[name]) <= Len(file[name])
      BY <1>5, <2>1, SkipOK, PlaceOK
    <2>3. file' = [file EXCEPT ![name] = file[name]]
      <3>1. file \in [Names -> Seq(Byte)]
        BY DEF IInv, Types
      <3> QED
        BY <1>5, <3>1
    <2> QED
      BY <1>1, <1>2, <1>5, <2>2, <2>3, MoveIInv
  <1>6. CASE fd \notin Held /\ UNCHANGED <<file, desc>>
    BY <1>1, <1>2, <1>6, ClearIInv
  <1> QED
    BY <1>4, <1>5, <1>6 DEF Write

\* lseek gives up the cache and the character pushed back.
LEMMA LseekIInv ==
  ASSUME IInv, NEW fd \in Held, NEW s \in Seeks, Lseek(fd, s[1], s[2]), UNCHANGED portVars
  PROVE  IInv'
  <1> DEFINE d == Place(fd)
             base == CASE s[1] = "set" -> 0
                       [] s[1] = "cur" -> d.offset - Skip(fd)
                       [] s[1] = "end" -> Len(file[d.name])
             to == base + s[2]
  <1>1. fd \in fds /\ fd \in Opened
    BY DEF Held
  <1>2. file[d.name] \in Seq(Byte) /\ Len(file[d.name]) \in Nat
    BY <1>1, PlaceOK
  <1>3. to \in Int
    <2>1. s[1] \in {"set", "cur", "end"} /\ s[2] \in Int
      BY DescriptorAssumption
    <2>2. d.offset - Skip(fd) \in Nat
      BY SkipOK
    <2>3. base \in Int
      BY <1>2, <2>1, <2>2
    <2> QED
      BY <2>1, <2>3
  <1>4. Library'
    <2>1. \E value : Return("lseek", value)
      BY DEF Lseek
    <2>2. ungetc_buf' \in [fds -> -1..255] /\ UNCHANGED <<call, portVars>>
      BY DEF Lseek, IInv, TypeOK
    <2> QED
      BY <2>1, <2>2, OtherCallLibrary
  <1>5. UNCHANGED <<file, table, read_buffer_max>>
    BY DEF Lseek
  <1>6. CASE UNCHANGED <<desc, read_cache>>
    BY <1>4, <1>5, <1>6, QuietIInv DEF Quiet, Library, portVars
  <1>7. CASE read_cache' = ClearCache(fd) /\ UNCHANGED desc
    BY <1>1, <1>4, <1>5, <1>7, ClearIInv
  <1>8. CASE /\ read_cache' = ClearCache(fd) /\ to <= Len(file[d.name]) /\ ~(to < 0)
             /\ desc' = [desc EXCEPT ![table[fd]].offset = to]
    <2>1. to \in Nat /\ Len(file[d.name]) <= Len(file[d.name])
      <3> HIDE DEF to, d
      <3> QED
        BY <1>2, <1>3, <1>8
    <2>2. file' = [file EXCEPT ![d.name] = file[d.name]]
      <3>1. file \in [Names -> Seq(Byte)]
        BY DEF IInv, Types
      <3> QED
        BY <1>5, <3>1
    <2> HIDE DEF to
    <2> QED
      BY <1>2, <1>4, <1>5, <1>8, <2>1, <2>2, MoveIInv
  <1> QED
    BY <1>6, <1>7, <1>8 DEF Lseek

\* Descriptors are closed, or attached to the description of another one
\* that is only written to; descriptions without a descriptor are gone.
LEMMA ReattachIInv ==
  ASSUME IInv, Library', UNCHANGED <<file, read_buffer_max>>,
         NEW D \in SUBSET (0 .. OPEN_MAX - 1), table' \in [D -> Range(table)],
         desc' = Restrict(desc, Range(table')), read_cache' \in [fds -> Seq(Byte)],
         \A f \in D : \/ f \in Opened /\ table'[f] = table[f]
                      \/ f \in fds /\ \E old \in Held : table'[f] = table[old] /\ Place(old).access = "w",
         \A f \in fds : \/ read_cache'[f] = <<>>
                        \/ /\ read_cache'[f] = read_cache[f]
                           /\ f \in Opened => f \in D /\ table'[f] = table[f]
  PROVE  IInv'
  <1> DEFINE Record == [name : Names, offset : Nat, access : {"r", "w", "rw"}]
  <1>1. /\ file \in [Names -> Seq(Byte)] /\ table \in [Opened -> 0 .. OPEN_MAX]
        /\ desc \in [Range(table) -> Record]
        /\ read_cache \in [fds -> Seq(Byte)] /\ read_buffer_max \in Nat
    BY DEF IInv, Types, Opened
  <1>2. Opened' = D /\ Held' = D \cap fds /\ DOMAIN table' = D
    BY DEF Opened, Held
  <1>3. Range(table') \subseteq Range(table) /\ Range(table) \subseteq 0 .. OPEN_MAX
    <2>1. \A f \in D : table'[f] \in Range(table)
      OBVIOUS
    <2> QED
      BY <1>1, <1>2, <2>1 DEF Range, Opened
  <1>4. desc' \in [Range(table') -> Record] /\ \A d \in Range(table') : desc'[d] = desc[d]
    <2> HIDE DEF Record
    <2>1. DOMAIN desc' = Range(table') /\ \A d \in Range(table') : desc'[d] = desc[d]
      BY Restricted
    <2>2. desc' = [d \in Range(table') |-> desc[d]]
      BY DEF Restrict
    <2> QED
      BY <1>1, <1>3, <2>1, <2>2
  <1>5. Types'
    <2>1. table' \in [D -> 0 .. OPEN_MAX]
      BY <1>3
    <2> QED
      BY <1>1, <1>2, <1>4, <2>1 DEF Types, Library, Opened
  <1>6. TypeOK'
    <2>1. \A d \in DOMAIN desc' : desc'[d].offset \in 0 .. Len(file[desc'[d].name])
      BY <1>1, <1>3, <1>4 DEF IInv, TypeOK
    <2>2. \A f \in fds : Len(read_cache'[f]) <= read_buffer_max
      <3>1. Len(<<>>) <= read_buffer_max
        BY <1>1
      <3> QED
        BY <3>1 DEF IInv, TypeOK
    <2> QED
      BY <1>2, <1>4, <2>1, <2>2 DEF TypeOK, Library
  <1>7. \A f \in D : Place(f)' = desc[table'[f]]
    <2>1. \A f \in D : table'[f] \in Range(table')
      BY <1>2 DEF Range
    <2> QED
      BY <1>4, <2>1 DEF Place
  \* Every descriptor is where one was that is its own or a writer's.
  <1>8. \A f \in D : f \in Opened /\ table'[f] = table[f] => Place(f)' = Place(f)
    BY <1>7 DEF Place
  <1>9. \A f \in D, old \in Held : table'[f] = table[old] => Place(f)' = Place(old)
    BY <1>7 DEF Place
  <1>10. Sharing'
    <2>1. ASSUME NEW f \in D, NEW g \in D, f # g, table'[f] = table'[g]
          PROVE  f \in fds /\ Place(f)'.access = "w"
      <3>1. CASE f \in Opened /\ table'[f] = table[f] /\ g \in Opened /\ table'[g] = table[g]
        <4>1. table[f] = table[g]
          BY <2>1, <3>1
        <4>2. f \in fds /\ Place(f).access = "w"
          BY <2>1, <3>1, <4>1 DEF IInv, Sharing
        <4> QED
          BY <1>8, <3>1, <4>2
      <3>2. CASE f \in fds /\ \E old \in Held : table'[f] = table[old] /\ Place(old).access = "w"
        BY <1>9, <3>2
      <3>3. CASE /\ f \in Opened /\ table'[f] = table[f]
                 /\ g \in fds /\ \E old \in Held : table'[g] = table[old] /\ Place(old).access = "w"
        <4>1. PICK old \in Held : table'[g] = table[old] /\ Place(old).access = "w"
          BY <3>3
        <4>2. table[f] = table[old] /\ Place(f)' = Place(old) /\ old \in Opened /\ old \in fds
          BY <1>9, <2>1, <3>3, <4>1 DEF Held
        <4>3. CASE f = old
          BY <4>1, <4>2, <4>3
        <4>4. CASE f # old
          BY <3>3, <4>1, <4>2, <4>4 DEF IInv, Sharing
        <4> QED
          BY <4>3, <4>4
      <3> QED
        BY <3>1, <3>2, <3>3
    <2>2. \A f \in D \cap fds : \E h \in Held : table'[f] = table[h] /\ Place(f)' = Place(h)
      BY <1>8, <1>9 DEF Held
    <2>3. ASSUME NEW f \in D \cap fds, NEW g \in D \cap fds,
                 table'[f] # table'[g], Place(f)'.name = Place(g)'.name
          PROVE  Place(f)'.access = "r"
      <3>1. PICK h \in Held : table'[f] = table[h] /\ Place(f)' = Place(h)
        BY <2>2
      <3>2. PICK i \in Held : table'[g] = table[i] /\ Place(g)' = Place(i)
        BY <2>2
      <3> QED
        BY <2>3, <3>1, <3>2 DEF IInv, Sharing
    <2>4. \A f \in D \ fds : Place(f)'.offset = 0
      BY <1>8 DEF IInv, Sharing
    <2> QED
      BY <1>2, <2>1, <2>3, <2>4 DEF Sharing
  <1>11. Ahead'
    <2>1. ASSUME NEW f \in fds, Len(read_cache'[f]) > 0
          PROVE  /\ Readable(f)' /\ Len(read_cache'[f]) <= Place(f)'.offset
                 /\ \A i \in 1 .. Len(read_cache'[f]) :
                      read_cache'[f][i] = file[Place(f)'.name][Place(f)'.offset - Len(read_cache'[f]) + i]
      <3>1. read_cache'[f] # <<>>
        BY <2>1
      <3>2. read_cache'[f] = read_cache[f]
        BY <3>1
      <3>3. Readable(f) /\ f \in Opened
        BY <2>1, <3>2 DEF IInv, Ahead, Readable
      <3>4. f \in D /\ table'[f] = table[f] /\ Place(f)' = Place(f)
        BY <1>8, <3>1, <3>2, <3>3
      <3>5. Readable(f)'
        BY <1>2, <3>3, <3>4 DEF Readable
      <3> QED
        BY <2>1, <3>2, <3>4, <3>5 DEF IInv, Ahead
    <2> QED
      BY <2>1 DEF Ahead
  <1> QED
    BY <1>5, <1>6, <1>10, <1>11 DEF IInv, Library

\* close forgets what was read ahead of the descriptor.
LEMMA CloseIInv ==
  ASSUME IInv, NEW fd \in Held, Close(fd), UNCHANGED portVars
  PROVE  IInv'
  <1> DEFINE D == Opened \ {fd}
  <1>1. fd \in fds /\ fd \in Opened
    BY DEF Held
  <1>2. Library'
    <2>1. Return("close", <<0>>) /\ UNCHANGED <<call, portVars>>
      BY DEF Close
    <2>2. ungetc_buf' \in [fds -> -1..255]
      BY <1>1, PushedOK DEF Close
    <2> QED
      BY <2>1, <2>2, OtherCallLibrary
  <1>3. /\ table \in [Opened -> 0 .. OPEN_MAX] /\ read_cache \in [fds -> Seq(Byte)]
        /\ Opened \subseteq 0 .. OPEN_MAX - 1
    BY DEF IInv, Types, TypeOK
  <1>4. /\ table' = [f \in D |-> table[f]] /\ desc' = Restrict(desc, Range(table'))
        /\ read_cache' = [read_cache EXCEPT ![fd] = <<>>]
        /\ UNCHANGED <<file, read_buffer_max>>
    BY DEF Close, ClearCache, Restrict
  <1>5. table' \in [D -> Range(table)]
    <2>1. \A f \in D : table[f] \in Range(table)
      BY DEF Range, Opened
    <2> QED
      BY <1>4, <2>1
  <1>6. \A f \in D : f \in Opened /\ table'[f] = table[f]
    BY <1>4
  <1>7. read_cache' \in [fds -> Seq(Byte)]
    BY <1>1, <1>3, <1>4
  <1>8. \A f \in fds : \/ read_cache'[f] = <<>>
                       \/ /\ read_cache'[f] = read_cache[f]
                          /\ f \in Opened => f \in D /\ table'[f] = table[f]
    BY <1>1, <1>3, <1>4, <1>6
  <1>9. D \in SUBSET (0 .. OPEN_MAX - 1)
    BY <1>3
  <1> HIDE DEF D
  <1> QED
    BY <1>2, <1>4, <1>5, <1>6, <1>7, <1>8, <1>9, ReattachIInv

\* Duplicating attaches a descriptor that is free, or that is written to.
LEMMA AttachIInv ==
  ASSUME IInv, Library', NEW old \in Held, NEW new \in fds, ~Readable(old), ~Readable(new),
         table' = With(table, new, table[old]), desc' = Restrict(desc, Range(table')),
         UNCHANGED <<file, read_cache, read_buffer_max>>
  PROVE  IInv'
  <1> DEFINE D == Opened \cup {new}
  <1>1. /\ table \in [Opened -> 0 .. OPEN_MAX] /\ read_cache \in [fds -> Seq(Byte)]
        /\ Opened \subseteq 0 .. OPEN_MAX - 1 /\ old \in Opened
    BY DEF IInv, Types, TypeOK, Held
  <1>2. table' = [f \in D |-> IF f = new THEN table[old] ELSE table[f]]
    BY DEF With, Opened
  <1>3. table' \in [D -> Range(table)]
    <2>1. \A f \in Opened : table[f] \in Range(table)
      BY DEF Range, Opened
    <2> QED
      BY <1>1, <1>2, <2>1
  <1>4. Place(old).access = "w"
    BY <1>1 DEF Readable
  <1>5. \A f \in D : \/ f \in Opened /\ table'[f] = table[f]
                     \/ f \in fds /\ \E o \in Held : table'[f] = table[o] /\ Place(o).access = "w"
    BY <1>2, <1>4
  <1>6. read_cache[new] = <<>>
    <2>1. ~(Len(read_cache[new]) > 0)
      BY DEF IInv, Ahead
    <2> QED
      BY <1>1, <2>1, EmptySeq
  <1>7. \A f \in fds : \/ read_cache'[f] = <<>>
                       \/ /\ read_cache'[f] = read_cache[f]
                          /\ f \in Opened => f \in D /\ table'[f] = table[f]
    BY <1>2, <1>6
  <1>8. D \in SUBSET (0 .. OPEN_MAX - 1)
    BY <1>1, DescriptorAssumption DEF fds
  <1>9. read_cache' \in [fds -> Seq(Byte)]
    BY <1>1
  <1> HIDE DEF D
  <1> QED
    BY <1>3, <1>5, <1>7, <1>8, <1>9, ReattachIInv

\* dup2 closes its target; neither descriptor keeps a cache.
LEMMA Dup2IInv ==
  ASSUME IInv, NEW old \in fds, NEW new \in fds, Dup2(old, new), UNCHANGED portVars
  PROVE  IInv'
  <1>1. Return("dup2", <<new>>) /\ UNCHANGED <<call, ungetc_buf>>
    BY DEF Dup2
  <1>2. Library'
    BY <1>1, OtherCallLibrary DEF IInv, TypeOK
  <1> QED
    BY <1>2, AttachIInv DEF Dup2

\* dup, likewise.
LEMMA DupIInv ==
  ASSUME IInv, NEW old \in Held, Dup(old), UNCHANGED portVars
  PROVE  IInv'
  <1> DEFINE new == Min(Free(FILEDES_MAX))
  <1>1. new \in Free(FILEDES_MAX)
    <2>1. Free(FILEDES_MAX) \subseteq Nat
      BY DescriptorAssumption DEF Free
    <2>2. Free(FILEDES_MAX) # {}
      BY DEF Dup
    <2> QED
      BY <2>1, <2>2, LeastNat
  <1>2. new \in fds /\ new \notin Opened
    BY <1>1 DEF Free, fds
  <1>3. /\ table' = With(table, new, table[old]) /\ Return("dup", <<new>>) /\ ~Readable(old)
        /\ UNCHANGED <<file, desc, ungetc_buf, read_cache, read_buffer_max, call>>
    BY DEF Dup
  <1> HIDE DEF new
  <1>4. Library'
    BY <1>3, OtherCallLibrary DEF IInv, TypeOK
  <1>5. ~Readable(new)
    BY <1>2 DEF Readable
  <1>6. desc' = Restrict(desc, Range(table'))
    <2>1. table \in [Opened -> 0 .. OPEN_MAX] /\ old \in Opened
      BY DEF IInv, Types, Held
    <2>2. table' = [f \in Opened \cup {new} |-> IF f = new THEN table[old] ELSE table[f]]
      BY <1>3 DEF With, Opened
    <2>3. Range(table') = Range(table)
      BY <1>2, <2>1, <2>2 DEF Range
    <2>4. desc = [d \in Range(table) |-> desc[d]]
      BY DEF IInv, Types
    <2> QED
      BY <1>3, <2>3, <2>4 DEF Restrict
  <1> QED
    BY <1>2, <1>3, <1>4, <1>5, <1>6, AttachIInv

\* A new description is of a file that no other descriptor of the program
\* writes, nor reads when this one writes.
LEMMA OpenIInv ==
  ASSUME IInv, NEW name \in Names, NEW access \in {"r", "w", "rw"}, NEW truncate \in BOOLEAN,
         truncate => access = "w", Open(name, access, truncate), UNCHANGED portVars
  PROVE  IInv'
  <1> DEFINE Record == [name : Names, offset : Nat, access : {"r", "w", "rw"}]
             new == [name |-> name, offset |-> 0, access |-> access]
  <1>1. Library'
    <2>1. \E value : Return("open", value)
      BY DEF Open
    <2>2. \A f \in fds : ClearPushed(f) \in [fds -> -1..255]
      BY PushedOK
    <2>3. ungetc_buf' \in [fds -> -1..255] /\ UNCHANGED <<call, portVars>>
      <3>1. ungetc_buf \in [fds -> -1..255]
        BY DEF IInv, TypeOK
      <3>2. ungetc_buf' = ungetc_buf \/ (\E f \in fds : ungetc_buf' = ClearPushed(f))
        BY DEF Open
      <3>3. UNCHANGED <<call, portVars>>
        BY DEF Open
      <3> QED
        BY <2>2, <3>1, <3>2, <3>3
    <2> QED
      BY <2>1, <2>3, OtherCallLibrary
  <1>2. CASE UNCHANGED <<file, table, desc, read_cache>>
    BY <1>1, <1>2, QuietIInv DEF Open, Quiet, Library, portVars
  <1>3. ASSUME NEW r, r = Min(Free(OPEN_MAX)), NEW d, d = NewDescription, Free(OPEN_MAX) # {},
               table' = With(table, r, d), desc' = With(desc, d, new),
               file' = [file EXCEPT ![name] = IF truncate THEN <<>> ELSE @],
               read_cache' = IF r \in fds /\ r > 2 THEN ClearCache(r) ELSE read_cache
        PROVE  IInv'
    <2>1. r \in 0 .. OPEN_MAX - 1 /\ r \notin Opened
      <3>1. Free(OPEN_MAX) \subseteq Nat
        BY DescriptorAssumption DEF Free
      <3>2. r \in Free(OPEN_MAX)
        BY <1>3, <3>1, LeastNat
      <3> QED
        BY <3>2 DEF Free
    <2>2. /\ file \in [Names -> Seq(Byte)] /\ table \in [Opened -> 0 .. OPEN_MAX]
          /\ desc \in [Range(table) -> Record]
          /\ read_cache \in [fds -> Seq(Byte)] /\ read_buffer_max \in Nat
          /\ Opened \subseteq 0 .. OPEN_MAX - 1
      BY DEF IInv, Types, TypeOK
    <2>3. d \in 0 .. OPEN_MAX /\ d \notin Range(table)
      <3>1. (0 .. OPEN_MAX) \ Range(table) # {}
        BY <2>2, DescriptorAssumption, FreeValue DEF Opened
      <3>2. d \in (0 .. OPEN_MAX) \ Range(table)
        <4> DEFINE S == (0 .. OPEN_MAX) \ Range(table)
        <4>1. S \subseteq Nat
          BY DescriptorAssumption
        <4>2. d = Min(S)
          BY <1>3 DEF NewDescription
        <4> HIDE DEF S
        <4>3. S # {}
          BY <3>1 DEF S
        <4>4. d \in S
          BY <4>1, <4>2, <4>3, LeastNat
        <4> QED
          BY <4>4 DEF S
      <3> QED
        BY <3>2
    <2>4. UNCHANGED <<peer, read_buffer_max>>
      BY DEF Open
    <2>5. Shared(name, access)
      BY DEF Open
    <2>6. read_cache' = read_cache
      <3>1. CASE r \in fds
        <4>1. ~(Len(read_cache[r]) > 0)
          BY <2>1, <3>1 DEF IInv, Ahead, Readable
        <4>2. read_cache[r] = <<>>
          BY <2>2, <3>1, <4>1, EmptySeq
        <4> QED
          BY <1>3, <2>2, <4>2 DEF ClearCache
      <3>2. CASE r \notin fds
        BY <1>3, <3>2
      <3> QED
        BY <3>1, <3>2
    <2> DEFINE D == Opened \cup {r}
    <2>7. /\ table' = [f \in D |-> IF f = r THEN d ELSE table[f]]
          /\ desc' = [e \in Range(table) \cup {d} |-> IF e = d THEN new ELSE desc[e]]
      BY <1>3, <2>2 DEF With, Opened
    <2>8. Opened' = D /\ Held' = D \cap fds
      BY <2>7 DEF Opened, Held
    <2>9. Range(table') = Range(table) \cup {d}
      <3>1. Range(table') = {table'[f] : f \in D} /\ Range(table) = {table[f] : f \in Opened}
        BY <2>8 DEF Range, Opened
      <3>2. table'[r] = d /\ \A f \in Opened : table'[f] = table[f]
        BY <2>1, <2>7
      <3> QED
        BY <3>1, <3>2
    <2>10. new \in Record /\ new.name = name /\ new.offset = 0 /\ new.access = access
      OBVIOUS
    <2> HIDE DEF new
    <2>11. /\ file' \in [Names -> Seq(Byte)]
           /\ \A n \in Names : n # name \/ ~truncate => file'[n] = file[n]
      <3>1. (IF truncate THEN <<>> ELSE file[name]) \in Seq(Byte)
        BY <2>2
      <3> QED
        BY <1>3, <2>2, <3>1
    <2>12. Types'
      <3>1. table' \in [D -> 0 .. OPEN_MAX]
        BY <2>2, <2>3, <2>7
      <3>2. desc' \in [Range(table') -> Record]
        <4> HIDE DEF Record
        <4> QED
          BY <2>2, <2>7, <2>9, <2>10
      <3> QED
        BY <1>1, <2>2, <2>4, <2>6, <2>8, <2>11, <3>1, <3>2 DEF Types, Library
    <2>13. \A g \in Opened : Place(g)' = Place(g)
      <3>1. \A g \in Opened : table'[g] = table[g] /\ table[g] \in Range(table)
        BY <2>1, <2>7 DEF Range, Opened
      <3> QED
        BY <2>3, <2>7, <3>1 DEF Place
    <2>14. Place(r)' = new
      <3>1. table'[r] = d /\ desc'[d] = new
        BY <2>7
      <3> QED
        BY <3>1 DEF Place
    \* A file that is truncated was open above __FILEDES_MAX at most.
    <2>15. \A g \in Opened : truncate /\ Place(g).name = name => g \notin fds /\ Place(g).offset = 0
      BY <2>5 DEF Shared, Held, IInv, Sharing
    <2>16. TypeOK'
      <3>1. ASSUME NEW g \in D
            PROVE  Place(g)'.offset \in 0 .. Len(file'[Place(g)'.name])
        <4>1. \A n \in Names : Len(file'[n]) \in Nat
          BY <2>11, LenProperties
        <4>2. CASE g = r
          BY <2>10, <2>14, <4>1, <4>2
        <4>3. CASE g \in Opened
          <5>1. /\ Place(g).offset \in 0 .. Len(file[Place(g).name]) /\ Place(g).name \in Names
            BY <4>3, PlaceOK
          <5>2. CASE truncate /\ Place(g).name = name
            BY <2>13, <2>15, <4>1, <4>3, <5>1, <5>2
          <5>3. CASE ~(truncate /\ Place(g).name = name)
            BY <2>11, <2>13, <4>3, <5>1, <5>3
          <5> QED
            BY <5>2, <5>3
        <4> QED
          BY <4>2, <4>3
      <3>2. \A e \in DOMAIN desc' : desc'[e].offset \in 0 .. Len(file'[desc'[e].name])
        <4> SUFFICES ASSUME NEW e \in Range(table')
                     PROVE  desc'[e].offset \in 0 .. Len(file'[desc'[e].name])
          BY <2>7, <2>9
        <4>1. PICK g \in D : table'[g] = e
          BY <2>8 DEF Range, Opened
        <4> QED
          BY <3>1, <4>1 DEF Place
      <3>3. Opened' \subseteq 0 .. OPEN_MAX - 1 /\ DOMAIN desc' = Range(table')
        BY <2>1, <2>2, <2>7, <2>8, <2>9
      <3>4. \A f \in fds : Len(read_cache'[f]) <= read_buffer_max'
        BY <2>4, <2>6 DEF IInv, TypeOK
      <3> QED
        BY <1>1, <3>2, <3>3, <3>4 DEF TypeOK, Library
    <2>17. Sharing'
      <3>1. \A g \in Opened : table'[g] = table[g] /\ table[g] # d /\ g # r
        BY <2>1, <2>3, <2>7 DEF Range, Opened
      <3>2. table'[r] = d
        BY <2>7
      <3>3. ASSUME NEW f \in D, NEW g \in D, f # g, table'[f] = table'[g]
            PROVE  f \in fds /\ g \in fds /\ Place(f)'.access = "w"
        <4>1. f \in Opened /\ g \in Opened /\ table[f] = table[g]
          BY <3>1, <3>2, <3>3
        <4> QED
          BY <2>13, <3>3, <4>1 DEF IInv, Sharing
      <3>4. ASSUME NEW f \in D \cap fds, NEW g \in D \cap fds,
                   table'[f] # table'[g], Place(f)'.name = Place(g)'.name
            PROVE  Place(f)'.access = "r"
        <4>1. CASE f = r
          <5>1. g \in Held /\ Place(g).name = name /\ new.access = access
            BY <2>10, <2>13, <2>14, <3>2, <3>4, <4>1 DEF Held
          <5> QED
            BY <2>5, <2>10, <2>14, <4>1, <5>1 DEF Shared
        <4>2. CASE g = r /\ f # r
          <5>1. f \in Held /\ Place(f).name = name
            BY <2>10, <2>13, <2>14, <3>4, <4>2 DEF Held
          <5> QED
            BY <2>5, <2>13, <4>2, <5>1 DEF Shared
        <4>3. CASE f # r /\ g # r
          <5>1. f \in Held /\ g \in Held /\ table[f] # table[g] /\ Place(f).name = Place(g).name
            BY <2>13, <3>1, <3>4, <4>3 DEF Held
          <5>2. Place(f).access = "r"
            BY <5>1 DEF IInv, Sharing
          <5> QED
            BY <2>13, <4>3, <5>2
        <4> QED
          BY <4>1, <4>2, <4>3
      <3>5. \A f \in D \ fds : Place(f)'.offset = 0
        BY <2>10, <2>13, <2>14 DEF IInv, Sharing
      <3> QED
        BY <2>8, <3>3, <3>4, <3>5 DEF Sharing
    <2>18. Ahead'
      <3>1. ASSUME NEW f \in fds, Len(read_cache[f]) > 0
            PROVE  /\ Readable(f)' /\ Len(read_cache[f]) <= Place(f)'.offset
                   /\ \A i \in 1 .. Len(read_cache[f]) :
                        read_cache[f][i] = file'[Place(f)'.name][Place(f)'.offset - Len(read_cache[f]) + i]
        <4>1. Readable(f) /\ f \in Opened /\ Place(f)' = Place(f) /\ Place(f).name \in Names
          BY <2>13, <3>1, PlaceOK DEF IInv, Ahead, Readable
        <4>2. Readable(f)'
          BY <2>8, <4>1 DEF Readable
        <4>3. file'[Place(f).name] = file[Place(f).name]
          BY <2>11, <2>15, <4>1
        <4> QED
          BY <3>1, <4>1, <4>2, <4>3 DEF IInv, Ahead
      <3> QED
        BY <2>6, <3>1 DEF Ahead
    <2> QED
      BY <2>12, <2>16, <2>17, <2>18, <1>1 DEF IInv, Library
  <1> QED
    BY <1>2, <1>3 DEF Open

\* The other process writes behind all that was read.
LEMMA PeerWritesIInv ==
  ASSUME IInv, NEW b \in Bytes, PeerWrites(b), UNCHANGED portVars
  PROVE  IInv'
  <1>1. /\ file \in [Names -> Seq(Byte)] /\ b \in Byte /\ Pipe \in Names
        /\ file' = [file EXCEPT ![Pipe] = Append(@, b)]
        /\ UNCHANGED <<table, desc, ungetc_buf, read_cache, read_buffer_max, call, ret, portVars>>
    BY DescriptorAssumption DEF IInv, Types, PeerWrites, Byte
  <1>2. /\ file' \in [Names -> Seq(Byte)]
        /\ \A n \in Names : /\ Len(file[n]) \in Nat /\ Len(file'[n]) \in Nat
                            /\ Len(file[n]) <= Len(file'[n])
                            /\ \A i \in 1 .. Len(file[n]) : file'[n][i] = file[n][i]
    <2>1. file[Pipe] \in Seq(Byte) /\ Len(file[Pipe]) \in Nat
      BY <1>1, LenProperties
    <2>2. /\ Append(file[Pipe], b) \in Seq(Byte)
          /\ Len(Append(file[Pipe], b)) = Len(file[Pipe]) + 1
          /\ \A i \in 1 .. Len(file[Pipe]) : Append(file[Pipe], b)[i] = file[Pipe][i]
      BY <1>1, <2>1, AppendProperties
    <2>3. file' \in [Names -> Seq(Byte)]
      BY <1>1, <2>2
    <2>4. ASSUME NEW n \in Names
          PROVE  /\ Len(file[n]) \in Nat /\ Len(file'[n]) \in Nat
                 /\ Len(file[n]) <= Len(file'[n])
                 /\ \A i \in 1 .. Len(file[n]) : file'[n][i] = file[n][i]
      <3>1. CASE n = Pipe
        <4>1. file'[n] = Append(file[Pipe], b)
          BY <1>1, <3>1
        <4> QED
          BY <2>1, <2>2, <3>1, <4>1
      <3>2. CASE n # Pipe
        <4>1. file'[n] = file[n] /\ Len(file[n]) \in Nat
          BY <1>1, <3>2, LenProperties
        <4> QED
          BY <4>1
      <3> QED
        BY <3>1, <3>2
    <2> QED
      BY <2>3, <2>4
  <1>3. Types'
    BY <1>1, <1>2 DEF IInv, Types, Opened, portVars
  <1>4. TypeOK'
    <2>1. ASSUME NEW d \in DOMAIN desc
          PROVE  desc[d].offset \in 0 .. Len(file'[desc[d].name])
      <3>1. desc[d].offset \in 0 .. Len(file[desc[d].name]) /\ desc[d].name \in Names
        BY DEF IInv, TypeOK, Types
      <3> QED
        BY <1>2, <3>1
    <2> QED
      BY <1>1, <2>1 DEF IInv, TypeOK, Opened, portVars, StringPorts
  <1>5. Sharing'
    BY <1>1 DEF IInv, Sharing, Held, Opened, Place
  <1>6. Ahead'
    <2>1. ASSUME NEW f \in fds, Len(read_cache[f]) > 0
          PROVE  /\ Readable(f) /\ Len(read_cache[f]) <= Place(f).offset
                 /\ \A i \in 1 .. Len(read_cache[f]) :
                      read_cache[f][i] = file'[Place(f).name][Place(f).offset - Len(read_cache[f]) + i]
      <3>1. /\ Readable(f) /\ Len(read_cache[f]) <= Place(f).offset
            /\ \A i \in 1 .. Len(read_cache[f]) :
                 read_cache[f][i] = file[Place(f).name][Place(f).offset - Len(read_cache[f]) + i]
        BY <2>1 DEF IInv, Ahead
      <3>2. /\ Place(f).name \in Names /\ Place(f).offset \in Nat
            /\ Place(f).offset <= Len(file[Place(f).name]) /\ Len(file[Place(f).name]) \in Nat
        BY <3>1, PlaceOK DEF Readable
      <3>3. Len(read_cache[f]) \in Nat
        BY LenProperties DEF IInv, Types
      <3>4. \A i \in 1 .. Len(read_cache[f]) :
              Place(f).offset - Len(read_cache[f]) + i \in 1 .. Len(file[Place(f).name])
        BY <3>1, <3>2, <3>3
      <3>5. \A i \in 1 .. Len(file[Place(f).name]) : file'[Place(f).name][i] = file[Place(f).name][i]
        BY <1>2, <3>2
      <3> QED
        BY <3>1, <3>4, <3>5
    <2>2. \A f \in fds : Place(f)' = Place(f) /\ (Readable(f)' <=> Readable(f))
      BY <1>1 DEF Place, Readable, Opened
    <2> QED
      BY <1>1, <2>1, <2>2 DEF Ahead
  <1>7. PushedBack'
    BY <1>1 DEF IInv, PushedBack, portVars
  <1> QED
    BY <1>3, <1>4, <1>5, <1>6, <1>7 DEF IInv

\* The other end of the pipe closes.
LEMMA PeerClosesIInv ==
  ASSUME IInv, PeerCloses, UNCHANGED portVars
  PROVE  IInv'
  BY QuietIInv DEF PeerCloses, Quiet, IInv, Types, TypeOK, portVars, StringPorts, PushedBack

-----------------------------------------------------------------------------
(* All steps.                                                              *)

\* The procedures on ports, the library's functions and the environment.
LEMMA SchemeNextIInv ==
  ASSUME IInv, SchemeNext
  PROVE  IInv'
  <1>1. CASE PeekChar
    BY <1>1, PeekCharIInv
  <1>2. CASE \E port \in Held \cup StringPorts : ReadChar(port)
    BY <1>2, ReadCharIInv
  <1>3. CASE ret.op = "getc" /\ UnreadChar(ret.value[1])
    BY <1>3, UnreadCharIInv
  <1>4. CASE \E text \in Texts : OpenInputString(text)
    BY <1>4, OpenInputStringIInv
  <1>5. CASE \E port \in Held \cup StringPorts : SetCurrentInputPort(port)
    BY <1>5, SetCurrentInputPortIInv
  <1>6. CASE \E c \in Bytes, port \in Writing : WriteByte(c, port)
    <2>1. PICK c \in Bytes, port \in Writing : WriteByte(c, port)
      BY <1>6
    <2>2. (IF port = 1 THEN stdout ELSE port) \in fds
      BY DEF Writing, Held, IInv, Types
    <2> QED
      BY <2>1, <2>2, WriteIInv DEF WriteByte
  <1>7. CASE \E port \in Held : SetCurrentOutputPort(port)
    BY <1>7, SetCurrentOutputPortIInv
  <1> QED
    BY <1>1, <1>2, <1>3, <1>4, <1>5, <1>6, <1>7 DEF SchemeNext

LEMMA FileNextIInv ==
  ASSUME IInv, FileNext
  PROVE  IInv'
  <1>1. CASE \E name \in uses.files \ {Pipe} : OpenInputFile(name) \/ OpenOutputFile(name) \/ OpenFile(name)
    <2>1. PICK name \in uses.files : OpenInputFile(name) \/ OpenOutputFile(name) \/ OpenFile(name)
      BY <1>1
    <2>2. name \in Names
      BY PortAssumption DEF IInv, Types
    <2> QED
      BY <2>1, <2>2, OpenIInv DEF OpenInputFile, OpenOutputFile, OpenFile
  <1>2. CASE \E port \in Held, s \in Seeks : SeekPort(port, s[1], s[2])
    BY <1>2, LseekIInv DEF SeekPort
  <1>3. CASE \E port \in Held \cap uses.closes : ClosePort(port)
    BY <1>3, CloseIInv DEF ClosePort
  <1>4. CASE \E old \in Held : DupPort(old)
    BY <1>4, DupIInv DEF DupPort
  <1>5. CASE \E old, new \in fds : Dup2Port(old, new)
    BY <1>5, Dup2IInv DEF Dup2Port
  <1> QED
    BY <1>1, <1>2, <1>3, <1>4, <1>5 DEF FileNext

LEMMA LibraryNextIInv ==
  ASSUME IInv, LibraryNext
  PROVE  IInv'
  BY ReadIInv, FreadIInv DEF LibraryNext, Held

LEMMA ReadOnIInv ==
  ASSUME IInv, ReadOn
  PROVE  IInv'
  BY ReadCachedIInv, ReadDirectlyIInv, FillIInv, ReadFailsIInv DEF ReadOn, BufferedRead

LEMMA EnvironmentIInv ==
  ASSUME IInv, Environment
  PROVE  IInv'
  BY PeerWritesIInv, PeerClosesIInv DEF Environment

\* IInv is an inductive invariant of the ports.
LEMMA NextIInv == IInv /\ [Next]_vars => IInv'
  <1> SUFFICES ASSUME IInv, [Next]_vars PROVE IInv'
    OBVIOUS
  <1>1. CASE Next
    BY <1>1, SchemeNextIInv, FileNextIInv, LibraryNextIInv, ReadOnIInv, EnvironmentIInv DEF Next
  <1>2. CASE UNCHANGED vars
    BY <1>2, QuietIInv
    DEF vars, descriptorVars, portVars, Quiet, IInv, Types, TypeOK, StringPorts, PushedBack
  <1> QED
    BY <1>1, <1>2

\* The inductive invariant holds in every behaviour.
THEOREM Invariance == Spec => []IInv
  BY InitIInv, NextIInv, PTL DEF Spec

\* The kernel's tables and those of the library agree in every state: offsets
\* are in their files, and slots and caches hold what they have room for.
THEOREM TypeCorrect == Spec => []TypeOK
  <1>1. IInv => TypeOK
    BY DEF IInv
  <1> QED
    BY <1>1, Invariance, PTL

\* What __buffered_read keeps of a descriptor are the bytes of its file that
\* come next for the program, after any write, seek, close, open or dup.
THEOREM CachesAreCoherent == Spec => []CacheIsPartOfTheFile
  <1>1. IInv => CacheIsPartOfTheFile
    <2> SUFFICES ASSUME IInv, NEW fd \in fds, read_cache[fd] # <<>>
                 PROVE  /\ Readable(fd)
                        /\ read_cache[fd] = SubSeq(file[Place(fd).name],
                                                   Place(fd).offset - Len(read_cache[fd]) + 1, Place(fd).offset)
      BY DEF CacheIsPartOfTheFile
    <2> DEFINE c == read_cache[fd]
               o == Place(fd).offset
               s == file[Place(fd).name]
    <2>1. c \in Seq(Byte) /\ Len(c) \in Nat /\ Len(c) > 0
      BY LenProperties, EmptySeq DEF IInv, Types
    <2>2. /\ Readable(fd) /\ Len(c) <= o
          /\ \A i \in 1 .. Len(c) : c[i] = s[o - Len(c) + i]
      BY <2>1 DEF IInv, Ahead
    <2>3. s \in Seq(Byte) /\ Len(s) \in Nat /\ o \in Nat /\ o <= Len(s)
      BY <2>2, PlaceOK DEF Readable
    <2> HIDE DEF c, o, s
    <2> DEFINE m == o - Len(c) + 1
    <2>4. m \in Int /\ m \in 1 .. o /\ o - m + 1 = Len(c)
      BY <2>1, <2>2, <2>3
    <2>5. \A i \in m .. o : s[i] \in Byte
      BY <2>3, <2>4, ElementOfSeq
    <2>6. \A i \in 1 .. Len(c) : m + i - 1 = o - Len(c) + i
      BY <2>1, <2>3
    <2> HIDE DEF m
    <2>7. /\ SubSeq(s, m, o) \in Seq(Byte)
          /\ Len(SubSeq(s, m, o)) = Len(c)
          /\ \A i \in 1 .. Len(c) : SubSeq(s, m, o)[i] = s[m + i - 1]
      BY <2>3, <2>4, <2>5, SubSeqProperties
    <2>8. \A i \in 1 .. Len(c) : SubSeq(s, m, o)[i] = c[i]
      BY <2>2, <2>6, <2>7
    <2>9. SubSeq(s, m, o) = c
      BY <2>1, <2>7, <2>8, SeqEqual
    <2> QED
      BY <2>2, <2>9 DEF c, o, s, m
  <1> QED
    BY <1>1, Invariance, PTL

-----------------------------------------------------------------------------
\* The read in progress asks for something.
Progress ==
  call # Idle =>
    /\ call.op # "none" /\ call.size > 0
    /\ call.op # "fread" => call.first = <<>>
    /\ call.op \in {"getc", "peek"} => call.size = 1

\* What it has copied was before the cache in the file.
Copied ==
  Len(call.got) > 0 =>
    /\ Readable(call.fd)
    /\ Len(call.got) + Len(read_cache[call.fd]) <= Place(call.fd).offset
    /\ \A i \in 1 .. Len(call.got) :
         call.got[i] = file[Place(call.fd).name]
                           [Place(call.fd).offset - Len(read_cache[call.fd]) - Len(call.got) + i]

\* Nothing is pushed back on a descriptor that is not open.
Emptied == \A fd \in fds : fd \notin Opened => ungetc_buf[fd] = -1

\* With IInv: a read in progress has copied what comes next in the file.
JInv == Progress /\ Copied /\ Emptied /\ peer \in {"open", "closed"}

\* The idle call has copied nothing.
LEMMA NothingGot == Idle.got = <<>> /\ Len(Idle.got) = 0
  BY DEF Idle

\* Nothing is in progress after most steps.
LEMMA IdleJInv ==
  ASSUME JInv, call' = Idle, Emptied', peer' \in {"open", "closed"}
  PROVE  JInv'
<1>1. Progress'  BY DEF Progress
<1>2. Copied'  BY NothingGot DEF Copied
<1> QED  BY <1>1, <1>2 DEF JInv

\* A call begins with nothing.
LEMMA BeginJInv ==
  ASSUME JInv, NEW op \in {"read", "fread", "getc", "peek"}, NEW fd, NEW n \in Nat, NEW first,
         n > 0, op # "fread" => first = <<>>, op \in {"getc", "peek"} => n = 1,
         Call(op, fd, n, first), Emptied', peer' = peer
  PROVE  JInv'
<1>1. /\ call'.op = op /\ call'.size = n /\ call'.first = first /\ call'.got = <<>>  BY DEF Call
<1>2. Progress'  BY <1>1 DEF Progress
<1>3. Copied'
  <2>1. Len(call'.got) = 0  BY <1>1
  <2> QED  BY <2>1 DEF Copied
<1> QED  BY <1>2, <1>3 DEF JInv

\* The slots of descriptors that are not open stay empty.
LEMMA SlotsJInv ==
  ASSUME IInv, JInv, UNCHANGED table, NEW fd \in fds, NEW b \in -1 .. 255,
         b = -1 \/ fd \in Opened \/ b = ungetc_buf[fd],
         ungetc_buf' = [ungetc_buf EXCEPT ![fd] = b]
  PROVE  Emptied'
<1>1. ungetc_buf \in [fds -> -1 .. 255]  BY DEF IInv, TypeOK
<1>2. ASSUME NEW g \in fds, g \notin Opened PROVE ungetc_buf'[g] = -1
  <2>1. ungetc_buf[g] = -1  BY <1>2 DEF JInv, Emptied
  <2> QED  BY <1>1, <1>2, <2>1
<1> QED  BY <1>2 DEF Emptied, Opened

\* The end of a call leaves no read in progress, and a peek pushes back on a
\* descriptor that is open.
LEMMA FinishJInv ==
  ASSUME IInv, JInv, NEW bytes \in Seq(Byte), Finish(bytes), UNCHANGED <<table, peer>>,
         Readable(call.fd) \/ bytes = <<>>
  PROVE  JInv'
<1> DEFINE value == IF call.op \in {"getc", "peek"} /\ bytes = <<>> THEN Error ELSE bytes
<1>1. /\ call' = Idle
      /\ ungetc_buf' = IF call.op = "peek" THEN [ungetc_buf EXCEPT ![call.fd] = value[1]]
                       ELSE ungetc_buf
  BY DEF Finish
<1>2. call.fd \in fds /\ ungetc_buf \in [fds -> -1 .. 255]  BY DEF IInv, Types, Calls, TypeOK
<1> HIDE DEF value
<1>3. Emptied'
  <2>1. CASE call.op # "peek"
    BY <1>1, <2>1 DEF JInv, Emptied, Opened
  <2>2. CASE call.op = "peek" /\ bytes = <<>>
    <3>1. value[1] = -1  BY <2>2 DEF Error, value
    <3>2. ungetc_buf' = [ungetc_buf EXCEPT ![call.fd] = -1]  BY <1>1, <2>2, <3>1
    <3>3. -1 \in -1 .. 255  OBVIOUS
    <3> QED  BY <1>2, <3>2, <3>3, SlotsJInv
  <2>3. CASE call.op = "peek" /\ bytes # <<>>
    <3>0. value = bytes  BY <2>3 DEF value
    <3>1. 1 \in 1 .. Len(bytes)  BY <2>3, EmptySeq
    <3>2. bytes[1] \in -1 .. 255
      <4>1. bytes[1] \in Byte  BY <3>1, ElementOfSeq
      <4> QED  BY <4>1 DEF Byte
    <3>3. call.fd \in Opened  BY <2>3 DEF Readable
    <3>4. ungetc_buf' = [ungetc_buf EXCEPT ![call.fd] = bytes[1]]  BY <1>1, <2>3, <3>0
    <3> QED  BY <1>2, <3>2, <3>3, <3>4, SlotsJInv
  <2> QED  BY <2>1, <2>2, <2>3
<1> QED  BY <1>1, <1>3, IdleJInv DEF JInv

\* Who has copied or cached something can read.
LEMMA GotReadable ==
  ASSUME IInv, JInv, Got # <<>>
  PROVE  Readable(call.fd)
<1>1. /\ call.fd \in fds /\ read_cache[call.fd] \in Seq(Byte) /\ Cached \in Seq(Byte)
      /\ Len(Cached) <= Len(read_cache[call.fd]) /\ Len(Cached) \in Nat
  BY TodoOK
<1>2. call.got \in Seq(Byte) /\ Len(call.got) \in Nat  BY LenProperties DEF IInv, Types, Calls
<1>3. CASE Len(call.got) > 0  BY <1>3 DEF JInv, Copied
<1>4. CASE Len(call.got) = 0
  <2>1. call.got = <<>>  BY <1>2, <1>4, EmptySeq
  <2>2. Got = Cached  BY <1>1, <2>1 DEF Got
  <2>3. Len(Cached) > 0  BY <1>1, <2>2, EmptySeq
  <2>4. Len(read_cache[call.fd]) > 0  BY <1>1, <2>3, LenProperties
  <2> QED  BY <1>1, <2>4 DEF IInv, Ahead
<1> QED  BY <1>2, <1>3, <1>4

\* A descriptor that cannot be read has nothing in its cache.
LEMMA NothingCached ==
  ASSUME IInv, NEW fd \in fds, ~Readable(fd)
  PROVE  read_cache[fd] = <<>> /\ Len(read_cache[fd]) = 0
<1>1. read_cache[fd] \in Seq(Byte) /\ Len(read_cache[fd]) \in Nat  BY LenProperties DEF IInv, Types
<1>2. ~(Len(read_cache[fd]) > 0)  BY DEF IInv, Ahead
<1>3. Len(read_cache[fd]) = 0  BY <1>1, <1>2
<1> QED  BY <1>1, <1>3, EmptySeq

\* While the cache is filled, what is copied is what was cached.
LEMMA GotIsCopied ==
  ASSUME IInv, JInv, call # Idle
  PROVE  /\ Got \in Seq(Byte) /\ Len(Got) = Len(call.got) + Len(Cached)
         /\ Len(Got) > 0 =>
              /\ Readable(call.fd) /\ call.fd \in Opened
              /\ Len(call.got) + Len(read_cache[call.fd]) <= Place(call.fd).offset
         /\ \A i \in 1 .. Len(Got) :
              Got[i] = file[Place(call.fd).name]
                           [Place(call.fd).offset - Len(read_cache[call.fd]) - Len(call.got) + i]
<1> DEFINE c == read_cache[call.fd]
           g == call.got
           s == file[Place(call.fd).name]
           o == Place(call.fd).offset
<1>1. /\ call.fd \in fds /\ c \in Seq(Byte) /\ Cached \in Seq(Byte) /\ Len(c) \in Nat
      /\ Len(Cached) <= Len(c) /\ Len(Cached) \in Nat
  BY TodoOK, LenProperties
<1>2. g \in Seq(Byte) /\ Len(g) \in Nat  BY LenProperties DEF IInv, Types, Calls
<1>3. /\ Got \in Seq(Byte) /\ Len(Got) = Len(g) + Len(Cached)
      /\ \A i \in 1 .. Len(g) : Got[i] = g[i]
      /\ \A i \in Len(g) + 1 .. Len(g) + Len(Cached) : i - Len(g) \in 1 .. Len(Cached) /\ Got[i] = Cached[i - Len(g)]
  BY <1>1, <1>2, Joined DEF Got
<1>4. \A i \in 1 .. Len(Cached) : Cached[i] = c[i]
  <2>1. Todo \in Nat
    BY <1>2 DEF Todo, IInv, Types, TypeOK, Calls
  <2> QED  BY <1>1, <2>1, FirstOfSeq DEF Cached
<1>5. Len(Got) > 0 => Readable(call.fd)
  <2>1. Len(Got) > 0 => Got # <<>>  BY EmptySeq
  <2> QED  BY <2>1, GotReadable
<1>6. Len(g) > 0 => /\ Len(g) + Len(c) <= o
                    /\ \A i \in 1 .. Len(g) : g[i] = s[o - Len(c) - Len(g) + i]
  BY DEF JInv, Copied
<1>7. Len(c) > 0 => /\ Len(c) <= o
                    /\ \A i \in 1 .. Len(c) : c[i] = s[o - Len(c) + i]
  BY <1>1 DEF IInv, Ahead
<1>8. Len(Got) > 0 => call.fd \in Opened /\ o \in Nat
  BY <1>5, PlaceOK DEF Readable
<1> HIDE DEF c, g, s, o
<1>9. Len(Got) > 0 => Len(g) + Len(c) <= o
  BY <1>1, <1>2, <1>3, <1>6, <1>7, <1>8
<1>10. ASSUME NEW i \in 1 .. Len(Got) PROVE Got[i] = s[o - Len(c) - Len(g) + i]
  <2>1. o \in Nat /\ i \in Int  BY <1>1, <1>2, <1>3, <1>8, <1>10
  <2>2. CASE i <= Len(g)
    <3>1. i \in 1 .. Len(g) /\ Len(g) > 0  BY <1>2, <2>2
    <3> QED  BY <1>3, <1>6, <3>1
  <2>3. CASE i > Len(g)
    <3>1. i \in Len(g) + 1 .. Len(g) + Len(Cached)  BY <1>1, <1>2, <1>3, <2>3
    <3>2. i - Len(g) \in 1 .. Len(Cached) /\ Got[i] = Cached[i - Len(g)]  BY <1>3, <3>1
    <3>3. i - Len(g) \in 1 .. Len(c) /\ Len(c) > 0  BY <1>1, <1>2, <3>2
    <3>4. Got[i] = s[o - Len(c) + (i - Len(g))]  BY <1>4, <1>7, <3>2, <3>3
    <3>5. o - Len(c) + (i - Len(g)) = o - Len(c) - Len(g) + i  BY <1>1, <1>2, <2>1
    <3> QED  BY <3>4, <3>5
  <2> QED  BY <1>2, <2>1, <2>2, <2>3
<1> QED  BY <1>3, <1>5, <1>8, <1>9, <1>10 DEF c, g, s, o

\* A read that wants more than the cache has takes all of it.
LEMMA AllCached ==
  ASSUME IInv, Left > 0
  PROVE  Cached = read_cache[call.fd] /\ Len(Cached) = Len(read_cache[call.fd])
<1> DEFINE c == read_cache[call.fd]
<1>1. /\ c \in Seq(Byte) /\ Cached \in Seq(Byte) /\ Len(c) \in Nat /\ Len(Cached) \in Nat
  BY TodoOK, LenProperties
<1>2. Todo \in Nat
  <2>1. Len(call.got) \in Nat  BY LenProperties DEF IInv, Types, Calls
  <2> QED  BY <2>1 DEF Todo, IInv, Types, TypeOK, Calls
<1>3. Len(Cached) = (IF Todo <= Len(c) THEN Todo ELSE Len(c)) /\ \A i \in 1 .. Len(Cached) : Cached[i] = c[i]
  BY <1>1, <1>2, FirstOfSeq DEF Cached
<1>4. Todo - Len(Cached) > 0  BY DEF Left
<1> HIDE DEF c
<1>5. Len(Cached) = Len(c)  BY <1>1, <1>2, <1>3, <1>4
<1>6. Cached = c  BY <1>1, <1>3, <1>5, SeqEqual
<1> QED  BY <1>5, <1>6 DEF c

\* One invocation of __buffered_read.
LEMMA ReadOnJInv ==
  ASSUME IInv, JInv, IInv', ReadOn
  PROVE  JInv'
<1>1. CASE ReadCached
  <2>1. Got \in Seq(Byte)  BY TodoOK
  <2>2. Readable(call.fd) \/ Got = <<>>  BY GotReadable
  <2> QED  BY <1>1, <2>1, <2>2, FinishJInv DEF ReadCached
<1>2. CASE ReadDirectly
  <2> DEFINE bytes == SysRead(call.fd, Left)
  <2>1. bytes \in Seq(Byte) /\ Got \in Seq(Byte)
    <3>1. call.fd \in Opened /\ Left \in Nat  BY <1>2, TodoOK DEF ReadDirectly, Readable
    <3> QED  BY <3>1, TodoOK, RestOK
  <2> HIDE DEF bytes
  <2>2. Got \o bytes \in Seq(Byte)  BY <2>1, Joined
  <2>3. Finish(Got \o bytes) /\ UNCHANGED <<table, peer>> /\ Readable(call.fd)
    BY <1>2 DEF ReadDirectly, bytes
  <2> QED  BY <2>2, <2>3, FinishJInv
<1>3. CASE ReadFails
  <2>1. CASE call.op = "read"
    <3>1. call' = Idle /\ UNCHANGED <<table, peer, ungetc_buf>>
      BY <1>3, <2>1 DEF ReadFails, Finish
    <3>2. Emptied'  BY <3>1 DEF JInv, Emptied, Opened
    <3> QED  BY <3>1, <3>2, IdleJInv DEF JInv
  <2>2. CASE call.op # "read"
    <3>1. Finish(<<>>) /\ UNCHANGED <<table, peer>> /\ <<>> \in Seq(Byte)  BY <1>3, <2>2 DEF ReadFails
    <3> QED  BY <3>1, FinishJInv
  <2> QED  BY <2>1, <2>2
<1>4. CASE Fill
  <2> DEFINE bytes == SysRead(call.fd, read_buffer_max)
  <2>1. /\ Readable(call.fd) /\ UNCHANGED <<table, file, peer, read_buffer_max>> /\ call # Idle
        /\ desc' = Advanced(call.fd, Len(bytes))
        /\ read_cache' = [read_cache EXCEPT ![call.fd] = bytes]
        /\ \/ Finish(Got)
           \/ call' = [call EXCEPT !.got = Got] /\ UNCHANGED ungetc_buf
        /\ Left > 0
    BY <1>4 DEF Fill
  <2>2. call.fd \in Opened /\ call.fd \in fds /\ read_buffer_max \in Nat
    BY <2>1, TodoOK DEF Readable, IInv, Types
  <2>3. /\ bytes \in Seq(Byte) /\ Len(bytes) \in Nat
    BY <2>2, RestOK
  <2> HIDE DEF bytes
  <2>4. CASE Finish(Got)
    BY <2>1, <2>4, TodoOK, FinishJInv
  <2>5. CASE call' = [call EXCEPT !.got = Got] /\ UNCHANGED ungetc_buf
    <3>1. /\ call \in Calls /\ Got \in Seq(Byte)  BY TodoOK DEF IInv, Types
    <3>2. /\ call'.op = call.op /\ call'.fd = call.fd /\ call'.size = call.size
          /\ call'.first = call.first /\ call'.got = Got
      BY <2>5, <3>1 DEF Calls
    <3>3. Progress'  BY <2>1, <3>2 DEF JInv, Progress
    <3>4. Emptied'  BY <2>1, <2>5 DEF JInv, Emptied, Opened
    <3>5. Cached = read_cache[call.fd] /\ Len(Cached) = Len(read_cache[call.fd])
      BY <2>1, AllCached
    <3>6. ASSUME Len(Got) > 0
          PROVE  /\ Readable(call.fd)'
                 /\ Len(Got) + Len(read_cache'[call.fd]) <= Place(call.fd)'.offset
                 /\ Place(call.fd)'.offset = Place(call.fd).offset + Len(bytes)
                 /\ Place(call.fd)'.name = Place(call.fd).name
                 /\ Len(read_cache'[call.fd]) = Len(bytes)
      <4>1. /\ table' = table /\ read_cache' = [read_cache EXCEPT ![call.fd] = bytes]
            /\ desc' = [desc EXCEPT ![table[call.fd]].offset = @ + Len(bytes)]
        BY <2>1 DEF Advanced
      <4>2. read_cache \in [fds -> Seq(Byte)]  BY DEF IInv, Types
      <4>3. /\ table[call.fd] \in DOMAIN desc /\ desc[table[call.fd]] = Place(call.fd)
            /\ Place(call.fd) \in [name : Names, offset : Nat, access : {"r", "w", "rw"}]
        BY <2>2, PlaceOK
      <4>4. /\ desc'[table[call.fd]].offset = Place(call.fd).offset + Len(bytes)
            /\ desc'[table[call.fd]].name = Place(call.fd).name
            /\ desc'[table[call.fd]].access = Place(call.fd).access
        BY <4>1, <4>3
      <4>5. read_cache'[call.fd] = bytes  BY <2>2, <4>1, <4>2
      <4>6. Place(call.fd)' = desc'[table[call.fd]] 
        BY <3>2, <4>1 DEF Place
      <4>7. Len(Got) <= Place(call.fd).offset
        BY <3>5, <3>6, GotIsCopied, <2>1
      <4>8. Len(Got) \in Nat  BY <3>1, LenProperties
      <4>9. Readable(call.fd)'
        BY <2>1, <2>2, <3>2, <4>1, <4>4, <4>6 DEF Readable, Opened
      <4> QED  BY <2>3, <4>3, <4>4, <4>5, <4>6, <4>7, <4>8, <4>9
    <3>7. Copied'
      <4> SUFFICES ASSUME Len(Got) > 0
                   PROVE  /\ Readable(call.fd)'
                          /\ Len(Got) + Len(read_cache'[call.fd]) <= Place(call.fd)'.offset
                          /\ \A i \in 1 .. Len(Got) :
                               Got[i] = file'[Place(call.fd)'.name]
                                          [Place(call.fd)'.offset - Len(read_cache'[call.fd]) - Len(Got) + i]
        BY <3>2 DEF Copied
      <4>1. \A i \in 1 .. Len(Got) :
              Got[i] = file[Place(call.fd).name]
                           [Place(call.fd).offset - Len(read_cache[call.fd]) - Len(call.got) + i]
        BY <2>1, GotIsCopied
      <4>2. Len(Got) = Len(call.got) + Len(Cached)  BY <2>1, GotIsCopied
      <4>3. /\ Len(call.got) \in Nat /\ Len(Cached) \in Nat /\ Place(call.fd).offset \in Nat
        BY <2>2, TodoOK, PlaceOK, LenProperties DEF IInv, Types, Calls
      <4>6. Place(call.fd)'.offset = Place(call.fd).offset + Len(bytes)
        BY <3>6
      <4>8. Len(read_cache'[call.fd]) = Len(bytes)
        BY <3>6
      <4>7. Place(call.fd)'.offset - Len(read_cache'[call.fd]) - Len(Got)
                 = Place(call.fd).offset - Len(read_cache[call.fd]) - Len(call.got)
        <5> DEFINE p == Place(call.fd).offset
                   n == Len(call.got)
                   c == Len(Cached)
                   b == Len(bytes)
        <5>1. p \in Int /\ n \in Int /\ c \in Int /\ b \in Int  BY <2>3, <4>3
        <5>2. /\ Place(call.fd)'.offset = p + b /\ Len(read_cache'[call.fd]) = b /\ Len(Got) = n + c
              /\ Len(read_cache[call.fd]) = c
          BY <3>5, <4>2, <4>6, <4>8
        <5> HIDE DEF p, n, c, b
        <5>3. (p + b) - b - (n + c) = p - c - n  BY <5>1
        <5> QED  BY <5>2, <5>3 DEF p, n
      <4>5. file' = file  BY <2>1
      <4> QED  BY <3>6, <4>1, <4>5, <4>7
    <3> QED  BY <2>1, <3>3, <3>4, <3>7 DEF JInv
  <2> QED  BY <2>1, <2>4, <2>5
<1> QED  BY <1>1, <1>2, <1>3, <1>4 DEF ReadOn, BufferedRead

\* Emptied holds after a step when each descriptor is open, its slot is
\* emptied, or neither of the two changes.
LEMMA EmptiedStays ==
  ASSUME IInv, JInv,
         \A fd \in fds : fd \in Opened' \/ ungetc_buf'[fd] = -1
                           \/ (fd \notin Opened /\ ungetc_buf'[fd] = ungetc_buf[fd])
  PROVE  Emptied'
BY DEF JInv, Emptied

\* The character in a slot is taken or stays where it is.
LEMMA TakenJInv ==
  ASSUME IInv, JInv, UNCHANGED table, NEW fd \in fds,
         ungetc_buf' = ClearPushed(fd) \/ ungetc_buf' = ungetc_buf
  PROVE  Emptied'
<1>1. ungetc_buf \in [fds -> -1 .. 255]  BY DEF IInv, TypeOK
<1>2. \A g \in fds : ungetc_buf'[g] = -1 \/ ungetc_buf'[g] = ungetc_buf[g]
  BY <1>1 DEF ClearPushed
<1> QED  BY <1>2, EmptiedStays DEF Opened

\* fdgetc asks for one byte.
LEMMA FdgetcJInv ==
  ASSUME IInv, JInv, call = Idle, NEW fd \in fds, NEW op \in {"getc", "peek"}, Fdgetc(fd, op)
  PROVE  JInv'
<1>1. Emptied'
  <2>1. ungetc_buf' = ClearPushed(fd) \/ ungetc_buf' = ungetc_buf  BY DEF Fdgetc
  <2> QED  BY <2>1, TakenJInv DEF Fdgetc
<1>2. CASE Pushed(fd) # <<>>
  <2>1. call' = Idle /\ peer' = peer  BY <1>2 DEF Fdgetc
  <2> QED  BY <1>1, <2>1, IdleJInv DEF JInv
<1>3. CASE Pushed(fd) = <<>>
  <2>1. Call(op, fd, 1, <<>>) /\ peer' = peer  BY <1>3 DEF Fdgetc
  <2>2. 1 \in Nat /\ 1 > 0  OBVIOUS
  <2> QED  BY <1>1, <2>1, <2>2, BeginJInv
<1> QED  BY <1>2, <1>3

\* The procedures on ports.
LEMMA SchemeNextJInv ==
  ASSUME IInv, JInv, SchemeNext
  PROVE  JInv'
<1>0. call = Idle  BY DEF SchemeNext, May
<1>1. ASSUME StringOnly PROVE JInv'
  <2>1. Emptied'  BY <1>1 DEF StringOnly, JInv, Emptied, Opened
  <2> QED  BY <1>0, <1>1, <2>1, IdleJInv DEF JInv, StringOnly
<1>2. ASSUME NEW fd \in fds, NEW b \in Bytes, Write(fd, b) PROVE JInv'
  <2>1. UNCHANGED <<peer, table, ungetc_buf, call>>  BY <1>2 DEF Write
  <2>2. Emptied'  BY <2>1 DEF JInv, Emptied, Opened
  <2> QED  BY <1>0, <2>1, <2>2, IdleJInv DEF JInv
<1>3. CASE PeekChar
  <2>1. CASE stdin >= 0 /\ Fdgetc(stdin, "peek")
    BY <1>0, <2>1, StdinOK, FdgetcJInv
  <2> QED  BY <1>1, <1>3, <2>1 DEF PeekChar
<1>4. CASE \E port \in Held \cup StringPorts : ReadChar(port)
  <2>1. PICK port \in Held \cup StringPorts : ReadChar(port)  BY <1>4
  <2> DEFINE from == IF port \in fds THEN port ELSE stdin
  <2>2. from >= 0 => from \in fds  BY StdinOK
  <2>3. (from >= 0 /\ Fdgetc(from, "getc")) \/ StringOnly  BY <2>1 DEF ReadChar, ReadString
  <2> QED  BY <1>0, <1>1, <2>2, <2>3, FdgetcJInv
<1>5. CASE ret.op = "getc" /\ UnreadChar(ret.value[1])
  <2>1. CASE stdin >= 0 /\ Readable(stdin) /\ Fdungetc(ret.value[1], stdin)
    <3>1. stdin \in fds /\ stdin \in Opened  BY <2>1, StdinOK DEF Readable
    <3>2. UNCHANGED <<table, peer, call>>  BY <2>1 DEF Fdungetc
    <3>3. ungetc_buf' = ungetc_buf \/ ungetc_buf' = [ungetc_buf EXCEPT ![stdin] = ret.value[1]]
      BY <2>1 DEF Fdungetc
    <3>4. ungetc_buf \in [fds -> -1 .. 255]  BY DEF IInv, TypeOK
    <3>5. Emptied'
      <4>1. \A g \in fds : g = stdin \/ ungetc_buf'[g] = ungetc_buf[g]  BY <3>3, <3>4
      <4> QED  BY <3>1, <3>2, <4>1, EmptiedStays DEF Opened
    <3> QED  BY <1>0, <3>2, <3>5, IdleJInv DEF JInv
  <2> QED  BY <1>1, <1>5, <2>1 DEF UnreadChar
<1>6. CASE \E text \in Texts : OpenInputString(text)
  BY <1>1, <1>6 DEF OpenInputString
<1>7. CASE \E port \in Held \cup StringPorts : SetCurrentInputPort(port)
  BY <1>1, <1>7 DEF SetCurrentInputPort
<1>8. CASE \E c \in Bytes, port \in Writing : WriteByte(c, port)
  <2>1. stdout \in fds /\ Writing \subseteq fds  BY DEF IInv, Types, Writing, Held
  <2> QED  BY <1>2, <1>8, <2>1 DEF WriteByte
<1>9. CASE \E port \in Held : SetCurrentOutputPort(port)
  BY <1>1, <1>9 DEF SetCurrentOutputPort
<1> QED  BY <1>3, <1>4, <1>5, <1>6, <1>7, <1>8, <1>9 DEF SchemeNext

\* The procedures on files.
LEMMA FileNextJInv ==
  ASSUME IInv, JInv, FileNext
  PROVE  JInv'
<1>0. call = Idle /\ ungetc_buf \in [fds -> -1 .. 255] /\ peer \in {"open", "closed"}
  BY DEF FileNext, May, IInv, TypeOK, JInv
<1>1. ASSUME NEW name, NEW access, NEW truncate, Open(name, access, truncate) PROVE JInv'
  <2>1. UNCHANGED <<peer, call>>  BY <1>1 DEF Open
  <2>2. CASE Free(OPEN_MAX) = {}
    <3>1. UNCHANGED <<table, ungetc_buf>>  BY <1>1, <2>2 DEF Open
    <3>2. Emptied'  BY <3>1 DEF JInv, Emptied, Opened
    <3> QED  BY <1>0, <2>1, <3>2, IdleJInv
  <2>3. CASE Free(OPEN_MAX) # {}
    <3> DEFINE r == Min(Free(OPEN_MAX))
    <3>1. /\ table' = With(table, r, NewDescription)
          /\ ungetc_buf' = ClearPushed(r) \/ ungetc_buf' = ungetc_buf
      BY <1>1, <2>3 DEF Open
    <3> HIDE DEF r
    <3>2. \A fd \in Opened : fd \in Opened'  BY <3>1 DEF With, Opened
    <3>3. \A fd \in fds : ungetc_buf'[fd] = -1 \/ ungetc_buf'[fd] = ungetc_buf[fd]
      BY <1>0, <3>1 DEF ClearPushed
    <3>4. Emptied'  BY <3>2, <3>3, EmptiedStays
    <3> QED  BY <1>0, <2>1, <3>4, IdleJInv
  <2> QED  BY <2>2, <2>3
<1>2. ASSUME NEW fd \in Held, NEW whence, NEW off, Lseek(fd, whence, off) PROVE JInv'
  <2>1. UNCHANGED <<peer, table, ungetc_buf, call>>  BY <1>2 DEF Lseek
  <2>2. Emptied'  BY <2>1 DEF JInv, Emptied, Opened
  <2> QED  BY <1>0, <2>1, <2>2, IdleJInv
<1>3. ASSUME NEW fd \in Held, Close(fd) PROVE JInv'
  <2>1. /\ UNCHANGED <<peer, call>> /\ ungetc_buf' = ClearPushed(fd)
        /\ table' = Restrict(table, Opened \ {fd})
    BY <1>3 DEF Close
  <2>2. Opened' = Opened \ {fd}  BY <2>1, Restricted DEF Opened
  <2>3. \A g \in fds : IF g = fd THEN ungetc_buf'[g] = -1 ELSE ungetc_buf'[g] = ungetc_buf[g]
    BY <1>0, <2>1 DEF ClearPushed
  <2>4. Emptied'  BY <2>2, <2>3, EmptiedStays
  <2> QED  BY <1>0, <2>1, <2>4, IdleJInv
<1>4. ASSUME NEW old, NEW new, Dup2(old, new) \/ Dup(old) PROVE JInv'
  <2>1. /\ UNCHANGED <<peer, call, ungetc_buf>>
        /\ \E f, d : table' = With(table, f, d)
    BY <1>4 DEF Dup, Dup2
  <2>2. \A fd \in Opened : fd \in Opened'  BY <2>1 DEF With, Opened
  <2>3. Emptied'  BY <2>1, <2>2, EmptiedStays
  <2> QED  BY <1>0, <2>1, <2>3, IdleJInv
<1> QED
  BY <1>1, <1>2, <1>3, <1>4
  DEF FileNext, OpenInputFile, OpenOutputFile, OpenFile, SeekPort, ClosePort, DupPort, Dup2Port

\* Reads that begin.
LEMMA LibraryNextJInv ==
  ASSUME IInv, JInv, LibraryNext
  PROVE  JInv'
<1>0. call = Idle  BY DEF LibraryNext, May
<1>1. ASSUME NEW fd \in fds, NEW n \in Requests, Read(fd, n) PROVE JInv'
  <2>1. Call("read", fd, n, <<>>) /\ UNCHANGED <<peer, table, ungetc_buf>>  BY <1>1 DEF Read
  <2>2. n \in Nat /\ n > 0  BY DescriptorAssumption
  <2>3. Emptied'  BY <2>1 DEF JInv, Emptied, Opened
  <2> QED  BY <2>1, <2>2, <2>3, BeginJInv
<1>2. ASSUME NEW fd \in fds, NEW n \in Requests, Fread(fd, n) PROVE JInv'
  <2>1. Emptied'  BY <1>2, TakenJInv DEF Fread
  <2>2. n \in Nat /\ n > 0  BY DescriptorAssumption
  <2>3. CASE Len(Pushed(fd)) = n
    BY <1>0, <1>2, <2>1, <2>3, IdleJInv DEF Fread, JInv
  <2>4. CASE Len(Pushed(fd)) # n
    <3>1. Call("fread", fd, n - Len(Pushed(fd)), Pushed(fd)) /\ peer' = peer  BY <1>2, <2>4 DEF Fread
    <3>2. Len(Pushed(fd)) = 0 \/ Len(Pushed(fd)) = 1  BY PushedOK
    <3>3. n - Len(Pushed(fd)) \in Nat /\ n - Len(Pushed(fd)) > 0
      <4>1. CASE Len(Pushed(fd)) = 0  BY <2>2, <4>1
      <4>2. CASE Len(Pushed(fd)) = 1  BY <2>2, <2>4, <4>2
      <4> QED  BY <3>2, <4>1, <4>2
    <3> QED  BY <2>1, <3>1, <3>3, BeginJInv
  <2> QED  BY <2>3, <2>4
<1> QED  BY <1>1, <1>2 DEF LibraryNext, Held

\* The process at the other end of the pipe.
LEMMA EnvironmentJInv ==
  ASSUME IInv, JInv, Environment
  PROVE  JInv'
<1>1. UNCHANGED <<table, desc, ungetc_buf, read_cache, call>> /\ peer' \in {"open", "closed"}
  BY DEF Environment, PeerCloses, PeerWrites, JInv
<1>2. Progress' /\ Emptied'  BY <1>1 DEF JInv, Progress, Emptied, Opened
<1>3. Copied'
  <2> SUFFICES ASSUME Len(call.got) > 0 PROVE Copied'  BY <1>1 DEF Copied
  <2>1. /\ Readable(call.fd)
        /\ Len(call.got) + Len(read_cache[call.fd]) <= Place(call.fd).offset
        /\ \A i \in 1 .. Len(call.got) :
             call.got[i] = file[Place(call.fd).name]
                               [Place(call.fd).offset - Len(read_cache[call.fd]) - Len(call.got) + i]
    BY DEF JInv, Copied
  <2>2. Place(call.fd)' = Place(call.fd) /\ Readable(call.fd)' /\ call' = call /\ read_cache' = read_cache
    BY <1>1, <2>1 DEF Place, Readable, Opened
  <2>3. /\ call.fd \in Opened /\ Place(call.fd).name \in Names
        /\ Len(file[Place(call.fd).name]) \in Nat
        /\ Place(call.fd).offset \in 0 .. Len(file[Place(call.fd).name])
    BY <2>1, PlaceOK DEF Readable
  <2>4. Len(call.got) \in Nat /\ Len(read_cache[call.fd]) \in Nat
    BY LenProperties DEF IInv, Types, Calls
  <2>5. ASSUME NEW n \in Names, NEW j \in 1 .. Len(file[n]) PROVE file'[n][j] = file[n][j]
    <3>1. CASE PeerCloses  BY <3>1 DEF PeerCloses
    <3>2. CASE \E b \in Bytes : PeerWrites(b)
      <4>1. PICK b \in Bytes : file' = [file EXCEPT ![Pipe] = Append(@, b)]  BY <3>2 DEF PeerWrites
      <4>2. file \in [Names -> Seq(Byte)] /\ b \in Byte  BY DescriptorAssumption DEF IInv, Types, Byte
      <4>3. CASE n # Pipe  BY <4>1, <4>2, <4>3
      <4>4. CASE n = Pipe
        <5>1. file'[n] = Append(file[n], b) /\ file[n] \in Seq(Byte)  BY <4>1, <4>2, <4>4
        <5> QED  BY <4>2, <5>1, AppendProperties
      <4> QED  BY <4>3, <4>4
    <3> QED  BY <3>1, <3>2 DEF Environment
  <2>6. ASSUME NEW i \in 1 .. Len(call.got)
        PROVE  Place(call.fd).offset - Len(read_cache[call.fd]) - Len(call.got) + i
                 \in 1 .. Len(file[Place(call.fd).name])
    <3> DEFINE o == Place(call.fd).offset
               c == Len(read_cache[call.fd])
               g == Len(call.got)
               l == Len(file[Place(call.fd).name])
    <3>1. o \in 0 .. l /\ l \in Nat  BY <2>3
    <3>4. c \in Nat /\ g \in Nat  BY <2>4
    <3>5. g + c <= o  BY <2>1
    <3> HIDE DEF o, c, g, l
    <3>2. i \in 1 .. g  BY <2>6 DEF g
    <3>3. o - c - g + i \in 1 .. l  BY <3>1, <3>2, <3>4, <3>5
    <3> QED  BY <3>3 DEF o, c, g, l
  <2>7. \A i \in 1 .. Len(call.got) :
             call.got[i] = file'[Place(call.fd).name]
                               [Place(call.fd).offset - Len(read_cache[call.fd]) - Len(call.got) + i]
    BY <2>1, <2>3, <2>5, <2>6
  <2> QED  BY <2>1, <2>2, <2>7 DEF Copied
<1> QED  BY <1>1, <1>2, <1>3 DEF JInv

\* Every step keeps what is known of a read in progress.
LEMMA NextJInv == IInv /\ JInv /\ IInv' /\ [Next]_vars => JInv'
<1> SUFFICES ASSUME IInv, JInv, IInv', [Next]_vars PROVE JInv'  OBVIOUS
<1>1. CASE UNCHANGED vars
  BY <1>1 DEF vars, descriptorVars, JInv, Progress, Copied, Emptied, Readable, Opened, Place
<1> QED
  BY <1>1, ReadOnJInv, SchemeNextJInv, FileNextJInv, LibraryNextJInv, EnvironmentJInv DEF Next

\* At the start no read is in progress.
LEMMA InitJInv == Init => JInv
<1> SUFFICES ASSUME Init PROVE JInv  OBVIOUS
<1>1. call = Idle /\ peer = "open" /\ ungetc_buf = [fd \in fds |-> -1]  BY DEF Init, DescriptorInit
<1> QED  BY <1>1, NothingGot DEF JInv, Progress, Copied, Emptied

-----------------------------------------------------------------------------
(***************************************************************************)
(* The ports are sequences of characters with positions.  What the         *)
(* refinement shows of a descriptor:                                       *)
(***************************************************************************)
\* Name, position and access of the file that a descriptor is on.
View(fd) ==
  [name |-> Place(fd).name, position |-> Place(fd).offset - ReadAhead(fd), access |-> Place(fd).access]

\* What is pushed back on each descriptor.
slots == [fd \in fds |-> Pushed(fd)]

\* The table and the descriptions of the abstract ports are those of the
\* descriptors that the program holds.
Shown ==
  /\ heldTable = [fd \in Held |-> table[fd]]
  /\ Range(heldTable) = {table[fd] : fd \in Held}
  /\ DOMAIN heldDesc = {table[fd] : fd \in Held}
  /\ heldDesc = [d \in DOMAIN heldDesc |-> heldDesc[d]]
  /\ \A fd \in Held : heldDesc[table[fd]] = View(fd)

\* It does not matter which descriptor of a description is looked at: those
\* that share one are written to, and nothing is read ahead of them.
LEMMA ShownHolds == IInv /\ JInv => Shown
<1> SUFFICES ASSUME IInv, JInv PROVE Shown  OBVIOUS
<1>1. heldTable = [fd \in Held |-> table[fd]]
  BY DEF heldTable, Restrict
<1>2. Range(heldTable) = {table[fd] : fd \in Held}
  BY <1>1 DEF Range
<1>3. DOMAIN heldDesc = {table[fd] : fd \in Held} /\ heldDesc = [d \in DOMAIN heldDesc |-> heldDesc[d]]
  BY <1>2 DEF heldDesc
<1>4. ASSUME NEW fd \in Held PROVE heldDesc[table[fd]] = View(fd)
  <2> DEFINE f == CHOOSE f \in Held : table[f] = table[fd]
  <2>1. f \in Held /\ table[f] = table[fd]  OBVIOUS
  <2>2. heldDesc[table[fd]]
          = [name |-> desc[table[fd]].name, position |-> desc[table[fd]].offset - ReadAhead(f),
             access |-> desc[table[fd]].access]
    BY <1>2 DEF heldDesc, Position
  <2> HIDE DEF f
  <2>3. ReadAhead(f) = ReadAhead(fd)
    <3> SUFFICES ASSUME f # fd PROVE ReadAhead(f) = ReadAhead(fd)  OBVIOUS
    <3>1. ASSUME NEW g \in {f, fd} PROVE ReadAhead(g) = 0
      <4>1. g \in Held /\ g \in fds /\ g \in Opened  BY <2>1 DEF Held
      <4>2. ~Readable(g)  BY <2>1, AloneOK DEF Held
      <4>3. Len(read_cache[g]) = 0  BY <4>1, <4>2, NothingCached
      <4>4. call.fd = g => Len(call.got) = 0
        <5>1. Len(call.got) \in Nat  BY LenProperties DEF IInv, Types, Calls
        <5>2. call.fd = g => ~Readable(call.fd)  BY <4>2, Zenon
        <5>3. Len(call.got) > 0 => Readable(call.fd)  BY DEF JInv, Copied
        <5> QED  BY <5>1, <5>2, <5>3
      <4> QED  BY <4>3, <4>4 DEF ReadAhead
    <3> QED  BY <3>1
  <2> QED  BY <2>2, <2>3 DEF View, Place
<1> QED  BY <1>1, <1>2, <1>3, <1>4 DEF Shown

\* The same after a step.
LEMMA NextShown == IInv' /\ JInv' => Shown'
<1>1. IInv /\ JInv => Shown  BY ShownHolds
<1> QED  BY <1>1, PTL

\* What the abstract operators are of a descriptor.
LEMMA SeenIs ==
  ASSUME IInv, JInv, NEW fd \in fds
  PROVE  /\ DOMAIN heldTable = Held
         /\ fd \in Held <=> fd \in Opened
         /\ C!Readable(fd) <=> Readable(fd)
         /\ C!Writable(fd) <=> Writable(fd)
         /\ fd \in Held => C!Place(fd) = View(fd) /\ heldTable[fd] = table[fd]
<1>1. Shown  BY ShownHolds
<1>2. fd \in Held <=> fd \in Opened  BY DEF Held
<1>3. DOMAIN heldTable = Held  BY <1>1 DEF Shown
<1>4. fd \in Held => C!Place(fd) = View(fd) /\ heldTable[fd] = table[fd]  BY <1>1 DEF Shown, C!Place
<1> QED  BY <1>2, <1>3, <1>4 DEF C!Readable, C!Writable, Readable, Writable, View

\* A description after a step is known by what its descriptors show.
LEMMA NewDesc ==
  ASSUME IInv', JInv', NEW D, D = [d \in DOMAIN D |-> D[d]], DOMAIN D = {table'[fd] : fd \in Held'},
         \A fd \in Held' : D[table'[fd]] = View(fd)'
  PROVE  heldDesc' = D
<1>1. Shown'  BY NextShown
<1>2. DOMAIN heldDesc' = DOMAIN D /\ heldDesc' = [d \in DOMAIN heldDesc' |-> heldDesc'[d]]
  BY <1>1 DEF Shown
<1>3. \A d \in DOMAIN D : heldDesc'[d] = D[d]
  BY <1>1 DEF Shown
<1> QED  BY <1>2, <1>3

\* A step that leaves the descriptors and what they show.
LEMMA SameShown ==
  ASSUME IInv, JInv, IInv', JInv', table' = table, \A fd \in Held : View(fd)' = View(fd)
  PROVE  heldTable' = heldTable /\ heldDesc' = heldDesc
<1>1. Shown  BY ShownHolds
<1>2. Shown'  BY NextShown
<1>3. Held' = Held  BY DEF Held, Opened
<1>4. heldTable' = heldTable  BY <1>1, <1>2, <1>3 DEF Shown
<1>5. heldDesc' = heldDesc  BY <1>1, <1>3, NewDesc DEF Shown
<1> QED  BY <1>4, <1>5

\* A step that touches neither the kernel nor a cache is not seen while the
\* call has copied nothing.
LEMMA QuietShown ==
  ASSUME IInv, JInv, IInv', JInv', UNCHANGED <<table, desc, read_cache>>,
         Len(call.got) = 0, Len(call'.got) = 0
  PROVE  heldTable' = heldTable /\ heldDesc' = heldDesc
<1>1. ASSUME NEW fd \in Held PROVE View(fd)' = View(fd)
  <2>1. ReadAhead(fd)' = ReadAhead(fd)  BY DEF ReadAhead
  <2> QED  BY <2>1 DEF View, Place
<1> QED  BY <1>1, SameShown

\* What a slot shows after a step.
LEMMA NewSlot ==
  ASSUME ungetc_buf \in [fds -> -1 .. 255], NEW fd \in fds, NEW b \in -1 .. 255,
         ungetc_buf' = [ungetc_buf EXCEPT ![fd] = b]
  PROVE  slots' = [slots EXCEPT ![fd] = IF b >= 0 THEN <<b>> ELSE <<>>]
BY DEF slots, Pushed

\* Slots that stay show the same.
LEMMA SameSlots == ungetc_buf' = ungetc_buf => slots' = slots
BY DEF slots, Pushed

-----------------------------------------------------------------------------
(* Reads that begin, and the procedures on ports.                          *)

\* fdgetc takes the character that is pushed back, or asks for one.
LEMMA FdgetcAbs ==
  ASSUME IInv, JInv, IInv', JInv', call = Idle, NEW fd \in fds, NEW op \in {"getc", "peek"},
         Fdgetc(fd, op), UNCHANGED portVars
  PROVE  C!TakeBack(op, fd) \/ (slots[fd] = <<>> /\ C!Ask(op, fd, 1))
<1>1. ungetc_buf \in [fds -> -1 .. 255]  BY DEF IInv, TypeOK
<1>2. slots[fd] = Pushed(fd)  BY DEF slots
<1>3. UNCHANGED <<file, peer, table, desc, read_cache, g_ports, stdin, stdout>>  BY DEF Fdgetc, portVars
<1>4. Len(call.got) = 0  BY NothingGot
<1>5. CASE Pushed(fd) # <<>>
  <2>1. /\ Return(op, Pushed(fd)) /\ call' = call
        /\ ungetc_buf' = IF op = "getc" THEN ClearPushed(fd) ELSE ungetc_buf
    BY <1>5 DEF Fdgetc
  <2>2. heldTable' = heldTable /\ heldDesc' = heldDesc  BY <1>3, <1>4, <2>1, QuietShown
  <2>3. slots' = [slots EXCEPT ![fd] = IF op = "peek" THEN @ ELSE <<>>]
    <3>1. CASE op = "peek"
      <4>1. slots' = slots  BY <2>1, <3>1, SameSlots
      <4> QED  BY <3>1, <4>1 DEF slots
    <3>2. CASE op = "getc"
      <4>1. ungetc_buf' = [ungetc_buf EXCEPT ![fd] = -1] /\ -1 \in -1 .. 255  BY <2>1, <3>2 DEF ClearPushed
      <4>2. slots' = [slots EXCEPT ![fd] = IF -1 >= 0 THEN <<-1>> ELSE <<>>]  BY <1>1, <4>1, NewSlot
      <4> QED  BY <3>2, <4>2
    <3> QED  BY <3>1, <3>2
  <2>4. C!Return(op, slots[fd])  BY <1>2, <2>1 DEF Return, C!Return
  <2>5. Asked(call)' = Asked(call)  BY <2>1 DEF Asked
  <2> QED  BY <1>2, <1>3, <1>5, <2>2, <2>3, <2>4, <2>5 DEF C!TakeBack, slots
<1>6. CASE Pushed(fd) = <<>>
  <2>1. Call(op, fd, 1, <<>>) /\ UNCHANGED <<ungetc_buf, ret>>  BY <1>6 DEF Fdgetc
  <2>2. Len(call'.got) = 0 /\ Asked(call)' = [op |-> op, fd |-> fd, size |-> 1, first |-> <<>>]
    BY <2>1 DEF Call, Asked
  <2>3. heldTable' = heldTable /\ heldDesc' = heldDesc  BY <1>3, <1>4, <2>2, QuietShown
  <2>4. slots' = slots  BY <2>1, SameSlots
  <2>5. slots[fd] = <<>> /\ op # "read"  BY <1>2, <1>6
  <2>6. slots' = [slots EXCEPT ![fd] = IF op = "read" THEN @ ELSE <<>>]  BY <2>4, <2>5 DEF slots
  <2>7. 1 > Len(<<>>) /\ 1 - Len(<<>>) = 1  OBVIOUS
  <2> QED  BY <1>3, <2>1, <2>2, <2>3, <2>5, <2>6, <2>7 DEF C!Ask, slots
<1> QED  BY <1>5, <1>6

\* Moving a position to where it is changes nothing.
LEMMA StayAbs ==
  ASSUME IInv, JInv, NEW fd \in Held, NEW p, p = View(fd).position
  PROVE  C!At(fd, p) = heldDesc
<1>1. Shown  BY ShownHolds
<1>2. heldTable[fd] = table[fd] /\ heldDesc[table[fd]] = View(fd) /\ table[fd] \in DOMAIN heldDesc
  BY <1>1 DEF Shown
<1>3. C!At(fd, p) = [heldDesc EXCEPT ![table[fd]].position = p]  BY <1>2 DEF C!At
<1>4. C!At(fd, p) = [heldDesc EXCEPT ![table[fd]] = [View(fd) EXCEPT !.position = p]]  BY <1>2, <1>3
<1>5. [View(fd) EXCEPT !.position = p] = View(fd)  BY DEF View
<1>6. [heldDesc EXCEPT ![table[fd]] = heldDesc[table[fd]]] = heldDesc
  <2>1. heldDesc = [d \in DOMAIN heldDesc |-> heldDesc[d]]  BY <1>1 DEF Shown
  <2> QED  BY <2>1
<1> QED  BY <1>2, <1>4, <1>5, <1>6

\* A step on a string port alone changes nothing that descriptors show.
LEMMA StringShown ==
  ASSUME IInv, JInv, IInv', JInv', call = Idle, StringOnly
  PROVE  /\ UNCHANGED <<file, peer, heldTable, heldDesc>>
         /\ slots' = slots /\ Asked(call)' = Asked(call)
<1>1. UNCHANGED <<file, peer, table, desc, read_cache, call, ungetc_buf>>  BY DEF StringOnly
<1>2. heldTable' = heldTable /\ heldDesc' = heldDesc  BY <1>1, NothingGot, QuietShown
<1> QED  BY <1>1, <1>2, SameSlots DEF Asked

\* The number of a string port is the place of its text.
LEMMA PortIs == \A port \in Int : -port - 1 = PortOf(port)
BY DEF PortOf

\* The current input port is a number.
LEMMA StdinInt == IInv => stdin \in Int
<1> SUFFICES ASSUME IInv PROVE stdin \in Int  OBVIOUS
<1>1. stdin \in fds \/ stdin \in StringPorts  BY DEF IInv, TypeOK
<1>2. fds \subseteq Int  BY DescriptorAssumption DEF fds
<1>3. StringPorts \subseteq Int
  <2>1. g_ports \in Seq(Seq(Byte)) /\ DOMAIN g_ports = 1 .. Len(g_ports) /\ Len(g_ports) \in Nat
    BY LenProperties DEF IInv, Types
  <2>2. DOMAIN g_ports \subseteq Int  BY <2>1
  <2> QED  BY <2>2 DEF StringPorts, number
<1> QED  BY <1>1, <1>2, <1>3

\* peek-char gets a character and leaves it.
LEMMA PeekCharAbs ==
  ASSUME IInv, JInv, IInv', JInv', call = Idle, PeekChar
  PROVE  C!Get("peek", stdin)
<1>1. CASE stdin >= 0 /\ Fdgetc(stdin, "peek") /\ UNCHANGED portVars
  <2>1. C!TakeBack("peek", stdin) \/ (slots[stdin] = <<>> /\ C!Ask("peek", stdin, 1))
    BY <1>1, StdinOK, FdgetcAbs
  <2> QED  BY <1>1, <2>1 DEF C!Get, slots
<1>2. CASE /\ stdin < 0 /\ Return("peek", Chars(g_ports[PortOf(stdin)]))
           /\ StringOnly /\ UNCHANGED portVars
  <2> DEFINE text == g_ports[-stdin - 1]
  <2>1. stdin \in Int /\ text = g_ports[PortOf(stdin)]
    <3>1. stdin \in Int  BY StdinInt
    <3> QED  BY <3>1, PortIs
  <2>2. UNCHANGED <<file, peer, heldTable, heldDesc>> /\ slots' = slots /\ Asked(call)' = Asked(call)
    BY <1>2, StringShown
  <2>3. UNCHANGED <<g_ports, stdin, stdout>>  BY <1>2 DEF portVars
  <2>4. ret' = [op |-> "peek", value |-> Chars(text)]  BY <1>2, <2>1 DEF Return
  <2>5. CASE text = <<>>
    <3>1. C!Return("peek", C!Error)  BY <2>4, <2>5 DEF C!Return, C!Error, Chars, Error
    <3> QED  BY <1>2, <2>2, <2>3, <2>5, <3>1 DEF C!Get, slots
  <2>6. CASE text # <<>>
    <3>1. C!Return("peek", <<C!Signed(Head(text))>>)  BY <2>4, <2>6 DEF C!Return, C!Signed, Chars, Signed
    <3> QED  BY <1>2, <2>2, <2>3, <2>6, <3>1 DEF C!Get, slots
  <2> QED  BY <2>5, <2>6
<1> QED  BY <1>1, <1>2 DEF PeekChar

\* read-char gets a character.
LEMMA ReadCharAbs ==
  ASSUME IInv, JInv, IInv', JInv', call = Idle, NEW port \in Held \cup StringPorts, ReadChar(port)
  PROVE  \E p \in {stdin} \cup DOMAIN heldTable : C!Get("getc", p)
<1> DEFINE from == IF port \in fds THEN port ELSE stdin
<1>1. from \in {stdin} \cup DOMAIN heldTable
  <2>1. DOMAIN heldTable = Held  BY SeenIs, DescriptorAssumption, ShownHolds DEF Shown
  <2>2. port \in fds => port \in Held  BY StringPortsOK DEF IInv, Types
  <2> QED  BY <2>1, <2>2
<1>2. from >= 0 => from \in fds  BY StdinOK
<1>3. from < 0 => from = stdin
  <2>1. \A fd \in fds : ~(fd < 0)  BY DescriptorAssumption DEF fds
  <2> QED  BY <2>1
<1>4. (from >= 0 /\ Fdgetc(from, "getc") /\ UNCHANGED portVars) \/ (from < 0 /\ ReadString(PortOf(from)))
  BY DEF ReadChar
<1> HIDE DEF from
<1>5. CASE from >= 0 /\ Fdgetc(from, "getc") /\ UNCHANGED portVars
  <2>1. C!TakeBack("getc", from) \/ (slots[from] = <<>> /\ C!Ask("getc", from, 1))
    BY <1>2, <1>5, FdgetcAbs
  <2>2. C!Get("getc", from)  BY <1>5, <2>1 DEF C!Get, slots
  <2> QED  BY <1>1, <2>2
<1>6. CASE stdin < 0 /\ ReadString(PortOf(stdin))
  <2> DEFINE text == g_ports[-stdin - 1]
  <2>1. stdin \in Int /\ PortOf(stdin) = -stdin - 1
    <3>1. stdin \in Int  BY StdinInt
    <3> QED  BY <3>1, PortIs
  <2>2. UNCHANGED <<file, peer, heldTable, heldDesc>> /\ slots' = slots /\ Asked(call)' = Asked(call)
    BY <1>6, StringShown DEF ReadString
  <2>3. UNCHANGED <<stdin, stdout>>  BY <1>6 DEF ReadString
  <2>4. /\ ret' = [op |-> "getc", value |-> Chars(text)]
        /\ g_ports' = [g_ports EXCEPT ![-stdin - 1] = IF text = <<>> THEN @ ELSE Tail(@)]
    BY <1>6, <2>1 DEF Return, ReadString
  <2>5. CASE text = <<>>
    <3>1. C!Return("getc", C!Error)  BY <2>4, <2>5 DEF C!Return, C!Error, Chars, Error
    <3>2. g_ports' = g_ports
      <4>1. g_ports = [i \in DOMAIN g_ports |-> g_ports[i]]
        <5>1. g_ports \in Seq(Seq(Byte))  BY DEF IInv, Types
        <5> QED  BY <5>1
      <4> QED  BY <2>4, <2>5, <4>1
    <3>3. C!Get("getc", stdin)  BY <1>6, <2>2, <2>3, <2>5, <3>1, <3>2 DEF C!Get, slots
    <3> QED  BY <3>3
  <2>6. CASE text # <<>>
    <3>1. C!Return("getc", <<C!Signed(Head(text))>>)  BY <2>4, <2>6 DEF C!Return, C!Signed, Chars, Signed
    <3>2. g_ports' = [g_ports EXCEPT ![-stdin - 1] = Tail(@)]  BY <2>4, <2>6
    <3>3. C!Get("getc", stdin)  BY <1>6, <2>2, <2>3, <2>6, <3>1, <3>2 DEF C!Get, slots
    <3> QED  BY <3>3
  <2> QED  BY <2>5, <2>6
<1> QED  BY <1>3, <1>4, <1>5, <1>6

\* unread-char pushes a character back.
LEMMA UnreadCharAbs ==
  ASSUME IInv, JInv, IInv', JInv', call = Idle, ret.op = "getc", UnreadChar(ret.value[1])
  PROVE  C!PushBack(ret.value[1])
<1> DEFINE c == ret.value[1]
<1>1. c \in -128 .. 255 /\ (stdin \in fds => c >= -1)  BY DEF IInv, PushedBack
<1>2. ungetc_buf \in [fds -> -1 .. 255] /\ stdin \in Int  BY StdinInt DEF IInv, TypeOK
<1>3. UnreadChar(c)  OBVIOUS
<1> HIDE DEF c
<1>4. CASE stdin >= 0 /\ Readable(stdin) /\ Fdungetc(c, stdin) /\ UNCHANGED portVars
  <2>1. stdin \in fds /\ c \in -1 .. 255
    <3>1. stdin \in fds  BY <1>4, StdinOK
    <3> QED  BY <1>1, <3>1
  <2>2. /\ UNCHANGED <<file, peer, table, desc, read_cache, call, g_ports, stdin, stdout>>
        /\ Return("unread", <<c>>)
        /\ c >= 0 => Pushed(stdin) = <<>>
        /\ ungetc_buf' = IF c = -1 THEN ungetc_buf ELSE [ungetc_buf EXCEPT ![stdin] = c]
    BY <1>4 DEF Fdungetc, portVars
  <2>3. heldTable' = heldTable /\ heldDesc' = heldDesc  BY <2>2, NothingGot, QuietShown
  <2>4. Asked(call)' = Asked(call)  BY <2>2 DEF Asked
  <2>5. C!Return("unread", <<c>>)  BY <2>2 DEF C!Return, Return
  <2>6. CASE c = -1
    <3>1. slots' = slots  BY <2>2, <2>6, SameSlots
    <3> QED  BY <2>2, <2>3, <2>4, <2>5, <2>6, <3>1 DEF C!PushBack, slots, c
  <2>7. CASE c # -1
    <3>1. c >= 0  BY <2>1, <2>7
    <3>2. slots' = [slots EXCEPT ![stdin] = <<c>>]
      <4>1. slots' = [slots EXCEPT ![stdin] = IF c >= 0 THEN <<c>> ELSE <<>>]
        BY <1>2, <2>1, <2>2, <2>7, NewSlot
      <4> QED  BY <3>1, <4>1
    <3>3. slots[stdin] = <<>>  BY <2>1, <2>2, <3>1 DEF slots
    <3> QED  BY <1>4, <2>2, <2>3, <2>4, <2>5, <2>7, <3>2, <3>3 DEF C!PushBack, slots, c
  <2> QED  BY <2>6, <2>7
<1>5. CASE /\ stdin < 0 /\ Return("unread", <<c>>)
           /\ g_ports' = IF c = -1 THEN g_ports
                         ELSE [g_ports EXCEPT ![PortOf(stdin)] = <<Unsigned(c)>> \o @]
           /\ StringOnly /\ UNCHANGED <<stdin, stdout, uses>>
  <2>1. UNCHANGED <<file, peer, heldTable, heldDesc>> /\ slots' = slots /\ Asked(call)' = Asked(call)
    BY <1>5, StringShown
  <2>2. C!Return("unread", <<c>>)  BY <1>5 DEF C!Return, Return
  <2>3. Unsigned(c) = c % 256
    <3>1. CASE c < 0  BY <1>1, <3>1 DEF Unsigned
    <3>2. CASE c >= 0  BY <1>1, <3>2 DEF Unsigned
    <3> QED  BY <1>1, <3>1, <3>2
  <2>4. PortOf(stdin) = -stdin - 1  BY <1>2, PortIs
  <2>5. CASE c = -1
    BY <1>5, <2>1, <2>2, <2>5 DEF C!PushBack, slots, c
  <2>6. CASE c # -1
    <3>1. g_ports' = [g_ports EXCEPT ![-stdin - 1] = <<c % 256>> \o @]  BY <1>5, <2>3, <2>4, <2>6
    <3> QED  BY <1>5, <2>1, <2>2, <2>6, <3>1 DEF C!PushBack, slots, c
  <2> QED  BY <2>5, <2>6
<1> QED  BY <1>3, <1>4, <1>5 DEF UnreadChar

\* Opening a string and setting the current ports.
LEMMA SetAbs ==
  ASSUME IInv, JInv, IInv', JInv', call = Idle
  PROVE  /\ \A text \in Texts : OpenInputString(text) => C!OpenString(text)
         /\ \A port \in Held \cup StringPorts : SetCurrentInputPort(port) => C!SetInput(port)
         /\ \A port \in Held : SetCurrentOutputPort(port) =>
              \E p \in Held \cup {1} : C!SetOutput(p)
<1>1. ASSUME StringOnly
      PROVE  UNCHANGED <<file, peer, heldTable, heldDesc>> /\ slots' = slots /\ Asked(call)' = Asked(call)
  BY <1>1, StringShown
<1>2. ASSUME NEW text \in Texts, OpenInputString(text) PROVE C!OpenString(text)
  <2>1. Len(g_ports) \in Nat  BY LenProperties DEF IInv, Types
  <2>2. number(Len(g_ports) + 1) = -Len(g_ports) - 2  BY <2>1 DEF number
  <2>3. /\ g_ports' = Append(g_ports, text) /\ Return("string", <<number(Len(g_ports) + 1)>>)
        /\ StringOnly /\ UNCHANGED <<stdin, stdout>>
    BY <1>2 DEF OpenInputString
  <2> QED  BY <1>1, <2>2, <2>3 DEF C!OpenString, C!Return, Return, slots
<1>3. ASSUME NEW port, SetCurrentInputPort(port) PROVE C!SetInput(port)
  BY <1>1, <1>3 DEF SetCurrentInputPort, C!SetInput, C!Return, Return, slots
<1>4. ASSUME NEW port \in Held, SetCurrentOutputPort(port) PROVE \E p \in Held \cup {1} : C!SetOutput(p)
  <2>1. stdout' \in Held \cup {1}  BY <1>4 DEF SetCurrentOutputPort
  <2>2. C!SetOutput(stdout')
    <3>1. StringOnly /\ Return("set", <<stdout'>>) /\ UNCHANGED <<stdin, g_ports>>
      BY <1>4 DEF SetCurrentOutputPort
    <3> QED  BY <1>1, <3>1 DEF C!SetOutput, C!Return, Return, slots
  <2> QED  BY <2>1, <2>2
<1> QED  BY <1>2, <1>3, <1>4

-----------------------------------------------------------------------------
(* Writes and seeks.                                                       *)

\* The larger of two numbers.
LEMMA MaxOfTwo ==
  ASSUME NEW a \in Int, NEW b \in Int
  PROVE  Max({a, b}) = IF a >= b THEN a ELSE b
  BY DEF Max

\* No call in progress has copied anything: what is read ahead is the cache.
LEMMA IdleView ==
  ASSUME IInv, call = Idle, NEW fd \in Held
  PROVE  View(fd) = [name |-> Place(fd).name, position |-> Place(fd).offset - Skip(fd),
                     access |-> Place(fd).access]
<1>1. fd \in fds /\ fd \in Opened  BY DEF Held
<1>2. Len(read_cache[fd]) \in Nat  BY <1>1, LenProperties DEF IInv, Types
<1>3. ReadAhead(fd) = Len(read_cache[fd])  BY <1>2, NothingGot DEF ReadAhead
<1> QED  BY <1>3 DEF View, Skip

\* A step that moves the kernel's offset and clears the cache moves the
\* position there.
LEMMA MoveAbs ==
  ASSUME IInv, JInv, IInv', JInv', call = Idle, call' = call, NEW fd \in Held, NEW p \in Nat,
         desc' = [desc EXCEPT ![table[fd]].offset = p], read_cache' = ClearCache(fd), table' = table
  PROVE  heldTable' = heldTable /\ heldDesc' = C!At(fd, p)
<1>1. Shown  BY ShownHolds
<1>2. Held' = Held  BY DEF Held, Opened
<1>3. fd \in fds /\ fd \in Opened /\ \A g \in Held : g \in fds /\ g \in Opened  BY DEF Held
<1>4. C!At(fd, p) = [heldDesc EXCEPT ![table[fd]].position = p]
  BY <1>1 DEF Shown, C!At
<1> DEFINE D == C!At(fd, p)
<1>5. /\ DOMAIN D = {table'[g] : g \in Held'} /\ D = [d \in DOMAIN D |-> D[d]]
  <2>1. DOMAIN heldDesc = {table[g] : g \in Held}  BY <1>1 DEF Shown
  <2>2. DOMAIN D = DOMAIN heldDesc /\ D = [d \in DOMAIN D |-> D[d]]  BY <1>4
  <2> QED  BY <1>2, <2>1, <2>2
<1>6. ASSUME NEW g \in Held PROVE D[table'[g]] = View(g)'
  <2>0. g \in fds /\ g \in Opened  BY <1>3
  <2>1. heldDesc[table[g]] = View(g) /\ table[g] \in DOMAIN heldDesc  BY <1>1 DEF Shown
  <2>2. read_cache \in [fds -> Seq(Byte)]  BY DEF IInv, Types
  <2>3. /\ table[g] \in DOMAIN desc /\ desc[table[g]] = Place(g)
        /\ Place(g) \in [name : Names, offset : Nat, access : {"r", "w", "rw"}]
    BY <2>0, PlaceOK
  <2>4. Place(g)' = desc'[table[g]]  BY DEF Place
  <2>5. ReadAhead(g)' = Len(read_cache'[g])
    <3>1. Len(read_cache'[g]) \in Nat  BY <2>0, LenProperties DEF IInv, Types
    <3> QED  BY <3>1, NothingGot DEF ReadAhead
  <2>6. CASE table[g] = table[fd]
    <3>1. Len(read_cache'[g]) = 0
      <4>1. CASE g = fd  BY <1>3, <2>2, <4>1 DEF ClearCache
      <4>2. CASE g # fd
        <5>1. ~Readable(g)  BY <1>3, <2>0, <2>6, <4>2, AloneOK
        <5>2. read_cache'[g] = read_cache[g]  BY <2>0, <2>2, <4>2 DEF ClearCache
        <5> QED  BY <2>0, <5>1, <5>2, NothingCached
      <4> QED  BY <4>1, <4>2
    <3>2. /\ desc'[table[g]].offset = p /\ desc'[table[g]].name = Place(g).name
          /\ desc'[table[g]].access = Place(g).access
      BY <2>3, <2>6
    <3>3. View(g)' = [name |-> Place(g).name, position |-> p, access |-> Place(g).access]
      BY <2>4, <2>5, <3>1, <3>2 DEF View
    <3>4. D[table[g]] = [View(g) EXCEPT !.position = p]  BY <1>4, <2>1, <2>6
    <3> QED  BY <3>3, <3>4 DEF View
  <2>7. CASE table[g] # table[fd]
    <3>1. D[table[g]] = View(g)  BY <1>4, <2>1, <2>7
    <3>2. g # fd /\ read_cache'[g] = read_cache[g]  BY <2>0, <2>2, <2>7 DEF ClearCache
    <3>3. desc'[table[g]] = desc[table[g]]  BY <2>3, <2>7
    <3>4. Place(g)' = Place(g)  BY <2>3, <2>4, <3>3
    <3>5. Len(read_cache[g]) \in Nat  BY <2>0, <2>2, LenProperties
    <3>6. ReadAhead(g) = Len(read_cache[g])  BY <3>5, NothingGot DEF ReadAhead
    <3> QED  BY <2>5, <3>1, <3>2, <3>4, <3>6 DEF View
  <2> QED  BY <2>6, <2>7
<1> HIDE DEF D
<1>7. heldDesc' = D  BY <1>2, <1>5, <1>6, NewDesc
<1>8. heldTable' = heldTable
  <2>1. Shown'  BY NextShown
  <2> QED  BY <1>1, <1>2, <2>1 DEF Shown
<1> QED  BY <1>7, <1>8 DEF D

\* Putting a byte at a place is what a file is to have.
LEMMA PutAbs ==
  ASSUME NEW s \in Seq(Byte), NEW o \in Nat, o <= Len(s), NEW b \in Byte
  PROVE  Put(s, o, b) = [i \in 1 .. Max({Len(s), o + 1}) |-> IF i = o + 1 THEN b ELSE s[i]]
<1> DEFINE n == IF Len(s) >= o + 1 THEN Len(s) ELSE o + 1
           t == Put(s, o, b)
<1>1. Len(s) \in Nat  BY LenProperties
<1>2. Max({Len(s), o + 1}) = n  BY <1>1, MaxOfTwo
<1>3. /\ t \in Seq(Byte) /\ Len(t) = (IF o = Len(s) THEN o + 1 ELSE Len(s))
      /\ \A i \in 1 .. o : t[i] = s[i]
      /\ t[o + 1] = b
      /\ \A i \in o + 2 .. Len(s) : t[i] = s[i]
  BY PutOK, Zenon
<1> HIDE DEF t
<1>4. Len(t) = n  BY <1>1, <1>3
<1>5. t = [i \in 1 .. Len(t) |-> t[i]]  BY <1>3, LenProperties
<1>6. ASSUME NEW i \in 1 .. n PROVE t[i] = IF i = o + 1 THEN b ELSE s[i]
  <2>1. i \in Int /\ i >= 1 /\ i <= n  BY <1>1
  <2>2. CASE i <= o  BY <1>3, <2>1, <2>2
  <2>3. CASE i = o + 1  BY <1>3, <2>3
  <2>4. CASE i > o + 1
    <3>1. i \in o + 2 .. Len(s)  BY <1>1, <2>1, <2>4
    <3> QED  BY <1>3, <2>4, <3>1
  <2> QED  BY <2>1, <2>2, <2>3, <2>4
<1> HIDE DEF n
<1> QED  BY <1>2, <1>4, <1>5, <1>6 DEF t

\* Operators that both modules have.
LEMMA SameOperators ==
  /\ \A S : C!Max(S) = Max(S) /\ C!Min(S) = Min(S)
  /\ \A f, S : C!Restrict(f, S) = Restrict(f, S) /\ C!Range(f) = Range(f)
  /\ \A f, x, v : C!With(f, x, v) = With(f, x, v)
BY DEF C!Max, C!Min, C!Restrict, C!Range, C!With, Max, Min, Restrict, Range, With

\* A write goes to the reader's position.
LEMMA WriteAbs ==
  ASSUME IInv, JInv, IInv', JInv', call = Idle, NEW fd \in fds, NEW b \in Bytes, Write(fd, b), UNCHANGED portVars
  PROVE  C!Write(fd, b)
<1> DEFINE offset == Place(fd).offset - Skip(fd)
           name == Place(fd).name
<1>1. /\ UNCHANGED <<peer, table, ungetc_buf, call, g_ports, stdin, stdout>> /\ read_cache' = ClearCache(fd)
      /\ slots' = slots
  BY SameSlots DEF Write, portVars
<1>2. Asked(call)' = Asked(call)  BY <1>1 DEF Asked
<1>3. b \in Byte /\ file \in [Names -> Seq(Byte)]  BY DescriptorAssumption DEF Byte, IInv, Types
<1>4. CASE /\ Writable(fd)
           /\ file' = [file EXCEPT ![name] = Put(@, offset, b)]
           /\ desc' = [desc EXCEPT ![table[fd]].offset = offset + 1]
           /\ Return("write", <<1>>)
  <2>1. fd \in Held /\ C!Writable(fd)  BY <1>4, SeenIs DEF Writable
  <2>2. offset \in Nat /\ offset <= Len(file[name])  BY <2>1, SkipOK
  <2>3. C!Place(fd) = View(fd)  BY <2>1, SeenIs
  <2>4. C!Place(fd).name = name /\ C!Place(fd).position = offset  BY <2>1, <2>3, IdleView
  <2> HIDE DEF offset
  <2>5. heldTable' = heldTable /\ heldDesc' = C!At(fd, offset + 1)
    <3>1. offset + 1 \in Nat  BY <2>2
    <3> QED  BY <1>1, <1>4, <2>1, <3>1, MoveAbs
  <2>6. name \in Names /\ file[name] \in Seq(Byte)
    <3>1. fd \in Opened  BY <2>1 DEF Held
    <3> QED  BY <1>3, <3>1, PlaceOK
  <2> HIDE DEF name
  <2>7. Put(file[name], offset, b)
          = [i \in 1 .. Max({Len(file[name]), offset + 1}) |-> IF i = offset + 1 THEN b ELSE file[name][i]]
    BY <1>3, <2>2, <2>6, PutAbs
  <2>8. file' = [file EXCEPT ![name] = [i \in 1 .. Max({Len(@), offset + 1}) |->
                                           IF i = offset + 1 THEN b ELSE @[i]]]
    BY <1>4, <2>7
  <2>9. C!Return("write", <<1>>)  BY <1>4 DEF Return, C!Return
  <2>10. /\ file' = [file EXCEPT ![C!Place(fd).name] =
                        [i \in 1 .. C!Max({Len(@), C!Place(fd).position + 1}) |->
                           IF i = C!Place(fd).position + 1 THEN b ELSE @[i]]]
         /\ heldDesc' = C!At(fd, C!Place(fd).position + 1)
    BY <2>4, <2>5, <2>8, SameOperators
  <2>11. UNCHANGED <<peer, heldTable, slots, g_ports, stdin, stdout>> /\ Asked(call)' = Asked(call)
    BY <1>1, <1>2, <2>5
  <2> QED  BY <2>1, <2>9, <2>10, <2>11 DEF C!Write, slots
<1>5. CASE /\ fd \in Held /\ ~Writable(fd)
           /\ desc' = [desc EXCEPT ![table[fd]].offset = offset]
           /\ Return("write", Error) /\ UNCHANGED file
  <2>1. ~C!Writable(fd)  BY <1>5, SeenIs
  <2>2. offset \in Nat  BY <1>5, SkipOK
  <2>3. C!Place(fd) = View(fd) /\ heldTable[fd] = table[fd]  BY <1>5, SeenIs
  <2>4. C!Place(fd).position = offset  BY <1>5, <2>3, IdleView
  <2> HIDE DEF offset
  <2>5. heldTable' = heldTable /\ heldDesc' = C!At(fd, offset)  BY <1>1, <1>5, <2>2, MoveAbs
  <2>6. heldDesc' = heldDesc
    <3>1. View(fd).position = offset  BY <2>3, <2>4
    <3> QED  BY <1>5, <2>5, <3>1, StayAbs
  <2>7. C!Return("write", C!Error)  BY <1>5 DEF Return, C!Return, Error, C!Error
  <2> QED  BY <1>1, <1>2, <1>5, <2>1, <2>5, <2>6, <2>7 DEF C!Write, slots
<1>6. CASE fd \notin Held /\ Return("write", Error) /\ UNCHANGED <<file, desc>>
  <2>1. fd \notin Opened /\ ~C!Writable(fd)  BY <1>6, SeenIs DEF Writable
  <2>2. read_cache' = read_cache
    <3>1. read_cache[fd] = <<>>  BY <2>1, NothingCached DEF Readable
    <3>2. read_cache \in [fds -> Seq(Byte)]  BY DEF IInv, Types
    <3> QED  BY <1>1, <3>1, <3>2 DEF ClearCache
  <2>3. heldTable' = heldTable /\ heldDesc' = heldDesc  BY <1>1, <1>6, <2>2, NothingGot, QuietShown
  <2>4. C!Return("write", C!Error)  BY <1>6 DEF Return, C!Return, Error, C!Error
  <2> QED  BY <1>1, <1>2, <1>6, <2>1, <2>3, <2>4 DEF C!Write, slots
<1> QED  BY <1>4, <1>5, <1>6 DEF Write

\* lseek moves the reader's position, or skips what was cached when it fails.
LEMMA SeekAbs ==
  ASSUME IInv, JInv, IInv', JInv', call = Idle, NEW fd \in Held, NEW whence \in {"set", "cur", "end"},
         NEW off \in Int, Lseek(fd, whence, off), UNCHANGED portVars
  PROVE  C!Seek(fd, whence, off)
<1> DEFINE l == Len(file[Place(fd).name])
           base == CASE whence = "set" -> 0
                     [] whence = "cur" -> Place(fd).offset - Skip(fd)
                     [] whence = "end" -> l
           cto == off + CASE whence = "set" -> 0
                          [] whence = "cur" -> C!Place(fd).position
                          [] whence = "end" -> Len(file[C!Place(fd).name])
<1>1. fd \in fds /\ fd \in Opened  BY DEF Held
<1>2. /\ UNCHANGED <<file, peer, table, ungetc_buf, call, g_ports, stdin, stdout>>
      /\ slots' = slots
  BY SameSlots DEF Lseek, portVars
<1>3. Asked(call)' = Asked(call)  BY <1>2 DEF Asked
<1>4. /\ Place(fd).offset - Skip(fd) \in Nat /\ l \in Nat /\ Place(fd).offset \in 0 .. l
      /\ Place(fd).offset - Skip(fd) <= Place(fd).offset
  <2>1. Place(fd).offset - Skip(fd) \in Nat /\ l \in Nat /\ Place(fd).offset \in 0 .. l
    BY <1>1, SkipOK, PlaceOK
  <2>2. Skip(fd) \in Nat  BY <1>1, LenProperties DEF Skip, IInv, Types
  <2> QED  BY <2>1, <2>2
<1>5. C!Place(fd) = View(fd) /\ DOMAIN heldTable = Held /\ heldTable[fd] = table[fd]  BY <1>1, SeenIs
<1>6. C!Place(fd).name = Place(fd).name /\ C!Place(fd).position = Place(fd).offset - Skip(fd)
  BY <1>5, IdleView
<1>7. base \in Nat /\ cto = base + off
  <2>1. CASE whence = "set"  BY <2>1
  <2>2. CASE whence = "cur"
    <3>1. base = Place(fd).offset - Skip(fd)  BY <2>2
    <3>2. cto = off + (Place(fd).offset - Skip(fd))  BY <1>6, <2>2
    <3> QED  BY <1>4, <3>1, <3>2
  <2>3. CASE whence = "end"
    <3>1. base = l /\ cto = off + l  BY <1>6, <2>3
    <3> QED  BY <1>4, <3>1
  <2> QED  BY <2>1, <2>2, <2>3
<1>8. CASE Place(fd).name = Pipe
  <2>1. Return("lseek", Error) /\ UNCHANGED <<desc, read_cache>>  BY <1>8 DEF Lseek
  <2>2. heldTable' = heldTable /\ heldDesc' = heldDesc  BY <1>2, <2>1, NothingGot, QuietShown
  <2>3. C!Return("lseek", C!Error)  BY <2>1 DEF Return, C!Return, Error, C!Error
  <2> QED  BY <1>2, <1>3, <1>5, <1>6, <1>8, <2>2, <2>3 DEF C!Seek, slots
<1>9. CASE Place(fd).name # Pipe
  <2>1. /\ read_cache' = ClearCache(fd)
        /\ IF base + off < 0 THEN Return("lseek", Error) /\ UNCHANGED desc
           ELSE /\ Return("lseek", <<base + off>>)
                /\ desc' = [desc EXCEPT ![table[fd]].offset = base + off]
    BY <1>9 DEF Lseek
  <2> HIDE DEF base
  <2>2. CASE base + off < 0
    <3>1. desc' = [desc EXCEPT ![table[fd]].offset = Place(fd).offset]
      <4>1. /\ table[fd] \in DOMAIN desc /\ desc[table[fd]] = Place(fd)
            /\ Place(fd) \in [name : Names, offset : Nat, access : {"r", "w", "rw"}]
        BY <1>1, PlaceOK
      <4>2. [Place(fd) EXCEPT !.offset = Place(fd).offset] = Place(fd)  BY <4>1
      <4>3. desc = [d \in DOMAIN desc |-> desc[d]]  BY DEF IInv, Types
      <4> QED  BY <2>1, <2>2, <4>1, <4>2, <4>3
    <3>2. heldTable' = heldTable /\ heldDesc' = C!At(fd, Place(fd).offset)
      <4>1. Place(fd).offset \in Nat  BY <1>4
      <4> QED  BY <1>2, <2>1, <3>1, <4>1, MoveAbs
    <3>3. Place(fd).offset \in C!Place(fd).position .. Len(file[C!Place(fd).name])
      <4>1. Place(fd).offset \in (Place(fd).offset - Skip(fd)) .. l  BY <1>4
      <4> QED  BY <1>6, <4>1
    <3>4. C!Return("lseek", C!Error)  BY <2>1, <2>2 DEF Return, C!Return, Error, C!Error
    <3>5. cto < 0  BY <1>7, <2>2
    <3>6. C!Place(fd).name # Pipe  BY <1>6, <1>9
    <3> QED  BY <1>2, <1>3, <1>5, <3>2, <3>3, <3>4, <3>5, <3>6 DEF C!Seek, slots
  <2>3. CASE ~(base + off < 0)
    <3>1. cto \in Nat /\ cto >= 0  BY <1>7, <2>3
    <3> HIDE DEF cto
    <3>2. desc' = [desc EXCEPT ![table[fd]].offset = cto] /\ Return("lseek", <<cto>>)  BY <1>7, <2>1, <2>3
    <3>3. heldTable' = heldTable /\ heldDesc' = C!At(fd, cto)  BY <1>2, <2>1, <3>1, <3>2, MoveAbs
    <3>4. C!Return("lseek", <<cto>>)  BY <3>2 DEF Return, C!Return
    <3>5. C!Place(fd).name # Pipe  BY <1>6, <1>9
    <3> QED  BY <1>2, <1>3, <1>5, <3>1, <3>3, <3>4, <3>5 DEF C!Seek, slots, cto
  <2> QED  BY <2>2, <2>3
<1> QED  BY <1>8, <1>9

-----------------------------------------------------------------------------
(* Calls that open and close descriptors.                                  *)

\* The lowest descriptor that is free is the program's, when it has one.
LEMMA LowestFree ==
  ASSUME IInv, NEW l \in {FILEDES_MAX, OPEN_MAX}, NEW r, r = Min(Free(l)), Free(l) # {}
  PROVE  /\ r \in 0 .. l - 1 /\ r \notin Opened
         /\ r \in fds => fds \ Held # {} /\ C!Min(fds \ Held) = r
         /\ r \notin fds => fds \ Held = {}
<1>1. FILEDES_MAX \in Nat /\ OPEN_MAX \in Nat /\ FILEDES_MAX <= OPEN_MAX /\ fds = 0 .. FILEDES_MAX - 1
  BY DescriptorAssumption DEF fds
<1>2. l \in Nat /\ FILEDES_MAX <= l  BY <1>1
<1>3. Free(l) \subseteq Nat /\ fds \ Held \subseteq Free(l)
  BY <1>1, <1>2 DEF Free, Held
<1>4. r \in Free(l) /\ \A y \in Free(l) : r <= y  BY <1>3, LeastNat
<1>5. r \in 0 .. l - 1 /\ r \notin Opened  BY <1>4 DEF Free
<1>6. ASSUME r \in fds PROVE fds \ Held # {} /\ C!Min(fds \ Held) = r
  <2> DEFINE S == fds \ Held
  <2>1. r \in S  BY <1>5, <1>6 DEF Held
  <2>2. S \subseteq Nat  BY <1>3
  <2> HIDE DEF S
  <2>3. Min(S) \in S /\ Min(S) <= r  BY <2>1, <2>2, LeastNat
  <2>4. r <= Min(S)  BY <1>3, <1>4, <2>3 DEF S
  <2>5. Min(S) = r
    <3>1. Min(S) \in Nat /\ r \in Nat  BY <1>3, <1>4, <2>2, <2>3
    <3> QED  BY <2>3, <2>4, <3>1
  <2>6. C!Min(S) = Min(S)  BY SameOperators
  <2> QED  BY <2>1, <2>5, <2>6 DEF S
<1>7. ASSUME r \notin fds PROVE fds \ Held = {}
  <2> SUFFICES ASSUME NEW f \in fds \ Held PROVE FALSE  OBVIOUS
  <2>1. r <= f  BY <1>3, <1>4
  <2> QED  BY <1>1, <1>5, <1>7, <2>1
<1> QED  BY <1>5, <1>6, <1>7

\* open takes the lowest descriptor, or fails.
LEMMA OpenAbs ==
  ASSUME IInv, JInv, IInv', JInv', call = Idle, NEW name \in Names, NEW access \in {"r", "w", "rw"},
         NEW truncate \in BOOLEAN, Open(name, access, truncate), UNCHANGED portVars
  PROVE  C!Open(name, access, truncate)
<1> DEFINE cleared == [file EXCEPT ![name] = <<>>]
<1>0. PICK r, d : r = Min(Free(OPEN_MAX)) /\ d = NewDescription  OBVIOUS
<1>1. UNCHANGED <<peer, call, g_ports, stdin, stdout>> /\ Asked(call)' = Asked(call)
  BY DEF Open, portVars, Asked
<1>2. /\ file \in [Names -> Seq(Byte)] /\ read_cache \in [fds -> Seq(Byte)]
      /\ Opened \subseteq 0 .. OPEN_MAX - 1 /\ DOMAIN desc = Range(table)
      /\ ungetc_buf \in [fds -> -1 .. 255]
  BY DEF IInv, Types, TypeOK
<1>3. Shown /\ Shown'  BY ShownHolds, NextShown
<1>4. CASE Free(OPEN_MAX) = {}
  <2>1. Return("open", Error) /\ UNCHANGED <<file, table, desc, ungetc_buf, read_cache>>
    BY <1>4 DEF Open
  <2>2. heldTable' = heldTable /\ heldDesc' = heldDesc /\ slots' = slots
    BY <1>1, <2>1, NothingGot, QuietShown, SameSlots
  <2>3. fds \ DOMAIN heldTable = {}
    <3>1. 0 .. OPEN_MAX - 1 \subseteq Opened  BY <1>4 DEF Free
    <3>2. fds \subseteq 0 .. OPEN_MAX - 1  BY DescriptorAssumption DEF fds
    <3> QED  BY <1>3, <3>1, <3>2 DEF Shown, Held
  <2>4. C!Return("open", C!Error)  BY <2>1 DEF Return, C!Return, Error, C!Error
  <2> QED  BY <1>1, <2>1, <2>2, <2>3, <2>4 DEF C!Open, slots
<1>5. CASE Free(OPEN_MAX) # {}
  <2>1. /\ table' = With(table, r, d)
        /\ desc' = With(desc, d, [name |-> name, offset |-> 0, access |-> access])
        /\ file' = [file EXCEPT ![name] = IF truncate THEN <<>> ELSE @]
        /\ Return("open", IF r >= FILEDES_MAX THEN Error ELSE <<r>>)
        /\ IF r \in fds /\ r > 2
           THEN ungetc_buf' = ClearPushed(r) /\ read_cache' = ClearCache(r)
           ELSE UNCHANGED <<ungetc_buf, read_cache>>
    BY <1>0, <1>5 DEF Open
  <2>2. /\ r \in 0 .. OPEN_MAX - 1 /\ r \notin Opened
        /\ r \in fds => fds \ Held # {} /\ C!Min(fds \ Held) = r
        /\ r \notin fds => fds \ Held = {}
    BY <1>0, <1>5, LowestFree
  <2>3. d \in 0 .. OPEN_MAX /\ d \notin Range(table)
    <3> DEFINE S == (0 .. OPEN_MAX) \ Range(table)
    <3>1. S # {}  BY <1>2, DescriptorAssumption, FreeValue DEF Opened
    <3>2. S \subseteq Nat  BY DescriptorAssumption
    <3>3. d = Min(S)  BY <1>0 DEF NewDescription
    <3> HIDE DEF S
    <3>4. d \in S  BY <3>1, <3>2, <3>3, LeastNat
    <3> QED  BY <3>4 DEF S
  <2>4. file' = IF truncate THEN cleared ELSE file
    <3>1. file = [n \in Names |-> file[n]]  BY <1>2
    <3> QED  BY <2>1, <3>1
  <2>5. read_cache' = read_cache
    <3>1. r \in fds => read_cache[r] = <<>>
      <4>1. ~Readable(r)  BY <2>2 DEF Readable
      <4> QED  BY <4>1, NothingCached
    <3> QED  BY <1>2, <2>1, <3>1 DEF ClearCache
  <2>6. /\ Opened' = Opened \cup {r} /\ table'[r] = d
        /\ \A f \in Opened : table'[f] = table[f]
        /\ desc'[d] = [name |-> name, offset |-> 0, access |-> access]
        /\ \A e \in Range(table) : desc'[e] = desc[e]
    BY <1>2, <2>1, <2>2, <2>3 DEF With, Opened
  <2>7. ASSUME NEW g \in Held PROVE View(g)' = View(g) /\ table'[g] = table[g]
    <3>1. g \in Opened  BY DEF Held
    <3>2. table[g] \in Range(table)  BY <3>1 DEF Range, Opened
    <3>3. Place(g)' = Place(g) /\ table'[g] = table[g]  BY <2>6, <3>1, <3>2 DEF Place
    <3>4. ReadAhead(g)' = ReadAhead(g)  BY <1>1, <2>5 DEF ReadAhead
    <3> QED  BY <3>3, <3>4 DEF View
  <2>8. CASE r \notin fds
    <3>1. Held' = Held  BY <2>6, <2>8 DEF Held
    <3>2. heldTable' = heldTable  BY <1>3, <2>7, <3>1 DEF Shown
    <3>3. heldDesc' = heldDesc  BY <1>3, <2>7, <3>1, NewDesc DEF Shown
    <3>4. slots' = slots  BY <2>1, <2>8, SameSlots
    <3>5. C!Return("open", C!Error)
      <4>1. r >= FILEDES_MAX  BY <2>2, <2>8, DescriptorAssumption DEF fds
      <4> QED  BY <2>1, <4>1 DEF Return, C!Return, Error, C!Error
    <3>6. fds \ DOMAIN heldTable = {}  BY <1>3, <2>2, <2>8 DEF Shown
    <3>7. file' \in IF truncate THEN {file, cleared} ELSE {file}  BY <2>4
    <3> QED  BY <1>1, <3>2, <3>3, <3>4, <3>5, <3>6, <3>7 DEF C!Open, slots
  <2>9. CASE r \in fds
    <3> DEFINE new == [name |-> name, position |-> 0, access |-> access]
    <3>1. Held' = Held \cup {r}  BY <2>6, <2>9 DEF Held
    <3>2. heldTable' = With(heldTable, r, d)
      <4>1. r \notin Held  BY <2>2 DEF Held
      <4> QED  BY <1>3, <2>6, <2>7, <3>1, <4>1 DEF Shown, With
    <3>3. d \notin Range(heldTable)
      <4>1. \A g \in Held : table[g] \in Range(table)  BY DEF Held, Opened, Range
      <4> QED  BY <1>3, <2>3, <4>1 DEF Shown
    <3>4. heldDesc' = With(heldDesc, d, new)
      <4> DEFINE D == With(heldDesc, d, new)
      <4>1. DOMAIN D = {table'[f] : f \in Held'} /\ D = [e \in DOMAIN D |-> D[e]]
        <5>1. DOMAIN heldDesc = {table[f] : f \in Held}  BY <1>3 DEF Shown
        <5>2. DOMAIN D = DOMAIN heldDesc \cup {d} /\ D = [e \in DOMAIN D |-> D[e]]  BY DEF With
        <5>3. {table'[f] : f \in Held'} = {table[f] : f \in Held} \cup {d}
          BY <2>6, <2>7, <3>1
        <5> QED  BY <5>1, <5>2, <5>3
      <4>2. ASSUME NEW g \in Held' PROVE D[table'[g]] = View(g)'
        <5>1. CASE g \in Held
          <6>1. table[g] \in DOMAIN heldDesc /\ table[g] # d /\ heldDesc[table[g]] = View(g)
            BY <1>3, <3>3, <5>1 DEF Shown
          <6> QED  BY <2>7, <5>1, <6>1 DEF With
        <5>2. CASE g = r
          <6>1. Place(r)' = [name |-> name, offset |-> 0, access |-> access]  BY <2>6 DEF Place
          <6>2. ReadAhead(r)' = 0
            <7>1. ~Readable(r)  BY <2>2 DEF Readable
            <7>2. Len(read_cache'[r]) = 0  BY <2>5, <2>9, <7>1, NothingCached
            <7>3. Len(call'.got) = 0  BY <1>1, NothingGot
            <7> QED  BY <7>2, <7>3 DEF ReadAhead
          <6>3. View(r)' = new  BY <6>1, <6>2 DEF View
          <6> QED  BY <2>6, <5>2, <6>3 DEF With
        <5> QED  BY <3>1, <5>1, <5>2
      <4> HIDE DEF D
      <4>3. heldDesc' = D  BY <4>1, <4>2, NewDesc
      <4> QED  BY <4>3 DEF D
    <3>5. slots' = [slots EXCEPT ![r] = <<>>]
      <4>1. CASE r > 2
        <5>1. ungetc_buf' = [ungetc_buf EXCEPT ![r] = -1] /\ -1 \in -1 .. 255
          BY <2>1, <2>9, <4>1 DEF ClearPushed
        <5>2. slots' = [slots EXCEPT ![r] = IF -1 >= 0 THEN <<-1>> ELSE <<>>]  BY <1>2, <2>9, <5>1, NewSlot
        <5> QED  BY <5>2
      <4>2. CASE ~(r > 2)
        <5>1. slots' = slots  BY <2>1, <4>2, SameSlots
        <5>2. ungetc_buf[r] = -1  BY <2>2, <2>9 DEF JInv, Emptied
        <5>3. slots[r] = <<>>  BY <2>9, <5>2 DEF slots, Pushed
        <5> QED  BY <2>9, <5>1, <5>3 DEF slots
      <4> QED  BY <4>1, <4>2
    <3>6. C!Return("open", <<r>>)
      <4>1. ~(r >= FILEDES_MAX)  BY <2>9, DescriptorAssumption DEF fds
      <4> QED  BY <2>1, <4>1 DEF Return, C!Return
    <3>7. fds \ DOMAIN heldTable # {} /\ C!Min(fds \ DOMAIN heldTable) = r
      BY <1>3, <2>2, <2>9 DEF Shown
    <3>8. d \in (0 .. OPEN_MAX) \ C!Range(heldTable)  BY <2>3, <3>3, SameOperators
    <3>9. heldTable' = C!With(heldTable, r, d) /\ heldDesc' = C!With(heldDesc, d, new)
      BY <3>2, <3>4, SameOperators
    <3> QED  BY <1>1, <2>4, <3>5, <3>6, <3>7, <3>8, <3>9 DEF C!Open, slots
  <2> QED  BY <2>8, <2>9
<1> QED  BY <1>4, <1>5

\* Descriptions are kept as long as a descriptor is left.
LEMMA ReattachAbs ==
  ASSUME IInv, JInv, IInv', JInv',
         \A g \in Held' : \E old \in Held : table'[g] = table[old] /\ View(g)' = View(old)
  PROVE  heldDesc' = C!Restrict(heldDesc, C!Range(heldTable'))
<1> DEFINE D == Restrict(heldDesc, Range(heldTable'))
<1>1. Shown /\ Shown'  BY ShownHolds, NextShown
<1>2. DOMAIN D = {table'[g] : g \in Held'} /\ D = [e \in DOMAIN D |-> D[e]]
  BY <1>1 DEF Shown, Restrict
<1>3. ASSUME NEW g \in Held' PROVE D[table'[g]] = View(g)'
  <2>1. PICK old \in Held : table'[g] = table[old] /\ View(g)' = View(old)  OBVIOUS
  <2>2. heldDesc[table[old]] = View(old)  BY <1>1 DEF Shown
  <2>3. table'[g] \in Range(heldTable')  BY <1>1 DEF Shown
  <2> QED  BY <2>1, <2>2, <2>3 DEF Restrict
<1> HIDE DEF D
<1>4. heldDesc' = D  BY <1>2, <1>3, NewDesc
<1> QED  BY <1>4, SameOperators DEF D

\* close forgets the descriptor and what was pushed back on it.
LEMMA CloseAbs ==
  ASSUME IInv, JInv, IInv', JInv', call = Idle, NEW fd \in Held, Close(fd), UNCHANGED portVars
  PROVE  C!Close(fd)
<1>1. /\ UNCHANGED <<file, peer, call, g_ports, stdin, stdout>> /\ Asked(call)' = Asked(call)
      /\ ungetc_buf' = ClearPushed(fd) /\ read_cache' = ClearCache(fd)
      /\ table' = Restrict(table, Opened \ {fd}) /\ desc' = Restrict(desc, Range(table'))
      /\ Return("close", <<0>>)
  BY DEF Close, portVars, Asked
<1>2. Shown /\ Shown'  BY ShownHolds, NextShown
<1>3. fd \in fds /\ fd \in Opened /\ read_cache \in [fds -> Seq(Byte)] /\ ungetc_buf \in [fds -> -1 .. 255]
  BY DEF Held, IInv, Types, TypeOK
<1>4. Held' = Held \ {fd} /\ \A g \in Opened \ {fd} : table'[g] = table[g]
  BY <1>1 DEF Restrict, Opened, Held
<1>5. ASSUME NEW g \in Held' PROVE g \in Held /\ table'[g] = table[g] /\ View(g)' = View(g)
  <2>1. g \in Opened /\ g \in fds /\ g # fd /\ g \in Held  BY <1>4 DEF Held
  <2>2. table'[g] = table[g] /\ table[g] \in Range(table')
    <3>1. table'[g] = table[g] /\ g \in DOMAIN table'  BY <1>1, <1>4, <2>1 DEF Restrict
    <3> QED  BY <3>1 DEF Range
  <2>3. Place(g)' = Place(g)  BY <1>1, <2>2 DEF Place, Restrict
  <2>4. read_cache'[g] = read_cache[g]  BY <1>1, <1>3, <2>1 DEF ClearCache
  <2>5. ReadAhead(g)' = ReadAhead(g)  BY <1>1, <2>4 DEF ReadAhead
  <2> QED  BY <2>1, <2>2, <2>3, <2>5 DEF View
<1>6. heldDesc' = C!Restrict(heldDesc, C!Range(heldTable'))  BY <1>5, ReattachAbs
<1>7. heldTable' = C!Restrict(heldTable, DOMAIN heldTable \ {fd})
  <2>1. heldTable' = Restrict(heldTable, Held \ {fd})  BY <1>2, <1>4, <1>5 DEF Shown, Restrict
  <2> QED  BY <1>2, <2>1, SameOperators DEF Shown
<1>8. slots' = [slots EXCEPT ![fd] = <<>>]
  <2>1. ungetc_buf' = [ungetc_buf EXCEPT ![fd] = -1] /\ -1 \in -1 .. 255  BY <1>1 DEF ClearPushed
  <2>2. slots' = [slots EXCEPT ![fd] = IF -1 >= 0 THEN <<-1>> ELSE <<>>]  BY <1>3, <2>1, NewSlot
  <2> QED  BY <2>2
<1>9. fd \in DOMAIN heldTable  BY <1>2 DEF Shown
<1>10. C!Return("close", <<0>>)  BY <1>1 DEF Return, C!Return
<1> QED  BY <1>1, <1>6, <1>7, <1>8, <1>9, <1>10 DEF C!Close, slots

\* A descriptor that nothing is read from shares the position of another.
LEMMA DuplicateAbs ==
  ASSUME IInv, JInv, IInv', JInv', call = Idle, NEW old \in Held, NEW new \in fds,
         ~Readable(old), ~Readable(new), table' = With(table, new, table[old]),
         \A e \in Range(table') : desc'[e] = desc[e],
         UNCHANGED <<file, peer, ungetc_buf, read_cache, call, portVars>>,
         NEW op \in {"dup", "dup2"}, Return(op, <<new>>)
  PROVE  C!Duplicate(old, new)
<1>1. Shown /\ Shown'  BY ShownHolds, NextShown
<1>2. old \in fds /\ old \in Opened  BY DEF Held
<1>3. /\ Held' = Held \cup {new} /\ table'[new] = table[old]
      /\ \A g \in Opened \ {new} : table'[g] = table[g]
  BY DEF With, Held, Opened
<1>4. ASSUME NEW g \in Held' PROVE Place(g)' = desc[table'[g]]
  <2>1. table'[g] \in Range(table')  BY DEF Held, Opened, Range
  <2> QED  BY <2>1 DEF Place
<1>5. \A g \in fds : ReadAhead(g)' = ReadAhead(g)  BY DEF ReadAhead
<1>6. \A g \in fds : ~Readable(g) => ReadAhead(g) = 0
  <2> SUFFICES ASSUME NEW g \in fds, ~Readable(g) PROVE ReadAhead(g) = 0  OBVIOUS
  <2>1. Len(read_cache[g]) = 0 /\ Len(call.got) = 0  BY NothingCached, NothingGot
  <2> QED  BY <2>1 DEF ReadAhead
<1>7. ASSUME NEW g \in Held' PROVE \E o \in Held : table'[g] = table[o] /\ View(g)' = View(o)
  <2>1. g \in fds  BY DEF Held
  <2>2. CASE g = new
    <3>1. Place(new)' = Place(old)  BY <1>3, <1>4, <2>2 DEF Place
    <3>2. ReadAhead(new)' = 0 /\ ReadAhead(old) = 0  BY <1>2, <1>5, <1>6
    <3>3. View(new)' = View(old)  BY <3>1, <3>2 DEF View
    <3> QED  BY <1>3, <2>2, <3>3
  <2>3. CASE g # new
    <3>1. g \in Held /\ g \in Opened  BY <1>3, <2>3 DEF Held
    <3>2. table'[g] = table[g] /\ Place(g)' = Place(g)  BY <1>3, <1>4, <2>3, <3>1 DEF Place
    <3>3. View(g)' = View(g)  BY <1>5, <2>1, <3>2 DEF View
    <3> QED  BY <3>1, <3>2, <3>3
  <2> QED  BY <2>2, <2>3
<1>8. heldDesc' = C!Restrict(heldDesc, C!Range(heldTable'))  BY <1>7, ReattachAbs
<1>9. heldTable' = With(heldTable, new, heldTable[old])
  <2>1. DOMAIN heldTable = Held /\ heldTable[old] = table[old] /\ \A g \in Held : heldTable[g] = table[g]
    BY <1>1 DEF Shown
  <2>2. heldTable' = [g \in Held' |-> table'[g]]  BY <1>1 DEF Shown
  <2>3. \A g \in Held' : table'[g] = IF g = new THEN heldTable[old] ELSE heldTable[g]
    <3>1. \A g \in Held : g \in Opened  BY DEF Held
    <3> QED  BY <1>3, <2>1, <3>1
  <2> QED  BY <1>3, <2>1, <2>2, <2>3 DEF With
<1>10. C!Attach(new, heldTable[old])  BY <1>8, <1>9, SameOperators DEF C!Attach
<1>11. old \in DOMAIN heldTable /\ ~C!Readable(new)  BY <1>1, SeenIs DEF Shown
<1>12. slots' = slots /\ Asked(call)' = Asked(call)  BY SameSlots DEF Asked
<1>13. C!Return(op, <<new>>)  BY DEF Return, C!Return
<1> QED  BY <1>10, <1>11, <1>12, <1>13 DEF C!Duplicate, slots, portVars

\* dup takes the lowest descriptor.
LEMMA DupAbs ==
  ASSUME IInv, JInv, IInv', JInv', call = Idle, NEW old \in Held, Dup(old), UNCHANGED portVars
  PROVE  \E new \in fds : C!Duplicate(old, new)
<1>1. PICK new : new = Min(Free(FILEDES_MAX))  OBVIOUS
<1>2. new \in fds /\ new \notin Opened
  <2>1. new \in 0 .. FILEDES_MAX - 1 /\ new \notin Opened  BY <1>1, LowestFree DEF Dup
  <2> QED  BY <2>1 DEF fds
<1>3. /\ table' = With(table, new, table[old]) /\ Return("dup", <<new>>) /\ ~Readable(old)
      /\ UNCHANGED <<file, peer, desc, ungetc_buf, read_cache, call>>
  BY <1>1 DEF Dup
<1>4. ~Readable(new)  BY <1>2 DEF Readable
<1>5. C!Duplicate(old, new)  BY <1>2, <1>3, <1>4, DuplicateAbs
<1> QED  BY <1>2, <1>5

\* dup2 takes the descriptor that it is told.
LEMMA Dup2Abs ==
  ASSUME IInv, JInv, IInv', JInv', call = Idle, NEW old \in fds, NEW new \in fds, Dup2(old, new), UNCHANGED portVars
  PROVE  old \in Held /\ C!Duplicate(old, new)
<1>1. /\ table' = With(table, new, table[old]) /\ Return("dup2", <<new>>)
      /\ ~Readable(old) /\ ~Readable(new) /\ old \in Held
      /\ desc' = Restrict(desc, Range(table'))
      /\ UNCHANGED <<file, peer, ungetc_buf, read_cache, call>>
  BY DEF Dup2
<1>2. \A e \in Range(table') : desc'[e] = desc[e]  BY <1>1 DEF Restrict
<1>3. C!Duplicate(old, new)  BY <1>1, <1>2, DuplicateAbs
<1> QED  BY <1>1, <1>3

-----------------------------------------------------------------------------
(* Reads of C programs begin, and reads go on.                             *)

\* read asks for bytes and leaves what is pushed back.
LEMMA ReadAbs ==
  ASSUME IInv, JInv, IInv', JInv', call = Idle, NEW fd \in Held, NEW n \in Requests,
         Read(fd, n), UNCHANGED portVars
  PROVE  C!Ask("read", fd, n)
<1>1. /\ UNCHANGED <<file, peer, table, desc, ungetc_buf, read_cache, ret, g_ports, stdin, stdout>>
      /\ call' = [op |-> "read", fd |-> fd, size |-> n, first |-> <<>>, got |-> <<>>]
  BY DEF Read, Call, portVars
<1>2. n > Len(<<>>) /\ n - Len(<<>>) = n  BY DescriptorAssumption
<1>3. Len(call'.got) = 0 /\ Asked(call)' = [op |-> "read", fd |-> fd, size |-> n, first |-> <<>>]
  BY <1>1 DEF Asked
<1>4. heldTable' = heldTable /\ heldDesc' = heldDesc /\ slots' = slots
  BY <1>1, <1>3, NothingGot, QuietShown, SameSlots
<1>5. slots' = [slots EXCEPT ![fd] = IF "read" = "read" THEN @ ELSE <<>>]  BY <1>4 DEF slots
<1> QED  BY <1>1, <1>2, <1>3, <1>4, <1>5 DEF C!Ask, slots

\* fread takes what is pushed back, and asks for the rest.
LEMMA FreadAbs ==
  ASSUME IInv, JInv, IInv', JInv', call = Idle, NEW fd \in Held, NEW n \in Requests,
         Fread(fd, n), UNCHANGED portVars
  PROVE  C!Ask("fread", fd, n) \/ (n = 1 /\ C!TakeBack("fread", fd))
<1>1. fd \in fds /\ n \in Nat /\ n # 0 /\ ungetc_buf \in [fds -> -1 .. 255]
  BY DescriptorAssumption DEF Held, IInv, TypeOK
<1>2. /\ UNCHANGED <<file, peer, table, desc, read_cache, g_ports, stdin, stdout>>
      /\ ungetc_buf' = [ungetc_buf EXCEPT ![fd] = -1]
      /\ IF Len(Pushed(fd)) = n THEN Return("fread", Pushed(fd)) /\ UNCHANGED call
         ELSE Call("fread", fd, n - Len(Pushed(fd)), Pushed(fd)) /\ UNCHANGED ret
  BY DEF Fread, ClearPushed, portVars
<1>3. slots[fd] = Pushed(fd)  BY <1>1 DEF slots
<1>4. slots' = [slots EXCEPT ![fd] = <<>>]
  <2>1. slots' = [slots EXCEPT ![fd] = IF -1 >= 0 THEN <<-1>> ELSE <<>>]
    <3>1. -1 \in -1 .. 255  OBVIOUS
    <3> QED  BY <1>1, <1>2, <3>1, NewSlot
  <2> QED  BY <2>1
<1>5. Len(Pushed(fd)) = 0 \/ Len(Pushed(fd)) = 1  BY <1>1, PushedOK
<1>6. CASE Len(Pushed(fd)) = n
  <2>1. ret' = [op |-> "fread", value |-> Pushed(fd)] /\ call' = call  BY <1>2, <1>6 DEF Return
  <2>2. n = 1  BY <1>1, <1>5, <1>6
  <2>3. Pushed(fd) # <<>>  BY <1>6, <2>2
  <2>4. heldTable' = heldTable /\ heldDesc' = heldDesc  BY <1>2, <2>1, NothingGot, QuietShown
  <2>5. Asked(call)' = Asked(call)  BY <2>1 DEF Asked
  <2>6. slots' = [slots EXCEPT ![fd] = IF "fread" = "peek" THEN @ ELSE <<>>]  BY <1>4
  <2>7. C!Return("fread", slots[fd])  BY <1>3, <2>1 DEF C!Return
  <2>8. C!TakeBack("fread", fd)
    BY <1>2, <1>3, <2>3, <2>4, <2>5, <2>6, <2>7 DEF C!TakeBack, slots
  <2> QED  BY <2>2, <2>8
<1>7. CASE Len(Pushed(fd)) # n
  <2>1. /\ call' = [op |-> "fread", fd |-> fd, size |-> n - Len(Pushed(fd)), first |-> Pushed(fd), got |-> <<>>]
        /\ ret' = ret
    BY <1>2, <1>7 DEF Call
  <2>2. n > Len(Pushed(fd))
    <3>1. n \in Nat /\ n # 0 /\ Len(Pushed(fd)) # n  BY <1>1, <1>7
    <3>2. CASE Len(Pushed(fd)) = 0  BY <3>1, <3>2
    <3>3. CASE Len(Pushed(fd)) = 1  BY <3>1, <3>3
    <3> QED  BY <1>5, <3>2, <3>3
  <2>3. Len(call'.got) = 0  BY <2>1
  <2>4. heldTable' = heldTable /\ heldDesc' = heldDesc  BY <1>2, <2>3, NothingGot, QuietShown
  <2>5. Asked(call)' = [op |-> "fread", fd |-> fd, size |-> n - Len(slots[fd]), first |-> slots[fd]]
    BY <1>3, <2>1 DEF Asked
  <2>6. slots' = [slots EXCEPT ![fd] = IF "fread" = "read" THEN @ ELSE <<>>] /\ n > Len(slots[fd])
    BY <1>3, <1>4, <2>2
  <2>7. C!Ask("fread", fd, n)
    BY <1>2, <2>1, <2>4, <2>5, <2>6 DEF C!Ask, slots
  <2> QED  BY <2>7
<1> QED  BY <1>6, <1>7

\* A step that moves one reader's position.
LEMMA OneShown ==
  ASSUME IInv, JInv, IInv', JInv', NEW fd \in Held, Readable(fd), table' = table, NEW p,
         View(fd)' = [name |-> Place(fd).name, position |-> p, access |-> Place(fd).access],
         \A h \in Held : h # fd => View(h)' = View(h)
  PROVE  heldTable' = heldTable /\ heldDesc' = C!At(fd, p)
<1>1. Shown /\ Shown'  BY ShownHolds, NextShown
<1>2. Held' = Held  BY DEF Held, Opened
<1> DEFINE D == C!At(fd, p)
<1>3. D = [heldDesc EXCEPT ![table[fd]].position = p]  BY <1>1 DEF Shown, C!At
<1>4. DOMAIN D = {table'[h] : h \in Held'} /\ D = [d \in DOMAIN D |-> D[d]]
  <2>1. DOMAIN D = DOMAIN heldDesc /\ D = [d \in DOMAIN D |-> D[d]]  BY <1>3
  <2>2. DOMAIN heldDesc = {table[h] : h \in Held}  BY <1>1 DEF Shown
  <2> QED  BY <1>2, <2>1, <2>2
<1>5. ASSUME NEW h \in Held PROVE D[table'[h]] = View(h)'
  <2>1. heldDesc[table[h]] = View(h) /\ table[h] \in DOMAIN heldDesc  BY <1>1 DEF Shown
  <2>2. CASE h = fd
    <3>1. D[table[h]] = [View(h) EXCEPT !.position = p]  BY <1>3, <2>1, <2>2
    <3> QED  BY <2>2, <3>1 DEF View
  <2>3. CASE h # fd
    <3>1. table[h] # table[fd]  BY <2>3, AloneOK DEF Held
    <3> QED  BY <1>3, <2>1, <2>3, <3>1
  <2> QED  BY <2>2, <2>3
<1> HIDE DEF D
<1>6. heldDesc' = D  BY <1>2, <1>4, <1>5, NewDesc
<1>7. heldTable' = heldTable  BY <1>1, <1>2 DEF Shown
<1> QED  BY <1>6, <1>7 DEF D

\* The end of a read answers it.
LEMMA AnswerAbs ==
  ASSUME IInv, JInv, call # Idle, call' = Idle, NEW n \in C!Gets(call.fd, call.size),
         NEW bytes, bytes = IF n = 0 THEN <<>> ELSE SubSeq(C!Ahead(call.fd), 1, n),
         ret' = [op |-> call.op, value |-> IF C!Failed(n) THEN Error ELSE call.first \o bytes],
         heldDesc' = IF n = 0 THEN heldDesc ELSE C!At(call.fd, C!Place(call.fd).position + n),
         slots' = [slots EXCEPT ![call.fd] = IF call.op = "peek" THEN bytes ELSE @],
         UNCHANGED <<file, peer, heldTable, g_ports, stdin, stdout>>
  PROVE  C!Answer
<1>1. Asked(call) # Asked(Idle)  BY DEF JInv, Progress, Asked, Idle
<1>2. Asked(call)' = Asked(Idle)  BY DEF Asked
<1>3. /\ Asked(call).op = call.op /\ Asked(call).fd = call.fd /\ Asked(call).size = call.size
      /\ Asked(call).first = call.first
  BY DEF Asked
<1>4. C!Error = Error  BY DEF C!Error, Error
<1> QED  BY <1>1, <1>2, <1>3, <1>4 DEF C!Answer, C!Return, slots

\* What a reader that has not reached the end gets.
LEMMA AheadIs ==
  ASSUME NEW s \in Seq(Byte), NEW p \in Nat, p <= Len(s), NEW bytes \in Seq(Byte), Len(bytes) <= Len(s) - p,
         \A i \in 1 .. Len(bytes) : bytes[i] = s[p + i]
  PROVE  /\ Len(SubSeq(s, p + 1, Len(s))) = Len(s) - p
         /\ Len(bytes) # 0 => SubSeq(SubSeq(s, p + 1, Len(s)), 1, Len(bytes)) = bytes
<1> DEFINE rest == SubSeq(s, p + 1, Len(s))
           n == Len(bytes)
           t == SubSeq(rest, 1, n)
<1>1. Len(s) \in Nat /\ n \in Nat  BY LenProperties
<1>2. rest \in Seq(Byte) /\ Len(rest) = Len(s) - p /\ \A i \in 1 .. Len(s) - p : rest[i] = s[p + i]
  BY <1>1, EndOfSeq
<1> HIDE DEF rest
<1>3. t \in Seq(Byte) /\ Len(t) = n /\ \A i \in 1 .. n : t[i] = rest[i]
  <2>1. n <= Len(rest)  BY <1>2
  <2>2. \A i \in 1 .. n : rest[i] \in Byte  BY <1>1, <1>2, <2>1, ElementOfSeq
  <2> HIDE DEF n
  <2> QED  BY <1>1, <2>2, SubSeqProperties
<1> HIDE DEF t
<1>4. \A i \in 1 .. n : t[i] = bytes[i]  BY <1>1, <1>2, <1>3
<1>5. t = bytes  BY <1>3, <1>4, SeqEqual
<1> QED  BY <1>2, <1>5 DEF rest, t

\* Where the reader is whose call is in progress.
LEMMA ReadingAt ==
  ASSUME IInv, JInv, call # Idle, Readable(call.fd)
  PROVE  /\ call.fd \in Held /\ call.fd \in fds /\ call.fd \in Opened
         /\ C!Readable(call.fd) /\ C!Place(call.fd) = View(call.fd)
         /\ View(call.fd).position \in Nat
         /\ View(call.fd).position = Place(call.fd).offset - Len(read_cache[call.fd]) - Len(call.got)
         /\ View(call.fd).position <= Len(file[Place(call.fd).name])
         /\ C!Ahead(call.fd) = SubSeq(file[Place(call.fd).name], View(call.fd).position + 1,
                                      Len(file[Place(call.fd).name]))
<1> DEFINE fd == call.fd
           o == Place(fd).offset
           c == Len(read_cache[fd])
           g == Len(call.got)
           l == Len(file[Place(fd).name])
<1>1. fd \in fds /\ fd \in Opened /\ fd \in Held  BY TodoOK DEF Readable, Held
<1>2. c \in Nat /\ g \in Nat
  <2>1. read_cache[fd] \in Seq(Byte) /\ call.got \in Seq(Byte)  BY <1>1 DEF IInv, Types, Calls
  <2> QED  BY <2>1, LenProperties
<1>3. o \in 0 .. l /\ l \in Nat  BY <1>1, PlaceOK
<1>4. c > 0 => c <= o  BY <1>1 DEF IInv, Ahead
<1>5. g > 0 => g + c <= o  BY DEF JInv, Copied
<1>6. View(fd).position = o - (c + g) /\ View(fd).name = Place(fd).name  BY DEF View, ReadAhead
<1>7. C!Readable(fd) /\ C!Place(fd) = View(fd)  BY <1>1, SeenIs
<1>8. C!Ahead(fd) = SubSeq(file[Place(fd).name], View(fd).position + 1, l)
  BY <1>6, <1>7 DEF C!Ahead
<1> HIDE DEF o, c, g, l
<1>9. o - (c + g) \in Nat /\ o - (c + g) = o - c - g /\ o - (c + g) <= l
  BY <1>2, <1>3, <1>4, <1>5
<1> QED  BY <1>1, <1>6, <1>7, <1>8, <1>9 DEF o, c, g, l

\* A read that gets all it asks for, or the rest of the file.
LEMMA FinishAbs ==
  ASSUME IInv, JInv, call # Idle, Readable(call.fd), NEW bytes \in Seq(Byte), Finish(bytes),
         NEW p, p = View(call.fd).position,
         NEW s, s = file[Place(call.fd).name],
         Len(bytes) = IF call.size <= Len(s) - p THEN call.size ELSE Len(s) - p,
         \A i \in 1 .. Len(bytes) : bytes[i] = s[p + i],
         Len(bytes) = 0 /\ Place(call.fd).name = Pipe => peer # "open",
         heldTable' = heldTable, heldDesc' = C!At(call.fd, p + Len(bytes)),
         UNCHANGED <<file, peer, portVars>>
  PROVE  C!Answer
<1> DEFINE fd == call.fd
           n == Len(bytes)
           a == C!Ahead(fd)
<1>1. /\ fd \in Held /\ fd \in fds /\ C!Readable(fd) /\ C!Place(fd) = View(fd) /\ p \in Nat /\ p <= Len(s)
      /\ a = SubSeq(s, p + 1, Len(s))
  BY ReadingAt
<1>2. s \in Seq(Byte) /\ Len(s) \in Nat /\ n \in Nat  BY ReadingAt, PlaceOK, LenProperties
<1>3. call.size \in Nat /\ call.size > 0 /\ (call.op \in {"getc", "peek"} => call.size = 1)
      /\ (call.op # "fread" => call.first = <<>>) /\ call.first \in Seq(Byte)
  BY DEF JInv, Progress, IInv, Types, Calls
<1>4. n <= Len(s) - p /\ n <= call.size
  <2> HIDE DEF n, a
  <2>1. n = IF call.size <= Len(s) - p THEN call.size ELSE Len(s) - p  BY DEF n
  <2> QED  BY <1>1, <1>2, <1>3, <2>1
<1>5. Len(a) = Len(s) - p /\ (n # 0 => SubSeq(a, 1, n) = bytes)
  <2>1. /\ Len(SubSeq(s, p + 1, Len(s))) = Len(s) - p
        /\ Len(bytes) # 0 => SubSeq(SubSeq(s, p + 1, Len(s)), 1, Len(bytes)) = bytes
    <3>1. Len(bytes) <= Len(s) - p  BY <1>4
    <3>2. s \in Seq(Byte) /\ p \in Nat /\ p <= Len(s)  BY <1>1, <1>2
    <3> HIDE DEF fd, n, a
    <3> QED  BY <3>1, <3>2, AheadIs
  <2> HIDE DEF a
  <2> QED  BY <1>1, <2>1
<1>6. n = 0 => bytes = <<>>  BY <1>2, EmptySeq
<1> HIDE DEF a
<1>7. n \in C!Gets(fd, call.size)
  <2>1. C!Min({call.size, Len(a)}) = n
    <3>1. Len(a) \in Int  BY <1>1, <1>2, <1>5
    <3>2. Min({call.size, Len(a)}) = IF call.size <= Len(a) THEN call.size ELSE Len(a)
      <4>1. call.size \in Int  BY <1>3
      <4> QED  BY <3>1, <4>1, MinOfTwo
    <3>3. Min({call.size, Len(a)}) = n  BY <1>5, <3>2
    <3> QED  BY <3>3, SameOperators
  <2>2. C!Place(fd).name = Place(fd).name  BY <1>1 DEF View
  <2>3. C!Gets(fd, call.size) =
          (IF ~C!Readable(fd) THEN {0}
           ELSE IF C!Place(fd).name # Pipe THEN {n}
           ELSE IF n > 0 THEN 1..n
           ELSE IF peer = "closed" THEN {0} ELSE {})
    BY <2>1 DEF C!Gets, a
  <2>4. CASE Place(fd).name # Pipe  BY <1>1, <2>2, <2>3, <2>4
  <2>5. CASE Place(fd).name = Pipe /\ n > 0
    <3>1. n \in 1 .. n  BY <1>2, <2>5
    <3> QED  BY <1>1, <2>2, <2>3, <2>5, <3>1
  <2>6. CASE Place(fd).name = Pipe /\ ~(n > 0)
    <3>1. n = 0  BY <1>2, <2>6
    <3>2. peer = "closed"  BY <2>6, <3>1 DEF JInv
    <3> QED  BY <1>1, <2>2, <2>3, <2>6, <3>1, <3>2
  <2> QED  BY <2>4, <2>5, <2>6
<1>8. bytes = IF n = 0 THEN <<>> ELSE SubSeq(C!Ahead(fd), 1, n)
  BY <1>5, <1>6 DEF a
<1>9. heldDesc' = IF n = 0 THEN heldDesc ELSE C!At(fd, C!Place(fd).position + n)
  <2>1. CASE n # 0  BY <1>1, <2>1
  <2>2. CASE n = 0
    <3>1. p + n = p
      <4>1. p \in Nat  BY <1>1
      <4>2. p + 0 = p  BY <4>1
      <4> HIDE DEF n
      <4> QED  BY <2>2, <4>2
    <3>2. C!At(fd, p) = heldDesc
      <4> HIDE DEF fd
      <4>1. p = View(fd).position  BY DEF fd
      <4> QED  BY <1>1, <4>1, StayAbs
    <3> QED  BY <2>2, <3>1, <3>2
  <2> QED  BY <2>1, <2>2
<1> DEFINE value == IF call.op \in {"getc", "peek"} /\ bytes = <<>> THEN Error ELSE bytes
<1>10. /\ ret' = [op |-> call.op, value |-> IF call.op = "fread" THEN call.first \o bytes ELSE value]
       /\ call' = Idle
       /\ ungetc_buf' = IF call.op = "peek" THEN [ungetc_buf EXCEPT ![fd] = value[1]] ELSE ungetc_buf
  BY DEF Finish, Return
<1>11. ret' = [op |-> call.op, value |-> IF C!Failed(n) THEN Error ELSE call.first \o bytes]
  <2>1. C!Failed(n) <=> call.op \in {"getc", "peek"} /\ n = 0
    BY <1>1 DEF C!Failed, Asked
  <2>2. bytes = <<>> <=> n = 0  BY <1>6
  <2>3. CASE call.op = "fread"  BY <1>10, <2>1, <2>3
  <2>4. CASE call.op # "fread"
    <3>1. call.first \o bytes = bytes  BY <1>3, <2>4, ConcatEmptySeq
    <3> QED  BY <1>10, <2>1, <2>2, <2>4, <3>1
  <2> QED  BY <2>3, <2>4
<1>12. slots' = [slots EXCEPT ![fd] = IF call.op = "peek" THEN bytes ELSE @]
  <2>1. CASE call.op # "peek"
    <3>1. slots' = slots  BY <1>10, <2>1, SameSlots
    <3> QED  BY <2>1, <3>1 DEF slots
  <2>2. CASE call.op = "peek" /\ n = 0
    <3>1. value[1] = -1  BY <1>6, <2>2 DEF Error
    <3>2. ungetc_buf' = [ungetc_buf EXCEPT ![fd] = -1]
      <4> HIDE DEF value
      <4> QED  BY <1>10, <2>2, <3>1
    <3>3. slots' = [slots EXCEPT ![fd] = IF -1 >= 0 THEN <<-1>> ELSE <<>>]  
      <4>1. -1 \in -1 .. 255  OBVIOUS
      <4>2. ungetc_buf \in [fds -> -1 .. 255]  BY DEF IInv, TypeOK
      <4> QED  BY <1>1, <3>2, <4>1, <4>2, NewSlot
    <3> QED  BY <1>6, <2>2, <3>3
  <2>3. CASE call.op = "peek" /\ n # 0
    <3>1. n = 1  BY <1>2, <1>3, <1>4, <2>3
    <3>2. bytes[1] \in Byte
      <4>1. 1 \in 1 .. Len(bytes)  BY <3>1
      <4> QED  BY <4>1, ElementOfSeq
    <3> DEFINE b == bytes[1]
    <3>3. b \in -1 .. 255 /\ b >= 0
      <4>1. \A x \in Byte : x \in -1 .. 255 /\ x >= 0  BY DEF Byte
      <4> QED  BY <3>2, <4>1
    <3>4. ungetc_buf' = [ungetc_buf EXCEPT ![fd] = b]
      <4>0. bytes # <<>>
        <5>1. Len(<<>>) = 0  OBVIOUS
        <5> QED  BY <2>3, <5>1, Zenon
      <4>1. value = bytes  BY <4>0
      <4> HIDE DEF value
      <4> QED  BY <1>10, <2>3, <4>1
    <3>5. slots' = [slots EXCEPT ![fd] = IF b >= 0 THEN <<b>> ELSE <<>>]
      <4>1. ungetc_buf \in [fds -> -1 .. 255]  BY DEF IInv, TypeOK
      <4> HIDE DEF b
      <4> QED  BY <1>1, <3>3, <3>4, <4>1, NewSlot
    <3>6. <<b>> = bytes  BY <3>1
    <3> QED  BY <2>3, <3>3, <3>5, <3>6
  <2> QED  BY <2>1, <2>2, <2>3
<1>13. UNCHANGED <<file, peer, heldTable, g_ports, stdin, stdout>>  BY DEF portVars
<1> HIDE DEF n, value
<1> QED  BY <1>7, <1>8, <1>9, <1>10, <1>11, <1>12, <1>13, AnswerAbs

\* A read that lacks something has copied all that was cached.
LEMMA GotAll ==
  ASSUME IInv, JInv, call # Idle, Readable(call.fd), Left > 0
  PROVE  View(call.fd).position + Len(Got) = Place(call.fd).offset /\ Len(Got) \in Nat
<1> DEFINE o == Place(call.fd).offset
           c == Len(read_cache[call.fd])
           g == Len(call.got)
           p == View(call.fd).position
<1>1. p = o - c - g /\ o \in Int  BY ReadingAt, PlaceOK
<1>2. Len(Got) = g + Len(Cached) /\ Len(Cached) = c  BY GotIsCopied, AllCached
<1>3. c \in Nat /\ g \in Nat
  <2>1. read_cache[call.fd] \in Seq(Byte) /\ call.got \in Seq(Byte)  BY DEF IInv, Types, Calls
  <2> QED  BY <2>1, LenProperties
<1> HIDE DEF o, c, g, p
<1>4. p + (g + c) = o /\ g + c \in Nat  BY <1>1, <1>3
<1> QED  BY <1>2, <1>4 DEF o, p

\* The views after a step of a read.
LEMMA ReadOnShown ==
  ASSUME IInv, JInv, IInv', JInv', call # Idle, Readable(call.fd), NEW k \in Int,
         table' = table, desc' = Advanced(call.fd, k) \/ (k = 0 /\ desc' = desc),
         NEW cache \in Seq(Byte), read_cache' = [read_cache EXCEPT ![call.fd] = cache],
         call'.fd = call.fd \/ Len(call'.got) = 0,
         NEW p, p = Place(call.fd).offset + k - Len(cache) - Len(call'.got)
  PROVE  heldTable' = heldTable /\ heldDesc' = C!At(call.fd, p)
<1>0. PICK fd : fd = call.fd  OBVIOUS
<1>1. fd \in Held /\ fd \in fds /\ fd \in Opened /\ Readable(fd)  BY <1>0, ReadingAt
<1>2. read_cache \in [fds -> Seq(Byte)]  BY DEF IInv, Types
<1>3. Len(call'.got) \in Nat /\ Len(cache) \in Nat
  <2>1. call'.got \in Seq(Byte)  BY DEF IInv, Types, Calls
  <2> QED  BY <2>1, LenProperties
<1>4. /\ table[fd] \in DOMAIN desc /\ desc[table[fd]] = Place(fd)
      /\ Place(fd) \in [name : Names, offset : Nat, access : {"r", "w", "rw"}]
  BY <1>1, PlaceOK
<1>5. /\ desc'[table[fd]].offset = Place(fd).offset + k /\ desc'[table[fd]].name = Place(fd).name
      /\ desc'[table[fd]].access = Place(fd).access
      /\ \A d \in DOMAIN desc : d # table[fd] => desc'[d] = desc[d]
  <2>0. desc' = Advanced(fd, k) \/ (k = 0 /\ desc' = desc)  BY <1>0
  <2>1. CASE desc' = Advanced(fd, k)
    <3>1. desc' = [desc EXCEPT ![table[fd]].offset = @ + k]  BY <2>1 DEF Advanced
    <3> QED  BY <1>4, <3>1
  <2>2. CASE k = 0 /\ desc' = desc  BY <1>4, <2>2
  <2> QED  BY <2>0, <2>1, <2>2
<1>6. View(fd)' = [name |-> Place(fd).name, position |-> p, access |-> Place(fd).access]
  <2>1. read_cache'[fd] = cache  BY <1>0, <1>1, <1>2
  <2>2. (IF call'.fd = fd THEN Len(call'.got) ELSE 0) = Len(call'.got)  BY <1>0
  <2> DEFINE o == Place(fd).offset
             c == Len(cache)
             g == Len(call'.got)
  <2>3. View(fd)' = [name |-> desc'[table'[fd]].name,
                     position |-> desc'[table'[fd]].offset
                                    - (Len(read_cache'[fd]) + IF call'.fd = fd THEN Len(call'.got) ELSE 0),
                     access |-> desc'[table'[fd]].access]
    BY DEF View, Place, ReadAhead
  <2>4. o \in Int  BY <1>4
  <2>5. p = o + k - c - g  BY <1>0
  <2>6. c \in Nat /\ g \in Nat  BY <1>3
  <2>7. View(fd)' = [name |-> Place(fd).name, position |-> (o + k) - (c + g), access |-> Place(fd).access]
    BY <1>5, <2>1, <2>2, <2>3
  <2> HIDE DEF o, c, g
  <2>8. (o + k) - (c + g) = p
    <3>1. \A x, y, u, v \in Int : (x + y) - (u + v) = x + y - u - v  OBVIOUS
    <3>2. k \in Int /\ c \in Int /\ g \in Int  BY <2>6
    <3>3. (o + k) - (c + g) = o + k - c - g  BY <2>4, <3>1, <3>2
    <3> QED  BY <2>5, <3>3
  <2> QED  BY <2>7, <2>8
<1>7. ASSUME NEW h \in Held, h # fd PROVE View(h)' = View(h)
  <2>1. h \in Opened /\ h \in fds  BY DEF Held
  <2>2. table[h] # table[fd]  BY <1>1, <1>7, <2>1, AloneOK
  <2>3. table[h] \in DOMAIN desc  BY <2>1, PlaceOK
  <2>4. Place(h)' = Place(h)  BY <1>5, <2>2, <2>3 DEF Place
  <2>5. read_cache'[h] = read_cache[h]  BY <1>0, <1>2, <1>7, <2>1
  <2>6. (IF call'.fd = h THEN Len(call'.got) ELSE 0) = 0 /\ (IF call.fd = h THEN Len(call.got) ELSE 0) = 0
    BY <1>0, <1>7
  <2>7. ReadAhead(h)' = ReadAhead(h)  BY <2>5, <2>6 DEF ReadAhead
  <2> QED  BY <2>4, <2>7 DEF View
<1>8. heldTable' = heldTable /\ heldDesc' = C!At(fd, p)  BY <1>1, <1>6, <1>7, OneShown
<1> QED  BY <1>0, <1>8

\* A system call reads what it asks for or all that is left, and one that
\* reads nothing of a pipe does not return while the pipe is open.
LEMMA SysReadAll ==
  ASSUME IInv, NEW fd \in Opened, NEW n \in Nat
  PROVE  /\ Len(SysRead(fd, n)) = IF n <= Len(file[Place(fd).name]) - Place(fd).offset THEN n
                                  ELSE Len(file[Place(fd).name]) - Place(fd).offset
         /\ Place(fd).offset = Len(file[Place(fd).name]) /\ Readable(fd) /\ Place(fd).name = Pipe /\ ~Blocked(fd)
              => peer # "open"
<1> DEFINE s == file[Place(fd).name]
           o == Place(fd).offset
           rest == SubSeq(s, o + 1, Len(s))
<1>1. s \in Seq(Byte) /\ Len(s) \in Nat /\ o \in Nat /\ o <= Len(s)  BY PlaceOK
<1>2. RestOf(Place(fd)) = rest /\ SysRead(fd, n) = FirstOf(rest, n)  BY DEF RestOf, SysRead
<1> HIDE DEF s, o
<1>3. rest \in Seq(Byte) /\ Len(rest) = Len(s) - o  BY <1>1, EndOfSeq
<1> HIDE DEF rest
<1>4. Len(FirstOf(rest, n)) = IF n <= Len(rest) THEN n ELSE Len(rest)  BY <1>3, FirstOfSeq
<1>5. o = Len(s) => rest = <<>>
  <2>1. o = Len(s) => Len(rest) = 0  BY <1>1, <1>3
  <2> QED  BY <1>3, <2>1, EmptySeq
<1>6. o = Len(s) /\ Readable(fd) /\ Place(fd).name = Pipe /\ ~Blocked(fd) => peer # "open"
  BY <1>2, <1>5 DEF Blocked
<1> QED  BY <1>2, <1>3, <1>4, <1>6 DEF s, o

\* A read that the cache satisfies gets all it asks for.
LEMMA ReadCachedAbs ==
  ASSUME IInv, JInv, IInv', JInv', ReadCached, UNCHANGED portVars
  PROVE  C!Answer
<1>1. /\ call # Idle /\ Left = 0 /\ read_cache' = [read_cache EXCEPT ![call.fd] = Unread]
      /\ Finish(Got) /\ UNCHANGED <<file, peer, table, desc>> /\ call' = Idle
  BY DEF ReadCached, Finish
<1>2. /\ Cached \in Seq(Byte) /\ Len(Cached) \in Nat /\ Len(Cached) <= Len(read_cache[call.fd])
      /\ Got \in Seq(Byte) /\ Len(Got) + Left = call.size /\ read_cache[call.fd] \in Seq(Byte)
  BY TodoOK
<1>3. call.size \in Nat /\ call.size > 0  BY <1>1 DEF JInv, Progress, IInv, Types, Calls
<1>4. Len(Got) = call.size
  <2>1. Len(Got) \in Nat  BY <1>2, LenProperties
  <2> QED  BY <1>1, <1>2, <2>1
<1>5. Readable(call.fd)
  <2>1. Got # <<>>
    <3>1. Len(<<>>) = 0  OBVIOUS
    <3> QED  BY <1>3, <1>4, <3>1
  <2> QED  BY <2>1, GotReadable
<1> DEFINE s == file[Place(call.fd).name]
           o == Place(call.fd).offset
           c == Len(read_cache[call.fd])
           g == Len(call.got)
           p == View(call.fd).position
           b == Len(Cached)
<1>6. p \in Nat /\ p = o - c - g /\ p <= Len(s)  BY <1>1, <1>5, ReadingAt
<1>7. s \in Seq(Byte) /\ Len(s) \in Nat /\ o \in 0 .. Len(s)  BY <1>1, <1>5, PlaceOK, ReadingAt
<1>8. c \in Nat /\ g \in Nat /\ b \in Nat /\ b <= c
  <2>1. call.got \in Seq(Byte)  BY DEF IInv, Types, Calls
  <2> QED  BY <1>2, <2>1, LenProperties
<1>9. Unread \in Seq(Byte) /\ Len(Unread) = c - b
  <2>1. SubSeq(read_cache[call.fd], b + 1, c) \in Seq(Byte)
        /\ Len(SubSeq(read_cache[call.fd], b + 1, c)) = IF b <= c THEN c - b ELSE 0
    BY <1>2, EndOfSeq
  <2> QED  BY <1>8, <2>1 DEF Unread
<1>10. Len(Got) = g + b /\ \A i \in 1 .. Len(Got) : Got[i] = s[o - c - g + i]  BY <1>1, GotIsCopied
<1> HIDE DEF s, o, c, g, p, b
<1>11. p + Len(Got) = o + 0 - (c - b) - 0 /\ call.size <= Len(s) - p
       /\ \A i \in 1 .. Len(Got) : Got[i] = s[p + i]
  BY <1>3, <1>4, <1>6, <1>7, <1>8, <1>10
<1>12. heldTable' = heldTable /\ heldDesc' = C!At(call.fd, p + Len(Got))
  <2>1. Len(call'.got) = 0  BY <1>1, NothingGot
  <2>2. PICK k, q : k = 0 /\ q = p + Len(Got)  OBVIOUS
  <2>3. q = Place(call.fd).offset + k - Len(Unread) - Len(call'.got)
    BY <1>9, <1>11, <2>1, <2>2 DEF o
  <2>4. k \in Int /\ (desc' = Advanced(call.fd, k) \/ (k = 0 /\ desc' = desc)) /\ table' = table
    BY <1>1, <2>2
  <2>5. heldTable' = heldTable /\ heldDesc' = C!At(call.fd, q)
    BY <1>1, <1>5, <1>9, <2>1, <2>3, <2>4, ReadOnShown
  <2> QED  BY <2>2, <2>5
<1>13. Len(Got) # 0  BY <1>3, <1>4
<1>14. Len(Got) = IF call.size <= Len(s) - p THEN call.size ELSE Len(s) - p  BY <1>4, <1>11
<1> QED  BY <1>1, <1>2, <1>5, <1>11, <1>12, <1>13, <1>14, FinishAbs DEF s, p

\* The rest of the file comes from the kernel.
LEMMA ReadRest ==
  ASSUME IInv, JInv, IInv', JInv', call # Idle, Readable(call.fd), ~Blocked(call.fd),
         NEW n \in Nat, n = Left, n > 0, NEW bytes, bytes = SysRead(call.fd, n),
         Finish(Got \o bytes), desc' = Advanced(call.fd, Len(bytes)),
         read_cache' = [read_cache EXCEPT ![call.fd] = <<>>],
         UNCHANGED <<file, peer, table, portVars>>
  PROVE  C!Answer
<1> DEFINE s == file[Place(call.fd).name]
           o == Place(call.fd).offset
           p == View(call.fd).position
           m == Len(Got)
           k == Len(bytes)
           all == Got \o bytes
<1>1. call.fd \in Opened /\ p \in Nat /\ p <= Len(s)  BY ReadingAt
<1>2. s \in Seq(Byte) /\ Len(s) \in Nat /\ o \in 0 .. Len(s)  BY <1>1, PlaceOK
<1>3. p + m = o /\ m \in Nat  BY GotAll
<1>4. Got \in Seq(Byte) /\ m + n = call.size  BY TodoOK
<1>5. /\ bytes \in Seq(Byte) /\ k \in Nat /\ \A i \in 1 .. k : bytes[i] = s[o + i]
  BY <1>1, RestOK
<1>6. /\ k = IF n <= Len(s) - o THEN n ELSE Len(s) - o
      /\ o = Len(s) /\ Place(call.fd).name = Pipe => peer # "open"
  BY <1>1, SysReadAll
<1>7. \A i \in 1 .. m : Got[i] = s[p + i]
  <2>1. \A i \in 1 .. Len(Got) : Got[i] = s[o - Len(read_cache[call.fd]) - Len(call.got) + i]  BY GotIsCopied
  <2>2. p = o - Len(read_cache[call.fd]) - Len(call.got)  BY ReadingAt
  <2> HIDE DEF s, o, p
  <2> QED  BY <2>1, <2>2
<1>8. /\ all \in Seq(Byte) /\ Len(all) = m + k
      /\ \A i \in 1 .. m : all[i] = Got[i]
      /\ \A i \in m + 1 .. m + k : i - m \in 1 .. k /\ all[i] = bytes[i - m]
  BY <1>4, <1>5, Joined
<1>9. Finish(all) /\ <<>> \in Seq(Byte) /\ Len(<<>>) = 0  OBVIOUS
<1>10. heldTable' = heldTable /\ heldDesc' = C!At(call.fd, p + Len(all))
  <2>1. call' = Idle /\ Len(call'.got) = 0  BY NothingGot DEF Finish
  <2>2. p + Len(all) = o + k - Len(<<>>) - Len(call'.got)
    <3> HIDE DEF p, m, o, k, all
    <3>1. o \in Nat  BY <1>2
    <3>2. p + (m + k) = o + k  BY <1>1, <1>3, <1>5
    <3> QED  BY <1>8, <1>5, <2>1, <3>1, <3>2
  <2>3. k \in Int  BY <1>5
  <2> HIDE DEF all, p
  <2> QED  BY <1>9, <2>1, <2>2, <2>3, ReadOnShown
<1> HIDE DEF s, o, p, m, k, all
<1>11. \A i \in 1 .. Len(all) : all[i] = s[p + i]
  <2> SUFFICES ASSUME NEW i \in 1 .. Len(all) PROVE all[i] = s[p + i]  OBVIOUS
  <2>1. i \in Int /\ 1 <= i /\ i <= m + k  BY <1>3, <1>5, <1>8
  <2>2. CASE i <= m
    <3>1. i \in 1 .. m  BY <1>3, <2>1, <2>2
    <3> QED  BY <1>7, <1>8, <3>1
  <2>3. CASE i > m
    <3>1. i \in m + 1 .. m + k  BY <1>3, <1>5, <2>1, <2>3
    <3>2. all[i] = s[o + (i - m)]  BY <1>5, <1>8, <3>1
    <3>3. o + (i - m) = p + i  BY <1>1, <1>3, <2>1
    <3> QED  BY <3>2, <3>3
  <2> QED  BY <1>3, <2>1, <2>2, <2>3
<1>12. /\ Len(all) = IF call.size <= Len(s) - p THEN call.size ELSE Len(s) - p
       /\ Len(all) = 0 => o = Len(s)
  <2> DEFINE l == Len(s)
             size == call.size
  <2>1. /\ o \in Int /\ p \in Int /\ p + m = o /\ l \in Nat /\ o <= l /\ m \in Nat /\ n > 0
        /\ m + n = size /\ k = IF n <= l - o THEN n ELSE l - o
    BY <1>1, <1>2, <1>3, <1>4, <1>6
  <2>2. Len(all) = m + k  BY <1>8
  <2> HIDE DEF l, size
  <2>3. m + k = (IF size <= l - p THEN size ELSE l - p) /\ (m + k = 0 => o = l)
    <3>1. CASE n <= l - o  BY <2>1, <3>1
    <3>2. CASE ~(n <= l - o)  BY <2>1, <3>2
    <3> QED  BY <3>1, <3>2
  <2> QED  BY <2>2, <2>3 DEF l, size
<1>14. Len(all) = 0 /\ Place(call.fd).name = Pipe => peer # "open"  BY <1>6, <1>12
<1>15. heldDesc' = C!At(call.fd, p + Len(all)) /\ heldTable' = heldTable  BY <1>10
<1> QED  BY <1>8, <1>9, <1>11, <1>12, <1>14, <1>15, FinishAbs DEF s, p

\* Filling the cache ends the read at the end of the file; otherwise nobody
\* sees it: the kernel has advanced by what is in the cache now.
LEMMA FillAbs ==
  ASSUME IInv, JInv, IInv', JInv', Fill, UNCHANGED portVars
  PROVE  \/ C!Answer
         \/ UNCHANGED <<file, peer, heldTable, heldDesc, g_ports, stdin, stdout, ret>>
            /\ slots' = slots /\ Asked(call)' = Asked(call)
<1> DEFINE bytes == SysRead(call.fd, read_buffer_max)
<1>1. /\ call # Idle /\ Left \in 1 .. read_buffer_max /\ Readable(call.fd) /\ ~Blocked(call.fd)
      /\ desc' = Advanced(call.fd, Len(bytes))
      /\ read_cache' = [read_cache EXCEPT ![call.fd] = bytes]
      /\ \/ bytes = <<>> /\ Finish(Got)
         \/ bytes # <<>> /\ call' = [call EXCEPT !.got = Got] /\ UNCHANGED <<ungetc_buf, ret>>
      /\ UNCHANGED <<file, peer, table>>
  BY DEF Fill
<1>2. read_buffer_max \in Nat /\ Left \in Nat /\ Left > 0 /\ read_buffer_max # 0
  <2>1. read_buffer_max \in Nat  BY DEF IInv, Types
  <2> QED  BY <1>1, <2>1
<1>3. call.fd \in Opened  BY <1>1, ReadingAt
<1>4. bytes \in Seq(Byte) /\ Len(bytes) \in Nat  BY <1>2, <1>3, RestOK
<1>5. CASE bytes = <<>> /\ Finish(Got)
  <2> DEFINE s == file[Place(call.fd).name]
             o == Place(call.fd).offset
             rest == SysRead(call.fd, Left)
  <2>1. s \in Seq(Byte) /\ Len(s) \in Nat /\ o \in 0 .. Len(s)  BY <1>3, PlaceOK
  <2>2. Len(bytes) = IF read_buffer_max <= Len(s) - o THEN read_buffer_max ELSE Len(s) - o
    BY <1>2, <1>3, SysReadAll
  <2>3. Len(rest) = IF Left <= Len(s) - o THEN Left ELSE Len(s) - o  BY <1>2, <1>3, SysReadAll
  <2>4. rest \in Seq(Byte)  BY <1>2, <1>3, RestOK
  <2>5. Len(bytes) = 0  BY <1>5
  <2> HIDE DEF s, o, rest, bytes
  <2>6. Len(rest) = 0
    <3>1. Len(s) - o = 0  BY <1>2, <2>1, <2>2, <2>5
    <3> QED  BY <1>2, <2>3, <3>1
  <2>7. rest = <<>>  BY <2>4, <2>6, EmptySeq
  <2>8. Got \o rest = Got  BY <2>7, TodoOK, ConcatEmptySeq
  <2>9. desc' = Advanced(call.fd, Len(rest)) /\ read_cache' = [read_cache EXCEPT ![call.fd] = <<>>]
    BY <1>1, <1>5, <2>5, <2>6
  <2>10. Finish(Got \o rest) /\ UNCHANGED <<file, peer, table, portVars>>  BY <1>1, <1>5, <2>8
  <2>11. PICK n : n = Left  OBVIOUS
  <2>12. rest = SysRead(call.fd, n)  BY <2>11 DEF rest
  <2>13. n \in Nat /\ n = Left /\ n > 0  BY <1>2, <2>11
  <2>14. C!Answer  BY <1>1, <2>9, <2>10, <2>12, <2>13, ReadRest
  <2> QED  BY <2>14
<1>6. CASE call' = [call EXCEPT !.got = Got] /\ UNCHANGED <<ungetc_buf, ret>>
  <2>1. /\ call \in Calls
        /\ call'.fd = call.fd /\ call'.got = Got /\ Asked(call)' = Asked(call)
    BY <1>6 DEF IInv, Types, Calls, Asked
  <2>2. PICK k, p : k = Len(bytes) /\ p = Place(call.fd).offset + k - Len(bytes) - Len(Got)  OBVIOUS
  <2>3. k \in Int /\ desc' = Advanced(call.fd, k) /\ p = Place(call.fd).offset + k - Len(bytes) - Len(call'.got)
    BY <1>1, <1>4, <2>1, <2>2
  <2> HIDE DEF bytes
  <2>4. heldTable' = heldTable /\ heldDesc' = C!At(call.fd, p)
    BY <1>1, <1>4, <2>1, <2>3, ReadOnShown
  <2>5. p = View(call.fd).position
    <3> DEFINE o == Place(call.fd).offset
               m == Len(Got)
               q == View(call.fd).position
    <3>1. q + m = o /\ m \in Nat  BY <1>1, <1>2, GotAll
    <3>2. q \in Nat /\ o \in Nat  BY <1>1, <1>3, ReadingAt, PlaceOK
    <3>3. p = o + k - k - m  BY <2>2
    <3>4. k \in Int  BY <2>3
    <3> HIDE DEF o, m, q
    <3>5. o + k - k - m = q  BY <3>1, <3>2, <3>4
    <3>6. p = q  BY <3>3, <3>5
    <3> QED  BY <3>6 DEF q
  <2>6. heldDesc' = heldDesc
    <3>1. call.fd \in Held  BY <1>1, ReadingAt
    <3> QED  BY <2>4, <2>5, <3>1, StayAbs
  <2>7. slots' = slots  BY <1>6, SameSlots
  <2> QED  BY <1>1, <1>6, <2>1, <2>4, <2>6, <2>7 DEF portVars
<1> QED  BY <1>1, <1>5, <1>6

\* A read of a descriptor that cannot be read.
LEMMA ReadFailsAbs ==
  ASSUME IInv, JInv, IInv', JInv', ReadFails, UNCHANGED portVars
  PROVE  C!Answer
<1> DEFINE given == IF call.op = "read" THEN Error ELSE <<>>
           value == IF call.op \in {"getc", "peek"} /\ given = <<>> THEN Error ELSE given
<1>1. /\ call # Idle /\ ~Readable(call.fd) /\ call' = Idle
      /\ ret' = [op |-> call.op, value |-> IF call.op = "fread" THEN call.first \o given ELSE value]
      /\ ungetc_buf' = IF call.op = "peek" THEN [ungetc_buf EXCEPT ![call.fd] = value[1]] ELSE ungetc_buf
      /\ UNCHANGED <<file, peer, table, desc, read_cache>>
  BY DEF ReadFails, Finish, Return
<1>2. Len(call.got) = 0
  <2>1. Len(call.got) \in Nat  BY LenProperties DEF IInv, Types, Calls
  <2>2. ~Readable(call.fd)  BY <1>1
  <2>3. ~(Len(call.got) > 0)  BY <2>2 DEF JInv, Copied
  <2> QED  BY <2>1, <2>3
<1>3. heldTable' = heldTable /\ heldDesc' = heldDesc  BY <1>1, <1>2, NothingGot, QuietShown
<1>4. call.fd \in fds /\ ~C!Readable(call.fd)  BY <1>1, TodoOK, SeenIs
<1>5. 0 \in C!Gets(call.fd, call.size)  BY <1>4 DEF C!Gets
<1>6. call.op \in {"read", "fread", "getc", "peek"} /\ (call.op # "fread" => call.first = <<>>)
      /\ call.first \in Seq(Byte)
  BY <1>1 DEF JInv, Progress, IInv, Types, Calls
<1>7. C!Failed(0) <=> call.op # "fread"  BY <1>4, <1>6 DEF C!Failed, Asked
<1>8. ret' = [op |-> call.op, value |-> IF C!Failed(0) THEN Error ELSE call.first \o <<>>]
  BY <1>1, <1>6, <1>7 DEF Error
<1>9. slots' = [slots EXCEPT ![call.fd] = IF call.op = "peek" THEN <<>> ELSE @]
  <2>1. CASE call.op # "peek"
    <3>1. slots' = slots  BY <1>1, <2>1, SameSlots
    <3> QED  BY <2>1, <3>1 DEF slots
  <2>2. CASE call.op = "peek"
    <3>1. ungetc_buf' = [ungetc_buf EXCEPT ![call.fd] = -1]  BY <1>1, <2>2 DEF Error
    <3>2. slots' = [slots EXCEPT ![call.fd] = IF -1 >= 0 THEN <<-1>> ELSE <<>>]
      <4>1. -1 \in -1 .. 255  OBVIOUS
      <4>2. ungetc_buf \in [fds -> -1 .. 255]  BY DEF IInv, TypeOK
      <4> QED  BY <1>4, <3>1, <4>1, <4>2, NewSlot
    <3> QED  BY <2>2, <3>2
  <2> QED  BY <2>1, <2>2
<1>10. PICK n, bytes : n = 0 /\ bytes = <<>>  OBVIOUS
<1>11. /\ n \in C!Gets(call.fd, call.size)
       /\ bytes = IF n = 0 THEN <<>> ELSE SubSeq(C!Ahead(call.fd), 1, n)
       /\ ret' = [op |-> call.op, value |-> IF C!Failed(n) THEN Error ELSE call.first \o bytes]
       /\ heldDesc' = IF n = 0 THEN heldDesc ELSE C!At(call.fd, C!Place(call.fd).position + n)
       /\ slots' = [slots EXCEPT ![call.fd] = IF call.op = "peek" THEN bytes ELSE @]
       /\ UNCHANGED <<file, peer, heldTable, g_ports, stdin, stdout>>
  BY <1>1, <1>3, <1>5, <1>8, <1>9, <1>10 DEF portVars
<1> QED  BY <1>1, <1>11, AnswerAbs

-----------------------------------------------------------------------------
(* The other process, the start, and every step.                           *)

\* A step that touches neither descriptors nor the call is not seen.
LEMMA NothingShown ==
  ASSUME IInv, JInv, IInv', JInv', UNCHANGED <<table, desc, read_cache, call>>
  PROVE  heldTable' = heldTable /\ heldDesc' = heldDesc
<1>1. ASSUME NEW fd \in Held PROVE View(fd)' = View(fd)  BY DEF View, Place, ReadAhead
<1> QED  BY <1>1, SameShown

\* The other process writes to the pipe, or closes it.
LEMMA EnvironmentAbs ==
  ASSUME IInv, JInv, IInv', JInv', Environment
  PROVE  C!Environment
<1>1. /\ UNCHANGED <<table, desc, ungetc_buf, read_cache, call, ret, portVars>> /\ peer = "open"
      /\ \/ peer' = "closed" /\ UNCHANGED file
         \/ (\E b \in Bytes : file' = [file EXCEPT ![Pipe] = Append(@, b)]) /\ UNCHANGED peer
  BY DEF Environment, PeerCloses, PeerWrites
<1>2. heldTable' = heldTable /\ heldDesc' = heldDesc /\ slots' = slots /\ Asked(call)' = Asked(call)
  BY <1>1, NothingShown, SameSlots DEF Asked
<1> QED  BY <1>1, <1>2 DEF C!Environment, slots, portVars

\* A step that changes nothing is not seen.
LEMMA StutterAbs ==
  ASSUME IInv, JInv, IInv', JInv', UNCHANGED vars
  PROVE  UNCHANGED C!vars
<1>1. UNCHANGED <<file, peer, table, desc, ungetc_buf, read_cache, call, ret, g_ports, stdin, stdout>>
  BY DEF vars, descriptorVars, portVars
<1>2. heldTable' = heldTable /\ heldDesc' = heldDesc /\ slots' = slots /\ Asked(call)' = Asked(call)
  BY <1>1, NothingShown, SameSlots DEF Asked
<1> QED  BY <1>1, <1>2 DEF C!vars, slots

\* The initial states are those of the character ports.
LEMMA InitAbs == Init => C!Init
<1> SUFFICES ASSUME Init PROVE C!Init  OBVIOUS
<1>1. IInv /\ JInv  BY InitIInv, InitJInv
<1>2. Shown  BY <1>1, ShownHolds
<1>3. /\ file = Contents /\ peer = "open" /\ call = Idle /\ g_ports = <<>> /\ stdin = 0 /\ stdout = 1
      /\ table = [fd \in 0..2 |-> IF fd = 0 THEN 0 ELSE 1]
      /\ desc = [d \in 0..1 |-> IF d = 0 THEN [name |-> Pipe, offset |-> 0, access |-> "r"]
                                ELSE [name |-> Log, offset |-> 0, access |-> "w"]]
      /\ ungetc_buf = [fd \in fds |-> -1] /\ read_cache = [fd \in fds |-> <<>>]
      /\ ret = [op |-> "none", value |-> <<>>]
  BY DEF Init, DescriptorInit
<1>4. Held = 0..2 /\ 0..2 \subseteq fds
  <2>1. 0..2 \subseteq fds  BY DescriptorAssumption DEF fds
  <2>2. Opened = 0..2  BY <1>3 DEF Opened
  <2> QED  BY <2>1, <2>2 DEF Held
<1>5. heldTable = [fd \in 0..2 |-> IF fd = 0 THEN 0 ELSE 1]  BY <1>2, <1>3, <1>4 DEF Shown
<1>6. \A fd \in 0..2 : ReadAhead(fd) = 0
  <2> SUFFICES ASSUME NEW fd \in 0..2 PROVE ReadAhead(fd) = 0  OBVIOUS
  <2>1. read_cache[fd] = <<>>  BY <1>3, <1>4
  <2> QED  BY <1>3, <2>1, NothingGot DEF ReadAhead
<1>7. heldDesc = [d \in 0..1 |-> IF d = 0 THEN [name |-> Pipe, position |-> 0, access |-> "r"]
                                 ELSE [name |-> Log, position |-> 0, access |-> "w"]]
  <2>1. DOMAIN heldDesc = 0..1  BY <1>2, <1>3, <1>4 DEF Shown
  <2>2. heldDesc[table[0]] = View(0) /\ heldDesc[table[1]] = View(1)  BY <1>2, <1>4 DEF Shown
  <2>3. table[0] = 0 /\ table[1] = 1  BY <1>3
  <2>4. View(0) = [name |-> Pipe, position |-> 0, access |-> "r"]  BY <1>3, <1>6, <2>3 DEF View, Place
  <2>5. View(1) = [name |-> Log, position |-> 0, access |-> "w"]  BY <1>3, <1>6, <2>3 DEF View, Place
  <2>6. heldDesc = [d \in DOMAIN heldDesc |-> heldDesc[d]]  BY <1>2 DEF Shown
  <2> QED  BY <2>1, <2>2, <2>3, <2>4, <2>5, <2>6
<1>8. slots = [fd \in fds |-> <<>>]  BY <1>3 DEF slots, Pushed
<1>9. Asked(call) = Asked(Idle)  BY <1>3
<1> QED  BY <1>3, <1>5, <1>7, <1>8, <1>9 DEF C!Init, slots

\* The procedures on ports and characters.
LEMMA SchemeNextAbs ==
  ASSUME IInv, JInv, IInv', JInv', SchemeNext
  PROVE  call = Idle /\ (C!PortNext \/ C!DescriptorNext)
<1>1. call = Idle  BY DEF SchemeNext, May
<1>2. DOMAIN heldTable = Held  BY ShownHolds DEF Shown
<1>3. StringPorts = {-i - 1 : i \in DOMAIN g_ports}  BY DEF StringPorts, number
<1>4. CASE PeekChar
  <2>1. C!Get("peek", stdin)  BY <1>1, <1>4, PeekCharAbs
  <2> QED  BY <1>1, <2>1 DEF C!PortNext
<1>5. CASE \E port \in Held \cup StringPorts : ReadChar(port)
  <2>1. \E p \in {stdin} \cup DOMAIN heldTable : C!Get("getc", p)  BY <1>1, <1>5, ReadCharAbs
  <2> QED  BY <1>1, <2>1 DEF C!PortNext
<1>6. CASE ret.op = "getc" /\ UnreadChar(ret.value[1])
  <2>1. C!PushBack(ret.value[1])  BY <1>1, <1>6, UnreadCharAbs
  <2> QED  BY <1>1, <1>6, <2>1 DEF C!PortNext
<1>7. CASE \E text \in Texts : OpenInputString(text)
  <2>1. \E text \in Texts : C!OpenString(text)  BY <1>1, <1>7, SetAbs
  <2> QED  BY <1>1, <2>1 DEF C!PortNext
<1>8. CASE \E port \in Held \cup StringPorts : SetCurrentInputPort(port)
  <2>1. \E port \in Held \cup StringPorts : C!SetInput(port)  BY <1>1, <1>8, SetAbs
  <2> QED  BY <1>1, <1>2, <1>3, <2>1 DEF C!PortNext
<1>9. CASE \E c \in Bytes, port \in Writing : WriteByte(c, port)
  <2>1. PICK c \in Bytes, port \in Writing : WriteByte(c, port)  BY <1>9
  <2> DEFINE fd == IF port = 1 THEN stdout ELSE port
  <2>2. fd \in fds /\ Write(fd, c) /\ UNCHANGED portVars
    BY <2>1 DEF WriteByte, Writing, Held, IInv, Types
  <2> HIDE DEF fd
  <2>3. C!Write(fd, c)  BY <1>1, <2>2, WriteAbs
  <2> QED  BY <1>1, <2>2, <2>3 DEF C!DescriptorNext
<1>10. CASE \E port \in Held : SetCurrentOutputPort(port)
  <2>1. \E p \in Held \cup {1} : C!SetOutput(p)  BY <1>1, <1>10, SetAbs
  <2> QED  BY <1>1, <1>2, <2>1 DEF C!PortNext
<1> QED  BY <1>4, <1>5, <1>6, <1>7, <1>8, <1>9, <1>10 DEF SchemeNext

\* The procedures on files.
LEMMA FileNextAbs ==
  ASSUME IInv, JInv, IInv', JInv', FileNext
  PROVE  call = Idle /\ C!DescriptorNext
<1>1. call = Idle  BY DEF FileNext, May
<1>2. DOMAIN heldTable = Held  BY ShownHolds DEF Shown
<1>3. CASE \E name \in uses.files \ {Pipe} :
             OpenInputFile(name) \/ OpenOutputFile(name) \/ OpenFile(name)
  <2>1. PICK name \in uses.files : OpenInputFile(name) \/ OpenOutputFile(name) \/ OpenFile(name)
    BY <1>3
  <2>2. name \in Names
    <3>1. uses \in Workloads  BY DEF IInv, Types
    <3> QED  BY <2>1, <3>1, PortAssumption
  <2>3. PICK access \in {"r", "w", "rw"} : Open(name, access, access = "w") /\ UNCHANGED portVars
    <3>1. CASE OpenInputFile(name)
      <4>1. Open(name, "r", "r" = "w") /\ UNCHANGED portVars  BY <3>1 DEF OpenInputFile
      <4> QED  BY <4>1
    <3>2. CASE OpenOutputFile(name)
      <4>1. Open(name, "w", "w" = "w") /\ UNCHANGED portVars  BY <3>2 DEF OpenOutputFile
      <4> QED  BY <4>1
    <3>3. CASE OpenFile(name)
      <4>1. Open(name, "rw", "rw" = "w") /\ UNCHANGED portVars  BY <3>3 DEF OpenFile
      <4> QED  BY <4>1
    <3> QED  BY <2>1, <3>1, <3>2, <3>3
  <2>4. PICK truncate \in BOOLEAN : truncate = (access = "w")  OBVIOUS
  <2>5. Open(name, access, truncate)  BY <2>3, <2>4
  <2>6. C!Open(name, access, truncate)  BY <1>1, <2>2, <2>3, <2>5, OpenAbs
  <2>7. C!Open(name, access, access = "w")  BY <2>4, <2>6
  <2> QED  BY <1>1, <2>2, <2>3, <2>7 DEF C!DescriptorNext, Names
<1>4. CASE \E port \in Held, s \in Seeks : SeekPort(port, s[1], s[2])
  <2>1. PICK fd \in Held, s \in Seeks : Lseek(fd, s[1], s[2]) /\ UNCHANGED portVars
    BY <1>4 DEF SeekPort
  <2>2. s[1] \in {"set", "cur", "end"} /\ s[2] \in Int  BY DescriptorAssumption
  <2>3. C!Seek(fd, s[1], s[2])  BY <1>1, <2>1, <2>2, SeekAbs
  <2> QED  BY <1>1, <1>2, <2>1, <2>3 DEF C!DescriptorNext
<1>5. CASE \E port \in Held : ClosePort(port)
  <2>1. PICK fd \in Held : Close(fd) /\ UNCHANGED portVars  BY <1>5 DEF ClosePort
  <2>2. C!Close(fd)  BY <1>1, <2>1, CloseAbs
  <2> QED  BY <1>1, <1>2, <2>1, <2>2 DEF C!DescriptorNext
<1>6. CASE \E old \in Held : DupPort(old)
  <2>1. PICK old \in Held : Dup(old) /\ UNCHANGED portVars  BY <1>6 DEF DupPort
  <2>2. \E new \in fds : C!Duplicate(old, new)  BY <1>1, <2>1, DupAbs
  <2> QED  BY <1>1, <1>2, <2>1, <2>2 DEF C!DescriptorNext
<1>7. CASE \E old, new \in fds : Dup2Port(old, new)
  <2>1. PICK old \in fds, new \in fds : Dup2(old, new) /\ UNCHANGED portVars  BY <1>7 DEF Dup2Port
  <2>2. old \in Held /\ C!Duplicate(old, new)  BY <1>1, <2>1, Dup2Abs
  <2> QED  BY <1>1, <1>2, <2>1, <2>2 DEF C!DescriptorNext
<1> QED  BY <1>3, <1>4, <1>5, <1>6, <1>7 DEF FileNext

\* The reads of C programs.
LEMMA LibraryNextAbs ==
  ASSUME IInv, JInv, IInv', JInv', LibraryNext
  PROVE  call = Idle /\ C!DescriptorNext
<1>1. call = Idle  BY DEF LibraryNext, May
<1>2. DOMAIN heldTable = Held  BY ShownHolds DEF Shown
<1>3. UNCHANGED portVars  BY DEF LibraryNext
<1>4. CASE \E fd \in Held, n \in Requests : Read(fd, n)
  <2>1. PICK fd \in Held, n \in Requests : Read(fd, n)  BY <1>4
  <2>2. C!Ask("read", fd, n)  BY <1>1, <1>3, <2>1, ReadAbs
  <2> QED  BY <1>1, <1>2, <2>2 DEF C!DescriptorNext
<1>5. CASE \E fd \in Held, n \in Requests : Fread(fd, n)
  <2>1. PICK fd \in Held, n \in Requests : Fread(fd, n)  BY <1>5
  <2>2. C!Ask("fread", fd, n) \/ (n = 1 /\ C!TakeBack("fread", fd))  BY <1>1, <1>3, <2>1, FreadAbs
  <2> QED  BY <1>1, <1>2, <2>2 DEF C!DescriptorNext
<1> QED  BY <1>4, <1>5 DEF LibraryNext

\* One invocation of __buffered_read answers the read, or is not seen.
LEMMA ReadOnAbs ==
  ASSUME IInv, JInv, IInv', JInv', ReadOn
  PROVE  C!Answer \/ UNCHANGED C!vars
<1>1. UNCHANGED portVars /\ BufferedRead  BY DEF ReadOn
<1>2. CASE ReadCached  BY <1>1, <1>2, ReadCachedAbs
<1>3. CASE ReadFails  BY <1>1, <1>3, ReadFailsAbs
<1>4. CASE ReadDirectly
  <2>1. PICK n, bytes : n = Left /\ bytes = SysRead(call.fd, Left)  OBVIOUS
  <2>2. /\ call # Idle /\ n > read_buffer_max /\ Readable(call.fd) /\ ~Blocked(call.fd)
        /\ desc' = Advanced(call.fd, Len(bytes)) /\ Finish(Got \o bytes)
        /\ read_cache' = [read_cache EXCEPT ![call.fd] = <<>>]
        /\ UNCHANGED <<file, peer, table>>
    BY <1>4, <2>1 DEF ReadDirectly
  <2>3. n \in Nat /\ n > 0
    <3>1. n \in Nat /\ read_buffer_max \in Nat  BY <2>1, TodoOK DEF IInv, Types
    <3> QED  BY <2>2, <3>1
  <2>4. bytes = SysRead(call.fd, n) /\ n = Left  BY <2>1
  <2>5. C!Answer  BY <1>1, <2>2, <2>3, <2>4, ReadRest
  <2> QED  BY <2>5
<1>5. CASE Fill
  <2>1. \/ C!Answer
        \/ UNCHANGED <<file, peer, heldTable, heldDesc, g_ports, stdin, stdout, ret>>
           /\ slots' = slots /\ Asked(call)' = Asked(call)
    BY <1>1, <1>5, FillAbs
  <2> QED  BY <2>1 DEF C!vars, slots
<1> QED  BY <1>1, <1>2, <1>3, <1>4, <1>5 DEF BufferedRead

\* Every step is one of the character ports, or is not seen.
LEMMA NextAbs == IInv /\ JInv /\ IInv' /\ JInv' /\ [Next]_vars => [C!Next]_C!vars
<1> SUFFICES ASSUME IInv, JInv, IInv', JInv', [Next]_vars PROVE C!Next \/ UNCHANGED C!vars
  OBVIOUS
<1>1. CASE UNCHANGED vars  BY <1>1, StutterAbs
<1>2. CASE SchemeNext  BY <1>2, SchemeNextAbs DEF C!Next
<1>3. CASE FileNext  BY <1>3, FileNextAbs DEF C!Next
<1>4. CASE LibraryNext  BY <1>4, LibraryNextAbs DEF C!Next
<1>5. CASE ReadOn  BY <1>5, ReadOnAbs DEF C!Next
<1>6. CASE Environment  BY <1>6, EnvironmentAbs DEF C!Next
<1> QED  BY <1>1, <1>2, <1>3, <1>4, <1>5, <1>6 DEF Next

\* The ports of src/posix.c, on the buffers of the C library, implement
\* CharacterPorts: with every file, pipe, limit and size of the buffer,
\* through any sequence of reads, writes, seeks, opens, closes and dups, a
\* program reads what is next in the file and writes where its reading has
\* come, as if nothing was read ahead.
THEOREM PortsAreCharacterPorts == Spec => ImplementsCharacterPorts
<1>1. Init => IInv /\ JInv /\ C!Init  BY InitIInv, InitJInv, InitAbs
<1>2. IInv /\ [Next]_vars => IInv'  BY NextIInv
<1>3. IInv /\ JInv /\ IInv' /\ [Next]_vars => JInv'  BY NextJInv
<1>4. IInv /\ JInv /\ IInv' /\ JInv' /\ [Next]_vars => [C!Next]_C!vars  BY NextAbs
<1> QED  BY <1>1, <1>2, <1>3, <1>4, PTL DEF Spec, ImplementsCharacterPorts, C!Spec
===============================================================================
