-------------------------------- MODULE Ports --------------------------------
(***************************************************************************)
(* The ports of src/posix.c: numbers are file descriptors of the C library *)
(* (module Descriptors), and a port on a string has a negative number and  *)
(* the bytes that are left.  The C global __stdin is the current input     *)
(* port, __stdout the current output port.                                 *)
(***************************************************************************)
EXTENDS Descriptors

CONSTANTS
  Texts,       \* what string ports are opened on
  MaxPorts,    \* bound: string ports opened
  Workloads    \* bound: what a program does, one of these: see uses

VARIABLES
  g_ports,   \* string port -> the bytes left in it
  stdin,     \* __stdin
  stdout,    \* __stdout
  uses       \* the calls the program makes, on which files, with which access

ASSUME PortAssumption ==
  /\ Texts \subseteq Seq(0..255)
  /\ \A u \in Workloads : u.files \subseteq Names

portVars == <<g_ports, stdin, stdout, uses>>
vars == <<descriptorVars, portVars>>

\* The number that make_string_port gives to the i-th string port.
number(i) == -i - 1
PortOf(n) == -n - 1
StringPorts == {number(i) : i \in DOMAIN g_ports}

\* Bytes of a string are read as signed characters: 255 looks like EOF.
Signed(b) == IF b > 127 THEN b - 256 ELSE b
Unsigned(c) == IF c < 0 THEN c + 256 ELSE c

Chars(text) == IF text = <<>> THEN Error ELSE <<Signed(Head(text))>>

\* Nothing happens to the descriptors.
StringOnly == UNCHANGED <<file, peer, table, desc, ungetc_buf, read_cache, read_buffer_max, call>>

-----------------------------------------------------------------------------
PeekChar ==
  \/ stdin >= 0 /\ Fdgetc(stdin, "peek") /\ UNCHANGED portVars
  \/ /\ stdin < 0 /\ Return("peek", Chars(g_ports[PortOf(stdin)]))
     /\ StringOnly /\ UNCHANGED portVars

ReadString(p) ==
  LET text == g_ports[p]
  IN  /\ Return("getc", Chars(text))
      /\ g_ports' = [g_ports EXCEPT ![p] = IF text = <<>> THEN @ ELSE Tail(@)]
      /\ StringOnly /\ UNCHANGED <<stdin, stdout, uses>>

\* A port that is not a number is not looked at.
ReadChar(port) ==
  LET from == IF port \in fds THEN port ELSE stdin
  IN  \/ from >= 0 /\ Fdgetc(from, "getc") /\ UNCHANGED portVars
      \/ from < 0 /\ ReadString(PortOf(from))

UnreadChar(c) ==
  \/ stdin >= 0 /\ Readable(stdin) /\ Fdungetc(c, stdin) /\ UNCHANGED portVars
  \/ /\ stdin < 0 /\ Return("unread", <<c>>)
     /\ g_ports' = IF c = -1 THEN g_ports
                   ELSE [g_ports EXCEPT ![PortOf(stdin)] = <<Unsigned(c)>> \o @]
     /\ StringOnly /\ UNCHANGED <<stdin, stdout, uses>>

OpenInputString(text) ==
  /\ g_ports' = Append(g_ports, text)
  /\ Return("string", <<number(Len(g_ports) + 1)>>)
  /\ StringOnly /\ UNCHANGED <<stdin, stdout, uses>>

SetCurrentInputPort(port) ==
  /\ stdin' = port
  /\ Return("set", <<stdin>>)
  /\ StringOnly /\ UNCHANGED <<g_ports, stdout, uses>>

\* The number of standard output stands for the current output port.
WriteByte(c, port) ==
  Write(IF port = 1 THEN stdout ELSE port, c) /\ UNCHANGED portVars

\* Unlike the input port's, the result is the new port.
SetCurrentOutputPort(port) ==
  /\ stdout' = IF port # 0 THEN port ELSE 1
  /\ Return("set", <<stdout'>>)
  /\ StringOnly /\ UNCHANGED <<g_ports, stdin, uses>>

\* The procedures for files.  open-output-file returns -1 when the others
\* raise an error.
OpenInputFile(name) == Open(name, "r", FALSE) /\ UNCHANGED portVars
OpenOutputFile(name) == Open(name, "w", TRUE) /\ UNCHANGED portVars
OpenFile(name) == Open(name, "rw", FALSE) /\ UNCHANGED portVars
ClosePort(port) == Close(port) /\ UNCHANGED portVars
SeekPort(port, whence, off) == Lseek(port, whence, off) /\ UNCHANGED portVars
DupPort(old) == Dup(old) /\ UNCHANGED portVars
Dup2Port(old, new) == Dup2(old, new) /\ UNCHANGED portVars

-----------------------------------------------------------------------------
Init ==
  /\ DescriptorInit
  /\ g_ports = <<>> /\ stdin = 0 /\ stdout = 1
  /\ uses \in Workloads

May(op) == call = Idle /\ op \in uses.calls

Writing == {fd \in Held : Place(fd).name \in uses.files}

\* Programs push back what they have just read.
SchemeNext ==
  \/ May("peek") /\ PeekChar
  \/ May("getc") /\ \E port \in Held \cup StringPorts : ReadChar(port)
  \/ May("unread") /\ ret.op = "getc" /\ UnreadChar(ret.value[1])
  \/ May("string") /\ Len(g_ports) < MaxPorts /\ \E text \in Texts : OpenInputString(text)
  \/ May("set-input") /\ \E port \in Held \cup StringPorts : SetCurrentInputPort(port)
  \/ May("write") /\ \E c \in Bytes, port \in Writing : WriteByte(c, port)
  \/ May("set-output") /\ \E port \in Held : SetCurrentOutputPort(port)

FileNext ==
  \/ May("open") /\ \E name \in uses.files \ {Pipe} :
       \/ "r" \in uses.access /\ OpenInputFile(name)
       \/ "w" \in uses.access /\ OpenOutputFile(name)
       \/ "rw" \in uses.access /\ OpenFile(name)
  \/ May("lseek") /\ \E port \in Held, s \in Seeks : SeekPort(port, s[1], s[2])
  \/ May("close") /\ \E port \in Held \cap uses.closes : ClosePort(port)
  \/ May("dup") /\ ((\E old \in Held : DupPort(old)) \/ \E old, new \in fds : Dup2Port(old, new))

\* Programs in C read blocks as well.
LibraryNext ==
  /\ UNCHANGED portVars
  /\ \/ May("read") /\ \E fd \in Held, n \in Requests : Read(fd, n)
     \/ May("fread") /\ \E fd \in Held, n \in Requests : Readable(fd) /\ Fread(fd, n)

ReadOn == BufferedRead /\ UNCHANGED portVars

Environment ==
  /\ Pipe \in uses.files /\ UNCHANGED portVars
  /\ PeerCloses \/ \E b \in Bytes : PeerWrites(b)

Next == SchemeNext \/ FileNext \/ LibraryNext \/ ReadOn \/ Environment

\* Nothing makes a program take a step, but a call that can go on does.
Spec == Init /\ [][Next]_vars /\ WF_vars(ReadOn)

-----------------------------------------------------------------------------
(* The kernel's table and the library's know the same; what is pushed back *)
(* is a character.                                                         *)
TypeOK ==
  /\ Opened \subseteq 0 .. OPEN_MAX - 1 /\ DOMAIN desc = Range(table)
  /\ \A d \in DOMAIN desc : desc[d].offset \in 0 .. Len(file[desc[d].name])
  /\ ungetc_buf \in [fds -> -1..255]
  /\ \A fd \in fds : Len(read_cache[fd]) <= read_buffer_max
  /\ Len(call.got) <= call.size
  /\ stdin \in fds \cup StringPorts

(* The bytes of a cache are those of the file before the kernel's offset:  *)
(* no write, seek, close or open leaves bytes there that are not next.     *)
CacheIsPartOfTheFile ==
  \A fd \in fds : read_cache[fd] # <<>> =>
    /\ Readable(fd)
    /\ LET d == Place(fd)
       IN  read_cache[fd] = SubSeq(file[d.name], d.offset - Len(read_cache[fd]) + 1, d.offset)

-----------------------------------------------------------------------------
(* Module Ports implements CharacterPorts.  The position of a reader is    *)
(* that of the kernel, less what is in the cache, less what the call in    *)
(* progress has copied; descriptors above __FILEDES_MAX do not count.      *)
ReadAhead(fd) ==
  Len(read_cache[fd]) + IF call.fd = fd THEN Len(call.got) ELSE 0

\* A reader's description has one descriptor; writers read nothing ahead.
Position(d) ==
  LET fd == CHOOSE f \in Held : table[f] = d
  IN  desc[d].offset - ReadAhead(fd)

heldTable == Restrict(table, Held)
heldDesc ==
  [d \in Range(heldTable) |-> [name |-> desc[d].name, position |-> Position(d), access |-> desc[d].access]]

Asked(c) == [op |-> c.op, fd |-> c.fd, size |-> c.size, first |-> c.first]

C == INSTANCE CharacterPorts
       WITH Descriptors <- fds, Descriptions <- 0 .. OPEN_MAX, Nobody <- Asked(Idle), asked <- Asked(call),
            table <- heldTable, desc <- heldDesc,
            pushed <- [fd \in fds |-> Pushed(fd)],
            strings <- g_ports, input <- stdin, output <- stdout

ImplementsCharacterPorts == C!Spec
=============================================================================
