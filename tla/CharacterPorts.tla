---------------------------- MODULE CharacterPorts ----------------------------
(***************************************************************************)
(* What ports promise: a file, a pipe or a string is a sequence of         *)
(* characters, and a reader has a position in it.  Nothing is read ahead:  *)
(* a program that reads, writes and seeks on one descriptor does each at   *)
(* the place that it has reached, and one that reads a pipe gets what is   *)
(* there.  One character of a descriptor may be pushed back; it stays      *)
(* where it is when the program seeks or writes.                           *)
(*                                                                         *)
(* Module Ports, the ports of src/posix.c on the buffers of the C library, *)
(* implements this.                                                        *)
(***************************************************************************)
EXTENDS Integers, Sequences, FiniteSetsExt, Functions

CONSTANTS
  Pipe, Log,       \* what the standard descriptors read and write
  Contents,        \* the bytes of the files at the start
  Bytes, Texts,    \* what is written, and what string ports are opened on
  Requests, Seeks, \* how many bytes are asked for, and pairs of whence and offset
  Descriptors,     \* 0 .. n
  Descriptions,    \* names for open files
  Nobody           \* no call waits

VARIABLES
  file,      \* the bytes of each file, and all that went into the pipe
  peer,      \* the other end of the pipe: "open" or "closed"
  table,     \* descriptor -> open file
  desc,      \* open file -> name, position and access
  pushed,    \* descriptor -> the character pushed back, if any
  strings,   \* string port -> what is left of it
  input,     \* current input port
  output,    \* current output port
  asked,     \* the read that waits
  ret        \* what the last call returned

vars == <<file, peer, table, desc, pushed, strings, input, output, asked, ret>>

Error == <<-1>>
Place(fd) == desc[table[fd]]
Readable(fd) == fd \in DOMAIN table /\ Place(fd).access # "w"
Writable(fd) == fd \in DOMAIN table /\ Place(fd).access # "r"
Ahead(fd) == SubSeq(file[Place(fd).name], Place(fd).position + 1, Len(file[Place(fd).name]))
At(fd, p) == [desc EXCEPT ![table[fd]].position = p]

\* x has the value v now.
With(f, x, v) == [y \in DOMAIN f \cup {x} |-> IF y = x THEN v ELSE f[y]]

Return(op, value) == ret' = [op |-> op, value |-> value]
OnlyReturns == UNCHANGED <<file, peer, table, desc, pushed, strings, input, output, asked>>

Init ==
  /\ file = Contents /\ peer = "open"
  /\ table = [fd \in 0..2 |-> IF fd = 0 THEN 0 ELSE 1]
  /\ desc = [d \in 0..1 |-> IF d = 0 THEN [name |-> Pipe, position |-> 0, access |-> "r"]
                            ELSE [name |-> Log, position |-> 0, access |-> "w"]]
  /\ pushed = [fd \in Descriptors |-> <<>>]
  /\ strings = <<>> /\ input = 0 /\ output = 1
  /\ asked = Nobody
  /\ ret = [op |-> "none", value |-> <<>>]

-----------------------------------------------------------------------------
\* All but read take the character pushed back before they read on.
Ask(op, fd, n) ==
  LET first == IF op = "read" THEN <<>> ELSE pushed[fd]
  IN  /\ n > Len(first)
      /\ asked' = [op |-> op, fd |-> fd, size |-> n - Len(first), first |-> first]
      /\ pushed' = [pushed EXCEPT ![fd] = IF op = "read" THEN @ ELSE <<>>]
      /\ UNCHANGED <<file, peer, table, desc, strings, input, output, ret>>

TakeBack(op, fd) ==
  /\ pushed[fd] # <<>> /\ Return(op, pushed[fd])
  /\ pushed' = [pushed EXCEPT ![fd] = IF op = "peek" THEN @ ELSE <<>>]
  /\ UNCHANGED <<file, peer, table, desc, strings, input, output, asked>>

\* How many bytes a read of n gets: all of them, or up to the end of a
\* file; of a pipe at least one, if that is open.
Gets(fd, n) ==
  LET most == Min({n, Len(Ahead(fd))})
  IN  IF ~Readable(fd) THEN {0}
      ELSE IF Place(fd).name # Pipe THEN {most}
      ELSE IF most > 0 THEN 1..most
      ELSE IF peer = "closed" THEN {0} ELSE {}

\* A read of a descriptor that cannot be read fails, and at the end of its
\* file a read for one character does.
Failed(n) ==
  \/ asked.op = "read" /\ ~Readable(asked.fd)
  \/ asked.op \in {"getc", "peek"} /\ n = 0

Answer ==
  /\ asked # Nobody
  /\ asked' = Nobody
  /\ \E n \in Gets(asked.fd, asked.size) :
       LET bytes == IF n = 0 THEN <<>> ELSE SubSeq(Ahead(asked.fd), 1, n)
       IN  /\ Return(asked.op, IF Failed(n) THEN Error ELSE asked.first \o bytes)
           /\ desc' = IF n = 0 THEN desc ELSE At(asked.fd, Place(asked.fd).position + n)
           /\ pushed' = [pushed EXCEPT ![asked.fd] = IF asked.op = "peek" THEN bytes ELSE @]
  /\ UNCHANGED <<file, peer, table, strings, input, output>>

\* A descriptor's character, or a string port's; bytes of a string are signed.
Signed(b) == IF b > 127 THEN b - 256 ELSE b
Get(op, port) ==
  \/ port >= 0 /\ (TakeBack(op, port) \/ (pushed[port] = <<>> /\ Ask(op, port, 1)))
  \/ /\ port < 0
     /\ LET text == strings[-port - 1]
        IN  \/ text = <<>> /\ Return(op, Error) /\ UNCHANGED strings
            \/ /\ text # <<>> /\ Return(op, <<Signed(Head(text))>>)
               /\ strings' = IF op = "peek" THEN strings ELSE [strings EXCEPT ![-port - 1] = Tail(@)]
     /\ UNCHANGED <<file, peer, table, desc, pushed, input, output, asked>>

PushBack(c) ==
  /\ Return("unread", <<c>>)
  /\ \/ c = -1 /\ UNCHANGED <<pushed, strings>>
     \/ /\ c # -1 /\ input >= 0 /\ pushed[input] = <<>>
        /\ pushed' = [pushed EXCEPT ![input] = <<c>>] /\ UNCHANGED strings
     \/ /\ c # -1 /\ input < 0 /\ UNCHANGED pushed
        /\ strings' = [strings EXCEPT ![-input - 1] = <<c % 256>> \o @]
  /\ UNCHANGED <<file, peer, table, desc, input, output, asked>>

OpenString(text) ==
  /\ strings' = Append(strings, text)
  /\ Return("string", <<-Len(strings) - 2>>)
  /\ UNCHANGED <<file, peer, table, desc, pushed, input, output, asked>>

SetInput(port) ==
  /\ input' = port /\ Return("set", <<input>>)
  /\ UNCHANGED <<file, peer, table, desc, pushed, strings, output, asked>>

SetOutput(port) ==
  /\ output' = port /\ Return("set", <<port>>)
  /\ UNCHANGED <<file, peer, table, desc, pushed, strings, input, asked>>

-----------------------------------------------------------------------------
\* A write goes to the position that reading has reached.
Write(fd, b) ==
  /\ \/ /\ Writable(fd) /\ Return("write", <<1>>)
        /\ LET name == Place(fd).name
               next == Place(fd).position + 1
           IN  /\ file' = [file EXCEPT ![name] = [i \in 1 .. Max({Len(@), next}) |->
                                                    IF i = next THEN b ELSE @[i]]]
               /\ desc' = At(fd, next)
     \/ ~Writable(fd) /\ Return("write", Error) /\ UNCHANGED <<file, desc>>
  /\ UNCHANGED <<peer, table, pushed, strings, input, output, asked>>

\* A seek that fails may skip a part of the file; one on a pipe does nothing.
Seek(fd, whence, off) ==
  /\ fd \in DOMAIN table
  /\ LET length == Len(file[Place(fd).name])
         to == off + CASE whence = "set" -> 0
                       [] whence = "cur" -> Place(fd).position
                       [] whence = "end" -> length
     IN  \/ Place(fd).name = Pipe /\ Return("lseek", Error) /\ UNCHANGED desc
         \/ /\ Place(fd).name # Pipe /\ to >= 0
            /\ Return("lseek", <<to>>) /\ desc' = At(fd, to)
         \/ /\ Place(fd).name # Pipe /\ to < 0 /\ Return("lseek", Error)
            /\ \E p \in Place(fd).position .. length : desc' = At(fd, p)
  /\ UNCHANGED <<file, peer, table, pushed, strings, input, output, asked>>

\* Descriptor fd is one of file d now, and no file stays without a descriptor.
Attach(fd, d) ==
  /\ table' = With(table, fd, d)
  /\ desc' = Restrict(desc, Range(table'))

\* The lowest descriptor that is not used; nothing is pushed back on it.
\* When all are in use the file may be truncated nevertheless.
Open(name, access, truncate) ==
  LET free == Descriptors \ DOMAIN table
      Emptied == [file EXCEPT ![name] = <<>>]
  IN  /\ IF free # {}
         THEN \E d \in Descriptions \ Range(table) :
                /\ table' = With(table, Min(free), d)
                /\ desc' = With(desc, d, [name |-> name, position |-> 0, access |-> access])
                /\ pushed' = [pushed EXCEPT ![Min(free)] = <<>>]
                /\ file' = (IF truncate THEN Emptied ELSE file)
                /\ Return("open", <<Min(free)>>)
         ELSE /\ file' \in (IF truncate THEN {file, Emptied} ELSE {file})
              /\ Return("open", Error) /\ UNCHANGED <<table, desc, pushed>>
      /\ UNCHANGED <<peer, strings, input, output, asked>>

Close(fd) ==
  /\ fd \in DOMAIN table
  /\ table' = Restrict(table, DOMAIN table \ {fd})
  /\ desc' = Restrict(desc, Range(table'))
  /\ pushed' = [pushed EXCEPT ![fd] = <<>>]
  /\ Return("close", <<0>>)
  /\ UNCHANGED <<file, peer, strings, input, output, asked>>

\* The position is shared from then on.
Duplicate(old, new) ==
  /\ old \in DOMAIN table /\ ~Readable(new)
  /\ Attach(new, table[old])
  /\ \E op \in {"dup", "dup2"} : Return(op, <<new>>)
  /\ UNCHANGED <<file, peer, pushed, strings, input, output, asked>>

Environment ==
  /\ peer = "open"
  /\ \/ peer' = "closed" /\ UNCHANGED file
     \/ /\ \E b \in Bytes : file' = [file EXCEPT ![Pipe] = Append(@, b)]
        /\ UNCHANGED peer
  /\ UNCHANGED <<table, desc, pushed, strings, input, output, asked, ret>>

PortNext ==
  \/ \E op \in {"getc", "peek"} : \E port \in {input} \cup DOMAIN table : Get(op, port)
  \/ ret.op = "getc" /\ PushBack(ret.value[1])
  \/ \E text \in Texts : OpenString(text)
  \/ \E port \in DOMAIN table \cup {-i - 1 : i \in DOMAIN strings} : SetInput(port)
  \/ \E port \in DOMAIN table \cup {1} : SetOutput(port)

DescriptorNext ==
  \/ \E fd \in Descriptors, b \in Bytes : Write(fd, b)
  \/ \E fd \in DOMAIN table :
       \/ \E n \in Requests :
            \/ \E op \in {"read", "fread"} : Ask(op, fd, n)
            \/ n = 1 /\ TakeBack("fread", fd)
       \/ \E s \in Seeks : Seek(fd, s[1], s[2])
       \/ Close(fd)
       \/ \E new \in Descriptors : Duplicate(fd, new)
  \/ \E name \in DOMAIN Contents, access \in {"r", "w", "rw"} : Open(name, access, access = "w")

Next == (asked = Nobody /\ (PortNext \/ DescriptorNext)) \/ Answer \/ Environment

Spec == Init /\ [][Next]_vars
=============================================================================
