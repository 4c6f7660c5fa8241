----------------------------- MODULE Descriptors -----------------------------
(***************************************************************************)
(* How the C library of Mes reads and writes: a file descriptor has a slot *)
(* for one character pushed back (__ungetc_buf) and a cache of bytes read  *)
(* ahead of the program (__read_cache); the kernel knows of neither.       *)
(*                                                                         *)
(* A read is a call in progress: one step is one invocation of             *)
(* __buffered_read, which calls itself after it has filled the cache, with *)
(* at most one system call.  Descriptor 0 is a pipe, and the process at    *)
(* its other end writes and closes it at any time.                         *)
(*                                                                         *)
(* Programs duplicate only descriptors they write to, and do not open for  *)
(* writing what they have open otherwise.                                  *)
(***************************************************************************)
EXTENDS Integers, Sequences, SequencesExt, FiniteSets, FiniteSetsExt, Functions

CONSTANTS
  Pipe,         \* what descriptor 0 reads
  Log,          \* what descriptors 1 and 2 write
  Contents,     \* the bytes of each file at the start
  Bytes,        \* the bytes that are written
  Requests,     \* how many bytes a program asks for
  Seeks,        \* pairs of whence and offset
  MaxLength,    \* bound: the length of each file
  FILEDES_MAX,  \* __FILEDES_MAX
  OPEN_MAX,     \* the kernel's limit on descriptors
  BufferSizes   \* values of MES_READ_BUFFER

Names == DOMAIN Contents

ASSUME DescriptorAssumption ==
  /\ {Pipe, Log} \subseteq Names /\ Pipe # Log
  /\ Contents \in [Names -> Seq(0..255)]
  /\ Bytes \subseteq 0..255
  /\ MaxLength \in [Names -> Nat]
  /\ FILEDES_MAX \in Nat /\ OPEN_MAX \in Nat /\ 2 < FILEDES_MAX /\ FILEDES_MAX <= OPEN_MAX
  /\ Requests \subseteq Nat \ {0} /\ BufferSizes \subseteq Nat
  /\ Seeks \subseteq {"set", "cur", "end"} \X Int

VARIABLES
  file,             \* the bytes of each file, and all that went into the pipe
  peer,             \* the other end of the pipe: "open" or "closed"
  table,            \* descriptor -> number of an open file description
  desc,             \* that description: file, offset and access
  ungetc_buf,       \* descriptor -> the character pushed back, or -1
  read_cache,       \* descriptor -> the bytes read ahead
  read_buffer_max,  \* how many at most
  call,             \* the read in progress
  ret               \* what the last call returned

descriptorVars ==
  <<file, peer, table, desc, ungetc_buf, read_cache, read_buffer_max, call, ret>>

fds == 0 .. FILEDES_MAX - 1
Error == <<-1>>   \* also EOF
Idle == [op |-> "none", fd |-> 0, size |-> 0, first |-> <<>>, got |-> <<>>]

-----------------------------------------------------------------------------
(* The kernel.                                                             *)
Opened == DOMAIN table
Held == Opened \cap fds   \* the others are lost to the program: see Open
Place(fd) == desc[table[fd]]
Readable(fd) == fd \in Opened /\ Place(fd).access # "w"
Writable(fd) == fd \in Opened /\ Place(fd).access # "r"

RestOf(d) == SubSeq(file[d.name], d.offset + 1, Len(file[d.name]))
BlockedUntilFull(fd) ==
  /\ Readable(fd) /\ Place(fd).name = Pipe /\ peer = "open"
  /\ Len(RestOf(Place(fd))) < read_buffer_max

Blocked(fd) ==
  Readable(fd) /\ Place(fd).name = Pipe /\ peer = "open" /\ RestOf(Place(fd)) = <<>>

FirstOf(s, n) == SubSeq(s, 1, Min({n, Len(s)}))
SysReadOneMore(fd, n) == FirstOf(RestOf(Place(fd)), n + 1)
SysRead(fd, n) == FirstOf(RestOf(Place(fd)), n)
Advanced(fd, n) == [desc EXCEPT ![table[fd]].offset = @ + n]

\* The byte at offset o is b now.
Put(s, o, b) == FirstOf(s, o) \o <<b>> \o SubSeq(s, o + 2, Len(s))

\* x has the value v now.
With(f, x, v) == [y \in DOMAIN f \cup {x} |-> IF y = x THEN v ELSE f[y]]

Return(op, value) == ret' = [op |-> op, value |-> value]

-----------------------------------------------------------------------------
(* __buffered_read, the common end of every read.                          *)
Todo == call.size - Len(call.got)
Cached == FirstOf(read_cache[call.fd], Todo)
Left == Todo - Len(Cached)
Unread == SubSeq(read_cache[call.fd], Len(Cached) + 1, Len(read_cache[call.fd]))
Got == call.got \o Cached

\* read, fread, fdgetc and peekchar return with these bytes.
Finish(bytes) ==
  LET value == IF call.op \in {"getc", "peek"} /\ bytes = <<>> THEN Error ELSE bytes
  IN  /\ Return(call.op, IF call.op = "fread" THEN call.first \o bytes ELSE value)
      /\ call' = Idle
      /\ ungetc_buf' = IF call.op = "peek" THEN [ungetc_buf EXCEPT ![call.fd] = value[1]]
                       ELSE ungetc_buf

ReadCached ==
  /\ call # Idle /\ Left = 0
  /\ read_cache' = [read_cache EXCEPT ![call.fd] = Unread]
  /\ Finish(Got)
  /\ UNCHANGED <<file, peer, table, desc, read_buffer_max>>

ReadDirectly ==
  /\ call # Idle /\ Left > read_buffer_max /\ Readable(call.fd) /\ ~Blocked(call.fd)
  /\ LET bytes == SysRead(call.fd, Left)
     IN  /\ desc' = Advanced(call.fd, Len(bytes))
         /\ Finish(Got \o bytes)
  /\ read_cache' = [read_cache EXCEPT ![call.fd] = <<>>]
  /\ UNCHANGED <<file, peer, table, read_buffer_max>>

Fill ==
  /\ call # Idle /\ Left \in 1..read_buffer_max /\ Readable(call.fd) /\ ~Blocked(call.fd)
  /\ LET bytes == SysRead(call.fd, read_buffer_max)
     IN  /\ desc' = Advanced(call.fd, Len(bytes))
         /\ read_cache' = [read_cache EXCEPT ![call.fd] = bytes]
         /\ \/ bytes = <<>> /\ Finish(Got)
            \/ /\ bytes # <<>> /\ call' = [call EXCEPT !.got = Got]
               /\ UNCHANGED <<ungetc_buf, ret>>
  /\ UNCHANGED <<file, peer, table, read_buffer_max>>

\* Nothing is cached for a descriptor that cannot be read.
ReadFails ==
  /\ call # Idle /\ Left > 0 /\ ~Readable(call.fd)
  /\ Finish(IF call.op = "read" THEN Error ELSE <<>>)
  /\ UNCHANGED <<file, peer, table, desc, read_cache, read_buffer_max>>

BufferedRead == ReadCached \/ ReadDirectly \/ Fill \/ ReadFails

-----------------------------------------------------------------------------
(* The calls that read.  Only reading takes more than one step.            *)
Call(op, fd, size, first) ==
  call' = [op |-> op, fd |-> fd, size |-> size, first |-> first, got |-> <<>>]

Pushed(fd) == IF ungetc_buf[fd] >= 0 THEN <<ungetc_buf[fd]>> ELSE <<>>
ClearPushed(fd) == [ungetc_buf EXCEPT ![fd] = -1]

Read(fd, n) ==
  /\ Call("read", fd, n, <<>>)
  /\ UNCHANGED <<file, peer, table, desc, ungetc_buf, read_cache, read_buffer_max, ret>>

Fread(fd, n) ==
  /\ ungetc_buf' = ClearPushed(fd)
  /\ IF Len(Pushed(fd)) = n THEN Return("fread", Pushed(fd)) /\ UNCHANGED call
     ELSE Call("fread", fd, n - Len(Pushed(fd)), Pushed(fd)) /\ UNCHANGED ret
  /\ UNCHANGED <<file, peer, table, desc, read_cache, read_buffer_max>>

\* op is "getc", or "peek" for a getc whose character is pushed back at once.
Fdgetc(fd, op) ==
  /\ IF Pushed(fd) # <<>>
     THEN /\ Return(op, Pushed(fd)) /\ UNCHANGED call
          /\ ungetc_buf' = IF op = "getc" THEN ClearPushed(fd) ELSE ungetc_buf
     ELSE Call(op, fd, 1, <<>>) /\ UNCHANGED <<ungetc_buf, ret>>
  /\ UNCHANGED <<file, peer, table, desc, read_cache, read_buffer_max>>

\* With a character in the slot the assertion stops the program.
Fdungetc(c, fd) ==
  /\ c >= 0 => Pushed(fd) = <<>>
  /\ ungetc_buf' = IF c = -1 THEN ungetc_buf ELSE [ungetc_buf EXCEPT ![fd] = c]
  /\ Return("unread", <<c>>)
  /\ UNCHANGED <<file, peer, table, desc, read_cache, read_buffer_max, call>>

-----------------------------------------------------------------------------
(* The other calls.                                                        *)
SkipNothing(fd) == 0
Skip(fd) == Len(read_cache[fd])
KeepCache(fd) == read_cache
ClearCache(fd) == [read_cache EXCEPT ![fd] = <<>>]

\* What is read ahead is given back first.
Write(fd, b) ==
  LET offset == Place(fd).offset - Skip(fd)
      name == Place(fd).name
  IN  /\ \/ /\ Writable(fd) /\ offset < MaxLength[name]
            /\ file' = [file EXCEPT ![name] = Put(@, offset, b)]
            /\ desc' = [desc EXCEPT ![table[fd]].offset = offset + 1]
            /\ Return("write", <<1>>)
         \/ /\ fd \in Held /\ ~Writable(fd) /\ name # Pipe
            /\ desc' = [desc EXCEPT ![table[fd]].offset = offset]
            /\ Return("write", Error) /\ UNCHANGED file
         \/ fd \notin Held /\ Return("write", Error) /\ UNCHANGED <<file, desc>>
      /\ read_cache' = ClearCache(fd)
      /\ UNCHANGED <<peer, table, ungetc_buf, read_buffer_max, call>>

\* A pipe fails the first _lseek.  When the second one fails, the cache is gone.
Lseek(fd, whence, off) ==
  LET d == Place(fd)
      base == CASE whence = "set" -> 0
                [] whence = "cur" -> d.offset - Skip(fd)
                [] whence = "end" -> Len(file[d.name])
  IN  /\ fd \in Held
      /\ IF d.name = Pipe THEN Return("lseek", Error) /\ UNCHANGED <<desc, read_cache>>
         ELSE /\ read_cache' = ClearCache(fd)
              /\ base + off <= Len(file[d.name])
              /\ IF base + off < 0 THEN Return("lseek", Error) /\ UNCHANGED desc
                 ELSE /\ Return("lseek", <<base + off>>)
                      /\ desc' = [desc EXCEPT ![table[fd]].offset = base + off]
      /\ UNCHANGED <<file, peer, table, ungetc_buf, read_buffer_max, call>>

Free(limit) == (0 .. limit - 1) \ Opened
NewDescription == Min(0 .. OPEN_MAX \ Range(table))

\* No file is open for writing twice, or for writing and for reading.
Shared(name, access) ==
  \A fd \in Held : Place(fd).name = name => access = "r" /\ Place(fd).access = "r"

\* The kernel may open a descriptor above __FILEDES_MAX: it stays open, and
\* the file stays truncated, when the program is told EMFILE.
Open(name, access, truncate) ==
  /\ name # Pipe /\ Shared(name, access)
  /\ IF Free(OPEN_MAX) = {}
     THEN /\ Return("open", Error)
          /\ UNCHANGED <<file, table, desc, ungetc_buf, read_cache>>
     ELSE LET r == Min(Free(OPEN_MAX))
              d == NewDescription
          IN  /\ table' = With(table, r, d)
              /\ desc' = With(desc, d, [name |-> name, offset |-> 0, access |-> access])
              /\ file' = [file EXCEPT ![name] = IF truncate THEN <<>> ELSE @]
              /\ Return("open", IF r >= FILEDES_MAX THEN Error ELSE <<r>>)
              /\ IF r \in fds /\ r > 2
                 THEN ungetc_buf' = ClearPushed(r) /\ read_cache' = ClearCache(r)
                 ELSE UNCHANGED <<ungetc_buf, read_cache>>
  /\ UNCHANGED <<peer, read_buffer_max, call>>

Close(fd) ==
  /\ fd \in Held
  /\ ungetc_buf' = ClearPushed(fd) /\ read_cache' = ClearCache(fd)
  /\ table' = Restrict(table, Opened \ {fd})
  /\ desc' = Restrict(desc, Range(table'))
  /\ Return("close", <<0>>)
  /\ UNCHANGED <<file, peer, read_buffer_max, call>>

Dup(old) ==
  /\ old \in Held /\ ~Readable(old) /\ Free(FILEDES_MAX) # {}
  /\ LET new == Min(Free(FILEDES_MAX))
     IN  table' = With(table, new, table[old]) /\ Return("dup", <<new>>)
  /\ UNCHANGED <<file, peer, desc, ungetc_buf, read_cache, read_buffer_max, call>>

Dup2(old, new) ==
  /\ old \in Held /\ ~Readable(old) /\ ~Readable(new) /\ old # new
  /\ table' = With(table, new, table[old])
  /\ desc' = Restrict(desc, Range(table'))
  /\ Return("dup2", <<new>>)
  /\ UNCHANGED <<file, peer, ungetc_buf, read_cache, read_buffer_max, call>>

-----------------------------------------------------------------------------
(* The other process.                                                      *)
PeerWrites(b) ==
  /\ peer = "open" /\ Len(file[Pipe]) < MaxLength[Pipe]
  /\ file' = [file EXCEPT ![Pipe] = Append(@, b)]
  /\ UNCHANGED <<peer, table, desc, ungetc_buf, read_cache, read_buffer_max, call, ret>>

PeerCloses ==
  /\ peer = "open" /\ peer' = "closed"
  /\ UNCHANGED <<file, table, desc, ungetc_buf, read_cache, read_buffer_max, call, ret>>

DescriptorInit ==
  /\ file = Contents
  /\ peer = "open"
  /\ table = [fd \in 0..2 |-> IF fd = 0 THEN 0 ELSE 1]
  /\ desc = [d \in 0..1 |-> IF d = 0 THEN [name |-> Pipe, offset |-> 0, access |-> "r"]
                            ELSE [name |-> Log, offset |-> 0, access |-> "w"]]
  /\ ungetc_buf = [fd \in fds |-> -1]
  /\ read_cache = [fd \in fds |-> <<>>]
  /\ read_buffer_max \in BufferSizes
  /\ call = Idle
  /\ ret = [op |-> "none", value |-> <<>>]
=============================================================================
