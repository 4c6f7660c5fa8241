------------------------------- MODULE MCPorts -------------------------------
EXTENDS Ports

\* The pipe, the terminal, a file that is read, and one that is written.
ContentsDef == [pipe |-> <<>>, log |-> <<>>, file |-> <<65, 255, 67>>, out |-> <<>>]
MaxLengthDef == [pipe |-> 2, log |-> 1, file |-> 3, out |-> 1]
SeeksDef == {<<"set", 1>>, <<"cur", -1>>, <<"end", 0>>}
Workload(calls, files, access, closes) ==
  [calls |-> calls, files |-> files, access |-> access, closes |-> closes]
WorkloadsDef == {
  Workload({"peek", "getc", "unread", "string", "set-input"}, {"pipe"}, {}, {}),
  Workload({"read", "fread", "getc", "unread", "lseek"}, {"pipe"}, {}, {}),
  Workload({"open", "set-input", "getc", "unread", "write", "lseek"}, {"file"}, {"rw"}, {}),
  Workload({"open", "close", "getc", "read", "unread"}, {"file"}, {"r"}, {0, 3}),
  Workload({"open", "close", "dup", "write", "set-output"}, {"out", "log"}, {"r", "w", "rw"}, {1, 3})}
TextsDef == {<<65, 255>>}

-----------------------------------------------------------------------------
(* A read returns when what it asks for is there, in the cache or behind   *)
(* it, or when the pipe is closed.                                         *)
Available ==
  \/ ~Readable(call.fd) \/ Place(call.fd).name # Pipe \/ peer = "closed"
  \/ Todo <= Len(read_cache[call.fd]) + Len(RestOf(Place(call.fd)))
ReturnsWhatIsThere == (call # Idle /\ Available) ~> (call = Idle)
=============================================================================
