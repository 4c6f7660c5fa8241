----------------------------- MODULE MCFunctions -----------------------------
(***************************************************************************)
(* The functions of Mes that have no state, each on many arguments: a      *)
(* behaviour is one job and its answer.                                    *)
(***************************************************************************)
EXTENDS FiniteSets, Display, Arithmetic, MCLibrary

VARIABLES job, done, answer

\* Numbers around zero and around each power of two.
Longs == {n \in UNION {{s * 2 ^ k + d : s \in {-1, 1}, d \in -1..1} : k \in 5 .. WordBits - 1} \cup -33..33 :
            n \in LONG_MIN..LONG_MAX}

-----------------------------------------------------------------------------
(* Data.                                                                   *)
Printed == {n \in 32..127 : TRUE} \cup DOMAIN WrittenCharacters
Numbers == {Number(n) : n \in {LONG_MIN, -1, 0, 10, LONG_MAX}}
Words == {Symbol("a"), Symbol("b-1"), Symbol("+"), Symbol("1+"), Symbol("..."), <<"keyword", "k">>}
Constants == {cell_nil, cell_f, cell_t}
Letters == {<<"char", n>> : n \in Printed}
Strings == {<<"string", s>> :
  s \in {<<>>, <<"a", " ", ")">>} \cup {<<"b", Char[n]>> : n \in Printed \cup {27, 28, 200}}}
Atoms == Numbers \cup Words \cup Constants \cup Letters \cup Strings
Few == {Number(-1), Symbol("a"), <<"keyword", "k">>, cell_nil, cell_t, <<"char", 40>>, <<"string", <<"\"">>>>}
Pairs(s, t) == {cons(a, d) : a \in s, d \in t}
Lists(s) == {list2(a, b) : a, b \in s}
Vectors(s) == {<<"vector", v>> : v \in {<<>>} \cup {<<a>> : a \in s} \cup {<<a, b>> : a, b \in s}}
Compound == Pairs(Few, Few) \cup Lists(Few) \cup Vectors(Few)
Nested == Lists(Vectors({Symbol("a")}) \cup Pairs({Symbol("quote")}, Lists({cell_t}))) \cup {<<"vector", <<x>>>> : x \in Compound}
Data == Atoms \cup Compound \cup Nested

\* Data that display writes as write does.
RECURSIVE Plain(_)
Plain(x) ==
  CASE x[1] \in {"char", "string"} -> FALSE
    [] x[1] = "pair" -> Plain(x[2]) /\ Plain(x[3])
    [] x[1] = "vector" -> \A i \in DOMAIN x[2] : Plain(x[2][i])
    [] OTHER -> TRUE

File(data) == FlattenSeq([i \in DOMAIN data |-> write(data[i]) \o <<"\n">>])

\* The parts of the text of a datum between which there may be white space.
RECURSIVE Parts(_), PartsOfRest(_)
PartsOfRest(x) ==
  CASE x = cell_nil -> <<>>
    [] x[1] = "pair" -> Parts(x[2]) \o PartsOfRest(x[3])
    [] OTHER -> <<Chars(".")>> \o Parts(x)
Parts(x) ==
  CASE x[1] = "pair" /\ x[2] = Symbol("quote") /\ x[3] = cons(x[3][2], cell_nil) -> <<Chars("'")>> \o Parts(x[3][2])
    [] x[1] = "pair" -> <<Chars("(")>> \o PartsOfRest(x) \o <<Chars(")")>>
    [] x[1] = "vector" -> <<Chars("#(")>> \o FlattenSeq([i \in DOMAIN x[2] |-> Parts(x[2][i])]) \o <<Chars(")")>>
    [] OTHER -> <<write(x)>>
Layouts == {Chars(s) : s \in {" ", "\n", "\t\f ", " ;'(\n", " #|)|# ", "\n#!a\n!#", " ;;\n#|;|#"}}
Laid(x, between) == between \o FlattenSeq([i \in DOMAIN Parts(x) |-> Parts(x)[i] \o between])

Alphabet == {"(", ")", ".", "'", ",", "#", "|", ";", "\"", "\\", "a", "x", "1", "-", "\n", "\r"}
Texts == UNION {[1..n -> Alphabet] : n \in 1..4}

-----------------------------------------------------------------------------
Arrays == UNION {[1..n -> 1..5] : n \in 0..5}
Directives == [left : BOOLEAN, zero : BOOLEAN, width : {-1, 1, 2, 4, 6}, precision : {-1, 0, 1, 3, 5},
               conversion : {"d", "o", "u", "x", "X", "s", "c", "%"}]
Arguments(conversion) ==
  CASE conversion = "s" -> {<<>>, <<"a">>, <<"a", "b", "c", "d">>}
    [] conversion = "c" -> {"a"}
    [] OTHER -> {LONG_MIN, -45, -7, 0, 8, 100, LONG_MAX}

Job(kind, of) == job = [kind |-> kind, of |-> of]
Init ==
  /\ done = FALSE /\ answer = <<>>
  /\ \/ \E x \in Data, y \in Few : Job("file", <<x, y>>)
     \/ \E x \in Data, between \in Layouts : Job("layout", <<x, between>>)
     \/ \E text \in Texts : Job("text", text)
     \/ \E n \in Longs : Job("number", n)
     \/ \E b \in Longs \ {0} : Job("divisor", b)
     \/ \E a \in Arrays : Job("array", a)
     \/ \E d \in Directives : Job("directive", d)
     \/ \E fs \in Trees, call \in Calls : Possible(fs) /\ Job("call", [fs |-> fs, call |-> call])
     \/ \E listing \in DirectoryJobs : Job("directory", listing)
     \/ \E a \in ByteStrings, b \in ByteStrings : Job("strings", <<a, b>>)
     \/ \E c \in -1..255 : Job("character", c)
     \/ \E of \in MemoryJobs : Job("memory", of)
     \/ \E of \in AllocationJobs : Job("allocation", of)
     \/ \E of \in EnvironmentJobs : Job("environment", of)
     \/ \E of \in ProgramJobs : Job("program", of)
     \/ \E of \in BootJobs : Job("boot", of)
     \/ \E of \in OptionJobs : Job("options", of)
     \/ \E of \in StreamJobs : Job("stream", of)
     \/ \E of \in ScanJobs : Job("scan", of)
     \/ \E of \in OpenJobs : Job("open", of)
     \/ \E of \in ListJobs : Job("list", of)
     \/ \E of \in AlistJobs : Job("alist", of)
     \/ \E of \in BytesJobs : Job("bytes", of)
     \/ \E of \in VectorJobs : Job("bytevector", of)
     \/ \E of \in RecordJobs : Job("record", of)
     \/ \E of \in ModuleJobs : Job("module", of)

Do(kind, value) == job.kind = kind /\ ~done /\ done' = TRUE /\ answer' = value /\ UNCHANGED job

ReadFile == Do("file", read_input_file_env(File(job.of)))
ReadLaid == Do("layout", reader_read_sexp_(Laid(job.of[1], job.of[2])))
ReadText ==
  LET r == reader_read_sexp_(job.of)
      taken == Len(job.of) - Len(r.rest)
      Again(n) == reader_read_sexp_(SubSeq(job.of, 1, n) \o <<" ">>)
  IN  Do("text", [first |-> r, again |-> IF Failed(r) THEN r ELSE Again(taken),
                  before |-> IF Failed(r) \/ taken = 0 THEN r ELSE Again(taken - 1)])
Convert ==
  LET n == job.of
      Ints == -(2 ^ (IntBits - 1)) .. 2 ^ (IntBits - 1) - 1
  IN  Do("number", [
        reader |-> {reader_read_sexp_(ltoa(n)).datum} \cup
          {reader_read_sexp_(<<"#", prefix>> \o ntoab(n, base, TRUE)).datum :
             <<prefix, base>> \in {<<"o", 8>>, <<"x", 16>>}},
        scheme |-> {string_to_number(number_to_string(n, base), base) : base \in {10, 16}},
        library |-> IF n \in Ints THEN {abtol(ntoab(n, base, TRUE), base).value : base \in {8, 10, 16}}
                         \cup {strtol(ltoa(n), 10).value, strtol(<<"0", "x">> \o ntoab(n, 16, TRUE), 10).value}
                    ELSE {n}])
Divide ==
  LET b == job.of
  IN  Do("divisor", [a \in Longs |-> [
           ldiv |-> IF b = LONG_MIN THEN <<0, a>> ELSE mesabi_ldiv(a, b),
           uldiv |-> mesabi_uldiv(Unsigned(a), Unsigned(b)),
           di |-> [build \in Builds |->
             LET u == Unsigned(a)
                 v == Unsigned(b)
             IN  [signed |-> IF b = LONG_MIN \/ (a = LONG_MIN /\ b = -1) THEN <<>>
                             ELSE <<divdi3(build, a, b), moddi3(build, a, b)>>,
                  unsigned |-> <<udivdi3(build, u, v), umoddi3(build, u, v)>>, zero |-> udivdi3(build, u, 0),
                  shifts |-> IF b \in 0 .. WordBits - 1
                             THEN <<ashldi3(build, a, b), lshrdi3(build, u, b), ashrdi3(build, a, b)>> ELSE <<>>]],
           si |-> IF b = LONG_MIN THEN <<>> ELSE <<divsi3(a, b), modsi3(a, b), udivsi3(a, b), umodsi3(a, b)>>,
           quotient |-> quotient(a, b), remainder |-> remainder(a, b), modulo |-> modulo(a, b),
           whole |-> is_p(<<a, plus(<<multiply(<<quotient(a, b), b>>), remainder(a, b)>>)>>),
           between |-> less_p(<<minus(<<b>>), remainder(a, b), b>>) /\ greater_p(<<b, modulo(a, b), -1>>)]])
Sort == Do("array", S!qsort(job.of))
PrintField ==
  LET d == job.of
  IN  Do("directive", [arg \in Arguments(d.conversion) |->
        [file |-> vfprintf(d, arg), string |-> [size \in {0, 3, 9} |-> vsnprintf(size, d, arg)]]])

CallSystem == Do("call", CallAll(job.of.fs, job.of.call))
ListDirectory == Do("directory", F!readdir_(job.of[1], job.of[2], job.of[3]))
CompareStrings == Do("strings", StringAnswer(job.of[1], job.of[2]))
Classify == Do("character", CharacterAnswer(job.of))
MoveMemory == Do("memory", MemoryAnswer(job.of))
Allocate == Do("allocation", AllocationAnswer(job.of))
ChangeEnvironment == Do("environment", EnvironmentAnswer(job.of[1], job.of[2]))
StartProgram == Do("program", ProgramAnswer(job.of))
Boot == Do("boot", E!open_boot(job.of.env, job.of.files))
TakeOptions == Do("options", OptionAnswer(job.of))
ReadStream == Do("stream", StreamAnswer(job.of))
Scan_ == Do("scan", ScanAnswer(job.of))
Open == Do("open", fopen(job.of[1], job.of[2]))
MakeLists == Do("list", ListAnswerOf(job.of))
SearchAlist == Do("alist", AlistAnswer(job.of))
MakeStrings == Do("bytes", BytesAnswer(job.of))
MakeVectors == Do("bytevector", VectorAnswer(job.of))
MakeRecords == Do("record", RecordAnswer(job.of))
SearchModules == Do("module", ModuleAnswer(job.of))

Next ==
  \/ ReadFile \/ ReadLaid \/ ReadText \/ Convert \/ Divide \/ Sort \/ PrintField
  \/ CallSystem \/ ListDirectory \/ CompareStrings \/ Classify \/ MoveMemory \/ Allocate \/ ChangeEnvironment \/ StartProgram
  \/ Boot \/ TakeOptions \/ ReadStream \/ Scan_ \/ Open \/ MakeLists \/ SearchAlist \/ MakeStrings \/ MakeVectors
  \/ MakeRecords \/ SearchModules
Spec == Init /\ [][Next]_<<job, done, answer>>

-----------------------------------------------------------------------------
Answered(kind) == job.kind = kind /\ done

(* What write writes is what read reads, up to the next datum, whatever is *)
(* in it: brackets, quotes and control characters, the least number, the   *)
(* dot of a pair; white space and comments between its parts change        *)
(* nothing (display.c, reader.c).                                          *)
WrittenIsReadBack ==
  /\ Answered("file") =>
       LET x == job.of[1]
           y == job.of[2]
       IN  /\ answer = IF x = cell_nil THEN <<>> ELSE IF y = cell_nil THEN <<x>> ELSE <<x, y>>
           /\ Plain(x) => display(x) = write(x)
  /\ Answered("layout") => answer.datum = job.of[1]

(* A read stops, unless a block comment is open; it takes something, so    *)
(* that a file is read to its end, and no more than the datum.  Not so for *)
(* a carriage return, which only lists skip.  A zero may have no digits.   *)
OpenComment(text) ==
  \E i \in 1 .. Len(text) - 1 :
    /\ text[i] = "#" /\ text[i + 1] \in CommentMarks
    /\ \A j \in i + 2 .. Len(text) - 1 : SubSeq(text, j, j + 1) # <<text[i + 1], "#">>
ReadingGoesForward ==
  Answered("text") =>
    LET text == job.of
        r == answer.first
    IN  \/ r.datum = <<"fails", "endless">> /\ OpenComment(text)
        \/ r.datum \in {<<"fails", "error">>, <<"fails", "wild pointer">>}
        \/ /\ ~Failed(r) /\ IsSuffix(r.rest, text)
           /\ r.rest # text \/ text[1] = "\r"
           /\ r.rest = <<>> \/ "\r" \in Range(text) \/
                LET only == [datum |-> r.datum, rest |-> <<" ">>]
                IN  answer.again = only /\ (answer.before # only \/ r.datum = Number(0))

(* A number is written and read alike by the reader, by the procedures of  *)
(* scm.mes, and, if it is an int, by the C library.  That includes the     *)
(* least number if its negative wraps, which C does not promise: HACKING   *)
(* has a build where number->string of it goes wrong.                      *)
NumbersAreReadBack ==
  Answered("number") =>
    answer = [reader |-> {Number(job.of)}, scheme |-> {<<job.of>>}, library |-> {job.of}]

(* Quotient and remainder of the library are exact and of the right sign,  *)
(* also for the least number; for a positive divisor those of Scheme are,  *)
(* also to the +, * and comparisons of Scheme, and shifts and masks divide *)
(* by powers of two.  Whichever compiler has built it, what a compiler     *)
(* calls for long long is the same, but that tcc shifts a negative number  *)
(* to the right towards zero (math.c, scm.mes, div.c, libtcc1.c).          *)
Absolute(n) == IF n < 0 THEN -n ELSE n
Towards0(a, b) == LET q == Absolute(a) \div Absolute(b) IN IF (a < 0) = (b < 0) THEN q ELSE -q
DivisionIsExact ==
  Answered("divisor") =>
    LET b == job.of
    IN  \A a \in Longs :
          LET d == answer[a]
          IN  /\ b # LONG_MIN => d.ldiv = <<Long(Towards0(a, b)), a - b * Towards0(a, b)>>
              /\ d.uldiv = <<Unsigned(a) \div Unsigned(b), Unsigned(a) % Unsigned(b)>>
              /\ \A build \in DOMAIN d.di :
                   LET di == d.di[build]
                   IN  /\ di.signed \in {<<>>, d.ldiv} /\ di.unsigned = d.uldiv /\ di.zero = 0
                       /\ di.shifts # <<>> => di.shifts =
                            <<Long(a * 2 ^ b), Unsigned(a) \div 2 ^ b,
                              IF build = "gcc" THEN ash(a, -b) ELSE Towards0(a, 2 ^ b)>>
              /\ d.si # <<>> => d.si = d.ldiv \o <<Long(d.uldiv[1]), Long(d.uldiv[2])>>
              /\ b > 0 => /\ d.quotient = Towards0(a, b) /\ d.remainder = a - b * Towards0(a, b)
                          /\ d.modulo = a % b /\ d.whole /\ d.between
              /\ \A k \in 0 .. WordBits - 2 : b = 2 ^ k =>
                   LET low == logand(<<a, b - 1>>)
                       high == logand(<<a, lognot(b - 1)>>)
                   IN  /\ d.modulo = low /\ ash(ash(a, -k), k) = high
                       /\ logior(<<high, low>>) = a /\ logxor(<<a, low>>) = high

(* The C library does what the C standard and POSIX say of it, also with   *)
(* bytes above 127 and at the ends of a buffer: strings, memory and        *)
(* characters, lines and blocks of a stream, scanning, opening, the        *)
(* environment, the search for a program and for the file to boot from,    *)
(* and getopt, for which the words of a command mean what was meant with   *)
(* them.  An array comes out of qsort sorted if no two of its elements are *)
(* equal (lib/string, lib/ctype, lib/stdio, lib/posix, qsort.c, mes.c).    *)
Times2(a, n) == Cardinality({i \in DOMAIN a : a[i] = n})
LibraryMeansC ==
  /\ Answered("array") =>
       /\ \A n \in 1..5 : Times2(answer, n) = Times2(job.of, n)
       /\ IsInjective(job.of) => \A i, j \in DOMAIN answer : i < j => answer[i] < answer[j]
  /\ Answered("strings") => StringMeansC(job.of[1], job.of[2], answer)
  /\ Answered("character") => CharacterMeansC(job.of, answer)
  /\ Answered("memory") => MemoryMeansC(job.of, answer)
  /\ Answered("allocation") => AllocationMeansC(job.of, answer)
  /\ Answered("environment") => EnvironmentMeansC(job.of, answer)
  /\ Answered("program") => ProgramMeansC(job.of, answer)
  /\ Answered("boot") => BootIsFound(job.of, answer)
  /\ Answered("options") => OptionsMeant(job.of, answer)
  /\ Answered("stream") => StreamMeansC(job.of, answer)
  /\ Answered("scan") => Scanned(job.of, answer)
  /\ Answered("open") => OpensAsC(job.of, answer)

(* On every architecture, whatever calls its kernel has, a procedure for   *)
(* files changes the directory as POSIX says, or raises an error and       *)
(* changes nothing; a directory is read to its end, in order, with         *)
(* whatever buffer (lib/linux, mescc-posix.c, posix.c).                    *)
CallsMeanPosix ==
  /\ Answered("call") => Posix(job.of.fs, job.of.call, answer)
  /\ Answered("directory") => ReadsAll(job.of, answer)

(* Lists are sequences: append copies and shares, reverse! allocates       *)
(* nothing, searches find the first; strings, vectors, bytevectors and     *)
(* structs are sequences whose places are checked; a record has its        *)
(* fields, and of the builtins of a name the one made last is found; a     *)
(* variable of a module is found before those of the modules it uses, one  *)
(* use after the other (core.c, lib.c, string.c, vector.c, struct.c,       *)
(* variable.c, builtins.c, stack.c, module.c).                             *)
ListsAreSequences ==
  /\ Answered("list") => ListIsSequence(job.of, answer)
  /\ Answered("alist") => AlistIsMap(job.of, answer)
  /\ Answered("bytes") => BytesAreSequences(job.of, answer)
  /\ Answered("bytevector") => VectorIsSequence(job.of, answer)
  /\ Answered("record") => RecordsMeanTheirFields(job.of, answer)
  /\ Answered("module") => ModulesAreSearched(job.of, answer)

(* The directives that the library supports print what the C standard says *)
(* in a file and in a string, which is never overrun.                      *)
Supported(d, arg) ==
  LET digits == NumberText(arg, d.conversion)
  IN  CASE d.conversion = "s" -> ~d.zero /\ d.precision <= Len(arg)
        [] d.conversion \in {"c", "%"} -> d.width <= 1
        [] OTHER -> /\ d.zero => digits[1] # "-" /\ d.precision = -1 /\ ~d.left
                    /\ d.precision >= Len(digits) => ~d.left /\ digits[1] # "-"
                    /\ d.precision \in {-1} \cup Len(digits)..10
Standard(d, arg) ==
  LET digits == NumberText(arg, d.conversion)
      body == CASE d.conversion = "s" -> IF d.precision = -1 THEN arg ELSE SubSeq(arg, 1, d.precision)
                [] d.conversion = "c" -> <<arg>>
                [] d.conversion = "%" -> <<"%">>
                [] OTHER -> Times("0", d.precision - Len(digits)) \o digits
      space == Times(IF d.zero /\ d.conversion \in NumberConversions THEN "0" ELSE " ", d.width - Len(body))
  IN  IF d.left THEN body \o space ELSE space \o body
PrintsLikeC ==
  Answered("directive") =>
    \A arg \in DOMAIN answer : Supported(job.of, arg) =>
      LET text == Standard(job.of, arg)
      IN  /\ answer[arg].file = text
          /\ \A size \in DOMAIN answer[arg].string :
               answer[arg].string[size] = [str |-> SubSeq(text, 1, Least(size, Len(text))),
                                           terminated |-> Len(text) < size, count |-> Len(text)]
=============================================================================
