------------------------------- MODULE CStrings -------------------------------
(***************************************************************************)
(* Strings, blocks of memory, character classes and sorting in the C       *)
(* library of Mes.  A string is its bytes, without the NUL behind them; a  *)
(* pointer into it is an offset, and NULL is -1.                           *)
(***************************************************************************)
EXTENDS Integers, Sequences, SequencesExt, FiniteSetsExt

NULL == -1
\* The value of a byte: a char is signed on x86, unsigned on arm.
char(byte, signed) == IF signed /\ byte > 127 THEN byte - 256 ELSE byte
Byte(s, i) == IF i = Len(s) THEN 0 ELSE s[i + 1]
\* How far a loop runs that stops at the first offset where Stops.
Until(s, Stops(_)) == CHOOSE i \in 0 .. Len(s) : Stops(i) /\ \A j \in 0 .. i - 1 : ~Stops(j)
HasByte(set, byte) == \E i \in 0 .. Len(set) : Byte(set, i) = byte

strlen(s) == Until(s, LAMBDA i : Byte(s, i) = 0)
Ends(a, b, i) == Byte(a, i) = 0 \/ Byte(b, i) = 0 \/ Byte(a, i) # Byte(b, i)
Difference(a, b, i, signed) == char(Byte(a, i), signed) - char(Byte(b, i), signed)
strcmp(a, b, signed) == Difference(a, b, Until(a, LAMBDA i : Ends(a, b, i)), signed)
strncmp(a, b, size, signed) ==
  IF size = 0 THEN 0 ELSE Difference(a, b, Until(a, LAMBDA i : Ends(a, b, i) \/ i = size - 1), signed)
memcmp(a, b, size, signed) ==
  IF size = 0 THEN 0
  ELSE Difference(a, b, Until(a, LAMBDA i : Byte(a, i) # Byte(b, i) \/ i = size - 1), signed)

strchr(s, c) ==
  LET i == Until(s, LAMBDA j : Byte(s, j) \in {0, c}) IN IF Byte(s, i) = c THEN i ELSE NULL
strrchr(s, c) ==
  LET n == strlen(s)
      places == {i \in 0 .. n - 1 : Byte(s, i) = c}
  IN  IF n = 0 THEN NULL ELSE IF c = 0 THEN n ELSE IF places = {} THEN NULL ELSE Max(places)
memchr(s, c, size) ==
  LET places == {i \in 0 .. size - 1 : s[i + 1] = c} IN IF places = {} THEN NULL ELSE Min(places)
strcspn(s, stopset) == Until(s, LAMBDA i : HasByte(stopset, Byte(s, i)))
strspn(s, skipset) == Until(s, LAMBDA i : Byte(s, i) = 0 \/ ~HasByte(skipset, Byte(s, i)))
strpbrk(s, stopset) == strcspn(s, stopset)   \* the end, not NULL, if there is none
memmem(haystack, needle) ==
  LET places == {i \in 0 .. Len(haystack) - Len(needle) : SubSeq(haystack, i + 1, i + Len(needle)) = needle}
  IN  IF places = {} THEN NULL ELSE Min(places)
strstr(haystack, needle) == memmem(haystack, needle)

-----------------------------------------------------------------------------
(* What is written to memory, a sequence of bytes.                         *)
Put(memory, i, byte) == [memory EXCEPT ![i + 1] = byte]
Counts(n) == [k \in 1..n |-> k - 1]
memcpy(memory, dest, src, n) ==
  FoldLeft(LAMBDA m, k : Put(m, dest + k, m[src + k + 1]), memory, Counts(n))
memmove(memory, dest, src, n) ==
  IF dest < src THEN memcpy(memory, dest, src, n)
  ELSE FoldLeft(LAMBDA m, k : Put(m, dest + n - 1 - k, m[src + n - k]), memory, Counts(n))
memset(memory, s, c, n) == FoldLeft(LAMBDA m, k : Put(m, s + k, c), memory, Counts(n))
Store(memory, dest, s) == FoldLeft(LAMBDA m, k : Put(m, dest + k, s[k + 1]), memory, Counts(Len(s)))

strcpy(memory, dest, src) == Put(Store(memory, dest, src), dest + Len(src), 0)
strcat(memory, to, from) ==
  Put(Store(memory, strchr(memory, 0), from), strchr(memory, 0) + Len(from), 0)
strncat(memory, to, from, size) ==
  LET some == SubSeq(from, 1, Min({size, Len(from)}))
      p == strchr(memory, 0)
  IN  IF size = 0 THEN memory ELSE Put(Store(memory, p, some), p + Len(some), 0)
strncpy(memory, to, from, size) ==
  LET n == Min({size, Len(from)})
  IN  memset(Store(memory, to, SubSeq(from, 1, n)), to + n, 0, size - n)

\* The strings of an arg vector, and what __argz_extract_count finds in it.
RECURSIVE argz_extract(_)
argz_extract(argz) ==
  IF argz = <<>> THEN <<>>
  ELSE LET part_len == strchr(argz, 0)
       IN  <<SubSeq(argz, 1, part_len)>> \o argz_extract(SubSeq(argz, part_len + 2, Len(argz)))
RECURSIVE argz_count(_)
argz_count(argz) == IF argz = <<>> THEN 0 ELSE 1 + argz_count(SubSeq(argz, strchr(argz, 0) + 2, Len(argz)))

-----------------------------------------------------------------------------
(* Characters.                                                             *)
isascii(c) == c >= 0 /\ c <= 127
iscntrl(c) == c >= 0 /\ c < 32
isdigit(c) == c >= 48 /\ c <= 57
isgraph(c) == c > 32 /\ c < 127
islower(c) == c >= 97 /\ c <= 122
isupper(c) == c >= 65 /\ c <= 90
isalpha(c) == islower(c) \/ isupper(c)
isalnum(c) == isdigit(c) \/ isalpha(c)
isprint(c) == c >= 32 /\ c < 127
isspace(c) == c \in 9..13 \cup {32}
ispunct(c) == isprint(c) /\ ~isspace(c) /\ ~isalnum(c)
isxdigit(c) == isdigit(c) \/ c \in 97..102 \cup 65..70
tolower(c) == IF isupper(c) THEN c + (97 - 65) ELSE c
toupper(c) == IF islower(c) THEN c - (97 - 65) ELSE c
strlwr(s) == [i \in DOMAIN s |-> tolower(s[i])]

-----------------------------------------------------------------------------
(* The allocator of the C library of Mes: the break goes up and nothing    *)
(* comes back.  An address is an index into memory, a sequence of bytes;   *)
(* 0 is NULL, and __brk is 0 before the first call.                        *)
Alignment == 4    \* of max_align_t, in bytes of the model
Limit == 48       \* bound: where the kernel has no more memory

\* The kernel: a break that it does not allow is not an error.
brk(s, address) ==
  IF address \in s.start .. Limit THEN [s EXCEPT !.break = address] ELSE s
Aligned(address) == ((address + Alignment - 1) \div Alignment) * Alignment

\* mutant: the next block starts before the end of this one
MallocNoAdvance(s, size) ==
  LET p == Aligned(IF s.brk = 0 THEN s.break ELSE s.brk)
  IN  [p |-> p, s |-> [brk(s, p + size) EXCEPT !.brk = p]]
\* Never -1, and so never NULL.
malloc(s, size) ==
  LET p == Aligned(IF s.brk = 0 THEN s.break ELSE s.brk)
  IN  [p |-> p, s |-> [brk(s, p + size) EXCEPT !.brk = p + size]]
Writes(block, memory) == [block EXCEPT !.s.memory = memory]
calloc(s, nmemb, size) ==
  LET block == malloc(s, nmemb * size) IN Writes(block, memset(block.s.memory, block.p, 0, nmemb * size))
\* It copies as much as the new block holds; free does nothing.
realloc(s, ptr, size) ==
  LET block == malloc(s, size)
  IN  IF ptr = 0 THEN block ELSE Writes(block, memcpy(block.s.memory, block.p, ptr, size))
\* The break is never lowered.
sbrk(s, delta) == IF delta >= 0 THEN malloc(s, delta) ELSE [p |-> s.brk, s |-> s]

-----------------------------------------------------------------------------
(* qsort, on an array of numbers.  The last element is the pivot, and it   *)
(* is sorted again with what is behind it.                                 *)
qswap(a, i, j) == [a EXCEPT ![i + 1] = a[j + 1], ![j + 1] = a[i + 1]]

\* What element j does when the first i elements are not greater than the
\* pivot: an element that is less comes to place i, one that is equal stays.
Part(a, i, j, p) ==
  IF a[j + 1] < p THEN <<qswap(a, i, j), i + 1>>
  ELSE IF a[j + 1] = p THEN <<a, i + 1>> ELSE <<a, i>>

\* The array after the partition, and the place of the pivot.
qpart(a, count) ==
  LET p == a[count + 1]
      parted == FoldLeft(LAMBDA r, j : Part(r[1], r[2], j, p), <<a, 0>>, [j \in 1..count |-> j - 1])
      i == parted[2]
  IN  IF p < parted[1][i + 1] THEN <<qswap(parted[1], i, count), i>> ELSE parted

RECURSIVE qsort(_)
qsort(a) ==
  LET parted == qpart(a, Len(a) - 1)
      p == parted[2]
  IN  IF Len(a) <= 1 THEN a
      ELSE qsort(SubSeq(parted[1], 1, p)) \o qsort(SubSeq(parted[1], p + 1, Len(a)))
=============================================================================
