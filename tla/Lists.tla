-------------------------------- MODULE Lists --------------------------------
(***************************************************************************)
(* The procedures in C for lists, strings and bytevectors.  The heap is a  *)
(* sequence of cells, and a cell is known by its place; a result is a      *)
(* place, and the heap where the procedure changes it.                     *)
(***************************************************************************)
EXTENDS Integers, Sequences, SequencesExt, FiniteSetsExt

\* The cells that every heap starts with.
cell_nil == 1
cell_f == 2
cell_t == 3
cell_unspecified == 4
Special(name) == [type |-> "TSPECIAL", name |-> name]
Nucleus == <<Special("()"), Special("#f"), Special("#t"), Special("*unspecified*")>>

Bool(condition) == IF condition THEN cell_t ELSE cell_f
Result(r, h) == [error |-> "none", r |-> r, h |-> h]
Raises(key, h) == [error |-> key, r |-> 0, h |-> h]
alloc(h, cell) == Result(Len(h) + 1, Append(h, cell))
Pair(a, d) == [type |-> "TPAIR", car |-> a, cdr |-> d]
cons(h, a, d) == alloc(h, Pair(a, d))
IsPair(h, x) == h[x].type = "TPAIR"
\* A string, symbol or keyword has its bytes in another cell.
Bytes(h, x) == IF h[x].type = "TBYTES" THEN h[x].bytes ELSE h[h[x].string].bytes
HasBytes(h, x) == h[x].type \in {"TSTRING", "TKEYWORD", "TSYMBOL"}
Word(h, x) == IF h[x].type \in {"TNUMBER", "TCHAR"} THEN <<h[x].value>> ELSE <<>>

\* Two strings, or a keyword and anything.  A special has bytes too, its
\* name, which is taken to be no keyword's; in the other cells the words of
\* length and bytes are not those of a name.
string_equal_p(h, a, b) ==
  IF {h[a].type, h[b].type} # {"TSTRING"} /\ "TKEYWORD" \notin {h[a].type, h[b].type}
  THEN Raises("assertion", h)
  ELSE Result(Bool(a = b \/ (HasBytes(h, a) /\ HasBytes(h, b) /\ Bytes(h, a) = Bytes(h, b))), h)

\* The pairs of a list, and the first of them of which something holds.
RECURSIVE Pairs(_, _)
Pairs(h, a) == IF a = cell_nil THEN <<>> ELSE <<a>> \o Pairs(h, h[a].cdr)
FirstPair(h, a, Holds(_)) ==
  LET pairs == Pairs(h, a)
      i == SelectInSeq(pairs, Holds)
  IN  IF i = 0 THEN cell_f ELSE pairs[i]
CarOf(h, pair) == IF pair = cell_f THEN cell_f ELSE h[pair].car

-----------------------------------------------------------------------------
(* Search.  A number and a character are the same if their words are.      *)
eq_p(h, x, y) ==
  Bool(\/ x = y
       \/ h[x].type = h[y].type /\ h[x].type = "TKEYWORD" /\ Bytes(h, x) = Bytes(h, y)
       \/ h[x].type = h[y].type /\ h[x].type \in {"TCHAR", "TNUMBER"} /\ Word(h, x) = Word(h, y))

IsFound(h, x, y) ==
  CASE h[x].type \in {"TCHAR", "TNUMBER"} -> Word(h, x) = Word(h, y)
    [] h[x].type = "TKEYWORD" -> h[y].type = "TKEYWORD" /\ Bytes(h, x) = Bytes(h, y)
    [] OTHER -> x = y
memq(h, x, a) == FirstPair(h, a, LAMBDA pair : IsFound(h, x, h[pair].car))
xassq(h, x, a) == CarOf(h, FirstPair(h, a, LAMBDA pair : x = h[h[pair].car].cdr))
\* A keyword is compared with any key, as a string is: a string or symbol of
\* its name is found too.
assq(h, x, a) ==
  IF ~IsPair(h, a) THEN cell_f
  ELSE CarOf(h, FirstPair(h, a, LAMBDA pair :
         LET key == h[h[pair].car].car
         IN  IF h[x].type = "TKEYWORD" THEN string_equal_p(h, x, key).r = cell_t ELSE IsFound(h, x, key)))

RECURSIVE equal2_p(_, _, _)
equal2_p(h, a, b) ==
  CASE a = b -> cell_t
    [] a # b /\ IsPair(h, a) /\ IsPair(h, b) ->
         IF equal2_p(h, h[a].car, h[b].car) = cell_t THEN equal2_p(h, h[a].cdr, h[b].cdr) ELSE cell_f
    [] h[a].type = "TSTRING" /\ h[b].type = "TSTRING" /\ a # b -> string_equal_p(h, a, b).r
    [] h[a].type = "TVECTOR" /\ h[b].type = "TVECTOR" /\ a # b ->
         Bool(/\ Len(h[a].vector) = Len(h[b].vector)
              /\ \A i \in DOMAIN h[a].vector : equal2_p(h, h[a].vector[i], h[b].vector[i]) = cell_t)
    [] OTHER -> eq_p(h, a, b)

assoc_string(h, x, a) ==
  CarOf(h, FirstPair(h, a, LAMBDA pair :
    LET key == h[h[pair].car].car IN h[key].type = "TSTRING" /\ string_equal_p(h, x, key).r = cell_t))
assoc(h, x, a) ==
  IF h[x].type = "TSTRING" THEN assoc_string(h, x, a)
  ELSE CarOf(h, FirstPair(h, a, LAMBDA pair : equal2_p(h, x, h[h[pair].car].car) = cell_t))

-----------------------------------------------------------------------------
(* Making lists.                                                           *)
RECURSIVE length__(_, _)
length__(h, x) ==
  IF x = cell_nil THEN 0
  ELSE IF ~IsPair(h, x) THEN -1
  ELSE LET n == length__(h, h[x].cdr) IN IF n = -1 THEN -1 ELSE 1 + n

RECURSIVE last_pair(_, _)
last_pair(h, x) == IF x = cell_nil \/ h[x].cdr = cell_nil THEN x ELSE last_pair(h, h[x].cdr)

acons(h, key, value, alist) == LET pair == cons(h, key, value) IN cons(pair.h, pair.r, alist)

RECURSIVE Reversed(_, _, _)
Reversed(h, x, y) ==
  IF x = cell_nil THEN Result(y, h)
  ELSE LET pair == cons(h, h[x].car, y) IN Reversed(pair.h, h[x].cdr, pair.r)
RECURSIVE Turned(_, _, _)
Turned(h, x, r) == IF x = cell_nil THEN Result(r, h) ELSE Turned([h EXCEPT ![x].cdr = r], h[x].cdr, x)

reverse_x_(h, x, t) == IF x # cell_nil /\ ~IsPair(h, x) THEN Raises("not-a-pair", h) ELSE Turned(h, x, t)
append_reverse(h, x, y) ==
  IF x = cell_nil THEN Result(y, h) ELSE IF ~IsPair(h, x) THEN Raises("not-a-pair", h) ELSE Reversed(h, x, y)
\* mutant: the list itself is turned, and not a copy
Append2InPlace(h, x, y) ==
  IF x = cell_nil THEN Result(y, h)
  ELSE IF ~IsPair(h, x) THEN Raises("not-a-pair", h)
  ELSE LET r == Turned(h, x, cell_nil) IN reverse_x_(r.h, r.r, y)
append2(h, x, y) ==
  IF x = cell_nil THEN Result(y, h)
  ELSE IF ~IsPair(h, x) THEN Raises("not-a-pair", h)
  ELSE LET r == Reversed(h, x, cell_nil) IN reverse_x_(r.h, r.r, y)

-----------------------------------------------------------------------------
(* Strings, which are bytes in memory, with a NUL behind them.             *)
make_string(h, bytes) ==
  LET cell == alloc(h, [type |-> "TBYTES", bytes |-> bytes])
  IN  alloc(cell.h, [type |-> "TSTRING", string |-> cell.r])
make_char(n) == [type |-> "TCHAR", value |-> n]
make_number(n) == [type |-> "TNUMBER", value |-> n]

bytes_to_list(h, s) ==
  FoldRight(LAMBDA byte, p : LET c == alloc(p.h, make_char(byte)) IN cons(c.h, c.r, p.r), s, Result(cell_nil, h))
string_to_list(h, string) == bytes_to_list(h, Bytes(h, string))
list_to_cstring(h, list) == LET pairs == Pairs(h, list) IN [i \in DOMAIN pairs |-> h[h[pairs[i]].car].value % 256]
list_to_string(h, list) == make_string(h, list_to_cstring(h, list))
string_length(h, string) ==
  IF h[string].type # "TSTRING" THEN Raises("assertion", h) ELSE alloc(h, make_number(Len(Bytes(h, string))))
string_append(h, x) ==
  LET pairs == Pairs(h, x)
  IN  IF \E i \in DOMAIN pairs : h[h[pairs[i]].car].type # "TSTRING" THEN Raises("assertion", h)
      ELSE make_string(h, FlattenSeq([i \in DOMAIN pairs |-> Bytes(h, h[pairs[i]].car)]))
\* The index may be the length: there is the NUL.  A negative one is large.
StringFault(h, str, k) ==
  IF h[str].type # "TSTRING" \/ h[k].type # "TNUMBER" THEN "assertion"
  ELSE IF h[k].value \notin 0 .. Len(Bytes(h, str)) THEN "system-error" ELSE "none"
\* A byte in memory is read as a char, signed or not.
AsChar(byte, signed) == IF signed /\ byte >= 128 THEN byte - 256 ELSE byte
string_ref(h, str, k, signed) ==
  IF StringFault(h, str, k) # "none" THEN Raises(StringFault(h, str, k), h)
  ELSE alloc(h, make_char(AsChar(Append(Bytes(h, str), 0)[h[k].value + 1], signed)))
string_set_x(h, str, k, c) ==
  IF h[c].type # "TCHAR" THEN Raises("assertion", h)
  ELSE IF StringFault(h, str, k) # "none" THEN Raises(StringFault(h, str, k), h)
  ELSE Result(cell_unspecified,
              [h EXCEPT ![h[str].string].bytes =
                          SubSeq([Append(@, 0) EXCEPT ![h[k].value + 1] = h[c].value % 256], 1, Len(@))])
\* The bytes are those of the symbol.
symbol_to_string(h, symbol) == alloc(h, [h[symbol] EXCEPT !.type = "TSTRING"])
symbol_to_keyword(h, symbol) == alloc(h, [h[symbol] EXCEPT !.type = "TKEYWORD"])
keyword_to_string(h, keyword) == alloc(h, [h[keyword] EXCEPT !.type = "TSTRING"])

-----------------------------------------------------------------------------
(* Bytevectors: a byte is a char, signed or not.                           *)
\* Without a value the bytes are what the arena holds.
make_bytevector(h, args, garbage) ==
  IF args = <<>> THEN Raises("wrong-number-of-args", h)
  ELSE IF h[args[1]].type # "TNUMBER" THEN Raises("wrong-type-arg", h)
  ELSE IF Len(args) = 1
  THEN alloc(h, [type |-> "TBYTES", bytes |-> [i \in 1 .. h[args[1]].value |-> garbage]])
  ELSE IF h[args[2]].type # "TNUMBER" THEN Raises("wrong-type-arg", h)
  ELSE IF h[args[2]].value \notin 0..255 THEN Raises("system-error", h)
  ELSE IF Len(args) > 2 THEN Raises("wrong-number-of-args", h)
  ELSE alloc(h, [type |-> "TBYTES", bytes |-> [i \in 1 .. h[args[1]].value |-> h[args[2]].value]])

BytesFault(h, bv, k) ==
  IF h[bv].type # "TBYTES" \/ h[k].type # "TNUMBER" THEN "wrong-type-arg"
  ELSE IF h[k].value \notin 0 .. Len(Bytes(h, bv)) - 1 THEN "system-error" ELSE "none"
bytevector_u8_ref(h, bv, k) ==
  LET i == Bytes(h, bv)[h[k].value + 1]
  IN  IF BytesFault(h, bv, k) # "none" THEN Raises(BytesFault(h, bv, k), h)
      ELSE alloc(h, make_number(IF i < 0 THEN 256 + i ELSE i))
bytevector_u8_set_x(h, bv, k, value, signed) ==
  IF BytesFault(h, bv, k) # "none" THEN Raises(BytesFault(h, bv, k), h)
  ELSE IF h[value].type # "TNUMBER" THEN Raises("wrong-type-arg", h)
  ELSE IF h[value].value \notin 0..255 THEN Raises("system-error", h)
  ELSE Result(cell_unspecified, [h EXCEPT ![bv].bytes[h[k].value + 1] = AsChar(h[value].value, signed)])
=============================================================================
