-------------------------------- MODULE Reader --------------------------------
(***************************************************************************)
(* The reader, src/reader.c: from a text to a datum and what is left of    *)
(* the text.  The character that the C functions take as an argument, and  *)
(* the one that is peeked at or pushed back, is the first of the text      *)
(* here.  No character is pushed back but one that has just been read, so  *)
(* that the one place for it (module Ports) suffices.                      *)
(***************************************************************************)
EXTENDS Numerals

\* Data are tuples; the first element is the type.
Special(name) == <<"special", name>>
Symbol(name) == <<"symbol", name>>
Number(n) == <<"number", n>>
cell_nil == Special("()")
cell_dot == Special(".")
cell_f == Special("#f")
cell_t == Special("#t")
cons(a, d) == <<"pair", a, d>>
list2(a, b) == cons(a, cons(b, cell_nil))

Got(datum, text) == [datum |-> datum, rest |-> text]
Fails(why, text) == Got(<<"fails", why>>, text)
Failed(r) == r.datum[1] = "fails"
Then(r, F(_)) == IF Failed(r) THEN r ELSE F(r)
Wrapped(r, F(_)) == Then(r, LAMBDA s : Got(F(s.datum), s.rest))

-----------------------------------------------------------------------------
(* Comments.  A block comment that is not closed is read for ever.         *)
reader_read_line_comment(text) ==
  LET line == After(text, Len(Span(text, Range(Char) \ {"\n", EOF})))
  IN  IF line = <<>> THEN Fails("error", line) ELSE Got(cell_nil, line)

reader_read_block_comment(s, text) ==
  LET ends == {i \in 1 .. Len(text) - 1 : text[i] = s /\ text[i + 1] = "#"}
  IN  IF ends = {} THEN Fails("endless", text) ELSE Got(cell_nil, After(text, Min(ends) + 1))

CommentMarks == {"!", "|"}

RECURSIVE reader_eat_whitespace(_)
reader_eat_whitespace(text) ==
  LET t == After(text, Len(Span(text, Space)))
      block == First(t) = "#" /\ First(Rest(t)) \in CommentMarks
  IN  IF First(t) = ";"
      THEN Then(reader_read_line_comment(t), LAMBDA r : reader_eat_whitespace(r.rest))
      ELSE IF block
      THEN Then(reader_read_block_comment(t[2], After(t, 2)), LAMBDA r : reader_eat_whitespace(r.rest))
      ELSE Got(cell_nil, t)

-----------------------------------------------------------------------------
(* Words.                                                                  *)
\* mutant: a bar ends a word
EndOfWordBar == {"\"", ";", "(", ")", "|", EOF} \cup Space
EndOfWord == {"\"", ";", "(", ")", EOF} \cup Space
reader_identifier_p(c) == c \notin {"\"", ";", "(", ")"} /\ Code[c] \in 33..126

\* The sign of a number is not kept: +1b is the identifier 1b.
reader_read_identifier_or_number(text) ==
  LET signed == First(text) \in {"+", "-"} /\ First(Rest(text)) \in Digits
      t == IF signed THEN Tail(text) ELSE text
      word == Span(t, Range(Char) \ EndOfWord)
      n == NumberOf(word, 10)
  IN  Got(IF Range(word) \subseteq Digits
          THEN Number(IF signed /\ text[1] = "-" THEN Long(-n) ELSE n)
          ELSE Symbol(Name(word)),
          After(t, Len(word)))

\* reader_read_binary, reader_read_octal and reader_read_hex.
DigitsIn(base) == IF base = 2 THEN {"0", "1"} ELSE isnumber(base)
Based(text, base) ==
  LET t == IF First(text) = "-" THEN Tail(text) ELSE text
      digits == Span(t, DigitsIn(base))
      n == NumberOf(digits, base)
  IN  Got(Number(IF First(text) = "-" THEN Long(-n) ELSE n), After(t, Len(digits)))

CharacterNames ==
  "*eof*" :> -1 @@ "nul" :> 0 @@ "alarm" :> 7 @@ "backspace" :> 8 @@ "tab" :> 9
  @@ "linefeed" :> 10 @@ "newline" :> 10 @@ "vtab" :> 11 @@ "page" :> 12 @@ "return" :> 13
  @@ "esc" :> 27 @@ "space" :> 32 @@ "bel" :> 7 @@ "bs" :> 8 @@ "ht" :> 9 @@ "nl" :> 10
  @@ "vt" :> 11 @@ "np" :> 12 @@ "cr" :> 13 @@ "fs" :> 28

reader_read_character(text) ==
  LET next == First(Rest(text))
      Number8 == Span(text, isnumber(8))
      letters == Span(text, Lower \cup {"*"})
      hex == Based(Rest(text), 16)
      Character(n, t) == Got(<<"char", Wrap(n, IntBits)>>, t)
  IN  IF Len(Number8) > 1 THEN Character(NumberOf(Number8, 8), After(text, Len(Number8)))
      ELSE IF First(text) = "x" /\ next \in Digits \cup Between(97, 102) \cup {"F"}
      THEN Character(hex.datum[2], hex.rest)
      ELSE IF Len(letters) > 1
      THEN IF Name(letters) \in DOMAIN CharacterNames
           THEN Character(CharacterNames[Name(letters)], After(text, Len(letters)))
           ELSE Fails("error", text)
      ELSE Character(Code[First(text)], Rest(text))

Escapes == "0" :> "NUL" @@ "a" :> "BEL" @@ "b" :> "BS" @@ "t" :> "\t" @@ "n" :> "\n"
           @@ "v" :> "VT" @@ "f" :> "\f" @@ "r" :> "\r" @@ "e" :> "ESC"
Escaped(c) == IF c \in DOMAIN Escapes THEN Escapes[c] ELSE c

\* Without a closing quote the buffer fills, and an assertion stops the program.
RECURSIVE StringFrom(_, _)
StringFrom(text, chars) ==
  LET c == First(text)
      next == First(Rest(text))
      hex == Based(After(text, 2), 16)
  IN  CASE c = "\"" -> Got(<<"string", chars>>, Tail(text))
        [] c = EOF \/ (c = "\\" /\ next = EOF) -> Fails("error", <<>>)
        [] c = "\\" /\ next = "x" -> StringFrom(hex.rest, Append(chars, Char[hex.datum[2] % 256]))
        [] c = "\\" /\ next \notin {"x", EOF} -> StringFrom(After(text, 2), Append(chars, Escaped(next)))
        [] OTHER -> StringFrom(Tail(text), Append(chars, c))
reader_read_string(text) == StringFrom(text, <<>>)

-----------------------------------------------------------------------------
(* Data.                                                                   *)
RECURSIVE Items(_), IsList(_)
Items(list) == IF list = cell_nil THEN <<>> ELSE <<list[2]>> \o Items(list[3])
IsList(x) == x = cell_nil \/ (x[1] = "pair" /\ IsList(x[3]))

list_to_vector(r) ==
  IF Failed(r) THEN r
  ELSE IF IsList(r.datum) THEN Got(<<"vector", Items(r.datum)>>, r.rest)
  ELSE Fails("wild pointer", r.rest)

RECURSIVE reader_read_sexp_(_), reader_read_list(_)

\* ' and its like: the name of a form, and the datum behind it.
Abbreviation(name, text) ==
  Wrapped(reader_read_sexp_(text), LAMBDA x : list2(Symbol(name), x))
Comma(unquote, splicing, text) ==
  IF First(text) = "@" THEN Abbreviation(splicing, Tail(text)) ELSE Abbreviation(unquote, text)

Keyword(r) ==
  IF r.datum[1] = "number" THEN Fails("error", r.rest) ELSE Got(<<"keyword", r.datum[2]>>, r.rest)

reader_read_hash(c, text) ==
  CASE c \in CommentMarks ->
         Then(reader_read_block_comment(c, text), LAMBDA r : reader_read_sexp_(r.rest))
    [] c = "f" -> Got(cell_f, text)
    [] c = "t" -> Got(cell_t, text)
    [] c = "," -> Comma("unsyntax", "unsyntax-splicing", text)
    [] c = "'" -> Abbreviation("syntax", text)
    [] c = "backquote" -> Abbreviation("quasisyntax", text)
    [] c = ":" -> Keyword(reader_read_identifier_or_number(text))
    [] c = "b" -> Based(text, 2)
    [] c = "o" -> Based(text, 8)
    [] c = "x" -> Based(text, 16)
    [] c = "\\" -> reader_read_character(text)
    [] c = "(" -> list_to_vector(reader_read_list(text))
    [] c = ";" -> Then(reader_read_sexp_(text), LAMBDA r : reader_read_sexp_(r.rest))
    [] OTHER -> reader_read_sexp_(text)

reader_read_sexp_(text) ==
  LET c == First(text)
      t == Rest(text)
  IN  CASE c \in {EOF, ")"} -> Got(cell_nil, t)
        [] c = ";" -> Then(reader_read_line_comment(t), LAMBDA r : reader_read_sexp_(r.rest))
        [] c \in {" ", "\t", "\n", "\f"} -> reader_read_sexp_(t)
        [] c = "(" -> reader_read_list(t)
        [] c = "#" -> reader_read_hash(First(t), Rest(t))
        [] c = "backquote" -> Abbreviation("quasiquote", t)
        [] c = "," -> Comma("unquote", "unquote-splicing", t)
        [] c = "'" -> Abbreviation("quote", t)
        [] c = "\"" -> reader_read_string(t)
        [] c = "." /\ ~reader_identifier_p(First(t)) -> Got(cell_dot, t)
        [] OTHER -> reader_read_identifier_or_number(text)

\* The car of what follows a dot; that of the empty list is no datum.
AfterDot(text) ==
  Then(reader_read_list(text), LAMBDA r :
         IF r.datum[1] = "pair" THEN Got(r.datum[2], r.rest) ELSE Fails("wild pointer", r.rest))

ListFrom(text) ==
  CASE First(text) = ")" -> Got(cell_nil, Tail(text))
    [] First(text) = EOF -> Fails("error", text)
    [] OTHER ->
         Then(reader_read_sexp_(text), LAMBDA s :
                IF s.datum = cell_dot THEN AfterDot(s.rest)
                ELSE Wrapped(reader_read_list(s.rest), LAMBDA d : cons(s.datum, d)))

reader_read_list(text) == Then(reader_eat_whitespace(text), LAMBDA r : ListFrom(r.rest))

\* A file: data up to the first that is the empty list.
RECURSIVE read_input_file_env(_)
read_input_file_env(text) ==
  LET r == reader_read_sexp_(text)
  IN  IF r.datum = cell_nil THEN <<>>
      ELSE IF Failed(r) \/ r.rest = text THEN <<r.datum>>
      ELSE <<r.datum>> \o read_input_file_env(r.rest)
=============================================================================
