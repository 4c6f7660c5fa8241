-------------------------------- MODULE Stdio --------------------------------
(***************************************************************************)
(* Streams of the C library of Mes: opening one, reading blocks, lines and *)
(* what a template asks for.  A stream is what is left to read of it, and  *)
(* what was pushed back, at most one character.                            *)
(***************************************************************************)
EXTENDS Numerals

\* fopen: the flags of the call of open.
fopen(opentype, exists) ==
  LET plus == "+" \in Range(opentype)
      updates == opentype = <<"r", "+">>
  IN  IF (opentype[1] = "a" \/ updates) /\ exists
      THEN {"O_RDWR"} \cup (IF opentype[1] = "a" THEN {"O_APPEND"} ELSE {})
      ELSE IF opentype[1] \in {"w", "a"} \/ updates
      THEN IF plus THEN {"O_RDWR", "O_CREAT"} ELSE {"O_WRONLY", "O_CREAT", "O_TRUNC"}
      ELSE {"O_RDONLY"}

-----------------------------------------------------------------------------
Stream(ungot, rest) == [ungot |-> ungot, rest |-> rest]
fgetc(stream) ==
  IF stream.ungot # <<>> THEN <<stream.ungot[1], Stream(<<>>, stream.rest)>>
  ELSE IF stream.rest = <<>> THEN <<"EOF", stream>>
  ELSE <<Head(stream.rest), Stream(<<>>, Tail(stream.rest))>>
ungetc(c, stream) == IF c = "EOF" THEN stream ELSE Stream(<<c>>, stream.rest)
Left(stream) == stream.ungot \o stream.rest

\* What is pushed back first, then what one read gives.
fread(size, count, stream) ==
  LET todo == size * count
      r == SubSeq(stream.rest, 1, IF todo - Len(stream.ungot) < Len(stream.rest)
                                  THEN todo - Len(stream.ungot) ELSE Len(stream.rest))
      data == stream.ungot \o r
  IN  IF size = 0 \/ count = 0 THEN [data |-> <<>>, result |-> 0, stream |-> stream]
      ELSE [data |-> data, result |-> Len(data) \div size,
            stream |-> Stream(<<>>, After(stream.rest, Len(r)))]

\* A line of less than count characters: NULL at the end of the file.
RECURSIVE Line(_, _, _)
Line(count, c, stream) ==
  LET next == fgetc(stream)
  IN  IF count <= 0 \/ c = "\n" \/ next[1] = "EOF"
      THEN [s |-> <<>>, stream |-> stream, ended |-> count > 0 /\ c # "\n"]
      ELSE LET more == Line(count - 1, next[1], next[2]) IN [more EXCEPT !.s = <<next[1]>> \o @]
fdgets(count, stream) ==
  LET line == Line(count - 1, "", stream)
  IN  IF line.s = <<>> /\ (line.ended \/ count = 0) THEN [line EXCEPT !.s = <<"NULL">>] ELSE line

-----------------------------------------------------------------------------
(* A template is a sequence of characters and directives, <<"%", c>>; %% is *)
(* taken as a character, and a character is not compared with the text.    *)

\* vsscanf: the values that it stores.
RECURSIVE vsscanf(_, _)
vsscanf(text, template) ==
  IF template = <<>> \/ text = <<>> THEN <<>>
  ELSE LET t == Head(template)
           number == abtol(text, 10)
       IN  CASE t = <<"%", "d">> -> <<number.value>> \o vsscanf(number.rest, Tail(template))
             [] t = <<"%", "c">> -> <<Head(text)>> \o vsscanf(Tail(text), Tail(template))
             [] OTHER -> vsscanf(Tail(text), Tail(template))

\* vfscanf, which reads one character ahead; after a number it is pushed
\* back but stays the next.
NumberAt(p, stream) ==
  LET text == <<p>> \o Left(stream)
      sign == IF p \in {"+", "-"} THEN 1 ELSE 0
      digits == Len(Span(After(text, sign), Digits))
      rest == After(text, sign + digits)
  IN  [value |-> abtol(SubSeq(text, 1, sign + digits), 10).value, next |-> First(rest),
       stream |-> IF rest = <<>> THEN Stream(<<>>, <<>>) ELSE Stream(<<rest[1]>>, After(rest, 1))]
RECURSIVE Scan(_, _, _)
Scan(p, stream, template) ==
  IF template = <<>> \/ p \in {"EOF", ""} THEN <<>>
  ELSE LET t == Head(template)
           next == fgetc(stream)
           number == NumberAt(p, stream)
       IN  CASE t = <<"%", "d">> -> <<number.value>> \o Scan(number.next, number.stream, Tail(template))
             [] t = <<"%", "c">> -> <<p>> \o Scan(next[1], next[2], Tail(template))
             [] OTHER -> Scan(next[1], next[2], Tail(template))
vfscanf(stream, template) == LET first == fgetc(stream) IN Scan(first[1], first[2], template)

-----------------------------------------------------------------------------
(* A directive of a format in the C library of Mes: vfprintf writes to a   *)
(* file, and vsnprintf to a string with room for so many characters.       *)
\* A directive: left \in BOOLEAN, zero \in BOOLEAN, width and precision, -1
\* if there is none, and conversion.
NumberConversions == {"d", "i", "o", "u", "x", "X"}
Most(a, b) == IF a > b THEN a ELSE b
Least(a, b) == IF a < b THEN a ELSE b
Times(c, n) == [i \in 1 .. Most(n, 0) |-> c]

strupr(text) == [i \in DOMAIN text |->
  IF text[i] \in Lower THEN Char[Code[text[i]] - 97 + 65] ELSE text[i]]

NumberText(n, conversion) ==
  LET base == CASE conversion = "o" -> 8 [] conversion \in {"x", "X"} -> 16 [] OTHER -> 10
      s == ntoab(n, base, conversion \notin {"u", "x", "X"})
  IN  IF conversion = "X" THEN strupr(s) ELSE s

\* The width that is left after n characters of the loop that pads to
\* precision: its test takes one more.
WidthAfter(width, precision) == Least(width, precision) - 1

\* How much of the width is before a text of that length, with a precision.
\* mutant: the precision is forgotten
PadsOfLength(width, precision, length) == width - length
Pads(width, precision, length) == width - precision

\* The four loops: pad to precision, fill, the text up to precision, pad to
\* width.  A string that vsnprintf writes is filled to the width, all others
\* to the precision.
Field(directive, s, fill, to) ==
  LET length == Len(s)
      pad == IF directive.zero THEN "0" ELSE " "
      precision == IF directive.precision = -1 THEN length ELSE directive.precision
      right == ~directive.left
      pads == IF right THEN Pads(directive.width, precision, length) ELSE 0
      width == IF right THEN WidthAfter(directive.width, precision) ELSE directive.width
      filled == IF right THEN Most((IF to = "width" THEN width ELSE precision) - length, 0) ELSE 0
      text == SubSeq(s, 1, Least(length, precision - filled))
  IN  Times(pad, pads) \o Times(fill, filled) \o text \o Times(pad, width - filled - Len(text))

\* A character has no width.
Directive(directive, arg, to) ==
  CASE directive.conversion \in NumberConversions ->
         Field(directive, NumberText(arg, directive.conversion), "0", "precision")
    [] directive.conversion = "s" -> Field(directive, arg, " ", to)
    [] directive.conversion = "c" -> <<arg>>
    [] directive.conversion = "%" -> <<"%">>

vfprintf(directive, arg) == Directive(directive, arg, "precision")

\* The text that fits, whether a NUL is behind it, and the result.
vsnprintf(size, directive, arg) ==
  LET text == Directive(directive, arg, "width")
  IN  [str |-> SubSeq(text, 1, Least(size, Len(text))),
       terminated |-> Len(text) < size, count |-> Len(text)]
=============================================================================
