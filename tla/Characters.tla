------------------------------ MODULE Characters ------------------------------
(***************************************************************************)
(* Characters are strings of length one, or the name of a character; a     *)
(* text is a sequence of them.  Numbers are machine words.                 *)
(***************************************************************************)
EXTENDS Integers, Sequences, SequencesExt, FiniteSetsExt, Functions, TLC

CONSTANT WordBits   \* the width of long
ASSUME WordAssumption == WordBits \in {8, 16, 32, 64}

Printable == <<
  " ", "!", "\"", "#", "$", "%", "&", "'", "(", ")", "*", "+", ",", "-", ".", "/",
  "0", "1", "2", "3", "4", "5", "6", "7", "8", "9", ":", ";", "<", "=", ">", "?",
  "@", "A", "B", "C", "D", "E", "F", "G", "H", "I", "J", "K", "L", "M", "N", "O",
  "P", "Q", "R", "S", "T", "U", "V", "W", "X", "Y", "Z", "[", "\\", "]", "^", "_",
  "backquote", "a", "b", "c", "d", "e", "f", "g", "h", "i", "j", "k", "l", "m", "n", "o",
  "p", "q", "r", "s", "t", "u", "v", "w", "x", "y", "z", "{", "|", "}", "~">>
EOF == "EOF"

\* The character of a number, and its number.
Control == -1 :> EOF @@ 0 :> "NUL" @@ 7 :> "BEL" @@ 8 :> "BS" @@ 9 :> "\t" @@ 10 :> "\n"
             @@ 11 :> "VT" @@ 12 :> "\f" @@ 13 :> "\r" @@ 27 :> "ESC" @@ 28 :> "FS"
Char == [n \in -1..255 |->
  IF n \in DOMAIN Control THEN Control[n]
  ELSE IF n \in 32..126 THEN Printable[n - 31] ELSE "#" \o ToString(n)]
Code == [c \in Range(Char) |-> CHOOSE n \in DOMAIN Char : Char[n] = c]

\* The codes of 0, A and a are 48, 65 and 97.
Between(m, n) == {Char[i] : i \in m..n}
Digits == Between(48, 57)
Lower == Between(97, 122)
Space == {" ", "\t", "\n", "VT", "\f", "\r"}   \* isspace

\* What a digit stands for.
DigitValue(c) ==
  LET n == Code[c]
  IN  IF n <= 57 THEN n - 48 ELSE IF n >= 97 THEN n - 97 + 10 ELSE n - 65 + 10

\* The machine word of a number, and of an unsigned one.
Wrap(n, bits) == ((n + 2 ^ (bits - 1)) % 2 ^ bits) - 2 ^ (bits - 1)
Long(n) == Wrap(n, WordBits)
Unsigned(n) == n % 2 ^ WordBits
LONG_MIN == -(2 ^ (WordBits - 1))
LONG_MAX == 2 ^ (WordBits - 1) - 1

First(text) == IF text = <<>> THEN EOF ELSE Head(text)
Rest(text) == IF text = <<>> THEN text ELSE Tail(text)

\* The characters of a name, and the name that characters make.
Chars(name) == [i \in 1..Len(name) |-> SubSeq(name, i, i)]
Name(text) == FoldLeft(LAMBDA name, c : name \o c, "", text)

\* The longest start of a text that has only these characters, and what
\* follows a start of n characters.
Span(text, chars) ==
  SubSeq(text, 1, SelectInSeq(Append(text, EOF), LAMBDA c : c \notin chars) - 1)
After(text, n) == SubSeq(text, n + 1, Len(text))

\* What a row of digits says, each added to a word.
NumberOf(digits, base) ==
  FoldLeft(LAMBDA n, c : Long(n * base + DigitValue(c)), 0, digits)
=============================================================================
