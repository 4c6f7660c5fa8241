------------------------------- MODULE Display -------------------------------
(***************************************************************************)
(* How data is written and displayed, src/display.c.  g_depth is left out: *)
(* every car sets it anew, so that it never ends a list.                   *)
(***************************************************************************)
EXTENDS Reader

WrittenCharacters ==
  0 :> "nul" @@ 7 :> "alarm" @@ 8 :> "backspace" @@ 9 :> "tab" @@ 10 :> "newline"
  @@ 11 :> "vtab" @@ 12 :> "page" @@ 13 :> "return" @@ 32 :> "space"

\* Other control characters, and those above 127, get no backslash.
fdwrite_char(n) ==
  IF n \in DOMAIN WrittenCharacters THEN <<"\\">> \o Chars(WrittenCharacters[n])
  ELSE IF n \in 32..127 THEN <<"\\", Char[n]>> ELSE <<Char[n]>>

WrittenEscapes ==
  "NUL" :> "0" @@ "BEL" :> "a" @@ "BS" :> "b" @@ "\t" :> "t" @@ "VT" :> "v" @@ "\n" :> "n"
  @@ "\f" :> "f" @@ "\r" :> "r" @@ "ESC" :> "e" @@ "\\" :> "\\" @@ "\"" :> "\""
\* mutant: the quote is forgotten
WrittenPlainQuote(c) ==
  IF c \in DOMAIN WrittenEscapes /\ c # "\"" THEN <<"\\", WrittenEscapes[c]>> ELSE <<c>>
fdwrite_string_char(c) == IF c \in DOMAIN WrittenEscapes THEN <<"\\", WrittenEscapes[c]>> ELSE <<c>>

fdwrite_string(chars) == FlattenSeq([i \in DOMAIN chars |-> fdwrite_string_char(chars[i])])

RECURSIVE display_helper(_, _), Inside(_, _)

\* The elements of a list, and what follows its dot.
Inside(x, write_p) ==
  display_helper(x[2], write_p) \o
    CASE x[3] = cell_nil -> <<>>
      [] x[3][1] = "pair" -> <<" ">> \o Inside(x[3], write_p)
      [] OTHER -> Chars(" . ") \o display_helper(x[3], write_p)

Spaced(texts) ==
  FlattenSeq([i \in DOMAIN texts |-> IF i = 1 THEN texts[i] ELSE <<" ">> \o texts[i]])

display_helper(x, write_p) ==
  CASE x[1] = "char" -> IF write_p THEN <<"#">> \o fdwrite_char(x[2]) ELSE <<Char[x[2]]>>
    [] x[1] = "number" -> ltoa(x[2])
    [] x[1] = "pair" -> <<"(">> \o Inside(x, write_p) \o <<")">>
    [] x[1] = "keyword" -> Chars("#:") \o fdwrite_string(Chars(x[2]))
    [] x[1] = "string" ->
         IF write_p THEN <<"\"">> \o fdwrite_string(x[2]) \o <<"\"">>
         ELSE Span(x[2], Range(Char) \ {"NUL", EOF})
    [] x[1] \in {"symbol", "special"} -> fdwrite_string(Chars(x[2]))
    [] x[1] = "vector" ->
         Chars("#(") \o Spaced([i \in DOMAIN x[2] |-> display_helper(x[2][i], write_p)]) \o <<")">>

write(x) == display_helper(x, TRUE)
display(x) == display_helper(x, FALSE)
=============================================================================
