----------------------------- MODULE Arithmetic -----------------------------
(***************************************************************************)
(* The arithmetic of src/math.c on words, and what mes/module/mes/scm.mes  *)
(* builds from it: remainder, and numbers as strings in any radix.         *)
(***************************************************************************)
EXTENDS Numerals, Bitwise

plus(ns) == FoldLeft(LAMBDA n, v : Long(n + v), 0, ns)
multiply(ns) == FoldLeft(LAMBDA n, v : Long(n * v), 1, ns)
\* The negative of the least number, which C leaves undefined, is the least
\* number, as in two's complement.
minus(ns) ==
  IF Len(ns) = 1 THEN Long(-ns[1]) ELSE FoldLeft(LAMBDA n, v : Long(n - v), Head(ns), Tail(ns))

\* Each number is compared with the one before it, and for = with the first.
greater_p(ns) == \A i \in 2 .. Len(ns) : ~(ns[i] >= ns[i - 1])
less_p(ns) == \A i \in 2 .. Len(ns) : ~(ns[i] <= ns[i - 1])
is_p(ns) == \A i \in 2 .. Len(ns) : ns[i] = ns[1]

ZeroDivisor == "divide-by-zero"

\* The absolute value of the first number by each of the others, as
\* unsigned words: a negative divisor is a huge one.  After a quotient of 0
\* one more divisor is looked at.
RECURSIVE DivideBy(_, _, _)
DivideBy(u, sign, vs) ==
  IF vs = <<>> THEN Long(IF sign THEN -u ELSE u)
  ELSE LET v == Head(vs)
       IN  IF v = 0 THEN ZeroDivisor
           ELSE IF u = 0 THEN 0
           ELSE DivideBy(u \div Unsigned(v), (sign /\ v > 0) \/ (~sign /\ v < 0), Tail(vs))

divide(ns) ==
  IF ns = <<>> THEN 1
  ELSE DivideBy(IF ns[1] < 0 THEN -ns[1] ELSE ns[1], ns[1] < 0, Tail(ns))

\* The least number that is not negative is reached by adding the divisor.
modulo(a, b) ==
  LET w == IF b < 0 THEN -b ELSE b
      u == a % w
  IN  IF b = 0 THEN ZeroDivisor ELSE Long(IF b < 0 THEN -u ELSE u)

\* Shifts to the right keep the sign.
ash(n, count) ==
  IF count < 0 THEN n \div 2 ^ (-count) ELSE Long(n * 2 ^ count)

logand(ns) == FoldLeft(LAMBDA n, v : Long(Unsigned(n) & Unsigned(v)), -1, ns)
logior(ns) == FoldLeft(LAMBDA n, v : Long(Unsigned(n) | Unsigned(v)), 0, ns)
logxor(ns) == FoldLeft(LAMBDA n, v : Long(Unsigned(n) ^^ Unsigned(v)), 0, ns)
lognot(n) == Long(-n - 1)

-----------------------------------------------------------------------------
(* In Scheme.                                                              *)
quotient(x, y) == divide(<<x, y>>)
remainder(x, y) == minus(<<x, multiply(<<quotient(x, y), y>>)>>)
abs(x) == IF x < 0 THEN minus(<<x>>) ELSE x

RECURSIVE DigitsFrom(_, _, _)
DigitsFrom(n, radix, digits) ==
  LET ds == <<DigitOf(abs(remainder(n, radix)))>> \o digits
      q == quotient(n, radix)
  IN  IF q = 0 THEN ds ELSE DigitsFrom(q, radix, ds)
number_to_string(n, radix) ==
  (IF n < 0 THEN <<"-">> ELSE <<>>) \o DigitsFrom(abs(n), radix, <<>>)

\* <<n>>, or <<>> for a text that is no number.  What is behind a point is
\* read and dropped, and the sign with it.
RECURSIVE string_to_number(_, _)
string_to_number(text, radix) ==
  LET negative == First(text) = "-"
      t == IF negative THEN Tail(text) ELSE text
      digits == Span(t, IF radix = 16 THEN isnumber(16) ELSE Digits)
      end == After(t, Len(digits))
      n == NumberOf(digits, radix)
  IN  CASE text = <<>> -> <<>>
        [] Len(text) > 1 /\ SubSeq(text, 1, 2) = <<"#", "x">> -> string_to_number(After(text, 2), 16)
        [] end = <<>> -> <<multiply(<<IF negative THEN -1 ELSE 1, n>>)>>
        [] end = <<".">> -> <<n>>
        [] First(end) = "." /\ Len(end) > 1 -> IF string_to_number(Tail(end), 10) = <<>> THEN <<>> ELSE <<n>>
        [] OTHER -> <<>>
=============================================================================
