------------------------------- MODULE Numerals -------------------------------
(***************************************************************************)
(* Numbers as text in the C library: ntoab writes them and abtol reads     *)
(* them, and on machines without a division __mesabi_uldiv and             *)
(* __mesabi_ldiv divide.  The division and the shifts of libtcc1.          *)
(***************************************************************************)
EXTENDS Characters

CONSTANT IntBits   \* the width of int, in which abtol counts
ASSUME IntAssumption == IntBits \in 8..WordBits

\* mutant: ten is written as what follows the digit 9
DigitOfTen(i) == Char[i + IF i > 10 THEN 97 - 10 ELSE 48]
DigitOf(i) == Char[i + IF i > 9 THEN 97 - 10 ELSE 48]

RECURSIVE DigitsOf(_, _)
DigitsOf(u, base) ==
  (IF u \div base = 0 THEN <<>> ELSE DigitsOf(u \div base, base)) \o <<DigitOf(u % base)>>

\* The absolute value of the least number is not a long.
ntoab(x, base, signed) ==
  IF signed /\ x < 0 THEN <<"-">> \o DigitsOf(Unsigned(Long(-(x + 1)) + 1), base)
  ELSE DigitsOf(Unsigned(x), base)

ltoa(x) == ntoab(x, 10, TRUE)

isnumber(base) ==
  CASE base = 8 -> Between(48, 55)
    [] base = 10 -> Digits
    [] base = 16 -> Digits \cup Between(97, 102) \cup Between(65, 70)

\* The number at the start of a text: its value and what follows.
abtol(text, base) ==
  LET Skip(s, c) == IF First(s) = c THEN Tail(s) ELSE s
      blank == Len(Span(text, Space))
      plus == Skip(After(text, blank), "+")
      s == Skip(plus, "-")
      digits == Span(s, isnumber(base))
      i == Wrap(NumberOf(digits, base), IntBits)
  IN  [value |-> IF First(plus) = "-" THEN Wrap(-i, IntBits) ELSE i,
       rest |-> After(s, Len(digits))]

strtol(string, base) ==
  IF IsPrefix(<<"0", "x">>, string) THEN abtol(After(string, 2), 16) ELSE abtol(string, base)

-----------------------------------------------------------------------------
(* Division.                                                               *)

\* The index of the highest bit of d: half of what is left at a time.
RECURSIVE Bisect(_, _, _)
Bisect(d, n, i) ==
  IF n < 2 THEN i
  ELSE LET half == n \div 2
           high == d \div 2 ^ half
       IN  IF high > 0 THEN Bisect(high, half, i + half) ELSE Bisect(d, half, i)
mesabi_log2i(d) == Bisect(d, WordBits, 0)

\* Subtract or not, bit by bit: quotient and remainder.
RECURSIVE LongDivision(_, _, _, _)
LongDivision(j, d, r, quotient) ==
  IF j = 0 THEN <<quotient, r>>
  ELSE LET fits == IF r >= d THEN 1 ELSE 0
       IN  LongDivision(j - 1, d \div 2, r - fits * d, Unsigned(2 * quotient) + fits)
\* mutant: a bit too few
mesabi_uldiv1Short(n, d) ==
  LET j == WordBits - mesabi_log2i(d) - 1
  IN  LongDivision(j, Unsigned(d * 2 ^ (j - 1)), n, 0)
mesabi_uldiv1(n, d) ==
  LET j == WordBits - mesabi_log2i(d)
  IN  LongDivision(j, Unsigned(d * 2 ^ (j - 1)), n, 0)

\* Powers of two are shifts and masks.
mesabi_uldiv(a, b) ==
  IF b \in {2 ^ i : i \in 0..6} THEN <<a \div b, a % b>> ELSE mesabi_uldiv1(a, b)

\* Signed, towards zero.  The least number is divided by counting.
mesabi_ldiv(a, b) ==
  LET negate == (a < 0) # (b < 0)
      Signed(q) == IF negate THEN Long(-q) ELSE q
      b1 == IF b < 0 THEN -b ELSE b
      u == mesabi_uldiv(IF a < 0 THEN -a ELSE a, b1)
      steps == CHOOSE x \in 0..-a : a + x * b1 <= 0 /\ a + x * b1 > -b1
  IN  IF a # LONG_MIN THEN <<Signed(Long(u[1])), IF a < 0 THEN Long(-u[2]) ELSE Long(u[2])>>
      ELSE IF b1 = 1 THEN <<IF negate THEN a ELSE Long(-a), 0>>
      ELSE <<Signed(steps), a + steps * b1>>

-----------------------------------------------------------------------------
(* What compilers call for / and %, and for shifts of a long long, where   *)
(* it is as wide as a long.  The functions have one body for gcc, one for  *)
(* tcc, and one for tcc on ARM, which has no division.                     *)

Builds == {"gcc", "tcc", "tcc on arm"}

mesabi_idiv(a, b) == mesabi_ldiv(a, b)[1]
mesabi_imod(a, b) == mesabi_ldiv(a, b)[2]
mesabi_udiv(a, b) == mesabi_uldiv(a, b)[1]
mesabi_umod(a, b) == mesabi_uldiv(a, b)[2]

\* The operators of the machine go towards zero.
Magnitude(n) == IF n < 0 THEN -n ELSE n
Slash(a, b) ==
  LET q == Magnitude(a) \div Magnitude(b) IN IF (a < 0) = (b < 0) THEN q ELSE -q
Percent(a, b) == IF a < 0 THEN -(-a % Magnitude(b)) ELSE a % Magnitude(b)

divdi3(build, a, b) ==
  IF build = "tcc on arm" THEN mesabi_idiv(a, b) ELSE Slash(a, b)
moddi3(build, a, b) ==
  IF build = "tcc on arm" THEN mesabi_imod(a, b) ELSE Percent(a, b)

\* Unsigned longs.  A divisor of zero gives zero.
udivdi3(build, a, b) ==
  IF b = 0 THEN 0 ELSE IF build = "tcc on arm" THEN mesabi_udiv(a, b) ELSE a \div b
umoddi3(build, a, b) == IF build = "tcc on arm" THEN mesabi_umod(a, b) ELSE a % b

\* With tcc a shift is a loop: one place at a time.
lshrdi3(build, a, b) ==
  LET Halves[i \in 0..b] ==
        IF i = 0 THEN a
        ELSE IF build = "tcc on arm" THEN mesabi_udiv(Halves[i - 1], 2) ELSE Halves[i - 1] \div 2
  IN  IF build = "gcc" THEN a \div 2 ^ b ELSE Halves[b]
ashldi3(build, a, b) ==
  LET Doubles[i \in 0..b] == IF i = 0 THEN a ELSE Long(Doubles[i - 1] + Doubles[i - 1])
  IN  IF build = "gcc" THEN Long(a * 2 ^ b) ELSE Doubles[b]
\* Halves of a negative number go towards zero: -1 by one place is 0.
ashrdi3(build, a, b) ==
  LET Halves[i \in 0..b] ==
        IF i = 0 THEN a
        ELSE IF build = "tcc on arm" THEN mesabi_idiv(Halves[i - 1], 2) ELSE Slash(Halves[i - 1], 2)
  IN  IF build = "gcc" THEN a \div 2 ^ b ELSE Halves[b]

\* On ARM, where an int is a long.
divsi3(num, den) == mesabi_idiv(num, den)
modsi3(num, den) == mesabi_imod(num, den)
udivsi3(num, den) == Long(mesabi_udiv(Unsigned(num), Unsigned(den)))
umodsi3(num, den) == Long(mesabi_umod(Unsigned(num), Unsigned(den)))
=============================================================================
