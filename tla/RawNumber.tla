----------------------------- MODULE RawNumber -----------------------------
(***************************************************************************)
(* RawNumber of RawJson.cpp: the lexical parts of a JSON number, and the   *)
(* 64-bit integer that it spells.  Everything is as in the code, but for   *)
(* the scale: digits are those of Base, and an integer has Width digits at *)
(* most, where the code has ten and nineteen.                              *)
(***************************************************************************)
EXTENDS Integers, Sequences, SequencesExt

CONSTANTS Base,            \* ten
          Largest,         \* the largest qint64; the smallest is -(Largest + 1)
          Width,           \* digits of Largest, and of Largest + 1
          MaxNumberDigits  \* ParseLimits::maxNumberDigits

ASSUME NumberAssumption ==
  /\ Base \in Nat /\ Base > 1 /\ MaxNumberDigits \in Nat \ {0}
  /\ Largest \in Nat /\ Base ^ (Width - 1) <= Largest /\ Largest + 1 < Base ^ Width

Digits == 0..(Base - 1)
NoExponent == [sign |-> "none", digits |-> << >>]

\* The number that digits spell, and the digits of a number.
Magnitude(digits) == FoldLeft(LAMBDA n, d : n * Base + d, 0, digits)
DigitsOf(n) ==
  LET size == CHOOSE k \in 1..(n + 1) : n < Base ^ k /\ (k = 1 \/ Base ^ (k - 1) <= n)
  IN  [i \in 1..size |-> (n \div (Base ^ (size - i))) % Base]

\* Integers as QString::toLongLong() reads them.
InRange(n) == -(Largest + 1) <= n /\ n <= Largest
Signed(negative, n) == IF negative THEN -n ELSE n

Bare(negative, digits) ==
  [negative |-> negative, int |-> digits, frac |-> << >>, exp |-> NoExponent]

FromInt64(n) == Bare(n < 0, DigitsOf(IF n < 0 THEN -n ELSE n))

\* An optional is the set of its value, if it has one.
ToInt64(number) ==
  {n \in {Signed(number.negative, Magnitude(number.int))} :
     number.frac = << >> /\ number.exp = NoExponent /\ InRange(n)}

-----------------------------------------------------------------------------
(* parseMagnitudeDigits() and toExactInt64()                               *)

AllZero(digits) == \A i \in DOMAIN digits : digits[i] = 0

\* Mutant: one bound for both signs.
OneBound(negative) == DigitsOf(Largest)
Bound(negative) == DigitsOf(IF negative THEN Largest + 1 ELSE Largest)

\* Leading zeros go, what is longer than the bound is rejected, what is as
\* long is compared with it digit by digit.
ParseMagnitudeDigits(digits, negative) ==
  LET start == CHOOSE i \in DOMAIN digits :
                 /\ i = Len(digits) \/ digits[i] # 0
                 /\ \A j \in 1..(i - 1) : digits[j] = 0
      trimmed == SubSeq(digits, start, Len(digits))
      beyond == \E i \in 1..Width : /\ trimmed[i] > Bound(negative)[i]
                                    /\ \A j \in 1..(i - 1) : trimmed[j] = Bound(negative)[j]
  IN  IF Len(trimmed) > Width \/ (Len(trimmed) = Width /\ beyond)
      THEN {} ELSE {Magnitude(trimmed)}

\* The digits before the effective decimal point, if those after it are zeros.
IntegralDigits(digits, point) ==
  CASE point >= Len(digits) ->
         {digits \o [i \in 1..pad |-> 0] : pad \in {point - Len(digits)} \cap (0..Width)}
    [] point <= 0 -> {}
    [] OTHER -> {d \in {SubSeq(digits, 1, point)} : AllZero(SubSeq(digits, point + 1, Len(digits)))}

ToExactInt64(number) ==
  LET digits == number.int \o number.frac
      magnitude == Magnitude(number.exp.digits)
      point == Len(number.int) + Signed(number.exp.sign = "-", magnitude)
  IN  IF AllZero(digits) THEN {0}
      ELSE IF magnitude > Largest \/ ~InRange(point) THEN {}
      ELSE {Signed(number.negative, n) :
              n \in UNION {ParseMagnitudeDigits(d, number.negative) :
                             d \in IntegralDigits(digits, point)}}

\* What a number means: an integer in range, or none.
ExactInteger(number) ==
  LET n == Signed(number.negative, Magnitude(number.int \o number.frac))
      k == Signed(number.exp.sign = "-", Magnitude(number.exp.digits)) - Len(number.frac)
  IN  {integer \in {IF k >= 0 THEN n * Base ^ k ELSE n \div Base ^ (-k)} :
         InRange(integer) /\ (k < 0 => n % (Base ^ (-k)) = 0)}
=============================================================================
