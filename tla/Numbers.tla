------------------------------- MODULE Numbers -------------------------------
(***************************************************************************)
(* Integers and doubles: how they compare (order.rs) and how they are      *)
(* written as bytes whose order is theirs (encoding.rs).                   *)
(*                                                                         *)
(* Widths are parameters.  A double is its bits, sign, biased exponent and *)
(* mantissa; the exponent has its real bias, since the encoding depends on *)
(* it, and the mantissa and the integers are shorter than the code's.      *)
(***************************************************************************)
EXTENDS Integers, Sequences

CONSTANTS
    Width,          \* bits of an integer and of a significand (64)
    MantissaBits    \* bits of a double's mantissa (52)

\* The bytes come seven bits at a time; Width leaves the remainder 64 does.
ASSUME NumbersAssumption ==
    /\ Width \in Nat /\ Width % 7 = 1 /\ Width <= 22
    /\ MantissaBits \in 1 .. Width - 7

Bias == 1023
MaxBiased == 2047

MaxInt == 2^(Width - 1) - 1
MinInt == -(2^(Width - 1))

Integer(i) == [kind |-> "int", i |-> i]
Double(neg, biased, mantissa) ==
    [kind |-> "double", neg |-> neg, biased |-> biased, mantissa |-> mantissa]

NaN == Double(FALSE, MaxBiased, 1)
Infinity(neg) == Double(neg, MaxBiased, 0)

IsNaN(x) == x.kind = "double" /\ x.biased = MaxBiased /\ x.mantissa # 0

Magnitude(i) == IF i < 0 THEN -i ELSE i
Sign(n) == IF n < 0 THEN -1 ELSE IF n > 0 THEN 1 ELSE 0

-----------------------------------------------------------------------------
(* Comparison: -1, 0 or 1.                                                 *)

\* Doubles of one sign order as their bits do; the zeros are equal.
Bits(d) == (IF d.neg THEN -1 ELSE 1) * (d.biased * 2^MantissaBits + d.mantissa)

CompareDoubles(x, y) ==
    CASE IsNaN(x) -> IF IsNaN(y) THEN 0 ELSE -1
      [] IsNaN(y) -> 1
      [] OTHER -> Sign(Bits(x) - Bits(y))

\* What trunc leaves of a double below 2^(Width - 1), and the sign of the rest.
Whole(d) ==
    LET e == d.biased - Bias
        significant == 2^MantissaBits + d.mantissa
        magnitude == CASE e < 0 -> 0
                       [] e <= MantissaBits -> significant \div 2^(MantissaBits - e)
                       [] OTHER -> significant * 2^(e - MantissaBits)
    IN  IF d.neg THEN -magnitude ELSE magnitude

Fraction(d) ==
    LET e == d.biased - Bias
        significant == 2^MantissaBits + d.mantissa
        rest == CASE e < 0 -> d.biased > 0 \/ d.mantissa > 0
                  [] e <= MantissaBits -> significant % 2^(MantissaBits - e) # 0
                  [] OTHER -> FALSE
    IN  IF ~rest THEN 0 ELSE IF d.neg THEN -1 ELSE 1

\* Mutant: the fraction left out of the tie.
CompareTruncated(i, d) ==
    CASE IsNaN(d) -> 1
      [] ~d.neg /\ d.biased - Bias >= Width - 1 -> -1
      [] d.neg /\ Bits(d) < Bits(Double(TRUE, Bias + Width - 1, 0)) -> 1
      [] OTHER -> Sign(i - Whole(d))

CompareIntDouble(i, d) ==
    CASE IsNaN(d) -> 1
      [] ~d.neg /\ d.biased - Bias >= Width - 1 -> -1
      [] d.neg /\ Bits(d) < Bits(Double(TRUE, Bias + Width - 1, 0)) -> 1
      [] OTHER -> IF i # Whole(d) THEN Sign(i - Whole(d)) ELSE -Fraction(d)

CompareNumbers(x, y) ==
    CASE x.kind = "int" /\ y.kind = "int" -> Sign(x.i - y.i)
      [] x.kind = "int" /\ y.kind = "double" -> CompareIntDouble(x.i, y)
      [] x.kind = "double" /\ y.kind = "int" -> -CompareIntDouble(y.i, x)
      [] OTHER -> CompareDoubles(x, y)

-----------------------------------------------------------------------------
(* NumberParts: sign, binary exponent, and the bits after the leading one, *)
(* left-justified.                                                         *)

TopBit(n) == CHOOSE k \in 0 .. Width - 1 : 2^k <= n /\ n < 2^(k + 1)

ShiftLeft(n, k) == IF k >= Width THEN 0 ELSE (n % 2^(Width - k)) * 2^k

Finite(neg, exponent, significand) ==
    [kind |-> "finite", neg |-> neg, exponent |-> exponent, significand |-> significand]
Special(kind, neg) == [kind |-> kind, neg |-> neg, exponent |-> 0, significand |-> 0]

\* The bits of n below its leading one.
Justified(n) == ShiftLeft(n - 2^TopBit(n), Width - TopBit(n))

FromInt(i) ==
    IF i = 0 THEN Special("zero", FALSE)
    ELSE Finite(i < 0, TopBit(Magnitude(i)), Justified(Magnitude(i)))

\* A subnormal is normalised around its top bit.
FromDouble(d) ==
    CASE d.biased = MaxBiased ->
           IF d.mantissa = 0 THEN Special("infinite", d.neg) ELSE Special("nan", TRUE)
      [] d.biased = 0 /\ d.mantissa = 0 -> Special("zero", FALSE)
      [] d.biased = 0 /\ d.mantissa # 0 ->
           Finite(d.neg, TopBit(d.mantissa) + 1 - Bias - MantissaBits, Justified(d.mantissa))
      [] OTHER -> Finite(d.neg, d.biased - Bias, ShiftLeft(d.mantissa, Width - MantissaBits))

Parts(x) == IF x.kind = "int" THEN FromInt(x.i) ELSE FromDouble(x)

-----------------------------------------------------------------------------
(* encode_number.                                                          *)

\* Bits from .. from + n - 1 of a byte, complemented.
Flip(byte, from, n) ==
    byte + 2^from * (2^n - 1 - 2 * ((byte \div 2^from) % 2^n))

FlipIf(condition, byte, from, n) == IF condition THEN Flip(byte, from, n) ELSE byte

\* The next seven bits of the significand, above the continuation bit.
TopSeven(significand) == 2 * (significand \div 2^(Width - 7))

\* The bytes of the exponent, the first byte that carries significand bits
\* only, without its continuation bit, and what is left of the significand.
\* The exponent has four ranges, each with a marker of its own; a negative one
\* is complemented, without the marker of the number's sign.
Head4(e, below, s) ==
    CASE e < 4 ->
           [bytes |-> << >>, left |-> ShiftLeft(s, e),
            last |-> FlipIf(below, 192 + 2^(e + 1) + 2 * (s \div 2^(Width - e)), e + 1, 6 - e)]
      [] e \in 4 .. 19 ->
           [bytes |-> <<FlipIf(below, 224 + e - 4, 0, 7)>>,
            left |-> ShiftLeft(s, 7), last |-> TopSeven(s)]
      [] e \in 20 .. 147 ->
           LET x == e - 20
           IN  [bytes |-> <<FlipIf(below, 240 + x \div 16, 0, 7),
                            FlipIf(below, (x % 16) * 16 + s \div 2^(Width - 4), 4, 4)>>,
                left |-> ShiftLeft(s, 11), last |-> TopSeven(ShiftLeft(s, 4))]
      [] OTHER ->
           LET x == e - 148
           IN  [bytes |-> <<FlipIf(below, 248 + x \div 256, 0, 7),
                            FlipIf(below, x % 256, 0, 8)>>,
                left |-> ShiftLeft(s, 7), last |-> TopSeven(s)]

\* Seven bits a byte, as long as any bit is left; bit 0 says that more follow.
Streamed(last, left) ==
    LET more == CHOOSE n \in 0 .. Width :
                  ShiftLeft(left, 7 * n) = 0 /\ \A m \in 0 .. n - 1 : ShiftLeft(left, 7 * m) # 0
    IN  [k \in 1 .. more + 1 |->
           (IF k = 1 THEN last ELSE TopSeven(ShiftLeft(left, 7 * (k - 2))))
             + (IF k <= more THEN 1 ELSE 0)]

Written(head) == head.bytes \o Streamed(head.last, head.left)

Inverted(neg, bytes) == [k \in DOMAIN bytes |-> FlipIf(neg, bytes[k], 0, 8)]

EncodeNumber(p) ==
    CASE p.kind = "zero" -> <<128>>
      [] p.kind = "nan" -> <<0, 96>>
      [] p.kind = "infinite" -> IF p.neg THEN <<0, 128>> ELSE <<255>>
      [] OTHER -> Inverted(p.neg, Written(Head4(Magnitude(p.exponent), p.exponent < 0, p.significand)))
=============================================================================
