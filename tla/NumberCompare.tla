---------------------------- MODULE NumberCompare ----------------------------
(***************************************************************************)
(* Comparison of JSON numbers by their text (src/lql_number.c and the      *)
(* number part of src/lql_json_scan.c).  A token is a sequence of ASCII    *)
(* bytes.  A token that fits the scanner's buffer is compared digit by     *)
(* digit; a longer one is reduced, while it streams past, to a summary     *)
(* whose counters are of type long: they saturate, and the comparison must *)
(* still order the numbers.  LongMax is LONG_MAX, scaled down in a model.  *)
(***************************************************************************)
EXTENDS Integers, Sequences, SequencesExt, FiniteSetsExt

CONSTANTS
  LongMax,     \* LONG_MAX
  ExpPrefix    \* LQL_JSON_NUMBER_EXP_PREFIX_BYTES

ASSUME NumberWidths == LongMax \in Nat \ {0} /\ ExpPrefix \in Nat \ {0}

LongMin == -LongMax - 1
UlongMax == 2 * LongMax + 1

IsDigit(b) == b \in 48..57
MinusSign == 45
IsExponentMark(b) == b \in {69, 101}

Order(a, b) == IF a < b THEN -1 ELSE IF a > b THEN 1 ELSE 0

\* Saturating sum of two longs.
ClampAdd(l, r) ==
  IF r > 0 /\ l > LongMax - r THEN LongMax
  ELSE IF r < 0 /\ l < LongMin - r THEN LongMin ELSE l + r

SizeToLong(n) == IF n > LongMax THEN LongMax ELSE n

(***************************************************************************)
(* Sequences of digit values, most significant first.                      *)
(***************************************************************************)
DigitValues(bytes) == [i \in DOMAIN bytes |-> bytes[i] - 48]

\* Position from the right, 0 beyond the left end.
DigitFromRight(s, k) == IF k <= Len(s) THEN s[Len(s) + 1 - k] ELSE 0

DropZeros(s) ==
  LET nonzero == {i \in DOMAIN s : s[i] # 0}
  IN  IF nonzero = {} THEN << >> ELSE SubSeq(s, Min(nonzero), Len(s))

\* Leading zeros removed, but never the last digit.
Canonical(s) == IF DropZeros(s) = << >> THEN <<0>> ELSE DropZeros(s)

TrailingZeros(s) ==
  Len(s) - Max({0} \cup {i \in DOMAIN s : s[i] # 0})

\* First difference of two digit strings of the same length (memcmp).
FirstDifference(l, r) ==
  LET differ == {i \in DOMAIN l : l[i] # r[i]}
  IN  IF differ = {} THEN 0 ELSE Order(l[Min(differ)], r[Min(differ)])

CompareDigits(l, r) ==
  IF Len(l) # Len(r) THEN Order(Len(l), Len(r)) ELSE FirstDifference(l, r)

AddDigits(l, r) ==
  LET n == Max({Len(l), Len(r)}) + 1
      sum(k, c) == DigitFromRight(l, k) + DigitFromRight(r, k) + c
      carry[k \in 0..n] == IF k = 0 THEN 0 ELSE sum(k, carry[k - 1]) \div 10
  IN  Canonical([i \in 1..n |-> sum(n + 1 - i, carry[n - i]) % 10])

\* l is at least r.
SubDigits(l, r) ==
  LET n == Len(l)
      diff(k, b) == DigitFromRight(l, k) - DigitFromRight(r, k) - b
      borrow[k \in 0..n] ==
        IF k = 0 THEN 0 ELSE IF diff(k, borrow[k - 1]) < 0 THEN 1 ELSE 0
  IN  Canonical([i \in 1..n |-> diff(n + 1 - i, borrow[n - i]) % 10])

UlongDigits(v) ==
  LET width == Max({w \in 1..10 : w = 1 \/ 10^(w - 1) <= v})
  IN  [i \in 1..width |-> (v \div 10^(width - i)) % 10]

(***************************************************************************)
(* The grammar: integer, fraction and exponent of a token.                 *)
(***************************************************************************)
\* First position at or after p that holds no digit.
DigitsEnd(t, p) == Min({q \in p..(Len(t) + 1) : q > Len(t) \/ ~IsDigit(t[q])})

ByteAt(t, p) == IF p \in DOMAIN t THEN t[p] ELSE 0

IntegerStart(t) == IF ByteAt(t, 1) = MinusSign THEN 2 ELSE 1

IntegerEnd(t, int) == IF ByteAt(t, int) = 48 THEN int + 1 ELSE DigitsEnd(t, int)

\* Where the parts of a token begin, and where they end.
AddFraction(t, p) ==
  IF ByteAt(t, p.intEnd) = 46
  THEN p @@ [frac |-> p.intEnd + 1, fracEnd |-> DigitsEnd(t, p.intEnd + 1)]
  ELSE p @@ [frac |-> p.intEnd, fracEnd |-> p.intEnd]

ExponentStart(t, mark) == IF ByteAt(t, mark + 1) \in {43, 45} THEN mark + 2 ELSE mark + 1

AddExponent(t, p) ==
  IF IsExponentMark(ByteAt(t, p.fracEnd))
  THEN p @@ [exp |-> ExponentStart(t, p.fracEnd),
             expEnd |-> DigitsEnd(t, ExponentStart(t, p.fracEnd))]
  ELSE p @@ [exp |-> p.fracEnd, expEnd |-> p.fracEnd]

Layout(t) ==
  AddExponent(t, AddFraction(t, [int |-> IntegerStart(t),
                                 intEnd |-> IntegerEnd(t, IntegerStart(t))]))

WellFormed(t, p) ==
  /\ p.intEnd > p.int /\ IsDigit(ByteAt(t, p.int))
  /\ ~(ByteAt(t, p.int) = 48 /\ IsDigit(ByteAt(t, p.intEnd)))
  /\ ByteAt(t, p.intEnd) = 46 => p.fracEnd > p.frac
  /\ IsExponentMark(ByteAt(t, p.fracEnd)) => p.expEnd > p.exp
  /\ p.expEnd = Len(t) + 1

IsJsonNumber(t) == WellFormed(t, Layout(t))

\* The significant digits, the decimal point's place and the exponent.
DecimalOf(coeff, fraction, tail, exponent, negative, expNegative) ==
  IF coeff = << >>
  THEN [zero |-> TRUE, negative |-> FALSE, coeff |-> << >>, adjust |-> 0,
        exponent |-> << >>, expNegative |-> FALSE]
  ELSE [zero |-> FALSE, negative |-> negative, coeff |-> coeff,
        adjust |-> ClampAdd(ClampAdd(SizeToLong(Len(coeff)), -SizeToLong(fraction)),
                            SizeToLong(tail)),
        exponent |-> exponent, expNegative |-> expNegative /\ exponent # << >>]

AllDigits(t, p) ==
  DigitValues(SubSeq(t, p.int, p.intEnd - 1) \o SubSeq(t, p.frac, p.fracEnd - 1))

DecimalAt(t, p, digits) ==
  DecimalOf(DropZeros(SubSeq(digits, 1, Len(digits) - TrailingZeros(digits))),
            p.fracEnd - p.frac, TrailingZeros(digits),
            DropZeros(DigitValues(SubSeq(t, p.exp, p.expEnd - 1))),
            p.int = 2, ByteAt(t, p.exp - 1) = MinusSign)

Decimal(t) == DecimalAt(t, Layout(t), AllDigits(t, Layout(t)))

(***************************************************************************)
(* The exact comparison of lql_number.c.                                   *)
(***************************************************************************)
IsPlainInteger(t) == IsJsonNumber(t) /\ IntegerEnd(t, IntegerStart(t)) = Len(t) + 1

\* A signed decimal of any length: sign and canonical digits.
Signed(negative, digits) ==
  [negative |-> negative /\ digits # <<0>>, digits |-> digits]

AddSigned(baseNegative, base, smallNegative, small) ==
  IF base = <<0>> THEN Signed(smallNegative, AddDigits(<<0>>, small))
  ELSE IF small = <<0>> \/ baseNegative = smallNegative
  THEN Signed(baseNegative, AddDigits(base, small))
  ELSE CASE CompareDigits(base, small) = 0 -> Signed(FALSE, <<0>>)
         [] CompareDigits(base, small) > 0 ->
              Signed(baseNegative, SubDigits(base, small))
         [] OTHER -> Signed(smallNegative, SubDigits(small, base))

AdjustedExponent(d) ==
  AddSigned(d.expNegative, Canonical(d.exponent), d.adjust < 0,
            UlongDigits(IF d.adjust < 0 THEN -d.adjust ELSE d.adjust))

CompareSignedDecimal(l, r) ==
  IF l.negative # r.negative THEN (IF l.negative THEN -1 ELSE 1)
  ELSE IF l.negative THEN -CompareDigits(l.digits, r.digits)
  ELSE CompareDigits(l.digits, r.digits)

PadRight(s, n) == [i \in 1..n |-> IF i <= Len(s) THEN s[i] ELSE 0]

CompareAbs(a, b) ==
  LET adjusted == CompareSignedDecimal(AdjustedExponent(a), AdjustedExponent(b))
      width == Max({Len(a.coeff), Len(b.coeff)})
  IN  IF adjusted # 0 THEN adjusted
      ELSE FirstDifference(PadRight(a.coeff, width), PadRight(b.coeff, width))

\* The order of zeros and signs; 2 when both are of one sign and not zero.
OrderOfSigns(a, b) ==
  IF a.zero /\ b.zero THEN 0
  ELSE IF a.zero THEN (IF b.negative THEN 1 ELSE -1)
  ELSE IF b.zero THEN (IF a.negative THEN -1 ELSE 1)
  ELSE IF a.negative # b.negative THEN (IF a.negative THEN -1 ELSE 1)
  ELSE 2

WithSign(a, cmp) == IF a.negative THEN -cmp ELSE cmp

PlainDigits(t) == DigitValues(SubSeq(t, IntegerStart(t), Len(t)))

\* Signs first, then the order of the magnitudes.
SignedOrder(a, b, magnitudes) ==
  IF OrderOfSigns(a, b) # 2 THEN OrderOfSigns(a, b) ELSE WithSign(a, magnitudes)

ComparePlainInteger(l, r) ==
  SignedOrder(Decimal(l), Decimal(r), CompareDigits(PlainDigits(l), PlainDigits(r)))

CompareDecimals(a, b) == SignedOrder(a, b, CompareAbs(a, b))

CompareJson(l, r) ==
  IF IsPlainInteger(l) /\ IsPlainInteger(r) THEN ComparePlainInteger(l, r)
  ELSE CompareDecimals(Decimal(l), Decimal(r))

\* The value of a token of plain digits; -1 when it does not fit a ulong.
UnsignedInteger(t) ==
  LET value[i \in 0..Len(t)] ==
        IF i = 0 THEN 0
        ELSE IF value[i - 1] < 0
                \/ value[i - 1] > (UlongMax - (t[i] - 48)) \div 10 THEN -1
        ELSE value[i - 1] * 10 + (t[i] - 48)
  IN  IF Len(t) = 0 \/ ~IsPlainInteger(t) \/ t[1] = MinusSign THEN -1
      ELSE value[Len(t)]

(***************************************************************************)
(* The summary of a token too long for the buffer.                         *)
(***************************************************************************)
EmptySummary ==
  [part |-> "integer", signAllowed |-> FALSE, negative |-> FALSE, zero |-> FALSE,
   coeffLen |-> 0, zeros |-> 0, fraction |-> 0, exponent |-> 0,
   expNegative |-> FALSE, clamped |-> FALSE, expDigits |-> 0,
   prefix |-> << >>]

ExponentDigit(s, d) ==
  IF d = 0 /\ s.expDigits = 0 THEN s
  ELSE [s EXCEPT !.expDigits = @ + 1,
          !.clamped = @ \/ s.exponent > (LongMax - d) \div 10,
          !.exponent = IF s.clamped \/ @ > (LongMax - d) \div 10
                       THEN LongMax ELSE @ * 10 + d,
          !.prefix = IF Len(@) < ExpPrefix THEN Append(@, d) ELSE @]

CoefficientDigit(s, d) ==
  LET counted == d # 0 \/ s.coeffLen # 0
  IN  [s EXCEPT !.fraction = @ + (IF s.part = "fraction" THEN 1 ELSE 0),
          !.coeffLen = IF counted THEN @ + 1 ELSE @,
          !.zeros = IF ~counted THEN @ ELSE IF d = 0 THEN @ + 1 ELSE 0]

SummaryByte(s, b) ==
  IF IsDigit(b)
  THEN [(IF s.part = "exponent" THEN ExponentDigit(s, b - 48)
         ELSE CoefficientDigit(s, b - 48)) EXCEPT !.signAllowed = FALSE]
  ELSE IF b = MinusSign /\ s.part = "integer" /\ s.coeffLen = 0
  THEN [s EXCEPT !.negative = TRUE]
  ELSE IF b = 46 THEN [s EXCEPT !.part = "fraction"]
  ELSE IF IsExponentMark(b)
  THEN [s EXCEPT !.part = "exponent", !.signAllowed = TRUE]
  ELSE IF s.part = "exponent" /\ s.signAllowed
  THEN [s EXCEPT !.expNegative = b = MinusSign, !.signAllowed = FALSE]
  ELSE s

SummaryFinish(s) ==
  IF s.coeffLen = 0
  THEN [s EXCEPT !.zero = TRUE, !.negative = FALSE, !.exponent = 0,
                 !.expNegative = FALSE]
  ELSE [s EXCEPT !.exponent = IF ~s.expNegative THEN @
                              ELSE IF @ # LongMax THEN -@ ELSE LongMin]

SummaryOf(t) == SummaryFinish(FoldLeft(SummaryByte, EmptySummary, t))

FractionShift(s) == IF s.fraction > LongMax THEN LongMin ELSE -s.fraction

Adjusted(s) ==
  IF s.zero THEN 0
  ELSE ClampAdd(ClampAdd(ClampAdd(SizeToLong(s.coeffLen - s.zeros),
                                  FractionShift(s)),
                         SizeToLong(s.zeros)), s.exponent)

Delta(s) == ClampAdd(SizeToLong(s.coeffLen), FractionShift(s))

Magnitude(n) == IF n < 0 THEN -n ELSE n

\* Decimal arithmetic on the kept exponent digits; the caller has checked
\* that all of them were kept.
AdjustedDecimal(s) ==
  LET small == UlongDigits(Magnitude(Delta(s)))
      negative == Delta(s) < 0
  IN  IF s.expDigits = 0 THEN Signed(negative, small)
      ELSE IF s.expNegative = negative
      THEN [negative |-> negative, digits |-> AddDigits(s.prefix, small)]
      ELSE CASE CompareDigits(s.prefix, small) = 0 -> Signed(FALSE, <<0>>)
             [] CompareDigits(s.prefix, small) > 0 ->
                  Signed(s.expNegative, SubDigits(s.prefix, small))
             [] OTHER ->
                  Signed(negative,
                         SubDigits(small, UlongDigits(Magnitude(s.exponent))))

DecimalKnown(s) == s.expDigits <= ExpPrefix /\ Delta(s) # LongMin

CompareClampedAdjusted(l, r, expCmp) ==
  LET longer == Order(l.expDigits, r.expDigits)
      cmp == IF longer # 0 THEN longer
             ELSE IF expCmp # 0 THEN expCmp ELSE Order(Delta(l), Delta(r))
  IN  IF DecimalKnown(l) /\ DecimalKnown(r)
      THEN CompareSignedDecimal(AdjustedDecimal(l), AdjustedDecimal(r))
      ELSE IF l.expNegative # r.expNegative
      THEN (IF l.expNegative THEN -1 ELSE 1)
      ELSE IF l.expNegative /\ l.expDigits + 1 < r.expDigits THEN 1
      ELSE IF l.expNegative /\ r.expDigits + 1 < l.expDigits THEN -1
      ELSE IF l.expNegative THEN -cmp ELSE cmp

\* coeffCmp and expCmp are the first differences of the streamed digits.
CompareSummaries(l, r, coeffCmp, expCmp) ==
  SignedOrder(l, r,
    IF l.clamped \/ r.clamped THEN CompareClampedAdjusted(l, r, expCmp)
    ELSE IF Adjusted(l) # Adjusted(r) THEN Order(Adjusted(l), Adjusted(r))
    ELSE IF coeffCmp # 0 THEN coeffCmp
    ELSE IF l.coeffLen < r.coeffLen /\ r.coeffLen - r.zeros > l.coeffLen
    THEN -1 ELSE 0)
=============================================================================
