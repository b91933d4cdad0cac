------------------------------- MODULE Temporal -------------------------------
(***************************************************************************)
(* Date and time literals (src/lql_temporal.c).  A literal is a sequence   *)
(* of ASCII bytes.  The 64-bit count of seconds is kept as days and second *)
(* of the day, so that TLC's integers hold it: the order is the same.      *)
(***************************************************************************)
EXTENDS Integers, Sequences, SequencesExt, FiniteSetsExt

IsLeap(y) == (y % 4 = 0 /\ y % 100 # 0) \/ y % 400 = 0

DaysIn(y, m) ==
  IF m = 2 /\ IsLeap(y) THEN 29
  ELSE <<31, 28, 31, 30, 31, 30, 31, 31, 30, 31, 30, 31>>[m]

ValidYmd(y, m, d) == m \in 1..12 /\ d >= 1 /\ d <= DaysIn(y, m)

\* C's division truncates: the code shifts negative values before dividing.
TruncDiv(a, b) == IF a >= 0 THEN a \div b ELSE -((-a) \div b)

(* mutant: January and February are counted with their own year *)
MutantDaysFromCivil(year, m, d) ==
  LET era == TruncDiv(IF year >= 0 THEN year ELSE year - 399, 400)
      yoe == year - era * 400
      doy == (153 * (m + (IF m > 2 THEN -3 ELSE 9)) + 2) \div 5 + d - 1
      doe == yoe * 365 + (yoe \div 4) - (yoe \div 100) + doy
  IN  era * 146097 + doe - 719468

DaysFromCivil(year, m, d) ==
  LET y == IF m <= 2 THEN year - 1 ELSE year
      era == TruncDiv(IF y >= 0 THEN y ELSE y - 399, 400)
      yoe == y - era * 400
      doy == (153 * (m + (IF m > 2 THEN -3 ELSE 9)) + 2) \div 5 + d - 1
      doe == yoe * 365 + (yoe \div 4) - (yoe \div 100) + doy
  IN  era * 146097 + doe - 719468

\* Year, month and day of a day number; ok is FALSE outside 0..9999.
CivilDate(y, mp, doy) ==
  [ok |-> y \in 0..9999, year |-> y, month |-> IF mp < 10 THEN mp + 3 ELSE mp - 9,
   day |-> doy - ((153 * mp + 2) \div 5) + 1]

\* mp counts months from March: January and February are of the next year.
CivilOfYear(era, yoe, doy) ==
  LET mp == (5 * doy + 2) \div 153
  IN  CivilDate(yoe + era * 400 + (IF mp < 10 THEN 0 ELSE 1), mp, doy)

CivilOfEra(era, doe) ==
  LET yoe == (doe - (doe \div 1460) + (doe \div 36524) - (doe \div 146096)) \div 365
  IN  CivilOfYear(era, yoe, doe - (365 * yoe + (yoe \div 4) - (yoe \div 100)))

CivilFromDays(days) ==
  LET z == days + 719468
      era == TruncDiv(IF z >= 0 THEN z ELSE z - 146096, 146097)
  IN  CivilOfEra(era, z - era * 146097)

(***************************************************************************)
(* Parsing.                                                                *)
(***************************************************************************)
CharAt(s, p) == IF p \in DOMAIN s THEN s[p] ELSE 0
Digit(s, p) == CharAt(s, p) \in 48..57
IsSpace(b) == b \in {9, 10, 11, 12, 13, 32}

\* n digits from position p; -1 when one is missing.
NDigits(s, p, n) ==
  IF \E i \in 0..(n - 1) : ~Digit(s, p + i) THEN -1
  ELSE FoldLeft(LAMBDA acc, b : acc * 10 + (b - 48), 0, SubSeq(s, p, p + n - 1))

RunOfDigits(s, p) == Min({q \in p..(Len(s) + 1) : ~Digit(s, q)}) - p

\* At most nine fraction digits count; missing ones are zeros.
Nanos(s, p) ==
  LET kept == Min({9, RunOfDigits(s, p)})
  IN  IF kept = 0 THEN 0 ELSE NDigits(s, p, kept) * 10^(9 - kept)

NoTemporal == [ok |-> FALSE]

\* Seconds west of midnight move the day.
TemporalAt(y, m, d, seconds, nanos, dateOnly) ==
  LET days == DaysFromCivil(y, m, d)
      shift == IF seconds < 0 THEN -1 ELSE IF seconds >= 86400 THEN 1 ELSE 0
  IN  [ok |-> TRUE, year |-> y, month |-> m, day |-> d, dateOnly |-> dateOnly,
       days |-> days + shift, secs |-> seconds - shift * 86400, nanos |-> nanos]

\* Fraction and zone after the seconds; `space` tells that blanks may follow.
ParseZone(s, p, y, m, d, clock, naive, space) ==
  LET fraction == CharAt(s, p) = 46
      zone == IF fraction THEN p + 1 + RunOfDigits(s, p + 1) ELSE p
      nanos == IF fraction THEN Nanos(s, p + 1) ELSE 0
      signed == CharAt(s, zone) \in {43, 45}
      hours == NDigits(s, zone + 1, 2)
      minutes == NDigits(s, zone + 4, 2)
      end == IF CharAt(s, zone) = 90 THEN zone + 1 ELSE IF signed THEN zone + 6 ELSE zone
      offset == IF ~signed THEN 0
                ELSE (IF CharAt(s, zone) = 45 THEN -1 ELSE 1) * (hours * 3600 + minutes * 60)
  IN  IF \/ fraction /\ RunOfDigits(s, p + 1) = 0
         \/ signed /\ (hours \notin 0..23 \/ minutes \notin 0..59 \/ CharAt(s, zone + 3) # 58)
         \/ ~signed /\ CharAt(s, zone) # 90 /\ ~naive
         \/ \E q \in end..Len(s) : ~space \/ ~IsSpace(s[q])
      THEN NoTemporal
      ELSE TemporalAt(y, m, d, clock - offset, nanos, FALSE)

ParseTemporal(raw, allowDate, naive, space) ==
  LET first == {p \in DOMAIN raw : ~IsSpace(raw[p])}
      s == IF space /\ first # {} THEN SubSeq(raw, Min(first), Len(raw)) ELSE raw
      y == NDigits(s, 1, 4)
      m == NDigits(s, 6, 2)
      d == NDigits(s, 9, 2)
      h == NDigits(s, 12, 2)
      mi == NDigits(s, 15, 2)
      sec == NDigits(s, 18, 2)
  IN  IF \/ y < 0 \/ m < 0 \/ d < 0 \/ CharAt(s, 5) # 45 \/ CharAt(s, 8) # 45
         \/ ~ValidYmd(y, m, d)
      THEN NoTemporal
      ELSE IF \A q \in 11..Len(s) : space /\ IsSpace(s[q])
      THEN (IF allowDate THEN TemporalAt(y, m, d, 0, 0, TRUE) ELSE NoTemporal)
      ELSE IF \/ CharAt(s, 11) # 84 \/ CharAt(s, 14) # 58 \/ CharAt(s, 17) # 58
              \/ h \notin 0..23 \/ mi \notin 0..59 \/ sec \notin 0..59
      THEN NoTemporal
      ELSE ParseZone(s, 20, y, m, d, h * 3600 + mi * 60 + sec, naive, space)

ParseTemporalLiteral(raw) == ParseTemporal(raw, TRUE, TRUE, TRUE)
ParseRfc3339(raw) == ParseTemporal(raw, FALSE, FALSE, FALSE)

(***************************************************************************)
(* Order and equality.  A date equals every time of its day.               *)
(***************************************************************************)
CompareTemporal(a, b) ==
  IF a.days # b.days THEN (IF a.days < b.days THEN -1 ELSE 1)
  ELSE IF a.secs # b.secs THEN (IF a.secs < b.secs THEN -1 ELSE 1)
  ELSE IF a.nanos # b.nanos THEN (IF a.nanos < b.nanos THEN -1 ELSE 1) ELSE 0

EqualTemporal(a, b) ==
  IF a.dateOnly \/ b.dateOnly
  THEN <<a.year, a.month, a.day>> = <<b.year, b.month, b.day>>
  ELSE CompareTemporal(a, b) = 0

(***************************************************************************)
(* Formatting and the clock.                                               *)
(***************************************************************************)
Padded(n, width) == [i \in 1..width |-> 48 + ((n \div 10^(width - i)) % 10)]

FractionText(nanos) ==
  LET digits == Padded(nanos, 9)
      last == Max({0} \cup {i \in 1..9 : digits[i] # 48})
  IN  IF nanos = 0 THEN << >> ELSE <<46>> \o SubSeq(digits, 1, last)

FormatCivil(t, c) ==
  IF t.dateOnly \/ ~c.ok THEN << >>
  ELSE Padded(c.year, 4) \o <<45>> \o Padded(c.month, 2) \o <<45>>
       \o Padded(c.day, 2) \o <<84>> \o Padded(t.secs \div 3600, 2) \o <<58>>
       \o Padded((t.secs \div 60) % 60, 2) \o <<58>> \o Padded(t.secs % 60, 2)
       \o FractionText(t.nanos) \o <<90>>

FormatRfc3339(t) == FormatCivil(t, CivilFromDays(t.days))
=============================================================================
