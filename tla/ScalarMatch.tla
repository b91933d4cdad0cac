----------------------------- MODULE ScalarMatch -----------------------------
(***************************************************************************)
(* One JSON scalar or object key streamed past the terms that watch it     *)
(* (src/lql_json_scan.c).  The scanner hands the matchers whole runs of    *)
(* plain ASCII, cut wherever its read buffer happened to end, and single   *)
(* bytes for escapes and non-ASCII characters; number tokens go byte by    *)
(* byte into a buffer of limited size and beyond it into a summary.  The   *)
(* hits must depend on the value only.                                     *)
(***************************************************************************)
EXTENDS NumberCompare, TextMatch, Temporal

CONSTANTS
  Jobs,           \* {[kind, items, terms, captures]}: what a behaviour may stream
  MatchBytes,     \* LQL_JSON_NUMBER_MATCH_BYTES for numbers
  HeapLimit,      \* LQL_JSON_NUMBER_MATCH_HEAP_LIMIT
  Slack,          \* the bytes kept beyond the longest bound
  TemporalBytes   \* LQL_JSON_NUMBER_MATCH_BYTES for temporal text

\* The items of a value are what the scanner takes at once: a plain ASCII
\* byte, or a whole character, escaped or not ASCII, with none of its bytes
\* when it is malformed.  A number or a literal is plain.
Items == Seq([plain : BOOLEAN, bytes : Seq(0..255)])

ASSUME JobsAssumption ==
  \A j \in Jobs :
    /\ j.items \in Items
    /\ \A k \in DOMAIN j.items :
         LET item == j.items[k]
         IN  /\ item.plain => Len(item.bytes) = 1 /\ item.bytes[1] < 128
             /\ item.bytes # << >> => Whole(item.bytes)
             /\ j.kind \notin {"string", "key"} => item.plain
    /\ \A i \in DOMAIN j.terms : j.terms[i].value \in Seq(0..255)

ASSUME ScalarBounds == /\ MatchBytes \in Nat \ {0} /\ HeapLimit >= MatchBytes
                       /\ Slack \in Nat /\ TemporalBytes \in Nat \ {0}

ASSUME CapturesAssumption == \A j \in Jobs : j.captures \in Seq(Seq(Int))

VARIABLES
  job,      \* the value, its kind and the terms active for it
  at,       \* items of the value already consumed
  match,    \* the text matcher's state
  capture,  \* the state of the captures that watch a key
  number,   \* the number matcher's state
  stamp,    \* the temporal text kept so far, and whether it was cut off
  hits,     \* terms hit, once the value has ended
  status    \* "scan", "done", "no_memory" or "json_error"

vars == <<job, at, match, capture, number, stamp, hits, status>>

TextKinds == {"prefix", "contains", "icontains", "iprefix"}

\* Which terms watch a value of this kind.
TermsOfKind(j, kinds) == {i \in DOMAIN j.terms : j.terms[i].kind \in kinds}

MatchedTerms(j) ==
  CASE j.kind = "key" -> DOMAIN j.terms
    [] j.kind = "string" -> TermsOfKind(j, {"eq", "text_eq"} \cup TextKinds)
    [] j.kind \in {"number", "true", "false"} -> TermsOfKind(j, TextKinds)
    [] OTHER -> {}

\* Only keys are captured; a capture is a decoded segment.
CapturedKeys(j) == IF j.kind = "key" THEN DOMAIN j.captures ELSE {}

NumberTerms(j) ==
  IF j.kind = "number" THEN TermsOfKind(j, {"number_eq", "number_range"}) ELSE {}

TemporalTerms(j) ==
  IF j.kind = "string" THEN TermsOfKind(j, {"temporal_range"}) ELSE {}

BoundTexts(j) ==
  UNION {{j.terms[i].bounds[op] : op \in DOMAIN j.terms[i].bounds} : i \in NumberTerms(j)}

\* lql_json_number_range_start
MatchLimit(j) ==
  Min({HeapLimit, Max({MatchBytes} \cup {Len(t) + Slack : t \in BoundTexts(j)})})

\* The buffer keeps the capacity it has reached in earlier values.
NumberStart(j, cap) ==
  [buf |-> << >>, cap |-> cap, overflow |-> FALSE, sum |-> EmptySummary,
   coeff |-> [t \in BoundTexts(j) |-> 0], exp |-> [t \in BoundTexts(j) |-> 0],
   value |-> 0, ready |-> TRUE, tooBig |-> FALSE]

Init ==
  /\ job \in Jobs
  /\ at = 0 /\ hits = {} /\ status = "scan"
  /\ match = MatchStart(MatchedTerms(job)) /\ capture = CaptureStart(CapturedKeys(job))
  /\ \E cap \in {MatchBytes, HeapLimit} : number = NumberStart(job, cap)
  /\ stamp = [text |-> << >>, cut |-> FALSE]

(***************************************************************************)
(* Temporal text.                                                          *)
(***************************************************************************)
StampByte(s, b) ==
  IF Len(s.text) + 1 >= TemporalBytes THEN [s EXCEPT !.cut = TRUE]
  ELSE [s EXCEPT !.text = Append(@, b)]

StampBytes(s, bytes) ==
  IF s.cut THEN s
  ELSE IF Len(bytes) >= TemporalBytes - Len(s.text) THEN [s EXCEPT !.cut = TRUE]
  ELSE [s EXCEPT !.text = @ \o bytes]

(***************************************************************************)
(* Number tokens.                                                          *)
(***************************************************************************)
\* Digit k, counted from 0, of a bound's coefficient or exponent.
BoundDigit(digits, k) == IF k < Len(digits) THEN digits[k + 1] ELSE 0

Track(slots, digits(_), k, d) ==
  [t \in DOMAIN slots |->
     IF slots[t] # 0 THEN slots[t] ELSE Order(d, BoundDigit(digits(t), k))]

Coefficient(t) == Decimal(t).coeff
Exponent(t) == Decimal(t).exponent

\* One byte into the summary, and its digit against every bound's.
Summarise(n, b) ==
  LET s == SummaryByte(n.sum, b)
  IN  [n EXCEPT !.sum = s,
         !.coeff = IF s.coeffLen > n.sum.coeffLen
                   THEN Track(@, Coefficient, n.sum.coeffLen, b - 48) ELSE @,
         !.exp = IF s.expDigits > n.sum.expDigits
                 THEN Track(@, Exponent, n.sum.expDigits, b - 48) ELSE @]

\* The running value of a token of plain digits.
CountUnsigned(n, b) ==
  IF ~n.ready THEN n
  ELSE IF ~IsDigit(b) THEN [n EXCEPT !.ready = FALSE]
  ELSE IF n.value > (UlongMax - (b - 48)) \div 10 THEN [n EXCEPT !.tooBig = TRUE]
  ELSE IF n.tooBig THEN n
  ELSE [n EXCEPT !.value = @ * 10 + (b - 48)]

MustGrow(n, limit) ==
  ~n.overflow /\ Len(n.buf) + 1 >= n.cap /\ Len(n.buf) + 1 < limit

GrownCap(n, limit) == Max({Min({2 * n.cap, limit}), Len(n.buf) + 2})

(* mutant: the byte that does not fit is not replayed into the summary *)
MutantNumberByte(n, b, limit) ==
  LET c == CountUnsigned(n, b)
      full == Len(n.buf) + 1 >= limit
  IN  IF n.overflow THEN Summarise(c, b)
      ELSE IF Len(n.buf) + 1 >= n.cap /\ full
      THEN [FoldLeft(Summarise, c, n.buf) EXCEPT !.overflow = TRUE]
      ELSE [c EXCEPT !.buf = Append(@, b),
              !.cap = IF MustGrow(n, limit) THEN GrownCap(n, limit) ELSE @]

\* lql_json_number_range_byte, when no allocation fails.
NumberByte(n, b, limit) ==
  LET c == CountUnsigned(n, b)
      full == Len(n.buf) + 1 >= limit
  IN  IF n.overflow THEN Summarise(c, b)
      ELSE IF Len(n.buf) + 1 >= n.cap /\ full
      THEN [FoldLeft(Summarise, c, Append(n.buf, b)) EXCEPT !.overflow = TRUE]
      ELSE [c EXCEPT !.buf = Append(@, b),
              !.cap = IF MustGrow(n, limit) THEN GrownCap(n, limit) ELSE @]

\* lql_json_compare_unsigned_integer_tokens, lql_json_compare_plain_integers
UnsignedTokens(l, r) ==
  IsPlainInteger(l) /\ IsPlainInteger(r) /\ l[1] # MinusSign /\ r[1] # MinusSign

ComparePlainTokens(l, r) ==
  IF UnsignedTokens(l, r) THEN CompareDigits(l, r) ELSE ComparePlainInteger(l, r)

\* lql_json_number_compare_current
CompareCurrent(n, t) ==
  IF n.overflow
  THEN CompareSummaries(SummaryFinish(n.sum), SummaryOf(t), n.coeff[t], n.exp[t])
  ELSE IF n.ready /\ ~n.tooBig /\ UnsignedInteger(t) >= 0
  THEN Order(n.value, UnsignedInteger(t))
  ELSE IF IsPlainInteger(n.buf) /\ IsPlainInteger(t) THEN ComparePlainTokens(n.buf, t)
  ELSE CompareJson(n.buf, t)

\* The bounds of a range or equality term against an order.
Accepts(bounds, cmp(_)) ==
  \A op \in DOMAIN bounds :
    LET c == cmp(bounds[op])
    IN  CASE op = "gt" -> c > 0 [] op = "gte" -> c >= 0
          [] op = "lt" -> c < 0 [] op = "lte" -> c <= 0 [] OTHER -> c = 0

\* lql_json_number_range_complete and lql_json_number_eq_complete
NumberHits(j, n) ==
  {i \in NumberTerms(j) :
     Accepts(j.terms[i].bounds, LAMBDA t : CompareCurrent(n, t))}

\* lql_json_temporal_range_complete: equality follows its own rule.
TemporalHolds(value, op, bound) ==
  IF op = "eq" THEN EqualTemporal(value, bound)
  ELSE Accepts([o \in {op} |-> bound], LAMBDA b : CompareTemporal(value, b))

TemporalHits(j, s, value) ==
  {i \in TemporalTerms(j) :
     /\ ~s.cut /\ value.ok
     /\ \A op \in DOMAIN j.terms[i].bounds :
          TemporalHolds(value, op, ParseTemporalLiteral(j.terms[i].bounds[op]))}

\* The bytes of the first items of a value.
Decoded(items) ==
  LET text[k \in 0..Len(items)] ==
        IF k = 0 THEN << >> ELSE text[k - 1] \o items[k].bytes
  IN  text

WholeText(j) == Decoded(j.items)[Len(j.items)]

\* lql_json_scalar_literal_hits and the presence terms.
LiteralHits(j) ==
  {i \in DOMAIN j.terms :
     LET kind == j.terms[i].kind
     IN  \/ /\ kind = "bool_eq" /\ j.kind \in {"true", "false"}
            /\ j.terms[i].value = WholeText(j)
         \/ kind = "null_eq" /\ j.kind = "null" /\ j.terms[i].value = WholeText(j)
         \/ kind = "exists" /\ j.kind \notin {"null", "key"}
         \/ kind = "valueless_present" /\ j.kind # "key"}

(***************************************************************************)
(* Steps.                                                                  *)
(***************************************************************************)
Streaming == status = "scan" /\ at < Len(job.items)

\* A run of plain ASCII ends at the read buffer's end or at another byte.
Span ==
  /\ Streaming /\ job.kind \in {"string", "key"}
  /\ \E n \in 1..(Len(job.items) - at) :
       LET bytes == [k \in 1..n |-> job.items[at + k].bytes[1]]
       IN  /\ \A k \in 1..n : job.items[at + k].plain
           /\ at' = at + n
           /\ match' = MatchSpan(job.terms, match, job.kind = "key", bytes)
           /\ capture' = CaptureSpan(job.captures, capture, job.terms, match, bytes)
           /\ stamp' = IF TemporalTerms(job) = {} THEN stamp ELSE StampBytes(stamp, bytes)
  /\ UNCHANGED <<job, number, hits, status>>

\* An escape sequence or a character outside ASCII arrives byte by byte.
Escaped ==
  /\ Streaming /\ job.kind \in {"string", "key"}
  /\ ~job.items[at + 1].plain /\ job.items[at + 1].bytes # << >>
  /\ at' = at + 1
  /\ match' = MatchChar(job.terms, match, job.kind = "key", job.items[at + 1].bytes)
  /\ capture' = CaptureChar(job.captures, capture, job.items[at + 1].bytes)
  /\ stamp' = IF TemporalTerms(job) = {} THEN stamp
              ELSE FoldLeft(StampByte, stamp, job.items[at + 1].bytes)
  /\ UNCHANGED <<job, number, hits, status>>

\* An invalid escape, half a surrogate pair or invalid UTF-8 has no bytes.
Malformed ==
  /\ Streaming /\ job.items[at + 1].bytes = << >>
  /\ status' = "json_error"
  /\ UNCHANGED <<job, at, match, capture, number, stamp, hits>>

\* lql_json_match_copy_byte for numbers and literals.
TokenByte ==
  /\ Streaming /\ job.kind \notin {"string", "key"}
  /\ LET b == job.items[at + 1].bytes[1]
     IN  /\ at' = at + 1
         /\ match' = MatchByte(job.terms, match, FALSE, b)
         /\ number' = IF NumberTerms(job) = {} THEN number
                      ELSE NumberByte(number, b, MatchLimit(job))
  /\ UNCHANGED <<job, capture, stamp, hits, status>>

GrowFails ==
  /\ Streaming /\ NumberTerms(job) # {} /\ MustGrow(number, MatchLimit(job))
  /\ status' = "no_memory"
  /\ UNCHANGED <<job, at, match, capture, number, stamp, hits>>

Complete ==
  /\ status = "scan" /\ at = Len(job.items)
  /\ status' = "done"
  /\ hits' = MatchComplete(job.terms, match, job.kind = "key") \cup LiteralHits(job)
             \cup NumberHits(job, number)
             \cup TemporalHits(job, stamp, ParseTemporalLiteral(stamp.text))
  /\ UNCHANGED <<job, at, match, capture, number, stamp>>

Next == Span \/ Escaped \/ Malformed \/ TokenByte \/ GrowFails \/ Complete

Spec == Init /\ [][Next]_vars

(***************************************************************************)
(* What the hits must be.                                                  *)
(***************************************************************************)
JobText == WholeText(job)

\* Arithmetic on the whole token: integer coefficient and power of ten.
DigitsValue(digits) == FoldLeft(LAMBDA a, d : a * 10 + d, 0, digits)

Exact(t, p) ==
  LET exponent == DigitsValue(DigitValues(SubSeq(t, p.exp, p.expEnd - 1)))
      negative == p.exp > p.fracEnd /\ t[p.exp - 1] = MinusSign
  IN  [coeff |-> (IF p.int = 2 THEN -1 ELSE 1) * DigitsValue(AllDigits(t, p)),
       scale |-> (IF negative THEN -exponent ELSE exponent) - (p.fracEnd - p.frac)]

\* The coefficients of the jobs are below 10^4: scales further apart decide.
OrderOfExact(a, b) ==
  LET d == IF a.coeff = 0 \/ b.coeff = 0 THEN 0 ELSE a.scale - b.scale
      lift == 10^Min({4, Magnitude(d)})
  IN  IF d >= 0 THEN Order(a.coeff * lift, b.coeff) ELSE Order(a.coeff, b.coeff * lift)

ExactOrder(l, r) == OrderOfExact(Exact(l, Layout(l)), Exact(r, Layout(r)))

\* The summary keeps the magnitude of the token in a long.
FitsLong(t) == Adjusted(SummaryOf(t)) < LongMax /\ Adjusted(SummaryOf(t)) > LongMin

Clamped(t) == SummaryOf(JobText).clamped \/ SummaryOf(t).clamped

ExponentsKept(t) == DecimalKnown(SummaryOf(JobText)) /\ DecimalKnown(SummaryOf(t))

ComparesExactly(t, c, exact) ==
  \/ c = exact
  \/ number.overflow /\ Clamped(t) /\ (c = 0 \/ ~ExponentsKept(t))
  \/ number.overflow /\ ~Clamped(t) /\ ~(FitsLong(JobText) /\ FitsLong(t))

\* Number terms see the order of the decimal values, however long the token
\* is and wherever the buffer overflows (lql_json_number_compare_current).
\* The only exceptions are tokens too long for the buffer: with an exponent
\* beyond a long only magnitudes are compared, so that numbers of equal
\* magnitude count as equal; of an exponent with more digits than are kept
\* the coefficient's shift is ignored; and a magnitude that reaches a long's
\* limits is not told from the limit.
NumbersCompareExactly ==
  status = "done" => \A t \in BoundTexts(job) :
    ComparesExactly(t, CompareCurrent(number, t), ExactOrder(JobText, t))

Substring(needle, text) ==
  \E k \in 0..(Len(text) - Len(needle)) : SubSeq(text, k + 1, k + Len(needle)) = needle

TextHolds(term, text) ==
  CASE term.kind \in {"eq", "text_eq"} -> text = term.value
    [] term.kind = "prefix" -> IsPrefix(term.value, text)
    [] term.kind = "contains" -> Substring(term.value, text)
    [] term.kind = "iprefix" -> IsPrefix(term.value, Utf8Lower(text))
    [] OTHER -> Substring(term.value, Utf8Lower(text))

\* Text terms hit exactly when the decoded text satisfies them, however the
\* string is cut into runs and single bytes (lql_json_match_span,
\* lql_json_match_byte, lql_json_match_complete).
TextHitsDependOnTextOnly ==
  status = "done" /\ job.kind # "key" => \A i \in MatchedTerms(job) :
    (i \in hits) = TextHolds(job.terms[i], JobText)

\* JSON Pointer writes ~ as ~0 and / as ~1.
PointerEscape(b) ==
  IF b = 126 THEN <<126, 48>> ELSE IF b = 47 THEN <<126, 49>> ELSE <<b>>

PointerText(key) ==
  LET text[k \in 0..Len(key)] ==
        IF k = 0 THEN << >> ELSE text[k - 1] \o PointerEscape(key[k])
  IN  text[Len(key)]

\* A key matches a selector's segment when the segment is the key written as
\* JSON Pointer text, and a projected path's when that is the key itself,
\* whatever else watches the same key (lql_json_match_start_key,
\* lql_json_match_span, lql_json_capture_complete).
KeysMatchPointerText ==
  status = "done" /\ job.kind = "key" =>
    /\ \A i \in DOMAIN job.terms :
         (i \in hits) = (job.terms[i].segment = PointerText(JobText))
    /\ \A p \in DOMAIN job.captures :
         (p \in CaptureComplete(job.captures, capture)) = (job.captures[p] = JobText)

\* A segment of a JSON Pointer: every ~ begins an escape, and no / is left.
PointerSegment(segment) ==
  /\ segment \in Seq(0..255)
  /\ \A p \in 0..(Len(segment) - 1) :
       segment[p + 1] # 47 /\ (segment[p + 1] = 126 => EscapeAt(segment, p))

\* Keys are watched by plain segments and captures, or by one escaped segment
\* alone.
Unmixed ==
  \A j \in Jobs : j.kind = "key" =>
    /\ \A i \in DOMAIN j.terms : PointerSegment(j.terms[i].segment)
    /\ \/ \A i \in DOMAIN j.terms : ~HasEscape(j.terms[i].segment)
       \/ DOMAIN j.terms = {1} /\ j.captures = << >>

\* Days since 1970 counted by the calendar.
CountedDays(y, m, d) ==
  LET leaps(a, b) == Cardinality({k \in a..b : IsLeap(k)})
      years == IF y >= 1970 THEN 365 * (y - 1970) + leaps(1970, y - 1)
               ELSE -(365 * (1970 - y) + leaps(y, 1969))
  IN  years + FoldSet(LAMBDA k, acc : acc + DaysIn(y, k), 0, 1..(m - 1)) + d - 1

KeepsInstant(t, days, c, again) ==
  t.ok => /\ days = CountedDays(t.year, t.month, t.day)
          /\ <<c.year, c.month, c.day>> = <<t.year, t.month, t.day>>
          /\ t.dateOnly \/ ~CivilFromDays(t.days).ok
             \/ (again.ok /\ CompareTemporal(again, t) = 0)

Retold(t) ==
  LET days == IF t.ok THEN DaysFromCivil(t.year, t.month, t.day) ELSE 0
  IN  KeepsInstant(t, days, CivilFromDays(days),
                   IF t.ok THEN ParseRfc3339(FormatRfc3339(t)) ELSE NoTemporal)

\* A literal that parses is placed on its calendar day, its day number
\* converts back to the date, and formatting and parsing it again gives the
\* same instant (lql_temporal.c: days_from_civil, civil_from_days,
\* lql_temporal_format_rfc3339_nano).
TemporalsKeepTheirInstant ==
  status = "done" /\ job.kind = "string" /\ TemporalTerms(job) # {} =>
    Retold(ParseTemporalLiteral(JobText))
=============================================================================
