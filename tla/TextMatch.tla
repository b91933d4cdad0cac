------------------------------ MODULE TextMatch ------------------------------
(***************************************************************************)
(* Streaming comparison of JSON strings and keys with the texts of a       *)
(* program's terms (the match part of src/lql_json_scan.c, the needle      *)
(* preparation of src/lql_stream_flat_eq.c, src/lql_unicode_lower.c).      *)
(* Bytes are their codes.  A term is a record with the fields kind, value  *)
(* (the text, lowered for the case-insensitive kinds) and segment (the key *)
(* text of its path at the segment under comparison, as JSON Pointer text).*)
(***************************************************************************)
EXTENDS Integers, Sequences, SequencesExt, FiniteSetsExt

CONSTANT LowerRanges   \* lql_unicode_lower_ranges: {[first, last, delta, alternating]}

(***************************************************************************)
(* UTF-8 and simple lower case.                                            *)
(***************************************************************************)
SimpleLower(rune) ==
  LET within == {r \in LowerRanges : rune \in r.first..r.last}
  IN  IF rune \in 65..90 THEN rune + 32
      ELSE IF within = {} THEN rune
      ELSE LET range == CHOOSE r \in within : TRUE
           IN  IF range.alternating
               THEN range.first + (((rune - range.first) \div 2) * 2 + 1)
               ELSE rune + range.delta

Utf8Width(lead) ==
  IF lead < 128 THEN 1 ELSE IF lead < 224 THEN 2 ELSE IF lead < 240 THEN 3 ELSE 4

\* The character of a whole encoding: the lead byte's bits, six bits a byte.
Utf8Decode(bytes) ==
  LET next(k, rune) == rune * 64 + (bytes[k] % 64)
  IN  IF Len(bytes) = 1 THEN bytes[1]
      ELSE IF Len(bytes) = 2 THEN next(2, bytes[1] % 32)
      ELSE IF Len(bytes) = 3 THEN next(3, next(2, bytes[1] % 16))
      ELSE next(4, next(3, next(2, bytes[1] % 8)))

Utf8Encode(rune) ==
  LET bits(unit) == 128 + ((rune \div unit) % 64)
  IN  IF rune < 128 THEN <<rune>>
      ELSE IF rune < 2048 THEN <<192 + (rune \div 64), bits(1)>>
      ELSE IF rune < 65536 THEN <<224 + (rune \div 4096), bits(64), bits(1)>>
      ELSE <<240 + (rune \div 262144), bits(4096), bits(64), bits(1)>>

\* A whole character in lower case.
LowerChar(bytes) == Utf8Encode(SimpleLower(Utf8Decode(bytes)))

\* The text in lower case, character by character from position i on.
Utf8Lower(text) ==
  LET char(i) == SubSeq(text, i, i + Utf8Width(text[i]) - 1)
      lower[i \in 1..(Len(text) + 4)] ==
        IF i > Len(text) THEN << >>
        ELSE LowerChar(char(i)) \o lower[i + Utf8Width(text[i])]
  IN  lower[1]

AsciiLower(b) == IF b \in 65..90 THEN b + 32 ELSE b

\* The table has signed distances, and its ASCII part is AsciiLower.
ASSUME LowerTable ==
  /\ LowerRanges \subseteq [first : Nat, last : Nat, delta : Int, alternating : BOOLEAN]
  /\ \A b \in 0..127 : SimpleLower(b) = AsciiLower(b)

(***************************************************************************)
(* Knuth-Morris-Pratt: the failure table and one step of the automaton.    *)
(***************************************************************************)
\* The longest border of the needle that b extends, from pos characters on.
Retreat(needle, failure, pos, b) ==
  LET f[p \in 0..pos] == IF p = 0 \/ b = needle[p + 1] THEN p ELSE f[failure[p]]
  IN  f[pos]

Advance(needle, failure, pos, b) ==
  LET p == Retreat(needle, failure, pos, b)
  IN  IF b = needle[p + 1] THEN p + 1 ELSE p

\* The table is filled from the front, each entry from the ones before it.
ContainsFailure(needle) ==
  LET table[i \in 0..Len(needle)] ==
        IF i = 0 THEN << >>
        ELSE Append(table[i - 1],
                    IF i = 1 THEN 0
                    ELSE Advance(needle, table[i - 1], table[i - 1][i - 1], needle[i]))
  IN  table[Len(needle)]

(* mutant: a mismatch starts the needle again *)
MutantContainsStep(needle, pos, b) ==
  LET failure == ContainsFailure(needle)
      q == IF b = needle[pos + 1] THEN pos + 1 ELSE IF b = needle[1] THEN 1 ELSE 0
  IN  IF q = Len(needle) THEN [pos |-> failure[q], found |-> TRUE]
      ELSE [pos |-> q, found |-> FALSE]

\* The next position and whether the needle has just been completed.
ContainsStep(needle, pos, b) ==
  LET failure == ContainsFailure(needle)
      q == Advance(needle, failure, pos, b)
  IN  IF q = Len(needle) THEN [pos |-> failure[q], found |-> TRUE]
      ELSE [pos |-> q, found |-> FALSE]

(***************************************************************************)
(* The match state of one string: of every active term the position in its *)
(* text and whether it has failed or has been found, and the bytes of an   *)
(* incomplete character for the case-insensitive terms.                    *)
(***************************************************************************)
MatchStart(active) ==
  [term |-> [i \in active |-> [pos |-> 0, failed |-> FALSE, found |-> FALSE]],
   pending |-> << >>]

Insensitive(term) == term.kind \in {"icontains", "iprefix"}

ContainsByte(value, s, b) ==
  LET step == ContainsStep(value, s.pos, b)
  IN  IF value = << >> THEN [s EXCEPT !.found = TRUE]
      ELSE [pos |-> step.pos, failed |-> s.failed, found |-> s.found \/ step.found]

\* One byte for a term that searches, or for a prefix in lower case.
LowerStep(term, s, b) ==
  IF term.kind # "iprefix" THEN ContainsByte(term.value, s, b)
  ELSE IF s.pos = Len(term.value) THEN s
  ELSE [pos |-> s.pos + 1, failed |-> s.failed \/ b # term.value[s.pos + 1],
        found |-> s.found]

LowerBytes(term, s, bytes) ==
  LET run[k \in 0..Len(bytes)] ==
        IF k = 0 THEN s ELSE LowerStep(term, run[k - 1], bytes[k])
  IN  run[Len(bytes)]

\* One byte for a case-sensitive value term.
ValueByte(term, s, b) ==
  CASE term.kind = "contains" -> ContainsByte(term.value, s, b)
    [] term.kind = "prefix" /\ s.pos = Len(term.value) -> s
    [] OTHER -> IF s.pos < Len(term.value) /\ term.value[s.pos + 1] = b
                THEN [s EXCEPT !.pos = @ + 1]
                ELSE [s EXCEPT !.failed = TRUE]

(***************************************************************************)
(* Keys: the selector's segment is JSON Pointer text, the key is decoded.  *)
(***************************************************************************)
EscapeAt(target, pos) ==
  /\ pos + 2 <= Len(target)
  /\ target[pos + 1] = 126 /\ target[pos + 2] \in {48, 49}

(* mutant: escapes are compared as they are written *)
MutantHasEscape(target) == FALSE

HasEscape(target) == \E p \in 0..Len(target) : EscapeAt(target, p)

PointerByte(target, pos) ==
  IF EscapeAt(target, pos) THEN (IF target[pos + 2] = 48 THEN 126 ELSE 47)
  ELSE target[pos + 1]

KeyByte(term, s, b) ==
  IF s.pos < Len(term.segment) /\ PointerByte(term.segment, s.pos) = b
  THEN [s EXCEPT !.pos = @ + (IF EscapeAt(term.segment, s.pos) THEN 2 ELSE 1)]
  ELSE [s EXCEPT !.failed = TRUE]

KeyBytes(term, s, bytes) ==
  LET run[k \in 0..Len(bytes)] == IF k = 0 THEN s ELSE KeyByte(term, run[k - 1], bytes[k])
  IN  run[Len(bytes)]

\* The terms that compare characters in lower case; a key has none.
LowerTerms(terms, m, isKey) ==
  {i \in DOMAIN m.term : ~isKey /\ Insensitive(terms[i])}

Whole(bytes) == Len(bytes) = Utf8Width(bytes[1])

\* lql_json_match_icontains_byte: a character is lowered when it is whole.
LowerByte(term, s, bytes) ==
  IF Whole(bytes) THEN LowerBytes(term, s, LowerChar(bytes)) ELSE s

\* lql_json_match_byte: one byte for every live term.
MatchByte(terms, m, isKey, b) ==
  LET bytes == Append(m.pending, b)
      lower == LowerTerms(terms, m, isKey)
      feed(i, s) == IF i \in lower THEN LowerByte(terms[i], s, bytes)
                    ELSE IF s.failed THEN s
                    ELSE IF isKey THEN KeyByte(terms[i], s, b)
                    ELSE ValueByte(terms[i], s, b)
  IN  [term |-> [i \in DOMAIN m.term |-> feed(i, m.term[i])],
       pending |-> IF lower = {} THEN m.pending
                   ELSE IF Whole(bytes) THEN << >> ELSE bytes]

\* The bytes of one character, one after the other.
MatchChar(terms, m, isKey, bytes) ==
  LET run[k \in 0..Len(bytes)] ==
        IF k = 0 THEN m ELSE MatchByte(terms, run[k - 1], isKey, bytes[k])
  IN  run[Len(bytes)]

(***************************************************************************)
(* A run of plain ASCII bytes at once.                                     *)
(***************************************************************************)
\* lql_json_match_span_term: the text and the run compared as blocks; after
\* an open text anything may follow.
SpanTerm(target, s, open, bytes) ==
  LET n == Min({Len(target) - s.pos, Len(bytes)})
  IN  IF \/ SubSeq(target, s.pos + 1, s.pos + n) # SubSeq(bytes, 1, n)
         \/ n # Len(bytes) /\ ~open
      THEN [s EXCEPT !.failed = TRUE]
      ELSE [s EXCEPT !.pos = @ + n]

ValueSpan(term, s, bytes) ==
  CASE term.kind = "contains" -> LowerBytes(term, s, bytes)
    [] Insensitive(term) ->
         LowerBytes(term, s, [k \in DOMAIN bytes |-> AsciiLower(bytes[k])])
    [] OTHER -> SpanTerm(term.value, s, term.kind = "prefix", bytes)

\* The byte loop a key run falls back to at the first escaped segment: it
\* feeds every live term, and ends when that one term has failed.
ByteLoop(terms, m, isKey, stop, bytes) ==
  LET run[k \in 0..Len(bytes)] ==
        IF k = 0 THEN m
        ELSE IF run[k - 1].term[stop].failed THEN run[k - 1]
        ELSE MatchByte(terms, run[k - 1], isKey, bytes[k])
  IN  run[Len(bytes)]

\* The live terms whose segment cannot be compared as a block.
EscapedTerms(terms, m, isKey) ==
  {i \in DOMAIN m.term : isKey /\ ~m.term[i].failed /\ HasEscape(terms[i].segment)}

\* lql_json_match_span: terms in program order; the fallback ends the loop.
MatchSpan(terms, m, isKey, bytes) ==
  LET escaped == EscapedTerms(terms, m, isKey)
      feed(i, s) == IF s.failed \/ \E e \in escaped : e <= i THEN s
                    ELSE IF isKey THEN SpanTerm(terms[i].segment, s, FALSE, bytes)
                    ELSE ValueSpan(terms[i], s, bytes)
      fed == [term |-> [i \in DOMAIN m.term |-> feed(i, m.term[i])],
              pending |-> m.pending]
  IN  IF escaped = {} THEN fed ELSE ByteLoop(terms, fed, isKey, Min(escaped), bytes)

\* lql_json_match_complete
MatchComplete(terms, m, isKey) ==
  {i \in DOMAIN m.term :
     LET s == m.term[i]
     IN  /\ ~s.failed
         /\ \/ isKey /\ s.pos = Len(terms[i].segment)
            \/ ~isKey /\ (s.found \/ s.pos = Len(terms[i].value))}

(***************************************************************************)
(* Captures: the decoded segments of projected paths, compared with a key  *)
(* byte by byte, beside the terms.                                         *)
(***************************************************************************)
CaptureStart(active) == [p \in active |-> [pos |-> 0, failed |-> FALSE]]

CaptureByte(segment, s, b) ==
  IF s.failed THEN s
  ELSE IF s.pos < Len(segment) /\ segment[s.pos + 1] = b THEN [s EXCEPT !.pos = @ + 1]
  ELSE [s EXCEPT !.failed = TRUE]

CaptureBytes(segment, s, bytes) ==
  LET run[k \in 0..Len(bytes)] ==
        IF k = 0 THEN s ELSE CaptureByte(segment, run[k - 1], bytes[k])
  IN  run[Len(bytes)]

\* The bytes of a character reach every capture.
CaptureChar(segments, captures, bytes) ==
  [p \in DOMAIN captures |-> CaptureBytes(segments[p], captures[p], bytes)]

\* The bytes of a run that reach the captures: all of them, or what the byte
\* loop of an escaped segment hands on before that segment has failed.
RunFed(terms, m, bytes) ==
  LET escaped == EscapedTerms(terms, m, TRUE)
      failed(stop, k) == KeyBytes(terms[stop], m.term[stop], SubSeq(bytes, 1, k)).failed
  IN  IF escaped = {} THEN bytes
      ELSE SubSeq(bytes, 1, Min({Len(bytes)} \cup
                                {k \in 1..Len(bytes) : failed(Min(escaped), k)}))

CaptureSpan(segments, captures, terms, m, bytes) ==
  CaptureChar(segments, captures, RunFed(terms, m, bytes))

\* lql_json_capture_complete
CaptureComplete(segments, captures) ==
  {p \in DOMAIN captures : ~captures[p].failed /\ captures[p].pos = Len(segments[p])}
=============================================================================
