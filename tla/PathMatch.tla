------------------------------ MODULE PathMatch ------------------------------
(***************************************************************************)
(* Which values of a record the terms of a program see: the path matching  *)
(* of src/lql_json_scan.c.  The scanner descends the record once, in       *)
(* source order, carrying the set of terms whose path has matched so far   *)
(* and, for recursive paths, two slots per depth and term: the `...` in    *)
(* force and the segment to match next.  The slots are never reset, not    *)
(* even between records.  Beside the terms it carries the projected paths  *)
(* whose segments have matched, and captures the values they end at.  A    *)
(* key is compared as it is streamed, as one run of bytes if it is plain   *)
(* and byte by byte if not, with TextMatch's matchers.                     *)
(*                                                                         *)
(* Values are those of JsonValue.  A term is [segs, kind, value]; segments *)
(* are counted from 0 as in the code, and value is a number for number_eq  *)
(* and number_range, and text for the others.  What a value comparison     *)
(* does is ScalarMatch's subject: here it is equality.                     *)
(***************************************************************************)
EXTENDS JsonValue, FiniteSetsExt, TLC

CONSTANTS
  MaxDepth,    \* LQL_JSON_MAX_DEPTH
  Spelling     \* the bytes of every key and of every path segment

Text == INSTANCE TextMatch WITH LowerRanges <- {}

NoSlot == -1

(***************************************************************************)
(* The path of a term.                                                     *)
(***************************************************************************)
Count(term) == Len(term.segs)
SegmentIs(term, p, kinds) == p < Count(term) /\ term.segs[p + 1] \in kinds
RecursiveSegments(term) == {p \in 0..(Count(term) - 1) : term.segs[p + 1] = "..."}
EndsRecursive(term) == SegmentIs(term, Count(term) - 1, {"..."})

ValueAt(term, p) ==
  IF EndsRecursive(term) THEN p >= Count(term) - 1 \/ p + 1 = Count(term) - 1
  ELSE Count(term) = p + 1

TerminalAnchor(term, p) == EndsRecursive(term) /\ p + 1 = Count(term) - 1

NextAfter(term, r) ==
  Min({p \in (r + 1)..(r + Count(term) + 1) : ~SegmentIs(term, p, {"..."})})

\* lql_json_term_segment_matches_object_key
SegmentMatchesKey(term, p, key) ==
  \/ SegmentIs(term, p, {"*", "**", "..."})
  \/ p < Count(term) /\ term.segs[p + 1] # "[]" /\ KeyOf(term.segs[p + 1]) = key

SegmentMatchesIndex(term, p, index) ==
  SegmentIs(term, p, {"[]", "**"} \cup (IF index \in DOMAIN Numerals
                                        THEN {Numerals[index]} ELSE {}))

(***************************************************************************)
(* The scan: terms, captures, stop mask, whether a copy is written, and    *)
(* its state: watch holds the captures whose path has matched down to each *)
(* depth, captured the values found.                                       *)
(***************************************************************************)
ScanStart(terms) ==
  LET none == [d \in 0..MaxDepth |-> [i \in DOMAIN terms |-> NoSlot]]
  IN  [hits |-> {}, match |-> [i \in DOMAIN terms |-> 0],
       key |-> [i \in DOMAIN terms |-> 0], rec |-> none, path |-> none,
       watch |-> [d \in 0..MaxDepth |-> {}], captured |-> <<>>]

Recursive(c) == {i \in DOMAIN c.terms : RecursiveSegments(c.terms[i]) # {}}
Leading(c) == {i \in DOMAIN c.terms : SegmentIs(c.terms[i], 0, {"..."})}
Repeated(c, i) == Cardinality(RecursiveSegments(c.terms[i])) > 1

StopReady(c, s) == c.stop \subseteq s.hits /\ c.stop # {}

\* The rest of an object is passed over without being looked at.
Skips(c, s, depth) == StopReady(c, s) /\ ~c.writer /\ s.watch[depth] = {}

ActivePath(c, s, i, depth, fallback) ==
  IF i \in Recursive(c) /\ s.path[depth][i] # NoSlot THEN s.path[depth][i] ELSE fallback

\* The `...` in force, for terms that have one.
ActiveRecursive(c, s, i, depth) ==
  IF s.rec[depth][i] # NoSlot THEN s.rec[depth][i]
  ELSE Min(RecursiveSegments(c.terms[i]))

NextSegment(c, s, i, depth) == NextAfter(c.terms[i], ActiveRecursive(c, s, i, depth))

\* All that is left of the path is recursive, and the scan is deep enough.
RestRecursive(c, s, i, depth) ==
  /\ Count(c.terms[i]) <= NextSegment(c, s, i, depth)
  /\ depth >= ActiveRecursive(c, s, i, depth)

SetMatch(s, is, segment(_)) ==
  [s EXCEPT !.match = [i \in is |-> segment(i)] @@ @]

\* The segments the current key or element has matched.
SetKeys(s, is, segment(_)) ==
  [s EXCEPT !.key = [i \in is |-> segment(i)] @@ @]

(***************************************************************************)
(* Sets of terms, each with the segments it leaves behind.                 *)
(***************************************************************************)
EntersRecursion(c, active, depth) ==
  {i \in active : SegmentIs(c.terms[i], depth, {"..."})}

NoteRecursion(c, s, active, depth) ==
  [s EXCEPT !.rec[depth] = [i \in EntersRecursion(c, active, depth) |-> depth] @@ @]

ObjectTerms(c, s, active, depth) ==
  {i \in active : ~SegmentIs(c.terms[i], ActivePath(c, s, i, depth, depth),
                             {"*", "[]", "**", "..."})}

ObjectWildcards(c, s, active, depth) ==
  {i \in active : SegmentIs(c.terms[i], ActivePath(c, s, i, depth, depth), {"*", "**"})}

TerminalRecursive(c, terms, depth) ==
  {i \in terms : EndsRecursive(c.terms[i]) /\ depth >= Count(c.terms[i]) - 1}

AnchorTerms(c, active, depth) ==
  {i \in active : Repeated(c, i) /\ TerminalAnchor(c.terms[i], depth)}

RecursiveWildcards(c, s, terms, depth) ==
  {i \in terms : SegmentIs(c.terms[i],
                           ActivePath(c, s, i, depth, NextSegment(c, s, i, depth)),
                           {"*", "**", "..."})}

RecursiveElements(c, s, terms, depth, index) ==
  {i \in terms :
     LET p == ActivePath(c, s, i, depth, NextSegment(c, s, i, depth))
     IN  \/ SegmentIs(c.terms[i], p, {"[]", "**", "..."})
         \/ /\ SegmentMatchesIndex(c.terms[i], p, index)
            /\ ~SegmentIs(c.terms[i], p + 1, {"*", "**"})}

ArrayIndex(c, s, active, depth, index) ==
  {i \in active : SegmentMatchesIndex(c.terms[i], ActivePath(c, s, i, depth, depth), index)}

(***************************************************************************)
(* One object key: the terms it matches, found by comparing whole keys in  *)
(* the buffer, or by the streaming matcher.                                *)
(***************************************************************************)
RetryPath(c, s, i, depth, recursive) ==
  IF i \in recursive THEN ActivePath(c, s, i, depth, NextSegment(c, s, i, depth)) ELSE depth

DeepSegment(c, s, i, depth) ==
  IF RestRecursive(c, s, i, depth) THEN depth ELSE NextSegment(c, s, i, depth)

\* again: the terms found only at the segment their slot asks for.
KeyFound(c, s, depth, recursive, direct, deep, again) ==
  LET at(i) == IF i \in again THEN RetryPath(c, s, i, depth, recursive)
               ELSE IF i \in direct THEN ActivePath(c, s, i, depth, depth)
               ELSE DeepSegment(c, s, i, depth)
  IN  [matches |-> direct \cup deep \cup again, both |-> (direct \cup again) \cap deep,
       deepAt |-> [i \in deep |-> DeepSegment(c, s, i, depth)], captures |-> {},
       scan |-> SetMatch(s, direct \cup deep \cup again, at)]

DirectKeys(c, s, ordinary, depth, key) ==
  {i \in ordinary : SegmentMatchesKey(c.terms[i], ActivePath(c, s, i, depth, depth), key)}

DeepKeys(c, s, recursive, depth, key) ==
  {i \in recursive : \/ RestRecursive(c, s, i, depth)
                     \/ SegmentMatchesKey(c.terms[i], NextSegment(c, s, i, depth), key)}

RetriedKeys(c, s, terms, recursive, depth, key) ==
  {i \in terms :
     LET retry == RetryPath(c, s, i, depth, recursive)
     IN  /\ i \in recursive => retry # NextSegment(c, s, i, depth)
         /\ SegmentMatchesKey(c.terms[i], retry, key)}

WholeKey(c, s, ordinary, recursive, depth, key) ==
  LET deep == DeepKeys(c, s, recursive, depth, key)
  IN  KeyFound(c, s, depth, recursive, DirectKeys(c, s, ordinary, depth, key), deep,
               RetriedKeys(c, s, (ordinary \cup recursive) \ deep, recursive, depth, key))

\* lql_json_string on a key, past the segments of terms and of captures.
KeyHits(terms, m) ==
  LET start == Text!MatchStart(DOMAIN terms)
      bytes == Spelling[m.k]
  IN  Text!MatchComplete(terms,
        IF m.plain THEN Text!MatchSpan(terms, start, TRUE, bytes)
        ELSE Text!MatchChar(terms, start, TRUE, bytes), TRUE)

KeyCaptures(terms, segments, m) ==
  LET start == Text!CaptureStart(DOMAIN segments)
      bytes == Spelling[m.k]
  IN  Text!CaptureComplete(segments,
        IF m.plain
        THEN Text!CaptureSpan(segments, start, terms, Text!MatchStart(DOMAIN terms), bytes)
        ELSE Text!CaptureChar(segments, start, bytes))

StreamedKey(c, s, ordinary, recursive, depth, m) ==
  LET target(i) == IF i \in ordinary THEN ActivePath(c, s, i, depth, depth)
                   ELSE NextSegment(c, s, i, depth)
      started == SetMatch(s, ordinary \cup recursive, target)
      terms == [i \in {j \in ordinary \cup recursive : target(j) < Count(c.terms[j])} |->
                  [segment |-> Spelling[c.terms[i].segs[target(i) + 1]]]]
      segments == [p \in s.watch[depth] |-> Spelling[c.captures[p][depth + 1]]]
      rest == {i \in recursive : RestRecursive(c, s, i, depth)}
      wild == RecursiveWildcards(c, s, recursive \ rest, depth)
      terminal == TerminalRecursive(c, recursive, depth)
      atWild == SetMatch(started, wild, LAMBDA i :
                  ActivePath(c, s, i, depth, NextSegment(c, s, i, depth)))
  IN  [matches |-> KeyHits(terms, m) \cup rest \cup wild \cup terminal, both |-> {},
       deepAt |-> [i \in {} |-> 0], captures |-> KeyCaptures(terms, segments, m),
       scan |-> SetMatch(atWild, terminal, LAMBDA i : depth)]

\* Entering a container: the slots of the depth below.
Carry(c, s, depth, recursive, matched) ==
  LET seg(i) == s.key[i]
      path(i) == IF i \in recursive /\ i \in matched /\ seg(i) + 1 < Count(c.terms[i])
                 THEN seg(i) + 1 ELSE NoSlot
      rec(i) == IF i \notin recursive THEN NoSlot
                ELSE IF i \in matched /\ SegmentIs(c.terms[i], seg(i), {"..."}) THEN seg(i)
                ELSE IF s.rec[depth][i] # NoSlot THEN s.rec[depth][i]
                ELSE IF i \in Recursive(c) THEN Min(RecursiveSegments(c.terms[i]))
                ELSE NoSlot
  IN  [s EXCEPT !.path[depth + 1] = [i \in DOMAIN c.terms |-> path(i)] @@ @,
                !.rec[depth + 1] = [i \in DOMAIN c.terms |-> rec(i)] @@ @]

(***************************************************************************)
(* Values.                                                                 *)
(***************************************************************************)
TextKinds == {"prefix", "iprefix", "contains", "icontains"}

\* What a term of each kind asks of a value its path has reached; a range
\* is an inclusive lower bound.
Satisfies(term, v) ==
  CASE term.kind = "exists" -> v.t # "null"
    [] term.kind = "valueless_present" -> TRUE
    [] term.kind = "eq" -> v.t = "str" /\ v.v = term.value
    [] term.kind = "number_eq" -> v.t = "num" /\ v.v = term.value
    [] term.kind = "bool_eq" -> v.t = "bool" /\ v.v = term.value
    [] term.kind = "null_eq" -> v.t = "null"
    [] term.kind = "number_range" -> v.t = "num" /\ v.v >= term.value
    [] term.kind = "temporal_range" -> v.t = "str" /\ v.v = term.value
    [] OTHER -> \/ v.t \in {"str", "bool"} /\ v.v = term.value
                \/ v.t = "num" /\ ToString(v.v) = term.value

\* The terms the text matcher is started for: it forgets their segment.
Started(term, v) ==
  \/ v.t = "str" /\ term.kind = "eq"
  \/ v.t \in {"str", "num", "bool"} /\ term.kind \in TextKinds

Scalar(c, s, terms, v) ==
  LET reached == {i \in terms : ValueAt(c.terms[i], s.key[i])}
  IN  SetMatch([s EXCEPT !.hits = @ \cup {i \in reached : Satisfies(c.terms[i], v)}],
               {i \in reached : Started(c.terms[i], v)}, LAMBDA i : 0)

Descendants(c, s, keys) ==
  {i \in keys : /\ ~ValueAt(c.terms[i], s.key[i]) \/ TerminalAnchor(c.terms[i], s.key[i])
                /\ s.key[i] + 1 < Count(c.terms[i])}

\* A container under a key that matched both ways continues with the
\* recursive match, and a repeated segment with its later occurrence.
ContainerSegments(c, s, depth, keys, recursive, found) ==
  LET both == {i \in found.both : ~ValueAt(c.terms[i], found.deepAt[i])}
      s1 == SetMatch(SetKeys(s, both, LAMBDA i : found.deepAt[i]),
                     both, LAMBDA i : found.deepAt[i])
      again == {i \in keys \cap recursive :
                  LET p == NextSegment(c, s, i, depth)
                  IN  /\ p < Count(c.terms[i]) /\ p # s1.key[i]
                      /\ ~ValueAt(c.terms[i], p)
                      /\ SegmentIs(c.terms[i], s1.key[i], {c.terms[i].segs[p + 1]})}
      next(i) == NextSegment(c, s, i, depth)
  IN  SetMatch(SetKeys(s1, again, next), again, next)

\* The captures that a key or an index has matched: a path that ends here
\* takes the value, in place of an earlier one, the others watch what is
\* below it.
Capture(c, s, depth, matched, v) ==
  LET values == {p \in matched : Len(c.captures[p]) = depth + 1}
  IN  [s EXCEPT !.captured = [p \in values |-> v] @@ @,
                !.watch[depth + 1] = IF Container(v) THEN matched \ values ELSE {}]

RECURSIVE ScanValue(_, _, _, _, _, _)

\* A value's presence is noted before the value is read.
MarkPresent(c, s, terms, v) ==
  [s EXCEPT !.hits = @ \cup {i \in terms : /\ ValueAt(c.terms[i], s.key[i])
                                           /\ c.terms[i].kind \in {"exists", "valueless_present"}
                                           /\ Satisfies(c.terms[i], v)}]

KeepMatches(s, terms) == SetKeys(s, terms, LAMBDA i : s.match[i])

MemberContainer(c, s, depth, keys, recursive, v) ==
  ScanValue(c, IF recursive = {} THEN s ELSE Carry(c, s, depth, recursive, keys),
            depth + 1, Descendants(c, s, keys), recursive, v)

MemberValue(c, s, depth, keys, recursive, found, v) ==
  IF Container(v)
  THEN MemberContainer(c, ContainerSegments(c, s, depth, keys, recursive, found),
                       depth, keys, recursive, v)
  ELSE Scalar(c, s, keys, v)

MemberFound(c, depth, recursive, wildcards, anchors, found, v) ==
  LET keys == found.matches \cup wildcards \cup anchors
      keyed == KeepMatches(SetMatch(found.scan, anchors, LAMBDA i : depth), keys)
  IN  MemberValue(c, Capture(c, MarkPresent(c, keyed, keys, v), depth, found.captures, v),
                  depth, keys, recursive, found, v)

MemberKey(c, s, depth, ordinary, wildcards, recursive, m) ==
  LET marked == SetMatch(s, wildcards, LAMBDA i : ActivePath(c, s, i, depth, depth))
  IN  MemberFound(c, depth, recursive, wildcards, AnchorTerms(c, ordinary, depth),
                  IF ~c.writer /\ s.watch[depth] = {} /\ m.plain
                  THEN WholeKey(c, marked, ordinary, recursive, depth, m.k)
                  ELSE StreamedKey(c, marked, ordinary, recursive, depth, m), m.v)

MemberTerms(c, s, depth, active, recursive, m) ==
  MemberKey(c, s, depth, ObjectTerms(c, s, active, depth),
            ObjectWildcards(c, s, active, depth), recursive, m)

\* lql_json_object, one member.
Member(c, s, depth, active, inherited, m) ==
  IF Skips(c, s, depth) THEN s
  ELSE LET idle == StopReady(c, s) \/ ~c.object
       IN  MemberTerms(c, IF idle THEN s ELSE NoteRecursion(c, s, active, depth), depth,
                       IF idle THEN {} ELSE active,
                       Leading(c) \cup (IF idle THEN {}
                                        ELSE inherited \cup EntersRecursion(c, active, depth)), m)

ElementMatches(c, s, depth, direct, deep, whole) ==
  LET deeper == SetMatch(s, deep, LAMBDA i :
                  ActivePath(c, s, i, depth, NextSegment(c, s, i, depth)))
  IN  SetMatch(SetMatch(deeper, whole, LAMBDA i : depth),
               direct, LAMBDA i : ActivePath(c, s, i, depth, depth))

ElementValue(c, s, depth, elements, carried, first, v) ==
  IF ~Container(v) THEN Scalar(c, s, elements, v)
  ELSE ScanValue(c, MarkPresent(c, IF first /\ carried # {}
                                   THEN Carry(c, s, depth, carried, elements) ELSE s,
                                elements, v),
                 depth + 1, elements, carried, v)

ElementFound(c, s, depth, recursive, first, direct, rest, deep, whole, v) ==
  LET elements == direct \cup rest \cup deep \cup whole
  IN  ElementValue(c, KeepMatches(ElementMatches(c, s, depth, direct, deep, whole), elements),
                   depth, elements, recursive \cup (elements \cap Recursive(c)), first, v)

\* lql_json_capture_array_index
SegmentIsIndex(seg, index) == IsNumeral(seg) /\ IndexOf(seg) = index

\* lql_json_array, one element.  The slots are carried to the first element
\* only: from the second on the code tests the separator it has just read.
Element(c, s, depth, active, recursive, index, v) ==
  LET rest == {i \in recursive : RestRecursive(c, s, i, depth)}
      captures == {p \in s.watch[depth] : SegmentIsIndex(c.captures[p][depth + 1], index)}
  IN  ElementFound(c, Capture(c, s, depth, captures, v), depth, recursive, index = 0,
                   ArrayIndex(c, s, active, depth, index),
                   rest, RecursiveElements(c, s, recursive \ rest, depth, index),
                   TerminalRecursive(c, recursive, depth) \cup AnchorTerms(c, active, depth), v)

RECURSIVE Members(_, _, _, _, _, _)
Members(c, s, depth, active, inherited, members) ==
  IF Skips(c, s, depth) \/ members = <<>> THEN s
  ELSE Members(c, Member(c, s, depth, active, inherited, Head(members)),
               depth, active, inherited, Tail(members))

RECURSIVE Elements(_, _, _, _, _, _, _)
Elements(c, s, depth, active, recursive, index, elements) ==
  IF elements = <<>> THEN s
  ELSE Elements(c, Element(c, s, depth, active, recursive, index, Head(elements)),
                depth, active, recursive, index + 1, Tail(elements))

ScanValue(c, s, depth, active, inherited, v) ==
  CASE v.t = "obj" -> Members(c, s, depth, active, inherited, v.m)
    [] v.t = "arr" ->
         Elements(c, NoteRecursion(c, s, active, depth), depth, active,
                  EntersRecursion(c, active, depth) \cup inherited \cup Leading(c), 0, v.e)
    [] OTHER -> s

\* One record: the hits and captures start anew, the slots do not.
ScanRecord(c, s, v) ==
  LET root == {i \in DOMAIN c.terms :
                 c.terms[i].segs = <<"...">>
                 /\ c.terms[i].kind \in {"exists", "valueless_present"}}
      reached == IF v.t = "obj" THEN root ELSE {}
  IN  ScanValue([c EXCEPT !.object = v.t = "obj"],
                SetKeys([s EXCEPT !.hits = reached, !.captured = <<>>,
                                  !.watch[0] = DOMAIN c.captures], reached, LAMBDA i : 0),
                0, DOMAIN c.terms, {}, v)
=============================================================================
