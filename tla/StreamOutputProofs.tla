------------------------- MODULE StreamOutputProofs ------------------------
(***************************************************************************)
(* Proofs about what StreamApply delivers: the copy and the source range   *)
(* of a record are its compact text, on_value sees the texts of the        *)
(* matched records, and the writer receives the output of the records.     *)
(***************************************************************************)
EXTENDS StreamApplyProofs, FiniteSetTheorems

USE StreamAssumption

-----------------------------------------------------------------------------
(* Invariants *)

NoSpace(s, p, e) == \A i \in (p + 1) .. e : s[i] \notin Space

(* of the bytes of s after t up to e, the compact flag f tells whether they  *)
(* are free of whitespace, and the copy x, if one is kept, is their text     *)
Noted(s, t, e, f, kept, x) ==
    /\ kept => x = Compacted(s, t)[e]
    /\ f <=> NoSpace(s, t, e)

Copied(e) == Noted(input, rec.start, e, rec.compact, Capture, spool)

Ending == {"separator", "line_feed", "flush", "decision"}

(* the record in dispatch is the last one decided *)
InDispatch ==
    /\ Reference(input).recs[Len(decisions)] = RecordAt(input, rec.start)
    /\ ValueEnd(input, rec.start) = rec.end
    /\ rec.end \in (rec.start + 1) .. Len(input)

CopyInv ==
    /\ at \in {"object", "number"} => Copied(pos)
    /\ at \in Ending \cup After => Copied(rec.end)
    /\ at \in After => InDispatch

(* the requests lql_stream_apply_common lets pass have a way to deliver *)
Admitted ==
    ~req.allow_spool =>
      /\ req.output_mode \notin Transforms
      /\ req.output_mode = "selected" \/ req.on_value =>
           req.input_is_compact /\ req.range_writer

AdmitInv == at \notin {"start", "done"} => Admitted

(* the matched records among the first n *)
Matches(n) == {i \in 1 .. n : RefMatched(Reference(input).recs[i])}

Hits(n) == Cardinality(Matches(n))

(* what on_value was given, v, when n records are decided and the call is at a *)
ValuesAt(a, n, v) ==
    /\ Len(v) <= Hits(n)
    /\ \A i \in Matches(n) : Hits(i) <= Len(v) => v[Hits(i)] = Reference(input).recs[i].text
    /\ ~req.on_value => Len(v) = 0
    /\ req.on_value =>
         /\ Len(v) >= Hits(n) - 1
         /\ a \notin {"value", "done"} => Len(v) = Hits(n)
         /\ a = "value" => Len(v) = Hits(n - 1)

ValueInv == ValuesAt(at, Len(decisions), values)

(* what the writer is given: bytes, and the pieces of transformed records *)
OutByte == Byte \cup {"projected", "mutated", "combined"}

(* the output of the first n records *)
Outputs(n) == FlattenSeq([i \in 1 .. n |-> RefOutput(Reference(input).recs[i])])

Deliverable(n) == \A i \in 1 .. n : ~Undeliverable(Reference(input).recs[i])

(* between the records, everything is written *)
Quiet == Before \cup {"next", "matches"}

Texts(n) == \A i \in 1 .. n : Reference(input).recs[i].text \in Seq(Byte)

(* what is written, o, when n records are decided and the call is at a *)
WrittenAt(a, n, o) ==
    /\ a \in Quiet => o = Outputs(n) /\ Deliverable(n)
    /\ a \in {"value", "output"} => o = Outputs(n - 1) /\ Deliverable(n - 1)
    /\ a = "newline" => /\ Append(o, "n") = Outputs(n) /\ Deliverable(n)
                        /\ IsPrefix(Outputs(n - 1), o)

(* what was written when the call returned *)
EndedAt(n, o, st, early, reason) ==
    /\ IsPrefix(o, Outputs(n)) /\ IsPrefix(Outputs(n - 1), o)
    /\ \A i \in 1 .. n : Undeliverable(Reference(input).recs[i]) =>
          i = n /\ o = Outputs(n - 1) /\ ~(st = "OK" /\ ~early)
    /\ st = "OK" /\ reason # "CALLBACK" => o = Outputs(n)

OutInv ==
    LET n == Len(decisions)
    IN  /\ out \in Seq(OutByte) /\ Texts(n)
        /\ WrittenAt(at, n, out)
        /\ at = "output" /\ req.on_value /\ Matched => Capture \/ rec.compact
        /\ at = "done" => EndedAt(n, out, status, result.stopped_early, result.stop_reason)

-----------------------------------------------------------------------------
(* The compact text of a record *)

(* one unfolding of Compacted *)
TextStep(s, p, f, e) ==
    IF e = p THEN <<>>
    ELSE IF s[e] \in Space THEN f[e - 1] ELSE Append(f[e - 1], s[e])

(* The recursion has a solution on every first part of the positions. *)
LEMMA TextExists ==
    ASSUME NEW s \in Seq(Byte), NEW p \in 0 .. Len(s)
    PROVE  \E f \in [p .. Len(s) -> Seq(Byte)] : f = [e \in p .. Len(s) |-> TextStep(s, p, f, e)]
<1> DEFINE Solves(f, k) == \A e \in p .. (p + k) : f[e] = TextStep(s, p, f, e)
           n == Len(s) - p
           T == {k \in 0 .. n : \E f \in [p .. (p + k) -> Seq(Byte)] : Solves(f, k)}
<1>0. Len(s) \in Nat /\ p \in Nat /\ n \in Nat /\ p + n = Len(s)
  OBVIOUS
<1>1. 0 \in T
  <2>1. PICK f : f = [e \in p .. (p + 0) |-> <<>>]
    OBVIOUS
  <2>2. f \in [p .. (p + 0) -> Seq(Byte)]
    BY <2>1
  <2>3. Solves(f, 0)
    BY <1>0, <2>1 DEF TextStep
  <2> QED BY <1>0, <2>2, <2>3
<1>2. ASSUME NEW k \in 1 .. n, k - 1 \in T PROVE k \in T
  <2>1. PICK g \in [p .. (p + (k - 1)) -> Seq(Byte)] : Solves(g, k - 1)
    BY <1>2
  <2>2. PICK m \in Nat : m = p + (k - 1) /\ p + k = m + 1 /\ m < Len(s) /\ p <= m
    BY <1>0
  <2>3. g \in [p .. m -> Seq(Byte)] /\ \A e \in p .. m : g[e] = TextStep(s, p, g, e)
    BY <2>1, <2>2, Zenon
  <2>4. PICK v \in Seq(Byte) : v = TextStep(s, p, g, m + 1)
    <3>1. g[m] \in Seq(Byte) /\ s[m + 1] \in Byte /\ (m + 1) - 1 = m /\ m + 1 # p
      BY <1>0, <2>2, <2>3
    <3>2. PICK x \in Seq(Byte) : x = g[m]
      BY <3>1
    <3>3. PICK c \in Byte : c = s[m + 1]
      BY <3>1
    <3>4. Append(x, c) \in Seq(Byte)
      OBVIOUS
    <3> QED BY <3>1, <3>2, <3>3, <3>4 DEF TextStep
  <2>5. PICK f : f = [e \in p .. (m + 1) |-> IF e = m + 1 THEN v ELSE g[e]]
    OBVIOUS
  <2>6. f \in [p .. (m + 1) -> Seq(Byte)]
    BY <2>2, <2>3, <2>5
  <2>7. f[m + 1] = v /\ \A e \in p .. m : f[e] = g[e]
    BY <2>2, <2>5
  <2>8. ASSUME NEW e \in p .. (m + 1) PROVE f[e] = TextStep(s, p, f, e)
    <3>1. TextStep(s, p, f, e) = TextStep(s, p, g, e)
      <4>1. e # p => e - 1 \in p .. m
        BY <1>0, <2>2
      <4> QED BY <2>7, <4>1, Zenon DEF TextStep
    <3>2. CASE e = m + 1
      BY <2>4, <2>7, <3>1, <3>2, Zenon
    <3>3. CASE e \in p .. m
      BY <2>3, <2>7, <3>1, <3>3, Zenon
    <3> QED BY <1>0, <2>2, <3>2, <3>3
  <2>9. Solves(f, k)
    BY <2>2, <2>8, Zenon
  <2>10. f \in [p .. (p + k) -> Seq(Byte)]
    BY <2>2, <2>6, Zenon
  <2>11. k \in 0 .. n
    BY <1>0
  <2> QED BY <2>9, <2>10, <2>11
<1>3. n \in T
  <2> HIDE DEF T, n
  <2>1. 0 .. n \subseteq T
    BY <1>0, <1>1, <1>2, IntervalInduction
  <2> QED BY <1>0, <2>1
<1>4. PICK f \in [p .. Len(s) -> Seq(Byte)] : \A e \in p .. Len(s) : f[e] = TextStep(s, p, f, e)
  BY <1>0, <1>3
<1>5. f = [e \in p .. Len(s) |-> TextStep(s, p, f, e)]
  BY <1>4
<1> QED BY <1>4, <1>5

(* What the compact text is: nothing at p, and a byte that is not whitespace *)
(* is added to it.                                                           *)
LEMMA CompactedFacts ==
    ASSUME NEW s \in Seq(Byte), NEW p \in 0 .. Len(s)
    PROVE  /\ \A e \in p .. Len(s) : Compacted(s, p)[e] \in Seq(Byte)
           /\ Compacted(s, p)[p] = <<>>
           /\ \A e \in p .. (Len(s) - 1) :
                Compacted(s, p)[e + 1] = IF s[e + 1] \in Space THEN Compacted(s, p)[e]
                                         ELSE Append(Compacted(s, p)[e], s[e + 1])
<1> DEFINE Def(f) == [e \in p .. Len(s) |-> TextStep(s, p, f, e)]
           r == Compacted(s, p)
<1>0. Len(s) \in Nat /\ p \in Nat /\ p <= Len(s)
  OBVIOUS
<1>1. r = CHOOSE f : f = Def(f)
  BY DEF Compacted, TextStep
<1>2. \E f : f = Def(f)
  BY TextExists
<1>3. r = Def(r)
  BY <1>1, <1>2, Zenon
<1> HIDE DEF r
<1>4. \A e \in p .. Len(s) : r[e] = TextStep(s, p, r, e)
  BY <1>3
<1>5. r[p] = <<>>
  BY <1>0, <1>4 DEF TextStep
<1>6. \A e \in p .. (Len(s) - 1) :
         r[e + 1] = IF s[e + 1] \in Space THEN r[e] ELSE Append(r[e], s[e + 1])
  <2> SUFFICES ASSUME NEW e \in p .. (Len(s) - 1)
               PROVE  r[e + 1] = IF s[e + 1] \in Space THEN r[e] ELSE Append(r[e], s[e + 1])
    OBVIOUS
  <2>1. e + 1 \in p .. Len(s) /\ e + 1 # p /\ (e + 1) - 1 = e
    BY <1>0
  <2> QED BY <1>4, <2>1, Zenon DEF TextStep
<1>7. \A e \in p .. Len(s) : r[e] \in Seq(Byte)
  <2> DEFINE n == Len(s) - p
             T == {k \in 0 .. n : r[p + k] \in Seq(Byte)}
  <2>0. n \in Nat /\ p + n = Len(s)
    BY <1>0
  <2>1. 0 \in T
    <3>1. p + 0 = p /\ 0 \in 0 .. n /\ <<>> \in Seq(Byte)
      BY <1>0, <2>0
    <3> QED BY <1>5, <3>1, Zenon
  <2>2. ASSUME NEW k \in 1 .. n, k - 1 \in T PROVE k \in T
    <3>1. PICK e \in p .. (Len(s) - 1) : e = p + (k - 1) /\ e + 1 = p + k
      BY <1>0, <2>0
    <3>2. PICK x \in Seq(Byte) : x = r[e]
      BY <2>2, <3>1
    <3>3. PICK c \in Byte : c = s[e + 1]
      BY <1>0
    <3>4. r[e + 1] = x \/ r[e + 1] = Append(x, c)
      BY <1>6, <3>2, <3>3, Zenon
    <3>a. Append(x, c) \in Seq(Byte)
      OBVIOUS
    <3>5. r[e + 1] \in Seq(Byte)
      BY <3>4, <3>a, Zenon
    <3>6. k \in 0 .. n
      BY <2>0
    <3> QED BY <3>1, <3>5, <3>6
  <2>3. 0 .. n \subseteq T
    <3> HIDE DEF T, n
    <3> QED BY <2>0, <2>1, <2>2, IntervalInduction
  <2> SUFFICES ASSUME NEW e \in p .. Len(s) PROVE r[e] \in Seq(Byte)
    OBVIOUS
  <2>4. e - p \in 0 .. n /\ p + (e - p) = e
    BY <1>0
  <2>5. e - p \in T
    BY <2>3, <2>4, Zenon
  <2> QED BY <2>4, <2>5
<1> QED BY <1>5, <1>6, <1>7 DEF r

(* Bytes without whitespace are their own compact text. *)
LEMMA CompactIs ==
    ASSUME NEW s \in Seq(Byte), NEW p \in 0 .. Len(s), NEW e \in p .. Len(s), NoSpace(s, p, e)
    PROVE  Compacted(s, p)[e] = SubSeq(s, p + 1, e)
<1> DEFINE n == e - p
           T == {k \in 0 .. n : Compacted(s, p)[p + k] = SubSeq(s, p + 1, p + k)}
<1>0. Len(s) \in Nat /\ p \in Nat /\ e \in Nat /\ n \in Nat /\ p + n = e
  OBVIOUS
<1>1. 0 \in T
  <2>1. Compacted(s, p)[p] = <<>>
    BY CompactedFacts, Zenon
  <2>2. SubSeq(s, p + 1, p + 0) = <<>> /\ p + 0 = p /\ 0 \in 0 .. n
    BY <1>0
  <2> QED BY <2>1, <2>2, Zenon
<1>2. ASSUME NEW k \in 1 .. n, k - 1 \in T PROVE k \in T
  <2>1. PICK m \in p .. (Len(s) - 1) : m = p + (k - 1) /\ m + 1 = p + k
    BY <1>0
  <2>2. Compacted(s, p)[m] = SubSeq(s, p + 1, m)
    BY <1>2, <2>1, Zenon
  <2>3. s[m + 1] \notin Space
    <3>1. m + 1 \in (p + 1) .. e
      BY <1>0, <2>1
    <3> QED BY <3>1, Zenon DEF NoSpace
  <2>4. Compacted(s, p)[m + 1] = Append(SubSeq(s, p + 1, m), s[m + 1])
    BY <2>2, <2>3, CompactedFacts, Zenon
  <2>5. SubSeq(s, p + 1, m + 1) = Append(SubSeq(s, p + 1, m), s[m + 1])
    BY <1>0
  <2>6. k \in 0 .. n
    BY <1>0
  <2> QED BY <2>1, <2>4, <2>5, <2>6, Zenon
<1>3. 0 .. n \subseteq T
  <2> HIDE DEF T, n
  <2> QED BY <1>0, <1>1, <1>2, IntervalInduction
<1>4. n \in 0 .. n
  BY <1>0
<1>5. n \in T
  BY <1>3, <1>4, Zenon
<1> QED BY <1>0, <1>5, Zenon

(* A byte that is copied, and one that is left out. *)
LEMMA TextByte ==
    ASSUME NEW s \in Seq(Byte), NEW t \in 0 .. Len(s), NEW p \in t .. (Len(s) - 1)
    PROVE  /\ s[p + 1] \notin Space =>
                /\ Compacted(s, t)[p + 1] = Append(Compacted(s, t)[p], s[p + 1])
                /\ NoSpace(s, t, p + 1) <=> NoSpace(s, t, p)
           /\ s[p + 1] \in Space =>
                Compacted(s, t)[p + 1] = Compacted(s, t)[p] /\ ~NoSpace(s, t, p + 1)
<1>1. /\ s[p + 1] \notin Space => Compacted(s, t)[p + 1] = Append(Compacted(s, t)[p], s[p + 1])
      /\ s[p + 1] \in Space => Compacted(s, t)[p + 1] = Compacted(s, t)[p]
  BY CompactedFacts, Zenon
<1>2. /\ p + 1 \in (t + 1) .. (p + 1)
      /\ \A i : i \in (t + 1) .. (p + 1) <=> i \in (t + 1) .. p \/ i = p + 1
  OBVIOUS
<1> QED BY <1>1, <1>2, Zenon DEF NoSpace

-----------------------------------------------------------------------------
(* The copy and the compact flag follow the bytes of the record *)

LEMMA NotedFirst ==
    ASSUME NEW s \in Seq(Byte), NEW p \in 0 .. (Len(s) - 1), s[p + 1] \notin Space, NEW k
    PROVE  \A x : (k => x = Append(<<>>, s[p + 1])) => Noted(s, p, p + 1, TRUE, k, x)
<1>1. p \in 0 .. Len(s) /\ p \in p .. (Len(s) - 1) /\ (p + 1) .. p = {}
  OBVIOUS
<1>2. Compacted(s, p)[p] = <<>>
  BY <1>1, CompactedFacts, Zenon
<1>3. NoSpace(s, p, p)
  BY <1>1, Zenon DEF NoSpace
<1>4. /\ Compacted(s, p)[p + 1] = Append(Compacted(s, p)[p], s[p + 1])
      /\ NoSpace(s, p, p + 1) <=> NoSpace(s, p, p)
  BY <1>1, TextByte, Zenon
<1> QED BY <1>2, <1>3, <1>4, Zenon DEF Noted

LEMMA NotedByte ==
    ASSUME NEW s \in Seq(Byte), NEW t \in 0 .. Len(s), NEW p \in t .. (Len(s) - 1),
           NEW f, NEW k, NEW x, Noted(s, t, p, f, k, x)
    PROVE  /\ s[p + 1] \notin Space => Noted(s, t, p + 1, f, k, IF k THEN Append(x, s[p + 1]) ELSE x)
           /\ s[p + 1] \in Space => Noted(s, t, p + 1, FALSE, k, x)
<1>1. /\ s[p + 1] \notin Space =>
           /\ Compacted(s, t)[p + 1] = Append(Compacted(s, t)[p], s[p + 1])
           /\ NoSpace(s, t, p + 1) <=> NoSpace(s, t, p)
      /\ s[p + 1] \in Space =>
           Compacted(s, t)[p + 1] = Compacted(s, t)[p] /\ ~NoSpace(s, t, p + 1)
  BY TextByte, Zenon
<1> QED BY <1>1, Zenon DEF Noted

(* Steps after which there is no record, or none in progress. *)
LEMMA CopyIdle ==
    ASSUME at' \in {"start", "space", "next", "done"} PROVE CopyInv'
  BY Zenon DEF CopyInv, Ending, After

LEMMA CopyStay ==
    ASSUME CopyInv, UNCHANGED <<input, req, rec, spool, pos, at, decisions>> PROVE CopyInv'
  BY Zenon DEF CopyInv, Copied, Capture, InDispatch

(* The record is complete, and waits for its dispatch. *)
LEMMA CopyEnding ==
    ASSUME CopyInv, UNCHANGED <<input, req, rec, spool>>, at \in Ending, at' \in Ending
    PROVE  CopyInv'
<1>1. Copied(rec.end)
  BY Zenon DEF CopyInv
<1>2. Copied(rec.end)'
  BY <1>1, Zenon DEF Copied, Capture
<1>3. at' \notin {"object", "number"} \cup After
  BY Zenon DEF Ending, After
<1> QED BY <1>2, <1>3, Zenon DEF CopyInv

(* The record is in dispatch. *)
LEMMA CopyAfter ==
    ASSUME CopyInv, UNCHANGED <<input, req, rec, spool, decisions>>, at \in After, at' \in After
    PROVE  CopyInv'
<1>1. Copied(rec.end) /\ InDispatch
  BY Zenon DEF CopyInv
<1>2. (Copied(rec.end) /\ InDispatch)'
  BY <1>1, Zenon DEF Copied, Capture, InDispatch
<1>3. at' \notin {"object", "number"}
  BY Zenon DEF After
<1> QED BY <1>2, <1>3, Zenon DEF CopyInv

LEMMA CopyScan ==
    ASSUME at' \in {"object", "number"}, Copied(pos)' PROVE CopyInv'
<1>1. at' \notin Ending \cup After
  BY Zenon DEF Ending, After
<1> QED BY <1>1, Zenon DEF CopyInv

LEMMA RejectEnds == ASSUME Reject PROVE at' = "done"
  BY DEF Reject, Fail, Finish

LEMMA SkipSpaceCopies ==
    ASSUME BasicInv, CopyInv, NEW c \in Byte, SkipSpace(c) PROVE CopyInv'
<1>1. at = "space" /\ Have(c)
  BY Zenon DEF SkipSpace
<1>2. /\ c = input[pos + 1] /\ input \in Seq(Byte) /\ pos \in 0 .. (Len(input) - 1) /\ pos \in Nat
  BY <1>1, HaveFacts
<1>3. ASSUME c \in {Open, "d"}, BeginRecord(c), NEW a \in {"object", "number"}, Take(a)
      PROVE  CopyInv'
  <2>1. pos' = pos + 1 /\ at' = a /\ UNCHANGED <<input, req>>
    BY <1>3 DEF Take, source
  <2>2. rec'.start = pos /\ rec'.compact = TRUE
    <3>1. PICK o \in BOOLEAN : o = (c = Open)
      OBVIOUS
    <3>2. PICK r : r = rec'
      OBVIOUS
    <3>3. r = [NoRec EXCEPT !.start = pos, !.object = o]
      BY <1>3, <3>1, <3>2, Zenon DEF BeginRecord, Open
    <3>4. r = [start |-> pos, end |-> 0, object |-> o, hit |-> FALSE, compact |-> TRUE]
      BY <3>3, Zenon DEF NoRec
    <3>5. r.start = pos /\ r.compact = TRUE
      BY <1>2, <3>4, MadeRec, Zenon
    <3> QED BY <3>2, <3>5, Zenon
  <2>3. Capture => spool' = Append(<<>>, input[pos + 1])
    BY <1>2, <1>3, Zenon DEF BeginRecord, Copy
  <2>4. input[pos + 1] \notin Space
    BY <1>2, <1>3, Braces, Zenon DEF Space
  <2>5. Noted(input, pos, pos + 1, TRUE, Capture, spool')
    BY <1>2, <2>3, <2>4, NotedFirst, Zenon
  <2>6. Copied(pos)'
    BY <2>1, <2>2, <2>5, Zenon DEF Copied, Capture
  <2> QED BY <2>1, <2>6, CopyScan, Zenon
<1>4. CASE Take("space") \/ Reject
  <2>1. at' \in {"space", "done"}
    BY <1>4, RejectEnds, Zenon DEF Take
  <2> QED BY <2>1, CopyIdle
<1> QED BY <1>3, <1>4, Zenon DEF SkipSpace, Open

LEMMA ScanObjectCopies ==
    ASSUME BasicInv, CopyInv, NEW c \in Byte, ScanObject(c) PROVE CopyInv'
<1>1. at = "object" /\ Have(c)
  BY Zenon DEF ScanObject
<1>2. /\ c = input[pos + 1] /\ input \in Seq(Byte) /\ pos \in 0 .. (Len(input) - 1) /\ pos \in Nat
      /\ rec \in Rec /\ rec.start \in Nat
  BY <1>1, HaveFacts
<1>3. rec.start \in 0 .. Len(input) /\ pos \in rec.start .. (Len(input) - 1)
  <2>1. rec.start <= pos
    BY Zenon DEF BasicInv, RecInv
  <2>2. PICK t \in Nat : t = rec.start
    BY <1>2, Zenon
  <2>3. t \in 0 .. Len(input) /\ pos \in t .. (Len(input) - 1)
    BY <1>2, <2>1, <2>2
  <2> QED BY <2>2, <2>3, Zenon
<1>4. Noted(input, rec.start, pos, rec.compact, Capture, spool)
  BY <1>1, Zenon DEF CopyInv, Copied
<1>5. /\ c \notin Space =>
           Noted(input, rec.start, pos + 1, rec.compact, Capture,
                 IF Capture THEN Append(spool, c) ELSE spool)
      /\ c \in Space => Noted(input, rec.start, pos + 1, FALSE, Capture, spool)
  BY <1>2, <1>3, <1>4, NotedByte, Zenon
<1>6. CASE c \in Space /\ rec' = [rec EXCEPT !.compact = FALSE] /\ spool' = spool /\ Take("object")
  <2>1. pos' = pos + 1 /\ at' = "object" /\ UNCHANGED <<input, req>>
    BY <1>6 DEF Take, source
  <2>2. rec'.start = rec.start /\ rec'.compact = FALSE
    <3>1. PICK r : r = rec'
      OBVIOUS
    <3>2. r.start = rec.start /\ r.compact = FALSE
      BY <1>2, <1>6, <3>1, RecCompact, Zenon
    <3> QED BY <3>1, <3>2, Zenon
  <2>3. Copied(pos)'
    BY <1>5, <1>6, <2>1, <2>2, Zenon DEF Copied, Capture
  <2> QED BY <2>1, <2>3, CopyScan, Zenon
<1>7. CASE c = "m" /\ rec' = [rec EXCEPT !.hit = TRUE] /\ spool' = Copy(spool, c) /\ Take("object")
  <2>1. pos' = pos + 1 /\ at' = "object" /\ UNCHANGED <<input, req>>
    BY <1>7 DEF Take, source
  <2>2. rec'.start = rec.start /\ rec'.compact = rec.compact
    <3>1. PICK r : r = rec'
      OBVIOUS
    <3>2. r.start = rec.start /\ r.compact = rec.compact
      BY <1>2, <1>7, <3>1, RecHit, Zenon
    <3> QED BY <3>1, <3>2, Zenon
  <2>3. c \notin Space
    BY <1>7, Zenon DEF Space
  <2>4. Copied(pos)'
    BY <1>5, <1>7, <2>1, <2>2, <2>3, Zenon DEF Copied, Capture, Copy
  <2> QED BY <2>1, <2>4, CopyScan, Zenon
<1>8. CASE c = Close /\ rec' = [rec EXCEPT !.end = pos + 1] /\ spool' = Copy(spool, c)
           /\ Take("separator")
  <2>1. at' = "separator" /\ UNCHANGED <<input, req>>
    BY <1>8 DEF Take, source
  <2>2. PICK e \in Nat : e = pos + 1
    BY <1>2
  <2>3. rec'.start = rec.start /\ rec'.compact = rec.compact /\ rec'.end = e
    <3>1. PICK r : r = rec'
      OBVIOUS
    <3>2. r = [rec EXCEPT !.end = e]
      BY <1>8, <2>2, <3>1, Zenon
    <3>3. r.start = rec.start /\ r.compact = rec.compact /\ r.end = e
      BY <1>2, <3>2, Zenon DEF Rec
    <3> QED BY <3>1, <3>3, Zenon
  <2>4. c \notin Space
    BY <1>8, Braces, Zenon DEF Space
  <2>5. Copied(rec.end)'
    BY <1>5, <1>8, <2>1, <2>2, <2>3, <2>4, Zenon DEF Copied, Capture, Copy
  <2>6. at' \notin {"object", "number"} \cup After
    BY <2>1, Zenon DEF After
  <2> QED BY <2>5, <2>6, Zenon DEF CopyInv
<1>9. CASE Reject
  BY <1>9, RejectEnds, CopyIdle
<1> QED BY <1>6, <1>7, <1>8, <1>9, Zenon DEF ScanObject, Close

(* A number ends where it is. *)
LEMMA NumberEndCopies ==
    ASSUME BasicInv, CopyInv, at = "number", Move("separator"), rec' = [rec EXCEPT !.end = pos]
    PROVE  CopyInv'
<1>1. at' = "separator" /\ UNCHANGED <<input, req, spool>>
  BY DEF Move, source
<1>2. rec \in Rec /\ pos \in Nat
  BY SourceTypes DEF BasicInv, TypeOK
<1>3. rec'.start = rec.start /\ rec'.compact = rec.compact /\ rec'.end = pos
  <2>1. PICK r : r = rec'
    OBVIOUS
  <2>2. PICK e \in Nat : e = pos
    BY <1>2
  <2>3. r = [rec EXCEPT !.end = e]
    BY <2>1, <2>2, Zenon
  <2>4. r.start = rec.start /\ r.compact = rec.compact /\ r.end = e
    BY <1>2, <2>3, Zenon DEF Rec
  <2> QED BY <2>1, <2>2, <2>4, Zenon
<1>4. Copied(pos)
  BY Zenon DEF CopyInv
<1>5. Copied(rec.end)'
  BY <1>1, <1>3, <1>4, Zenon DEF Copied, Capture
<1>6. at' \notin {"object", "number"} \cup After
  BY <1>1, Zenon DEF After
<1> QED BY <1>5, <1>6, Zenon DEF CopyInv

LEMMA ScanNumberCopies ==
    ASSUME BasicInv, CopyInv, NEW c \in Byte, ScanNumber(c) PROVE CopyInv'
<1>1. at = "number" /\ Have(c)
  BY Zenon DEF ScanNumber
<1>2. CASE c = "d" /\ Take("number") /\ spool' = Copy(spool, c) /\ rec' = rec
  <2>1. pos' = pos + 1 /\ at' = "number" /\ UNCHANGED <<input, req>>
    BY <1>2 DEF Take, source
  <2>2. /\ c = input[pos + 1] /\ input \in Seq(Byte) /\ pos \in 0 .. (Len(input) - 1) /\ pos \in Nat
        /\ rec.start \in Nat
    BY <1>1, HaveFacts
  <2>3. rec.start \in 0 .. Len(input) /\ pos \in rec.start .. (Len(input) - 1)
    <3>1. rec.start <= pos
      BY Zenon DEF BasicInv, RecInv
    <3>2. PICK t \in Nat : t = rec.start
      BY <2>2, Zenon
    <3>3. t \in 0 .. Len(input) /\ pos \in t .. (Len(input) - 1)
      BY <2>2, <3>1, <3>2
    <3> QED BY <3>2, <3>3, Zenon
  <2>4. Noted(input, rec.start, pos, rec.compact, Capture, spool)
    BY <1>1, Zenon DEF CopyInv, Copied
  <2>5. c \notin Space
    BY <1>2, Zenon DEF Space
  <2>6. Noted(input, rec.start, pos + 1, rec.compact, Capture,
              IF Capture THEN Append(spool, c) ELSE spool)
    BY <2>2, <2>3, <2>4, <2>5, NotedByte, Zenon
  <2>7. Copied(pos)'
    BY <1>2, <2>1, <2>6, Zenon DEF Copied, Capture, Copy
  <2> QED BY <2>1, <2>7, CopyScan, Zenon
<1>3. CASE Move("separator") /\ rec' = [rec EXCEPT !.end = pos]
  BY <1>1, <1>3, NumberEndCopies, Zenon
<1> QED BY <1>2, <1>3, Zenon DEF ScanNumber

(* The steps from the end of a value to its dispatch. *)
LEMMA EndingCopies ==
    ASSUME BasicInv, CopyInv,
           \/ \E c \in Byte : Separator(c) \/ LineFeed(c)
           \/ EndOfInput \/ Flush
    PROVE  CopyInv'
<1>1. CASE Reject
  BY <1>1, RejectEnds, CopyIdle
<1>2. ASSUME at \in Ending, at' \in Ending, UNCHANGED <<source, rec, spool>> PROVE CopyInv'
  BY <1>2, CopyEnding, Zenon DEF source
<1>3. ASSUME NEW a \in Ending, Take(a), at \in Ending, UNCHANGED <<rec, spool>> PROVE CopyInv'
  BY <1>2, <1>3, Zenon DEF Take
<1>4. ASSUME NEW c \in Byte, Separator(c) \/ LineFeed(c) PROVE CopyInv'
  <2>1. "separator" \in Ending /\ "line_feed" \in Ending /\ "flush" \in Ending
    BY Zenon DEF Ending
  <2> QED BY <1>1, <1>3, <1>4, <2>1, Zenon DEF Separator, LineFeed
<1>5. CASE EndOfInput
  <2>1. CASE at = "space" /\ Fail("OK")
    <3>1. at' = "done"
      BY <2>1 DEF Fail, Finish
    <3> QED BY <3>1, CopyIdle
  <2>2. CASE at = "number" /\ Move("separator") /\ rec' = [rec EXCEPT !.end = pos]
    BY <2>2, NumberEndCopies, Zenon
  <2>3. CASE at = "separator" /\ Move("flush") /\ UNCHANGED rec
    BY <1>2, <2>3, Zenon DEF Move, Ending
  <2> QED BY <1>1, <1>5, <2>1, <2>2, <2>3, Zenon DEF EndOfInput
<1>6. CASE Flush
  <2>1. CASE Finish("STOP", result, FALSE, TRUE)
    <3>1. at' = "done"
      BY <2>1 DEF Finish
    <3> QED BY <3>1, CopyIdle
  <2>2. CASE at' = "decision"
    BY <1>2, <1>6, <2>2, Zenon DEF Flush, Ending
  <2> QED BY <1>6, <2>1, <2>2, Zenon DEF Flush
<1> QED BY <1>4, <1>5, <1>6, Zenon

(* The record that on_decision sees is the next one of the reference. *)
LEMMA DecisionRecord ==
    ASSUME BasicInv, FollowInv, Decision
    PROVE  /\ Len(decisions) \in Nat /\ Len(decisions') = Len(decisions) + 1
           /\ Reference(input).recs[Len(decisions) + 1] = RecordAt(input, rec.start)
           /\ ValueEnd(input, rec.start) = rec.end
           /\ rec.end \in (rec.start + 1) .. Len(input)
<1>1. at = "decision" /\ decisions' = Append(decisions, Matched)
  BY DecisionFacts, Zenon
<1>2. /\ input \in Seq(Byte) /\ pos \in 0 .. Len(input)
      /\ decisions \in Seq(BOOLEAN) /\ Len(decisions) \in Nat
  BY SourceTypes DEF BasicInv, TypeOK
<1>3. PICK b \in 0 .. Len(input) :
         /\ Chain(input, Len(decisions), b) /\ Place(input, b, at, rec, pos)
         /\ rec.end \in (rec.start + 1) .. Len(input)
         /\ Starts(input, b) # {} /\ FirstStart(input, b) = rec.start
         /\ ValueEnd(input, rec.start) = rec.end /\ rec.end # 0
  BY <1>1, EndedFacts, Zenon
<1>4. SeparatorEnd(input, rec.end) = pos
  BY <1>1, <1>3, PlaceHas, Zenon
<1>5. pos <= Len(input)
  BY <1>2
<1>6. Readable(input, FirstStart(input, b))
  BY <1>3, <1>4, <1>5, Zenon DEF Readable
<1>7. PICK n \in Nat : n = Len(decisions)
  BY <1>2, Zenon
<1>8. PICK r : r = RecordAt(input, FirstStart(input, b))
  OBVIOUS
<1>9. Reference(input).recs[n + 1] = r
  BY <1>2, <1>3, <1>6, <1>7, <1>8, ChainNext, Zenon
<1>10. Len(decisions') = Len(decisions) + 1
  BY <1>1, <1>2, MatchedBoolean
<1> QED BY <1>2, <1>3, <1>7, <1>8, <1>9, <1>10, Zenon

LEMMA DecisionCopies ==
    ASSUME BasicInv, FollowInv, CopyInv, Decision PROVE CopyInv'
<1>1. at = "decision" /\ UNCHANGED <<source, rec, spool>> /\ at' \in {"value", "done"}
  BY DecisionFacts, Zenon
<1>2. CASE at' = "done"
  BY <1>2, CopyIdle
<1>3. CASE at' = "value"
  <2>1. UNCHANGED <<input, req, rec, spool>>
    BY <1>1 DEF source
  <2>2. Copied(rec.end)
    BY <1>1, Zenon DEF CopyInv, Ending
  <2>3. Copied(rec.end)'
    BY <2>1, <2>2, Zenon DEF Copied, Capture
  <2>4. InDispatch'
    BY <2>1, DecisionRecord, Zenon DEF InDispatch
  <2>5. at' \notin {"object", "number"}
    BY <1>3
  <2> QED BY <2>3, <2>4, <2>5, Zenon DEF CopyInv
<1> QED BY <1>1, <1>2, <1>3, Zenon

LEMMA NextCopies == BasicInv /\ FollowInv /\ CopyInv /\ [Next]_vars => CopyInv'
<1> SUFFICES ASSUME BasicInv, FollowInv, CopyInv, [Next]_vars PROVE CopyInv'
  OBVIOUS
<1>1. CASE Start \/ PollRefill \/ Refill \/ RefillFails \/ SpoolFails
  <2>1. CASE at' = "done" \/ at' = "space"
    BY <2>1, CopyIdle
  <2>2. CASE at' = at /\ UNCHANGED <<source, rec, spool, pos, logs>>
    BY <2>2, CopyStay, Zenon DEF source, logs
  <2> QED BY <1>1, <2>1, <2>2, Zenon
          DEF Start, PollRefill, Refill, RefillFails, SpoolFails, Fail, Finish
<1>2. CASE \E c \in Byte : SkipSpace(c) \/ ScanObject(c) \/ ScanNumber(c)
                           \/ Separator(c) \/ LineFeed(c)
  BY <1>2, SkipSpaceCopies, ScanObjectCopies, ScanNumberCopies, EndingCopies, Zenon
<1>3. CASE EndOfInput \/ Flush
  BY <1>3, EndingCopies, Zenon
<1>4. CASE Decision
  BY <1>4, DecisionCopies, Zenon
<1>5. CASE Value \/ Output \/ Newline \/ WriterFails
  <2>1. at \in After /\ UNCHANGED <<source, rec, spool, decisions>>
    BY <1>5, Zenon DEF Value, Output, Newline, WriterFails, After
  <2>2. at' \in After \cup {"done"}
    <3>1. CASE Value
      BY <3>1, ValueFacts, Zenon DEF After
    <3>2. CASE Output \/ Newline \/ WriterFails
      BY <3>2, Zenon DEF Output, Newline, WriterFails, Abort, Finish, After
    <3> QED BY <1>5, <3>1, <3>2
  <2>3. CASE at' \in After
    BY <2>1, <2>3, CopyAfter, Zenon DEF source
  <2>4. CASE at' = "done"
    BY <2>4, CopyIdle
  <2> QED BY <2>2, <2>3, <2>4, Zenon
<1>6. CASE MatchLimit \/ NextRecord
  <2>1. at' \in {"space", "next", "done"}
    BY <1>6, Zenon DEF MatchLimit, NextRecord, Abort, Finish
  <2> QED BY <2>1, CopyIdle
<1>7. CASE Cancel \/ UNCHANGED vars
  <2>1. UNCHANGED <<input, req, rec, spool, pos, at, decisions>>
    BY <1>7 DEF Cancel, vars, source, scan, logs
  <2> QED BY <2>1, CopyStay, Zenon
<1> QED BY <1>1, <1>2, <1>3, <1>4, <1>5, <1>6, <1>7, Zenon DEF Next, CallStep, Done

LEMMA CopyInvariant == Spec => []CopyInv
<1>1. Init => CopyInv
  BY Zenon DEF Init, CopyInv, Ending, After
<1> QED BY <1>1, NextCopies, BasicInvariant, FollowInvariant, PTL DEF Spec

-----------------------------------------------------------------------------
(* The requests that are let pass *)

(* No step changes the call, and only Start leaves the start. *)
LEMMA SameCall ==
    ASSUME [Next]_vars
    PROVE  UNCHANGED <<input, req, caller>> /\ (at = "start" => Start \/ at' = "start")
<1>1. CASE Start
  BY <1>1 DEF Start, source
<1>2. CASE PollRefill \/ Refill \/ RefillFails \/ SpoolFails
  BY <1>2 DEF PollRefill, Refill, RefillFails, SpoolFails, Empty, Scanning, source
<1>3. ASSUME NEW c \in Byte, SkipSpace(c) \/ ScanObject(c) \/ ScanNumber(c)
                           \/ Separator(c) \/ LineFeed(c)
      PROVE  UNCHANGED source /\ at # "start"
  BY <1>3, Zenon DEF SkipSpace, ScanObject, ScanNumber, Separator, LineFeed, Take, Move, Reject
<1>4. CASE EndOfInput
  BY <1>4 DEF EndOfInput, Move, Reject, source
<1>5. CASE Flush \/ Decision \/ Value \/ Output \/ Newline \/ WriterFails \/ MatchLimit
           \/ NextRecord
  BY <1>5, Zenon DEF Flush, Decision, Value, Output, Newline, WriterFails, MatchLimit, NextRecord,
                     source
<1>6. CASE Cancel \/ UNCHANGED vars
  BY <1>6 DEF Cancel, vars, source
<1> QED BY <1>1, <1>2, <1>3, <1>4, <1>5, <1>6, Zenon DEF Next, CallStep, Done, source

LEMMA NextAdmits == AdmitInv /\ [Next]_vars => AdmitInv'
<1> SUFFICES ASSUME AdmitInv, [Next]_vars PROVE AdmitInv'
  OBVIOUS
<1>1. CASE Start
  <2>1. CASE at' = "done"
    BY <2>1, Zenon DEF AdmitInv
  <2>2. CASE at' # "done"
    <3>1. Admitted
      BY <1>1, <2>2, Zenon DEF Start, Fail, Finish, Admitted
    <3> QED BY <3>1, SameCall, Zenon DEF AdmitInv, Admitted
  <2> QED BY <2>1, <2>2
<1>2. CASE ~Start
  <2>1. CASE at = "done"
    <3>1. at' = "done"
      <4>1. ASSUME CallStep \/ Cancel PROVE FALSE
        BY <2>1, <4>1, Zenon DEF CallStep, Start, PollRefill, Refill, RefillFails, SpoolFails, Empty,
             Scanning, SkipSpace, ScanObject, ScanNumber, Separator, LineFeed, EndOfInput, Flush,
             Decision, Value, Output, Newline, WriterFails, MatchLimit, NextRecord, Cancel
      <4> QED BY <2>1, <4>1, Zenon DEF Next, Done, vars
    <3> QED BY <3>1, Zenon DEF AdmitInv
  <2>2. CASE at # "done"
    BY <1>2, <2>2, SameCall, Zenon DEF AdmitInv, Admitted
  <2> QED BY <2>1, <2>2
<1> QED BY <1>1, <1>2

LEMMA AdmitInvariant == Spec => []AdmitInv
<1>1. Init => AdmitInv
  BY Zenon DEF Init, AdmitInv
<1> QED BY <1>1, NextAdmits, PTL DEF Spec

-----------------------------------------------------------------------------
(* The record in dispatch *)

LEMMA RecordAtText ==
    ASSUME NEW s, NEW q
    PROVE  /\ RecordAt(s, q).text = Compacted(s, q)[ValueEnd(s, q)]
           /\ RecordAt(s, q).compact = NoSpace(s, q, ValueEnd(s, q))
  BY Zenon DEF RecordAt, NoSpace

(* The record in dispatch is the last one decided: the copy, or the range of *)
(* the source if it is compact, is the text of the reference.                *)
LEMMA Dispatched ==
    ASSUME BasicInv, FollowInv, CopyInv, at \in After,
           NEW r, r = Reference(input).recs[Len(decisions)]
    PROVE  /\ Len(decisions) \in Nat \ {0}
           /\ r.object = rec.object /\ r.hit = (rec.object /\ rec.hit)
           /\ r.compact = rec.compact /\ r.text \in Seq(Byte)
           /\ Capture => spool = r.text
           /\ rec.compact => SourceRange = r.text
           /\ Matched = RefMatched(r)
<1>1. Len(decisions) \in Nat /\ input \in Seq(Byte) /\ rec \in Rec /\ Len(input) \in Nat
  BY SourceTypes DEF BasicInv, TypeOK
<1>2. /\ Len(decisions) > 0 /\ r.object = rec.object /\ r.hit = (rec.object /\ rec.hit)
  BY Zenon DEF FollowInv, PlaceInv, Decided
<1>3. Copied(rec.end) /\ InDispatch
  BY Zenon DEF CopyInv
<1>4. rec.start \in Nat /\ rec.end \in Nat /\ rec.compact \in BOOLEAN
  BY <1>1, RecFields, Zenon
<1>5. PICK t \in Nat : t = rec.start
  BY <1>4, Zenon
<1>6. PICK e \in (t + 1) .. Len(input) : e = rec.end
  BY <1>3, <1>5, Zenon DEF InDispatch
<1>7. r = RecordAt(input, t) /\ ValueEnd(input, t) = e
  BY <1>3, <1>5, <1>6, Zenon DEF InDispatch
<1>8. r.text = Compacted(input, t)[e] /\ r.compact = NoSpace(input, t, e)
  BY <1>7, RecordAtText, Zenon
<1>9. t \in 0 .. Len(input) /\ e \in t .. Len(input)
  BY <1>1
<1>10. r.text \in Seq(Byte)
  BY <1>1, <1>8, <1>9, CompactedFacts, Zenon
<1>11. Noted(input, t, e, rec.compact, Capture, spool)
  BY <1>3, <1>5, <1>6, Zenon DEF Copied
<1>12. r.compact = rec.compact /\ (Capture => spool = r.text)
  BY <1>4, <1>8, <1>11, Zenon DEF Noted, NoSpace
<1>13. rec.compact => SourceRange = r.text
  <2>1. NoSpace(input, t, e) => Compacted(input, t)[e] = SubSeq(input, t + 1, e)
    BY <1>1, <1>9, CompactIs, Zenon
  <2>2. SourceRange = SubSeq(input, t + 1, e)
    BY <1>5, <1>6, Zenon DEF SourceRange
  <2> QED BY <1>8, <1>11, <2>1, <2>2, Zenon DEF Noted
<1>14. Matched = RefMatched(r)
  BY <1>2, Zenon DEF Matched, RefMatched
<1>15. Len(decisions) \in Nat \ {0}
  BY <1>1, <1>2
<1> QED BY <1>2, <1>10, <1>12, <1>13, <1>14, <1>15, Zenon

-----------------------------------------------------------------------------
(* The values *)

LEMMA HitsFacts ==
    ASSUME NEW n \in Nat
    PROVE  /\ IsFiniteSet(Matches(n)) /\ Hits(n) \in Nat
           /\ Hits(n + 1) = IF RefMatched(Reference(input).recs[n + 1]) THEN Hits(n) + 1 ELSE Hits(n)
<1>1. IsFiniteSet(1 .. n) /\ Matches(n) \in SUBSET (1 .. n)
  BY FS_Interval DEF Matches
<1>2. IsFiniteSet(Matches(n))
  BY <1>1, FS_Subset, Zenon
<1>3. Hits(n) \in Nat
  BY <1>2, FS_CardinalityType, Zenon DEF Hits
<1>4. \A i : i \in 1 .. (n + 1) <=> i \in 1 .. n \/ i = n + 1
  OBVIOUS
<1>5. CASE RefMatched(Reference(input).recs[n + 1])
  <2>1. Matches(n + 1) = Matches(n) \cup {n + 1}
    BY <1>4, <1>5, Zenon DEF Matches
  <2>2. n + 1 \notin Matches(n)
    BY DEF Matches
  <2>3. Cardinality(Matches(n) \cup {n + 1}) = Cardinality(Matches(n)) + 1
    BY <1>2, <2>2, FS_AddElement, Zenon
  <2> QED BY <1>2, <1>3, <1>5, <2>1, <2>3, Zenon DEF Hits
<1>6. CASE ~RefMatched(Reference(input).recs[n + 1])
  <2>1. Matches(n + 1) = Matches(n)
    BY <1>4, <1>6, Zenon DEF Matches
  <2> QED BY <1>2, <1>3, <1>6, <2>1, Zenon DEF Hits
<1> QED BY <1>5, <1>6

LEMMA HitsGrow ==
    ASSUME NEW n \in Nat, NEW i \in 0 .. n PROVE Hits(i) \in Nat /\ Hits(i) <= Hits(n)
<1>1. \A k \in 1 .. i : k \in 1 .. n
  OBVIOUS
<1>2. Matches(i) \in SUBSET Matches(n)
  BY <1>1, Zenon DEF Matches
<1>3. i \in Nat
  OBVIOUS
<1> QED BY <1>2, <1>3, HitsFacts, FS_Subset, Zenon DEF Hits

(* The matched records have the numbers from 1 up, in order. *)
LEMMA HitsNumber ==
    ASSUME NEW n \in Nat \ {0}
    PROVE  \A i \in Matches(n) : /\ i \in 1 .. n /\ Hits(i) \in Nat \ {0} /\ Hits(i) <= Hits(n)
                                 /\ i # n => i \in Matches(n - 1) /\ Hits(i) <= Hits(n - 1)
<1> SUFFICES ASSUME NEW i \in Matches(n)
             PROVE  /\ i \in 1 .. n /\ Hits(i) \in Nat \ {0} /\ Hits(i) <= Hits(n)
                    /\ i # n => i \in Matches(n - 1) /\ Hits(i) <= Hits(n - 1)
  OBVIOUS
<1>1. i \in 1 .. n /\ RefMatched(Reference(input).recs[i])
  BY Zenon DEF Matches
<1>2. i \in 0 .. n /\ i - 1 \in Nat /\ (i - 1) + 1 = i /\ n \in Nat /\ i \in Nat
  BY <1>1
<1>3. Hits((i - 1) + 1) = IF RefMatched(Reference(input).recs[(i - 1) + 1])
                          THEN Hits(i - 1) + 1 ELSE Hits(i - 1)
  BY <1>2, HitsFacts, Zenon
<1>4. Hits(i) = Hits(i - 1) + 1
  BY <1>1, <1>2, <1>3, Zenon
<1>5. Hits(i - 1) \in Nat
  BY <1>2, HitsFacts, Zenon
<1>6. Hits(i) \in Nat \ {0}
  BY <1>4, <1>5
<1>7. Hits(i) <= Hits(n)
  BY <1>2, HitsGrow, Zenon
<1>8. ASSUME i # n PROVE i \in Matches(n - 1) /\ Hits(i) <= Hits(n - 1)
  <2>1. i \in 1 .. (n - 1) /\ n - 1 \in Nat /\ i \in 0 .. (n - 1)
    BY <1>1, <1>8
  <2> QED BY <1>1, <2>1, HitsGrow, Zenon DEF Matches
<1> QED BY <1>1, <1>6, <1>7, <1>8, Zenon

LEMMA ValuesKeep ==
    ASSUME NEW a, NEW b, NEW n \in Nat, NEW v, ValuesAt(a, n, v),
           b = a \/ (b # "value" /\ a # "value" /\ a # "done")
    PROVE  ValuesAt(b, n, v)
  BY Zenon DEF ValuesAt

LEMMA ValuesDecide ==
    ASSUME NEW n \in Nat, NEW v \in Seq(Seq(Byte)), ValuesAt("decision", n, v),
           NEW a \in {"value", "done"}
    PROVE  ValuesAt(a, n + 1, v)
<1>1. /\ Len(v) <= Hits(n) /\ (~req.on_value => Len(v) = 0)
      /\ (req.on_value => Len(v) = Hits(n))
      /\ \A i \in Matches(n) : Hits(i) <= Len(v) => v[Hits(i)] = Reference(input).recs[i].text
  BY Zenon DEF ValuesAt
<1>2. /\ Hits(n) \in Nat /\ Len(v) \in Nat /\ (n + 1) - 1 = n /\ n + 1 \in Nat \ {0}
      /\ Hits(n + 1) = IF RefMatched(Reference(input).recs[n + 1]) THEN Hits(n) + 1 ELSE Hits(n)
  <2>1. Len(v) \in Nat /\ (n + 1) - 1 = n /\ n + 1 \in Nat \ {0}
    OBVIOUS
  <2> QED BY <2>1, HitsFacts, Zenon
<1>3. ASSUME NEW i \in Matches(n + 1), Hits(i) <= Len(v)
      PROVE  v[Hits(i)] = Reference(input).recs[i].text
  <2>1. i # n + 1 => i \in Matches(n)
    BY <1>2, HitsNumber, Zenon
  <2>2. CASE i = n + 1
    <3>1. RefMatched(Reference(input).recs[n + 1])
      BY <2>2, Zenon DEF Matches
    <3>2. Hits(i) = Hits(n) + 1
      BY <1>2, <2>2, <3>1, Zenon
    <3> QED BY <1>1, <1>2, <1>3, <3>2
  <2> QED BY <1>1, <1>3, <2>1, <2>2, Zenon
<1>4. /\ Len(v) <= Hits(n + 1)
      /\ req.on_value => Len(v) >= Hits(n + 1) - 1
  <2>1. Hits(n + 1) \in {Hits(n), Hits(n) + 1}
    BY <1>2, Zenon
  <2> QED BY <1>1, <1>2, <2>1
<1>5. /\ a \in {"value", "done"}
      /\ a = "value" /\ req.on_value => Len(v) = Hits((n + 1) - 1)
  BY <1>1, <1>2, Zenon
<1> QED BY <1>1, <1>3, <1>4, <1>5, Zenon DEF ValuesAt

(* on_value is not called for the record, or the call ends before it is. *)
LEMMA ValuesSkip ==
    ASSUME NEW n \in Nat \ {0}, NEW v \in Seq(Seq(Byte)), ValuesAt("value", n, v),
           NEW a, a = "done" \/ (a = "output" /\ ~(req.on_value /\ RefMatched(Reference(input).recs[n])))
    PROVE  ValuesAt(a, n, v)
<1>1. n - 1 \in Nat /\ (n - 1) + 1 = n
  OBVIOUS
<1>2. Hits((n - 1) + 1) = IF RefMatched(Reference(input).recs[(n - 1) + 1])
                          THEN Hits(n - 1) + 1 ELSE Hits(n - 1)
  BY <1>1, HitsFacts, Zenon
<1>3. a = "output" /\ req.on_value => Len(v) = Hits(n)
  BY <1>1, <1>2, Zenon DEF ValuesAt
<1> QED BY <1>3, Zenon DEF ValuesAt

(* on_value is given the text of the record. *)
LEMMA ValuesGive ==
    ASSUME NEW n \in Nat \ {0}, NEW v \in Seq(Seq(Byte)), ValuesAt("value", n, v),
           NEW a, a # "value", req.on_value, RefMatched(Reference(input).recs[n]),
           NEW x \in Seq(Byte), x = Reference(input).recs[n].text
    PROVE  ValuesAt(a, n, Append(v, x))
<1>1. n - 1 \in Nat /\ (n - 1) + 1 = n
  OBVIOUS
<1>2. /\ Hits(n - 1) \in Nat
      /\ Hits((n - 1) + 1) = IF RefMatched(Reference(input).recs[(n - 1) + 1])
                             THEN Hits(n - 1) + 1 ELSE Hits(n - 1)
  BY <1>1, HitsFacts, Zenon
<1>3. Hits(n) = Hits(n - 1) + 1
  BY <1>1, <1>2, Zenon
<1>4. /\ Len(v) = Hits(n - 1)
      /\ \A i \in Matches(n) : Hits(i) <= Len(v) => v[Hits(i)] = Reference(input).recs[i].text
  BY Zenon DEF ValuesAt
<1>5. PICK w : w = Append(v, x)
  OBVIOUS
<1>6. /\ Len(w) = Hits(n) /\ w[Hits(n)] = x
      /\ \A k \in 1 .. Len(v) : w[k] = v[k]
  BY <1>2, <1>3, <1>4, <1>5
<1>7. ASSUME NEW i \in Matches(n), Hits(i) <= Len(w)
      PROVE  w[Hits(i)] = Reference(input).recs[i].text
  <2>1. /\ Hits(i) \in Nat \ {0}
        /\ i # n => Hits(i) <= Hits(n - 1)
    BY HitsNumber, Zenon
  <2>2. CASE i = n
    BY <1>6, <2>2, Zenon
  <2>3. CASE i # n
    <3>1. Hits(i) \in 1 .. Len(v)
      BY <1>2, <1>4, <2>1, <2>3
    <3>2. Hits(i) <= Len(v)
      BY <1>4, <2>1, <2>3, Zenon
    <3> QED BY <1>4, <1>6, <3>1, <3>2, Zenon
  <2> QED BY <2>2, <2>3
<1>8. Len(w) <= Hits(n) /\ Len(w) >= Hits(n) - 1
  BY <1>2, <1>3, <1>6
<1>9. ValuesAt(a, n, w)
  BY <1>6, <1>7, <1>8, Zenon DEF ValuesAt
<1> QED BY <1>5, <1>9, Zenon

LEMMA ValueIs ==
    ASSUME UNCHANGED <<input, req>>, ValuesAt(at', Len(decisions'), values') PROVE ValueInv'
  BY Zenon DEF ValueInv, ValuesAt, Hits, Matches, RefMatched

(* The steps that call neither a callback nor the writer leave what was      *)
(* delivered alone, and are taken where nothing is left to deliver.          *)
LEMMA QuietStep ==
    ASSUME [Next]_vars
    PROVE  \/ Decision \/ Value \/ Output \/ Newline \/ WriterFails
           \/ UNCHANGED <<at, rec, decisions, values, out, status, result>>
           \/ /\ at \in Quiet /\ at' \in Quiet \cup {"done"}
              /\ UNCHANGED <<decisions, values, out>>
<1>1. CASE Start \/ PollRefill \/ Refill \/ RefillFails \/ SpoolFails
  <2>1. /\ at \in Scanning \cup {"start", "flush"}
        /\ at' \in {"done", "space", at} /\ UNCHANGED logs
    BY <1>1, Zenon DEF Start, PollRefill, Refill, RefillFails, SpoolFails, Empty, Scanning,
                       Fail, Finish
  <2> QED BY <2>1, Zenon DEF Quiet, Before, Scanning, logs
<1>2. ASSUME NEW c \in Byte, SkipSpace(c) \/ ScanObject(c) \/ ScanNumber(c)
                           \/ Separator(c) \/ LineFeed(c)
      PROVE  at \in Scanning /\ at' \in Scanning \cup {"flush", "done"} /\ UNCHANGED logs
  <2>1. CASE Reject
    BY <1>2, <2>1, Zenon DEF SkipSpace, ScanObject, ScanNumber, Separator, LineFeed, Reject, Fail,
                             Finish, Scanning
  <2>2. CASE ~Reject
    BY <1>2, <2>2, Zenon DEF SkipSpace, ScanObject, ScanNumber, Separator, LineFeed, Take, Move,
                             Scanning
  <2> QED BY <2>1, <2>2
<1>3. CASE EndOfInput
  <2>1. /\ at \in Scanning /\ at' \in {"separator", "flush", "done"} /\ UNCHANGED logs
    BY <1>3, Zenon DEF EndOfInput, Move, Reject, Fail, Finish, Scanning
  <2> QED BY <2>1, Zenon DEF Quiet, Before, Scanning, logs
<1>4. CASE Flush \/ MatchLimit \/ NextRecord
  <2>1. /\ at \in {"flush", "matches", "next"} /\ UNCHANGED logs
        /\ at' \in {"decision", "next", "space", "done"}
    BY <1>4, Zenon DEF Flush, MatchLimit, NextRecord, Abort, Finish
  <2> QED BY <2>1, Zenon DEF Quiet, Before, Scanning, logs
<1>5. CASE Cancel \/ UNCHANGED vars
  <2>1. UNCHANGED <<at, rec, decisions, values, out, status, result>>
    BY <1>5 DEF Cancel, vars, logs, stops
  <2> QED BY <2>1, Zenon
<1>6. ASSUME at \in Scanning, at' \in Scanning \cup {"flush", "done"}, UNCHANGED logs
      PROVE  /\ at \in Quiet /\ at' \in Quiet \cup {"done"}
             /\ UNCHANGED <<decisions, values, out>>
  BY <1>6, Zenon DEF Quiet, Before, Scanning, logs
<1> QED BY <1>1, <1>2, <1>3, <1>4, <1>5, <1>6, Zenon DEF Next, CallStep, Done

LEMMA DecisionValues ==
    ASSUME BasicInv, FollowInv, ValueInv, Decision PROVE ValueInv'
<1>1. /\ at = "decision" /\ at' \in {"value", "done"} /\ UNCHANGED <<input, req, values>>
  BY DecisionFacts, Zenon DEF source
<1>2. PICK n \in Nat : n = Len(decisions) /\ Len(decisions') = n + 1
  BY DecisionRecord, Zenon
<1>3. values \in Seq(Seq(Byte))
  BY Zenon DEF BasicInv, TypeOK
<1>4. ValuesAt("decision", n, values)
  BY <1>1, <1>2, Zenon DEF ValueInv
<1>5. ValuesAt(at', n + 1, values)
  BY <1>1, <1>3, <1>4, ValuesDecide, Zenon
<1> QED BY <1>1, <1>2, <1>5, ValueIs, Zenon

LEMMA ValueValues ==
    ASSUME BasicInv, FollowInv, CopyInv, ValueInv, Value PROVE ValueInv'
<1>1. /\ at = "value" /\ UNCHANGED <<input, req, decisions>> /\ at' \in {"output", "done"}
  BY ValueFacts, Zenon DEF source
<1>2. at \in After /\ at \notin {"start", "done"}
  BY <1>1 DEF After
<1>3. PICK r : r = Reference(input).recs[Len(decisions)]
  OBVIOUS
<1>4. /\ Len(decisions) \in Nat \ {0} /\ r.text \in Seq(Byte)
      /\ (Capture => spool = r.text) /\ (rec.compact => SourceRange = r.text)
      /\ Matched = RefMatched(r)
  BY <1>2, <1>3, Dispatched, Zenon
<1>5. PICK n \in Nat \ {0} : n = Len(decisions)
  BY <1>4, Zenon
<1>6. values \in Seq(Seq(Byte)) /\ ValuesAt("value", n, values)
  BY <1>1, <1>5, Zenon DEF BasicInv, TypeOK, ValueInv
<1>7. CASE UNCHANGED values /\ (at' = "done" \/ ~(Matched /\ req.on_value))
  <2>1. at' = "done" \/ (at' = "output" /\ ~(req.on_value /\ RefMatched(Reference(input).recs[n])))
    BY <1>1, <1>3, <1>4, <1>5, <1>7, Zenon
  <2>2. ValuesAt(at', n, values)
    BY <1>6, <2>1, ValuesSkip, Zenon
  <2> QED BY <1>1, <1>5, <1>7, <2>2, ValueIs, Zenon
<1>8. CASE /\ Matched /\ req.on_value /\ (Capture \/ RangeAvailable)
           /\ values' = Append(values,
                               IF rec.compact /\ req.range_writer THEN SourceRange ELSE spool)
  <2>1. (IF rec.compact /\ req.range_writer THEN SourceRange ELSE spool) = r.text
    BY <1>4, <1>8, Zenon DEF RangeAvailable
  <2>2. PICK x \in Seq(Byte) : x = r.text
    BY <1>4, Zenon
  <2>3. ValuesAt(at', n, Append(values, x))
    <3>1. at' # "value"
      BY <1>1
    <3>2. RefMatched(Reference(input).recs[n]) /\ x = Reference(input).recs[n].text
      BY <1>3, <1>4, <1>5, <1>8, <2>2, Zenon
    <3> QED BY <1>6, <1>8, <3>1, <3>2, ValuesGive, Zenon
  <2>4. values' = Append(values, x)
    BY <1>8, <2>1, <2>2, Zenon
  <2> QED BY <1>1, <1>5, <2>3, <2>4, ValueIs, Zenon
<1>9. Abort("UNSUPPORTED", result) => at' = "done"
  BY DEF Abort, Finish
<1> QED BY <1>7, <1>8, <1>9, Zenon DEF Value

LEMMA NextValues ==
    BasicInv /\ FollowInv /\ CopyInv /\ ValueInv /\ [Next]_vars => ValueInv'
<1> SUFFICES ASSUME BasicInv, FollowInv, CopyInv, ValueInv, [Next]_vars PROVE ValueInv'
  OBVIOUS
<1>0. UNCHANGED <<input, req>> /\ Len(decisions) \in Nat
  <2>1. decisions \in Seq(BOOLEAN)
    BY Zenon DEF BasicInv, TypeOK
  <2>2. Len(decisions) \in Nat
    BY <2>1
  <2> QED BY <2>2, SameCall, Zenon
<1>1. ASSUME UNCHANGED <<decisions, values>>,
             at' = at \/ (at' # "value" /\ at # "value" /\ at # "done")
      PROVE  ValueInv'
  <2>1. ValuesAt(at, Len(decisions), values)
    BY Zenon DEF ValueInv
  <2>2. ValuesAt(at', Len(decisions), values)
    BY <1>0, <1>1, <2>1, ValuesKeep, Zenon
  <2> QED BY <1>0, <1>1, <2>2, ValueIs, Zenon
<1>2. CASE Decision
  BY <1>2, DecisionValues, Zenon
<1>3. CASE Value
  BY <1>3, ValueValues, Zenon
<1>4. CASE Output \/ Newline \/ WriterFails
  <2>1. /\ at \in {"output", "newline"} /\ UNCHANGED <<decisions, values>>
        /\ at' \in {"newline", "matches", "done"}
    BY <1>4, Zenon DEF Output, Newline, WriterFails, Abort, Finish
  <2> QED BY <1>1, <2>1, Zenon
<1>5. CASE UNCHANGED <<at, rec, decisions, values, out, status, result>>
  BY <1>1, <1>5, Zenon
<1>6. CASE at \in Quiet /\ at' \in Quiet \cup {"done"} /\ UNCHANGED <<decisions, values, out>>
  <2>1. at' # "value" /\ at # "value" /\ at # "done"
    BY <1>6, Zenon DEF Quiet, Before, Scanning
  <2> QED BY <1>1, <1>6, <2>1, Zenon
<1> QED BY <1>2, <1>3, <1>4, <1>5, <1>6, QuietStep, Zenon

LEMMA ValueInvariant == Spec => []ValueInv
<1>1. Init => ValueInv
  <2> SUFFICES ASSUME Init PROVE ValueInv
    OBVIOUS
  <2>1. at = "start" /\ Len(decisions) = 0 /\ Len(values) = 0
    BY DEF Init
  <2>2. 1 .. 0 = {}
    OBVIOUS
  <2>3. Matches(0) = {}
    BY <2>2, Zenon DEF Matches
  <2>4. Hits(0) = 0
    BY <2>3, FS_EmptySet, Zenon DEF Hits
  <2>5. 0 <= 0 /\ 0 >= 0 - 1
    OBVIOUS
  <2> QED BY <2>1, <2>3, <2>4, <2>5, Zenon DEF ValueInv, ValuesAt
<1> QED BY <1>1, NextValues, BasicInvariant, FollowInvariant, CopyInvariant, PTL
        DEF Spec

(* For every input, every way the reader splits it and every request: the    *)
(* n-th call of on_value gets the compact text of the n-th matched record,   *)
(* from the copy of lql_json_copy_byte as from a range of the source, and no *)
(* matched record is passed over.                                            *)
THEOREM ValuesAreTheMatches == Spec => []ValuesAreMatchedRecords
<1>1. ValueInv => ValuesAreMatchedRecords
  BY Zenon DEF ValueInv, ValuesAt, ValuesAreMatchedRecords, Hits, Matches
<1> QED BY <1>1, ValueInvariant, PTL

-----------------------------------------------------------------------------
(* The texts of a sequence, one after the other *)

(* one unfolding of the recursion of FlattenSeq *)
FlatStep(ss, f, i) == IF i = 1 THEN ss[i] ELSE f[i - 1] \o ss[i]

Flat(ss) == CHOOSE f : f = [i \in 1 .. Len(ss) |-> FlatStep(ss, f, i)]

LEMMA FlatExists ==
    ASSUME NEW S, NEW ss \in Seq(Seq(S))
    PROVE  \E f \in [1 .. Len(ss) -> Seq(S)] : f = [i \in 1 .. Len(ss) |-> FlatStep(ss, f, i)]
<1> DEFINE Solves(f, k) == \A i \in 1 .. k : f[i] = FlatStep(ss, f, i)
           T == {k \in 0 .. Len(ss) : \E f \in [1 .. k -> Seq(S)] : Solves(f, k)}
<1>0. Len(ss) \in Nat
  OBVIOUS
<1>1. 0 \in T
  <2>1. PICK f : f = [i \in 1 .. 0 |-> <<>>]
    OBVIOUS
  <2>2. f \in [1 .. 0 -> Seq(S)] /\ 1 .. 0 = {}
    BY <2>1
  <2>3. Solves(f, 0)
    BY <2>2, Zenon
  <2>4. 0 \in 0 .. Len(ss)
    BY <1>0
  <2> QED BY <2>2, <2>3, <2>4, Zenon
<1>2. ASSUME NEW k \in 1 .. Len(ss), k - 1 \in T PROVE k \in T
  <2>1. PICK g \in [1 .. (k - 1) -> Seq(S)] : Solves(g, k - 1)
    BY <1>2
  <2>2. PICK y \in Seq(S) : y = ss[k]
    OBVIOUS
  <2>3. PICK v \in Seq(S) : v = FlatStep(ss, g, k)
    <3>1. CASE k = 1
      BY <2>2, <3>1 DEF FlatStep
    <3>2. CASE k # 1
      <4>1. k - 1 \in 1 .. (k - 1)
        BY <1>0, <3>2
      <4>2. PICK x \in Seq(S) : x = g[k - 1]
        BY <4>1
      <4>3. x \o y \in Seq(S)
        OBVIOUS
      <4> QED BY <2>2, <3>2, <4>2, <4>3, Zenon DEF FlatStep
    <3> QED BY <3>1, <3>2
  <2>4. PICK f : f = [i \in 1 .. k |-> IF i = k THEN v ELSE g[i]]
    OBVIOUS
  <2>5. \A i \in 1 .. k : i # k => i \in 1 .. (k - 1)
    BY <1>0
  <2>6. f \in [1 .. k -> Seq(S)] /\ f[k] = v
    BY <1>0, <2>4, <2>5
  <2>7. \A i \in 1 .. (k - 1) : f[i] = g[i]
    BY <1>0, <2>4
  <2>8. ASSUME NEW i \in 1 .. k PROVE f[i] = FlatStep(ss, f, i)
    <3>1. i # 1 => i - 1 \in 1 .. (k - 1)
      BY <1>0
    <3>2. FlatStep(ss, f, i) = FlatStep(ss, g, i)
      BY <2>7, <3>1, Zenon DEF FlatStep
    <3>3. CASE i = k
      BY <2>3, <2>6, <3>2, <3>3, Zenon
    <3>4. CASE i # k
      BY <2>1, <2>5, <2>7, <3>2, <3>4, Zenon
    <3> QED BY <3>3, <3>4
  <2>9. k \in 0 .. Len(ss)
    BY <1>0
  <2> QED BY <2>6, <2>8, <2>9
<1>3. Len(ss) \in T
  <2> HIDE DEF T
  <2>1. 0 .. Len(ss) \subseteq T
    BY <1>0, <1>1, <1>2, IntervalInduction
  <2> QED BY <1>0, <2>1
<1>4. PICK f \in [1 .. Len(ss) -> Seq(S)] : \A i \in 1 .. Len(ss) : f[i] = FlatStep(ss, f, i)
  BY <1>3
<1>5. f = [i \in 1 .. Len(ss) |-> FlatStep(ss, f, i)]
  BY <1>4
<1> QED BY <1>4, <1>5

LEMMA FlatIs ==
    ASSUME NEW S, NEW ss \in Seq(Seq(S))
    PROVE  \A i \in 1 .. Len(ss) : Flat(ss)[i] = FlatStep(ss, Flat(ss), i) /\ Flat(ss)[i] \in Seq(S)
<1> DEFINE Def(f) == [i \in 1 .. Len(ss) |-> FlatStep(ss, f, i)]
           r == Flat(ss)
<1>0. Len(ss) \in Nat
  OBVIOUS
<1>1. r = CHOOSE f : f = Def(f)
  BY DEF Flat
<1>2. \E f : f = Def(f)
  BY FlatExists
<1>3. r = Def(r)
  BY <1>1, <1>2, Zenon
<1> HIDE DEF r
<1>4. \A i \in 1 .. Len(ss) : r[i] = FlatStep(ss, r, i)
  BY <1>3
<1> DEFINE T == {k \in 0 .. Len(ss) : k # 0 => r[k] \in Seq(S)}
<1>5. 0 \in T
  BY <1>0
<1>6. ASSUME NEW k \in 1 .. Len(ss), k - 1 \in T PROVE k \in T
  <2>1. PICK y \in Seq(S) : y = ss[k]
    OBVIOUS
  <2>2. CASE k = 1
    <3>1. r[k] = y
      BY <1>4, <2>1, <2>2, Zenon DEF FlatStep
    <3> QED BY <1>0, <3>1
  <2>3. CASE k # 1
    <3>1. k - 1 # 0
      BY <2>3
    <3>2. PICK x \in Seq(S) : x = r[k - 1]
      BY <1>6, <3>1, Zenon
    <3>3. r[k] = x \o y
      BY <1>4, <2>1, <2>3, <3>2, Zenon DEF FlatStep
    <3>4. x \o y \in Seq(S) /\ k \in 0 .. Len(ss)
      BY <1>0
    <3> QED BY <3>3, <3>4, Zenon
  <2> QED BY <2>2, <2>3
<1>7. 0 .. Len(ss) \subseteq T
  <2> HIDE DEF T
  <2> QED BY <1>0, <1>5, <1>6, IntervalInduction
<1>8. ASSUME NEW i \in 1 .. Len(ss) PROVE r[i] \in Seq(S)
  <2>1. i \in 0 .. Len(ss) /\ i # 0
    BY <1>0
  <2>2. i \in T
    BY <1>7, <2>1, Zenon
  <2> QED BY <2>1, <2>2, Zenon
<1> QED BY <1>4, <1>8, Zenon DEF r

LEMMA FlattenIs ==
    ASSUME NEW S, NEW ss \in Seq(Seq(S))
    PROVE  /\ Len(ss) = 0 => FlattenSeq(ss) = <<>>
           /\ Len(ss) # 0 => FlattenSeq(ss) = Flat(ss)[Len(ss)]
           /\ FlattenSeq(ss) \in Seq(S)
<1>1. Len(ss) = 0 => FlattenSeq(ss) = ss /\ ss = <<>>
  <2>1. Len(ss) = 0 => FlattenSeq(ss) = ss
    BY Zenon DEF FlattenSeq
  <2>2. Len(ss) = 0 => ss = <<>>
    OBVIOUS
  <2> QED BY <2>1, <2>2, Zenon
<1>2. Len(ss) # 0 => FlattenSeq(ss) = Flat(ss)[Len(ss)]
  BY Zenon DEF FlattenSeq, Flat, FlatStep
<1>3. Len(ss) # 0 => Len(ss) \in 1 .. Len(ss)
  OBVIOUS
<1>4. <<>> \in Seq(S)
  OBVIOUS
<1> QED BY <1>1, <1>2, <1>3, <1>4, FlatIs, Zenon

(* One more text goes to the end. *)
LEMMA FlattenAppend ==
    ASSUME NEW S, NEW ss \in Seq(Seq(S)), NEW tt \in Seq(Seq(S)), Len(tt) = Len(ss) + 1,
           \A i \in 1 .. Len(ss) : tt[i] = ss[i]
    PROVE  FlattenSeq(tt) = FlattenSeq(ss) \o tt[Len(tt)]
<1>0. Len(ss) \in Nat /\ Len(tt) \in Nat /\ Len(tt) \in 1 .. Len(tt) /\ Len(tt) # 0
  OBVIOUS
<1>1. PICK f : f = Flat(ss)
  OBVIOUS
<1>2. PICK g : g = Flat(tt)
  OBVIOUS
<1>3. \A i \in 1 .. Len(ss) : f[i] = FlatStep(ss, f, i)
  BY <1>1, FlatIs, Zenon
<1>4. \A i \in 1 .. Len(tt) : g[i] = FlatStep(tt, g, i)
  BY <1>2, FlatIs, Zenon
<1> DEFINE T == {k \in 0 .. Len(ss) : k # 0 => f[k] = g[k]}
<1>5. 0 \in T
  BY <1>0
<1>6. ASSUME NEW k \in 1 .. Len(ss), k - 1 \in T PROVE k \in T
  <2>1. k \in 1 .. Len(tt) /\ k \in 0 .. Len(ss)
    BY <1>0
  <2>2. tt[k] = ss[k]
    OBVIOUS
  <2>3. k # 1 => k - 1 # 0
    OBVIOUS
  <2>4. k # 1 => f[k - 1] = g[k - 1]
    BY <1>6, <2>3, Zenon
  <2>5. FlatStep(ss, f, k) = FlatStep(tt, g, k)
    BY <2>2, <2>4, Zenon DEF FlatStep
  <2> QED BY <1>3, <1>4, <2>1, <2>5, Zenon
<1>7. 0 .. Len(ss) \subseteq T
  <2> HIDE DEF T
  <2> QED BY <1>0, <1>5, <1>6, IntervalInduction
<1>8. Len(ss) \in T
  <2>1. Len(ss) \in 0 .. Len(ss)
    BY <1>0
  <2> QED BY <1>7, <2>1, Zenon
<1>9. FlattenSeq(tt) = FlatStep(tt, g, Len(tt))
  BY <1>0, <1>2, <1>4, FlattenIs, Zenon
<1>10. CASE Len(ss) = 0
  <2>1. Len(tt) = 1
    BY <1>10
  <2>2. FlattenSeq(ss) = <<>>
    BY <1>10, FlattenIs, Zenon
  <2>3. FlattenSeq(tt) = tt[Len(tt)]
    BY <1>9, <2>1, Zenon DEF FlatStep
  <2>4. PICK y \in Seq(S) : y = tt[Len(tt)]
    BY <1>0
  <2>5. <<>> \o y = y
    OBVIOUS
  <2> QED BY <2>2, <2>3, <2>4, <2>5, Zenon
<1>11. CASE Len(ss) # 0
  <2>1. Len(tt) # 1 /\ Len(tt) - 1 = Len(ss)
    BY <1>0, <1>11
  <2>2. FlattenSeq(ss) = f[Len(ss)]
    BY <1>1, <1>11, FlattenIs, Zenon
  <2>3. f[Len(ss)] = g[Len(ss)]
    BY <1>8, <1>11, Zenon
  <2>4. FlattenSeq(tt) = g[Len(tt) - 1] \o tt[Len(tt)]
    BY <1>9, <2>1, Zenon DEF FlatStep
  <2> QED BY <2>1, <2>2, <2>3, <2>4, Zenon
<1> QED BY <1>10, <1>11

-----------------------------------------------------------------------------
(* The output of the first records *)

LEMMA PrefixFacts ==
    ASSUME NEW S, NEW x \in Seq(S), NEW y \in Seq(S)
    PROVE  IsPrefix(x, x) /\ IsPrefix(x, x \o y)
  BY DEF IsPrefix

LEMMA RefOutputType ==
    ASSUME NEW r, r.text \in Seq(Byte) PROVE RefOutput(r) \in Seq(OutByte)
<1>1. PICK x \in Seq(OutByte) : x = r.text
  BY DEF OutByte
<1>2. /\ Append(x, "n") \in Seq(OutByte) /\ <<>> \in Seq(OutByte)
      /\ <<"mutated", "}", "n">> \in Seq(OutByte) /\ <<"projected", "}", "n">> \in Seq(OutByte)
      /\ <<"combined", "}", "n">> \in Seq(OutByte)
  <2>1. /\ "n" \in OutByte /\ "}" \in OutByte /\ "mutated" \in OutByte
        /\ "projected" \in OutByte /\ "combined" \in OutByte
    BY Zenon DEF OutByte, Byte
  <2>2. /\ \A a \in OutByte : Append(x, a) \in Seq(OutByte)
        /\ \A a, b, c \in OutByte : <<a, b, c>> \in Seq(OutByte)
        /\ <<>> \in Seq(OutByte)
    OBVIOUS
  <2> QED BY <2>1, <2>2, Zenon
<1> QED BY <1>1, <1>2, Zenon DEF RefOutput

LEMMA OutputsFacts ==
    ASSUME NEW n \in Nat, Texts(n)
    PROVE  /\ Outputs(n) \in Seq(OutByte) /\ (n = 0 => Outputs(n) = <<>>)
           /\ Texts(n + 1) =>
                Outputs(n + 1) = Outputs(n) \o RefOutput(Reference(input).recs[n + 1])
<1> DEFINE F(m) == [i \in 1 .. m |-> RefOutput(Reference(input).recs[i])]
<1>1. ASSUME NEW m \in Nat, Texts(m)
      PROVE  /\ F(m) \in Seq(Seq(OutByte)) /\ Len(F(m)) = m
             /\ \A i \in 1 .. m : F(m)[i] = RefOutput(Reference(input).recs[i])
  <2>1. \A i \in 1 .. m : RefOutput(Reference(input).recs[i]) \in Seq(OutByte)
    BY <1>1, RefOutputType, Zenon DEF Texts
  <2> QED BY <2>1
<1>2. PICK ss \in Seq(Seq(OutByte)) :
         /\ ss = F(n) /\ Len(ss) = n
         /\ \A i \in 1 .. n : ss[i] = RefOutput(Reference(input).recs[i])
  BY <1>1, Zenon
<1>3. Outputs(n) = FlattenSeq(ss)
  BY <1>2, Zenon DEF Outputs
<1>4. Outputs(n) \in Seq(OutByte) /\ (n = 0 => Outputs(n) = <<>>)
  BY <1>2, <1>3, FlattenIs, Zenon
<1>5. ASSUME Texts(n + 1)
      PROVE  Outputs(n + 1) = Outputs(n) \o RefOutput(Reference(input).recs[n + 1])
  <2>1. n + 1 \in Nat /\ n + 1 \in 1 .. (n + 1) /\ \A i \in 1 .. n : i \in 1 .. (n + 1)
    OBVIOUS
  <2>2. PICK tt \in Seq(Seq(OutByte)) :
           /\ tt = F(n + 1) /\ Len(tt) = n + 1
           /\ \A i \in 1 .. (n + 1) : tt[i] = RefOutput(Reference(input).recs[i])
    BY <1>1, <1>5, <2>1, Zenon
  <2>3. Outputs(n + 1) = FlattenSeq(tt)
    BY <2>2, Zenon DEF Outputs
  <2>4. Len(tt) = Len(ss) + 1 /\ \A i \in 1 .. Len(ss) : tt[i] = ss[i]
    BY <1>2, <2>1, <2>2, Zenon
  <2>5. FlattenSeq(tt) = FlattenSeq(ss) \o tt[Len(tt)]
    BY <2>4, FlattenAppend, Zenon
  <2> QED BY <1>3, <2>1, <2>2, <2>3, <2>5, Zenon
<1> QED BY <1>4, <1>5, Zenon

(* The output of a record follows that of the records before it. *)
LEMMA OutputsStep ==
    ASSUME NEW n \in Nat \ {0}, Texts(n)
    PROVE  /\ n - 1 \in Nat /\ Texts(n - 1) /\ Outputs(n - 1) \in Seq(OutByte)
           /\ RefOutput(Reference(input).recs[n]) \in Seq(OutByte)
           /\ Outputs(n) = Outputs(n - 1) \o RefOutput(Reference(input).recs[n])
           /\ IsPrefix(Outputs(n - 1), Outputs(n))
<1>1. /\ n - 1 \in Nat /\ (n - 1) + 1 = n /\ n \in 1 .. n
      /\ \A i \in 1 .. (n - 1) : i \in 1 .. n
  OBVIOUS
<1>2. Texts(n - 1) /\ Reference(input).recs[n].text \in Seq(Byte)
  BY <1>1, Zenon DEF Texts
<1>3. RefOutput(Reference(input).recs[n]) \in Seq(OutByte)
  BY <1>2, RefOutputType, Zenon
<1>4. Outputs(n - 1) \in Seq(OutByte)
  BY <1>1, <1>2, OutputsFacts, Zenon
<1>5. Texts((n - 1) + 1) => Outputs((n - 1) + 1)
                              = Outputs(n - 1) \o RefOutput(Reference(input).recs[(n - 1) + 1])
  BY <1>1, <1>2, OutputsFacts, Zenon
<1>6. Outputs(n) = Outputs(n - 1) \o RefOutput(Reference(input).recs[n])
  BY <1>1, <1>5, Zenon
<1>7. IsPrefix(Outputs(n - 1), Outputs(n))
  BY <1>3, <1>4, <1>6, PrefixFacts, Zenon
<1> QED BY <1>1, <1>2, <1>3, <1>4, <1>6, <1>7, Zenon

LEMMA OutputsNone == Outputs(0 - 1) = Outputs(0)
<1>1. 1 .. 0 = {} /\ 1 .. (0 - 1) = {}
  OBVIOUS
<1>2. \A S, T : S = T => [i \in S |-> RefOutput(Reference(input).recs[i])]
                           = [i \in T |-> RefOutput(Reference(input).recs[i])]
  BY Zenon
<1> QED BY <1>1, <1>2, Zenon DEF Outputs

LEMMA OutIs ==
    ASSUME UNCHANGED <<input, req>>, out' \in Seq(OutByte), Texts(Len(decisions')),
           WrittenAt(at', Len(decisions'), out'),
           at' = "output" /\ req.on_value /\ Matched' => Capture \/ rec'.compact,
           at' = "done" =>
             EndedAt(Len(decisions'), out', status', result'.stopped_early, result'.stop_reason)
    PROVE  OutInv'
<1>1. input' = input /\ req' = req
  OBVIOUS
<1>2. Texts(Len(decisions))' /\ WrittenAt(at, Len(decisions), out)' /\ Capture' = Capture
  BY <1>1, Zenon DEF Texts, WrittenAt, Outputs, Deliverable, Undeliverable, RefOutput, RefMatched,
                     Capture
<1>3. at' = "done" =>
        EndedAt(Len(decisions), out, status, result.stopped_early, result.stop_reason)'
  BY <1>1, ZenonT(60) DEF EndedAt, Outputs, Undeliverable, RefOutput, RefMatched, Capture
<1> QED BY <1>1, <1>2, <1>3, Zenon DEF OutInv

-----------------------------------------------------------------------------
(* The output follows the records *)

(* A call that ends where everything is written. *)
LEMMA EndsWhole ==
    ASSUME NEW n \in Nat, Texts(n), NEW o, o = Outputs(n), Deliverable(n), NEW st, NEW early, NEW reason
    PROVE  EndedAt(n, o, st, early, reason)
<1>1. Outputs(n) \in Seq(OutByte)
  BY OutputsFacts, Zenon
<1>2. IsPrefix(Outputs(n), Outputs(n))
  BY <1>1, PrefixFacts, Zenon
<1>3. IsPrefix(Outputs(n - 1), Outputs(n))
  <2>1. CASE n = 0
    BY <1>2, <2>1, OutputsNone, Zenon
  <2>2. CASE n # 0
    <3>1. n \in Nat \ {0}
      BY <2>2
    <3> QED BY <3>1, OutputsStep, Zenon
  <2> QED BY <2>1, <2>2
<1> QED BY <1>2, <1>3, Zenon DEF EndedAt, Deliverable

(* A call that ends with nothing written of the last record. *)
LEMMA EndsBefore ==
    ASSUME NEW n \in Nat \ {0}, Texts(n), NEW o, o = Outputs(n - 1), Deliverable(n - 1),
           NEW st, NEW early, NEW reason,
           st = "OK" => early /\ reason = "CALLBACK"
    PROVE  EndedAt(n, o, st, early, reason)
<1>1. /\ Outputs(n - 1) \in Seq(OutByte) /\ IsPrefix(Outputs(n - 1), Outputs(n))
  BY OutputsStep, Zenon
<1>2. IsPrefix(Outputs(n - 1), Outputs(n - 1))
  BY <1>1, PrefixFacts, Zenon
<1>3. \A i \in 1 .. n : i = n \/ i \in 1 .. (n - 1)
  OBVIOUS
<1> QED BY <1>1, <1>2, <1>3, Zenon DEF EndedAt, Deliverable

(* A call that ends with a part of a record written. *)
LEMMA EndsWithin ==
    ASSUME NEW n \in Nat \ {0}, Deliverable(n), NEW o, NEW st, NEW early, NEW reason, st # "OK",
           IsPrefix(Outputs(n - 1), o), IsPrefix(o, Outputs(n))
    PROVE  EndedAt(n, o, st, early, reason)
  BY Zenon DEF EndedAt, Deliverable

LEMMA QuietOutput ==
    ASSUME BasicInv, OutInv, UNCHANGED <<input, req, decisions, out>>,
           at \in Quiet, at' \in Quiet \cup {"done"}
    PROVE  OutInv'
<1>1. decisions \in Seq(BOOLEAN)
  BY Zenon DEF BasicInv, TypeOK
<1>2. PICK n \in Nat : n = Len(decisions)
  BY <1>1
<1>3. out \in Seq(OutByte) /\ Texts(n) /\ out = Outputs(n) /\ Deliverable(n)
  BY <1>2, Zenon DEF OutInv, WrittenAt
<1>4. at' \notin {"value", "output", "newline"}
  BY Zenon DEF Quiet, Before, Scanning
<1>5. WrittenAt(at', n, out)
  BY <1>3, <1>4, Zenon DEF WrittenAt
<1>6. EndedAt(n, out, status', result'.stopped_early, result'.stop_reason)
  BY <1>3, EndsWhole, Zenon
<1> QED BY <1>2, <1>3, <1>4, <1>5, <1>6, OutIs, Zenon

LEMMA StayOutput ==
    ASSUME OutInv, UNCHANGED <<input, req, at, rec, decisions, out, status, result>> PROVE OutInv'
<1>1. Matched' => Matched
  BY Zenon DEF Matched
<1> QED BY <1>1, OutIs, Zenon DEF OutInv

LEMMA DecisionOutput ==
    ASSUME BasicInv, FollowInv, CopyInv, OutInv, Decision PROVE OutInv'
<1>1. /\ at = "decision" /\ at' \in {"value", "done"} /\ UNCHANGED <<input, req, rec, out>>
      /\ at' = "done" /\ status' = "OK" => result'.stopped_early /\ result'.stop_reason = "CALLBACK"
  BY DecisionFacts, Zenon DEF source
<1>2. PICK n \in Nat : n = Len(decisions) /\ Len(decisions') = n + 1
  BY DecisionRecord, Zenon
<1>3. at \in Quiet
  BY <1>1, Zenon DEF Quiet, Before
<1>4. out \in Seq(OutByte) /\ Texts(n) /\ out = Outputs(n) /\ Deliverable(n)
  BY <1>2, <1>3, Zenon DEF OutInv, WrittenAt
<1>5. n + 1 \in Nat \ {0} /\ (n + 1) - 1 = n /\ \A i \in 1 .. (n + 1) : i \in 1 .. n \/ i = n + 1
  OBVIOUS
<1>6. Texts(n + 1)
  <2>1. input \in Seq(Byte) /\ rec \in Rec /\ Len(input) \in Nat
    BY SourceTypes DEF BasicInv, TypeOK
  <2>2. PICK t \in Nat : t = rec.start
    BY <2>1, RecFields, Zenon
  <2>3. PICK e \in (t + 1) .. Len(input) : e = ValueEnd(input, t)
    BY <2>2, DecisionRecord, Zenon
  <2>4. Reference(input).recs[n + 1] = RecordAt(input, t)
    BY <1>2, <2>2, DecisionRecord, Zenon
  <2>5. t \in 0 .. Len(input) /\ e \in t .. Len(input)
    BY <2>1
  <2>6. Compacted(input, t)[e] \in Seq(Byte)
    BY <2>1, <2>5, CompactedFacts, Zenon
  <2>7. Reference(input).recs[n + 1].text \in Seq(Byte)
    BY <2>3, <2>4, <2>6, RecordAtText, Zenon
  <2> QED BY <1>4, <1>5, <2>7, Zenon DEF Texts
<1>7. WrittenAt(at', n + 1, out)
  <2>1. at' \notin Quiet \cup {"newline"}
    BY <1>1, Zenon DEF Quiet, Before, Scanning
  <2> QED BY <1>4, <1>5, <2>1, Zenon DEF WrittenAt
<1>8. at' = "done" => EndedAt(n + 1, out, status', result'.stopped_early, result'.stop_reason)
  <2> SUFFICES ASSUME at' = "done"
               PROVE  EndedAt(n + 1, out, status', result'.stopped_early, result'.stop_reason)
    OBVIOUS
  <2>1. out = Outputs((n + 1) - 1) /\ Deliverable((n + 1) - 1)
    BY <1>4, <1>5, Zenon
  <2> QED BY <1>1, <1>5, <1>6, <2>1, EndsBefore, Zenon
<1>9. at' # "output"
  BY <1>1, Zenon
<1> QED BY <1>1, <1>2, <1>4, <1>6, <1>7, <1>8, <1>9, OutIs, Zenon

(* What holds when the record in dispatch is about to be written. *)
LEMMA BeforeOutput ==
    ASSUME BasicInv, FollowInv, CopyInv, OutInv, at \in {"value", "output"}
    PROVE  /\ Len(decisions) \in Nat \ {0} /\ Texts(Len(decisions)) /\ out \in Seq(OutByte)
           /\ out = Outputs(Len(decisions) - 1) /\ Deliverable(Len(decisions) - 1)
<1>1. at \in After
  BY Zenon DEF After
<1>2. Len(decisions) \in Nat \ {0}
  BY <1>1, Dispatched, Zenon
<1> QED BY <1>2, Zenon DEF OutInv, WrittenAt

LEMMA ValueOutput ==
    ASSUME BasicInv, FollowInv, CopyInv, OutInv, Value PROVE OutInv'
<1>1. /\ at = "value" /\ at' \in {"output", "done"} /\ UNCHANGED <<input, req, rec, decisions, out>>
      /\ at' = "done" /\ status' = "OK" => result'.stopped_early /\ result'.stop_reason = "CALLBACK"
  BY ValueFacts, Zenon DEF source
<1>2. PICK n \in Nat \ {0} : n = Len(decisions)
  BY <1>1, BeforeOutput, Zenon
<1>3. Texts(n) /\ out \in Seq(OutByte) /\ out = Outputs(n - 1) /\ Deliverable(n - 1)
  BY <1>1, <1>2, BeforeOutput, Zenon
<1>4. WrittenAt(at', n, out)
  <2>1. at' \notin Quiet \cup {"newline"}
    BY <1>1, Zenon DEF Quiet, Before, Scanning
  <2> QED BY <1>3, <2>1, Zenon DEF WrittenAt
<1>5. at' = "done" => EndedAt(n, out, status', result'.stopped_early, result'.stop_reason)
  BY <1>1, <1>3, EndsBefore, Zenon
<1>6. at' = "output" /\ req.on_value /\ Matched' => Capture \/ rec'.compact
  <2>1. Matched' <=> Matched
    BY <1>1, Zenon DEF Matched
  <2>2. Abort("UNSUPPORTED", result) => at' = "done"
    BY DEF Abort, Finish
  <2>3. at' = "output" /\ Matched /\ req.on_value => Capture \/ RangeAvailable
    BY <2>2, Zenon DEF Value
  <2> QED BY <1>1, <2>1, <2>3, Zenon DEF RangeAvailable
<1> QED BY <1>1, <1>2, <1>3, <1>4, <1>5, <1>6, OutIs, Zenon

(* What the dispatch knows of the record it is about to write. *)
LEMMA OutputKnows ==
    ASSUME BasicInv, FollowInv, CopyInv, AdmitInv, OutInv, at = "output",
           NEW r, r = Reference(input).recs[Len(decisions)]
    PROVE  /\ r.object = rec.object /\ r.hit = (rec.object /\ rec.hit) /\ r.compact = rec.compact
           /\ r.text \in Seq(Byte) /\ (Capture => spool = r.text)
           /\ (rec.compact => SourceRange = r.text)
           /\ Matched = RefMatched(r)
           /\ req.output_mode \in Mode
           /\ req.output_mode \in Transforms => Capture
           /\ ~Capture /\ req.output_mode = "selected" => req.input_is_compact /\ req.range_writer
           /\ ~Capture /\ ~r.compact => ~(req.on_value /\ RefMatched(r))
<1>1. at \in After /\ at \notin {"start", "done"}
  BY DEF After
<1>2. /\ r.object = rec.object /\ r.hit = (rec.object /\ rec.hit) /\ r.compact = rec.compact
      /\ r.text \in Seq(Byte) /\ (Capture => spool = r.text)
      /\ (rec.compact => SourceRange = r.text) /\ Matched = RefMatched(r)
  BY <1>1, Dispatched, Zenon
<1>3. req.output_mode \in Mode
  <2>1. req \in Request
    BY SourceTypes DEF BasicInv
  <2> QED BY <2>1 DEF Request
<1>4. Admitted
  BY <1>1, Zenon DEF AdmitInv
<1>5. req.output_mode \in Transforms \cup {"selected"} => req.output_mode # "decision"
  BY Zenon DEF Transforms
<1>6. /\ req.output_mode \in Transforms => Capture
      /\ ~Capture /\ req.output_mode = "selected" => req.input_is_compact /\ req.range_writer
  BY <1>4, <1>5, Zenon DEF Admitted, Capture
<1>7. req.on_value /\ Matched => Capture \/ rec.compact
  BY Zenon DEF OutInv
<1>8. ~Capture /\ ~r.compact => ~(req.on_value /\ RefMatched(r))
  BY <1>2, <1>7, Zenon
<1> QED BY <1>2, <1>3, <1>6, <1>8, Zenon

(* A record of which nothing is written has no output. *)
LEMMA NothingIs ==
    ASSUME BasicInv, FollowInv, CopyInv, AdmitInv, OutInv, at = "output",
           NEW r, r = Reference(input).recs[Len(decisions)],
           ~Wanted \/ (~Refused /\ ~Emitted)
    PROVE  RefOutput(r) = <<>> /\ ~Undeliverable(r)
<1>1. /\ r.object = rec.object /\ r.hit = (rec.object /\ rec.hit)
      /\ Matched = RefMatched(r) /\ req.output_mode \in Mode
      /\ req.output_mode \in Transforms => Capture
      /\ ~Capture /\ ~r.compact => ~(req.on_value /\ RefMatched(r))
  BY OutputKnows, Zenon
<1>2. CASE ~Wanted
  <2>1. ~RefMatched(r) /\ req.matched_only
    BY <1>1, <1>2, Zenon DEF Wanted
  <2> QED BY <2>1, Zenon DEF RefOutput, Undeliverable
<1>3. CASE ~Refused /\ ~Emitted /\ req.output_mode = "decision"
  BY <1>1, <1>3, Zenon DEF RefOutput, Undeliverable
<1>4. CASE /\ ~Refused /\ ~Emitted /\ req.output_mode # "decision"
  <2>1. req.output_mode \in {"projection", "projection_then_mutation"} /\ ~rec.hit
    BY <1>4, Zenon DEF Emitted
  <2>2. ~r.hit /\ r.object /\ Capture
    BY <1>1, <1>4, <2>1, Zenon DEF Refused, Transforms
  <2>3. RefOutput(r) = <<>>
    BY <2>1, <2>2, Zenon DEF RefOutput
  <2> QED BY <2>2, <2>3, Zenon DEF Undeliverable
<1> QED BY <1>2, <1>3, <1>4

LEMMA ThreeLong ==
    ASSUME NEW S, NEW v \in Seq(S), Len(v) = 2, NEW c \in S
    PROVE  Append(v, c) = <<v[1], v[2], c>>
<1>1. \A u \in Seq(S) : Len(u) = 3 => u = <<u[1], u[2], u[3]>>
  OBVIOUS
<1>2. /\ Append(v, c) \in Seq(S) /\ Len(Append(v, c)) = 3 /\ Append(v, c)[1] = v[1]
      /\ Append(v, c)[2] = v[2] /\ Append(v, c)[3] = c
  OBVIOUS
<1> QED BY <1>1, <1>2, Zenon

LEMMA TwoAndOne ==
    ASSUME NEW S, NEW a \in S, NEW b \in S, NEW c \in S
    PROVE  <<a, b>> \in Seq(S) /\ Append(<<a, b>>, c) = <<a, b, c>>
<1>1. <<a, b>> \in Seq(S) /\ Len(<<a, b>>) = 2 /\ <<a, b>>[1] = a /\ <<a, b>>[2] = b
  OBVIOUS
<1>2. PICK v \in Seq(S) : v = <<a, b>> /\ Len(v) = 2 /\ v[1] = a /\ v[2] = b
  BY <1>1, Zenon
<1>3. Append(v, c) = <<v[1], v[2], c>>
  BY <1>2, ThreeLong, Zenon
<1> QED BY <1>1, <1>2, <1>3, Zenon

(* The text that is written, with a line feed, is the output of the record. *)
LEMMA RenderedIs ==
    ASSUME BasicInv, FollowInv, CopyInv, AdmitInv, OutInv, at = "output",
           NEW r, r = Reference(input).recs[Len(decisions)],
           Wanted, ~Refused, Emitted, ~NoRange
    PROVE  /\ Rendered \in Seq(OutByte) /\ RefOutput(r) = Append(Rendered, "n")
           /\ ~Undeliverable(r)
<1>1. /\ r.object = rec.object /\ r.hit = (rec.object /\ rec.hit) /\ r.compact = rec.compact
      /\ r.text \in Seq(Byte) /\ (Capture => spool = r.text)
      /\ (rec.compact => SourceRange = r.text)
      /\ Matched = RefMatched(r)
      /\ req.output_mode \in Mode
      /\ req.output_mode \in Transforms => Capture
      /\ ~Capture /\ req.output_mode = "selected" => req.input_is_compact /\ req.range_writer
      /\ ~Capture /\ ~r.compact => ~(req.on_value /\ RefMatched(r))
  BY OutputKnows, Zenon
<1>2. /\ req.output_mode # "decision" /\ ~(req.matched_only /\ ~RefMatched(r))
      /\ req.output_mode \in {"projection", "projection_then_mutation"} => r.hit /\ r.object
      /\ req.output_mode = "mutation" /\ RefMatched(r) => r.object
      /\ ~Capture => req.output_mode = "selected" /\ rec.compact
  <2>1. req.output_mode # "decision" /\ ~(req.matched_only /\ ~RefMatched(r))
    BY <1>1, Zenon DEF Emitted, Wanted
  <2>2. /\ req.output_mode \in {"projection", "projection_then_mutation"} => r.hit /\ r.object
        /\ req.output_mode = "mutation" /\ RefMatched(r) => r.object
    BY <1>1, Zenon DEF Emitted, Refused
  <2>3. ~Capture => req.output_mode = "selected" /\ rec.compact
    <3>1. ~Capture => req.output_mode = "selected"
      BY <1>1, <2>1, Zenon DEF Mode, Transforms
    <3> QED BY <1>1, <3>1, Zenon DEF NoRange, RangeAvailable
  <2> QED BY <2>1, <2>2, <2>3, Zenon
<1>3. ~Undeliverable(r)
  BY <1>1, <1>2, Zenon DEF Undeliverable
<1>4. (IF Capture THEN spool ELSE SourceRange) = r.text
  BY <1>1, <1>2, Zenon
<1>5. /\ "}" \in OutByte /\ "n" \in OutByte /\ "mutated" \in OutByte /\ "projected" \in OutByte
      /\ "combined" \in OutByte
  BY Zenon DEF OutByte, Byte
<1>6. /\ \A a, b \in OutByte : <<a, b>> \in Seq(OutByte)
      /\ \A a, b, c \in OutByte : Append(<<a, b>>, c) = <<a, b, c>>
  <2> SUFFICES ASSUME NEW a \in OutByte, NEW b \in OutByte, NEW c \in OutByte
               PROVE  <<a, b>> \in Seq(OutByte) /\ Append(<<a, b>>, c) = <<a, b, c>>
    OBVIOUS
  <2> QED BY TwoAndOne
<1>7. r.text \in Seq(OutByte)
  BY <1>1 DEF OutByte
<1>8. CASE req.output_mode = "selected"
  <2>1. Rendered = r.text
    BY <1>4, <1>8, Zenon DEF Rendered
  <2>2. RefOutput(r) = Append(r.text, "n")
    BY <1>2, <1>8, Zenon DEF RefOutput
  <2> QED BY <1>3, <1>7, <2>1, <2>2, Zenon
<1>9. CASE req.output_mode = "projection"
  <2>1. Rendered = <<"projected", "}">>
    BY <1>9, Zenon DEF Rendered
  <2>2. RefOutput(r) = <<"projected", "}", "n">>
    BY <1>2, <1>9, Zenon DEF RefOutput
  <2> QED BY <1>3, <1>5, <1>6, <2>1, <2>2, Zenon
<1>10. CASE req.output_mode = "mutation" /\ Matched
  <2>1. Rendered = <<"mutated", "}">>
    BY <1>10, Zenon DEF Rendered
  <2>2. RefOutput(r) = <<"mutated", "}", "n">>
    BY <1>1, <1>2, <1>10, Zenon DEF RefOutput
  <2> QED BY <1>3, <1>5, <1>6, <2>1, <2>2, Zenon
<1>11. CASE req.output_mode = "mutation" /\ ~Matched
  <2>1. Rendered = r.text
    BY <1>4, <1>11, Zenon DEF Rendered
  <2>2. RefOutput(r) = Append(r.text, "n")
    BY <1>1, <1>2, <1>11, Zenon DEF RefOutput
  <2> QED BY <1>3, <1>7, <2>1, <2>2, Zenon
<1>12. CASE req.output_mode = "projection_then_mutation" /\ Matched
  <2>1. Rendered = <<"combined", "}">>
    BY <1>12, Zenon DEF Rendered
  <2>2. RefOutput(r) = <<"combined", "}", "n">>
    BY <1>1, <1>2, <1>12, Zenon DEF RefOutput
  <2> QED BY <1>3, <1>5, <1>6, <2>1, <2>2, Zenon
<1>13. CASE req.output_mode = "projection_then_mutation" /\ ~Matched
  <2>1. Rendered = <<"projected", "}">>
    BY <1>13, Zenon DEF Rendered
  <2>2. RefOutput(r) = <<"projected", "}", "n">>
    BY <1>1, <1>2, <1>13, Zenon DEF RefOutput
  <2> QED BY <1>3, <1>5, <1>6, <2>1, <2>2, Zenon
<1> QED BY <1>1, <1>2, <1>8, <1>9, <1>10, <1>11, <1>12, <1>13, Zenon DEF Mode

LEMMA PrefixPoints ==
    ASSUME NEW S, NEW x \in Seq(S), NEW y \in Seq(S), Len(x) <= Len(y),
           \A i \in 1 .. Len(x) : x[i] = y[i]
    PROVE  IsPrefix(x, y)
<1>1. SubSeq(x, 1, Len(x)) = SubSeq(y, 1, Len(x))
  OBVIOUS
<1> QED BY <1>1, Zenon DEF IsPrefix

LEMMA PrefixAfter ==
    ASSUME NEW S, NEW o \in Seq(S), NEW y \in Seq(S), NEW z \in Seq(S), Len(y) <= Len(z),
           \A i \in 1 .. Len(y) : y[i] = z[i]
    PROVE  IsPrefix(o \o y, o \o z)
<1>1. /\ o \o y \in Seq(S) /\ Len(o \o y) = Len(o) + Len(y)
      /\ o \o z \in Seq(S) /\ Len(o \o z) = Len(o) + Len(z)
  OBVIOUS
<1>2. Len(o \o y) <= Len(o \o z)
  BY <1>1
<1>3. ASSUME NEW i \in 1 .. Len(o \o y) PROVE (o \o y)[i] = (o \o z)[i]
  <2>1. CASE i <= Len(o)
    BY <1>1, <2>1
  <2>2. CASE i > Len(o)
    <3>1. i - Len(o) \in 1 .. Len(y) /\ Len(o) + (i - Len(o)) = i
      BY <1>1, <2>2
    <3>2. (o \o y)[i] = y[i - Len(o)] /\ (o \o z)[i] = z[i - Len(o)]
      BY <1>1, <2>2
    <3> QED BY <3>1, <3>2, Zenon
  <2> QED BY <1>1, <2>1, <2>2
<1> QED BY <1>1, <1>2, <1>3, PrefixPoints, Zenon

(* A text, and a line feed, go after what was written. *)
LEMMA WriteFacts ==
    ASSUME NEW S, NEW o \in Seq(S), NEW x \in Seq(S), NEW c \in S
    PROVE  /\ o \o x \in Seq(S) /\ IsPrefix(o, o \o x)
           /\ Append(o \o x, c) = o \o Append(x, c)
           /\ Append(o, c) \in Seq(S) /\ IsPrefix(o, Append(o, c))
<1>1. o \o x \in Seq(S) /\ IsPrefix(o, o \o x)
  BY PrefixFacts
<1>2. Append(o \o x, c) = o \o Append(x, c)
  OBVIOUS
<1>3. Append(o, c) \in Seq(S) /\ IsPrefix(o, Append(o, c))
  BY DEF IsPrefix
<1> QED BY <1>1, <1>2, <1>3

(* A part of a text goes after what was written. *)
LEMMA PartFacts ==
    ASSUME NEW S, NEW o \in Seq(S), NEW x \in Seq(S), NEW c \in S, NEW k \in 0 .. (Len(x) - 1)
    PROVE  /\ o \o SubSeq(x, 1, k) \in Seq(S)
           /\ IsPrefix(o, o \o SubSeq(x, 1, k))
           /\ IsPrefix(o \o SubSeq(x, 1, k), o \o Append(x, c))
<1>1. PICK y : y = SubSeq(x, 1, k)
  OBVIOUS
<1>2. PICK z : z = Append(x, c)
  OBVIOUS
<1>3. /\ y \in Seq(S) /\ Len(y) = k /\ \A i \in 1 .. k : y[i] = x[i]
      /\ z \in Seq(S) /\ Len(z) = Len(x) + 1 /\ \A i \in 1 .. Len(x) : z[i] = x[i]
  BY <1>1, <1>2
<1>4. o \o y \in Seq(S) /\ IsPrefix(o, o \o y) /\ o \o z \in Seq(S)
  BY <1>3, PrefixFacts
<1>5. IsPrefix(o \o y, o \o z)
  <2>1. k \in Nat /\ k < Len(x) /\ \A i \in 1 .. k : i \in 1 .. Len(x)
    OBVIOUS
  <2>2. Len(y) <= Len(z)
    BY <1>3, <2>1
  <2>3. \A i \in 1 .. Len(y) : y[i] = z[i]
    BY <1>3, <2>1, Zenon
  <2> QED BY <1>3, <2>2, <2>3, PrefixAfter, Zenon
<1> QED BY <1>1, <1>2, <1>4, <1>5, Zenon

LEMMA OutputOutput ==
    ASSUME BasicInv, FollowInv, CopyInv, AdmitInv, OutInv, Output PROVE OutInv'
<1>1. /\ at = "output" /\ UNCHANGED <<input, req, rec, decisions>>
  BY Zenon DEF Output, source
<1>2. PICK n \in Nat \ {0} : n = Len(decisions)
  BY <1>1, BeforeOutput, Zenon
<1>3. Texts(n) /\ out \in Seq(OutByte) /\ out = Outputs(n - 1) /\ Deliverable(n - 1)
  BY <1>1, <1>2, BeforeOutput, Zenon
<1>4. PICK r : r = Reference(input).recs[n]
  OBVIOUS
<1>5. /\ Outputs(n) = Outputs(n - 1) \o RefOutput(r)
      /\ RefOutput(r) \in Seq(OutByte)
  BY <1>3, <1>4, OutputsStep, Zenon
<1>6. ~Undeliverable(r) => Deliverable(n)
  <2>1. \A i \in 1 .. n : i = n \/ i \in 1 .. (n - 1)
    OBVIOUS
  <2> QED BY <1>3, <1>4, <2>1, Zenon DEF Deliverable
<1>7. CASE (~Wanted \/ (~Refused /\ ~Emitted)) /\ at' = "matches" /\ out' = out
  <2>1. RefOutput(r) = <<>> /\ ~Undeliverable(r)
    BY <1>1, <1>2, <1>4, <1>7, NothingIs, Zenon
  <2>2. out \o <<>> = out
    BY <1>3
  <2>3. out' = Outputs(n) /\ Deliverable(n)
    BY <1>3, <1>5, <1>6, <1>7, <2>1, <2>2, Zenon
  <2>4. WrittenAt(at', n, out')
    BY <1>7, <2>3, Zenon DEF WrittenAt
  <2> QED BY <1>1, <1>2, <1>3, <1>7, <2>4, OutIs, Zenon
<1>8. ASSUME NEW st \in {"JSON_ERROR", "UNSUPPORTED"}, Abort(st, result), out' = out
      PROVE  OutInv'
  <2>1. at' = "done" /\ status' = st
    <3>1. st \in Status /\ Finish(st, result, FALSE, FALSE) /\ at # "done"
      BY <1>1, <1>8 DEF Abort, Status
    <3> QED BY <3>1, FailFacts
  <2>2. status' # "OK"
    BY <2>1
  <2>3. EndedAt(n, out, status', result'.stopped_early, result'.stop_reason)
    BY <1>3, <2>2, EndsBefore, Zenon
  <2>4. WrittenAt(at', n, out)
    BY <2>1, Zenon DEF WrittenAt, Quiet, Before, Scanning
  <2> QED BY <1>1, <1>2, <1>3, <1>8, <2>1, <2>3, <2>4, OutIs, Zenon
<1>9. CASE /\ Wanted /\ ~Refused /\ Emitted /\ ~NoRange
           /\ out' = out \o Rendered /\ at' = "newline"
  <2>1. Rendered \in Seq(OutByte) /\ RefOutput(r) = Append(Rendered, "n") /\ ~Undeliverable(r)
    BY <1>1, <1>2, <1>4, <1>9, RenderedIs, Zenon
  <2>2. "n" \in OutByte
    BY DEF OutByte, Byte
  <2>3. /\ out \o Rendered \in Seq(OutByte) /\ IsPrefix(out, out \o Rendered)
        /\ Append(out \o Rendered, "n") = out \o Append(Rendered, "n")
    <3>1. PICK x \in Seq(OutByte) : x = Rendered
      BY <2>1, Zenon
    <3>2. PICK o \in Seq(OutByte) : o = out
      BY <1>3, Zenon
    <3>3. /\ o \o x \in Seq(OutByte) /\ IsPrefix(o, o \o x)
          /\ Append(o \o x, "n") = o \o Append(x, "n")
      <4>1. PICK c \in OutByte : c = "n"
        BY <2>2, Zenon
      <4>2. /\ o \o x \in Seq(OutByte) /\ IsPrefix(o, o \o x)
            /\ Append(o \o x, c) = o \o Append(x, c)
        <5>1. o \o x \in Seq(OutByte) /\ IsPrefix(o, o \o x)
          BY PrefixFacts
        <5>2. Append(o \o x, c) = o \o Append(x, c)
          OBVIOUS
        <5> QED BY <5>1, <5>2, Zenon
      <4> QED BY <4>1, <4>2, Zenon
    <3> QED BY <3>1, <3>2, <3>3, Zenon
  <2>4. Append(out', "n") = Outputs(n)
    BY <1>3, <1>5, <1>9, <2>1, <2>3, Zenon
  <2>5. WrittenAt(at', n, out')
    BY <1>3, <1>6, <1>9, <2>1, <2>3, <2>4, Zenon DEF WrittenAt, Quiet, Before, Scanning
  <2> QED BY <1>1, <1>2, <1>3, <1>9, <2>3, <2>5, OutIs, Zenon
<1> QED BY <1>7, <1>8, <1>9, Zenon DEF Output

(* What holds when only the line feed of the record is left to be written. *)
LEMMA NewlineKnows ==
    ASSUME BasicInv, FollowInv, CopyInv, OutInv, at = "newline"
    PROVE  /\ Len(decisions) \in Nat \ {0} /\ Texts(Len(decisions)) /\ out \in Seq(OutByte)
           /\ Append(out, "n") = Outputs(Len(decisions)) /\ Deliverable(Len(decisions))
           /\ IsPrefix(Outputs(Len(decisions) - 1), out)
           /\ Append(out, "n") \in Seq(OutByte) /\ IsPrefix(out, Append(out, "n"))
<1>1. at \in After
  BY Zenon DEF After
<1>2. Len(decisions) \in Nat \ {0}
  BY <1>1, Dispatched, Zenon
<1>3. out \in Seq(OutByte) /\ "n" \in OutByte
  BY DEF OutInv, OutByte, Byte
<1>4. Append(out, "n") \in Seq(OutByte) /\ IsPrefix(out, Append(out, "n"))
  BY <1>3, WriteFacts, Zenon
<1> QED BY <1>2, <1>4, Zenon DEF OutInv, WrittenAt

LEMMA NewlineOutput ==
    ASSUME BasicInv, FollowInv, CopyInv, OutInv, Newline PROVE OutInv'
<1>1. /\ at = "newline" /\ at' = "matches" /\ out' = Append(out, "n")
      /\ UNCHANGED <<input, req, rec, decisions>>
  BY Zenon DEF Newline, source
<1>2. WrittenAt(at', Len(decisions), out')
  BY <1>1, NewlineKnows, Zenon DEF WrittenAt
<1> QED BY <1>1, <1>2, NewlineKnows, OutIs, Zenon

LEMMA WriterFailsOutput ==
    ASSUME BasicInv, FollowInv, CopyInv, AdmitInv, OutInv, WriterFails PROVE OutInv'
<1>1. /\ at \in {"output", "newline"} /\ UNCHANGED <<input, req, rec, decisions>>
  BY Zenon DEF WriterFails, source
<1>2. PICK st \in {"IO_ERROR", "STOP"} : Abort(st, result)
  BY Zenon DEF WriterFails
<1>3. at' = "done" /\ status' # "OK"
  <2>1. st \in Status /\ Finish(st, result, FALSE, FALSE) /\ at # "done"
    BY <1>1, <1>2 DEF Abort, Status
  <2>2. at' = "done" /\ status' = st
    BY <2>1, FailFacts
  <2> QED BY <2>2
<1>4. PICK n \in Nat \ {0} : n = Len(decisions)
  BY <1>1, BeforeOutput, NewlineKnows, Zenon
<1>5. ASSUME Texts(n), out' \in Seq(OutByte), Deliverable(n), IsPrefix(Outputs(n - 1), out'),
             IsPrefix(out', Outputs(n))
      PROVE  OutInv'
  <2>1. EndedAt(n, out', status', result'.stopped_early, result'.stop_reason)
    BY <1>3, <1>5, EndsWithin, Zenon
  <2>2. WrittenAt(at', n, out')
    BY <1>3, Zenon DEF WrittenAt, Quiet, Before, Scanning
  <2> QED BY <1>1, <1>3, <1>4, <1>5, <2>1, <2>2, OutIs, Zenon
<1>6. CASE /\ at = "output" /\ Wanted /\ ~Refused /\ Emitted /\ ~NoRange
           /\ \E k \in 0 .. (Len(Rendered) - 1) : out' = out \o SubSeq(Rendered, 1, k)
  <2>1. Texts(n) /\ out \in Seq(OutByte) /\ out = Outputs(n - 1) /\ Deliverable(n - 1)
    BY <1>4, <1>6, BeforeOutput, Zenon
  <2>2. PICK r : r = Reference(input).recs[n]
    OBVIOUS
  <2>3. Rendered \in Seq(OutByte) /\ RefOutput(r) = Append(Rendered, "n") /\ ~Undeliverable(r)
    BY <1>4, <1>6, <2>2, RenderedIs, Zenon
  <2>4. Deliverable(n)
    <3>1. \A i \in 1 .. n : i = n \/ i \in 1 .. (n - 1)
      OBVIOUS
    <3> QED BY <2>1, <2>2, <2>3, <3>1, Zenon DEF Deliverable
  <2>5. Outputs(n) = out \o Append(Rendered, "n")
    BY <2>1, <2>2, <2>3, OutputsStep, Zenon
  <2>6. "n" \in OutByte
    BY DEF OutByte, Byte
  <2>7. out' \in Seq(OutByte) /\ IsPrefix(out, out') /\ IsPrefix(out', out \o Append(Rendered, "n"))
    <3>1. PICK x \in Seq(OutByte) : x = Rendered
      BY <2>3, Zenon
    <3>2. PICK o \in Seq(OutByte) : o = out
      BY <2>1, Zenon
    <3>3. PICK k \in 0 .. (Len(x) - 1) : out' = o \o SubSeq(x, 1, k)
      BY <1>6, <3>1, <3>2, Zenon
    <3>4. /\ o \o SubSeq(x, 1, k) \in Seq(OutByte)
          /\ IsPrefix(o, o \o SubSeq(x, 1, k))
          /\ IsPrefix(o \o SubSeq(x, 1, k), o \o Append(x, "n"))
      BY <2>6, PartFacts, Zenon
    <3> QED BY <3>1, <3>2, <3>3, <3>4, Zenon
  <2> QED BY <1>5, <2>1, <2>4, <2>5, <2>7, Zenon
<1>7. CASE at = "newline" /\ out' = out
  BY <1>4, <1>5, <1>7, NewlineKnows, Zenon
<1> QED BY <1>6, <1>7, Zenon DEF WriterFails

LEMMA NextOutput ==
    BasicInv /\ FollowInv /\ CopyInv /\ AdmitInv /\ OutInv /\ [Next]_vars => OutInv'
<1> SUFFICES ASSUME BasicInv, FollowInv, CopyInv, AdmitInv, OutInv, [Next]_vars PROVE OutInv'
  OBVIOUS
<1>0. UNCHANGED <<input, req>>
  BY SameCall, Zenon
<1>1. CASE UNCHANGED <<at, rec, decisions, values, out, status, result>>
  BY <1>0, <1>1, StayOutput, Zenon
<1>2. CASE at \in Quiet /\ at' \in Quiet \cup {"done"} /\ UNCHANGED <<decisions, values, out>>
  BY <1>0, <1>2, QuietOutput, Zenon
<1> QED BY <1>1, <1>2, DecisionOutput, ValueOutput, OutputOutput, NewlineOutput, WriterFailsOutput,
           QuietStep, Zenon

LEMMA OutInvariant == Spec => []OutInv
<1>1. Init => OutInv
  <2> SUFFICES ASSUME Init PROVE OutInv
    OBVIOUS
  <2>1. at = "start" /\ Len(decisions) = 0 /\ out = <<>> /\ out \in Seq(OutByte)
    BY DEF Init
  <2>2. 1 .. 0 = {} /\ 0 \in Nat
    OBVIOUS
  <2>3. Texts(0) /\ Deliverable(0)
    BY <2>2, Zenon DEF Texts, Deliverable
  <2>4. Outputs(0) = <<>>
    BY <2>2, <2>3, OutputsFacts, Zenon
  <2>5. WrittenAt("start", 0, out)
    BY <2>1, <2>3, <2>4, Zenon DEF WrittenAt
  <2> QED BY <2>1, <2>3, <2>5, Zenon DEF OutInv
<1> QED BY <1>1, NextOutput, BasicInvariant, FollowInvariant, CopyInvariant, AdmitInvariant, PTL
        DEF Spec

(* What is written, wherever the call is: never more than the records seen. *)
LEMMA WrittenFacts ==
    ASSUME BasicInv, FollowInv, CopyInv, OutInv, NEW n, n = Len(decisions)
    PROVE  /\ IsPrefix(out, Outputs(n))
           /\ \A i \in 1 .. n : Undeliverable(Reference(input).recs[i]) =>
                i = n /\ out = Outputs(n - 1) /\ ~(status = "OK" /\ ~result.stopped_early)
           /\ status = "OK" /\ result.stop_reason # "CALLBACK" => out = Outputs(n)
           /\ status # "running" => IsPrefix(Outputs(n - 1), out)
<1>1. n \in Nat
  BY SourceTypes DEF BasicInv
<1>2. at = "done" <=> status # "running"
  BY DEF BasicInv, RunInv
<1>3. Texts(n) /\ WrittenAt(at, n, out)
  BY Zenon DEF OutInv
<1>4. CASE at \in Quiet
  <2>1. out = Outputs(n) /\ Deliverable(n)
    BY <1>3, <1>4, Zenon DEF WrittenAt
  <2>2. EndedAt(n, out, status, result.stopped_early, result.stop_reason)
    BY <1>1, <1>3, <2>1, EndsWhole, Zenon
  <2> QED BY <2>2, Zenon DEF EndedAt
<1>5. CASE at \in {"value", "output"}
  <2>1. out = Outputs(n - 1) /\ Deliverable(n - 1)
    BY <1>3, <1>5, Zenon DEF WrittenAt
  <2>2. n \in Nat \ {0}
    BY <1>5, Dispatched, Zenon DEF After
  <2>3. status # "OK"
    BY <1>2, <1>5
  <2>4. EndedAt(n, out, status, result.stopped_early, result.stop_reason)
    BY <1>3, <2>1, <2>2, <2>3, EndsBefore, Zenon
  <2> QED BY <2>4, Zenon DEF EndedAt
<1>6. CASE at = "newline"
  <2>1. n \in Nat \ {0} /\ Deliverable(n) /\ IsPrefix(Outputs(n - 1), out) /\ IsPrefix(out, Outputs(n))
    BY <1>6, NewlineKnows, Zenon
  <2>2. status # "OK"
    BY <1>2, <1>6
  <2>3. EndedAt(n, out, status, result.stopped_early, result.stop_reason)
    BY <2>1, <2>2, EndsWithin, Zenon
  <2> QED BY <2>3, Zenon DEF EndedAt
<1>7. CASE at = "done"
  <2>1. EndedAt(n, out, status, result.stopped_early, result.stop_reason)
    BY <1>7, Zenon DEF OutInv
  <2> QED BY <2>1, Zenon DEF EndedAt
<1>8. at \in Quiet \cup {"value", "output", "newline", "done"}
  BY Zenon DEF BasicInv, TypeOK, Quiet, Before
<1> QED BY <1>4, <1>5, <1>6, <1>7, <1>8, Zenon

LEMMA FirstRecords ==
    ASSUME NEW S, NEW R \in Seq(S), NEW n \in Nat, n <= Len(R)
    PROVE  /\ Len(SubSeq(R, 1, n)) = n /\ DOMAIN SubSeq(R, 1, n) = 1 .. n
           /\ \A i \in 1 .. n : SubSeq(R, 1, n)[i] = R[i]
  OBVIOUS

(* For every input, every way the reader splits it and every request: what   *)
(* lql_flat_eq_emit hands to the writer is the output of the records seen,   *)
(* one after the other and each with its line feed; nothing of a record that *)
(* cannot be delivered is written, a successful call wrote whole records     *)
(* only, and a writer that fails leaves at most a part of the last one.      *)
THEOREM OutputIsTheRecords == Spec => []OutputFollowsRecords
<1>1. BasicInv /\ FollowInv /\ CopyInv /\ OutInv => OutputFollowsRecords
  <2> SUFFICES ASSUME BasicInv, FollowInv, CopyInv, OutInv PROVE OutputFollowsRecords
    OBVIOUS
  <2>1. PICK n : n = Len(decisions)
    OBVIOUS
  <2>2. PICK R : R = Reference(input).recs
    OBVIOUS
  <2>3. PICK recs : recs = SubSeq(R, 1, n)
    OBVIOUS
  <2>4. n \in Nat /\ input \in Seq(Byte) /\ 0 \in 0 .. Len(input)
    BY <2>1, SourceTypes DEF BasicInv, TypeOK
  <2>5. n <= Len(R)
    BY <2>1, <2>2, Zenon DEF FollowInv, DecidedInv
  <2>6. R \in Seq(RefRecs(input))
    BY <2>2, <2>4, RefTypes, Zenon DEF Reference
  <2>7. Len(recs) = n /\ DOMAIN recs = 1 .. n /\ \A i \in 1 .. n : recs[i] = R[i]
    BY <2>3, <2>4, <2>5, <2>6, FirstRecords, Zenon
  <2>8. [i \in DOMAIN recs |-> RefOutput(recs[i])] = [i \in 1 .. n |-> RefOutput(R[i])]
    BY <2>7, Zenon
  <2>9. [i \in 1 .. (n - 1) |-> RefOutput(recs[i])] = [i \in 1 .. (n - 1) |-> RefOutput(R[i])]
    <3>1. \A i \in 1 .. (n - 1) : i \in 1 .. n
      BY <2>4
    <3> QED BY <2>7, <3>1, Zenon
  <2>10. /\ Outputs(n) = FlattenSeq([i \in DOMAIN recs |-> RefOutput(recs[i])])
         /\ Outputs(n - 1) = FlattenSeq([i \in 1 .. (Len(recs) - 1) |-> RefOutput(recs[i])])
    BY <2>2, <2>7, <2>8, <2>9, Zenon DEF Outputs
  <2>11. /\ IsPrefix(out, Outputs(n))
         /\ \A i \in DOMAIN recs : Undeliverable(recs[i]) =>
              i = Len(recs) /\ out = Outputs(n - 1) /\ ~(status = "OK" /\ ~result.stopped_early)
         /\ status = "OK" /\ result.stop_reason # "CALLBACK" => out = Outputs(n)
         /\ status # "running" => IsPrefix(Outputs(n - 1), out)
    BY <2>1, <2>2, <2>7, WrittenFacts, Zenon
  <2> QED BY <2>1, <2>2, <2>3, <2>10, <2>11, Zenon DEF OutputFollowsRecords
<1> QED BY <1>1, OutInvariant, BasicInvariant, FollowInvariant, CopyInvariant, PTL
=============================================================================
