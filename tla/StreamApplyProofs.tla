------------------------- MODULE StreamApplyProofs -------------------------
(***************************************************************************)
(* Proofs about StreamApply, for every input, every buffer size and every  *)
(* request.                                                                *)
(***************************************************************************)
EXTENDS StreamApply, InductionLemmas, TLAPS

USE StreamAssumption

Results ==
    [records_seen : Nat, records_matched : Nat, stopped_early : BOOLEAN, stop_reason : Reason]

(* where the record in progress has had its decision, and where it has not *)
Before == Scanning \cup {"start", "flush", "decision"}
After  == {"value", "output", "newline", "matches"}

(* the record being scanned lies in what was consumed *)
RecInv == rec.start <= pos /\ rec.end <= pos

(* a call that has not returned has no reason to stop yet *)
RunInv ==
    /\ at = "done" <=> status # "running"
    /\ at # "done" => ~result.stopped_early /\ result.stop_reason = "NONE"

(* the scanner and the application count the same records *)
CountInv ==
    /\ result.records_seen = Len(decisions)
    /\ at \in Before \cup {"next"} => records = Len(decisions)
    /\ at \in After => records + 1 = Len(decisions)

BasicInv ==
    /\ TypeOK
    /\ RecInv
    /\ RunInv
    /\ CountInv
    /\ eof => read = Len(input)

-----------------------------------------------------------------------------
(* Records of the model *)

LEMMA RecFields ==
    ASSUME NEW r \in Rec
    PROVE  /\ r.start \in Nat /\ r.end \in Nat
           /\ r.object \in BOOLEAN /\ r.hit \in BOOLEAN /\ r.compact \in BOOLEAN
  BY DEF Rec

LEMMA RecHit ==
    ASSUME NEW r \in Rec, NEW q, q = [r EXCEPT !.hit = TRUE]
    PROVE  /\ q \in Rec /\ q.hit = TRUE /\ q.start = r.start
           /\ q.end = r.end /\ q.object = r.object /\ q.compact = r.compact
  BY Zenon DEF Rec

LEMMA RecCompact ==
    ASSUME NEW r \in Rec, NEW q, q = [r EXCEPT !.compact = FALSE]
    PROVE  /\ q \in Rec /\ q.compact = FALSE /\ q.start = r.start
           /\ q.end = r.end /\ q.object = r.object /\ q.hit = r.hit
  BY Zenon DEF Rec

LEMMA MadeRec ==
    ASSUME NEW n \in Nat, NEW b \in BOOLEAN,
           NEW r, r = [start |-> n, end |-> 0, object |-> b, hit |-> FALSE, compact |-> TRUE]
    PROVE  /\ r \in Rec /\ r.start = n /\ r.end = 0 /\ r.object = b
           /\ r.hit = FALSE /\ r.compact = TRUE
  BY DEF Rec

LEMMA ResultFields ==
    ASSUME NEW r \in Results
    PROVE  /\ r.records_seen \in Nat /\ r.records_matched \in Nat
           /\ r.stopped_early \in BOOLEAN /\ r.stop_reason \in Reason
  BY DEF Results

(* What Finish leaves: the counts it was given, and a reason if and only if  *)
(* the call stopped early.                                                   *)
LEMMA FinishFacts ==
    ASSUME NEW st \in Status, NEW res \in Results, NEW lim \in BOOLEAN, NEW can \in BOOLEAN,
           Finish(st, res, lim, can)
    PROVE  /\ at' = "done" /\ result' \in Results /\ limit_stop' = lim /\ cancelled' = can
           /\ StopReason(st, res, lim, can) \in Reason
           /\ result'.records_seen = res.records_seen
           /\ result'.records_matched = res.records_matched
           /\ result'.stop_reason = StopReason(st, res, lim, can)
           /\ result'.stopped_early = (result'.stop_reason # "NONE")
           /\ status' = IF st = "STOP" /\ result'.stop_reason # "NONE" THEN "OK" ELSE st
           /\ status' \in Status
<1> DEFINE reason == StopReason(st, res, lim, can)
<1>1. reason \in Reason
  BY ResultFields DEF StopReason, Reason
<1>2. /\ at' = "done" /\ limit_stop' = lim /\ cancelled' = can
      /\ result' = [res EXCEPT !.stopped_early = reason # "NONE", !.stop_reason = reason]
      /\ status' = IF st = "STOP" /\ reason # "NONE" THEN "OK" ELSE st
  BY DEF Finish
<1> HIDE DEF reason
<1>3. PICK b \in BOOLEAN : b = (reason # "NONE")
  OBVIOUS
<1>4. PICK x \in Reason : x = reason
  BY <1>1
<1>5. /\ result' \in Results /\ result'.stopped_early = b /\ result'.stop_reason = x
      /\ result'.records_seen = res.records_seen
      /\ result'.records_matched = res.records_matched
  <2>1. PICK q : q = result'
    OBVIOUS
  <2>2. q = [res EXCEPT !.stopped_early = b, !.stop_reason = x]
    BY <1>2, <1>3, <1>4, <2>1, Zenon
  <2>3. /\ q \in Results /\ q.stopped_early = b /\ q.stop_reason = x
        /\ q.records_seen = res.records_seen /\ q.records_matched = res.records_matched
    BY <2>2, Zenon DEF Results
  <2> QED BY <2>1, <2>3
<1>6. status' \in Status
  BY <1>2 DEF Status
<1> QED BY <1>1, <1>2, <1>3, <1>4, <1>5, <1>6 DEF reason

LEMMA SourceTypes ==
    ASSUME TypeOK
    PROVE  /\ input \in Seq(Byte) /\ req \in Request /\ caller \in Caller
           /\ Len(input) \in Nat /\ read \in Nat /\ pos \in Nat
           /\ read <= Len(input) /\ pos <= read
           /\ result \in Results
<1>1. [input |-> input, req |-> req, caller |-> caller]
         \in [input : Seq(Byte), req : Request, caller : Caller]
  BY DEF TypeOK
<1>2. input \in Seq(Byte) /\ req \in Request /\ caller \in Caller
  BY <1>1
<1> QED BY <1>2 DEF TypeOK, Results

(* What a callback's answer leaves. *)
LEMMA AnswerFacts ==
    ASSUME NEW answer \in {"continue", "stop", "error"}, NEW res \in Results, NEW next,
           ~res.stopped_early, res.stop_reason = "NONE", records \in Nat,
           Answer(answer, res, next)
    PROVE  /\ result' \in Results /\ records' \in Nat
           /\ result'.records_seen = res.records_seen
           /\ result'.records_matched = res.records_matched
           /\ \/ at' = next /\ result' = res /\ UNCHANGED <<limit_stop, cancelled, status, records>>
              \/ /\ at' = "done" /\ limit_stop' = FALSE /\ cancelled' = FALSE
                 /\ \/ /\ status' = "OK" /\ result'.stopped_early
                       /\ result'.stop_reason = "CALLBACK"
                    \/ /\ status' = "CALLBACK_ERROR" /\ ~result'.stopped_early
                       /\ result'.stop_reason = "NONE"
<1>1. CASE answer = "continue"
  BY <1>1 DEF Answer, stops
<1>2. CASE answer = "stop"
  <2>1. PICK q : q = [res EXCEPT !.stopped_early = TRUE, !.stop_reason = "CALLBACK"]
    OBVIOUS
  <2>2. Abort("STOP", q)
    BY <1>2, <2>1, Zenon DEF Answer
  <2>3. TRUE \in BOOLEAN /\ "CALLBACK" \in Reason
    BY DEF Reason
  <2>4. /\ q \in Results /\ q.stopped_early = TRUE /\ q.stop_reason = "CALLBACK"
        /\ q.records_seen = res.records_seen /\ q.records_matched = res.records_matched
    BY <2>1, <2>3, Zenon DEF Results
  <2>5. Finish("STOP", q, FALSE, FALSE) /\ records' = records + 1
    BY <2>2 DEF Abort
  <2>6. StopReason("STOP", q, FALSE, FALSE) = "CALLBACK"
    BY <2>4 DEF StopReason
  <2>7. "STOP" \in Status
    BY DEF Status
  <2>8. /\ at' = "done" /\ limit_stop' = FALSE /\ cancelled' = FALSE /\ result' \in Results
        /\ result'.records_seen = q.records_seen /\ result'.records_matched = q.records_matched
        /\ result'.stop_reason = "CALLBACK" /\ status' = "OK"
        /\ result'.stopped_early = (result'.stop_reason # "NONE")
    BY <2>4, <2>5, <2>6, <2>7, FinishFacts
  <2>9. result'.stopped_early /\ records' \in Nat
    <3>1. result'.stopped_early
      BY <2>8, Zenon
    <3>2. records' \in Nat
      BY <2>5
    <3> QED BY <3>1, <3>2
  <2> QED BY <2>4, <2>8, <2>9, Zenon
<1>3. CASE answer = "error"
  <2>1. Finish("CALLBACK_ERROR", res, FALSE, FALSE) /\ records' = records + 1
    BY <1>3 DEF Answer, Abort
  <2>2. StopReason("CALLBACK_ERROR", res, FALSE, FALSE) = "NONE"
    BY DEF StopReason
  <2>3. "CALLBACK_ERROR" \in Status
    BY DEF Status
  <2>4. /\ at' = "done" /\ limit_stop' = FALSE /\ cancelled' = FALSE /\ result' \in Results
        /\ result'.records_seen = res.records_seen /\ result'.records_matched = res.records_matched
        /\ result'.stop_reason = "NONE" /\ status' = "CALLBACK_ERROR"
        /\ result'.stopped_early = (result'.stop_reason # "NONE")
    BY <2>1, <2>2, <2>3, FinishFacts
  <2>5. ~result'.stopped_early /\ records' \in Nat
    <3>1. ~result'.stopped_early
      BY <2>4, Zenon
    <3>2. records' \in Nat
      BY <2>1
    <3> QED BY <3>1, <3>2
  <2> QED BY <2>4, <2>5, Zenon
<1> QED BY <1>1, <1>2, <1>3

(* What a failure leaves while there is no reason to stop. *)
LEMMA FailFacts ==
    ASSUME BasicInv, at # "done", NEW st \in Status, Finish(st, result, FALSE, FALSE)
    PROVE  /\ at' = "done" /\ limit_stop' = FALSE /\ cancelled' = FALSE /\ result' \in Results
           /\ result'.records_seen = result.records_seen
           /\ result'.records_matched = result.records_matched
           /\ result'.stop_reason = "NONE" /\ ~result'.stopped_early /\ status' = st
<1>1. result \in Results /\ ~result.stopped_early /\ result.stop_reason = "NONE"
  BY SourceTypes DEF BasicInv, RunInv
<1>2. StopReason(st, result, FALSE, FALSE) = "NONE"
  BY <1>1 DEF StopReason
<1> QED BY <1>1, <1>2, FinishFacts

-----------------------------------------------------------------------------
(* Types, counts and the end of the call *)

LEMMA BasicDone ==
    ASSUME BasicInv, UNCHANGED <<source, read, pos, eof, rec, spool, cancel>>,
           polled' \in BOOLEAN, late' \in Nat, records' \in Nat,
           decisions' \in Seq(BOOLEAN), values' \in Seq(Seq(Byte)),
           at' = "done", result' \in Results, result'.records_seen = Len(decisions'),
           limit_stop' \in BOOLEAN, cancelled' \in BOOLEAN, status' \in Status
    PROVE  BasicInv'
<1>1. TypeOK'
  BY DEF BasicInv, TypeOK, source, Results
<1>2. RecInv' /\ RunInv' /\ CountInv' /\ (eof => read = Len(input))'
  BY DEF BasicInv, RecInv, RunInv, CountInv, Before, After, Scanning, source, Status
<1> QED BY <1>1, <1>2 DEF BasicInv

(* A step that goes on, inside the scanner or in the dispatch. *)
LEMMA BasicMove ==
    ASSUME BasicInv, UNCHANGED <<source, result, stops>>,
           read' \in 0 .. Len(input), pos' \in 0 .. read', eof' \in BOOLEAN,
           eof' => read' = Len(input), polled' \in BOOLEAN,
           rec' \in Rec, rec'.start <= pos', rec'.end <= pos', spool' \in Seq(Byte),
           cancel' \in BOOLEAN, late' \in Nat, decisions' = decisions,
           values' \in Seq(Seq(Byte)),
           at # "done",
           \/ at \in Before /\ at' \in Before /\ records' = records
           \/ at \in After /\ at' \in After /\ records' = records
           \/ at \in After /\ at' = "next" /\ records' = records + 1
           \/ at = "next" /\ at' = "space" /\ records' = records
           \/ at = "next" /\ at' = "next" /\ records' = records
    PROVE  BasicInv'
<1>1. TypeOK'
  BY DEF BasicInv, TypeOK, source, stops, Before, After, Scanning
<1>2. RecInv' /\ (eof => read = Len(input))'
  BY DEF RecInv, source
<1>3. RunInv'
  BY DEF BasicInv, RunInv, Before, After, Scanning, stops
<1>4. CountInv'
  BY DEF BasicInv, CountInv, Before, After, Scanning, TypeOK
<1> QED BY <1>1, <1>2, <1>3, <1>4 DEF BasicInv

(* A step of the scanner that rejects or fails. *)
LEMMA BasicFail ==
    ASSUME BasicInv, at # "done", NEW st \in Status, Fail(st),
           UNCHANGED <<source, read, pos, eof, rec, spool, cancel, records, logs>>,
           polled' \in BOOLEAN, late' \in Nat
    PROVE  /\ BasicInv' /\ at' = "done" /\ status' = st /\ ~result'.stopped_early
           /\ result'.stop_reason = "NONE"
           /\ result'.records_seen = result.records_seen
           /\ result'.records_matched = result.records_matched
<1>1. /\ at' = "done" /\ limit_stop' = FALSE /\ cancelled' = FALSE /\ result' \in Results
      /\ result'.records_seen = result.records_seen
      /\ result'.records_matched = result.records_matched
      /\ result'.stop_reason = "NONE" /\ ~result'.stopped_early /\ status' = st
  BY FailFacts DEF Fail
<1>2. /\ records \in Nat /\ decisions \in Seq(BOOLEAN) /\ values \in Seq(Seq(Byte))
      /\ result.records_seen = Len(decisions) /\ polled \in BOOLEAN /\ late \in Nat
  BY DEF BasicInv, TypeOK, CountInv
<1>3. /\ records' \in Nat /\ decisions' \in Seq(BOOLEAN) /\ values' \in Seq(Seq(Byte))
      /\ result'.records_seen = Len(decisions')
  BY <1>1, <1>2 DEF logs
<1>4. limit_stop' \in BOOLEAN /\ cancelled' \in BOOLEAN /\ status' \in Status
  BY <1>1
<1>5. BasicInv'
  BY <1>1, <1>3, <1>4, BasicDone
<1> QED BY <1>1, <1>5, Zenon

LEMMA InitBasic == Init => BasicInv
<1> SUFFICES ASSUME Init PROVE BasicInv
  OBVIOUS
<1>1. PICK call \in Calls : input = call.input /\ req = call.req /\ caller = call.caller
  BY DEF Init
<1>2. call \in [input : Seq(Byte), req : Request, caller : Caller]
  OBVIOUS
<1>3. call = [input |-> input, req |-> req, caller |-> caller] /\ input \in Seq(Byte)
  BY <1>1, <1>2
<1>4. rec \in Rec /\ rec.start = 0 /\ rec.end = 0
  BY DEF Init, NoRec, Rec
<1>5. result \in Results /\ ~result.stopped_early /\ result.stop_reason = "NONE"
      /\ result.records_seen = 0
  BY DEF Init, Results, Reason
<1>6. TypeOK
  <2>1. [input |-> input, req |-> req, caller |-> caller] \in Calls
    BY <1>3
  <2>2. /\ at = "start" /\ read = 0 /\ pos = 0 /\ eof = FALSE /\ polled = FALSE /\ spool = <<>>
        /\ records = 0 /\ limit_stop = FALSE /\ cancelled = FALSE /\ status = "running"
        /\ cancel = FALSE /\ late = 0 /\ decisions = <<>> /\ values = <<>>
    BY DEF Init
  <2>3. read \in 0 .. Len(input) /\ pos \in 0 .. read /\ records \in Nat /\ late \in Nat
    BY <1>3, <2>2
  <2>4. spool \in Seq(Byte) /\ decisions \in Seq(BOOLEAN) /\ values \in Seq(Seq(Byte))
    BY <2>2
  <2>5. /\ eof \in BOOLEAN /\ polled \in BOOLEAN /\ limit_stop \in BOOLEAN
        /\ cancelled \in BOOLEAN /\ cancel \in BOOLEAN
    BY <2>2
  <2> QED BY <1>4, <1>5, <2>1, <2>2, <2>3, <2>4, <2>5, Zenon DEF TypeOK, Results
<1>7. RecInv /\ RunInv /\ CountInv /\ (eof => read = Len(input))
  BY <1>4, <1>5 DEF Init, RecInv, RunInv, CountInv, Before, After, Scanning
<1> QED BY <1>6, <1>7 DEF BasicInv

LEMMA StartBasic == ASSUME BasicInv, Start PROVE BasicInv'
<1>1. at = "start" /\ UNCHANGED <<source, scan, rec, spool, records, cancel, logs, late>>
  BY DEF Start
<1>2. late \in Nat /\ polled \in BOOLEAN
  BY DEF BasicInv, TypeOK
<1>3. ASSUME NEW st \in Status, Fail(st) PROVE BasicInv'
  BY <1>1, <1>2, <1>3, BasicFail DEF scan
<1>4. CASE at' = "space" /\ UNCHANGED <<result, stops>>
  BY <1>1, <1>4, BasicMove DEF scan, logs, BasicInv, TypeOK, RecInv, Before, Scanning
<1>5. "INVALID_ARGUMENT" \in Status /\ "UNSUPPORTED" \in Status
  BY DEF Status
<1> QED BY <1>3, <1>4, <1>5, Zenon DEF Start

LEMMA RefillBasic ==
    ASSUME BasicInv, PollRefill \/ Refill \/ RefillFails PROVE BasicInv'
<1>0. /\ Len(input) \in Nat /\ read \in Nat /\ pos \in Nat /\ read <= Len(input) /\ pos <= read
      /\ late \in Nat /\ cancel \in BOOLEAN /\ polled \in BOOLEAN /\ result \in Results
      /\ rec \in Rec /\ rec.start <= pos /\ rec.end <= pos /\ spool \in Seq(Byte)
      /\ eof \in BOOLEAN /\ values \in Seq(Seq(Byte))
  BY SourceTypes DEF BasicInv, TypeOK, RecInv
<1>1. CASE PollRefill
  <2>1. /\ Empty /\ at \in Before /\ at # "done"
        /\ UNCHANGED <<source, read, pos, eof, rec, spool, records, cancel, logs, late>>
    BY <1>1 DEF PollRefill, Empty, Before, Scanning
  <2>2. CASE cancel /\ Finish("STOP", result, FALSE, TRUE) /\ UNCHANGED polled
    <3>1. "STOP" \in Status
      BY DEF Status
    <3>2. /\ at' = "done" /\ limit_stop' = FALSE /\ cancelled' = TRUE /\ result' \in Results
          /\ result'.records_seen = result.records_seen /\ status' \in Status
      BY <1>0, <2>2, <3>1, FinishFacts
    <3>3. /\ records' \in Nat /\ decisions' \in Seq(BOOLEAN) /\ values' \in Seq(Seq(Byte))
          /\ result'.records_seen = Len(decisions') /\ polled' \in BOOLEAN /\ late' \in Nat
      BY <1>0, <2>1, <2>2, <3>2 DEF BasicInv, TypeOK, CountInv, logs
    <3>4. limit_stop' \in BOOLEAN /\ cancelled' \in BOOLEAN
      BY <3>2
    <3> QED BY <2>1, <3>2, <3>3, <3>4, BasicDone
  <2>3. CASE ~cancel /\ polled' = TRUE /\ UNCHANGED <<at, result, stops>>
    BY <1>0, <2>1, <2>3, BasicMove DEF logs, BasicInv, source
  <2> QED BY <1>1, <2>2, <2>3 DEF PollRefill
<1>2. CASE Refill
  <2>1. /\ at \in Before /\ at # "done" /\ at' = at /\ pos = read /\ ~eof /\ polled' = FALSE
        /\ UNCHANGED <<source, pos, rec, spool, records, result, stops, cancel, logs>>
    BY <1>2 DEF Refill, Empty, Before, Scanning
  <2>2. late' \in Nat
    BY <1>0, <1>2 DEF Refill, Called
  <2>3. /\ read' \in 0 .. Len(input) /\ read <= read' /\ eof' \in BOOLEAN
        /\ eof' => read' = Len(input)
    <3>1. CASE read = Len(input) /\ eof' = TRUE /\ UNCHANGED read
      BY <1>0, <3>1
    <3>2. CASE /\ \E n \in 1 .. Capacity : read + n <= Len(input) /\ read' = read + n
               /\ UNCHANGED eof
      BY <1>0, <2>1, <3>2
    <3> QED BY <1>2, <3>1, <3>2 DEF Refill
  <2>4. pos' \in 0 .. read'
    BY <1>0, <2>1, <2>3
  <2> QED BY <1>0, <2>1, <2>2, <2>3, <2>4, BasicMove DEF logs
<1>3. CASE RefillFails
  <2>1. /\ at # "done" /\ polled' = FALSE
        /\ UNCHANGED <<source, read, pos, eof, rec, spool, records, cancel, logs>>
    BY <1>3 DEF RefillFails, Empty, Scanning
  <2>2. late' \in Nat
    BY <1>0, <1>3 DEF RefillFails, Called
  <2>3. \E st \in Status : Fail(st)
    BY <1>3 DEF RefillFails, Status
  <2> QED BY <2>1, <2>2, <2>3, BasicFail
<1> QED BY <1>1, <1>2, <1>3

(* A byte consumed, or looked at, by the scanner. *)
ScanStep(b) == SkipSpace(b) \/ ScanObject(b) \/ ScanNumber(b) \/ Separator(b) \/ LineFeed(b)

LEMMA CopyType ==
    ASSUME NEW t \in Seq(Byte), NEW b \in Byte PROVE Copy(t, b) \in Seq(Byte)
  BY DEF Copy

LEMMA TakeBasic ==
    ASSUME BasicInv, NEW b \in Byte, Have(b), at \in Before, at # "done", NEW next \in Before,
           Take(next), rec' \in Rec, rec'.start <= pos, rec'.end <= pos + 1, spool' \in Seq(Byte)
    PROVE  BasicInv'
<1>1. /\ pos' = pos + 1 /\ at' = next
      /\ UNCHANGED <<source, read, eof, polled, records, result, stops, cancel, logs, late>>
  BY DEF Take
<1>2. /\ Len(input) \in Nat /\ read \in Nat /\ pos \in Nat /\ read <= Len(input) /\ pos < read
      /\ late \in Nat /\ cancel \in BOOLEAN /\ polled \in BOOLEAN
      /\ eof \in BOOLEAN /\ (eof => read = Len(input)) /\ values \in Seq(Seq(Byte))
  BY SourceTypes DEF BasicInv, TypeOK, Have
<1>3. pos' \in 0 .. read' /\ read' \in 0 .. Len(input)
  BY <1>1, <1>2
<1>4. rec'.start <= pos' /\ rec'.end <= pos'
  <2>1. rec'.start \in Nat
    BY RecFields
  <2> QED BY <1>1, <1>2, <2>1
<1> QED BY <1>1, <1>2, <1>3, <1>4, BasicMove DEF logs

LEMMA MoveBasic ==
    ASSUME BasicInv, at \in Before, at # "done", NEW next \in Before,
           Move(next), rec' \in Rec, rec'.start <= pos, rec'.end <= pos
    PROVE  BasicInv'
<1>1. at' = next /\ UNCHANGED <<source, scan, spool, records, result, stops, cancel, logs, late>>
  BY DEF Move
<1>2. /\ read \in 0 .. Len(input) /\ pos \in 0 .. read /\ spool \in Seq(Byte)
      /\ late \in Nat /\ cancel \in BOOLEAN /\ polled \in BOOLEAN
      /\ eof \in BOOLEAN /\ (eof => read = Len(input)) /\ values \in Seq(Seq(Byte))
  BY DEF BasicInv, TypeOK
<1> QED BY <1>1, <1>2, BasicMove DEF logs, scan

LEMMA RejectBasic == ASSUME BasicInv, at # "done", Reject PROVE BasicInv'
<1>1. "JSON_ERROR" \in Status /\ polled \in BOOLEAN /\ late \in Nat
  BY DEF Status, BasicInv, TypeOK
<1> QED BY <1>1, BasicFail DEF Reject, scan

LEMMA ScanBasic ==
    ASSUME BasicInv, NEW b \in Byte, ScanStep(b) PROVE BasicInv'
<1>0. /\ pos \in Nat /\ rec \in Rec /\ rec.start <= pos /\ rec.end <= pos /\ spool \in Seq(Byte)
      /\ rec.start \in Nat /\ rec.end \in Nat
  BY SourceTypes, RecFields DEF BasicInv, TypeOK, RecInv
<1>1. Copy(spool, b) \in Seq(Byte) /\ Copy(<<>>, b) \in Seq(Byte)
  <2>1. <<>> \in Seq(Byte)
    OBVIOUS
  <2> QED BY <1>0, <2>1, CopyType, Zenon
<1>2. /\ at \in Before /\ at # "done" /\ Have(b)
      /\ "space" \in Before /\ "object" \in Before /\ "number" \in Before /\ "separator" \in Before
      /\ "line_feed" \in Before /\ "flush" \in Before
  BY DEF ScanStep, SkipSpace, ScanObject, ScanNumber, Separator, LineFeed, Before, Scanning
<1>3. CASE Reject
  BY <1>2, <1>3, RejectBasic
<1>4. ASSUME NEW next \in Before, Take(next), UNCHANGED <<rec, spool>> PROVE BasicInv'
  <2>1. rec' \in Rec /\ rec'.start <= pos /\ rec'.end <= pos + 1 /\ spool' \in Seq(Byte)
    BY <1>0, <1>4
  <2> QED BY <1>2, <1>4, <2>1, TakeBasic
<1>5. ASSUME NEW next \in Before, Take(next), BeginRecord(b) PROVE BasicInv'
  <2>1. PICK o \in BOOLEAN : o = (b = "{")
    OBVIOUS
  <2>2. PICK r : r = rec'
    OBVIOUS
  <2>3. r = [NoRec EXCEPT !.start = pos, !.object = o] /\ spool' = Copy(<<>>, b)
    BY <1>5, <2>1, <2>2, Zenon DEF BeginRecord
  <2>4. r \in Rec /\ r.start = pos /\ r.end = 0
    <3>1. r = [start |-> pos, end |-> 0, object |-> o, hit |-> FALSE, compact |-> TRUE]
      BY <2>3 DEF NoRec
    <3> QED BY <1>0, <3>1, MadeRec, Zenon
  <2>5. rec' \in Rec /\ rec'.start <= pos /\ rec'.end <= pos + 1
    BY <1>0, <2>2, <2>4
  <2>6. spool' \in Seq(Byte)
    BY <1>1, <2>3, Zenon
  <2> QED BY <1>2, <1>5, <2>5, <2>6, TakeBasic, Zenon
<1>6. CASE SkipSpace(b)
  BY <1>2, <1>3, <1>4, <1>5, <1>6, Zenon DEF SkipSpace
<1>7. CASE ScanObject(b)
  <2>1. ASSUME rec' = [rec EXCEPT !.compact = FALSE], spool' = spool, Take("object")
        PROVE  BasicInv'
    <3>1. PICK r : r = rec'
      OBVIOUS
    <3>2. r \in Rec /\ r.start = rec.start /\ r.end = rec.end
      BY <1>0, <2>1, <3>1, RecCompact, Zenon
    <3>3. rec' \in Rec /\ rec'.start <= pos /\ rec'.end <= pos + 1 /\ spool' \in Seq(Byte)
      BY <1>0, <2>1, <3>1, <3>2
    <3> QED BY <1>2, <2>1, <3>3, TakeBasic, Zenon
  <2>2. ASSUME rec' = [rec EXCEPT !.hit = TRUE], spool' = Copy(spool, b), Take("object")
        PROVE  BasicInv'
    <3>1. PICK r : r = rec'
      OBVIOUS
    <3>2. r \in Rec /\ r.start = rec.start /\ r.end = rec.end
      BY <1>0, <2>2, <3>1, RecHit, Zenon
    <3>3. rec' \in Rec /\ rec'.start <= pos /\ rec'.end <= pos + 1 /\ spool' \in Seq(Byte)
      BY <1>0, <1>1, <2>2, <3>1, <3>2
    <3> QED BY <1>2, <2>2, <3>3, TakeBasic, Zenon
  <2>3. ASSUME rec' = [rec EXCEPT !.end = pos + 1], spool' = Copy(spool, b), Take("separator")
        PROVE  BasicInv'
    <3>1. rec' \in Rec /\ rec'.start <= pos /\ rec'.end <= pos + 1 /\ spool' \in Seq(Byte)
      <4>1. rec' \in Rec /\ rec'.start <= pos /\ rec'.end <= pos + 1
        BY <1>0, <2>3 DEF Rec
      <4> QED BY <1>1, <2>3, <4>1
    <3> QED BY <1>2, <2>3, <3>1, TakeBasic
  <2> QED BY <1>3, <1>7, <2>1, <2>2, <2>3 DEF ScanObject
<1>8. CASE ScanNumber(b)
  <2>1. ASSUME Take("number"), spool' = Copy(spool, b), rec' = rec PROVE BasicInv'
    <3>1. rec' \in Rec /\ rec'.start <= pos /\ rec'.end <= pos + 1 /\ spool' \in Seq(Byte)
      BY <1>0, <1>1, <2>1
    <3> QED BY <1>2, <2>1, <3>1, TakeBasic
  <2>2. ASSUME Move("separator"), rec' = [rec EXCEPT !.end = pos] PROVE BasicInv'
    <3>1. rec' \in Rec /\ rec'.start <= pos /\ rec'.end <= pos
      BY <1>0, <2>2 DEF Rec
    <3> QED BY <1>2, <2>2, <3>1, MoveBasic
  <2> QED BY <1>8, <2>1, <2>2 DEF ScanNumber
<1>9. CASE Separator(b) \/ LineFeed(b)
  BY <1>2, <1>3, <1>4, <1>9, Zenon DEF Separator, LineFeed
<1> QED BY <1>6, <1>7, <1>8, <1>9 DEF ScanStep

LEMMA EndBasic ==
    ASSUME BasicInv, EndOfInput \/ SpoolFails PROVE BasicInv'
<1>0. /\ pos \in Nat /\ rec \in Rec /\ rec.start <= pos /\ rec.end <= pos
      /\ polled \in BOOLEAN /\ late \in Nat /\ "OK" \in Status /\ "IO_ERROR" \in Status
  BY SourceTypes DEF BasicInv, TypeOK, RecInv, Status
<1>1. /\ at \in Before /\ at # "done" /\ "separator" \in Before /\ "flush" \in Before
  BY DEF EndOfInput, SpoolFails, Before, Scanning
<1>2. CASE Reject
  BY <1>1, <1>2, RejectBasic
<1>3. ASSUME NEW st \in {"OK", "IO_ERROR"}, Fail(st),
             UNCHANGED <<source, scan, rec, spool, records, cancel, logs, late>>
      PROVE  BasicInv'
  BY <1>0, <1>1, <1>3, BasicFail DEF scan
<1>4. ASSUME Move("separator"), rec' = [rec EXCEPT !.end = pos] PROVE BasicInv'
  <2>1. rec' \in Rec /\ rec'.start <= pos /\ rec'.end <= pos
    BY <1>0, <1>4 DEF Rec
  <2> QED BY <1>1, <1>4, <2>1, MoveBasic
<1>5. ASSUME Move("flush"), rec' = rec PROVE BasicInv'
  BY <1>0, <1>1, <1>5, MoveBasic
<1> QED BY <1>2, <1>3, <1>4, <1>5 DEF EndOfInput, SpoolFails

(* A dispatch that fails with a status of its own. *)
LEMMA AbortBasic ==
    ASSUME BasicInv, at # "done", NEW st \in Status, Abort(st, result),
           UNCHANGED <<source, scan, rec, spool, cancel, decisions, late>>,
           values' \in Seq(Seq(Byte))
    PROVE  /\ BasicInv' /\ at' = "done" /\ status' = st /\ ~result'.stopped_early
           /\ result'.stop_reason = "NONE"
           /\ result'.records_seen = result.records_seen
           /\ result'.records_matched = result.records_matched
<1>1. Finish(st, result, FALSE, FALSE) /\ records' = records + 1
  BY DEF Abort
<1>2. /\ at' = "done" /\ limit_stop' = FALSE /\ cancelled' = FALSE /\ result' \in Results
      /\ result'.records_seen = result.records_seen
      /\ result'.records_matched = result.records_matched
      /\ result'.stop_reason = "NONE" /\ ~result'.stopped_early /\ status' = st
  BY <1>1, FailFacts
<1>3. /\ records \in Nat /\ decisions \in Seq(BOOLEAN) /\ late \in Nat /\ polled \in BOOLEAN
      /\ result.records_seen = Len(decisions)
  BY DEF BasicInv, TypeOK, CountInv
<1>4. /\ records' \in Nat /\ decisions' \in Seq(BOOLEAN) /\ late' \in Nat /\ polled' \in BOOLEAN
      /\ result'.records_seen = Len(decisions')
  BY <1>1, <1>2, <1>3 DEF scan
<1>5. limit_stop' \in BOOLEAN /\ cancelled' \in BOOLEAN /\ status' \in Status
  BY <1>2
<1>6. BasicInv'
  BY <1>2, <1>4, <1>5, BasicDone DEF scan
<1> QED BY <1>2, <1>6, Zenon

(* A dispatch that stops for a reason it has found. *)
LEMMA StopBasic ==
    ASSUME BasicInv, at # "done", NEW res \in Results, NEW lim \in BOOLEAN, NEW can \in BOOLEAN,
           Finish("STOP", res, lim, can), records' \in Nat,
           res.records_seen = Len(decisions),
           UNCHANGED <<source, scan, rec, spool, cancel, logs, late>>
    PROVE  BasicInv'
<1>1. "STOP" \in Status
  BY DEF Status
<1>2. /\ at' = "done" /\ limit_stop' = lim /\ cancelled' = can /\ result' \in Results
      /\ result'.records_seen = res.records_seen /\ status' \in Status
  BY <1>1, FinishFacts
<1>3. /\ decisions' \in Seq(BOOLEAN) /\ late' \in Nat /\ polled' \in BOOLEAN
      /\ values' \in Seq(Seq(Byte)) /\ result'.records_seen = Len(decisions')
  BY <1>2 DEF scan, logs, BasicInv, TypeOK
<1>4. limit_stop' \in BOOLEAN /\ cancelled' \in BOOLEAN
  BY <1>2
<1> QED BY <1>2, <1>3, <1>4, BasicDone DEF scan

LEMMA FlushBasic == ASSUME BasicInv, Flush PROVE BasicInv'
<1>1. /\ at = "flush" /\ at \in Before /\ "decision" \in Before
      /\ UNCHANGED <<source, scan, rec, spool, records, cancel, logs, late>>
  BY DEF Flush, Before, Scanning
<1>2. CASE Finish("STOP", result, FALSE, TRUE)
  <2>1. result \in Results /\ result.records_seen = Len(decisions) /\ records \in Nat
    BY SourceTypes DEF BasicInv, CountInv, TypeOK
  <2> QED BY <1>1, <1>2, <2>1, StopBasic
<1>3. CASE at' = "decision" /\ UNCHANGED <<result, stops>>
  <2>1. Move("decision") /\ rec' = rec
    BY <1>1, <1>3 DEF Move
  <2>2. rec \in Rec /\ rec.start <= pos /\ rec.end <= pos
    BY DEF BasicInv, TypeOK, RecInv
  <2> QED BY <1>1, <2>1, <2>2, MoveBasic
<1> QED BY <1>2, <1>3 DEF Flush

LEMMA MatchedBoolean == Matched \in BOOLEAN
  BY DEF Matched

(* The counts on_decision is called with, and what its answer leaves. *)
LEMMA DecisionFacts ==
    ASSUME BasicInv, Decision
    PROVE  /\ at = "decision"
           /\ UNCHANGED <<source, scan, rec, spool, cancel, values, out>>
           /\ decisions' = Append(decisions, Matched) /\ Called
           /\ result' \in Results /\ records' \in Nat
           /\ result'.records_seen = result.records_seen + 1
           /\ result'.records_matched = (IF Matched THEN result.records_matched + 1
                                                    ELSE result.records_matched)
           /\ \/ /\ at' = "value" /\ UNCHANGED <<limit_stop, cancelled, status, records>>
                 /\ ~result'.stopped_early /\ result'.stop_reason = "NONE"
              \/ /\ at' = "done" /\ limit_stop' = FALSE /\ cancelled' = FALSE
                 /\ \/ /\ status' = "OK" /\ result'.stopped_early
                       /\ result'.stop_reason = "CALLBACK"
                    \/ /\ status' = "CALLBACK_ERROR" /\ ~result'.stopped_early
                       /\ result'.stop_reason = "NONE"
<1>1. /\ at = "decision" /\ decisions' = Append(decisions, Matched) /\ Called
      /\ UNCHANGED <<source, scan, rec, spool, cancel, values, out>>
  BY Zenon DEF Decision
<1>2. PICK m : m = result.records_seen + 1
  OBVIOUS
<1>3. PICK n : n = IF Matched THEN result.records_matched + 1 ELSE result.records_matched
  OBVIOUS
<1>4. PICK answer \in caller.answers :
         Answer(answer, [result EXCEPT !.records_seen = m, !.records_matched = n], "value")
  BY <1>2, <1>3, Zenon DEF Decision
<1>5. answer \in {"continue", "stop", "error"}
  <2>1. caller \in Caller
    BY SourceTypes DEF BasicInv
  <2>2. caller.answers \subseteq {"continue", "stop", "error"}
    BY <2>1 DEF Caller
  <2> QED BY <2>2
<1>6. PICK res : res = [result EXCEPT !.records_seen = m, !.records_matched = n]
  OBVIOUS
<1>7. Answer(answer, res, "value")
  BY <1>4, <1>6, Zenon
<1>8. /\ result \in Results /\ m \in Nat /\ n \in Nat /\ ~result.stopped_early
      /\ result.stop_reason = "NONE" /\ records \in Nat
  BY <1>1, <1>2, <1>3, SourceTypes, ResultFields DEF BasicInv, RunInv, TypeOK
<1>9. /\ res \in Results /\ res.records_seen = m /\ res.records_matched = n
      /\ res.stopped_early = result.stopped_early /\ res.stop_reason = result.stop_reason
  BY <1>6, <1>8, Zenon DEF Results
<1>10. ~res.stopped_early /\ res.stop_reason = "NONE"
  BY <1>8, <1>9, Zenon
<1>11. /\ result' \in Results /\ records' \in Nat
       /\ result'.records_seen = res.records_seen
       /\ result'.records_matched = res.records_matched
       /\ \/ at' = "value" /\ result' = res /\ UNCHANGED <<limit_stop, cancelled, status, records>>
          \/ /\ at' = "done" /\ limit_stop' = FALSE /\ cancelled' = FALSE
             /\ \/ /\ status' = "OK" /\ result'.stopped_early
                   /\ result'.stop_reason = "CALLBACK"
                \/ /\ status' = "CALLBACK_ERROR" /\ ~result'.stopped_early
                   /\ result'.stop_reason = "NONE"
  BY <1>5, <1>7, <1>8, <1>9, <1>10, AnswerFacts, Zenon
<1> QED BY <1>1, <1>2, <1>3, <1>9, <1>10, <1>11, Zenon

LEMMA DecisionBasic == ASSUME BasicInv, Decision PROVE BasicInv'
<1>1. /\ at = "decision"
      /\ UNCHANGED <<source, scan, rec, spool, cancel, values, out>>
      /\ decisions' = Append(decisions, Matched) /\ Called
      /\ result' \in Results /\ records' \in Nat
      /\ result'.records_seen = result.records_seen + 1
  BY DecisionFacts, Zenon
<1>2. /\ decisions \in Seq(BOOLEAN) /\ late \in Nat /\ cancel \in BOOLEAN /\ polled \in BOOLEAN
      /\ values \in Seq(Seq(Byte)) /\ records \in Nat
      /\ result.records_seen = Len(decisions) /\ records = Len(decisions) /\ status = "running"
      /\ limit_stop \in BOOLEAN /\ cancelled \in BOOLEAN
  BY <1>1 DEF BasicInv, TypeOK, CountInv, RunInv, Before
<1>3. PICK m \in BOOLEAN : m = Matched
  BY MatchedBoolean
<1>4. /\ decisions' \in Seq(BOOLEAN) /\ Len(decisions') = Len(decisions) + 1 /\ late' \in Nat
  BY <1>1, <1>2, <1>3 DEF Called
<1>5. CASE at' = "done"
  <2>1. limit_stop' = FALSE /\ cancelled' = FALSE /\ status' \in {"OK", "CALLBACK_ERROR"}
    BY <1>5, DecisionFacts
  <2>2. limit_stop' \in BOOLEAN /\ cancelled' \in BOOLEAN /\ status' \in Status
    BY <2>1 DEF Status
  <2>3. values' \in Seq(Seq(Byte)) /\ polled' \in BOOLEAN /\ result'.records_seen = Len(decisions')
    BY <1>1, <1>2, <1>4 DEF scan
  <2> QED BY <1>1, <1>4, <1>5, <2>2, <2>3, BasicDone DEF scan
<1>6. CASE /\ at' = "value" /\ UNCHANGED <<limit_stop, cancelled, status, records>>
           /\ ~result'.stopped_early /\ result'.stop_reason = "NONE"
  <2>1. TypeOK'
    BY <1>1, <1>2, <1>4, <1>6 DEF BasicInv, TypeOK, source, scan, Results
  <2>2. RecInv' /\ RunInv' /\ (eof => read = Len(input))'
    BY <1>1, <1>2, <1>6 DEF BasicInv, RecInv, RunInv, source, scan
  <2>3. CountInv'
    BY <1>1, <1>2, <1>4, <1>6 DEF CountInv, Before, After, Scanning
  <2> QED BY <2>1, <2>2, <2>3 DEF BasicInv
<1> QED BY <1>5, <1>6, DecisionFacts

LEMMA SourceRangeType == ASSUME BasicInv PROVE SourceRange \in Seq(Byte)
<1>1. /\ input \in Seq(Byte) /\ Len(input) \in Nat /\ rec.start \in Nat /\ rec.end \in Nat
      /\ rec.end <= Len(input)
  BY SourceTypes, RecFields DEF BasicInv, TypeOK, RecInv
<1>2. PICK m \in Nat : m = rec.start
  BY <1>1
<1>3. PICK n \in Nat : n = rec.end /\ n <= Len(input)
  BY <1>1
<1>4. SubSeq(input, m + 1, n) \in Seq(Byte)
  BY <1>1, <1>3
<1> QED BY <1>2, <1>3, <1>4 DEF SourceRange

(* A step of the dispatch after the decision that goes on. *)
LEMMA AfterBasic ==
    ASSUME BasicInv, at \in After, at' \in After,
           UNCHANGED <<source, scan, rec, spool, records, result, stops, cancel, decisions, late>>,
           values' \in Seq(Seq(Byte))
    PROVE  BasicInv'
<1>1. /\ read \in 0 .. Len(input) /\ pos \in 0 .. read /\ spool \in Seq(Byte)
      /\ late \in Nat /\ cancel \in BOOLEAN /\ polled \in BOOLEAN
      /\ eof \in BOOLEAN /\ (eof => read = Len(input))
      /\ rec \in Rec /\ rec.start <= pos /\ rec.end <= pos /\ at # "done"
  BY DEF BasicInv, TypeOK, RecInv, After
<1> QED BY <1>1, BasicMove DEF scan

(* What on_value is given, and what its answer leaves. *)
LEMMA ValueFacts ==
    ASSUME BasicInv, Value
    PROVE  /\ at = "value" /\ values' \in Seq(Seq(Byte))
           /\ UNCHANGED <<source, scan, rec, spool, cancel, decisions, out, late>>
           /\ result' \in Results /\ records' \in Nat
           /\ result'.records_seen = result.records_seen
           /\ result'.records_matched = result.records_matched
           /\ \/ at' = "output" /\ UNCHANGED <<result, limit_stop, cancelled, status, records>>
              \/ /\ at' = "done" /\ limit_stop' = FALSE /\ cancelled' = FALSE
                 /\ \/ /\ status' = "OK" /\ result'.stopped_early
                       /\ result'.stop_reason = "CALLBACK"
                    \/ /\ status' \in {"CALLBACK_ERROR", "UNSUPPORTED"} /\ ~result'.stopped_early
                       /\ result'.stop_reason = "NONE"
<1>1. /\ at = "value" /\ UNCHANGED <<source, scan, rec, spool, cancel, decisions, out, late>>
  BY DEF Value
<1>2. /\ result \in Results /\ records \in Nat /\ values \in Seq(Seq(Byte)) /\ spool \in Seq(Byte)
      /\ ~result.stopped_early /\ result.stop_reason = "NONE"
  BY <1>1, SourceTypes DEF BasicInv, RunInv, TypeOK
<1>3. CASE at' = "output" /\ UNCHANGED <<records, result, stops, values>>
  BY <1>1, <1>2, <1>3 DEF stops
<1>4. CASE Abort("UNSUPPORTED", result) /\ UNCHANGED values
  <2>1. "UNSUPPORTED" \in Status /\ at # "done"
    BY <1>1 DEF Status
  <2>2. Finish("UNSUPPORTED", result, FALSE, FALSE) /\ records' = records + 1
    BY <1>4 DEF Abort
  <2>3. /\ at' = "done" /\ limit_stop' = FALSE /\ cancelled' = FALSE /\ result' \in Results
        /\ result'.records_seen = result.records_seen
        /\ result'.records_matched = result.records_matched
        /\ result'.stop_reason = "NONE" /\ ~result'.stopped_early /\ status' = "UNSUPPORTED"
    BY <2>1, <2>2, FailFacts
  <2>4. records' \in Nat
    BY <1>2, <2>2
  <2> QED BY <1>1, <1>2, <1>4, <2>3, <2>4, Zenon
<1>5. ASSUME values' = Append(values, IF rec.compact /\ req.range_writer THEN SourceRange ELSE spool),
             NEW answer \in caller.answers, Answer(answer, result, "output")
      PROVE  /\ values' \in Seq(Seq(Byte))
             /\ result' \in Results /\ records' \in Nat
             /\ result'.records_seen = result.records_seen
             /\ result'.records_matched = result.records_matched
             /\ \/ /\ at' = "output" /\ result' = result
                   /\ UNCHANGED <<limit_stop, cancelled, status, records>>
                \/ /\ at' = "done" /\ limit_stop' = FALSE /\ cancelled' = FALSE
                   /\ \/ /\ status' = "OK" /\ result'.stopped_early
                         /\ result'.stop_reason = "CALLBACK"
                      \/ /\ status' = "CALLBACK_ERROR" /\ ~result'.stopped_early
                         /\ result'.stop_reason = "NONE"
  <2>1. values' \in Seq(Seq(Byte))
    BY <1>2, <1>5, SourceRangeType
  <2>2. caller \in Caller
    BY SourceTypes DEF BasicInv
  <2>3. answer \in {"continue", "stop", "error"}
    BY <2>2 DEF Caller
  <2>4. /\ result' \in Results /\ records' \in Nat
        /\ result'.records_seen = result.records_seen
        /\ result'.records_matched = result.records_matched
        /\ \/ /\ at' = "output" /\ result' = result
              /\ UNCHANGED <<limit_stop, cancelled, status, records>>
           \/ /\ at' = "done" /\ limit_stop' = FALSE /\ cancelled' = FALSE
              /\ \/ /\ status' = "OK" /\ result'.stopped_early
                    /\ result'.stop_reason = "CALLBACK"
                 \/ /\ status' = "CALLBACK_ERROR" /\ ~result'.stopped_early
                    /\ result'.stop_reason = "NONE"
    BY <1>2, <1>5, <2>3, AnswerFacts, Zenon
  <2> QED BY <2>1, <2>4, Zenon
<1> QED BY <1>1, <1>3, <1>4, <1>5, Zenon DEF Value

LEMMA ValueBasic == ASSUME BasicInv, Value PROVE BasicInv'
<1>1. /\ at = "value" /\ values' \in Seq(Seq(Byte)) /\ result' \in Results /\ records' \in Nat
      /\ UNCHANGED <<source, scan, rec, spool, cancel, decisions, out, late>>
      /\ result'.records_seen = result.records_seen
  BY ValueFacts, Zenon
<1>2. CASE at' = "output" /\ UNCHANGED <<result, limit_stop, cancelled, status, records>>
  <2>1. at \in After /\ at' \in After /\ UNCHANGED stops
    BY <1>1, <1>2 DEF After, stops
  <2> QED BY <1>1, <1>2, <2>1, AfterBasic
<1>3. CASE at' = "done"
  <2>1. limit_stop' = FALSE /\ cancelled' = FALSE /\ status' \in {"OK", "CALLBACK_ERROR", "UNSUPPORTED"}
    BY <1>3, ValueFacts
  <2>2. limit_stop' \in BOOLEAN /\ cancelled' \in BOOLEAN /\ status' \in Status
    BY <2>1 DEF Status
  <2>3. /\ decisions' \in Seq(BOOLEAN) /\ late' \in Nat /\ polled' \in BOOLEAN
        /\ result'.records_seen = Len(decisions')
    BY <1>1 DEF BasicInv, TypeOK, CountInv, scan
  <2> QED BY <1>1, <1>3, <2>2, <2>3, BasicDone DEF scan
<1> QED BY <1>2, <1>3, ValueFacts

LEMMA OutputBasic ==
    ASSUME BasicInv, Output \/ Newline \/ WriterFails PROVE BasicInv'
<1>1. /\ at \in {"output", "newline"} /\ at \in After /\ at # "done"
      /\ UNCHANGED <<source, scan, rec, spool, cancel, decisions, values, late>>
  BY DEF Output, Newline, WriterFails, After
<1>2. values' \in Seq(Seq(Byte))
  BY <1>1 DEF BasicInv, TypeOK
<1>3. ASSUME at' \in {"matches", "newline"}, UNCHANGED <<records, result, stops>> PROVE BasicInv'
  BY <1>1, <1>2, <1>3, AfterBasic DEF After
<1>4. ASSUME NEW st \in {"JSON_ERROR", "UNSUPPORTED", "IO_ERROR", "STOP"}, Abort(st, result)
      PROVE  BasicInv'
  <2>1. st \in Status
    BY DEF Status
  <2> QED BY <1>1, <1>2, <1>4, <2>1, AbortBasic
<1> QED BY <1>3, <1>4 DEF Output, Newline, WriterFails

(* The end of a record: the match limit, or the next record. *)
LEMMA MatchBasic == ASSUME BasicInv, MatchLimit PROVE BasicInv'
<1>1. /\ at = "matches" /\ at \in After
      /\ UNCHANGED <<source, scan, rec, spool, cancel, logs, late>>
  BY DEF MatchLimit, After
<1>2. /\ records \in Nat /\ result \in Results /\ result.records_seen = Len(decisions)
      /\ values \in Seq(Seq(Byte))
  BY SourceTypes DEF BasicInv, TypeOK, CountInv
<1>3. CASE Abort("STOP", [result EXCEPT !.stopped_early = TRUE, !.stop_reason = "MATCH_LIMIT"])
  <2>1. PICK res : res = [result EXCEPT !.stopped_early = TRUE, !.stop_reason = "MATCH_LIMIT"]
    OBVIOUS
  <2>2. Finish("STOP", res, FALSE, FALSE) /\ records' = records + 1
    BY <1>3, <2>1, Zenon DEF Abort
  <2>3. "MATCH_LIMIT" \in Reason
    BY DEF Reason
  <2>4. res \in Results /\ res.records_seen = result.records_seen
    BY <1>2, <2>1, <2>3, Zenon DEF Results
  <2>5. records' \in Nat /\ res.records_seen = Len(decisions) /\ at # "done"
    BY <1>1, <1>2, <2>2, <2>4
  <2> QED BY <1>1, <2>2, <2>4, <2>5, StopBasic
<1>4. CASE at' = "next" /\ records' = records + 1 /\ UNCHANGED <<result, stops>>
  <2>1. /\ read \in 0 .. Len(input) /\ pos \in 0 .. read /\ spool \in Seq(Byte)
        /\ late \in Nat /\ cancel \in BOOLEAN /\ polled \in BOOLEAN
        /\ eof \in BOOLEAN /\ (eof => read = Len(input))
        /\ rec \in Rec /\ rec.start <= pos /\ rec.end <= pos /\ at # "done"
    BY <1>1 DEF BasicInv, TypeOK, RecInv, After
  <2> QED BY <1>1, <1>2, <1>4, <2>1, BasicMove DEF scan, logs
<1> QED BY <1>3, <1>4, Zenon DEF MatchLimit

LEMMA NextRecordBasic == ASSUME BasicInv, NextRecord PROVE BasicInv'
<1>1. /\ at = "next"
      /\ UNCHANGED <<source, scan, rec, spool, records, cancel, logs, late>>
  BY DEF NextRecord
<1>2. /\ records \in Nat /\ result \in Results /\ result.records_seen = Len(decisions)
      /\ values \in Seq(Seq(Byte))
  BY SourceTypes DEF BasicInv, TypeOK, CountInv
<1>3. CASE Finish("STOP", result, TRUE, FALSE)
  BY <1>1, <1>2, <1>3, StopBasic
<1>4. CASE at' = "space" /\ UNCHANGED <<result, stops>>
  <2>1. /\ read \in 0 .. Len(input) /\ pos \in 0 .. read /\ spool \in Seq(Byte)
        /\ late \in Nat /\ cancel \in BOOLEAN /\ polled \in BOOLEAN
        /\ eof \in BOOLEAN /\ (eof => read = Len(input))
        /\ rec \in Rec /\ rec.start <= pos /\ rec.end <= pos /\ at # "done"
    BY <1>1 DEF BasicInv, TypeOK, RecInv
  <2> QED BY <1>1, <1>2, <1>4, <2>1, BasicMove DEF scan, logs
<1> QED BY <1>3, <1>4 DEF NextRecord

LEMMA NextBasic == BasicInv /\ [Next]_vars => BasicInv'
<1> SUFFICES ASSUME BasicInv, [Next]_vars PROVE BasicInv'
  OBVIOUS
<1>1. CASE CallStep
  <2>1. \/ Start \/ (PollRefill \/ Refill \/ RefillFails) \/ (\E b \in Byte : ScanStep(b))
        \/ (EndOfInput \/ SpoolFails) \/ Flush \/ Decision \/ Value
        \/ (Output \/ Newline \/ WriterFails) \/ MatchLimit \/ NextRecord
    BY <1>1 DEF CallStep, ScanStep
  <2> QED BY <2>1, StartBasic, RefillBasic, ScanBasic, EndBasic, FlushBasic, DecisionBasic,
             ValueBasic, OutputBasic, MatchBasic, NextRecordBasic
<1>2. CASE Cancel
  <2>1. /\ cancel' = TRUE
        /\ UNCHANGED <<source, at, scan, rec, spool, records, result, stops, logs, late>>
    BY <1>2 DEF Cancel
  <2>2. TypeOK'
    BY <2>1 DEF BasicInv, TypeOK, source, scan, stops, logs
  <2> QED BY <2>1, <2>2 DEF BasicInv, RecInv, RunInv, CountInv, source, scan, stops, logs
<1>3. CASE UNCHANGED vars
  <2>1. TypeOK'
    BY <1>3 DEF BasicInv, TypeOK, vars, source, scan, stops, logs
  <2> QED BY <1>3, <2>1 DEF BasicInv, RecInv, RunInv, CountInv, vars, source, scan, stops, logs
<1> QED BY <1>1, <1>2, <1>3 DEF Next, Done

LEMMA BasicInvariant == Spec => []BasicInv
  BY InitBasic, NextBasic, PTL DEF Spec

(* Whatever the reader, the callbacks and the writer do, the scanner never   *)
(* consumes more than the reader delivered, a range handed to on_value lies  *)
(* in the input, and every count and status is one of the interface's.       *)
THEOREM StreamTypes == Spec => []TypeOK
<1>1. BasicInv => TypeOK
  BY DEF BasicInv
<1> QED BY <1>1, BasicInvariant, PTL

-----------------------------------------------------------------------------
(* Cancellation *)

(* A call past its check of cancelled is the only one that can still be      *)
(* made: the refill between its poll and its read, or a decision.            *)
SoonInv ==
    /\ ~cancel => late = 0
    /\ late <= 1
    /\ late = 1 => at = "done" \/ (~polled /\ at # "decision")
    /\ polled => at = "done" \/ Empty

(* A step that calls neither the reader nor on_decision. *)
LEMMA SoonKeep ==
    ASSUME BasicInv, SoonInv, at # "done", UNCHANGED <<cancel, late>>,
           at' = "decision" => ~cancel, polled' => polled \/ ~cancel,
           polled' => at' = "done" \/ Empty'
    PROVE  SoonInv'
<1>1. late \in Nat /\ cancel \in BOOLEAN
  BY DEF BasicInv, TypeOK
<1> QED BY <1>1 DEF SoonInv

(* A step that calls one of them. *)
LEMMA SoonCall ==
    ASSUME BasicInv, SoonInv, late = 0, Called, cancel' = cancel, ~polled', at' # "decision"
    PROVE  SoonInv'
  BY DEF SoonInv, Called

LEMMA FinishEnds ==
    ASSUME NEW st, NEW res, NEW lim, NEW can, Finish(st, res, lim, can) PROVE at' = "done"
  BY DEF Finish

LEMMA NextSoon == BasicInv /\ SoonInv /\ [Next]_vars => SoonInv'
<1> SUFFICES ASSUME BasicInv, SoonInv, [Next]_vars PROVE SoonInv'
  OBVIOUS
<1>0. /\ late \in Nat /\ cancel \in BOOLEAN /\ polled \in BOOLEAN /\ pos \in Nat /\ read \in Nat
      /\ eof \in BOOLEAN
  BY SourceTypes DEF BasicInv, TypeOK
<1>1. CASE Start
  <2>1. at = "start" /\ ~polled /\ UNCHANGED <<polled, cancel, late>>
    BY <1>1 DEF Start, scan, SoonInv, Empty, Scanning
  <2>2. at' # "decision"
    BY <1>1, FinishEnds DEF Start, Fail
  <2> QED BY <2>1, <2>2, SoonKeep
<1>2. CASE PollRefill
  <2>1. Empty /\ at # "done" /\ at # "decision" /\ UNCHANGED <<read, pos, eof, cancel, late>>
    BY <1>2 DEF PollRefill, Empty, Scanning
  <2>2. CASE cancel /\ Finish("STOP", result, FALSE, TRUE) /\ UNCHANGED polled
    <3>1. at' = "done"
      BY <2>2, FinishEnds
    <3> QED BY <2>1, <2>2, <3>1, SoonKeep
  <2>3. CASE ~cancel /\ polled' = TRUE /\ UNCHANGED <<at, result, stops>>
    BY <2>1, <2>3, SoonKeep DEF Empty
  <2> QED BY <1>2, <2>2, <2>3 DEF PollRefill
<1>3. CASE Refill \/ RefillFails
  <2>1. Empty /\ polled /\ at # "done" /\ at # "decision" /\ polled' = FALSE /\ Called
        /\ cancel' = cancel
    BY <1>3 DEF Refill, RefillFails, Empty, Scanning
  <2>2. late = 0
    BY <1>0, <2>1 DEF SoonInv
  <2>3. at' # "decision"
    BY <1>3, <2>1, FinishEnds DEF Refill, RefillFails, Fail
  <2> QED BY <2>1, <2>2, <2>3, SoonCall
<1>4. CASE \E b \in Byte : ScanStep(b)
  <2>1. PICK b \in Byte : ScanStep(b)
    BY <1>4
  <2>2. at \in Scanning /\ pos < read
    BY <2>1 DEF ScanStep, SkipSpace, ScanObject, ScanNumber, Separator, LineFeed, Have, Scanning
  <2>3. ~polled /\ at # "done"
    BY <1>0, <2>2 DEF SoonInv, Empty, Scanning
  <2>4. at' # "decision" /\ UNCHANGED <<polled, cancel, late>>
    <3>1. CASE Reject
      BY <3>1, FinishEnds DEF Reject, Fail, scan
    <3>2. ASSUME NEW next \in Scanning \cup {"flush"}, Take(next) \/ Move(next)
          PROVE  at' # "decision" /\ UNCHANGED <<polled, cancel, late>>
      BY <3>2 DEF Take, Move, scan, Scanning
    <3> QED BY <2>1, <3>1, <3>2 DEF ScanStep, SkipSpace, ScanObject, ScanNumber, Separator,
                                    LineFeed, Scanning
  <2> QED BY <2>3, <2>4, SoonKeep
<1>5. CASE EndOfInput
  <2>1. eof /\ at \in Scanning
    BY <1>5 DEF EndOfInput, AtEnd, Scanning
  <2>2. ~polled /\ at # "done"
    BY <1>0, <2>1 DEF SoonInv, Empty, Scanning
  <2>3. at' # "decision" /\ UNCHANGED <<polled, cancel, late>>
    BY <1>5, FinishEnds DEF EndOfInput, Reject, Fail, Move, scan
  <2> QED BY <2>2, <2>3, SoonKeep
<1>6. CASE SpoolFails
  <2>1. at # "done" /\ at' = "done" /\ UNCHANGED <<polled, cancel, late>>
    BY <1>6, FinishEnds DEF SpoolFails, Fail, scan
  <2> QED BY <2>1, SoonKeep
<1>7. CASE Flush
  <2>1. at = "flush" /\ ~polled /\ UNCHANGED <<polled, cancel, late>>
    BY <1>7 DEF Flush, scan, SoonInv, Empty, Scanning
  <2>2. at' = "decision" => ~cancel
    BY <1>7, FinishEnds DEF Flush
  <2> QED BY <2>1, <2>2, SoonKeep
<1>8. CASE Decision
  <2>1. at = "decision" /\ Called /\ UNCHANGED <<polled, cancel>> /\ at' # "decision"
    <3>1. at = "decision" /\ Called /\ UNCHANGED <<scan, cancel>>
      BY <1>8, Zenon DEF Decision
    <3>2. at' \in {"value", "done"}
      BY <1>8, DecisionFacts
    <3> QED BY <3>1, <3>2 DEF scan
  <2>2. ~polled /\ late = 0
    BY <1>0, <2>1 DEF SoonInv, Empty, Scanning
  <2> QED BY <2>1, <2>2, SoonCall
<1>9. CASE Value \/ Output \/ Newline \/ WriterFails \/ MatchLimit \/ NextRecord
  <2>1. /\ at \in {"value", "output", "newline", "matches", "next"}
        /\ UNCHANGED <<scan, cancel, late>>
    BY <1>9, Zenon DEF Value, Output, Newline, WriterFails, MatchLimit, NextRecord
  <2>2. ~polled /\ at # "done" /\ UNCHANGED polled
    BY <2>1 DEF SoonInv, Empty, Scanning, scan
  <2>3. at' # "decision"
    <3>1. CASE Value
      BY <3>1, ValueFacts
    <3>2. CASE Output \/ Newline \/ WriterFails
      BY <3>2, FinishEnds DEF Output, Newline, WriterFails, Abort
    <3>3. CASE MatchLimit
      <4>1. ASSUME NEW res, Abort("STOP", res) PROVE at' # "decision"
        BY <4>1, FinishEnds DEF Abort
      <4>2. CASE at' = "next"
        BY <4>2
      <4> QED BY <3>3, <4>1, <4>2, Zenon DEF MatchLimit
    <3>4. CASE NextRecord
      BY <3>4, FinishEnds DEF NextRecord
    <3> QED BY <1>9, <3>1, <3>2, <3>3, <3>4
  <2> QED BY <2>1, <2>2, <2>3, SoonKeep
<1>10. CASE Cancel
  <2>1. ~cancel /\ cancel' = TRUE /\ UNCHANGED <<at, scan, late>>
    BY <1>10 DEF Cancel
  <2> QED BY <1>0, <2>1 DEF SoonInv, Empty, scan
<1>11. CASE UNCHANGED vars
  BY <1>11 DEF SoonInv, Empty, vars, scan
<1> QED BY <1>1, <1>2, <1>3, <1>4, <1>5, <1>6, <1>7, <1>8, <1>9, <1>10, <1>11, Zenon
        DEF Next, CallStep, Done, ScanStep

(* However the callbacks and the reader interleave with the moment cancelled *)
(* turns true, at most one more call is made to the reader or to on_decision. *)
THEOREM CancelEndsTheCall == Spec => []CancelStopsSoon
<1>1. Init => SoonInv
  BY DEF Init, SoonInv
<1>2. SoonInv => CancelStopsSoon
  BY DEF SoonInv, CancelStopsSoon
<1> QED BY <1>1, <1>2, NextSoon, BasicInvariant, PTL DEF Spec

-----------------------------------------------------------------------------
(* The reference: where values and separators end *)

LEMMA FirstStartFacts ==
    ASSUME NEW s \in Seq(Byte), NEW p \in 0 .. Len(s), Starts(s, p) # {}
    PROVE  /\ FirstStart(s, p) \in p .. (Len(s) - 1)
           /\ s[FirstStart(s, p) + 1] \notin Space
           /\ \A i \in (p + 1) .. FirstStart(s, p) : s[i] \in Space
<1> DEFINE T == Starts(s, p)
<1>1. T \in SUBSET Nat /\ T # {}
  BY DEF Starts
<1>2. \E q \in T : \A o \in T : q <= o
  <2> HIDE DEF T
  <2> QED BY <1>1, LeastElement
<1>3. FirstStart(s, p) \in T /\ \A o \in T : FirstStart(s, p) <= o
  BY <1>2 DEF FirstStart
<1>4. PICK q \in T : q = FirstStart(s, p) /\ \A o \in T : q <= o
  BY <1>3
<1>5. q \in p .. (Len(s) - 1) /\ s[q + 1] \notin Space
  BY <1>4 DEF Starts
<1>6. ASSUME NEW i \in (p + 1) .. q PROVE s[i] \in Space
  <2>1. i - 1 \in p .. (Len(s) - 1) /\ ~(q <= i - 1) /\ (i - 1) + 1 = i
    BY <1>5
  <2>2. i - 1 \notin T
    BY <1>4, <2>1
  <2> QED BY <2>1, <2>2 DEF Starts
<1> QED BY <1>4, <1>5, <1>6

LEMMA FirstStartIs ==
    ASSUME NEW s \in Seq(Byte), NEW p \in 0 .. Len(s), NEW q \in p .. (Len(s) - 1),
           s[q + 1] \notin Space, \A i \in (p + 1) .. q : s[i] \in Space
    PROVE  Starts(s, p) # {} /\ FirstStart(s, p) = q
<1>1. q \in Starts(s, p)
  BY DEF Starts
<1>2. FirstStart(s, p) \in p .. (Len(s) - 1) /\ s[FirstStart(s, p) + 1] \notin Space
      /\ \A i \in (p + 1) .. FirstStart(s, p) : s[i] \in Space
  BY <1>1, FirstStartFacts
<1>3. PICK f \in p .. (Len(s) - 1) : f = FirstStart(s, p)
  BY <1>2
<1>4. ~(f < q)
  <2> SUFFICES ASSUME f < q PROVE FALSE
    OBVIOUS
  <2>1. f + 1 \in (p + 1) .. q
    OBVIOUS
  <2> QED BY <1>2, <1>3, <2>1
<1>5. ~(q < f)
  <2> SUFFICES ASSUME q < f PROVE FALSE
    OBVIOUS
  <2>1. q + 1 \in (p + 1) .. f
    OBVIOUS
  <2> QED BY <1>2, <1>3, <2>1
<1> QED BY <1>1, <1>3, <1>4, <1>5

LEMMA NoStart ==
    ASSUME NEW s \in Seq(Byte), NEW p \in 0 .. Len(s),
           \A i \in (p + 1) .. Len(s) : s[i] \in Space
    PROVE  Starts(s, p) = {}
<1> SUFFICES ASSUME NEW q \in p .. (Len(s) - 1), s[q + 1] \notin Space PROVE FALSE
  BY DEF Starts
<1>1. q + 1 \in (p + 1) .. Len(s)
  OBVIOUS
<1> QED BY <1>1

(* The bytes around an object, as constants without a value: the braces *)
(* cannot be passed to the SMT solver.                                        *)
Open == "{"

Close == "}"

LEMMA Braces ==
    /\ Open # Close /\ Open # "d" /\ Close # "d" /\ Open # "m" /\ Close # "m"
    /\ Open \notin Space /\ Close \notin Space
<1>1. Open # Close /\ Open # "d" /\ Close # "d" /\ Open # "m" /\ Close # "m"
  BY Zenon DEF Open, Close
<1>2. Open \notin Space /\ Close \notin Space
  BY Zenon DEF Open, Close, Space
<1> QED BY <1>1, <1>2

(* the ends ValueEnd chooses from *)
EndsAt(s, p, e) ==
    \/ /\ \A i \in (p + 1) .. e : s[i] = "d"
       /\ e = Len(s) \/ s[e + 1] # "d"
    \/ /\ s[p + 1] = Open /\ s[e] = Close
       /\ \A i \in (p + 2) .. (e - 1) : s[i] \in Space \cup {"m"}

LEMMA ValueEndFacts ==
    ASSUME NEW s \in Seq(Byte), NEW p \in 0 .. Len(s)
    PROVE  /\ ValueEnd(s, p) # 0 =>
                 ValueEnd(s, p) \in (p + 1) .. Len(s) /\ EndsAt(s, p, ValueEnd(s, p))
           /\ (\A e \in (p + 1) .. Len(s) : ~EndsAt(s, p, e)) => ValueEnd(s, p) = 0
           /\ (\E e \in (p + 1) .. Len(s) : EndsAt(s, p, e)) =>
                 ValueEnd(s, p) \in (p + 1) .. Len(s) /\ EndsAt(s, p, ValueEnd(s, p))
<1> DEFINE ends == {e \in (p + 1) .. Len(s) : EndsAt(s, p, e)}
<1>1. ValueEnd(s, p) = IF ends = {} THEN 0 ELSE CHOOSE e \in ends : TRUE
  BY Zenon DEF ValueEnd, EndsAt, Open, Close
<1>2. PICK c : c = CHOOSE e \in ends : TRUE
  OBVIOUS
<1>3. ends # {} => c \in ends
  BY <1>2, Zenon
<1>4. ValueEnd(s, p) = IF ends = {} THEN 0 ELSE c
  BY <1>1, <1>2, Zenon
<1>5. c \in ends => c # 0 /\ c \in (p + 1) .. Len(s) /\ EndsAt(s, p, c)
  OBVIOUS
<1>6. (\E e \in (p + 1) .. Len(s) : EndsAt(s, p, e)) <=> ends # {}
  BY Zenon
<1> HIDE DEF ends
<1> QED BY <1>3, <1>4, <1>5, <1>6

(* Where a value ends there is only one end. *)
LEMMA OneEnd ==
    ASSUME NEW s \in Seq(Byte), NEW p \in 0 .. Len(s),
           NEW d \in (p + 1) .. Len(s), NEW e \in (p + 1) .. Len(s),
           EndsAt(s, p, d), EndsAt(s, p, e)
    PROVE  ~(d < e)
<1> SUFFICES ASSUME d < e PROVE FALSE
  OBVIOUS
<1>1. p + 1 \in (p + 1) .. d /\ p + 1 \in (p + 1) .. e /\ d + 1 \in (p + 1) .. e /\ d # Len(s)
  OBVIOUS
<1>2. CASE s[p + 1] = Open
  <2>0. ~(\A i \in (p + 1) .. d : s[i] = "d") /\ ~(\A i \in (p + 1) .. e : s[i] = "d")
    BY <1>1, <1>2, Braces
  <2>1. s[d] = Close /\ \A i \in (p + 2) .. (e - 1) : s[i] \in Space \cup {"m"}
    BY <2>0, Zenon DEF EndsAt
  <2>2. d # p + 1
    BY <1>2, <2>1, Braces
  <2>4. d \in (p + 2) .. (e - 1)
    BY <2>2
  <2>3. Close \notin Space \cup {"m"}
    BY Braces
  <2> QED BY <2>1, <2>3, <2>4
<1>3. CASE s[p + 1] # Open
  BY <1>1, <1>3 DEF EndsAt
<1> QED BY <1>2, <1>3

LEMMA ValueEndIs ==
    ASSUME NEW s \in Seq(Byte), NEW p \in 0 .. Len(s), NEW e \in (p + 1) .. Len(s),
           EndsAt(s, p, e)
    PROVE  ValueEnd(s, p) = e /\ e # 0
<1>1. PICK d \in (p + 1) .. Len(s) : d = ValueEnd(s, p) /\ EndsAt(s, p, d)
  BY ValueEndFacts
<1>2. ~(d < e) /\ ~(e < d)
  BY <1>1, OneEnd
<1> QED BY <1>1, <1>2

(* the run of blanks after a value *)
BlankTo(s, e, k) ==
    /\ \A i \in (e + 1) .. k : s[i] = "s"
    /\ k = Len(s) \/ s[k + 1] # "s"

LEMMA OneBlank ==
    ASSUME NEW s \in Seq(Byte), NEW e \in 0 .. Len(s), NEW j \in e .. Len(s), NEW k \in e .. Len(s),
           BlankTo(s, e, j), BlankTo(s, e, k)
    PROVE  ~(j < k)
<1> SUFFICES ASSUME j < k PROVE FALSE
  OBVIOUS
<1>1. j + 1 \in (e + 1) .. k /\ j # Len(s)
  OBVIOUS
<1> QED BY <1>1 DEF BlankTo

LEMMA SomeBlank ==
    ASSUME NEW s \in Seq(Byte), NEW e \in 0 .. Len(s)
    PROVE  \E k \in e .. Len(s) : BlankTo(s, e, k)
<1> DEFINE T == {k \in e .. Len(s) : k = Len(s) \/ s[k + 1] # "s"}
<1>1. T \in SUBSET Nat /\ Len(s) \in T
  OBVIOUS
<1>2. PICK k \in T : \A m \in T : k <= m
  <2> HIDE DEF T
  <2> QED BY <1>1, LeastElement
<1>3. ASSUME NEW i \in (e + 1) .. k PROVE s[i] = "s"
  <2>1. i - 1 \in e .. Len(s) /\ ~(k <= i - 1) /\ (i - 1) + 1 = i
    OBVIOUS
  <2> QED BY <1>2, <2>1
<1> QED BY <1>2, <1>3 DEF BlankTo

LEMMA EmptyIs ==
    ASSUME NEW S, NEW t \in Seq(S) PROVE t = <<>> <=> Len(t) = 0
  OBVIOUS

LEMMA PrefixIs ==
    ASSUME NEW S, NEW t \in Seq(S), NEW a \in S, NEW b \in S
    PROVE  /\ IsPrefix(<<a>>, t) <=> (Len(t) >= 1 /\ t[1] = a)
           /\ IsPrefix(<<a, b>>, t) <=> (Len(t) >= 2 /\ t[1] = a /\ t[2] = b)
<1>1. \A u \in Seq(S) : /\ Len(u) = 1 => u = <<u[1]>>
                        /\ Len(u) = 2 => u = <<u[1], u[2]>>
  OBVIOUS
<1>2. ASSUME NEW u \in Seq(S)
      PROVE  /\ Len(u) >= 1 => SubSeq(u, 1, 1) = <<u[1]>>
             /\ Len(u) >= 2 => SubSeq(u, 1, 2) = <<u[1], u[2]>>
  <2>1. Len(u) >= 1 => SubSeq(u, 1, 1) \in Seq(S) /\ Len(SubSeq(u, 1, 1)) = 1
                       /\ SubSeq(u, 1, 1)[1] = u[1]
    OBVIOUS
  <2>2. Len(u) >= 2 => SubSeq(u, 1, 2) \in Seq(S) /\ Len(SubSeq(u, 1, 2)) = 2
                       /\ SubSeq(u, 1, 2)[1] = u[1] /\ SubSeq(u, 1, 2)[2] = u[2]
    OBVIOUS
  <2>3. Len(u) >= 1 => SubSeq(u, 1, 1) = <<u[1]>>
    BY <1>1, <2>1
  <2>4. Len(u) >= 2 => SubSeq(u, 1, 2) = <<u[1], u[2]>>
    BY <1>1, <2>2
  <2> QED BY <2>3, <2>4
<1>3. /\ <<a>> \in Seq(S) /\ Len(<<a>>) = 1 /\ <<a>>[1] = a
      /\ <<a, b>> \in Seq(S) /\ Len(<<a, b>>) = 2 /\ <<a, b>>[1] = a /\ <<a, b>>[2] = b
  OBVIOUS
<1>4. SubSeq(<<a>>, 1, 1) = <<a>> /\ SubSeq(<<a, b>>, 1, 2) = <<a, b>>
  <2>1. PICK u \in Seq(S) : u = <<a>> /\ Len(u) = 1 /\ u[1] = a
    BY <1>3
  <2>2. PICK v \in Seq(S) : v = <<a, b>> /\ Len(v) = 2 /\ v[1] = a /\ v[2] = b
    BY <1>3
  <2>3. Len(u) >= 1 /\ Len(v) >= 2
    BY <2>1, <2>2
  <2>4. SubSeq(u, 1, 1) = <<u[1]>>
    BY <1>2, <2>3, Zenon
  <2>5. SubSeq(v, 1, 2) = <<v[1], v[2]>>
    BY <1>2, <2>3, Zenon
  <2>6. SubSeq(<<a>>, 1, 1) = <<a>>
    BY <2>1, <2>4, Zenon
  <2>7. SubSeq(<<a, b>>, 1, 2) = <<a, b>>
    BY <2>2, <2>5, Zenon
  <2> QED BY <2>6, <2>7
<1>5. Len(t) >= 1 => SubSeq(t, 1, 1) = <<t[1]>>
  BY <1>2
<1>6. Len(t) >= 2 => SubSeq(t, 1, 2) = <<t[1], t[2]>>
  BY <1>2
<1>7. IsPrefix(<<a>>, t) <=> (Len(t) >= 1 /\ <<t[1]>> = <<a>>)
  BY <1>3, <1>4, <1>5 DEF IsPrefix
<1>8. IsPrefix(<<a, b>>, t) <=> (Len(t) >= 2 /\ <<t[1], t[2]>> = <<a, b>>)
  BY <1>3, <1>4, <1>6 DEF IsPrefix
<1> QED BY <1>7, <1>8

LEMMA SeparatorEndIs ==
    ASSUME NEW s \in Seq(Byte), NEW e \in 0 .. Len(s), NEW k \in e .. Len(s), BlankTo(s, e, k)
    PROVE  SeparatorEnd(s, e) =
             CASE k = Len(s) -> k
               [] k < Len(s) /\ s[k + 1] = "n" -> k + 1
               [] k + 1 < Len(s) /\ s[k + 1] = "r" /\ s[k + 2] = "n" -> k + 2
               [] OTHER -> Len(s) + 1
<1> DEFINE rest == SubSeq(s, k + 1, Len(s))
<1>1. (CHOOSE j \in e .. Len(s) : BlankTo(s, e, j)) = k
  <2>1. PICK j \in e .. Len(s) : j = (CHOOSE x \in e .. Len(s) : BlankTo(s, e, x)) /\ BlankTo(s, e, j)
    BY Zenon
  <2>2. ~(j < k) /\ ~(k < j)
    BY <2>1, OneBlank
  <2> QED BY <2>1, <2>2
<1>2. SeparatorEnd(s, e) = CASE rest = <<>> -> k
                             [] IsPrefix(<<"n">>, rest) -> k + 1
                             [] IsPrefix(<<"r", "n">>, rest) -> k + 2
                             [] OTHER -> Len(s) + 1
  BY <1>1 DEF SeparatorEnd, BlankTo
<1>3. rest \in Seq(Byte) /\ Len(rest) = Len(s) - k
      /\ \A i \in 1 .. Len(rest) : rest[i] = s[k + i]
  OBVIOUS
<1> HIDE DEF rest
<1>4. rest = <<>> <=> k = Len(s)
  <2>1. rest = <<>> <=> Len(rest) = 0
    BY <1>3, EmptyIs
  <2> QED BY <1>3, <2>1
<1>5. IsPrefix(<<"n">>, rest) <=> (k < Len(s) /\ s[k + 1] = "n")
  <2>1. "n" \in Byte
    BY DEF Byte
  <2>2. IsPrefix(<<"n">>, rest) <=> (Len(rest) >= 1 /\ rest[1] = "n")
    BY <1>3, <2>1, PrefixIs
  <2> QED BY <1>3, <2>2
<1>6. IsPrefix(<<"r", "n">>, rest) <=> (k + 1 < Len(s) /\ s[k + 1] = "r" /\ s[k + 2] = "n")
  <2>1. "r" \in Byte /\ "n" \in Byte
    BY DEF Byte
  <2>2. IsPrefix(<<"r", "n">>, rest) <=> (Len(rest) >= 2 /\ rest[1] = "r" /\ rest[2] = "n")
    BY <1>3, <2>1, PrefixIs
  <2> QED BY <1>3, <2>2
<1> QED BY <1>2, <1>4, <1>5, <1>6

LEMMA SeparatorEndFacts ==
    ASSUME NEW s \in Seq(Byte), NEW e \in 0 .. Len(s)
    PROVE  SeparatorEnd(s, e) \in e .. (Len(s) + 1)
<1>1. PICK k \in e .. Len(s) : BlankTo(s, e, k)
  BY SomeBlank
<1> QED BY <1>1, SeparatorEndIs

-----------------------------------------------------------------------------
(* The reference: the records after each position *)

LEMMA RecordAtFields ==
    ASSUME NEW s, NEW q
    PROVE  /\ RecordAt(s, q).next = SeparatorEnd(s, ValueEnd(s, q))
           /\ RecordAt(s, q).object = (s[q + 1] = "{")
           /\ RecordAt(s, q).hit = Contains(SubSeq(s, q + 1, ValueEnd(s, q)), "m")
           /\ RecordAt(s, q).ended = (s[RecordAt(s, q).next] = "n")
  BY Zenon DEF RecordAt

LEMMA NextFacts ==
    ASSUME NEW s \in Seq(Byte), NEW p \in 0 .. Len(s), Starts(s, p) # {},
           Readable(s, FirstStart(s, p))
    PROVE  RecordAt(s, FirstStart(s, p)).next \in (p + 1) .. Len(s)
<1>1. PICK q \in p .. (Len(s) - 1) : q = FirstStart(s, p)
  BY FirstStartFacts
<1>2. PICK e \in (q + 1) .. Len(s) : e = ValueEnd(s, q)
  BY <1>1, ValueEndFacts DEF Readable
<1>3. SeparatorEnd(s, e) \in e .. (Len(s) + 1) /\ SeparatorEnd(s, e) <= Len(s)
  BY <1>1, <1>2, SeparatorEndFacts DEF Readable
<1>4. RecordAt(s, q).next = SeparatorEnd(s, e)
  BY <1>2, RecordAtFields, Zenon
<1>5. SeparatorEnd(s, e) \in (p + 1) .. Len(s)
  BY <1>3
<1> QED BY <1>1, <1>4, <1>5, Zenon

RefRecs(s) == {RecordAt(s, q) : q \in 0 .. Len(s)}

RefResults(s) == [recs : Seq(RefRecs(s)), valid : BOOLEAN]

(* one unfolding of RecordsFrom *)
FromStep(s, p, f) ==
    CASE Starts(s, p) = {} -> [recs |-> <<>>, valid |-> TRUE]
      [] Starts(s, p) # {} /\ ~Readable(s, FirstStart(s, p)) -> [recs |-> <<>>, valid |-> FALSE]
      [] OTHER -> [recs |-> <<RecordAt(s, FirstStart(s, p))>>
                               \o f[RecordAt(s, FirstStart(s, p)).next].recs,
                   valid |-> f[RecordAt(s, FirstStart(s, p)).next].valid]

LEMMA FromStepType ==
    ASSUME NEW s \in Seq(Byte), NEW p \in 0 .. Len(s), NEW f,
           \A k \in (p + 1) .. Len(s) : f[k] \in RefResults(s)
    PROVE  FromStep(s, p, f) \in RefResults(s)
<1>1. CASE Starts(s, p) = {}
  BY <1>1 DEF FromStep, RefResults
<1>2. CASE Starts(s, p) # {} /\ ~Readable(s, FirstStart(s, p))
  BY <1>2 DEF FromStep, RefResults
<1>3. CASE Starts(s, p) # {} /\ Readable(s, FirstStart(s, p))
  <2>1. PICK q \in 0 .. Len(s) : q = FirstStart(s, p)
    BY <1>3, FirstStartFacts
  <2>2. PICK r \in RefRecs(s) : r = RecordAt(s, q)
    BY DEF RefRecs
  <2>3. r.next \in (p + 1) .. Len(s)
    BY <1>3, <2>1, <2>2, NextFacts
  <2>4. PICK g \in RefResults(s) : g = f[r.next]
    BY <2>3
  <2>5. g.recs \in Seq(RefRecs(s)) /\ g.valid \in BOOLEAN
    BY DEF RefResults
  <2>6. <<r>> \o g.recs \in Seq(RefRecs(s))
    BY <2>5
  <2>7. FromStep(s, p, f) = [recs |-> <<r>> \o g.recs, valid |-> g.valid]
    BY <1>3, <2>1, <2>2, <2>4 DEF FromStep
  <2> QED BY <2>5, <2>6, <2>7 DEF RefResults
<1> QED BY <1>1, <1>2, <1>3

(* Only the values after p matter. *)
LEMMA FromStepLocal ==
    ASSUME NEW s \in Seq(Byte), NEW p \in 0 .. Len(s), NEW f, NEW g,
           \A k \in (p + 1) .. Len(s) : f[k] = g[k]
    PROVE  FromStep(s, p, f) = FromStep(s, p, g)
<1>1. CASE Starts(s, p) # {} /\ Readable(s, FirstStart(s, p))
  <2>1. PICK n \in (p + 1) .. Len(s) : n = RecordAt(s, FirstStart(s, p)).next
    BY <1>1, NextFacts
  <2>2. f[n] = g[n]
    OBVIOUS
  <2> QED BY <2>1, <2>2 DEF FromStep
<1>2. CASE ~(Starts(s, p) # {} /\ Readable(s, FirstStart(s, p)))
  BY <1>2 DEF FromStep
<1> QED BY <1>1, <1>2

(* The recursion has a solution on every final part of the positions. *)
LEMMA FromExists ==
    ASSUME NEW s \in Seq(Byte)
    PROVE  \E f \in [0 .. Len(s) -> RefResults(s)] : f = [p \in 0 .. Len(s) |-> FromStep(s, p, f)]
<1> DEFINE L == Len(s)
           Solves(f, k) == \A p \in (L - k) .. L : f[p] = FromStep(s, p, f)
           T == {k \in 0 .. L : \E f \in [(L - k) .. L -> RefResults(s)] : Solves(f, k)}
<1>0. L \in Nat
  OBVIOUS
<1>1. 0 \in T
  <2>1. PICK v : v = FromStep(s, L, <<>>)
    OBVIOUS
  <2>2. v \in RefResults(s)
    <3>1. L \in 0 .. L /\ (L + 1) .. L = {}
      BY <1>0
    <3>2. \A k \in (L + 1) .. L : <<>>[k] \in RefResults(s)
      BY <3>1
    <3> QED BY <2>1, <3>1, <3>2, FromStepType
  <2>3. PICK f : f = [p \in L .. L |-> v]
    OBVIOUS
  <2>4. f \in [(L - 0) .. L -> RefResults(s)] /\ f[L] = v
    BY <1>0, <2>2, <2>3
  <2>5. FromStep(s, L, f) = v
    <3>1. L \in 0 .. L /\ (L + 1) .. L = {}
      BY <1>0
    <3>2. \A k \in (L + 1) .. L : f[k] = <<>>[k]
      BY <3>1
    <3> QED BY <2>1, <3>1, <3>2, FromStepLocal
  <2>6. Solves(f, 0)
    BY <1>0, <2>4, <2>5
  <2> QED BY <1>0, <2>4, <2>6
<1>2. ASSUME NEW k \in 1 .. L, k - 1 \in T PROVE k \in T
  <2>1. PICK g \in [(L - (k - 1)) .. L -> RefResults(s)] : Solves(g, k - 1)
    BY <1>2
  <2>0. L - k \in 0 .. L
    BY <1>0
  <2>2. PICK m \in 0 .. L : m = L - k
    BY <2>0, Zenon
  <2>3. L - (k - 1) = m + 1 /\ m < L
    BY <1>0, <2>2
  <2>4. /\ g \in [(m + 1) .. L -> RefResults(s)]
        /\ \A p \in (m + 1) .. L : g[p] = FromStep(s, p, g)
    BY <2>1, <2>3, Zenon
  <2>5. PICK v : v = FromStep(s, m, g)
    OBVIOUS
  <2>6. v \in RefResults(s)
    BY <2>4, <2>5, FromStepType
  <2>7. PICK f : f = [p \in m .. L |-> IF p = m THEN v ELSE g[p]]
    OBVIOUS
  <2>8. f \in [m .. L -> RefResults(s)]
    BY <1>0, <2>4, <2>6, <2>7
  <2>9. f[m] = v /\ \A p \in (m + 1) .. L : f[p] = g[p]
    BY <1>0, <2>7
  <2>10. ASSUME NEW p \in m .. L PROVE f[p] = FromStep(s, p, f)
    <3>1. p \in 0 .. L /\ \A i \in (p + 1) .. L : f[i] = g[i]
      BY <1>0, <2>9
    <3>2. FromStep(s, p, f) = FromStep(s, p, g)
      BY <3>1, FromStepLocal
    <3>3. CASE p = m
      BY <2>5, <2>9, <3>2, <3>3
    <3>4. CASE p \in (m + 1) .. L
      BY <2>4, <2>9, <3>2, <3>4
    <3> QED BY <1>0, <3>3, <3>4
  <2>11. Solves(f, k)
    BY <2>2, <2>10
  <2> QED BY <1>0, <2>2, <2>8, <2>11
<1>3. L \in T
  <2> HIDE DEF T
  <2>1. 0 .. L \subseteq T
    BY <1>0, <1>1, <1>2, IntervalInduction
  <2> QED BY <1>0, <2>1
<1>4. PICK f \in [(L - L) .. L -> RefResults(s)] : Solves(f, L)
  BY <1>3
<1>5. L - L = 0
  BY <1>0
<1>6. f \in [0 .. L -> RefResults(s)] /\ \A p \in 0 .. L : f[p] = FromStep(s, p, f)
  BY <1>4, <1>5
<1>7. f = [p \in 0 .. L |-> FromStep(s, p, f)]
  BY <1>6
<1> QED BY <1>6, <1>7

LEMMA RecordsFromFacts ==
    ASSUME NEW s \in Seq(Byte)
    PROVE  /\ RecordsFrom(s) \in [0 .. Len(s) -> RefResults(s)]
           /\ \A p \in 0 .. Len(s) : RecordsFrom(s)[p] = FromStep(s, p, RecordsFrom(s))
<1> DEFINE Def(f) == [p \in 0 .. Len(s) |-> FromStep(s, p, f)]
           r == RecordsFrom(s)
<1>1. r = CHOOSE f : f = Def(f)
  BY DEF RecordsFrom, FromStep
<1>2. \E f : f = Def(f)
  BY FromExists
<1>3. r = Def(r)
  BY <1>1, <1>2, Zenon
<1> HIDE DEF r
<1>4. \A p \in 0 .. Len(s) : r[p] = FromStep(s, p, r)
  BY <1>3
<1>5. \A p \in 0 .. Len(s) : r[p] \in RefResults(s)
  <2> DEFINE T == {k \in 0 .. Len(s) : \A p \in (Len(s) - k) .. Len(s) : r[p] \in RefResults(s)}
  <2>0. Len(s) \in Nat
    OBVIOUS
  <2>1. ASSUME NEW p \in 0 .. Len(s), \A i \in (p + 1) .. Len(s) : r[i] \in RefResults(s)
        PROVE  r[p] \in RefResults(s)
    BY <1>4, <2>1, FromStepType
  <2>2. 0 \in T
    BY <2>0, <2>1
  <2>3. ASSUME NEW k \in 1 .. Len(s), k - 1 \in T PROVE k \in T
    <3>1. \A p \in (Len(s) - k + 1) .. Len(s) : r[p] \in RefResults(s)
      BY <2>0, <2>3
    <3>2. r[Len(s) - k] \in RefResults(s)
      BY <2>0, <2>1, <3>1
    <3> QED BY <2>0, <3>1, <3>2
  <2>4. 0 .. Len(s) \subseteq T
    <3> HIDE DEF T
    <3> QED BY <2>0, <2>2, <2>3, IntervalInduction
  <2>5. Len(s) \in T
    BY <2>0, <2>4
  <2> QED BY <2>0, <2>5
<1>6. r \in [0 .. Len(s) -> RefResults(s)]
  BY <1>3, <1>5
<1> QED BY <1>4, <1>6 DEF r

(* n records end at b, and the rest of the reference is what follows b *)
Chain(s, n, b) ==
    /\ b \in 0 .. Len(s)
    /\ Len(Reference(s).recs) = n + Len(RecordsFrom(s)[b].recs)
    /\ \A i \in 1 .. Len(RecordsFrom(s)[b].recs) :
          Reference(s).recs[n + i] = RecordsFrom(s)[b].recs[i]
    /\ Reference(s).valid = RecordsFrom(s)[b].valid
    /\ n > 0 => Reference(s).recs[n].next = b

LEMMA RefTypes ==
    ASSUME NEW s \in Seq(Byte), NEW b \in 0 .. Len(s)
    PROVE  /\ RecordsFrom(s)[b].recs \in Seq(RefRecs(s)) /\ RecordsFrom(s)[b].valid \in BOOLEAN
           /\ Len(RecordsFrom(s)[b].recs) \in Nat
<1>1. RecordsFrom(s)[b] \in RefResults(s)
  BY RecordsFromFacts
<1> QED BY <1>1 DEF RefResults

LEMMA ChainStart ==
    ASSUME NEW s \in Seq(Byte) PROVE Chain(s, 0, 0)
<1>1. 0 \in 0 .. Len(s)
  OBVIOUS
<1>2. Len(RecordsFrom(s)[0].recs) \in Nat
  BY <1>1, RefTypes
<1> QED BY <1>1, <1>2 DEF Chain, Reference

(* The records after b are a readable value and the records after it. *)
LEMMA FromNext ==
    ASSUME NEW s \in Seq(Byte), NEW b \in 0 .. Len(s),
           Starts(s, b) # {}, Readable(s, FirstStart(s, b)),
           NEW r, r = RecordAt(s, FirstStart(s, b))
    PROVE  LET F == RecordsFrom(s)[b]
               G == RecordsFrom(s)[r.next]
           IN  /\ Len(F.recs) = Len(G.recs) + 1 /\ F.recs[1] = r /\ Len(G.recs) \in Nat
               /\ \A i \in 1 .. Len(G.recs) : F.recs[i + 1] = G.recs[i]
               /\ F.valid = G.valid
<1>1. r.next \in 0 .. Len(s)
  BY NextFacts
<1>2. PICK F : F = RecordsFrom(s)[b]
  OBVIOUS
<1>3. PICK G : G = RecordsFrom(s)[r.next]
  OBVIOUS
<1>4. G.recs \in Seq(RefRecs(s)) /\ G.valid \in BOOLEAN
  BY <1>1, <1>3, RefTypes
<1>5. F = [recs |-> <<r>> \o G.recs, valid |-> G.valid]
  <2>1. F = FromStep(s, b, RecordsFrom(s))
    BY <1>2, RecordsFromFacts
  <2> QED BY <1>3, <2>1 DEF FromStep
<1>6. F.recs = <<r>> \o G.recs /\ F.valid = G.valid
  BY <1>5
<1>7. r \in RefRecs(s)
  <2>1. PICK q \in 0 .. Len(s) : q = FirstStart(s, b)
    BY FirstStartFacts
  <2> QED BY <2>1 DEF RefRecs
<1>8. /\ Len(F.recs) = Len(G.recs) + 1 /\ F.recs[1] = r /\ Len(G.recs) \in Nat
      /\ \A i \in 1 .. Len(G.recs) : F.recs[i + 1] = G.recs[i]
  BY <1>4, <1>6, <1>7
<1> QED BY <1>2, <1>3, <1>6, <1>8, Zenon

(* A readable value is the next record. *)
LEMMA ChainNext ==
    ASSUME NEW s \in Seq(Byte), NEW n \in Nat, NEW b, Chain(s, n, b),
           Starts(s, b) # {}, Readable(s, FirstStart(s, b)),
           NEW r, r = RecordAt(s, FirstStart(s, b))
    PROVE  Chain(s, n + 1, r.next) /\ n + 1 <= Len(Reference(s).recs)
           /\ Reference(s).recs[n + 1] = r
<1>1. b \in 0 .. Len(s)
  BY DEF Chain
<1>2. r.next \in 0 .. Len(s)
  BY <1>1, NextFacts
<1>3. PICK F : F = RecordsFrom(s)[b]
  OBVIOUS
<1>4. PICK G : G = RecordsFrom(s)[r.next]
  OBVIOUS
<1>9. /\ Len(F.recs) = Len(G.recs) + 1 /\ F.recs[1] = r /\ Len(G.recs) \in Nat
      /\ \A i \in 1 .. Len(G.recs) : F.recs[i + 1] = G.recs[i]
      /\ F.valid = G.valid
  BY <1>1, <1>3, <1>4, FromNext
<1>10. PICK R : R = Reference(s)
  OBVIOUS
<1>11. /\ Len(R.recs) = n + Len(F.recs) /\ R.valid = F.valid
       /\ \A i \in 1 .. Len(F.recs) : R.recs[n + i] = F.recs[i]
  BY <1>3, <1>10, Zenon DEF Chain
<1>12. R.recs[n + 1] = r
  <2>1. 1 \in 1 .. Len(F.recs)
    BY <1>9
  <2> QED BY <1>9, <1>11, <2>1
<1>13. ASSUME NEW i \in 1 .. Len(G.recs) PROVE R.recs[(n + 1) + i] = G.recs[i]
  <2>1. i + 1 \in 1 .. Len(F.recs) /\ n + (i + 1) = (n + 1) + i
    BY <1>9
  <2> QED BY <1>9, <1>11, <2>1
<1>14. Len(R.recs) = (n + 1) + Len(G.recs) /\ n + 1 <= Len(R.recs)
  <2>1. PICK g \in Nat : g = Len(G.recs)
    BY <1>9, Zenon
  <2>2. Len(F.recs) = g + 1
    BY <1>9, <2>1, Zenon
  <2>3. Len(R.recs) = n + (g + 1)
    BY <1>11, <2>2, Zenon
  <2>4. n + (g + 1) = (n + 1) + g /\ n + 1 <= n + (g + 1)
    OBVIOUS
  <2> QED BY <2>1, <2>3, <2>4, Zenon
<1> QED BY <1>2, <1>4, <1>9, <1>10, <1>11, <1>12, <1>13, <1>14, Zenon DEF Chain

LEMMA ChainEnd ==
    ASSUME NEW s \in Seq(Byte), NEW n \in Nat, NEW b, Chain(s, n, b), Starts(s, b) = {}
    PROVE  Len(Reference(s).recs) = n /\ Reference(s).valid
<1>1. b \in 0 .. Len(s)
  BY DEF Chain
<1>2. RecordsFrom(s)[b] = [recs |-> <<>>, valid |-> TRUE]
  BY <1>1, RecordsFromFacts DEF FromStep
<1>3. Len(RecordsFrom(s)[b].recs) = 0 /\ RecordsFrom(s)[b].valid = TRUE
  BY <1>2
<1>4. Len(Reference(s).recs) = n + Len(RecordsFrom(s)[b].recs)
      /\ Reference(s).valid = RecordsFrom(s)[b].valid
  BY Zenon DEF Chain
<1> QED BY <1>3, <1>4

LEMMA ChainBad ==
    ASSUME NEW s \in Seq(Byte), NEW n \in Nat, NEW b, Chain(s, n, b), Starts(s, b) # {},
           ~Readable(s, FirstStart(s, b))
    PROVE  Len(Reference(s).recs) = n /\ ~Reference(s).valid
<1>1. b \in 0 .. Len(s)
  BY DEF Chain
<1>2. RecordsFrom(s)[b] = [recs |-> <<>>, valid |-> FALSE]
  BY <1>1, RecordsFromFacts DEF FromStep
<1>3. Len(RecordsFrom(s)[b].recs) = 0 /\ RecordsFrom(s)[b].valid = FALSE
  BY <1>2
<1>4. Len(Reference(s).recs) = n + Len(RecordsFrom(s)[b].recs)
      /\ Reference(s).valid = RecordsFrom(s)[b].valid
  BY Zenon DEF Chain
<1> QED BY <1>3, <1>4

LEMMA ChainRoom ==
    ASSUME NEW s \in Seq(Byte), NEW n \in Nat, NEW b, Chain(s, n, b)
    PROVE  n <= Len(Reference(s).recs) /\ Len(Reference(s).recs) \in Nat
<1>1. b \in 0 .. Len(s) /\ Len(Reference(s).recs) = n + Len(RecordsFrom(s)[b].recs)
  BY Zenon DEF Chain
<1>2. Len(RecordsFrom(s)[b].recs) \in Nat
  BY <1>1, RefTypes
<1> QED BY <1>1, <1>2

-----------------------------------------------------------------------------
(* Where the scanner is in the reference *)

Blank(s, b, p) == \A i \in (b + 1) .. p : s[i] \in Space

(* the first value after b starts after t bytes, p is past its first byte,   *)
(* and o tells whether it is an object                                       *)
Begun(s, b, t, o, p) ==
    /\ b <= t /\ t < p
    /\ Blank(s, b, t)
    /\ s[t + 1] = IF o THEN Open ELSE "d"

(* p is inside the object; h tells whether a member was met *)
InObject(s, t, h, p) ==
    /\ \A i \in (t + 2) .. p : s[i] \in Space \cup {"m"}
    /\ h <=> \E i \in (t + 2) .. p : s[i] = "m"

InNumber(s, t, p) == \A i \in (t + 1) .. p : s[i] = "d"

(* the value ends at e *)
Ended(s, t, h, e, p) ==
    /\ t < e /\ e <= p
    /\ EndsAt(s, t, e)
    /\ h <=> \E i \in (t + 1) .. e : s[i] = "m"

Blanks(s, e, p) == \A i \in (e + 1) .. p : s[i] = "s"

(* where the scanner is, when the records before b are dispatched *)
Place(s, b, a, r, p) ==
    /\ a \in {"start", "space"} => b <= p /\ Blank(s, b, p)
    /\ a \notin {"start", "space"} => Begun(s, b, r.start, r.object, p)
    /\ a = "object" => r.object /\ InObject(s, r.start, r.hit, p)
    /\ a = "number" => ~r.object /\ ~r.hit /\ InNumber(s, r.start, p)
    /\ a \in {"separator", "line_feed", "flush", "decision"} =>
          Ended(s, r.start, r.hit, r.end, p)
    /\ a = "separator" => Blanks(s, r.end, p)
    /\ a = "line_feed" => r.end < p /\ s[p] = "r" /\ Blanks(s, r.end, p - 1)
    /\ a \in {"flush", "decision"} => SeparatorEnd(s, r.end) = p

(* the last record of the reference that was decided is the one in rec *)
Decided ==
    LET last == Reference(input).recs[Len(decisions)]
    IN  /\ Len(decisions) > 0
        /\ last.object = rec.object
        /\ last.hit = (rec.object /\ rec.hit)

PlaceInv ==
    /\ at \in Before => \E b \in 0 .. Len(input) :
          Chain(input, Len(decisions), b) /\ Place(input, b, at, rec, pos)
    /\ at \in After \cup {"next"} => Chain(input, Len(decisions), pos)
    /\ at \in After => Decided

LEMMA SpaceByte ==
    ASSUME NEW s \in Seq(Byte), NEW p \in 0 .. (Len(s) - 1), NEW b \in 0 .. Len(s), b <= p,
           Blank(s, b, p), s[p + 1] \in Space
    PROVE  Blank(s, b, p + 1)
<1> SUFFICES ASSUME NEW i \in (b + 1) .. (p + 1) PROVE s[i] \in Space
  BY DEF Blank
<1>1. i \in (b + 1) .. p \/ i = p + 1
  OBVIOUS
<1> QED BY <1>1 DEF Blank

LEMMA FirstByte ==
    ASSUME NEW s \in Seq(Byte), NEW p \in 0 .. (Len(s) - 1), NEW b \in 0 .. Len(s), b <= p,
           Blank(s, b, p), s[p + 1] \in {Open, "d"}, NEW o \in BOOLEAN, o <=> s[p + 1] = Open
    PROVE  Begun(s, b, p, o, p + 1) /\ InObject(s, p, FALSE, p + 1) /\ (~o => InNumber(s, p, p + 1))
<1>1. (p + 2) .. (p + 1) = {}
  OBVIOUS
<1>2. \A i \in (p + 1) .. (p + 1) : i = p + 1
  OBVIOUS
<1>4. Begun(s, b, p, o, p + 1)
  BY DEF Begun
<1>5. InObject(s, p, FALSE, p + 1)
  BY <1>1 DEF InObject
<1>6. ~o => InNumber(s, p, p + 1)
  BY <1>2 DEF InNumber
<1> QED BY <1>4, <1>5, <1>6

LEMMA BegunOn ==
    ASSUME NEW s \in Seq(Byte), NEW p \in 0 .. (Len(s) - 1), NEW b, NEW t \in Nat, NEW o \in BOOLEAN,
           Begun(s, b, t, o, p)
    PROVE  Begun(s, b, t, o, p + 1)
  BY DEF Begun

LEMMA ObjectByte ==
    ASSUME NEW s \in Seq(Byte), NEW p \in 0 .. (Len(s) - 1), NEW t \in Nat, t < p,
           NEW h \in BOOLEAN, InObject(s, t, h, p), s[p + 1] \in Space \cup {"m"}
    PROVE  InObject(s, t, h \/ s[p + 1] = "m", p + 1)
<1>4. \A i \in (t + 2) .. (p + 1) : i \in (t + 2) .. p \/ i = p + 1
  OBVIOUS
<1>5. (t + 2) .. p \subseteq (t + 2) .. (p + 1) /\ p + 1 \in (t + 2) .. (p + 1)
  OBVIOUS
<1>6. /\ \A i \in (t + 2) .. p : s[i] \in Space \cup {"m"}
      /\ h <=> \E i \in (t + 2) .. p : s[i] = "m"
  BY Zenon DEF InObject
<1>7. \A i \in (t + 2) .. (p + 1) : s[i] \in Space \cup {"m"}
  BY <1>4, <1>6, Zenon
<1>8. (\E i \in (t + 2) .. (p + 1) : s[i] = "m")
        <=> ((\E i \in (t + 2) .. p : s[i] = "m") \/ s[p + 1] = "m")
  BY <1>4, <1>5, Zenon
<1> QED BY <1>6, <1>7, <1>8, Zenon DEF InObject

LEMMA ObjectEnds ==
    ASSUME NEW s \in Seq(Byte), NEW p \in 0 .. (Len(s) - 1), NEW t \in Nat, t < p,
           NEW h \in BOOLEAN, InObject(s, t, h, p), s[t + 1] = Open, s[p + 1] = Close
    PROVE  Ended(s, t, h, p + 1, p + 1)
<1>5. /\ \A i \in (t + 2) .. p : s[i] \in Space \cup {"m"}
      /\ h <=> \E i \in (t + 2) .. p : s[i] = "m"
  BY Zenon DEF InObject
<1>6. EndsAt(s, t, p + 1)
  <2>1. (p + 1) - 1 = p
    OBVIOUS
  <2> QED BY <1>5, <2>1, Zenon DEF EndsAt
<1>7. (\E i \in (t + 1) .. (p + 1) : s[i] = "m") <=> (\E i \in (t + 2) .. p : s[i] = "m")
  <2>1. \A i \in (t + 1) .. (p + 1) : i \in (t + 2) .. p \/ i = t + 1 \/ i = p + 1
    OBVIOUS
  <2>2. (t + 2) .. p \subseteq (t + 1) .. (p + 1)
    OBVIOUS
  <2> QED BY <2>1, <2>2, Braces
<1>8. t < p + 1 /\ p + 1 <= p + 1
  OBVIOUS
<1> QED BY <1>5, <1>6, <1>7, <1>8, Zenon DEF Ended

LEMMA NumberByte ==
    ASSUME NEW s \in Seq(Byte), NEW p \in 0 .. (Len(s) - 1), NEW t \in Nat,
           InNumber(s, t, p), s[p + 1] = "d"
    PROVE  InNumber(s, t, p + 1)
<1>4. \A i \in (t + 1) .. (p + 1) : i \in (t + 1) .. p \/ i = p + 1
  OBVIOUS
<1> QED BY <1>4, Zenon DEF InNumber

LEMMA NumberEnds ==
    ASSUME NEW s \in Seq(Byte), NEW p \in 0 .. Len(s), NEW t \in Nat, t < p,
           InNumber(s, t, p), p = Len(s) \/ s[p + 1] # "d"
    PROVE  Ended(s, t, FALSE, p, p)
<1>4. \A i \in (t + 1) .. p : s[i] = "d"
  BY DEF InNumber
<1>5. EndsAt(s, t, p)
  BY <1>4 DEF EndsAt
<1>6. ~(\E i \in (t + 1) .. p : s[i] = "m")
  BY <1>4
<1>7. p <= p
  OBVIOUS
<1> QED BY <1>5, <1>6, <1>7 DEF Ended

(* How the separator after a value goes on, and where it ends. *)
LEMMA BlankByte ==
    ASSUME NEW s \in Seq(Byte), NEW p \in 0 .. (Len(s) - 1), NEW e \in 0 .. p,
           Blanks(s, e, p), s[p + 1] = "s"
    PROVE  Blanks(s, e, p + 1)
<1>4. \A i \in (e + 1) .. (p + 1) : i \in (e + 1) .. p \/ i = p + 1
  OBVIOUS
<1> QED BY <1>4, Zenon DEF Blanks

LEMMA SeparatorEnds ==
    ASSUME NEW s \in Seq(Byte), NEW p \in 0 .. Len(s), NEW e \in 0 .. p, Blanks(s, e, p)
    PROVE  /\ p = Len(s) => SeparatorEnd(s, e) = p
           /\ p < Len(s) /\ s[p + 1] = "n" => SeparatorEnd(s, e) = p + 1
           /\ p < Len(s) /\ s[p + 1] \notin Space => SeparatorEnd(s, e) = Len(s) + 1
<1>1. p \in e .. Len(s)
  OBVIOUS
<1>2. CASE p = Len(s) \/ s[p + 1] # "s"
  <2>1. BlankTo(s, e, p)
    BY <1>2 DEF Blanks, BlankTo
  <2>2. SeparatorEnd(s, e) =
             CASE p = Len(s) -> p
               [] p < Len(s) /\ s[p + 1] = "n" -> p + 1
               [] p + 1 < Len(s) /\ s[p + 1] = "r" /\ s[p + 2] = "n" -> p + 2
               [] OTHER -> Len(s) + 1
    BY <1>1, <2>1, SeparatorEndIs
  <2> QED BY <2>2 DEF Space
<1>3. CASE p # Len(s) /\ s[p + 1] = "s"
  BY <1>3 DEF Space
<1> QED BY <1>2, <1>3

LEMMA LineFeedEnds ==
    ASSUME NEW s \in Seq(Byte), NEW p \in 1 .. Len(s), NEW e \in 0 .. (p - 1),
           Blanks(s, e, p - 1), s[p] = "r"
    PROVE  /\ p < Len(s) /\ s[p + 1] = "n" => SeparatorEnd(s, e) = p + 1
           /\ p = Len(s) \/ s[p + 1] # "n" => SeparatorEnd(s, e) = Len(s) + 1
<1>1. p - 1 \in e .. Len(s) /\ (p - 1) + 1 = p /\ (p - 1) + 2 = p + 1
  OBVIOUS
<1>2. BlankTo(s, e, p - 1)
  BY <1>1 DEF Blanks, BlankTo
<1>3. SeparatorEnd(s, e) =
           CASE p - 1 = Len(s) -> p - 1
             [] p - 1 < Len(s) /\ s[(p - 1) + 1] = "n" -> (p - 1) + 1
             [] (p - 1) + 1 < Len(s) /\ s[(p - 1) + 1] = "r" /\ s[(p - 1) + 2] = "n" -> (p - 1) + 2
             [] OTHER -> Len(s) + 1
  BY <1>1, <1>2, SeparatorEndIs
<1> QED BY <1>1, <1>3

(* Where there is no value: a byte that starts none, or an object that is    *)
(* not closed.                                                               *)
LEMMA NotAValue ==
    ASSUME NEW s \in Seq(Byte), NEW p \in 0 .. (Len(s) - 1), s[p + 1] # Open, s[p + 1] # "d"
    PROVE  ValueEnd(s, p) = 0
<1>1. ASSUME NEW e \in (p + 1) .. Len(s) PROVE ~EndsAt(s, p, e)
  <2>1. p + 1 \in (p + 1) .. e
    OBVIOUS
  <2> QED BY <2>1 DEF EndsAt
<1> QED BY <1>1, ValueEndFacts

LEMMA OpenObject ==
    ASSUME NEW s \in Seq(Byte), NEW p \in 0 .. Len(s), NEW t \in Nat, t < p,
           s[t + 1] = Open, NEW h, InObject(s, t, h, p),
           p = Len(s) \/ s[p + 1] \notin Space \cup {"m", Close}
    PROVE  ValueEnd(s, t) = 0
<1>1. \A i \in (t + 2) .. p : s[i] \in Space \cup {"m"}
  BY Zenon DEF InObject
<1>2. ASSUME NEW e \in (t + 1) .. Len(s), EndsAt(s, t, e) PROVE FALSE
  <2>1. t + 1 \in (t + 1) .. e
    OBVIOUS
  <2>2. s[e] = Close /\ \A i \in (t + 2) .. (e - 1) : s[i] \in Space \cup {"m"}
    BY <1>2, <2>1, Braces DEF EndsAt
  <2>3. e # t + 1
    BY <2>2, Braces
  <2>4. e \notin (t + 2) .. p
    BY <1>1, <2>2, Braces
  <2>5. e > p /\ p < Len(s)
    BY <2>3, <2>4
  <2>6. s[p + 1] \notin Space \cup {"m"} /\ s[p + 1] # Close
    BY <2>5
  <2>7. e # p + 1
    BY <2>2, <2>6
  <2>8. p + 1 \in (t + 2) .. (e - 1)
    BY <2>5, <2>7
  <2> QED BY <2>2, <2>6, <2>8
<1>3. t \in 0 .. Len(s)
  OBVIOUS
<1> QED BY <1>2, <1>3, ValueEndFacts

LEMMA BegunFirst ==
    ASSUME NEW s \in Seq(Byte), NEW b \in 0 .. Len(s), NEW p \in 0 .. Len(s), NEW t \in Nat,
           NEW o \in BOOLEAN, Begun(s, b, t, o, p)
    PROVE  Starts(s, b) # {} /\ FirstStart(s, b) = t
<1>1. t \in b .. (Len(s) - 1) /\ \A i \in (b + 1) .. t : s[i] \in Space
  BY DEF Begun, Blank
<1>2. s[t + 1] \in {Open, "d"}
  BY DEF Begun
<1>3. s[t + 1] \notin Space
  BY <1>2, Braces DEF Space
<1> QED BY <1>1, <1>3, FirstStartIs

-----------------------------------------------------------------------------
(* The decisions follow the reference *)

(* the decisions are the reference's *)
DecidedInv ==
    /\ Len(decisions) <= Len(Reference(input).recs)
    /\ \A i \in DOMAIN decisions : decisions[i] = RefMatched(Reference(input).recs[i])

(* what a call that has returned says of the input *)
EndInv ==
    /\ status = "OK" /\ ~result.stopped_early =>
         Reference(input).valid /\ Len(decisions) = Len(Reference(input).recs)
    /\ status = "JSON_ERROR" /\ "reader" \notin caller.failures =>
         \/ ~Reference(input).valid /\ Len(decisions) = Len(Reference(input).recs)
         \/ Undeliverable(Reference(input).recs[Len(decisions)])

FollowInv == PlaceInv /\ DecidedInv /\ EndInv

LEMMA DecidedKeep ==
    ASSUME DecidedInv, UNCHANGED <<source, decisions>> PROVE DecidedInv'
  BY DEF DecidedInv, RefMatched, source

(* The call ends for a reason that says nothing of the input. *)
LEMMA FollowStop ==
    ASSUME DecidedInv', at' = "done", status' = "OK" => result'.stopped_early,
           status' = "JSON_ERROR" => "reader" \in caller'.failures
    PROVE  FollowInv'
<1>1. PlaceInv'
  BY DEF PlaceInv, Before, After, Scanning
<1>2. EndInv'
  BY DEF EndInv
<1> QED BY <1>1, <1>2 DEF FollowInv

(* The call ends at the end of a valid input, or where it is not valid. *)
LEMMA FollowEnd ==
    ASSUME BasicInv, FollowInv, UNCHANGED <<source, decisions>>, at' = "done",
           Len(decisions) = Len(Reference(input).recs),
           \/ status' = "OK" /\ Reference(input).valid
           \/ status' = "JSON_ERROR" /\ ~Reference(input).valid
    PROVE  FollowInv'
<1>1. PlaceInv'
  BY DEF PlaceInv, Before, After, Scanning
<1>2. EndInv'
  BY DEF EndInv, source
<1> QED BY <1>1, <1>2, DecidedKeep DEF FollowInv

(* The scanner moves on inside a record or between two. *)
LEMMA FollowScan ==
    ASSUME BasicInv', FollowInv, UNCHANGED <<source, decisions>>, at' \in Before,
           NEW b \in 0 .. Len(input), Chain(input, Len(decisions), b),
           Place(input, b, at', rec', pos')
    PROVE  FollowInv'
<1>1. PlaceInv'
  BY DEF PlaceInv, Before, After, Scanning, source
<1>2. EndInv'
  BY DEF EndInv, BasicInv, RunInv, Before, Scanning
<1> QED BY <1>1, <1>2, DecidedKeep DEF FollowInv

(* The dispatch goes on. *)
LEMMA FollowAfter ==
    ASSUME BasicInv', FollowInv, UNCHANGED <<source, decisions, rec, pos>>,
           at \in After, at' \in After \cup {"next"}
    PROVE  FollowInv'
<1>1. PlaceInv'
  BY DEF FollowInv, PlaceInv, Before, After, Scanning, source, Decided
<1>2. EndInv'
  BY DEF EndInv, BasicInv, RunInv, After
<1> QED BY <1>1, <1>2, DecidedKeep DEF FollowInv

LEMMA PlaceIs ==
    ASSUME NEW s, NEW b, NEW r, NEW p
    PROVE  /\ b <= p /\ Blank(s, b, p) => Place(s, b, "space", r, p)
           /\ Begun(s, b, r.start, r.object, p) /\ r.object /\ InObject(s, r.start, r.hit, p) =>
                Place(s, b, "object", r, p)
           /\ Begun(s, b, r.start, r.object, p) /\ ~r.object /\ ~r.hit /\ InNumber(s, r.start, p) =>
                Place(s, b, "number", r, p)
           /\ Begun(s, b, r.start, r.object, p) /\ Ended(s, r.start, r.hit, r.end, p)
                 /\ Blanks(s, r.end, p) => Place(s, b, "separator", r, p)
           /\ Begun(s, b, r.start, r.object, p) /\ Ended(s, r.start, r.hit, r.end, p)
                 /\ r.end < p /\ s[p] = "r" /\ Blanks(s, r.end, p - 1) =>
                Place(s, b, "line_feed", r, p)
           /\ Begun(s, b, r.start, r.object, p) /\ Ended(s, r.start, r.hit, r.end, p)
                 /\ SeparatorEnd(s, r.end) = p =>
                Place(s, b, "flush", r, p) /\ Place(s, b, "decision", r, p)
  BY Zenon DEF Place

LEMMA PlaceHas ==
    ASSUME NEW s, NEW b, NEW r, NEW p
    PROVE  /\ Place(s, b, "start", r, p) => b <= p /\ Blank(s, b, p)
           /\ Place(s, b, "space", r, p) => b <= p /\ Blank(s, b, p)
           /\ Place(s, b, "object", r, p) =>
                Begun(s, b, r.start, r.object, p) /\ r.object /\ InObject(s, r.start, r.hit, p)
           /\ Place(s, b, "number", r, p) =>
                /\ Begun(s, b, r.start, r.object, p)
                /\ ~r.object /\ ~r.hit /\ InNumber(s, r.start, p)
           /\ Place(s, b, "separator", r, p) =>
                /\ Begun(s, b, r.start, r.object, p) /\ Ended(s, r.start, r.hit, r.end, p)
                /\ Blanks(s, r.end, p)
           /\ Place(s, b, "line_feed", r, p) =>
                /\ Begun(s, b, r.start, r.object, p) /\ Ended(s, r.start, r.hit, r.end, p)
                /\ r.end < p /\ s[p] = "r" /\ Blanks(s, r.end, p - 1)
           /\ \A a \in {"flush", "decision"} : Place(s, b, a, r, p) =>
                /\ Begun(s, b, r.start, r.object, p) /\ Ended(s, r.start, r.hit, r.end, p)
                /\ SeparatorEnd(s, r.end) = p
  BY Zenon DEF Place

(* The byte that is not part of any readable value ends the call. *)
LEMMA FollowReject ==
    ASSUME BasicInv, FollowInv, at # "done", Reject, NEW b \in 0 .. Len(input),
           Chain(input, Len(decisions), b), Starts(input, b) # {},
           ~Readable(input, FirstStart(input, b))
    PROVE  FollowInv'
<1>1. at' = "done" /\ status' = "JSON_ERROR" /\ UNCHANGED <<source, decisions>>
  <2>1. "JSON_ERROR" \in Status
    BY DEF Status
  <2> QED BY <2>1, FailFacts DEF Reject, Fail, logs
<1>2. input \in Seq(Byte) /\ Len(decisions) \in Nat
  BY SourceTypes DEF BasicInv, TypeOK
<1>3. Len(Reference(input).recs) = Len(decisions) /\ ~Reference(input).valid
  BY <1>2, ChainBad
<1> QED BY <1>1, <1>3, FollowEnd

LEMMA HaveFacts ==
    ASSUME BasicInv, NEW c, Have(c)
    PROVE  /\ pos < read /\ c = input[pos + 1] /\ input \in Seq(Byte) /\ Len(input) \in Nat
           /\ pos \in 0 .. (Len(input) - 1) /\ pos \in Nat /\ rec \in Rec
           /\ rec.start \in Nat /\ rec.end \in Nat /\ rec.object \in BOOLEAN /\ rec.hit \in BOOLEAN
  BY SourceTypes, RecFields DEF BasicInv, TypeOK, Have

LEMMA States ==
    /\ \A a \in Before : a # "done"
    /\ {"start", "space", "object", "number", "separator", "line_feed", "flush", "decision"}
         = Before
  BY DEF Before, Scanning

LEMMA SkipSpaceFollows ==
    ASSUME BasicInv, BasicInv', FollowInv, NEW c \in Byte, SkipSpace(c) PROVE FollowInv'
<1>0. /\ at = "space" /\ pos < read /\ c = input[pos + 1] /\ input \in Seq(Byte)
      /\ pos \in 0 .. (Len(input) - 1) /\ at \in Before
      /\ "space" \in Before /\ "object" \in Before /\ "number" \in Before
  <2>1. at = "space" /\ Have(c)
    BY Zenon DEF SkipSpace
  <2> QED BY <2>1, HaveFacts, States
<1>1. PICK b \in 0 .. Len(input) : /\ Chain(input, Len(decisions), b)
                                   /\ b <= pos /\ Blank(input, b, pos)
  BY <1>0, PlaceHas, Zenon DEF FollowInv, PlaceInv
<1>2. CASE c \in Space /\ Take("space") /\ UNCHANGED <<rec, spool>>
  <2>1. /\ pos' = pos + 1 /\ at' = "space" /\ UNCHANGED <<source, decisions>>
    BY <1>2 DEF Take, logs
  <2>2. Blank(input, b, pos + 1)
    BY <1>0, <1>1, <1>2, SpaceByte, Zenon
  <2>3. b <= pos + 1
    BY <1>0, <1>1
  <2>4. Place(input, b, "space", rec', pos + 1)
    BY <2>2, <2>3, PlaceIs, Zenon
  <2> QED BY <1>0, <1>1, <2>1, <2>4, FollowScan, Zenon
<1>3. ASSUME c \in {Open, "d"}, BeginRecord(c), Take(IF c = Open THEN "object" ELSE "number")
      PROVE  FollowInv'
  <2>1. PICK a \in Before : /\ c = Open => a = "object"
                            /\ c = "d" => a = "number"
                            /\ Take(a)
    BY <1>0, <1>3, Braces, Zenon
  <2>2. /\ pos' = pos + 1 /\ at' = a /\ UNCHANGED <<source, decisions>>
    BY <2>1 DEF Take, logs
  <2>3. PICK o \in BOOLEAN : o = (c = Open)
    OBVIOUS
  <2>4. PICK r : r = rec'
    OBVIOUS
  <2>5. r = [NoRec EXCEPT !.start = pos, !.object = o]
    BY <1>3, <2>3, <2>4, Zenon DEF BeginRecord, Open
  <2>6. r \in Rec /\ r.start = pos /\ r.object = o /\ r.hit = FALSE
    <3>1. r = [start |-> pos, end |-> 0, object |-> o, hit |-> FALSE, compact |-> TRUE]
      BY <2>5, Zenon DEF NoRec
    <3>2. pos \in Nat
      BY <1>0
    <3> QED BY <3>1, <3>2, MadeRec, Zenon
  <2>7. o <=> input[pos + 1] = Open
    BY <1>0, <2>3, Zenon
  <2>8. /\ Begun(input, b, pos, o, pos + 1) /\ InObject(input, pos, FALSE, pos + 1)
        /\ (~o => InNumber(input, pos, pos + 1))
    BY <1>0, <1>1, <1>3, <2>7, FirstByte, Zenon
  <2>9. Place(input, b, a, r, pos + 1)
    <3>1. CASE c = Open
      <4>1. o /\ a = "object"
        BY <2>1, <2>3, <3>1, Zenon
      <4> QED BY <2>6, <2>8, <4>1, PlaceIs, Zenon
    <3>2. CASE c = "d"
      <4>1. ~o /\ a = "number"
        BY <2>1, <2>3, <3>2, Braces, Zenon
      <4> QED BY <2>6, <2>8, <4>1, PlaceIs, Zenon
    <3> QED BY <1>3, <3>1, <3>2, Zenon
  <2> QED BY <1>0, <1>1, <2>1, <2>2, <2>4, <2>9, FollowScan, Zenon
<1>4. ASSUME c # Open, c # "d", c \notin Space, Reject PROVE FollowInv'
  <2>1. ValueEnd(input, pos) = 0
    BY <1>0, <1>4, NotAValue, Zenon
  <2>2. Starts(input, b) # {} /\ FirstStart(input, b) = pos
    <3>1. pos \in b .. (Len(input) - 1)
      BY <1>0, <1>1
    <3>2. \A i \in (b + 1) .. pos : input[i] \in Space
      BY <1>1, Zenon DEF Blank
    <3>3. input[pos + 1] \notin Space
      BY <1>0, <1>4, Zenon
    <3> QED BY <1>0, <3>1, <3>2, <3>3, FirstStartIs, Zenon
  <2>3. ~Readable(input, FirstStart(input, b))
    BY <2>1, <2>2, Zenon DEF Readable
  <2>4. at # "done"
    BY <1>0, Zenon
  <2> QED BY <1>1, <1>4, <2>2, <2>3, <2>4, FollowReject, Zenon
<1>5. CASE c = Open /\ BeginRecord(c) /\ Take("object")
  BY <1>3, <1>5, Zenon
<1>6. CASE c = "d" /\ BeginRecord(c) /\ Take("number")
  BY <1>3, <1>6, Braces, Zenon
<1>7. CASE c \in {"[", "}", "m"} /\ Reject
  <2>1. c # Open /\ c # "d" /\ c \notin Space
    BY <1>7, Zenon DEF Open, Space
  <2> QED BY <1>4, <1>7, <2>1, Zenon
<1> QED BY <1>2, <1>5, <1>6, <1>7, Zenon DEF SkipSpace, Open

LEMMA TakeFacts ==
    ASSUME NEW a, Take(a) PROVE pos' = pos + 1 /\ at' = a /\ UNCHANGED <<source, decisions>>
  BY DEF Take, logs

LEMMA MoveFacts ==
    ASSUME NEW a, Move(a) PROVE pos' = pos /\ at' = a /\ UNCHANGED <<source, decisions>>
  BY DEF Move, logs, scan

LEMMA ScanObjectFollows ==
    ASSUME BasicInv, BasicInv', FollowInv, NEW c \in Byte, ScanObject(c) PROVE FollowInv'
<1>a. at = "object" /\ Have(c)
  BY Zenon DEF ScanObject
<1>0. /\ pos < read /\ c = input[pos + 1] /\ input \in Seq(Byte)
      /\ pos \in 0 .. (Len(input) - 1) /\ pos \in Nat /\ rec \in Rec
      /\ rec.start \in Nat /\ rec.object \in BOOLEAN /\ rec.hit \in BOOLEAN
      /\ at \in Before /\ at # "done" /\ "object" \in Before /\ "separator" \in Before
  BY <1>a, HaveFacts, States
<1>1. PICK b \in 0 .. Len(input) : /\ Chain(input, Len(decisions), b)
                                   /\ Place(input, b, "object", rec, pos)
  BY <1>a, <1>0, Zenon DEF FollowInv, PlaceInv
<1>b. PICK t \in Nat : t = rec.start
  BY <1>0, Zenon
<1>c. PICK o \in BOOLEAN : o = rec.object
  BY <1>0, Zenon
<1>d. PICK h \in BOOLEAN : h = rec.hit
  BY <1>0, Zenon
<1>2. Begun(input, b, t, o, pos) /\ o /\ InObject(input, t, h, pos)
  BY <1>1, <1>b, <1>c, <1>d, PlaceHas, Zenon
<1>3. t < pos /\ input[t + 1] = Open
  BY <1>2 DEF Begun
<1>4. Begun(input, b, t, o, pos + 1)
  BY <1>0, <1>2, BegunOn, Zenon
<1>5. ASSUME c \in Space \cup {"m"}, Take("object"), NEW r, r = rec', r.start = t, r.object = o,
             NEW g \in BOOLEAN, r.hit = g, g <=> (h \/ c = "m")
      PROVE  FollowInv'
  <2>1. InObject(input, t, h \/ input[pos + 1] = "m", pos + 1)
    BY <1>0, <1>2, <1>3, <1>5, ObjectByte, Zenon
  <2>2. InObject(input, t, g, pos + 1)
    BY <1>0, <1>5, <2>1, Zenon DEF InObject
  <2>3. Place(input, b, "object", r, pos + 1)
    BY <1>2, <1>4, <1>5, <2>2, PlaceIs, Zenon
  <2> QED BY <1>0, <1>1, <1>5, <2>3, TakeFacts, FollowScan, Zenon
<1>6. CASE c \in Space /\ rec' = [rec EXCEPT !.compact = FALSE] /\ Take("object")
  <2>1. PICK r : r = rec'
    OBVIOUS
  <2>2. r.start = rec.start /\ r.object = rec.object /\ r.hit = rec.hit
    BY <1>0, <1>6, <2>1, RecCompact, Zenon
  <2>3. c # "m" /\ c \in Space \cup {"m"}
    BY <1>6 DEF Space
  <2> QED BY <1>5, <1>6, <1>b, <1>c, <1>d, <2>1, <2>2, <2>3, Zenon
<1>7. CASE c = "m" /\ rec' = [rec EXCEPT !.hit = TRUE] /\ Take("object")
  <2>1. PICK r : r = rec'
    OBVIOUS
  <2>2. r.start = rec.start /\ r.object = rec.object /\ r.hit = TRUE
    BY <1>0, <1>7, <2>1, RecHit, Zenon
  <2>3. c \in Space \cup {"m"}
    BY <1>7
  <2> QED BY <1>5, <1>7, <1>b, <1>c, <2>1, <2>2, <2>3, Zenon
<1>8. CASE c = Close /\ rec' = [rec EXCEPT !.end = pos + 1] /\ Take("separator")
  <2>1. PICK r : r = rec'
    OBVIOUS
  <2>2. PICK e \in Nat : e = pos + 1
    BY <1>0
  <2>3. r.start = rec.start /\ r.object = rec.object /\ r.hit = rec.hit /\ r.end = e
    <3>1. r = [rec EXCEPT !.end = e]
      BY <1>8, <2>1, <2>2, Zenon
    <3> QED BY <1>0, <3>1, Zenon DEF Rec
  <2>4. Ended(input, t, h, pos + 1, pos + 1)
    BY <1>0, <1>2, <1>3, <1>8, ObjectEnds, Zenon
  <2>5. Blanks(input, e, pos + 1)
    BY <1>0, <2>2 DEF Blanks
  <2>6. Place(input, b, "separator", r, pos + 1)
    BY <1>b, <1>c, <1>d, <1>4, <2>2, <2>3, <2>4, <2>5, PlaceIs, Zenon
  <2> QED BY <1>0, <1>1, <1>8, <2>1, <2>6, TakeFacts, FollowScan, Zenon
<1>9. CASE c \notin Space \cup {"m", Close} /\ Reject
  <2>1. ValueEnd(input, t) = 0
    <3>1. pos \in 0 .. Len(input)
      BY <1>0
    <3> QED BY <1>0, <1>2, <1>3, <1>9, <3>1, OpenObject, Zenon
  <2>2. Starts(input, b) # {} /\ FirstStart(input, b) = t
    <3>1. pos \in 0 .. Len(input)
      BY <1>0
    <3> QED BY <1>0, <1>2, <3>1, BegunFirst, Zenon
  <2>3. ~Readable(input, FirstStart(input, b))
    BY <2>1, <2>2, Zenon DEF Readable
  <2> QED BY <1>0, <1>1, <1>9, <2>2, <2>3, FollowReject, Zenon
<1>10. c \in {"{", "[", "d"} => c \notin Space \cup {"m", Close}
  BY Zenon DEF Close, Space
<1> QED BY <1>6, <1>7, <1>8, <1>9, <1>10, Zenon DEF ScanObject, Close

(* A number ends before the first byte that is not a digit, or at the end. *)
LEMMA NumberEndFollows ==
    ASSUME BasicInv, BasicInv', FollowInv, at = "number", Move("separator"),
           rec' = [rec EXCEPT !.end = pos], pos = Len(input) \/ input[pos + 1] # "d"
    PROVE  FollowInv'
<1>0. /\ input \in Seq(Byte) /\ pos \in 0 .. Len(input) /\ pos \in Nat /\ rec \in Rec
      /\ rec.start \in Nat /\ rec.object \in BOOLEAN /\ rec.hit \in BOOLEAN
      /\ at \in Before /\ "separator" \in Before
  <2>1. input \in Seq(Byte) /\ pos \in 0 .. Len(input) /\ pos \in Nat
    BY SourceTypes DEF BasicInv
  <2>2. rec \in Rec
    BY Zenon DEF BasicInv, TypeOK
  <2>3. rec.start \in Nat /\ rec.object \in BOOLEAN /\ rec.hit \in BOOLEAN
    BY <2>2, RecFields, Zenon
  <2>4. at \in Before /\ "separator" \in Before
    BY Zenon DEF Before, Scanning
  <2> QED BY <2>1, <2>2, <2>3, <2>4, Zenon
<1>1. PICK b \in 0 .. Len(input) : /\ Chain(input, Len(decisions), b)
                                   /\ Place(input, b, "number", rec, pos)
  BY <1>0, Zenon DEF FollowInv, PlaceInv
<1>b. PICK t \in Nat : t = rec.start
  BY <1>0, Zenon
<1>c. PICK o \in BOOLEAN : o = rec.object
  BY <1>0, Zenon
<1>2. Begun(input, b, t, o, pos) /\ InNumber(input, t, pos) /\ rec.hit = FALSE
  BY <1>0, <1>1, <1>b, <1>c, PlaceHas, Zenon
<1>3. t < pos
  BY <1>2, Zenon DEF Begun
<1>4. Ended(input, t, FALSE, pos, pos)
  BY <1>0, <1>2, <1>3, NumberEnds, Zenon
<1>5. PICK r : r = rec'
  OBVIOUS
<1>6. r.start = rec.start /\ r.object = rec.object /\ r.hit = rec.hit /\ r.end = pos
  <2>1. PICK e \in Nat : e = pos
    BY <1>0, Zenon
  <2>2. r = [rec EXCEPT !.end = e]
    BY <1>5, <2>1, Zenon
  <2>3. r.start = rec.start /\ r.object = rec.object /\ r.hit = rec.hit /\ r.end = e
    BY <1>0, <2>2, Zenon DEF Rec
  <2> QED BY <2>1, <2>3, Zenon
<1>7. Blanks(input, pos, pos)
  <2>1. (pos + 1) .. pos = {}
    <3>1. pos \in Nat
      BY <1>0, Zenon
    <3>2. \A n \in Nat : (n + 1) .. n = {}
      OBVIOUS
    <3> QED BY <3>1, <3>2, Zenon
  <2> QED BY <2>1, Zenon DEF Blanks
<1>8. Place(input, b, "separator", r, pos)
  BY <1>b, <1>c, <1>2, <1>4, <1>6, <1>7, PlaceIs, Zenon
<1> QED BY <1>0, <1>1, <1>5, <1>8, MoveFacts, FollowScan, Zenon

LEMMA ScanNumberFollows ==
    ASSUME BasicInv, BasicInv', FollowInv, NEW c \in Byte, ScanNumber(c) PROVE FollowInv'
<1>a. at = "number" /\ Have(c)
  BY Zenon DEF ScanNumber
<1>0. /\ pos < read /\ c = input[pos + 1] /\ input \in Seq(Byte)
      /\ pos \in 0 .. (Len(input) - 1) /\ pos \in Nat /\ rec \in Rec
      /\ rec.start \in Nat /\ rec.object \in BOOLEAN
      /\ at \in Before /\ "number" \in Before
  BY <1>a, HaveFacts, States
<1>1. CASE c = "d" /\ Take("number") /\ rec' = rec
  <2>1. PICK b \in 0 .. Len(input) : /\ Chain(input, Len(decisions), b)
                                     /\ Place(input, b, "number", rec, pos)
    BY <1>a, <1>0, Zenon DEF FollowInv, PlaceInv
  <2>2. PICK t \in Nat : t = rec.start
    BY <1>0, Zenon
  <2>3. PICK o \in BOOLEAN : o = rec.object
    BY <1>0, Zenon
  <2>4. Begun(input, b, t, o, pos) /\ InNumber(input, t, pos) /\ ~rec.hit /\ ~rec.object
    BY <2>1, <2>2, <2>3, PlaceHas, Zenon
  <2>5. Begun(input, b, t, o, pos + 1)
    BY <1>0, <2>4, BegunOn, Zenon
  <2>6. InNumber(input, t, pos + 1)
    BY <1>0, <1>1, <2>4, NumberByte, Zenon
  <2>7. Place(input, b, "number", rec', pos + 1)
    BY <1>1, <2>2, <2>3, <2>4, <2>5, <2>6, PlaceIs, Zenon
  <2> QED BY <1>0, <1>1, <2>1, <2>7, TakeFacts, FollowScan, Zenon
<1>2. CASE c # "d" /\ Move("separator") /\ rec' = [rec EXCEPT !.end = pos]
  BY <1>a, <1>0, <1>2, NumberEndFollows, Zenon
<1> QED BY <1>1, <1>2, Zenon DEF ScanNumber

(* What holds of the record after its value, before its dispatch. *)
LEMMA EndedFacts ==
    ASSUME BasicInv, FollowInv, at \in {"separator", "line_feed", "flush", "decision"}
    PROVE  \E b \in 0 .. Len(input) :
              /\ Chain(input, Len(decisions), b) /\ Place(input, b, at, rec, pos)
              /\ Begun(input, b, rec.start, rec.object, pos)
              /\ Ended(input, rec.start, rec.hit, rec.end, pos)
              /\ rec.end \in 0 .. pos
              /\ rec.start \in 0 .. Len(input) /\ rec.end \in (rec.start + 1) .. Len(input)
              /\ Starts(input, b) # {} /\ FirstStart(input, b) = rec.start
              /\ ValueEnd(input, rec.start) = rec.end /\ rec.end # 0
<1>0. at \in Before
  BY Zenon DEF Before, Scanning
<1>1. PICK b \in 0 .. Len(input) : /\ Chain(input, Len(decisions), b)
                                   /\ Place(input, b, at, rec, pos)
  BY <1>0, Zenon DEF FollowInv, PlaceInv
<1>2. /\ Begun(input, b, rec.start, rec.object, pos)
      /\ Ended(input, rec.start, rec.hit, rec.end, pos)
  BY <1>1, Zenon DEF Place
<1>3. input \in Seq(Byte) /\ pos \in 0 .. Len(input)
  BY SourceTypes DEF BasicInv
<1>4. rec \in Rec
  BY Zenon DEF BasicInv, TypeOK
<1>5. PICK t \in Nat : t = rec.start
  BY <1>4, RecFields, Zenon
<1>6. PICK e \in Nat : e = rec.end
  BY <1>4, RecFields, Zenon
<1>7. PICK o \in BOOLEAN : o = rec.object
  BY <1>4, RecFields, Zenon
<1>8. t < e /\ e <= pos /\ EndsAt(input, t, e)
  BY <1>2, <1>5, <1>6, Zenon DEF Ended
<1>9. e \in 0 .. pos /\ t \in 0 .. Len(input) /\ e \in (t + 1) .. Len(input) /\ e # 0
  BY <1>3, <1>8
<1>10. ValueEnd(input, t) = e
  BY <1>3, <1>8, <1>9, ValueEndIs, Zenon
<1>11. Begun(input, b, t, o, pos)
  BY <1>2, <1>5, <1>7, Zenon
<1>12. Starts(input, b) # {} /\ FirstStart(input, b) = t
  BY <1>3, <1>11, BegunFirst, Zenon
<1> QED BY <1>1, <1>2, <1>5, <1>6, <1>9, <1>10, <1>12, Zenon

LEMMA BegunNext ==
    ASSUME NEW s \in Seq(Byte), NEW p \in 0 .. (Len(s) - 1), NEW b, NEW r \in Rec,
           Begun(s, b, r.start, r.object, p), Ended(s, r.start, r.hit, r.end, p)
    PROVE  Begun(s, b, r.start, r.object, p + 1) /\ Ended(s, r.start, r.hit, r.end, p + 1)
<1>1. PICK t \in Nat : t = r.start
  BY RecFields, Zenon
<1>2. PICK e \in Nat : e = r.end
  BY RecFields, Zenon
<1>3. PICK o \in BOOLEAN : o = r.object
  BY RecFields, Zenon
<1>4. Begun(s, b, t, o, p)
  BY <1>1, <1>3, Zenon
<1>5. Begun(s, b, t, o, p + 1)
  BY <1>4, BegunOn, Zenon
<1>6. t < e /\ e <= p
  BY <1>1, <1>2, Zenon DEF Ended
<1>7. e <= p + 1
  BY <1>6
<1> QED BY <1>1, <1>2, <1>3, <1>5, <1>6, <1>7, Zenon DEF Ended

(* A separator that is not one ends the call. *)
LEMMA BadSeparatorFollows ==
    ASSUME BasicInv, FollowInv, at \in {"separator", "line_feed"}, Reject,
           SeparatorEnd(input, rec.end) = Len(input) + 1
    PROVE  FollowInv'
<1>1. PICK b \in 0 .. Len(input) :
         /\ Chain(input, Len(decisions), b)
         /\ Starts(input, b) # {} /\ FirstStart(input, b) = rec.start
         /\ ValueEnd(input, rec.start) = rec.end
  BY EndedFacts, Zenon
<1>2. Len(input) \in Nat
  BY SourceTypes DEF BasicInv
<1>3. ~(Len(input) + 1 <= Len(input))
  BY <1>2
<1>4. ~Readable(input, FirstStart(input, b))
  BY <1>1, <1>3, Zenon DEF Readable
<1>5. at # "done"
  BY Zenon
<1> QED BY <1>1, <1>4, <1>5, FollowReject, Zenon

LEMMA SeparatorFollows ==
    ASSUME BasicInv, BasicInv', FollowInv, NEW c \in Byte, Separator(c) PROVE FollowInv'
<1>a. at = "separator" /\ Have(c)
  BY Zenon DEF Separator
<1>0. /\ pos < read /\ c = input[pos + 1] /\ input \in Seq(Byte)
      /\ pos \in 0 .. (Len(input) - 1) /\ pos \in Nat /\ rec \in Rec
      /\ "separator" \in Before /\ "flush" \in Before /\ "line_feed" \in Before
  BY <1>a, HaveFacts, States
<1>1. PICK b \in 0 .. Len(input) :
         /\ Chain(input, Len(decisions), b) /\ Place(input, b, at, rec, pos)
         /\ Begun(input, b, rec.start, rec.object, pos)
         /\ Ended(input, rec.start, rec.hit, rec.end, pos) /\ rec.end \in 0 .. pos
  BY <1>a, EndedFacts, Zenon
<1>2. Blanks(input, rec.end, pos)
  BY <1>a, <1>1, PlaceHas, Zenon
<1>3. PICK e \in 0 .. pos : e = rec.end
  BY <1>1, Zenon
<1>4. /\ Begun(input, b, rec.start, rec.object, pos + 1)
      /\ Ended(input, rec.start, rec.hit, rec.end, pos + 1)
  BY <1>0, <1>1, BegunNext, Zenon
<1>5. pos \in 0 .. Len(input) /\ pos < Len(input)
  BY <1>0
<1>6. Blanks(input, e, pos)
  BY <1>2, <1>3, Zenon
<1>7. CASE c = "s" /\ Take("separator") /\ rec' = rec
  <2>1. Blanks(input, e, pos + 1)
    BY <1>0, <1>6, <1>7, BlankByte, Zenon
  <2>2. Place(input, b, "separator", rec', pos + 1)
    BY <1>3, <1>4, <1>7, <2>1, PlaceIs, Zenon
  <2> QED BY <1>0, <1>1, <1>7, <2>2, TakeFacts, FollowScan, Zenon
<1>8. CASE c = "n" /\ Take("flush") /\ rec' = rec
  <2>1. SeparatorEnd(input, e) = pos + 1
    BY <1>0, <1>5, <1>6, <1>8, SeparatorEnds, Zenon
  <2>2. Place(input, b, "flush", rec', pos + 1)
    BY <1>3, <1>4, <1>8, <2>1, PlaceIs, Zenon
  <2> QED BY <1>0, <1>1, <1>8, <2>2, TakeFacts, FollowScan, Zenon
<1>9. CASE c = "r" /\ Take("line_feed") /\ rec' = rec
  <2>1. e < pos + 1 /\ (pos + 1) - 1 = pos
    BY <1>0
  <2>2. Place(input, b, "line_feed", rec', pos + 1)
    BY <1>0, <1>3, <1>4, <1>6, <1>9, <2>1, PlaceIs, Zenon
  <2> QED BY <1>0, <1>1, <1>9, <2>2, TakeFacts, FollowScan, Zenon
<1>10. CASE c \notin Space /\ Reject
  <2>1. SeparatorEnd(input, e) = Len(input) + 1
    BY <1>0, <1>5, <1>6, <1>10, SeparatorEnds, Zenon
  <2> QED BY <1>a, <1>3, <1>10, <2>1, BadSeparatorFollows, Zenon
<1> QED BY <1>7, <1>8, <1>9, <1>10, Zenon DEF Separator

LEMMA LineFeedFollows ==
    ASSUME BasicInv, BasicInv', FollowInv, NEW c \in Byte, LineFeed(c) PROVE FollowInv'
<1>a. at = "line_feed" /\ Have(c)
  BY Zenon DEF LineFeed
<1>0. /\ pos < read /\ c = input[pos + 1] /\ input \in Seq(Byte)
      /\ pos \in 0 .. (Len(input) - 1) /\ pos \in Nat /\ rec \in Rec /\ "flush" \in Before
  BY <1>a, HaveFacts, States
<1>1. PICK b \in 0 .. Len(input) :
         /\ Chain(input, Len(decisions), b) /\ Place(input, b, at, rec, pos)
         /\ Begun(input, b, rec.start, rec.object, pos)
         /\ Ended(input, rec.start, rec.hit, rec.end, pos) /\ rec.end \in 0 .. pos
  BY <1>a, EndedFacts, Zenon
<1>2. rec.end < pos /\ input[pos] = "r" /\ Blanks(input, rec.end, pos - 1)
  BY <1>a, <1>1, PlaceHas, Zenon
<1>3. PICK e \in 0 .. pos : e = rec.end
  BY <1>1, Zenon
<1>4. /\ Begun(input, b, rec.start, rec.object, pos + 1)
      /\ Ended(input, rec.start, rec.hit, rec.end, pos + 1)
  BY <1>0, <1>1, BegunNext, Zenon
<1>5. e < pos /\ Blanks(input, e, pos - 1)
  BY <1>2, <1>3, Zenon
<1>6. pos \in 1 .. Len(input) /\ e \in 0 .. (pos - 1) /\ pos < Len(input)
  BY <1>0, <1>5
<1>7. CASE c = "n" /\ Take("flush") /\ rec' = rec
  <2>1. SeparatorEnd(input, e) = pos + 1
    BY <1>0, <1>2, <1>5, <1>6, <1>7, LineFeedEnds, Zenon
  <2>2. Place(input, b, "flush", rec', pos + 1)
    BY <1>3, <1>4, <1>7, <2>1, PlaceIs, Zenon
  <2> QED BY <1>0, <1>1, <1>7, <2>2, TakeFacts, FollowScan, Zenon
<1>8. CASE c # "n" /\ Reject
  <2>1. SeparatorEnd(input, e) = Len(input) + 1
    BY <1>0, <1>2, <1>5, <1>6, <1>8, LineFeedEnds, Zenon
  <2> QED BY <1>a, <1>3, <1>8, <2>1, BadSeparatorFollows, Zenon
<1> QED BY <1>7, <1>8, Zenon DEF LineFeed

LEMMA EndFollows ==
    ASSUME BasicInv, BasicInv', FollowInv, EndOfInput PROVE FollowInv'
<1>0. /\ input \in Seq(Byte) /\ Len(input) \in Nat /\ pos = Len(input)
      /\ pos \in 0 .. Len(input) /\ Len(decisions) \in Nat
      /\ "separator" \in Before /\ "flush" \in Before
  <2>1. pos = read /\ eof
    BY Zenon DEF EndOfInput, AtEnd
  <2> QED BY <2>1, SourceTypes, States DEF BasicInv, TypeOK
<1>1. CASE at = "space" /\ Fail("OK") /\ UNCHANGED <<source, decisions>>
  <2>1. at \in Before
    BY <1>1, States
  <2>2. PICK b \in 0 .. Len(input) : /\ Chain(input, Len(decisions), b)
                                     /\ Blank(input, b, pos)
    BY <1>1, <2>1, PlaceHas, Zenon DEF FollowInv, PlaceInv
  <2>3. Starts(input, b) = {}
    <3>1. \A i \in (b + 1) .. Len(input) : input[i] \in Space
      BY <1>0, <2>2, Zenon DEF Blank
    <3> QED BY <1>0, <3>1, NoStart, Zenon
  <2>4. Len(Reference(input).recs) = Len(decisions) /\ Reference(input).valid
    BY <1>0, <2>2, <2>3, ChainEnd, Zenon
  <2>5. at' = "done" /\ status' = "OK"
    <3>1. "OK" \in Status /\ at # "done"
      BY <1>1 DEF Status
    <3> QED BY <1>1, <3>1, FailFacts DEF Fail
  <2> QED BY <1>1, <2>4, <2>5, FollowEnd, Zenon
<1>2. CASE at = "number" /\ Move("separator") /\ rec' = [rec EXCEPT !.end = pos]
  BY <1>0, <1>2, NumberEndFollows, Zenon
<1>3. CASE at = "separator" /\ Move("flush") /\ rec' = rec
  <2>1. PICK b \in 0 .. Len(input) :
           /\ Chain(input, Len(decisions), b) /\ Place(input, b, at, rec, pos)
           /\ Begun(input, b, rec.start, rec.object, pos)
           /\ Ended(input, rec.start, rec.hit, rec.end, pos) /\ rec.end \in 0 .. pos
    BY <1>3, EndedFacts, Zenon
  <2>2. Blanks(input, rec.end, pos)
    BY <1>3, <2>1, PlaceHas, Zenon
  <2>3. PICK e \in 0 .. pos : e = rec.end
    BY <2>1, Zenon
  <2>4. SeparatorEnd(input, e) = pos
    BY <1>0, <2>2, <2>3, SeparatorEnds, Zenon
  <2>5. Place(input, b, "flush", rec', pos)
    BY <1>3, <2>1, <2>3, <2>4, PlaceIs, Zenon
  <2> QED BY <1>0, <1>3, <2>1, <2>5, MoveFacts, FollowScan, Zenon
<1>4. CASE at = "line_feed" /\ Reject
  <2>1. PICK b \in 0 .. Len(input) :
           Place(input, b, at, rec, pos) /\ rec.end \in 0 .. pos
    BY <1>4, EndedFacts, Zenon
  <2>2. rec.end < pos /\ input[pos] = "r" /\ Blanks(input, rec.end, pos - 1)
    BY <1>4, <2>1, PlaceHas, Zenon
  <2>3. PICK e \in 0 .. pos : e = rec.end
    BY <2>1, Zenon
  <2>4. e < pos /\ Blanks(input, e, pos - 1)
    BY <2>2, <2>3, Zenon
  <2>5. pos \in 1 .. Len(input) /\ e \in 0 .. (pos - 1)
    BY <1>0, <2>4
  <2>6. SeparatorEnd(input, e) = Len(input) + 1
    BY <1>0, <2>2, <2>4, <2>5, LineFeedEnds, Zenon
  <2> QED BY <1>4, <2>3, <2>6, BadSeparatorFollows, Zenon
<1>5. CASE at = "object" /\ Reject
  <2>1. at \in Before /\ at # "done"
    BY <1>5, States
  <2>2. PICK b \in 0 .. Len(input) : /\ Chain(input, Len(decisions), b)
                                     /\ Begun(input, b, rec.start, rec.object, pos) /\ rec.object
                                     /\ InObject(input, rec.start, rec.hit, pos)
    BY <1>5, <2>1, PlaceHas, Zenon DEF FollowInv, PlaceInv
  <2>3. rec \in Rec
    BY Zenon DEF BasicInv, TypeOK
  <2>4. PICK t \in Nat : t = rec.start
    BY <2>3, RecFields, Zenon
  <2>5. PICK o \in BOOLEAN : o = rec.object
    BY <2>3, RecFields, Zenon
  <2>6. Begun(input, b, t, o, pos) /\ o /\ InObject(input, t, rec.hit, pos)
    BY <2>2, <2>4, <2>5, Zenon
  <2>7. t < pos /\ input[t + 1] = Open
    BY <2>6, Zenon DEF Begun
  <2>8. ValueEnd(input, t) = 0
    BY <1>0, <2>6, <2>7, OpenObject, Zenon
  <2>9. Starts(input, b) # {} /\ FirstStart(input, b) = t
    BY <1>0, <2>6, BegunFirst, Zenon
  <2>10. ~Readable(input, FirstStart(input, b))
    BY <2>8, <2>9, Zenon DEF Readable
  <2> QED BY <1>5, <2>1, <2>2, <2>9, <2>10, FollowReject, Zenon
<1> QED BY <1>1, <1>2, <1>3, <1>4, <1>5, Zenon DEF EndOfInput, logs

(* A stop is a success only for a reason. *)
LEMMA StopEnds ==
    ASSUME NEW res \in Results, NEW lim \in BOOLEAN, NEW can \in BOOLEAN,
           Finish("STOP", res, lim, can)
    PROVE  /\ at' = "done" /\ (status' = "OK" => result'.stopped_early)
           /\ status' \in {"OK", "STOP"}
<1>1. "STOP" \in Status
  BY DEF Status
<1>2. /\ at' = "done" /\ result'.stopped_early = (result'.stop_reason # "NONE")
      /\ status' = IF "STOP" = "STOP" /\ result'.stop_reason # "NONE" THEN "OK" ELSE "STOP"
  BY <1>1, FinishFacts, Zenon
<1> QED BY <1>2, Zenon

LEMMA FlushFollows ==
    ASSUME BasicInv, BasicInv', FollowInv, Flush PROVE FollowInv'
<1>1. at = "flush" /\ UNCHANGED <<source, decisions, rec, pos>> /\ "decision" \in Before
  BY DEF Flush, scan, logs, Before
<1>2. DecidedInv'
  BY <1>1, DecidedKeep DEF FollowInv
<1>3. CASE Finish("STOP", result, FALSE, TRUE)
  <2>1. result \in Results /\ FALSE \in BOOLEAN /\ TRUE \in BOOLEAN
    BY SourceTypes DEF BasicInv
  <2>2. /\ at' = "done" /\ (status' = "OK" => result'.stopped_early)
        /\ status' \in {"OK", "STOP"}
    BY <1>3, <2>1, StopEnds, Zenon
  <2>3. status' # "JSON_ERROR"
    BY <2>2
  <2> QED BY <1>2, <2>2, <2>3, FollowStop, Zenon
<1>4. CASE at' = "decision"
  <2>1. PICK b \in 0 .. Len(input) :
           /\ Chain(input, Len(decisions), b) /\ Place(input, b, at, rec, pos)
           /\ Begun(input, b, rec.start, rec.object, pos)
           /\ Ended(input, rec.start, rec.hit, rec.end, pos)
    BY <1>1, EndedFacts, Zenon
  <2>2. SeparatorEnd(input, rec.end) = pos
    BY <1>1, <2>1, PlaceHas, Zenon
  <2>3. Place(input, b, "decision", rec', pos')
    BY <1>1, <2>1, <2>2, PlaceIs, Zenon
  <2> QED BY <1>1, <1>4, <2>1, <2>3, FollowScan, Zenon
<1> QED BY <1>3, <1>4, Zenon DEF Flush

(* What the scanner noted of the record is what the reference says of it. *)
LEMMA RecordIs ==
    ASSUME NEW s \in Seq(Byte), NEW b, NEW t \in 0 .. Len(s), NEW e \in (t + 1) .. Len(s),
           NEW o \in BOOLEAN, NEW h \in BOOLEAN, NEW p, Begun(s, b, t, o, p), Ended(s, t, h, e, p),
           ValueEnd(s, t) = e
    PROVE  RecordAt(s, t).object = o /\ RecordAt(s, t).hit = (o /\ h)
<1>1. s[t + 1] = Open <=> o
  <2>1. s[t + 1] = IF o THEN Open ELSE "d"
    BY Zenon DEF Begun
  <2> QED BY <2>1, Braces, Zenon
<1>2. EndsAt(s, t, e) /\ (h <=> \E i \in (t + 1) .. e : s[i] = "m")
  BY Zenon DEF Ended
<1>3. ~o => ~h
  <2> SUFFICES ASSUME ~o PROVE ~h
    OBVIOUS
  <2>1. \A i \in (t + 1) .. e : s[i] = "d"
    BY <1>1, <1>2, Zenon DEF EndsAt
  <2>2. ~\E i \in (t + 1) .. e : s[i] = "m"
    BY <2>1
  <2> QED BY <1>2, <2>2, Zenon
<1>4. Contains(SubSeq(s, t + 1, e), "m") <=> \E i \in (t + 1) .. e : s[i] = "m"
  <2>1. /\ Len(SubSeq(s, t + 1, e)) = e - t
        /\ \A i \in 1 .. (e - t) : SubSeq(s, t + 1, e)[i] = s[t + i]
    OBVIOUS
  <2>2. PICK v : v = SubSeq(s, t + 1, e)
    OBVIOUS
  <2>3. Len(v) = e - t /\ \A i \in 1 .. (e - t) : v[i] = s[t + i]
    BY <2>1, <2>2, Zenon
  <2>4. ASSUME NEW i \in 1 .. (e - t), v[i] = "m" PROVE \E j \in (t + 1) .. e : s[j] = "m"
    <3>1. t + i \in (t + 1) .. e
      OBVIOUS
    <3> QED BY <2>3, <2>4, <3>1
  <2>5. ASSUME NEW j \in (t + 1) .. e, s[j] = "m" PROVE \E i \in 1 .. (e - t) : v[i] = "m"
    <3>1. j - t \in 1 .. (e - t) /\ t + (j - t) = j
      OBVIOUS
    <3> QED BY <2>3, <2>5, <3>1
  <2>6. Contains(v, "m") <=> \E i \in 1 .. (e - t) : v[i] = "m"
    BY <2>3, Zenon DEF Contains
  <2> QED BY <2>2, <2>4, <2>5, <2>6, Zenon
<1>5. Contains(SubSeq(s, t + 1, e), "m") <=> (o /\ h)
  BY <1>2, <1>3, <1>4, Zenon
<1>6. Contains(SubSeq(s, t + 1, e), "m") \in BOOLEAN
  BY Zenon DEF Contains
<1>7. RecordAt(s, t).object = (s[t + 1] = Open)
  BY RecordAtFields, Zenon DEF Open
<1>8. RecordAt(s, t).hit = Contains(SubSeq(s, t + 1, e), "m")
  BY RecordAtFields, Zenon
<1>9. RecordAt(s, t).object = o
  BY <1>1, <1>7, Zenon
<1>10. RecordAt(s, t).hit = (o /\ h)
  BY <1>5, <1>6, <1>8, Zenon
<1> QED BY <1>9, <1>10

LEMMA DecisionFollows ==
    ASSUME BasicInv, BasicInv', FollowInv, Decision PROVE FollowInv'
<1>1. /\ at = "decision" /\ decisions' = Append(decisions, Matched)
      /\ UNCHANGED <<source, scan, rec>>
  BY DecisionFacts, Zenon
<1>2. /\ input \in Seq(Byte) /\ pos \in 0 .. Len(input) /\ rec \in Rec
      /\ decisions \in Seq(BOOLEAN) /\ Len(decisions) \in Nat
  <2>1. rec \in Rec /\ decisions \in Seq(BOOLEAN) /\ TypeOK
    BY Zenon DEF BasicInv, TypeOK
  <2> QED BY <2>1, SourceTypes
<1>3. PICK b \in 0 .. Len(input) :
         /\ Chain(input, Len(decisions), b) /\ Place(input, b, at, rec, pos)
         /\ Begun(input, b, rec.start, rec.object, pos)
         /\ Ended(input, rec.start, rec.hit, rec.end, pos)
         /\ rec.start \in 0 .. Len(input) /\ rec.end \in (rec.start + 1) .. Len(input)
         /\ Starts(input, b) # {} /\ FirstStart(input, b) = rec.start
         /\ ValueEnd(input, rec.start) = rec.end /\ rec.end # 0
  BY <1>1, EndedFacts, Zenon
<1>4. SeparatorEnd(input, rec.end) = pos
  BY <1>1, <1>3, PlaceHas, Zenon
<1>5. pos <= Len(input)
  BY <1>2
<1>6. Readable(input, FirstStart(input, b))
  BY <1>3, <1>4, <1>5, Zenon DEF Readable
<1>7. PICK n \in Nat : n = Len(decisions)
  BY <1>2, Zenon
<1>8. PICK r : r = RecordAt(input, FirstStart(input, b))
  OBVIOUS
<1>9. /\ Chain(input, n + 1, r.next) /\ n + 1 <= Len(Reference(input).recs)
      /\ Reference(input).recs[n + 1] = r
  BY <1>2, <1>3, <1>6, <1>7, <1>8, ChainNext, Zenon
<1>t. PICK t \in 0 .. Len(input) : t = rec.start
  BY <1>3, Zenon
<1>e. PICK e \in (t + 1) .. Len(input) : e = rec.end
  BY <1>3, <1>t, Zenon
<1>v. r = RecordAt(input, t) /\ ValueEnd(input, t) = e
  BY <1>3, <1>8, <1>t, <1>e, Zenon
<1>10. r.next = pos
  <2>1. RecordAt(input, t).next = SeparatorEnd(input, ValueEnd(input, t))
    BY RecordAtFields, Zenon
  <2> QED BY <1>4, <1>e, <1>v, <2>1, Zenon
<1>11. r.object = rec.object /\ r.hit = (rec.object /\ rec.hit)
  <2>1. PICK o \in BOOLEAN : o = rec.object
    BY <1>2, RecFields, Zenon
  <2>2. PICK h \in BOOLEAN : h = rec.hit
    BY <1>2, RecFields, Zenon
  <2>3. Begun(input, b, t, o, pos) /\ Ended(input, t, h, e, pos)
    BY <1>3, <1>t, <1>e, <2>1, <2>2, Zenon
  <2>4. RecordAt(input, t).object = o /\ RecordAt(input, t).hit = (o /\ h)
    BY <1>2, <1>v, <2>3, RecordIs, Zenon
  <2> QED BY <1>v, <2>1, <2>2, <2>4, Zenon
<1>12. Len(decisions') = n + 1
  BY <1>1, <1>2, <1>7, MatchedBoolean
<1>13. Matched = RefMatched(r)
  BY <1>11, Zenon DEF Matched, RefMatched
<1>14. DecidedInv'
  <2>1. input' = input /\ req' = req
    BY <1>1 DEF source
  <2>2. \A i \in 1 .. n : decisions'[i] = decisions[i]
    BY <1>1, <1>2, <1>7, MatchedBoolean
  <2>3. decisions'[n + 1] = Matched
    BY <1>1, <1>2, <1>7, MatchedBoolean
  <2>4. DOMAIN decisions = 1 .. n /\ DOMAIN decisions' = 1 .. (n + 1)
    BY <1>1, <1>2, <1>7, MatchedBoolean
  <2>5. \A i \in 1 .. n : decisions[i] = RefMatched(Reference(input).recs[i])
    BY <2>4, Zenon DEF FollowInv, DecidedInv
  <2>6. \A i \in 1 .. (n + 1) : i \in 1 .. n \/ i = n + 1
    OBVIOUS
  <2>7. \A i \in 1 .. (n + 1) : decisions'[i] = RefMatched(Reference(input).recs[i])
    BY <1>9, <1>13, <2>2, <2>3, <2>5, <2>6, Zenon
  <2>8. \A x : RefMatched(x)' <=> RefMatched(x)
    BY <2>1, Zenon DEF RefMatched
  <2>9. \A i \in DOMAIN decisions' : decisions'[i] = (~req'.selector \/ Reference(input').recs[i].hit)
    BY <2>1, <2>4, <2>7, Zenon DEF RefMatched
  <2>10. Len(decisions') <= Len(Reference(input').recs)
    BY <1>9, <1>12, <2>1, Zenon
  <2> QED BY <2>9, <2>10, Zenon DEF DecidedInv, RefMatched
<1>15. CASE at' = "value"
  <2>1. PlaceInv'
    <3>1. Chain(input, Len(decisions), pos)'
      BY <1>1, <1>9, <1>10, <1>12, Zenon DEF source, scan
    <3>2. Decided'
      <4>1. input' = input /\ rec' = rec
        BY <1>1 DEF source
      <4>2. Len(decisions') > 0
        BY <1>12
      <4>3. Reference(input').recs[Len(decisions')] = r
        BY <1>9, <1>12, <4>1, Zenon
      <4> QED BY <1>11, <4>1, <4>2, <4>3, Zenon DEF Decided
    <3>3. at' \notin Before
      BY <1>15, States
    <3> QED BY <3>1, <3>2, <3>3, Zenon DEF PlaceInv
  <2>2. status' = "running"
    BY <1>15 DEF BasicInv, RunInv
  <2>3. EndInv'
    BY <2>2 DEF EndInv
  <2> QED BY <1>14, <2>1, <2>3 DEF FollowInv
<1>16. CASE at' = "done"
  <2>1. (status' = "OK" => result'.stopped_early) /\ status' # "JSON_ERROR"
    BY <1>16, DecisionFacts, Zenon
  <2> QED BY <1>14, <1>16, <2>1, FollowStop, Zenon
<1> QED BY <1>15, <1>16, DecisionFacts, Zenon

LEMMA StartFollows ==
    ASSUME BasicInv, BasicInv', FollowInv, Start PROVE FollowInv'
<1>1. at = "start" /\ UNCHANGED <<source, decisions, rec, pos>>
  BY DEF Start, scan, logs
<1>2. at \in Before /\ "space" \in Before /\ at # "done"
  BY <1>1, States
<1>3. DecidedInv'
  BY <1>1, DecidedKeep DEF FollowInv
<1>4. ASSUME NEW st \in {"INVALID_ARGUMENT", "UNSUPPORTED"}, Fail(st) PROVE FollowInv'
  <2>1. st \in Status
    BY DEF Status
  <2>2. at' = "done" /\ status' = st
    BY <1>2, <1>4, <2>1, FailFacts DEF Fail
  <2>3. status' # "OK" /\ status' # "JSON_ERROR"
    BY <2>2
  <2> QED BY <1>3, <2>2, <2>3, FollowStop, Zenon
<1>5. CASE at' = "space"
  <2>1. PICK b \in 0 .. Len(input) : /\ Chain(input, Len(decisions), b)
                                     /\ b <= pos /\ Blank(input, b, pos)
    BY <1>1, <1>2, PlaceHas, Zenon DEF FollowInv, PlaceInv
  <2>2. Place(input, b, "space", rec', pos')
    BY <1>1, <2>1, PlaceIs, Zenon
  <2> QED BY <1>1, <1>2, <1>5, <2>1, <2>2, FollowScan, Zenon
<1> QED BY <1>4, <1>5, Zenon DEF Start

(* A step that leaves the scanner where it is. *)
LEMMA FollowStay ==
    ASSUME BasicInv', FollowInv, UNCHANGED <<source, decisions, rec, pos, at>>, at # "done"
    PROVE  FollowInv'
<1>1. PlaceInv'
  BY Zenon DEF FollowInv, PlaceInv, source, Decided
<1>2. EndInv'
  BY DEF EndInv, BasicInv, RunInv
<1> QED BY <1>1, <1>2, DecidedKeep DEF FollowInv

LEMMA RefillFollows ==
    ASSUME BasicInv, BasicInv', FollowInv, PollRefill \/ Refill \/ RefillFails \/ SpoolFails
    PROVE  FollowInv'
<1>1. at # "done" /\ UNCHANGED <<source, decisions, rec, pos>>
  BY DEF PollRefill, Refill, RefillFails, SpoolFails, Empty, Scanning, scan, logs
<1>2. DecidedInv'
  BY <1>1, DecidedKeep DEF FollowInv
<1>3. CASE at' = at
  BY <1>1, <1>3, FollowStay, Zenon
<1>4. CASE Finish("STOP", result, FALSE, TRUE)
  <2>1. result \in Results /\ FALSE \in BOOLEAN /\ TRUE \in BOOLEAN
    BY SourceTypes DEF BasicInv
  <2>2. /\ at' = "done" /\ (status' = "OK" => result'.stopped_early)
        /\ status' \in {"OK", "STOP"}
    BY <1>4, <2>1, StopEnds, Zenon
  <2>3. status' # "JSON_ERROR"
    BY <2>2
  <2> QED BY <1>2, <2>2, <2>3, FollowStop, Zenon
<1>5. ASSUME NEW st \in {"IO_ERROR", "STOP", "JSON_ERROR"}, Fail(st),
             st = "JSON_ERROR" => "reader" \in caller.failures
      PROVE  FollowInv'
  <2>1. st \in Status
    BY DEF Status
  <2>2. at' = "done" /\ status' = st
    BY <1>1, <1>5, <2>1, FailFacts DEF Fail
  <2>3. status' # "OK" /\ (status' = "JSON_ERROR" => "reader" \in caller'.failures)
    BY <1>1, <1>5, <2>2 DEF source
  <2> QED BY <1>2, <2>2, <2>3, FollowStop, Zenon
<1>6. CASE PollRefill
  BY <1>3, <1>4, <1>6, Zenon DEF PollRefill
<1>7. CASE Refill
  BY <1>3, <1>7, Zenon DEF Refill
<1>8. CASE RefillFails
  BY <1>5, <1>8, Zenon DEF RefillFails
<1>9. CASE SpoolFails
  BY <1>5, <1>9, Zenon DEF SpoolFails
<1> QED BY <1>6, <1>7, <1>8, <1>9

LEMMA ValueFollows ==
    ASSUME BasicInv, BasicInv', FollowInv, Value PROVE FollowInv'
<1>1. at = "value" /\ UNCHANGED <<source, decisions, rec, scan>>
  BY ValueFacts, Zenon
<1>2. DecidedInv'
  BY <1>1, DecidedKeep DEF FollowInv
<1>3. CASE at' = "output"
  BY <1>1, <1>3, FollowAfter DEF After, scan
<1>4. CASE at' = "done"
  <2>1. (status' = "OK" => result'.stopped_early) /\ status' # "JSON_ERROR"
    BY <1>4, ValueFacts, Zenon
  <2> QED BY <1>2, <1>4, <2>1, FollowStop, Zenon
<1> QED BY <1>3, <1>4, ValueFacts, Zenon

LEMMA OutputFollows ==
    ASSUME BasicInv, BasicInv', FollowInv, Output \/ Newline \/ WriterFails PROVE FollowInv'
<1>1. /\ at \in {"output", "newline"}
      /\ UNCHANGED <<source, scan, rec, spool, cancel, decisions, values, late>>
  BY Zenon DEF Output, Newline, WriterFails
<1>2. at \in After /\ at # "done" /\ UNCHANGED pos
  BY <1>1 DEF After, scan
<1>3. DecidedInv'
  BY <1>1, DecidedKeep DEF FollowInv
<1>4. CASE at' \in {"matches", "newline"}
  BY <1>1, <1>2, <1>4, FollowAfter DEF After
<1>5. ASSUME NEW st \in {"JSON_ERROR", "UNSUPPORTED", "IO_ERROR", "STOP"}, Abort(st, result)
      PROVE  at' = "done" /\ status' = st
  <2>1. st \in Status /\ Finish(st, result, FALSE, FALSE)
    BY <1>5 DEF Status, Abort
  <2> QED BY <1>2, <2>1, FailFacts
<1>6. ASSUME NEW st \in {"UNSUPPORTED", "IO_ERROR", "STOP"}, Abort(st, result)
      PROVE  FollowInv'
  <2>1. at' = "done" /\ status' = st
    BY <1>5, <1>6
  <2>2. status' # "OK" /\ status' # "JSON_ERROR"
    BY <2>1
  <2> QED BY <1>3, <2>1, <2>2, FollowStop, Zenon
<1>7. CASE Wanted /\ req.output_mode # "decision" /\ Refused /\ Abort("JSON_ERROR", result)
  <2>1. at' = "done" /\ status' = "JSON_ERROR"
    BY <1>5, <1>7
  <2>2. PICK last : last = Reference(input).recs[Len(decisions)]
    OBVIOUS
  <2>3. last.object = rec.object /\ last.hit = (rec.object /\ rec.hit)
    BY <1>2, <2>2, Zenon DEF FollowInv, PlaceInv, Decided
  <2>4. Matched <=> RefMatched(last)
    BY <2>3, Zenon DEF Matched, RefMatched
  <2>5. /\ ~last.object
        /\ \/ req.output_mode \in {"projection", "projection_then_mutation"}
           \/ req.output_mode = "mutation" /\ RefMatched(last)
        /\ RefMatched(last) \/ ~req.matched_only
    BY <1>7, <2>3, <2>4, Zenon DEF Refused, Wanted
  <2>6. Undeliverable(last)
    BY <2>5, Zenon DEF Undeliverable
  <2>7. Undeliverable(Reference(input).recs[Len(decisions)])'
    <3>1. UNCHANGED <<input, req, caller, decisions>>
      BY <1>1 DEF source
    <3> QED BY <2>2, <2>6, <3>1, Zenon DEF Undeliverable, RefMatched, Capture
  <2>8. PlaceInv'
    BY <2>1 DEF PlaceInv, Before, After, Scanning
  <2>9. EndInv'
    BY <2>1, <2>7, Zenon DEF EndInv
  <2> QED BY <1>3, <2>8, <2>9 DEF FollowInv
<1>8. CASE Output
  BY <1>4, <1>6, <1>7, <1>8, Zenon DEF Output
<1>9. CASE Newline
  BY <1>4, <1>9, Zenon DEF Newline
<1>10. CASE WriterFails
  BY <1>6, <1>10, Zenon DEF WriterFails
<1> QED BY <1>8, <1>9, <1>10

LEMMA MatchFollows ==
    ASSUME BasicInv, BasicInv', FollowInv, MatchLimit PROVE FollowInv'
<1>1. at = "matches" /\ UNCHANGED <<source, decisions, rec, pos>>
  BY Zenon DEF MatchLimit, logs, scan
<1>2. DecidedInv'
  BY <1>1, DecidedKeep DEF FollowInv
<1>3. CASE at' = "next"
  BY <1>1, <1>3, FollowAfter DEF After
<1>4. CASE Abort("STOP", [result EXCEPT !.stopped_early = TRUE, !.stop_reason = "MATCH_LIMIT"])
  <2>1. PICK res : res = [result EXCEPT !.stopped_early = TRUE, !.stop_reason = "MATCH_LIMIT"]
    OBVIOUS
  <2>2. Finish("STOP", res, FALSE, FALSE)
    BY <1>4, <2>1, Zenon DEF Abort
  <2>3. "MATCH_LIMIT" \in Reason /\ result \in Results
    BY SourceTypes DEF Reason, BasicInv
  <2>4. res \in Results
    BY <2>1, <2>3, Zenon DEF Results
  <2>5. at' = "done" /\ (status' = "OK" => result'.stopped_early) /\ status' \in {"OK", "STOP"}
    BY <2>2, <2>4, StopEnds, Zenon
  <2>6. status' # "JSON_ERROR"
    BY <2>5
  <2> QED BY <1>2, <2>5, <2>6, FollowStop, Zenon
<1> QED BY <1>3, <1>4, Zenon DEF MatchLimit

LEMMA NextRecordFollows ==
    ASSUME BasicInv, BasicInv', FollowInv, NextRecord PROVE FollowInv'
<1>1. at = "next" /\ UNCHANGED <<source, decisions, rec, pos>>
  BY Zenon DEF NextRecord, logs, scan
<1>2. DecidedInv'
  BY <1>1, DecidedKeep DEF FollowInv
<1>3. CASE at' = "space"
  <2>1. Chain(input, Len(decisions), pos)
    BY <1>1, Zenon DEF FollowInv, PlaceInv
  <2>2. pos \in 0 .. Len(input) /\ pos <= pos /\ (pos + 1) .. pos = {} /\ at' \in Before
    BY <1>3, SourceTypes, States DEF BasicInv
  <2>3. Blank(input, pos, pos)
    BY <2>2, Zenon DEF Blank
  <2>4. Place(input, pos, "space", rec', pos')
    BY <1>1, <2>2, <2>3, PlaceIs, Zenon
  <2> QED BY <1>1, <1>3, <2>1, <2>2, <2>4, FollowScan, Zenon
<1>4. CASE Finish("STOP", result, TRUE, FALSE)
  <2>1. result \in Results /\ FALSE \in BOOLEAN /\ TRUE \in BOOLEAN
    BY SourceTypes DEF BasicInv
  <2>2. /\ at' = "done" /\ (status' = "OK" => result'.stopped_early)
        /\ status' \in {"OK", "STOP"}
    BY <1>4, <2>1, StopEnds, Zenon
  <2>3. status' # "JSON_ERROR"
    BY <2>2
  <2> QED BY <1>2, <2>2, <2>3, FollowStop, Zenon
<1> QED BY <1>3, <1>4, Zenon DEF NextRecord

LEMMA InitFollows == Init => FollowInv
<1> SUFFICES ASSUME Init PROVE FollowInv
  OBVIOUS
<1>1. /\ at = "start" /\ pos = 0 /\ status = "running" /\ decisions = <<>>
  BY Zenon DEF Init
<1>2. input \in Seq(Byte) /\ Len(input) \in Nat
  BY InitBasic, SourceTypes DEF BasicInv
<1>3. Len(decisions) = 0 /\ DOMAIN decisions = {}
  BY <1>1
<1>4. Chain(input, Len(decisions), 0)
  BY <1>2, <1>3, ChainStart, Zenon
<1>5. Place(input, 0, "start", rec, 0)
  <2>1. 0 <= 0 /\ (0 + 1) .. 0 = {}
    OBVIOUS
  <2> QED BY <2>1, Zenon DEF Place, Blank
<1>6. PlaceInv
  <2>1. 0 \in 0 .. Len(input)
    BY <1>2
  <2>2. at \notin After /\ at # "next"
    BY <1>1 DEF After
  <2> QED BY <1>1, <1>4, <1>5, <2>1, <2>2, Zenon DEF PlaceInv
<1>7. DecidedInv
  <2>1. Len(decisions) <= Len(Reference(input).recs)
    BY <1>2, <1>3, <1>4, ChainRoom
  <2> QED BY <1>3, <2>1, Zenon DEF DecidedInv
<1>8. EndInv
  BY <1>1, Zenon DEF EndInv
<1> QED BY <1>6, <1>7, <1>8 DEF FollowInv

LEMMA NextFollows == BasicInv /\ BasicInv' /\ FollowInv /\ [Next]_vars => FollowInv'
<1> SUFFICES ASSUME BasicInv, BasicInv', FollowInv, [Next]_vars PROVE FollowInv'
  OBVIOUS
<1>1. CASE CallStep
  <2>1. \/ Start \/ (PollRefill \/ Refill \/ RefillFails \/ SpoolFails)
        \/ (\E c \in Byte : SkipSpace(c) \/ ScanObject(c) \/ ScanNumber(c) \/ Separator(c)
                            \/ LineFeed(c))
        \/ EndOfInput \/ Flush \/ Decision \/ Value
        \/ (Output \/ Newline \/ WriterFails) \/ MatchLimit \/ NextRecord
    BY <1>1, Zenon DEF CallStep
  <2> QED BY <2>1, StartFollows, RefillFollows, SkipSpaceFollows, ScanObjectFollows,
             ScanNumberFollows, SeparatorFollows, LineFeedFollows, EndFollows, FlushFollows,
             DecisionFollows, ValueFollows, OutputFollows, MatchFollows, NextRecordFollows, Zenon
<1>2. CASE Cancel
  <2>1. at # "done" /\ UNCHANGED <<source, decisions, rec, pos, at>>
    BY <1>2, Zenon DEF Cancel, scan, logs
  <2> QED BY <2>1, FollowStay, Zenon
<1>3. CASE UNCHANGED vars
  <2>1. UNCHANGED <<input, req, caller, decisions, rec, pos, at, status, result>>
    BY <1>3 DEF vars, source, scan, logs, stops
  <2>2. PlaceInv'
    BY <2>1, Zenon DEF FollowInv, PlaceInv, Decided
  <2>3. EndInv'
    BY <2>1, Zenon DEF FollowInv, EndInv, Undeliverable, RefMatched, Capture
  <2>4. DecidedInv'
    BY <2>1, Zenon DEF FollowInv, DecidedInv, RefMatched
  <2> QED BY <2>2, <2>3, <2>4 DEF FollowInv
<1> QED BY <1>1, <1>2, <1>3, Zenon DEF Next, Done

LEMMA FollowInvariant == Spec => []FollowInv
  BY InitFollows, NextFollows, BasicInvariant, PTL DEF Spec

(* For every input, every size of the buffer and every way the reader splits *)
(* the input: on_decision sees the records of the input in order, with their *)
(* matches, and none whose bytes up to its separator are not valid; a call   *)
(* that ends OK without a stop has seen all of a valid input; and a call     *)
(* that rejects the input has first delivered every record before the        *)
(* invalid byte.                                                             *)
THEOREM DecisionsAreTheInputs == Spec => []DecisionsFollowInput
<1>1. FollowInv => DecisionsFollowInput
  BY Zenon DEF FollowInv, DecidedInv, EndInv, DecisionsFollowInput
<1> QED BY <1>1, FollowInvariant, PTL

-----------------------------------------------------------------------------
(* The limits and the reasons to stop *)

(* No limit is reached where the scanner may go on to a refill, and the      *)
(* record in dispatch is the first that can reach one.                       *)
RecordBound ==
    req.max_records # 0 =>
      /\ at \in Before \cup After => records < req.max_records
      /\ at = "next" => records <= req.max_records

MatchBound ==
    req.max_matches # 0 =>
      /\ at \in Before \cup {"next"} => result.records_matched < req.max_matches
      /\ at \in After => result.records_matched <= req.max_matches
      /\ at \in After /\ ~Matched => result.records_matched < req.max_matches

ByteBound ==
    LET recs == Reference(input).recs
        n    == Len(decisions)
    IN  req.max_bytes # 0 =>
          /\ at \in Before /\ n > 0 => recs[n].next < req.max_bytes
          /\ at \in After \cup {"next"} /\ n > 1 => recs[n - 1].next < req.max_bytes

BoundInv ==
    /\ RecordBound
    /\ MatchBound
    /\ ByteBound
    /\ at = "next" => Len(decisions) > 0

(* the result does not exceed the limits *)
CountTruth ==
    /\ req.max_records # 0 => result.records_seen <= req.max_records
    /\ req.max_matches # 0 => result.records_matched <= req.max_matches

(* the reason to stop holds *)
ReasonTruth ==
    LET ended == Reference(input).recs[result.records_seen].next
    IN  /\ result.stopped_early <=> result.stop_reason # "NONE"
        /\ result.stopped_early => status = "OK"
        /\ result.stop_reason = "RECORD_LIMIT" => result.records_seen = req.max_records
        /\ result.stop_reason = "MATCH_LIMIT" => result.records_matched = req.max_matches
        /\ result.stop_reason = "BYTE_LIMIT" =>
             /\ ended >= req.max_bytes
             /\ result.records_seen > 1 =>
                  Reference(input).recs[result.records_seen - 1].next < req.max_bytes
        /\ result.stop_reason = "CANCELLED" => cancel
        /\ status = "STOP" => caller.failures \cap {"reader", "writer"} # {}

TruthInv == BoundInv /\ (at = "done" => CountTruth /\ ReasonTruth)

LEMMA LimitTypes ==
    ASSUME BasicInv
    PROVE  /\ req.max_records \in Nat /\ req.max_matches \in Nat /\ req.max_bytes \in Nat
           /\ result.records_seen \in Nat /\ result.records_matched \in Nat
           /\ records \in Nat /\ Len(decisions) \in Nat
<1>1. req \in Request /\ result \in Results
  BY SourceTypes DEF BasicInv
<1>2. req.max_records \in Nat /\ req.max_matches \in Nat /\ req.max_bytes \in Nat
  BY <1>1 DEF Request
<1>3. result.records_seen \in Nat /\ result.records_matched \in Nat
  BY <1>1, ResultFields
<1>4. records \in Nat /\ Len(decisions) \in Nat
  BY DEF BasicInv, TypeOK
<1> QED BY <1>2, <1>3, <1>4

(* While the call runs the bounds keep the counts in the limits, and there   *)
(* is no reason to stop yet.                                                 *)
LEMMA RunTruth ==
    ASSUME BasicInv, BoundInv, at # "done" PROVE CountTruth /\ ReasonTruth
<1>1. PICK m \in Nat : m = req.max_records
  BY LimitTypes, Zenon
<1>2. PICK k \in Nat : k = req.max_matches
  BY LimitTypes, Zenon
<1>3. PICK n \in Nat : n = result.records_seen
  BY LimitTypes, Zenon
<1>4. PICK q \in Nat : q = result.records_matched
  BY LimitTypes, Zenon
<1>5. at \in Before \cup After \cup {"next"}
  BY DEF BasicInv, TypeOK, Before, After, Scanning
<1>6. n = Len(decisions) /\ records \in Nat
  BY <1>3, LimitTypes, Zenon DEF BasicInv, CountInv
<1>7. m # 0 => n <= m
  <2>1. CASE at \in Before
    <3>1. records = n /\ (m # 0 => records < m)
      BY <1>1, <1>6, <2>1, Zenon DEF BasicInv, CountInv, BoundInv, RecordBound
    <3> QED BY <3>1
  <2>2. CASE at \in After
    <3>1. records + 1 = n /\ (m # 0 => records < m)
      BY <1>1, <1>6, <2>2, Zenon DEF BasicInv, CountInv, BoundInv, RecordBound
    <3> QED BY <1>6, <3>1
  <2>3. CASE at = "next"
    <3>1. records = n /\ (m # 0 => records <= m)
      BY <1>1, <1>6, <2>3, Zenon DEF BasicInv, CountInv, BoundInv, RecordBound
    <3> QED BY <3>1
  <2> QED BY <1>5, <2>1, <2>2, <2>3
<1>8. k # 0 => q <= k
  <2>1. k # 0 => q < k \/ q <= k
    BY <1>2, <1>4, <1>5, Zenon DEF BoundInv, MatchBound
  <2> QED BY <2>1
<1>9. CountTruth
  BY <1>1, <1>2, <1>3, <1>4, <1>7, <1>8, Zenon DEF CountTruth
<1>10. ~result.stopped_early /\ result.stop_reason = "NONE" /\ status = "running"
  BY DEF BasicInv, RunInv
<1>11. ReasonTruth
  BY <1>10, Zenon DEF ReasonTruth
<1> QED BY <1>9, <1>11

LEMMA DoneBounds == ASSUME at' = "done" PROVE BoundInv'
<1>1. at' \notin Before /\ at' \notin After /\ at' # "next"
  BY DEF Before, After, Scanning
<1> QED BY <1>1, Zenon DEF BoundInv, RecordBound, MatchBound, ByteBound

(* The call ends with the counts it had, for a reason no limit gives. *)
LEMMA PlainEnd ==
    ASSUME at' = "done", CountTruth', result'.stop_reason \in {"NONE", "CALLBACK"},
           result'.stopped_early <=> result'.stop_reason # "NONE",
           result'.stopped_early => status' = "OK",
           status' = "STOP" => caller'.failures \cap {"reader", "writer"} # {}
    PROVE  TruthInv'
<1>1. /\ result'.stop_reason # "RECORD_LIMIT" /\ result'.stop_reason # "MATCH_LIMIT"
      /\ result'.stop_reason # "BYTE_LIMIT" /\ result'.stop_reason # "CANCELLED"
  OBVIOUS
<1>2. ReasonTruth'
  BY <1>1, Zenon DEF ReasonTruth
<1> QED BY <1>2, DoneBounds, Zenon DEF TruthInv

LEMMA CountsKeep ==
    ASSUME CountTruth, UNCHANGED source, result'.records_seen = result.records_seen,
           result'.records_matched = result.records_matched
    PROVE  CountTruth'
  BY Zenon DEF CountTruth, source

LEMMA FailTruth ==
    ASSUME BasicInv, TruthInv, at # "done", NEW st \in Status, Finish(st, result, FALSE, FALSE),
           UNCHANGED source, st = "STOP" => caller.failures \cap {"reader", "writer"} # {}
    PROVE  TruthInv'
<1>1. /\ at' = "done" /\ result'.records_seen = result.records_seen
      /\ result'.records_matched = result.records_matched
      /\ result'.stop_reason = "NONE" /\ ~result'.stopped_early /\ status' = st
  BY FailFacts, Zenon
<1>2. CountTruth'
  <2>1. CountTruth
    BY RunTruth, Zenon DEF TruthInv
  <2> QED BY <1>1, <2>1, CountsKeep, Zenon
<1>3. status' = "STOP" => caller'.failures \cap {"reader", "writer"} # {}
  BY <1>1, Zenon DEF source
<1> QED BY <1>1, <1>2, <1>3, PlainEnd, Zenon

(* cancelled was found true *)
LEMMA CancelTruth ==
    ASSUME BasicInv, TruthInv, at # "done", cancel, cancel' = cancel, UNCHANGED source,
           Finish("STOP", result, FALSE, TRUE)
    PROVE  TruthInv'
<1>1. "STOP" \in Status /\ result \in Results /\ FALSE \in BOOLEAN /\ TRUE \in BOOLEAN
  BY SourceTypes DEF Status, BasicInv
<1>2. ~result.stopped_early
  BY DEF BasicInv, RunInv
<1>3. StopReason("STOP", result, FALSE, TRUE) = "CANCELLED"
  BY <1>2, Zenon DEF StopReason
<1>4. /\ at' = "done" /\ result'.records_seen = result.records_seen
      /\ result'.records_matched = result.records_matched
      /\ result'.stop_reason = StopReason("STOP", result, FALSE, TRUE)
      /\ result'.stopped_early = (result'.stop_reason # "NONE")
      /\ status' = IF "STOP" = "STOP" /\ result'.stop_reason # "NONE" THEN "OK" ELSE "STOP"
  BY <1>1, FinishFacts, Zenon
<1>5. result'.stop_reason = "CANCELLED" /\ result'.stopped_early /\ status' = "OK"
  BY <1>3, <1>4, Zenon
<1>6. CountTruth'
  <2>1. CountTruth
    BY RunTruth, Zenon DEF TruthInv
  <2> QED BY <1>4, <2>1, CountsKeep, Zenon
<1>7. ReasonTruth'
  BY <1>5, Zenon DEF ReasonTruth
<1> QED BY <1>4, <1>6, <1>7, DoneBounds, Zenon DEF TruthInv

(* The call goes on: what is left to show are the bounds. *)
LEMMA GoOnTruth ==
    ASSUME BoundInv', at' # "done" PROVE TruthInv'
  BY Zenon DEF TruthInv

LEMMA BeforeTruth ==
    ASSUME BasicInv, BasicInv', TruthInv, at \in Before, at' \in Before,
           UNCHANGED <<source, records, result, decisions>>
    PROVE  TruthInv'
<1>1. at' \notin After /\ at' # "next" /\ at' # "done" /\ UNCHANGED <<input, req>>
  BY DEF Before, After, Scanning, source
<1>2. BoundInv'
  BY <1>1, Zenon DEF TruthInv, BoundInv, RecordBound, MatchBound, ByteBound
<1> QED BY <1>1, <1>2, GoOnTruth

LEMMA AfterTruth ==
    ASSUME BasicInv, BasicInv', TruthInv, at \in After, at' \in After,
           UNCHANGED <<source, rec, records, result, decisions>>
    PROVE  TruthInv'
<1>1. at' \notin Before /\ at' # "next" /\ at' # "done" /\ UNCHANGED <<input, req>>
  BY DEF Before, After, Scanning, source
<1>2. BoundInv'
  BY <1>1, Zenon DEF TruthInv, BoundInv, RecordBound, MatchBound, ByteBound, Matched
<1> QED BY <1>1, <1>2, GoOnTruth

LEMMA RejectTruth ==
    ASSUME BasicInv, TruthInv, at # "done", Reject PROVE TruthInv'
<1>1. "JSON_ERROR" \in Status /\ "JSON_ERROR" # "STOP"
  BY DEF Status
<1>2. Finish("JSON_ERROR", result, FALSE, FALSE) /\ UNCHANGED source
  BY DEF Reject, Fail
<1> QED BY <1>1, <1>2, FailTruth, Zenon

LEMMA ScanTruth ==
    ASSUME BasicInv, BasicInv', TruthInv,
           Start \/ PollRefill \/ Refill \/ RefillFails \/ (\E c \in Byte : ScanStep(c))
             \/ EndOfInput \/ SpoolFails \/ Flush
    PROVE  TruthInv'
<1>1. /\ at \in Before /\ at # "done" /\ UNCHANGED source
      /\ "space" \in Before /\ "object" \in Before /\ "number" \in Before /\ "separator" \in Before
      /\ "line_feed" \in Before /\ "flush" \in Before /\ "decision" \in Before
  <2>1. at \in {"start", "flush"} \cup Scanning
    BY Zenon DEF Start, PollRefill, Refill, RefillFails, ScanStep, SkipSpace, ScanObject,
       ScanNumber, Separator, LineFeed, EndOfInput, SpoolFails, Flush, Empty, Scanning
  <2>2. UNCHANGED source
    BY Zenon DEF Start, PollRefill, Refill, RefillFails, ScanStep, SkipSpace, ScanObject,
       ScanNumber, Separator, LineFeed, EndOfInput, SpoolFails, Flush, Reject, Take, Move
  <2>3. at \in Before
    BY <2>1 DEF Before
  <2> QED BY <2>2, <2>3, States
<1>2. ASSUME NEW a \in Before, at' = a, UNCHANGED <<records, result, decisions>> PROVE TruthInv'
  BY <1>1, <1>2, BeforeTruth, Zenon
<1>3. CASE Reject
  BY <1>1, <1>3, RejectTruth, Zenon
<1>4. ASSUME NEW st \in {"INVALID_ARGUMENT", "UNSUPPORTED", "OK", "IO_ERROR", "STOP", "JSON_ERROR"},
             Fail(st), st = "STOP" => "reader" \in caller.failures
      PROVE  TruthInv'
  <2>1. st \in Status
    BY DEF Status
  <2>2. st = "STOP" => caller.failures \cap {"reader", "writer"} # {}
    BY <1>4, Zenon
  <2> QED BY <1>1, <1>4, <2>1, <2>2, FailTruth, Zenon DEF Fail
<1>5. ASSUME cancel, cancel' = cancel, Finish("STOP", result, FALSE, TRUE) PROVE TruthInv'
  BY <1>1, <1>5, CancelTruth, Zenon
<1>6. ASSUME NEW a \in Before, Take(a) \/ Move(a) PROVE TruthInv'
  <2>1. at' = a /\ UNCHANGED <<records, result, decisions>>
    BY <1>6, Zenon DEF Take, Move, logs
  <2> QED BY <1>2, <2>1, Zenon
<1>7. CASE Start
  BY <1>1, <1>2, <1>4, <1>7, Zenon DEF Start, logs
<1>8. CASE PollRefill
  BY <1>1, <1>2, <1>5, <1>8, Zenon DEF PollRefill, logs
<1>9. CASE Refill
  BY <1>1, <1>2, <1>9, Zenon DEF Refill, logs
<1>10. CASE RefillFails
  <2>1. PICK st \in {"IO_ERROR", "STOP", "JSON_ERROR"} : Fail(st)
    BY <1>10, Zenon DEF RefillFails
  <2>2. "reader" \in caller.failures
    BY <1>10, Zenon DEF RefillFails
  <2> QED BY <1>4, <2>1, <2>2, Zenon
<1>11. CASE \E c \in Byte : ScanStep(c)
  BY <1>1, <1>3, <1>6, <1>11, Zenon
     DEF ScanStep, SkipSpace, ScanObject, ScanNumber, Separator, LineFeed
<1>12. CASE EndOfInput
  BY <1>1, <1>3, <1>4, <1>6, <1>12, Zenon DEF EndOfInput
<1>13. CASE SpoolFails
  BY <1>4, <1>13, Zenon DEF SpoolFails
<1>14. CASE Flush
  BY <1>1, <1>2, <1>5, <1>14, Zenon DEF Flush, logs
<1> QED BY <1>7, <1>8, <1>9, <1>10, <1>11, <1>12, <1>13, <1>14

(* The first record that can reach a limit is the one decided. *)
LEMMA DecisionTruth ==
    ASSUME BasicInv, BasicInv', FollowInv', TruthInv, Decision PROVE TruthInv'
<1>1. /\ at = "decision" /\ UNCHANGED <<source, scan, rec>>
      /\ decisions' = Append(decisions, Matched)
      /\ result'.records_seen = result.records_seen + 1
      /\ result'.records_matched = (IF Matched THEN result.records_matched + 1
                                               ELSE result.records_matched)
  BY DecisionFacts, Zenon
<1>2. PICK m \in Nat : m = req.max_records
  BY LimitTypes, Zenon
<1>3. PICK k \in Nat : k = req.max_matches
  BY LimitTypes, Zenon
<1>4. PICK n \in Nat : n = result.records_seen
  BY LimitTypes, Zenon
<1>5. PICK q \in Nat : q = result.records_matched
  BY LimitTypes, Zenon
<1>6. at \in Before
  BY <1>1, States
<1>7. Len(decisions) = n /\ records = n
  BY <1>4, <1>6, Zenon DEF BasicInv, CountInv
<1>8. (m # 0 => n < m) /\ (k # 0 => q < k)
  BY <1>2, <1>3, <1>5, <1>6, <1>7, Zenon DEF TruthInv, BoundInv, RecordBound, MatchBound
<1>9. req' = req /\ input' = input /\ (Matched' <=> Matched)
  BY <1>1, Zenon DEF source, Matched
<1>10. PICK j \in Nat : j = result'.records_matched
  <2>1. result'.records_matched = IF Matched THEN q + 1 ELSE q
    BY <1>1, <1>5, Zenon
  <2>2. (IF Matched THEN q + 1 ELSE q) \in Nat
    OBVIOUS
  <2> QED BY <2>1, <2>2, Zenon
<1>11. (k # 0 => j <= k) /\ (k # 0 /\ ~Matched => j < k)
  <2>1. j = IF Matched THEN q + 1 ELSE q
    BY <1>1, <1>5, <1>10, Zenon
  <2> QED BY <1>8, <2>1
<1>12. m # 0 => n + 1 <= m
  BY <1>8
<1>13. CountTruth'
  BY <1>1, <1>2, <1>3, <1>4, <1>9, <1>10, <1>11, <1>12, Zenon DEF CountTruth
<1>14. CASE at' = "done"
  <2>1. /\ result'.stop_reason \in {"NONE", "CALLBACK"}
        /\ result'.stopped_early <=> result'.stop_reason # "NONE"
        /\ result'.stopped_early => status' = "OK"
        /\ status' # "STOP"
    BY <1>14, DecisionFacts, Zenon
  <2> QED BY <1>13, <1>14, <2>1, PlainEnd, Zenon
<1>15. CASE at' = "value" /\ records' = records
  <2>1. at' \in After /\ at' \notin Before /\ at' # "next" /\ at' # "done"
    BY <1>15, States DEF After
  <2>2. RecordBound' /\ MatchBound'
    BY <1>2, <1>3, <1>7, <1>8, <1>9, <1>10, <1>11, <1>15, <2>1, Zenon DEF RecordBound, MatchBound
  <2>3. ByteBound'
    <3>1. Len(decisions') = n + 1 /\ (n + 1) - 1 = n
      <4>1. decisions \in Seq(BOOLEAN)
        BY DEF BasicInv, TypeOK
      <4> QED BY <1>1, <1>7, <4>1, MatchedBoolean
    <3>2. n + 1 > 1 => n > 0
      OBVIOUS
    <3>3. req.max_bytes # 0 /\ n > 0 => Reference(input).recs[n].next < req.max_bytes
      BY <1>6, <1>7, Zenon DEF TruthInv, BoundInv, ByteBound
    <3> QED BY <1>9, <2>1, <3>1, <3>2, <3>3, Zenon DEF ByteBound
  <2>4. BoundInv'
    BY <2>1, <2>2, <2>3 DEF BoundInv
  <2> QED BY <2>1, <2>4, GoOnTruth
<1> QED BY <1>14, <1>15, DecisionFacts, Zenon

LEMMA ValueTruth ==
    ASSUME BasicInv, BasicInv', TruthInv, Value PROVE TruthInv'
<1>1. /\ at = "value" /\ UNCHANGED <<source, rec, decisions>>
      /\ result'.records_seen = result.records_seen
      /\ result'.records_matched = result.records_matched
  BY ValueFacts, Zenon
<1>2. at \in After /\ at # "done" /\ "output" \in After
  BY <1>1 DEF After
<1>3. CASE at' = "output" /\ UNCHANGED <<result, records>>
  BY <1>1, <1>2, <1>3, AfterTruth, Zenon
<1>4. CASE at' = "done"
  <2>1. /\ result'.stop_reason \in {"NONE", "CALLBACK"}
        /\ result'.stopped_early <=> result'.stop_reason # "NONE"
        /\ result'.stopped_early => status' = "OK"
        /\ status' # "STOP"
    BY <1>4, ValueFacts, Zenon
  <2>2. CountTruth
    BY <1>2, RunTruth, Zenon DEF TruthInv
  <2>3. CountTruth'
    BY <1>1, <2>2, CountsKeep, Zenon
  <2> QED BY <1>4, <2>1, <2>3, PlainEnd, Zenon
<1> QED BY <1>3, <1>4, ValueFacts, Zenon

LEMMA OutputTruth ==
    ASSUME BasicInv, BasicInv', TruthInv, Output \/ Newline \/ WriterFails PROVE TruthInv'
<1>1. /\ at \in {"output", "newline"} /\ UNCHANGED <<source, rec, decisions>>
  BY Zenon DEF Output, Newline, WriterFails
<1>2. at \in After /\ at # "done" /\ "matches" \in After /\ "newline" \in After
  BY <1>1 DEF After
<1>3. ASSUME NEW a \in After, at' = a, UNCHANGED <<records, result>> PROVE TruthInv'
  BY <1>1, <1>2, <1>3, AfterTruth, Zenon
<1>4. ASSUME NEW st \in {"JSON_ERROR", "UNSUPPORTED", "IO_ERROR", "STOP"}, Abort(st, result),
             st = "STOP" => "writer" \in caller.failures
      PROVE  TruthInv'
  <2>1. st \in Status
    BY DEF Status
  <2>2. st = "STOP" => caller.failures \cap {"reader", "writer"} # {}
    BY <1>4, Zenon
  <2> QED BY <1>1, <1>2, <1>4, <2>1, <2>2, FailTruth, Zenon DEF Abort
<1>5. CASE Output
  BY <1>2, <1>3, <1>4, <1>5, Zenon DEF Output
<1>6. CASE Newline
  BY <1>2, <1>3, <1>6, Zenon DEF Newline
<1>7. CASE WriterFails
  <2>1. PICK st \in {"IO_ERROR", "STOP"} : Abort(st, result)
    BY <1>7, Zenon DEF WriterFails
  <2>2. "writer" \in caller.failures
    BY <1>7, Zenon DEF WriterFails
  <2> QED BY <1>4, <2>1, <2>2, Zenon
<1> QED BY <1>5, <1>6, <1>7

(* The match limit is reached exactly, or the record leaves room. *)
LEMMA MatchTruth ==
    ASSUME BasicInv, BasicInv', FollowInv, TruthInv, MatchLimit PROVE TruthInv'
<1>1. at = "matches" /\ UNCHANGED <<source, decisions, rec>>
  BY Zenon DEF MatchLimit, logs
<1>2. at \in After /\ at # "done"
  BY <1>1 DEF After
<1>3. PICK k \in Nat : k = req.max_matches
  BY LimitTypes, Zenon
<1>4. PICK q \in Nat : q = result.records_matched
  BY LimitTypes, Zenon
<1>5. (k # 0 => q <= k) /\ (k # 0 /\ ~Matched => q < k)
  BY <1>2, <1>3, <1>4, Zenon DEF TruthInv, BoundInv, MatchBound
<1>6. req' = req /\ input' = input /\ caller' = caller
  BY <1>1, Zenon DEF source
<1>7. CASE ~(Matched /\ Limited(k, q)) /\ at' = "next" /\ records' = records + 1 /\ result' = result
  <2>1. at' \notin Before /\ at' \notin After /\ at' # "done"
    BY <1>7, States DEF After
  <2>2. k # 0 => q < k
    BY <1>5, <1>7 DEF Limited
  <2>3. MatchBound'
    BY <1>3, <1>4, <1>6, <1>7, <2>1, <2>2, Zenon DEF MatchBound
  <2>4. RecordBound'
    <3>1. PICK m \in Nat : m = req.max_records
      BY LimitTypes, Zenon
    <3>2. records \in Nat /\ (m # 0 => records < m)
      BY <1>2, <3>1, LimitTypes, Zenon DEF TruthInv, BoundInv, RecordBound
    <3>3. m # 0 => records' <= m
      BY <1>7, <3>2
    <3> QED BY <1>6, <2>1, <3>1, <3>3, Zenon DEF RecordBound
  <2>5. ByteBound'
    BY <1>1, <1>2, <1>6, <2>1, Zenon DEF TruthInv, BoundInv, ByteBound
  <2>6. Len(decisions') > 0
    BY <1>1, <1>2, Zenon DEF FollowInv, PlaceInv, Decided
  <2>7. BoundInv'
    BY <2>3, <2>4, <2>5, <2>6, Zenon DEF BoundInv
  <2> QED BY <2>1, <2>7, GoOnTruth, Zenon
<1>8. CASE /\ Matched /\ Limited(k, q)
           /\ Abort("STOP", [result EXCEPT !.stopped_early = TRUE, !.stop_reason = "MATCH_LIMIT"])
  <2>1. PICK res : res = [result EXCEPT !.stopped_early = TRUE, !.stop_reason = "MATCH_LIMIT"]
    OBVIOUS
  <2>2. Finish("STOP", res, FALSE, FALSE)
    BY <1>8, <2>1, Zenon DEF Abort
  <2>3. "MATCH_LIMIT" \in Reason /\ "STOP" \in Status /\ result \in Results
    BY SourceTypes DEF Reason, Status, BasicInv
  <2>4. /\ res \in Results /\ res.stopped_early = TRUE /\ res.stop_reason = "MATCH_LIMIT"
        /\ res.records_seen = result.records_seen /\ res.records_matched = result.records_matched
    BY <2>1, <2>3, Zenon DEF Results
  <2>5. StopReason("STOP", res, FALSE, FALSE) = "MATCH_LIMIT"
    BY <2>4, Zenon DEF StopReason
  <2>6. /\ at' = "done" /\ result'.records_seen = res.records_seen
        /\ result'.records_matched = res.records_matched
        /\ result'.stop_reason = StopReason("STOP", res, FALSE, FALSE)
        /\ result'.stopped_early = (result'.stop_reason # "NONE")
        /\ status' = IF "STOP" = "STOP" /\ result'.stop_reason # "NONE" THEN "OK" ELSE "STOP"
    BY <2>2, <2>3, <2>4, FinishFacts, Zenon
  <2>7. result'.stop_reason = "MATCH_LIMIT" /\ result'.stopped_early /\ status' = "OK"
    BY <2>5, <2>6, Zenon
  <2>8. q = k
    <3>1. k # 0 /\ q >= k
      BY <1>8, Zenon DEF Limited
    <3> QED BY <1>5, <3>1
  <2>9. CountTruth
    BY <1>2, RunTruth, Zenon DEF TruthInv
  <2>10. CountTruth'
    BY <1>1, <2>4, <2>6, <2>9, CountsKeep, Zenon
  <2>11. result'.records_matched = req'.max_matches
    BY <1>3, <1>4, <1>6, <2>4, <2>6, <2>8, Zenon
  <2>12. ReasonTruth'
    BY <2>7, <2>11, Zenon DEF ReasonTruth
  <2> QED BY <2>6, <2>10, <2>12, DoneBounds, Zenon DEF TruthInv
<1> QED BY <1>3, <1>4, <1>7, <1>8, Zenon DEF MatchLimit

LEMMA NextRecordTruth ==
    ASSUME BasicInv, BasicInv', FollowInv, TruthInv, NextRecord PROVE TruthInv'
<1>1. at = "next" /\ UNCHANGED <<source, decisions, records>>
  BY Zenon DEF NextRecord, logs
<1>2. at # "done" /\ input' = input /\ req' = req /\ caller' = caller
  BY <1>1, Zenon DEF source
<1>3. PICK m \in Nat : m = req.max_records
  BY LimitTypes, Zenon
<1>4. PICK y \in Nat : y = req.max_bytes
  BY LimitTypes, Zenon
<1>5. PICK n \in Nat : n = Len(decisions)
  BY LimitTypes, Zenon
<1>6. records = n /\ result.records_seen = n /\ n > 0
  BY <1>1, <1>5, Zenon DEF BasicInv, CountInv, TruthInv, BoundInv
<1>7. Reference(input).recs[n].next = pos
  BY <1>1, <1>5, <1>6, Zenon DEF FollowInv, PlaceInv, Chain
<1>8. (m # 0 => n <= m) /\ (y # 0 /\ n > 1 => Reference(input).recs[n - 1].next < y)
  BY <1>1, <1>3, <1>4, <1>5, <1>6, Zenon DEF TruthInv, BoundInv, RecordBound, ByteBound
<1>9. pos \in Nat /\ read \in Nat /\ pos <= read
  BY SourceTypes DEF BasicInv
<1>10. CASE /\ ~(Limited(y, pos) \/ Limited(m, n))
            /\ at' = "space" /\ UNCHANGED result
  <2>1. at' \in Before /\ at' \notin After /\ at' # "next" /\ at' # "done"
    BY <1>10, States DEF After
  <2>2. (m # 0 => n < m) /\ (y # 0 => pos < y)
    BY <1>9, <1>10 DEF Limited
  <2>3. RecordBound'
    BY <1>1, <1>2, <1>3, <1>6, <2>1, <2>2, Zenon DEF RecordBound
  <2>4. MatchBound'
    BY <1>1, <1>2, <1>10, <2>1, Zenon DEF TruthInv, BoundInv, MatchBound
  <2>5. ByteBound'
    BY <1>1, <1>2, <1>4, <1>5, <1>7, <2>1, <2>2, Zenon DEF ByteBound
  <2>6. BoundInv'
    BY <2>1, <2>3, <2>4, <2>5, Zenon DEF BoundInv
  <2> QED BY <2>1, <2>6, GoOnTruth, Zenon
<1>11. CASE (Limited(y, pos) \/ Limited(m, n)) /\ Finish("STOP", result, TRUE, FALSE)
  <2>1. "STOP" \in Status /\ result \in Results /\ FALSE \in BOOLEAN /\ TRUE \in BOOLEAN
    BY SourceTypes DEF Status, BasicInv
  <2>2. ~result.stopped_early
    BY <1>2 DEF BasicInv, RunInv
  <2>3. /\ Limited(m, n) => StopReason("STOP", result, TRUE, FALSE) = "RECORD_LIMIT"
        /\ ~Limited(m, n) /\ Limited(y, read) =>
              StopReason("STOP", result, TRUE, FALSE) = "BYTE_LIMIT"
    <3>1. Limited(req.max_records, result.records_seen) <=> Limited(m, n)
      BY <1>3, <1>6, Zenon
    <3>2. Limited(req.max_bytes, read) <=> Limited(y, read)
      BY <1>4, Zenon
    <3> QED BY <2>2, <3>1, <3>2 DEF StopReason
  <2>4. Limited(y, pos) => Limited(y, read)
    BY <1>9 DEF Limited
  <2>5. /\ at' = "done" /\ result'.records_seen = result.records_seen
        /\ result'.records_matched = result.records_matched
        /\ result'.stop_reason = StopReason("STOP", result, TRUE, FALSE)
        /\ result'.stopped_early = (result'.stop_reason # "NONE")
        /\ status' = IF "STOP" = "STOP" /\ result'.stop_reason # "NONE" THEN "OK" ELSE "STOP"
    BY <1>11, <2>1, FinishFacts, Zenon
  <2>6. \/ result'.stop_reason = "RECORD_LIMIT" /\ Limited(m, n)
        \/ result'.stop_reason = "BYTE_LIMIT" /\ Limited(y, pos)
    BY <1>11, <2>3, <2>4, <2>5, Zenon
  <2>7. result'.stopped_early /\ status' = "OK"
    BY <2>5, <2>6, Zenon
  <2>8. CountTruth
    BY <1>2, RunTruth, Zenon DEF TruthInv
  <2>9. CountTruth'
    BY <1>1, <2>5, <2>8, CountsKeep, Zenon
  <2>10. Limited(m, n) => n = m
    <3>1. Limited(m, n) => m # 0 /\ n >= m
      BY Zenon DEF Limited
    <3>2. m # 0 /\ n >= m => n = m
      <4>1. m # 0 => n <= m
        BY <1>8, Zenon
      <4> QED BY <4>1
    <3> QED BY <3>1, <3>2, Zenon
  <2>11. Limited(y, pos) => pos >= y /\ y # 0
    BY Zenon DEF Limited
  <2>12. result'.records_seen = n
    BY <1>6, <2>5, Zenon
  <2>13. ReasonTruth'
    <3>1. CASE result'.stop_reason = "RECORD_LIMIT" /\ Limited(m, n)
      <4>1. result'.records_seen = req'.max_records
        BY <1>2, <1>3, <2>10, <2>12, <3>1, Zenon
      <4> QED BY <2>7, <3>1, <4>1, Zenon DEF ReasonTruth
    <3>2. CASE result'.stop_reason = "BYTE_LIMIT" /\ Limited(y, pos)
      <4>1. Reference(input').recs[result'.records_seen].next >= req'.max_bytes
        BY <1>2, <1>4, <1>7, <2>11, <2>12, <3>2, Zenon
      <4>2. result'.records_seen > 1 =>
               Reference(input').recs[result'.records_seen - 1].next < req'.max_bytes
        BY <1>2, <1>4, <1>8, <2>11, <2>12, <3>2, Zenon
      <4> QED BY <2>7, <3>2, <4>1, <4>2, Zenon DEF ReasonTruth
    <3> QED BY <2>6, <3>1, <3>2
  <2> QED BY <2>5, <2>9, <2>13, DoneBounds, Zenon DEF TruthInv
<1> QED BY <1>3, <1>4, <1>6, <1>10, <1>11, Zenon DEF NextRecord

LEMMA NextTruth ==
    BasicInv /\ BasicInv' /\ FollowInv /\ FollowInv' /\ TruthInv /\ [Next]_vars => TruthInv'
<1> SUFFICES ASSUME BasicInv, BasicInv', FollowInv, FollowInv', TruthInv, [Next]_vars
             PROVE  TruthInv'
  OBVIOUS
<1>1. CASE CallStep
  <2>1. \/ Start \/ PollRefill \/ Refill \/ RefillFails \/ (\E c \in Byte : ScanStep(c))
        \/ EndOfInput \/ SpoolFails \/ Flush \/ Decision \/ Value
        \/ (Output \/ Newline \/ WriterFails) \/ MatchLimit \/ NextRecord
    BY <1>1, Zenon DEF CallStep, ScanStep
  <2> QED BY <2>1, ScanTruth, DecisionTruth, ValueTruth, OutputTruth, MatchTruth,
             NextRecordTruth, Zenon
<1>2. CASE Cancel
  <2>1. at # "done" /\ UNCHANGED <<input, req, at, rec, records, result, decisions>>
    BY <1>2, Zenon DEF Cancel, source, logs
  <2>2. BoundInv'
    BY <2>1, Zenon DEF TruthInv, BoundInv, RecordBound, MatchBound, ByteBound, Matched
  <2> QED BY <2>1, <2>2, GoOnTruth, Zenon
<1>3. CASE UNCHANGED vars
  <2>1. UNCHANGED <<input, req, caller, at, rec, records, result, decisions, status, cancel>>
    BY <1>3, Zenon DEF vars, source, stops, logs
  <2>2. BoundInv'
    BY <2>1, Zenon DEF TruthInv, BoundInv, RecordBound, MatchBound, ByteBound, Matched
  <2>3. (at = "done" => CountTruth /\ ReasonTruth)'
    BY <2>1, Zenon DEF TruthInv, CountTruth, ReasonTruth
  <2> QED BY <2>2, <2>3 DEF TruthInv
<1> QED BY <1>1, <1>2, <1>3, Zenon DEF Next, Done

LEMMA InitTruth == Init => TruthInv
<1> SUFFICES ASSUME Init PROVE TruthInv
  OBVIOUS
<1>1. at = "start" /\ records = 0 /\ result.records_matched = 0 /\ decisions = <<>>
  BY DEF Init
<1>2. at \notin After /\ at # "next" /\ at # "done"
  BY <1>1 DEF After
<1>3. Len(decisions) = 0
  BY <1>1
<1>4. PICK m \in Nat : m = req.max_records
  BY InitBasic, LimitTypes, Zenon
<1>5. PICK k \in Nat : k = req.max_matches
  BY InitBasic, LimitTypes, Zenon
<1>6. (m # 0 => 0 < m) /\ (k # 0 => 0 < k) /\ ~(0 > 0)
  OBVIOUS
<1>7. RecordBound /\ MatchBound
  BY <1>1, <1>2, <1>4, <1>5, <1>6, Zenon DEF RecordBound, MatchBound
<1>8. ByteBound
  BY <1>2, <1>3, <1>6, Zenon DEF ByteBound
<1> QED BY <1>2, <1>7, <1>8, Zenon DEF TruthInv, BoundInv

LEMMA TruthInvariant == Spec => []TruthInv
  BY InitTruth, NextTruth, BasicInvariant, FollowInvariant, PTL DEF Spec

(* Whatever combination of limits a request sets and however the call ends,  *)
(* the result tells the truth: the limits are never exceeded, stopped_early  *)
(* is set exactly by a successful stop, its reason holds, the byte limit     *)
(* stops at the first record that reaches it, and a bare STOP comes from     *)
(* the caller's own reader or writer.                                        *)
THEOREM StopsTellTheTruth == Spec => []StopsAreTruthful
<1>1. BasicInv /\ TruthInv => StopsAreTruthful
  <2> SUFFICES ASSUME BasicInv, TruthInv PROVE StopsAreTruthful
    OBVIOUS
  <2>1. CountTruth /\ ReasonTruth
    BY RunTruth, Zenon DEF TruthInv
  <2>2. result.stop_reason \in Reason
    BY SourceTypes, ResultFields DEF BasicInv
  <2>3. ASSUME NEW A, NEW B, NEW C, NEW D, NEW x \in Reason,
               x = "RECORD_LIMIT" => A, x = "MATCH_LIMIT" => B,
               x = "BYTE_LIMIT" => C, x = "CANCELLED" => D
        PROVE  CASE x = "RECORD_LIMIT" -> A [] x = "MATCH_LIMIT" -> B
                 [] x = "BYTE_LIMIT" -> C [] x = "CANCELLED" -> D [] OTHER -> TRUE
    BY <2>3 DEF Reason
  <2> QED BY <2>1, <2>2, <2>3, Zenon DEF CountTruth, ReasonTruth, StopsAreTruthful
<1> QED BY <1>1, BasicInvariant, TruthInvariant, PTL

(* A step that calls the reader is a refill, with nothing left in the buffer. *)
LEMMA ReaderFacts ==
    ASSUME BasicInv, [Next]_vars, ReaderCalled
    PROVE  at \in Scanning /\ pos = read /\ ~eof
<1>1. CASE Refill
  BY <1>1, Zenon DEF Refill, Empty
<1>2. CASE ~Refill
  <2>1. CASE CallStep
    <3>1. UNCHANGED <<read, eof>>
      BY <1>2, <2>1, Zenon
         DEF CallStep, Start, PollRefill, RefillFails, SkipSpace, ScanObject, ScanNumber, Separator,
             LineFeed, EndOfInput, SpoolFails, Flush, Decision, Value, Output, Newline, WriterFails,
             MatchLimit, NextRecord, Take, Move, Reject, scan
    <3> QED BY <3>1 DEF ReaderCalled
  <2>2. CASE Cancel \/ UNCHANGED vars
    BY <2>2 DEF Cancel, vars, scan, ReaderCalled
  <2> QED BY <2>1, <2>2, Zenon DEF Next, Done
<1> QED BY <1>1, <1>2

(* No refill is asked for once a limit is reached: the stream can be left    *)
(* where the last record ended (the comment in the scan loop: "Public stream *)
(* limits must stop before any refill").                                     *)
THEOREM LimitsStopBeforeRefill == Spec => NoReadAfterLimit
<1>1. BasicInv /\ FollowInv /\ TruthInv /\ [Next]_vars =>
        [ReaderCalled =>
           /\ ~Limited(req.max_records, records)
           /\ ~Limited(req.max_matches, result.records_matched)
           /\ records > 0 => ~Limited(req.max_bytes, Reference(input).recs[records].next)]_vars
  <2> SUFFICES ASSUME BasicInv, FollowInv, TruthInv, [Next]_vars, ReaderCalled
               PROVE  /\ ~Limited(req.max_records, records)
                      /\ ~Limited(req.max_matches, result.records_matched)
                      /\ records > 0 =>
                           ~Limited(req.max_bytes, Reference(input).recs[records].next)
    BY Zenon
  <2>1. at \in Before
    BY ReaderFacts, Zenon DEF Before
  <2>2. records = Len(decisions)
    BY <2>1, States, Zenon DEF BasicInv, CountInv
  <2>3. PICK m \in Nat : m = req.max_records
    BY LimitTypes, Zenon
  <2>4. PICK k \in Nat : k = req.max_matches
    BY LimitTypes, Zenon
  <2>5. PICK y \in Nat : y = req.max_bytes
    BY LimitTypes, Zenon
  <2>6. PICK n \in Nat : n = Len(decisions)
    BY LimitTypes, Zenon
  <2>7. PICK h \in Nat : h = result.records_matched
    BY SourceTypes, ResultFields DEF BasicInv
  <2>8. PICK b \in 0 .. Len(input) : Chain(input, n, b)
    BY <2>1, <2>6, Zenon DEF FollowInv, PlaceInv
  <2>9. n > 0 => Reference(input).recs[n].next = b
    BY <2>8, Zenon DEF Chain
  <2>10. m # 0 => n < m
    BY <2>1, <2>2, <2>3, <2>6, Zenon DEF TruthInv, BoundInv, RecordBound
  <2>11. k # 0 => h < k
    BY <2>1, <2>4, <2>7, Zenon DEF TruthInv, BoundInv, MatchBound
  <2>12. y # 0 /\ n > 0 => b < y
    BY <2>1, <2>5, <2>6, <2>9, Zenon DEF TruthInv, BoundInv, ByteBound
  <2>13. ~Limited(m, n) /\ ~Limited(k, h) /\ (n > 0 => ~Limited(y, b))
    <3>1. Len(input) \in Nat
      BY SourceTypes DEF BasicInv
    <3> QED BY <2>10, <2>11, <2>12, <3>1 DEF Limited
  <2> QED BY <2>2, <2>3, <2>4, <2>5, <2>6, <2>7, <2>9, <2>13, Zenon
<1> QED BY <1>1, BasicInvariant, FollowInvariant, TruthInvariant, PTL DEF Spec, NoReadAfterLimit

-----------------------------------------------------------------------------
(* Complete records before the reader *)

(* Each record ends after the one before it. *)
LEMMA NextsGrow ==
    ASSUME NEW s \in Seq(Byte)
    PROVE  \A p \in 0 .. Len(s) : \A j \in 1 .. Len(RecordsFrom(s)[p].recs) :
              RecordsFrom(s)[p].recs[j].next \in (p + 1) .. Len(s)
<1> DEFINE L == Len(s)
           Grow(p) == \A j \in 1 .. Len(RecordsFrom(s)[p].recs) :
                         RecordsFrom(s)[p].recs[j].next \in (p + 1) .. L
           T == {k \in 0 .. L : \A p \in (L - k) .. L : Grow(p)}
<1>0. L \in Nat
  OBVIOUS
<1>1. ASSUME NEW p \in 0 .. L, \A i \in (p + 1) .. L : Grow(i) PROVE Grow(p)
  <2>1. CASE Starts(s, p) # {} /\ Readable(s, FirstStart(s, p))
    <3>1. PICK r : r = RecordAt(s, FirstStart(s, p))
      OBVIOUS
    <3>2. PICK m \in (p + 1) .. L : m = r.next
      BY <2>1, <3>1, NextFacts, Zenon
    <3>3. PICK f : f = RecordsFrom(s)[p].recs
      OBVIOUS
    <3>4. PICK g : g = RecordsFrom(s)[m].recs
      OBVIOUS
    <3>5. /\ Len(f) = Len(g) + 1 /\ f[1] = r /\ Len(g) \in Nat
          /\ \A i \in 1 .. Len(g) : f[i + 1] = g[i]
      <4>1. LET F == RecordsFrom(s)[p]
                G == RecordsFrom(s)[r.next]
            IN  /\ Len(F.recs) = Len(G.recs) + 1 /\ F.recs[1] = r /\ Len(G.recs) \in Nat
                /\ \A i \in 1 .. Len(G.recs) : F.recs[i + 1] = G.recs[i]
        <5>1. p \in 0 .. Len(s)
          OBVIOUS
        <5> HIDE DEF L, Grow, T
        <5> QED BY <2>1, <3>1, <5>1, FromNext
      <4> QED BY <3>2, <3>3, <3>4, <4>1, Zenon
    <3>6. \A i \in 1 .. Len(g) : g[i].next \in (m + 1) .. L
      BY <1>1, <3>4, Zenon
    <3>7. ASSUME NEW j \in 1 .. Len(f) PROVE f[j].next \in (p + 1) .. L
      <4>1. CASE j = 1
        BY <3>2, <3>5, <4>1, Zenon
      <4>2. CASE j # 1
        <5>1. PICK i \in 1 .. Len(g) : j = i + 1
          <6>1. j - 1 \in 1 .. Len(g) /\ j = (j - 1) + 1
            BY <3>5, <4>2
          <6> QED BY <6>1, Zenon
        <5>2. f[j] = g[i] /\ g[i].next \in (m + 1) .. L
          BY <3>5, <3>6, <5>1, Zenon
        <5>3. (m + 1) .. L \subseteq (p + 1) .. L
          OBVIOUS
        <5> QED BY <5>2, <5>3, Zenon
      <4> QED BY <4>1, <4>2
    <3> QED BY <3>3, <3>7, Zenon
  <2>2. CASE ~(Starts(s, p) # {} /\ Readable(s, FirstStart(s, p)))
    <3>1. RecordsFrom(s)[p].recs = <<>>
      BY <2>2, RecordsFromFacts DEF FromStep
    <3>2. Len(RecordsFrom(s)[p].recs) = 0
      BY <3>1
    <3>3. 1 .. 0 = {}
      OBVIOUS
    <3> QED BY <3>2, <3>3, Zenon
  <2> QED BY <2>1, <2>2
<1> HIDE DEF Grow
<1>2. 0 \in T
  BY <1>0, <1>1
<1>3. ASSUME NEW k \in 1 .. L, k - 1 \in T PROVE k \in T
  <2>1. \A p \in (L - k + 1) .. L : Grow(p)
    BY <1>0, <1>3
  <2>2. Grow(L - k)
    BY <1>0, <1>1, <2>1
  <2> QED BY <1>0, <2>1, <2>2
<1>4. 0 .. L \subseteq T
  <2> HIDE DEF T
  <2> QED BY <1>0, <1>2, <1>3, IntervalInduction
<1>5. L \in T
  BY <1>0, <1>4
<1>6. \A p \in 0 .. L : Grow(p)
  BY <1>0, <1>5
<1> QED BY <1>6 DEF Grow

(* the value that starts after q bytes is not complete in the first p bytes *)
NotOver(s, q, p) ==
    /\ SeparatorEnd(s, ValueEnd(s, q)) >= p
    /\ SeparatorEnd(s, ValueEnd(s, q)) = p => s[p] # "n"

(* When the next value is not complete in the first p bytes, no later one is. *)
LEMMA LaterRecords ==
    ASSUME NEW s \in Seq(Byte), NEW n \in Nat, NEW b, Chain(s, n, b), NEW p \in 0 .. Len(s),
           Starts(s, b) # {} /\ Readable(s, FirstStart(s, b)) => NotOver(s, FirstStart(s, b), p),
           NEW i \in DOMAIN Reference(s).recs,
           Reference(s).recs[i].ended, Reference(s).recs[i].next <= p
    PROVE  i <= n
<1>1. Len(Reference(s).recs) \in Nat /\ i \in 1 .. Len(Reference(s).recs)
  <2>1. 0 \in 0 .. Len(s)
    OBVIOUS
  <2> QED BY <2>1, RefTypes DEF Reference
<1>2. CASE Starts(s, b) # {} /\ Readable(s, FirstStart(s, b))
  <2>1. PICK r : r = RecordAt(s, FirstStart(s, b))
    OBVIOUS
  <2>2. Chain(s, n + 1, r.next) /\ Reference(s).recs[n + 1] = r
    BY <1>2, <2>1, ChainNext, Zenon
  <2>3. PICK m \in 0 .. Len(s) : m = r.next
    BY <2>2, Zenon DEF Chain
  <2>4. m >= p /\ (m = p => s[p] # "n")
    BY <1>2, <2>1, <2>3, RecordAtFields, Zenon DEF NotOver
  <2>5. r.ended = (s[m] = "n")
    <3>1. \A q : RecordAt(s, q).ended = (s[RecordAt(s, q).next] = "n")
      BY RecordAtFields, Zenon
    <3> QED BY <2>1, <2>3, <3>1
  <2>6. i # n + 1
    <3> SUFFICES ASSUME i = n + 1 PROVE FALSE
      OBVIOUS
    <3>1. r.ended /\ m <= p
      BY <2>2, <2>3, Zenon
    <3>2. m = p
      BY <2>4, <3>1
    <3> QED BY <2>4, <2>5, <3>1, <3>2, Zenon
  <2>7. ~(i > n + 1)
    <3> SUFFICES ASSUME i > n + 1 PROVE FALSE
      OBVIOUS
    <3>1. PICK l \in Nat : l = Len(RecordsFrom(s)[m].recs)
      BY RefTypes, Zenon
    <3>2. /\ Len(Reference(s).recs) = (n + 1) + l
          /\ \A j \in 1 .. l : Reference(s).recs[(n + 1) + j] = RecordsFrom(s)[m].recs[j]
      BY <2>2, <2>3, <3>1, Zenon DEF Chain
    <3>3. PICK j \in 1 .. l : i = (n + 1) + j
      <4>1. i - (n + 1) \in 1 .. l /\ i = (n + 1) + (i - (n + 1))
        BY <1>1, <3>2
      <4> QED BY <4>1, Zenon
    <3>4. Reference(s).recs[i].next \in (m + 1) .. Len(s)
      BY <3>1, <3>2, <3>3, NextsGrow, Zenon
    <3> QED BY <2>4, <3>4
  <2> QED BY <1>1, <2>6, <2>7
<1>3. CASE Starts(s, b) = {}
  BY <1>1, <1>3, ChainEnd
<1>4. CASE Starts(s, b) # {} /\ ~Readable(s, FirstStart(s, b))
  BY <1>1, <1>4, ChainBad
<1> QED BY <1>2, <1>3, <1>4

(* Wherever the scanner is in a value or its separator, the record is not    *)
(* complete in what it has consumed.                                         *)
LEMMA BlankNotOver ==
    ASSUME NEW s \in Seq(Byte), NEW b \in 0 .. Len(s), NEW p \in 0 .. Len(s), b <= p,
           Blank(s, b, p), Starts(s, b) # {}, Readable(s, FirstStart(s, b))
    PROVE  NotOver(s, FirstStart(s, b), p)
<1>1. PICK q \in b .. (Len(s) - 1) : q = FirstStart(s, b) /\ s[q + 1] \notin Space
  BY FirstStartFacts
<1>2. ~(q < p)
  <2> SUFFICES ASSUME q < p PROVE FALSE
    OBVIOUS
  <2>1. q + 1 \in (b + 1) .. p
    OBVIOUS
  <2> QED BY <1>1, <2>1 DEF Blank
<1>3. PICK e \in (q + 1) .. Len(s) : e = ValueEnd(s, q)
  BY <1>1, ValueEndFacts DEF Readable
<1>4. SeparatorEnd(s, e) \in e .. (Len(s) + 1)
  BY SeparatorEndFacts
<1>5. SeparatorEnd(s, e) > p
  BY <1>2, <1>4
<1>6. SeparatorEnd(s, e) >= p /\ SeparatorEnd(s, e) # p
  BY <1>4, <1>5
<1> QED BY <1>1, <1>3, <1>6, Zenon DEF NotOver

LEMMA ObjectNotOver ==
    ASSUME NEW s \in Seq(Byte), NEW p \in 0 .. Len(s), NEW t \in Nat, t < p, NEW h,
           s[t + 1] = Open, InObject(s, t, h, p), Readable(s, t)
    PROVE  NotOver(s, t, p)
<1>1. t \in 0 .. Len(s)
  OBVIOUS
<1>2. PICK e \in (t + 1) .. Len(s) : e = ValueEnd(s, t) /\ EndsAt(s, t, e)
  BY <1>1, ValueEndFacts DEF Readable
<1>3. s[e] = Close
  <2>1. t + 1 \in (t + 1) .. e
    OBVIOUS
  <2> QED BY <1>2, <2>1, Braces DEF EndsAt
<1>4. \A i \in (t + 2) .. p : s[i] \in Space \cup {"m"}
  BY Zenon DEF InObject
<1>5. e # t + 1 /\ e \notin (t + 2) .. p
  BY <1>3, <1>4, Braces
<1>6. e > p
  BY <1>5
<1>7. SeparatorEnd(s, e) \in e .. (Len(s) + 1)
  BY SeparatorEndFacts
<1>8. SeparatorEnd(s, e) >= p /\ SeparatorEnd(s, e) # p
  BY <1>6, <1>7
<1> QED BY <1>2, <1>8, Zenon DEF NotOver

LEMMA NumberNotOver ==
    ASSUME NEW s \in Seq(Byte), NEW p \in 0 .. Len(s), NEW t \in Nat, t < p,
           InNumber(s, t, p), Readable(s, t)
    PROVE  NotOver(s, t, p)
<1>1. t \in 0 .. Len(s) /\ t + 1 \in (t + 1) .. p /\ p \in (t + 1) .. p
  OBVIOUS
<1>2. PICK e \in (t + 1) .. Len(s) : e = ValueEnd(s, t) /\ EndsAt(s, t, e)
  BY <1>1, ValueEndFacts DEF Readable
<1>3. s[t + 1] = "d" /\ s[p] = "d" /\ \A i \in (t + 1) .. p : s[i] = "d"
  BY <1>1 DEF InNumber
<1>4. e = Len(s) \/ s[e + 1] # "d"
  BY <1>2, <1>3, Braces DEF EndsAt
<1>5. ~(e < p)
  <2> SUFFICES ASSUME e < p PROVE FALSE
    OBVIOUS
  <2>1. e + 1 \in (t + 1) .. p /\ e # Len(s)
    OBVIOUS
  <2> QED BY <1>3, <1>4, <2>1
<1>6. SeparatorEnd(s, e) \in e .. (Len(s) + 1)
  BY SeparatorEndFacts
<1>7. SeparatorEnd(s, e) >= p /\ s[p] # "n"
  BY <1>3, <1>5, <1>6
<1> QED BY <1>2, <1>7, Zenon DEF NotOver

LEMMA SeparatorNotOver ==
    ASSUME NEW s \in Seq(Byte), NEW p \in 0 .. Len(s), NEW t \in Nat, NEW e \in Nat, NEW h,
           Ended(s, t, h, e, p), Blanks(s, e, p)
    PROVE  NotOver(s, t, p)
<1>1. t < e /\ e <= p /\ EndsAt(s, t, e)
  BY Zenon DEF Ended
<1>2. e \in 0 .. Len(s) /\ t \in 0 .. Len(s) /\ e \in (t + 1) .. Len(s)
  BY <1>1
<1>3. ValueEnd(s, t) = e
  BY <1>1, <1>2, ValueEndIs
<1>4. PICK k \in e .. Len(s) : BlankTo(s, e, k)
  BY <1>2, SomeBlank
<1>5. ~(k < p)
  <2> SUFFICES ASSUME k < p PROVE FALSE
    OBVIOUS
  <2>1. k + 1 \in (e + 1) .. p /\ k # Len(s)
    BY <1>2
  <2> QED BY <1>4, <2>1 DEF BlankTo, Blanks
<1>6. SeparatorEnd(s, e) >= k
  BY <1>2, <1>4, SeparatorEndIs
<1>7. s[p] # "n"
  <2>1. CASE e < p
    <3>1. p \in (e + 1) .. p
      BY <1>2, <2>1
    <3> QED BY <3>1 DEF Blanks
  <2>2. CASE e = p
    <3>1. e \in (t + 1) .. e
      BY <1>2
    <3>2. s[e] = "d" \/ s[e] = Close
      BY <1>1, <3>1, Zenon DEF EndsAt
    <3>3. Close # "n"
      BY Zenon DEF Close
    <3> QED BY <2>2, <3>2, <3>3
  <2> QED BY <1>1, <1>2, <2>1, <2>2
<1>8. SeparatorEnd(s, e) >= p
  <2>1. SeparatorEnd(s, e) \in Nat
    BY <1>2, SeparatorEndFacts
  <2> QED BY <1>2, <1>5, <1>6, <2>1
<1> QED BY <1>3, <1>7, <1>8, Zenon DEF NotOver

LEMMA LineFeedNotOver ==
    ASSUME NEW s \in Seq(Byte), NEW p \in 0 .. Len(s), NEW t \in Nat, NEW e \in Nat, NEW h,
           Ended(s, t, h, e, p), e < p, s[p] = "r", Blanks(s, e, p - 1)
    PROVE  NotOver(s, t, p)
<1>1. t < e /\ e <= p /\ EndsAt(s, t, e)
  BY Zenon DEF Ended
<1>2. t \in 0 .. Len(s) /\ e \in (t + 1) .. Len(s) /\ p \in 1 .. Len(s) /\ e \in 0 .. (p - 1)
  BY <1>1
<1>3. ValueEnd(s, t) = e
  BY <1>1, <1>2, ValueEndIs
<1>4. SeparatorEnd(s, e) = p + 1 \/ SeparatorEnd(s, e) = Len(s) + 1
  BY <1>2, LineFeedEnds
<1>5. SeparatorEnd(s, e) >= p /\ s[p] # "n"
  BY <1>2, <1>4
<1> QED BY <1>3, <1>5, Zenon DEF NotOver

(* The reader is called only when every record whose line feed has arrived   *)
(* is dispatched: with an interactive reader no complete record waits for    *)
(* input that may never come.  The look for CR LF after a value (the states  *)
(* separator and line_feed of the scan) is where it could go wrong.          *)
THEOREM CompleteRecordsAreDispatched == Spec => CompleteRecordsFirst
<1>1. BasicInv /\ FollowInv /\ [Next]_vars =>
        [ReaderCalled =>
           LET recs == Reference(input).recs
           IN  \A i \in DOMAIN recs : recs[i].ended /\ recs[i].next <= read => i <= records]_vars
  <2> SUFFICES ASSUME BasicInv, FollowInv, [Next]_vars, ReaderCalled,
                      NEW i \in DOMAIN Reference(input).recs,
                      Reference(input).recs[i].ended, Reference(input).recs[i].next <= read
               PROVE  i <= records
    BY Zenon
  <2>1. at \in Scanning /\ pos = read
    BY ReaderFacts, Zenon
  <2>2. at \in Before
    BY <2>1, Zenon DEF Before
  <2>3. records = Len(decisions) /\ Len(decisions) \in Nat
    BY <2>2, LimitTypes, Zenon DEF BasicInv, CountInv
  <2>4. PICK b \in 0 .. Len(input) : Chain(input, Len(decisions), b) /\ Place(input, b, at, rec, pos)
    BY <2>2, Zenon DEF FollowInv, PlaceInv
  <2>5. input \in Seq(Byte) /\ pos \in 0 .. Len(input)
    BY SourceTypes DEF BasicInv
  <2>6. rec \in Rec
    BY Zenon DEF BasicInv, TypeOK
  <2>7. PICK t \in Nat : t = rec.start
    BY <2>6, RecFields, Zenon
  <2>8. PICK e \in Nat : e = rec.end
    BY <2>6, RecFields, Zenon
  <2>9. PICK o \in BOOLEAN : o = rec.object
    BY <2>6, RecFields, Zenon
  <2>10. PICK h \in BOOLEAN : h = rec.hit
    BY <2>6, RecFields, Zenon
  <2>11. ASSUME Starts(input, b) # {}, Readable(input, FirstStart(input, b))
         PROVE  NotOver(input, FirstStart(input, b), pos)
    <3>1. CASE at = "space"
      <4>1. b <= pos /\ Blank(input, b, pos)
        BY <2>4, <3>1, PlaceHas, Zenon
      <4> QED BY <2>5, <2>11, <4>1, BlankNotOver, Zenon
    <3>2. CASE at # "space"
      <4>1. Begun(input, b, t, o, pos)
        <5>1. at \notin {"start", "space"}
          BY <2>1, <3>2, Zenon DEF Scanning
        <5> QED BY <2>4, <2>7, <2>9, <5>1, Zenon DEF Place
      <4>2. FirstStart(input, b) = t
        BY <2>5, <4>1, BegunFirst, Zenon
      <4>3. t < pos /\ input[t + 1] = IF o THEN Open ELSE "d"
        BY <4>1, Zenon DEF Begun
      <4>4. Readable(input, t)
        BY <2>11, <4>2, Zenon
      <4>5. CASE at = "object"
        <5>1. o /\ InObject(input, t, h, pos)
          BY <2>4, <2>7, <2>9, <2>10, <4>5, PlaceHas, Zenon
        <5>2. input[t + 1] = Open
          BY <4>3, <5>1, Zenon
        <5> QED BY <2>5, <4>2, <4>3, <4>4, <5>1, <5>2, ObjectNotOver, Zenon
      <4>6. CASE at = "number"
        <5>1. InNumber(input, t, pos)
          BY <2>4, <2>7, <4>6, PlaceHas, Zenon
        <5> QED BY <2>5, <4>2, <4>3, <4>4, <5>1, NumberNotOver, Zenon
      <4>7. CASE at = "separator"
        <5>1. Ended(input, t, h, e, pos) /\ Blanks(input, e, pos)
          BY <2>4, <2>7, <2>8, <2>10, <4>7, PlaceHas, Zenon
        <5> QED BY <2>5, <4>2, <5>1, SeparatorNotOver, Zenon
      <4>8. CASE at = "line_feed"
        <5>1. /\ Ended(input, t, h, e, pos) /\ e < pos /\ input[pos] = "r"
              /\ Blanks(input, e, pos - 1)
          BY <2>4, <2>7, <2>8, <2>10, <4>8, PlaceHas, Zenon
        <5> QED BY <2>5, <4>2, <5>1, LineFeedNotOver, Zenon
      <4> QED BY <2>1, <3>2, <4>5, <4>6, <4>7, <4>8, Zenon DEF Scanning
    <3> QED BY <3>1, <3>2
  <2>12. Reference(input).recs[i].next <= pos
    BY <2>1, Zenon
  <2>13. i <= Len(decisions)
    BY <2>3, <2>4, <2>5, <2>11, <2>12, LaterRecords, Zenon
  <2> QED BY <2>3, <2>13, Zenon
<1> QED BY <1>1, BasicInvariant, FollowInvariant, PTL DEF Spec, CompleteRecordsFirst
=============================================================================
