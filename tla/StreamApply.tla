---------------------------- MODULE StreamApply ----------------------------
(***************************************************************************)
(* One call of lql_stream_apply or lql_stream_apply_spooled: the pull      *)
(* scanner over a reader that delivers the input in pieces of any size     *)
(* (src/lql_json_scan.c), the dispatch of every record to the callbacks    *)
(* and the writer, and the translation of the ways to stop into the result *)
(* (src/lql_stream_flat_eq.c, src/lql_stream.c).                           *)
(*                                                                         *)
(* A byte is one of eight symbols: "{" "}" "[", "m" for a member of an     *)
(* object with its comma, "d" for a digit, "s" for a space or a tab, "r"   *)
(* and "n" for carriage return and line feed.  The selector, when there is *)
(* one, matches the objects with a member; the projection finds something  *)
(* in the same objects.                                                    *)
(***************************************************************************)
EXTENDS Integers, FiniteSets, Sequences, SequencesExt

CONSTANTS
    Calls,      \* what the reader delivers, the request and its caller
    Capacity    \* LQL_JSON_READ_BUFFER_SIZE

Byte == {"{", "}", "[", "m", "d", "s", "r", "n"}

Space == {"s", "r", "n"}

Mode == {"decision", "selected", "projection", "mutation", "projection_then_mutation"}

Request ==
    [allow_spool : BOOLEAN, output_mode : Mode, matched_only : BOOLEAN,
     selector : BOOLEAN, on_value : BOOLEAN, complete : BOOLEAN,
     range_writer : BOOLEAN, input_is_compact : BOOLEAN,
     max_records : Nat, max_matches : Nat, max_bytes : Nat]

(* what the callbacks may return, the calls that may fail, and whether the   *)
(* cancelled predicate may turn true                                         *)
Caller ==
    [answers : SUBSET {"continue", "stop", "error"},
     failures : SUBSET {"reader", "spool", "writer"}, cancels : BOOLEAN]

ASSUME StreamAssumption ==
    /\ Calls \subseteq [input : Seq(Byte), req : Request, caller : Caller]
    /\ Capacity \in Nat \ {0}

VARIABLES
    input,      \* the bytes behind the reader
    req,        \* lql_stream_request
    caller,     \* what the caller does
    at,         \* where the call is
    read,       \* scan->bytes_read
    pos,        \* lql_json_consumed: read less the rest of the buffer
    eof,        \* scan->eof
    polled,     \* the refill has asked cancelled and is about to read
    rec,        \* the record being scanned or dispatched
    spool,      \* the compact copy of the record, when one is kept
    records,    \* records dispatched by the scanner
    result,     \* lql_stream_result, without bytes_consumed, which is read
    limit_stop, cancelled,  \* why the scanner returned STOP
    status,     \* what the call returned
    cancel,     \* the caller's cancelled predicate
    decisions,  \* history: matched, for each call of on_decision
    values,     \* history: the text given to each call of on_value
    out,        \* history: what the writer accepted
    late        \* history: readers and decisions called since cancel

source == <<input, req, caller>>
scan   == <<read, pos, eof, polled>>
logs   == <<decisions, values, out>>
stops  == <<limit_stop, cancelled, status>>
vars   == <<source, at, scan, rec, spool, records, result, stops, cancel, logs, late>>

Rec == [start : Nat, end : Nat, object : BOOLEAN, hit : BOOLEAN, compact : BOOLEAN]

NoRec == [start |-> 0, end |-> 0, object |-> FALSE, hit |-> FALSE, compact |-> TRUE]

Reason == {"NONE", "CALLBACK", "RECORD_LIMIT", "MATCH_LIMIT", "BYTE_LIMIT", "CANCELLED"}

Status == {"OK", "STOP", "JSON_ERROR", "IO_ERROR", "CALLBACK_ERROR", "UNSUPPORTED",
           "INVALID_ARGUMENT"}

Scanning == {"space", "object", "number", "separator", "line_feed"}

TypeOK ==
    /\ [input |-> input, req |-> req, caller |-> caller] \in Calls
    /\ at \in Scanning \cup {"start", "flush", "decision", "value",
                             "output", "newline", "matches", "next", "done"}
    /\ read \in 0 .. Len(input) /\ pos \in 0 .. read /\ eof \in BOOLEAN
    /\ polled \in BOOLEAN
    /\ rec \in Rec /\ spool \in Seq(Byte) /\ records \in Nat
    /\ result \in [records_seen : Nat, records_matched : Nat,
                   stopped_early : BOOLEAN, stop_reason : Reason]
    /\ limit_stop \in BOOLEAN /\ cancelled \in BOOLEAN
    /\ status \in Status \cup {"running"}
    /\ cancel \in BOOLEAN /\ late \in Nat
    /\ decisions \in Seq(BOOLEAN) /\ values \in Seq(Seq(Byte))

Init ==
    /\ \E call \in Calls : input = call.input /\ req = call.req /\ caller = call.caller
    /\ at = "start"
    /\ read = 0 /\ pos = 0 /\ eof = FALSE
    /\ polled = FALSE
    /\ rec = NoRec /\ spool = <<>> /\ records = 0
    /\ result = [records_seen |-> 0, records_matched |-> 0,
                 stopped_early |-> FALSE, stop_reason |-> "NONE"]
    /\ limit_stop = FALSE /\ cancelled = FALSE /\ status = "running"
    /\ cancel = FALSE /\ late = 0
    /\ decisions = <<>> /\ values = <<>> /\ out = <<>>

-----------------------------------------------------------------------------
(* What the request asks for *)

Transforms == {"projection", "mutation", "projection_then_mutation"}

Limited(limit, amount) == limit # 0 /\ amount >= limit

(* lql_stream_apply_flat_eq keeps a copy of each record *)
Capture == req.allow_spool /\ (req.on_value \/ req.output_mode # "decision")

(* record_words without a copy: the caller replays compact source ranges *)
RangeAvailable == rec.compact /\ req.input_is_compact /\ req.range_writer

SourceRange == SubSeq(input, rec.start + 1, rec.end)

Matched == ~req.selector \/ (rec.object /\ rec.hit)

-----------------------------------------------------------------------------
(* The end of the call: the result of the scanner becomes the result of the  *)
(* application                                                               *)

(* mutant: a limit stop is blamed on the record limit whenever there is one *)
MutantStopReason(st, res, lim, can) ==
    IF res.stopped_early \/ st # "STOP" THEN res.stop_reason
    ELSE IF lim /\ req.max_records # 0 THEN "RECORD_LIMIT"
    ELSE IF lim /\ req.max_bytes # 0 THEN "BYTE_LIMIT"
    ELSE IF can THEN "CANCELLED" ELSE "NONE"

StopReason(st, res, lim, can) ==
    IF res.stopped_early \/ st # "STOP" THEN res.stop_reason
    ELSE IF lim /\ Limited(req.max_records, res.records_seen) THEN "RECORD_LIMIT"
    ELSE IF lim /\ Limited(req.max_bytes, read) THEN "BYTE_LIMIT"
    ELSE IF can THEN "CANCELLED" ELSE "NONE"

Finish(st, res, lim, can) ==
    LET reason == StopReason(st, res, lim, can)
    IN  /\ at' = "done"
        /\ result' = [res EXCEPT !.stopped_early = reason # "NONE",
                                 !.stop_reason = reason]
        /\ limit_stop' = lim /\ cancelled' = can
        /\ status' = IF st = "STOP" /\ reason # "NONE" THEN "OK" ELSE st

Fail(st) == Finish(st, result, FALSE, FALSE)

(* lql_stream_apply_common checks the request *)
Start ==
    /\ at = "start"
    /\ LET noEmitter == ~req.allow_spool /\ req.output_mode \in Transforms
           noRange   == /\ ~req.allow_spool
                        /\ req.output_mode = "selected" \/ req.on_value
                        /\ ~(req.input_is_compact /\ req.range_writer)
       IN  \/ ~req.complete /\ Fail("INVALID_ARGUMENT")
           \/ req.complete /\ (noEmitter \/ noRange) /\ Fail("UNSUPPORTED")
           \/ /\ req.complete /\ ~noEmitter /\ ~noRange
              /\ at' = "space"
              /\ UNCHANGED <<result, stops>>
    /\ UNCHANGED <<source, scan, rec, spool, records, cancel, logs, late>>

-----------------------------------------------------------------------------
(* lql_json_refill *)

Empty == at \in Scanning /\ pos = read /\ ~eof

(* cancelled is asked before every read *)
PollRefill ==
    /\ Empty /\ ~polled
    /\ \/ cancel /\ Finish("STOP", result, FALSE, TRUE) /\ UNCHANGED polled
       \/ ~cancel /\ polled' = TRUE /\ UNCHANGED <<at, result, stops>>
    /\ UNCHANGED <<source, read, pos, eof, rec, spool, records, cancel, logs, late>>

Called == late' = IF cancel THEN late + 1 ELSE late

(* mutant: the end of the input is not remembered *)
MutantRefill ==
    /\ Empty /\ polled
    /\ \E n \in 0 .. Capacity : read + n <= Len(input) /\ read' = read + n
    /\ polled' = FALSE
    /\ Called
    /\ UNCHANGED <<source, at, pos, eof, rec, spool, records, result, stops, cancel, logs>>

(* the reader delivers some bytes, or none at the end *)
Refill ==
    /\ Empty /\ polled
    /\ IF read = Len(input)
       THEN eof' = TRUE /\ UNCHANGED read
       ELSE /\ \E n \in 1 .. Capacity :
                  read + n <= Len(input) /\ read' = read + n
            /\ UNCHANGED eof
    /\ polled' = FALSE
    /\ Called
    /\ UNCHANGED <<source, at, pos, rec, spool, records, result, stops, cancel, logs>>

(* the reader returns a status of its own or claims more than it was given *)
RefillFails ==
    /\ "reader" \in caller.failures
    /\ Empty /\ polled
    /\ polled' = FALSE
    /\ \E st \in {"IO_ERROR", "STOP", "JSON_ERROR"} : Fail(st)
    /\ Called
    /\ UNCHANGED <<source, read, pos, eof, rec, spool, records, cancel, logs>>

-----------------------------------------------------------------------------
(* The scanner, a byte at a time.  Next byte b; End when the reader has ended *)

(* mutant: a byte is taken from the buffer without a refill *)
MutantHave(b) == pos < Len(input) /\ b = input[pos + 1]

Have(b) == pos < read /\ b = input[pos + 1]

AtEnd == pos = read /\ eof

Take(next) ==
    /\ pos' = pos + 1
    /\ at' = next
    /\ UNCHANGED <<source, read, eof, polled, records, result, stops, cancel, logs, late>>

Move(next) ==
    /\ at' = next
    /\ UNCHANGED <<source, scan, spool, records, result, stops, cancel, logs, late>>

Reject ==
    /\ Fail("JSON_ERROR")
    /\ UNCHANGED <<source, scan, rec, spool, records, cancel, logs, late>>

(* lql_json_copy_byte *)
Copy(text, b) == IF Capture THEN Append(text, b) ELSE text

(* mutant: the copy of the previous record is kept *)
MutantKeepCopy(b) ==
    /\ rec' = [NoRec EXCEPT !.start = pos, !.object = b = "{"]
    /\ spool' = Copy(spool, b)

(* a record starts: the copy, the hits and the compact flag start again *)
BeginRecord(b) ==
    /\ rec' = [NoRec EXCEPT !.start = pos, !.object = b = "{"]
    /\ spool' = Copy(<<>>, b)

(* between records: lql_json_skip_space, then the first byte of a value *)
SkipSpace(b) ==
    /\ at = "space" /\ Have(b)
    /\ \/ b \in Space /\ Take("space") /\ UNCHANGED <<rec, spool>>
       \/ b = "{" /\ BeginRecord(b) /\ Take("object")
       \/ b = "d" /\ BeginRecord(b) /\ Take("number")
       \/ b \in {"[", "}", "m"} /\ Reject

(* mutant: whitespace inside an object leaves the range compact *)
MutantSpaceIsCompact(b) ==
    /\ at = "object" /\ Have(b)
    /\ \/ /\ b \in Space
          /\ Take("object") /\ UNCHANGED <<rec, spool>>
       \/ /\ b = "m"
          /\ rec' = [rec EXCEPT !.hit = TRUE] /\ spool' = Copy(spool, b)
          /\ Take("object")
       \/ /\ b = "}"
          /\ rec' = [rec EXCEPT !.end = pos + 1] /\ spool' = Copy(spool, b)
          /\ Take("separator")
       \/ b \in {"{", "[", "d"} /\ Reject

(* lql_json_object: line ends are whitespace here *)
ScanObject(b) ==
    /\ at = "object" /\ Have(b)
    /\ \/ /\ b \in Space
          /\ rec' = [rec EXCEPT !.compact = FALSE] /\ UNCHANGED spool
          /\ Take("object")
       \/ /\ b = "m"
          /\ rec' = [rec EXCEPT !.hit = TRUE] /\ spool' = Copy(spool, b)
          /\ Take("object")
       \/ /\ b = "}"
          /\ rec' = [rec EXCEPT !.end = pos + 1] /\ spool' = Copy(spool, b)
          /\ Take("separator")
       \/ b \in {"{", "[", "d"} /\ Reject

(* lql_json_number ends before the first byte that is not part of it *)
ScanNumber(b) ==
    /\ at = "number" /\ Have(b)
    /\ \/ b = "d" /\ Take("number") /\ spool' = Copy(spool, b) /\ UNCHANGED rec
       \/ b # "d" /\ Move("separator") /\ rec' = [rec EXCEPT !.end = pos]

(* mutant: the separator may be any whitespace, and the bytes up to the next *)
(* value are taken with it                                                   *)
MutantSeparator(b) ==
    /\ at = "separator" /\ Have(b)
    /\ \/ b \in Space /\ Take("separator") /\ UNCHANGED <<rec, spool>>
       \/ b \notin Space /\ Move("flush") /\ UNCHANGED rec

(* lql_json_record_separator *)
Separator(b) ==
    /\ at = "separator" /\ Have(b)
    /\ \/ b = "s" /\ Take("separator") /\ UNCHANGED <<rec, spool>>
       \/ b = "n" /\ Take("flush") /\ UNCHANGED <<rec, spool>>
       \/ b = "r" /\ Take("line_feed") /\ UNCHANGED <<rec, spool>>
       \/ b \notin Space /\ Reject

LineFeed(b) ==
    /\ at = "line_feed" /\ Have(b)
    /\ \/ b = "n" /\ Take("flush") /\ UNCHANGED <<rec, spool>>
       \/ b # "n" /\ Reject

(* the input ends: between records, after a number or after a record         *)
EndOfInput ==
    /\ AtEnd
    /\ \/ /\ at = "space" /\ Fail("OK")
          /\ UNCHANGED <<source, scan, rec, spool, records, cancel, logs, late>>
       \/ at = "number" /\ Move("separator") /\ rec' = [rec EXCEPT !.end = pos]
       \/ at = "separator" /\ Move("flush") /\ UNCHANGED rec
       \/ at \in {"object", "line_feed"} /\ Reject

(* the copy of the record cannot be written *)
SpoolFails ==
    /\ "spool" \in caller.failures
    /\ at \in {"object", "number", "flush"} /\ Capture
    /\ Fail("IO_ERROR")
    /\ UNCHANGED <<source, scan, rec, spool, records, cancel, logs, late>>

-----------------------------------------------------------------------------
(* The dispatch of a record: lql_flat_eq_record_words *)

(* mutant: cancelled is asked before a refill only *)
MutantFlush ==
    /\ at = "flush" /\ at' = "decision"
    /\ UNCHANGED <<source, scan, rec, spool, records, result, stops, cancel, logs, late>>

(* the scanner has flushed the copy; cancelled is asked before the dispatch *)
Flush ==
    /\ at = "flush"
    /\ \/ cancel /\ Finish("STOP", result, FALSE, TRUE)
       \/ ~cancel /\ at' = "decision" /\ UNCHANGED <<result, stops>>
    /\ UNCHANGED <<source, scan, rec, spool, records, cancel, logs, late>>

(* a dispatch that is not OK ends the scan, and the record counts as one *)
Abort(st, res) ==
    /\ Finish(st, res, FALSE, FALSE)
    /\ records' = records + 1

(* what a callback's answer does: go on, stop with success, or fail *)
Answer(answer, res, next) ==
    CASE answer = "continue" ->
             at' = next /\ result' = res /\ UNCHANGED <<stops, records>>
      [] answer = "stop" ->
             Abort("STOP", [res EXCEPT !.stopped_early = TRUE, !.stop_reason = "CALLBACK"])
      [] answer = "error" -> Abort("CALLBACK_ERROR", res)

Decision ==
    /\ at = "decision"
    /\ \E answer \in caller.answers :
          Answer(answer,
                 [result EXCEPT !.records_seen = @ + 1,
                                !.records_matched = IF Matched THEN @ + 1 ELSE @],
                 "value")
    /\ decisions' = Append(decisions, Matched)
    /\ Called
    /\ UNCHANGED <<source, scan, rec, spool, cancel, values, out>>

Value ==
    /\ at = "value"
    /\ \/ /\ ~(Matched /\ req.on_value)
          /\ at' = "output"
          /\ UNCHANGED <<records, result, stops, values>>
       \/ /\ Matched /\ req.on_value
          /\ ~Capture /\ ~RangeAvailable
          /\ Abort("UNSUPPORTED", result)
          /\ UNCHANGED values
       \/ /\ Matched /\ req.on_value
          /\ Capture \/ RangeAvailable
          /\ values' = Append(values,
                              IF rec.compact /\ req.range_writer THEN SourceRange ELSE spool)
          /\ \E answer \in caller.answers : Answer(answer, result, "output")
    /\ UNCHANGED <<source, scan, rec, spool, cancel, decisions, out, late>>

Wanted == Matched \/ ~req.matched_only

(* the modes that need an object, for the records they transform *)
Refused ==
    /\ ~rec.object
    /\ \/ req.output_mode \in {"projection", "projection_then_mutation"}
       \/ req.output_mode = "mutation" /\ Matched

Emitted ==
    /\ req.output_mode # "decision"
    /\ req.output_mode \in {"projection", "projection_then_mutation"} => rec.hit

(* what is written for the record.  A transformed record is a text of two    *)
(* pieces that tells which transformation made it.                           *)
Rendered ==
    CASE req.output_mode = "projection" -> <<"projected", "}">>
      [] req.output_mode = "mutation" /\ Matched -> <<"mutated", "}">>
      [] req.output_mode = "projection_then_mutation" /\ Matched -> <<"combined", "}">>
      [] req.output_mode = "projection_then_mutation" /\ ~Matched -> <<"projected", "}">>
      [] OTHER -> IF Capture THEN spool ELSE SourceRange

NoRange == req.output_mode = "selected" /\ ~Capture /\ ~RangeAvailable

Output ==
    /\ at = "output"
    /\ \/ /\ ~Wanted \/ (~Refused /\ ~Emitted)
          /\ at' = "matches" /\ UNCHANGED <<records, result, stops, out>>
       \/ /\ Wanted /\ req.output_mode # "decision" /\ Refused
          /\ Abort("JSON_ERROR", result) /\ UNCHANGED out
       \/ /\ Wanted /\ ~Refused /\ Emitted /\ NoRange
          /\ Abort("UNSUPPORTED", result) /\ UNCHANGED out
       \/ /\ Wanted /\ ~Refused /\ Emitted /\ ~NoRange
          /\ out' = out \o Rendered
          /\ at' = "newline" /\ UNCHANGED <<records, result, stops>>
    /\ UNCHANGED <<source, scan, rec, spool, cancel, decisions, values, late>>

Newline ==
    /\ at = "newline"
    /\ out' = Append(out, "n")
    /\ at' = "matches"
    /\ UNCHANGED <<source, scan, rec, spool, records, result, stops, cancel,
                   decisions, values, late>>

(* the writer, or a transformation, fails with a part of the text written *)
WriterFails ==
    /\ "writer" \in caller.failures
    /\ \/ /\ at = "output" /\ Wanted /\ ~Refused /\ Emitted /\ ~NoRange
          /\ \E k \in 0 .. (Len(Rendered) - 1) : out' = out \o SubSeq(Rendered, 1, k)
       \/ at = "newline" /\ UNCHANGED out
    /\ \E st \in {"IO_ERROR", "STOP"} : Abort(st, result)
    /\ UNCHANGED <<source, scan, rec, spool, cancel, decisions, values, late>>

MatchLimit ==
    /\ at = "matches"
    /\ IF Matched /\ Limited(req.max_matches, result.records_matched)
       THEN Abort("STOP", [result EXCEPT !.stopped_early = TRUE,
                                         !.stop_reason = "MATCH_LIMIT"])
       ELSE at' = "next" /\ records' = records + 1 /\ UNCHANGED <<result, stops>>
    /\ UNCHANGED <<source, scan, rec, spool, cancel, logs, late>>

(* mutant: the limits are looked at when the next record is complete *)
MutantLateLimit ==
    /\ at = "next"
    /\ IF Limited(req.max_bytes, pos - 1) \/ Limited(req.max_records, records - 1)
       THEN Finish("STOP", result, TRUE, FALSE)
       ELSE at' = "space" /\ UNCHANGED <<result, stops>>
    /\ UNCHANGED <<source, scan, rec, spool, records, cancel, logs, late>>

(* the byte limit at the end of a record, the record limit before the next *)
NextRecord ==
    /\ at = "next"
    /\ IF Limited(req.max_bytes, pos) \/ Limited(req.max_records, records)
       THEN Finish("STOP", result, TRUE, FALSE)
       ELSE at' = "space" /\ UNCHANGED <<result, stops>>
    /\ UNCHANGED <<source, scan, rec, spool, records, cancel, logs, late>>

Cancel ==
    /\ caller.cancels /\ ~cancel /\ at # "done"
    /\ cancel' = TRUE
    /\ UNCHANGED <<source, at, scan, rec, spool, records, result, stops, logs, late>>

CallStep ==
    \/ Start \/ PollRefill \/ Refill \/ RefillFails
    \/ \E b \in Byte : SkipSpace(b) \/ ScanObject(b) \/ ScanNumber(b)
                       \/ Separator(b) \/ LineFeed(b)
    \/ EndOfInput \/ SpoolFails
    \/ Flush \/ Decision \/ Value \/ Output \/ Newline \/ WriterFails
    \/ MatchLimit \/ NextRecord

Done == at = "done" /\ UNCHANGED vars

Next == CallStep \/ Cancel \/ Done

Spec == Init /\ [][Next]_vars /\ WF_vars(CallStep)

-----------------------------------------------------------------------------
(* The reference: what the whole input means, read without a buffer.         *)

(* the end of the value that starts after the first p bytes, 0 if none is there *)
ValueEnd(s, p) ==
    LET ends == {e \in (p + 1) .. Len(s) :
                   \/ /\ \A i \in (p + 1) .. e : s[i] = "d"
                      /\ e = Len(s) \/ s[e + 1] # "d"
                   \/ /\ s[p + 1] = "{" /\ s[e] = "}"
                      /\ \A i \in (p + 2) .. (e - 1) : s[i] \in Space \cup {"m"}}
    IN  IF ends = {} THEN 0 ELSE CHOOSE e \in ends : TRUE

(* where the separator after the first e bytes ends; Len(s) + 1 if it is bad *)
SeparatorEnd(s, e) ==
    LET blank == CHOOSE k \in e .. Len(s) :
                   /\ \A i \in (e + 1) .. k : s[i] = "s"
                   /\ k = Len(s) \/ s[k + 1] # "s"
        rest  == SubSeq(s, blank + 1, Len(s))
    IN  CASE rest = <<>> -> blank
          [] IsPrefix(<<"n">>, rest) -> blank + 1
          [] IsPrefix(<<"r", "n">>, rest) -> blank + 2
          [] OTHER -> Len(s) + 1

(* where a value may start after the first p bytes *)
Starts(s, p) == {q \in p .. (Len(s) - 1) : s[q + 1] \notin Space}

FirstStart(s, p) == CHOOSE q \in Starts(s, p) : \A o \in Starts(s, p) : q <= o

(* a value with its separator starts after the first q bytes *)
Readable(s, q) ==
    ValueEnd(s, q) # 0 /\ SeparatorEnd(s, ValueEnd(s, q)) <= Len(s)

(* for each e the bytes p + 1 .. e of s without whitespace *)
Compacted(s, p) ==
    LET Text[e \in p .. Len(s)] ==
          IF e = p THEN <<>>
          ELSE IF s[e] \in Space THEN Text[e - 1] ELSE Append(Text[e - 1], s[e])
    IN  Text

RecordAt(s, q) ==
    LET end  == ValueEnd(s, q)
        next == SeparatorEnd(s, end)
    IN  [text |-> Compacted(s, q)[end], object |-> s[q + 1] = "{",
         hit |-> Contains(SubSeq(s, q + 1, end), "m"),
         compact |-> \A i \in (q + 1) .. end : s[i] \notin Space,
         next |-> next, ended |-> s[next] = "n"]

(* for each p the records after the first p bytes of s, up to the first      *)
(* value that is not readable, and whether there is no such value            *)
RecordsFrom(s) ==
    LET From[p \in 0 .. Len(s)] ==
          LET q    == FirstStart(s, p)
              r    == RecordAt(s, q)
              rest == From[r.next]
          IN  CASE Starts(s, p) = {} -> [recs |-> <<>>, valid |-> TRUE]
                [] Starts(s, p) # {} /\ ~Readable(s, q) -> [recs |-> <<>>, valid |-> FALSE]
                [] OTHER -> [recs |-> <<r>> \o rest.recs, valid |-> rest.valid]
    IN  From

(* the records of s and whether all of s is valid *)
Reference(s) == RecordsFrom(s)[0]

RefMatched(r) == ~req.selector \/ r.hit

(* a record the request cannot deliver: nothing is delivered from it on *)
Undeliverable(r) ==
    LET wanted == RefMatched(r) \/ ~req.matched_only
    IN  \/ /\ ~Capture /\ ~r.compact
           /\ \/ req.output_mode = "selected" /\ wanted
              \/ req.on_value /\ RefMatched(r)
        \/ /\ ~r.object
           /\ \/ req.output_mode \in {"projection", "projection_then_mutation"} /\ wanted
              \/ req.output_mode = "mutation" /\ RefMatched(r)

RefOutput(r) ==
    IF req.output_mode = "decision" \/ (req.matched_only /\ ~RefMatched(r)) THEN <<>>
    ELSE CASE req.output_mode = "selected" -> Append(r.text, "n")
           [] req.output_mode = "mutation" ->
                IF RefMatched(r) THEN <<"mutated", "}", "n">> ELSE Append(r.text, "n")
           [] req.output_mode = "projection" ->
                IF r.hit THEN <<"projected", "}", "n">> ELSE <<>>
           [] OTHER -> CASE ~r.hit -> <<>>
                         [] r.hit /\ RefMatched(r) -> <<"combined", "}", "n">>
                         [] OTHER -> <<"projected", "}", "n">>

-----------------------------------------------------------------------------
(* Properties *)

(* However the reader splits the input, on_decision sees the records of the  *)
(* input in order, with their matches, and never a record whose bytes up to  *)
(* its separator are not valid.  A call that ends OK without a stop has seen *)
(* all of a valid input, and a call that rejects the input has first         *)
(* delivered every record before the invalid byte.                           *)
DecisionsFollowInput ==
    LET ref == Reference(input)
    IN  /\ Len(decisions) <= Len(ref.recs)
        /\ \A i \in DOMAIN decisions : decisions[i] = RefMatched(ref.recs[i])
        /\ status = "OK" /\ ~result.stopped_early =>
             ref.valid /\ Len(decisions) = Len(ref.recs)
        /\ status = "JSON_ERROR" /\ "reader" \notin caller.failures =>
             \/ ~ref.valid /\ Len(decisions) = Len(ref.recs)
             \/ Undeliverable(ref.recs[Len(decisions)])

(* The writer receives exactly the output of the records seen: nothing of a  *)
(* record that cannot be delivered (input_is_compact: "a false assertion     *)
(* fails with UNSUPPORTED after validation and emits no part of that         *)
(* record"), whole records when the call succeeds, and at most a part of the *)
(* last one when it fails.                                                   *)
OutputFollowsRecords ==
    LET recs   == SubSeq(Reference(input).recs, 1, Len(decisions))
        whole  == FlattenSeq([i \in DOMAIN recs |-> RefOutput(recs[i])])
        before == FlattenSeq([i \in 1 .. (Len(recs) - 1) |-> RefOutput(recs[i])])
    IN  /\ IsPrefix(out, whole)
        /\ \A i \in DOMAIN recs : Undeliverable(recs[i]) =>
              i = Len(recs) /\ out = before /\ ~(status = "OK" /\ ~result.stopped_early)
        /\ status = "OK" /\ result.stop_reason # "CALLBACK" => out = whole
        /\ status # "running" => IsPrefix(before, out)

(* on_value sees the compact text of every matched record, whether it comes  *)
(* from the copy or from a range of the source.                              *)
ValuesAreMatchedRecords ==
    LET recs       == Reference(input).recs
        Matches(n) == {i \in 1 .. n : RefMatched(recs[i])}
        matched    == Cardinality(Matches(Len(decisions)))
    IN  /\ Len(values) <= matched
        /\ \A i \in Matches(Len(decisions)) :
              Cardinality(Matches(i)) <= Len(values) =>
                values[Cardinality(Matches(i))] = recs[i].text
        /\ req.on_value => Len(values) >= matched - 1

ReaderCalled == read' # read \/ eof' # eof

(* The reader is called only when every record whose line feed has arrived   *)
(* is dispatched: an interactive reader never blocks a complete record.      *)
CompleteRecordsFirst ==
    [][ReaderCalled =>
         LET recs == Reference(input).recs
         IN  \A i \in DOMAIN recs : recs[i].ended /\ recs[i].next <= read => i <= records]_vars

(* No read after a limit is reached (the comment in the scan loop: "Public   *)
(* stream limits must stop before any refill").                              *)
NoReadAfterLimit ==
    [][ReaderCalled =>
         /\ ~Limited(req.max_records, records)
         /\ ~Limited(req.max_matches, result.records_matched)
         /\ records > 0 => ~Limited(req.max_bytes, Reference(input).recs[records].next)]_vars

(* The result tells the truth: limits are never exceeded, stopped_early is   *)
(* set exactly by a successful stop, and its reason really holds.            *)
StopsAreTruthful ==
    LET ended == Reference(input).recs[result.records_seen].next
    IN  /\ req.max_records # 0 => result.records_seen <= req.max_records
        /\ req.max_matches # 0 => result.records_matched <= req.max_matches
        /\ result.stopped_early <=> result.stop_reason # "NONE"
        /\ result.stopped_early => status = "OK"
        /\ CASE result.stop_reason = "RECORD_LIMIT" -> result.records_seen = req.max_records
             [] result.stop_reason = "MATCH_LIMIT" -> result.records_matched = req.max_matches
             [] result.stop_reason = "BYTE_LIMIT" ->
                  /\ ended >= req.max_bytes
                  /\ result.records_seen > 1 =>
                       Reference(input).recs[result.records_seen - 1].next < req.max_bytes
             [] result.stop_reason = "CANCELLED" -> cancel
             [] OTHER -> TRUE
        /\ status = "STOP" => caller.failures \cap {"reader", "writer"} # {}

(* After cancelled turns true at most one more call is made to the reader or *)
(* to on_decision: the one already past its check.                           *)
CancelStopsSoon == late <= 1

(* Every call returns once its reader and its callbacks do. *)
Terminates == <>(at = "done")
=============================================================================
