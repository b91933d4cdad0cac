---------------------------- MODULE RecordPipeline ----------------------------
(***************************************************************************)
(* One call of lql_stream_apply_flat_eq over a sequence of records: the    *)
(* plan is made, each record is scanned - once, or once per word of terms  *)
(* and once per word of captures -, decided and written in the mode of the *)
(* request.  Meanwhile the file a mutation takes its value from may be     *)
(* written to, replaced or removed: it is opened before the input, and     *)
(* again for every value that is written, and read chunk by chunk.         *)
(*                                                                         *)
(* Reading and the limits of a call are StreamApply's subject.             *)
(***************************************************************************)
EXTENDS SelectorProgram, Projection

CONSTANTS
  Calls,         \* sets of pairs [request, input] of a request and its records
  NoFile,        \* the file does not exist
  Contents,      \* what it may hold: sequences of chunks
  MaxChanges     \* bound on the changes of the file

VARIABLES
  call, plan,
  phase,         \* "compile", "preflight", "read", "terms", "captures", "record",
                 \* "files", "done"
  pos,           \* records read
  offset,        \* terms or captures of the record scanned so far
  slots,         \* the scanner's state, kept from record to record
  hits,          \* scanned terms that hit in the record
  caps,          \* the captures at hand
  decisions, outputs, status,
  file, changes,
  draft,         \* the record whose file values are being read
  unread,        \* the modes of the values to read that the record does not hold
  stream,        \* the pass over the file
  seen           \* history: what the file has held while the record was written

fileVars == <<file, changes, draft, unread, stream, seen>>
vars == <<call, plan, phase, pos, offset, slots, hits, caps, decisions, outputs, status,
          fileVars>>

record == call.input[pos]
UsesFile == \E i \in DOMAIN call.request.actions : call.request.actions[i].value.t = "file"

\* A pass that has not been opened.  kept: the contents of a file that was
\* replaced or removed after it was opened.
Pass(kind) == [pass |-> kind, open |-> FALSE, kept |-> NoFile, got |-> <<>>, utf8 |-> "whole"]

Init ==
  /\ \E group \in Calls : call \in group
  /\ file \in IF UsesFile THEN Contents \cup {NoFile} ELSE {NoFile}
  /\ draft = Null /\ unread = <<>> /\ stream = Pass("look") /\ seen = {}
  /\ plan = <<>> /\ phase = "compile" /\ pos = 0 /\ offset = 0
  /\ slots = <<>> /\ hits = {} /\ caps = <<>>
  /\ decisions = <<>> /\ outputs = <<>> /\ status = "ok" /\ changes = 0

\* Values a later action has replaced are read as well, here before the
\* others.
NextMode(lost, value) == IF lost # <<>> THEN Head(lost) ELSE WaitingMode(value)

Stop(result) ==
  /\ phase' = "done" /\ status' = result
  /\ UNCHANGED <<call, plan, pos, offset, slots, hits, caps, decisions, outputs, fileVars>>

(***************************************************************************)
(* The plan.  The request's paths have been parsed by the caller.          *)
(***************************************************************************)
Parsed == ParsedPaths(call.request.paths, <<>>)

Refuse ==
  /\ phase = "compile"
  /\ \E clock \in BOOLEAN :
       (call.request.paths # <<>> /\ ~Parsed.ok) \/ ~Handled(call.request, clock)
  /\ Stop("unsupported")

\* The file values that must be text are looked at before the input is read.
TextFiles(actions) ==
  SelectSeq([i \in DOMAIN actions |-> IF actions[i].value.t = "file" THEN actions[i].value.mode ELSE "no"],
            LAMBDA mode : mode = "text")

Compile ==
  LET request == [call.request EXCEPT !.paths = Parsed.paths]
  IN  /\ phase = "compile"
      /\ call.request.paths # <<>> => Parsed.ok
      /\ Handled(request, TRUE)
      /\ call' = [call EXCEPT !.request = request]
      /\ plan' = Plan(request)
      /\ slots' = ScanStart(InputScan(Plan(request)).terms)
      /\ unread' = TextFiles(request.actions)
      /\ phase' = IF unread' = <<>> THEN "read" ELSE "preflight"
      /\ UNCHANGED <<pos, offset, hits, caps, decisions, outputs, status,
                     file, changes, draft, stream, seen>>

(***************************************************************************)
(* A record, in one scan or in several.                                    *)
(***************************************************************************)
ReadRecord ==
  LET v == call.input[pos + 1]
  IN  /\ phase = "read" /\ pos < Len(call.input)
      /\ pos' = pos + 1 /\ offset' = 0
      /\ slots' = ScanRecord(InputScan(plan), slots, v)
      /\ hits' = slots'.hits
      /\ caps' = IF plan.captures = <<>> \/ plan.rescans THEN caps ELSE slots'.captured
      /\ phase' = IF plan.rescans THEN "terms" ELSE "record"
      /\ UNCHANGED <<call, plan, decisions, outputs, status, fileVars>>

\* lql_flat_eq_scan_term_batch: a scan of its own, and its early way out.
ScanTermBatch ==
  LET batch == BatchScan(plan, offset)
      scan == ScanRecord(batch, ScanStart(batch.terms), record)
  IN  /\ phase = "terms" /\ offset < Len(plan.scan)
      /\ hits' = hits \cup {offset + i : i \in scan.hits}
      /\ offset' = BatchEnd(plan.scan, offset)
      /\ phase' = IF DecidedEarly(plan, call.request, hits', offset') THEN "record" ELSE phase
      /\ UNCHANGED <<call, plan, pos, slots, caps, decisions, outputs, status, fileVars>>

(* mutant: the captures go on from where the terms ended *)
MutantEndTerms ==
  /\ phase = "terms" /\ offset = Len(plan.scan)
  /\ phase' = "captures"
  /\ UNCHANGED <<call, plan, pos, offset, slots, hits, caps, decisions, outputs, status,
                 fileVars>>

EndTerms ==
  /\ phase = "terms" /\ offset = Len(plan.scan)
  /\ phase' = "captures" /\ offset' = 0
  /\ UNCHANGED <<call, plan, pos, slots, hits, caps, decisions, outputs, status, fileVars>>

\* lql_flat_eq_scan_capture_batch
ScanCaptureBatch ==
  LET end == BatchEnd(plan.captures, offset)
      batch == (offset + 1)..end
      found == ScanRecord(CaptureScan(plan, offset), ScanStart(<<>>), record).captured
  IN  /\ phase = "captures" /\ offset < Len(plan.captures)
      /\ caps' = [p \in (DOMAIN caps \ batch) \cup {offset + q : q \in DOMAIN found} |->
                    IF p \in batch THEN found[p - offset] ELSE caps[p]]
      /\ offset' = end
      /\ UNCHANGED <<call, plan, phase, pos, slots, hits, decisions, outputs, status,
                     fileVars>>

EndCaptures ==
  /\ phase = "captures" /\ offset = Len(plan.captures)
  /\ phase' = "record"
  /\ UNCHANGED <<call, plan, pos, offset, slots, hits, caps, decisions, outputs, status,
                 fileVars>>

\* lql_flat_eq_record_words.  What waits for the file is read next.
EmitRecord ==
  LET waits == unread' # <<>> \/ Waits(draft'.value)
  IN  /\ phase = "record"
      /\ decisions' = Append(decisions, MatchesRecord(plan, hits, record))
      /\ draft' = RecordOutput(call.request, Last(decisions'), record, caps)
      /\ unread' = SetToSeq(draft'.lost) /\ seen' = {file} \ {NoFile}
      /\ outputs' = IF waits THEN outputs ELSE Append(outputs, draft')
      /\ phase' = IF waits THEN "files" ELSE IF draft'.ok THEN "read" ELSE "done"
      /\ status' = IF draft'.ok THEN status ELSE "record error"
      /\ stream' = IF waits THEN Pass(FirstPass(NextMode(unread', draft'.value))) ELSE stream
      /\ UNCHANGED <<call, plan, pos, offset, slots, hits, caps, file, changes>>

(***************************************************************************)
(* Reading the file, for the check before the input and for each value of  *)
(* a record.                                                               *)
(***************************************************************************)
waitingFor == NextMode(unread, draft.value)
onDisk == IF stream.kept = NoFile THEN file ELSE stream.kept
atEnd == Len(stream.got) >= Len(onDisk)
chunk == onDisk[Len(stream.got) + 1]

OpenFile ==
  /\ phase \in {"preflight", "files"} /\ ~stream.open /\ file # NoFile
  /\ stream' = [stream EXCEPT !.open = TRUE]
  /\ UNCHANGED <<call, plan, phase, pos, offset, slots, hits, caps, decisions, outputs, status,
                 file, changes, draft, unread, seen>>

\* Neither the next chunk nor the end may show that a text is none.
NotText ==
  /\ Validates(stream.pass)
  /\ IF atEnd THEN stream.utf8 # "whole" ELSE Utf8Accept(stream.utf8, chunk) = "invalid"

ReadFile ==
  /\ stream.open /\ ~atEnd /\ ~NotText
  /\ stream' = [stream EXCEPT !.got = Append(@, chunk), !.utf8 = Utf8Accept(@, chunk)]
  /\ UNCHANGED <<call, plan, phase, pos, offset, slots, hits, caps, decisions, outputs, status,
                 file, changes, draft, unread, seen>>

\* A file that may be text or not is copied as what it looked like.
LookedAt ==
  /\ phase = "files" /\ stream.open /\ stream.pass = "look"
  /\ atEnd \/ NotText
  /\ NotText => waitingFor = "auto"
  /\ stream' = Pass(IF NotText THEN "base64" ELSE "text")
  /\ UNCHANGED <<call, plan, phase, pos, offset, slots, hits, caps, decisions, outputs, status,
                 file, changes, draft, unread, seen>>

\* lql_flat_eq_preflight_file_mutations, one action.
PassPreflight ==
  /\ phase = "preflight" /\ stream.open /\ atEnd /\ ~NotText
  /\ unread' = Tail(unread) /\ stream' = Pass("look")
  /\ phase' = IF unread' = <<>> THEN "read" ELSE phase
  /\ UNCHANGED <<call, plan, pos, offset, slots, hits, caps, decisions, outputs, status,
                 file, changes, draft, seen>>

\* The copy of a value is complete, and perhaps the record.
CopyFile ==
  LET copy == [t |-> "copy", as |-> stream.pass, v |-> stream.got]
      waits == unread' # <<>> \/ Waits(draft'.value)
  IN  /\ phase = "files" /\ stream.open /\ stream.pass # "look" /\ atEnd /\ ~NotText
      /\ draft' = IF unread = <<>> THEN [draft EXCEPT !.value = Fill(@, copy)] ELSE draft
      /\ unread' = IF unread = <<>> THEN unread ELSE Tail(unread)
      /\ stream' = Pass(IF waits THEN FirstPass(NextMode(unread', draft'.value)) ELSE "look")
      /\ outputs' = IF waits THEN outputs ELSE Append(outputs, draft')
      /\ phase' = IF waits THEN phase ELSE "read"
      /\ UNCHANGED <<call, plan, pos, offset, slots, hits, caps, decisions, status,
                     file, changes, seen>>

\* The file is not there, a read fails, or a text is none.
FileFails ==
  /\ phase \in {"preflight", "files"}
  /\ stream.open \/ file = NoFile
  /\ outputs' = IF phase = "preflight" THEN outputs
                ELSE Append(outputs, MutationFails(call.request.actions))
  /\ status' = IF phase = "preflight" THEN "file error" ELSE "record error"
  /\ phase' = "done"
  /\ UNCHANGED <<call, plan, pos, offset, slots, hits, caps, decisions, fileVars>>

EndOfInput ==
  /\ phase = "read" /\ pos = Len(call.input)
  /\ Stop("ok")

FileMayChange == UsesFile /\ phase # "done" /\ changes < MaxChanges

\* Another program writes to the file; a reader that has it open sees that.
FileOverwritten ==
  /\ FileMayChange /\ file # NoFile
  /\ file' \in Contents \ {file} /\ changes' = changes + 1
  /\ seen' = seen \cup {file'}
  /\ UNCHANGED <<call, plan, phase, pos, offset, slots, hits, caps, decisions, outputs, status,
                 draft, unread, stream>>

\* Another program removes the file or puts one in its place; a reader that
\* has it open keeps what it has.
FileReplaced ==
  /\ FileMayChange
  /\ file' \in (Contents \cup {NoFile}) \ {file} /\ changes' = changes + 1
  /\ seen' = seen \cup ({file'} \ {NoFile})
  /\ stream' = IF stream.open THEN [stream EXCEPT !.kept = onDisk] ELSE stream
  /\ UNCHANGED <<call, plan, phase, pos, offset, slots, hits, caps, decisions, outputs, status,
                 draft, unread>>

Finished == phase = "done" /\ UNCHANGED vars

Next ==
  \/ Refuse \/ Compile
  \/ ReadRecord \/ ScanTermBatch \/ EndTerms \/ ScanCaptureBatch \/ EndCaptures
  \/ EmitRecord \/ EndOfInput
  \/ OpenFile \/ ReadFile \/ LookedAt \/ PassPreflight \/ CopyFile \/ FileFails
  \/ FileOverwritten \/ FileReplaced
  \/ Finished

Spec == Init /\ [][Next]_vars

(***************************************************************************)
(* Properties.                                                             *)
(***************************************************************************)
(* The parts of the state have their types: the record being worked on is  *)
(* one of the input, there is one decision and one output for each record  *)
(* finished, and a batch starts inside the terms or captures it is of.     *)
TypeOK ==
  /\ phase \in {"compile", "preflight", "read", "terms", "captures", "record", "files", "done"}
  /\ pos \in 0..Len(call.input) /\ changes \in 0..MaxChanges
  /\ phase = "terms" => offset \in 0..Len(plan.scan)
  /\ phase = "captures" => offset \in 0..Len(plan.captures)
  /\ phase \in {"terms", "captures", "record"} => pos > 0 /\ Len(decisions) = pos - 1
  /\ phase \in {"read", "files"} => Len(decisions) = pos
  /\ Len(outputs) = Len(decisions) - (IF phase = "files" THEN 1 ELSE 0)
  /\ file \in Contents \cup {NoFile} /\ stream.pass \in {"look", "text", "base64"}
  /\ status \in {"ok", "unsupported", "file error", "record error"}

\* The values a path names, by the meaning of its segments alone.
Children(v, seg) ==
  CASE v.t = "obj" -> {v.m[j].v : j \in {n \in DOMAIN v.m : seg \in {"*", "**"}
                                                           \/ KeyOf(seg) = v.m[n].k}}
    [] v.t = "arr" -> {v.e[j] : j \in {n \in DOMAIN v.e : seg \in {"[]", "**"}
                                     \/ (IsNumeral(seg) /\ IndexOf(seg) = n - 1)}}
    [] OTHER -> {}

RECURSIVE Reaches(_, _, _)
Reaches(term, segs, v) ==
  IF segs = <<>> THEN Satisfies(term, v)
  ELSE IF Head(segs) = "..."
  THEN Reaches(term, Tail(segs), v) \/ \E x \in Children(v, "**") : Reaches(term, segs, x)
  ELSE \E x \in Children(v, Head(segs)) : Reaches(term, Tail(segs), x)

\* What a selector says of a record; only an object has fields.
RECURSIVE Holds(_, _)
Holds(sel, v) ==
  LET terms == LeafTerms(sel, <<>>)
      some == v.t = "obj" /\ \E i \in DOMAIN terms : Reaches(terms[i], sel.segs, v)
  IN  CASE sel.kind = "all" -> TRUE
        [] sel.kind = "and" -> \A i \in DOMAIN sel.children : Holds(sel.children[i], v)
        [] sel.kind = "or" -> \E i \in DOMAIN sel.children : Holds(sel.children[i], v)
        [] sel.kind = "not" -> ~Holds(sel.children[1], v)
        [] sel.kind = "ne" -> v.t = "obj" /\ ~some
        [] OTHER -> some

(* Every decision is what the selector says of that record alone.  The     *)
(* route does not matter: whole keys or streamed ones, duplicates merged,  *)
(* the scan cut short by the stop mask, the terms spread over several      *)
(* rescans, the slots of recursive paths left over from earlier records.   *)
DecisionsFollowSelector ==
  \A n \in DOMAIN decisions : decisions[n] = Holds(call.request.selector, call.input[n])

\* The scalars and empty containers of a value, each with its place.
RECURSIVE Leaves(_)
Leaves(v) ==
  LET below(k, x) == {[l EXCEPT !.at = <<k>> \o @] : l \in Leaves(x)}
  IN  CASE v.t = "obj" /\ v.m # <<>> -> UNION {below(v.m[j].k, v.m[j].v) : j \in DOMAIN v.m}
        [] v.t = "arr" /\ v.e # <<>> -> UNION {below(Numerals[j - 1], v.e[j]) : j \in DOMAIN v.e}
        [] OTHER -> {[at |-> <<>>, v |-> v]}

\* The values a projected path names, in the order of the record.  A numeral
\* names a member or an element; the last value counts.
RECURSIVE Named(_, _)
Named(v, path) ==
  LET children == CASE v.t = "obj" -> [j \in DOMAIN v.m |-> [k |-> v.m[j].k, v |-> v.m[j].v]]
                    [] v.t = "arr" -> [j \in DOMAIN v.e |->
                                         [k |-> IF j - 1 \in DOMAIN Numerals THEN Numerals[j - 1]
                                                ELSE "", v |-> v.e[j]]]
                    [] OTHER -> <<>>
      below[n \in 0..Len(children)] ==
        IF n = 0 THEN <<>>
        ELSE below[n - 1] \o (IF children[n].k = Head(path)
                              THEN Named(children[n].v, Tail(path)) ELSE <<>>)
  IN  IF path = <<>> THEN <<v>> ELSE below[Len(children)]

Fields(paths, v) ==
  [p \in {q \in DOMAIN paths : Named(v, paths[q]) # <<>>} |-> Last(Named(v, paths[p]))]

(* A projected record holds, for each path the record has, the value the  *)
(* record has there, and nothing else but the nulls that fill an array     *)
(* up to the index a path asks for.  The captures are found byte by byte   *)
(* as keys stream past them and the selector's terms; spread over rescans, *)
(* none is left over from another record.                                  *)
ProjectionHoldsTheFields ==
  \A n \in DOMAIN outputs :
    call.request.mode = "projection" /\ outputs[n].ok =>
      LET v == call.input[n]
          out == outputs[n].value
          paths == call.request.paths
          fields == Fields(paths, v)
          selected == decisions[n] \/ ~call.request.matchedOnly
      IN  IF outputs[n].written = "nothing" THEN selected => fields = <<>>
          ELSE /\ selected
               /\ \A p \in DOMAIN fields : Named(out, paths[p]) = <<fields[p]>>
               /\ \A l \in Leaves(out) : \/ l.v = Null
                                         \/ \E p \in DOMAIN fields : IsPrefix(paths[p], l.at)

\* The meaning of one action.  A plain member and its parents are made when
\* they are missing, and a value of a wrong kind on the way is replaced, but
\* not when a wildcard follows; `*`, `[]` and `**` name all members, all
\* elements and both; `...` and a last segment name every place below, the
\* outermost first.
PutAt(a, v) == IF v.t = "none" THEN a.value ELSE Put(a, v)
OnlyPlain(segs) == ToSet(segs) \cap Wild = {}
Names(seg, k) == seg \in {"*", "**", k}
NamesIndex(seg, i) == seg \in {"[]", "**"} \/ (i \in DOMAIN Numerals /\ Numerals[i] = seg)

RECURSIVE Assigned(_, _, _, _)
Assigned(a, segs, v, make) ==
  LET o == IF v.t = "obj" THEN v ELSE EmptyObject
      deep == segs # <<>> /\ Head(segs) = "..."
      seg == IF deep THEN segs[2] ELSE Head(segs)
      rest == IF deep THEN <<>> ELSE Tail(segs)
      below(x, named) == IF named THEN Assigned(a, rest, x, make /\ seg \notin Wild)
                         ELSE IF deep THEN Assigned(a, segs, x, FALSE) ELSE x
  IN  CASE segs = <<>> -> PutAt(a, v)
        [] segs # <<>> /\ v.t = "arr" /\ (deep \/ seg \in Wild) ->
             MapElements(v, LAMBDA i, x : below(x, NamesIndex(seg, i)))
        [] segs # <<>> /\ v.t = "obj" /\ (deep \/ seg \in Wild \/ HasKey(v, seg)) ->
             MapMembers(v, LAMBDA k, x : below(x, Names(seg, k)))
        [] OTHER ->
             IF ~make \/ ~OnlyPlain(segs) THEN v
             ELSE [o EXCEPT !.m = Append(@, NewMember(seg, Assigned(a, rest, [t |-> "none"], TRUE)))]

\* Members are dropped, elements become null.
RECURSIVE Removed(_, _)
Removed(v, segs) ==
  LET deep == Head(segs) = "..."
      seg == IF deep THEN segs[2] ELSE Head(segs)
      last == Len(segs) = IF deep THEN 2 ELSE 1
      below(x, named) == IF deep THEN Removed(x, segs)
                         ELSE IF named THEN Removed(x, Tail(segs)) ELSE x
  IN  CASE v.t = "obj" ->
             MapMembers(IF last THEN [v EXCEPT !.m = SelectSeq(@, LAMBDA m : ~Names(seg, m.k))] ELSE v,
                        LAMBDA k, x : IF last /\ ~deep THEN x ELSE below(x, Names(seg, k)))
        [] v.t = "arr" ->
             MapElements(v, LAMBDA i, x : IF last /\ NamesIndex(seg, i) THEN Null
                                          ELSE below(x, NamesIndex(seg, i)))
        [] OTHER -> v

Applied(a, v) == IF a.kind = "remove" THEN Removed(v, a.segs) ELSE Assigned(a, a.segs, v, TRUE)

RECURSIVE InTurn(_, _)
InTurn(actions, v) ==
  IF actions = <<>> \/ Fails(v) THEN v ELSE InTurn(Tail(actions), Applied(Head(actions), v))

\* The same value but for the order of members.
RECURSIVE Same(_, _)
Same(v, w) ==
  /\ v.t = w.t
  /\ CASE v.t = "obj" ->
            /\ Len(v.m) = Len(w.m)
            /\ \A j \in DOMAIN v.m : \E l \in DOMAIN w.m :
                 v.m[j].k = w.m[l].k /\ Same(v.m[j].v, w.m[l].v)
       [] v.t = "arr" -> Len(v.e) = Len(w.e) /\ \A j \in DOMAIN v.e : Same(v.e[j], w.e[j])
       [] OTHER -> v = w

\* The record as it is when the actions start on it.
Before(n) ==
  IF call.request.mode = "combined"
  THEN Projected(call.request.paths, Fields(call.request.paths, call.input[n]))
  ELSE call.input[n]

\* A program that adds to the text it has put at the same path is refused
\* whether or not a record has that path.
AddsToText(actions) ==
  \E i, j \in DOMAIN actions :
    /\ i < j /\ actions[i].kind = "set" /\ actions[i].value.t # "num"
    /\ actions[j].kind = "increment" /\ SamePath(actions[i], actions[j])

(* A matched record is rewritten as if the actions were applied to it one  *)
(* after the other, although the code goes through the record once and     *)
(* gathers the actions of each top-level key; and it is refused exactly    *)
(* when one of the actions in turn meets something it cannot add to or a   *)
(* sum that is not finite.  Merged increments are checked for sums that do *)
(* not round (lql_flat_eq_mutation_emit, validate_increment_targets,       *)
(* group_increment_action).                                                *)
MutationsApplyInOrder ==
  \A n \in DOMAIN outputs :
    call.request.mode \in {"mutation", "combined"} /\ ~UsesFile /\ decisions[n]
    /\ (outputs[n].ok => outputs[n].written = "record") =>
      LET wanted == InTurn(call.request.actions, Before(n))
      IN  IF outputs[n].ok THEN Same(outputs[n].value, wanted)
          ELSE \/ Fails(wanted) \/ call.input[n].t # "obj"
               \/ AddsToText(call.request.actions)

(* A record that fails - a value that cannot be added to, a projection     *)
(* that makes no sense, a file that changed under the call - leaves        *)
(* nothing of itself in the output.                                        *)
FailedRecordsWriteNothing ==
  \A n \in DOMAIN outputs : ~outputs[n].ok => outputs[n].written = "nothing"

\* A sequence of chunks that is text as a whole.
IsText(chunks) ==
  \A k \in DOMAIN chunks :
    /\ chunks[k] # "binary"
    /\ chunks[k] = "head" => k < Len(chunks) /\ chunks[k + 1] = "tail"
    /\ chunks[k] = "tail" => k > 1 /\ chunks[k - 1] = "head"

(* Whatever happens to the file under a call - between the check before    *)
(* the input, the look and the copy, between two values of a record,       *)
(* between two chunks of one value - a string written as text is text as a *)
(* whole, even if its chunks are of different versions; every chunk is one *)
(* the file had at that place while this very record was written, and the  *)
(* value ends where the file ended.  A record that loses its file leaves   *)
(* nothing (lql_flat_eq_file_value, lql_flat_eq_file_text_json_string,     *)
(* lql_flat_eq_mutation_program_needs_atomic_output).                      *)
FileValuesComeFromTheFile ==
  UsesFile /\ outputs # <<>> =>
    LET out == Last(outputs)
        copies == IF phase # "read" THEN {}
                  ELSE {l.v : l \in {x \in Leaves(out.value) : x.v.t = "copy"}}
    IN  /\ out.ok \/ out.written = "nothing"
        /\ \A c \in copies :
             /\ c.as = "text" => IsText(c.v)
             /\ \A k \in DOMAIN c.v : \E w \in seen : k <= Len(w) /\ w[k] = c.v[k]
             /\ \E w \in seen : Len(w) <= Len(c.v)
=============================================================================
