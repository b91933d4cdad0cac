------------------------------ MODULE Projection ------------------------------
(***************************************************************************)
(* The projection of a record on a list of paths: src/lql_projection.c     *)
(* compiles the list, the scanner records where each path's value lies     *)
(* (PathMatch), and src/lql_stream_flat_eq.c writes those values as a new  *)
(* object.  Values are those of JsonValue, paths are sequences of literal  *)
(* segments; what is written before a failure is cut at the error.         *)
(***************************************************************************)
EXTENDS Mutation

CONSTANT KeyOrder    \* the keys of objects, in the order of strcmp

\* projection_decode_path
Decode(path) == [j \in DOMAIN path |-> KeyOf(path[j])]

IsAbove(p, q) == Len(p) < Len(q) /\ SubSeq(q, 1, Len(p)) = p

(***************************************************************************)
(* lql_projection_parse_internal: empty paths are skipped and a repeated   *)
(* path is kept once; the list is refused when one path lies below         *)
(* another, when one starts with an index, or when nothing is left.  Paths *)
(* are compared as written and then decoded.                               *)
(***************************************************************************)
RECURSIVE ParsedPaths(_, _)
ParsedPaths(texts, kept) ==
  IF texts = <<>> THEN [ok |-> kept # <<>>, paths |-> [j \in DOMAIN kept |-> Decode(kept[j])]]
  ELSE LET path == Head(texts)
           conflicts(q) == IsAbove(path, q) \/ IsAbove(q, path)
       IN  IF path = <<>> \/ \E j \in DOMAIN kept : kept[j] = path
           THEN ParsedPaths(Tail(texts), kept)
           ELSE IF (\E j \in DOMAIN kept : conflicts(kept[j])) \/ IsNumeral(Head(Decode(path)))
           THEN [ok |-> FALSE, paths |-> <<>>]
           ELSE ParsedPaths(Tail(texts), Append(kept, path))

(***************************************************************************)
(* Writing the captures below a common prefix.                             *)
(***************************************************************************)
\* The paths of a group that go on with a segment; the first one stands
\* for them, even when another of them is the one that was found.
Under(paths, group, depth, seg) == {p \in group : paths[p][depth + 1] = seg}
Representative(ps) == CHOOSE p \in ps : \A q \in ps : p <= q

RECURSIVE ProjectionNode(_, _, _, _)

ProjectionChild(paths, caps, group, depth, seg) ==
  LET under == Under(paths, group, depth, seg)
      first == Representative(under)
  IN  IF Len(paths[first]) = depth + 1
      THEN caps[first]
      ELSE ProjectionNode(paths, caps, {p \in under : Len(paths[p]) > depth + 1}, depth + 1)

ProjectionObject(paths, caps, group, depth, segs) ==
  LET keys == SelectSeq(KeyOrder, LAMBDA k : k \in segs)
  IN  [t |-> "obj", m |-> [n \in DOMAIN keys |->
         NewMember(keys[n], ProjectionChild(paths, caps, group, depth, keys[n]))]]

ProjectionArray(paths, caps, group, depth, segs) ==
  LET last == CHOOSE n \in DOMAIN Numerals :
                /\ Numerals[n] \in segs
                /\ \A s \in segs : IndexOf(s) <= n
  IN  [t |-> "arr", e |-> [n \in 1..(last + 1) |->
         IF Numerals[n - 1] \in segs
         THEN ProjectionChild(paths, caps, group, depth, Numerals[n - 1]) ELSE Null]]

\* Children that are indexes make an array, others an object, both a failure;
\* the top is always an object.
ProjectionNode(paths, caps, group, depth) ==
  LET segs == {paths[p][depth + 1] : p \in group \cap DOMAIN caps}
      numerals == {s \in segs : IsNumeral(s)}
  IN  IF depth = 0 \/ numerals = {}
      THEN ProjectionObject(paths, caps, group, depth, segs)
      ELSE IF numerals = segs THEN ProjectionArray(paths, caps, group, depth, segs)
      ELSE Failed

Projected(paths, caps) == ProjectionNode(paths, caps, DOMAIN paths, 0)

(***************************************************************************)
(* What one record gives in each output mode.  caps are the captures at    *)
(* hand when the record is written.                                        *)
(***************************************************************************)
NothingWritten == [ok |-> TRUE, written |-> "nothing", value |-> Null, lost |-> {}]
Written(v) == Emitted(v, {})

ProjectionEmit(caps, v, projected) ==
  IF v.t # "obj" THEN Refused("nothing")
  ELSE IF DOMAIN caps = {} THEN NothingWritten
  ELSE IF Fails(projected) THEN Refused("part")
  ELSE Written(projected)

\* lql_flat_eq_projection_then_mutation_emit
CombinedEmit(caps, v, projected, actions) ==
  IF v.t # "obj" THEN Refused("nothing")
  ELSE IF DOMAIN caps = {} THEN NothingWritten
  ELSE IF Fails(projected) THEN Refused("nothing")
  ELSE MutationEmit(actions, projected)

\* The output part of lql_flat_eq_record_words.
RecordOutput(request, matched, v, caps) ==
  CASE request.mode = "selected" ->
         IF matched \/ ~request.matchedOnly THEN Written(v) ELSE NothingWritten
    [] request.mode = "projection" ->
         IF matched \/ ~request.matchedOnly THEN ProjectionEmit(caps, v, Projected(request.paths, caps))
         ELSE NothingWritten
    [] request.mode = "mutation" ->
         IF matched THEN MutationEmit(request.actions, v)
         ELSE IF request.matchedOnly THEN NothingWritten ELSE Written(v)
    [] request.mode = "combined" ->
         IF matched THEN CombinedEmit(caps, v, Projected(request.paths, caps), request.actions)
         ELSE IF request.matchedOnly THEN NothingWritten
         ELSE ProjectionEmit(caps, v, Projected(request.paths, caps))
    [] OTHER -> NothingWritten
=============================================================================
