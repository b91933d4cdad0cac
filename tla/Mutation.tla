------------------------------- MODULE Mutation -------------------------------
(***************************************************************************)
(* Rewriting a matched record: the mutation executor of                    *)
(* src/lql_stream_flat_eq.c.  The code walks the spooled record and writes *)
(* the rewritten one; here every walk is a function from value to value.   *)
(* A walk that fails leaves an error where it stopped: what was written    *)
(* before it is the record up to that error.                               *)
(*                                                                         *)
(* An action is [kind |-> "set" | "increment" | "remove", segs, value].    *)
(* Values are those of JsonValue, and [t |-> "file", mode] is one that is  *)
(* still to be read from the file (RecordPipeline).  Segments are counted  *)
(* from 0.  Numbers are integers with a largest one: sums of doubles that  *)
(* are too large are not finite, but the rounding of the others is left    *)
(* out.                                                                    *)
(***************************************************************************)
EXTENDS JsonValue

CONSTANT Huge    \* the largest finite number

Failed == [t |-> "error"]
EmptyObject == [t |-> "obj", m |-> <<>>]

RECURSIVE Fails(_)
Fails(v) ==
  CASE v.t = "obj" -> \E j \in DOMAIN v.m : Fails(v.m[j].v)
    [] v.t = "arr" -> \E j \in DOMAIN v.e : Fails(v.e[j])
    [] OTHER -> v.t = "error"

(***************************************************************************)
(* Segments.                                                               *)
(***************************************************************************)
AnyKey == {"*", "**", "..."}
AnyIndex == {"[]", "**", "..."}
Wild == AnyKey \cup AnyIndex

Seg(a, d) == a.segs[d + 1]
IsLast(a, d) == d + 1 = Len(a.segs)
SuffixWild(a, d) == \E p \in d..(Len(a.segs) - 1) : Seg(a, p) \in Wild

KeyMatches(seg, k) == seg \in AnyKey \/ (seg # "[]" /\ seg = k)
IndexMatches(seg, i) == seg \in AnyIndex \/ (i \in DOMAIN Numerals /\ Numerals[i] = seg)

RECURSIVE Collapse(_, _)
Collapse(a, d) ==
  IF d + 2 < Len(a.segs) /\ Seg(a, d) = "..." /\ Seg(a, d + 1) = "..."
     /\ Seg(a, d + 2) \notin Wild
  THEN Collapse(a, d + 1) ELSE d

TerminalRepeated(a, d) ==
  d + 2 = Len(a.segs) /\ Seg(a, d) = "..." /\ Seg(a, d + 1) = "..."

AcceptsSegment(v, seg) ==
  \/ v.t = "obj" /\ seg # "[]"
  \/ v.t = "arr" /\ (seg \in AnyIndex \/ IsNumeral(seg))

(***************************************************************************)
(* The value an action puts.                                               *)
(***************************************************************************)
Finite(n) == n \in -Huge..Huge

\* A sum that is not finite stays so.
Plus(x, y) == IF Finite(x) /\ Finite(y) /\ Finite(x + y) THEN x + y ELSE Huge + 1

Number(n) == IF Finite(n) THEN [t |-> "num", v |-> n] ELSE Failed

Increment(a, v) == IF v.t = "num" THEN Number(Plus(v.v, a.value.v)) ELSE Failed

(***************************************************************************)
(* Reading a file value: it is looked at, if it is to be text or may be,   *)
(* and then opened again and copied, as text or in base64.  A file is a    *)
(* sequence of chunks, as the reads return them: "text", "head" and "tail" *)
(* for text that is cut within a character, and "binary".                  *)
(***************************************************************************)
FirstPass(mode) == IF mode = "base64" THEN "base64" ELSE "look"

(* mutant: the copy trusts what the look has found *)
MutantValidates(pass) == pass = "look"

Validates(pass) == pass \in {"look", "text"}

\* lql_flat_eq_utf8_accept, a chunk at a time
Utf8Accept(state, chunk) ==
  CASE state = "whole" /\ chunk = "text" -> "whole"
    [] state = "whole" /\ chunk = "head" -> "open"
    [] state = "open" /\ chunk = "tail" -> "whole"
    [] OTHER -> "invalid"

\* The places of a record that wait for the file, the first one first.
RECURSIVE Waits(_), WaitingMode(_), Fill(_, _)
Waits(v) ==
  CASE v.t = "obj" -> \E j \in DOMAIN v.m : Waits(v.m[j].v)
    [] v.t = "arr" -> \E j \in DOMAIN v.e : Waits(v.e[j])
    [] OTHER -> v.t = "file"

FirstWaiting(values) ==
  CHOOSE j \in DOMAIN values : Waits(values[j]) /\ \A i \in 1..(j - 1) : ~Waits(values[i])

MemberValues(v) == [j \in DOMAIN v.m |-> v.m[j].v]

WaitingMode(v) ==
  CASE v.t = "obj" -> WaitingMode(MemberValues(v)[FirstWaiting(MemberValues(v))])
    [] v.t = "arr" -> WaitingMode(v.e[FirstWaiting(v.e)])
    [] OTHER -> v.mode

Fill(v, x) ==
  CASE v.t = "obj" -> [v EXCEPT !.m[FirstWaiting(MemberValues(v))].v = Fill(@, x)]
    [] v.t = "arr" -> [v EXCEPT !.e[FirstWaiting(v.e)] = Fill(@, x)]
    [] OTHER -> x

\* The value where there was none.
New(a) == IF a.kind = "increment" THEN Number(a.value.v) ELSE a.value

Put(a, v) == IF a.kind = "set" THEN a.value ELSE Increment(a, v)

RECURSIVE ObjectChain(_, _)
ObjectChain(a, d) ==
  [t |-> "obj",
   m |-> <<NewMember(Seg(a, d), IF IsLast(a, d) THEN New(a) ELSE ObjectChain(a, d + 1))>>]

MapMembers(v, F(_, _)) ==
  [v EXCEPT !.m = [j \in DOMAIN @ |-> [@[j] EXCEPT !.v = F(v.m[j].k, @)]]]
MapElements(v, F(_, _)) == [v EXCEPT !.e = [j \in DOMAIN @ |-> F(j - 1, @[j])]]
DropKey(v, seg) == [v EXCEPT !.m = SelectSeq(@, LAMBDA m : ~KeyMatches(seg, m.k))]

(***************************************************************************)
(* Sets and increments that touch only what exists.                        *)
(***************************************************************************)
RECURSIVE SetExisting(_, _, _), SetRecursive(_, _, _)

\* lql_flat_eq_mutation_set_existing_path
SetExisting(a, v, d0) ==
  LET d == Collapse(a, d0)
      ends == IsLast(a, d) \/ TerminalRepeated(a, d)
      set(x) == IF ends THEN a.value ELSE SetExisting(a, x, d + 1)
  IN  IF Seg(a, d) = "..." /\ ~ends THEN SetRecursive(a, v, d + 1)
      ELSE CASE v.t = "obj" ->
                  MapMembers(v, LAMBDA k, x : IF KeyMatches(Seg(a, d), k) THEN set(x) ELSE x)
             [] v.t = "arr" ->
                  MapElements(v, LAMBDA i, x : IF IndexMatches(Seg(a, d), i) THEN set(x) ELSE x)
             [] OTHER -> v

\* lql_flat_eq_mutation_set_recursive_key
SetRecursive(a, v, d0) ==
  LET d == Collapse(a, d0)
      seg == Seg(a, d)
      set(x, wild) == IF IsLast(a, d) THEN a.value
                      ELSE IF wild THEN SetRecursive(a, x, d + 1)
                      ELSE SetExisting(a, x, d + 1)
  IN  IF d >= Len(a.segs) THEN v
      ELSE IF (IsLast(a, d) \/ TerminalRepeated(a, d)) /\ seg \in AnyIndex THEN a.value
      ELSE CASE v.t = "obj" ->
                  MapMembers(v, LAMBDA k, x : IF KeyMatches(seg, k) THEN set(x, seg = "...")
                                              ELSE SetRecursive(a, x, d))
             [] v.t = "arr" ->
                  MapElements(v, LAMBDA i, x : IF IndexMatches(seg, i) THEN set(x, seg \in AnyIndex)
                                               ELSE SetRecursive(a, x, d))
             [] OTHER -> v

\* The increments know a repeated terminal `...` only at the first level.
RECURSIVE IncrementExisting(_, _, _), IncrementRecursive(_, _, _)

\* lql_flat_eq_mutation_increment_existing_path
IncrementExisting(a, v, d0) ==
  LET d == Collapse(a, d0)
      add(x) == IF IsLast(a, d) THEN Increment(a, x) ELSE IncrementExisting(a, x, d + 1)
  IN  IF Seg(a, d) = "..." /\ ~IsLast(a, d) THEN IncrementRecursive(a, v, d + 1)
      ELSE CASE v.t = "obj" ->
                  MapMembers(v, LAMBDA k, x : IF KeyMatches(Seg(a, d), k) THEN add(x) ELSE x)
             [] v.t = "arr" ->
                  MapElements(v, LAMBDA i, x : IF IndexMatches(Seg(a, d), i) THEN add(x) ELSE x)
             [] OTHER -> v

\* lql_flat_eq_mutation_increment_recursive_key
IncrementRecursive(a, v, d0) ==
  LET d == Collapse(a, d0)
      seg == Seg(a, d)
      add(x, wild) == IF IsLast(a, d) THEN Increment(a, x)
                      ELSE IF wild THEN IncrementRecursive(a, x, d + 1)
                      ELSE IncrementExisting(a, x, d + 1)
  IN  IF d >= Len(a.segs) THEN v
      ELSE IF IsLast(a, d) /\ seg \in AnyIndex THEN Increment(a, v)
      ELSE CASE v.t = "obj" ->
                  MapMembers(v, LAMBDA k, x : IF KeyMatches(seg, k) THEN add(x, seg \in AnyKey)
                                              ELSE IncrementRecursive(a, x, d))
             [] v.t = "arr" ->
                  MapElements(v, LAMBDA i, x : IF IndexMatches(seg, i) THEN add(x, seg \in AnyIndex)
                                               ELSE IncrementRecursive(a, x, d))
             [] OTHER -> v

(***************************************************************************)
(* Below the top-level key of an action, creating what is missing: the     *)
(* segments before the first wildcard are made, those after never.         *)
(***************************************************************************)
Created(a, v, d) == IF SuffixWild(a, d) THEN v ELSE ObjectChain(a, d)

\* The member named by the last plain segment, or its parents, are appended.
Appended(a, v, d) ==
  IF SuffixWild(a, d + 1) THEN v
  ELSE [v EXCEPT !.m = Append(@, NewMember(Seg(a, d),
                                           IF IsLast(a, d) THEN New(a) ELSE ObjectChain(a, d + 1)))]

HasKey(v, k) == \E j \in DOMAIN v.m : v.m[j].k = k

RECURSIVE NestedSet(_, _, _)
NestedSet(a, v, d0) ==
  LET d == Collapse(a, d0)
      seg == Seg(a, d)
      existing(x) == IF IsLast(a, d) THEN a.value ELSE SetExisting(a, x, d + 1)
  IN  IF seg = "..." /\ ~IsLast(a, d) THEN SetRecursive(a, v, d + 1)
      ELSE IF v.t = "arr" /\ seg \in AnyIndex THEN MapElements(v, LAMBDA i, x : existing(x))
      ELSE IF v.t = "arr" /\ seg = "*" THEN v
      ELSE IF v.t # "obj" THEN Created(a, v, d)
      ELSE IF seg = "[]" THEN v
      ELSE IF seg \in AnyKey THEN MapMembers(v, LAMBDA k, x : existing(x))
      ELSE IF HasKey(v, seg)
      THEN MapMembers(v, LAMBDA k, x : IF k # seg THEN x
                                       ELSE IF IsLast(a, d) THEN a.value
                                       ELSE NestedSet(a, x, d + 1))
      ELSE Appended(a, v, d)

\* lql_flat_eq_mutation_increment_existing_key
IncrementKey(a, v, d) ==
  IF v.t # "obj" THEN v
  ELSE MapMembers(v, LAMBDA k, x : IF KeyMatches(Seg(a, d), k) THEN Increment(a, x) ELSE x)

IncrementElements(a, v, d) ==
  IF Seg(a, d) \notin AnyIndex THEN (IF Seg(a, d) = "*" THEN v ELSE Created(a, v, d))
  ELSE MapElements(v, LAMBDA i, x : IF IsLast(a, d) \/ TerminalRepeated(a, d) THEN Increment(a, x)
                                    ELSE IncrementExisting(a, x, d + 1))

RECURSIVE NestedIncrement(_, _, _)
NestedIncrement(a, v, d0) ==
  LET d == Collapse(a, d0)
      seg == Seg(a, d)
      ends == IsLast(a, d) \/ TerminalRepeated(a, d)
  IN  IF seg = "..." /\ ~ends THEN IncrementRecursive(a, v, d + 1)
      ELSE IF v.t = "arr" THEN IncrementElements(a, v, d)
      ELSE IF v.t # "obj" THEN Created(a, v, d)
      ELSE IF seg = "[]" THEN v
      ELSE IF seg \in AnyKey
      THEN MapMembers(v, LAMBDA k, x : IF ends THEN Increment(a, x)
                                       ELSE IF d + 2 = Len(a.segs) THEN IncrementKey(a, x, d + 1)
                                       ELSE x)
      ELSE IF HasKey(v, seg)
      THEN MapMembers(v, LAMBDA k, x : IF k # seg THEN x
                                       ELSE IF IsLast(a, d) THEN Increment(a, x)
                                       ELSE NestedIncrement(a, x, d + 1))
      ELSE Appended(a, v, d)

(***************************************************************************)
(* Removal: members go, array elements become null.                        *)
(***************************************************************************)
RECURSIVE NestedRemove(_, _, _), RemoveRecursive(_, _, _)

RemoveElements(a, v, d) ==
  MapElements(v, LAMBDA i, x : IF ~IndexMatches(Seg(a, d), i) THEN x
                               ELSE IF IsLast(a, d) THEN Null ELSE NestedRemove(a, x, d + 1))

NestedRemove(a, v, d0) ==
  LET d == Collapse(a, d0)
      seg == Seg(a, d)
  IN  IF seg = "..." /\ ~IsLast(a, d) THEN RemoveRecursive(a, v, d + 1)
      ELSE CASE v.t = "arr" -> RemoveElements(a, v, d)
             [] v.t = "obj" /\ IsLast(a, d) -> DropKey(v, seg)
             [] v.t = "obj" /\ ~IsLast(a, d) ->
                  MapMembers(v, LAMBDA k, x : IF KeyMatches(seg, k) THEN NestedRemove(a, x, d + 1)
                                              ELSE x)
             [] OTHER -> v

RemoveRecursive(a, v, d0) ==
  LET d == Collapse(a, d0)
      seg == Seg(a, d)
      remove(x, any) == IF any THEN RemoveRecursive(a, x, d + 1) ELSE NestedRemove(a, x, d + 1)
  IN  IF d >= Len(a.segs) THEN v
      ELSE IF IsLast(a, d) /\ seg \in AnyIndex THEN Null
      ELSE CASE v.t = "arr" ->
                  MapElements(v, LAMBDA i, x : IF ~IndexMatches(seg, i) THEN RemoveRecursive(a, x, d)
                                               ELSE IF IsLast(a, d) THEN Null
                                               ELSE remove(x, seg \in AnyIndex))
             [] v.t = "obj" ->
                  MapMembers(IF IsLast(a, d) THEN DropKey(v, seg) ELSE v,
                             LAMBDA k, x : IF ~KeyMatches(seg, k) THEN RemoveRecursive(a, x, d)
                                           ELSE remove(x, seg \in AnyKey))
             [] OTHER -> v

(***************************************************************************)
(* Before a record is rewritten, every increment whose target no earlier   *)
(* action may have replaced must find numbers.                             *)
(***************************************************************************)
SamePath(a, b) == a.segs = b.segs

MayOverlap(a, b) ==
  LET both == 1..(IF Len(a.segs) < Len(b.segs) THEN Len(a.segs) ELSE Len(b.segs))
      meets(p) == a.segs[p] = b.segs[p] \/ {a.segs[p], b.segs[p]} \cap Wild # {}
      open(p) == "..." \in {a.segs[p], b.segs[p]}
  IN  \A p \in both : meets(p) \/ \E q \in 1..(p - 1) : open(q)

\* The last earlier set or remove that may have touched the target, or 0.
ReplacedBy(actions, n) ==
  LET earlier == {i \in 1..(n - 1) : actions[i].kind \in {"set", "remove"}
                                     /\ MayOverlap(actions[i], actions[n])}
  IN  IF earlier = {} THEN 0 ELSE CHOOSE i \in earlier : \A j \in earlier : j <= i

RECURSIVE ValidTargets(_, _, _)
ValidTargets(a, v, d) ==
  LET seg == Seg(a, d)
      number(x, p) == IF p >= Len(a.segs) \/ (p = d + 1 /\ TerminalRepeated(a, d))
                      THEN x.t = "num" ELSE ValidTargets(a, x, p)
      descend == seg = "..." /\ ~IsLast(a, d) /\ ~TerminalRepeated(a, d)
      target == IF descend THEN d + 1 ELSE d
      valid(x, matches) == /\ matches => number(x, target + 1)
                           /\ descend => ValidTargets(a, x, d)
  IN  CASE v.t = "obj" ->
             \A j \in DOMAIN v.m : valid(v.m[j].v, KeyMatches(Seg(a, target), v.m[j].k))
        [] v.t = "arr" ->
             \A j \in DOMAIN v.e :
               valid(v.e[j], Seg(a, target) \in AnyIndex
                             \/ (descend /\ IndexMatches(Seg(a, target), j - 1)))
        [] OTHER -> TRUE

\* lql_flat_eq_mutation_validate_increment_targets
Valid(actions, v) ==
  \A n \in DOMAIN actions :
    actions[n].kind = "increment" =>
      LET r == ReplacedBy(actions, n)
      IN  IF r = 0 THEN ValidTargets(actions[n], v, 0)
          ELSE (actions[r].kind = "set" /\ SamePath(actions[r], actions[n]))
               => actions[r].value.t = "num"

(***************************************************************************)
(* One top-level key.  A slot is the value the key has so far, and whether *)
(* it is there: a removed key keeps its last value, which the code still   *)
(* looks at.                                                               *)
(***************************************************************************)
TopWild(a) == Seg(a, 0) \in AnyKey
TopMatches(a, k) == TopWild(a) \/ Seg(a, 0) = k
Shortened(a) == [a EXCEPT !.segs = <<Head(@)>>]

\* lql_flat_eq_mutation_apply_nested_to_spool; consumed: the top segment is
\* a wildcard, not `...`, that stands for this key.
ApplyNested(a, v, consumed) ==
  LET below(recursive, existing, nested) ==
        IF Seg(a, 0) = "..." THEN recursive
        ELSE IF TopWild(a) /\ ~consumed THEN existing ELSE nested
  IN  IF consumed /\ TopWild(a) /\ ~AcceptsSegment(v, Seg(a, 1)) THEN v
      ELSE CASE a.kind = "remove" ->
                  below(RemoveRecursive(a, v, 1), NestedRemove(a, v, 1), NestedRemove(a, v, 1))
             [] a.kind = "set" ->
                  below(SetRecursive(a, v, 1), SetExisting(a, v, 1), NestedSet(a, v, 1))
             [] OTHER ->
                  below(IncrementRecursive(a, v, 1), IncrementExisting(a, v, 1),
                        NestedIncrement(a, v, 1))

ApplyOrdered(a, slot, allowCreate, consumed) ==
  LET value(v) == [present |-> TRUE, v |-> v]
  IN  IF ~slot.present /\ ~allowCreate THEN slot
      ELSE IF Len(a.segs) = 1
      THEN IF a.kind = "remove" THEN [slot EXCEPT !.present = FALSE]
           ELSE value(IF slot.present THEN Put(a, slot.v) ELSE New(a))
      ELSE IF ~slot.present /\ (a.kind = "remove" \/ SuffixWild(a, 1)) THEN slot
      ELSE value(ApplyNested(a, IF slot.present THEN slot.v ELSE EmptyObject, consumed))

\* An action that starts with `...` acts on the key itself when the key
\* matches its next segment, and then on what is below.  The result is the
\* list of actions to apply in turn.
AtKey(a, k, v) ==
  LET names == {p \in 1..(Len(a.segs) - 1) : Seg(a, p) # "..."}
      p == CHOOSE q \in names : \A r \in names : q <= r
  IN  IF Len(a.segs) = 1 \/ Seg(a, 0) # "..." THEN <<a>>
      ELSE IF names = {} THEN <<Shortened(a)>>
      ELSE IF ~KeyMatches(Seg(a, p), k) THEN <<a>>
      ELSE IF IsLast(a, p) THEN <<Shortened(a)>>
      ELSE IF ~Container(v) THEN <<>>
      ELSE <<[a EXCEPT !.segs = SubSeq(@, p + 1, Len(@))], a>>

SecondTurn(turns, slot) ==
  IF Len(turns) = 2 /\ slot.present /\ ~Fails(slot.v)
  THEN ApplyOrdered(turns[2], slot, TRUE, FALSE) ELSE slot

TakeTurns(turns, slot, existing, consumed) ==
  IF turns = <<>> THEN slot
  ELSE SecondTurn(turns,
         ApplyOrdered(turns[1], slot,
                      IF existing THEN slot.present \/ ~consumed ELSE ~TopWild(turns[1]),
                      consumed))

\* lql_flat_eq_mutation_emit_existing_key_group and _missing_key_group
RECURSIVE KeyGroup(_, _, _, _)
KeyGroup(actions, k, existing, slot) ==
  IF actions = <<>> \/ (slot.present /\ Fails(slot.v)) THEN slot
  ELSE LET a == Head(actions)
           turns == IF existing \/ slot.present THEN AtKey(a, k, slot.v) ELSE <<a>>
       IN  KeyGroup(Tail(actions), k, existing,
                    IF ~TopMatches(a, k) THEN slot
                    ELSE TakeTurns(turns, slot, existing,
                                   existing /\ TopWild(a) /\ Seg(a, 0) # "..."))

(***************************************************************************)
(* lql_flat_eq_mutation_emit: the members of the record in order, then the *)
(* keys the record lacks.                                                  *)
(***************************************************************************)
SameTop(a, b) == Seg(a, 0) = Seg(b, 0)
Group(actions, a) == SelectSeq(actions, LAMBDA b : SameTop(a, b))

\* Groups that need no intermediate value: one action, or only top-level
\* increments, whose deltas are added up, or only top-level sets.
Grouped(group) ==
  LET total[n \in 0..Len(group)] == IF n = 0 THEN 0 ELSE Plus(total[n - 1], group[n].value.v)
  IN  IF group[1].kind = "increment" THEN [group[1] EXCEPT !.value.v = total[Len(group)]]
      ELSE group[Len(group)]

(* mutant: the kinds of the actions are not compared *)
MutantUniformTop(group, kind) ==
  group[1].kind = kind /\ \A j \in DOMAIN group : Len(group[j].segs) = 1

UniformTop(group, kind) ==
  \A j \in DOMAIN group : group[j].kind = kind /\ Len(group[j].segs) = 1

Direct(actions, group) ==
  /\ ~\E j \in DOMAIN actions : TopWild(actions[j])
  /\ Len(group) = 1 \/ UniformTop(group, "increment") \/ UniformTop(group, "set")

ExactNested(actions, group) ==
  /\ ~\E j \in DOMAIN actions : TopWild(actions[j])
  /\ \A j \in DOMAIN group : Len(group[j].segs) > 1

\* lql_flat_eq_mutation_emit_existing_nested_group
RECURSIVE NestedGroup(_, _)
NestedGroup(group, v) ==
  IF group = <<>> \/ Fails(v) THEN v
  ELSE NestedGroup(Tail(group), ApplyNested(Head(group), v, FALSE))

ExistingKey(actions, m) ==
  LET matching == SelectSeq(actions, LAMBDA a : TopMatches(a, m.k))
      group == Group(actions, matching[1])
      slot == [present |-> TRUE, v |-> m.v]
  IN  IF matching = <<>> THEN slot
      ELSE IF Direct(actions, group) THEN ApplyOrdered(Grouped(group), slot, TRUE, FALSE)
      ELSE IF ExactNested(actions, group) THEN [slot EXCEPT !.v = NestedGroup(group, m.v)]
      ELSE KeyGroup(actions, m.k, TRUE, slot)

MissingKey(actions, a) ==
  LET group == Group(actions, a)
      slot == [present |-> FALSE, v |-> Null]
  IN  IF Direct(actions, group) THEN ApplyOrdered(Grouped(group), slot, TRUE, FALSE)
      ELSE KeyGroup(actions, Seg(a, 0), FALSE, slot)

Creates(actions, members, n) ==
  LET a == actions[n]
      found(b) == \E j \in DOMAIN members : TopMatches(b, members[j].k)
      group == Group(actions, a)
  IN  /\ ~SuffixWild(a, 0) /\ ~found(a)
      /\ \E j \in DOMAIN group : group[j].kind # "remove"

MemberOf(k, slot) == IF slot.present THEN <<NewMember(k, slot.v)>> ELSE <<>>

RECURSIVE NewKeys(_, _, _, _)
NewKeys(actions, members, n, done) ==
  IF n > Len(actions) THEN <<>>
  ELSE LET k == Seg(actions[n], 0)
       IN  IF k \in done \/ ~Creates(actions, members, n)
           THEN NewKeys(actions, members, n + 1, done)
           ELSE MemberOf(k, MissingKey(actions, actions[n]))
                \o NewKeys(actions, members, n + 1, done \cup {k})

KeptMembers(members, slots) ==
  LET kept == SelectSeq([j \in DOMAIN members |-> j], LAMBDA j : slots[j].present)
  IN  [n \in DOMAIN kept |-> [members[kept[n]] EXCEPT !.v = slots[kept[n]].v]]

Rewritten(actions, v) ==
  [t |-> "obj", m |-> KeptMembers(v.m, [j \in DOMAIN v.m |-> ExistingKey(actions, v.m[j])])
                      \o NewKeys(actions, v.m, 1, {})]

\* lql_flat_eq_mutation_program_needs_atomic_output
NeedsAtomic(actions) ==
  \/ \E i \in DOMAIN actions : actions[i].value.t = "file"
  \/ \E i, j \in DOMAIN actions :
       /\ i < j /\ Len(actions[i].segs) > 1 /\ actions[i].kind # "remove"
       /\ actions[j].kind = "increment" /\ Len(actions[j].segs) = 1
       /\ SameTop(actions[i], actions[j])

(***************************************************************************)
(* What one record gives: ok, how much is written ("nothing", "record",    *)
(* "part"), the value, and how the file values are read that a later       *)
(* action has replaced: they can still fail the record.                    *)
(***************************************************************************)
Emitted(out, lost) == [ok |-> TRUE, written |-> "record", value |-> out, lost |-> lost]
Refused(written) == [ok |-> FALSE, written |-> written, value |-> Failed, lost |-> {}]

RECURSIVE FileModes(_)
FileModes(v) ==
  CASE v.t = "obj" -> UNION {FileModes(v.m[j].v) : j \in DOMAIN v.m}
    [] v.t = "arr" -> UNION {FileModes(v.e[j]) : j \in DOMAIN v.e}
    [] OTHER -> IF v.t = "file" THEN {v.mode} ELSE {}

FileActions(actions) == {i \in DOMAIN actions : actions[i].value.t = "file"}

\* The record rewritten, and how it would be if a file value failed.
Rewrites(actions, v) ==
  [i \in {0} \cup FileActions(actions) |->
     Rewritten(IF i = 0 THEN actions ELSE [actions EXCEPT ![i].value = Failed], v)]

\* A file value is read if its failure would fail the record.
LostModes(actions, outs) ==
  {actions[i].value.mode : i \in {j \in FileActions(actions) : Fails(outs[j])}}
    \ FileModes(outs[0])

\* A record that fails is buffered or has been written in part.
MutationFails(actions) == Refused(IF NeedsAtomic(actions) THEN "nothing" ELSE "part")

Finish(actions, outs) ==
  IF Fails(outs[0]) THEN MutationFails(actions)
  ELSE Emitted(outs[0], LostModes(actions, outs))

MutationEmit(actions, v) ==
  IF v.t # "obj" \/ ~Valid(actions, v) THEN Refused("nothing")
  ELSE Finish(actions, Rewrites(actions, v))
=============================================================================
