--------------------------- MODULE SelectorProgram ---------------------------
(***************************************************************************)
(* From a selector to the decision on a record: src/lql_stream_flat_eq.c   *)
(* lowers the selector tree to terms, lets the scanner collect their hits  *)
(* (PathMatch) and evaluates the tree on the hits.  The scanner keeps hits *)
(* in one word; a program of more terms is first rid of duplicates, and if *)
(* it is still too wide every record is spooled and scanned once per word. *)
(*                                                                         *)
(* A selector is [kind |-> "all"], [kind |-> "and" | "or" | "not",         *)
(* children], or a leaf [kind, segs, any, since]: any is the sequence of   *)
(* its values [t, v] (empty when it has none), since tells that its bound  *)
(* is taken from the clock.                                                *)
(***************************************************************************)
EXTENDS PathMatch, SequencesExt

CONSTANT
  Word,            \* LQL_FLAT_EQ_TERM_CAPACITY: the hits one scan can report
  SegmentLimit     \* the segments of a path that fit the segment masks

(***************************************************************************)
(* Lowering.  A term remembers the leaf it belongs to by its position in   *)
(* the tree.                                                               *)
(***************************************************************************)
Inner(sel) == sel.kind \in {"and", "or", "not"}
Concatenated(seqs) == FlattenSeq(seqs)

\* lql_flat_eq_selector_needs_time
RECURSIVE NeedsTime(_)
NeedsTime(sel) ==
  IF Inner(sel) THEN \E i \in DOMAIN sel.children : NeedsTime(sel.children[i])
  ELSE sel.kind # "all" /\ sel.since

\* lql_flat_eq_selector_term_count
RECURSIVE TermCount(_)
TermCount(sel) ==
  CASE Inner(sel) -> MapThenSumSet(LAMBDA i : TermCount(sel.children[i]), DOMAIN sel.children)
    [] sel.kind = "all" -> 0
    [] sel.kind = "in" -> Len(sel.any)
    [] sel.kind \in {"contains", "icontains"} -> IF sel.any = <<>> THEN 1 ELSE Len(sel.any)
    [] OTHER -> 1

LiteralKind(value) ==
  [str |-> "eq", num |-> "number_eq", bool |-> "bool_eq", null |-> "null_eq"][value.t]

\* lql_flat_eq_literal_object_path
PathFits(segs) == segs # <<>> /\ Len(segs) <= SegmentLimit /\ "" \notin ToSet(segs)

\* Whether every leaf can be a term; a clock that cannot be read refuses
\* the selector.
RECURSIVE Lowers(_, _)
Lowers(sel, clock) ==
  IF Inner(sel)
  THEN /\ \A i \in DOMAIN sel.children : Lowers(sel.children[i], clock)
       /\ sel.kind = "not" => Len(sel.children) = 1
  ELSE sel.kind # "all" =>
         /\ PathFits(sel.segs)
         /\ sel.kind = "in" => sel.any # <<>>
         /\ sel.kind \in TextKinds => \A i \in DOMAIN sel.any : sel.any[i].t = "str"
         /\ sel.since => clock

\* A term keeps its path with the places of its indexes and `...` segments.
Term(sel, at, kind, value) == [segs |-> sel.segs, kind |-> kind, value |-> value, leaf |-> at]

ValueTerms(sel, at, kind(_)) ==
  [i \in DOMAIN sel.any |-> Term(sel, at, kind(sel.any[i]), sel.any[i].v)]

\* lql_flat_eq_append_contains: one term for each text, or for its presence.
ContainsTerms(sel, at) ==
  IF sel.any = <<>> THEN <<Term(sel, at, "valueless_present", "")>>
  ELSE ValueTerms(sel, at, LAMBDA v : sel.kind)

RangeTerms(sel, at) ==
  ValueTerms(sel, at, LAMBDA v : IF v.t = "num" THEN "number_range" ELSE "temporal_range")

\* The bound is written in the selector or taken from the clock.
DateTerms(sel, at) == ValueTerms(sel, at, LAMBDA v : "temporal_range")

InTerms(sel, at) == ValueTerms(sel, at, LiteralKind)

\* One term: presence, a prefix, or equality with a literal.
ScalarTerms(sel, at) ==
  CASE sel.kind = "exists" -> <<Term(sel, at, "exists", "")>>
    [] sel.kind \in TextKinds /\ sel.any = <<>> -> <<Term(sel, at, "valueless_present", "")>>
    [] sel.kind \in {"eq", "ne"} /\ sel.any = <<>> -> <<Term(sel, at, "eq", "")>>
    [] sel.kind \in TextKinds /\ sel.any # <<>> -> ValueTerms(sel, at, LAMBDA v : sel.kind)
    [] OTHER -> ValueTerms(sel, at, LiteralKind)

LeafTerms(sel, at) ==
  CASE sel.kind = "in" -> InTerms(sel, at)
    [] sel.kind \in {"contains", "icontains"} -> ContainsTerms(sel, at)
    [] sel.kind = "range" -> RangeTerms(sel, at)
    [] sel.kind = "date" -> DateTerms(sel, at)
    [] OTHER -> ScalarTerms(sel, at)

RECURSIVE Terms(_, _)
Terms(sel, at) ==
  CASE Inner(sel) -> Concatenated([i \in DOMAIN sel.children |->
                                     Terms(sel.children[i], Append(at, i))])
    [] sel.kind = "all" -> <<>>
    [] OTHER -> LeafTerms(sel, at)

(***************************************************************************)
(* Equal terms are scanned once: source is the scanned term of each term.  *)
(***************************************************************************)
(* mutant: terms on one path are taken for equal whatever their values *)
MutantEquivalent(a, b) == a.kind = b.kind /\ a.segs = b.segs

Equivalent(a, b) ==
  /\ a.kind = b.kind
  /\ a.kind \notin {"number_range", "temporal_range", "contains", "icontains", "iprefix"}
  /\ a.segs = b.segs /\ a.value = b.value

FirstLike(terms, i) == Min({j \in DOMAIN terms : j = i \/ Equivalent(terms[j], terms[i])})
Scanned(terms) == {i \in DOMAIN terms : FirstLike(terms, i) = i}

ScanTerms(terms) ==
  LET order == SetToSortSeq(Scanned(terms), <)
  IN  [n \in DOMAIN order |-> terms[order[n]]]

Sources(terms) ==
  [i \in DOMAIN terms |-> Cardinality({j \in Scanned(terms) : j <= FirstLike(terms, i)})]

(***************************************************************************)
(* Evaluation on the hits of a record.                                     *)
(***************************************************************************)
RECURSIVE Matches(_, _, _, _)
Matches(sel, at, hitLeaves, object) ==
  LET child(i) == Matches(sel.children[i], Append(at, i), hitLeaves, object)
  IN  CASE sel.kind = "all" -> TRUE
        [] sel.kind = "and" -> \A i \in DOMAIN sel.children : child(i)
        [] sel.kind = "or" -> \E i \in DOMAIN sel.children : child(i)
        [] sel.kind = "not" -> ~child(1)
        [] sel.kind = "ne" -> object /\ at \notin hitLeaves
        [] OTHER -> at \in hitLeaves

\* A leaf is hit when one of its terms is: the selector index.
HitLeaves(plan, hits) ==
  {plan.terms[i].leaf : i \in {j \in DOMAIN plan.terms : plan.sources[j] \in hits}}

\* lql_flat_eq_matches_record
MatchesRecord(plan, hits, v) ==
  Matches(plan.selector, <<>>, HitLeaves(plan, hits), v.t = "obj")

\* The terms whose hits settle the decision: a conjunction of leaves of one
\* term each.
RECURSIVE StopMask(_, _, _)
StopMask(sel, at, terms) ==
  LET child(i) == StopMask(sel.children[i], Append(at, i), terms)
      own == {i \in DOMAIN terms : terms[i].leaf = at}
  IN  CASE sel.kind = "and" ->
             IF \E i \in DOMAIN sel.children : child(i) = {} THEN {}
             ELSE UNION {child(i) : i \in DOMAIN sel.children}
        [] sel.kind \in {"all", "or", "not", "ne", "in"} -> {}
        [] OTHER -> IF Cardinality(own) = 1 THEN own ELSE {}

\* lql_flat_eq_required_eq_count: a conjunction of equalities and no more.
RECURSIVE OnlyEqualities(_)
OnlyEqualities(sel) ==
  \/ sel.kind = "eq"
  \/ /\ sel.kind = "and" /\ sel.children # <<>>
     /\ \A i \in DOMAIN sel.children : OnlyEqualities(sel.children[i])

(***************************************************************************)
(* The plan of a request [selector, mode, matchedOnly, paths, actions,     *)
(* spool]; spool: the compatibility interface, which may copy a record.    *)
(***************************************************************************)
Wide(count) == count > Word

Captures(request) ==
  IF request.mode \in {"projection", "combined"} THEN request.paths ELSE <<>>

\* lql_flat_eq_eligible, and the refusals of lql_stream_apply_flat_eq.
Handled(request, clock) ==
  /\ request.mode \in {"projection", "combined"} => request.paths # <<>>
  /\ request.mode \in {"mutation", "combined"} <=> request.actions # <<>>
  /\ request.mode = "mutation" => request.paths = <<>>
  /\ request.spool \/ ~(Wide(TermCount(request.selector)) \/ Wide(Len(Captures(request))))
  /\ Lowers(request.selector, ~NeedsTime(request.selector) \/ clock)

Plan(request) ==
  LET terms == Terms(request.selector, <<>>)
      batched == Wide(Len(terms)) \/ Wide(Len(Captures(request)))
      unique == ScanTerms(terms)
      aliased == batched /\ ~Wide(Len(unique)) /\ ~Wide(Len(Captures(request)))
  IN  [selector |-> request.selector, terms |-> terms,
       sources |-> IF batched THEN Sources(terms) ELSE [i \in DOMAIN terms |-> i],
       scan |-> IF batched THEN unique ELSE terms,
       rescans |-> batched /\ ~aliased,
       stop |-> IF batched THEN {} ELSE StopMask(request.selector, <<>>, terms),
       copies |-> (request.spool /\ request.mode # "decision") \/ (batched /\ ~aliased),
       required |-> batched /\ OnlyEqualities(request.selector),
       captures |-> Captures(request)]

\* The scan of the input itself, and of one word of terms or of captures from
\* the spool.
InputScan(plan) ==
  [terms |-> IF plan.rescans THEN <<>> ELSE plan.scan,
   captures |-> IF plan.rescans THEN <<>> ELSE plan.captures,
   stop |-> plan.stop, writer |-> plan.copies, object |-> TRUE]

BatchEnd(list, offset) == IF offset + Word < Len(list) THEN offset + Word ELSE Len(list)
Batch(list, offset) == SubSeq(list, offset + 1, BatchEnd(list, offset))

BatchScan(plan, offset) ==
  [terms |-> Batch(plan.scan, offset), captures |-> <<>>, stop |-> {},
   writer |-> FALSE, object |-> TRUE]

CaptureScan(plan, offset) ==
  [terms |-> <<>>, captures |-> Batch(plan.captures, offset), stop |-> {},
   writer |-> TRUE, object |-> TRUE]

\* lql_flat_eq_required_term_missed
RequiredMissed(plan, hits, scanned) ==
  \E i \in DOMAIN plan.terms : plan.sources[i] <= scanned /\ plan.sources[i] \notin hits

(* mutant: a record that is lost is not scanned for captures either *)
MutantDecidedEarly(plan, request, hits, scanned) ==
  plan.required /\ RequiredMissed(plan, hits, scanned)

\* The rest of the scans is skipped when the record cannot match any more,
\* unless its captures are written all the same.
DecidedEarly(plan, request, hits, scanned) ==
  /\ plan.required /\ RequiredMissed(plan, hits, scanned)
  /\ plan.captures = <<>> \/ request.matchedOnly
=============================================================================
