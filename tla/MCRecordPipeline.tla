--------------------------- MODULE MCRecordPipeline ---------------------------
(***************************************************************************)
(* Small requests and records for RecordPipeline.                          *)
(***************************************************************************)
EXTENDS RecordPipeline

MCNumerals == [n \in 0..2 |-> <<"0", "1", "2">>[n + 1]]
MCKeyOrder == <<"0", "1", "2", "a", "a/b", "ab", "abc", "b", "c">>
MCEscapes == [x \in {"a~1b"} |-> "a/b"]
MCSpelling ==
  [x \in ToSet(MCKeyOrder) \cup {"a~1b", "*", "[]", "**", "..."} |->
     CASE x = "0" -> <<48>> [] x = "1" -> <<49>> [] x = "2" -> <<50>>
       [] x = "a" -> <<97>> [] x = "b" -> <<98>> [] x = "c" -> <<99>>
       [] x = "ab" -> <<97, 98>> [] x = "abc" -> <<97, 98, 99>>
       [] x = "a/b" -> <<97, 47, 98>> [] x = "a~1b" -> <<97, 126, 49, 98>>
       [] x = "*" -> <<42>> [] x = "**" -> <<42, 42>> [] x = "[]" -> <<91, 93>>
       [] x = "..." -> <<46, 46, 46>>]

num(n) == [t |-> "num", v |-> n]
str(s) == [t |-> "str", v |-> s]
bool(b) == [t |-> "bool", v |-> b]
arr(e) == [t |-> "arr", e |-> e]
obj(m) == [t |-> "obj", m |-> m]
key(k, v) == NewMember(k, v)
escaped(k, v) == [k |-> k, plain |-> FALSE, v |-> v]
just(k, v) == obj(<<key(k, v)>>)

leaf(kind, segs, any) == [kind |-> kind, segs |-> segs, any |-> any, since |-> FALSE]
all == [kind |-> "all"]
tree(kind, children) == [kind |-> kind, children |-> children]

(***************************************************************************)
(* Selection.                                                              *)
(***************************************************************************)
AnyLeaf(segs) ==
  {leaf("eq", segs, <<num(1)>>), leaf("ne", segs, <<num(1)>>), leaf("exists", segs, <<>>),
   leaf("in", segs, <<num(1), str("x"), bool("true")>>), leaf("contains", segs, <<str("1"), str("x")>>),
   leaf("eq", segs, <<>>), leaf("prefix", segs, <<>>), leaf("range", segs, <<num(2)>>)}

Paths == {<<"a">>, <<"a~1b">>, <<"a", "b">>, <<"*">>, <<"a", "*">>, <<"a", "0">>, <<"a", "[]">>, <<"**", "b">>,
          <<"...">>, <<"...", "b">>, <<"a", "...", "b">>, <<"a", "...", "*">>}

Leaf(segs, n) == leaf("eq", segs, <<num(n)>>)
Wider == {<<"and", <<Leaf(<<"a">>, 1), Leaf(<<"b">>, 1), Leaf(<<"a">>, 1)>>>>,
          <<"and", <<Leaf(<<"a">>, 1), Leaf(<<"b">>, 1), Leaf(<<"c">>, 1)>>>>,
          <<"or", <<Leaf(<<"a">>, 2), Leaf(<<"b">>, 1), Leaf(<<"b">>, 2)>>>>,
          <<"or", <<Leaf(<<"...", "b">>, 1), Leaf(<<"b">>, 1), Leaf(<<"a", "b">>, 1), Leaf(<<"*">>, 2)>>>>}

Selectors ==
  UNION {AnyLeaf(p) : p \in Paths}
  \cup {tree("not", <<s>>) : s \in AnyLeaf(<<"a">>)}
  \cup {tree("and", <<Leaf(<<"a">>, 1), s>>) : s \in AnyLeaf(<<"...", "b">>)}
  \cup {tree("or", <<s, leaf("ne", <<"b">>, <<num(1)>>)>>) : s \in AnyLeaf(<<"a", "b">>)}
  \cup {tree(w[1], w[2]) : w \in Wider}
  \cup {[leaf("date", <<"a">>, <<str("x")>>) EXCEPT !.since = TRUE], all,
        leaf("eq", <<"a", "a", "a", "a">>, <<num(1)>>)}

Records ==
  {just("a", num(1)), just("b", num(1)), obj(<<key("a", num(1)), key("b", num(1)), key("c", num(1))>>),
   obj(<<key("b", num(2)), escaped("a", just("b", num(1)))>>),
   just("a", arr(<<num(1), just("b", num(1)), num(2)>>)),
   just("c", just("a", obj(<<key("b", num(1)), key("b", str("x"))>>))),
   just("a", just("a", just("b", num(1)))),
   obj(<<key("a", Null), key("b", arr(<<arr(<<bool("true")>>)>>))>>), num(1),
   obj(<<key("abc", num(2)), key("a/b", num(1))>>)}

Inputs == {<<r>> : r \in Records} \cup {<<r, s>> : r \in Records, s \in Records}

request(sel, mode, paths, actions) ==
  [selector |-> sel, mode |-> mode, matchedOnly |-> TRUE, paths |-> paths, actions |-> actions,
   spool |-> TRUE]

Deciding == {[request(sel, "decision", <<>>, <<>>) EXCEPT !.spool = sp, !.mode = m] :
               sel \in Selectors, sp \in BOOLEAN, m \in {"decision", "selected"}}

SelectionCalls == {[request |-> r, input |-> i] :
                     r \in {q \in Deciding : q.spool \/ q.mode = "decision"}, i \in Inputs}

(***************************************************************************)
(* Projection: paths that share parents, array indexes, more paths than a  *)
(* word, and selectors that drop some of the records.                      *)
(***************************************************************************)
PathLists ==
  {<<<<"a">>>>, <<<<"a", "b">>>>, <<<<"a", "b">>, <<"a", "c">>>>, <<<<"c">>, <<"a", "b">>, <<"b">>>>,
   <<<<"a", "1">>>>, <<<<"a", "2">>, <<"a", "0", "b">>>>, <<<<"b">>, <<>>, <<"b">>>>,
   <<<<"c", "a", "b">>, <<"a">>, <<"b">>>>, <<<<"a">>, <<"a", "b">>>>, <<<<"0">>>>}

\* Keys of several bytes.  A selector with an escape reaches the captures
\* only when they are scanned apart from its terms.
LongKeys == {<<Leaf(<<"abc">>, 2), <<<<"a~1b">>>>>>, <<Leaf(<<"abc">>, 2), <<<<"ab">>, <<"abc">>>>>>,
             <<Leaf(<<"a~1b">>, 1), <<<<"ab">>, <<"abc">>, <<"a~1b">>>>>>}

Projecting == {[request(sel, "projection", paths, <<>>) EXCEPT !.matchedOnly = m] :
                 sel \in {all, Leaf(<<"b">>, 1), tree("and", <<Leaf(<<"b">>, 1), Leaf(<<"a">>, 1), Leaf(<<"c">>, 1)>>)},
                 paths \in PathLists, m \in BOOLEAN}
              \cup {[request(l[1], "projection", l[2], <<>>) EXCEPT !.matchedOnly = m] :
                      l \in LongKeys, m \in BOOLEAN}

ProjectionCalls == {[request |-> r, input |-> i] : r \in Projecting, i \in Inputs}

(***************************************************************************)
(* Mutation: lists of two actions on plain paths that meet in every way.   *)
(***************************************************************************)
act(kind, segs, value) == [kind |-> kind, segs |-> segs, value |-> value]

ActionsOn(paths) ==
  UNION {{act("set", p, num(1)), act("set", p, str("x")), act("remove", p, Null),
          act("increment", p, num(1))} : p \in paths}

Two == ActionsOn({<<"a">>, <<"b">>, <<"a", "b">>, <<"a", "c">>, <<"*">>})
Three == ActionsOn({<<"a">>, <<"a", "b">>, <<"b">>})

Programs == {<<x, y>> : x \in Two, y \in Two} \cup {<<x, y, z>> : x \in Three, y \in Three, z \in Three}

Targets ==
  {just("a", num(1)), just("b", num(1)), obj(<<key("a", just("b", num(1))), key("b", num(2))>>),
   just("a", obj(<<key("c", str("x")), key("b", just("c", num(1)))>>)), obj(<<>>), num(1)}

MutationCalls ==
  {[request |-> request(all, "mutation", <<>>, actions), input |-> <<v>>] :
     actions \in Programs, v \in Targets}

\* Sums at the end of the finite numbers, alone and merged.
OverflowCalls ==
  {[request |-> request(all, "mutation", <<>>, actions), input |-> <<v>>] :
     actions \in {<<x>> : x \in Three} \cup {<<x, y>> : x \in Three, y \in Three},
     v \in {obj(<<key("b", num(1)), key("a", num(Huge))>>), just("a", num(Huge - 1)),
            just("a", just("b", num(Huge)))}}

\* One action on a path with wildcards, and two actions of which one has such
\* a path, on records without arrays.
WildPaths ==
  {<<"a", "*">>, <<"a", "[]">>, <<"a", "*", "b">>, <<"a", "**", "b">>, <<"a", "[]", "b">>,
   <<"a", "b", "*">>, <<"a", "...", "b">>}

Nested == just("a", arr(<<num(1), just("b", num(1)), arr(<<num(2), just("b", num(3))>>)>>))
Repeats == obj(<<key("b", just("b", num(1))), key("c", just("a", just("b", num(1))))>>)

WildCalls ==
  {[request |-> request(all, "mutation", <<>>, <<x>>), input |-> <<v>>] :
     x \in ActionsOn(WildPaths \cup {<<"...", "b">>}), v \in Targets \cup {Nested, Repeats}}
  \cup {[request |-> request(all, "mutation", <<>>, actions), input |-> <<v>>] :
          actions \in UNION {{<<x, y>>, <<y, x>>} : x \in ActionsOn(WildPaths), y \in Two},
          v \in Targets \cup {Repeats}}

(***************************************************************************)
(* Projection and mutation together, on records that differ in what they   *)
(* have.                                                                   *)
(***************************************************************************)
CombinedCalls ==
  {[request |-> [request(sel, "combined", paths, <<x, y>>) EXCEPT !.matchedOnly = m], input |-> i] :
     sel \in {Leaf(<<"b">>, 1), tree("and", <<Leaf(<<"a">>, 1), Leaf(<<"b">>, 1), Leaf(<<"c">>, 1)>>)},
     paths \in {<<<<"a", "b">>, <<"b">>>>, <<<<"c">>, <<"a", "b">>, <<"b">>>>},
     x \in ActionsOn({<<"a">>}), y \in ActionsOn({<<"a", "b">>}), m \in BOOLEAN,
     i \in {<<v, w>> : v \in Targets, w \in {obj(<<key("a", num(1)), key("b", num(1)), key("c", num(1))>>)}}}

(***************************************************************************)
(* Values from a file that changes under the call.                         *)
(***************************************************************************)
fromFile(segs, m) == act("set", segs, [t |-> "file", mode |-> m])
MCContents == {<<>>, <<"text">>, <<"head", "tail">>, <<"text", "binary">>}

FileCalls ==
  {[request |-> request(all, "mutation", <<>>, actions),
    input |-> <<just("a", num(1)), obj(<<key("b", num(1)), key("a", num(1))>>)>>] :
     actions \in {<<fromFile(p, m)>> \o rest :
                    p \in {<<"a">>, <<"b", "c">>, <<"*">>}, m \in {"text", "base64", "auto"},
                    rest \in {<<>>, <<act("set", <<"b">>, num(1))>>, <<act("increment", <<"a">>, num(1))>>}}}

MCCalls ==
  {SelectionCalls, ProjectionCalls, MutationCalls, OverflowCalls, WildCalls, CombinedCalls,
   FileCalls}

\* Programs whose actions fail late, on values at hand.
AtomicCalls == {MutationCalls}

(***************************************************************************)
(* Recursive paths with more than one segment after the `...`.             *)
(***************************************************************************)
RecursiveCalls ==
  {{[request |-> request(Leaf(p, 1), "selected", <<>>, <<>>), input |-> <<r>>] :
      p \in {<<"...", "a", "b">>, <<"...", "1", "b">>}, r \in Records}}
=============================================================================
