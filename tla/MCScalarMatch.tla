---------------------------- MODULE MCScalarMatch ----------------------------
(***************************************************************************)
(* Values and terms for ScalarMatch.                                       *)
(***************************************************************************)
EXTENDS ScalarMatch

None == [op \in {} |-> << >>]
Term(kind, value, segment, bounds) ==
  [kind |-> kind, value |-> value, segment |-> segment, bounds |-> bounds]
Job(kind, items, terms) == [kind |-> kind, items |-> items, terms |-> terms, captures |-> << >>]
Plain(text) == [k \in DOMAIN text |-> [plain |-> TRUE, bytes |-> <<text[k]>>]]

\* Numbers: sign, integer, fraction and exponent parts.
MCIntegers == {<<48>>, <<49>>, <<57>>, <<49, 48>>, <<49, 57>>}
MCFractions == {<< >>, <<46, 48>>, <<46, 48, 49>>, <<46, 57>>}
MCExponents == {<< >>, <<101, 48>>, <<101, 57>>, <<69, 43, 49, 48>>, <<101, 45, 49>>,
                <<101, 45, 57, 57>>, <<101, 57, 57>>, <<101, 49, 48, 48>>,
                <<101, 48, 57, 57, 57>>, <<101, 45, 49, 48, 48>>}
MCTokens == {s \o i \o f \o e : s \in {<< >>, <<45>>}, i \in MCIntegers,
                                f \in MCFractions, e \in MCExponents}
MCBounds == {<<48>>, <<49>>, <<45, 49>>, <<49, 48>>, <<57, 46, 49>>,
             <<48, 46, 49, 101, 49, 48, 49>>, <<49, 101, 57, 57>>,
             <<45, 49, 101, 45, 57, 57>>, <<49, 46, 48, 101, 49, 48, 48>>,
             <<57, 101, 45, 49, 48, 48>>, <<49, 101, 57, 57, 57>>}
MCNumberJobs ==
  {Job("number", Plain(t),
       <<Term("number_range", << >>, << >>, [op \in {"gt"} |-> b]),
         Term("number_eq", << >>, << >>, [op \in {"eq"} |-> b])>>) :
     t \in MCTokens, b \in MCBounds}

\* Texts over a, b, A, a two-byte letter and the Kelvin sign, whose lower
\* case is one byte.
MCLowerRanges == {[first |-> 192, last |-> 214, delta |-> 32, alternating |-> FALSE],
                  [first |-> 256, last |-> 303, delta |-> 0, alternating |-> TRUE],
                  [first |-> 8490, last |-> 8490, delta |-> -8383, alternating |-> FALSE]}
MCChars == {[plain |-> TRUE, bytes |-> <<97>>], [plain |-> TRUE, bytes |-> <<98>>],
            [plain |-> TRUE, bytes |-> <<65>>], [plain |-> FALSE, bytes |-> <<97>>],
            [plain |-> FALSE, bytes |-> <<195, 137>>], [plain |-> FALSE, bytes |-> << >>],
            [plain |-> FALSE, bytes |-> <<226, 132, 170>>]}
MCTexts == UNION {[1..n -> MCChars] : n \in 0..4}
MCTextTerms ==
  <<Term("eq", <<97, 98, 97>>, << >>, None), Term("prefix", <<97, 97>>, << >>, None),
    Term("contains", <<97, 97, 98>>, << >>, None), Term("contains", << >>, << >>, None),
    Term("icontains", <<97, 107, 97>>, << >>, None),
    Term("icontains", <<97, 195, 169>>, << >>, None),
    Term("iprefix", <<195, 169, 97>>, << >>, None),
    Term("exists", << >>, << >>, None)>>
MCStringJobs == {Job("string", t, MCTextTerms) : t \in MCTexts}

MCLiteralTerms ==
  <<Term("bool_eq", <<116, 114, 117, 101>>, << >>, None),
    Term("null_eq", <<110, 117, 108, 108>>, << >>, None),
    Term("exists", << >>, << >>, None), Term("valueless_present", << >>, << >>, None),
    Term("icontains", <<117, 101>>, << >>, None), Term("prefix", <<110>>, << >>, None)>>
MCLiteralJobs ==
  {Job("true", Plain(<<116, 114, 117, 101>>), MCLiteralTerms),
   Job("null", Plain(<<110, 117, 108, 108>>), MCLiteralTerms),
   Job("number", Plain(<<49, 48>>), Append(MCLiteralTerms, Term("contains", <<48>>, << >>, None)))}

\* Keys: one escaped segment alone, or plain segments and captures together.
MCKeyChars == {[plain |-> TRUE, bytes |-> <<97>>], [plain |-> TRUE, bytes |-> <<47>>],
               [plain |-> TRUE, bytes |-> <<126>>], [plain |-> FALSE, bytes |-> <<97>>]}
MCKeys == UNION {[1..n -> MCKeyChars] : n \in 0..3}
MCKeyTermSets ==
  {<<Term("exists", << >>, <<97, 126, 49>>, None)>>,
   <<Term("exists", << >>, <<126, 48, 97>>, None)>>,
   <<Term("exists", << >>, <<97>>, None), Term("exists", << >>, <<97, 97>>, None)>>}
MCKeyCaptures == <<<<97>>, <<97, 97>>, <<97, 47>>, <<126, 97, 97>>>>
MCKeyJobs ==
  {Job("key", k, ts) : k \in MCKeys, ts \in MCKeyTermSets}
  \cup {[Job("key", k, ts) EXCEPT !.captures = MCKeyCaptures] :
           k \in MCKeys, ts \in {<< >>, <<Term("exists", << >>, <<97, 97>>, None)>>}}

\* The key aaa watched by the segments aaa, aaaaa and a~1 of selectors and by
\* the segments aaa and aa of projected paths.
MCMixedKeyJobs ==
  {[Job("key", Plain(<<97, 97, 97>>),
        <<Term("exists", << >>, <<97, 97, 97>>, None),
          Term("exists", << >>, <<97, 97, 97, 97, 97>>, None),
          Term("exists", << >>, <<97, 126, 49>>, None)>>)
      EXCEPT !.captures = <<<<97, 97, 97>>, <<97, 97>>>>]}

\* Dates: days around leap years and era ends, times with zones.
MCDates == {Padded(y, 4) \o <<45>> \o Padded(m, 2) \o <<45>> \o Padded(d, 2) :
              y \in {0, 1600, 1900, 1969, 1970, 2000, 2023, 2024, 9999},
              m \in {1, 2, 3, 12}, d \in {1, 28, 29, 31}}
MCTimes == {<< >>, <<32>>, <<84, 50, 51, 58, 53, 57, 58, 53, 57, 90>>,
            <<84, 48, 48, 58, 48, 48, 58, 48, 48, 46, 48, 53, 43, 48, 49, 58, 51, 48>>,
            <<84, 48, 48, 58, 48, 48, 58, 48, 48>>}
MCTemporalTerms ==
  <<Term("temporal_range", << >>, << >>,
         [op \in {"gte", "eq"} |-> <<50, 48, 50, 52, 45, 48, 50, 45, 50, 57>>])>>
MCTemporalJobs ==
  {Job("string", Plain(d \o t), MCTemporalTerms) :
     d \in MCDates, t \in MCTimes}

MCJobs == MCNumberJobs \cup MCStringJobs \cup MCLiteralJobs \cup MCKeyJobs
          \cup MCTemporalJobs
=============================================================================
