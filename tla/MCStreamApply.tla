--------------------------- MODULE MCStreamApply ---------------------------
(* Instances of StreamApply for TLC. *)
EXTENDS StreamApply

CONSTANT MaxLen   \* length of the inputs of MCAllInputs

(* every input up to MaxLen bytes *)
MCAllInputs == UNION {[1 .. n -> Byte] : n \in 0 .. MaxLen}

(* inputs of several records: matched and not, of several lines, scalars,   *)
(* carriage returns, a bad separator and a torn end                         *)
MCRecords ==
    {<<"{", "m", "}">>, <<"{", "}">>, <<"{", "n", "m", "}">>, <<"d">>}

MCLines == {Append(r, "n") : r \in MCRecords}

MCManyInputs ==
    {l \o m \o r : l \in MCLines, m \in MCLines, r \in MCRecords}
    \cup {r \o <<"s", "r", "n">> \o r \o <<"s", "{">> : r \in MCRecords}

Plain ==
    [allow_spool |-> FALSE, output_mode |-> "decision", matched_only |-> FALSE,
     selector |-> TRUE, on_value |-> FALSE, complete |-> TRUE,
     range_writer |-> FALSE, input_is_compact |-> FALSE,
     max_records |-> 0, max_matches |-> 0, max_bytes |-> 0]

Ranged == [Plain EXCEPT !.range_writer = TRUE, !.input_is_compact = TRUE]

(* a decision only, a selected record through a range and through a copy *)
MCFragmentRequests ==
    {Plain,
     [Ranged EXCEPT !.output_mode = "selected"],
     [Plain EXCEPT !.allow_spool = TRUE, !.output_mode = "selected"]}

(* every mode, with and without matched_only, values from copies and ranges *)
MCOutputRequests ==
    {[Plain EXCEPT !.allow_spool = TRUE, !.output_mode = m, !.matched_only = o,
                   !.on_value = v, !.range_writer = v] :
        m \in Mode, o \in BOOLEAN, v \in BOOLEAN}
    \cup {[Ranged EXCEPT !.output_mode = m, !.matched_only = o, !.on_value = TRUE] :
            m \in {"decision", "selected"}, o \in BOOLEAN}
    \cup {[Plain EXCEPT !.output_mode = "mutation"], [Plain EXCEPT !.on_value = TRUE],
          [Plain EXCEPT !.complete = FALSE]}

(* limits alone and together *)
MCLimitRequests ==
    {[Plain EXCEPT !.max_records = r, !.max_matches = m, !.max_bytes = b] :
        r \in {0, 1, 2}, m \in {0, 1, 2}, b \in {0, 3, 7}}

MCCall(inputs, requests, answers, failures, cancels) ==
    [input : inputs, req : requests,
     caller : {[answers |-> answers, failures |-> failures, cancels |-> cancels]}]

MCCalls ==
    MCCall(MCAllInputs, MCFragmentRequests, {"continue"}, {}, FALSE)
    \cup MCCall(MCManyInputs, MCOutputRequests, {"continue", "stop", "error"},
                {"reader", "spool", "writer"}, FALSE)
    \cup MCCall(MCManyInputs, MCLimitRequests, {"continue", "stop"}, {}, TRUE)
=============================================================================
