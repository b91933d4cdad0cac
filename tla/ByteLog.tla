------------------------------ MODULE ByteLog ------------------------------
(***************************************************************************)
(* What a JSON spool promises (src/lql_json_spool.h): the bytes appended   *)
(* since the last reset, and any part of them at any time.                 *)
(***************************************************************************)
EXTENDS Integers, Sequences

CONSTANT Byte

VARIABLES
    content,   \* the bytes appended since the last reset
    seen       \* the last bytes handed out, and where they were found

vars == <<content, seen>>

Nothing == [offset |-> 0, data |-> <<>>]

Init == content = <<>> /\ seen = Nothing

Extend ==
    /\ content' \in Seq(Byte)
    /\ Len(content') >= Len(content)
    /\ SubSeq(content', 1, Len(content)) = content
    /\ UNCHANGED seen

Reset == content' = <<>> /\ seen' = Nothing

Observe(offset, len) ==
    /\ seen' = [offset |-> offset, data |-> SubSeq(content, offset + 1, offset + len)]
    /\ UNCHANGED content

Next ==
    \/ Extend
    \/ Reset
    \/ \E offset \in 0 .. Len(content) :
         \E len \in 0 .. (Len(content) - offset) : Observe(offset, len)

Spec == Init /\ [][Next]_vars
=============================================================================
