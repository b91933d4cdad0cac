-------------------------- MODULE MCInlineRewrite --------------------------
(* Instances of InlineRewrite for TLC. *)
EXTENDS InlineRewrite

CONSTANTS c1, c2, c3, r1, p1, p2, p3, p4

\* every call and every reader in a process of its own
MCSeparate ==
    [c \in Calls |-> CASE c = c1 -> p1 [] c = c2 -> p2 [] OTHER -> p3]
MCReaderApart == [r \in Readers |-> p4]

\* two threads of one process
MCThreads == [c \in Calls |-> p1]
=============================================================================
