---------------------------- MODULE MCJsonSpool ----------------------------
(* An instance of JsonSpool for TLC. *)
EXTENDS JsonSpool

CONSTANTS a, q, b

\* A quote, a backslash, and an escape that starts at the second byte of two.
MCPiece == {<<>>, <<q>>, <<b>>, <<a, b>>}
=============================================================================
