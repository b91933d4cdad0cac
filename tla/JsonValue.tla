------------------------------ MODULE JsonValue ------------------------------
(***************************************************************************)
(* Records as the scanner sees them.  A value is [t |-> "obj", m |->       *)
(* members], [t |-> "arr", e |-> elements], [t |-> "num", v |-> integer]   *)
(* or a scalar [t |-> "str" | "bool" | "null", v |-> text]; a member is    *)
(* [k, plain, v], plain telling that its key is written without escapes    *)
(* and lies whole in the read buffer.  An array index is spelled without   *)
(* leading zeros.                                                          *)
(***************************************************************************)
EXTENDS Integers, Sequences

CONSTANTS
  Numerals,    \* the segments that are array indexes: [0..n -> STRING]
  Escapes      \* the path segments that hold ~0 or ~1, with the keys they mean

Container(v) == v.t \in {"obj", "arr"}
Null == [t |-> "null", v |-> "null"]
NewMember(k, v) == [k |-> k, plain |-> TRUE, v |-> v]

\* The key a segment of JSON Pointer text means.
KeyOf(seg) == IF seg \in DOMAIN Escapes THEN Escapes[seg] ELSE seg

\* lql_flat_eq_projection_segment_index
IsNumeral(seg) == \E n \in DOMAIN Numerals : Numerals[n] = seg
IndexOf(seg) == CHOOSE n \in DOMAIN Numerals : Numerals[n] = seg
=============================================================================
