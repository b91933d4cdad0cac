--------------------------- MODULE MCLuaLifetime ---------------------------
(* An instance of LuaLifetime for TLC. *)
EXTENDS LuaLifetime, TLC

MCSymmetry == Permutations(Owners) \cup Permutations(Resources) \cup Permutations(Addrs)
=============================================================================
