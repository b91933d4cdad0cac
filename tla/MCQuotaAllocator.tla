-------------------------- MODULE MCQuotaAllocator --------------------------
(* An instance of QuotaAllocator for TLC. *)
EXTENDS QuotaAllocator, TLC

MCSymmetry == Permutations(Receivers) \cup Permutations(Blocks)
=============================================================================
