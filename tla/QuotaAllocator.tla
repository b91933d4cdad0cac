--------------------------- MODULE QuotaAllocator ---------------------------
(***************************************************************************)
(* The memory quota of a receiver (src/lql_allocator.c) and the lifetime of *)
(* its private part (lql_new and receiver_destroy in src/lql.c).           *)
(*                                                                         *)
(* Every handle is a block charged to the receiver that made it.  A handle *)
(* may be destroyed through another receiver and may outlive its own: the  *)
(* private part, impl, is freed with the last block.  Sizes are words of   *)
(* Word values, so that a sum or a product that the code does not check    *)
(* wraps around.                                                           *)
(***************************************************************************)
EXTENDS Integers, FiniteSets, FiniteSetsExt

CONSTANTS
    Receivers,   \* receivers lql_new may create
    Blocks,      \* blocks the upstream allocator can hand out
    Sizes,       \* sizes a caller asks for
    Counts,      \* element counts a caller asks calloc for
    Word,        \* number of values of size_t
    Limit,       \* LQL_INSTANCE_MEMORY_LIMIT_BYTES
    Header,      \* sizeof(lql_quota_header)
    ImplSize,    \* sizeof(lql_impl)
    CtxSize,     \* sizeof(lql)
    None

ASSUME SizesAssumption ==
    /\ Word \in Nat /\ Limit \in Nat /\ Header \in Nat
    /\ ImplSize \in Nat /\ CtxSize \in Nat
    /\ Limit < Word
    /\ ImplSize + Header + CtxSize <= Limit
    /\ Sizes \subseteq 0 .. (Word - 1)
    /\ Counts \subseteq 0 .. (Word - 1)

ASSUME BlocksAssumption ==
    /\ IsFiniteSet(Blocks)
    /\ None \notin Receivers \cup Blocks

VARIABLES
    impl,    \* lql_impl of each receiver
    ctx,     \* the block that is the receiver itself, None when destroyed
    owner,   \* header->quota.owner of each block, None when it is free
    size,    \* header->quota.size
    want     \* history: the bytes the caller of alloc, calloc or realloc meant

vars == <<impl, ctx, owner, size, want>>

(* mem: is the structure allocated; freed: how often it was released;        *)
(* dangling: it was accessed after its release                               *)
Impl == [mem : {"none", "live", "freed"}, live_bytes : Nat, count : Int,
         destroyed : BOOLEAN, freed : Nat, dangling : BOOLEAN]

TypeOK ==
    /\ impl \in [Receivers -> Impl]
    /\ ctx \in [Receivers -> Blocks \cup {None}]
    /\ owner \in [Blocks -> Receivers \cup {None}]
    /\ size \in [Blocks -> 0 .. (Word - 1)]
    /\ want \in [Blocks -> Nat]

Init ==
    /\ impl = [r \in Receivers |->
                 [mem |-> "none", live_bytes |-> 0, count |-> 0,
                  destroyed |-> FALSE, freed |-> 0, dangling |-> FALSE]]
    /\ ctx = [r \in Receivers |-> None]
    /\ owner = [b \in Blocks |-> None]
    /\ size = [b \in Blocks |-> 0]
    /\ want = [b \in Blocks |-> 0]

-----------------------------------------------------------------------------
(* size_t arithmetic *)

Plus(a, b)  == (a + b) % Word
Minus(a, b) == (a - b) % Word
Times(a, b) == (a * b) % Word

Charge(n) == Plus(Header, n)

-----------------------------------------------------------------------------
(* steps on one impl *)

(* any access *)
Touch(i) == IF i.mem = "live" THEN i ELSE [i EXCEPT !.dangling = TRUE]

(* lql_allocator_instance_release_if_idle *)
ReleaseIfIdle(i) ==
    IF i.destroyed /\ i.count = 0
    THEN [Touch(i) EXCEPT !.mem = "freed", !.freed = @ + 1]
    ELSE Touch(i)

Take(i, charge) ==
    [Touch(i) EXCEPT !.live_bytes = Plus(@, charge), !.count = @ + 1]

Give(i, charge) ==
    [Touch(i) EXCEPT !.live_bytes = Minus(@, charge), !.count = @ - 1]

Recharge(i, old, new) ==
    [Touch(i) EXCEPT !.live_bytes = Plus(Minus(i.live_bytes, old), new)]

(* mutant: the header is not counted against the limit *)
MutantFitsPayload(i, n) ==
    /\ n <= Word - 1 - Header
    /\ n <= Minus(Limit, i.live_bytes)

(* quota_alloc grants a block: neither the word nor the quota overflows *)
Fits(i, n) ==
    /\ n <= Word - 1 - Header
    /\ Charge(n) <= Minus(Limit, i.live_bytes)

Usable(r) == ctx[r] # None

Free(b) == owner[b] = None

-----------------------------------------------------------------------------
(* lql_new: impl is charged for itself, the receiver is its first block.     *)
(* When either allocation fails nothing remains.                             *)
New(r, b) ==
    /\ impl[r].mem = "none"
    /\ Free(b)
    /\ LET fresh == [impl[r] EXCEPT !.mem = "live", !.live_bytes = ImplSize]
       IN  /\ Fits(fresh, CtxSize)
           /\ impl' = [impl EXCEPT ![r] = Take(fresh, Charge(CtxSize))]
    /\ ctx' = [ctx EXCEPT ![r] = b]
    /\ owner' = [owner EXCEPT ![b] = r]
    /\ size' = [size EXCEPT ![b] = CtxSize]
    /\ want' = [want EXCEPT ![b] = CtxSize]

(* quota_alloc; a refusal, by the quota or upstream, changes nothing *)
Grant(r, b, n, meant) ==
    /\ Usable(r) /\ Free(b)
    /\ Fits(impl[r], n)
    /\ impl' = [impl EXCEPT ![r] = Take(@, Charge(n))]
    /\ owner' = [owner EXCEPT ![b] = r]
    /\ size' = [size EXCEPT ![b] = n]
    /\ want' = [want EXCEPT ![b] = meant]
    /\ UNCHANGED ctx

Alloc(r, b, n) == Grant(r, b, n, n)

(* mutant: the product is not checked *)
MutantCallocUnchecked(r, b, k, n) == Grant(r, b, Times(k, n), k * n)

Calloc(r, b, k, n) ==
    /\ k # 0 => n <= (Word - 1) \div k
    /\ Grant(r, b, Times(k, n), k * n)

(* quota_strdup of a text of n bytes and its terminator *)
Strdup(r, b, n) ==
    /\ n # Word - 1
    /\ Grant(r, b, Plus(n, 1), n + 1)

(* quota_realloc to zero frees; the receiver itself is never reallocated *)
ReallocToZero(r, b) ==
    /\ Usable(r) /\ owner[b] = r /\ ctx[r] # b
    /\ impl' = [impl EXCEPT ![r] = ReleaseIfIdle(Give(@, Charge(size[b])))]
    /\ owner' = [owner EXCEPT ![b] = None]
    /\ UNCHANGED <<ctx, size, want>>

(* quota_realloc through the owner; through another receiver it is refused *)
Realloc(r, b, n) ==
    /\ Usable(r) /\ owner[b] = r /\ ctx[r] # b
    /\ n # 0 /\ n <= Word - 1 - Header
    /\ LET old == Charge(size[b])
           new == Charge(n)
       IN  /\ new > old => Minus(new, old) <= Minus(Limit, impl[r].live_bytes)
           /\ impl' = [impl EXCEPT ![r] = Recharge(@, old, new)]
    /\ size' = [size EXCEPT ![b] = n]
    /\ want' = [want EXCEPT ![b] = n]
    /\ UNCHANGED <<ctx, owner>>

(* mutant: the charge is taken from the receiver the call went through *)
MutantDestroyCharge(s, b) ==
    /\ Usable(s) /\ ~Free(b) /\ \A r \in Receivers : ctx[r] # b
    /\ impl' = [impl EXCEPT ![s] = ReleaseIfIdle(Give(@, Charge(size[b])))]
    /\ owner' = [owner EXCEPT ![b] = None]
    /\ UNCHANGED <<ctx, size, want>>

(* quota_destroy through any live receiver: the owner in the header pays *)
Destroy(s, b) ==
    /\ Usable(s) /\ ~Free(b) /\ \A r \in Receivers : ctx[r] # b
    /\ impl' = [impl EXCEPT ![owner[b]] = ReleaseIfIdle(Give(@, Charge(size[b])))]
    /\ owner' = [owner EXCEPT ![b] = None]
    /\ UNCHANGED <<ctx, size, want>>

(* mutant: the receiver is marked destroyed before its block is released *)
MutantMarkFirst(r) ==
    /\ Usable(r)
    /\ LET marked   == [Touch(impl[r]) EXCEPT !.destroyed = TRUE]
           released == ReleaseIfIdle(Give(marked, Charge(size[ctx[r]])))
       IN  impl' = [impl EXCEPT ![r] = ReleaseIfIdle(released)]
    /\ owner' = [owner EXCEPT ![ctx[r]] = None]
    /\ ctx' = [ctx EXCEPT ![r] = None]
    /\ UNCHANGED <<size, want>>

(* receiver_destroy: the receiver's own block first, then the mark, then     *)
(* release if nothing else is charged                                        *)
DestroyReceiver(r) ==
    /\ Usable(r)
    /\ LET released == ReleaseIfIdle(Give(impl[r], Charge(size[ctx[r]])))
           marked   == [Touch(released) EXCEPT !.destroyed = TRUE]
       IN  impl' = [impl EXCEPT ![r] = ReleaseIfIdle(marked)]
    /\ owner' = [owner EXCEPT ![ctx[r]] = None]
    /\ ctx' = [ctx EXCEPT ![r] = None]
    /\ UNCHANGED <<size, want>>

Next ==
    \E r \in Receivers :
        \/ DestroyReceiver(r)
        \/ \E b \in Blocks :
             \/ New(r, b)
             \/ \E n \in Sizes : Alloc(r, b, n) \/ Strdup(r, b, n) \/ Realloc(r, b, n)
             \/ \E k \in Counts, n \in Sizes : Calloc(r, b, k, n)
             \/ ReallocToZero(r, b)
             \/ Destroy(r, b)

Spec == Init /\ [][Next]_vars

-----------------------------------------------------------------------------
(* Properties *)

OwnedBy(r) == {b \in Blocks : owner[b] = r}

(* The ledger is exact: while an impl is allocated its live_bytes are its    *)
(* own size and, for each block charged to it, header and size as integers,  *)
(* never more than the limit; so no comparison with the limit ever wraps.    *)
LedgerExact ==
    \A r \in Receivers : impl[r].mem = "live" =>
        /\ impl[r].live_bytes =
             ImplSize + MapThenSumSet(LAMBDA b : Header + size[b], OwnedBy(r))
        /\ impl[r].live_bytes <= Limit

(* An impl lives exactly as long as something needs it: it is allocated      *)
(* while the receiver or any handle made by it is, whatever receiver         *)
(* destroys the handles and in whatever order, and it is freed with the last *)
(* of them.                                                                  *)
ImplLivesWithItsBlocks ==
    \A r \in Receivers : impl[r].mem = "live" <=> OwnedBy(r) # {}

(* Destroying receivers and handles in any order frees each impl at most     *)
(* once and never reads or writes it after that (the comment in              *)
(* quota_destroy: "that owner remains alive until this final release").      *)
NoDanglingImpl ==
    \A r \in Receivers : impl[r].freed <= 1 /\ ~impl[r].dangling

(* No arithmetic on sizes hands out a block smaller than the caller meant.   *)
BlocksAreLargeEnough ==
    \A b \in Blocks : ~Free(b) => want[b] <= size[b] /\ size[b] + Header < Word

-----------------------------------------------------------------------------
(* The inductive invariant behind ImplLivesWithItsBlocks and NoDanglingImpl. *)

CountsAgree ==
    \A r \in Receivers : impl[r].count = Cardinality(OwnedBy(r))

Lifecycle ==
    \A r \in Receivers :
        /\ impl[r].mem = "none" => ctx[r] = None /\ ~impl[r].destroyed /\ impl[r].freed = 0
        /\ impl[r].mem = "live" => impl[r].freed = 0 /\ (impl[r].destroyed <=> ctx[r] = None)
        /\ impl[r].mem = "freed" => impl[r].freed = 1 /\ ctx[r] = None /\ impl[r].destroyed
        /\ ~impl[r].dangling
        /\ ctx[r] # None => owner[ctx[r]] = r

LifetimeInv ==
    /\ TypeOK
    /\ CountsAgree
    /\ Lifecycle
    /\ ImplLivesWithItsBlocks
=============================================================================
