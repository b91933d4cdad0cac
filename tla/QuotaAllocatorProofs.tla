------------------------ MODULE QuotaAllocatorProofs ------------------------
(***************************************************************************)
(* The lifetime of impl and the ledger of a receiver, for any number of    *)
(* receivers and blocks, any sizes and any word: no check of               *)
(* src/lql_allocator.c is ever made on a number that wrapped around.       *)
(***************************************************************************)
EXTENDS QuotaAllocator, FiniteSetTheorems, InductionLemmas, TLAPS

USE SizesAssumption, BlocksAssumption

(* size_t arithmetic stays in the word *)
LEMMA WordArithmetic ==
    \A a, b \in Int : Plus(a, b) \in 0 .. (Word - 1) /\ Minus(a, b) \in 0 .. (Word - 1)
  BY DEF Plus, Minus

LEMMA OwnedFinite ==
    ASSUME NEW r PROVE IsFiniteSet(OwnedBy(r)) /\ Cardinality(OwnedBy(r)) \in Nat
<1>1. OwnedBy(r) \subseteq Blocks
  BY DEF OwnedBy
<1> QED BY <1>1, FS_Subset, FS_CardinalityType

(* One free block becoming r's adds one to r's count and to no other. *)
LEMMA GrantCounts ==
    ASSUME TypeOK, NEW r \in Receivers, NEW b \in Blocks, Free(b),
           owner' = [owner EXCEPT ![b] = r], NEW q \in Receivers
    PROVE  /\ Cardinality(OwnedBy(q))' =
                 Cardinality(OwnedBy(q)) + IF q = r THEN 1 ELSE 0
           /\ q = r => OwnedBy(q)' # {}
           /\ q # r => OwnedBy(q)' = OwnedBy(q)
<1>1. CASE q = r
  <2>1. OwnedBy(q)' = OwnedBy(q) \cup {b} /\ b \notin OwnedBy(q)
    BY <1>1 DEF OwnedBy, TypeOK, Free
  <2> QED BY <1>1, <2>1, OwnedFinite, FS_AddElement
<1>2. CASE q # r
  <2>1. OwnedBy(q)' = OwnedBy(q)
    BY <1>2 DEF OwnedBy, TypeOK, Free
  <2> QED BY <1>2, <2>1, OwnedFinite
<1> QED BY <1>1, <1>2

(* One block of r becoming free takes one from r's count and from no other. *)
LEMMA FreeCounts ==
    ASSUME TypeOK, NEW r \in Receivers, NEW b \in Blocks, owner[b] = r,
           owner' = [owner EXCEPT ![b] = None], NEW q \in Receivers
    PROVE  /\ Cardinality(OwnedBy(q))' =
                 Cardinality(OwnedBy(q)) - IF q = r THEN 1 ELSE 0
           /\ q # r => OwnedBy(q)' = OwnedBy(q)
           /\ q = r => OwnedBy(q) # {}
<1>1. CASE q = r
  <2>1. OwnedBy(q)' = OwnedBy(q) \ {b} /\ b \in OwnedBy(q)
    BY <1>1 DEF OwnedBy, TypeOK
  <2>2. Cardinality(OwnedBy(q) \ {b}) = Cardinality(OwnedBy(q)) - 1
    BY <2>1, OwnedFinite, FS_RemoveElement
  <2> QED BY <1>1, <2>1, <2>2
<1>2. CASE q # r
  <2>1. OwnedBy(q)' = OwnedBy(q)
    BY <1>2 DEF OwnedBy, TypeOK
  <2> QED BY <1>2, <2>1, OwnedFinite
<1> QED BY <1>1, <1>2

(* What a charge taken or given back does to an allocated impl. *)
LEMMA TakeGive ==
    ASSUME NEW i \in Impl, i.mem = "live", NEW n \in Int
    PROVE  /\ Take(i, n) \in Impl
           /\ Take(i, n).mem = "live" /\ Take(i, n).count = i.count + 1
           /\ Take(i, n).destroyed = i.destroyed /\ Take(i, n).freed = i.freed
           /\ Take(i, n).dangling = i.dangling
           /\ Give(i, n) \in Impl
           /\ Give(i, n).mem = "live" /\ Give(i, n).count = i.count - 1
           /\ Give(i, n).destroyed = i.destroyed /\ Give(i, n).freed = i.freed
           /\ Give(i, n).dangling = i.dangling
<1>1. Touch(i) = i
  BY DEF Touch
<1>2. i.live_bytes \in Nat /\ i.count \in Int
  BY DEF Impl
<1>3. Plus(i.live_bytes, n) \in Nat /\ Minus(i.live_bytes, n) \in Nat
  <2>1. i.live_bytes \in Int
    BY <1>2
  <2>2. /\ Plus(i.live_bytes, n) \in 0 .. (Word - 1)
        /\ Minus(i.live_bytes, n) \in 0 .. (Word - 1)
    BY <2>1, WordArithmetic, Zenon
  <2> QED BY <2>2
<1>4. Take(i, n) = [i EXCEPT !.live_bytes = Plus(i.live_bytes, n), !.count = i.count + 1]
  BY <1>1 DEF Take
<1>5. Give(i, n) = [i EXCEPT !.live_bytes = Minus(i.live_bytes, n), !.count = i.count - 1]
  BY <1>1 DEF Give
<1>6. i.count + 1 \in Int /\ i.count - 1 \in Int
  BY <1>2
<1>7. /\ Take(i, n) \in Impl
      /\ Take(i, n).mem = "live" /\ Take(i, n).count = i.count + 1
      /\ Take(i, n).destroyed = i.destroyed /\ Take(i, n).freed = i.freed
      /\ Take(i, n).dangling = i.dangling
  <2>1. PICK x \in Nat, y \in Int :
            y = i.count + 1 /\ Take(i, n) = [i EXCEPT !.live_bytes = x, !.count = y]
    BY <1>3, <1>4, <1>6, Zenon
  <2> DEFINE j == [i EXCEPT !.live_bytes = x, !.count = y]
  <2>2. /\ j \in Impl /\ j.mem = i.mem /\ j.count = y /\ j.destroyed = i.destroyed
        /\ j.freed = i.freed /\ j.dangling = i.dangling
    BY DEF Impl
  <2> HIDE DEF j
  <2>3. Take(i, n) = j
    BY <2>1 DEF j
  <2> QED BY <2>1, <2>2, <2>3, Zenon
<1>8. /\ Give(i, n) \in Impl
      /\ Give(i, n).mem = "live" /\ Give(i, n).count = i.count - 1
      /\ Give(i, n).destroyed = i.destroyed /\ Give(i, n).freed = i.freed
      /\ Give(i, n).dangling = i.dangling
  <2>1. PICK x \in Nat, y \in Int :
            y = i.count - 1 /\ Give(i, n) = [i EXCEPT !.live_bytes = x, !.count = y]
    BY <1>3, <1>5, <1>6, Zenon
  <2> DEFINE j == [i EXCEPT !.live_bytes = x, !.count = y]
  <2>2. /\ j \in Impl /\ j.mem = i.mem /\ j.count = y /\ j.destroyed = i.destroyed
        /\ j.freed = i.freed /\ j.dangling = i.dangling
    BY DEF Impl
  <2> HIDE DEF j
  <2>3. Give(i, n) = j
    BY <2>1 DEF j
  <2> QED BY <2>1, <2>2, <2>3, Zenon
<1> QED BY <1>7, <1>8

LEMMA ChargeType == \A n \in Nat : Charge(n) \in 0 .. (Word - 1)
  BY WordArithmetic DEF Charge

LEMMA InitLifetime == Init => LifetimeInv
<1> SUFFICES ASSUME Init PROVE LifetimeInv
  OBVIOUS
<1>1. TypeOK
  BY DEF Init, TypeOK, Impl
<1>2. \A r \in Receivers : OwnedBy(r) = {}
  BY DEF Init, OwnedBy
<1>3. CountsAgree
  BY <1>2, FS_EmptySet DEF Init, CountsAgree
<1> QED BY <1>1, <1>2, <1>3 DEF Init, LifetimeInv, Lifecycle, ImplLivesWithItsBlocks

(* A receiver that still has its context has an allocated impl. *)
LEMMA UsableIsLive ==
    ASSUME LifetimeInv, NEW r \in Receivers, Usable(r)
    PROVE  impl[r].mem = "live" /\ ~impl[r].destroyed
  BY DEF LifetimeInv, TypeOK, Lifecycle, Usable, Impl

(* quota_alloc *)
LEMMA GrantLifetime ==
    ASSUME LifetimeInv, NEW r \in Receivers, NEW b \in Blocks, NEW n \in Nat, NEW m \in Nat,
           Grant(r, b, n, m)
    PROVE  LifetimeInv'
<1>1. impl[r].mem = "live" /\ impl[r] \in Impl /\ n \in 0 .. (Word - 1) /\ Charge(n) \in Int
  BY UsableIsLive, ChargeType DEF Grant, Fits, LifetimeInv, TypeOK
<1>2. impl' = [impl EXCEPT ![r] = Take(impl[r], Charge(n))]
  BY DEF Grant, LifetimeInv, TypeOK
<1> DEFINE j == Take(impl[r], Charge(n))
<1>3. /\ j \in Impl /\ j.mem = "live" /\ j.count = impl[r].count + 1
      /\ j.destroyed = impl[r].destroyed /\ j.freed = impl[r].freed
      /\ j.dangling = impl[r].dangling
  BY <1>1, TakeGive, Zenon
<1> HIDE DEF j
<1>4. impl'[r] = j /\ \A q \in Receivers : q # r => impl'[q] = impl[q]
  BY <1>2 DEF LifetimeInv, TypeOK, j
<1>5. TypeOK'
  BY <1>1, <1>2, <1>3 DEF Grant, LifetimeInv, TypeOK, j
<1>6. CountsAgree'
  <2> SUFFICES ASSUME NEW q \in Receivers PROVE impl'[q].count = Cardinality(OwnedBy(q))'
    BY DEF CountsAgree
  <2>1. impl[q].count = Cardinality(OwnedBy(q)) /\ Cardinality(OwnedBy(q)) \in Nat
    BY OwnedFinite DEF LifetimeInv, CountsAgree
  <2>2. Cardinality(OwnedBy(q))' = Cardinality(OwnedBy(q)) + IF q = r THEN 1 ELSE 0
    BY GrantCounts DEF Grant, LifetimeInv
  <2> QED BY <1>3, <1>4, <2>1, <2>2
<1>7. Lifecycle'
  BY <1>1, <1>3, <1>4 DEF Grant, LifetimeInv, TypeOK, Lifecycle, Free
<1>8. ImplLivesWithItsBlocks'
  <2> SUFFICES ASSUME NEW q \in Receivers
               PROVE  impl'[q].mem = "live" <=> OwnedBy(q)' # {}
    BY DEF ImplLivesWithItsBlocks
  <2>1. (q = r => OwnedBy(q)' # {}) /\ (q # r => OwnedBy(q)' = OwnedBy(q))
    BY GrantCounts DEF Grant, LifetimeInv
  <2> QED BY <1>3, <1>4, <2>1 DEF LifetimeInv, ImplLivesWithItsBlocks
<1> QED BY <1>5, <1>6, <1>7, <1>8 DEF LifetimeInv

(* What a release does to an allocated impl. *)
LEMMA ReleaseFields ==
    ASSUME NEW i \in Impl, i.mem = "live"
    PROVE  /\ ReleaseIfIdle(i) \in Impl
           /\ ReleaseIfIdle(i).count = i.count
           /\ ReleaseIfIdle(i).destroyed = i.destroyed
           /\ ReleaseIfIdle(i).dangling = i.dangling
           /\ i.destroyed /\ i.count = 0 =>
                 ReleaseIfIdle(i).mem = "freed" /\ ReleaseIfIdle(i).freed = i.freed + 1
           /\ ~(i.destroyed /\ i.count = 0) => ReleaseIfIdle(i) = i
<1>1. Touch(i) = i
  BY DEF Touch
<1>2. CASE i.destroyed /\ i.count = 0
  <2>0. PICK f \in Nat : f = i.freed + 1
    BY DEF Impl
  <2> DEFINE j == [i EXCEPT !.mem = "freed", !.freed = f]
  <2>1. /\ j \in Impl /\ j.mem = "freed" /\ j.freed = f /\ j.count = i.count
        /\ j.destroyed = i.destroyed /\ j.dangling = i.dangling
    BY DEF Impl
  <2>2. ReleaseIfIdle(i) = j
    BY <1>1, <1>2, <2>0 DEF ReleaseIfIdle
  <2> HIDE DEF j
  <2> QED BY <1>2, <2>0, <2>1, <2>2, Zenon
<1>3. CASE ~(i.destroyed /\ i.count = 0)
  <2>1. ReleaseIfIdle(i) = i
    BY <1>1, <1>3 DEF ReleaseIfIdle
  <2> QED BY <1>3, <2>1, Zenon
<1> QED BY <1>2, <1>3

(* A handle goes back to its owner q: quota_destroy, and quota_realloc to 0. *)
LEMMA ReturnLifetime ==
    ASSUME LifetimeInv, NEW b \in Blocks, NEW q \in Receivers, owner[b] = q, ctx[q] # b,
           impl' = [impl EXCEPT ![q] = ReleaseIfIdle(Give(impl[q], Charge(size[b])))],
           owner' = [owner EXCEPT ![b] = None], UNCHANGED <<ctx, size, want>>
    PROVE  LifetimeInv'
<1>1. impl[q] \in Impl /\ impl[q].mem = "live" /\ Charge(size[b]) \in Int
  <2>1. b \in OwnedBy(q)
    BY DEF OwnedBy
  <2>2. size[b] \in Nat
    BY DEF LifetimeInv, TypeOK
  <2>3. Charge(size[b]) \in Int
    BY <2>2, ChargeType
  <2> QED BY <2>1, <2>3 DEF LifetimeInv, TypeOK, ImplLivesWithItsBlocks
<1> DEFINE g == Give(impl[q], Charge(size[b]))
           j == ReleaseIfIdle(g)
<1>2. /\ g \in Impl /\ g.mem = "live" /\ g.count = impl[q].count - 1
      /\ g.destroyed = impl[q].destroyed /\ g.freed = impl[q].freed
      /\ g.dangling = impl[q].dangling
  BY <1>1, TakeGive, Zenon
<1> HIDE DEF g
<1>3. /\ j \in Impl /\ j.count = g.count /\ j.destroyed = g.destroyed
      /\ j.dangling = g.dangling
      /\ g.destroyed /\ g.count = 0 => j.mem = "freed" /\ j.freed = g.freed + 1
      /\ ~(g.destroyed /\ g.count = 0) => j = g
  BY <1>2, ReleaseFields, Zenon
<1> HIDE DEF j
<1>4. impl'[q] = j /\ \A s \in Receivers : s # q => impl'[s] = impl[s]
  BY DEF LifetimeInv, TypeOK, j, g
<1>5. TypeOK'
  BY <1>3 DEF LifetimeInv, TypeOK, j, g
<1>6. \A s \in Receivers :
        /\ impl[s].count = Cardinality(OwnedBy(s)) /\ Cardinality(OwnedBy(s)) \in Nat
        /\ Cardinality(OwnedBy(s))' = Cardinality(OwnedBy(s)) - IF s = q THEN 1 ELSE 0
        /\ s # q => OwnedBy(s)' = OwnedBy(s)
  BY OwnedFinite, FreeCounts DEF LifetimeInv, CountsAgree
<1>7. CountsAgree'
  BY <1>2, <1>3, <1>4, <1>6 DEF CountsAgree
<1>8. ctx[q] # None => ctx[q] \in OwnedBy(q)'
  BY DEF LifetimeInv, TypeOK, Lifecycle, OwnedBy
<1>9. Cardinality(OwnedBy(q)') = 0 <=> OwnedBy(q)' = {}
  <2>1. OwnedBy(q)' \subseteq Blocks
    BY DEF OwnedBy
  <2> QED BY <2>1, FS_Subset, FS_EmptySet
<1>10. impl[q].freed = 0 /\ (impl[q].destroyed <=> ctx[q] = None) /\ ~impl[q].dangling
  BY <1>1 DEF LifetimeInv, Lifecycle
<1>11. Lifecycle'
  <2> SUFFICES ASSUME NEW s \in Receivers PROVE Lifecycle!(s)'
    BY DEF Lifecycle
  <2> QED BY <1>2, <1>3, <1>4, <1>10 DEF LifetimeInv, TypeOK, Lifecycle
<1>12. ImplLivesWithItsBlocks'
  BY <1>1, <1>2, <1>3, <1>4, <1>6, <1>8, <1>9, <1>10
     DEF LifetimeInv, ImplLivesWithItsBlocks
<1> QED BY <1>5, <1>7, <1>11, <1>12 DEF LifetimeInv

(* receiver_destroy: its block goes back first, while it is not yet marked,  *)
(* so the first release never fires and the second one sees a live impl.     *)
LEMMA DestroyReceiverLifetime ==
    ASSUME LifetimeInv, NEW r \in Receivers, DestroyReceiver(r)
    PROVE  LifetimeInv'
<1> DEFINE b == ctx[r]
<1>1. /\ impl[r] \in Impl /\ impl[r].mem = "live" /\ ~impl[r].destroyed
      /\ b \in Blocks /\ owner[b] = r /\ size[b] \in Nat
  BY UsableIsLive DEF DestroyReceiver, Usable, LifetimeInv, TypeOK, Lifecycle
<1>2. Charge(size[b]) \in Int
  BY <1>1, ChargeType
<1> DEFINE g == Give(impl[r], Charge(size[b]))
<1>3. /\ g \in Impl /\ g.mem = "live" /\ g.count = impl[r].count - 1
      /\ g.destroyed = impl[r].destroyed /\ g.freed = impl[r].freed
      /\ g.dangling = impl[r].dangling
  BY <1>1, <1>2, TakeGive, Zenon
<1>4. ReleaseIfIdle(g) = g
  BY <1>1, <1>3, ReleaseFields, Zenon
<1> DEFINE m == [g EXCEPT !.destroyed = TRUE]
           j == ReleaseIfIdle(m)
<1>5. impl' = [impl EXCEPT ![r] = j]
  <2>1. Touch(g) = g
    BY <1>3 DEF Touch
  <2> QED BY <1>4, <2>1 DEF DestroyReceiver
<1> HIDE DEF g
<1>6. /\ m \in Impl /\ m.mem = "live" /\ m.count = g.count /\ m.destroyed
      /\ m.freed = g.freed /\ m.dangling = g.dangling
  BY <1>3 DEF Impl
<1> HIDE DEF m
<1>7. /\ j \in Impl /\ j.count = m.count /\ j.destroyed = m.destroyed
      /\ j.dangling = m.dangling
      /\ m.destroyed /\ m.count = 0 => j.mem = "freed" /\ j.freed = m.freed + 1
      /\ ~(m.destroyed /\ m.count = 0) => j = m
  BY <1>6, ReleaseFields, Zenon
<1> HIDE DEF j
<1>8. impl'[r] = j /\ \A s \in Receivers : s # r => impl'[s] = impl[s]
  BY <1>5 DEF LifetimeInv, TypeOK
<1>9. /\ owner' = [owner EXCEPT ![b] = None] /\ ctx' = [ctx EXCEPT ![r] = None]
      /\ size' = size /\ want' = want
  BY DEF DestroyReceiver
<1>10. TypeOK'
  BY <1>1, <1>5, <1>7, <1>9 DEF LifetimeInv, TypeOK
<1>11. \A s \in Receivers :
        /\ impl[s].count = Cardinality(OwnedBy(s)) /\ Cardinality(OwnedBy(s)) \in Nat
        /\ Cardinality(OwnedBy(s))' = Cardinality(OwnedBy(s)) - IF s = r THEN 1 ELSE 0
        /\ s # r => OwnedBy(s)' = OwnedBy(s)
  BY <1>1, <1>9, OwnedFinite, FreeCounts DEF LifetimeInv, CountsAgree
<1>12. CountsAgree'
  BY <1>3, <1>6, <1>7, <1>8, <1>11 DEF CountsAgree
<1>13. Cardinality(OwnedBy(r)') = 0 <=> OwnedBy(r)' = {}
  <2>1. OwnedBy(r)' \subseteq Blocks
    BY DEF OwnedBy
  <2> QED BY <2>1, FS_Subset, FS_EmptySet
<1>14. impl[r].freed = 0 /\ ~impl[r].dangling
  BY <1>1 DEF LifetimeInv, Lifecycle
<1>15. Lifecycle'
  <2> SUFFICES ASSUME NEW s \in Receivers PROVE Lifecycle!(s)'
    BY DEF Lifecycle
  <2>0. j.destroyed /\ ~j.dangling
    BY <1>3, <1>6, <1>7, <1>14, Zenon
  <2>1. CASE s = r
    <3>1. ctx'[r] = None
      BY <1>9 DEF LifetimeInv, TypeOK
    <3>2. (j.mem = "freed" /\ j.freed = 1) \/ (j.mem = "live" /\ j.freed = 0)
      BY <1>3, <1>6, <1>7, <1>14
    <3> QED BY <2>0, <2>1, <3>1, <3>2, <1>8
  <2>2. CASE s # r
    BY <2>2, <1>1, <1>8, <1>9 DEF LifetimeInv, TypeOK, Lifecycle
  <2> QED BY <2>1, <2>2
<1>16. ImplLivesWithItsBlocks'
  BY <1>3, <1>6, <1>7, <1>8, <1>11, <1>13 DEF LifetimeInv, ImplLivesWithItsBlocks
<1> QED BY <1>10, <1>12, <1>15, <1>16 DEF LifetimeInv

(* lql_new *)
LEMMA NewLifetime ==
    ASSUME LifetimeInv, NEW r \in Receivers, NEW b \in Blocks, New(r, b)
    PROVE  LifetimeInv'
<1>1. /\ impl[r] \in Impl /\ impl[r].mem = "none" /\ ctx[r] = None /\ ~impl[r].destroyed
      /\ impl[r].freed = 0 /\ ~impl[r].dangling /\ OwnedBy(r) = {}
  BY DEF New, LifetimeInv, TypeOK, Lifecycle, ImplLivesWithItsBlocks
<1> DEFINE f == [impl[r] EXCEPT !.mem = "live", !.live_bytes = ImplSize]
           j == Take(f, Charge(CtxSize))
<1>2. /\ f \in Impl /\ f.mem = "live" /\ f.count = impl[r].count
      /\ f.destroyed = impl[r].destroyed /\ f.freed = 0 /\ f.dangling = impl[r].dangling
  BY <1>1 DEF Impl
<1>3. impl' = [impl EXCEPT ![r] = j]
  BY DEF New
<1> HIDE DEF f
<1>4. Charge(CtxSize) \in Int /\ CtxSize \in 0 .. (Word - 1)
  BY ChargeType
<1>5. /\ j \in Impl /\ j.mem = "live" /\ j.count = f.count + 1
      /\ j.destroyed = f.destroyed /\ j.freed = f.freed /\ j.dangling = f.dangling
  BY <1>2, <1>4, TakeGive, Zenon
<1> HIDE DEF j
<1>6. impl'[r] = j /\ \A q \in Receivers : q # r => impl'[q] = impl[q]
  BY <1>3 DEF LifetimeInv, TypeOK
<1>7. /\ Free(b) /\ owner' = [owner EXCEPT ![b] = r] /\ ctx' = [ctx EXCEPT ![r] = b]
      /\ size' = [size EXCEPT ![b] = CtxSize] /\ want' = [want EXCEPT ![b] = CtxSize]
  BY DEF New
<1>8. TypeOK'
  BY <1>3, <1>4, <1>5, <1>7 DEF LifetimeInv, TypeOK
<1>9. \A q \in Receivers :
        /\ impl[q].count = Cardinality(OwnedBy(q)) /\ Cardinality(OwnedBy(q)) \in Nat
        /\ Cardinality(OwnedBy(q))' = Cardinality(OwnedBy(q)) + IF q = r THEN 1 ELSE 0
        /\ q = r => OwnedBy(q)' # {}
        /\ q # r => OwnedBy(q)' = OwnedBy(q)
  BY <1>7, OwnedFinite, GrantCounts DEF LifetimeInv, CountsAgree
<1>10. CountsAgree'
  BY <1>2, <1>5, <1>6, <1>9 DEF CountsAgree
<1>11. Lifecycle'
  <2> SUFFICES ASSUME NEW s \in Receivers PROVE Lifecycle!(s)'
    BY DEF Lifecycle
  <2>0. ~j.destroyed /\ ~j.dangling
    BY <1>1, <1>2, <1>5, Zenon
  <2>1. CASE s = r
    <3>1. ctx'[r] = b /\ owner'[b] = r /\ b # None
      BY <1>7 DEF LifetimeInv, TypeOK
    <3> QED BY <2>0, <2>1, <3>1, <1>2, <1>5, <1>6
  <2>2. CASE s # r
    BY <2>2, <1>6, <1>7 DEF LifetimeInv, TypeOK, Lifecycle, Free
  <2> QED BY <2>1, <2>2
<1>12. ImplLivesWithItsBlocks'
  BY <1>5, <1>6, <1>9 DEF LifetimeInv, ImplLivesWithItsBlocks
<1> QED BY <1>8, <1>10, <1>11, <1>12 DEF LifetimeInv

(* quota_realloc to a size that is not zero *)
LEMMA ReallocLifetime ==
    ASSUME LifetimeInv, NEW r \in Receivers, NEW b \in Blocks, NEW n \in Sizes,
           Realloc(r, b, n)
    PROVE  LifetimeInv'
<1>1. impl[r] \in Impl /\ impl[r].mem = "live"
  BY UsableIsLive DEF Realloc, LifetimeInv, TypeOK
<1>2. PICK x \in Int : impl' = [impl EXCEPT ![r] = [impl[r] EXCEPT !.live_bytes = Plus(x, Charge(n))]]
  <2>1. Touch(impl[r]) = impl[r]
    BY <1>1 DEF Touch
  <2>2. impl[r].live_bytes \in Int /\ Charge(size[b]) \in Int
    <3>1. size[b] \in Nat /\ impl[r].live_bytes \in Nat
      BY <1>1 DEF LifetimeInv, TypeOK, Impl
    <3>2. Charge(size[b]) \in 0 .. (Word - 1)
      BY <3>1, ChargeType
    <3> QED BY <3>1, <3>2
  <2>3. Minus(impl[r].live_bytes, Charge(size[b])) \in 0 .. (Word - 1)
    BY <2>2, WordArithmetic, Zenon
  <2>4. impl' = [impl EXCEPT ![r] = [impl[r] EXCEPT !.live_bytes =
                   Plus(Minus(impl[r].live_bytes, Charge(size[b])), Charge(n))]]
    <3>1. impl' = [impl EXCEPT ![r] = Recharge(impl[r], Charge(size[b]), Charge(n))]
      BY DEF Realloc
    <3> QED BY <2>1, <3>1 DEF Recharge
  <2>5. Minus(impl[r].live_bytes, Charge(size[b])) \in Int
    BY <2>3
  <2> QED BY <2>4, <2>5, Zenon
<1>3. PICK y \in Nat : impl' = [impl EXCEPT ![r] = [impl[r] EXCEPT !.live_bytes = y]]
  <2>1. n \in Nat
    OBVIOUS
  <2>2. Charge(n) \in 0 .. (Word - 1)
    BY <2>1, ChargeType
  <2>3. Charge(n) \in Int
    BY <2>2
  <2>4. Plus(x, Charge(n)) \in 0 .. (Word - 1)
    BY <2>3, WordArithmetic, Zenon
  <2>5. Plus(x, Charge(n)) \in Nat
    BY <2>4
  <2> QED BY <1>2, <2>5, Zenon
<1> DEFINE j == [impl[r] EXCEPT !.live_bytes = y]
<1>4. /\ j \in Impl /\ j.mem = impl[r].mem /\ j.count = impl[r].count
      /\ j.destroyed = impl[r].destroyed /\ j.freed = impl[r].freed
      /\ j.dangling = impl[r].dangling
  BY <1>1 DEF Impl
<1>5. impl'[r] = j /\ \A q \in Receivers : q # r => impl'[q] = impl[q]
  BY <1>3 DEF LifetimeInv, TypeOK
<1>6. /\ ctx' = ctx /\ owner' = owner /\ size' = [size EXCEPT ![b] = n]
      /\ want' = [want EXCEPT ![b] = n] /\ n \in 0 .. (Word - 1)
  BY DEF Realloc
<1>7. TypeOK'
  BY <1>3, <1>4, <1>6 DEF LifetimeInv, TypeOK
<1> HIDE DEF j
<1>8. \A q : OwnedBy(q)' = OwnedBy(q)
  BY <1>6 DEF OwnedBy
<1>9. \A q \in Receivers :
        /\ impl'[q].mem = impl[q].mem /\ impl'[q].count = impl[q].count
        /\ impl'[q].destroyed = impl[q].destroyed /\ impl'[q].freed = impl[q].freed
        /\ impl'[q].dangling = impl[q].dangling
  BY <1>4, <1>5
<1>10. CountsAgree'
  BY <1>8, <1>9 DEF LifetimeInv, CountsAgree
<1>11. Lifecycle'
  BY <1>6, <1>9 DEF LifetimeInv, Lifecycle
<1>12. ImplLivesWithItsBlocks'
  BY <1>8, <1>9 DEF LifetimeInv, ImplLivesWithItsBlocks
<1> QED BY <1>7, <1>10, <1>11, <1>12 DEF LifetimeInv

LEMMA NextLifetime == LifetimeInv /\ [Next]_vars => LifetimeInv'
<1> SUFFICES ASSUME LifetimeInv, [Next]_vars PROVE LifetimeInv'
  OBVIOUS
<1>1. ASSUME NEW r \in Receivers, DestroyReceiver(r) PROVE LifetimeInv'
  BY <1>1, DestroyReceiverLifetime
<1>2. ASSUME NEW r \in Receivers, NEW b \in Blocks, New(r, b) PROVE LifetimeInv'
  BY <1>2, NewLifetime
<1>3. ASSUME NEW r \in Receivers, NEW b \in Blocks, NEW n \in Sizes, Alloc(r, b, n)
      PROVE  LifetimeInv'
  <2>1. n \in Nat
    OBVIOUS
  <2> QED BY <1>3, <2>1, GrantLifetime DEF Alloc
<1>4. ASSUME NEW r \in Receivers, NEW b \in Blocks, NEW n \in Sizes, Strdup(r, b, n)
      PROVE  LifetimeInv'
  <2>1. Plus(n, 1) \in Nat /\ n + 1 \in Nat
    BY DEF Plus
  <2> QED BY <1>4, <2>1, GrantLifetime DEF Strdup
<1>5. ASSUME NEW r \in Receivers, NEW b \in Blocks, NEW n \in Sizes, Realloc(r, b, n)
      PROVE  LifetimeInv'
  BY <1>5, ReallocLifetime
<1>6. ASSUME NEW r \in Receivers, NEW b \in Blocks, NEW k \in Counts, NEW n \in Sizes,
             Calloc(r, b, k, n)
      PROVE  LifetimeInv'
  <2>0. k \in Nat /\ n \in Nat
    OBVIOUS
  <2>1. k * n \in Nat
    BY <2>0
  <2>2. Times(k, n) \in Nat
    BY <2>1 DEF Times
  <2> QED BY <1>6, <2>1, <2>2, GrantLifetime DEF Calloc
<1>7. ASSUME NEW r \in Receivers, NEW b \in Blocks, ReallocToZero(r, b) PROVE LifetimeInv'
  BY <1>7, ReturnLifetime DEF ReallocToZero
<1>8. ASSUME NEW r \in Receivers, NEW b \in Blocks, Destroy(r, b) PROVE LifetimeInv'
  <2>1. owner[b] \in Receivers /\ ctx[owner[b]] # b
    BY <1>8 DEF Destroy, Free, LifetimeInv, TypeOK
  <2> QED BY <1>8, <2>1, ReturnLifetime DEF Destroy
<1>9. CASE UNCHANGED vars
  BY <1>9 DEF vars, LifetimeInv, TypeOK, CountsAgree, Lifecycle, ImplLivesWithItsBlocks, OwnedBy
<1> QED BY <1>1, <1>2, <1>3, <1>4, <1>5, <1>6, <1>7, <1>8, <1>9 DEF Next

LEMMA LifetimeInvariant == Spec => []LifetimeInv
<1>1. Init => LifetimeInv
  BY InitLifetime
<1>2. LifetimeInv /\ [Next]_vars => LifetimeInv'
  BY NextLifetime
<1> QED BY <1>1, <1>2, PTL DEF Spec

(* However receivers and handles are destroyed, and through whichever        *)
(* receiver, an impl is allocated exactly while something is charged to it.  *)
THEOREM ImplOutlivesNothing == Spec => []ImplLivesWithItsBlocks
<1>1. LifetimeInv => ImplLivesWithItsBlocks
  BY DEF LifetimeInv
<1> QED BY <1>1, LifetimeInvariant, PTL

(* No sequence of calls frees an impl twice or touches it after its release: *)
(* receiver_destroy gives its block back before it sets receiver_destroyed.  *)
THEOREM ImplIsNeverDangling == Spec => []NoDanglingImpl
<1>1. LifetimeInv => NoDanglingImpl
  BY DEF LifetimeInv, Lifecycle, NoDanglingImpl, TypeOK, Impl
<1> QED BY <1>1, LifetimeInvariant, PTL

-----------------------------------------------------------------------------
(* Arithmetic that does not wrap *)

LEMMA SmallMod == \A a \in 0 .. (Word - 1) : a % Word = a
  OBVIOUS

LEMMA ChargeExact ==
    ASSUME NEW n \in Nat, n + Header < Word PROVE Charge(n) = Header + n
  BY SmallMod DEF Charge, Plus

(* calloc: a product that passes the check by division is exact *)
LEMMA ProductExact ==
    ASSUME NEW k \in Nat, NEW n \in Nat, k # 0 => n <= (Word - 1) \div k
    PROVE  Times(k, n) = k * n
<1>1. CASE k = 0
  <2>1. k * n = 0 /\ 0 \in 0 .. (Word - 1)
    BY <1>1
  <2> QED BY <2>1, SmallMod DEF Times
<1>2. CASE k # 0
  <2>1. PICK q \in Nat : q = (Word - 1) \div k /\ k * q <= Word - 1
    BY <1>2
  <2>2. k * n <= k * q
    BY <1>2, <2>1
  <2>3. k * n \in 0 .. (Word - 1)
    BY <2>1, <2>2
  <2> QED BY <2>3, SmallMod DEF Times
<1> QED BY <1>1, <1>2

-----------------------------------------------------------------------------
(* A sum as a number of cells: header and payload of the blocks of s, when   *)
(* their sizes are f.                                                        *)

Cells(f, s) == {c \in s \X (1 .. (Header + Word)) : c[2] <= Header + f[c[1]]}

LEMMA CellsFinite ==
    ASSUME NEW f, NEW s \in SUBSET Blocks
    PROVE  IsFiniteSet(Cells(f, s)) /\ Cardinality(Cells(f, s)) \in Nat
<1>1. IsFiniteSet(s)
  BY FS_Subset
<1>2. IsFiniteSet(1 .. (Header + Word))
  BY FS_Interval
<1>3. IsFiniteSet(s \X (1 .. (Header + Word)))
  BY <1>1, <1>2, FS_Product
<1>4. Cells(f, s) \subseteq s \X (1 .. (Header + Word))
  BY DEF Cells
<1> QED BY <1>3, <1>4, FS_Subset, FS_CardinalityType

LEMMA CellsAdd ==
    ASSUME NEW f \in [Blocks -> 0 .. (Word - 1)], NEW s \in SUBSET Blocks,
           NEW b \in Blocks, b \notin s
    PROVE  Cardinality(Cells(f, s \cup {b})) = Cardinality(Cells(f, s)) + (Header + f[b])
<1>1. PICK n \in Nat : n = Header + f[b] /\ n <= Header + Word
  OBVIOUS
<1> DEFINE new == {b} \X (1 .. n)
<1>2. Cells(f, s \cup {b}) = Cells(f, s) \cup new
  BY <1>1 DEF Cells
<1>3. Cells(f, s) \cap new = {}
  BY DEF Cells
<1>4. IsFiniteSet(new) /\ Cardinality(new) = n
  <2>1. IsFiniteSet({b}) /\ Cardinality({b}) = 1
    BY FS_Singleton
  <2>2. IsFiniteSet(1 .. n) /\ Cardinality(1 .. n) = n
    <3>1. 1 \in Int /\ n \in Int
      OBVIOUS
    <3>2. IsFiniteSet(1 .. n) /\ Cardinality(1 .. n) = IF 1 > n THEN 0 ELSE n - 1 + 1
      BY <3>1, FS_Interval, Zenon
    <3>3. (IF 1 > n THEN 0 ELSE n - 1 + 1) = n
      OBVIOUS
    <3> QED BY <3>2, <3>3
  <2>3. IsFiniteSet(new) /\ Cardinality(new) = Cardinality({b}) * Cardinality(1 .. n)
    BY <2>1, <2>2, FS_Product
  <2>4. Cardinality(new) = 1 * n
    BY <2>1, <2>2, <2>3
  <2> QED BY <2>3, <2>4
<1> HIDE DEF new
<1>5. IsFiniteSet(Cells(f, s)) /\ Cardinality(Cells(f, s)) \in Nat
  BY CellsFinite
<1>6. Cardinality({}) = 0
  BY FS_EmptySet
<1>7. Cardinality(Cells(f, s) \cup new) = Cardinality(Cells(f, s)) + Cardinality(new)
  <2>1. Cardinality(Cells(f, s) \cup new) =
          Cardinality(Cells(f, s)) + Cardinality(new) - Cardinality(Cells(f, s) \cap new)
    BY <1>4, <1>5, FS_Union
  <2>2. Cardinality(Cells(f, s) \cap new) = 0
    BY <1>3, <1>6, Zenon
  <2> QED BY <1>4, <1>5, <2>1, <2>2
<1> QED BY <1>1, <1>2, <1>4, <1>7

LEMMA CellsNone == ASSUME NEW f PROVE Cardinality(Cells(f, {})) = 0
<1>1. Cells(f, {}) = {}
  BY DEF Cells
<1> QED BY <1>1, FS_EmptySet

(* The cells of s only depend on the sizes of the blocks of s. *)
LEMMA CellsAgree ==
    ASSUME NEW f, NEW g, NEW s \in SUBSET Blocks, \A b \in s : f[b] = g[b]
    PROVE  Cells(f, s) = Cells(g, s)
  BY DEF Cells

-----------------------------------------------------------------------------
(* The sum LedgerExact is stated with is the number of cells.                *)

First(s) == CHOOSE b \in s : TRUE

Summing(f, S, g) ==
    g = [s \in SUBSET S |-> IF s = {} THEN 0
                            ELSE (Header + f[First(s)]) + g[s \ {First(s)}]]

LEMMA CellsSum ==
    ASSUME NEW f \in [Blocks -> 0 .. (Word - 1)], NEW s \in SUBSET Blocks, s # {}
    PROVE  /\ First(s) \in s
           /\ Cardinality(Cells(f, s)) =
                (Header + f[First(s)]) + Cardinality(Cells(f, s \ {First(s)}))
<1>1. First(s) \in s
  BY DEF First
<1>2. PICK b \in Blocks : b = First(s)
  BY <1>1
<1>3. s \ {b} \in SUBSET Blocks /\ b \notin s \ {b} /\ (s \ {b}) \cup {b} = s
  BY <1>1, <1>2
<1>4. Cardinality(Cells(f, s)) = Cardinality(Cells(f, s \ {b})) + (Header + f[b])
  <2>1. PICK t \in SUBSET Blocks : t = s \ {b}
    BY <1>3
  <2>2. Cardinality(Cells(f, t \cup {b})) = Cardinality(Cells(f, t)) + (Header + f[b])
    BY <1>3, <2>1, CellsAdd
  <2> QED BY <1>3, <2>1, <2>2
<1>5. Cardinality(Cells(f, s \ {b})) \in Nat
  BY <1>3, CellsFinite
<1>6. f[b] \in Nat
  OBVIOUS
<1> QED BY <1>1, <1>2, <1>4, <1>5, <1>6

LEMMA SumExists ==
    ASSUME NEW f \in [Blocks -> 0 .. (Word - 1)], NEW S \in SUBSET Blocks
    PROVE  \E g : Summing(f, S, g)
<1> DEFINE g == [s \in SUBSET S |-> Cardinality(Cells(f, s))]
<1>1. ASSUME NEW s \in SUBSET S
      PROVE  g[s] = IF s = {} THEN 0 ELSE (Header + f[First(s)]) + g[s \ {First(s)}]
  <2>1. CASE s = {}
    BY <2>1, CellsNone
  <2>2. CASE s # {}
    <3>1. s \in SUBSET Blocks
      OBVIOUS
    <3>2. g[s] = Cardinality(Cells(f, s))
          /\ g[s \ {First(s)}] = Cardinality(Cells(f, s \ {First(s)}))
      OBVIOUS
    <3> HIDE DEF g
    <3> QED BY <2>2, <3>1, <3>2, CellsSum
  <2> QED BY <2>1, <2>2
<1>2. g = [s \in SUBSET S |-> g[s]]
  OBVIOUS
<1> HIDE DEF g
<1>3. Summing(f, S, g)
  BY <1>1, <1>2 DEF Summing
<1> QED BY <1>3

(* By induction on the number of blocks: a set of least size on which the    *)
(* sum and the number of cells differ is not empty, and without its first    *)
(* block they agree.                                                         *)
LEMMA SumIsCells ==
    ASSUME NEW f \in [Blocks -> 0 .. (Word - 1)], NEW S \in SUBSET Blocks,
           NEW g, Summing(f, S, g)
    PROVE  \A s \in SUBSET S : g[s] = Cardinality(Cells(f, s))
<1> DEFINE wrong == {t \in SUBSET S : g[t] # Cardinality(Cells(f, t))}
           T == {Cardinality(t) : t \in wrong}
<1> SUFFICES ASSUME wrong # {} PROVE FALSE
  OBVIOUS
<1>1. ASSUME NEW t \in SUBSET S PROVE IsFiniteSet(t) /\ Cardinality(t) \in Nat
  BY FS_Subset, FS_CardinalityType
<1>2. T \in SUBSET Nat /\ T # {}
  BY <1>1
<1>3. PICK n \in T : \A m \in T : n <= m
  <2> HIDE DEF T
  <2> QED BY <1>2, LeastElement
<1>4. PICK t \in wrong : n = Cardinality(t) /\ \A u \in wrong : n <= Cardinality(u)
  BY <1>3
<1>5. \A u \in SUBSET S : g[u] = IF u = {} THEN 0
                                 ELSE (Header + f[First(u)]) + g[u \ {First(u)}]
  BY DEF Summing
<1>6. t # {}
  <2>1. g[{}] = Cardinality(Cells(f, {}))
    BY <1>5, CellsNone
  <2> QED BY <2>1
<1>7. PICK u \in SUBSET S : u = t \ {First(t)}
  OBVIOUS
<1>8. First(t) \in t
        /\ Cardinality(Cells(f, t)) = (Header + f[First(t)]) + Cardinality(Cells(f, u))
  BY <1>6, <1>7, CellsSum
<1>9. u \notin wrong
  <2>1. Cardinality(u) = n - 1 /\ n \in Nat
    BY <1>1, <1>4, <1>7, <1>8, FS_RemoveElement
  <2>2. ~(n <= Cardinality(u))
    BY <2>1
  <2> QED BY <1>4, <2>2
<1>10. g[t] = (Header + f[First(t)]) + g[u]
  BY <1>5, <1>6, <1>7
<1>11. g[u] = Cardinality(Cells(f, u))
  BY <1>9
<1> QED BY <1>4, <1>8, <1>10, <1>11

Owed(r) == Cardinality(Cells(size, OwnedBy(r)))

LEMMA LedgerSum ==
    ASSUME TypeOK, NEW r
    PROVE  MapThenSumSet(LAMBDA b : Header + size[b], OwnedBy(r)) = Owed(r)
<1>1. PICK g : g = CHOOSE h : Summing(size, OwnedBy(r), h)
  OBVIOUS
<1>2. MapThenSumSet(LAMBDA b : Header + size[b], OwnedBy(r)) = g[OwnedBy(r)]
  <2>1. MapThenSumSet(LAMBDA b : Header + size[b], OwnedBy(r)) =
          (CHOOSE h : Summing(size, OwnedBy(r), h))[OwnedBy(r)]
    BY SMT DEF MapThenSumSet, MapThenFoldSet, Summing, First
  <2> QED BY <1>1, <2>1
<1>3. size \in [Blocks -> 0 .. (Word - 1)] /\ OwnedBy(r) \in SUBSET Blocks
  BY DEF TypeOK, OwnedBy
<1>4. Summing(size, OwnedBy(r), g)
  BY <1>1, <1>3, SumExists
<1>5. OwnedBy(r) \in SUBSET OwnedBy(r)
  OBVIOUS
<1>6. g[OwnedBy(r)] = Cardinality(Cells(size, OwnedBy(r)))
  <2>1. PICK f \in [Blocks -> 0 .. (Word - 1)], S \in SUBSET Blocks : f = size /\ S = OwnedBy(r)
    BY <1>3, Zenon
  <2>2. Summing(f, S, g) /\ S \in SUBSET S
    BY <1>4, <2>1
  <2>3. \A s \in SUBSET S : g[s] = Cardinality(Cells(f, s))
    BY <2>2, SumIsCells
  <2> QED BY <2>1, <2>2, <2>3
<1> QED BY <1>2, <1>6 DEF Owed

-----------------------------------------------------------------------------
(* The inductive invariant: the ledger, the sizes and the lifetime of impl.  *)

LedgerInv ==
    \A r \in Receivers : impl[r].mem = "live" =>
        impl[r].live_bytes = ImplSize + Owed(r) /\ impl[r].live_bytes <= Limit

QuotaInv == LifetimeInv /\ BlocksAreLargeEnough /\ LedgerInv

LEMMA OwedType == ASSUME NEW r PROVE Owed(r) \in Nat
<1>1. OwnedBy(r) \in SUBSET Blocks
  BY DEF OwnedBy
<1> QED BY <1>1, CellsFinite DEF Owed

(* what is owed when a free block is charged to r *)
LEMMA OwedGrant ==
    ASSUME TypeOK, NEW r \in Receivers, NEW b \in Blocks, Free(b), NEW n \in 0 .. (Word - 1),
           owner' = [owner EXCEPT ![b] = r], size' = [size EXCEPT ![b] = n]
    PROVE  /\ Owed(r)' = Owed(r) + (Header + n)
           /\ \A q \in Receivers \ {r} : Owed(q)' = Owed(q)
<1>1. PICK f \in [Blocks -> 0 .. (Word - 1)], g \in [Blocks -> 0 .. (Word - 1)] :
        f = size /\ g = size' /\ g[b] = n /\ \A c \in Blocks \ {b} : g[c] = f[c]
  BY DEF TypeOK
<1>2. PICK S \in SUBSET Blocks : S = OwnedBy(r) /\ b \notin S /\ OwnedBy(r)' = S \cup {b}
  <2>1. OwnedBy(r) \subseteq Blocks /\ b \notin OwnedBy(r) /\ OwnedBy(r)' = OwnedBy(r) \cup {b}
    BY DEF OwnedBy, TypeOK, Free
  <2> QED BY <2>1
<1>3. \A q \in Receivers \ {r} : b \notin OwnedBy(q) /\ OwnedBy(q)' = OwnedBy(q)
  BY DEF OwnedBy, TypeOK, Free
<1>4. Cells(g, S) = Cells(f, S)
  <2>1. \A c \in S : g[c] = f[c]
    BY <1>1, <1>2
  <2> QED BY <2>1, CellsAgree
<1>5. Cardinality(Cells(g, S \cup {b})) = Cardinality(Cells(g, S)) + (Header + g[b])
  BY <1>2, CellsAdd
<1>6. Owed(r)' = Owed(r) + (Header + n)
  BY <1>1, <1>2, <1>4, <1>5 DEF Owed
<1>7. ASSUME NEW q \in Receivers \ {r} PROVE Owed(q)' = Owed(q)
  <2>1. PICK Q \in SUBSET Blocks : Q = OwnedBy(q) /\ b \notin Q /\ OwnedBy(q)' = Q
    BY <1>3 DEF OwnedBy
  <2>2. \A c \in Q : g[c] = f[c]
    BY <1>1, <2>1
  <2>3. Cells(g, Q) = Cells(f, Q)
    BY <2>2, CellsAgree
  <2> QED BY <1>1, <2>1, <2>3 DEF Owed
<1> QED BY <1>6, <1>7

(* and when a block of r goes back *)
LEMMA OwedReturn ==
    ASSUME TypeOK, NEW r \in Receivers, NEW b \in Blocks, owner[b] = r,
           owner' = [owner EXCEPT ![b] = None], size' = size
    PROVE  /\ Owed(r) = Owed(r)' + (Header + size[b]) /\ Owed(r)' \in Nat
           /\ \A q \in Receivers \ {r} : Owed(q)' = Owed(q)
<1>1. PICK f \in [Blocks -> 0 .. (Word - 1)] : f = size /\ f = size'
  BY DEF TypeOK
<1>2. PICK S \in SUBSET Blocks : S = OwnedBy(r)' /\ b \notin S /\ OwnedBy(r) = S \cup {b}
  <2>1. OwnedBy(r)' \subseteq Blocks /\ b \notin OwnedBy(r)' /\ OwnedBy(r) = OwnedBy(r)' \cup {b}
    BY DEF OwnedBy, TypeOK
  <2> QED BY <2>1
<1>3. \A q \in Receivers \ {r} : OwnedBy(q)' = OwnedBy(q)
  BY DEF OwnedBy, TypeOK
<1>4. Cardinality(Cells(f, S \cup {b})) = Cardinality(Cells(f, S)) + (Header + f[b])
  BY <1>2, CellsAdd
<1>5. Cardinality(Cells(f, S)) \in Nat
  BY CellsFinite
<1>6. Owed(r) = Owed(r)' + (Header + size[b]) /\ Owed(r)' \in Nat
  BY <1>1, <1>2, <1>4, <1>5 DEF Owed
<1>7. \A q \in Receivers \ {r} : Owed(q)' = Owed(q)
  BY <1>1, <1>3 DEF Owed
<1> QED BY <1>6, <1>7

(* and when a block of r changes its size *)
LEMMA OwedResize ==
    ASSUME TypeOK, NEW r \in Receivers, NEW b \in Blocks, owner[b] = r,
           NEW n \in 0 .. (Word - 1), owner' = owner, size' = [size EXCEPT ![b] = n]
    PROVE  /\ \E o \in Nat : /\ Owed(r) = o + (Header + size[b])
                             /\ Owed(r)' = o + (Header + n)
           /\ \A q \in Receivers \ {r} : Owed(q)' = Owed(q)
<1>1. PICK f \in [Blocks -> 0 .. (Word - 1)], g \in [Blocks -> 0 .. (Word - 1)] :
        f = size /\ g = size' /\ g[b] = n /\ \A c \in Blocks \ {b} : g[c] = f[c]
  BY DEF TypeOK
<1>2. PICK S \in SUBSET Blocks : S = OwnedBy(r) \ {b} /\ b \notin S /\ OwnedBy(r) = S \cup {b}
                                 /\ OwnedBy(r)' = S \cup {b}
  <2>1. OwnedBy(r) \subseteq Blocks /\ b \in OwnedBy(r) /\ OwnedBy(r)' = OwnedBy(r)
    BY DEF OwnedBy
  <2>2. OwnedBy(r) = (OwnedBy(r) \ {b}) \cup {b}
    BY <2>1
  <2> QED BY <2>1, <2>2
<1>3. \A q \in Receivers \ {r} : b \notin OwnedBy(q) /\ OwnedBy(q)' = OwnedBy(q)
  BY DEF OwnedBy
<1>4. Cells(g, S) = Cells(f, S)
  <2>1. \A c \in S : g[c] = f[c]
    BY <1>1, <1>2
  <2> QED BY <2>1, CellsAgree
<1>5. Cardinality(Cells(f, S \cup {b})) = Cardinality(Cells(f, S)) + (Header + f[b])
  BY <1>2, CellsAdd
<1>6. Cardinality(Cells(g, S \cup {b})) = Cardinality(Cells(g, S)) + (Header + g[b])
  BY <1>2, CellsAdd
<1>7. Cardinality(Cells(f, S)) \in Nat
  BY CellsFinite
<1>8. \E o \in Nat : Owed(r) = o + (Header + size[b]) /\ Owed(r)' = o + (Header + n)
  BY <1>1, <1>2, <1>4, <1>5, <1>6, <1>7 DEF Owed
<1>9. ASSUME NEW q \in Receivers \ {r} PROVE Owed(q)' = Owed(q)
  <2>1. PICK Q \in SUBSET Blocks : Q = OwnedBy(q) /\ b \notin Q /\ OwnedBy(q)' = Q
    BY <1>3 DEF OwnedBy
  <2>2. \A c \in Q : g[c] = f[c]
    BY <1>1, <2>1
  <2>3. Cells(g, Q) = Cells(f, Q)
    BY <2>2, CellsAgree
  <2> QED BY <1>1, <2>1, <2>3 DEF Owed
<1> QED BY <1>8, <1>9

-----------------------------------------------------------------------------
(* Every action keeps the ledger *)

LEMMA BytesTakeGive ==
    ASSUME NEW i \in Impl, i.mem = "live", NEW n
    PROVE  /\ Take(i, n).live_bytes = Plus(i.live_bytes, n)
           /\ Give(i, n).live_bytes = Minus(i.live_bytes, n)
<1>1. Touch(i) = i
  BY DEF Touch
<1>2. PICK x, y, c, d : /\ x = Plus(i.live_bytes, n) /\ y = Minus(i.live_bytes, n)
                        /\ c = i.count + 1 /\ d = i.count - 1
  OBVIOUS
<1>3. /\ Take(i, n) = [i EXCEPT !.live_bytes = x, !.count = c]
      /\ Give(i, n) = [i EXCEPT !.live_bytes = y, !.count = d]
  BY <1>1, <1>2 DEF Take, Give
<1>4. /\ [i EXCEPT !.live_bytes = x, !.count = c].live_bytes = x
      /\ [i EXCEPT !.live_bytes = y, !.count = d].live_bytes = y
  BY Zenon DEF Impl
<1> QED BY <1>2, <1>3, <1>4

LEMMA InitLedger == Init => LedgerInv /\ BlocksAreLargeEnough
  BY DEF Init, LedgerInv, BlocksAreLargeEnough, Free

(* A block is granted: the charge and its sum with the ledger do not wrap,   *)
(* and the ledger stays within the limit.                                    *)
LEMMA LedgerGrown ==
    ASSUME QuotaInv, NEW r \in Receivers, NEW b \in Blocks, Free(b),
           NEW n \in Nat, NEW m \in Nat, m <= n, n <= Word - 1 - Header,
           owner' = [owner EXCEPT ![b] = r], size' = [size EXCEPT ![b] = n],
           want' = [want EXCEPT ![b] = m],
           NEW old \in Nat, old = ImplSize + Owed(r), old <= Limit,
           Charge(n) <= Minus(Limit, old),
           impl'[r].live_bytes = Plus(old, Charge(n)),
           \A q \in Receivers \ {r} : impl'[q] = impl[q]
    PROVE  LedgerInv' /\ BlocksAreLargeEnough'
<1>1. n \in 0 .. (Word - 1) /\ Charge(n) = Header + n
  BY ChargeExact
<1>2. /\ Owed(r)' = Owed(r) + (Header + n) /\ Owed(r) \in Nat
      /\ \A q \in Receivers \ {r} : Owed(q)' = Owed(q)
  BY <1>1, OwedGrant, OwedType DEF QuotaInv, LifetimeInv
<1>3. Minus(Limit, old) = Limit - old
  BY SmallMod DEF Minus
<1>4. old + (Header + n) <= Limit
  BY <1>1, <1>3
<1>5. Plus(old, Charge(n)) = old + (Header + n)
  BY <1>1, <1>4, SmallMod DEF Plus
<1>6. impl'[r].live_bytes = ImplSize + Owed(r)' /\ impl'[r].live_bytes <= Limit
  BY <1>2, <1>4, <1>5
<1>7. LedgerInv'
  BY <1>2, <1>6 DEF QuotaInv, LedgerInv
<1>8. BlocksAreLargeEnough'
  BY DEF QuotaInv, BlocksAreLargeEnough, LifetimeInv, TypeOK, Free
<1> QED BY <1>7, <1>8

LEMMA GrantLedger ==
    ASSUME QuotaInv, NEW r \in Receivers, NEW b \in Blocks, NEW n \in Nat, NEW m \in Nat,
           m <= n, Grant(r, b, n, m)
    PROVE  LedgerInv' /\ BlocksAreLargeEnough'
<1>1. impl[r].mem = "live" /\ impl[r] \in Impl /\ impl[r].live_bytes \in Nat
  <2>1. impl[r].mem = "live" /\ impl[r] \in Impl
    BY UsableIsLive DEF Grant, QuotaInv, LifetimeInv, TypeOK
  <2> QED BY <2>1 DEF Impl
<1>2. PICK old \in Nat : old = impl[r].live_bytes /\ old = ImplSize + Owed(r) /\ old <= Limit
  BY <1>1 DEF QuotaInv, LedgerInv
<1>3. impl'[r] = Take(impl[r], Charge(n)) /\ \A q \in Receivers \ {r} : impl'[q] = impl[q]
  BY DEF Grant, QuotaInv, LifetimeInv, TypeOK
<1>4. impl'[r].live_bytes = Plus(old, Charge(n))
  BY <1>1, <1>2, <1>3, BytesTakeGive
<1>5. n <= Word - 1 - Header /\ Charge(n) <= Minus(Limit, old)
  BY <1>2 DEF Grant, Fits
<1> QED BY <1>2, <1>3, <1>4, <1>5, LedgerGrown DEF Grant

LEMMA NewLedger ==
    ASSUME QuotaInv, NEW r \in Receivers, NEW b \in Blocks, New(r, b)
    PROVE  LedgerInv' /\ BlocksAreLargeEnough'
<1> DEFINE f == [impl[r] EXCEPT !.mem = "live", !.live_bytes = ImplSize]
<1>1. impl[r] \in Impl /\ OwnedBy(r) = {}
  BY DEF New, QuotaInv, LifetimeInv, TypeOK, ImplLivesWithItsBlocks
<1>2. f \in Impl /\ f.mem = "live" /\ f.live_bytes = ImplSize
  BY <1>1 DEF Impl
<1>3. Fits(f, CtxSize) /\ impl' = [impl EXCEPT ![r] = Take(f, Charge(CtxSize))]
  BY DEF New
<1> HIDE DEF f
<1>4. impl'[r].live_bytes = Plus(ImplSize, Charge(CtxSize))
      /\ \A q \in Receivers \ {r} : impl'[q] = impl[q]
  BY <1>2, <1>3, BytesTakeGive DEF QuotaInv, LifetimeInv, TypeOK
<1>5. ImplSize = ImplSize + Owed(r)
  BY <1>1, CellsNone DEF Owed
<1>6. CtxSize <= Word - 1 - Header /\ Charge(CtxSize) <= Minus(Limit, ImplSize)
  BY <1>2, <1>3 DEF Fits
<1>7. ImplSize <= Limit /\ CtxSize <= CtxSize
  OBVIOUS
<1> QED BY <1>4, <1>5, <1>6, <1>7, LedgerGrown DEF New

(* A block goes back: its charge is part of the ledger. *)
LEMMA LedgerShrunk ==
    ASSUME QuotaInv, NEW r \in Receivers, NEW b \in Blocks, owner[b] = r,
           owner' = [owner EXCEPT ![b] = None], size' = size, want' = want,
           impl'[r].mem = "live" =>
             impl'[r].live_bytes = Minus(impl[r].live_bytes, Charge(size[b])),
           \A q \in Receivers \ {r} : impl'[q] = impl[q]
    PROVE  LedgerInv' /\ BlocksAreLargeEnough'
<1>1. size[b] \in Nat /\ size[b] + Header < Word
  <2>1. size[b] \in 0 .. (Word - 1) /\ ~Free(b)
    BY DEF QuotaInv, LifetimeInv, TypeOK, Free
  <2> QED BY <2>1 DEF QuotaInv, BlocksAreLargeEnough
<1>2. Charge(size[b]) = Header + size[b]
  BY <1>1, ChargeExact
<1>3. impl[r].live_bytes = ImplSize + Owed(r) /\ impl[r].live_bytes <= Limit
  <2>1. b \in OwnedBy(r)
    BY DEF OwnedBy
  <2>2. impl[r].mem = "live"
    BY <2>1 DEF QuotaInv, LifetimeInv, ImplLivesWithItsBlocks
  <2> QED BY <2>2 DEF QuotaInv, LedgerInv
<1>4. /\ Owed(r) = Owed(r)' + (Header + size[b]) /\ Owed(r)' \in Nat
      /\ \A q \in Receivers \ {r} : Owed(q)' = Owed(q)
  BY OwedReturn DEF QuotaInv, LifetimeInv
<1>5. Minus(impl[r].live_bytes, Charge(size[b])) = ImplSize + Owed(r)'
  <2>1. PICK o \in Nat, z \in Nat : o = Owed(r)' /\ z = size[b]
    BY <1>1, <1>4
  <2>2. impl[r].live_bytes - Charge(size[b]) = ImplSize + o
    BY <1>2, <1>3, <1>4, <2>1
  <2>3. ImplSize + o \in 0 .. (Word - 1)
    BY <1>3, <1>4, <2>1
  <2> QED BY <2>1, <2>2, <2>3, SmallMod DEF Minus
<1>6. ImplSize + Owed(r)' <= Limit
  BY <1>1, <1>3, <1>4
<1>7. LedgerInv'
  BY <1>4, <1>5, <1>6 DEF QuotaInv, LedgerInv
<1>8. BlocksAreLargeEnough'
  BY DEF QuotaInv, BlocksAreLargeEnough, LifetimeInv, TypeOK, Free
<1> QED BY <1>7, <1>8

LEMMA ReturnLedger ==
    ASSUME QuotaInv, NEW b \in Blocks, NEW q \in Receivers, owner[b] = q,
           impl' = [impl EXCEPT ![q] = ReleaseIfIdle(Give(impl[q], Charge(size[b])))],
           owner' = [owner EXCEPT ![b] = None], UNCHANGED <<ctx, size, want>>
    PROVE  LedgerInv' /\ BlocksAreLargeEnough'
<1>1. impl[q] \in Impl /\ impl[q].mem = "live" /\ Charge(size[b]) \in Int
  <2>1. b \in OwnedBy(q) /\ size[b] \in Nat
    BY DEF OwnedBy, QuotaInv, LifetimeInv, TypeOK
  <2>2. Charge(size[b]) \in Int
    BY <2>1, ChargeType
  <2> QED BY <2>1, <2>2 DEF QuotaInv, LifetimeInv, TypeOK, ImplLivesWithItsBlocks
<1>2. PICK g \in Impl : /\ g = Give(impl[q], Charge(size[b])) /\ g.mem = "live"
                        /\ g.live_bytes = Minus(impl[q].live_bytes, Charge(size[b]))
  BY <1>1, TakeGive, BytesTakeGive, Zenon
<1>3. ReleaseIfIdle(g).mem = "freed" \/ ReleaseIfIdle(g) = g
  BY <1>2, ReleaseFields, Zenon
<1>4. impl'[q] = ReleaseIfIdle(g) /\ \A s \in Receivers \ {q} : impl'[s] = impl[s]
  BY <1>2 DEF QuotaInv, LifetimeInv, TypeOK
<1>5. impl'[q].mem = "live" => impl'[q].live_bytes = Minus(impl[q].live_bytes, Charge(size[b]))
  BY <1>2, <1>3, <1>4
<1> QED BY <1>4, <1>5, LedgerShrunk

LEMMA DestroyReceiverLedger ==
    ASSUME QuotaInv, NEW r \in Receivers, DestroyReceiver(r)
    PROVE  LedgerInv' /\ BlocksAreLargeEnough'
<1>1. PICK b \in Blocks : b = ctx[r] /\ owner[b] = r /\ size[b] \in Nat
  BY UsableIsLive DEF DestroyReceiver, Usable, QuotaInv, LifetimeInv, TypeOK, Lifecycle
<1>2. impl[r] \in Impl /\ impl[r].mem = "live" /\ ~impl[r].destroyed
  BY UsableIsLive DEF DestroyReceiver, QuotaInv, LifetimeInv, TypeOK
<1>3. Charge(size[b]) \in Int
  BY <1>1, ChargeType
<1>4. PICK g \in Impl : /\ g = Give(impl[r], Charge(size[b])) /\ g.mem = "live" /\ ~g.destroyed
                        /\ g.live_bytes = Minus(impl[r].live_bytes, Charge(size[b]))
  <2>1. PICK g : g = Give(impl[r], Charge(size[b]))
    OBVIOUS
  <2>2. g \in Impl /\ g.mem = "live" /\ g.destroyed = impl[r].destroyed
    BY <1>2, <1>3, <2>1, TakeGive, Zenon
  <2>3. g.live_bytes = Minus(impl[r].live_bytes, Charge(size[b]))
    BY <1>2, <2>1, BytesTakeGive, Zenon
  <2> QED BY <1>2, <2>1, <2>2, <2>3
<1>5. ReleaseIfIdle(g) = g /\ Touch(g) = g
  BY <1>4, ReleaseFields DEF Touch
<1>6. PICK m \in Impl : /\ m = [g EXCEPT !.destroyed = TRUE] /\ m.mem = "live"
                        /\ m.live_bytes = g.live_bytes
  <2>1. PICK m : m = [g EXCEPT !.destroyed = TRUE]
    OBVIOUS
  <2>2. m \in Impl /\ m.mem = g.mem /\ m.live_bytes = g.live_bytes
    BY <2>1 DEF Impl
  <2> QED BY <1>4, <2>1, <2>2
<1>7. ReleaseIfIdle(m).mem = "freed" \/ ReleaseIfIdle(m) = m
  BY <1>6, ReleaseFields, Zenon
<1>8. impl' = [impl EXCEPT ![r] = ReleaseIfIdle(m)]
  BY <1>1, <1>4, <1>5, <1>6 DEF DestroyReceiver
<1>9. impl'[r] = ReleaseIfIdle(m) /\ \A s \in Receivers \ {r} : impl'[s] = impl[s]
  BY <1>8 DEF QuotaInv, LifetimeInv, TypeOK
<1>10. impl'[r].mem = "live" => impl'[r].live_bytes = Minus(impl[r].live_bytes, Charge(size[b]))
  BY <1>4, <1>6, <1>7, <1>9
<1>11. owner' = [owner EXCEPT ![b] = None] /\ size' = size /\ want' = want
  BY <1>1 DEF DestroyReceiver
<1> QED BY <1>1, <1>9, <1>10, <1>11, LedgerShrunk

(* quota_realloc checks the growth against what is left of the quota *)
LEMMA ReallocLedger ==
    ASSUME QuotaInv, NEW r \in Receivers, NEW b \in Blocks, NEW n \in Sizes, Realloc(r, b, n)
    PROVE  LedgerInv' /\ BlocksAreLargeEnough'
<1>1. impl[r] \in Impl /\ impl[r].mem = "live" /\ owner[b] = r /\ n \in 0 .. (Word - 1)
  BY UsableIsLive DEF Realloc, QuotaInv, LifetimeInv, TypeOK
<1>2. size[b] \in Nat /\ size[b] + Header < Word
  <2>1. size[b] \in 0 .. (Word - 1) /\ ~Free(b)
    BY <1>1 DEF QuotaInv, LifetimeInv, TypeOK, Free
  <2> QED BY <2>1 DEF QuotaInv, BlocksAreLargeEnough
<1>3. n \in Nat /\ n <= Word - 1 - Header
  BY <1>1 DEF Realloc
<1>4. Charge(size[b]) = Header + size[b] /\ Charge(n) = Header + n
  BY <1>2, <1>3, ChargeExact
<1>5. impl[r].live_bytes = ImplSize + Owed(r) /\ impl[r].live_bytes <= Limit
  BY <1>1 DEF QuotaInv, LedgerInv
<1>6. /\ owner' = owner /\ size' = [size EXCEPT ![b] = n] /\ want' = [want EXCEPT ![b] = n]
      /\ impl' = [impl EXCEPT ![r] = Recharge(impl[r], Charge(size[b]), Charge(n))]
      /\ Charge(n) > Charge(size[b]) =>
           Minus(Charge(n), Charge(size[b])) <= Minus(Limit, impl[r].live_bytes)
  BY DEF Realloc
<1>7. PICK o \in Nat : Owed(r) = o + (Header + size[b]) /\ Owed(r)' = o + (Header + n)
  BY <1>1, <1>6, OwedResize DEF QuotaInv, LifetimeInv
<1>8. \A q \in Receivers \ {r} : Owed(q)' = Owed(q)
  BY <1>1, <1>6, OwedResize DEF QuotaInv, LifetimeInv
<1>9. PICK z \in Nat, l \in Nat : z = size[b] /\ l = impl[r].live_bytes /\ l = ImplSize + o + Header + z
                                  /\ l <= Limit
  <2>1. PICK z \in Nat : z = size[b]
    BY <1>2
  <2>2. PICK l \in Nat : l = ImplSize + o + Header + z
    OBVIOUS
  <2>3. impl[r].live_bytes = l
    BY <1>5, <1>7, <2>1, <2>2
  <2> QED BY <1>5, <2>1, <2>2, <2>3
<1>10. Minus(l, Header + z) = ImplSize + o
  <2>1. l - (Header + z) = ImplSize + o /\ ImplSize + o \in 0 .. (Word - 1)
    BY <1>9
  <2> QED BY <2>1, SmallMod DEF Minus
<1>11. ImplSize + o + Header + n <= Limit
  <2>1. CASE n <= z
    BY <1>3, <1>9, <2>1
  <2>2. CASE n > z
    <3>1. Minus(Header + n, Header + z) = n - z
      <4>1. (Header + n) - (Header + z) = n - z /\ n - z \in 0 .. (Word - 1)
        BY <1>1, <1>9, <2>2
      <4> QED BY <4>1, SmallMod DEF Minus
    <3>2. Minus(Limit, l) = Limit - l
      <4>1. Limit - l \in 0 .. (Word - 1)
        BY <1>9
      <4> QED BY <4>1, SmallMod DEF Minus
    <3>3. Minus(Header + n, Header + z) <= Minus(Limit, l)
      <4>1. Header + n > Header + z
        BY <1>3, <2>2
      <4> QED BY <1>4, <1>6, <1>9, <4>1
    <3> QED BY <1>3, <1>9, <3>1, <3>2, <3>3
  <2> QED BY <1>3, <2>1, <2>2
<1>12. Plus(ImplSize + o, Header + n) = ImplSize + o + Header + n
  <2>1. (ImplSize + o) + (Header + n) = ImplSize + o + Header + n
        /\ ImplSize + o + Header + n \in 0 .. (Word - 1)
    BY <1>3, <1>11
  <2> QED BY <2>1, SmallMod DEF Plus
<1>13. impl'[r].live_bytes = Plus(Minus(l, Header + z), Header + n)
       /\ \A q \in Receivers \ {r} : impl'[q] = impl[q]
  <2>1. Touch(impl[r]) = impl[r]
    BY <1>1 DEF Touch
  <2>2. PICK x : x = Plus(Minus(l, Header + z), Header + n)
    OBVIOUS
  <2>3. Recharge(impl[r], Charge(size[b]), Charge(n)) = [impl[r] EXCEPT !.live_bytes = x]
    BY <1>4, <1>9, <2>1, <2>2 DEF Recharge
  <2>4. [impl[r] EXCEPT !.live_bytes = x].live_bytes = x
    BY <1>1, Zenon DEF Impl
  <2>5. impl'[r] = [impl[r] EXCEPT !.live_bytes = x]
        /\ \A q \in Receivers \ {r} : impl'[q] = impl[q]
    BY <1>6, <2>3 DEF QuotaInv, LifetimeInv, TypeOK
  <2> QED BY <2>2, <2>4, <2>5
<1>14. impl'[r].live_bytes = ImplSize + Owed(r)' /\ impl'[r].live_bytes <= Limit
  <2>1. impl'[r].live_bytes = ImplSize + o + Header + n
    BY <1>10, <1>12, <1>13
  <2> QED BY <1>3, <1>7, <1>11, <2>1
<1>15. LedgerInv'
  BY <1>8, <1>13, <1>14 DEF QuotaInv, LedgerInv
<1>16. BlocksAreLargeEnough'
  BY <1>3, <1>6 DEF QuotaInv, BlocksAreLargeEnough, LifetimeInv, TypeOK, Free
<1> QED BY <1>15, <1>16

LEMMA NextQuota == QuotaInv /\ [Next]_vars => QuotaInv'
<1> SUFFICES ASSUME QuotaInv, [Next]_vars PROVE LedgerInv' /\ BlocksAreLargeEnough'
  BY NextLifetime DEF QuotaInv
<1>1. ASSUME NEW r \in Receivers, DestroyReceiver(r) PROVE LedgerInv' /\ BlocksAreLargeEnough'
  BY <1>1, DestroyReceiverLedger
<1>2. ASSUME NEW r \in Receivers, NEW b \in Blocks, New(r, b)
      PROVE  LedgerInv' /\ BlocksAreLargeEnough'
  BY <1>2, NewLedger
<1>3. ASSUME NEW r \in Receivers, NEW b \in Blocks, NEW n \in Sizes, Alloc(r, b, n)
      PROVE  LedgerInv' /\ BlocksAreLargeEnough'
  <2>1. n \in Nat /\ n <= n
    OBVIOUS
  <2> QED BY <1>3, <2>1, GrantLedger DEF Alloc
<1>4. ASSUME NEW r \in Receivers, NEW b \in Blocks, NEW n \in Sizes, Strdup(r, b, n)
      PROVE  LedgerInv' /\ BlocksAreLargeEnough'
  <2>1. n + 1 \in 0 .. (Word - 1)
    BY <1>4 DEF Strdup
  <2>2. Plus(n, 1) = n + 1
    BY <2>1, SmallMod DEF Plus
  <2>3. PICK m \in Nat : m = n + 1 /\ m <= m
    BY <2>1
  <2>4. Grant(r, b, m, m)
    BY <1>4, <2>2, <2>3 DEF Strdup
  <2> QED BY <2>3, <2>4, GrantLedger
<1>5. ASSUME NEW r \in Receivers, NEW b \in Blocks, NEW n \in Sizes, Realloc(r, b, n)
      PROVE  LedgerInv' /\ BlocksAreLargeEnough'
  BY <1>5, ReallocLedger
<1>6. ASSUME NEW r \in Receivers, NEW b \in Blocks, NEW k \in Counts, NEW n \in Sizes,
             Calloc(r, b, k, n)
      PROVE  LedgerInv' /\ BlocksAreLargeEnough'
  <2>1. k \in Nat /\ n \in Nat /\ (k # 0 => n <= (Word - 1) \div k)
    BY <1>6 DEF Calloc
  <2>2. PICK m \in Nat : m = k * n /\ m <= m
    BY <2>1
  <2>3. Times(k, n) = m
    BY <2>1, <2>2, ProductExact
  <2>4. Grant(r, b, m, m)
    BY <1>6, <2>2, <2>3 DEF Calloc
  <2> QED BY <2>2, <2>4, GrantLedger
<1>7. ASSUME NEW r \in Receivers, NEW b \in Blocks, ReallocToZero(r, b)
      PROVE  LedgerInv' /\ BlocksAreLargeEnough'
  BY <1>7, ReturnLedger DEF ReallocToZero
<1>8. ASSUME NEW r \in Receivers, NEW b \in Blocks, Destroy(r, b)
      PROVE  LedgerInv' /\ BlocksAreLargeEnough'
  <2>1. owner[b] \in Receivers
    BY <1>8 DEF Destroy, Free, QuotaInv, LifetimeInv, TypeOK
  <2> QED BY <1>8, <2>1, ReturnLedger DEF Destroy
<1>9. CASE UNCHANGED vars
  BY <1>9 DEF vars, QuotaInv, LedgerInv, BlocksAreLargeEnough, Free, Owed, Cells, OwnedBy
<1> QED BY <1>1, <1>2, <1>3, <1>4, <1>5, <1>6, <1>7, <1>8, <1>9 DEF Next

LEMMA QuotaInvariant == Spec => []QuotaInv
<1>1. Init => QuotaInv
  BY InitLifetime, InitLedger DEF QuotaInv
<1> QED BY <1>1, NextQuota, PTL DEF Spec

-----------------------------------------------------------------------------
(* The theorems *)

(* Whatever is allocated, resized and freed, through whichever receiver and  *)
(* in whatever order, live_bytes of quota_alloc, quota_realloc and           *)
(* quota_destroy is exactly the sum of what is charged, and within           *)
(* LQL_INSTANCE_MEMORY_LIMIT_BYTES.                                          *)
THEOREM QuotaLedgerExact == Spec => []LedgerExact
<1>1. QuotaInv => LedgerExact
  <2> SUFFICES ASSUME QuotaInv, NEW r \in Receivers, impl[r].mem = "live"
               PROVE  /\ impl[r].live_bytes =
                           ImplSize + MapThenSumSet(LAMBDA b : Header + size[b], OwnedBy(r))
                      /\ impl[r].live_bytes <= Limit
    BY Zenon DEF LedgerExact
  <2>1. MapThenSumSet(LAMBDA b : Header + size[b], OwnedBy(r)) = Owed(r)
    BY LedgerSum DEF QuotaInv, LifetimeInv
  <2>2. impl[r].live_bytes = ImplSize + Owed(r) /\ impl[r].live_bytes <= Limit
    BY DEF QuotaInv, LedgerInv
  <2> QED BY <2>1, <2>2, Zenon
<1> QED BY <1>1, QuotaInvariant, PTL

(* The checks quota_alloc, quota_calloc and quota_strdup make before they    *)
(* add or multiply are enough: no block is smaller than the caller meant.    *)
THEOREM QuotaBlocksAreLargeEnough == Spec => []BlocksAreLargeEnough
<1>1. QuotaInv => BlocksAreLargeEnough
  BY DEF QuotaInv
<1> QED BY <1>1, QuotaInvariant, PTL
=============================================================================
